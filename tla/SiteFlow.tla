------------------------------ MODULE SiteFlow ------------------------------
(***************************************************************************)
(* What editors do to one website at once: save page drafts (builder),     *)
(* publish, roll back, propose and apply a migration, and delete unused    *)
(* data (release).  Each command is a request in steps; a step is one query *)
(* or the commit of one transaction.  A request may be lost anywhere: its  *)
(* server stops, or a query fails and the command answers with the error.  *)
(***************************************************************************)
EXTENDS SiteStore

CONSTANTS
    Editors,      \* who has a request under way
    FirstTree     \* FirstTree[p]: what p holds when its page is created

Ops == {"create", "save", "publish", "rollback", "propose", "apply", "delete"}

\* A website of the instance: the commands its editors issue, the pages made with it
\* and those made later, the trees they save, the resolutions, and bounds: the versions of a page that
\* is opened, the releases made, the component versions deployed.
Site == [commands: SUBSET Ops, first: SUBSET Pages, later: SUBSET Pages,
         trees: SUBSET Trees, resolutions: SUBSET Resolutions,
         versions: Nat, releases: Nat, catalogs: Versions]

\* A save: the revision the editor opened, and what is to be written over it.
Save == [op: {"save"}, phase: {"check", "write"}, page: Pages,
         version: Versions, base: Trees, next: Trees, full: BOOLEAN]
\* A publish: the drafts and the latest number it read.
Publish == [op: {"publish"}, phase: {"live", "number", "commit"},
            snapshot: Snapshot, pin: Versions, latest: Nat]
Rollback == [op: {"rollback"}, phase: {"previous", "commit"},
             target: ReleaseIds, previous: ReleaseIds \cup {None}]
Propose == [op: {"propose"}, phase: {"record"}, source: ReleaseIds, to: Versions]
\* An apply: the drafts it read, the pages still to write, how it went so far.
Apply == [op: {"apply"}, phase: {"live", "drafts", "pages"},
          migration: MigrationIds, res: Resolutions, drafts: Snapshot,
          versions: [Pages -> Nat], todo: SUBSET Pages, ok: BOOLEAN]
\* A deletion: what the guard still has to look at.
Delete == [op: {"delete"}, phase: {"guard"}, dataset: Datasets,
           look: SUBSET {"drafts", "live"}]

Request == Save \cup Publish \cup Rollback \cup Propose \cup Apply \cup Delete

ASSUME FlowConstants ==
    /\ Sites \subseteq Site
    /\ \A s \in Sites :
        /\ s.releases <= Cardinality(ReleaseIds)
        /\ \A k \in 1..s.catalogs : /\ Merge[k] \in [Resolutions -> [Trees -> Trees]]
                                   /\ Leaves[k] \in [Resolutions -> SUBSET Trees]
    /\ IsFiniteSet(Editors)
    /\ FirstTree \in [Pages -> Trees]
    /\ None \notin Request

VARIABLE req   \* editor -> its request, or None

vars == <<siteVars, req>>

Init == /\ site \in Sites
        /\ SiteInit(site.first, FirstTree)
        /\ req = [c \in Editors |-> None]

Idle(c, op)     == req[c] = None /\ op \in site.commands
At(c, op, ph)   == req[c] # None /\ req[c].op = op /\ req[c].phase = ph
Become(c, r)    == req' = [req EXCEPT ![c] = r]
Answer(c)       == req' = [req EXCEPT ![c] = None]

Running(op)     == {c \in Editors : req[c] # None /\ req[c].op = op}

-----------------------------------------------------------------------------
(* CreatePage and SavePageConfig                                           *)

\* One transaction; a path that is taken is refused.
CreatePage(c) ==
    /\ Idle(c, "create")
    /\ \E p \in site.later : CreateRow(p, FirstTree[p])
    /\ UNCHANGED <<releases, live, migrations, datasets, catalog, site, req>>

\* An editor opens the page, and later sends what it made of it.
OpenPage(c) ==
    /\ Idle(c, "save")
    /\ \E p \in Pages, t \in site.trees, full \in BOOLEAN :
        /\ pages[p] # NoPage
        /\ pages[p].version < site.versions
        /\ t # Draft(p)
        /\ Become(c, [op |-> "save", phase |-> "check", page |-> p,
                      version |-> pages[p].version, base |-> Draft(p),
                      next |-> t, full |-> full])
    /\ UNCHANGED siteVars

\* Mutant: a restricted editor is trusted with the structure it sends.
InScopeAlways(r) == TRUE
\* checkEditScope: without page.restructure the tree keeps its structure.
InScope(r) == r.full \/ Shape[r.next] = Shape[Draft(r.page)]

\* The page is loaded again and what the editor may change is checked on it.
CheckSave(c) ==
    /\ At(c, "save", "check")
    /\ IF InScope(req[c]) THEN Become(c, [req[c] EXCEPT !.phase = "write"])
                          ELSE Answer(c)
    /\ UNCHANGED siteVars

\* Mutant: the version the server loads is compared, not the editor's.
ExpectedOfLatest(r) == pages[r.page].version
\* The version the editor opened is the one that must still be there.
Expected(r) == r.version

WriteSave(c) ==
    /\ At(c, "save", "write")
    /\ SaveRow(req[c].page, req[c].next, Expected(req[c]))
    /\ Answer(c)
    /\ UNCHANGED <<releases, live, migrations, datasets, catalog, site>>

-----------------------------------------------------------------------------
(* PublishRelease                                                          *)

\* listForRelease is one query; the components are resolved as of now.
ReadDrafts(c) ==
    /\ Idle(c, "publish")
    /\ Cardinality(Stored) + Cardinality(Running("publish")) < site.releases
    /\ TreesOf(DraftsNow) # {}
    /\ Become(c, [op |-> "publish", phase |-> "live", snapshot |-> DraftsNow,
                  pin |-> catalog, latest |-> 0])
    /\ UNCHANGED siteVars

\* findPublished, only to describe the changes; the components are resolved after it.
ReadLive(c) ==
    /\ At(c, "publish", "live")
    /\ Become(c, [req[c] EXCEPT !.phase = "number", !.pin = catalog])
    /\ UNCHANGED siteVars

ReadNumber(c) ==
    /\ At(c, "publish", "number")
    /\ Become(c, [req[c] EXCEPT !.phase = "commit", !.latest = Latest])
    /\ UNCHANGED siteVars

\* The id is drawn at random: which of the unused ones it is makes no difference.
NewRelease == CHOOSE r \in ReleaseIds : r \notin Stored

CommitPublish(c) ==
    /\ At(c, "publish", "commit")
    /\ InsertRelease(NewRelease, req[c].latest, req[c])
    /\ Answer(c)
    /\ UNCHANGED <<pages, migrations, datasets, catalog, site>>

-----------------------------------------------------------------------------
(* RollbackRelease                                                         *)

\* findById and ensureActivatable: every stored release is of a status that may.
LoadRelease(c) ==
    /\ Idle(c, "rollback")
    /\ \E r \in Stored :
        Become(c, [op |-> "rollback", phase |-> "previous", target |-> r,
                   previous |-> None])
    /\ UNCHANGED siteVars

ReadPrevious(c) ==
    /\ At(c, "rollback", "previous")
    /\ Become(c, [req[c] EXCEPT !.phase = "commit", !.previous = live])
    /\ UNCHANGED siteVars

CommitRollback(c) ==
    /\ At(c, "rollback", "commit")
    /\ ActivateRelease(req[c].target, req[c].previous)
    /\ Answer(c)
    /\ UNCHANGED <<pages, migrations, datasets, catalog, site>>

-----------------------------------------------------------------------------
(* ProposeMigration                                                        *)

\* An up-to-date release has nothing to review, and nothing is recorded.
PlanMigration(c) ==
    /\ Idle(c, "propose")
    /\ Cardinality(Proposed) + Cardinality(Running("propose")) < Cardinality(MigrationIds)
    /\ live # None
    /\ releases[live].pin # catalog
    /\ Become(c, [op |-> "propose", phase |-> "record", source |-> live, to |-> catalog])
    /\ UNCHANGED siteVars

RecordMigration(c) ==
    /\ At(c, "propose", "record")
    /\ \E m \in MigrationIds :
        /\ migrations[m] = None
        /\ migrations' = [migrations EXCEPT ![m] =
             [source |-> req[c].source, to |-> req[c].to, status |-> "proposed"]]
    /\ Answer(c)
    /\ UNCHANGED <<pages, releases, live, datasets, catalog, site>>

-----------------------------------------------------------------------------
(* ApplyMigration                                                          *)

\* ensureApplicable.
LoadMigration(c) ==
    /\ Idle(c, "apply")
    /\ \E m \in MigrationIds, q \in site.resolutions :
        /\ migrations[m] # None
        /\ migrations[m].status = "proposed"
        /\ Become(c, [op |-> "apply", phase |-> "live", migration |-> m, res |-> q,
                      drafts |-> [p \in Pages |-> None],
                      versions |-> [p \in Pages |-> 0], todo |-> {}, ok |-> TRUE])
    /\ UNCHANGED siteVars

\* ensureSourceIsLive: the plan describes no other release (releaseMigrationStale).
CheckSource(c) ==
    /\ At(c, "apply", "live")
    /\ IF live = migrations[req[c].migration].source
       THEN Become(c, [req[c] EXCEPT !.phase = "drafts"])
       ELSE Answer(c)
    /\ UNCHANGED siteVars

\* listDrafts, once for all pages.
LoadDrafts(c) ==
    /\ At(c, "apply", "drafts")
    /\ Become(c, [req[c] EXCEPT !.phase = "pages", !.drafts = DraftsNow,
                  !.versions = VersionsNow,
                  !.todo = ChangedPages(req[c].migration, req[c].res)])
    /\ UNCHANGED siteVars

Target(r, p) == MigratedTree(r.migration, r.res, SourceTree(r.migration, p))

\* Mutant: a retry does not know what an earlier one wrote.
HoldsTargetNever(r, p) == FALSE
HoldsTarget(r, p) == r.drafts[p] = Target(r, p)

\* judgeDraft: only a draft that still is what was published.
Writable(r, p) ==
    /\ ~HoldsTarget(r, p)
    /\ r.drafts[p] = SourceTree(r.migration, p)

\* A page is looked at once, however that went.
Settle(c, p, done) ==
    Become(c, [req[c] EXCEPT !.todo = @ \ {p}, !.ok = @ /\ done])

\* A page that is not there, was edited, or holds the migrated tree already.
SkipPage(c, p) ==
    /\ At(c, "apply", "pages")
    /\ p \in req[c].todo
    /\ ~Writable(req[c], p)
    /\ Settle(c, p, HoldsTarget(req[c], p))
    /\ UNCHANGED siteVars

\* Mutant: a page that could not be written counts as written.
OutcomeIsWritten(r, p) == TRUE
\* Written, or a conflict: somebody saved between the read and the write.
Outcome(r, p) == IsCurrent(p, r.versions[p])

WritePage(c, p) ==
    /\ At(c, "apply", "pages")
    /\ p \in req[c].todo
    /\ Writable(req[c], p)
    /\ SaveRow(p, Target(req[c], p), req[c].versions[p])
    /\ Settle(c, p, Outcome(req[c], p))
    /\ UNCHANGED <<releases, live, migrations, datasets, catalog, site>>

\* Any other failure is reported against its page, and the rest goes on.
FailPage(c, p) ==
    /\ At(c, "apply", "pages")
    /\ p \in req[c].todo
    /\ Writable(req[c], p)
    /\ Settle(c, p, FALSE)
    /\ UNCHANGED siteVars

\* Every changed page holds the migrated tree, and something was done.
IsFinished(r) ==
    /\ r.ok
    /\ ChangedPages(r.migration, r.res) # {} \/ ~LeavesSome(r.migration, r.res)

FinishApply(c) ==
    /\ At(c, "apply", "pages")
    /\ req[c].todo = {}
    /\ IF IsFinished(req[c]) THEN CloseMigration(req[c].migration)
                             ELSE UNCHANGED migrations
    /\ Answer(c)
    /\ UNCHANGED <<pages, releases, live, datasets, catalog, site>>

-----------------------------------------------------------------------------
(* DeleteUnusedData                                                        *)

LoadDataset(c) ==
    /\ Idle(c, "delete")
    /\ \E d \in datasets :
        Become(c, [op |-> "delete", phase |-> "guard", dataset |-> d,
                   look |-> {"drafts", "live"}])
    /\ UNCHANGED siteVars

\* The guard reads the drafts and the live release beside one another.
LookAt(c, place, shown) ==
    /\ At(c, "delete", "guard")
    /\ place \in req[c].look
    /\ IF req[c].dataset \in shown
       THEN Answer(c)
       ELSE Become(c, [req[c] EXCEPT !.look = @ \ {place}])
    /\ UNCHANGED siteVars

CommitDelete(c) ==
    /\ At(c, "delete", "guard")
    /\ req[c].look = {}
    /\ datasets' = datasets \ {req[c].dataset}
    /\ Answer(c)
    /\ UNCHANGED <<pages, releases, live, migrations, catalog, site>>

-----------------------------------------------------------------------------

\* A deployment registers newer component versions.
Deploy ==
    /\ catalog < site.catalogs
    /\ catalog' = catalog + 1
    /\ UNCHANGED <<pages, releases, live, migrations, datasets, site, req>>

\* The request ends without its next step: a failed query, or a server that stops.
Lose(c) ==
    /\ req[c] # None
    /\ Answer(c)
    /\ UNCHANGED siteVars

\* What a command does once it has started.
Works(c) ==
    \/ CheckSave(c)    \/ WriteSave(c)
    \/ ReadLive(c)     \/ ReadNumber(c)   \/ CommitPublish(c)
    \/ ReadPrevious(c) \/ CommitRollback(c)
    \/ RecordMigration(c)
    \/ CheckSource(c)  \/ LoadDrafts(c)
    \/ \E p \in Pages : SkipPage(c, p) \/ WritePage(c, p)
    \/ FinishApply(c)
    \/ LookAt(c, "drafts", ShownByDrafts) \/ LookAt(c, "live", ShownByLive)
    \/ CommitDelete(c)

Continue(c) == Works(c) \/ \E p \in Pages : FailPage(c, p)

Start(c) ==
    \/ CreatePage(c) \/ OpenPage(c) \/ ReadDrafts(c) \/ LoadRelease(c)
    \/ PlanMigration(c) \/ LoadMigration(c) \/ LoadDataset(c)

Next == Deploy \/ \E c \in Editors : Start(c) \/ Continue(c) \/ Lose(c)

Spec == Init /\ [][Next]_vars
=============================================================================
