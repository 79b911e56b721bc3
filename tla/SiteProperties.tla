--------------------------- MODULE SiteProperties ---------------------------
(* What SiteFlow guarantees, and what the code's comments say of it.        *)
EXTENDS SiteFlow, Sequences

\* Every variable has its type: the tables of pages, releases and migrations
\* hold rows, and a request holds what its command has read so far.
TypeOK ==
    /\ pages = [p \in Pages |-> pages[p]]
    /\ \A p \in Pages : pages[p] = NoPage \/ IsPage(pages[p])
    /\ releases \in [ReleaseIds -> Release \cup {None}]
    /\ live \in ReleaseIds \cup {None}
    /\ migrations \in [MigrationIds -> Migration \cup {None}]
    /\ datasets \subseteq Datasets
    /\ catalog \in Versions
    /\ site \in Sites
    /\ req \in [Editors -> Request \cup {None}]

-----------------------------------------------------------------------------
(* Page drafts.                                                            *)

\* The newest PAGE_REVISION_LIMIT revisions of a page are stored and no other
\* (saveConfig deletes up to a limit, and a stale save deletes nothing).
RevisionsKept ==
    \A p \in Pages : pages[p] # NoPage =>
        DOMAIN pages[p].revs =
            {v \in 1..pages[p].version : v > pages[p].version - RevisionLimit}

\* The steps in which a request that runs changes the draft of p.
Writes(c, p) == /\ req[c] # None /\ req'[c] # req[c]
                /\ pages[p] # NoPage /\ pages'[p] # pages[p]

\* No draft is lost: whoever writes over a draft knew it. A save replaces the tree its
\* editor opened, a migration what was published, whatever others saved after that was
\* read (the compare-and-swap of saveConfig, judgeDraft of apply-migration.ts).
NoDraftLost ==
    [][\A c \in Editors, p \in Pages :
        Writes(c, p) =>
            Draft(p) = IF req[c].op = "save" THEN req[c].base
                       ELSE SourceTree(req[c].migration, p)]_vars

\* An editor without page.restructure never changes which nodes a page has: the
\* scope check reads one version and the write replaces another (save-page-config.ts).
RestrictedKeepsShape ==
    [][\A c \in Editors, p \in Pages :
        Writes(c, p) /\ req[c].op = "save" /\ ~req[c].full =>
            Shape[pages'[p].revs[pages'[p].version]] = Shape[Draft(p)]]_vars

\* Revision v of p is t, or was, as long as it was stored.
Known(p, v, t) == /\ v \in 1..pages[p].version
                  /\ v \in DOMAIN pages[p].revs => pages[p].revs[v] = t

\* Page p has a revision t, unless so many were made that t may be deleted.
HasHad(p, t) == \/ \E v \in DOMAIN pages[p].revs : pages[p].revs[v] = t
                \/ pages[p].version > RevisionLimit

\* A migration is marked applied only when each page it changes has had a revision
\* with the migrated tree, over failures, conflicts and retries (apply-migration.ts).
AppliedIsWritten ==
    [][\A m \in MigrationIds :
        migrations[m] # None /\ migrations'[m] # migrations[m] =>
            \E c \in Editors :
                /\ At(c, "apply", "pages") /\ req[c].migration = m
                /\ \A p \in ChangedPages(m, req[c].res) : HasHad(p, Target(req[c], p))
                /\ ChangedPages(m, req[c].res) = {} => ~LeavesSome(m, req[c].res)]_vars

-----------------------------------------------------------------------------
(* Releases.                                                               *)

\* The numbers of a website's releases are 1, 2, 3 and so on without a gap or a
\* repetition, whoever publishes at once (the read of the latest number is stale).
NumbersSequential ==
    /\ Numbers = 1..Cardinality(Stored)
    /\ \A r, s \in Stored : releases[r].number = releases[s].number => r = s

\* The release visitors see is stored and published, never one the history shows as
\* rolled back, whoever publishes and restores at once (activate reads what it replaces).
LiveIsPublished == live # None => live \in Stored /\ releases[live].status = "published"

\* What visitors see changes only by a publish, which appends one edition, or a restore,
\* which opens a stored one as it was (LiveSite), whatever happens to drafts meanwhile.
Register == INSTANCE LiveSite WITH
    Editions <- {{s} : s \in Snapshot},
    album <- [n \in 1..Cardinality(Stored) |->
                {releases[r].snapshot : r \in {s \in Stored : releases[s].number = n}}],
    open <- IF live = None THEN 0 ELSE releases[live].number
KeepsAlbum == Register!LiveSiteSpec

-----------------------------------------------------------------------------
(* The requests.  What a request has read may be out of date, but only in  *)
(* ways that its write notices or that do no harm.                         *)

\* The bounds on releases and catalogs hold, with what is under way.
BoundsKept ==
    /\ Cardinality(Stored) + Cardinality(Running("publish")) <= site.releases
    /\ catalog <= site.catalogs

\* A migration is of a stored release, to a version of the components that is there.
FromStored(source, to) == source \in Stored /\ to <= site.catalogs
MigrationsFit == \A m \in Proposed : FromStored(migrations[m].source, migrations[m].to)

\* The scope was checked on the page loaded; if that is still the page the editor
\* opened, the editor knows its shape.
SaveFits(r) ==
    r.op = "save" =>
        /\ Known(r.page, r.version, r.base)
        /\ r.phase = "write" /\ ~r.full /\ pages[r.page].version = r.version =>
              Shape[r.next] = Shape[r.base]

PublishFits(r)  == r.op = "publish" => r.latest <= Cardinality(Stored)
RollbackFits(r) == r.op = "rollback" => {r.target, r.previous} \ {None} \subseteq Stored
ProposeFits(r)  == r.op = "propose" => FromStored(r.source, r.to)

\* Each draft is that of its version, and what was settled well is written.
ApplyFits(r) ==
    r.op = "apply" =>
        /\ r.migration \in Proposed
        /\ r.phase = "pages" =>
            /\ r.todo \subseteq ChangedPages(r.migration, r.res)
            /\ \A p \in Pages : IF r.drafts[p] = None THEN r.versions[p] = 0
                               ELSE Known(p, r.versions[p], r.drafts[p])
            /\ r.ok => \A p \in ChangedPages(r.migration, r.res) \ r.todo :
                          HasHad(p, Target(r, p))

RequestFits(r) == /\ SaveFits(r)    /\ PublishFits(r) /\ RollbackFits(r)
                  /\ ProposeFits(r) /\ ApplyFits(r)

RequestsFit == \A c \in Editors : req[c] # None => RequestFits(req[c])

\* The tables are sound after every step: revisions, numbers and the live pointer
\* fit together, and what requests carry fits the tables, whoever saves, publishes,
\* restores and migrates at once.
SiteInv == /\ TypeOK
           /\ RevisionsKept /\ NumbersSequential /\ LiveIsPublished
           /\ BoundsKept /\ MigrationsFit /\ RequestsFit

-----------------------------------------------------------------------------
(* Progress.                                                               *)

\* A server carries on with a request it has begun.
Progress == \A c \in Editors : WF_vars(Continue(c))

FairSpec == Spec /\ Progress

\* While the migration is open, somebody comes back to it sooner or later.
RetrySpec == FairSpec /\ \A c \in Editors : SF_vars(LoadMigration(c))

\* From some time on no request is cut off and no query fails: a step that looks
\* like that is one that the command takes itself.
CalmInTheEnd ==
    <>[][\A c \in Editors :
          Lose(c) \/ (\E p \in Pages : FailPage(c, p)) => Works(c)]_vars

\* Nobody edits this website.
Unedited == "save" \notin site.commands

\* A migration that failed part way or was cut off, and is tried again with the same
\* resolutions while nobody edits, is applied in the end (apply-migration.ts).
RetriesComplete ==
    CalmInTheEnd =>
        \A m \in MigrationIds :
            Unedited /\ migrations[m] # None
                ~> migrations[m] # None /\ migrations[m].status = "applied"
=============================================================================
