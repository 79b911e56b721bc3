------------------------------ MODULE SiteStore ------------------------------
(***************************************************************************)
(* The tables of one website that its editors share, and the transactions  *)
(* on them: Page and PageConfig (prisma-page.repository.ts), WebsiteRelease *)
(* and the pointer Website.publishedReleaseId (prisma-release.repository.ts)*)
(* WebsiteMigration (prisma-migration.repository.ts) and Dataset.          *)
(*                                                                         *)
(* A page's content is a member of Trees.  The writes of a transaction     *)
(* take effect together when it commits; what it read before is a step of  *)
(* its own, because the transactions run under READ COMMITTED.             *)
(***************************************************************************)
EXTENDS Integers, FiniteSets, FiniteSetsExt

CONSTANTS
    Pages,          \* pages of the website, by path
    Trees,          \* what a page may hold: its node tree
    Shape,          \* Shape[t]: which nodes t has, in which order and nesting
    Uses,           \* Uses[t]: the datasets t shows
    Datasets,       \* datasets of the website
    Sites,          \* the websites: what is done to each, and how often
    ReleaseIds,     \* ids of releases; bounds how many are made
    MigrationIds,   \* ids of migrations; bounds how many are made
    Resolutions,    \* ways a reviewer may resolve a plan's conflicts
    Merge,          \* Merge[k][q][t]: t moved to catalog version k under q
    Leaves,         \* Leaves[k][q]: the trees on which q leaves a node unresolved
    RevisionLimit,  \* PAGE_REVISION_LIMIT
    None            \* no release, no migration, no request, nothing on a page

Versions  == Nat \ {0}
Snapshot  == [Pages -> Trees \cup {None}]

\* A path that no page has taken.
NoPage == [version |-> 0, revs |-> [v \in {} |-> None]]

\* A Page row with its PageConfig rows: revs[v] is the content of revision v.
IsPage(page) ==
    /\ page = [version |-> page.version, revs |-> page.revs]
    /\ page.version \in Versions
    /\ DOMAIN page.revs \subseteq Versions
    /\ page.revs \in [DOMAIN page.revs -> Trees]
    /\ page.version \in DOMAIN page.revs

\* The changes a release made, told to its readers only, are left out.
Release == [number: Versions, status: {"published", "rolled_back"},
            snapshot: Snapshot, pin: Versions]

Migration == [source: ReleaseIds, to: Versions, status: {"proposed", "applied"}]

ASSUME SiteConstants ==
    /\ None \notin ReleaseIds \cup MigrationIds \cup Trees \cup Pages \cup Datasets
    /\ None \notin Release \cup Migration
    /\ IsFiniteSet(ReleaseIds)
    /\ RevisionLimit \in Nat \ {0}
    /\ Shape \in [Trees -> Trees]
    /\ Uses \in [Trees -> SUBSET Datasets]

VARIABLES
    pages,       \* path -> Page row, or NoPage
    releases,    \* id -> WebsiteRelease row, or None
    live,        \* Website.publishedReleaseId
    migrations,  \* id -> WebsiteMigration row, or None
    datasets,    \* the datasets that exist
    catalog,     \* the version of the registered components
    site         \* which of the websites of the instance this is; never changes

siteVars == <<pages, releases, live, migrations, datasets, catalog, site>>

\* A page starts with one revision.
NewPage(t) == [version |-> 1, revs |-> [v \in {1} |-> t]]

SiteInit(made, tree) ==
    /\ pages = [p \in Pages |-> IF p \in made THEN NewPage(tree[p]) ELSE NoPage]
    /\ releases = [r \in ReleaseIds |-> None]
    /\ live = None
    /\ migrations = [m \in MigrationIds |-> None]
    /\ datasets = Datasets
    /\ catalog = 1

-----------------------------------------------------------------------------
(* What the tables say.                                                    *)

Draft(p)     == pages[p].revs[pages[p].version]
DraftsNow    == [p \in Pages |-> IF pages[p] = NoPage THEN None ELSE Draft(p)]
VersionsNow  == [p \in Pages |-> pages[p].version]

Stored       == {r \in ReleaseIds : releases[r] # None}
Numbers      == {releases[r].number : r \in Stored}
Latest       == Max(Numbers \cup {0})
Proposed     == {m \in MigrationIds : migrations[m] # None}

TreesOf(s)   == {s[p] : p \in Pages} \ {None}
ShownBy(s)   == UNION {Uses[t] : t \in TreesOf(s)}
ShownByDrafts == ShownBy(DraftsNow)
ShownByLive  == IF live = None THEN {} ELSE ShownBy(releases[live].snapshot)

-----------------------------------------------------------------------------
(* Page drafts.                                                            *)

\* The unique (websiteId, path) refuses a page that is there.
CreateRow(p, t) == /\ pages[p] = NoPage
                   /\ pages' = [pages EXCEPT ![p] = NewPage(t)]

\* The revisions a save of revision n keeps.
Kept(page, n) == {v \in DOMAIN page.revs : v > n - RevisionLimit}

\* The compare-and-swap of saveConfig.
IsCurrent(p, expected) == pages[p] # NoPage /\ pages[p].version = expected

SaveRow(p, t, expected) ==
    IF ~IsCurrent(p, expected) THEN UNCHANGED pages
    ELSE LET next == pages[p].version + 1
         IN  pages' = [pages EXCEPT ![p] =
               [version |-> next,
                revs |-> [v \in Kept(pages[p], next) \cup {next} |->
                            IF v = next THEN t ELSE pages[p].revs[v]]]]

-----------------------------------------------------------------------------
(* Releases.                                                               *)

\* Mutant: no constraint on (websiteId, releaseNumber).
NumberIsFreeAlways(n) == TRUE
\* The unique (websiteId, releaseNumber), which a concurrent publish meets.
NumberIsFree(n) == n \notin Numbers

\* publish: insert the release, then move the pointer.
InsertRelease(r, latest, read) ==
    IF ~NumberIsFree(latest + 1) THEN UNCHANGED <<releases, live>>
    ELSE /\ releases' = [releases EXCEPT ![r] =
              [number |-> latest + 1, status |-> "published",
               snapshot |-> read.snapshot, pin |-> read.pin]]
         /\ live' = r

\* Mutant: what was live is marked even when it is the target.
MarkReplacedAlways(rs, target, previous) ==
    IF previous # None THEN [rs EXCEPT ![previous].status = "rolled_back"] ELSE rs
\* The release that was live is marked in the history, unless it stays live.
MarkReplaced(rs, target, previous) ==
    IF previous \notin {None, target}
    THEN [rs EXCEPT ![previous].status = "rolled_back"] ELSE rs

\* activate: the target is published, what it replaces is marked, the pointer moves.
ActivateRelease(target, previous) ==
    /\ releases' = MarkReplaced([releases EXCEPT ![target].status = "published"],
                                target, previous)
    /\ live' = target

-----------------------------------------------------------------------------
(* Migrations.                                                             *)

\* The conditional update that closes a migration.
CloseMigration(m) ==
    IF migrations[m].status # "proposed" THEN UNCHANGED migrations
    ELSE migrations' = [migrations EXCEPT ![m].status = "applied"]

\* applyMigrationPlan on the trees of release r.
MigratedTree(m, q, t) == Merge[migrations[m].to][q][t]
SourceTree(m, p)      == releases[migrations[m].source].snapshot[p]
ChangedPages(m, q)    == {p \in Pages : /\ SourceTree(m, p) # None
                                        /\ MigratedTree(m, q, SourceTree(m, p)) # SourceTree(m, p)}
LeavesSome(m, q)      == \E p \in Pages : SourceTree(m, p) \in Leaves[migrations[m].to][q]
=============================================================================
