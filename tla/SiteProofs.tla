----------------------------- MODULE SiteProofs -----------------------------
(***************************************************************************)
(* Proofs about the website, for every value of its constants, and about   *)
(* the paged reads of the data it shows, for APIs of any size, any windows *)
(* and page sizes, and every limit on the number of pages.                 *)
(***************************************************************************)
EXTENDS SiteProperties, PagedRead, FiniteSetTheorems, SequenceTheorems, TLAPS

\* Every set bounded by a number that it has is at most that number (what Max chooses).
LEMMA MaxOfInterval ==
    ASSUME NEW n \in Nat
    PROVE  Max((1..n) \cup {0}) = n
<1>1. /\ n \in (1..n) \cup {0}
      /\ \A y \in (1..n) \cup {0} : n >= y
  OBVIOUS
<1>2. \A x \in (1..n) \cup {0} : (\A y \in (1..n) \cup {0} : x >= y) => x = n
  BY <1>1
<1>. QED
  BY <1>1, <1>2 DEF Max

-----------------------------------------------------------------------------
(* Pages.                                                                  *)

LEMMA DraftType ==
    ASSUME TypeOK, NEW p \in Pages
    PROVE  /\ pages[p] # NoPage => /\ IsPage(pages[p]) /\ Draft(p) \in Trees
                                   /\ pages[p].version \in Versions
           /\ pages[p] = NoPage <=> pages[p].version = 0
           /\ pages[p].version \in Nat
<1>1. pages[p] = NoPage \/ IsPage(pages[p])
  BY DEF TypeOK
<1>2. IsPage(pages[p]) => pages[p].version \in Versions /\ Draft(p) \in Trees
  BY DEF IsPage, Draft
<1>3. NoPage.version = 0
  BY DEF NoPage
<1>. QED
  BY <1>1, <1>2, <1>3 DEF Versions

LEMMA ReadType ==
    ASSUME TypeOK
    PROVE  /\ DraftsNow \in Snapshot
           /\ VersionsNow \in [Pages -> Nat]
<1>1. \A p \in Pages : (IF pages[p] = NoPage THEN None ELSE Draft(p)) \in Trees \cup {None}
  BY DraftType
<1>. QED
  BY <1>1, DraftType DEF DraftsNow, VersionsNow, Snapshot

\* Pages are only added, and what a stored revision is never changes.
PagesGrow ==
    \A p \in Pages :
        /\ pages'[p].version >= pages[p].version
        /\ \A v \in 1..pages[p].version :
              v \in DOMAIN pages'[p].revs =>
                 v \in DOMAIN pages[p].revs /\ pages'[p].revs[v] = pages[p].revs[v]
        /\ pages'[p].version <= RevisionLimit =>
              \A v \in DOMAIN pages[p].revs : v \in DOMAIN pages'[p].revs

PagesOK == /\ pages = [p \in Pages |-> pages[p]]
           /\ \A p \in Pages : pages[p] = NoPage \/ IsPage(pages[p])
           /\ RevisionsKept

LEMMA CreateKeeps ==
    ASSUME PagesOK, NEW p \in Pages, NEW t \in Trees, CreateRow(p, t)
    PROVE  PagesOK' /\ PagesGrow
<1>1. /\ pages' = [x \in Pages |-> IF x = p THEN NewPage(t) ELSE pages[x]]
      /\ pages[p].version = 0 /\ DOMAIN pages[p].revs = {}
  BY DEF CreateRow, PagesOK, NoPage
<1>2. /\ IsPage(NewPage(t)) /\ NewPage(t).version = 1 /\ DOMAIN NewPage(t).revs = {1}
  BY DEF NewPage, IsPage, Versions
<1>3. {v \in 1..1 : v > 1 - RevisionLimit} = {1}
  BY SiteConstants
<1>4. PagesOK'
  BY <1>1, <1>2, <1>3 DEF PagesOK, RevisionsKept
<1>5. ASSUME NEW x \in Pages
      PROVE  pages[x].version \in Nat
  BY DEF PagesOK, IsPage, Versions, NoPage
<1>. QED
  BY <1>1, <1>2, <1>4, <1>5 DEF PagesGrow

LEMMA SaveKeeps ==
    ASSUME PagesOK, NEW p \in Pages, NEW t \in Trees, NEW n \in Nat, SaveRow(p, t, n)
    PROVE  /\ PagesOK' /\ PagesGrow
           /\ \A x \in Pages : pages'[x] # pages[x] =>
                 /\ x = p /\ pages[p].version = n
                 /\ pages'[p].version = n + 1 /\ pages'[p].revs[n + 1] = t
                 /\ n + 1 \in DOMAIN pages'[p].revs
           /\ IsCurrent(p, n) => /\ pages'[p].version = n + 1
                                 /\ n + 1 \in DOMAIN pages'[p].revs
                                 /\ pages'[p].revs[n + 1] = t
<1>0. ASSUME NEW x \in Pages
      PROVE  pages[x].version \in Nat
  BY DEF PagesOK, IsPage, Versions, NoPage
<1>1. CASE ~IsCurrent(p, n)
  BY <1>0, <1>1 DEF SaveRow, PagesOK, PagesGrow, RevisionsKept
<1>2. CASE IsCurrent(p, n)
  <2>. DEFINE revs == [v \in Kept(pages[p], n + 1) \cup {n + 1} |->
                         IF v = n + 1 THEN t ELSE pages[p].revs[v]]
              new  == [version |-> n + 1, revs |-> revs]
  <2>1. /\ pages' = [x \in Pages |-> IF x = p THEN new ELSE pages[x]]
        /\ IsPage(pages[p]) /\ pages[p].version = n
        /\ DOMAIN pages[p].revs = {v \in 1..n : v > n - RevisionLimit}
    BY <1>2 DEF SaveRow, IsCurrent, PagesOK, RevisionsKept
  <2>2. Kept(pages[p], n + 1) \cup {n + 1} = {v \in 1..(n + 1) : v > (n + 1) - RevisionLimit}
    BY <2>1, SiteConstants DEF Kept
  <2>3. /\ DOMAIN revs = {v \in 1..(n + 1) : v > (n + 1) - RevisionLimit}
        /\ revs[n + 1] = t
        /\ \A v \in DOMAIN revs \ {n + 1} : v \in DOMAIN pages[p].revs /\ revs[v] = pages[p].revs[v]
    BY <2>2 DEF Kept
  <2>4. \A v \in DOMAIN revs : revs[v] \in Trees
    BY <2>1, <2>3 DEF IsPage
  <2>5. revs \in [DOMAIN revs -> Trees]
    BY <2>4
  <2>6. n + 1 \in DOMAIN revs /\ DOMAIN revs \subseteq Versions
    BY <2>3, SiteConstants DEF Versions
  <2>. HIDE DEF revs
  <2>7. IsPage(new) /\ new # NoPage
    BY <2>5, <2>6 DEF IsPage, Versions, NoPage
  <2>8. PagesOK'
    BY <2>1, <2>3, <2>7 DEF PagesOK, RevisionsKept
  <2>9. n + 1 <= RevisionLimit => \A v \in DOMAIN pages[p].revs : v \in DOMAIN revs
    BY <2>1, <2>3, SiteConstants
  <2>10. PagesGrow
    BY <1>0, <2>1, <2>3, <2>9 DEF PagesGrow
  <2>. QED
    BY <2>1, <2>3, <2>6, <2>8, <2>10
<1>. QED
  BY <1>1, <1>2

-----------------------------------------------------------------------------
(* Releases.                                                               *)

ReleasesOK == /\ releases \in [ReleaseIds -> Release \cup {None}]
              /\ live \in ReleaseIds \cup {None}
              /\ NumbersSequential /\ LiveIsPublished

\* Releases are only added, and what visitors would see of one never changes.
ReleasesGrow ==
    \A r \in Stored : /\ r \in Stored'
                      /\ releases'[r].number = releases[r].number
                      /\ releases'[r].snapshot = releases[r].snapshot

LEMMA StoredIsFinite ==
    /\ IsFiniteSet(Stored) /\ Cardinality(Stored) \in Nat
    /\ Cardinality(Stored) < Cardinality(ReleaseIds) => \E r \in ReleaseIds : r \notin Stored
<1>1. Stored \in SUBSET ReleaseIds
  BY DEF Stored
<1>2. IsFiniteSet(Stored) /\ Cardinality(Stored) \in Nat
  BY <1>1, SiteConstants, FS_Subset, FS_CardinalityType
<1>3. Stored = ReleaseIds => ~(Cardinality(Stored) < Cardinality(ReleaseIds))
  BY <1>2
<1>. QED
  BY <1>1, <1>2, <1>3

LEMMA LatestIsCount ==
    ASSUME ReleasesOK
    PROVE  Latest = Cardinality(Stored) /\ Latest \in Nat
<1>1. Numbers = 1..Cardinality(Stored) /\ Cardinality(Stored) \in Nat
  BY StoredIsFinite DEF ReleasesOK, NumbersSequential
<1>. QED
  BY <1>1, MaxOfInterval DEF Latest

LEMMA ReleasesStay ==
    ASSUME ReleasesOK, UNCHANGED <<releases, live>>
    PROVE  ReleasesOK' /\ ReleasesGrow /\ Stored' = Stored
<1>1. Stored' = Stored
  BY DEF Stored
<1>2. Numbers' = Numbers
  BY <1>1 DEF Numbers
<1>. QED
  BY <1>1, <1>2 DEF ReleasesOK, ReleasesGrow, NumbersSequential, LiveIsPublished

LEMMA InsertKeeps ==
    ASSUME ReleasesOK, NEW r \in ReleaseIds, r \notin Stored, NEW known \in Publish,
           known.latest <= Cardinality(Stored), InsertRelease(r, known.latest, known)
    PROVE  /\ ReleasesOK' /\ ReleasesGrow
           /\ \/ UNCHANGED <<releases, live>>
              \/ /\ Stored' = Stored \cup {r} /\ live' = r
                 /\ releases'[r].number = Cardinality(Stored) + 1
                 /\ releases'[r].snapshot \in Snapshot
                 /\ Cardinality(Stored') = Cardinality(Stored) + 1
<1>. DEFINE n == Cardinality(Stored)
<1>0. n \in Nat /\ Numbers = 1..n /\ known.latest \in Nat
  BY StoredIsFinite DEF ReleasesOK, NumbersSequential, Publish
<1>1. CASE ~NumberIsFree(known.latest + 1)
  BY <1>1, ReleasesStay DEF InsertRelease
<1>2. CASE NumberIsFree(known.latest + 1)
  <2>. DEFINE new == [number |-> n + 1, status |-> "published",
                      snapshot |-> known.snapshot, pin |-> known.pin]
  <2>1. known.latest = n
    BY <1>0, <1>2 DEF NumberIsFree
  <2>2. releases' = [releases EXCEPT ![r] = new] /\ live' = r
    BY <1>2, <2>1 DEF InsertRelease
  <2>3. new \in Release /\ new # None
    BY <1>0, SiteConstants DEF Release, Publish, Versions
  <2>4. /\ releases' = [x \in ReleaseIds |-> IF x = r THEN new ELSE releases[x]]
        /\ releases' \in [ReleaseIds -> Release \cup {None}]
    BY <2>2, <2>3 DEF ReleasesOK
  <2>5. Stored' = Stored \cup {r}
    BY <2>3, <2>4 DEF Stored
  <2>6. Cardinality(Stored') = n + 1
    BY <2>5, StoredIsFinite, FS_AddElement
  <2>7. ReleasesGrow
    BY <2>4, <2>5 DEF ReleasesGrow, Stored
  <2>8. /\ releases'[r].number = n + 1 /\ releases'[r].snapshot \in Snapshot
        /\ releases'[r].status = "published"
    BY <2>4 DEF Publish
  <2>9. Numbers' = Numbers \cup {n + 1}
    BY <2>5, <2>7, <2>8 DEF Numbers, ReleasesGrow
  <2>10. NumbersSequential'
    <3>1. Numbers' = 1..(n + 1)
      BY <1>0, <2>9
    <3>2. \A x \in Stored : releases[x].number \in 1..n
      BY <1>0 DEF Numbers
    <3>3. ASSUME NEW x \in Stored', NEW y \in Stored', releases'[x].number = releases'[y].number
          PROVE  x = y
      <4>1. CASE x \in Stored /\ y \in Stored
        BY <3>3, <4>1, <2>7 DEF ReleasesGrow, ReleasesOK, NumbersSequential
      <4>2. CASE x = r /\ y \in Stored
        BY <1>0, <3>2, <3>3, <4>2, <2>7, <2>8 DEF ReleasesGrow
      <4>3. CASE x \in Stored /\ y = r
        BY <1>0, <3>2, <3>3, <4>3, <2>7, <2>8 DEF ReleasesGrow
      <4>. QED
        BY <2>5, <4>1, <4>2, <4>3
    <3>. QED
      BY <2>6, <3>1, <3>3 DEF NumbersSequential
  <2>11. LiveIsPublished'
    BY <2>2, <2>5, <2>8 DEF LiveIsPublished
  <2>. QED
    BY <2>2, <2>4, <2>5, <2>6, <2>7, <2>8, <2>10, <2>11 DEF ReleasesOK
<1>. QED
  BY <1>1, <1>2

\* A restore keeps the releases and their numbers; the target ends published, even
\* when what the request takes for live is not live any more.
LEMMA ActivateKeeps ==
    ASSUME ReleasesOK, NEW target \in Stored, NEW previous \in Stored \cup {None},
           ActivateRelease(target, previous)
    PROVE  ReleasesOK' /\ ReleasesGrow /\ Stored' = Stored /\ live' = target
<1>. DEFINE one == [releases EXCEPT ![target].status = "published"]
            two == MarkReplaced(one, target, previous)
<1>1. releases' = two /\ live' = target
  BY DEF ActivateRelease
<1>2. \A r \in Stored : releases[r] \in Release /\ r \in ReleaseIds
  BY DEF Stored, ReleasesOK
<1>3. /\ one \in [ReleaseIds -> Release \cup {None}]
      /\ one[target].status = "published"
      /\ \A r \in Stored : /\ one[r] \in Release
                           /\ one[r].number = releases[r].number
                           /\ one[r].snapshot = releases[r].snapshot
      /\ \A r \in ReleaseIds \ Stored : one[r] = None
  BY <1>2 DEF ReleasesOK, Release, Stored
<1>. HIDE DEF one
<1>4. /\ two \in [ReleaseIds -> Release \cup {None}]
      /\ two[target].status = "published"
      /\ \A r \in Stored : /\ two[r] \in Release
                           /\ two[r].number = releases[r].number
                           /\ two[r].snapshot = releases[r].snapshot
      /\ \A r \in ReleaseIds \ Stored : two[r] = None
  <2>1. CASE previous \notin {None, target}
    BY <1>2, <1>3, <2>1 DEF MarkReplaced, Release
  <2>2. CASE previous \in {None, target}
    BY <1>3, <2>2 DEF MarkReplaced
  <2>. QED
    BY <2>1, <2>2
<1>. HIDE DEF two
<1>5. Stored' = Stored
  BY <1>1, <1>2, <1>4, SiteConstants DEF Stored
<1>6. ReleasesGrow
  BY <1>1, <1>4, <1>5 DEF ReleasesGrow
<1>7. Numbers' = Numbers
  BY <1>5, <1>6 DEF Numbers, ReleasesGrow
<1>8. NumbersSequential'
  BY <1>5, <1>6, <1>7 DEF NumbersSequential, ReleasesGrow, ReleasesOK
<1>9. LiveIsPublished'
  BY <1>1, <1>4, <1>5 DEF LiveIsPublished
<1>. QED
  BY <1>1, <1>2, <1>4, <1>5, <1>6, <1>8, <1>9 DEF ReleasesOK

-----------------------------------------------------------------------------
(* Requests.                                                               *)

\* Migrations are only added, and what is to be migrated never changes.
MigrationsGrow ==
    \A m \in Proposed : /\ m \in Proposed'
                        /\ migrations'[m].source = migrations[m].source
                        /\ migrations'[m].to = migrations[m].to

Advances == PagesGrow /\ ReleasesGrow /\ MigrationsGrow /\ site' = site

LEMMA PartsOK ==
    ASSUME SiteInv
    PROVE  PagesOK /\ ReleasesOK
  BY DEF SiteInv, TypeOK, PagesOK, ReleasesOK

LEMMA KnownStays ==
    ASSUME TypeOK, PagesGrow, PagesOK', NEW p \in Pages, NEW v, NEW t, Known(p, v, t)
    PROVE  Known(p, v, t)'
<1>1. /\ pages[p].version \in Nat
      /\ pages'[p].version \in Nat
  BY DEF TypeOK, PagesOK, IsPage, Versions, NoPage
<1>. QED
  BY <1>1 DEF Known, PagesGrow

LEMMA HasHadStays ==
    ASSUME TypeOK, RevisionsKept, PagesGrow, PagesOK', NEW p \in Pages, NEW t, HasHad(p, t)
    PROVE  HasHad(p, t)'
<1>1. /\ pages[p].version \in Nat
      /\ pages'[p].version \in Nat
      /\ pages'[p].version >= pages[p].version
      /\ RevisionLimit \in Nat
  BY SiteConstants DEF TypeOK, PagesOK, IsPage, Versions, NoPage, PagesGrow
<1>2. \A v \in DOMAIN pages[p].revs : v \in 1..pages[p].version
  BY DEF RevisionsKept, NoPage
<1>3. CASE pages'[p].version > RevisionLimit
  BY <1>3 DEF HasHad
<1>4. CASE pages'[p].version <= RevisionLimit
  <2>1. PICK v \in DOMAIN pages[p].revs : pages[p].revs[v] = t
    BY <1>1, <1>4 DEF HasHad
  <2>2. v \in DOMAIN pages'[p].revs /\ pages'[p].revs[v] = t
    BY <1>2, <1>4, <2>1 DEF PagesGrow
  <2>. QED
    BY <2>2 DEF HasHad
<1>. QED
  BY <1>1, <1>3, <1>4

\* What a migration is to do is settled when it is proposed.
LEMMA PlanStays ==
    ASSUME MigrationsFit, ReleasesGrow, MigrationsGrow, NEW m \in Proposed
    PROVE  /\ \A p : SourceTree(m, p)' = SourceTree(m, p)
           /\ \A q, t : MigratedTree(m, q, t)' = MigratedTree(m, q, t)
           /\ \A q : ChangedPages(m, q)' = ChangedPages(m, q)
<1>1. \A p : SourceTree(m, p)' = SourceTree(m, p)
  BY DEF SourceTree, MigrationsFit, FromStored, ReleasesGrow, MigrationsGrow
<1>2. \A q, t : MigratedTree(m, q, t)' = MigratedTree(m, q, t)
  BY DEF MigratedTree, MigrationsGrow
<1>. QED
  BY <1>1, <1>2 DEF ChangedPages

LEMMA FitsStays ==
    ASSUME SiteInv, Advances, PagesOK', NEW d \in Editors, req[d] # None, req'[d] = req[d]
    PROVE  RequestFits(req[d])'
<1>. DEFINE r == req[d]
<1>1. r \in Request /\ RequestFits(r) /\ TypeOK /\ RevisionsKept /\ MigrationsFit
  BY DEF SiteInv, TypeOK, RequestsFit
<1>2. SaveFits(req[d])'
  <2>. SUFFICES ASSUME r.op = "save"
                PROVE  /\ Known(r.page, r.version, r.base)'
                       /\ r.phase = "write" /\ ~r.full /\ pages'[r.page].version = r.version =>
                             Shape[r.next] = Shape[r.base]
    BY DEF SaveFits, Known
  <2>1. r.page \in Pages /\ Known(r.page, r.version, r.base)
    BY <1>1 DEF RequestFits, SaveFits, Request, Save, Publish, Rollback, Propose, Apply, Delete
  <2>2. Known(r.page, r.version, r.base)'
    BY <1>1, <2>1, KnownStays DEF Advances
  <2>3. pages'[r.page].version = r.version => pages[r.page].version = r.version
    <3>1. pages[r.page].version \in Nat /\ pages'[r.page].version >= pages[r.page].version
      BY <1>1, <2>1, DraftType DEF Advances, PagesGrow
    <3>. QED
      BY <2>1, <3>1 DEF Known
  <2>. QED
    BY <1>1, <2>2, <2>3 DEF RequestFits, SaveFits
<1>3. ReleasesGrow /\ MigrationsGrow /\ Stored \subseteq Stored' /\ site' = site
  BY DEF Advances, ReleasesGrow
<1>4. PublishFits(req[d])'
  <2>1. Cardinality(Stored) <= Cardinality(Stored')
    <3>1. Stored' \in SUBSET ReleaseIds
      BY DEF Stored
    <3>. QED
      BY <1>3, <3>1, FS_Subset, SiteConstants
  <2>2. Cardinality(Stored') \in Nat /\ Cardinality(Stored) \in Nat
    <3>1. Stored' \in SUBSET ReleaseIds
      BY DEF Stored
    <3>. QED
      BY <3>1, FS_Subset, FS_CardinalityType, SiteConstants, StoredIsFinite
  <2>3. r.op = "publish" => r.latest \in Nat
    BY <1>1 DEF Request, Save, Publish, Rollback, Propose, Apply, Delete
  <2>. QED
    BY <1>1, <2>1, <2>2, <2>3 DEF RequestFits, PublishFits
<1>5. RollbackFits(req[d])'
  BY <1>1, <1>3 DEF RequestFits, RollbackFits
<1>6. ProposeFits(req[d])'
  BY <1>1, <1>3 DEF RequestFits, ProposeFits, FromStored
<1>7. ApplyFits(req[d])'
  <2>. SUFFICES ASSUME r.op = "apply"
                PROVE  ApplyFits(req[d])'
    BY DEF ApplyFits
  <2>. DEFINE m == r.migration
  <2>1. m \in Proposed /\ ApplyFits(r)
    BY <1>1 DEF RequestFits, ApplyFits
  <2>2. m \in Proposed'
    BY <1>3, <2>1 DEF MigrationsGrow
  <2>3. /\ \A p : SourceTree(m, p)' = SourceTree(m, p)
        /\ \A q, t : MigratedTree(m, q, t)' = MigratedTree(m, q, t)
        /\ \A q : ChangedPages(m, q)' = ChangedPages(m, q)
    BY <1>1, <1>3, <2>1, PlanStays
  <2>4. r.phase = "pages" => r.todo \subseteq ChangedPages(m, r.res)'
    BY <2>1, <2>3 DEF ApplyFits
  <2>5. ASSUME r.phase = "pages", NEW p \in Pages
        PROVE  IF r.drafts[p] = None THEN r.versions[p] = 0
               ELSE Known(p, r.versions[p], r.drafts[p])'
    BY <1>1, <2>1, <2>5, KnownStays DEF ApplyFits, Advances
  <2>6. ASSUME r.phase = "pages", r.ok, NEW p \in ChangedPages(m, r.res)' \ r.todo
        PROVE  HasHad(p, Target(r, p))'
    <3>1. p \in Pages /\ HasHad(p, Target(r, p))
      BY <2>1, <2>3, <2>6 DEF ApplyFits, ChangedPages
    <3>2. Target(req[d], p)' = Target(r, p)
      BY <2>3 DEF Target
    <3>3. \A t : HasHad(p, t) => HasHad(p, t)'
      BY <1>1, <3>1, HasHadStays DEF Advances
    <3>. QED
      BY <3>1, <3>2, <3>3 DEF HasHad
  <2>. QED
    BY <2>2, <2>4, <2>5, <2>6 DEF ApplyFits, Known
<1>. QED
  BY <1>2, <1>4, <1>5, <1>6, <1>7 DEF RequestFits

\* A step of one request, after which that request fits.
LEMMA RequestsKeep ==
    ASSUME SiteInv, Advances, PagesOK', NEW c \in Editors, NEW r \in Request \cup {None},
           Become(c, r), r # None => RequestFits(req[c])'
    PROVE  req' \in [Editors -> Request \cup {None}] /\ RequestsFit'
<1>1. /\ req' \in [Editors -> Request \cup {None}]
      /\ req'[c] = r
      /\ \A d \in Editors \ {c} : req'[d] = req[d]
  BY DEF Become, SiteInv, TypeOK
<1>2. \A d \in Editors \ {c} : req[d] # None => RequestFits(req[d])'
  BY <1>1, FitsStays
<1>. QED
  BY <1>1, <1>2 DEF RequestsFit

\* How many publish at once.
LEMMA RunningStep ==
    ASSUME TypeOK, NEW c \in Editors, NEW r, Become(c, r)
    PROVE  /\ IsFiniteSet(Running("publish")) /\ Cardinality(Running("publish")) \in Nat
           /\ Cardinality(Running("publish")') \in Nat
           /\ r = None \/ r.op # "publish" =>
                 Cardinality(Running("publish")') =
                    IF c \in Running("publish") THEN Cardinality(Running("publish")) - 1
                                               ELSE Cardinality(Running("publish"))
           /\ Cardinality(Running("publish")') <=
                 IF c \in Running("publish") THEN Cardinality(Running("publish"))
                                            ELSE Cardinality(Running("publish")) + 1
<1>. DEFINE R == Running("publish")
<1>1. R \in SUBSET Editors
  BY DEF Running
<1>2. IsFiniteSet(R) /\ Cardinality(R) \in Nat
  BY <1>1, FlowConstants, FS_Subset, FS_CardinalityType
<1>3. req' = [d \in Editors |-> IF d = c THEN r ELSE req[d]]
  BY DEF TypeOK, Become
<1>4. Running("publish")' = IF r = None \/ r.op # "publish" THEN R \ {c} ELSE R \cup {c}
  BY <1>3 DEF Running
<1>5. /\ Cardinality(R \cup {c}) = IF c \in R THEN Cardinality(R) ELSE Cardinality(R) + 1
      /\ Cardinality(R \ {c}) = IF c \in R THEN Cardinality(R) - 1 ELSE Cardinality(R)
      /\ Cardinality(R \cup {c}) \in Nat /\ Cardinality(R \ {c}) \in Nat
  BY <1>2, FS_AddElement, FS_RemoveElement, FS_CardinalityType
<1>6. CASE r = None \/ r.op # "publish"
  <2>1. Cardinality(Running("publish")') = Cardinality(R \ {c})
    BY <1>4, <1>6, Zenon
  <2>. QED
    BY <1>2, <1>5, <1>6, <2>1
<1>7. CASE ~(r = None \/ r.op # "publish")
  <2>1. Cardinality(Running("publish")') = Cardinality(R \cup {c})
    BY <1>4, <1>7, Zenon
  <2>. QED
    BY <1>2, <1>5, <1>7, <2>1
<1>. QED
  BY <1>6, <1>7

LEMMA TablesStay ==
    ASSUME SiteInv, UNCHANGED siteVars
    PROVE  PagesOK' /\ ReleasesOK' /\ MigrationsFit' /\ Advances /\ Stored' = Stored
<1>1. PagesOK' /\ PagesGrow
  <2>1. \A p \in Pages : pages[p].version \in Nat
    BY DraftType DEF SiteInv
  <2>2. PagesOK
    BY PartsOK
  <2>. QED
    BY <2>1, <2>2 DEF PagesOK, PagesGrow, RevisionsKept, siteVars
<1>2. ReleasesOK' /\ ReleasesGrow /\ Stored' = Stored
  BY PartsOK, ReleasesStay DEF siteVars
<1>3. MigrationsFit' /\ MigrationsGrow
  BY <1>2 DEF SiteInv, MigrationsFit, MigrationsGrow, Proposed, FromStored, siteVars
<1>. QED
  BY <1>1, <1>2, <1>3 DEF Advances, siteVars

\* A request goes on, and writes nothing.
LEMMA GoesKeeps ==
    ASSUME SiteInv, UNCHANGED siteVars, NEW c \in Editors, NEW r \in Request, Become(c, r),
           RequestFits(r),
           r.op = "publish" =>
              \/ c \in Running("publish")
              \/ Cardinality(Stored) + Cardinality(Running("publish")) < site.releases
    PROVE  SiteInv'
<1>1. PagesOK' /\ ReleasesOK' /\ MigrationsFit' /\ Advances /\ Stored' = Stored
  BY TablesStay
<1>2. req'[c] = r
  BY DEF Become, SiteInv, TypeOK
<1>3. RequestFits(req[c])'
  BY <1>1, <1>2 DEF RequestFits, SaveFits, PublishFits, RollbackFits, ProposeFits, ApplyFits,
       Known, HasHad, FromStored, ChangedPages, SourceTree, MigratedTree, Target, Proposed, siteVars
<1>4. req' \in [Editors -> Request \cup {None}] /\ RequestsFit'
  BY <1>1, <1>3, RequestsKeep
<1>5. BoundsKept'
  <2>1. /\ Cardinality(Stored) \in Nat /\ site.releases \in Nat
        /\ Cardinality(Running("publish")) \in Nat /\ Cardinality(Running("publish")') \in Nat
        /\ r = None \/ r.op # "publish" =>
                 Cardinality(Running("publish")') <= Cardinality(Running("publish"))
        /\ Cardinality(Running("publish")') <=
                 IF c \in Running("publish") THEN Cardinality(Running("publish"))
                                            ELSE Cardinality(Running("publish")) + 1
    BY StoredIsFinite, RunningStep, FlowConstants DEF SiteInv, TypeOK, Site
  <2>. QED
    BY <1>1, <2>1 DEF SiteInv, BoundsKept, siteVars
<1>6. TypeOK'
  BY <1>1, <1>4 DEF SiteInv, TypeOK, PagesOK, ReleasesOK, siteVars
<1>. QED
  BY <1>1, <1>4, <1>5, <1>6 DEF SiteInv, PagesOK, ReleasesOK

\* A request ends, with what it has written or with nothing.
LEMMA EndKeeps ==
    ASSUME SiteInv, Advances, PagesOK', ReleasesOK', MigrationsFit', NEW c \in Editors, Answer(c),
           migrations' \in [MigrationIds -> Migration \cup {None}],
           datasets' \subseteq Datasets, UNCHANGED catalog,
           \/ Stored' = Stored
           \/ c \in Running("publish") /\ Cardinality(Stored') = Cardinality(Stored) + 1
    PROVE  SiteInv'
<1>1. Become(c, None)
  BY DEF Answer, Become
<1>2. req' \in [Editors -> Request \cup {None}] /\ RequestsFit'
  BY <1>1, RequestsKeep
<1>3. BoundsKept'
  <2>1. /\ Cardinality(Stored) \in Nat /\ site.releases \in Nat
        /\ Cardinality(Running("publish")) \in Nat /\ Cardinality(Running("publish")') \in Nat
        /\ Cardinality(Running("publish")') =
                    IF c \in Running("publish") THEN Cardinality(Running("publish")) - 1
                                               ELSE Cardinality(Running("publish"))
    BY <1>1, StoredIsFinite, RunningStep, FlowConstants DEF SiteInv, TypeOK, Site
  <2>. QED
    BY <2>1 DEF SiteInv, BoundsKept, Advances
<1>4. TypeOK'
  BY <1>2 DEF SiteInv, TypeOK, PagesOK, ReleasesOK, Advances
<1>. QED
  BY <1>2, <1>3, <1>4 DEF SiteInv, PagesOK, ReleasesOK

\* A request ends, and writes nothing.
LEMMA AnswerKeeps ==
    ASSUME SiteInv, UNCHANGED siteVars, NEW c \in Editors, Answer(c)
    PROVE  SiteInv'
<1>1. PagesOK' /\ ReleasesOK' /\ MigrationsFit' /\ Advances /\ Stored' = Stored
  BY TablesStay
<1>. QED
  BY <1>1, EndKeeps DEF SiteInv, TypeOK, siteVars

\* A step of no request: a page is made, or components are deployed.
LEMMA AsideKeeps ==
    ASSUME SiteInv, PagesOK', PagesGrow, catalog' \in Versions, catalog' <= site.catalogs,
           UNCHANGED <<releases, live, migrations, datasets, site, req>>
    PROVE  SiteInv' /\ Advances
<1>1. ReleasesOK' /\ ReleasesGrow /\ Stored' = Stored
  BY PartsOK, ReleasesStay
<1>2. MigrationsFit' /\ MigrationsGrow
  BY <1>1 DEF SiteInv, MigrationsFit, MigrationsGrow, Proposed, FromStored
<1>3. Advances
  BY <1>1, <1>2 DEF Advances
<1>4. \A d \in Editors : req[d] # None => RequestFits(req[d])'
  BY <1>3, FitsStays
<1>5. RequestsFit'
  BY <1>4 DEF RequestsFit
<1>6. BoundsKept'
  BY <1>1 DEF SiteInv, BoundsKept, Running
<1>7. TypeOK'
  BY <1>1 DEF SiteInv, TypeOK, PagesOK, ReleasesOK
<1>. QED
  BY <1>1, <1>2, <1>3, <1>5, <1>6, <1>7 DEF SiteInv, PagesOK, ReleasesOK

\* The request of an editor.
LEMMA UnderWay ==
    ASSUME SiteInv, NEW c \in Editors, req[c] # None
    PROVE  /\ req[c] \in Request /\ RequestFits(req[c])
           /\ req[c].op = "save" => req[c] \in Save
           /\ req[c].op = "publish" => req[c] \in Publish /\ c \in Running("publish")
           /\ req[c].op = "rollback" => req[c] \in Rollback
           /\ req[c].op = "propose" => req[c] \in Propose
           /\ req[c].op = "apply" => req[c] \in Apply
           /\ req[c].op = "delete" => req[c] \in Delete
<1>1. req[c] \in Request /\ RequestFits(req[c])
  BY DEF SiteInv, TypeOK, RequestsFit
<1>. QED
  BY <1>1 DEF Running, Request, Save, Publish, Rollback, Propose, Apply, Delete

-----------------------------------------------------------------------------
(* Page drafts.                                                            *)

LEMMA CreatePageKeeps ==
    ASSUME SiteInv, NEW c \in Editors, CreatePage(c)
    PROVE  SiteInv'
<1>1. PICK p \in site.later : CreateRow(p, FirstTree[p])
  BY DEF CreatePage
<1>2. p \in Pages /\ FirstTree[p] \in Trees
  BY FlowConstants DEF SiteInv, TypeOK, Site
<1>3. PagesOK' /\ PagesGrow
  BY <1>1, <1>2, CreateKeeps, PartsOK
<1>. QED
  BY <1>3, AsideKeeps DEF CreatePage, SiteInv, TypeOK, BoundsKept

LEMMA OpenPageKeeps ==
    ASSUME SiteInv, NEW c \in Editors, OpenPage(c)
    PROVE  SiteInv'
<1>1. PICK p \in Pages, t \in site.trees, full \in BOOLEAN :
        /\ pages[p] # NoPage
        /\ Become(c, [op |-> "save", phase |-> "check", page |-> p,
                      version |-> pages[p].version, base |-> Draft(p),
                      next |-> t, full |-> full])
  BY DEF OpenPage
<1>. DEFINE r == [op |-> "save", phase |-> "check", page |-> p,
                  version |-> pages[p].version, base |-> Draft(p),
                  next |-> t, full |-> full]
<1>2. /\ IsPage(pages[p]) /\ Draft(p) \in Trees /\ pages[p].version \in Versions
      /\ t \in Trees
  BY <1>1, DraftType, FlowConstants DEF SiteInv, TypeOK, Site
<1>3. r \in Request
  BY <1>2 DEF Request, Save
<1>4. Known(p, pages[p].version, Draft(p))
  BY <1>2 DEF Known, Draft, Versions
<1>5. RequestFits(r)
  <2>1. SaveFits(r)
    BY <1>4 DEF SaveFits
  <2>2. r.op = "save"
    OBVIOUS
  <2>. HIDE DEF r
  <2>. QED
    BY <2>1, <2>2 DEF RequestFits, PublishFits, RollbackFits, ProposeFits, ApplyFits
<1>. QED
  BY <1>1, <1>3, <1>5, GoesKeeps DEF OpenPage

LEMMA CheckSaveKeeps ==
    ASSUME SiteInv, NEW c \in Editors, CheckSave(c)
    PROVE  SiteInv'
<1>. DEFINE r == req[c]
            q == [r EXCEPT !.phase = "write"]
<1>1. r \in Save /\ RequestFits(r) /\ r.op = "save"
  BY UnderWay DEF CheckSave, At
<1>2. CASE ~InScope(r)
  BY <1>2, AnswerKeeps DEF CheckSave
<1>3. CASE InScope(r)
  <2>1. /\ q \in Save /\ q.op = "save" /\ q.phase = "write" /\ q.page = r.page
        /\ q.version = r.version /\ q.base = r.base /\ q.next = r.next /\ q.full = r.full
    BY <1>1 DEF Save
  <2>2. Known(r.page, r.version, r.base)
    BY <1>1 DEF RequestFits, SaveFits
  <2>3. pages[r.page].version = r.version => Draft(r.page) = r.base
    <3>1. pages[r.page] # NoPage /\ r.page \in Pages
      BY <1>1, <2>2 DEF Known, NoPage, Save
    <3>2. pages[r.page].version \in DOMAIN pages[r.page].revs
      BY <3>1, DraftType DEF SiteInv, IsPage
    <3>. QED
      BY <2>2, <3>2 DEF Known, Draft
  <2>4. RequestFits(q)
    <3>1. SaveFits(q)
      BY <1>3, <2>1, <2>2, <2>3 DEF SaveFits, InScope
    <3>. QED
      BY <2>1, <3>1 DEF RequestFits, PublishFits, RollbackFits, ProposeFits, ApplyFits
  <2>5. q \in Request
    BY <2>1 DEF Request
  <2>6. Become(c, q)
    BY <1>3 DEF CheckSave
  <2>. HIDE DEF q
  <2>. QED
    BY <2>1, <2>4, <2>5, <2>6, GoesKeeps DEF CheckSave
<1>. QED
  BY <1>2, <1>3

\* The save of a request changes its page only, over the tree its editor opened.
LEMMA WriteSaveKeeps ==
    ASSUME SiteInv, NEW c \in Editors, WriteSave(c)
    PROVE  /\ SiteInv'
           /\ req[c] # None /\ req[c].op = "save"
           /\ \A d \in Editors \ {c} : req'[d] = req[d]
           /\ \A p \in Pages : pages'[p] # pages[p] =>
                 /\ Draft(p) = req[c].base
                 /\ ~req[c].full => Shape[pages'[p].revs[pages'[p].version]] = Shape[Draft(p)]
<1>. DEFINE r == req[c]
<1>1. r \in Save /\ RequestFits(r) /\ r.op = "save" /\ r.phase = "write" /\ r # None
  BY UnderWay DEF WriteSave, At
<1>2. r.page \in Pages /\ r.next \in Trees /\ r.version \in Nat
  BY <1>1 DEF Save, Versions
<1>3. SaveRow(r.page, r.next, r.version)
  BY DEF WriteSave, Expected
<1>4. /\ PagesOK' /\ PagesGrow
      /\ \A p \in Pages : pages'[p] # pages[p] =>
                 /\ p = r.page /\ pages[p].version = r.version
                 /\ pages'[p].version = r.version + 1 /\ pages'[p].revs[r.version + 1] = r.next
  BY <1>2, <1>3, SaveKeeps, PartsOK
<1>5. ReleasesOK' /\ ReleasesGrow /\ Stored' = Stored
  BY PartsOK, ReleasesStay DEF WriteSave
<1>6. MigrationsFit' /\ MigrationsGrow
  BY <1>5 DEF WriteSave, SiteInv, MigrationsFit, MigrationsGrow, Proposed, FromStored
<1>7. SiteInv'
  BY <1>4, <1>5, <1>6, EndKeeps DEF WriteSave, SiteInv, TypeOK, Advances
<1>8. ASSUME NEW p \in Pages, pages'[p] # pages[p]
      PROVE  /\ Draft(p) = r.base
             /\ ~r.full => Shape[pages'[p].revs[pages'[p].version]] = Shape[Draft(p)]
  <2>1. Known(p, r.version, r.base) /\ pages[p].version = r.version
    BY <1>1, <1>4, <1>8 DEF RequestFits, SaveFits
  <2>2. pages[p].version \in DOMAIN pages[p].revs
    <3>1. pages[p] # NoPage
      BY <2>1 DEF Known, NoPage
    <3>. QED
      BY <3>1, DraftType DEF SiteInv, IsPage
  <2>3. Draft(p) = r.base
    BY <2>1, <2>2 DEF Known, Draft
  <2>4. ~r.full => Shape[r.next] = Shape[r.base]
    BY <1>1, <1>4, <1>8, <2>1 DEF RequestFits, SaveFits
  <2>. QED
    BY <1>4, <1>8, <2>3, <2>4
<1>9. \A d \in Editors \ {c} : req'[d] = req[d]
  BY DEF WriteSave, Answer, SiteInv, TypeOK
<1>. QED
  BY <1>1, <1>7, <1>8, <1>9

-----------------------------------------------------------------------------
(* Releases.                                                               *)

LEMMA ReadDraftsKeeps ==
    ASSUME SiteInv, NEW c \in Editors, ReadDrafts(c)
    PROVE  SiteInv'
<1>. DEFINE r == [op |-> "publish", phase |-> "live", snapshot |-> DraftsNow,
                  pin |-> catalog, latest |-> 0]
<1>1. r \in Request
  BY ReadType DEF SiteInv, TypeOK, Request, Publish
<1>2. 0 <= Cardinality(Stored)
  BY StoredIsFinite
<1>3. RequestFits(r)
  BY <1>2 DEF RequestFits, SaveFits, PublishFits, RollbackFits, ProposeFits, ApplyFits
<1>4. Become(c, r)
  BY DEF ReadDrafts
<1>. HIDE DEF r
<1>. QED
  BY <1>1, <1>3, <1>4, GoesKeeps DEF ReadDrafts

\* A publish that has read more.
LEMMA PublishGoes ==
    ASSUME SiteInv, UNCHANGED siteVars, NEW c \in Editors, req[c] # None, req[c].op = "publish",
           NEW q \in Publish, q.latest <= Cardinality(Stored), Become(c, q)
    PROVE  SiteInv'
<1>1. q \in Request /\ q.op = "publish"
  BY DEF Request, Publish
<1>2. RequestFits(q)
  BY <1>1 DEF RequestFits, SaveFits, PublishFits, RollbackFits, ProposeFits, ApplyFits
<1>. QED
  BY <1>1, <1>2, UnderWay, GoesKeeps

LEMMA ReadLiveKeeps ==
    ASSUME SiteInv, NEW c \in Editors, ReadLive(c)
    PROVE  SiteInv'
<1>. DEFINE q == [req[c] EXCEPT !.phase = "number", !.pin = catalog]
<1>1. /\ req[c] # None /\ req[c].op = "publish" /\ req[c] \in Publish
      /\ RequestFits(req[c]) /\ catalog \in Versions
  BY UnderWay DEF ReadLive, At, SiteInv, TypeOK
<1>2. q \in Publish /\ q.latest = req[c].latest
  BY <1>1 DEF Publish
<1>3. q.latest <= Cardinality(Stored)
  BY <1>1, <1>2 DEF RequestFits, PublishFits
<1>4. Become(c, q)
  BY DEF ReadLive
<1>. HIDE DEF q
<1>. QED
  BY <1>1, <1>2, <1>3, <1>4, PublishGoes DEF ReadLive

LEMMA ReadNumberKeeps ==
    ASSUME SiteInv, NEW c \in Editors, ReadNumber(c)
    PROVE  SiteInv'
<1>. DEFINE q == [req[c] EXCEPT !.phase = "commit", !.latest = Latest]
<1>1. req[c] # None /\ req[c].op = "publish" /\ req[c] \in Publish
  BY UnderWay DEF ReadNumber, At
<1>2. Latest = Cardinality(Stored) /\ Latest \in Nat
  BY PartsOK, LatestIsCount
<1>3. q \in Publish /\ q.latest = Latest
  BY <1>1, <1>2 DEF Publish
<1>4. Become(c, q)
  BY DEF ReadNumber
<1>. HIDE DEF q
<1>. QED
  BY <1>1, <1>2, <1>3, <1>4, PublishGoes DEF ReadNumber

\* A release that is stored is the next edition and is live; one that is refused
\* changes nothing.
LEMMA CommitPublishKeeps ==
    ASSUME SiteInv, NEW c \in Editors, CommitPublish(c)
    PROVE  /\ SiteInv' /\ ReleasesGrow
           /\ \/ UNCHANGED <<releases, live>>
              \/ \E r \in ReleaseIds :
                    /\ r \notin Stored /\ Stored' = Stored \cup {r} /\ live' = r
                    /\ releases'[r].number = Cardinality(Stored) + 1
                    /\ releases'[r].snapshot \in Snapshot
                    /\ Cardinality(Stored') = Cardinality(Stored) + 1
<1>1. /\ req[c] \in Publish /\ RequestFits(req[c]) /\ req[c].op = "publish"
      /\ c \in Running("publish")
  BY UnderWay DEF CommitPublish, At
<1>2. req[c].latest <= Cardinality(Stored)
  BY <1>1 DEF RequestFits, PublishFits
<1>3. Cardinality(Stored) < Cardinality(ReleaseIds)
  <2>1. Cardinality(Running("publish")) \in Nat /\ Cardinality(Running("publish")) # 0
    <3>1. IsFiniteSet(Running("publish"))
      <4>1. Running("publish") \in SUBSET Editors
        BY DEF Running
      <4>. QED
        BY <4>1, FlowConstants, FS_Subset
    <3>. QED
      BY <1>1, <3>1, FS_EmptySet, FS_CardinalityType
  <2>2. /\ Cardinality(Stored) + Cardinality(Running("publish")) <= site.releases
        /\ site.releases <= Cardinality(ReleaseIds) /\ site.releases \in Nat
    BY FlowConstants DEF SiteInv, BoundsKept, TypeOK, Site
  <2>3. Cardinality(Stored) \in Nat /\ Cardinality(ReleaseIds) \in Nat
    BY StoredIsFinite, SiteConstants, FS_CardinalityType
  <2>. QED
    BY <2>1, <2>2, <2>3
<1>. DEFINE r == NewRelease
<1>4. r \in ReleaseIds /\ r \notin Stored
  BY <1>3, StoredIsFinite DEF NewRelease
<1>5. InsertRelease(r, req[c].latest, req[c])
  BY DEF CommitPublish
<1>. HIDE DEF r
<1>6. /\ ReleasesOK' /\ ReleasesGrow
      /\ \/ UNCHANGED <<releases, live>>
         \/ /\ Stored' = Stored \cup {r} /\ live' = r
            /\ releases'[r].number = Cardinality(Stored) + 1
            /\ releases'[r].snapshot \in Snapshot
            /\ Cardinality(Stored') = Cardinality(Stored) + 1
  BY <1>1, <1>2, <1>4, <1>5, InsertKeeps, PartsOK
<1>7. PagesOK' /\ PagesGrow
  <2>1. \A p \in Pages : pages[p].version \in Nat
    BY DraftType DEF SiteInv
  <2>. QED
    BY <2>1, PartsOK DEF CommitPublish, PagesOK, PagesGrow, RevisionsKept
<1>8. MigrationsFit' /\ MigrationsGrow
  BY <1>6 DEF CommitPublish, ReleasesGrow, SiteInv, MigrationsFit, MigrationsGrow, Proposed,
              FromStored
<1>9. \/ Stored' = Stored
      \/ Cardinality(Stored') = Cardinality(Stored) + 1
  BY <1>6 DEF Stored
<1>10. SiteInv'
  BY <1>1, <1>6, <1>7, <1>8, <1>9, EndKeeps DEF CommitPublish, Advances, SiteInv, TypeOK
<1>. QED
  BY <1>4, <1>6, <1>10

LEMMA LoadReleaseKeeps ==
    ASSUME SiteInv, NEW c \in Editors, LoadRelease(c)
    PROVE  SiteInv'
<1>1. PICK t \in Stored :
        Become(c, [op |-> "rollback", phase |-> "previous", target |-> t, previous |-> None])
  BY DEF LoadRelease
<1>. DEFINE r == [op |-> "rollback", phase |-> "previous", target |-> t, previous |-> None]
<1>2. r \in Request
  BY DEF Request, Rollback, Stored
<1>3. RequestFits(r)
  BY DEF RequestFits, SaveFits, PublishFits, RollbackFits, ProposeFits, ApplyFits
<1>4. r.op # "publish"
  OBVIOUS
<1>. HIDE DEF r
<1>. QED
  BY <1>1, <1>2, <1>3, <1>4, GoesKeeps DEF LoadRelease, r

LEMMA ReadPreviousKeeps ==
    ASSUME SiteInv, NEW c \in Editors, ReadPrevious(c)
    PROVE  SiteInv'
<1>. DEFINE r == req[c]
            q == [r EXCEPT !.phase = "commit", !.previous = live]
<1>1. r \in Rollback /\ RequestFits(r) /\ r.op = "rollback"
  BY UnderWay DEF ReadPrevious, At
<1>2. live \in Stored \cup {None} /\ live \in ReleaseIds \cup {None}
  BY DEF SiteInv, LiveIsPublished, TypeOK
<1>3. q \in Rollback /\ q.op = "rollback" /\ q.target = r.target /\ q.previous = live
  BY <1>1, <1>2 DEF Rollback
<1>4. RequestFits(q)
  <2>1. {r.target} \ {None} \subseteq Stored
    BY <1>1 DEF RequestFits, RollbackFits
  <2>. QED
    BY <1>2, <1>3, <2>1 DEF RequestFits, SaveFits, PublishFits, RollbackFits, ProposeFits, ApplyFits
<1>5. q \in Request
  BY <1>3 DEF Request
<1>6. Become(c, q)
  BY DEF ReadPrevious
<1>. HIDE DEF q
<1>. QED
  BY <1>3, <1>4, <1>5, <1>6, GoesKeeps DEF ReadPrevious

\* A restore opens a stored release, and keeps all of them.
LEMMA CommitRollbackKeeps ==
    ASSUME SiteInv, NEW c \in Editors, CommitRollback(c)
    PROVE  SiteInv' /\ ReleasesGrow /\ Stored' = Stored /\ live' \in Stored
<1>1. req[c] \in Rollback /\ RequestFits(req[c]) /\ req[c].op = "rollback"
  BY UnderWay DEF CommitRollback, At
<1>2. req[c].target \in Stored /\ req[c].previous \in Stored \cup {None}
  BY <1>1, SiteConstants DEF RequestFits, RollbackFits, Rollback
<1>3. ReleasesOK' /\ ReleasesGrow /\ Stored' = Stored /\ live' = req[c].target
  BY <1>2, ActivateKeeps, PartsOK DEF CommitRollback
<1>4. PagesOK' /\ PagesGrow
  <2>1. \A p \in Pages : pages[p].version \in Nat
    BY DraftType DEF SiteInv
  <2>. QED
    BY <2>1, PartsOK DEF CommitRollback, PagesOK, PagesGrow, RevisionsKept
<1>5. MigrationsFit' /\ MigrationsGrow
  BY <1>3 DEF CommitRollback, SiteInv, MigrationsFit, MigrationsGrow, Proposed, FromStored
<1>6. SiteInv'
  BY <1>3, <1>4, <1>5, EndKeeps DEF CommitRollback, Advances, SiteInv, TypeOK
<1>. QED
  BY <1>2, <1>3, <1>6

-----------------------------------------------------------------------------
(* Migrations.                                                             *)

LEMMA PlanMigrationKeeps ==
    ASSUME SiteInv, NEW c \in Editors, PlanMigration(c)
    PROVE  SiteInv'
<1>. DEFINE r == [op |-> "propose", phase |-> "record", source |-> live, to |-> catalog]
<1>1. live \in Stored /\ live \in ReleaseIds /\ catalog \in Versions /\ catalog <= site.catalogs
  BY DEF PlanMigration, SiteInv, LiveIsPublished, TypeOK, BoundsKept
<1>2. r \in Request
  BY <1>1 DEF Request, Propose
<1>3. RequestFits(r)
  BY <1>1 DEF RequestFits, SaveFits, PublishFits, RollbackFits, ProposeFits, ApplyFits, FromStored
<1>4. Become(c, r) /\ r.op # "publish"
  BY DEF PlanMigration
<1>. HIDE DEF r
<1>. QED
  BY <1>2, <1>3, <1>4, GoesKeeps DEF PlanMigration

LEMMA RecordMigrationKeeps ==
    ASSUME SiteInv, NEW c \in Editors, RecordMigration(c)
    PROVE  SiteInv'
<1>1. req[c] \in Propose /\ RequestFits(req[c]) /\ req[c].op = "propose"
  BY UnderWay DEF RecordMigration, At
<1>2. PICK m \in MigrationIds :
        /\ migrations[m] = None
        /\ migrations' = [migrations EXCEPT ![m] =
             [source |-> req[c].source, to |-> req[c].to, status |-> "proposed"]]
  BY DEF RecordMigration
<1>. DEFINE new == [source |-> req[c].source, to |-> req[c].to, status |-> "proposed"]
<1>3. new \in Migration /\ new # None /\ FromStored(new.source, new.to)
  BY <1>1, SiteConstants DEF Migration, Propose, RequestFits, ProposeFits
<1>. HIDE DEF new
<1>4. /\ migrations' = [x \in MigrationIds |-> IF x = m THEN new ELSE migrations[x]]
      /\ migrations' \in [MigrationIds -> Migration \cup {None}]
  BY <1>2, <1>3 DEF SiteInv, TypeOK, new
<1>5. ReleasesOK' /\ ReleasesGrow /\ Stored' = Stored
  BY PartsOK, ReleasesStay DEF RecordMigration
<1>6. MigrationsFit' /\ MigrationsGrow
  BY <1>2, <1>3, <1>4, <1>5 DEF RecordMigration, SiteInv, MigrationsFit, MigrationsGrow, Proposed,
     FromStored
<1>7. PagesOK' /\ PagesGrow
  <2>1. \A p \in Pages : pages[p].version \in Nat
    BY DraftType DEF SiteInv
  <2>. QED
    BY <2>1, PartsOK DEF RecordMigration, PagesOK, PagesGrow, RevisionsKept
<1>. QED
  BY <1>4, <1>5, <1>6, <1>7, EndKeeps DEF RecordMigration, Advances, SiteInv, TypeOK

LEMMA LoadMigrationKeeps ==
    ASSUME SiteInv, NEW c \in Editors, LoadMigration(c)
    PROVE  SiteInv'
<1>1. PICK m \in MigrationIds, q \in site.resolutions :
        /\ migrations[m] # None
        /\ Become(c, [op |-> "apply", phase |-> "live", migration |-> m, res |-> q,
                      drafts |-> [p \in Pages |-> None],
                      versions |-> [p \in Pages |-> 0], todo |-> {}, ok |-> TRUE])
  BY DEF LoadMigration
<1>. DEFINE r == [op |-> "apply", phase |-> "live", migration |-> m, res |-> q,
                  drafts |-> [p \in Pages |-> None],
                  versions |-> [p \in Pages |-> 0], todo |-> {}, ok |-> TRUE]
<1>2. q \in Resolutions
  BY FlowConstants DEF SiteInv, TypeOK, Site
<1>3. r \in Request
  BY <1>2 DEF Request, Apply, Snapshot
<1>4. RequestFits(r)
  BY <1>1 DEF RequestFits, SaveFits, PublishFits, RollbackFits, ProposeFits, ApplyFits, Proposed
<1>5. r.op # "publish"
  OBVIOUS
<1>. HIDE DEF r
<1>. QED
  BY <1>1, <1>3, <1>4, <1>5, GoesKeeps DEF LoadMigration, r

\* The request of an apply, and what it is to do.
LEMMA ApplyUnderWay ==
    ASSUME SiteInv, NEW c \in Editors, req[c] # None, req[c].op = "apply"
    PROVE  /\ req[c] \in Apply /\ ApplyFits(req[c])
           /\ req[c].migration \in Proposed
           /\ \A p \in ChangedPages(req[c].migration, req[c].res) :
                 p \in Pages /\ Target(req[c], p) \in Trees
<1>. DEFINE r == req[c]
            m == r.migration
<1>1. r \in Apply /\ ApplyFits(r) /\ m \in Proposed /\ r.res \in Resolutions
  BY UnderWay DEF RequestFits, ApplyFits, Apply
<1>2. /\ migrations[m] \in Migration /\ migrations[m].source \in Stored
      /\ migrations[m].to \in 1..site.catalogs
  BY <1>1, FlowConstants DEF SiteInv, TypeOK, MigrationsFit, FromStored, Proposed, Migration, Versions,
     Site
<1>3. Merge[migrations[m].to][r.res] \in [Trees -> Trees]
  BY <1>1, <1>2, FlowConstants DEF SiteInv, TypeOK
<1>4. releases[migrations[m].source].snapshot \in Snapshot
  BY <1>2 DEF SiteInv, TypeOK, Stored, Release
<1>5. ASSUME NEW p \in ChangedPages(m, r.res)
      PROVE  p \in Pages /\ Target(r, p) \in Trees
  <2>1. p \in Pages /\ SourceTree(m, p) \in Trees
    BY <1>4 DEF ChangedPages, SourceTree, Snapshot
  <2>. QED
    BY <1>3, <2>1 DEF Target, MigratedTree
<1>. QED
  BY <1>1, <1>5

LEMMA ApplyGoes ==
    ASSUME SiteInv, UNCHANGED siteVars, NEW c \in Editors, NEW q \in Apply, ApplyFits(q),
           Become(c, q)
    PROVE  SiteInv'
<1>1. q \in Request /\ q.op = "apply"
  BY DEF Request, Apply
<1>2. RequestFits(q)
  BY <1>1 DEF RequestFits, SaveFits, PublishFits, RollbackFits, ProposeFits
<1>. QED
  BY <1>1, <1>2, GoesKeeps

LEMMA CheckSourceKeeps ==
    ASSUME SiteInv, NEW c \in Editors, CheckSource(c)
    PROVE  SiteInv'
<1>1. CASE Answer(c)
  BY <1>1, AnswerKeeps DEF CheckSource
<1>2. CASE Become(c, [req[c] EXCEPT !.phase = "drafts"])
  <2>. DEFINE q == [req[c] EXCEPT !.phase = "drafts"]
  <2>1. req[c] \in Apply /\ req[c].migration \in Proposed
    BY ApplyUnderWay DEF CheckSource, At
  <2>2. q \in Apply /\ q.phase = "drafts" /\ q.migration = req[c].migration
    BY <2>1 DEF Apply
  <2>3. ApplyFits(q)
    BY <2>1, <2>2 DEF ApplyFits
  <2>. HIDE DEF q
  <2>. QED
    BY <1>2, <2>2, <2>3, ApplyGoes DEF CheckSource, q
<1>. QED
  BY <1>1, <1>2 DEF CheckSource

LEMMA LoadDraftsKeeps ==
    ASSUME SiteInv, NEW c \in Editors, LoadDrafts(c)
    PROVE  SiteInv'
<1>. DEFINE r == req[c]
            q == [r EXCEPT !.phase = "pages", !.drafts = DraftsNow, !.versions = VersionsNow,
                           !.todo = ChangedPages(r.migration, r.res)]
<1>1. r \in Apply /\ r.migration \in Proposed
  BY ApplyUnderWay DEF LoadDrafts, At
<1>2. DraftsNow \in Snapshot /\ VersionsNow \in [Pages -> Nat]
  BY ReadType DEF SiteInv
<1>3. ChangedPages(r.migration, r.res) \subseteq Pages
  BY DEF ChangedPages
<1>4. /\ q \in Apply /\ q.migration = r.migration /\ q.res = r.res
      /\ q.drafts = DraftsNow /\ q.versions = VersionsNow
      /\ q.todo = ChangedPages(r.migration, r.res)
  BY <1>1, <1>2, <1>3 DEF Apply
<1>5. ASSUME NEW p \in Pages
      PROVE  IF DraftsNow[p] = None THEN VersionsNow[p] = 0
             ELSE Known(p, VersionsNow[p], DraftsNow[p])
  <2>1. CASE pages[p] = NoPage
    BY <2>1 DEF DraftsNow, VersionsNow, NoPage
  <2>2. CASE pages[p] # NoPage
    <3>1. IsPage(pages[p]) /\ Draft(p) \in Trees /\ pages[p].version \in Versions
      BY <2>2, DraftType DEF SiteInv
    <3>2. DraftsNow[p] = Draft(p) /\ VersionsNow[p] = pages[p].version
      BY <2>2 DEF DraftsNow, VersionsNow
    <3>3. Known(p, pages[p].version, Draft(p))
      BY <3>1 DEF Known, Draft, Versions
    <3>. QED
      BY <3>1, <3>2, <3>3, SiteConstants
  <2>. QED
    BY <2>1, <2>2
<1>. HIDE DEF q
<1>6. ApplyFits(q)
  BY <1>1, <1>4, <1>5 DEF ApplyFits
<1>7. Become(c, q)
  BY DEF LoadDrafts, q
<1>. QED
  BY <1>4, <1>6, <1>7, ApplyGoes DEF LoadDrafts

\* A revision that was known is there, unless it may be deleted by now.
LEMMA KnownIsHad ==
    ASSUME TypeOK, RevisionsKept, NEW p \in Pages, NEW v, NEW t, Known(p, v, t)
    PROVE  HasHad(p, t)
<1>1. pages[p] # NoPage /\ pages[p].version \in Nat /\ RevisionLimit \in Nat /\ v \in Nat
  BY DraftType, SiteConstants DEF Known, NoPage
<1>2. DOMAIN pages[p].revs = {x \in 1..pages[p].version : x > pages[p].version - RevisionLimit}
  BY <1>1 DEF RevisionsKept
<1>3. CASE v \in DOMAIN pages[p].revs
  BY <1>3 DEF Known, HasHad
<1>4. CASE v \notin DOMAIN pages[p].revs
  <2>1. v >= 1 /\ v <= pages[p].version - RevisionLimit
    BY <1>1, <1>2, <1>4 DEF Known
  <2>. QED
    BY <1>1, <2>1 DEF HasHad
<1>. QED
  BY <1>3, <1>4

\* A page is settled without a write.
LEMMA SettleKeeps ==
    ASSUME SiteInv, UNCHANGED siteVars, NEW c \in Editors, NEW p, NEW done \in BOOLEAN,
           At(c, "apply", "pages"), p \in req[c].todo, Settle(c, p, done),
           done => HasHad(p, Target(req[c], p))
    PROVE  SiteInv'
<1>. DEFINE r == req[c]
            q == [r EXCEPT !.todo = @ \ {p}, !.ok = @ /\ done]
<1>1. r \in Apply /\ ApplyFits(r) /\ r.op = "apply" /\ r.phase = "pages"
  BY ApplyUnderWay DEF At
<1>2. /\ q \in Apply /\ q.migration = r.migration /\ q.res = r.res /\ q.drafts = r.drafts
      /\ q.versions = r.versions /\ q.todo = r.todo \ {p} /\ q.ok = (r.ok /\ done)
      /\ q.phase = r.phase
  BY <1>1 DEF Apply
<1>. HIDE DEF q
<1>3. ASSUME q.ok, NEW x \in ChangedPages(r.migration, r.res) \ q.todo
      PROVE  HasHad(x, Target(r, x))
  <2>1. r.ok /\ done
    BY <1>2, <1>3
  <2>2. CASE x = p
    BY <2>1, <2>2
  <2>3. CASE x # p
    BY <1>1, <1>2, <1>3, <2>1, <2>3 DEF ApplyFits
  <2>. QED
    BY <2>2, <2>3
<1>4. \A x : Target(q, x) = Target(r, x)
  BY <1>2 DEF Target
<1>5. ApplyFits(q)
  BY <1>1, <1>2, <1>3, <1>4 DEF ApplyFits
<1>6. Become(c, q)
  BY DEF Settle, q
<1>. QED
  BY <1>2, <1>5, <1>6, ApplyGoes

LEMMA SkipPageKeeps ==
    ASSUME SiteInv, NEW c \in Editors, NEW p \in Pages, SkipPage(c, p)
    PROVE  SiteInv'
<1>. DEFINE r == req[c]
<1>1. /\ r \in Apply /\ ApplyFits(r) /\ r.phase = "pages" /\ r.op = "apply" /\ p \in r.todo
      /\ \A x \in ChangedPages(r.migration, r.res) : Target(r, x) \in Trees
  BY ApplyUnderWay DEF SkipPage, At
<1>2. HoldsTarget(r, p) => HasHad(p, Target(r, p))
  <2>. SUFFICES ASSUME HoldsTarget(r, p)
                PROVE  HasHad(p, Target(r, p))
    OBVIOUS
  <2>1. r.drafts[p] = Target(r, p)
    BY DEF HoldsTarget
  <2>2. p \in ChangedPages(r.migration, r.res)
    BY <1>1 DEF ApplyFits
  <2>3. r.drafts[p] # None
    BY <1>1, <2>1, <2>2, SiteConstants
  <2>4. Known(p, r.versions[p], Target(r, p))
    BY <1>1, <2>1, <2>3 DEF ApplyFits
  <2>. QED
    BY <2>4, KnownIsHad DEF SiteInv
<1>3. HoldsTarget(r, p) \in BOOLEAN
  BY DEF HoldsTarget
<1>. QED
  BY <1>2, <1>3, SettleKeeps DEF SkipPage

LEMMA FailPageKeeps ==
    ASSUME SiteInv, NEW c \in Editors, NEW p \in Pages, FailPage(c, p)
    PROVE  SiteInv'
  BY SettleKeeps DEF FailPage

\* The save of a migration changes its page only, over what was published.
LEMMA WritePageKeeps ==
    ASSUME SiteInv, NEW c \in Editors, NEW p \in Pages, WritePage(c, p)
    PROVE  /\ SiteInv'
           /\ req[c] # None /\ req[c].op = "apply"
           /\ \A d \in Editors \ {c} : req'[d] = req[d]
           /\ \A x \in Pages : pages'[x] # pages[x] =>
                 Draft(x) = SourceTree(req[c].migration, x)
<1>1. PICK r \in Apply : r = req[c]
  BY ApplyUnderWay DEF WritePage, At
<1>2. /\ r # None /\ ApplyFits(r) /\ r.phase = "pages" /\ r.op = "apply"
      /\ r.migration \in Proposed /\ p \in r.todo
      /\ \A x \in ChangedPages(r.migration, r.res) : Target(r, x) \in Trees
  BY <1>1, ApplyUnderWay DEF WritePage, At
<1>3. p \in ChangedPages(r.migration, r.res)
  BY <1>2 DEF ApplyFits
<1>4. PICK t \in Trees : t = Target(r, p)
  BY <1>2, <1>3
<1>5. PICK n \in Nat : n = r.versions[p]
  BY DEF Apply
<1>6. SaveRow(p, t, n) /\ Writable(r, p) /\ Settle(c, p, IsCurrent(p, n))
  BY <1>1, <1>4, <1>5 DEF WritePage, Outcome
<1>7. /\ PagesOK' /\ PagesGrow
      /\ \A x \in Pages : pages'[x] # pages[x] => x = p /\ pages[p].version = n
      /\ IsCurrent(p, n) => /\ n + 1 \in DOMAIN pages'[p].revs
                            /\ pages'[p].revs[n + 1] = t
  BY <1>6, SaveKeeps, PartsOK
<1>8. ReleasesOK' /\ ReleasesGrow /\ Stored' = Stored
  BY PartsOK, ReleasesStay DEF WritePage
<1>9. MigrationsFit' /\ MigrationsGrow
  BY <1>8 DEF WritePage, SiteInv, MigrationsFit, MigrationsGrow, Proposed, FromStored
<1>10. Advances
  BY <1>7, <1>8, <1>9 DEF Advances, WritePage
<1>11. PICK q \in Apply :
          /\ Become(c, q)
          /\ q.migration = r.migration /\ q.res = r.res /\ q.drafts = r.drafts
          /\ q.versions = r.versions /\ q.todo = r.todo \ {p} /\ q.phase = r.phase
          /\ q.ok = (r.ok /\ IsCurrent(p, n))
  <2>. DEFINE z == [r EXCEPT !.todo = @ \ {p}, !.ok = @ /\ IsCurrent(p, n)]
  <2>1. /\ z \in Apply
        /\ z.migration = r.migration /\ z.res = r.res /\ z.drafts = r.drafts
        /\ z.versions = r.versions /\ z.todo = r.todo \ {p} /\ z.phase = r.phase
        /\ z.ok = (r.ok /\ IsCurrent(p, n))
    BY DEF Apply, IsCurrent
  <2>2. Become(c, z)
    BY <1>1, <1>6 DEF Settle
  <2>. HIDE DEF z
  <2>. QED
    BY <2>1, <2>2
<1>12. req'[c] = q /\ \A d \in Editors \ {c} : req'[d] = req[d]
  BY <1>11 DEF Become, SiteInv, TypeOK
<1>13. /\ \A x : SourceTree(r.migration, x)' = SourceTree(r.migration, x)
       /\ \A k, x : MigratedTree(r.migration, k, x)' = MigratedTree(r.migration, k, x)
       /\ \A k : ChangedPages(r.migration, k)' = ChangedPages(r.migration, k)
  BY <1>2, <1>8, <1>9, PlanStays DEF SiteInv
<1>14. \A x : Target(q, x)' = Target(r, x)
  BY <1>11, <1>13 DEF Target
<1>15. ASSUME NEW x \in Pages
       PROVE  IF q.drafts[x] = None THEN q.versions[x] = 0
              ELSE Known(x, q.versions[x], q.drafts[x])'
  BY <1>2, <1>7, <1>11, KnownStays DEF ApplyFits, SiteInv
<1>16. ASSUME q.ok, NEW x \in ChangedPages(r.migration, r.res) \ q.todo
       PROVE  HasHad(x, Target(r, x))'
  <2>1. x \in Pages /\ r.ok /\ IsCurrent(p, n)
    BY <1>11, <1>16 DEF ChangedPages
  <2>2. CASE x = p
    BY <1>4, <1>7, <1>13, <2>1, <2>2 DEF HasHad, Target
  <2>3. CASE x # p
    <3>1. HasHad(x, Target(r, x))
      BY <1>2, <1>11, <1>16, <2>1, <2>3 DEF ApplyFits
    <3>2. PICK u : u = Target(r, x)
      OBVIOUS
    <3>3. HasHad(x, u)'
      BY <1>7, <2>1, <3>1, <3>2, HasHadStays DEF SiteInv
    <3>. QED
      BY <1>13, <3>2, <3>3 DEF HasHad, Target
  <2>. QED
    BY <2>2, <2>3
<1>17. RequestFits(req[c])'
  <2>1. ApplyFits(req[c])'
    <3>1. q.migration \in Proposed' /\ q.todo \subseteq ChangedPages(q.migration, q.res)'
      BY <1>2, <1>9, <1>11, <1>13 DEF ApplyFits, MigrationsGrow
    <3>2. q.ok => \A x \in ChangedPages(q.migration, q.res)' \ q.todo : HasHad(x, Target(q, x))'
      BY <1>11, <1>13, <1>14, <1>16 DEF HasHad, Target
    <3>3. ApplyFits(q)'
      BY <1>15, <3>1, <3>2 DEF ApplyFits
    <3>. QED
      BY ZenonT(40), <1>12, <3>3 DEF ApplyFits, Known, HasHad, ChangedPages, SourceTree, MigratedTree, Target
  <2>2. q.op = "apply"
    BY DEF Apply
  <2>. QED
    BY <1>12, <2>1, <2>2 DEF RequestFits, SaveFits, PublishFits, RollbackFits, ProposeFits
<1>18. req' \in [Editors -> Request \cup {None}] /\ RequestsFit'
  <2>1. q \in Request
    BY DEF Request
  <2>. QED
    BY <1>7, <1>10, <1>11, <1>17, <2>1, RequestsKeep
<1>19. BoundsKept'
  <2>1. q.op # "publish"
    BY DEF Apply
  <2>2. /\ Cardinality(Running("publish")) \in Nat /\ Cardinality(Running("publish")') \in Nat
        /\ Cardinality(Running("publish")') <= Cardinality(Running("publish"))
    BY <1>11, <2>1, RunningStep DEF SiteInv
  <2>3. Cardinality(Stored) \in Nat /\ site.releases \in Nat
    BY StoredIsFinite, FlowConstants DEF SiteInv, TypeOK, Site
  <2>. QED
    BY <1>8, <2>2, <2>3 DEF SiteInv, BoundsKept, WritePage
<1>20. TypeOK'
  BY <1>7, <1>8, <1>18 DEF WritePage, SiteInv, TypeOK, PagesOK, ReleasesOK
<1>21. SiteInv'
  BY <1>7, <1>8, <1>9, <1>18, <1>19, <1>20 DEF SiteInv, PagesOK, ReleasesOK
<1>22. ASSUME NEW x \in Pages, pages'[x] # pages[x]
       PROVE  Draft(x) = SourceTree(r.migration, x)
  <2>1. x = p /\ pages[p].version = n /\ r.drafts[p] = SourceTree(r.migration, p)
    BY <1>6, <1>7, <1>22 DEF Writable
  <2>2. r.drafts[p] # None
    BY <1>3, <2>1 DEF ChangedPages
  <2>3. Known(p, n, r.drafts[p])
    BY <1>2, <1>5, <2>2 DEF ApplyFits
  <2>4. pages[p].version \in DOMAIN pages[p].revs
    <3>1. pages[p] # NoPage
      BY <2>3 DEF Known, NoPage
    <3>. QED
      BY <3>1, DraftType DEF SiteInv, IsPage
  <2>. QED
    BY <2>1, <2>3, <2>4 DEF Known, Draft
<1>. QED
  BY <1>1, <1>2, <1>12, <1>21, <1>22

\* A migration is marked applied when every page it changes has had its tree.
LEMMA FinishApplyKeeps ==
    ASSUME SiteInv, NEW c \in Editors, FinishApply(c)
    PROVE  /\ SiteInv' /\ At(c, "apply", "pages")
           /\ \A m \in MigrationIds : migrations'[m] # migrations[m] =>
                 /\ req[c].migration = m
                 /\ \A p \in ChangedPages(m, req[c].res) : HasHad(p, Target(req[c], p))
                 /\ ChangedPages(m, req[c].res) = {} => ~LeavesSome(m, req[c].res)
<1>. DEFINE r == req[c]
<1>1. /\ r \in Apply /\ ApplyFits(r) /\ r.migration \in Proposed /\ At(c, "apply", "pages")
      /\ r.op = "apply" /\ r.phase = "pages" /\ r.todo = {}
  BY ApplyUnderWay DEF FinishApply, At
<1>2. \/ UNCHANGED migrations
      \/ /\ IsFinished(r)
         /\ migrations' = [migrations EXCEPT ![r.migration].status = "applied"]
  BY DEF FinishApply, CloseMigration
<1>3. migrations[r.migration] \in Migration /\ r.migration \in MigrationIds
  BY <1>1 DEF Proposed, SiteInv, TypeOK
<1>4. /\ migrations' \in [MigrationIds -> Migration \cup {None}]
      /\ Proposed' = Proposed
      /\ MigrationsGrow
      /\ \A m \in MigrationIds : migrations'[m] # migrations[m] => IsFinished(r) /\ r.migration = m
  <2>1. CASE UNCHANGED migrations
    BY <2>1 DEF Proposed, SiteInv, TypeOK, MigrationsGrow
  <2>2. CASE IsFinished(r) /\ migrations' = [migrations EXCEPT ![r.migration].status = "applied"]
    <3>. DEFINE new == [migrations[r.migration] EXCEPT !.status = "applied"]
    <3>1. /\ new \in Migration /\ new.source = migrations[r.migration].source
          /\ new.to = migrations[r.migration].to
      BY <1>3 DEF Migration
    <3>2. new # None
      BY <3>1, SiteConstants
    <3>. HIDE DEF new
    <3>3. migrations' = [m \in MigrationIds |-> IF m = r.migration THEN new ELSE migrations[m]]
      BY <2>2 DEF new, SiteInv, TypeOK
    <3>4. migrations' \in [MigrationIds -> Migration \cup {None}]
      BY <3>1, <3>3 DEF SiteInv, TypeOK
    <3>5. Proposed' = Proposed
      BY <1>1, <1>3, <3>2, <3>3 DEF Proposed
    <3>6. MigrationsGrow
      BY <3>1, <3>3, <3>5 DEF MigrationsGrow, Proposed
    <3>. QED
      BY <2>2, <3>3, <3>4, <3>5, <3>6
  <2>. QED
    BY <1>2, <2>1, <2>2
<1>5. ReleasesOK' /\ ReleasesGrow /\ Stored' = Stored
  BY PartsOK, ReleasesStay DEF FinishApply
<1>6. MigrationsFit'
  BY <1>4, <1>5 DEF FinishApply, SiteInv, MigrationsFit, MigrationsGrow, FromStored
<1>7. PagesOK' /\ PagesGrow
  <2>1. \A p \in Pages : pages[p].version \in Nat
    BY DraftType DEF SiteInv
  <2>. QED
    BY <2>1, PartsOK DEF FinishApply, PagesOK, PagesGrow, RevisionsKept
<1>8. SiteInv'
  BY <1>4, <1>5, <1>6, <1>7, EndKeeps DEF FinishApply, Advances, SiteInv, TypeOK
<1>9. ASSUME IsFinished(r)
      PROVE  /\ \A p \in ChangedPages(r.migration, r.res) : HasHad(p, Target(r, p))
             /\ ChangedPages(r.migration, r.res) = {} => ~LeavesSome(r.migration, r.res)
  <2>1. r.ok
    BY <1>9 DEF IsFinished
  <2>2. \A p \in ChangedPages(r.migration, r.res) \ r.todo : HasHad(p, Target(r, p))
    BY <1>1, <2>1 DEF ApplyFits
  <2>3. ChangedPages(r.migration, r.res) = {} => ~LeavesSome(r.migration, r.res)
    BY <1>9 DEF IsFinished
  <2>. QED
    BY <1>1, <2>2, <2>3
<1>. QED
  BY <1>1, <1>4, <1>8, <1>9

-----------------------------------------------------------------------------
(* Data, deployments and lost requests.                                    *)

LEMMA LoadDatasetKeeps ==
    ASSUME SiteInv, NEW c \in Editors, LoadDataset(c)
    PROVE  SiteInv'
<1>1. PICK d \in datasets :
        Become(c, [op |-> "delete", phase |-> "guard", dataset |-> d, look |-> {"drafts", "live"}])
  BY DEF LoadDataset
<1>. DEFINE r == [op |-> "delete", phase |-> "guard", dataset |-> d, look |-> {"drafts", "live"}]
<1>2. r \in Request
  BY DEF Request, Delete, SiteInv, TypeOK
<1>3. RequestFits(r)
  BY DEF RequestFits, SaveFits, PublishFits, RollbackFits, ProposeFits, ApplyFits
<1>4. r.op # "publish"
  OBVIOUS
<1>. HIDE DEF r
<1>. QED
  BY <1>1, <1>2, <1>3, <1>4, GoesKeeps DEF LoadDataset, r

LEMMA LookAtKeeps ==
    ASSUME SiteInv, NEW c \in Editors, NEW place, NEW shown, LookAt(c, place, shown)
    PROVE  SiteInv'
<1>. DEFINE r == req[c]
            q == [r EXCEPT !.look = @ \ {place}]
<1>1. r \in Delete /\ r.op = "delete"
  BY UnderWay DEF LookAt, At
<1>2. CASE Answer(c)
  BY <1>2, AnswerKeeps DEF LookAt
<1>3. CASE Become(c, q)
  <2>1. q \in Delete /\ q.op = "delete"
    BY <1>1 DEF Delete
  <2>2. RequestFits(q)
    BY <2>1 DEF RequestFits, SaveFits, PublishFits, RollbackFits, ProposeFits, ApplyFits
  <2>3. q \in Request
    BY <2>1 DEF Request
  <2>. HIDE DEF q
  <2>. QED
    BY <1>3, <2>1, <2>2, <2>3, GoesKeeps DEF LookAt
<1>. QED
  BY <1>2, <1>3 DEF LookAt

LEMMA CommitDeleteKeeps ==
    ASSUME SiteInv, NEW c \in Editors, CommitDelete(c)
    PROVE  SiteInv'
<1>1. ReleasesOK' /\ ReleasesGrow /\ Stored' = Stored
  BY PartsOK, ReleasesStay DEF CommitDelete
<1>2. MigrationsFit' /\ MigrationsGrow
  BY <1>1 DEF CommitDelete, SiteInv, MigrationsFit, MigrationsGrow, Proposed, FromStored
<1>3. PagesOK' /\ PagesGrow
  <2>1. \A p \in Pages : pages[p].version \in Nat
    BY DraftType DEF SiteInv
  <2>. QED
    BY <2>1, PartsOK DEF CommitDelete, PagesOK, PagesGrow, RevisionsKept
<1>. QED
  BY <1>1, <1>2, <1>3, EndKeeps DEF CommitDelete, Advances, SiteInv, TypeOK

LEMMA DeployKeeps ==
    ASSUME SiteInv, Deploy
    PROVE  SiteInv'
<1>1. catalog' \in Versions /\ catalog' <= site.catalogs
  BY FlowConstants DEF Deploy, SiteInv, TypeOK, Versions, Site
<1>2. PagesOK' /\ PagesGrow
  <2>1. \A p \in Pages : pages[p].version \in Nat
    BY DraftType DEF SiteInv
  <2>. QED
    BY <2>1, PartsOK DEF Deploy, PagesOK, PagesGrow, RevisionsKept
<1>. QED
  BY <1>1, <1>2, AsideKeeps DEF Deploy

LEMMA StutterKeeps ==
    ASSUME SiteInv, UNCHANGED vars
    PROVE  SiteInv'
<1>1. PagesOK' /\ PagesGrow
  <2>1. \A p \in Pages : pages[p].version \in Nat
    BY DraftType DEF SiteInv
  <2>. QED
    BY <2>1, PartsOK DEF vars, siteVars, PagesOK, PagesGrow, RevisionsKept
<1>. QED
  BY <1>1, AsideKeeps DEF vars, siteVars, SiteInv, TypeOK, BoundsKept

LEMMA InitKeeps == Init => SiteInv
<1>. SUFFICES ASSUME Init
              PROVE  SiteInv
  OBVIOUS
<1>. USE DEF Init, SiteInit
<1>1. /\ pages = [p \in Pages |-> pages[p]]
      /\ \A p \in Pages : pages[p] = NoPage \/ pages[p] = NewPage(FirstTree[p])
  OBVIOUS
<1>2. \A p \in Pages : /\ IsPage(NewPage(FirstTree[p]))
                       /\ NewPage(FirstTree[p]).version = 1
                       /\ DOMAIN NewPage(FirstTree[p]).revs = {1}
  BY FlowConstants DEF NewPage, IsPage, Versions
<1>3. {v \in 1..1 : v > 1 - RevisionLimit} = {1}
  BY SiteConstants
<1>4. RevisionsKept
  BY <1>1, <1>2, <1>3 DEF RevisionsKept
<1>5. Stored = {} /\ Numbers = {} /\ Cardinality(Stored) = 0
  BY FS_EmptySet DEF Stored, Numbers
<1>6. NumbersSequential /\ LiveIsPublished
  BY <1>5 DEF NumbersSequential, LiveIsPublished
<1>7. BoundsKept
  <2>1. Running("publish") = {} /\ Cardinality(Running("publish")) = 0
    BY FS_EmptySet DEF Running
  <2>2. site.releases \in Nat /\ site.catalogs \in Versions
    BY FlowConstants DEF Site
  <2>. QED
    BY <1>5, <2>1, <2>2 DEF BoundsKept, Versions
<1>8. MigrationsFit /\ RequestsFit
  BY DEF MigrationsFit, Proposed, RequestsFit
<1>9. TypeOK
  BY <1>1, <1>2 DEF TypeOK, Versions
<1>. QED
  BY <1>4, <1>6, <1>7, <1>8, <1>9 DEF SiteInv

LEMMA NextKeeps == SiteInv /\ [Next]_vars => SiteInv'
<1>. SUFFICES ASSUME SiteInv, [Next]_vars
              PROVE  SiteInv'
  OBVIOUS
<1>1. CASE UNCHANGED vars
  BY <1>1, StutterKeeps
<1>2. CASE Deploy
  BY <1>2, DeployKeeps
<1>3. ASSUME NEW c \in Editors, Start(c)
      PROVE  SiteInv'
  BY <1>3, CreatePageKeeps, OpenPageKeeps, ReadDraftsKeeps, LoadReleaseKeeps, PlanMigrationKeeps,
     LoadMigrationKeeps, LoadDatasetKeeps DEF Start
<1>4. ASSUME NEW c \in Editors, Works(c)
      PROVE  SiteInv'
  BY <1>4, CheckSaveKeeps, WriteSaveKeeps, ReadLiveKeeps, ReadNumberKeeps, CommitPublishKeeps,
     ReadPreviousKeeps, CommitRollbackKeeps, RecordMigrationKeeps, CheckSourceKeeps,
     LoadDraftsKeeps, SkipPageKeeps, WritePageKeeps, FinishApplyKeeps, LookAtKeeps,
     CommitDeleteKeeps DEF Works
<1>5. ASSUME NEW c \in Editors, NEW p \in Pages, FailPage(c, p)
      PROVE  SiteInv'
  BY <1>5, FailPageKeeps
<1>6. ASSUME NEW c \in Editors, Lose(c)
      PROVE  SiteInv'
  BY <1>6, AnswerKeeps DEF Lose
<1>. QED
  BY <1>1, <1>2, <1>3, <1>4, <1>5, <1>6 DEF Next, Continue

-----------------------------------------------------------------------------
(* Who writes a draft, who closes a migration, who changes what is live.   *)

LEMMA WhoWrites ==
    ASSUME SiteInv, [Next]_vars, NEW c \in Editors, NEW p \in Pages, Writes(c, p)
    PROVE  \/ /\ req[c].op = "save" /\ Draft(p) = req[c].base
              /\ ~req[c].full => Shape[pages'[p].revs[pages'[p].version]] = Shape[Draft(p)]
           \/ req[c].op = "apply" /\ Draft(p) = SourceTree(req[c].migration, p)
<1>. DEFINE Goal == \/ /\ req[c].op = "save" /\ Draft(p) = req[c].base
                       /\ ~req[c].full => Shape[pages'[p].revs[pages'[p].version]] = Shape[Draft(p)]
                    \/ req[c].op = "apply" /\ Draft(p) = SourceTree(req[c].migration, p)
<1>1. req' # req /\ pages' # pages /\ req'[c] # req[c] /\ pages'[p] # pages[p]
  BY DEF Writes
<1>2. PICK d \in Editors : Start(d) \/ Continue(d) \/ Lose(d)
  BY <1>1 DEF Next, Deploy, vars, siteVars
<1>3. ASSUME WriteSave(d)
      PROVE  Goal
  BY <1>1, <1>3, WriteSaveKeeps
<1>4. ASSUME NEW x \in Pages, WritePage(d, x)
      PROVE  Goal
  BY <1>1, <1>4, WritePageKeeps
<1>5. CASE Start(d)
  BY <1>1, <1>5 DEF Start, CreatePage, OpenPage, ReadDrafts, LoadRelease, PlanMigration,
     LoadMigration, LoadDataset, siteVars
<1>6. CASE Continue(d)
  BY <1>1, <1>3, <1>4, <1>6 DEF Continue, Works, CheckSave, ReadLive, ReadNumber, CommitPublish,
     ReadPrevious, CommitRollback, RecordMigration, CheckSource, LoadDrafts, SkipPage, FailPage,
     FinishApply, LookAt, CommitDelete, siteVars
<1>7. CASE Lose(d)
  BY <1>1, <1>7 DEF Lose, siteVars
<1>. QED
  BY <1>2, <1>5, <1>6, <1>7

LEMMA WhoCloses ==
    ASSUME SiteInv, [Next]_vars, NEW m \in MigrationIds,
           migrations[m] # None, migrations'[m] # migrations[m]
    PROVE  \E c \in Editors : FinishApply(c)
<1>1. migrations' # migrations
  OBVIOUS
<1>2. PICK d \in Editors : Start(d) \/ Continue(d) \/ Lose(d)
  BY <1>1 DEF Next, Deploy, vars, siteVars
<1>3. ~Start(d) /\ ~Lose(d)
  BY <1>1 DEF Start, CreatePage, OpenPage, ReadDrafts, LoadRelease, PlanMigration,
     LoadMigration, LoadDataset, Lose, siteVars
<1>4. ~RecordMigration(d)
  BY DEF RecordMigration, SiteInv, TypeOK
<1>. QED
  BY <1>1, <1>2, <1>3, <1>4 DEF Continue, Works, CheckSave, WriteSave, ReadLive, ReadNumber,
     CommitPublish, ReadPrevious, CommitRollback, CheckSource, LoadDrafts, SkipPage, WritePage,
     FailPage, LookAt, CommitDelete, siteVars

LEMMA WhoReleases ==
    ASSUME SiteInv, [Next]_vars, ~UNCHANGED <<releases, live>>
    PROVE  \E c \in Editors : CommitPublish(c) \/ CommitRollback(c)
<1>1. PICK d \in Editors : Start(d) \/ Continue(d) \/ Lose(d)
  BY DEF Next, Deploy, vars, siteVars
<1>2. ~Start(d) /\ ~Lose(d)
  BY DEF Start, CreatePage, OpenPage, ReadDrafts, LoadRelease, PlanMigration,
     LoadMigration, LoadDataset, Lose, siteVars
<1>. QED
  BY <1>1, <1>2 DEF Continue, Works, CheckSave, WriteSave, ReadLive, ReadNumber,
     ReadPrevious, RecordMigration, CheckSource, LoadDrafts, SkipPage, WritePage,
     FailPage, FinishApply, LookAt, CommitDelete, siteVars

-----------------------------------------------------------------------------
(* The theorems.                                                           *)

\* The tables of every website are sound after every step, however many editors
\* save, publish, restore and migrate at once, and what each of them has read by
\* then is out of date in harmless ways only.
THEOREM SiteAlwaysSound == Spec => []SiteInv
<1>. QED
  BY InitKeeps, NextKeeps, PTL DEF Spec

\* No editor and no migration writes over a draft it does not know (saveConfig's
\* compare-and-swap, judgeDraft), for any number of editors, pages and trees.
THEOREM NoDraftIsLost == Spec => NoDraftLost
<1>1. SiteInv /\ [Next]_vars =>
        [\A c \in Editors, p \in Pages :
            Writes(c, p) =>
                Draft(p) = IF req[c].op = "save" THEN req[c].base
                           ELSE SourceTree(req[c].migration, p)]_vars
  BY WhoWrites
<1>. QED
  BY <1>1, SiteAlwaysSound, PTL DEF Spec, NoDraftLost

\* The scope check of a restricted save holds for the tree that the write replaces,
\* although it was made on another read of the page (save-page-config.ts).
THEOREM RestrictedAlwaysKeepShape == Spec => RestrictedKeepsShape
<1>1. SiteInv /\ [Next]_vars =>
        [\A c \in Editors, p \in Pages :
            Writes(c, p) /\ req[c].op = "save" /\ ~req[c].full =>
                Shape[pages'[p].revs[pages'[p].version]] = Shape[Draft(p)]]_vars
  BY WhoWrites
<1>. QED
  BY <1>1, SiteAlwaysSound, PTL DEF Spec, RestrictedKeepsShape

\* No migration is recorded as applied with a page left unwritten, whatever failed,
\* conflicted or was tried before (apply-migration.ts).
THEOREM AppliedIsAlwaysWritten == Spec => AppliedIsWritten
<1>1. SiteInv /\ [Next]_vars =>
        [\A m \in MigrationIds :
            migrations[m] # None /\ migrations'[m] # migrations[m] =>
                \E c \in Editors :
                    /\ At(c, "apply", "pages") /\ req[c].migration = m
                    /\ \A p \in ChangedPages(m, req[c].res) : HasHad(p, Target(req[c], p))
                    /\ ChangedPages(m, req[c].res) = {} => ~LeavesSome(m, req[c].res)]_vars
  BY WhoCloses, FinishApplyKeeps
<1>. QED
  BY <1>1, SiteAlwaysSound, PTL DEF Spec, AppliedIsWritten

-----------------------------------------------------------------------------
(* The album.                                                              *)

Album == [n \in 1..Cardinality(Stored) |->
            {releases[r].snapshot : r \in {s \in Stored : releases[s].number = n}}]
Open  == IF live = None THEN 0 ELSE releases[live].number

\* Each number is that of one release.
LEMMA AlbumType ==
    ASSUME SiteInv
    PROVE  /\ Cardinality(Stored) \in Nat
           /\ Album \in Seq({{s} : s \in Snapshot}) /\ Len(Album) = Cardinality(Stored)
           /\ \A r \in Stored : /\ releases[r].number \in 1..Cardinality(Stored)
                                /\ Album[releases[r].number] = {releases[r].snapshot}
           /\ \A n \in 1..Cardinality(Stored) : \E r \in Stored : releases[r].number = n
<1>1. Cardinality(Stored) \in Nat
  BY StoredIsFinite, PartsOK
<1>2. /\ Numbers = 1..Cardinality(Stored)
      /\ \A r, s \in Stored : releases[r].number = releases[s].number => r = s
  BY DEF SiteInv, NumbersSequential
<1>3. \A r \in Stored : releases[r] \in Release
  BY DEF SiteInv, TypeOK, Stored
<1>4. \A r \in Stored : releases[r].number \in 1..Cardinality(Stored)
  BY <1>2 DEF Numbers
<1>5. \A n \in 1..Cardinality(Stored) : \E r \in Stored : releases[r].number = n
  BY <1>2 DEF Numbers
<1>6. \A r \in Stored : {s \in Stored : releases[s].number = releases[r].number} = {r}
  BY <1>2
<1>7. \A r \in Stored : Album[releases[r].number] = {releases[r].snapshot}
  BY <1>4, <1>6 DEF Album
<1>8. \A n \in 1..Cardinality(Stored) : Album[n] \in {{s} : s \in Snapshot}
  BY <1>3, <1>5, <1>7 DEF Release
<1>9. Album \in [1..Cardinality(Stored) -> {{s} : s \in Snapshot}]
  BY <1>8 DEF Album
<1>. QED
  BY <1>1, <1>4, <1>5, <1>7, <1>9

\* The editions stay as they are while the releases do.
LEMMA AlbumStays ==
    ASSUME SiteInv, SiteInv', ReleasesGrow, Stored' = Stored
    PROVE  Album' = Album
<1>1. Cardinality(Stored') = Cardinality(Stored)
  BY Zenon
<1>2. ASSUME NEW n \in 1..Cardinality(Stored)
      PROVE  Album'[n] = Album[n]
  <2>1. PICK r \in Stored : releases[r].number = n
    BY AlbumType
  <2>2. releases'[r].number = n /\ releases'[r].snapshot = releases[r].snapshot /\ r \in Stored'
    BY <2>1 DEF ReleasesGrow
  <2>3. Album[n] = {releases[r].snapshot}
    BY <2>1, AlbumType
  <2>4. \A s \in Stored' : releases'[s].number = n => s = r
    BY <2>2 DEF SiteInv, NumbersSequential
  <2>5. {s \in Stored' : releases'[s].number = n} = {r}
    BY <2>2, <2>4
  <2>6. Album'[n] = {releases'[s].snapshot : s \in {s \in Stored' : releases'[s].number = n}}
    BY <1>1 DEF Album
  <2>7. Album'[n] = {releases'[r].snapshot}
    BY <2>5, <2>6
  <2>. QED
    BY <2>2, <2>3, <2>7
<1>. QED
  BY <1>1, <1>2 DEF Album

\* A publish appends one edition.
LEMMA AlbumGrows ==
    ASSUME SiteInv, SiteInv', ReleasesGrow,
           NEW r \in ReleaseIds, r \notin Stored, Stored' = Stored \cup {r},
           releases'[r].number = Cardinality(Stored) + 1,
           Cardinality(Stored') = Cardinality(Stored) + 1
    PROVE  Album' = Append(Album, {releases'[r].snapshot})
<1>. DEFINE k == Cardinality(Stored)
<1>1. k \in Nat /\ Album \in Seq({{s} : s \in Snapshot}) /\ Len(Album) = k
  BY AlbumType
<1>2. \A s, t \in Stored' : releases'[s].number = releases'[t].number => s = t
  BY DEF SiteInv, NumbersSequential
<1>3. \A n \in 1..(k + 1) :
        Album'[n] = {releases'[t].snapshot : t \in {s \in Stored' : releases'[s].number = n}}
  BY DEF Album
<1>4. Album'[k + 1] = {releases'[r].snapshot}
  <2>1. {s \in Stored' : releases'[s].number = k + 1} = {r}
    BY <1>2
  <2>. QED
    BY <1>1, <1>3, <2>1
<1>5. ASSUME NEW n \in 1..k
      PROVE  Album'[n] = Album[n]
  <2>1. PICK q \in Stored : releases[q].number = n
    BY <1>5, AlbumType
  <2>2. releases'[q].number = n /\ releases'[q].snapshot = releases[q].snapshot /\ q \in Stored'
    BY <2>1 DEF ReleasesGrow
  <2>3. Album[n] = {releases[q].snapshot}
    BY <2>1, AlbumType
  <2>4. {s \in Stored' : releases'[s].number = n} = {q}
    BY <1>2, <2>2
  <2>5. Album'[n] = {releases'[q].snapshot}
    BY <1>1, <1>3, <1>5, <2>4
  <2>. QED
    BY <2>2, <2>3, <2>5
<1>6. Album' = [n \in 1..(k + 1) |-> IF n <= k THEN Album[n] ELSE {releases'[r].snapshot}]
  <2>1. Album' = [n \in 1..(k + 1) |-> Album'[n]]
    BY DEF Album
  <2>. QED
    BY <1>1, <1>4, <1>5, <2>1
<1>. HIDE DEF k
<1>. QED
  BY <1>1, <1>6

LEMMA AlbumStarts == Init => Register!LiveSiteInit
<1>. SUFFICES ASSUME Init
              PROVE  Album = <<>> /\ Open = 0
  BY DEF Register!LiveSiteInit, Album, Open
<1>1. Stored = {} /\ live = None
  BY DEF Init, SiteInit, Stored
<1>2. Cardinality(Stored) = 0
  BY <1>1, FS_EmptySet
<1>. QED
  BY <1>1, <1>2 DEF Album, Open

\* Every step prints an edition, opens one again, or changes nothing visitors see.
LEMMA AlbumSteps ==
    ASSUME SiteInv, SiteInv', [Next]_vars
    PROVE  [Register!LiveSiteNext]_<<Album, Open>>
<1>1. CASE UNCHANGED <<releases, live>>
  BY <1>1 DEF Album, Open, Stored
<1>2. ASSUME NEW c \in Editors, CommitPublish(c), ~UNCHANGED <<releases, live>>
      PROVE  Register!LiveSiteNext
  <2>1. PICK r \in ReleaseIds :
          /\ r \notin Stored /\ Stored' = Stored \cup {r} /\ live' = r /\ ReleasesGrow
          /\ releases'[r].number = Cardinality(Stored) + 1
          /\ releases'[r].snapshot \in Snapshot
          /\ Cardinality(Stored') = Cardinality(Stored) + 1
    BY <1>2, CommitPublishKeeps
  <2>2. Album' = Append(Album, {releases'[r].snapshot})
    BY <2>1, AlbumGrows
  <2>3. Open' = Len(Album) + 1
    BY <2>1, SiteConstants, AlbumType DEF Open
  <2>. QED
    BY <2>1, <2>2, <2>3 DEF Register!LiveSiteNext, Register!PrintEdition, Album, Open
<1>3. ASSUME NEW c \in Editors, CommitRollback(c)
      PROVE  Register!LiveSiteNext
  <2>1. ReleasesGrow /\ Stored' = Stored /\ live' \in Stored
    BY <1>3, CommitRollbackKeeps
  <2>2. Album' = Album
    BY <2>1, AlbumStays
  <2>3. releases[live'].number \in 1..Len(Album)
    BY <2>1, AlbumType
  <2>4. Open' = releases[live'].number
    BY <2>1, SiteConstants DEF Open, ReleasesGrow, Stored
  <2>. QED
    BY <2>2, <2>3, <2>4 DEF Register!LiveSiteNext, Register!Reopen, Album, Open
<1>. QED
  BY <1>1, <1>2, <1>3, WhoReleases

\* What visitors see is the open edition of an album (LiveSite): the tables of
\* releases and the live pointer implement it, whoever publishes and restores at once.
THEOREM AlbumAlwaysKept == Spec => KeepsAlbum
<1>1. SiteInv /\ SiteInv' /\ [Next]_vars => [Register!LiveSiteNext]_<<Album, Open>>
  BY AlbumSteps
<1>2. Init => Register!LiveSiteInit
  BY AlbumStarts
<1>. QED
  BY <1>1, <1>2, SiteAlwaysSound, PTL DEF Spec, KeepsAlbum, Register!LiveSiteSpec, Album, Open

-----------------------------------------------------------------------------
(* Data sources: arithmetic of pages.                                      *)

LEMMA PageBegins ==
    ASSUME NEW o \in Nat, NEW s \in Nat \ {0}
    PROVE  /\ o \div s \in Nat /\ o % s \in Nat /\ o % s <= o
           /\ (o \div s) * s = o - (o % s)
<1>1. o \div s \in Nat /\ o % s \in Nat
  OBVIOUS
<1>2. o = s * (o \div s) + (o % s)
  OBVIOUS
<1>3. s * (o \div s) = (o \div s) * s /\ (o \div s) * s \in Nat
  BY <1>1
<1>. QED
  BY <1>1, <1>2, <1>3

LEMMA Multiples ==
    ASSUME NEW p \in Nat, NEW q \in Nat, NEW s \in Nat
    PROVE  /\ p * s \in Nat /\ q * s \in Nat
           /\ (p + q) * s = p * s + q * s
           /\ (p + 1) * s = p * s + s
  OBVIOUS

LEMMA LeastIs ==
    ASSUME NEW a \in Nat, NEW b \in Nat
    PROVE  /\ Least(a, b) \in Nat /\ Least(a, b) <= a /\ Least(a, b) <= b
           /\ (a < b => Least(a, b) = a) /\ (a >= b => Least(a, b) = b)
  BY DEF Least

\* How far one position lies before another.
Gap(x, y) == IF x > y THEN x - y ELSE 0

LEMMA GapIs ==
    ASSUME NEW x \in Nat, NEW y \in Nat
    PROVE  /\ Gap(x, y) \in Nat
           /\ x > y => Gap(x, y) = x - y
           /\ x <= y => Gap(x, y) = 0
  BY DEF Gap

\* The records from one position to another.
Run(p, last) == [i \in 1..(last - p) |-> p + i]

LEMMA RunOfRecords ==
    ASSUME NEW p \in Nat, NEW last \in Nat
    PROVE  /\ Run(p, last) \in Seq(Nat)
           /\ Len(Run(p, last)) = Gap(last, p)
           /\ \A i \in 1..Len(Run(p, last)) : Run(p, last)[i] = p + i
<1>. DEFINE n == Gap(last, p)
<1>1. n \in Nat /\ (last > p => n = last - p) /\ (last <= p => n = 0)
  BY GapIs
<1>. HIDE DEF n
<1>2. 1..(last - p) = 1..n
  BY <1>1
<1>3. Run(p, last) = [i \in 1..n |-> p + i]
  BY <1>2 DEF Run
<1>4. \A i \in 1..n : p + i \in Nat
  BY <1>1
<1>5. Run(p, last) \in [1..n -> Nat]
  BY <1>3, <1>4
<1>6. Run(p, last) \in Seq(Nat) /\ Len(Run(p, last)) = n
  BY <1>1, <1>5
<1>. QED
  BY <1>1, <1>3, <1>6 DEF n

LEMMA ZerosAreAPage ==
    ASSUME NEW n \in Nat
    PROVE  [i \in 1..n |-> 0] \in Seq(Nat)
  OBVIOUS

-----------------------------------------------------------------------------
(* Pages and where reads begin.                                            *)

LEMMA BeginsAt ==
    ASSUME NEW c \in Config, NEW o \in Nat
    PROVE  /\ Skip(c, o) \in Nat /\ Skip(c, o) <= o
           /\ FirstAsk(c, o) \in Nat
           /\ c.kind = "page" => FirstAsk(c, o) * c.size = o - Skip(c, o)
           /\ c.kind # "page" => FirstAsk(c, o) = o - Skip(c, o)
<1>1. c.size \in Nat \ {0}
  BY DEF Config
<1>2. CASE c.kind = "page"
  <2>1. Skip(c, o) = o % c.size /\ FirstAsk(c, o) = o \div c.size
    BY <1>2 DEF Skip, FirstAsk
  <2>. QED
    BY <1>1, <1>2, <2>1, PageBegins
<1>3. CASE c.kind # "page"
  BY <1>3 DEF Skip, FirstAsk
<1>. QED
  BY <1>2, <1>3

LEMMA LengthOfPages ==
    ASSUME api \in Api, NEW c \in Config
    PROVE  /\ PageLength(c) \in Nat
           /\ Suits(c) /\ c.kind = "none" => api.size = 0 /\ PageLength(c) = api.total
           /\ Suits(c) /\ c.kind # "none" => api.size # 0 /\ PageLength(c) # 0
           /\ Suits(c) /\ c.kind \in {"offset", "page"} => PageLength(c) = c.size
<1>1. api.size \in Nat /\ api.total \in Nat /\ c.size \in Nat \ {0} /\ c.kind \in Kinds
  BY DEF Api, Config
<1>2. CASE api.size = 0
  <2>1. PageLength(c) = api.total
    BY <1>2 DEF PageLength
  <2>. QED
    BY <1>1, <1>2, <2>1 DEF Suits, Kinds
<1>3. CASE api.size # 0 /\ c.kind \in {"none", "next-url"}
  BY <1>1, <1>3 DEF PageLength, Suits
<1>4. CASE api.size # 0 /\ c.kind \notin {"none", "next-url"}
  <2>1. PageLength(c) = Least(c.size, api.size)
    BY <1>4 DEF PageLength
  <2>. QED
    BY <1>1, <1>4, <2>1 DEF Suits, Least
<1>. QED
  BY <1>2, <1>3, <1>4

-----------------------------------------------------------------------------
(* Data sources: the inductive invariant.                                  *)

\* Where the records of a read begin, and where the next one belongs.
Origin  == read.window.offset - Skip(source, read.window.offset)
Filled == Origin + Len(read.records)

\* Records are those of a list from a position on.
IsPiece(records, start, total) ==
    /\ \A i \in 1..Len(records) : records[i] = start + i
    /\ records # <<>> => start + Len(records) <= total

\* Only a source is read, and a read that goes on has pages left.
Steady ==
    /\ source = Nil => read = Nil
    /\ Asking => read.pages < MaxPages

\* Each page after the first was asked for under a name of its own; while a read goes
\* on, the one that is asked for has its name too.
OwnNames == read # Nil /\ Follows(source) =>
    /\ IsFiniteSet(read.visited)
    /\ read.pages <= Cardinality(read.visited) + (IF Asking THEN 0 ELSE 1)

\* Reads of a source that suits its API: their records are those of the list from where
\* they began,
Consecutive == read # Nil /\ read.phase # "failed" /\ Suits(source) =>
    /\ read.phase # "body"
    /\ IsPiece(read.records, Origin, api.total)

\* the page asked for is the next one, all before it were full unless the list is over,
\* and no cursor or link leads behind it,
Ahead == Asking /\ Suits(source) =>
    /\ Position = Filled
    /\ \/ Len(read.records) = read.pages * PageLength(source)
       \/ Filled >= api.total
    /\ Follows(source) => \A v \in read.visited : v <= read.ask

\* and they end for a reason.
Enough == read # Nil /\ read.phase = "list" /\ Suits(source) =>
    \/ Len(read.records) >= Wanted(read)
    \/ Filled >= api.total
    \/ read.late
    \/ ~IsWithinPages(source)

ReadSound == ReadTypeOK /\ Steady /\ OwnNames /\ Consecutive /\ Ahead /\ Enough

-----------------------------------------------------------------------------
(* What an answer holds and what is asked next.                            *)

LEMMA Reading ==
    ASSUME ReadTypeOK, Steady, Asking
    PROVE  /\ api \in Api /\ source \in Config /\ read \in Read
           /\ PageLength(source) \in Nat /\ Position \in Nat
<1>1. api \in Api /\ source \in Config /\ read \in Read
  BY DEF ReadTypeOK, Steady, Asking
<1>2. PageLength(source) \in Nat
  BY <1>1, LengthOfPages
<1>3. read.ask \in Nat
  BY <1>1 DEF Read, Ask
<1>4. read.ask * PageLength(source) \in Nat
  BY <1>2, <1>3, Multiples
<1>5. Position \in Nat
  BY <1>3, <1>4 DEF Position
<1>. QED
  BY <1>1, <1>2, <1>5

LEMMA HonestPages ==
    ASSUME ReadTypeOK, Steady, Asking
    PROVE  LET last == Least(Position + PageLength(source), api.total)
           IN  /\ HonestPage \in Seq(Nat)
               /\ Len(HonestPage) = Gap(last, Position)
               /\ \A i \in 1..Len(HonestPage) : HonestPage[i] = Position + i
<1>. DEFINE last == Least(Position + PageLength(source), api.total)
<1>1. Position \in Nat /\ Position + PageLength(source) \in Nat /\ api.total \in Nat
  BY Reading DEF Api
<1>2. last \in Nat
  BY <1>1, LeastIs
<1>3. HonestPage = Run(Position, last)
  BY DEF HonestPage, Run
<1>. HIDE DEF last
<1>. QED
  BY <1>1, <1>2, <1>3, RunOfRecords DEF last

LEMMA Answers ==
    ASSUME ReadTypeOK, Steady, Asking
    PROVE  /\ \A page \in PagesOf : page \in Seq(Nat)
           /\ \A next \in NextsOf : next \in Nat \cup {Nil, Foreign}
<1>1. \A page \in PagesOf : page \in Seq(Nat)
  <2>1. Junk \in Nat
    BY PagedReadConstants
  <2>2. HonestPage \in Seq(Nat)
    BY HonestPages
  <2>. QED
    BY <2>1, <2>2, ZerosAreAPage DEF PagesOf
<1>2. \A next \in NextsOf : next \in Nat \cup {Nil, Foreign}
  <2>1. Junk \in Nat
    BY PagedReadConstants
  <2>2. Len(HonestPage) \in Nat
    BY HonestPages
  <2>3. Position + Len(HonestPage) \in Nat /\ api.total \in Nat
    BY <2>2, Reading DEF Api
  <2>4. HonestNext \subseteq Nat \cup {Nil}
    BY <2>3 DEF HonestNext
  <2>. QED
    BY <2>1, <2>4 DEF NextsOf
<1>. QED
  BY <1>1, <1>2

LEMMA NextParameters ==
    ASSUME source \in Config, ~Follows(source), NEW r \in Read,
           NEW page, NEW next, ~IsLastPage(r, page, next)
    PROVE  NextAsk(r, page, next) \in Nat
<1>1. source.size \in Nat \ {0} /\ r.window.offset \in Nat
      /\ Len(r.records) \in Nat /\ r.pages \in Nat
  BY PagedReadConstants DEF Config, Read, Window
<1>2. r.window.offset \div source.size \in Nat
  BY <1>1, PageBegins
<1>. QED
  BY <1>1, <1>2, SMTT(30) DEF NextAsk

\* What becomes of a read with one more page.
LEMMA OnePageMore ==
    ASSUME ReadTypeOK, Steady, Asking,
           NEW page \in Seq(Nat), NEW next \in Nat \cup {Nil, Foreign},
           AddPage(page, next)
    PROVE  /\ read' \in Read
           /\ read'.window = read.window
           /\ read'.pages = read.pages + 1
           /\ read'.records = read.records \o page
           /\ read'.late = read.late
           /\ \/ read'.phase = "failed" /\ read'.visited = read.visited
              \/ /\ read'.phase = "list" /\ read'.visited = read.visited
                 /\ \/ Len(read.records \o page) >= Wanted(read)
                    \/ read.pages + 1 >= MaxPages
                    \/ read.late
                    \/ IsLastPage(read, page, next)
                    \/ Follows(source) /\ next = Nil
              \/ /\ read'.phase = "asking"
                 /\ read.pages + 1 < MaxPages
                 /\ ~IsLastPage(read, page, next)
                 /\ Follows(source) =>
                       /\ next \in Nat /\ read'.ask = next
                       /\ read'.visited = read.visited \cup {next}
                 /\ source.kind = "offset" =>
                       read'.ask = read.window.offset + Len(read.records \o page)
                 /\ ~Follows(source) /\ source.kind # "offset" =>
                       read'.ask = (read.window.offset \div source.size) + (read.pages + 1)
<1>. DEFINE r   == [read EXCEPT !.pages = @ + 1, !.records = @ \o page]
            ask == IF IsReadComplete(r) THEN Nil ELSE NextAsk(r, page, next)
<1>1. source \in Config /\ read \in Read /\ read.pages + 1 \in 0..MaxPages
  BY Reading, PagedReadConstants DEF Steady, Read
<1>2. /\ r \in Read /\ r.window = read.window /\ r.phase = "asking" /\ r.ask = read.ask
      /\ r.pages = read.pages + 1 /\ r.records = read.records \o page
      /\ r.visited = read.visited /\ r.late = read.late
  <2>1. read.records \o page \in Seq(Nat)
    BY <1>1 DEF Read
  <2>. QED
    BY <1>1, <2>1 DEF Read, Asking
<1>3. /\ IsLastPage(r, page, next) = IsLastPage(read, page, next)
      /\ Wanted(r) = Wanted(read)
  BY <1>2 DEF IsLastPage, Wanted
<1>. DEFINE Continues ==
              /\ ~IsReadComplete(r) /\ ~IsLastPage(r, page, next)
              /\ ask = NextAsk(r, page, next)
              /\ ask \notin {Nil, Foreign}
              /\ read' = [r EXCEPT !.ask = ask, !.visited = Remember(r, ask)]
<1>4. \/ ask = Nil /\ read' = [r EXCEPT !.phase = "list"]
      \/ ask = Foreign /\ read' = [r EXCEPT !.phase = "failed"]
      \/ Continues
  <2>1. ask = Nil => read' = [r EXCEPT !.phase = "list"]
    BY PagedReadConstants DEF AddPage, End
  <2>2. ask = Foreign => read' = [r EXCEPT !.phase = "failed"]
    BY PagedReadConstants DEF AddPage, End
  <2>3. ask \notin {Nil, Foreign} =>
           read' = [r EXCEPT !.ask = ask, !.visited = Remember(r, ask)]
    BY DEF AddPage
  <2>4. ask # Nil =>
           ~IsReadComplete(r) /\ ~IsLastPage(r, page, next) /\ ask = NextAsk(r, page, next)
    BY DEF NextAsk
  <2>. QED
    BY <2>1, <2>2, <2>3, <2>4
<1>5. CASE ask = Nil /\ read' = [r EXCEPT !.phase = "list"]
  <2>1. /\ read' \in Read /\ read'.window = r.window /\ read'.pages = r.pages
        /\ read'.records = r.records /\ read'.late = r.late
        /\ read'.phase = "list" /\ read'.visited = r.visited
    BY <1>2, <1>5 DEF Read
  <2>2. \/ IsReadComplete(r)
        \/ IsLastPage(r, page, next)
        \/ Follows(source) /\ next = Nil
    <3>1. SUFFICES ASSUME ~IsReadComplete(r), ~IsLastPage(r, page, next), ~Follows(source)
                   PROVE  FALSE
      <4>1. ~IsReadComplete(r) /\ ~IsLastPage(r, page, next) /\ Follows(source) =>
               ask = next
        BY DEF NextAsk, Follows
      <4>. QED
        BY <4>1, <1>5
    <3>2. ask = NextAsk(r, page, next)
      BY <3>1
    <3>3. ask \in Nat
      BY <3>2, <3>1, <1>1, <1>2, NextParameters
    <3>. QED
      BY <3>3, <1>5, PagedReadConstants
  <2>. QED
    BY <2>1, <2>2, <1>2, <1>3 DEF IsReadComplete
<1>6. CASE ask = Foreign /\ read' = [r EXCEPT !.phase = "failed"]
  BY <1>2, <1>6 DEF Read
<1>7. CASE Continues
  <2>1. /\ ~Follows(source) => ask \in Nat
        /\ Follows(source) => ask = next /\ next \in Nat
    <3>1. ~Follows(source) => ask \in Nat
      BY <1>1, <1>2, <1>7, NextParameters
    <3>2. Follows(source) => ask = next
      BY <1>7 DEF NextAsk, Follows
    <3>. QED
      BY <1>7, <3>1, <3>2
  <2>2. ask \in Nat /\ Remember(r, ask) \in SUBSET Nat
    BY <1>2, <2>1 DEF Remember, Read, Ask
  <2>3. /\ read' \in Read /\ read'.window = r.window /\ read'.pages = r.pages
        /\ read'.records = r.records /\ read'.late = r.late
        /\ read'.phase = "asking" /\ read'.ask = ask /\ read'.visited = Remember(r, ask)
    BY <1>2, <1>7, <2>2 DEF Read, Ask
  <2>4. ~(r.pages >= MaxPages)
    BY <1>7 DEF IsReadComplete
  <2>5. read.pages + 1 < MaxPages
    BY <1>1, <1>2, <2>4, PagedReadConstants DEF Read
  <2>6. Follows(source) => read'.ask = next /\ read'.visited = read.visited \cup {next}
    BY <1>2, <2>1, <2>3 DEF Remember
  <2>7. /\ source.kind = "offset" =>
              ask = read.window.offset + Len(read.records \o page)
        /\ ~Follows(source) /\ source.kind # "offset" =>
              ask = (read.window.offset \div source.size) + (read.pages + 1)
    BY <1>2, <1>7 DEF NextAsk, Follows
  <2>. QED
    BY <1>2, <1>3, <1>7, <2>1, <2>3, <2>5, <2>6, <2>7
<1>. QED
  BY <1>4, <1>5, <1>6, <1>7

-----------------------------------------------------------------------------
(* Steps of a read that end it or leave its pages alone.                   *)

LEMMA SameSource ==
    ASSUME UNCHANGED <<api, source>>
    PROVE  /\ Suits(source)' = Suits(source)
           /\ PageLength(source)' = PageLength(source)
           /\ Follows(source)' = Follows(source)
           /\ \A r : Wanted(r)' = Wanted(r)
  BY DEF Suits, PageLength, Follows, Wanted

LEMMA Created ==
    ASSUME ReadSound, CreateSource
    PROVE  ReadSound'
<1>1. read = Nil /\ read' = Nil /\ api' = api
  BY DEF ReadSound, Steady, CreateSource
<1>2. PICK config \in Configs : wanted' = config /\ source' = DraftConfig(config)
  BY DEF CreateSource
<1>3. config \in Config /\ DraftConfig(config) \in Config
  <2>1. Sizes \cup {1} \subseteq Nat \ {0}
    BY PagedReadConstants
  <2>2. config \in [kind : Kinds, size : Sizes \cup {1}, path : BOOLEAN]
    BY DEF Configs
  <2>3. config \in Config
    BY <2>1, <2>2 DEF Config
  <2>4. DraftConfig(config) \in Config
    BY DEF Config, DraftConfig, Kinds
  <2>. QED
    BY <2>3, <2>4
<1>4. ~Asking'
  BY <1>1 DEF Asking
<1>. QED
  BY <1>1, <1>2, <1>3, <1>4
     DEF ReadSound, ReadTypeOK, Steady, OwnNames, Consecutive, Ahead, Enough

LEMMA Begun ==
    ASSUME ReadSound, NEW window \in Windows, BeginRead(window)
    PROVE  ReadSound'
<1>1. /\ api \in Api /\ source \in Config /\ source # Nil
      /\ api' = api /\ wanted' = wanted /\ source' = source
      /\ window \in Window
  BY PagedReadConstants DEF ReadSound, ReadTypeOK, BeginRead, Windows, Window
<1>2. /\ read'.window = window /\ read'.phase = "asking"
      /\ read'.ask = FirstAsk(source, window.offset) /\ read'.pages = 0
      /\ read'.records = <<>> /\ read'.visited = {}
  BY DEF BeginRead
<1>3. /\ window.offset \in Nat
      /\ FirstAsk(source, window.offset) \in Nat
      /\ Skip(source, window.offset) \in Nat /\ Skip(source, window.offset) <= window.offset
      /\ source.kind = "page" =>
            FirstAsk(source, window.offset) * source.size
               = window.offset - Skip(source, window.offset)
      /\ source.kind # "page" =>
            FirstAsk(source, window.offset) = window.offset - Skip(source, window.offset)
  BY <1>1, BeginsAt DEF Window
<1>4. read' \in Read
  BY <1>1, <1>3, PagedReadConstants DEF BeginRead, Read, Ask
<1>5. ReadTypeOK'
  BY <1>1, <1>4 DEF ReadSound, ReadTypeOK
<1>6. Steady'
  BY <1>1, <1>2, PagedReadConstants DEF Steady
<1>7. OwnNames'
  BY <1>2, FS_EmptySet DEF OwnNames, Asking
<1>8. Origin' = window.offset - Skip(source, window.offset) /\ Filled' = Origin'
  BY <1>1, <1>2, <1>3 DEF Origin, Filled, Skip
<1>9. Consecutive'
  BY <1>2 DEF Consecutive, IsPiece
<1>10. Ahead'
  <2>1. SUFFICES ASSUME Suits(source)
                 PROVE  /\ Position' = Filled'
                        /\ Len(read'.records) = read'.pages * PageLength(source)'
                        /\ read'.visited = {}
    BY <1>1, <1>2, SameSource DEF Ahead
  <2>2. PageLength(source) \in Nat /\ PageLength(source)' = PageLength(source)
    BY <1>1, LengthOfPages, SameSource
  <2>3. Len(read'.records) = read'.pages * PageLength(source)'
    BY <1>2, <2>2
  <2>4. Position' = Filled'
    <3>1. CASE source.kind = "none"
      <4>1. api.size = 0
        BY <1>1, <2>1, <3>1, LengthOfPages
      <4>2. Position' = 0
        BY <4>1, <1>1 DEF Position
      <4>3. Skip(source, window.offset) = window.offset
        BY <3>1 DEF Skip
      <4>. QED
        BY <4>2, <4>3, <1>3, <1>8
    <3>2. CASE source.kind = "page"
      <4>1. api.size # 0 /\ PageLength(source) = source.size
        BY <1>1, <2>1, <3>2, LengthOfPages
      <4>2. Position' = FirstAsk(source, window.offset) * source.size
        BY <4>1, <2>2, <3>2, <1>1, <1>2 DEF Position
      <4>. QED
        BY <4>2, <3>2, <1>3, <1>8
    <3>3. CASE source.kind \notin {"none", "page"}
      <4>1. api.size # 0
        BY <1>1, <2>1, <3>3, LengthOfPages
      <4>2. Position' = FirstAsk(source, window.offset)
        BY <4>1, <3>3, <1>1, <1>2 DEF Position
      <4>. QED
        BY <4>2, <3>3, <1>3, <1>8
    <3>. QED
      BY <3>1, <3>2, <3>3
  <2>. QED
    BY <1>2, <2>3, <2>4
<1>11. Enough'
  BY <1>2 DEF Enough
<1>. QED
  BY <1>5, <1>6, <1>7, <1>9, <1>10, <1>11 DEF ReadSound

\* A read that fails keeps what it holds.
LEMMA Failed ==
    ASSUME ReadSound, Asking, End(read, "failed"), UNCHANGED <<api, wanted, source>>
    PROVE  ReadSound'
<1>1. source \in Config /\ read \in Read /\ source # Nil
  BY Reading DEF ReadSound, Steady, Asking
<1>2. /\ read' \in Read /\ read'.phase = "failed"
      /\ read'.pages = read.pages /\ read'.visited = read.visited
  BY <1>1 DEF End, Read
<1>3. ~Asking'
  BY <1>2 DEF Asking
<1>4. OwnNames'
  <2>1. SUFFICES ASSUME Follows(source)
                 PROVE  /\ IsFiniteSet(read.visited)
                        /\ read.pages <= Cardinality(read.visited) + 1
    BY <1>2, <1>3 DEF OwnNames, Follows
  <2>2. IsFiniteSet(read.visited) /\ read.pages <= Cardinality(read.visited) + 0
    BY <2>1 DEF ReadSound, OwnNames, Asking
  <2>3. Cardinality(read.visited) \in Nat /\ read.pages \in Nat
    BY <2>2, <1>1, FS_CardinalityType DEF Read
  <2>. QED
    BY <2>2, <2>3
<1>. QED
  BY <1>1, <1>2, <1>3, <1>4 DEF ReadSound, ReadTypeOK, Steady, Consecutive, Ahead, Enough

LEMMA TimePassed ==
    ASSUME ReadSound, SpendBudget
    PROVE  ReadSound'
<1>1. source \in Config /\ read \in Read /\ Asking
  BY Reading DEF ReadSound, SpendBudget
<1>2. /\ read' \in Read /\ read'.phase = "asking" /\ read'.window = read.window
      /\ read'.ask = read.ask /\ read'.pages = read.pages
      /\ read'.records = read.records /\ read'.visited = read.visited
      /\ read.phase = "asking" /\ read # Nil
      /\ api' = api /\ wanted' = wanted /\ source' = source
  BY <1>1 DEF SpendBudget, Read, Asking
<1>3. ReadTypeOK' /\ Steady'
  BY <1>2 DEF ReadSound, ReadTypeOK, Steady, Asking
<1>4. OwnNames'
  BY <1>2 DEF ReadSound, OwnNames, Asking, Follows
<1>5. Position' = Position /\ Origin' = Origin /\ Filled' = Filled
  BY <1>2, SameSource DEF Position, Origin, Filled, Skip
<1>6. Consecutive' /\ Ahead'
  BY <1>2, <1>5, SameSource DEF ReadSound, Consecutive, Ahead, Asking
<1>7. Enough'
  BY <1>2 DEF Enough
<1>. QED
  BY <1>3, <1>4, <1>6, <1>7 DEF ReadSound

-----------------------------------------------------------------------------
(* An answer without a list, and the one answer of a plain read.           *)

LEMMA NotAListRead ==
    ASSUME ReadSound, AnswerNoList
    PROVE  ReadSound'
<1>1. /\ source \in Config /\ read \in Read /\ source # Nil /\ Asking
      /\ read.pages < MaxPages
  BY Reading DEF ReadSound, Steady, Asking, AnswerNoList
<1>2. PICK phase \in {"list", "body", "failed"} :
         read' = [read EXCEPT !.pages = @ + 1, !.phase = phase]
  BY DEF AnswerNoList, End
<1>3. read.pages \in Nat /\ read.pages + 1 \in 0..MaxPages
  BY <1>1, PagedReadConstants DEF Read
<1>4. /\ read' \in Read /\ read'.phase = phase
      /\ read'.pages = read.pages + 1 /\ read'.visited = read.visited
  BY <1>1, <1>2, <1>3 DEF Read
<1>5. /\ ~Asking' /\ api' = api /\ wanted' = wanted /\ source' = source
      /\ read # Nil /\ read.phase = "asking"
  BY <1>1, <1>4 DEF Asking, AnswerNoList
<1>6. ~Suits(source)'
  <2>1. ~Suits(source)
    BY DEF Suits, AnswerNoList, IsLocated
  <2>. QED
    BY <2>1, <1>5, SameSource
<1>7. OwnNames'
  <2>1. SUFFICES ASSUME Follows(source)
                 PROVE  /\ IsFiniteSet(read.visited)
                        /\ read.pages + 1 <= Cardinality(read.visited) + 1
    BY <1>4, <1>5 DEF OwnNames, Follows
  <2>2. IsFiniteSet(read.visited) /\ read.pages <= Cardinality(read.visited) + 0
    BY <2>1, <1>1 DEF ReadSound, OwnNames, Asking
  <2>3. Cardinality(read.visited) \in Nat
    BY <2>2, FS_CardinalityType
  <2>. QED
    BY <2>2, <2>3, <1>3
<1>. QED
  BY <1>1, <1>4, <1>5, <1>6, <1>7
     DEF ReadSound, ReadTypeOK, Steady, Consecutive, Ahead, Enough

LEMMA PlainRead ==
    ASSUME ReadSound, Asking, source.kind = "none", NEW page \in PagesOf,
           End([read EXCEPT !.pages = 1, !.records = page], "list"),
           UNCHANGED <<api, wanted, source>>
    PROVE  ReadSound'
<1>1. source \in Config /\ read \in Read /\ api \in Api /\ source # Nil
  BY Reading DEF ReadSound, Steady, Asking
<1>2. page \in Seq(Nat) /\ 1 \in 0..MaxPages
  BY Answers, PagedReadConstants DEF ReadSound
<1>3. /\ read' \in Read /\ read'.phase = "list" /\ read'.window = read.window
      /\ read'.records = page /\ ~Asking'
  BY <1>1, <1>2 DEF End, Read, Asking
<1>4. ~Follows(source)'
  BY DEF Follows
<1>5. ASSUME Suits(source)
      PROVE  /\ \A i \in 1..Len(page) : page[i] = i
             /\ Len(page) = api.total
  <2>1. api.size = 0 /\ PageLength(source) = api.total /\ api.total \in Nat
    BY <1>1, <1>5, LengthOfPages DEF Api
  <2>2. Position = 0
    BY <2>1 DEF Position
  <2>3. page = HonestPage
    BY <1>5 DEF Suits, PagesOf
  <2>. QED
    <3>1. Least(0 + api.total, api.total) = api.total
      BY <2>1 DEF Least
    <3>2. Gap(api.total, 0) = api.total
      BY <2>1 DEF Gap
    <3>3. Len(page) = api.total /\ \A i \in 1..Len(page) : page[i] = 0 + i
      BY <2>1, <2>2, <2>3, <3>1, <3>2, HonestPages DEF ReadSound
    <3>. QED
      BY <2>1, <3>3
<1>6. Origin' = 0
  BY <1>1, <1>3 DEF Origin, Skip, Read, Window
<1>7. Consecutive' /\ Enough'
  <2>1. Suits(source)' = Suits(source) /\ api' = api
    BY SameSource
  <2>2. Suits(source) => Filled' = api.total
    BY <1>3, <1>5, <1>6, <1>1 DEF Filled, Api
  <2>3. api.total \in Nat
    BY <1>1 DEF Api
  <2>4. Consecutive'
    BY <1>1, <1>2, <1>3, <1>5, <1>6, <2>1, <2>2, <2>3 DEF Consecutive, IsPiece, Filled
  <2>5. Enough'
    BY <2>1, <2>2, <2>3 DEF Enough
  <2>. QED
    BY <2>4, <2>5
<1>. QED
  BY <1>1, <1>3, <1>4, <1>7 DEF ReadSound, ReadTypeOK, Steady, OwnNames, Ahead

-----------------------------------------------------------------------------
(* A page is added.                                                        *)

\* An honest page is the next piece of the list, and what it announces lies behind it.
LEMMA NextPiece ==
    ASSUME ReadTypeOK, Steady, Asking, Suits(source), source.kind # "none",
           NEW page \in PagesOf, NEW next \in NextsOf
    PROVE  \E P \in Nat, L \in Nat \ {0}, T \in Nat, n \in Nat :
             /\ P = Position /\ L = PageLength(source) /\ T = api.total /\ n = Len(page)
             /\ page \in Seq(Nat)
             /\ \A i \in 1..n : page[i] = P + i
             /\ n <= L
             /\ n # 0 => P + n <= T
             /\ n < L => P + n >= T
             /\ next # Nil => next \in Nat /\ (next = P + n \/ (next = T /\ P + n >= T))
             /\ next = Nil => P + n >= T
<1>1. page = HonestPage /\ next \in HonestNext
  BY DEF Suits, PagesOf, NextsOf
<1>2. PICK P \in Nat, L \in Nat \ {0}, T \in Nat :
         P = Position /\ L = PageLength(source) /\ T = api.total
  BY Reading, LengthOfPages DEF Api
<1>3. PICK last \in Nat : last = Least(P + L, T)
  BY LeastIs
<1>4. last = IF P + L < T THEN P + L ELSE T
  BY <1>3 DEF Least
<1>5. PICK n \in Nat : n = Len(page)
  BY <1>1, HonestPages
<1>6. /\ page \in Seq(Nat)
      /\ n = IF last > P THEN last - P ELSE 0
      /\ \A i \in 1..n : page[i] = P + i
  <2>1. n = Gap(last, P)
    BY <1>1, <1>2, <1>3, <1>5, HonestPages
  <2>2. \A i \in 1..n : page[i] = P + i
    BY <1>1, <1>2, <1>5, HonestPages
  <2>. QED
    BY <1>1, <2>1, <2>2, HonestPages DEF Gap
<1>7. n <= L /\ (n # 0 => P + n <= T) /\ (n < L => P + n >= T)
  BY <1>4, <1>6
<1>8. next \in IF P + n < T THEN {P + n} ELSE {Nil, T}
  BY <1>1, <1>2, <1>5 DEF HonestNext
<1>9. P + n \in Nat /\ Nil \notin Nat
  BY PagedReadConstants
<1>10. /\ next # Nil => next \in Nat /\ (next = P + n \/ (next = T /\ P + n >= T))
       /\ next = Nil => P + n >= T
  BY <1>8, <1>9
<1>. QED
  BY <1>2, <1>5, <1>6, <1>7, <1>10

LEMMA NamesKept ==
    ASSUME ReadSound, Asking, UNCHANGED <<api, wanted, source>>,
           NEW page \in Seq(Nat), NEW next \in Nat \cup {Nil, Foreign},
           AddPage(page, next)
    PROVE  OwnNames'
<1>1. SUFFICES ASSUME Follows(source)
               PROVE  /\ IsFiniteSet(read'.visited)
                      /\ read'.pages <= Cardinality(read'.visited) + (IF Asking' THEN 0 ELSE 1)
  BY DEF OwnNames, Follows
<1>2. IsFiniteSet(read.visited) /\ read.pages <= Cardinality(read.visited) + 0
  BY <1>1 DEF ReadSound, OwnNames, Asking
<1>3. Cardinality(read.visited) \in Nat /\ read.pages \in Nat
  BY <1>2, FS_CardinalityType, Reading DEF Read, ReadSound
<1>4. read'.pages = read.pages + 1
  BY OnePageMore DEF ReadSound
<1>5. CASE read'.visited = read.visited /\ read'.phase # "asking"
  BY <1>2, <1>3, <1>4, <1>5 DEF Asking
<1>6. CASE next \notin read.visited /\ read'.visited = read.visited \cup {next}
  <2>1. IsFiniteSet(read'.visited) /\ Cardinality(read'.visited) = Cardinality(read.visited) + 1
    BY <1>2, <1>6, FS_AddElement
  <2>. QED
    BY <2>1, <1>2, <1>3, <1>4
<1>. QED
  BY <1>1, <1>5, <1>6, OnePageMore DEF ReadSound, IsLastPage

LEMMA PageFollows ==
    ASSUME ReadSound, Asking, Suits(source), source.kind # "none",
           NEW page \in PagesOf, NEW next \in NextsOf, AddPage(page, next),
           UNCHANGED <<api, wanted, source>>
    PROVE  /\ Filled' = Filled + Len(page)
           /\ Origin' = Origin
           /\ Len(read'.records) = Len(read.records) + Len(page)
           /\ \A i \in 1..Len(read'.records) : read'.records[i] = Origin + i
           /\ read'.records # <<>> => Filled' <= api.total
<1>1. /\ ReadTypeOK /\ Steady /\ read \in Read /\ source \in Config
      /\ read # Nil /\ read.phase = "asking"
  BY Reading DEF ReadSound, Asking
<1>2. PICK P \in Nat, T \in Nat, n \in Nat :
         /\ P = Position /\ T = api.total /\ n = Len(page)
         /\ page \in Seq(Nat)
         /\ \A i \in 1..n : page[i] = P + i
         /\ n # 0 => P + n <= T
  BY <1>1, NextPiece
<1>3. read'.records = read.records \o page /\ read'.window = read.window
  BY <1>1, Answers, OnePageMore
<1>4. PICK m \in Nat : m = Len(read.records) /\ read.records \in Seq(Nat)
  BY <1>1 DEF Read
<1>5. Origin \in Nat
  <2>1. read.window.offset \in Nat
    BY <1>1 DEF Read, Window
  <2>2. /\ Skip(source, read.window.offset) \in Nat
        /\ Skip(source, read.window.offset) <= read.window.offset
    BY <1>1, <2>1, BeginsAt
  <2>. QED
    BY <2>1, <2>2 DEF Origin
<1>6. P = Origin + m
  BY <1>2, <1>4 DEF ReadSound, Ahead, Filled
<1>7. Origin' = Origin
  BY <1>3 DEF Origin, Skip
<1>8. Len(read'.records) = m + n
  BY <1>2, <1>3, <1>4
<1>9. Filled' = Filled + n
  BY <1>4, <1>5, <1>7, <1>8 DEF Filled
<1>10. /\ \A i \in 1..m : read.records[i] = Origin + i
       /\ read.records # <<>> => Origin + m <= T
  BY <1>1, <1>2, <1>4 DEF ReadSound, Consecutive, IsPiece, Filled
<1>11. \A i \in 1..(m + n) : read'.records[i] = Origin + i
  <2>1. SUFFICES ASSUME NEW i \in 1..(m + n)
                 PROVE  (read.records \o page)[i] = Origin + i
    BY <1>3
  <2>2. CASE i <= m
    <3>1. (read.records \o page)[i] = read.records[i]
      BY <2>2, <1>2, <1>4
    <3>. QED
      BY <3>1, <2>2, <1>10
  <2>3. CASE i > m
    <3>1. (read.records \o page)[i] = page[i - m] /\ i - m \in 1..n
      BY <2>3, <1>2, <1>4
    <3>2. page[i - m] = P + (i - m)
      BY <3>1, <1>2
    <3>. QED
      BY <3>1, <3>2, <1>5, <1>6
  <2>. QED
    BY <2>2, <2>3, <1>2, <1>4
<1>12. read'.records # <<>> => Origin + m + n <= T
  <2>1. m = 0 /\ n = 0 => read'.records = <<>>
    <3>1. \A s \in Seq(Nat) : Len(s) = 0 => s = <<>>
      OBVIOUS
    <3>2. m = 0 /\ n = 0 => read.records = <<>> /\ page = <<>>
      BY <3>1, <1>2, <1>4
    <3>. QED
      BY <3>2, <1>3
  <2>2. m # 0 => read.records # <<>>
    BY <1>4
  <2>. QED
    BY <2>1, <2>2, <1>2, <1>5, <1>6, <1>10
<1>13. Filled' = Origin + m + n
  BY <1>4, <1>5, <1>7, <1>8 DEF Filled
<1>. QED
  BY <1>2, <1>4, <1>7, <1>8, <1>9, <1>11, <1>12, <1>13

\* A read that goes on asks for the next page.
LEMMA PageAhead ==
    ASSUME ReadSound, Asking, Suits(source), source.kind # "none",
           NEW page \in PagesOf, NEW next \in NextsOf, AddPage(page, next),
           UNCHANGED <<api, wanted, source>>
    PROVE  Ahead'
<1>1. /\ ReadTypeOK /\ Steady /\ api \in Api /\ read \in Read /\ source \in Config
      /\ page \in Seq(Nat) /\ next \in Nat \cup {Nil, Foreign}
  BY Reading, Answers DEF ReadSound
<1>2. PICK P \in Nat, L \in Nat \ {0}, T \in Nat, n \in Nat :
         /\ P = Position /\ L = PageLength(source) /\ T = api.total /\ n = Len(page)
         /\ page \in Seq(Nat)
         /\ \A i \in 1..n : page[i] = P + i
         /\ n <= L
         /\ n # 0 => P + n <= T
         /\ n < L => P + n >= T
         /\ next # Nil => next \in Nat /\ (next = P + n \/ (next = T /\ P + n >= T))
         /\ next = Nil => P + n >= T
  BY <1>1, NextPiece, ZenonT(60)
<1>3. PICK p \in Nat, m \in Nat, o \in Nat :
         p = read.pages /\ m = Len(read.records) /\ o = read.window.offset
  BY <1>1, PagedReadConstants DEF Read, Window
<1>4. SUFFICES ASSUME read'.phase = "asking"
               PROVE  /\ Position' = Filled'
                      /\ \/ Len(read'.records) = read'.pages * PageLength(source)'
                         \/ Filled' >= api.total'
                      /\ Follows(source)' => \A v \in read'.visited : v <= read'.ask
  BY DEF Ahead, Asking
<1>5. /\ read'.window = read.window /\ read'.pages = p + 1
      /\ ~IsLastPage(read, page, next)
      /\ Follows(source) => /\ next \in Nat /\ read'.ask = next
                            /\ read'.visited = read.visited \cup {next}
      /\ source.kind = "offset" => read'.ask = o + Len(read.records \o page)
      /\ ~Follows(source) /\ source.kind # "offset" =>
            read'.ask = (o \div source.size) + (p + 1)
  BY <1>1, <1>3, <1>4, OnePageMore
<1>6. n # 0
  BY <1>1, <1>2, <1>5 DEF IsLastPage
<1>7. PICK s \in Nat : /\ s = Origin /\ P = s + m /\ Filled = s + m
  <2>1. Skip(source, o) \in Nat /\ Skip(source, o) <= o
    BY <1>1, BeginsAt
  <2>2. Origin \in Nat
    BY <1>3, <2>1 DEF Origin
  <2>. QED
    BY <2>2, <1>2, <1>3 DEF ReadSound, Ahead, Filled
<1>8. Filled' = P + n /\ Len(read'.records) = m + n
  BY <1>2, <1>3, <1>7, PageFollows
<1>9. P < T /\ P + n <= T
  BY <1>2, <1>6
<1>10. m = p * L
  BY <1>2, <1>3, <1>7, <1>9 DEF ReadSound, Ahead
<1>11. PageLength(source)' = L /\ api' = api /\ source' = source
  BY <1>2, SameSource
<1>12. m + n = (p + 1) * L \/ P + n >= T
  <2>1. (p + 1) * L = p * L + L /\ p * L \in Nat
    BY Multiples
  <2>. QED
    BY <2>1, <1>2, <1>10
<1>13. api.size # 0
  BY <1>1, LengthOfPages
<1>14. Follows(source) => next = P + n
  <2>. SUFFICES ASSUME Follows(source) PROVE next = P + n
    OBVIOUS
  <2>1. next \in Nat /\ next # Nil
    BY <1>5, PagedReadConstants
  <2>2. next = P + n \/ (next = T /\ P + n >= T)
    BY <1>2, <2>1
  <2>. QED
    BY <1>9, <2>2
<1>15. Position' = P + n
  <2>1. CASE Follows(source)
    <3>1. Position' = next
      BY <2>1, <1>5, <1>11, <1>13 DEF Position, Follows
    <3>. QED
      BY <3>1, <2>1, <1>14
  <2>2. CASE source.kind = "offset"
    <3>1. Position' = o + Len(read.records \o page)
      BY <2>2, <1>5, <1>11, <1>13 DEF Position
    <3>2. Skip(source, o) = 0
      BY <2>2 DEF Skip
    <3>3. s = o
      BY <3>2, <1>3, <1>7 DEF Origin
    <3>4. Len(read.records \o page) = m + n
      BY <1>1, <1>2, <1>3 DEF Read
    <3>. QED
      BY <3>1, <3>3, <3>4, <1>7
  <2>3. CASE source.kind = "page"
    <3>1. L = source.size
      BY <1>1, <1>2, <2>3, LengthOfPages
    <3>2. n = L
      BY <1>2, <1>5, <2>3, <3>1 DEF IsLastPage, Follows
    <3>3. PICK q \in Nat : /\ q = o \div source.size /\ q * L = s
      <4>1. FirstAsk(source, o) = o \div source.size /\ FirstAsk(source, o) \in Nat
        BY <1>1, <2>3, BeginsAt DEF FirstAsk
      <4>2. FirstAsk(source, o) * L = o - Skip(source, o)
        BY <1>1, <2>3, <3>1, BeginsAt
      <4>. QED
        BY <4>1, <4>2, <1>3, <1>7 DEF Origin
    <3>4. read'.ask = q + (p + 1)
      BY <1>5, <2>3, <3>3 DEF Follows
    <3>5. Position' = (q + (p + 1)) * L
      BY <3>4, <2>3, <1>11, <1>13 DEF Position
    <3>6. /\ (q + (p + 1)) * L = q * L + (p + 1) * L
          /\ (p + 1) * L = p * L + L
      BY Multiples
    <3>. QED
      BY <3>2, <3>3, <3>5, <3>6, <1>7, <1>10
  <2>. QED
    BY <2>1, <2>2, <2>3, <1>1 DEF Config, Kinds, Follows
<1>16. Follows(source) => \A v \in read'.visited : v <= read'.ask
  <2>1. SUFFICES ASSUME Follows(source), NEW v \in read.visited
                 PROVE  v <= P + n
    BY <1>5, <1>14
  <2>2. v \in Nat /\ v <= read.ask
    BY <2>1, <1>1 DEF ReadSound, Ahead, Read, Ask
  <2>3. P = read.ask
    BY <2>1, <1>2, <1>13 DEF Position, Follows
  <2>. QED
    BY <2>2, <2>3, <1>2
<1>. QED
  BY <1>5, <1>8, <1>11, <1>12, <1>15, <1>16, <1>2, SameSource

\* A read that ends has the window, the list, or a reason.
LEMMA PageEnough ==
    ASSUME ReadSound, Asking, Suits(source), source.kind # "none",
           NEW page \in PagesOf, NEW next \in NextsOf, AddPage(page, next),
           UNCHANGED <<api, wanted, source>>
    PROVE  Enough'
<1>1. /\ ReadTypeOK /\ Steady /\ api \in Api /\ read \in Read /\ source \in Config
      /\ page \in Seq(Nat) /\ next \in Nat \cup {Nil, Foreign}
  BY Reading, Answers DEF ReadSound
<1>2. PICK P \in Nat, L \in Nat \ {0}, T \in Nat, n \in Nat :
         /\ P = Position /\ L = PageLength(source) /\ T = api.total /\ n = Len(page)
         /\ page \in Seq(Nat)
         /\ \A i \in 1..n : page[i] = P + i
         /\ n <= L
         /\ n # 0 => P + n <= T
         /\ n < L => P + n >= T
         /\ next # Nil => next \in Nat /\ (next = P + n \/ (next = T /\ P + n >= T))
         /\ next = Nil => P + n >= T
  BY <1>1, NextPiece, ZenonT(60)
<1>3. PICK p \in Nat, m \in Nat, w \in Nat :
         p = read.pages /\ m = Len(read.records) /\ w = Wanted(read) /\ p < MaxPages
         /\ w = Skip(source, read.window.offset) + read.window.limit + 1
  <2>1. read.window.offset \in Nat /\ read.window.limit \in Nat
    BY <1>1 DEF Read, Window
  <2>2. Skip(source, read.window.offset) \in Nat
    BY <1>1, <2>1, BeginsAt
  <2>3. Wanted(read) \in Nat
    BY <2>1, <2>2 DEF Wanted
  <2>. QED
    BY <1>1, <2>3, PagedReadConstants DEF Read, Steady, Wanted
<1>4. P = Filled /\ (m = p * L \/ P >= T)
  BY <1>2, <1>3 DEF ReadSound, Ahead
<1>5. /\ Filled' = P + n /\ Len(read'.records) = m + n
      /\ read'.window = read.window /\ api' = api /\ source' = source
      /\ read'.late = read.late
  BY <1>1, <1>2, <1>3, <1>4, PageFollows, OnePageMore
<1>6. Wanted(read)' = w /\ IsWithinPages(source)' = IsWithinPages(source)
  BY <1>3, <1>5, SameSource DEF Wanted, IsWithinPages
<1>7. SUFFICES ASSUME read'.phase = "list"
               PROVE  m + n >= w \/ P + n >= T \/ read.late \/ ~IsWithinPages(source)
  BY <1>2, <1>5, <1>6 DEF Enough
<1>8. \/ Len(read.records \o page) >= w
      \/ p + 1 >= MaxPages
      \/ read.late
      \/ IsLastPage(read, page, next)
      \/ Follows(source) /\ next = Nil
  BY <1>1, <1>3, <1>7, OnePageMore
<1>9. ASSUME p + 1 >= MaxPages, IsWithinPages(source), P + n < T
      PROVE  m + n >= w
  <2>1. p + 1 = MaxPages
    BY <1>3, <1>9, PagedReadConstants
  <2>2. MaxPages * L >= w
    <3>1. PICK k \in Nat : k = MaxPages * L
      BY Multiples, PagedReadConstants
    <3>2. k > Skip(source, read.window.offset) + read.window.limit
      BY <3>1, <1>2, <1>9 DEF IsWithinPages
    <3>3. read.window.limit \in Nat /\ Skip(source, read.window.offset) \in Nat
      BY <1>1, BeginsAt DEF Read, Window
    <3>. QED
      BY <3>1, <3>2, <3>3, <1>3
  <2>3. m = p * L /\ n = L
    BY <1>2, <1>4, <1>9
  <2>4. MaxPages * L = p * L + L
    BY <2>1, Multiples
  <2>5. p * L \in Nat
    BY Multiples
  <2>. QED
    BY <2>2, <2>3, <2>4
<1>10. ASSUME IsLastPage(read, page, next), P + n < T
       PROVE  FALSE
  <2>1. n = L /\ next = P + n
    BY <1>2, <1>10
  <2>2. page # <<>>
    BY <2>1, <1>2
  <2>3. CASE Follows(source)
    <3>1. next \in read.visited
      BY <2>2, <2>3, <1>10 DEF IsLastPage
    <3>2. next <= read.ask
      BY <2>3, <3>1 DEF ReadSound, Ahead
    <3>3. api.size # 0
      BY <1>1, LengthOfPages
    <3>4. P = read.ask
      BY <2>3, <3>3, <1>2 DEF Position, Follows
    <3>. QED
      BY <2>1, <3>2, <3>4
  <2>4. CASE ~Follows(source)
    <3>1. n < source.size
      BY <2>2, <2>4, <1>2, <1>10 DEF IsLastPage
    <3>2. source.kind \in {"offset", "page"}
      BY <2>4, <1>1 DEF Config, Kinds, Follows
    <3>3. L = source.size
      BY <3>2, <1>1, <1>2, LengthOfPages
    <3>. QED
      BY <2>1, <3>1, <3>3
  <2>. QED
    BY <2>3, <2>4
<1>11. Len(read.records \o page) = m + n
  BY <1>1, <1>2, <1>3 DEF Read
<1>. QED
  BY <1>2, <1>3, <1>8, <1>9, <1>10, <1>11

LEMMA PageAdded ==
    ASSUME ReadSound, Asking, source.kind # "none",
           NEW page \in PagesOf, NEW next \in NextsOf, AddPage(page, next),
           UNCHANGED <<api, wanted, source>>
    PROVE  ReadSound'
<1>1. /\ ReadTypeOK /\ Steady /\ api \in Api /\ read \in Read /\ source \in Config
      /\ source # Nil
      /\ page \in Seq(Nat) /\ next \in Nat \cup {Nil, Foreign}
  BY Reading, Answers DEF ReadSound, Steady, Asking
<1>2. read' \in Read /\ (read'.phase = "asking" => read'.pages < MaxPages)
      /\ read'.phase \in {"asking", "list", "failed"}
  BY <1>1, OnePageMore
<1>3. ReadTypeOK' /\ Steady'
  BY <1>1, <1>2 DEF ReadTypeOK, Steady, Asking
<1>4. OwnNames'
  BY <1>1, NamesKept
<1>5. CASE ~Suits(source)
  BY <1>3, <1>4, <1>5, SameSource DEF ReadSound, Consecutive, Ahead, Enough
<1>6. CASE Suits(source)
  <2>1. Consecutive'
    BY <1>2, <1>6, PageFollows DEF Consecutive, IsPiece, Filled
  <2>2. Ahead'
    BY <1>6, PageAhead
  <2>3. Enough'
    BY <1>6, PageEnough
  <2>. QED
    BY <2>1, <2>2, <2>3, <1>3, <1>4 DEF ReadSound
<1>. QED
  BY <1>5, <1>6

-----------------------------------------------------------------------------
(* Data sources: the invariant holds.                                      *)

LEMMA SoundInit == ReadInit => ReadSound
<1>. SUFFICES ASSUME ReadInit
              PROVE  ReadSound
  OBVIOUS
<1>1. api \in Api /\ wanted = Nil /\ read = Nil
  <2>1. Totals \subseteq Nat /\ Sizes \cup {0} \subseteq Nat
    BY PagedReadConstants
  <2>. QED
    BY <2>1 DEF ReadInit, Api
<1>2. source \in Config \cup {Nil}
  <2>1. Sizes \cup {1} \subseteq Nat \ {0}
    BY PagedReadConstants
  <2>2. [kind : Kinds, size : Sizes \cup {1}, path : BOOLEAN] \subseteq Config
    BY <2>1 DEF Config
  <2>. QED
    BY <2>2 DEF ReadInit, Configs
<1>. QED
  BY <1>1, <1>2
     DEF ReadSound, ReadTypeOK, Steady, OwnNames, Consecutive, Ahead, Enough, Asking

LEMMA SoundNext == ReadSound /\ [ReadNext]_readVars => ReadSound'
<1>. SUFFICES ASSUME ReadSound, [ReadNext]_readVars
              PROVE  ReadSound'
  OBVIOUS
<1>1. CASE CreateSource
  BY <1>1, Created
<1>2. ASSUME NEW window \in Windows, BeginRead(window)
      PROVE  ReadSound'
  BY <1>2, Begun
<1>3. CASE AnswerList
  <2>1. PICK page \in PagesOf, next \in NextsOf :
           IF source.kind = "none"
           THEN End([read EXCEPT !.pages = 1, !.records = page], "list")
           ELSE AddPage(page, next)
    BY <1>3 DEF AnswerList
  <2>2. Asking /\ UNCHANGED <<api, wanted, source>>
    BY <1>3 DEF AnswerList
  <2>3. CASE source.kind = "none"
    BY <2>1, <2>2, <2>3, PlainRead
  <2>4. CASE source.kind # "none"
    BY <2>1, <2>2, <2>4, PageAdded
  <2>. QED
    BY <2>3, <2>4
<1>4. CASE AnswerNoList
  BY <1>4, NotAListRead
<1>5. CASE RefuseAnswer
  BY <1>5, Failed DEF RefuseAnswer
<1>6. ASSUME NEW n \in 0..MaxPages, TimeOut(n)
      PROVE  ReadSound'
  BY <1>6, Failed DEF TimeOut, IsCancelled
<1>7. CASE SpendBudget
  BY <1>7, TimePassed
<1>8. CASE UNCHANGED readVars
  <2>1. api' = api /\ wanted' = wanted /\ source' = source /\ read' = read
    BY <1>8 DEF readVars
  <2>2. Position' = Position /\ Origin' = Origin /\ Filled' = Filled
    BY <2>1, SameSource DEF Position, Origin, Filled, Skip
  <2>3. ReadTypeOK' /\ Steady'
    BY <2>1 DEF ReadSound, ReadTypeOK, Steady, Asking
  <2>4. OwnNames'
    BY <2>1 DEF ReadSound, OwnNames, Asking, Follows
  <2>5. Consecutive' /\ Ahead'
    BY <2>1, <2>2, SameSource DEF ReadSound, Consecutive, Ahead, Asking
  <2>6. Enough'
    BY <2>1, <2>2, SameSource DEF ReadSound, Enough, Wanted, IsWithinPages
  <2>. QED
    BY <2>3, <2>4, <2>5, <2>6 DEF ReadSound
<1>. QED
  BY <1>1, <1>2, <1>3, <1>4, <1>5, <1>6, <1>7, <1>8 DEF ReadNext

-----------------------------------------------------------------------------
(* What callers get.                                                       *)

\* The records after the first k, up to the e-th.
Cut(records, k, e) == SubSeq(records, k + 1, e)

LEMMA CutOfRecords ==
    ASSUME NEW records \in Seq(Nat), NEW k \in Nat, NEW e \in Nat, e <= Len(records)
    PROVE  /\ Cut(records, k, e) \in Seq(Nat)
           /\ Len(Cut(records, k, e)) = Gap(e, k)
           /\ \A i \in 1..Len(Cut(records, k, e)) :
                 Cut(records, k, e)[i] = records[k + i] /\ k + i \in 1..Len(records)
<1>1. \A i \in (k + 1)..e : records[i] \in Nat
  OBVIOUS
<1>2. /\ Cut(records, k, e) \in Seq(Nat)
      /\ Len(Cut(records, k, e)) = IF k + 1 <= e THEN e - (k + 1) + 1 ELSE 0
      /\ \A i \in 1..(e - (k + 1) + 1) : Cut(records, k, e)[i] = records[k + 1 + i - 1]
  <2>1. k + 1 \in Int /\ e \in Int
    OBVIOUS
  <2>. QED
    BY <1>1, <2>1, SubSeqProperties DEF Cut
<1>3. PICK n \in Nat : n = Gap(e, k) /\ (e > k => n = e - k) /\ (e <= k => n = 0)
  BY GapIs
<1>4. Len(Cut(records, k, e)) = n
  BY <1>2, <1>3
<1>5. ASSUME NEW i \in 1..n
      PROVE  /\ i \in 1..(e - (k + 1) + 1) /\ k + 1 + i - 1 = k + i
             /\ k + i \in 1..Len(records)
  BY <1>3
<1>. QED
  BY <1>2, <1>3, <1>4, <1>5

LEMMA PrefixIs ==
    ASSUME NEW s \in Seq(Nat), NEW t \in Seq(Nat), Len(s) <= Len(t),
           \A i \in 1..Len(s) : s[i] = t[i]
    PROVE  IsPrefix(s, t) /\ (Len(s) = Len(t) => s = t)
<1>1. PICK n \in Nat : n = Len(s)
  OBVIOUS
<1>2. ASSUME NEW r \in Seq(Nat), n <= Len(r), \A i \in 1..n : r[i] = s[i]
      PROVE  SubSeq(r, 1, n) = s
  <2>1. \A i \in 1..n : r[i] \in Nat
    BY <1>2
  <2>2. /\ SubSeq(r, 1, n) \in Seq(Nat)
        /\ Len(SubSeq(r, 1, n)) = IF 1 <= n THEN n - 1 + 1 ELSE 0
        /\ \A i \in 1..(n - 1 + 1) : SubSeq(r, 1, n)[i] = r[1 + i - 1]
    BY <2>1, SubSeqProperties
  <2>3. Len(SubSeq(r, 1, n)) = n
    BY <2>2
  <2>4. \A i \in 1..n : SubSeq(r, 1, n)[i] = s[i]
    BY <2>2, <1>2
  <2>. QED
    BY <2>2, <2>3, <2>4, <1>1
<1>3. SubSeq(s, 1, n) = s
  BY <1>1, <1>2
<1>4. SubSeq(t, 1, n) = s
  BY <1>1, <1>2
<1>. QED
  BY <1>1, <1>3, <1>4, SMTT(30) DEF IsPrefix

\* The records that a caller gets are those that are due, or the first of them.
LEMMA WindowOfRecords ==
    ASSUME NEW records \in Seq(Nat), NEW start \in Nat, NEW total \in Nat,
           NEW skip \in Nat, NEW offset \in Nat, NEW wants \in Nat, NEW last \in Nat
    PROVE  LET cut == Cut(records, skip, Least(wants, Len(records)))
               due == Run(offset, Least(last, total))
           IN  /\ IsPiece(records, start, total)
               /\ start + skip = offset /\ skip < wants /\ last = start + wants
               => /\ IsPrefix(cut, due)
                  /\ (Len(records) >= wants \/ start + Len(records) >= total) => cut = due
<1>. DEFINE cut == Cut(records, skip, Least(wants, Len(records)))
            due == Run(offset, Least(last, total))
<1>0. SUFFICES ASSUME IsPiece(records, start, total),
                      start + skip = offset, skip < wants, last = start + wants
               PROVE  /\ IsPrefix(cut, due)
                      /\ (Len(records) >= wants \/ start + Len(records) >= total) => cut = due
  BY Zenon
<1>1. PICK m \in Nat : m = Len(records) /\ (m # 0 => start + m <= total)
  BY <1>0 DEF IsPiece
<1>2. \A i \in 1..m : records[i] = start + i
  BY <1>0, <1>1 DEF IsPiece
<1>3. m \in Nat /\ (m # 0 => start + m <= total)
  BY <1>1
<1>4. PICK e \in Nat :
         e = Least(wants, m) /\ (wants < m => e = wants) /\ (wants >= m => e = m)
  <2>1. /\ Least(wants, m) \in Nat
        /\ (wants < m => Least(wants, m) = wants) /\ (wants >= m => Least(wants, m) = m)
    BY <1>3, LeastIs
  <2>. QED
    BY <2>1
<1>5. PICK l \in Nat :
         l = Least(last, total) /\ (last < total => l = last) /\ (last >= total => l = total)
  <2>1. /\ Least(last, total) \in Nat
        /\ (last < total => Least(last, total) = last)
        /\ (last >= total => Least(last, total) = total)
    BY LeastIs
  <2>. QED
    BY <2>1
<1>6. /\ e \in Nat /\ (wants < m => e = wants) /\ (wants >= m => e = m)
      /\ l \in Nat /\ (last < total => l = last) /\ (last >= total => l = total)
  BY <1>4, <1>5
<1>7. PICK a \in Nat : a = Gap(e, skip) /\ (e > skip => a = e - skip) /\ (e <= skip => a = 0)
  BY <1>4, GapIs
<1>8. PICK d \in Nat : d = Gap(l, offset) /\ (l > offset => d = l - offset) /\ (l <= offset => d = 0)
  BY <1>5, GapIs
<1>9. a <= d /\ ((m >= wants \/ start + m >= total) => a = d)
  <2>1. e <= m /\ e <= wants
    BY <1>3, <1>6
  <2>2. e # 0 => start + e <= l
    BY <1>0, <1>3, <1>6
  <2>3. a <= d
    BY <1>0, <2>2, <1>6, <1>7, <1>8
  <2>4. CASE m >= wants
    <3>1. e = wants /\ l = last
      BY <1>0, <1>3, <1>6, <2>4
    <3>. QED
      BY <1>0, <2>3, <3>1, <1>7, <1>8
  <2>5. CASE start + m >= total /\ m < wants
    <3>1. e = m /\ l = total
      BY <1>0, <1>3, <1>6, <2>5
    <3>2. m = 0 => a = 0 /\ d = 0
      BY <1>0, <2>5, <3>1, <1>6, <1>7, <1>8
    <3>3. m # 0 => start + m = total
      BY <1>3, <2>5
    <3>4. m # 0 => a = d
      BY <1>0, <1>3, <3>1, <3>3, <1>7, <1>8
    <3>. QED
      BY <2>3, <3>2, <3>4
  <2>. QED
    BY <1>3, <2>3, <2>4, <2>5
<1>. DEFINE s == Cut(records, skip, e)
            t == Run(offset, l)
<1>10. /\ s \in Seq(Nat) /\ Len(s) = a
       /\ \A i \in 1..a : s[i] = records[skip + i] /\ skip + i \in 1..Len(records)
  <2>1. e <= Len(records)
    BY <1>1, <1>3, <1>6
  <2>2. s \in Seq(Nat) /\ Len(s) = Gap(e, skip)
        /\ \A i \in 1..Len(s) : s[i] = records[skip + i] /\ skip + i \in 1..Len(records)
    BY <2>1, <1>4, CutOfRecords
  <2>. QED
    BY <2>2, <1>7
<1>11. t \in Seq(Nat) /\ Len(t) = d /\ \A i \in 1..d : t[i] = offset + i
  <2>1. t \in Seq(Nat) /\ Len(t) = Gap(l, offset)
        /\ \A i \in 1..Len(t) : t[i] = offset + i
    BY <1>5, RunOfRecords
  <2>. QED
    BY <2>1, <1>8
<1>. HIDE DEF s, t
<1>12. ASSUME NEW i \in 1..a
       PROVE  s[i] = t[i]
  <2>1. s[i] = start + (skip + i)
    BY <1>1, <1>2, <1>10
  <2>2. start + (skip + i) = offset + i
    BY <1>0, <1>7
  <2>3. t[i] = offset + i
    BY <1>7, <1>8, <1>9, <1>11
  <2>. QED
    BY <2>1, <2>2, <2>3
<1>13. IsPrefix(s, t) /\ (a = d => s = t)
  BY <1>7, <1>8, <1>9, <1>10, <1>11, <1>12, PrefixIs
<1>14. s = cut /\ t = due
  BY <1>1, <1>4, <1>5 DEF s, t
<1>. QED
  BY <1>1, <1>9, <1>13, <1>14

\* A source that suits its API is read exactly.
LEMMA SoundIsExact == ReadSound => WindowIsExact
<1>. SUFFICES ASSUME ReadSound, IsRead, Suits(source)
              PROVE  \/ Answered = Due
                     \/ /\ read.late \/ ~IsWithinPages(source)
                        /\ IsPrefix(Answered, Due)
  BY DEF WindowIsExact
<1>. DEFINE records == read.records
            offset  == read.window.offset
            limit   == read.window.limit
            skip    == Skip(source, offset)
<1>1. /\ read # Nil /\ read.phase = "list"
      /\ source # Nil /\ source \in Config /\ read \in Read /\ api.total \in Nat
  BY DEF ReadSound, ReadTypeOK, Steady, Consecutive, IsRead, Api
<1>2. records \in Seq(Nat) /\ offset \in Nat /\ limit \in Nat
  BY <1>1 DEF Read, Window
<1>3. skip \in Nat /\ skip <= offset
  BY <1>1, <1>2, BeginsAt
<1>. DEFINE wants == skip + limit + 1
            last  == offset + limit + 1
            cut   == Cut(records, skip, Least(wants, Len(records)))
            due   == Run(offset, Least(last, api.total))
<1>4. Answered = cut /\ Due = due
  BY DEF Answered, Due, Cut, Run, Wanted
<1>5. Origin = offset - skip /\ Filled = Origin + Len(records) /\ Wanted(read) = wants
  BY DEF Origin, Filled, Wanted
<1>6. IsPiece(records, Origin, api.total)
  BY <1>1 DEF ReadSound, Consecutive
<1>7. \/ Len(records) >= wants
      \/ Origin + Len(records) >= api.total
      \/ read.late
      \/ ~IsWithinPages(source)
  BY <1>1, <1>5 DEF ReadSound, Enough
<1>. HIDE DEF records, offset, limit, skip
<1>8. /\ wants \in Nat /\ last \in Nat /\ Origin \in Nat
      /\ Origin + skip = offset /\ skip < wants /\ last = Origin + wants
  BY <1>2, <1>3, <1>5
<1>. HIDE DEF wants, last
<1>9. /\ IsPrefix(cut, due)
      /\ (Len(records) >= wants \/ Origin + Len(records) >= api.total) => cut = due
  BY <1>1, <1>2, <1>3, <1>6, <1>8, WindowOfRecords, SMTT(40)
<1>. QED
  BY <1>4, <1>7, <1>9

LEMMA SoundAsksOnce == ReadSound => NothingAskedTwice
<1>. SUFFICES ASSUME ReadSound, read # Nil, Follows(source)
              PROVE  read.pages <= Cardinality(read.visited) + 1
  BY DEF NothingAskedTwice
<1>1. /\ IsFiniteSet(read.visited)
      /\ read.pages <= Cardinality(read.visited) + (IF Asking THEN 0 ELSE 1)
  BY DEF ReadSound, OwnNames
<1>2. Cardinality(read.visited) \in Nat /\ read.pages \in Nat
  BY <1>1, FS_CardinalityType DEF ReadSound, ReadTypeOK, Read
<1>. QED
  BY <1>1, <1>2

\* In every state a read is one page ahead of its own names at most, holds the records
\* of the list from where it began, and ends for a reason (readPaginated).
THEOREM ReadsAreSound == ReadSpec => []ReadSound
<1>. QED
  BY SoundInit, SoundNext, PTL DEF ReadSpec

\* What a read answers is what was asked for, of a source that suits its API; and no
\* cursor or link is followed twice, whatever the API answers (readPaginated, windowOf).
THEOREM WindowIsRead == ReadSpec => []WindowRead
<1>1. ReadSound => WindowRead
  BY SoundIsExact, SoundAsksOnce DEF ReadSound, WindowRead
<1>. QED
  BY <1>1, ReadsAreSound, PTL
=============================================================================
