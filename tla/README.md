# Civo in TLA+

A verification project kept beside Civo, a multi-tenant platform for municipal
websites (TypeScript, Next.js, PostgreSQL through Prisma). It models what several
people do to the same rows at the same time - bookings, their configuration, page
drafts and releases, roles and invitations, rate limits - and the algorithms and data
structures that a unit test reaches badly: the slot engine, and the page editor with
its history. TLC checks small instances; TLAPS proves, for every value of the constants,
the safety properties of every part modelled and both refinements.

Paths below are relative to the repository, which is under `src/`, so the booking
module is `src/src/modules/booking`.

## 1. The system

### Inventory

| Component | State | Operations that change it | Hard behaviour | What makes it correct | Here |
| --- | --- | --- | --- | --- | --- |
| Booking store (`booking/infrastructure/prisma`) | tables `Booking`, `BookingResource`; exclusion constraint on active rows | `create`, `save`, `releaseExpiredHolds` | concurrent transactions; expired holds still occupy rows; compare-and-swap on status and timestamp | no double booking; the two tables agree; only live bookings refuse a visitor | `BookingStore` |
| Booking commands (`booking/application/commands`) | none of its own: what one request read | hold, confirm, release, cancel, reschedule, complete, no-show, release expired holds | every command reads, decides and writes apart; the clock moves in between | lifecycle kept, customer kept, caps | `BookingFlow` |
| Booking lifecycle and policies (`booking/domain/lifecycle`, `policies`) | pure | transitions, deadlines, cap on moves | boundaries in time | `LawfulStatus`, `CustomersMoveSeldom` | `BookingFlow` |
| Slot assessment, slot lists, alternatives (`booking/domain/scheduling`) | pure | `assessSlot`, `matchResources`, `findAvailableSlots`, `suggestAlternativeSlots` | halving search over spans; augmenting paths; sessions | agree with a definition by sets, and with one another | `SlotEngine`, `Scheduling` |
| Availability and local time (`booking/domain/time`, `scheduling`) | pure | interval algebra, windows, weeks cut to fit | clocks that skip or repeat; breaks across ranges | agree with a definition by instants | `Intervals`, `Availability` |
| Service feasibility (`booking/domain/scheduling/service-feasibility.ts`) | pure | preview of a service | must not promise what the engine refuses | `PreviewAgrees` | `Feasibility` |
| Booking setup (locations, services, resources, employees) | configuration tables, ids in plain lists | create, update, delete, set hours, own profile, offer, acknowledge | checks read before the write; batches without a transaction | what is referred to exists; hours stay inside the location's | `BookingSetup` |
| Release (`release`) | `WebsiteRelease`, `WebsiteMigration`, `Website.publishedReleaseId` | publish, roll back, propose and apply a migration, delete unused data | two activations at once; a migration applied page by page | one live release; numbers without gaps; a migration never overwrites an edit | `SiteStore`, `SiteFlow`, `LiveSite` |
| Builder, server side (`builder/application`, `infrastructure`) | `Page`, `PageConfig` (versions) | create page, save draft | two editors save from one version | no draft lost, edit scope kept | `SiteStore`, `SiteFlow` |
| Builder, editor (`builder/domain`, `presentation`) | the document in the browser: tree, undo history, drag, baseline | insert, remove, duplicate, move, type, undo, redo, drop, save, discard | edits while a save is under way; a drop on a page that changed; lost answers | the tree stays sound, drops land, the baseline is what is stored | `DocumentTree`, `Editor` |
| Auth (`auth`) | `Membership`, `Invitation`, sessions of the identity provider | invite, accept, revoke, set access, change roles, remove | administrators removing one another; accept racing revoke and expiry | an administrator stays; an invitation is taken by one | `AccessFlow` (sessions are not) |
| Rate limits (`lib/rate-limit`) | counters per policy and subject | `enforce`, `enforceAll` | window ends mid-way; store fails, fills or answers late | limits hold, nobody resets a counter or spends another's budget | `RateLimit` |
| Data sources (`data-sources`) | `DataSource`, `Dataset`, response cache | create, update, map, delete, read over HTTP | APIs that loop, link elsewhere, fail or hang; windows cut from pages; a dataset deleted while a page starts to use it | a window is read exactly; a read ends | `PagedRead`, the deletion in `SiteFlow` |
| Website, component platform, audit, map | single rows, contracts, append-only records | create, update, prune | little | unique constraints | not modelled |
| Mail, geocoding, forms, screens, routing, i18n, shell, shared library | none shared | render, send | external services | - | not modelled |

### How the parts interact

A route or server action of `src/app` calls one command of a module. The command
authorises, spends a rate-limit budget (`RateLimit`), reads through repositories,
decides with pure domain functions (`SlotEngine` for bookings) and writes through a
repository; afterwards it records an audit entry and sends mail, whose failure changes
nothing that was written. Commands share state only through PostgreSQL: there is no
lock or queue in the application, so any number of requests (of several server
instances) run at once, and each holds what it read a few queries ago. The exceptions
are two advisory locks in the database: that of a shared session (`BookingStore`) and
that of a tenant's roster (`AccessFlow`). The page editor lives in a browser and meets
the server in one place, a save with the version it stands on (`Editor`, whose
server is the save of `SiteFlow`).

### What is hard

1. *Every check is a stale read.* `assessSlot`, the caps, the deletion guards, the scope
   check and the number of the next release are all read before the write. Constraints,
   compare-and-swap, foreign keys or locks have to catch what changed; where there is
   none, the models say what may happen.
2. *Expired holds still have rows.* A hold blocks logically until `holdExpiresAt`
   but physically until somebody sets its rows inactive: every write must first
   release the expired holds in its way, and only these.
3. *Requests have times of their own*, so two may disagree on whether a hold stands.
4. *Several rows, one after the other.* A booking and its resource rows are written in a
   transaction; the pages of a migration, the employees of a location and the services
   of a deleted location are not.
5. *Clocks skip and repeat*, ranges end at midnight, breaks lie across ranges.
6. *Answers get lost or come late*: from the counter store, from a save.

`PROJECT.json` lists these as hazards at their lines, with the properties that
would notice.

## 2. The modules

| Module | What it is |
| --- | --- |
| `BookingStore` | The two tables, what they say at a time, and the transactions `Create`, `Save`, `Sweep`. |
| `BookingFlow` | The booking commands as requests in steps. |
| `Calendar` | Abstract: what the booking module promises about a calendar. |
| `BookingProperties` | Invariants, action properties, the refinement mapping to `Calendar`. |
| `MoveCount` | The booking flow with an observer that counts the moves of customers. |
| `BookingInvariant` | The inductive invariants `IInv` (tables and requests) and `BookingInv` (with sessions and caps). |
| `BookingProofs` | Theorems about the booking flow: the tables, then sessions, caps and the refinement. |
| `Intervals`, `Availability` | Interval algebra and local time; weekly plans, exceptions, windows, cutting weeks to fit. |
| `SlotEngine`, `Feasibility` | The engine's index, busy spans, matching, sessions, slot lists and alternatives; the preview. |
| `Scheduling` | A small calendar that bookings, moves, new hours and exceptions change: the states on which the algorithms are checked. |
| `SchedulingProperties` | The definitions by sets, and the properties that compare. |
| `SchedulingProofs` | Theorems about hours, cut weeks and the matching, and what the others rest on. |
| `SlotProofs` | Theorems about the assessment of a start, the lists of free times, the alternatives and the preview. |
| `BookingSetup`, `SetupProperties`, `SetupProofs` | The configuration commands, query by query, with visitors who book meanwhile. |
| `SiteStore`, `SiteFlow` | Tables of pages, releases and migrations; the commands of builder and release on one website. |
| `LiveSite` | Abstract: what a website promises its visitors, an album of fixed editions of which one is open. |
| `SiteProperties` | Invariants, action properties, the mapping to `LiveSite`, fairness and liveness. |
| `SiteProofs` | Theorems about websites, and about the reads of their data sources. |
| `DocumentTree` | The page as a tree (in depth-first order with depths), its operations, drop targets. |
| `Editor`, `EditorProperties`, `EditorProofs` | The editing session: history, typing, drags, saves under way, other editors. |
| `AccessFlow` | Memberships, invitations and the roster's lock. |
| `RoleWatch` | The same with an observer of writes of roles that cross. |
| `AccessProofs` | Theorems about both. |
| `RateLimit`, `RateProofs` | Attempts, budgets, counters and the store. |
| `PagedRead` | A data source, the external API, and the read of a window of its records. |
| `MC...` | Constants of the instances for TLC. |

Each model module with few properties holds them itself (`AccessFlow`, `RateLimit`,
`PagedRead`). Theorems and proofs of a component are in its `...Proofs`; those about `PagedRead`
are in `SiteProofs`.

### Bookings

*State.* `bookings` is the table `Booking` of one website: a function from ids to rows
or `None`. `rows` is `BookingResource`. `clock` is the server's clock, in an
arbitrary unit. `req` holds for each client the request under way: its command, the
phase it is in, the time it took, what it read (`base`, `crew`) and what it is about
to write (`next`).

*Data that is abstracted.* An **offering** is a service at a location; its opening
hours, slot grid and exceptions are the set `Starts[o]`. Its requirements together with
the eligibility of resources are `Crews[o]`, the sets of resources that meet them; the
matching algorithm picks one of the free ones and balances load, the model any free one.
(`SlotEngine` is the detailed model of both; the two are not composed.) Occupied spans are
half-open and computed as in the code: start less preparation, to end plus clean-up. A
key is the session (`<<"session", o, start>>`) or the booking itself. An e-mail address
is a member of `Emails`. `stamp` is `updatedAt`. `moves` is what a booking stores of its moves, the
count that was read plus one; the observer `moved` of `MoveCount` counts the moves themselves.

*Steps.* Each query or transaction is one step, and so is what the request computes
from it.

| Command | Steps | Code |
| --- | --- | --- |
| HoldSlot | `BeginHold` (reference, time), `CountHolds`, `AssessHold`, `CreateHold` | `hold-slot.ts`, `create` |
| ConfirmBooking | `BeginConfirm`, `ReadConfirm`, `CountEmail`, `SaveBooking` | `confirm-booking.ts`, `save` |
| ReleaseHold | `BeginRelease`, `ReadRelease`, `SaveBooking` | `release-hold.ts` |
| CancelOwnBooking, CancelBookingAsStaff | `ReadCancel`, `DecideCancel` (takes the time), `SaveBooking` | `booking-changes.ts` |
| RescheduleOwnBooking, RescheduleBookingAsStaff | `ReadMove`, `DecideMove` (takes the time), `AssessMove`, `SaveBooking` | `booking-changes.ts` |
| CompleteBooking, MarkBookingNoShow | `BeginFinish`, `ReadFinish`, `SaveBooking` | `complete-booking.ts`, `mark-booking-no-show.ts` |
| ReleaseExpiredHolds | `BeginSweep`, `SweepHolds` | `release-expired-holds.ts` |

`Create` and `Save` are whole transactions: check the session, release the expired
holds in the way, write the booking (conditionally on status and `updatedAt` in
`save`), replace its rows, and let the exclusion constraint decide. A refused session
or a collision leaves nothing behind; a **stale** `save` returns from the transaction
normally, so the holds it released stay released. The model takes a transaction under
READ COMMITTED as one step, at its commit, because of the lock on a shared session, the
row locks and the exclusion constraint: that is an assumption, not something it shows.

### Scheduling

A date is a number, a day has `Day` units, a week `Week` days, and a zone is one change
of the clocks: the instant, and the offset before and after it. Lists of intervals are
sequences, as in the code, because order, merging and touching ends are what goes wrong.
The loops and recursion of the code (sorting, merging, searches, augmenting paths) are recursive
functions over their state, written as a tuple; none is a RECURSIVE operator, so that they can be
proved about. `Scheduling` reaches calendars by booking, moving and
cancelling with the engine's own answers, by new opening and staff hours (which cut the
employees' weeks), by exceptions, and by employees who choose what to offer.

### Setup

The four tables are functions from ids to rows or `None`; a week is a set of hours. A
request goes through the checks of its command in their order, each a query of its own
(`CheckLocations`, `CheckResources`, `CheckServiceFits`, `CheckPlaced`, `CheckReferenced`,
`CheckEmpty`, ...), and then replaces whole rows; what comes in batches (`ListTeam` and
`SaveNext`, `ListOffers` and `StopOffering`) is written row by row. `Fail` is a query that
fails at any step. `Book`, `WriteBooking` and `Settle` are the visitors, reduced to what the
setup sees of them. Foreign keys (RESTRICT) refuse a deletion or an insert in the
step itself. `calm` remembers whether requests ever overlapped or failed half way.

### Pages and releases

A draft is a member of `Trees`; `Shape` tells which trees have the same nodes, `Uses` which
datasets a tree shows, `Merge` and `Leaves` what a migration from one version of the component
catalog to the next makes of a tree under a resolution and what it leaves (external
to the model: the three-way merge is a constant). A request holds what it read: the base and
version of a save, the snapshot and latest number of a publish, the release a restore
replaces, the drafts and versions of a migration and the pages still to write. `NoPage` is a
path that no page has taken. `FailPage` and
`SkipPage` are the error paths of one page, `Lose` the end of a request at any step.

| Command | Steps |
| --- | --- |
| create page, save draft | `CreatePage`; `OpenPage` (in the browser), `CheckSave`, `WriteSave` |
| publish | `ReadDrafts`, `ReadLive`, `ReadNumber`, `CommitPublish` |
| roll back | `LoadRelease`, `ReadPrevious`, `CommitRollback` |
| propose a migration | `PlanMigration`, `RecordMigration` |
| apply a migration | `LoadMigration`, `CheckSource`, `LoadDrafts`, then per page `SkipPage`, `WritePage` or `FailPage`, `FinishApply` |
| delete unused data | `LoadDataset`, `LookAt` for drafts and live release, `CommitDelete` |

### Editor

A tree is the sequence of its nodes in depth-first order, each with its depth: the
operations of `tree-operations.ts` become splices. `docs[s]` is the document store `s`:
past, present, future, the open burst of typing, the saved tree and version. `drag` is
the drag in progress with the target shown. `requests` are saves under way at
the server. Of the content of a node the model keeps whether a text was written, so `MaxContent`, the limit
on the size of a page, is a number of texts. `OldTypes` are component types that stored pages
may hold and the catalog no longer has: they parse, nest nowhere, and can be moved about, written
to no more, and removed. `Discard` opens a new store; drags go on acting on the first one, as in
`use-canvas-dnd.ts`. What is selected and where the pointer is are left out: any
node may be operated on, any target hovered.

### Access

`roles` are the rows of `Membership`, `links` those of `Invitation`, `roster` the advisory
lock. `writeRoles` upserts, reads, deletes: on its own each statement takes effect at once
(`AddRole`, `ReadRoles`, `DropRole`), under the lock all at the commit (`WriteLocked`,
`Commit`). `Claim`, `SignUp`, `Grant`, `FailGrant`, `GiveBack` are the acceptance of an
invitation, `Lose` the end of any request, which rolls a transaction back. The observer `crossed` of
`RoleWatch` holds the clients whose write was crossed: between its first statement and its
last, somebody else changed the roles of the same person.

### Rate limits

Time is relative: a counter has `left` units to go, and hits are counted to `Limit + 1`,
beyond which nothing is decided. `CheckBudget` counts and answers; `GiveUp` is the limiter's
timeout, after which the hit may have been counted, be counted later (`CountLate`) or never
(`LoseLate`). `RejectHit` is the full table. `recent` and `burnt` only observe: how many hits
passed in the last so many units of time, and how many an origin spent of a later budget, up to
`BurnCap`, which is beyond what any bound allows. At most one
late hit per client is kept.

### Data sources

`api` is the external API: an honest one has a list of numbered records, hands out at most
`size` at once (all of them where that is 0) and says where the next page is; an erratic one
answers anything. `source` is the stored config: the kind of pagination, the page size,
and whether it names the path of the records. Where parameters travel, which address
is allowed, credentials and parsing are left out. `read` is one call of `fetchRestBody`: the page to ask
for, the pages and records so far, the cursors and links asked for, whether the
time is spent. `AnswerList`, `AnswerNoList`, `RefuseAnswer` and `TimeOut` are what
may become of one request, each with everything the loop does until the next one.
A source may be there at the start with any config that the connector parses (it parses the stored
one at every read, and its tests begin there); `CreateSource` stores what the
code stores.

## 3. Properties

Several invariants are conjunctions of named parts, so that one run of TLC answers
for them together; each part has its own comment.

**Bookings.** `RowsFollowBookings` (the tables agree); `NoDoubleBooking`;
`SessionsSound` (`SessionsTogether`: not split over resources; `SessionsFit`: no more
participants than places); `HoldsBounded` (how far the cap on holds can be passed);
`BookingInv`, the inductive invariant that says all this with what requests carry (section 6).
`LawfulStatus`, `CustomerKept`; `CustomersMoveSeldom` (however many requests race, customers move a
booking at most as often as the cap says: the moves are counted, not read off the booking; only a move
stored in the same instant of the clock as the change before it is not, see section 5);
`OnlyLiveBookingsRefuse` (an expired hold nobody tidied never refuses a visitor).
Refinement `KeepsCalendar`: in `Calendar` places that meet on a resource are of one session, a
tentative booking may be put out, a firm one leaves or shifts only by its own step.

**Scheduling.** `LocalHours`: `FirstOccurrence` (a wall-clock time is the first instant that shows it, or
the time moved on by what the clocks skip) and `WindowsAreHours` (windows are normalized, and on every
day they are hours, breaks and exceptions read minute by minute off the clock; in the
stretch after a change as long as what it skips or repeats (`Unsettled`) they are what the moved bounds
say, which is not what the clock says, see section 5); `WeeksCutToFit`; `AssessIsExact` (the engine says yes exactly where an assignment of
free, qualified, large enough resources exists, and what it finds is one);
`OffersAreExact`: a list of any days is in order and offers what the commands accept
(`ListedIsBookable`), all of it (`ListIsComplete`), and the alternatives are the nearest of what
is free (`AlternativesNearest`); `PreviewAgrees` (the preview's largest group and readiness are what
assignments by sets say, no command starts an appointment for more, and who joins a session is served by
the resources it has, which fill the requirements for all who come). Two conditions exclude what the code gets wrong
(section 5): `StaysNear`, what is held on either side of a start is a day less what the clocks
change by; `KeepsStarts`, the clocks skip no more than lies between two points of the grid or,
within a day, whole steps of a grid that divides the day. They leave out appointments of
nearly a whole day, and steps like 45 minutes where clocks skip an hour.

**Setup.** `SetupInv` (`ReferencesKept` whatever overlaps, thanks to foreign keys;
`ListsKept` for the ids in plain lists; what a request has checked and has still to do, `OnlyOne`
and `HoursAwait`), `HoursContained`, `BookedStay`,
`NobodyBehindTheirBack` for requests that neither overlapped nor failed half way. Nothing
in the code promises more: see section 5.

**Pages and releases.** `SiteInv` (`RevisionsKept`, `NumbersSequential`,
`LiveIsPublished`; what requests carry, `RequestsFit`), `NoDraftLost` (whoever writes over a draft
knew it: saves and migrations), `RestrictedKeepsShape`, `AppliedIsWritten` (every page that the
migration changes has had the merged draft; later saves may have replaced it). Refinement `KeepsAlbum`: what visitors see changes by printing an
edition or reopening one as it was. Liveness `RetriesComplete`.

**Editor.** `EditorInv` (types, bounded histories, `SoundTrees` of all a history holds), `BaselineIsRevision`,
`UndoReachesStart`, `FewSavesRefused` (a save that is current is accepted, from
restricted sessions too, unless the page has become too large, or, in a full session, holds a component
twice that may appear once, or still holds one where the catalog did not allow it on the page as it was
opened), `DropLands`.

**Access.** `AccessInv` (`TakenOnce`; the lock is held by whoever is between `Lock` and `Commit`,
and what they read still holds), `AdminKept`, `NeverNone`, liveness `RequestsEnd`.
`AdminKept` speaks of websites that began with an administrator and whose roles are only written under
the roster's lock. `NeverNone` speaks of every website, and of each statement: only a
removal takes a person's last role, or a write that another one crossed; invitations and the platform's
access write outside the lock, where writes can cross (section 5).

**Rate limits.** `RateInv` (`TwiceAtMost`, `NoFreePass`, `BurntIsPassed`), `BudgetOfOthers`,
`LiveCountersKept`, liveness `Released`. `BudgetOfOthers` speaks of the `Guarded` budgets: each
composite that spends one starts with a budget of the caller's that does not fail open, has a window
at least as long, and is the same for all composites of one origin.

**Data sources.** `WindowRead` (`WindowIsExact`: the records of the window, in order, none
twice, and one more exactly when there are more, of an API that the config suits, unless pages
or time are spent; `NothingAskedTwice`: no cursor or link is followed again), liveness
`ReadsEnd`.

### Fairness

Nothing in the booking engine schedules anything: a visitor may leave at any step, and the
clean-up of holds is started from outside. `BookingFlow` assumes no fairness;
`OnlyLiveBookingsRefuse` says as a safety property what matters about clean-up.

* `RetriesComplete`: `WF(Continue(c))` - a server carries on with a request it has begun -
  and `SF(LoadMigration(c))` - somebody comes back to a migration that is open. It concludes
  under `CalmInTheEnd`: from some time on no request is cut off and no query fails.
  Failures before that are arbitrary.
* `RequestsEnd`: `WF(Continue(c))`, and `SF(Lock(c))` because PostgreSQL hands an advisory
  lock on in the order it was asked for. It is about waiting on the lock and about
  leaving it: the lock ends with its transaction, also a lost one.
* `Released`: `WF(Tick)`, `WF(Works(c))`, and strong fairness of `Begin` for each
  composite, that is, the *client keeps hammering*: this is the case the comment in
  `create-rate-limiter.ts` speaks of, the assumption makes it harder, not easier.
  It concludes under `AnswersInTheEnd`: the store ends up in time and with room.
* `ReadsEnd`: `WF(TimeOut(n))` for each request, whose `AbortSignal.timeout` goes off if it
  is still waiting. Nothing is assumed of the API.

## 4. Runs

| Run | Question | Instance |
| --- | --- | --- |
| `hold_race` | Visitors who race for overlapping slots, for a session and its last places: is anything booked twice, split or overfilled, a customer swapped, a visitor refused by a hold that ran out? | 3 ids, 2 clients, 2 starts whose spans overlap, crews {r1} or {r1, r2} (r2 is smaller), 3 places, cap 1, holds of 1 tick, clock to 1, 2 addresses; hold, confirm, move (asked by customers), sweep |
| `changing` | Do the lifecycle, the tables and the calendar survive requests that confirm, release, move, cancel and complete one booking? How often do customers move it? | 2 ids, 2 clients, 2 overlapping starts, 1 crew, 1 live hold, 2 moves (1 for a customer), clock to 2; changes asked by customers, and no absence, which is the action of a completion with another status (the proofs are about staff and all commands) |
| `website` | Two editors, or reviewers, at one website: are drafts, releases and what visitors see kept? Is a migration that is retried applied? | 3 websites. `Published`: 1 page, 3 trees, 3 versions of which 2 are kept, 3 releases, full and restricted editors. `Migrated`: 2 pages, saves, 1 migration under 3 resolutions (one leaves something). `Retried`: 2 pages nobody edits, 1 dataset; all commands but the saves |
| `setup` | Any two configuration requests, after or within one another, with failures. | 3 configurations of 2 locations, 2 services, a room, 2 calendars; 1 booking; 2 requests |
| `scheduling` | Do the algorithms agree with their definitions and with one another? | days of 8 units, weeks of 2 days, 4 zones, 3 employees and a room, 2 services, 2 changes |
| `editing` | What can one person do to a page while saves are under way and others save? | 9 sessions on 4 pages, one with a component no longer in the catalog: arranging, dragging, filling in, saving, full and restricted; at most 4 nodes, 1 text, history 2, 2 requests |
| `roster` | Do administrators remove one another to the last? Who takes an invitation? Is anybody left without a role half way? | 3 websites, 3 people, 2 requests, 1 invitation |
| `limiting` | Do limits hold at boundaries, failures, late hits and a full table? | an address and an account budget of 1 in windows of 2, 3 composites (one without an address), table of 2, 1 attempt at a time |
| `paging` | What does a read answer, and does it end, whatever the API does? | up to 5 records, pages of 1 or 2, windows of 1 to 3 records from 0 to 3, 3 pages at most, 5 kinds of pagination; erratic pages of up to 2 records with 3 names to loop over |
| `lapsed_confirm`, `refused_delete`, `lost_paging` | Findings, section 5. | |

*Why these bounds.* The concurrency hazards are races of two requests over one row or
two: two clients that may each start request after request give every order of two. A third
booking fills a session and passes a cap by more than the requests that run at once. Overlapping
starts are not equal, so that spans matter and not slots. With holds of one tick and a clock
that reaches one, a hold is live, at the boundary, and (by requests that took their time
earlier) judged both ways. Three releases let an older one be restored after
two others. Keeping 2 of 3 revisions makes pruning happen. In `limiting` the table of two
is full with two counters and a third is asked for. In `scheduling` the days are just long enough
for two ranges, a break across both, an appointment with preparation and clean-up, and a
step that does not divide the day and one that the clocks skip twice; the zones skip within a
day, skip the end of a range, or repeat. In `paging` a window of 3 records and one more takes 4 pages of 1, one more than
may be read, and an offset of 1 or 3 lies inside a page of 2. `editing` bounds every session by its kind: the product of all would be
large, and each kind is the shortest that reaches its hazard.

*Bounds that the code does not have:* `Ids`, `Commands` and `Askers` (which commands an instance issues, and for whom), `MaxTime`, `MoveBound` (staff may move for ever;
one above the customers' limit), `versions`, `releases` and `catalogs` of a website, `MaxRequests`, `MaxRevisions`,
`MaxChanges`, `edits`, `Links`. `RevisionLimit`, `MaxHistory`, `MaxNodes`, `MaxDepth`, `MaxContent`,
`MaxBuckets`, `MaxPages` are the code's, made small. Two of the bounds hide something: `AppliedIsWritten`
takes a page that has reached `versions` for written, and `RetriesComplete` is about a website with one
release, because another publish makes a migration stale for good (`migration.ts:59`).

*Configuration.* `SYMMETRY` permutes ids, clients, addresses, releases or editors, which are
interchangeable, only in runs without liveness. `CHECK_DEADLOCK FALSE` where a bound
stops the system: ids, releases or requests used up and nothing under way.

The runs `hold_race` and `changing` check the flow with the count of moves (`CountSpec`), `roster` the access
with its watch (`WatchFairSpec`); neither observer changes what the requests do, and their next-state
relations list the same actions one by one. The runs together take every action. Each property has a mutant: a definition changed as a
plausible bug would change the code, under which TLC finds the property violated in
the same run. The mutants stand before the definitions they change.

## 5. Findings

With a run:

1. `lapsed_confirm` - `ConfirmBooking` compares the expiry with the time its request
   began and the write does not compare again, so a slow request confirms a hold that
   ran out. Nobody loses a place by it (`NoDoubleBooking`), but `confirm-booking.ts:32` says
   that the write is conditional on the hold being unexpired.
2. `refused_delete` - `DeleteBookingLocation` stops offering the services there one by one
   and may be refused for the second one after changing the first, while
   `delete-booking-location.ts:31` says that a refusal leaves the setup as it was.

3. `lost_paging` - `checkConfig` (`data-source.ts:87`) validates the whole config of a REST source
   and returns only its address and mode of authentication: a source that is set up with
   pagination or a records path is stored without them, and what the API hands out at once is
   taken for all there is, against `rest-json-connector.ts:298`. `createDataSourceDraft` is "the
   only way a new data source enters the system", so the paging that `paging` checks works
   only for rows that came into the table otherwise.

Seen while modelling, without a run of their own (most are the reason why a property has the
condition it has):

* *Bookings.* `save` compares `updatedAt`, the writer's clock in milliseconds: two moves within
  one millisecond of the last write both succeed, and both store the count they read plus one, so
  a customer may pass the cap by such a move, against the comment at
  `booking-changes.ts:40`; `CustomersMoveSeldom` leaves these moves out and bounds all others. Caps on holds and on an address are checked outside the write;
  `HoldsBounded` says by how much the first can be passed.
* *Scheduling.* `durationMax` is 1440 minutes and `bufferMax` 240: a service whose appointment with
  clean-up reaches beyond the next day can be listed and refused, against
  `slot-assessment.ts:212`, because a list gathers windows for more days than a command
  (`StaysNear`). A grid minute that the clocks skip stands for a time moved on by what is skipped
  and may overtake `lastCandidate` in `slot-finder.ts` before the points it overtakes come: with a
  step of 45 minutes the point 2:15 stands for 3:15, and the start at 3:00 is missing from the
  list though commands accept it (`KeepsStarts`; also for any step where the clocks skip across midnight
  and the range begins on the later day). Where the clocks skip the beginning of a
  range, the spans `toInstants` makes can be empty or reversed, against `time-interval.ts:10`; it does
  no harm, since subtraction drops them and the outer merge normalizes again. Hours that begin or
  end in the skipped hour do so an hour later by the clock (2:30 stands for 3:30), while the comment on
  the conversion in `time-zone.ts` says "lands on the first real instant after it": hours that end at 2:30 run on
  to 3:30, and hours from 2:30 to 3:00 vanish, since 3:00 comes before 3:30. Where an
  hour repeats, a place stays through it as it was in its last minute before (`WindowsAreHours` says
  both).
  A participant can join a session although an employee of its crew has stopped offering the service, where the preview says
  that nobody can serve it: what a session has is kept, and the comment that "the preview and a
  real booking cannot disagree about who qualifies" (`service-feasibility.ts:209`) holds of new
  appointments only (`PreviewAgrees`).
* *Setup.* Rows are replaced whole: of two overlapping requests on one row the later one wins
  (`SetTeamHours`, `AcknowledgeChanges`, retargeting). Two concurrent `SaveOwnProfile` make two
  calendars. Ids in plain lists may dangle after a race. An employee may move away while a hold
  on them is made. So `ListsKept`, `HoursContained`, `BookedStay` and
  `NobodyBehindTheirBack` say `calm`.
* *Pages.* `DeleteUnusedData` looks at drafts and the live release in turn: a page that starts to
  show the dataset in between loses it. Restoring a release whose dataset was
  deleted is legal. A restricted editor with a stale page is refused for the structure
  (with an audit entry) before the version is compared.
* *Editor.* `useCanvasDnd` keeps the first store after a discard. "The editor refuses what a
  save would reject" (`tree-operations.ts:194`) is true of nodes and depth, not of the size of the page, which
  only the save looks at (`page-node.ts:153`), nor of components that may appear once, at which `duplicateNode`
  does not look. A page with a component that the catalog has lost since cannot be saved
  by a full editor until it is removed (`save-page-config.ts:120`), though a restricted one may go on filling it
  in. `FewSavesRefused` names these three. The
  drop indicator ignores limits and singletons: the drop is then refused. A discard during a save
  starts again from the old baseline. A toggle within a burst of typing becomes part of it.
* *Data sources.* A read that ends because its pages or its time are spent has no record
  beyond the window, so `mapRecords` reports it as complete, against the comment at
  `rest-json-connector.ts:299` ("plus one more when the source has more"). A later page without a list ends
  the read with what there is, and that is cached, against "half a window is never
  cached" (`rest-json-connector.ts:370`). The endpoint itself is not remembered as asked for: a
  link back to it is followed once. The name of the API is looked up before the abort signal is
  made (`rest-json-connector.ts:325`): `ReadsEnd` takes the lookup to end with the timer of its request.
* *Access.* `InviteUser` and the platform's `SetUserAccess` write roles outside the roster's
  lock. Two that write the same person's roles at once may each delete what the other has just
  inserted and leave an account without any role (the condition of `NeverNone`). An account made by an acceptance whose grant failed leaves an invitation that cannot be
  accepted any more: the address exists, a new invitation is needed.

## 6. Proofs

Eight modules. Each theorem is proved for all values of the constants that satisfy the named
assumptions of the modules it extends, and TLC evaluates these in the runs. TLC checked each
inductive invariant on the run named before it was proved.

| Module | Theorem | States |
| --- | --- | --- |
| `BookingProofs` | `Consistent`, `TypeCorrect` | `Spec => []IInv`, `Spec => []TypeOK` |
| | `RowsAlwaysFollow`, `NeverDoubleBooked` | `RowsFollowBookings`, `NoDoubleBooking` |
| | `AlwaysLawful`, `CustomerAlwaysKept` | `LawfulStatus`, `CustomerKept` (action properties) |
| | `BookingAlwaysSound` | `Spec => []BookingInv` |
| | `SessionsAlwaysSound`, `HoldsAlwaysBounded` | `SessionsSound`, `HoldsBounded` |
| | `CustomersAlwaysMoveSeldom`, `OnlyLiveAlwaysRefuse` | `CountSpec => []CustomersMoveSeldom`, `OnlyLiveBookingsRefuse` |
| | `CalendarAlwaysKept` | `Spec => KeepsCalendar`: the flow implements `Calendar` |
| `SchedulingProofs` | `ClocksAlwaysRight`, `HoursAreLocal` | `Spec => []FirstOccurrence`, `Spec => []LocalHours` |
| | `WeeksAlwaysFit` | `Spec => []WeeksCutToFit` |
| | `MatchIsExact` | `MatchResources` finds an assignment if there is one, and only then |
| `SlotProofs` | `SlotsAlwaysExact` | `Spec => []AssessIsExact` |
| | `OffersAlwaysExact` | `Spec => []OffersAreExact` |
| | `PreviewAlwaysAgrees` | `Spec => []PreviewAgrees` |
| `SetupProofs` | `SetupAlwaysSound` | `Spec => []SetupInv` |
| | `HoursAlwaysContained`, `BookedAlwaysStay` | `HoursContained`, `BookedStay` |
| | `ChangesAlwaysNoted` | `NobodyBehindTheirBack` (action property) |
| `SiteProofs` | `SiteAlwaysSound` | `Spec => []SiteInv` |
| | `NoDraftIsLost`, `RestrictedAlwaysKeepShape`, `AppliedIsAlwaysWritten` | `NoDraftLost`, `RestrictedKeepsShape`, `AppliedIsWritten` (action properties) |
| | `AlbumAlwaysKept` | `Spec => KeepsAlbum`: the website implements `LiveSite` |
| | `ReadsAreSound`, `WindowIsRead` | `ReadSpec => []ReadSound`, `ReadSpec => []WindowRead` |
| `EditorProofs` | `EditorIsSound` | `Spec => []EditorInv` |
| | `BaselineHolds`, `UndoHolds`, `RefusalsHold` | `BaselineIsRevision`, `UndoReachesStart`, `FewSavesRefused` |
| | `DropsLand` | `DropLands` (action property) |
| `AccessProofs` | `AccessAlwaysSound`, `AdminAlwaysKept` | `AccessInv`, `AdminKept` |
| | `RolesNeverNone` | `WatchSpec => NeverNone` (action property) |
| `RateProofs` | `RateAlwaysHolds`, `OthersKeepTheirBudget` | `RateInv`, `BudgetOfOthers` |
| | `LiveCountersAlwaysKept` | `LiveCountersKept` (action property) |

### Assumptions

They are about constants only. Most say what kind of thing a constant is and that `None` is
none of the values it stands in for. Those that say more:

* `FlowConstants` of `BookingFlow`, `AccessConstants` and `LimitConstants`: finitely many clients,
  people and counters, because something is counted. That is all: no bound on how many.
* `FirstSound` (`SetupProperties`): the setup that a run begins from is in order.
* `BlueprintsNest` (`DocumentTree`): a new component is nested as the catalog allows; the catalog
  is fixed in the code, and the runs check it for theirs.
* `EditorConstants`: the page a session opens parses, and its ids are not ones
  the session will draw (ids are random in the code). What the catalog says of it now is left open.
* `CalendarConstants` of `Scheduling`: clocks change once, by less than a day, and differ from the
  common ones by less than a day; the plans and exceptions to choose from are ones the validation
  of the code lets pass; no employee works beyond the opening hours, as none may be saved so.
* `BurnCap` is above what any limit and the clients can reach, so that the observer does not
  saturate.

### The arguments

*Bookings: the tables.* `NoDoubleBooking` speaks of bookings, and the exclusion
constraint of rows. It is inductive only together with `RowsFit` and `HaveRows` (each row
repeats the span and key of its booking, is active exactly while the booking stands, and
every standing booking has one) and `RowsExclude` (the constraint holds of the rows).
The tables in turn depend on what requests write from old reads: `HoldFits` (a new
hold's id is not taken), `HoldsApart` (no two requests have the same new id) and
`ChangeFits` (what a request is about to write is one step of the lifecycle away from
what it read, with the same customer, on resources that are not empty).
`CustomersOK` (a hold has no customer, a confirmed booking has one; the
check constraint `Booking_customer_known` says half of it) links a stale read to the
stored customer. `IInv` is the conjunction. Each action has a lemma `...Keeps`; `Create` and
`Save` rest on lemmas about expiring holds (`ExpireBookings` with `ReleaseRows` keeps
the tables right) and on `Collides` being false of the new rows. The
compare-and-swap is used once: the status it compares makes a write from an old read
a step of the stored booking.

*Bookings: what requests carry* (`BookingInv`, in `hold_race`). `BookingsFit`: a
live booking has the key of its session and the capacity of its crew, so the session
check of a transaction counts the right bookings. `RequestsCarry`: what a request writes fits
the same way, a hold that is read is a hold unchanged or none any more, and a customer's move writes a
count of at most the cap, because it was let on a read with moves left. That bounds the stored count; for
`CustomersMoveSeldom` the invariant `CountInv` of `MoveCount` adds that the moves counted are at most those stored,
and that a move which may still overwrite a booking (its stamp is the one read) knows of all that
were counted (`MoveKnows`): one stored with a later stamp takes the stamp from every other that
read before. `HoldsAdmitted`: live holds and requests that have been
counted but have not written are fewer than the cap and the clients together; a request joins
them only below the cap. The participants of a session are a sum over bookings, for which the module proves
that a sum over a finite set exists, is unique, and changes by the weight
of what is added (finite sets, ordered by inclusion, are well founded).
For `KeepsCalendar` each step is classified first (`TableSteps`: holds lapse, a booking takes its
place, moves or ends) and the classes are mapped to the calendar's actions or to a stutter.

*Scheduling* (each in `scheduling`). The algorithms are functions of the calendar, so most
of the work is about operators; the invariants beside are that plans stay plans and bookings
stay bookings, and that the bookings of a session have the same resources. A recursive
function of the model is what its equation says once a measure is found that falls along it: the length left of
a list, the gap of a halving search, for the matching the resources not yet seen. Lists of
spans are then read as sets of instants: merging, subtracting and
intersecting are union, difference and intersection of what they cover and keep lists normalized, so
windows are hours minute by minute (`LocalHours`: a bound is the first instant that shows its minute,
`EpochReads`, so an instant lies between two bounds as its minute does by the clock, unless it is `Unsettled`), and a cut week is the week within the other
(`WeeksCutToFit`). `MatchIsExact`: a search that fails has seen resources that hold, all of
them, demands whose every candidate it saw too; so there are fewer resources than demands
for these (Hall), and no assignment exists.

For `AssessIsExact` the index of one day has to see all that matters to a start of the day:
only windows of the days beside it reach it (`StaysNear`); the search finds a span no later than the
first that could overlap, since no span is longer than the longest, and the walk from there meets the overlap if there is one;
so the candidates for a requirement are those `Present`, and the matching decides. An
index of other days accepts the same starts as long as its windows cover them (`AlsoAlone`,
`AlsoAmong`). The candidates of a list ascend because each is compared with the last one;
they are complete (`CandidatesComplete`) if no point of the grid overtakes a later one: either
points lie further apart than the clocks skip, or the overtaken ones are just those the skipped
ones stand for (`GridIsPoints`). For the alternatives, the order by days, clock and instant has no ties, so
taking the first of what is left ranks them (`Ranks`). `PreviewAgrees` compares two matchings
by the units of requirements they man; for who joins, `CrewsFill` is invariant: the crew of every
booking fills the requirements of its service for all of its session, if everybody offered it, because the
engine asks this of the session's crew at every join.

*Setup* (`SetupInv`, in `setup`). The foreign keys keep `ReferencesKept` in every interleaving, step by
step. What is in plain lists, and hours, are right only while requests do not overlap
(`calm`): then `OnlyOne` request is under way, and `Ready` says for each phase what its
checks have established and nobody has undone, and `Awaited` which employees it has still to cut
to the new hours. A property of all employees thus holds but for a list that shrinks
with each row.

*Pages and releases* (`SiteInv`, in `website`). The number a publish has read is
at most that of the latest release, so the unique constraint refuses it unless it is
right (`PublishFits`). A save that is checked knows the shape of the draft, if that
is still the page it opened (`SaveFits`, with the version that is compared at the write). A
migration has written the pages that are no longer in its list (`ApplyFits`, in terms of what a
page `HasHad`, because others save meanwhile and old revisions are pruned).
`KeepsAlbum` maps releases by number; it needs `NumbersSequential` and that snapshots of stored
releases never change.

*Editor* (`EditorSound`, with `Together` for `RefusalsHold` and `DragApart` for `DropsLand`). Trees are `Grown(tree, n)`: they are within the limits, each
node stands where the catalog allows it or a stored page held the like (`Stands`), and they have only ids
drawn by the first `n` edits. So an insert or a duplicate, which draws from
edit `n + 1`, cannot repeat an id, also after undo brings back an old tree. The operations
are splices: lemmas say for cutting out and putting in a subtree what becomes of
depths, parents, ids and types. `Editors` says of each history (`DocSound`) that it is
bounded; the first one has at most as many entries as edits were made, so its oldest tree is the first
revision while there is room for all; `Server`
that a save that was written is the revision after the one it carries. `Together` adds `Awaited` (a
save whose answer is awaited has the version of its document, and there is one) and `Restricted` (whatever
a restricted editor can undo to, redo or is saving is in the scope of the saved revision: the
relation of equal structure is transitive along every control they have).
`DragApart` says that no node is shown beside itself. That a drop lands is then about the order of
siblings: nodes keep their parents where a branch is put in or taken out (`SpliceParents`,
`CutParents`), no sibling stands between the place `PlaceFor` finds and the node it is beside
(`PlaceBefore`, `PlaceAfter`), and a node keeps its index when another is lifted out unless that
stood before it, which is what `Lifted` reckons with (`CutBeside`).

*Access* (`AccessInv`, in `roster`). `LockReads`: once the holder of the lock has counted, another
administrator is there if its write takes one away, and what it is to add and drop is right for the
roles stored; both stay true because whoever else writes takes the lock first. So every commit
leaves an administrator. `WatchInv`, for `NeverNone`: a write that was not crossed has so far left
all roles it wants, but for those it has still to insert, and what it deletes is none of them (`Leaves`).

*Rate limits* (`RateInv`, in `limiting`). `TwiceAtMost` is about every span of time up to a
window, compared with the counter that runs and the one before. `BurntIsPassed` bounds what an origin
spent of a later budget, with what is on the way, by what passed of its first one
since that window began; `BudgetOfOthers` follows with `TwiceAtMost`.

*Data sources* (`ReadSound`, in `paging`). The records read are a piece of the API's list
(`Consecutive`), the page asked for is the next one and everything before it was full (`Ahead`), a
read ends for a reason (`Enough`), and each page after the first has a name of its own (`OwnNames`).
The cut of the window out of the pages is then arithmetic on the page that the offset falls into.

### Only model-checked

* Liveness, which needs `ENABLED`, is out of the prover's reach: `RetriesComplete`,
  `RequestsEnd`, `Released`, `ReadsEnd`.
* `ConfiguredIsRead`, `LapsedNeverConfirmed` and `RefusalChangesNothing` are false (section 5).

## 7. Not modelled

* *Data sources*: field mappings, discovery of fields and the dry run (pure, on JSON values); the
  response cache, whose entries and expiry are those of Next.js; the record of the last
  connection test, a single row that the last answer wins; records that move between pages while
  they are read.
* *Component platform, website, audit, map*: checks on data, single-row writes under unique
  constraints, and append-only records.
* *Presentation, mail, geocoding, shell, shared library*: no shared state.
* *Auth*: sign-in, sign-out, password reset and sessions (kept by the identity provider), the
  platform's own administrators, the first start.
* *Bookings*: tenants and websites (a model is one website; each query carries its id),
  authorization and audit; changes of configuration between a hold and its write, apart from
  `BookingSetup`; the horizon in `BookingFlow`; the bound of rows on the read of blocking
  bookings; retries of a drawn reference that exists; the statements of a transaction.
* *Scheduling*: the calendar of months, parsing of dates and the German holidays.
* *Pages*: the three-way merge (constants `Merge` and `Leaves`); pages are never deleted, as in the
  code; drafts and releases that cannot be read; lists cut off at a limit.
* *Editor*: selection, canvas and its measurements.

## 8. Plan

1. `BookingTx`: `create` and `save` statement by statement under READ COMMITTED, refining the
   single steps of `BookingStore`.
2. The three-way merge of a migration in place of the constant `Merge`.

## 9. Running it

    tlc -workers 2 -config hold_race.cfg MCBookingFlow
    tlc -workers 2 -config scheduling.cfg MCScheduling
    tlapm BookingProofs.tla           and so on for each ...Proofs.tla
