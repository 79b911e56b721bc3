---------------------------- MODULE BookingStore ----------------------------
(***************************************************************************)
(* The booking tables of one website and the transactions on them:         *)
(* prisma-booking.repository.ts over the tables Booking and                *)
(* BookingResource, and the read side of the scheduling engine that        *)
(* decides from them where a booking may stand.                            *)
(*                                                                         *)
(* A transaction takes effect as one step.  Times are in one unit, that of *)
(* the server clock; an offering is a service at a location.               *)
(***************************************************************************)
EXTENDS Integers, FiniteSets, FiniteSetsExt

CONSTANTS
    Ids,          \* ids (and references) of bookings; bounds how many are made
    Resources,    \* bookable resources: rooms, employees
    Offerings,    \* services at a location
    Emails,       \* addresses visitors give
    Crews,        \* Crews[o]: the resource sets that meet o's requirements
    Starts,       \* Starts[o]: the starts on o's grid and inside its hours
    Prep, Length, Cleanup, \* preparation, duration and clean-up of o
    Places,       \* participantsPerSession of o
    MaxGroup,     \* participantsPerBooking of o
    Seats,        \* capacity of a resource
    Notice,       \* noticeMinutes of o
    MaxReleased,  \* MAX_RELEASED_HOLDS_PER_RUN
    None          \* no booking, no customer, no request

Statuses == {"held", "confirmed", "cancelled", "completed", "no_show", "expired"}
Live     == {"held", "confirmed"}
Keys     == ({"session"} \X Offerings \X Nat) \cup ({"booking"} \X Ids)

\* A row of the Booking table; expires is 0 where holdExpiresAt is null.
Booking == [status: Statuses, offering: Offerings, start: Nat,
            people: Nat, key: Keys, capacity: Nat,
            customer: Emails \cup {None}, expires: Nat, moves: Nat, stamp: Nat]

\* A row of the BookingResource table.
HoldRow == [booking: Ids, resource: Resources, from: Int, to: Int,
            key: Keys, active: BOOLEAN]

ASSUME StoreConstants ==
    /\ None \notin Ids \cup Emails \cup Booking
    /\ Crews \in [Offerings -> SUBSET ((SUBSET Resources) \ {{}})]
    /\ Starts \in [Offerings -> SUBSET Nat]
    /\ Prep \in [Offerings -> Nat]
    /\ Length \in [Offerings -> Nat \ {0}]
    /\ Cleanup \in [Offerings -> Nat]
    /\ Places \in [Offerings -> Nat]
    /\ MaxGroup \in [Offerings -> Nat]
    /\ \A o \in Offerings : MaxGroup[o] <= Places[o]
    /\ Seats \in [Resources -> Nat]
    /\ Notice \in [Offerings -> Nat]
    /\ MaxReleased \in Nat

VARIABLES
    clock,     \* the server clock
    bookings,  \* the Booking table: id -> row, or None
    rows       \* the BookingResource table

StoreTypeOK ==
    /\ clock \in Nat
    /\ bookings \in [Ids -> Booking \cup {None}]
    /\ rows \subseteq HoldRow

StoreInit ==
    /\ clock = 0
    /\ bookings = [b \in Ids |-> None]
    /\ rows = {}

-----------------------------------------------------------------------------
(* What the tables say.                                                    *)

Exists(b) == bookings[b] # None

From(k) == k.start - Prep[k.offering]
To(k)   == k.start + Length[k.offering] + Cleanup[k.offering]
End(k)  == k.start + Length[k.offering]

Overlap(f1, t1, f2, t2) == f1 < t2 /\ f2 < t1

\* isBlocking: a booking occupies its resources, a hold until it expires.
IsBlocking(k, now) == \/ k.status = "confirmed"
                      \/ k.status = "held" /\ k.expires > now

Blocking(now) == {b \in Ids : Exists(b) /\ IsBlocking(bookings[b], now)}

\* The resources a stored booking has are those of its rows.
Crew(b) == {r.resource : r \in {x \in rows : x.booking = b}}

IsShared(key) == key[1] = "session"

\* bookingSessionKey: common to a session, or the booking's own reference.
SessionKey(o, s, b) ==
    IF Places[o] > 1 THEN <<"session", o, s>> ELSE <<"booking", b>>

\* The bookings of a session that block at now, but self.
Session(key, now, self) ==
    {b \in Blocking(now) \ {self} : bookings[b].key = key}

People(S) == MapThenSumSet(LAMBDA b : bookings[b].people, S)

\* sessionCapacityOf: the service's places or the smallest resource's seats.
CapacityOn(o, crew) == Min({Places[o]} \cup {Seats[r] : r \in crew})

-----------------------------------------------------------------------------
(* assessSlot: where booking k may stand, on the tables as they are read   *)
(* and at the time of the request.                                         *)

\* isHeldDuring, over the bookings that block at now.
IsBusy(r, k, now, self) ==
    \E b \in Blocking(now) \ {self} :
        /\ r \in Crew(b)
        /\ Overlap(From(bookings[b]), To(bookings[b]), From(k), To(k))

IsJoin(k, now, self) == IsShared(k.key) /\ Session(k.key, now, self) # {}

\* A session already begun keeps its resources: it is joined, or it is full.
JoinCrews(k, now, self) ==
    LET mates == Session(k.key, now, self)
    IN  {crew \in {Crew(b) : b \in mates} :
            People(mates) + k.people <= CapacityOn(k.offering, crew)}

\* candidatesFor and matchResources: free and large enough.
FreshCrews(k, now, self) ==
    {crew \in Crews[k.offering] :
        \A r \in crew : ~IsBusy(r, k, now, self) /\ Seats[r] >= k.people}

\* checkRequest, then the session or the pool.
PlannedCrews(k, now, self) ==
    {crew \in IF IsJoin(k, now, self) THEN JoinCrews(k, now, self)
                                      ELSE FreshCrews(k, now, self) :
        /\ k.people <= MaxGroup[k.offering]
        /\ k.start \in Starts[k.offering]
        /\ k.start >= now + Notice[k.offering]}

-----------------------------------------------------------------------------
(* The transactions.                                                       *)

\* Mutant: the resources of the session are not compared.
FitsSessionAnywhere(k, crew, now, self) ==
    LET mates == Session(k.key, now, self)
    IN  IsShared(k.key) => People(mates) + k.people <= k.capacity

\* checkSession: the places suffice, and all of a session stand together.
FitsSession(k, crew, now, self) ==
    LET mates == Session(k.key, now, self)
    IN  IsShared(k.key) => /\ People(mates) + k.people <= k.capacity
                           /\ \A b \in mates : Crew(b) = crew

\* Mutant: a hold is released only after its last moment.
LapsedLate(k, crew, now) ==
    {b \in Ids :
        /\ Exists(b)
        /\ bookings[b].status = "held"
        /\ bookings[b].expires < now
        /\ \E r \in rows : /\ r.booking = b
                           /\ r.active
                           /\ r.resource \in crew
                           /\ Overlap(r.from, r.to, From(k), To(k))}

\* Mutant: the status is not looked at.
LapsedAny(k, crew, now) ==
    {b \in Ids :
        /\ Exists(b)
        /\ bookings[b].expires <= now
        /\ \E r \in rows : /\ r.booking = b
                           /\ r.active
                           /\ r.resource \in crew
                           /\ Overlap(r.from, r.to, From(k), To(k))}

\* releaseExpiredHoldsOn: the holds that ran out and stand in the way.
Lapsed(k, crew, now) ==
    {b \in Ids :
        /\ Exists(b)
        /\ bookings[b].status = "held"
        /\ bookings[b].expires <= now
        /\ \E r \in rows : /\ r.booking = b
                           /\ r.active
                           /\ r.resource \in crew
                           /\ Overlap(r.from, r.to, From(k), To(k))}

\* expireHolds, on each of the two tables.
ExpireBookings(due, now) ==
    [b \in Ids |-> IF b \in due
                   THEN [bookings[b] EXCEPT !.status = "expired", !.stamp = now]
                   ELSE bookings[b]]

\* Mutant: the rows of expired holds stay active.
ReleaseNoRows(due) == rows

ReleaseRows(due) ==
    {[r EXCEPT !.active = @ /\ r.booking \notin due] : r \in rows}

\* Mutant: the rows keep the appointment, without its preparation.
RowsOfAppointment(b, k, crew) ==
    {[booking |-> b, resource |-> r, from |-> k.start, to |-> End(k),
      key |-> k.key, active |-> TRUE] : r \in crew}

RowsOf(b, k, crew) ==
    {[booking |-> b, resource |-> r, from |-> From(k), to |-> To(k),
      key |-> k.key, active |-> TRUE] : r \in crew}

\* The exclusion constraint BookingResource_no_overlap, on rows to insert.
Collides(new, old) ==
    \E n \in new, r \in old : /\ r.active
                              /\ r.resource = n.resource
                              /\ r.key # n.key
                              /\ Overlap(r.from, r.to, n.from, n.to)

\* create: the booking and its rows, or (rolled back) nothing.
Create(b, k, crew, now) ==
    LET due  == Lapsed(k, crew, now)
        mine == RowsOf(b, k, crew)
        fits == FitsSession(k, crew, now, b) /\ ~Collides(mine, ReleaseRows(due))
    IN  \/ /\ fits
           /\ bookings' = [ExpireBookings(due, now) EXCEPT ![b] = k]
           /\ rows' = ReleaseRows(due) \cup mine
        \/ /\ ~fits
           /\ UNCHANGED <<bookings, rows>>

\* Mutant: the status is left out of the comparison.
IsStillUnsaid(b, base, due) ==
    /\ b \notin due
    /\ Exists(b)
    /\ bookings[b].stamp = base.stamp

\* The compare-and-swap of save, once the holds in due were expired.
IsStill(b, base, due) ==
    /\ b \notin due
    /\ Exists(b)
    /\ bookings[b].status = base.status
    /\ bookings[b].stamp = base.stamp

\* save: stored; or stale, which keeps the holds it expired; or nothing.
Save(b, base, k, crew, now) ==
    LET lives  == k.status \in Live
        due    == IF lives THEN Lapsed(k, crew, now) ELSE {}
        others == {r \in ReleaseRows(due) : r.booking # b}
        mine   == IF lives THEN RowsOf(b, k, crew) ELSE {}
        fits   == lives => FitsSession(k, crew, now, b)
        swaps  == IsStill(b, base, due)
        clash  == Collides(mine, others)
    IN  \/ /\ fits /\ swaps /\ ~clash
           /\ bookings' = [ExpireBookings(due, now) EXCEPT ![b] = k]
           /\ rows' = others \cup mine
        \/ /\ fits /\ ~swaps
           /\ bookings' = ExpireBookings(due, now)
           /\ rows' = ReleaseRows(due)
        \/ /\ ~fits \/ (swaps /\ clash)
           /\ UNCHANGED <<bookings, rows>>

DueHolds(now) ==
    {b \in Ids : /\ Exists(b)
                 /\ bookings[b].status = "held"
                 /\ bookings[b].expires <= now}

\* releaseExpiredHolds: a batch of the expired holds, the oldest first.
Sweep(now) ==
    \E due \in SUBSET DueHolds(now) :
        /\ Cardinality(due) <= MaxReleased
        /\ due # DueHolds(now) => Cardinality(due) = MaxReleased
        /\ \A b \in due, d \in DueHolds(now) \ due :
              bookings[b].expires <= bookings[d].expires
        /\ bookings' = ExpireBookings(due, now)
        /\ rows' = ReleaseRows(due)
=============================================================================
