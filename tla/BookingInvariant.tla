-------------------------- MODULE BookingInvariant --------------------------
(***************************************************************************)
(* The inductive invariant of the booking flow: what the tables and the    *)
(* requests under way must satisfy for every step to keep the tables right. *)
(***************************************************************************)
EXTENDS BookingProperties

-----------------------------------------------------------------------------
(* The tables.  TablesOK says row by row what RowsFollowBookings says of   *)
(* sets of rows, and that the active rows respect the exclusion constraint. *)

RowFits(r) ==
    /\ bookings[r.booking] # None
    /\ bookings[r.booking].status \in Live \cup {"expired"}
    /\ bookings[r.booking].status \in Live =>
          /\ r.active
          /\ r.from = From(bookings[r.booking])
          /\ r.to = To(bookings[r.booking])
          /\ r.key = bookings[r.booking].key
    /\ bookings[r.booking].status = "expired" => ~r.active

RowsFit == \A r \in rows : RowFits(r)

HaveRows ==
    \A b \in Ids : /\ bookings[b] # None
                   /\ bookings[b].status \in Live \cup {"expired"}
                   => \E r \in rows : r.booking = b

RowsExclude ==
    \A r, x \in rows :
        /\ r.active /\ x.active
        /\ r.resource = x.resource
        /\ Overlap(r.from, r.to, x.from, x.to)
        => r.key = x.key

TablesOK == StoreTypeOK /\ RowsFit /\ HaveRows /\ RowsExclude

-----------------------------------------------------------------------------
(* The customers.                                                          *)

CustomerFits(k) == /\ k.status = "held" => k.customer = None
                   /\ k.status = "confirmed" => k.customer # None

CustomersOK == \A b \in Ids : Exists(b) => CustomerFits(bookings[b])

-----------------------------------------------------------------------------
(* The requests.  What a request carries may be out of date, but only in   *)
(* ways that its write notices or that do no harm.                         *)

\* A new hold: nobody has its id before it is created.
HoldFits(q) ==
    q.op = "hold" =>
        /\ q.id \in Ids
        /\ ~Exists(q.id)
        /\ q.phase \in {"count", "assess", "write"}
        /\ q.phase = "write" => /\ q.next \in Booking
                                /\ q.next.status = "held"
                                /\ q.next.customer = None
                                /\ q.crew # {}

\* The step from base to next is one of the lifecycle and keeps a customer.
StepFits(base, next) ==
    /\ next.status \notin {"held", "expired"}
    /\ \/ next.status \in Transitions[base.status]
       \/ next.status = "confirmed" /\ base.status = "confirmed"
    /\ \/ next.customer = base.customer
       \/ base.status = "held"
    /\ CustomerFits(next)

\* A change of a stored booking: base is a booking that was, with its customer.
ChangeFits(q) ==
    q.op \notin {"hold", "sweep"} /\ q.phase # "read" =>
        /\ q.id \in Ids
        /\ Exists(q.id)
        /\ q.base \in Booking
        /\ q.base.status \in Live => q.crew # {}
        /\ q.base.customer # None => bookings[q.id].customer = q.base.customer
        /\ CustomerFits(q.base)
        /\ q.op = "confirm" => q.email \in Emails
        /\ q.phase = "write" => q.next \in Booking /\ StepFits(q.base, q.next)

RequestsOK ==
    \A c \in Clients : req[c] # None => HoldFits(req[c]) /\ ChangeFits(req[c])

HoldsApart ==
    \A c, d \in Clients :
        /\ c # d /\ req[c] # None /\ req[d] # None
        /\ req[c].op = "hold" /\ req[d].op = "hold"
        => req[c].id # req[d].id

\* The tables, the customers and the requests under way fit together: what
\* the steps of the commands rely on and keep.
IInv == /\ TypeOK
        /\ TablesOK
        /\ CustomersOK
        /\ RequestsOK
        /\ HoldsApart

-----------------------------------------------------------------------------
(* What the requests carry of a booking, and what rests on it: the         *)
(* sessions and the cap on holds.                                          *)

\* Booking k of id b on crew has the key of its session and its capacity.
KeyFits(b, k, crew) ==
    /\ k.key = SessionKey(k.offering, k.start, b)
    /\ k.capacity = CapacityOn(k.offering, crew)

BookingsFit == \A b \in Ids : IsLive(b) => KeyFits(b, bookings[b], Crew(b))

HoldCarries(q) ==
    q.op = "hold" /\ q.phase = "write" =>
        /\ KeyFits(q.id, q.next, q.crew)
        /\ q.next.people <= q.next.capacity

\* A hold only ever changes to become something else.
HeldAsRead(q) ==
    q.base.status = "held" /\ bookings[q.id].status = "held" =>
        bookings[q.id] = q.base /\ Crew(q.id) = q.crew

\* A customer's move was let while the booking had moves left.
MoveCarries(q) ==
    /\ q.op = "move"
    /\ q.base.status = "confirmed" /\ q.next.status = "confirmed"
    /\ KeyFits(q.id, q.next, q.crew)
    /\ q.actor = "customer" => q.next.moves <= MaxMoves

ChangeCarries(q) ==
    q.op \notin {"hold", "sweep"} /\ q.phase # "read" =>
        /\ HeldAsRead(q)
        /\ q.op = "move" /\ q.phase = "assess" /\ q.actor = "customer" =>
              q.base.moves < MaxMoves
        /\ q.phase = "write" =>
              \/ q.next.status \notin Live
              \/ q.base.status = "held" /\ q.next = Confirmed(q.base, q.email, q.now)
              \/ MoveCarries(q)

Carries(q) == q.now <= clock /\ HoldCarries(q) /\ ChangeCarries(q)

RequestsCarry == \A c \in Clients : req[c] # None => Carries(req[c])

\* The holds that were counted and are not created yet.
Admitted == {c \in Clients : /\ req[c] # None
                             /\ req[c].op = "hold"
                             /\ req[c].phase \in {"assess", "write"}}

FinitelyMany == IsFiniteSet({b \in Ids : Exists(b)})

HoldsAdmitted ==
    MaxLiveHolds > 0 =>
        Cardinality(LiveHolds(clock)) + Cardinality(Admitted)
            < MaxLiveHolds + Cardinality(Clients)

\* The tables fit together, the requests carry what they read, and so the
\* sessions keep to their places and the holds to their cap.
BookingInv == /\ IInv
              /\ BookingsFit
              /\ RequestsCarry
              /\ SessionsSound
              /\ FinitelyMany
              /\ HoldsAdmitted
=============================================================================
