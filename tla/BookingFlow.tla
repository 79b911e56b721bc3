----------------------------- MODULE BookingFlow -----------------------------
(***************************************************************************)
(* The commands of src/src/modules/booking/application/commands, each a    *)
(* request that runs in steps: take the time, read, assess, write.  A step *)
(* is one query or one transaction; between steps other requests run and   *)
(* the clock moves, so what a request holds may be out of date when it     *)
(* writes.  Requests may also stop anywhere: no step has to happen.        *)
(***************************************************************************)
EXTENDS BookingStore

CONSTANTS
    Clients,      \* the requests that can be under way at once
    Commands,     \* the commands that requests issue
    Askers,       \* who asks to cancel and to reschedule
    HoldTime,     \* HOLD_MINUTES
    MaxLiveHolds, \* MAX_LIVE_HOLDS_PER_WEBSITE
    MaxPerEmail,  \* MAX_LIVE_BOOKINGS_PER_EMAIL
    MaxMoves,     \* MAX_CUSTOMER_RESCHEDULES
    CancelActors, MoveActors, \* whom o's policies let cancel and reschedule
    Deadline,     \* deadlineMinutes of o's policies, for customers
    MoveBound,    \* bound of the moves of one booking, which staff have no limit of
    MaxTime       \* bound of the clock

Actors == {"customer", "staff"}
Ops    == {"hold", "confirm", "release", "cancel", "move", "complete",
           "no_show", "sweep"}
Phases == {"read", "count", "decide", "assess", "write"}

\* A request.  base is the booking as it was read, next what is to be
\* written and crew the resources it is to stand on.
Request == [op: Ops, phase: Phases, now: Nat, id: Ids \cup {None},
            actor: Actors, base: Booking \cup {None},
            next: Booking \cup {None}, crew: SUBSET Resources,
            email: Emails \cup {None}]

ASSUME FlowConstants ==
    /\ None \notin Request
    /\ IsFiniteSet(Clients)
    /\ Commands \subseteq Ops
    /\ Askers \subseteq Actors
    /\ HoldTime \in Nat \ {0}
    /\ MaxLiveHolds \in Nat
    /\ MaxPerEmail \in Nat
    /\ MaxMoves \in Nat
    /\ CancelActors \in [Offerings -> SUBSET Actors]
    /\ MoveActors \in [Offerings -> SUBSET Actors]
    /\ Deadline \in [Offerings -> Nat]
    /\ MoveBound \in Nat
    /\ MaxTime \in Nat

VARIABLE req  \* client -> its request, or None

vars == <<clock, bookings, rows, req>>

TypeOK == /\ StoreTypeOK
          /\ req \in [Clients -> Request \cup {None}]

Init == /\ StoreInit
        /\ req = [c \in Clients |-> None]

-----------------------------------------------------------------------------
(* The lifecycle of booking-lifecycle.ts: whether k may take the step, and *)
(* what it becomes.                                                        *)

Transitions == [held      |-> {"confirmed", "cancelled", "expired"},
                confirmed |-> {"cancelled", "completed", "no_show"},
                cancelled |-> {}, completed |-> {}, no_show |-> {},
                expired   |-> {}]

CanMove(k, to) == to \in Transitions[k.status]

CanConfirm(k, now) == k.status = "held" /\ k.expires > now

Confirmed(k, email, now) ==
    [k EXCEPT !.status = "confirmed", !.customer = email, !.expires = 0,
              !.stamp = now]

Cancelled(k, now) ==
    [k EXCEPT !.status = "cancelled", !.expires = 0, !.stamp = now]

\* completeBooking and markNoShow: only once the appointment began.
CanFinish(k, to, now) == CanMove(k, to) /\ now >= k.start

Finished(k, to, now) == [k EXCEPT !.status = to, !.stamp = now]

Rescheduled(k, start, key, capacity, now) ==
    [k EXCEPT !.start = start, !.key = key, !.capacity = capacity,
              !.moves = @ + 1, !.stamp = now]

\* change-policy.ts.
WithinDeadline(k, now) == now <= k.start - Deadline[k.offering]

MayCancel(k, actor, now) ==
    \/ k.status = "held"
    \/ /\ actor \in CancelActors[k.offering]
       /\ actor = "customer" => WithinDeadline(k, now)

\* Mutant: one move too many.
MayRescheduleOnceMore(k, actor, now) ==
    /\ actor \in MoveActors[k.offering]
    /\ actor = "customer" => k.moves <= MaxMoves /\ WithinDeadline(k, now)

MayReschedule(k, actor, now) ==
    /\ actor \in MoveActors[k.offering]
    /\ actor = "customer" => k.moves < MaxMoves /\ WithinDeadline(k, now)

-----------------------------------------------------------------------------
(* The steps that every request has in common.                             *)

Under(c, op, phase) ==
    req[c] # None /\ req[c].op = op /\ req[c].phase = phase

\* The request ends: answered, refused, or failed.
Done(c) == req' = [req EXCEPT ![c] = None]

Goes(c, q) == req' = [req EXCEPT ![c] = q]

NewRequest(op, phase) ==
    [op |-> op, phase |-> phase, now |-> clock, id |-> None,
     actor |-> "customer", base |-> None, next |-> None, crew |-> {},
     email |-> None]

Begin(c, op, phase) == /\ req[c] = None
                       /\ op \in Commands
                       /\ Goes(c, NewRequest(op, phase))

\* The request has read booking b, with the resources it stands on.
Having(q, phase, b) ==
    [q EXCEPT !.phase = phase, !.id = b, !.base = bookings[b], !.crew = Crew(b)]

Writing(q, k, crew) ==
    [q EXCEPT !.phase = "write", !.next = k, !.crew = crew]

Tick == /\ clock < MaxTime
        /\ clock' = clock + 1
        /\ UNCHANGED <<bookings, rows, req>>

-----------------------------------------------------------------------------
(* HoldSlot: count the live holds, assess the slot, create the hold.       *)

Drawn == {req[c].id : c \in {d \in Clients : req[d] # None}}

\* references.next(): a reference nobody has; their number bounds the model.
BeginHold(c) ==
    \E b \in Ids \ Drawn :
        /\ ~Exists(b)
        /\ req[c] = None
        /\ "hold" \in Commands
        /\ Goes(c, [NewRequest("hold", "count") EXCEPT !.id = b])
        /\ UNCHANGED <<clock, bookings, rows>>

LiveHolds(now) == {b \in Blocking(now) : bookings[b].status = "held"}

\* Mutant: the cap is passed by one.
CountHoldsLoosely(c) ==
    /\ Under(c, "hold", "count")
    /\ IF Cardinality(LiveHolds(req[c].now)) > MaxLiveHolds
       THEN Done(c)
       ELSE Goes(c, [req[c] EXCEPT !.phase = "assess"])
    /\ UNCHANGED <<clock, bookings, rows>>

CountHolds(c) ==
    /\ Under(c, "hold", "count")
    /\ IF Cardinality(LiveHolds(req[c].now)) >= MaxLiveHolds
       THEN Done(c)
       ELSE Goes(c, [req[c] EXCEPT !.phase = "assess"])
    /\ UNCHANGED <<clock, bookings, rows>>

NewHold(o, s, n, b, crew, now) ==
    [status |-> "held", offering |-> o, start |-> s, people |-> n,
     key |-> SessionKey(o, s, b), capacity |-> CapacityOn(o, crew),
     customer |-> None, expires |-> now + HoldTime, moves |-> 0,
     stamp |-> now]

AssessHold(c) ==
    /\ Under(c, "hold", "assess")
    /\ \E o \in Offerings : \E s \in Starts[o], n \in 1 .. MaxGroup[o] :
          LET q == req[c]
              wish(crew) == NewHold(o, s, n, q.id, crew, q.now)
              crews == PlannedCrews(wish({}), q.now, None)
          IN  \/ \E crew \in crews :
                    Goes(c, Writing(q, wish(crew), crew))
              \/ crews = {} /\ Done(c)
    /\ UNCHANGED <<clock, bookings, rows>>

CreateHold(c) ==
    /\ Under(c, "hold", "write")
    /\ Create(req[c].id, req[c].next, req[c].crew, req[c].now)
    /\ Done(c)
    /\ UNCHANGED clock

-----------------------------------------------------------------------------
(* ConfirmBooking: read the hold, count the address's bookings, save.      *)

BeginConfirm(c) == /\ Begin(c, "confirm", "read")
                   /\ UNCHANGED <<clock, bookings, rows>>

\* A confirmed booking answers at once: the same to its customer, "not
\* found" to anyone else; so does an id that does not exist.
ReadConfirm(c) ==
    /\ Under(c, "confirm", "read")
    /\ \E b \in Ids, e \in Emails :
          \/ /\ Exists(b) => bookings[b].status = "confirmed"
             /\ Done(c)
          \/ /\ Exists(b)
             /\ bookings[b].status # "confirmed"
             /\ Goes(c, [Having(req[c], "count", b) EXCEPT !.email = e])
    /\ UNCHANGED <<clock, bookings, rows>>

\* countLiveByEmail.
LiveOf(e, now) ==
    {b \in Blocking(now) :
        /\ bookings[b].customer = e
        /\ bookings[b].status = "confirmed" => End(bookings[b]) > now}

CountEmail(c) ==
    /\ Under(c, "confirm", "count")
    /\ LET q == req[c]
           isLet == /\ Cardinality(LiveOf(q.email, q.now)) < MaxPerEmail
                    /\ CanConfirm(q.base, q.now)
       IN  \/ /\ isLet
              /\ Goes(c, Writing(q, Confirmed(q.base, q.email, q.now), q.crew))
           \/ ~isLet /\ Done(c)
    /\ UNCHANGED <<clock, bookings, rows>>
-----------------------------------------------------------------------------
(* The write of every command but HoldSlot.                                *)

SaveBooking(c) ==
    /\ req[c] # None
    /\ req[c].phase = "write"
    /\ req[c].op \notin {"hold", "sweep"}
    /\ LET q == req[c] IN Save(q.id, q.base, q.next, q.crew, q.now)
    /\ Done(c)
    /\ UNCHANGED clock

-----------------------------------------------------------------------------
(* ReleaseHold: the visitor gives the hold back; quiet about anything else. *)

BeginRelease(c) == /\ Begin(c, "release", "read")
                   /\ UNCHANGED <<clock, bookings, rows>>

ReadRelease(c) ==
    /\ Under(c, "release", "read")
    /\ \E b \in Ids :
          LET q == req[c]
              isHeld == Exists(b) /\ bookings[b].status = "held"
          IN  \/ /\ isHeld
                 /\ Goes(c, Writing(Having(q, "read", b),
                                    Cancelled(bookings[b], q.now), Crew(b)))
              \/ ~isHeld /\ Done(c)
    /\ UNCHANGED <<clock, bookings, rows>>

-----------------------------------------------------------------------------
(* CancelOwnBooking and CancelBookingAsStaff: read, then take the time     *)
(* (until then now is 0) and apply the policy.  A customer finds a booking *)
(* by its customer's address, so never a hold.                             *)

Finds(actor, b) ==
    /\ Exists(b)
    /\ actor = "customer" => bookings[b].customer # None

ReadChange(c, op) ==
    /\ req[c] = None
    /\ op \in Commands
    /\ \E b \in Ids, actor \in Askers :
          /\ Finds(actor, b)
          /\ Goes(c, [Having(NewRequest(op, "decide"), "decide", b)
                         EXCEPT !.actor = actor, !.now = 0])
    /\ UNCHANGED <<clock, bookings, rows>>

ReadCancel(c) == ReadChange(c, "cancel")

DecideCancel(c) ==
    /\ Under(c, "cancel", "decide")
    /\ LET q == [req[c] EXCEPT !.now = clock]
           isLet == /\ MayCancel(q.base, q.actor, q.now)
                    /\ CanMove(q.base, "cancelled")
       IN  \/ isLet /\ Goes(c, Writing(q, Cancelled(q.base, q.now), q.crew))
           \/ ~isLet /\ Done(c)
    /\ UNCHANGED <<clock, bookings, rows>>

-----------------------------------------------------------------------------
(* RescheduleOwnBooking and RescheduleBookingAsStaff: read, take the time  *)
(* and apply the policy, assess the new start as if the booking were not   *)
(* there, save.                                                            *)

ReadMove(c) == ReadChange(c, "move")

DecideMove(c) ==
    /\ Under(c, "move", "decide")
    /\ LET q == [req[c] EXCEPT !.now = clock]
           isLet == MayReschedule(q.base, q.actor, q.now)
       IN  \/ isLet /\ q.base.moves < MoveBound
                    /\ Goes(c, [q EXCEPT !.phase = "assess"])
           \/ ~isLet /\ Done(c)
    /\ UNCHANGED <<clock, bookings, rows>>

AssessMove(c) ==
    /\ Under(c, "move", "assess")
    /\ LET q == req[c]
           o == q.base.offering
       IN  \E s \in Starts[o] :
              LET wish(crew) == Rescheduled(q.base, s, SessionKey(o, s, q.id),
                                            CapacityOn(o, crew), q.now)
                  crews == IF q.base.status = "confirmed"
                           THEN PlannedCrews(wish({}), q.now, q.id)
                           ELSE {}
              IN  \/ \E crew \in crews : Goes(c, Writing(q, wish(crew), crew))
                  \/ crews = {} /\ Done(c)
    /\ UNCHANGED <<clock, bookings, rows>>

-----------------------------------------------------------------------------
(* CompleteBooking and MarkBookingNoShow.                                  *)

BeginFinish(c) ==
    /\ \E op \in {"complete", "no_show"} : Begin(c, op, "read")
    /\ UNCHANGED <<clock, bookings, rows>>

ReadFinish(c) ==
    /\ \E op \in {"complete", "no_show"} : Under(c, op, "read")
    /\ \E b \in Ids :
          LET q  == req[c]
              to == IF q.op = "complete" THEN "completed" ELSE "no_show"
              isLet == Exists(b) /\ CanFinish(bookings[b], to, q.now)
          IN  \/ /\ isLet
                 /\ Goes(c, Writing(Having(q, "read", b),
                                    Finished(bookings[b], to, q.now), Crew(b)))
              \/ ~isLet /\ Done(c)
    /\ UNCHANGED <<clock, bookings, rows>>

-----------------------------------------------------------------------------
(* ReleaseExpiredHolds: housekeeping.                                      *)

BeginSweep(c) == /\ Begin(c, "sweep", "write")
                 /\ UNCHANGED <<clock, bookings, rows>>

SweepHolds(c) == /\ Under(c, "sweep", "write")
                 /\ Sweep(req[c].now)
                 /\ Done(c)
                 /\ UNCHANGED clock

-----------------------------------------------------------------------------
Hold(c)    == BeginHold(c) \/ CountHolds(c) \/ AssessHold(c) \/ CreateHold(c)
Confirm(c) == BeginConfirm(c) \/ ReadConfirm(c) \/ CountEmail(c)
Release(c) == BeginRelease(c) \/ ReadRelease(c)
Cancel(c)  == ReadCancel(c) \/ DecideCancel(c)
Move(c)    == ReadMove(c) \/ DecideMove(c) \/ AssessMove(c)
Finish(c)  == BeginFinish(c) \/ ReadFinish(c)
Clean(c)   == BeginSweep(c) \/ SweepHolds(c)

Next == \/ Tick
        \/ \E c \in Clients : \/ Hold(c)
                              \/ Confirm(c)
                              \/ Release(c)
                              \/ Cancel(c)
                              \/ Move(c)
                              \/ Finish(c)
                              \/ Clean(c)
                              \/ SaveBooking(c)

Spec == Init /\ [][Next]_vars
=============================================================================
