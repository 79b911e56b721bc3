------------------------------ MODULE Calendar ------------------------------
(***************************************************************************)
(* What the booking module promises about a calendar, without requests,    *)
(* clocks or tables (docs/architecture/booking.md, "Concurrency"; the      *)
(* contract of BookingRepository): a booking has a set of resources for a  *)
(* span; two that meet on a resource are of one session; a hold is         *)
(* tentative and may be put out by another booking, a confirmed booking    *)
(* may not: only its own change moves it or ends it, and a move takes the  *)
(* new place and leaves the old one at once.                               *)
(***************************************************************************)
EXTENDS Integers

CONSTANTS Ids, Resources, Keys, None, Gone

Place == [firm: BOOLEAN, crew: SUBSET Resources, from: Int, to: Int, key: Keys]

VARIABLE place  \* id -> its place, None before it has one and Gone after

Has(b) == place[b] \notin {None, Gone}

CalendarTypeOK == place \in [Ids -> Place \cup {None, Gone}]

CalendarInit == place = [b \in Ids |-> None]

Compatible(p, q) ==
    p.crew \cap q.crew # {} /\ p.from < q.to /\ q.from < p.to => p.key = q.key

Tentative == {b \in Ids : Has(b) /\ ~place[b].firm}

\* Booking b gets place p, and the tentative bookings out lose theirs.
Put(b, p, out) ==
    /\ \A d \in Ids \ (out \cup {b}) : Has(d) => Compatible(p, place[d])
    /\ place' = [d \in Ids |-> IF d = b THEN p
                               ELSE IF d \in out THEN Gone ELSE place[d]]

Take(b, out) ==
    /\ place[b] = None
    /\ place'[b] \in Place
    /\ ~place'[b].firm
    /\ Put(b, place'[b], out)

\* A hold becomes firm where it stands.
Settle(b, out) ==
    /\ Has(b)
    /\ ~place[b].firm
    /\ Put(b, [place[b] EXCEPT !.firm = TRUE], out)

\* A firm booking moves; its resources are never free and never taken twice.
Shift(b, out) ==
    /\ Has(b)
    /\ place[b].firm
    /\ place'[b] \in Place
    /\ place'[b].firm
    /\ Put(b, place'[b], out)

Leave(b) ==
    /\ Has(b)
    /\ place' = [place EXCEPT ![b] = Gone]

Lapse(out) == place' = [d \in Ids |-> IF d \in out THEN Gone ELSE place[d]]

CalendarNext ==
    \E out \in SUBSET Tentative :
        \/ Lapse(out)
        \/ \E b \in Ids \ out : Take(b, out) \/ Settle(b, out) \/ Shift(b, out)
        \/ \E b \in Ids : Leave(b)

CalendarSpec == CalendarInit /\ [][CalendarNext]_place

-----------------------------------------------------------------------------
\* Two bookings that have places and meet on a resource are of one session.
NoClash ==
    \A b, d \in Ids : b # d /\ Has(b) /\ Has(d) => Compatible(place[b], place[d])
=============================================================================
