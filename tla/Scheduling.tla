----------------------------- MODULE Scheduling -----------------------------
(***************************************************************************)
(* A place whose hours change and whose appointments are booked one after  *)
(* the other, each where the slot engine says it may stand.  (What happens *)
(* when requests overlap is BookingFlow's business.)                       *)
(***************************************************************************)
EXTENDS SlotEngine

CONSTANTS
    Ids,         \* bookings, numbered from 1
    Zones,       \* time zones the place may be in
    Times,       \* times at which the calendar may be looked at
    FirstHours,  \* the opening hours at first
    FirstOwn,    \* the plans of the resources at first, or None
    FirstOffers, \* what each employee offers at first
    Choosers,    \* employees who may choose again
    Hours,       \* plans that opening and staff hours are saved with
    Exceptions,  \* exceptions that are entered
    Days,        \* the days that are asked about
    MaxGroup,    \* the largest group that asks
    MaxChanges   \* bound of what happens to the calendar

ASSUME CalendarConstants ==
    /\ IsPlan(FirstHours) /\ \A h \in Hours : IsPlan(h)
    /\ FirstOwn = [r \in Resources |-> FirstOwn[r]]
    /\ \A r \in Resources : FirstOwn[r] = None \/ IsPlan(FirstOwn[r])
    \* no employee works beyond the opening hours, as none may be saved so
    /\ \A r \in Resources : Setup[r].kind = "employee" /\ FirstOwn[r] # None =>
          WeekdaysOutside(FirstOwn[r], FirstHours) = {}
    /\ \A x \in Exceptions : IsException(x)
    \* a zone is less than a day off, and so is each change of its clocks
    /\ \A z \in Zones : /\ {z.before, z.after, z.after - z.before} \subseteq 1 - Day..Day - 1
                        /\ z.at \in Int
    /\ IsFiniteSet(Ids) /\ Ids = 1..Cardinality(Ids)
    /\ FirstOffers \in [Resources -> SUBSET Services]
    /\ Choosers \subseteq Resources
    /\ Days \subseteq Nat /\ IsFiniteSet(Days) /\ Days # {}
    /\ Times \subseteq Int
    /\ MaxGroup \in Nat /\ MaxChanges \in Nat

VARIABLES
    zone, now,  \* where and when
    opening,    \* openingHours of the location
    staff,      \* its staffHours, or None
    own,        \* the availability of each resource, or None for the location's
    offers,     \* the services an employee offers (a skill of theirs)
    bookings,   \* the bookings that stand, or None
    changes     \* how much has happened

vars == <<zone, now, opening, staff, own, offers, bookings, changes>>

Instants == Min(Days) * Day - Day .. (Max(Days) + 2) * Day
Starts   == {t \in Instants : LocalDateOf(t, zone) \in Days}

Init == /\ zone \in Zones
        /\ now \in Times
        /\ opening = FirstHours
        /\ staff = None
        /\ own = FirstOwn
        /\ offers = FirstOffers
        /\ bookings = [b \in Ids |-> None]
        /\ changes = 0

Asked(svc, of) == [svc |-> svc, opening |-> opening, own |-> own, offers |-> offers,
                   bookings |-> of, now |-> now, zone |-> zone]

Changes == /\ changes < MaxChanges
           /\ changes' = changes + 1

\* The row a slot becomes.
Row(b, svc, start, people, crew) ==
    [svc |-> svc, start |-> start, people |-> people, crew |-> crew,
     from |-> Occupied(svc, start).start, to |-> Occupied(svc, start).end,
     key |-> IF IsShared(svc) THEN SessionKey(svc, start) ELSE <<b>>]

Place(b, svc, start, people, slot) ==
    /\ Changes
    /\ slot.ok
    /\ bookings' = [bookings EXCEPT ![b] = Row(b, svc, start, people, slot.crew)]
    /\ UNCHANGED <<zone, now, opening, staff, own, offers>>

\* HoldSlot.
Book(b, svc, start, people) ==
    /\ bookings[b] = None /\ \A c \in Ids : c < b => bookings[c] # None
    /\ Place(b, svc, start, people, AssessAlone(Asked(svc, bookings), start, people))

\* A booking that moves does not block its own new time.
Move(b, start) ==
    LET k == bookings[b]
    IN  /\ k # None
        /\ Place(b, k.svc, start, k.people,
                 AssessAlone(Asked(k.svc, [bookings EXCEPT ![b] = None]), start, k.people))

Cancel(b) ==
    /\ Changes
    /\ bookings[b] # None
    /\ bookings' = [bookings EXCEPT ![b] = None]
    /\ UNCHANGED <<zone, now, opening, staff, own, offers>>

-----------------------------------------------------------------------------
(* Hours                                                                   *)

\* employeeHoursOf
EmployeeHours(open, staffed) ==
    IF staffed = None THEN open ELSE ClipToFrame(staffed, open)

\* retargetedWeek: a week is cut to what employees may work; one that follows the
\* opening hours stays so unless the cut takes something away.
Retargeted(r, open, staffed) ==
    LET followed == own[r] = None
        week     == IF followed THEN open ELSE own[r]
        cut      == ClipToFrame(week, EmployeeHours(open, staffed))
    IN  IF \/ Setup[r].kind # "employee"
           \/ followed /\ staffed = None
           \/ cut = week
        THEN own[r] ELSE cut

\* checkLocationKeepsDependents: the services and the rooms keep their hours inside.
KeepsDependents(open) ==
    /\ \A svc \in Services :
          Offer[svc].plan # None => WeekdaysOutside(Offer[svc].plan, open) = {}
    /\ \A r \in Resources :
          Setup[r].kind # "employee" /\ own[r] # None => WeekdaysOutside(own[r], open) = {}

\* replaceLocation: the weeks are replaced, then those of the employees brought inside.
SaveHours(open, staffed) ==
    /\ Changes
    /\ <<open, staffed>> # <<opening, staff>>
    /\ KeepsDependents(open)
    /\ opening' = open
    /\ staff' = staffed
    /\ own' = [r \in Resources |-> Retargeted(r, open, staffed)]
    /\ UNCHANGED <<zone, now, offers, bookings>>

\* An exception of the location or of a resource with a plan.
Except(x) ==
    /\ Changes
    /\ \/ /\ opening' = [opening EXCEPT !.exceptions = Append(@, x)]
          /\ UNCHANGED own
       \/ /\ \E r \in Resources :
                /\ own[r] # None
                /\ own' = [own EXCEPT ![r].exceptions = Append(@, x)]
          /\ UNCHANGED opening
    /\ UNCHANGED <<zone, now, staff, offers, bookings>>

\* saveOwnProfile, as far as it says what an employee offers.
Choose(r, services) ==
    /\ Changes
    /\ offers[r] # services
    /\ offers' = [offers EXCEPT ![r] = services]
    /\ UNCHANGED <<zone, now, opening, staff, own, bookings>>

Next ==
    \/ \E b \in Ids, svc \in Services, start \in Starts, people \in 1..MaxGroup :
          Book(b, svc, start, people)
    \/ \E b \in Ids, start \in Starts : Move(b, start)
    \/ \E b \in Ids : Cancel(b)
    \/ \E h \in Hours : \/ SaveHours([opening EXCEPT !.weekly = h.weekly], staff)
                       \/ SaveHours(opening, h)
    \/ \E x \in Exceptions : Except(x)
    \/ \E r \in Choosers, services \in SUBSET Services : Choose(r, services)

Spec == Init /\ [][Next]_vars
=============================================================================
