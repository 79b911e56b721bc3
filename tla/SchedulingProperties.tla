------------------------ MODULE SchedulingProperties ------------------------
(* What the windows, the slot engine and the lists promise, stated over     *)
(* single instants instead of lists of intervals.                          *)
EXTENDS Scheduling, Feasibility, Functions

\* Plans are plans, and a booking holds resources for a span of time.
TypeOK ==
    /\ IsPlan(opening)
    /\ staff = None \/ IsPlan(staff)
    /\ \A r \in Resources : own[r] = None \/ IsPlan(own[r])
    /\ \A b \in Ids : bookings[b] # None =>
          /\ bookings[b].crew \subseteq Resources /\ bookings[b].crew # {}
          /\ bookings[b].from < bookings[b].to

Whole == [from |-> Min(Days) - 1, to |-> Max(Days) + 1]
Span(from, to) == from..to - 1
In(list) == UNION {Span(list[i].start, list[i].end) : i \in DOMAIN list}

Normalized(list) ==
    /\ \A i \in DOMAIN list : list[i].start < list[i].end
    /\ \A i \in DOMAIN list \ {1} : list[i - 1].end < list[i].start

-----------------------------------------------------------------------------
\* A wall-clock time means the first instant that shows it; one that the clocks skip
\* is moved on by as much as they skip, to a time that is shown (zonedTimeToEpoch).
FirstOccurrence ==
    \A date \in Days, minute \in 0..Day - 1 :
        LET t == ZonedTimeToEpoch(date, minute, zone)
            shown == {u \in Instants : WallClock(u, zone) = [date |-> date, minute |-> minute]}
        IN  IF shown # {} THEN t \in shown /\ \A u \in shown : t <= u
            ELSE LET w == WallClock(t, zone)
                 IN  /\ zone.at <= t
                     /\ w.date * Day + w.minute =
                            date * Day + minute + zone.after - zone.before

\* The hours of a day by the clock, read minute by minute.
Opens(day, minute) ==
    LET has(ranges) == \E i \in DOMAIN ranges :
                          ranges[i].start <= minute /\ minute < ranges[i].end
    IN  has(day.intervals) /\ ~has(day.breaks)

\* The hours that hold on a date: none, or those of the week or of the last override, and
\* those that are additional.
HoursOn(plan, date) ==
    LET xs == plan.exceptions
        of(kind) == {i \in DOMAIN xs : xs[i].kind = kind /\ IsCoveredBy(xs[i], date)}
        base == IF of("override") = {} THEN plan.weekly[WeekdayOf(date)]
                ELSE xs[Max(of("override"))].day
    IN  IF of(Closed) = {} THEN {base} \cup {xs[i].day : i \in of("additional")} ELSE {}

IsOpenAt(plan, w) == \E day \in HoursOn(plan, w.date) : Opens(day, w.minute)

\* The instants after a change of the clocks, for as long as what they skip or repeat.
Unsettled == zone.at..zone.at + Distance(zone.after, zone.before) - 1

\* A local time as the clocks show it: one that they skip is moved on by as much.
Shown(local) == IF local \in zone.at + zone.before..zone.at + zone.after - 1
                THEN local + zone.after - zone.before ELSE local

ShownRanges(ranges, date) ==
    [i \in DOMAIN ranges |-> Interval(Shown(date * Day + ranges[i].start),
                                      Shown(date * Day + ranges[i].end))]

ShownDay(day, date) == [intervals |-> ShownRanges(day.intervals, date),
                        breaks    |-> ShownRanges(day.breaks, date)]

\* The local time an instant counts as: until the clocks show again what they have shown
\* before they went back, it stays the last minute before they did.
CountsAs(t) == IF t \in zone.at..zone.at + zone.before - zone.after - 1
               THEN zone.at + zone.before - 1
               ELSE t + ZoneOffset(t, zone)

PlansInUse == {opening} \cup (Range(own) \ {None})

\* The windows of a range of days are a normalized list in every zone (windowsForRange).  On
\* every day, those on which the clocks change included, they are the minutes that hours,
\* breaks and exceptions say of what the clock shows.  Only in the stretch right after a change
\* they are not: where the clocks went back, a place stays open, or shut, as it was in the last
\* minute before; where they went forward, hours and breaks that begin or end in what is
\* skipped do so as much later, so that they may go on by the clock, or be lost to the ones
\* that begin where they end.
WindowsAreHours ==
    \A plan \in PlansInUse :
        LET windows == WindowsForRange(plan, Whole, zone)
            open    == In(windows)
        IN  /\ Normalized(windows)
            /\ \A t \in Instants \ Unsettled :
                  LET w == WallClock(t, zone)
                  IN  w.date \in Whole.from..Whole.to => (t \in open <=> IsOpenAt(plan, w))
            /\ \A t \in Instants \cap Unsettled :
                  t \in open <=> \E date \in Whole.from..Whole.to :
                                     \E day \in HoursOn(plan, date) :
                                         Opens(ShownDay(day, date), CountsAs(t))

\* Local hours are the right instants (time-zone.ts): a time of the wall clock is the first
\* instant that shows it, and windows are what their hours say by the clock, also on the day of
\* a change and but for the stretch of what is skipped or repeated; there they are what the
\* moved bounds say.
LocalHours == FirstOccurrence /\ WindowsAreHours

-----------------------------------------------------------------------------
\* No employee's week reaches beyond what employees may work, whatever was saved in what
\* order, and cutting a week takes nothing from it that lies inside (clipToFrame).
\* What is stored stays a plan, and a booking stays a span of time.
WeeksCutToFit ==
    /\ TypeOK
    /\ \A r \in Resources : Setup[r].kind = "employee" /\ own[r] # None =>
          WeekdaysOutside(own[r], EmployeeHours(opening, staff)) = {}
    /\ \A r \in Resources, frame \in Hours : own[r] # None =>
          \A weekday \in 0..Week - 1, minute \in 0..Day - 1 :
              LET day == frame.weekly[weekday]
              IN  Opens(ClipToFrame(own[r], frame).weekly[weekday], minute) <=>
                    /\ Opens(own[r].weekly[weekday], minute)
                    /\ Opens([day EXCEPT !.breaks = <<>>], minute)

-----------------------------------------------------------------------------
(* What can be booked, by the instants alone.                              *)

OpenIn(plan) == In(WindowsForRange(plan, Whole, zone))

\* The instants a resource works, of those the place is open.
Works(open) == Table([r \in Resources |-> IF own[r] = None THEN open ELSE open \cap OpenIn(own[r])])

\* The units of a service's requirements: <<need, unit>>.
Units(svc) == UNION {{<<i, u>> : u \in 1..Offer[svc].needs[i].count} : i \in DOMAIN Offer[svc].needs}

\* Who is there from one instant to another, for so many people.
Present(works, occupied, people) ==
    {r \in Resources :
        /\ Span(occupied.start, occupied.end) \subseteq works[r]
        /\ \A b \in Ids : bookings[b] # None /\ r \in bookings[b].crew =>
              Span(bookings[b].from, bookings[b].to) \cap Span(occupied.start, occupied.end) = {}
        /\ Setup[r].capacity = None \/ people <= Setup[r].capacity}

\* The ways in which some of the resources can fill the requirements, when employees offer
\* so much, and as they do.
FillingsBy(svc, present, offered) ==
    {f \in Injection(Units(svc), present) :
        \A u \in Units(svc) : IsEligible(f[u], Offer[svc].needs[u[1]], svc, offered)}

Fillings(svc, present) == FillingsBy(svc, present, offers)

SessionOf(svc, start) == IF IsShared(svc) THEN SessionsAt(svc, start, bookings) ELSE {}

MayStart(svc, start, open) ==
    LET w == WallClock(start, zone)
    IN  /\ w.minute % Offer[svc].step = 0
        /\ \A t \in Instants : WallClock(t, zone) = w => start <= t
        /\ start >= now + Offer[svc].notice
        /\ w.date <= WallClock(now, zone).date + Offer[svc].horizon
        /\ Span(start, start + Offer[svc].duration) \subseteq
              IF Offer[svc].plan = None THEN open ELSE open \cap OpenIn(Offer[svc].plan)

FitsSession(svc, start, people) ==
    LET of    == SessionOf(svc, start)
        small == {r \in UNION {bookings[b].crew : b \in of} : Setup[r].capacity # None}
    IN  Booked(of, bookings) + people
            <= Min({Offer[svc].perSession} \cup {Setup[r].capacity : r \in small})

\* What is held before a start, and from it on, is a day less what the clocks change by: it
\* begins on the day before and ends on the next one, and no windows further off count.
StaysNear(svc) ==
    /\ Offer[svc].prep <= Day - Distance(zone.after, zone.before)
    /\ Offer[svc].duration + Offer[svc].cleanup <= Day - Distance(zone.after, zone.before)

\* The engine says yes exactly where an appointment can stand: whenever some assignment of
\* free, qualified, large enough resources exists it finds one, and what it finds is one
\* (assessSlot, matchResources, isHeldDuring).
AssessIsExact ==
    LET open  == OpenIn(opening)
        works == Works(open)
    IN  \A svc \in {s \in Services : StaysNear(s)} :
        LET index == Table([day \in Days |-> DayIndex(Asked(svc, bookings), day)])
        IN  \A start \in Starts, people \in 1..MaxGroup :
            LET slot == AssessSlot(index[LocalDateOf(start, zone)], start, people)
                may  == MayStart(svc, start, open) /\ people <= Offer[svc].perBooking
                ways == Fillings(svc, Present(works, Occupied(svc, start), people))
            IN  IF may /\ SessionOf(svc, start) = {}
                THEN IF slot.ok THEN slot.crew \in {Range(f) : f \in ways} ELSE ways = {}
                ELSE slot.ok <=> may /\ FitsSession(svc, start, people)

Queries == {range \in [from: Days, to: Days] : range.from <= range.to}

\* The starts of the days asked about that a command accepts.
Accepted(in, people) ==
    LET index == Table([day \in Days |-> DayIndex(in, day)])
    IN  {t \in Starts : AssessSlot(index[LocalDateOf(t, zone)], t, people).ok}

Listed(in, range, people) == FindAvailableSlots(BuildIndex(in, range), people)

\* "so they can never disagree about what is bookable" (slot-assessment.ts:212): every
\* time a list offers is one that the commands accept, whatever range was asked about, and
\* it is offered once, "earliest first" (slot-finder.ts:15).
ListedIsBookable ==
    \A svc \in Services, people \in 1..MaxGroup, range \in Queries :
        LET in     == Asked(svc, bookings)
            listed == Listed(in, range, people)
        IN  /\ \A i \in DOMAIN listed \ {1} : listed[i - 1] < listed[i]
            /\ StaysNear(svc) => \A t \in Range(listed) : AssessAlone(in, t, people).ok

\* No start is lost where the clocks skip: they skip no more than lies between two points of a
\* service's grid, the last one of a day and the first one of the next included, or whole steps
\* of a grid that every day begins with, and on one day.
KeepsStarts(svc) ==
    LET step == Offer[svc].step
        skip == zone.after - zone.before
    IN  \/ skip <= Day - (PointsOfADay(step) - 1) * step
        \/ /\ Day % step = 0 /\ skip % step = 0
           /\ (zone.at + zone.before) \div Day = (zone.at + zone.after - 1) \div Day

\* Every start of its days that a command accepts is in a list, also on days when the clocks
\* change (findAvailableSlots).
ListIsComplete ==
    \A svc \in {s \in Services : KeepsStarts(s)}, people \in 1..MaxGroup :
        LET accepted == Accepted(Asked(svc, bookings), people)
        IN  \A range \in Queries :
                {t \in accepted : LocalDateOf(t, zone) \in range.from..range.to}
                    \subseteq Range(Listed(Asked(svc, bookings), range, people))

Everything == [r \in Resources |-> Services]

Hosts(people) == {r \in Resources : Setup[r].capacity = None \/ people <= Setup[r].capacity}

\* "so the preview and a real booking cannot disagree about who qualifies"
\* (service-feasibility.ts:209): who is blocked is so whatever employees choose to offer, the
\* largest group is the largest that can be hosted, and no command starts an appointment for
\* a larger one, or for any when nobody can serve it.  Who joins a session is served by the
\* resources the session has, which somebody qualified for when it was first booked: they fill
\* the requirements for all who come by then, if employees who have given the service up are
\* taken to offer it still.
PreviewAgrees ==
    \A svc \in Services :
        LET sizes == {people \in 1..Offer[svc].perBooking : Fillings(svc, Hosts(people)) # {}}
        IN  /\ LargestGroup(svc, offers) = Max({0} \cup sizes)
            /\ Readiness(svc, offers) = "ready" <=> sizes # {}
            /\ Readiness(svc, offers) = "blocked" => ~IsFillable(svc, Everything, 1, FALSE)
            /\ \A people \in 1..MaxGroup :
                  \A t \in Accepted(Asked(svc, bookings), people) :
                      LET session == SessionOf(svc, t)
                          crews(all) == {Range(f) : f \in FillingsBy(svc, Hosts(all), Everything)}
                      IN  IF session = {} THEN people \in sizes
                          ELSE \A b \in session :
                                  bookings[b].crew \in crews(Booked(session, bookings) + people)

\* The alternatives to a start are the nearest of the free ones, in an order without ties:
\* nothing that is left out, and nothing later in the list, is nearer (suggestAlternativeSlots).
AlternativesNearest ==
    \A svc \in Services :
    LET in    == Asked(svc, bookings)
        lists == Table([day \in Days |-> Listed(in, AlternativeRange(day, 1), 1)])
    IN  \A start \in Starts :
        LET list  == lists[LocalDateOf(start, zone)]
            found == SuggestAlternatives(list, start, zone, 2)
            free  == Range(list) \ {start}
            here  == WallClock(start, zone)
            days(t)  == Distance(WallClock(t, zone).date, here.date)
            clock(t) == Distance(WallClock(t, zone).minute, here.minute)
            nearer(t, u) == \/ days(t) < days(u)
                            \/ days(t) = days(u) /\ clock(t) < clock(u)
                            \/ days(t) = days(u) /\ clock(t) = clock(u) /\ t < u
        IN  /\ Len(found) = Smaller(2, Cardinality(free))
            /\ \A i \in DOMAIN found :
                  /\ found[i] \in free
                  /\ Cardinality({t \in free : nearer(t, found[i])}) = i - 1

\* What visitors are offered is what the commands accept: in lists of any range and as
\* alternatives, on days when the clocks change as on others.
OffersAreExact == ListedIsBookable /\ ListIsComplete /\ AlternativesNearest
=============================================================================
