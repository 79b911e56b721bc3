----------------------------- MODULE SlotEngine -----------------------------
(***************************************************************************)
(* Where an appointment may stand: the engine that the list of free times, *)
(* the booking commands and the alternatives ask.  Everything is a pure    *)
(* function of an input [svc, opening, own, offers, bookings, now, zone]:   *)
(* the plans of the location and of each resource, the services employees  *)
(* offer, and the bookings that block.                                     *)
(***************************************************************************)
EXTENDS Availability, TLC

CONSTANTS
    Resources,  \* bookable resources, numbered in the order of their ids
    Services,   \* services at the location
    Setup,      \* a resource's kind, skills and capacity or None
    Offer,      \* a service's duration, prep, cleanup, step, notice, horizon,
                \* perBooking, perSession, plan or None, and needs: its requirements
    None        \* no plan, no capacity, no booking, no resource

ASSUME EngineConstants ==
    /\ Resources \subseteq Nat /\ IsFiniteSet(Resources)
    /\ \A crew \in SUBSET Resources : crew # None
    /\ \A r \in Resources :
        Setup[r].capacity = None \/ Setup[r].capacity \in Nat \ {0}
    /\ \A s \in Services :
        /\ {Offer[s].duration, Offer[s].step, Offer[s].perBooking,
            Offer[s].perSession, Offer[s].horizon} \subseteq Nat \ {0}
        /\ {Offer[s].prep, Offer[s].cleanup, Offer[s].notice} \subseteq Nat
        /\ Offer[s].plan = None \/ IsPlan(Offer[s].plan)
        /\ Len(Offer[s].needs) \in Nat \ {0}
        /\ DOMAIN Offer[s].needs = 1..Len(Offer[s].needs)
        \* a need: kind, skills, count, pool (resources) or None
        /\ \A i \in DOMAIN Offer[s].needs : Offer[s].needs[i].count \in Nat \ {0}

-----------------------------------------------------------------------------
(* The index of one query.                                                 *)

\* meetsRequirement
Meets(r, need) ==
    /\ Setup[r].kind = need.kind
    /\ need.skills \subseteq Setup[r].skills
    /\ need.pool = None \/ r \in need.pool

\* Only employees choose the services they offer.
OffersService(r, svc, offers) == Setup[r].kind = "employee" => svc \in offers[r]

IsEligible(r, need, svc, offers) == Meets(r, need) /\ OffersService(r, svc, offers)

\* The spans a resource is busy, in order; bookings is the list of rows, None where one left.
BusyOf(r, bookings) ==
    Sorted(Concatenated([b \in DOMAIN bookings |->
               IF bookings[b] # None /\ r \in bookings[b].crew
               THEN <<Interval(bookings[b].from, bookings[b].to)>> ELSE <<>>]))

Longest(spans) ==
    Max({0} \cup {spans[i].end - spans[i].start : i \in DOMAIN spans})

\* The occupied units of the spans that begin on a day.
LoadOf(spans, date, zone) ==
    MapThenSumSet(LAMBDA i : spans[i].end - spans[i].start,
                  {i \in DOMAIN spans : LocalDateOf(spans[i].start, zone) = date})

SessionKey(svc, start) == <<svc, start>>
IsShared(svc) == Offer[svc].perSession > 1

\* The bookings of one session, of the same service and start.
SessionsAt(svc, start, bookings) ==
    {b \in DOMAIN bookings : bookings[b] # None /\ bookings[b].key = SessionKey(svc, start)}

\* How many come to it.
Booked(session, bookings) == MapThenSumSet(LAMBDA b : bookings[b].people, session)

\* Mutant: the windows of the range and no more.
AroundNothing(range) == range
\* Windows are gathered a day either side of the range.
Around(range) == [from |-> range.from - 1, to |-> range.to + 1]

\* The same function, each value of it computed once.
Table(f) ==
    LET pairs == {<<x, f[x]>> : x \in DOMAIN f}
    IN  [x \in DOMAIN f |-> (CHOOSE p \in pairs : p[1] = x)[2]]

\* The hours of a place within others.
Within(plan, around, zone, open) ==
    IF plan = None THEN open ELSE IntersectIntervals(WindowsForRange(plan, around, zone), open)

Timeline(free, busy) == [free |-> free, busy |-> busy, longest |-> Longest(busy)]

Timelines(in, around, open) ==
    LET needs == Offer[in.svc].needs
    IN  [r \in {q \in Resources : \E i \in DOMAIN needs : needs[i].kind = Setup[q].kind} |->
            Timeline(Within(in.own[r], around, in.zone, open), BusyOf(r, in.bookings))]

IndexOver(in, range, open) ==
    [in |-> in, range |-> range, locationWindows |-> open,
     appointmentWindows |-> Within(Offer[in.svc].plan, Around(range), in.zone, open),
     timelines |-> Table(Timelines(in, Around(range), open)),
     pools |-> Table([i \in DOMAIN Offer[in.svc].needs |->
                        {r \in Resources : IsEligible(r, Offer[in.svc].needs[i], in.svc, in.offers)}]),
     earliest |-> in.now + Offer[in.svc].notice,
     latest   |-> LocalDateOf(in.now, in.zone) + Offer[in.svc].horizon]

BuildIndex(in, range) ==
    IndexOver(in, range, WindowsForRange(in.opening, Around(range), in.zone))

-----------------------------------------------------------------------------
(* Whether a resource is held, and who can fill which demand.              *)

\* Mutant: the search starts past the longest span that may still reach in.
ThresholdShort(timeline, from) == from
\* A span that starts earlier than this is over by then.
Threshold(timeline, from) == from - timeline.longest

\* The position of the first span that could still overlap, by halving.
FirstRelevantSpan(timeline, from) ==
    LET n == Len(timeline.busy)
        seek[at \in (0..n) \X (0..n)] ==
            LET low    == at[1]
                high   == at[2]
                middle == (low + high) \div 2
            IN  IF low >= high THEN low
                ELSE seek[IF timeline.busy[middle + 1].start <= Threshold(timeline, from)
                          THEN <<middle + 1, high>> ELSE <<low, middle>>]
    IN  seek[<<0, n>>] + 1

\* The walk from there ends with the first span that begins after the time.
IsHeldDuring(timeline, occupied) ==
    \E i \in FirstRelevantSpan(timeline, occupied.start)..Len(timeline.busy) :
        /\ timeline.busy[i].end > occupied.start
        /\ \A j \in FirstRelevantSpan(timeline, occupied.start)..i :
              timeline.busy[j].start < occupied.end

IsFreeFor(timeline, occupied) ==
    ListCovers(timeline.free, occupied) /\ ~IsHeldDuring(timeline, occupied)

IsTooSmall(r, people) == Setup[r].capacity # None /\ Setup[r].capacity < people

\* The resources for a need, the least busy of the day first, then by id.
InOrder(fits, load) ==
    LET before(a, b) == load[a] < load[b] \/ (load[a] = load[b] /\ a < b)
        from[rest \in SUBSET fits] ==
            LET r == CHOOSE r \in rest : \A q \in rest : ~before(q, r)
            IN  IF rest = {} THEN <<>> ELSE <<r>> \o from[rest \ {r}]
    IN  from[fits]

CandidatesFor(index, i, occupied, people, date) ==
    InOrder({r \in index.pools[i] :
                IsFreeFor(index.timelines[r], occupied) /\ ~IsTooSmall(r, people)},
            [r \in index.pools[i] |-> LoadOf(index.timelines[r].busy, date, index.in.zone)])

\* Augmenting paths: the resource of each demand, or None when there is no
\* assignment.  held says whose demand a resource fills, 0 for nobody's.
MatchResources(demands) ==
    LET all   == UNION {{demands[d][k] : k \in DOMAIN demands[d]} : d \in DOMAIN demands}
        holdings == [all -> {0} \cup DOMAIN demands]
        assign[at \in (DOMAIN demands) \X (Nat \ {0}) \X (SUBSET all) \X holdings] ==
            LET d     == at[1]
                k     == at[2]
                seen  == at[3]
                held  == at[4]
                r     == demands[d][k]
                with  == seen \cup {r}
                moved == assign[<<held[r], 1, with, held>>]
            IN  IF k > Len(demands[d]) THEN [ok |-> FALSE, seen |-> seen, held |-> held]
                ELSE IF r \in seen THEN assign[<<d, k + 1, seen, held>>]
                ELSE IF held[r] = 0
                THEN [ok |-> TRUE, seen |-> with, held |-> [held EXCEPT ![r] = d]]
                ELSE IF moved.ok
                THEN [moved EXCEPT !.held[r] = d]
                ELSE assign[<<d, k + 1, moved.seen, held>>]
        \* The demands with the fewest candidates first.
        fill[at \in (SUBSET DOMAIN demands) \X holdings] ==
            LET rest == at[1]
                d    == CHOOSE d \in rest : \A e \in rest :
                            \/ Len(demands[d]) < Len(demands[e])
                            \/ Len(demands[d]) = Len(demands[e]) /\ d <= e
                step == assign[<<d, 1, {}, at[2]>>]
            IN  IF rest = {} THEN [ok |-> TRUE, held |-> at[2]]
                ELSE IF step.ok THEN fill[<<rest \ {d}, step.held>>]
                ELSE [ok |-> FALSE, held |-> at[2]]
        last == fill[<<DOMAIN demands, [r \in all |-> 0]>>]
    IN  IF last.ok THEN {r \in all : last.held[r] # 0} ELSE None

SessionCapacity(svc, crew) ==
    Min({Offer[svc].perSession} \cup {Setup[r].capacity : r \in {q \in crew : Setup[q].capacity # None}})

-----------------------------------------------------------------------------
(* assessSlot                                                              *)

Rejected(why) == [ok |-> FALSE, why |-> why]

\* The grid is one of the wall clock; what it shows twice counts once.
IsOnGrid(svc, start, zone) ==
    LET w == WallClock(start, zone)
    IN  /\ w.minute % Offer[svc].step = 0
        /\ ZonedTimeToEpoch(w.date, w.minute, zone) = start

Occupied(svc, start) ==
    Interval(start - Offer[svc].prep, start + Offer[svc].duration + Offer[svc].cleanup)

Planned(svc, crew, booked) ==
    [ok |-> TRUE, crew |-> crew, left |-> SessionCapacity(svc, crew) - booked]

\* Into a session: its own resources serve it, so only its size is asked.
AssessSession(index, session, people) ==
    LET in     == index.in
        crew   == in.bookings[CHOOSE b \in session : TRUE].crew
        booked == Booked(session, in.bookings)
    IN  IF booked + people > SessionCapacity(in.svc, crew) THEN Rejected("capacity-exceeded")
        ELSE Planned(in.svc, crew, booked)

\* As many demands as the requirements count, each with the candidates for it.
Demands(index, occupied, people, date) ==
    LET needs == Offer[index.in.svc].needs
        alike(i, ids) == [unit \in 1..needs[i].count |-> ids]
    IN  Concatenated([i \in DOMAIN needs |->
            alike(i, CandidatesFor(index, i, occupied, people, date))])

Assigned(svc, crew, sawTooSmall) ==
    IF crew # None THEN Planned(svc, crew, 0)
    ELSE Rejected(IF sawTooSmall THEN "capacity-exceeded" ELSE "resources-unavailable")

AssessNew(index, occupied, people, date) ==
    Assigned(index.in.svc, MatchResources(Demands(index, occupied, people, date)),
        \E i \in DOMAIN index.pools : \E r \in index.pools[i] :
            IsTooSmall(r, people) /\ IsFreeFor(index.timelines[r], occupied))

AssessOn(index, start, people, date) ==
    LET in  == index.in
        svc == in.svc
        appointment == Interval(start, start + Offer[svc].duration)
    IN  IF people \notin 1..Offer[svc].perBooking THEN Rejected("invalid-participants")
        ELSE IF ~IsOnGrid(svc, start, in.zone) THEN Rejected("off-grid")
        ELSE IF start < index.earliest \/ date > index.latest
        THEN Rejected("outside-booking-window")
        ELSE IF ~ListCovers(index.appointmentWindows, appointment)
        THEN Rejected(IF ListCovers(index.locationWindows, appointment)
                      THEN "service-unavailable" ELSE "location-closed")
        ELSE IF IsShared(svc) /\ SessionsAt(svc, start, in.bookings) # {}
        THEN AssessSession(index, SessionsAt(svc, start, in.bookings), people)
        ELSE AssessNew(index, Occupied(svc, start), people, date)

AssessSlot(index, start, people) ==
    AssessOn(index, start, people, LocalDateOf(start, index.in.zone))

DayIndex(in, day) == BuildIndex(in, [from |-> day, to |-> day])

\* A command asks about the day of the start alone.
AssessAlone(in, start, people) ==
    AssessSlot(DayIndex(in, LocalDateOf(start, in.zone)), start, people)

-----------------------------------------------------------------------------
(* findAvailableSlots and suggestAlternativeSlots                          *)

PointsOfADay(step) == (Day + step - 1) \div step

\* The candidates of the range in order: each point of the wall-clock grid, unless
\* an earlier one stands for its instant or one after it.
Candidates(index) ==
    LET step   == Offer[index.in.svc].step
        perDay == PointsOfADay(step)
        point(n) == ZonedTimeToEpoch(index.range.from + ((n - 1) \div perDay),
                                     ((n - 1) % perDay) * step, index.in.zone)
        last == (index.range.to - index.range.from + 1) * perDay
        upTo[n \in 0..last] ==
            IF n = 0 THEN <<>>
            ELSE LET done == upTo[n - 1]
                 IN  IF \/ point(n) < index.earliest
                        \/ done # <<>> /\ point(n) <= done[Len(done)]
                     THEN done ELSE Append(done, point(n))
    IN  upTo[last]

FindAvailableSlots(index, people) ==
    LET all == Candidates(index)
        isFree(start) ==
            /\ ListCovers(index.appointmentWindows,
                          Interval(start, start + Offer[index.in.svc].duration))
            /\ AssessSlot(index, start, people).ok
        upTo[n \in 0..Len(all)] ==
            IF n = 0 THEN <<>>
            ELSE IF isFree(all[n]) THEN Append(upTo[n - 1], all[n]) ELSE upTo[n - 1]
    IN  upTo[Len(all)]

AlternativeRange(day, span) == [from |-> day - span, to |-> day + span]

Distance(a, b) == IF a > b THEN a - b ELSE b - a

\* The same day first, then by days, then by the clock.
Nearer(here, a, b) ==
    \/ Distance(a.date, here.date) < Distance(b.date, here.date)
    \/ /\ Distance(a.date, here.date) = Distance(b.date, here.date)
       /\ Distance(a.minute, here.minute) < Distance(b.minute, here.minute)

\* Which of two starts is offered first, ties by the instant.
Preferred(start, zone, a, b) ==
    LET clock(t) == WallClock(t, zone)
    IN  \/ Nearer(clock(start), clock(a), clock(b))
        \/ ~Nearer(clock(start), clock(b), clock(a)) /\ a < b

\* The first few of the free starts other than this one, one after the other.
SuggestAlternatives(free, start, zone, limit) ==
    LET others == {free[i] : i \in DOMAIN free} \ {start}
        first[n \in 0..Smaller(limit, Cardinality(others))] ==
            IF n = 0 THEN <<>>
            ELSE LET done == first[n - 1]
                     rest == others \ {done[i] : i \in DOMAIN done}
                 IN  Append(done, CHOOSE t \in rest :
                                    \A u \in rest : ~Preferred(start, zone, u, t))
    IN  first[Smaller(limit, Cardinality(others))]
=============================================================================
