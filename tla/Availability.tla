---------------------------- MODULE Availability ----------------------------
(***************************************************************************)
(* When a place, a person or a service can be booked: a weekly pattern and *)
(* dated exceptions, and the windows of time they come to.  A range of a   *)
(* day is an interval of its minutes; parsing leaves the ranges of a list  *)
(* sorted and without overlap, and they may touch.                         *)
(***************************************************************************)
EXTENDS Intervals

CONSTANT Week   \* the days of a week; the weekday of a date is its remainder
ASSUME WeekIsReal == Week \in Nat \ {0}

Closed  == "closed"
NoHours == [intervals |-> <<>>, breaks |-> <<>>]
WeekdayOf(date) == date % Week

Ranges   == Seq([start : 0..Day, end : 0..Day])
DayHours == [intervals : Ranges, breaks : Ranges]

IsParsed(ranges) ==
    /\ \A i \in DOMAIN ranges : ranges[i].start < ranges[i].end
    /\ \A i \in DOMAIN ranges \ {1} : ranges[i - 1].end <= ranges[i].start

\* A day of hours that parsing accepted.
IsDay(day) == day \in DayHours /\ IsParsed(day.intervals) /\ IsParsed(day.breaks)

\* A dated exception as it is stored.
Dated == [kind : {Closed, "override", "additional"}, from : Int, to : Int, day : DayHours]

\* An exception of another kind than closed has hours.
IsException(x) ==
    /\ x \in Dated
    /\ x.from <= x.to
    /\ IsDay(x.day)
    /\ x.kind = Closed <=> x.day.intervals = <<>>

IsPlan(plan) ==
    /\ plan \in [weekly : [0..Week - 1 -> DayHours], exceptions : Seq(Dated)]
    /\ \A weekday \in 0..Week - 1 : IsDay(plan.weekly[weekday])
    /\ \A i \in DOMAIN plan.exceptions : IsException(plan.exceptions[i])

-----------------------------------------------------------------------------
(* availability-windows.ts                                                 *)

ToInstants(ranges, date, zone) ==
    MergeIntervals([i \in DOMAIN ranges |->
        Interval(ZonedTimeToEpoch(date, ranges[i].start, zone),
                 ZonedTimeToEpoch(date, ranges[i].end, zone))])

WorkingWindows(day, date, zone) ==
    SubtractIntervals(ToInstants(day.intervals, date, zone),
                      ToInstants(day.breaks, date, zone))

IsCoveredBy(exception, date) == exception.from <= date /\ date <= exception.to

Concatenated(lists) ==
    LET first[i \in 0..Len(lists)] == IF i = 0 THEN <<>> ELSE first[i - 1] \o lists[i]
    IN  first[Len(lists)]

\* A closure wins; else the last override or the week, and what is additional.
WindowsForDate(plan, date, zone) ==
    LET xs       == plan.exceptions
        of(kind) == {i \in DOMAIN xs : xs[i].kind = kind /\ IsCoveredBy(xs[i], date)}
        base == IF of("override") # {} THEN xs[Max(of("override"))].day
                ELSE plan.weekly[WeekdayOf(date)]
        extra(i) == IF i \in of("additional") THEN WorkingWindows(xs[i].day, date, zone)
                    ELSE <<>>
    IN  IF of(Closed) # {} THEN <<>>
        ELSE MergeIntervals(WorkingWindows(base, date, zone) \o
                            Concatenated([i \in DOMAIN xs |-> extra(i)]))

WindowsForRange(plan, range, zone) ==
    MergeIntervals(Concatenated([i \in 1..range.to - range.from + 1 |->
                                    WindowsForDate(plan, range.from + i - 1, zone)]))

-----------------------------------------------------------------------------
(* hours-containment.ts                                                    *)

Merged(ranges) == MergeIntervals(ranges)

IsCovered(range, frame) ==
    \E i \in DOMAIN frame : frame[i].start <= range.start /\ range.end <= frame[i].end

WeekdaysOutside(plan, frame) ==
    {weekday \in 0..Week - 1 :
        LET own == plan.weekly[weekday].intervals
        IN  \E i \in DOMAIN own : ~IsCovered(own[i], Merged(frame.weekly[weekday].intervals))}

\* Each range cut by each stretch of the frame, the empty ones left out.
ClipRanges(ranges, frame) ==
    Sorted(Concatenated([i \in DOMAIN ranges |->
               Concatenated([j \in DOMAIN frame |->
                   Piece(Larger(ranges[i].start, frame[j].start),
                         Smaller(ranges[i].end, frame[j].end))])]))

\* Mutant: the breaks are forgotten.
BreaksLost(day, intervals) == <<>>
\* A break survives inside what is left of the hours.
BreaksLeft(day, intervals) == ClipRanges(day.breaks, intervals)

ClipDay(day, frame) ==
    LET intervals == ClipRanges(day.intervals, frame)
    IN  [intervals |-> intervals, breaks |-> BreaksLeft(day, intervals)]

\* The plan cut down to what the frame is open; its exceptions stay.
ClipToFrame(plan, frame) ==
    [weekly |-> [weekday \in 0..Week - 1 |->
                    ClipDay(plan.weekly[weekday], Merged(frame.weekly[weekday].intervals))],
     exceptions |-> plan.exceptions]
=============================================================================
