----------------------------- MODULE Intervals -----------------------------
(***************************************************************************)
(* Lists of half-open spans of time, and the wall clock of a place.        *)
(* Instants and minutes are in one unit.  A list is normalized when it is  *)
(* sorted and its spans are real and neither overlap nor touch.            *)
(***************************************************************************)
EXTENDS Integers, Sequences, FiniteSetsExt

CONSTANT Day   \* the units of a day (MINUTES_PER_DAY)
ASSUME DayIsReal == Day \in Nat \ {0}

Larger(a, b)  == IF a >= b THEN a ELSE b
Smaller(a, b) == IF a <= b THEN a ELSE b

Interval(from, to) == [start |-> from, end |-> to]

\* createInterval and pushInterval: a span that is empty or reversed is left out.
Piece(from, to) == IF to > from THEN <<Interval(from, to)>> ELSE <<>>

Earlier(a, b) == a.start < b.start \/ (a.start = b.start /\ a.end < b.end)

\* A span goes after the last one that is not later.
Inserted(sorted, span) ==
    LET place[n \in 0..Len(sorted)] ==
            IF n = 0 THEN 0 ELSE IF Earlier(span, sorted[n]) THEN place[n - 1] ELSE n
        before == place[Len(sorted)]
    IN  SubSeq(sorted, 1, before) \o <<span>> \o SubSeq(sorted, before + 1, Len(sorted))

Sorted(list) ==
    LET upTo[i \in 0..Len(list)] ==
            IF i = 0 THEN <<>> ELSE Inserted(upTo[i - 1], list[i])
    IN  upTo[Len(list)]

\* The next span in order joins the last of those before it, or follows it.
Joined(done, next) ==
    LET n == Len(done)
    IN  IF n > 0 /\ next.start <= done[n].end
        THEN [done EXCEPT ![n].end = Larger(done[n].end, next.end)]
        ELSE Append(done, next)

MergeSorted(sorted) ==
    LET merged[i \in 0..Len(sorted)] ==
            IF i = 0 THEN <<>> ELSE Joined(merged[i - 1], sorted[i])
    IN  merged[Len(sorted)]

MergeIntervals(list) == MergeSorted(Sorted(list))

IntersectIntervals(a, b) ==
    LET from[at \in (1..Len(a) + 1) \X (1..Len(b) + 1)] ==
            LET i == at[1]
                j == at[2]
            IN  IF i > Len(a) \/ j > Len(b) THEN <<>>
                ELSE Piece(Larger(a[i].start, b[j].start), Smaller(a[i].end, b[j].end))
                     \o from[IF a[i].end < b[j].end THEN <<i + 1, j>> ELSE <<i, j + 1>>]
    IN  from[<<1, 1>>]

\* Mutant: a removal that reaches over the end of a span is taken for used up.
PassesAlways(removal, span) == TRUE
\* A removal that ends with a span, or in it, is of no use to the next one.
Passes(removal, span) == removal.end <= span.end

\* The removals are walked once: k does not go back for the next span.
SubtractIntervals(list, removals) ==
    LET from[at \in (1..Len(list)) \X (1..Len(removals) + 1) \X Int] ==
            LET i == at[1]
                k == at[2]
                cursor == at[3]
                span == list[i]
                gone == removals[k]
                after  == Larger(cursor, gone.end)
                next == IF i = Len(list) THEN <<>> ELSE from[<<i + 1, k, list[i + 1].start>>]
            IN  IF k > Len(removals) \/ gone.start >= span.end
                THEN Piece(cursor, span.end) \o next
                ELSE IF gone.end <= cursor
                THEN from[<<i, k + 1, cursor>>]
                ELSE Piece(cursor, gone.start) \o
                     (IF Passes(gone, span) THEN from[<<i, k + 1, after>>]
                      ELSE Piece(after, span.end) \o next)
    IN  IF list = <<>> THEN <<>> ELSE from[<<1, 1, list[1].start>>]

\* The position of the last span that starts by the instant, or 0, by halving.
LastStartingAtOrBefore(list, instant) ==
    LET n == Len(list)
        seek[at \in (1..n + 1) \X (0..n) \X (0..n)] ==
            LET low    == at[1]
                high   == at[2]
                middle == (low + high) \div 2
            IN  IF low > high THEN at[3]
                ELSE seek[IF list[middle].start <= instant
                          THEN <<middle + 1, high, middle>> ELSE <<low, middle - 1, at[3]>>]
    IN  seek[<<1, n, 0>>]

ListCovers(list, target) ==
    LET i == LastStartingAtOrBefore(list, target.start)
    IN  i # 0 /\ list[i].end >= target.end

-----------------------------------------------------------------------------
(* The wall clock.  A zone changes its offset once, at zone.at; a local     *)
(* date is its number of days since the first.                             *)

ZoneOffset(t, zone) == IF t < zone.at THEN zone.before ELSE zone.after

WallClock(t, zone) ==
    LET local == t + ZoneOffset(t, zone)
    IN  [date |-> local \div Day, minute |-> local % Day]

LocalDateOf(t, zone) == WallClock(t, zone).date

\* The first occurrence of a time that happens twice.
Chosen(matches) == CHOOSE t \in matches : \A u \in matches : t <= u

ZonedTimeToEpoch(date, minute, zone) ==
    LET wall    == date * Day + minute
        before  == ZoneOffset(wall - Day, zone)
        after   == ZoneOffset(wall + Day, zone)
        matches == {t \in {wall - before, wall - after} : t + ZoneOffset(t, zone) = wall}
    IN  IF matches # {} THEN Chosen(matches) ELSE wall - before

StartOfLocalDay(date, zone) == ZonedTimeToEpoch(date, 0, zone)
=============================================================================
