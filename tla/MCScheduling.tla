---------------------------- MODULE MCScheduling ----------------------------
(* Instances of Scheduling for TLC: days of eight units, weeks of two days. *)
EXTENDS SchedulingProperties

R(from, to) == Interval(from, to)
OpenFor(ranges, breaks) == [intervals |-> ranges, breaks |-> breaks]
Plan(even, odd) == [weekly |-> (0 :> even @@ 1 :> odd), exceptions |-> <<>>]

\* Day 1 is odd.  Ranges that touch, a break over both, hours up to midnight.
Office  == Plan(OpenFor(<<R(0, 6)>>, <<>>), OpenFor(<<R(1, 4), R(4, 8)>>, <<R(3, 5)>>))
\* A break that begins in one range and ends in the next.
Split   == Plan(OpenFor(<<R(0, 5)>>, <<R(1, 2)>>), OpenFor(<<R(1, 4), R(5, 8)>>, <<R(3, 6)>>))
Bob     == Plan(OpenFor(<<R(0, 5)>>, <<R(2, 3)>>), OpenFor(<<R(2, 8)>>, <<>>))
Daytime == Plan(OpenFor(<<R(0, 5)>>, <<>>), OpenFor(<<R(1, 4), R(5, 8)>>, <<>>))
BobOnly == [r \in Resources |-> IF r = 2 THEN Bob ELSE None]

OfficeOrSplit == {Office, Split}

Exception(kind, from, to, ranges) ==
    [kind |-> kind, from |-> from, to |-> to, day |-> OpenFor(ranges, <<>>)]
AllKinds == {Exception("closed", 2, 2, <<>>), Exception("override", 1, 2, <<R(2, 8)>>),
             Exception("additional", 1, 1, <<R(0, 4)>>)}

\* Three employees of whom the first can do what each of the others can; room 3 for two.
Skills == 1 :> {"intake", "law"} @@ 2 :> {"intake"} @@ 4 :> {"law"} @@ 3 :> {}
Staff  == [r \in Resources |->
             [kind     |-> IF r = 3 THEN "room" ELSE "employee",
              skills   |-> Skills[r],
              capacity |-> IF r = 3 THEN 2 ELSE None]]

CourseOnly == [r \in Resources |-> IF r = 4 THEN {"course"} ELSE Services]

Need(kind, skills, count) ==
    [kind |-> kind, skills |-> skills, count |-> count, pool |-> None]
Kind(duration, prep, cleanup, step, places, plan, needs) ==
    [duration |-> duration, prep |-> prep, cleanup |-> cleanup, step |-> step,
     notice |-> 1, horizon |-> 1, perBooking |-> places, perSession |-> places,
     plan |-> plan, needs |-> needs]

TalkAndCourse == [s \in Services |->
    IF s = "talk" THEN Kind(2, 1, 1, 3, 1, Daytime, <<Need("employee", {}, 1)>>)
    ELSE Kind(3, 0, 1, 1, 3, None, <<Need("employee", {"intake"}, 1),
                                     Need("employee", {"law"}, 2), Need("room", {}, 1)>>)]

\* No change; clocks that skip in the day, or its end; clocks that go back.
Zone(at, before, after) == [at |-> at, before |-> before, after |-> after]
SomeZones == {Zone(0, 1, 1), Zone(13, 0, 2), Zone(15, 0, 2), Zone(12, 2, 0)}
=============================================================================
