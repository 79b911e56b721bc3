--------------------------- MODULE MCBookingSetup ---------------------------
(* A website with two locations, two services, a room and an employee.     *)
EXTENDS SetupProperties, TLC

CONSTANTS l1, l2, s1, s2, r1, e1, e2, b1, p1, h1, h2, c1, c2

Long  == {h1, h2}
Short == {h1}

Open(open, staff) == [open |-> open, staff |-> staff, active |-> TRUE]
Closed == [open |-> Long, staff |-> None, active |-> FALSE]
Lesson(at, requires, pool, hours) ==
    [at |-> at, requires |-> requires, pool |-> pool, hours |-> hours, active |-> TRUE]
Room(l, hours) == [location |-> l, hours |-> hours, active |-> TRUE,
                   owner |-> None, offers |-> {}, note |-> {}]
Employee(l, hours) == [Room(l, hours) EXCEPT !.owner = p1, !.offers = {s2}]

Weeks     == {None, Short, Long}
Places    == {Open(Long, None), Open(Short, None), Open(Long, Short)}
Lessons   == {Lesson({l1}, "room", {r1}, Long), Lesson({l1, l2}, "employee", {}, None)}
RoomRows  == {Room(l1, Long), Room(None, None)}

Setup(l, s, r) == [locations |-> l, services |-> s, resources |-> r]

\* A service that needs the room, and one that needs the employee.
InUse ==
    Setup((l1 :> Open(Long, None)) @@ (l2 :> Open(Long, None)),
          (s1 :> Lesson({l1}, "room", {r1}, Short)) @@ (s2 :> Lesson({l1, l2}, "employee", {}, None)),
          (r1 :> Room(l1, None)) @@ (e1 :> Employee(l1, Long)) @@ (e2 :> None))

\* Employees' hours are narrowed, and s1 is not there any more.
Narrowed ==
    Setup((l1 :> Open(Long, Short)) @@ (l2 :> Open(Short, None)),
          (s1 :> None) @@ (s2 :> Lesson({l1}, "employee", {}, Long)),
          (r1 :> Room(l2, Short)) @@ (e1 :> Employee(l2, None)) @@ (e2 :> None))

\* l2 is not in use yet, s1 is a draft, the room is everywhere, and nobody has a calendar.
Started ==
    LET lesson == Lesson({l1, l2}, "employee", {}, None)
    IN  Setup((l1 :> Open(Long, None)) @@ (l2 :> Closed),
              (s1 :> [lesson EXCEPT !.active = FALSE]) @@ (s2 :> lesson),
              (r1 :> Room(None, None)) @@ (e1 :> None) @@ (e2 :> None))

Setups == {InUse, Narrowed, Started}

ClientSymmetry == Permutations(Clients)
=============================================================================
