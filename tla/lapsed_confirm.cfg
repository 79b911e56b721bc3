SPECIFICATION Spec
CONSTANTS
    None = None
    Gone = Gone
    b1 = b1  b2 = b2  b3 = b3
    c1 = c1  c2 = c2  c3 = c3
    r1 = r1  r2 = r2
    talk = talk  room = room
    ann = ann  bob = bob
    Ids = {b1, b2}
    Clients = {c1, c2}
    Resources = {r1, r2}
    Offerings = {talk}
    Emails = {ann, bob}
    Crews <- BothCrews
    Starts <- StartsNear
    Prep <- Unit
    Length <- Unit
    Cleanup <- Zero
    Places <- Unit
    MaxGroup <- Unit
    Seats <- AnySeats
    Notice <- Zero
    MaxReleased = 1
    Commands = {"hold", "confirm", "release", "sweep"}
    Askers = {"customer", "staff"}
    HoldTime = 1
    MaxLiveHolds = 2
    MaxPerEmail = 5
    MaxMoves = 1
    MoveBound = 2
    CancelActors <- Anyone
    MoveActors <- Anyone
    Deadline <- Zero
    MaxTime = 2
SYMMETRY Symmetry
PROPERTIES LapsedNeverConfirmed
CHECK_DEADLOCK FALSE
