SPECIFICATION CountSpec
CONSTANTS
    None = None
    Gone = Gone
    b1 = b1  b2 = b2  b3 = b3
    c1 = c1  c2 = c2  c3 = c3
    r1 = r1  r2 = r2
    talk = talk  room = room
    ann = ann  bob = bob
    Ids = {b1, b2, b3}
    Clients = {c1, c2}
    Resources = {r1, r2}
    Offerings = {talk}
    Emails = {ann, bob}
    Crews <- BothCrews
    Starts <- StartsNear
    Prep <- Unit
    Length <- Unit
    Cleanup <- Zero
    Places <- Three
    MaxGroup <- Unit
    Seats <- FewerOnR2
    Notice <- Zero
    MaxReleased = 1
    Commands = {"hold", "confirm", "sweep", "move"}
    Askers = {"customer"}
    HoldTime = 1
    MaxLiveHolds = 1
    MaxPerEmail = 5
    MaxMoves = 1
    MoveBound = 1
    CancelActors <- Anyone
    MoveActors <- OnlyCustomers
    Deadline <- Zero
    MaxTime = 1
SYMMETRY Symmetry
INVARIANTS BookingInv NoDoubleBooking SessionsSound HoldsBounded
PROPERTIES CustomerKept OnlyLiveBookingsRefuse
CHECK_DEADLOCK FALSE
