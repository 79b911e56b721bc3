SPECIFICATION WatchFairSpec
CONSTANTS
    None = None
    Gone = Gone
    c1 = c1  c2 = c2
    a1 = a1  a2 = a2  a3 = a3
    x1 = x1
    admin = admin  editor = editor
    Clients = {c1, c2}
    People = {a1, a2, a3}
    Roles = {admin, editor}
    Admin = admin
    Links = {x1}
    Sites <- Everywhere
INVARIANTS AccessInv AdminKept
PROPERTIES NeverNone RequestsEnd
CHECK_DEADLOCK FALSE
