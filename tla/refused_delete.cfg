SPECIFICATION Spec
CONSTANTS
    None = None
    l1 = l1  l2 = l2  s1 = s1  s2 = s2  r1 = r1  e1 = e1  e2 = e2
    b1 = b1  p1 = p1  h1 = h1  h2 = h2  c1 = c1  c2 = c2
    Clients = {c1}
    Commands = {"delete location"}
    Locations = {l1, l2}
    Services = {s1, s2}
    Rooms = {r1}
    Calendars = {e1, e2}
    Bookings = {b1}
    People = {p1}
    Hours = {h1, h2}
    Plans <- Weeks
    LocationForms <- Places
    ServiceForms <- Lessons
    RoomForms <- RoomRows
    FirstSetups <- Setups
    MaxRequests = 1
PROPERTIES RefusalChangesNothing
CHECK_DEADLOCK FALSE
