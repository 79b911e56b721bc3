---------------------------- MODULE BookingSetup ----------------------------
(***************************************************************************)
(* The configuration of a website's booking system and the commands that   *)
(* change it: locations, services, rooms and equipment, and the calendars  *)
(* of employees.  A command is a request that runs query by query and uses *)
(* no transaction: it checks what it has read, and then replaces whole     *)
(* rows.  Meanwhile other requests run, and visitors book.                 *)
(***************************************************************************)
EXTENDS Naturals, FiniteSets

CONSTANTS
    None,
    Clients,       \* the requests that can be under way at once
    Commands,      \* the commands they issue
    Locations, Services, Rooms, Calendars, Bookings, \* ids of rows
    People,        \* who may have a calendar
    Hours,         \* the hours of a week
    Plans,         \* the weeks that forms are sent with; None: no hours of one's own
    LocationForms, ServiceForms, RoomForms, \* the rows that forms describe
    FirstSetups,   \* the configurations to begin with
    MaxRequests    \* bound on the number of requests

Ops == {"create location", "update location", "set staff hours",
        "delete location", "create service", "update service", "offer",
        "delete service", "create room", "update room", "delete room",
        "save profile", "acknowledge", "set team hours", "set services",
        "book"}

Resources == Rooms \cup Calendars
Kinds     == {"hours", "services"}  \* MANAGER_CHANGE_KINDS
Week      == (SUBSET Hours) \cup {None}

Location == [open: SUBSET Hours, staff: Week, active: BOOLEAN]

\* requires: the resource an appointment needs; pool: resourceIds, {} when null.
Service == [at: (SUBSET Locations) \ {{}}, requires: {"room", "employee"},
            pool: SUBSET Rooms, hours: Week, active: BOOLEAN]

\* offers: the services among the skills; note: managerChange, {} when null.
Resource == [location: Locations \cup {None}, hours: Week, active: BOOLEAN,
             owner: People \cup {None}, offers: SUBSET Services,
             note: SUBSET Kinds]

\* A booking keeps its service and its place for good, and its resource row until
\* it ends: it is still to come, over but not settled, or ended.
Booking == [service: Services, at: Locations, on: Resources,
            state: {"upcoming", "over", "ended"}]

Phases == {"locations", "resources", "fits", "feasible", "fill", "write",
           "dependents", "placed", "team", "pools", "referenced", "empty",
           "offers", "stop", "delete", "own", "move", "place", "frame",
           "offerable", "prepare", "save"}

Ids == Locations \cup Services \cup Resources \cup Bookings \cup People

\* A request about the row (or the person) id, which puts draft in the place of
\* row.  todo: the rows it has still to write; left: what it has still to read;
\* week: the hours it sets; wrote: it changed something.
Request == [op: Ops, phase: Phases,
            id: Ids \cup {None}, row: Ids \cup {None},
            draft: Location \cup Service \cup Resource \cup Booking \cup {None},
            todo: [Services \cup Calendars -> Service \cup Resource \cup {None}],
            left: SUBSET (Locations \cup Calendars), week: Week, wrote: BOOLEAN]

\* Ids are unique in the database, and None is nothing that is stored or asked for.
ASSUME SetupIds ==
    /\ Locations \cap (Services \cup Resources) = {}
    /\ Services \cap Resources = {}
    /\ Rooms \cap Calendars = {}
    /\ None \notin Ids
    /\ \A hours \in SUBSET Hours : hours # None
    /\ None \notin Location \cup Service \cup Resource \cup Booking \cup Request

ASSUME SetupConstants ==
    /\ Commands \subseteq Ops
    /\ Plans \subseteq Week
    /\ LocationForms \subseteq Location
    /\ ServiceForms \subseteq Service
    /\ RoomForms \subseteq Resource
    /\ \A r \in RoomForms : r.owner = None /\ r.offers = {} /\ r.note = {}
    /\ FirstSetups \subseteq [locations : [Locations -> Location \cup {None}],
                              services : [Services -> Service \cup {None}],
                              resources : [Resources -> Resource \cup {None}]]
    /\ MaxRequests \in Nat

VARIABLES
    locations, services, resources, bookings, \* the tables: row, or None
    req,    \* client -> its request, or None
    begun,  \* how many requests there were
    calm    \* no two requests overlapped, and none failed half way

tables == <<locations, services, resources, bookings>>
vars   == <<tables, req, begun, calm>>

TypeOK ==
    /\ locations \in [Locations -> Location \cup {None}]
    /\ services \in [Services -> Service \cup {None}]
    /\ resources \in [Resources -> Resource \cup {None}]
    /\ bookings \in [Bookings -> Booking \cup {None}]
    /\ req \in [Clients -> Request \cup {None}]
    /\ begun \in 0 .. MaxRequests
    /\ calm \in BOOLEAN

Init ==
    /\ \E setup \in FirstSetups :
        /\ locations = setup.locations
        /\ services = setup.services
        /\ resources = setup.resources
    /\ bookings = [b \in Bookings |-> None]
    /\ req = [c \in Clients |-> None]
    /\ begun = 0
    /\ calm = TRUE

-----------------------------------------------------------------------------
(* What the code computes from rows.                                       *)

Stored(table) == {i \in DOMAIN table : table[i] # None}

\* employeeHoursOf: what employees may work, cut to the opening hours.
EmployeeHours(l) == IF l.staff = None THEN l.open ELSE l.staff \cap l.open

\* outsideOf: the hours in which r is there and may not be.
OutsideOf(r, l) ==
    LET frame == IF r.owner = None THEN l.open ELSE EmployeeHours(l)
    IN  CASE r.hours # None -> r.hours \ frame
          [] r.hours = None /\ r.owner # None /\ l.staff # None -> l.open \ frame
          [] OTHER -> {}

FitsWeek(week, l) == week = None \/ week \subseteq l.open

\* Mutant: a week that follows the opening hours is never retargeted.
RetargetedOwnOnly(r, l) ==
    IF r.hours = None THEN r.hours ELSE r.hours \cap EmployeeHours(l)
\* retargetedWeek: the employee's week after the location's hours changed.
RetargetedWeek(r, l) ==
    LET own == IF r.hours = None THEN l.open ELSE r.hours
    IN  IF \/ r.hours = None /\ l.staff = None
           \/ own \subseteq EmployeeHours(l)
        THEN r.hours
        ELSE own \cap EmployeeHours(l)

ServesLocation(r, l) == r.location \in {None, l}

\* meetsRequirement, for a service that needs rooms.
MeetsRequirement(i, s, l) ==
    /\ resources[i].active
    /\ ServesLocation(resources[i], l)
    /\ s.pool # {} => i \in s.pool

\* assessLocation, unless blocked: employees may still join, so their requirements are left out.
CanFill(s, l) ==
    \/ s.requires = "employee"
    \/ \E i \in Rooms \cap Stored(resources) : MeetsRequirement(i, s, l)

\* bookings.isReferenced: ended bookings have no rows of resources.
ResourceIsReferenced(i) ==
    \E b \in Stored(bookings) : bookings[b].on = i /\ bookings[b].state # "ended"
LocationIsReferenced(l) == \E b \in Stored(bookings) : bookings[b].at = l
ServiceIsReferenced(s)  == \E b \in Stored(bookings) : bookings[b].service = s

\* Mutant: bookings whose time is still to come are not asked for.
HasUpcomingNever(i) == FALSE
\* bookings.hasUpcoming of a resource: an active row that ends later.
HasUpcoming(i) ==
    \E b \in Stored(bookings) : bookings[b].on = i /\ bookings[b].state = "upcoming"

-----------------------------------------------------------------------------
(* Requests.                                                               *)

At(c, ph) == req[c] # None /\ req[c].phase = ph

\* Those of rows that are to be written.
ToDo(ids, rows) ==
    [i \in Services \cup Calendars |-> IF i \in ids THEN rows[i] ELSE None]
Nothing == [i \in Services \cup Calendars |-> None]

\* A request arrives and its first query is answered.
BeginsWith(c, op, phase, id, draft, left, week) ==
    /\ op \in Commands
    /\ req[c] = None
    /\ begun < MaxRequests
    /\ begun' = begun + 1
    /\ calm' = (calm /\ \A d \in Clients : req[d] = None)
    /\ req' = [req EXCEPT ![c] =
                 [op |-> op, phase |-> phase, id |-> id, row |-> id,
                  draft |-> draft, todo |-> Nothing, left |-> left,
                  week |-> week, wrote |-> FALSE]]
    /\ UNCHANGED tables

Begins(c, op, phase, id, draft) == BeginsWith(c, op, phase, id, draft, {}, None)

Goes(c, r) == req' = [req EXCEPT ![c] = r] /\ UNCHANGED <<begun, calm>>
Goto(c, ph) == Goes(c, [req[c] EXCEPT !.phase = ph])

\* Refused or answered.
Ends(c) == req' = [req EXCEPT ![c] = None] /\ UNCHANGED <<begun, calm>>

\* An id that no row has and no other request is about to use.
Fresh(i, table) == table[i] = None /\ \A d \in Clients : req[d] # None => req[d].id # i

\* The query of this step only decides whether the request goes on.
Checks(c, ok, ph) ==
    /\ IF ok THEN Goto(c, ph) ELSE Ends(c)
    /\ UNCHANGED tables

\* A query fails: what was written before stays.
Fail(c) ==
    /\ req[c] # None
    /\ calm' = (calm /\ ~req[c].wrote)
    /\ req' = [req EXCEPT ![c] = None]
    /\ UNCHANGED <<tables, begun>>

-----------------------------------------------------------------------------
(* replaceService: every change of a stored service, and its creation      *)

CreateService(c) ==
    \E s \in Services, f \in ServiceForms :
        /\ Fresh(s, services)
        /\ Begins(c, "create service", "locations", s, f)

UpdateService(c) ==
    \E s \in Stored(services), f \in ServiceForms :
        Begins(c, "update service", "locations", s, f)

\* createBookableServiceDraft: at least one location.
OfferedSomewhere(at) == at # {}

\* OfferServiceAtLocation, from the locations as read.
Offer(c) ==
    \E s \in Stored(services), l \in Locations :
      \E at \in {services[s].at \cup {l}, services[s].at \ {l}} :
        /\ OfferedSomewhere(at)
        /\ Begins(c, "offer", "locations", s,
                  [services[s] EXCEPT !.at = at])

CheckLocations(c) ==
    /\ At(c, "locations")
    /\ Checks(c, req[c].draft.at \subseteq Stored(locations), "resources")

\* Every id in a requirement names a resource.
KnownPool(s) == s.pool \subseteq Stored(resources)

CheckResources(c) ==
    /\ At(c, "resources")
    /\ Checks(c, KnownPool(req[c].draft), "fits")

\* checkServiceFitsLocations; a service that is switched off need not be bookable.
FitsLocations(s) == \A l \in s.at \cap Stored(locations) : FitsWeek(s.hours, locations[l])

CheckServiceFits(c) ==
    /\ At(c, "fits")
    /\ Checks(c, FitsLocations(req[c].draft),
              IF req[c].draft.active THEN "feasible" ELSE "write")

\* checkServiceFeasibility: the locations are listed, then the resources.
ListActiveLocations(c) ==
    /\ At(c, "feasible")
    /\ Goes(c, [req[c] EXCEPT !.phase = "fill",
                 !.left = {l \in req[c].draft.at \cap Stored(locations) :
                             locations[l].active}])
    /\ UNCHANGED tables

RequireBookable(c) ==
    /\ At(c, "fill")
    /\ Checks(c, \E l \in req[c].left : CanFill(req[c].draft, l), "write")

\* services.update finds the row or answers that there is none; services.create.
WriteService(c) ==
    LET r == req[c]
    IN  /\ At(c, "write")
        /\ r.op \in {"create service", "update service", "offer", "delete location"}
        /\ IF r.op # "create service" /\ services[r.row] = None
           THEN UNCHANGED services /\ Ends(c)
           ELSE /\ services' = [services EXCEPT ![r.row] = r.draft]
                /\ IF r.op = "delete location"
                   THEN Goes(c, [r EXCEPT !.phase = "stop", !.wrote = TRUE])
                   ELSE Ends(c)
        /\ UNCHANGED <<locations, resources, bookings>>

DeleteService(c) ==
    \E s \in Stored(services) :
        Begins(c, "delete service", "referenced", s, None)

-----------------------------------------------------------------------------
(* replaceLocation                                                         *)

CreateLocation(c) ==
    \E l \in Locations, f \in LocationForms :
        /\ Fresh(l, locations)
        /\ Begins(c, "create location", "write", l, f)

UpdateLocation(c) ==
    \E l \in Stored(locations), f \in LocationForms :
        Begins(c, "update location", "dependents", l, f)

\* SetStaffHours: all else is what was read.
SetStaffHours(c) ==
    \E l \in Stored(locations), w \in Plans :
        Begins(c, "set staff hours", "dependents", l,
               [locations[l] EXCEPT !.staff = w])

\* checkLocationKeepsDependents: the services, then what is placed there.
CheckServicesHere(c) ==
    LET r == req[c]
    IN  /\ At(c, "dependents")
        /\ Checks(c, \A s \in Stored(services) :
                        r.id \in services[s].at => FitsWeek(services[s].hours, r.draft),
                  "placed")

CheckPlaced(c) ==
    LET r == req[c]
    IN  /\ At(c, "placed")
        /\ Checks(c, \A i \in Rooms \cap Stored(resources) :
                        resources[i].location = r.id => FitsWeek(resources[i].hours, r.draft),
                  "write")

WriteLocation(c) ==
    LET r == req[c]
    IN  /\ At(c, "write")
        /\ r.op \in {"create location", "update location", "set staff hours"}
        /\ IF r.op = "create location"
           THEN locations' = [locations EXCEPT ![r.id] = r.draft] /\ Ends(c)
           ELSE IF locations[r.id] = None
           THEN UNCHANGED locations /\ Ends(c)
           ELSE /\ locations' = [locations EXCEPT ![r.id] = r.draft]
                /\ Goes(c, [r EXCEPT !.phase = "team", !.wrote = TRUE])
        /\ UNCHANGED <<services, resources, bookings>>

Noted(r, kind) == [r EXCEPT !.note = @ \cup {kind}]

\* retargetEmployees: those whose week changes, as they are listed, with the new week.
ListTeam(c) ==
    LET r == req[c]
        moved == {e \in Calendars \cap Stored(resources) :
                    /\ resources[e].location = r.id
                    /\ RetargetedWeek(resources[e], r.draft) # resources[e].hours}
    IN  /\ At(c, "team")
        /\ IF moved = {} THEN Ends(c)
           ELSE Goes(c, [r EXCEPT !.phase = "save",
                  !.todo = ToDo(moved, [e \in moved |->
                    Noted([resources[e] EXCEPT
                             !.hours = RetargetedWeek(resources[e], r.draft)], "hours")])])
        /\ UNCHANGED tables

\* resources.update stores the whole row where there is one, and its location, which
\* the foreign key wants.
IsUpdated(e, row) ==
    resources[e] # None /\ row.location \in Stored(locations) \cup {None}

\* One employee after the other, in any order; one that is not updated is an error.
SaveNext(c) ==
    LET r == req[c]
    IN  /\ At(c, "save")
        /\ \E e \in Stored(r.todo) :
            LET rest == [r.todo EXCEPT ![e] = None]
            IN  IF IsUpdated(e, r.todo[e])
                THEN /\ resources' = [resources EXCEPT ![e] = r.todo[e]]
                     /\ IF Stored(rest) = {} THEN Ends(c)
                        ELSE Goes(c, [r EXCEPT !.todo = rest, !.wrote = TRUE])
                ELSE UNCHANGED resources /\ Ends(c)
        /\ UNCHANGED <<locations, services, bookings>>

-----------------------------------------------------------------------------
(* Deletions: everything is asked first.                                   *)

DeleteLocation(c) ==
    \E l \in Stored(locations) :
        Begins(c, "delete location", "referenced", l, None)

DeleteRoom(c) ==
    \E i \in Rooms \cap Stored(resources) :
        Begins(c, "delete room", "pools", i, None)

\* No service asks for the room by name.
Unnamed(i) == \A s \in Stored(services) : i \notin services[s].pool

CheckPools(c) ==
    /\ At(c, "pools")
    /\ Checks(c, Unnamed(req[c].id), "referenced")

CheckReferenced(c) ==
    LET r == req[c]
    IN  /\ At(c, "referenced")
        /\ CASE r.op = "delete location" -> Checks(c, ~LocationIsReferenced(r.id), "empty")
             [] r.op = "delete service" -> Checks(c, ~ServiceIsReferenced(r.id), "delete")
             [] r.op = "delete room" -> Checks(c, ~ResourceIsReferenced(r.id), "delete")

\* Nothing is placed there.
CheckEmpty(c) ==
    LET r == req[c]
    IN  /\ At(c, "empty")
        /\ Checks(c, \A i \in Stored(resources) : resources[i].location # r.id, "offers")

\* The services that stop being offered there, unless one is offered only there.
ListOffers(c) ==
    LET r == req[c]
        offered == {s \in Stored(services) : r.id \in services[s].at}
    IN  /\ At(c, "offers")
        /\ IF \E s \in offered : services[s].at = {r.id} THEN Ends(c)
           ELSE Goes(c, [r EXCEPT !.phase = "stop",
                           !.todo = ToDo(offered, services)])
        /\ UNCHANGED tables

\* stopOffering the next service, in the order of their names; the location goes last.
StopOffering(c) ==
    LET r == req[c]
    IN  /\ At(c, "stop")
        /\ IF Stored(r.todo) = {} THEN Goto(c, "delete")
           ELSE \E s \in Stored(r.todo) :
                  Goes(c, [r EXCEPT !.phase = "locations", !.row = s,
                             !.draft = [r.todo[s] EXCEPT !.at = @ \ {r.id}],
                             !.todo = [@ EXCEPT ![s] = None]])
        /\ UNCHANGED tables

\* Mutant: the foreign keys cascade or are not there.
UnrestrictedAlways(i) == TRUE
\* ON DELETE RESTRICT: the foreign keys of bookings, their rows, and resources.
Unrestricted(i) ==
    /\ i \in Locations => /\ ~LocationIsReferenced(i)
                          /\ \A k \in Stored(resources) : resources[k].location # i
    /\ i \in Services => ~ServiceIsReferenced(i)
    /\ i \in Rooms => ~ResourceIsReferenced(i)

Delete(c) ==
    LET i == req[c].id
    IN  /\ At(c, "delete")
        /\ IF Unrestricted(i)
           THEN /\ locations' = [k \in Locations |-> IF k = i THEN None ELSE locations[k]]
                /\ services' = [k \in Services |-> IF k = i THEN None ELSE services[k]]
                /\ resources' = [k \in Resources |-> IF k = i THEN None ELSE resources[k]]
           ELSE UNCHANGED <<locations, services, resources>>
        /\ Ends(c)
        /\ UNCHANGED bookings

-----------------------------------------------------------------------------
(* Rooms, and the calendars of employees                                   *)

CreateRoom(c) ==
    \E i \in Rooms, f \in RoomForms :
        /\ Fresh(i, resources)
        /\ Begins(c, "create room", "place", i, f)

UpdateRoom(c) ==
    \E i \in Rooms \cap Stored(resources), f \in RoomForms :
        Begins(c, "update room", "place", i, f)

OfferedAt(l) == {s \in Stored(services) : l \in services[s].at}

Owned(p) == {e \in Calendars \cap Stored(resources) : resources[e].owner = p}

\* SaveOwnProfile; requireOfferable is its first query.
SaveProfile(c) ==
    \E p \in People, l \in Locations, w \in Plans :
      \E o \in SUBSET OfferedAt(l) :
        Begins(c, "save profile", "own", p,
               [location |-> l, hours |-> w, active |-> TRUE, owner |-> p,
                offers |-> o, note |-> {}])

\* listAssignedTo: one calendar of the person, if there is one.
FindOwn(c) ==
    LET r == req[c]
    IN  /\ At(c, "own")
        /\ IF Owned(r.id) = {}
           THEN Goes(c, [r EXCEPT !.phase = "place", !.row = None])
           ELSE \E e \in Owned(r.id) :
                  Goes(c, [r EXCEPT !.row = e,
                             !.phase = IF resources[e].location = r.draft.location
                                       THEN "place" ELSE "move"])
        /\ UNCHANGED tables

\* requireNoUpcomingMove.
CheckMove(c) ==
    /\ At(c, "move")
    /\ Checks(c, ~HasUpcoming(req[c].row), "place")

\* checkLocationReference.
CheckPlace(c) ==
    /\ At(c, "place")
    /\ Checks(c, req[c].draft.location \in Stored(locations) \cup {None}, "frame")

\* checkResourceFitsLocation; SetTeamHours then goes on to the next, or to saving.
CheckFrame(c) ==
    LET r   == req[c]
        l   == r.draft.location
        fit == l \in Stored(locations) => OutsideOf(r.draft, locations[l]) = {}
    IN  /\ At(c, "frame")
        /\ IF ~fit THEN Ends(c)
           ELSE IF r.op # "set team hours" THEN Goto(c, "write")
           ELSE Goes(c, [r EXCEPT !.phase = IF r.left = {} THEN "save" ELSE "prepare",
                           !.todo = [@ EXCEPT ![r.row] = r.draft]])
        /\ UNCHANGED tables

\* resources.create and resources.update; the foreign key wants the location.
WriteResource(c) ==
    LET r == req[c]
        target == IF r.row = None THEN {e \in Calendars : resources[e] = None} ELSE {r.row}
    IN  /\ At(c, "write")
        /\ r.op \in {"create room", "update room", "save profile", "acknowledge", "set services"}
        /\ \E i \in target :
             resources' =
               IF /\ r.draft.location \in Stored(locations) \cup {None}
                  /\ resources[i] # None \/ r.row = None \/ r.op = "create room"
               THEN [resources EXCEPT ![i] = r.draft] ELSE resources
        /\ Ends(c)
        /\ UNCHANGED <<locations, services, bookings>>

\* AcknowledgeManagerChange.
Acknowledge(c) ==
    \E p \in People : \E e \in Owned(p) :
        /\ resources[e].note # {}
        /\ Begins(c, "acknowledge", "write", e, [resources[e] EXCEPT !.note = {}])

\* SetTeamMemberServices.
SetServices(c) ==
    \E e \in Calendars \cap Stored(resources), o \in SUBSET Services :
        Begins(c, "set services", "offerable", e,
               IF o = resources[e].offers THEN resources[e]
               ELSE Noted([resources[e] EXCEPT !.offers = o], "services"))

CheckOfferable(c) ==
    LET r == req[c]
    IN  /\ At(c, "offerable")
        /\ Checks(c, r.draft.offers \subseteq OfferedAt(r.draft.location), "write")

\* SetTeamHours: everybody is prepared before anybody is saved.
SetTeamHours(c) ==
    \E team \in (SUBSET Calendars) \ {{}}, w \in Plans :
        BeginsWith(c, "set team hours", "prepare", None, None, team, w)

\* Mutant: the employee is told only of hours that they had set themselves.
WithWeekOwnOnly(r, w) ==
    LET s == [r EXCEPT !.hours = w] IN IF r.hours \in {None, w} THEN s ELSE Noted(s, "hours")
\* prepare: the new calendar, with a note if its week is another one.
WithWeek(r, w) == IF r.hours = w THEN r ELSE Noted([r EXCEPT !.hours = w], "hours")

Prepare(c) ==
    LET r == req[c]
    IN  /\ At(c, "prepare")
        /\ \E e \in r.left :
             IF resources[e] = None THEN Ends(c)
             ELSE Goes(c, [r EXCEPT !.phase = "frame", !.row = e, !.left = @ \ {e},
                             !.draft = WithWeek(resources[e], r.week)])
        /\ UNCHANGED tables

-----------------------------------------------------------------------------
(* Visitors, in the little that the configuration meets of them: a slot is *)
(* assessed on what is configured, and the booking is written later.       *)

MayServe(i, s, l) ==
    IF services[s].requires = "room" THEN i \in Rooms /\ MeetsRequirement(i, services[s], l)
    ELSE i \in Calendars /\ ServesLocation(resources[i], l) /\ s \in resources[i].offers

Book(c) ==
    \E b \in Bookings, s \in Stored(services), i \in Stored(resources) :
      \E l \in services[s].at \cap Stored(locations) :
        /\ Fresh(b, bookings)
        /\ services[s].active /\ locations[l].active
        /\ MayServe(i, s, l)
        /\ Begins(c, "book", "write", b,
                  [service |-> s, at |-> l, on |-> i, state |-> "upcoming"])

\* The insert; the foreign keys want the service, the location and the resource.
WriteBooking(c) ==
    LET r == req[c]
    IN  /\ At(c, "write") /\ r.op = "book"
        /\ IF /\ services[r.draft.service] # None
              /\ locations[r.draft.at] # None
              /\ resources[r.draft.on] # None
           THEN bookings' = [bookings EXCEPT ![r.id] = r.draft]
           ELSE UNCHANGED bookings
        /\ Ends(c)
        /\ UNCHANGED <<locations, services, resources>>

\* Its time passes, and it is cancelled, completed or released: its rows go.
Settle(b) ==
    /\ bookings[b] # None
    /\ \E state \in {"over", "ended"} :
        /\ bookings[b].state \in {"upcoming", "over"} \ {state}
        /\ bookings' = [bookings EXCEPT ![b].state = state]
    /\ UNCHANGED <<locations, services, resources, req, begun, calm>>

-----------------------------------------------------------------------------

Step(c) ==
    \/ CreateService(c) \/ UpdateService(c) \/ Offer(c) \/ CheckLocations(c)
    \/ CheckResources(c) \/ CheckServiceFits(c) \/ ListActiveLocations(c)
    \/ RequireBookable(c) \/ WriteService(c) \/ DeleteService(c)
    \/ CreateLocation(c) \/ UpdateLocation(c) \/ SetStaffHours(c)
    \/ CheckServicesHere(c) \/ CheckPlaced(c) \/ WriteLocation(c)
    \/ ListTeam(c) \/ SaveNext(c)
    \/ DeleteLocation(c) \/ DeleteRoom(c) \/ CheckPools(c) \/ CheckReferenced(c)
    \/ CheckEmpty(c) \/ ListOffers(c) \/ StopOffering(c) \/ Delete(c)
    \/ CreateRoom(c) \/ UpdateRoom(c) \/ SaveProfile(c) \/ FindOwn(c)
    \/ CheckMove(c) \/ CheckPlace(c) \/ CheckFrame(c) \/ WriteResource(c)
    \/ Acknowledge(c) \/ SetServices(c) \/ CheckOfferable(c)
    \/ SetTeamHours(c) \/ Prepare(c)
    \/ Book(c) \/ WriteBooking(c) \/ Fail(c)

Next == (\E c \in Clients : Step(c)) \/ (\E b \in Bookings : Settle(b))

Spec == Init /\ [][Next]_vars
=============================================================================
