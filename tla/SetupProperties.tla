--------------------------- MODULE SetupProperties ---------------------------
(***************************************************************************)
(* What the configuration promises.  The store knows no transaction and no *)
(* version here: of what is checked before a write, only foreign keys hold *)
(* however requests overlap; the rest is stated for requests that neither  *)
(* overlapped nor failed half way (calm).                                  *)
(***************************************************************************)
EXTENDS BookingSetup

Quiet == calm /\ \A c \in Clients : req[c] = None

\* However requests overlap and fail, a booking keeps the service and the place it was
\* made for, and until it ends the resource, whose own place exists too: the checks
\* before a deletion are overtaken by bookings, the foreign keys are not.
ReferencesKept ==
    /\ \A b \in Stored(bookings) :
        /\ services[bookings[b].service] # None
        /\ locations[bookings[b].at] # None
        /\ bookings[b].state # "ended" => resources[bookings[b].on] # None
    /\ \A i \in Stored(resources) : resources[i].location \in Stored(locations) \cup {None}

\* The ids that services hold in plain lists, which no foreign key guards, name
\* rows that exist (reference-checks.ts), and each service is offered somewhere.
ListsKept ==
    calm => \A s \in Stored(services) :
              /\ services[s].at # {}
              /\ services[s].at \subseteq Stored(locations)
              /\ services[s].pool \subseteq Stored(resources)

\* Row r of a resource is at location row l only when it may be there.
Fits(r, l) ==
    IF r.owner = None THEN FitsWeek(r.hours, l)
    ELSE (IF r.hours = None THEN l.open ELSE r.hours) \subseteq EmployeeHours(l)

\* Where it is placed, if it is.
FitsWhere(r) == r.location \in Stored(locations) => Fits(r, locations[r.location])

\* Nothing is available at a location beyond the hours it may be there: services,
\* rooms, employees, whichever of the two sides changed (hours-fit-checks.ts).
HoursContained ==
    Quiet =>
      /\ \A s \in Stored(services) : FitsLocations(services[s])
      /\ \A i \in Stored(resources) : FitsWhere(resources[i])

\* An employee stays where the visitors of the upcoming bookings will look for them.
BookedStay ==
    calm => \A b \in Stored(bookings) :
              bookings[b].state = "upcoming" =>
                LET r == resources[bookings[b].on]
                IN  r.owner # None => r.location = bookings[b].at

\* What may become of calendar old without its owner: they are told of it.
Revised(old, new) ==
    /\ old.note \subseteq new.note
    /\ new.hours # old.hours => "hours" \in new.note
    /\ new.offers # old.offers => "services" \in new.note
    /\ new.location = old.location /\ new.owner = old.owner

\* What a step makes of calendar e, if its owner did not end a request by it.
Told(e) ==
    LET byOwner == \E c \in Clients :
                     /\ req[c] # None /\ req'[c] = None
                     /\ req[c].op \in {"save profile", "acknowledge"}
    IN  calm' /\ resources[e] # None /\ resources'[e] # resources[e] /\ ~byOwner =>
          Revised(resources[e], resources'[e])

\* Nobody's calendar is changed behind their back: whatever somebody else changes on it
\* is noted, and a note stays until the employee saves or acknowledges.
NobodyBehindTheirBack == [][\A e \in Calendars : Told(e)]_vars

-----------------------------------------------------------------------------
(* What holds while requests run, and lets the promises hold again when they *)
(* have ended.                                                             *)

\* The setups to begin with keep the promises.
ASSUME FirstSound ==
    \A setup \in FirstSetups :
      LET place(l)  == IF l = None THEN None ELSE setup.locations[l]
          stands(i) == LET r == setup.resources[i]
                       IN  /\ i \in Calendars <=> r.owner # None
                           /\ r.owner # None => r.location # None
                           /\ r.location # None => /\ place(r.location) # None
                                                  /\ Fits(r, place(r.location))
          offered(s) == LET r == setup.services[s]
                        IN  /\ \A l \in r.at : /\ place(l) # None
                                               /\ FitsWeek(r.hours, place(l))
                            /\ \A i \in r.pool : setup.resources[i] # None
      IN  /\ \A i \in Resources : setup.resources[i] # None => stands(i)
          /\ \A s \in Services : setup.services[s] # None => offered(s)

\* A calendar is somebody's and somewhere, a room is nobody's.
KindFits(i, r) == /\ i \in Calendars <=> r.owner # None
                  /\ r.owner # None => r.location # None

Rewrites   == {"create service", "update service", "offer"}
Rehours    == {"update location", "set staff hours"}
Rewriting  == {"locations", "resources", "fits", "feasible", "fill", "write"}
Steps(op) ==
    CASE op \in Rewrites -> Rewriting
      [] op = "delete location" ->
            {"referenced", "empty", "offers", "stop", "delete"} \cup Rewriting
      [] op = "delete service" -> {"referenced", "delete"}
      [] op = "delete room" -> {"pools", "referenced", "delete"}
      [] op \in {"create location", "acknowledge", "book"} -> {"write"}
      [] op \in Rehours -> {"dependents", "placed", "write", "team", "save"}
      [] op \in {"create room", "update room"} -> {"place", "frame", "write"}
      [] op = "save profile" -> {"own", "move", "place", "frame", "write"}
      [] op = "set services" -> {"offerable", "write"}
      [] op = "set team hours" -> {"prepare", "frame", "save"}

\* Request r is about to put its draft in the place of a stored row of resources.
Replacing(r) ==
    \/ r.op = "set team hours" /\ r.phase = "frame"
    \/ r.op \in {"create room", "update room", "acknowledge", "set services"}

\* Request r works on rows of the tables of its command.
Shaped(r) ==
    /\ r.phase \in Steps(r.op)
    /\ r.op \in Rewrites => r.row \in Services /\ r.draft \in Service
    /\ r.op = "delete location" =>
          /\ r.id \in Locations
          /\ Stored(r.todo) \subseteq Services
          /\ \A s \in Stored(r.todo) : r.todo[s] \in Service /\ r.todo[s].at # {r.id}
          /\ r.phase \in Rewriting => /\ r.row \in Services /\ r.draft \in Service
                                     /\ r.id \notin r.draft.at
    /\ r.op = "delete service" => r.id \in Services
    /\ r.op = "delete room" => r.id \in Rooms
    /\ r.op \in Rehours \cup {"create location"} => r.id \in Locations /\ r.draft \in Location
    /\ r.op \in Rehours \cup {"set team hours"} =>
          \A e \in Stored(r.todo) : /\ e \in Calendars /\ r.todo[e] \in Resource
                                   /\ KindFits(e, r.todo[e])
    /\ r.op \in Rehours /\ r.phase \in {"team", "save"} => r.wrote
    /\ r.op \in Rehours /\ r.phase # "save" => Stored(r.todo) = {}
    /\ r.op = "set team hours" => r.left \subseteq Calendars
    /\ Replacing(r) => r.row \in Resources /\ r.draft \in Resource /\ KindFits(r.row, r.draft)
    /\ r.op \in {"create room", "update room"} => r.row \in Rooms
    /\ r.op = "set team hours" /\ r.phase = "frame" => r.row \in Calendars
    /\ r.op = "save profile" =>
          /\ r.draft \in Resource /\ r.draft.owner # None /\ r.draft.location # None
          /\ r.phase # "own" => r.row \in Calendars \cup {None}
          /\ r.phase = "move" => r.row # None
    /\ r.op = "book" =>
          r.id \in Bookings /\ r.draft \in Booking /\ r.draft.state = "upcoming"

\* Well typed, and the references kept, whatever overlaps.
Sound ==
    /\ TypeOK
    /\ ReferencesKept
    /\ \A i \in Stored(resources) : KindFits(i, resources[i])
    /\ \A c \in Clients : req[c] # None => Shaped(req[c])

\* What a request has checked still holds, as nobody else writes.
ServiceChecked(r) ==
    r.op \in Rewrites \cup {"delete location"} =>
        /\ r.phase \in Rewriting \ {"locations"} => r.draft.at \subseteq Stored(locations)
        /\ r.phase \in Rewriting \ {"locations", "resources"} => KnownPool(r.draft)
        /\ r.phase \in {"feasible", "fill", "write"} => FitsLocations(r.draft)

DeletionChecked(r) ==
    /\ r.op = "delete location" /\ r.phase \in Rewriting \cup {"stop", "delete"} =>
          \A s \in Stored(services) : r.id \in services[s].at =>
             \/ s \in Stored(r.todo) /\ r.phase # "delete"
             \/ s = r.row /\ r.phase \in Rewriting
    /\ r.op = "delete room" /\ r.phase # "pools" => Unnamed(r.id)

LocationChecked(r) ==
    /\ r.op = "create location" => locations[r.id] = None
    /\ r.op \in Rehours =>
          /\ r.phase \in {"placed", "write"} =>
                \A s \in Stored(services) :
                   r.id \in services[s].at => FitsWeek(services[s].hours, r.draft)
          /\ r.phase = "write" =>
                \A i \in Rooms \cap Stored(resources) :
                   resources[i].location = r.id => FitsWeek(resources[i].hours, r.draft)
          /\ r.phase \in {"team", "save"} => locations[r.id] = r.draft

TeamChecked(r) ==
    /\ r.op \in Rehours \cup {"set team hours"} =>
          \A e \in Stored(r.todo) : /\ resources[e] # None
                                    /\ Revised(resources[e], r.todo[e])
                                    /\ FitsWhere(r.todo[e])
    /\ r.op = "set team hours" /\ r.phase = "frame" =>
          resources[r.row] # None /\ Revised(resources[r.row], r.draft)

RowChecked(r) ==
    /\ r.op \in {"create room", "update room", "save profile"} /\ r.phase = "write" =>
          FitsWhere(r.draft)
    /\ r.op \in {"acknowledge", "set services"} =>
          /\ resources[r.row] # None
          /\ r.draft.hours = resources[r.row].hours
          /\ r.draft.location = resources[r.row].location
          /\ r.draft.owner = resources[r.row].owner
          /\ r.op = "set services" => Revised(resources[r.row], r.draft)
    /\ r.op = "save profile" /\ r.phase # "own" /\ r.row # None =>
          /\ resources[r.row] # None
          /\ r.phase # "move" =>
                resources[r.row].location = r.draft.location \/ ~HasUpcoming(r.row)
    /\ r.op = "book" => /\ resources[r.draft.on] # None
                        /\ ServesLocation(resources[r.draft.on], r.draft.at)

Ready(r) == /\ ServiceChecked(r) /\ DeletionChecked(r) /\ LocationChecked(r)
            /\ TeamChecked(r) /\ RowChecked(r)

\* Request r has still to bring employee e inside the hours it has set.
Awaited(r, e) ==
    /\ r.op \in Rehours
    /\ e \in Calendars
    /\ \/ r.phase = "team" /\ resources[e].location = r.id
       \/ r.phase = "save" /\ e \in Stored(r.todo)

\* The hours, but for the employees that a request has still to retarget.
HoursAwait ==
    calm =>
      /\ \A s \in Stored(services) : FitsLocations(services[s])
      /\ \A i \in Stored(resources) :
            FitsWhere(resources[i]) \/ \E c \in Clients : req[c] # None /\ Awaited(req[c], i)

OnlyOne ==
    calm => \A c \in Clients :
              req[c] # None => /\ Ready(req[c])
                               /\ \A d \in Clients \ {c} : req[d] = None

\* What is stored is well typed and refers to what exists; while requests do not
\* overlap, lists and hours are right but for what the one request has still to do.
SetupInv == Sound /\ ListsKept /\ BookedStay /\ OnlyOne /\ HoursAwait

-----------------------------------------------------------------------------
\* What delete-booking-location.ts says: everything is checked before anything is
\* changed, so a refusal leaves the setup as it was.
RefusalChangesNothing ==
    [][\A c \in Clients :
        /\ req[c] # None /\ req'[c] = None
        /\ req[c].op = "delete location"
        /\ calm' /\ locations'[req[c].id] # None
        => ~req[c].wrote]_vars
=============================================================================
