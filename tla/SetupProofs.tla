----------------------------- MODULE SetupProofs -----------------------------
(***************************************************************************)
(* Proofs about the configuration of a booking system and the commands     *)
(* that change it, for every value of their constants.                     *)
(***************************************************************************)
EXTENDS SetupProperties, TLAPS

\* The tables alone: typed, with rows of the right kind.
Tables ==
    /\ locations \in [Locations -> Location \cup {None}]
    /\ services \in [Services -> Service \cup {None}]
    /\ resources \in [Resources -> Resource \cup {None}]
    /\ bookings \in [Bookings -> Booking \cup {None}]
    /\ \A i \in Stored(resources) : KindFits(i, resources[i])

\* The requests alone, and what is counted of them.
Requests ==
    /\ req \in [Clients -> Request \cup {None}]
    /\ \A c \in Clients : req[c] # None => Shaped(req[c])
    /\ begun \in 0 .. MaxRequests
    /\ calm \in BOOLEAN

LEMMA SoundParts == Sound <=> Tables /\ Requests /\ ReferencesKept
BY DEF Sound, TypeOK, Tables, Requests

\* No row and no request is None.
LEMMA NotNone ==
    /\ \A r \in Location : r # None
    /\ \A r \in Service : r # None
    /\ \A r \in Resource : r # None
    /\ \A r \in Booking : r # None
    /\ \A r \in Request : r # None
BY SetupIds

-----------------------------------------------------------------------------
(* Requests that begin, go on and end while the tables stay as they are.   *)

\* What the promises need of a request to go on as q, or to end: whom it was still to
\* bring inside the hours are there, or are still awaited.
Carried(c, q) ==
    \A i \in Stored(resources) :
        Awaited(req[c], i) => Awaited(q, i) \/ FitsWhere(resources[i])
Released(c) ==
    \A i \in Stored(resources) : Awaited(req[c], i) => FitsWhere(resources[i])

LEMMA ReadyFrame ==
    ASSUME UNCHANGED tables, NEW q, Ready(q)
    PROVE  Ready(q)'
<1>1. ServiceChecked(q)'
  BY DEF Ready, ServiceChecked, tables, Stored, KnownPool, FitsLocations, FitsWeek
<1>2. DeletionChecked(q)'
  BY DEF Ready, DeletionChecked, tables, Stored, Unnamed
<1>3. LocationChecked(q)'
  BY DEF Ready, LocationChecked, tables, Stored, FitsWeek
<1>4. \A r : FitsWhere(r)' = FitsWhere(r)
  BY DEF tables, FitsWhere, Fits, FitsWeek, EmployeeHours, Stored
<1>5. TeamChecked(q)'
  BY <1>4 DEF Ready, TeamChecked, tables, Stored, Revised
<1>6. RowChecked(q)'
  BY <1>4 DEF Ready, RowChecked, tables, Stored, Revised, HasUpcoming, ServesLocation
<1>. QED
  BY <1>1, <1>2, <1>3, <1>5, <1>6 DEF Ready

LEMMA TablesFrame ==
    ASSUME SetupInv, UNCHANGED tables, calm' => calm
    PROVE  Tables' /\ ReferencesKept' /\ ListsKept' /\ BookedStay'
BY SoundParts DEF SetupInv, tables, Tables, ReferencesKept, ListsKept, BookedStay, Stored,
       KindFits

LEMMA Onward ==
    ASSUME SetupInv, NEW c \in Clients, req[c] # None, NEW q \in Request, Shaped(q),
           calm => Ready(q) /\ Carried(c, q), Goes(c, q), UNCHANGED tables
    PROVE  SetupInv'
<1>1. q # None
  BY NotNone
<1>2. calm' = calm /\ req' = [req EXCEPT ![c] = q] /\ begun' = begun
  BY DEF Goes
<1>3. Tables' /\ ReferencesKept' /\ ListsKept' /\ BookedStay'
  BY <1>2, TablesFrame
<1>4. Requests'
  BY <1>1, <1>2, SoundParts DEF SetupInv, Requests
<1>5. OnlyOne'
  <2>1. calm => Ready(q)'
    BY ReadyFrame
  <2>. QED
    BY <1>1, <1>2, <2>1, SoundParts DEF SetupInv, Requests, OnlyOne
<1>6. HoursAwait'
  <2>. SUFFICES ASSUME calm PROVE HoursAwait'
    BY <1>2 DEF HoursAwait
  <2>1. \A s \in Stored(services)' : FitsLocations(services[s])'
    BY DEF tables, Stored, FitsLocations, FitsWeek, HoursAwait, SetupInv
  <2>2. \A i : FitsWhere(resources[i])' = FitsWhere(resources[i])
    BY DEF tables, FitsWhere, Fits, FitsWeek, EmployeeHours, Stored
  <2>3. \A i : Awaited(q, i)' = Awaited(q, i)
    BY DEF tables, Awaited, Stored
  <2>4. ASSUME NEW i \in Stored(resources)'
        PROVE  FitsWhere(resources[i])' \/ \E d \in Clients : req'[d] # None /\ Awaited(req[d], i)'
    <3>1. i \in Stored(resources)
      BY DEF tables, Stored
    <3>2. CASE FitsWhere(resources[i])
      BY <3>2, <2>2
    <3>3. CASE \E d \in Clients : req[d] # None /\ Awaited(req[d], i)
      <4>1. Awaited(req[c], i)
        BY <3>3 DEF SetupInv, OnlyOne
      <4>2. Awaited(q, i) \/ FitsWhere(resources[i])
        BY <4>1, <3>1 DEF Carried
      <4>3. req'[c] = q
        BY <1>2, SoundParts DEF SetupInv, Requests
      <4>4. Awaited(req[c], i)' = Awaited(q, i)'
        BY <4>3 DEF Awaited
      <4>. QED
        BY <4>2, <4>3, <4>4, <2>2, <2>3, <1>1
    <3>. QED
      BY <3>1, <3>2, <3>3 DEF SetupInv, HoursAwait
  <2>. QED
    BY <1>2, <2>1, <2>4 DEF HoursAwait
<1>. QED
  BY <1>3, <1>4, <1>5, <1>6, SoundParts, PTL DEF SetupInv

LEMMA Over ==
    ASSUME SetupInv, NEW c \in Clients, req[c] # None, calm => Released(c),
           Ends(c), UNCHANGED tables
    PROVE  SetupInv'
<1>1. calm' = calm /\ req' = [req EXCEPT ![c] = None] /\ begun' = begun
  BY DEF Ends
<1>2. Tables' /\ ReferencesKept' /\ ListsKept' /\ BookedStay'
  BY <1>1, TablesFrame
<1>3. Requests'
  BY <1>1, SoundParts DEF SetupInv, Requests
<1>4. OnlyOne'
  BY <1>1, SoundParts DEF SetupInv, Requests, OnlyOne
<1>5. HoursAwait'
  <2>. SUFFICES ASSUME calm PROVE HoursAwait'
    BY <1>1 DEF HoursAwait
  <2>1. \A s \in Stored(services)' : FitsLocations(services[s])'
    BY DEF tables, Stored, FitsLocations, FitsWeek, HoursAwait, SetupInv
  <2>2. \A i : FitsWhere(resources[i])' = FitsWhere(resources[i])
    BY DEF tables, FitsWhere, Fits, FitsWeek, EmployeeHours, Stored
  <2>3. \A i \in Stored(resources) : FitsWhere(resources[i])
    BY DEF Released, SetupInv, HoursAwait, OnlyOne
  <2>4. Stored(resources)' = Stored(resources)
    BY DEF tables, Stored
  <2>. QED
    BY <2>1, <2>2, <2>3, <2>4 DEF HoursAwait
<1>. QED
  BY <1>2, <1>3, <1>4, <1>5, SoundParts, PTL DEF SetupInv

\* Request q is the first of its client, and arrives.
Arrives(c, q) ==
    /\ req[c] = None
    /\ begun < MaxRequests
    /\ begun' = begun + 1
    /\ calm' = (calm /\ \A d \in Clients : req[d] = None)
    /\ req' = [req EXCEPT ![c] = q]
    /\ UNCHANGED tables

LEMMA Onset ==
    ASSUME SetupInv, NEW c \in Clients, NEW q \in Request, Shaped(q), calm => Ready(q),
           Arrives(c, q)
    PROVE  SetupInv'
<1>1. q # None
  BY NotNone
<1>2. calm' => calm
  BY DEF Arrives
<1>3. Tables' /\ ReferencesKept' /\ ListsKept' /\ BookedStay'
  BY <1>2, TablesFrame DEF Arrives
<1>4. Requests'
  BY <1>1, SoundParts, SetupConstants DEF SetupInv, Requests, Arrives
<1>5. OnlyOne'
  <2>1. calm => Ready(q)'
    BY ReadyFrame DEF Arrives
  <2>. QED
    BY <1>1, <2>1, SoundParts DEF SetupInv, Requests, OnlyOne, Arrives
<1>6. HoursAwait'
  <2>. SUFFICES ASSUME calm' PROVE HoursAwait'
    BY DEF HoursAwait
  <2>1. calm /\ \A d \in Clients : req[d] = None
    BY DEF Arrives
  <2>2. \A s \in Stored(services)' : FitsLocations(services[s])'
    BY <2>1 DEF Arrives, tables, Stored, FitsLocations, FitsWeek, HoursAwait, SetupInv
  <2>3. \A i : FitsWhere(resources[i])' = FitsWhere(resources[i])
    BY DEF Arrives, tables, FitsWhere, Fits, FitsWeek, EmployeeHours, Stored
  <2>4. \A i \in Stored(resources) : FitsWhere(resources[i])
    BY <2>1 DEF SetupInv, HoursAwait
  <2>5. Stored(resources)' = Stored(resources)
    BY DEF Arrives, tables, Stored
  <2>. QED
    BY <2>2, <2>3, <2>4, <2>5 DEF HoursAwait
<1>. QED
  BY <1>3, <1>4, <1>5, <1>6, SoundParts, PTL DEF SetupInv

\* The record that BeginsWith makes, and what begins with it.
First(op, phase, id, draft, left, week) ==
    [op |-> op, phase |-> phase, id |-> id, row |-> id, draft |-> draft, todo |-> Nothing,
     left |-> left, week |-> week, wrote |-> FALSE]

LEMMA NothingStored == Stored(Nothing) = {}
BY DEF Stored, Nothing

LEMMA FirstIsRequest ==
    ASSUME NEW op \in Ops, NEW phase \in Phases, NEW id \in Ids \cup {None},
           NEW draft \in Location \cup Service \cup Resource \cup Booking \cup {None},
           NEW left \in SUBSET (Locations \cup Calendars), NEW week \in Week
    PROVE  First(op, phase, id, draft, left, week) \in Request
<1>1. Nothing \in [Services \cup Calendars -> Service \cup Resource \cup {None}]
  BY DEF Nothing
<1>. QED
  BY <1>1 DEF First, Request

LEMMA FirstArrives ==
    ASSUME NEW c, NEW op, NEW phase, NEW id, NEW draft, NEW left, NEW week,
           BeginsWith(c, op, phase, id, draft, left, week)
    PROVE  Arrives(c, First(op, phase, id, draft, left, week))
BY DEF BeginsWith, Arrives, First

LEMMA BeginsAsFirst ==
    ASSUME SetupInv, NEW c \in Clients, NEW op \in Ops, NEW phase \in Phases,
           NEW id \in Ids \cup {None},
           NEW draft \in Location \cup Service \cup Resource \cup Booking \cup {None},
           NEW left \in SUBSET (Locations \cup Calendars), NEW week \in Week,
           BeginsWith(c, op, phase, id, draft, left, week),
           Shaped(First(op, phase, id, draft, left, week)),
           calm => Ready(First(op, phase, id, draft, left, week))
    PROVE  SetupInv'
BY FirstIsRequest, FirstArrives, Onset

-----------------------------------------------------------------------------
(* The requests that begin.                                                *)

LEMMA ServiceBegins ==
    ASSUME SetupInv, NEW c \in Clients, NEW op \in Rewrites, NEW s \in Services,
           NEW f \in Service, Begins(c, op, "locations", s, f)
    PROVE  SetupInv'
<1>. DEFINE q == First(op, "locations", s, f, {}, None)
<1>1. op \in Ops /\ "locations" \in Phases /\ s \in Ids /\ None \in Week
  BY DEF Rewrites, Ops, Phases, Ids, Week
<1>2. /\ q.op = op /\ q.phase = "locations" /\ q.row = s /\ q.draft = f
  BY NothingStored DEF First
<1>3. Shaped(q)
  BY <1>2 DEF Shaped, Steps, Rewrites, Rehours, Rewriting, Replacing
<1>4. Ready(q)
  BY <1>2 DEF Ready, ServiceChecked, DeletionChecked, LocationChecked, TeamChecked, RowChecked,
       Rewrites, Rehours, Rewriting
<1>. QED
  BY <1>1, <1>3, <1>4, BeginsAsFirst DEF Begins

LEMMA DeletionBegins ==
    ASSUME SetupInv, NEW c \in Clients, NEW op, NEW ph, NEW i,
           \/ op = "delete service" /\ ph = "referenced" /\ i \in Services
           \/ op = "delete location" /\ ph = "referenced" /\ i \in Locations
           \/ op = "delete room" /\ ph = "pools" /\ i \in Rooms,
           Begins(c, op, ph, i, None)
    PROVE  SetupInv'
<1>. DEFINE q == First(op, ph, i, None, {}, None)
<1>1. op \in Ops /\ ph \in Phases /\ i \in Ids /\ None \in Week
  BY DEF Ops, Phases, Ids, Week, Resources
<1>2. q.op = op /\ q.phase = ph /\ q.id = i /\ Stored(q.todo) = {}
  BY NothingStored DEF First
<1>3. Shaped(q)
  BY <1>2 DEF Shaped, Steps, Rewrites, Rehours, Rewriting, Replacing
<1>4. Ready(q)
  BY <1>2 DEF Ready, ServiceChecked, DeletionChecked, LocationChecked, TeamChecked, RowChecked,
       Rewrites, Rehours, Rewriting
<1>. QED
  BY <1>1, <1>3, <1>4, BeginsAsFirst DEF Begins

LEMMA LocationBegins ==
    ASSUME SetupInv, NEW c \in Clients, NEW op, NEW ph, NEW l \in Locations, NEW f \in Location,
           \/ op = "create location" /\ ph = "write" /\ locations[l] = None
           \/ op \in Rehours /\ ph = "dependents",
           Begins(c, op, ph, l, f)
    PROVE  SetupInv'
<1>. DEFINE q == First(op, ph, l, f, {}, None)
<1>1. op \in Ops /\ ph \in Phases /\ l \in Ids /\ None \in Week
  BY DEF Ops, Phases, Ids, Week, Rehours
<1>2. q.op = op /\ q.phase = ph /\ q.id = l /\ q.draft = f /\ Stored(q.todo) = {}
  BY NothingStored DEF First
<1>3. Shaped(q)
  BY <1>2 DEF Shaped, Steps, Rewrites, Rehours, Rewriting, Replacing
<1>4. Ready(q)
  BY <1>2 DEF Ready, ServiceChecked, DeletionChecked, LocationChecked, TeamChecked, RowChecked,
       Rewrites, Rehours, Rewriting
<1>. QED
  BY <1>1, <1>3, <1>4, BeginsAsFirst DEF Begins

LEMMA RoomBegins ==
    ASSUME SetupInv, NEW c \in Clients, NEW op \in {"create room", "update room"},
           NEW i \in Rooms, NEW f \in RoomForms, Begins(c, op, "place", i, f)
    PROVE  SetupInv'
<1>. DEFINE q == First(op, "place", i, f, {}, None)
<1>1. /\ op \in Ops /\ "place" \in Phases /\ i \in Ids /\ i \in Resources /\ None \in Week
      /\ f \in Resource
  BY SetupConstants DEF Ops, Phases, Ids, Week, Resources
<1>2. q.op = op /\ q.phase = "place" /\ q.row = i /\ q.draft = f
  BY NothingStored DEF First
<1>3. KindFits(i, f)
  BY SetupConstants, SetupIds DEF KindFits
<1>4. Shaped(q)
  BY <1>1, <1>2, <1>3 DEF Shaped, Steps, Rewrites, Rehours, Rewriting, Replacing
<1>5. Ready(q)
  BY <1>2 DEF Ready, ServiceChecked, DeletionChecked, LocationChecked, TeamChecked, RowChecked,
       Rewrites, Rehours, Rewriting
<1>. QED
  BY <1>1, <1>4, <1>5, BeginsAsFirst DEF Begins

LEMMA ProfileBegins ==
    ASSUME SetupInv, NEW c \in Clients, SaveProfile(c)
    PROVE  SetupInv'
<1>. PICK p \in People, l \in Locations, w \in Plans : \E o \in SUBSET OfferedAt(l) :
        Begins(c, "save profile", "own", p,
               [location |-> l, hours |-> w, active |-> TRUE, owner |-> p,
                offers |-> o, note |-> {}])
  BY DEF SaveProfile
<1>. PICK o \in SUBSET OfferedAt(l) :
        Begins(c, "save profile", "own", p,
               [location |-> l, hours |-> w, active |-> TRUE, owner |-> p,
                offers |-> o, note |-> {}])
  OBVIOUS
<1>. DEFINE f == [location |-> l, hours |-> w, active |-> TRUE, owner |-> p,
                  offers |-> o, note |-> {}]
            q == First("save profile", "own", p, f, {}, None)
<1>1. /\ "save profile" \in Ops /\ "own" \in Phases /\ p \in Ids /\ None \in Week
  BY DEF Ops, Phases, Ids, Week
<1>2. o \in SUBSET Services /\ w \in Week /\ p # None /\ l # None
  <2>1. OfferedAt(l) \subseteq Services
    BY SoundParts DEF SetupInv, Tables, OfferedAt, Stored
  <2>. QED
    BY <2>1, SetupConstants, SetupIds DEF Ids
<1>3. f \in Resource
  BY <1>2 DEF Resource
<1>4. q.op = "save profile" /\ q.phase = "own" /\ q.draft = f
  BY NothingStored DEF First
<1>5. Shaped(q)
  <2>1. f.owner = p /\ f.location = l
    OBVIOUS
  <2>2. q.draft \in Resource /\ q.draft.owner # None /\ q.draft.location # None
    <3>. HIDE DEF f, q
    <3>. QED
      BY <1>2, <1>3, <1>4, <2>1
  <2>. HIDE DEF q
  <2>. QED
    BY <1>4, <2>2 DEF Shaped, Steps, Rewrites, Rehours, Rewriting, Replacing
<1>6. Ready(q)
  BY <1>4 DEF Ready, ServiceChecked, DeletionChecked, LocationChecked, TeamChecked, RowChecked,
       Rewrites, Rehours, Rewriting
<1>. QED
  BY <1>1, <1>3, <1>5, <1>6, BeginsAsFirst DEF Begins

LEMMA CalendarBegins ==
    ASSUME SetupInv, NEW c \in Clients, Acknowledge(c) \/ SetServices(c)
    PROVE  SetupInv'
<1>1. PICK e, op, ph, f :
        /\ e \in Calendars \cap Stored(resources)
        /\ \/ op = "acknowledge" /\ ph = "write" /\ f = [resources[e] EXCEPT !.note = {}]
           \/ /\ op = "set services" /\ ph = "offerable"
              /\ \E o \in SUBSET Services :
                    f = IF o = resources[e].offers THEN resources[e]
                        ELSE Noted([resources[e] EXCEPT !.offers = o], "services")
        /\ Begins(c, op, ph, e, f)
  BY DEF Acknowledge, SetServices, Owned
<1>. DEFINE q == First(op, ph, e, f, {}, None)
<1>2. e \in Resources /\ e \in Calendars /\ resources[e] \in Resource /\ KindFits(e, resources[e])
  BY <1>1, SoundParts DEF SetupInv, Tables, Stored, Resources
<1>3. /\ f \in Resource /\ f.hours = resources[e].hours /\ f.location = resources[e].location
      /\ f.owner = resources[e].owner
      /\ op = "set services" => Revised(resources[e], f)
  <2>. DEFINE r == resources[e]
  <2>1. CASE op = "acknowledge" /\ f = [r EXCEPT !.note = {}]
    BY <1>1, <1>2, <2>1 DEF Resource
  <2>2. CASE f = r
    BY <1>1, <1>2, <2>2 DEF Resource, Revised
  <2>3. CASE \E o \in SUBSET Services : f = Noted([r EXCEPT !.offers = o], "services")
    BY ZenonT(40), <1>1, <1>2, <2>3 DEF Resource, Kinds, Noted, Revised
  <2>. QED
    BY <1>1, <2>1, <2>2, <2>3
<1>4. op \in Ops /\ ph \in Phases /\ e \in Ids /\ None \in Week
  BY <1>1, <1>2 DEF Ops, Phases, Ids, Week
<1>5. q.op = op /\ q.phase = ph /\ q.row = e /\ q.draft = f
  BY DEF First
<1>6. Shaped(q)
  <2>1. KindFits(e, f)
    BY <1>2, <1>3 DEF KindFits
  <2>. QED
    BY <1>1, <1>2, <1>3, <1>5, <2>1 DEF Shaped, Steps, Rewrites, Rehours, Rewriting, Replacing
<1>7. Ready(q)
  <2>1. resources[e] # None
    BY <1>1 DEF Stored
  <2>. HIDE DEF q
  <2>. QED
    BY <1>1, <1>3, <1>5, <2>1 DEF Ready, ServiceChecked, DeletionChecked, LocationChecked,
         TeamChecked, RowChecked, Rewrites, Rehours, Rewriting
<1>. QED
  BY <1>1, <1>3, <1>4, <1>6, <1>7, BeginsAsFirst DEF Begins

LEMMA TeamBegins ==
    ASSUME SetupInv, NEW c \in Clients, SetTeamHours(c)
    PROVE  SetupInv'
<1>. PICK team \in (SUBSET Calendars) \ {{}}, w \in Plans :
        BeginsWith(c, "set team hours", "prepare", None, None, team, w)
  BY DEF SetTeamHours
<1>. DEFINE q == First("set team hours", "prepare", None, None, team, w)
<1>1. /\ "set team hours" \in Ops /\ "prepare" \in Phases /\ w \in Week
      /\ team \in SUBSET (Locations \cup Calendars)
  BY SetupConstants DEF Ops, Phases
<1>2. q.op = "set team hours" /\ q.phase = "prepare" /\ Stored(q.todo) = {} /\ q.left = team
  BY NothingStored DEF First
<1>3. Shaped(q)
  BY <1>2 DEF Shaped, Steps, Rewrites, Rehours, Rewriting, Replacing
<1>4. Ready(q)
  BY <1>2 DEF Ready, ServiceChecked, DeletionChecked, LocationChecked, TeamChecked, RowChecked,
       Rewrites, Rehours, Rewriting
<1>. QED
  BY <1>1, <1>3, <1>4, BeginsAsFirst

LEMMA BookingBegins ==
    ASSUME SetupInv, NEW c \in Clients, Book(c)
    PROVE  SetupInv'
<1>1. PICK b \in Bookings, s \in Stored(services), i \in Stored(resources) :
        \E l \in services[s].at \cap Stored(locations) :
           /\ MayServe(i, s, l)
           /\ Begins(c, "book", "write", b,
                     [service |-> s, at |-> l, on |-> i, state |-> "upcoming"])
  BY DEF Book
<1>2. PICK l \in services[s].at \cap Stored(locations) :
           /\ MayServe(i, s, l)
           /\ Begins(c, "book", "write", b,
                     [service |-> s, at |-> l, on |-> i, state |-> "upcoming"])
  BY <1>1
<1>. DEFINE f == [service |-> s, at |-> l, on |-> i, state |-> "upcoming"]
            q == First("book", "write", b, f, {}, None)
<1>3. s \in Services /\ l \in Locations /\ i \in Resources /\ resources[i] # None
  BY SoundParts DEF SetupInv, Tables, Stored
<1>4. f \in Booking
  BY <1>3 DEF Booking
<1>5. "book" \in Ops /\ "write" \in Phases /\ b \in Ids /\ None \in Week
  BY DEF Ops, Phases, Ids, Week
<1>6. q.op = "book" /\ q.phase = "write" /\ q.id = b /\ q.draft = f
  BY DEF First
<1>7. /\ q.draft \in Booking /\ q.draft.state = "upcoming" /\ q.draft.on = i /\ q.draft.at = l
  BY <1>4, <1>6
<1>8. ServesLocation(resources[i], l)
  BY <1>2 DEF MayServe, MeetsRequirement
<1>9. Shaped(q) /\ Ready(q)
  <2>. HIDE DEF q
  <2>1. Shaped(q)
    BY <1>6, <1>7 DEF Shaped, Steps, Rewrites, Rehours, Rewriting, Replacing
  <2>2. Ready(q)
    BY <1>3, <1>6, <1>7, <1>8 DEF Ready, ServiceChecked, DeletionChecked, LocationChecked,
         TeamChecked, RowChecked, Rewrites, Rehours, Rewriting
  <2>. QED
    BY <2>1, <2>2
<1>. QED
  BY <1>2, <1>4, <1>5, <1>9, BeginsAsFirst DEF Begins

LEMMA BeginningKeeps ==
    ASSUME SetupInv, NEW c \in Clients,
           \/ CreateService(c) \/ UpdateService(c) \/ Offer(c) \/ DeleteService(c)
           \/ CreateLocation(c) \/ UpdateLocation(c) \/ SetStaffHours(c) \/ DeleteLocation(c)
           \/ CreateRoom(c) \/ UpdateRoom(c) \/ DeleteRoom(c)
           \/ SaveProfile(c) \/ Acknowledge(c) \/ SetServices(c) \/ SetTeamHours(c) \/ Book(c)
    PROVE  SetupInv'
<1>1. CASE CreateService(c) \/ UpdateService(c)
  BY <1>1, ServiceBegins, SoundParts, SetupConstants
     DEF CreateService, UpdateService, Rewrites, SetupInv, Tables, Stored
<1>2. CASE Offer(c)
  <2>1. PICK s, l, at :
          /\ s \in Stored(services) /\ l \in Locations
          /\ at \in {services[s].at \cup {l}, services[s].at \ {l}}
          /\ OfferedSomewhere(at)
          /\ Begins(c, "offer", "locations", s, [services[s] EXCEPT !.at = at])
    BY <1>2 DEF Offer
  <2>2. s \in Services /\ services[s] \in Service
    BY <2>1, SoundParts DEF SetupInv, Tables, Stored
  <2>3. [services[s] EXCEPT !.at = at] \in Service
    BY <2>1, <2>2 DEF Service, OfferedSomewhere
  <2>. QED
    BY <2>1, <2>2, <2>3, ServiceBegins DEF Rewrites
<1>3. CASE DeleteService(c) \/ DeleteLocation(c) \/ DeleteRoom(c)
  BY <1>3, DeletionBegins, SoundParts
     DEF DeleteService, DeleteLocation, DeleteRoom, SetupInv, Tables, Stored
<1>4. CASE CreateLocation(c) \/ UpdateLocation(c)
  BY <1>4, LocationBegins, SoundParts, SetupConstants
     DEF CreateLocation, UpdateLocation, Fresh, Rehours, SetupInv, Tables, Stored
<1>5. CASE SetStaffHours(c)
  <2>1. PICK l \in Stored(locations), w \in Plans :
          Begins(c, "set staff hours", "dependents", l, [locations[l] EXCEPT !.staff = w])
    BY <1>5 DEF SetStaffHours
  <2>2. l \in Locations /\ locations[l] \in Location /\ w \in Week
    BY SoundParts, SetupConstants DEF SetupInv, Tables, Stored
  <2>3. [locations[l] EXCEPT !.staff = w] \in Location
    BY <2>2 DEF Location
  <2>. QED
    BY <2>1, <2>2, <2>3, LocationBegins DEF Rehours
<1>6. CASE CreateRoom(c) \/ UpdateRoom(c)
  BY <1>6, RoomBegins DEF CreateRoom, UpdateRoom
<1>. QED
  BY <1>1, <1>2, <1>3, <1>4, <1>5, <1>6, ProfileBegins, CalendarBegins, TeamBegins, BookingBegins

-----------------------------------------------------------------------------
(* The requests that go on, and change nothing yet.                        *)

LEMMA AtWork ==
    ASSUME SetupInv, NEW c \in Clients, req[c] # None
    PROVE  req[c] \in Request /\ Shaped(req[c]) /\ (calm => Ready(req[c]))
BY SoundParts DEF SetupInv, Requests, OnlyOne

LEMMA QuietOver ==
    ASSUME SetupInv, NEW c \in Clients, req[c] # None, req[c].phase \notin {"team", "save"},
           Ends(c), UNCHANGED tables
    PROVE  SetupInv'
BY Over DEF Released, Awaited

LEMMA QuietOnward ==
    ASSUME SetupInv, NEW c \in Clients, req[c] # None, req[c].phase \notin {"team", "save"},
           NEW q \in Request, Shaped(q), calm => Ready(q), Goes(c, q), UNCHANGED tables
    PROVE  SetupInv'
BY Onward DEF Carried, Awaited

\* Request q is request r in another phase, or with something else left to read.
Same(q, r) == /\ q.op = r.op /\ q.id = r.id /\ q.row = r.row /\ q.draft = r.draft
              /\ q.todo = r.todo /\ q.wrote = r.wrote

LEMMA ServiceShaped ==
    ASSUME NEW r \in Request, Shaped(r), r.phase \in Rewriting \ {"write"}, NEW q, Same(q, r),
           q.phase \in Rewriting
    PROVE  Shaped(q)
<1>1. r.op \in Rewrites \cup {"delete location"}
  BY DEF Request, Ops, Shaped, Steps, Rewrites, Rehours, Rewriting
<1>. QED
  BY <1>1 DEF Shaped, Same, Steps, Rewrites, Rehours, Rewriting, Replacing

LEMMA ServiceReady ==
    ASSUME NEW r \in Request, Shaped(r), Ready(r), r.phase \in Rewriting \ {"write"}, NEW q, Same(q, r),
           q.phase \in Rewriting, ServiceChecked(q)
    PROVE  Ready(q)
<1>1. r.op \in Rewrites \cup {"delete location"}
  BY DEF Request, Ops, Shaped, Steps, Rewrites, Rehours, Rewriting
<1>. QED
  BY <1>1 DEF Ready, DeletionChecked, LocationChecked, TeamChecked, RowChecked, Same,
       Rewrites, Rehours, Rewriting

LEMMA ServiceChecks ==
    ASSUME SetupInv, NEW c \in Clients,
           \/ CheckLocations(c) \/ CheckResources(c) \/ CheckServiceFits(c) \/ RequireBookable(c)
    PROVE  SetupInv'
<1>1. /\ req[c] # None
      /\ req[c].phase \in Rewriting \ {"write"} /\ req[c].phase \notin {"team", "save"}
      /\ UNCHANGED tables
  BY DEF CheckLocations, CheckResources, CheckServiceFits, RequireBookable, At, Rewriting, Checks
<1>. PICK r : r = req[c]
  OBVIOUS
<1>2. r \in Request /\ Shaped(r) /\ (calm => Ready(r))
  BY <1>1, AtWork
<1>3. CASE Ends(c)
  BY <1>1, <1>3, QuietOver
<1>4. ASSUME NEW ph \in Rewriting, Goto(c, ph),
             calm => ServiceChecked([r EXCEPT !.phase = ph])
      PROVE  SetupInv'
  <2>. DEFINE q == [r EXCEPT !.phase = ph]
  <2>1. q \in Request /\ q.phase = ph /\ Same(q, r)
    BY <1>2 DEF Request, Same, Rewriting, Phases
  <2>2. Shaped(q) /\ (calm => Ready(q))
    BY <1>1, <1>2, <1>4, <2>1, ServiceShaped, ServiceReady
  <2>3. Goes(c, q)
    BY <1>4 DEF Goto
  <2>. QED
    BY <1>1, <2>1, <2>2, <2>3, QuietOnward
<1>5. CASE CheckLocations(c)
  <2>1. CASE r.draft.at \subseteq Stored(locations)
    <3>1. Goto(c, "resources")
      BY <1>5, <2>1 DEF CheckLocations, Checks
    <3>2. ServiceChecked([r EXCEPT !.phase = "resources"])
      BY <1>2, <2>1 DEF ServiceChecked, Request, Rewriting
    <3>. QED
      BY <3>1, <3>2, <1>4 DEF Rewriting
  <2>. QED
    BY <1>3, <1>5, <2>1 DEF CheckLocations, Checks
<1>6. CASE CheckResources(c)
  <2>1. CASE KnownPool(r.draft)
    <3>1. Goto(c, "fits") /\ r.phase = "resources"
      BY <1>6, <2>1 DEF CheckResources, Checks, At
    <3>2. calm => ServiceChecked([r EXCEPT !.phase = "fits"])
      BY <1>2, <2>1, <3>1 DEF Ready, ServiceChecked, Request, Rewriting
    <3>. QED
      BY <3>1, <3>2, <1>4 DEF Rewriting
  <2>. QED
    BY <1>3, <1>6, <2>1 DEF CheckResources, Checks
<1>7. CASE CheckServiceFits(c)
  <2>1. CASE FitsLocations(r.draft)
    <3>1. PICK ph \in {"feasible", "write"} : Goto(c, ph) /\ r.phase = "fits"
      BY <1>7, <2>1 DEF CheckServiceFits, Checks, At
    <3>2. calm => ServiceChecked([r EXCEPT !.phase = ph])
      BY <1>2, <2>1, <3>1 DEF Ready, ServiceChecked, Request, Rewriting
    <3>. QED
      BY <3>1, <3>2, <1>4 DEF Rewriting
  <2>. QED
    BY <1>3, <1>7, <2>1 DEF CheckServiceFits, Checks
<1>8. CASE RequireBookable(c)
  <2>1. r.phase = "fill" /\ (Goto(c, "write") \/ Ends(c))
    BY <1>8 DEF RequireBookable, Checks, At
  <2>2. calm => ServiceChecked([r EXCEPT !.phase = "write"])
    BY <1>2, <2>1 DEF Ready, ServiceChecked, Request, Rewriting
  <2>. QED
    BY <2>1, <2>2, <1>3, <1>4 DEF Rewriting
<1>. QED
  BY <1>5, <1>6, <1>7, <1>8

LEMMA ListActiveKeeps ==
    ASSUME SetupInv, NEW c \in Clients, ListActiveLocations(c)
    PROVE  SetupInv'
<1>1. /\ req[c] # None /\ req[c].phase = "feasible" /\ UNCHANGED tables
  BY DEF ListActiveLocations, At
<1>. PICK r : r = req[c]
  OBVIOUS
<1>2. r \in Request /\ Shaped(r) /\ (calm => Ready(r))
  BY <1>1, AtWork
<1>3. PICK left \in SUBSET Locations : Goes(c, [r EXCEPT !.phase = "fill", !.left = left])
  <2>1. Stored(locations) \subseteq Locations
    BY SoundParts DEF SetupInv, Tables, Stored
  <2>. QED
    BY <2>1 DEF ListActiveLocations
<1>. DEFINE q == [r EXCEPT !.phase = "fill", !.left = left]
<1>4. q \in Request /\ q.phase = "fill" /\ Same(q, r)
  BY <1>2 DEF Request, Phases, Same
<1>5. Shaped(q)
  BY <1>1, <1>2, <1>4, ServiceShaped DEF Rewriting
<1>6. calm => Ready(q)
  <2>1. calm => ServiceChecked(q)
    BY <1>1, <1>2, <1>4 DEF Ready, ServiceChecked, Same, Rewriting
  <2>. QED
    BY <1>1, <1>2, <1>4, <2>1, ServiceReady DEF Rewriting
<1>. QED
  BY <1>1, <1>3, <1>4, <1>5, <1>6, QuietOnward

LEMMA QuietGoto ==
    ASSUME SetupInv, NEW c \in Clients, req[c] # None, req[c].phase \notin {"team", "save"},
           NEW ph \in Phases, Goto(c, ph), UNCHANGED tables,
           \A q : Same(q, req[c]) /\ q.left = req[c].left /\ q.phase = ph =>
                    Shaped(q) /\ (calm => Ready(q))
    PROVE  SetupInv'
<1>. PICK r : r = req[c]
  OBVIOUS
<1>. DEFINE q == [r EXCEPT !.phase = ph]
<1>1. r \in Request
  BY AtWork
<1>2. q \in Request /\ Same(q, r) /\ q.left = r.left /\ q.phase = ph
  BY <1>1 DEF Request, Same
<1>3. Shaped(q) /\ (calm => Ready(q))
  BY <1>2
<1>4. Goes(c, q)
  BY DEF Goto
<1>. QED
  BY <1>2, <1>3, <1>4, QuietOnward

LEMMA DependentsChecked ==
    ASSUME SetupInv, NEW c \in Clients, CheckServicesHere(c) \/ CheckPlaced(c)
    PROVE  SetupInv'
<1>1. /\ req[c] # None
      /\ req[c].phase \in {"dependents", "placed"}
      /\ UNCHANGED tables
  BY DEF CheckServicesHere, CheckPlaced, At, Checks
<1>. PICK r : r = req[c]
  OBVIOUS
<1>2. r \in Request /\ Shaped(r) /\ (calm => Ready(r))
  BY <1>1, AtWork
<1>3. r.op \in Rehours
  BY <1>1, <1>2 DEF Request, Ops, Shaped, Steps, Rewrites, Rehours, Rewriting
<1>4. \A q : Same(q, r) /\ q.left = r.left /\ q.phase \in {"placed", "write"} => Shaped(q)
  BY ZenonT(40), <1>1, <1>2, <1>3 DEF Same, Shaped, Steps, Rewrites, Rehours, Rewriting, Replacing
<1>5. \A q : Same(q, r) /\ q.phase \in {"placed", "write"} /\ calm /\ LocationChecked(q) => Ready(q)
  BY <1>1, <1>2, <1>3 DEF Ready, ServiceChecked, DeletionChecked, TeamChecked, RowChecked, Same,
       Rewrites, Rehours, Rewriting
<1>6. CASE Ends(c)
  BY <1>1, <1>6, QuietOver
<1>7. CASE CheckServicesHere(c) /\ ~Ends(c)
  <2>1. /\ Goto(c, "placed")
        /\ \A s \in Stored(services) :
              r.id \in services[s].at => FitsWeek(services[s].hours, r.draft)
    BY <1>7 DEF CheckServicesHere, Checks
  <2>2. \A q : Same(q, r) /\ q.phase = "placed" => LocationChecked(q)
    BY <1>3, <2>1 DEF Same, LocationChecked, Rehours
  <2>. QED
    BY <1>1, <1>4, <1>5, <2>1, <2>2, QuietGoto DEF Phases
<1>8. CASE CheckPlaced(c) /\ ~Ends(c)
  <2>1. /\ Goto(c, "write") /\ r.phase = "placed"
        /\ \A i \in Rooms \cap Stored(resources) :
              resources[i].location = r.id => FitsWeek(resources[i].hours, r.draft)
    BY <1>8 DEF CheckPlaced, Checks, At
  <2>2. \A q : Same(q, r) /\ q.phase = "write" /\ calm => LocationChecked(q)
    BY <1>2, <1>3, <2>1 DEF Same, Ready, LocationChecked, Rehours
  <2>. QED
    BY <1>1, <1>4, <1>5, <2>1, <2>2, QuietGoto DEF Phases
<1>. QED
  BY <1>6, <1>7, <1>8

LEMMA DeletionChecks ==
    ASSUME SetupInv, NEW c \in Clients, CheckPools(c) \/ CheckReferenced(c) \/ CheckEmpty(c)
    PROVE  SetupInv'
<1>1. /\ req[c] # None
      /\ req[c].phase \in {"pools", "referenced", "empty"}
  BY DEF CheckPools, CheckReferenced, CheckEmpty, At
<1>. PICK r : r = req[c]
  OBVIOUS
<1>2. r \in Request /\ Shaped(r) /\ (calm => Ready(r))
  BY <1>1, AtWork
<1>3. r.op \in {"delete location", "delete service", "delete room"}
  BY ZenonT(40), <1>1, <1>2 DEF Request, Ops, Shaped, Steps, Rewrites, Rehours, Rewriting
<1>4. UNCHANGED tables
  BY <1>3 DEF CheckPools, CheckReferenced, CheckEmpty, Checks
<1>5. CASE Ends(c)
  BY <1>1, <1>4, <1>5, QuietOver
<1>6. ASSUME NEW ph, Goto(c, ph),
             \/ r.op = "delete location" /\ ph \in {"empty", "offers"}
             \/ r.op = "delete service" /\ ph = "delete"
             \/ r.op = "delete room" /\ ph = "delete" /\ r.phase # "pools"
             \/ r.op = "delete room" /\ ph = "referenced" /\ Unnamed(r.id)
      PROVE  SetupInv'
  <2>1. ASSUME NEW q, Same(q, r), q.phase = ph PROVE Shaped(q)
    <3>1. CASE r.op = "delete location"
      BY ZenonT(40), <1>1, <1>2, <1>6, <2>1, <3>1
         DEF Same, Shaped, Steps, Rewrites, Rehours, Rewriting, Replacing
    <3>2. CASE r.op \in {"delete service", "delete room"}
      BY <1>1, <1>2, <1>6, <2>1, <3>2
         DEF Same, Shaped, Steps, Rewrites, Rehours, Rewriting, Replacing
    <3>. QED
      BY <1>3, <3>1, <3>2
  <2>2. \A q : Same(q, r) /\ q.left = r.left /\ q.phase = ph => (calm => Ready(q))
    BY ZenonT(40), <1>1, <1>2, <1>6 DEF Same, Ready, ServiceChecked, DeletionChecked, LocationChecked,
         TeamChecked, RowChecked, Rewrites, Rehours, Rewriting
  <2>3. ph \in Phases
    BY <1>6 DEF Phases
  <2>. QED
    BY <1>1, <1>4, <1>6, <2>1, <2>2, <2>3, QuietGoto
<1>7. CASE CheckPools(c) /\ ~Ends(c)
  <2>1. r.phase = "pools" /\ Goto(c, "referenced") /\ Unnamed(r.id)
    BY <1>7 DEF CheckPools, At, Checks
  <2>2. r.op = "delete room"
    BY <1>2, <1>3, <2>1 DEF Shaped, Steps, Rewrites, Rehours, Rewriting
  <2>. QED
    BY <1>6, <2>1, <2>2
<1>8. CASE CheckReferenced(c) /\ ~Ends(c)
  <2>1. r.phase = "referenced"
    BY <1>8 DEF CheckReferenced, At
  <2>2. Goto(c, IF r.op = "delete location" THEN "empty" ELSE "delete")
    BY <1>3, <1>8 DEF CheckReferenced, Checks
  <2>. QED
    BY <1>3, <1>6, <2>1, <2>2
<1>9. CASE CheckEmpty(c) /\ ~Ends(c)
  <2>1. r.phase = "empty" /\ Goto(c, "offers")
    BY <1>9 DEF CheckEmpty, At, Checks
  <2>2. r.op = "delete location"
    BY <1>2, <1>3, <2>1 DEF Shaped, Steps, Rewrites, Rehours, Rewriting
  <2>. QED
    BY <1>6, <2>1, <2>2
<1>. QED
  BY <1>5, <1>7, <1>8, <1>9

\* ListOffers and StopOffering: the services that a location's deletion has to stop.
LEMMA OffersListed ==
    ASSUME SetupInv, NEW c \in Clients, ListOffers(c)
    PROVE  SetupInv'
<1>1. req[c] # None /\ req[c].phase = "offers" /\ UNCHANGED tables
  BY DEF ListOffers, At
<1>. PICK r : r = req[c]
  OBVIOUS
<1>2. r \in Request /\ Shaped(r) /\ (calm => Ready(r))
  BY <1>1, AtWork
<1>3. r.op = "delete location"
  BY <1>1, <1>2 DEF Request, Ops, Shaped, Steps, Rewrites, Rehours, Rewriting
<1>. DEFINE offered == {s \in Stored(services) : r.id \in services[s].at}
            todo == ToDo(offered, services)
            q == [r EXCEPT !.phase = "stop", !.todo = todo]
<1>4. CASE Ends(c)
  BY <1>1, <1>4, QuietOver
<1>5. CASE ~Ends(c)
  <2>1. Goes(c, q) /\ ~ \E s \in offered : services[s].at = {r.id}
    BY <1>5 DEF ListOffers
  <2>2. \A s \in offered : s \in Services /\ services[s] \in Service
    BY SoundParts DEF SetupInv, Tables, Stored
  <2>3. todo \in [Services \cup Calendars -> Service \cup Resource \cup {None}]
    BY <2>2 DEF ToDo
  <2>4. \A s : s \in Stored(todo) <=> s \in offered
    <3>1. DOMAIN todo = Services \cup Calendars
      BY DEF ToDo
    <3>2. \A s \in offered : todo[s] = services[s] /\ services[s] # None
      BY <2>2, NotNone DEF ToDo
    <3>3. \A s \in (Services \cup Calendars) \ offered : todo[s] = None
      BY DEF ToDo
    <3>. HIDE DEF todo, offered
    <3>. QED
      BY <2>2, <3>1, <3>2, <3>3 DEF Stored
  <2>5. \A s \in Stored(todo) : s \in Services /\ todo[s] \in Service /\ todo[s].at # {r.id}
    <3>1. \A s \in offered : todo[s] = services[s]
      BY <2>2 DEF ToDo
    <3>. QED
      BY <2>1, <2>2, <2>4, <3>1
  <2>6. /\ q \in Request /\ q.op = r.op /\ q.id = r.id /\ q.phase = "stop" /\ q.todo = todo
    BY <1>2, <2>3 DEF Request, Phases
  <2>7. \A s \in Stored(services) : r.id \in services[s].at => s \in Stored(todo)
    BY <2>4
  <2>. HIDE DEF q, todo
  <2>8. Shaped(q)
    BY <1>2, <1>3, <2>5, <2>6 DEF Shaped, Steps, Rewrites, Rehours, Rewriting, Replacing
  <2>9. Ready(q)
    BY <1>3, <2>6, <2>7 DEF Ready, ServiceChecked, DeletionChecked, LocationChecked,
       TeamChecked, RowChecked, Rewrites, Rehours, Rewriting
  <2>. QED
    BY <1>1, <2>1, <2>6, <2>8, <2>9, QuietOnward
<1>. QED
  BY <1>4, <1>5

LEMMA OfferStops ==
    ASSUME SetupInv, NEW c \in Clients, StopOffering(c)
    PROVE  SetupInv'
<1>1. req[c] # None /\ req[c].phase = "stop" /\ UNCHANGED tables
  BY DEF StopOffering, At
<1>. PICK r : r = req[c]
  OBVIOUS
<1>2. r \in Request /\ Shaped(r) /\ (calm => Ready(r))
  BY <1>1, AtWork
<1>3. r.op = "delete location"
  BY <1>1, <1>2 DEF Request, Ops, Shaped, Steps, Rewrites, Rehours, Rewriting
<1>4. CASE Stored(r.todo) = {}
  <2>1. Goto(c, "delete")
    BY <1>4 DEF StopOffering
  <2>2. \A q : Same(q, r) /\ q.phase = "delete" => Shaped(q)
    BY ZenonT(40), <1>2, <1>3, <1>4 DEF Same, Shaped, Steps, Rewrites, Rehours, Rewriting, Replacing
  <2>3. \A q : Same(q, r) /\ q.phase = "delete" => (calm => Ready(q))
    BY <1>1, <1>2, <1>3, <1>4 DEF Same, Ready, ServiceChecked, DeletionChecked, LocationChecked,
         TeamChecked, RowChecked, Rewrites, Rehours, Rewriting
  <2>. QED
    BY <1>1, <2>1, <2>2, <2>3, QuietGoto DEF Phases
<1>5. CASE Stored(r.todo) # {}
  <2>1. PICK s \in Stored(r.todo) :
          Goes(c, [r EXCEPT !.phase = "locations", !.row = s,
                            !.draft = [r.todo[s] EXCEPT !.at = @ \ {r.id}],
                            !.todo = [r.todo EXCEPT ![s] = None]])
    BY <1>5 DEF StopOffering
  <2>. DEFINE f == [r.todo[s] EXCEPT !.at = @ \ {r.id}]
              todo == [r.todo EXCEPT ![s] = None]
              q == [r EXCEPT !.phase = "locations", !.row = s, !.draft = f, !.todo = todo]
  <2>2. s \in Services /\ r.todo[s] \in Service /\ r.todo[s].at # {r.id} /\ r.id \in Locations
    BY <1>2, <1>3 DEF Shaped
  <2>3. f \in Service /\ r.id \notin f.at
    BY <2>2 DEF Service
  <2>4. r.todo \in [Services \cup Calendars -> Service \cup Resource \cup {None}]
    BY <1>2 DEF Request
  <2>5. /\ todo \in [Services \cup Calendars -> Service \cup Resource \cup {None}]
        /\ \A t : t \in Stored(todo) <=> t \in Stored(r.todo) /\ t # s
        /\ \A t \in Stored(todo) : todo[t] = r.todo[t]
    BY <2>2, <2>4 DEF Stored
  <2>6. s \in Ids /\ "locations" \in Phases
    BY <2>2 DEF Ids, Phases
  <2>7. /\ q \in Request
        /\ q.op = r.op /\ q.id = r.id /\ q.phase = "locations" /\ q.row = s /\ q.draft = f
        /\ q.todo = todo
    <3>. HIDE DEF f, todo
    <3>. QED
      BY <1>2, <2>3, <2>5, <2>6 DEF Request
  <2>. HIDE DEF q, todo, f
  <2>8. Shaped(q)
    <3>1. /\ Stored(r.todo) \subseteq Services
          /\ \A t \in Stored(r.todo) : r.todo[t] \in Service /\ r.todo[t].at # {r.id}
      BY <1>2, <1>3 DEF Shaped
    <3>2. /\ Stored(q.todo) \subseteq Services
          /\ \A t \in Stored(q.todo) : q.todo[t] \in Service /\ q.todo[t].at # {q.id}
      BY <2>5, <2>7, <3>1
    <3>3. q.op = "delete location" /\ q.phase \in Steps(q.op) /\ q.phase \in Rewriting
      <4>1. q.op = "delete location" /\ q.phase = "locations"
        BY <1>3, <2>7
      <4>. QED
        BY <4>1 DEF Steps, Rewriting, Rewrites, Rehours
    <3>4. q.id \in Locations /\ q.row \in Services /\ q.draft \in Service /\ q.id \notin q.draft.at
      BY <2>2, <2>3, <2>7
    <3>. QED
      BY <3>2, <3>3, <3>4 DEF Shaped, Rewrites, Rehours, Replacing
  <2>9. calm => Ready(q)
    BY <1>1, <1>2, <1>3, <2>5, <2>7 DEF Ready, ServiceChecked, DeletionChecked, LocationChecked,
       TeamChecked, RowChecked, Rewrites, Rehours, Rewriting
  <2>10. Goes(c, q)
    BY <2>1 DEF q, f, todo
  <2>. QED
    BY <1>1, <2>7, <2>8, <2>9, <2>10, QuietOnward
<1>. QED
  BY <1>4, <1>5

-----------------------------------------------------------------------------
(* The weeks of employees, when the hours of their location change.        *)

LEMMA RetargetedFits ==
    ASSUME NEW r \in Resource, r.owner # None, NEW l \in Location
    PROVE  /\ RetargetedWeek(r, l) \in Week
           /\ RetargetedWeek(r, l) = r.hours => Fits(r, l)
           /\ Fits([r EXCEPT !.hours = RetargetedWeek(r, l)], l)
<1>1. l.open \in SUBSET Hours /\ r.hours \in Week /\ \A h \in SUBSET Hours : h # None
  BY SetupIds DEF Location, Resource
<1>2. EmployeeHours(l) \in SUBSET Hours /\ (l.staff = None => EmployeeHours(l) = l.open)
  BY <1>1 DEF EmployeeHours
<1>. DEFINE own == IF r.hours = None THEN l.open ELSE r.hours
            w == RetargetedWeek(r, l)
<1>3. own \in SUBSET Hours
  BY <1>1 DEF Week
<1>4. \/ w = r.hours /\ own \subseteq EmployeeHours(l)
      \/ w = own \cap EmployeeHours(l) /\ w \in SUBSET Hours /\ w # None
  <2>1. CASE (r.hours = None /\ l.staff = None) \/ own \subseteq EmployeeHours(l)
    BY <1>2, <2>1 DEF RetargetedWeek
  <2>2. CASE ~((r.hours = None /\ l.staff = None) \/ own \subseteq EmployeeHours(l))
    <3>1. w = own \cap EmployeeHours(l)
      BY <2>2 DEF RetargetedWeek
    <3>. QED
      BY <1>1, <1>2, <1>3, <3>1
  <2>. QED
    BY <2>1, <2>2
<1>. DEFINE n == [r EXCEPT !.hours = w]
<1>5. n.hours = w /\ n.owner = r.owner
  BY DEF Resource
<1>6. w \in Week
  BY <1>1, <1>4 DEF Week
<1>. HIDE DEF w, n
<1>7. w = r.hours => Fits(r, l)
  BY <1>1, <1>2, <1>4 DEF Fits, Week
<1>8. Fits(n, l)
  BY <1>1, <1>2, <1>4, <1>5 DEF Fits
<1>. QED
  BY <1>6, <1>7, <1>8 DEF w, n

\* A calendar that is noted as changed by somebody else, with another week.
LEMMA NotedWeek ==
    ASSUME NEW r \in Resource, NEW w \in Week, NEW i, KindFits(i, r)
    PROVE  /\ Noted([r EXCEPT !.hours = w], "hours") \in Resource
           /\ KindFits(i, Noted([r EXCEPT !.hours = w], "hours"))
           /\ Revised(r, Noted([r EXCEPT !.hours = w], "hours"))
           /\ Noted([r EXCEPT !.hours = w], "hours").hours = w
           /\ Noted([r EXCEPT !.hours = w], "hours").owner = r.owner
           /\ Noted([r EXCEPT !.hours = w], "hours").location = r.location
BY DEF Resource, Kinds, Noted, Revised, KindFits

LEMMA TeamListed ==
    ASSUME SetupInv, NEW c \in Clients, ListTeam(c)
    PROVE  SetupInv'
<1>1. req[c] # None /\ req[c].phase = "team" /\ UNCHANGED tables
  BY DEF ListTeam, At
<1>. PICK r : r = req[c]
  OBVIOUS
<1>2. r \in Request /\ Shaped(r) /\ (calm => Ready(r))
  BY <1>1, AtWork
<1>3. r.op \in Rehours
  BY <1>1, <1>2 DEF Request, Ops, Shaped, Steps, Rewrites, Rehours, Rewriting
<1>4. r.wrote /\ r.id \in Locations /\ r.draft \in Location
  BY <1>1, <1>2, <1>3 DEF Shaped
<1>5. \A e \in Calendars \cap Stored(resources) :
        e \in Resources /\ resources[e] \in Resource /\ KindFits(e, resources[e])
        /\ resources[e].owner # None
  BY SoundParts DEF SetupInv, Tables, Stored, KindFits
<1>6. calm => locations[r.id] = r.draft /\ r.id \in Stored(locations)
  <2>1. calm => locations[r.id] = r.draft
    BY <1>1, <1>2, <1>3 DEF Ready, LocationChecked
  <2>. QED
    BY <1>4, <2>1, NotNone, SoundParts DEF SetupInv, Tables, Stored
<1>. DEFINE moved == {e \in Calendars \cap Stored(resources) :
                        /\ resources[e].location = r.id
                        /\ RetargetedWeek(resources[e], r.draft) # resources[e].hours}
            new(e) == Noted([resources[e] EXCEPT
                               !.hours = RetargetedWeek(resources[e], r.draft)], "hours")
            todo == ToDo(moved, [e \in moved |-> new(e)])
            q == [r EXCEPT !.phase = "save", !.todo = todo]
<1>7. ASSUME calm, NEW e \in Calendars \cap Stored(resources), e \notin moved,
             resources[e].location = r.id
      PROVE  FitsWhere(resources[e])
  <2>1. RetargetedWeek(resources[e], r.draft) = resources[e].hours
    BY <1>7
  <2>2. Fits(resources[e], r.draft)
    BY <1>4, <1>5, <2>1, RetargetedFits
  <2>. QED
    BY <1>6, <1>7, <2>2 DEF FitsWhere
<1>8. CASE moved = {}
  <2>1. Ends(c)
    BY <1>8 DEF ListTeam
  <2>2. calm => Released(c)
    BY <1>1, <1>7, <1>8 DEF Released, Awaited
  <2>. QED
    BY <1>1, <2>1, <2>2, Over
<1>9. CASE moved # {}
  <2>1. Goes(c, q)
    BY <1>9 DEF ListTeam
  <2>2. ASSUME NEW e \in moved
        PROVE  /\ e \in Calendars /\ new(e) \in Resource /\ new(e) # None
               /\ KindFits(e, new(e)) /\ Revised(resources[e], new(e))
               /\ new(e).location = r.id
               /\ Fits(new(e), r.draft)
    <3>. PICK x, w : x = resources[e] /\ w = RetargetedWeek(x, r.draft)
      OBVIOUS
    <3>1. x \in Resource /\ x.owner # None /\ KindFits(e, x) /\ x.location = r.id
      BY <1>5
    <3>2. w \in Week /\ Fits([x EXCEPT !.hours = w], r.draft)
      BY <1>4, <3>1, RetargetedFits
    <3>. DEFINE n == Noted([x EXCEPT !.hours = w], "hours")
    <3>3. /\ n \in Resource /\ KindFits(e, n) /\ Revised(x, n)
          /\ n.hours = w /\ n.owner = x.owner /\ n.location = x.location
      BY <3>1, <3>2, NotedWeek
    <3>4. Fits(n, r.draft)
      <4>1. [x EXCEPT !.hours = w].hours = w /\ [x EXCEPT !.hours = w].owner = x.owner
        BY <3>1 DEF Resource
      <4>. HIDE DEF n
      <4>. QED
        BY <3>2, <3>3, <4>1 DEF Fits, FitsWeek
    <3>5. new(e) = n
      OBVIOUS
    <3>. HIDE DEF n, new
    <3>. QED
      BY <3>1, <3>3, <3>4, <3>5, NotNone
  <2>3. \A e \in moved : todo[e] = new(e)
    BY DEF ToDo
  <2>4. DOMAIN todo = Services \cup Calendars
        /\ \A e \in (Services \cup Calendars) \ moved : todo[e] = None
    BY DEF ToDo
  <2>5. \A e : e \in Stored(todo) <=> e \in moved
    <3>. HIDE DEF todo, new
    <3>. QED
      BY <2>2, <2>3, <2>4 DEF Stored
  <2>6. todo \in [Services \cup Calendars -> Service \cup Resource \cup {None}]
    <3>1. todo = [i \in Services \cup Calendars |-> todo[i]]
      BY DEF ToDo
    <3>. HIDE DEF todo, new
    <3>. QED
      BY ZenonT(40), <2>2, <2>3, <2>4, <3>1
  <2>7. /\ q \in Request /\ q.op = r.op /\ q.id = r.id /\ q.draft = r.draft /\ q.wrote = r.wrote
        /\ q.phase = "save" /\ q.todo = todo
    <3>. HIDE DEF todo
    <3>. QED
      BY <1>2, <2>6 DEF Request, Phases
  <2>. HIDE DEF q, todo, new
  <2>8. \A e \in Stored(q.todo) : e \in moved /\ q.todo[e] = new(e)
    BY <2>3, <2>5, <2>7
  <2>9. Shaped(q)
    BY <1>3, <1>4, <2>2, <2>7, <2>8 DEF Shaped, Steps, Rewrites, Rehours, Rewriting, Replacing
  <2>10. calm => Ready(q)
    <3>. SUFFICES ASSUME calm PROVE Ready(q)
      OBVIOUS
    <3>1. LocationChecked(q)
      BY <1>3, <1>6, <2>7 DEF LocationChecked, Rehours
    <3>2. \A e \in moved : FitsWhere(new(e))
      BY <1>6, <2>2 DEF FitsWhere
    <3>3. \A e \in moved : resources[e] # None
      BY DEF Stored
    <3>4. TeamChecked(q)
      BY <1>3, <2>2, <2>7, <2>8, <3>2, <3>3 DEF TeamChecked, Rehours
    <3>. QED
      BY <1>3, <2>7, <3>1, <3>4 DEF Ready, ServiceChecked, DeletionChecked, RowChecked,
         Rewrites, Rehours, Rewriting
  <2>11. calm => Carried(c, q)
    <3>. SUFFICES ASSUME calm, NEW i \in Stored(resources), Awaited(r, i)
                  PROVE  Awaited(q, i) \/ FitsWhere(resources[i])
      BY DEF Carried
    <3>1. i \in Calendars \cap Stored(resources) /\ resources[i].location = r.id
      BY <1>1 DEF Awaited
    <3>2. CASE i \in moved
      BY <1>3, <2>5, <2>7, <3>1, <3>2 DEF Awaited
    <3>3. CASE i \notin moved
      BY <1>7, <3>1, <3>3
    <3>. QED
      BY <3>2, <3>3
  <2>. QED
    BY <1>1, <2>1, <2>7, <2>9, <2>10, <2>11, Onward
<1>. QED
  BY <1>8, <1>9

-----------------------------------------------------------------------------
(* The rows of rooms and calendars, before they are written.               *)

LEMMA OwnFound ==
    ASSUME SetupInv, NEW c \in Clients, FindOwn(c)
    PROVE  SetupInv'
<1>1. req[c] # None /\ req[c].phase = "own" /\ UNCHANGED tables
  BY DEF FindOwn, At
<1>. PICK r : r = req[c]
  OBVIOUS
<1>2. r \in Request /\ Shaped(r) /\ (calm => Ready(r))
  BY <1>1, AtWork
<1>3. r.op = "save profile"
  BY <1>1, <1>2 DEF Request, Ops, Shaped, Steps, Rewrites, Rehours, Rewriting
<1>4. PICK row, ph :
        /\ Goes(c, [r EXCEPT !.phase = ph, !.row = row])
        /\ \/ row = None /\ ph = "place"
           \/ /\ row \in Owned(r.id)
              /\ \/ ph = "move"
                 \/ ph = "place" /\ resources[row].location = r.draft.location
  <2>1. CASE Owned(r.id) = {}
    BY <2>1 DEF FindOwn
  <2>2. CASE Owned(r.id) # {}
    <3>1. PICK e \in Owned(r.id) :
            Goes(c, [r EXCEPT !.row = e,
                       !.phase = IF resources[e].location = r.draft.location
                                 THEN "place" ELSE "move"])
      BY <2>2 DEF FindOwn
    <3>. QED
      BY <1>2, <3>1 DEF Request
  <2>. QED
    BY <2>1, <2>2
<1>5. row \in Ids \cup {None} /\ ph \in Phases
      /\ (row # None => row \in Calendars /\ resources[row] # None)
  BY <1>4 DEF Owned, Stored, Phases, Ids, Resources
<1>. DEFINE q == [r EXCEPT !.phase = ph, !.row = row]
<1>6. /\ q \in Request /\ q.op = r.op /\ q.id = r.id /\ q.draft = r.draft /\ q.phase = ph
      /\ q.row = row
  BY <1>2, <1>5 DEF Request
<1>. HIDE DEF q
<1>7. Shaped(q)
  <2>1. ph = "move" => row # None
    BY <1>4, SetupIds DEF Owned, Ids, Resources
  <2>. QED
    BY <1>2, <1>3, <1>4, <1>5, <1>6, <2>1
       DEF Shaped, Steps, Rewrites, Rehours, Rewriting, Replacing
<1>8. Ready(q)
  BY <1>3, <1>4, <1>5, <1>6 DEF Ready, ServiceChecked, DeletionChecked, LocationChecked,
     TeamChecked, RowChecked, Rewrites, Rehours, Rewriting
<1>9. Goes(c, q)
  BY <1>4 DEF q
<1>. QED
  BY <1>1, <1>6, <1>7, <1>8, <1>9, QuietOnward

LEMMA RowChecks ==
    ASSUME SetupInv, NEW c \in Clients, CheckMove(c) \/ CheckPlace(c) \/ CheckOfferable(c)
    PROVE  SetupInv'
<1>1. /\ req[c] # None
      /\ req[c].phase \in {"move", "place", "offerable"}
      /\ UNCHANGED tables
  BY DEF CheckMove, CheckPlace, CheckOfferable, At, Checks
<1>. PICK r : r = req[c]
  OBVIOUS
<1>2. r \in Request /\ Shaped(r) /\ (calm => Ready(r))
  BY <1>1, AtWork
<1>3. CASE Ends(c)
  BY <1>1, <1>3, QuietOver
<1>4. ASSUME NEW ph, Goto(c, ph),
             \/ r.op = "save profile" /\ ph = "place" /\ r.phase = "move" /\ ~HasUpcoming(r.row)
             \/ r.op \in {"create room", "update room", "save profile"} /\ ph = "frame"
                  /\ r.phase = "place"
             \/ r.op = "set services" /\ ph = "write"
      PROVE  SetupInv'
  <2>1. ASSUME NEW q, Same(q, r), q.phase = ph PROVE Shaped(q)
    <3>1. CASE r.op = "save profile"
      BY <1>2, <1>4, <2>1, <3>1
         DEF Same, Shaped, Steps, Rewrites, Rehours, Rewriting, Replacing
    <3>2. CASE r.op # "save profile"
      BY <1>2, <1>4, <2>1, <3>2
         DEF Same, Shaped, Steps, Rewrites, Rehours, Rewriting, Replacing
    <3>. QED
      BY <3>1, <3>2
  <2>2. ASSUME NEW q, Same(q, r), q.phase = ph, calm PROVE Ready(q)
    BY <1>2, <1>4, <2>2 DEF Same, Ready, ServiceChecked, DeletionChecked, LocationChecked,
       TeamChecked, RowChecked, Rewrites, Rehours, Rewriting
  <2>3. ph \in Phases
    BY <1>4 DEF Phases
  <2>. QED
    BY <1>1, <1>4, <2>1, <2>2, <2>3, QuietGoto
<1>5. CASE CheckMove(c) /\ ~Ends(c)
  <2>1. r.phase = "move" /\ Goto(c, "place") /\ ~HasUpcoming(r.row)
    BY <1>5 DEF CheckMove, At, Checks
  <2>2. r.op = "save profile"
    BY <1>2, <2>1 DEF Request, Ops, Shaped, Steps, Rewrites, Rehours, Rewriting
  <2>. QED
    BY <1>4, <2>1, <2>2
<1>6. CASE CheckPlace(c) /\ ~Ends(c)
  <2>1. r.phase = "place" /\ Goto(c, "frame")
    BY <1>6 DEF CheckPlace, At, Checks
  <2>2. r.op \in {"create room", "update room", "save profile"}
    BY <1>2, <2>1 DEF Request, Ops, Shaped, Steps, Rewrites, Rehours, Rewriting
  <2>. QED
    BY <1>4, <2>1, <2>2
<1>7. CASE CheckOfferable(c) /\ ~Ends(c)
  <2>1. r.phase = "offerable" /\ Goto(c, "write")
    BY <1>7 DEF CheckOfferable, At, Checks
  <2>2. r.op = "set services"
    BY <1>2, <2>1 DEF Request, Ops, Shaped, Steps, Rewrites, Rehours, Rewriting
  <2>. QED
    BY <1>4, <2>1, <2>2
<1>. QED
  BY <1>3, <1>5, <1>6, <1>7

\* What checkResourceFitsLocation lets through is where it may be.
LEMMA InsideFits ==
    ASSUME NEW r \in Resource, NEW l \in Location, OutsideOf(r, l) = {}
    PROVE  Fits(r, l)
BY DEF OutsideOf, Fits, FitsWeek, EmployeeHours

LEMMA FrameChecked ==
    ASSUME SetupInv, NEW c \in Clients, CheckFrame(c)
    PROVE  SetupInv'
<1>1. req[c] # None /\ req[c].phase = "frame" /\ UNCHANGED tables
  BY DEF CheckFrame, At
<1>. PICK r : r = req[c]
  OBVIOUS
<1>2. r \in Request /\ Shaped(r) /\ (calm => Ready(r))
  BY <1>1, AtWork
<1>3. r.op \in {"create room", "update room", "save profile", "set team hours"}
  BY <1>1, <1>2 DEF Request, Ops, Shaped, Steps, Rewrites, Rehours, Rewriting
<1>4. r.draft \in Resource
  BY <1>1, <1>2, <1>3 DEF Shaped, Replacing
<1>5. CASE Ends(c)
  BY <1>1, <1>5, QuietOver
<1>6. ~Ends(c) => FitsWhere(r.draft)
  <2>. SUFFICES ASSUME ~Ends(c), r.draft.location \in Stored(locations)
                PROVE  Fits(r.draft, locations[r.draft.location])
    BY DEF FitsWhere
  <2>1. OutsideOf(r.draft, locations[r.draft.location]) = {}
    BY DEF CheckFrame
  <2>2. locations[r.draft.location] \in Location
    BY SoundParts DEF SetupInv, Tables, Stored
  <2>. QED
    BY <1>4, <2>1, <2>2, InsideFits
<1>7. CASE ~Ends(c) /\ r.op # "set team hours"
  <2>1. Goto(c, "write")
    BY <1>7 DEF CheckFrame
  <2>2. ASSUME NEW q, Same(q, r), q.phase = "write" PROVE Shaped(q)
    BY <1>1, <1>2, <1>3, <1>7, <2>2
       DEF Same, Shaped, Steps, Rewrites, Rehours, Rewriting, Replacing
  <2>3. ASSUME NEW q, Same(q, r), q.phase = "write", calm PROVE Ready(q)
    BY <1>1, <1>2, <1>3, <1>6, <1>7, <2>3 DEF Same, Ready, ServiceChecked, DeletionChecked,
       LocationChecked, TeamChecked, RowChecked, Rewrites, Rehours, Rewriting
  <2>. QED
    BY <1>1, <2>1, <2>2, <2>3, QuietGoto DEF Phases
<1>8. CASE ~Ends(c) /\ r.op = "set team hours"
  <2>1. PICK ph \in {"save", "prepare"} :
          Goes(c, [r EXCEPT !.phase = ph, !.todo = [r.todo EXCEPT ![r.row] = r.draft]])
    BY <1>8 DEF CheckFrame
  <2>. DEFINE todo == [r.todo EXCEPT ![r.row] = r.draft]
              q == [r EXCEPT !.phase = ph, !.todo = todo]
  <2>2. r.row \in Calendars /\ KindFits(r.row, r.draft)
    BY <1>1, <1>2, <1>8 DEF Shaped, Replacing
  <2>3. r.todo \in [Services \cup Calendars -> Service \cup Resource \cup {None}]
    BY <1>2 DEF Request
  <2>4. /\ todo \in [Services \cup Calendars -> Service \cup Resource \cup {None}]
        /\ \A e \in Stored(todo) :
              (e = r.row /\ todo[e] = r.draft) \/ (e \in Stored(r.todo) /\ todo[e] = r.todo[e])
    BY <1>4, <2>2, <2>3 DEF Stored
  <2>5. ph \in Phases
    BY DEF Phases
  <2>6. /\ q \in Request /\ q.op = r.op /\ q.id = r.id /\ q.draft = r.draft /\ q.left = r.left
        /\ q.phase = ph /\ q.row = r.row /\ q.todo = todo
    <3>. HIDE DEF todo
    <3>. QED
      BY <1>2, <2>4, <2>5 DEF Request
  <2>. HIDE DEF q, todo
  <2>7. Shaped(q)
    <3>1. \A e \in Stored(q.todo) : e \in Calendars /\ q.todo[e] \in Resource /\ KindFits(e, q.todo[e])
      BY <1>2, <1>4, <1>8, <2>2, <2>4, <2>6 DEF Shaped
    <3>2. q.left \subseteq Calendars
      BY <1>2, <1>8, <2>6 DEF Shaped
    <3>. QED
      BY <1>8, <2>6, <3>1, <3>2 DEF Shaped, Steps, Rewrites, Rehours, Rewriting, Replacing
  <2>8. calm => Ready(q)
    <3>. SUFFICES ASSUME calm PROVE Ready(q)
      OBVIOUS
    <3>1. TeamChecked(r)
      BY <1>2 DEF Ready
    <3>2. TeamChecked(q)
      BY <1>1, <1>6, <1>8, <2>4, <2>6, <3>1 DEF TeamChecked
    <3>. QED
      BY <1>8, <2>6, <3>2 DEF Ready, ServiceChecked, DeletionChecked, LocationChecked, RowChecked,
         Rewrites, Rehours, Rewriting
  <2>9. Goes(c, q)
    BY <2>1 DEF q, todo
  <2>. QED
    BY <1>1, <2>6, <2>7, <2>8, <2>9, QuietOnward
<1>. QED
  BY <1>5, <1>7, <1>8

LEMMA TeamPrepared ==
    ASSUME SetupInv, NEW c \in Clients, Prepare(c)
    PROVE  SetupInv'
<1>1. req[c] # None /\ req[c].phase = "prepare" /\ UNCHANGED tables
  BY DEF Prepare, At
<1>. PICK r : r = req[c]
  OBVIOUS
<1>2. r \in Request /\ Shaped(r) /\ (calm => Ready(r))
  BY <1>1, AtWork
<1>3. r.op = "set team hours" /\ r.left \subseteq Calendars
  BY <1>1, <1>2 DEF Request, Ops, Shaped, Steps, Rewrites, Rehours, Rewriting
<1>4. CASE Ends(c)
  BY <1>1, <1>4, QuietOver
<1>5. CASE ~Ends(c)
  <2>1. PICK e \in r.left :
          /\ resources[e] # None
          /\ Goes(c, [r EXCEPT !.phase = "frame", !.row = e, !.left = @ \ {e},
                               !.draft = WithWeek(resources[e], r.week)])
    BY <1>5 DEF Prepare
  <2>. PICK x, n : x = resources[e] /\ n = WithWeek(x, r.week)
    OBVIOUS
  <2>2. e \in Calendars /\ e \in Resources /\ x \in Resource /\ KindFits(e, x)
    BY <1>3, <2>1, SoundParts DEF SetupInv, Tables, Stored, Resources
  <2>3. n \in Resource /\ KindFits(e, n) /\ Revised(x, n)
    <3>1. r.week \in Week
      BY <1>2 DEF Request
    <3>2. CASE n = x
      BY <2>2, <3>2 DEF Revised
    <3>3. CASE n = Noted([x EXCEPT !.hours = r.week], "hours")
      BY <2>2, <3>1, <3>3, NotedWeek
    <3>. QED
      BY <3>2, <3>3 DEF WithWeek
  <2>. DEFINE q == [r EXCEPT !.phase = "frame", !.row = e, !.left = @ \ {e}, !.draft = n]
  <2>4. e \in Ids /\ "frame" \in Phases
    BY <2>2 DEF Ids, Phases
  <2>5. /\ q \in Request /\ q.op = r.op /\ q.phase = "frame" /\ q.row = e /\ q.draft = n
        /\ q.left \subseteq r.left /\ q.todo = r.todo
    BY <1>2, <2>3, <2>4 DEF Request
  <2>6. Goes(c, q)
    BY <2>1
  <2>. HIDE DEF q
  <2>7. Shaped(q)
    BY <1>2, <1>3, <2>2, <2>3, <2>5 DEF Shaped, Steps, Rewrites, Rehours, Rewriting, Replacing
  <2>8. calm => Ready(q)
    BY <1>2, <1>3, <2>1, <2>3, <2>5 DEF Ready, ServiceChecked, DeletionChecked, LocationChecked,
       TeamChecked, RowChecked, Rewrites, Rehours, Rewriting
  <2>. QED
    BY <1>1, <2>5, <2>6, <2>7, <2>8, QuietOnward
<1>. QED
  BY <1>4, <1>5

-----------------------------------------------------------------------------
(* The requests that write.                                                *)

LEMMA EndsKeeps ==
    ASSUME SetupInv, NEW c \in Clients, req[c] # None, Ends(c)
    PROVE  Requests' /\ OnlyOne' /\ calm' = calm
<1>1. calm' = calm /\ req' = [req EXCEPT ![c] = None] /\ begun' = begun
  BY DEF Ends
<1>2. Requests /\ OnlyOne
  BY SoundParts DEF SetupInv
<1>3. Requests'
  BY <1>1, <1>2 DEF Requests
<1>4. OnlyOne'
  <2>. SUFFICES ASSUME calm PROVE \A d \in Clients : req'[d] = None
    BY <1>1 DEF OnlyOne
  <2>. QED
    BY <1>1, <1>2 DEF Requests, OnlyOne
<1>. QED
  BY <1>1, <1>3, <1>4

LEMMA GoesKeeps ==
    ASSUME SetupInv, NEW c \in Clients, req[c] # None, NEW q \in Request, Shaped(q),
           calm => Ready(q)', Goes(c, q)
    PROVE  Requests' /\ OnlyOne' /\ calm' = calm /\ req'[c] = q /\ q # None
BY SoundParts, NotNone DEF SetupInv, Requests, OnlyOne, Goes

LEMMA StillAwaited ==
    ASSUME SetupInv, calm, NEW c \in Clients, req[c] # None, NEW i \in Stored(resources)
    PROVE  FitsWhere(resources[i]) \/ Awaited(req[c], i)
BY DEF SetupInv, OnlyOne, HoursAwait

LEMMA InvParts ==
    SetupInv <=> /\ Tables /\ ReferencesKept /\ Requests
                 /\ ListsKept /\ BookedStay /\ OnlyOne /\ HoursAwait
BY SoundParts DEF SetupInv

LEMMA ServiceWritten ==
    ASSUME SetupInv, NEW c \in Clients, WriteService(c)
    PROVE  SetupInv'
<1>1. /\ req[c] # None /\ req[c].phase = "write"
      /\ req[c].op \in Rewrites \cup {"delete location"}
      /\ UNCHANGED <<locations, resources, bookings>>
  BY DEF WriteService, At, Rewrites
<1>. PICK r : r = req[c]
  OBVIOUS
<1>2. r \in Request /\ Shaped(r) /\ (calm => Ready(r))
  BY <1>1, AtWork
<1>3. r.row \in Services /\ r.draft \in Service
  BY <1>1, <1>2 DEF Shaped, Rewriting
<1>4. CASE r.op # "create service" /\ services[r.row] = None
  <2>1. UNCHANGED services /\ Ends(c)
    BY <1>4 DEF WriteService
  <2>. QED
    BY <1>1, <2>1, QuietOver DEF tables
<1>5. CASE ~(r.op # "create service" /\ services[r.row] = None)
  <2>1. /\ services' = [services EXCEPT ![r.row] = r.draft]
        /\ IF r.op = "delete location"
           THEN Goes(c, [r EXCEPT !.phase = "stop", !.wrote = TRUE]) ELSE Ends(c)
    BY <1>5 DEF WriteService
  <2>2. Tables /\ ReferencesKept /\ ListsKept /\ BookedStay /\ HoursAwait
    BY InvParts
  <2>3. r.draft # None
    BY <1>3, NotNone
  <2>4. Tables'
    BY <1>1, <1>3, <2>1, <2>2 DEF Tables, Stored, KindFits
  <2>5. ReferencesKept'
    <3>1. \A b \in Stored(bookings) : bookings[b].service \in Services
      BY <2>2 DEF Tables, Stored, Booking
    <3>2. \A s \in Services : services[s] # None => services'[s] # None
      BY <1>3, <2>1, <2>2, <2>3 DEF Tables
    <3>. QED
      BY <1>1, <2>2, <3>1, <3>2 DEF ReferencesKept, Stored
  <2>6. \A s \in Stored(services)' :
          /\ s \in Services
          /\ \/ s = r.row /\ services'[s] = r.draft
             \/ s # r.row /\ s \in Stored(services) /\ services'[s] = services[s]
    BY <1>3, <2>1, <2>2 DEF Tables, Stored
  <2>7. calm => /\ r.draft.at # {} /\ r.draft.at \subseteq Stored(locations)
                /\ KnownPool(r.draft) /\ FitsLocations(r.draft)
    BY <1>1, <1>2, <1>3 DEF Ready, ServiceChecked, Rewriting, Service
  <2>8. Stored(locations)' = Stored(locations) /\ Stored(resources)' = Stored(resources)
    BY <1>1 DEF Stored
  <2>9. \A f : FitsLocations(f)' = FitsLocations(f)
    BY <1>1, <2>8 DEF FitsLocations, FitsWeek
  <2>10. calm => \A s \in Stored(services)' :
                    /\ services'[s].at # {} /\ services'[s].at \subseteq Stored(locations)
                    /\ services'[s].pool \subseteq Stored(resources)
                    /\ FitsLocations(services'[s])
    BY <2>2, <2>6, <2>7 DEF ListsKept, HoursAwait, KnownPool
  <2>11. \A i \in Stored(resources) : FitsWhere(resources[i])' = FitsWhere(resources[i])
    BY <1>1, <2>8 DEF FitsWhere, Fits, FitsWeek, EmployeeHours
  <2>12. calm => \A i \in Stored(resources) : FitsWhere(resources[i])
    BY <1>1, StillAwaited DEF Awaited
  <2>13. calm' = calm => ListsKept' /\ BookedStay' /\ HoursAwait'
    <3>1. calm' = calm => ListsKept'
      BY <2>8, <2>10 DEF ListsKept
    <3>2. calm' = calm => BookedStay'
      BY <1>1, <2>2 DEF BookedStay, Stored
    <3>3. calm' = calm => HoursAwait'
      BY <2>8, <2>9, <2>10, <2>11, <2>12 DEF HoursAwait
    <3>. QED
      BY <3>1, <3>2, <3>3
  <2>14. CASE r.op # "delete location"
    <3>1. Requests' /\ OnlyOne' /\ calm' = calm
      BY <1>1, <2>1, <2>14, EndsKeeps
    <3>. QED
      BY <2>4, <2>5, <2>13, <3>1, InvParts, PTL
  <2>15. CASE r.op = "delete location"
    <3>. DEFINE q == [r EXCEPT !.phase = "stop", !.wrote = TRUE]
    <3>1. q \in Request /\ q.op = r.op /\ q.id = r.id /\ q.todo = r.todo /\ q.phase = "stop"
      BY <1>2 DEF Request, Phases
    <3>2. Goes(c, q)
      BY <2>1, <2>15
    <3>. HIDE DEF q
    <3>3. Shaped(q)
      BY <1>2, <2>15, <3>1 DEF Shaped, Steps, Rewrites, Rehours, Rewriting, Replacing
    <3>4. r.id \notin r.draft.at
      BY <1>1, <1>2, <2>15 DEF Shaped, Rewriting
    <3>5. calm => Ready(q)'
      <4>1. calm => DeletionChecked(q)'
        BY <1>1, <1>2, <2>6, <2>15, <3>1, <3>4 DEF Ready, DeletionChecked, Rewriting
      <4>. QED
        BY <2>15, <3>1, <4>1 DEF Ready, ServiceChecked, LocationChecked, TeamChecked, RowChecked,
           Rewrites, Rehours, Rewriting
    <3>6. Requests' /\ OnlyOne' /\ calm' = calm
      BY <1>1, <3>1, <3>2, <3>3, <3>5, GoesKeeps
    <3>. QED
      BY <2>4, <2>5, <2>13, <3>6, InvParts, PTL
  <2>. QED
    BY <2>14, <2>15
<1>. QED
  BY <1>4, <1>5

LEMMA LocationWritten ==
    ASSUME SetupInv, NEW c \in Clients, WriteLocation(c)
    PROVE  SetupInv'
<1>1. /\ req[c] # None /\ req[c].phase = "write"
      /\ req[c].op \in Rehours \cup {"create location"}
      /\ UNCHANGED <<services, resources, bookings>>
  BY DEF WriteLocation, At, Rehours
<1>. PICK r : r = req[c]
  OBVIOUS
<1>2. r \in Request /\ Shaped(r) /\ (calm => Ready(r))
  BY <1>1, AtWork
<1>3. r.id \in Locations /\ r.draft \in Location /\ r.draft # None
  BY <1>1, <1>2, NotNone DEF Shaped
<1>4. CASE r.op # "create location" /\ locations[r.id] = None
  <2>1. UNCHANGED locations /\ Ends(c)
    BY <1>4 DEF WriteLocation
  <2>. QED
    BY <1>1, <2>1, QuietOver DEF tables
<1>5. CASE ~(r.op # "create location" /\ locations[r.id] = None)
  <2>1. /\ locations' = [locations EXCEPT ![r.id] = r.draft]
        /\ IF r.op = "create location" THEN Ends(c)
           ELSE Goes(c, [r EXCEPT !.phase = "team", !.wrote = TRUE])
    BY <1>5 DEF WriteLocation
  <2>2. Tables /\ ReferencesKept /\ ListsKept /\ BookedStay /\ HoursAwait
    BY InvParts
  <2>3. Tables'
    BY <1>1, <1>3, <2>1, <2>2 DEF Tables, Stored, KindFits
  <2>4. /\ locations'[r.id] = r.draft
        /\ \A l \in Locations \ {r.id} : locations'[l] = locations[l]
        /\ Stored(locations)' = Stored(locations) \cup {r.id}
        /\ Stored(services)' = Stored(services) /\ Stored(resources)' = Stored(resources)
        /\ Stored(bookings)' = Stored(bookings)
    BY <1>1, <1>3, <2>1, <2>2 DEF Tables, Stored
  <2>5. ReferencesKept'
    <3>1. \A b \in Stored(bookings) : bookings[b].at \in Locations
      BY <2>2 DEF Tables, Stored, Booking
    <3>. QED
      BY <1>1, <1>3, <2>2, <2>4, <3>1 DEF ReferencesKept
  <2>6. \A s \in Stored(services) :
          services[s].at \subseteq Locations /\ services[s] \in Service
    BY <2>2 DEF Tables, Stored, Service
  <2>7. \A i \in Stored(resources) : resources[i] \in Resource /\ KindFits(i, resources[i])
          /\ (i \in Rooms \/ i \in Calendars)
    BY <2>2 DEF Tables, Stored, Resources
  <2>8. calm => \A s \in Stored(services) :
          /\ services[s].at # {} /\ services[s].at \subseteq Stored(locations)
          /\ services[s].pool \subseteq Stored(resources) /\ FitsLocations(services[s])
    BY <2>2 DEF ListsKept, HoursAwait
  <2>9. r.op = "create location" /\ calm => r.id \notin Stored(locations)
    BY <1>2 DEF Ready, LocationChecked, Stored
  <2>10. calm => \A s \in Stored(services) :
                    r.id \in services[s].at => FitsWeek(services[s].hours, r.draft)
    <3>1. CASE r.op = "create location"
      BY <2>8, <2>9, <3>1
    <3>2. CASE r.op \in Rehours
      BY <1>1, <1>2, <3>2 DEF Ready, LocationChecked
    <3>. QED
      BY <1>1, <3>1, <3>2
  <2>11. calm => \A s \in Stored(services) : FitsLocations(services[s])'
    BY ZenonT(40), <1>1, <2>4, <2>6, <2>8, <2>10 DEF FitsLocations, FitsWeek
  <2>12. ASSUME calm, NEW i \in Stored(resources), resources[i].location # r.id
         PROVE  FitsWhere(resources[i])'
    <3>1. FitsWhere(resources[i])
      BY <1>1, <2>12, StillAwaited DEF Awaited
    <3>2. resources[i].location \in Stored(locations)' =>
             /\ resources[i].location \in Stored(locations)
             /\ locations'[resources[i].location] = locations[resources[i].location]
      BY <2>2, <2>4, <2>12 DEF Tables, Stored
    <3>. QED
      BY <1>1, <3>1, <3>2 DEF FitsWhere, Fits, FitsWeek, EmployeeHours
  <2>13. calm' = calm => ListsKept' /\ BookedStay'
    <3>1. calm' = calm => ListsKept'
      BY <1>1, <2>4, <2>8 DEF ListsKept
    <3>2. calm' = calm => BookedStay'
      BY <1>1, <2>2, <2>4 DEF BookedStay
    <3>. QED
      BY <3>1, <3>2
  <2>14. CASE r.op = "create location"
    <3>1. Requests' /\ OnlyOne' /\ calm' = calm
      BY <1>1, <2>1, <2>14, EndsKeeps
    <3>2. calm => \A i \in Stored(resources) : resources[i].location # r.id
      BY <2>2, <2>9, <2>14, SetupIds, <1>3 DEF ReferencesKept, Ids
    <3>3. HoursAwait'
      BY <1>1, <2>4, <2>11, <2>12, <3>1, <3>2 DEF HoursAwait
    <3>. QED
      BY <2>3, <2>5, <2>13, <3>1, <3>3, InvParts, PTL
  <2>15. CASE r.op \in Rehours
    <3>. DEFINE q == [r EXCEPT !.phase = "team", !.wrote = TRUE]
    <3>1. /\ q \in Request /\ q.op = r.op /\ q.id = r.id /\ q.todo = r.todo /\ q.draft = r.draft
          /\ q.phase = "team" /\ q.wrote
      BY <1>2 DEF Request, Phases
    <3>2. Goes(c, q)
      BY <2>1, <2>15 DEF Rehours
    <3>. HIDE DEF q
    <3>3. Stored(r.todo) = {}
      BY <1>1, <1>2, <2>15 DEF Shaped
    <3>4. Shaped(q)
      BY <1>2, <2>15, <3>1, <3>3 DEF Shaped, Steps, Rewrites, Rehours, Rewriting, Replacing
    <3>5. calm => Ready(q)'
      BY ZenonT(40), <2>4, <2>15, <3>1, <3>3 DEF Ready, ServiceChecked, DeletionChecked, LocationChecked,
         TeamChecked, RowChecked, Rewrites, Rehours, Rewriting, Stored
    <3>6. Requests' /\ OnlyOne' /\ calm' = calm /\ req'[c] = q /\ q # None
      BY <1>1, <3>1, <3>2, <3>4, <3>5, GoesKeeps
    <3>7. ASSUME calm, NEW i \in Stored(resources)
          PROVE  FitsWhere(resources[i])' \/ Awaited(q, i)'
      <4>1. CASE resources[i].location # r.id
        BY <2>12, <3>7, <4>1
      <4>2. CASE resources[i].location = r.id /\ i \in Calendars
        BY <1>1, <2>15, <3>1, <4>2 DEF Awaited
      <4>3. CASE resources[i].location = r.id /\ i \in Rooms
        <5>1. resources[i].owner = None
          BY <2>7, <4>3, SetupIds DEF KindFits
        <5>2. FitsWeek(resources[i].hours, r.draft)
          BY <1>1, <1>2, <2>15, <3>7, <4>3 DEF Ready, LocationChecked
        <5>. QED
          BY <1>1, <2>4, <4>3, <5>1, <5>2 DEF FitsWhere, Fits, FitsWeek
      <4>. QED
        BY <2>7, <4>1, <4>2, <4>3
    <3>8. HoursAwait'
      <4>1. ASSUME calm, NEW i \in Stored(resources)'
            PROVE  FitsWhere(resources[i])' \/ \E d \in Clients : req'[d] # None /\ Awaited(req[d], i)'
        <5>1. Awaited(q, i)' = Awaited(req[c], i)'
          BY <3>6 DEF Awaited
        <5>. QED
          BY <2>4, <3>6, <3>7, <4>1, <5>1
      <4>. QED
        BY <2>4, <2>11, <3>6, <4>1 DEF HoursAwait
    <3>. QED
      BY <2>3, <2>5, <2>13, <3>6, <3>8, InvParts, PTL
  <2>. QED
    BY <1>1, <2>14, <2>15
<1>. QED
  BY <1>4, <1>5

\* What another row in the table of resources leaves as it was.
LEMMA RowFrame ==
    ASSUME Tables, NEW i \in Resources, NEW n \in Resource, n # None, KindFits(i, n),
           resources' = [resources EXCEPT ![i] = n], UNCHANGED <<locations, services, bookings>>
    PROVE  /\ Tables'
           /\ resources'[i] = n
           /\ \A k \in Resources \ {i} : resources'[k] = resources[k]
           /\ Stored(resources)' = Stored(resources) \cup {i}
           /\ Stored(resources)' \subseteq Resources
           /\ \A r : FitsWhere(r)' = FitsWhere(r)
           /\ \A s : FitsLocations(s)' = FitsLocations(s)
<1>1. Tables'
  BY DEF Tables, Stored
<1>2. \A r : FitsWhere(r)' = FitsWhere(r)
  BY DEF FitsWhere, Fits, FitsWeek, EmployeeHours, Stored
<1>3. \A s : FitsLocations(s)' = FitsLocations(s)
  BY DEF FitsLocations, FitsWeek, Stored
<1>. QED
  BY <1>1, <1>2, <1>3 DEF Tables, Stored

LEMMA RowKeepsReferences ==
    ASSUME Tables, ReferencesKept, NEW i \in Resources, NEW n \in Resource, n # None,
           KindFits(i, n), n.location \in Stored(locations) \cup {None},
           resources' = [resources EXCEPT ![i] = n], UNCHANGED <<locations, services, bookings>>
    PROVE  /\ ReferencesKept'
           /\ ListsKept /\ calm' = calm => ListsKept'
<1>1. /\ resources'[i] = n
      /\ \A k \in Resources \ {i} : resources'[k] = resources[k]
      /\ Stored(resources)' = Stored(resources) \cup {i}
  BY RowFrame
<1>2. \A b \in Stored(bookings) : bookings[b].on \in Resources
  BY DEF Tables, Stored, Booking
<1>3. /\ Stored(locations)' = Stored(locations) /\ Stored(services)' = Stored(services)
      /\ Stored(bookings)' = Stored(bookings)
  BY DEF Stored
<1>4. Stored(resources) \subseteq Resources
  BY DEF Tables, Stored
<1>5. ReferencesKept'
  BY <1>1, <1>2, <1>3, <1>4 DEF ReferencesKept
<1>6. ListsKept /\ calm' = calm => ListsKept'
  BY <1>1, <1>3 DEF ListsKept
<1>. QED
  BY <1>5, <1>6

LEMMA NextSaved ==
    ASSUME SetupInv, NEW c \in Clients, SaveNext(c)
    PROVE  SetupInv'
<1>1. /\ req[c] # None /\ req[c].phase = "save"
      /\ UNCHANGED <<locations, services, bookings>>
  BY DEF SaveNext, At
<1>. PICK r : r = req[c]
  OBVIOUS
<1>2. r \in Request /\ Shaped(r) /\ (calm => Ready(r))
  BY <1>1, AtWork
<1>3. r.op \in Rehours \cup {"set team hours"}
  BY <1>1, <1>2 DEF Request, Ops, Shaped, Steps, Rewrites, Rehours, Rewriting
<1>4. PICK e \in Stored(r.todo) :
        LET rest == [r.todo EXCEPT ![e] = None]
        IN  IF IsUpdated(e, r.todo[e])
            THEN /\ resources' = [resources EXCEPT ![e] = r.todo[e]]
                 /\ IF Stored(rest) = {} THEN Ends(c)
                    ELSE Goes(c, [r EXCEPT !.todo = rest, !.wrote = TRUE])
            ELSE UNCHANGED resources /\ Ends(c)
  BY DEF SaveNext
<1>. PICK n : n = r.todo[e]
  OBVIOUS
<1>5. e \in Calendars /\ e \in Resources /\ n \in Resource /\ n # None /\ KindFits(e, n)
  BY <1>2, <1>3, NotNone DEF Shaped, Resources
<1>6. Tables /\ ReferencesKept /\ Requests /\ ListsKept /\ BookedStay /\ HoursAwait
  BY InvParts
<1>7. calm => resources[e] # None /\ Revised(resources[e], n) /\ FitsWhere(n)
  BY <1>2, <1>3 DEF Ready, TeamChecked
<1>8. CASE ~IsUpdated(e, n)
  <2>1. UNCHANGED tables /\ Ends(c)
    BY <1>1, <1>4, <1>8 DEF tables
  <2>2. ~calm
    <3>. SUFFICES ASSUME calm PROVE FALSE
      OBVIOUS
    <3>1. e \in Stored(resources) /\ n.location = resources[e].location
      BY <1>5, <1>6, <1>7 DEF Tables, Stored, Revised
    <3>2. n.location \in Stored(locations) \cup {None}
      BY <1>6, <3>1 DEF ReferencesKept
    <3>. QED
      BY <1>7, <1>8, <3>2 DEF IsUpdated
  <2>. QED
    BY <1>1, <2>1, <2>2, Over
<1>9. CASE IsUpdated(e, n)
  <2>. DEFINE rest == [r.todo EXCEPT ![e] = None]
  <2>1. /\ resources' = [resources EXCEPT ![e] = n]
        /\ IF Stored(rest) = {} THEN Ends(c)
           ELSE Goes(c, [r EXCEPT !.todo = rest, !.wrote = TRUE])
    BY <1>4, <1>9
  <2>2. resources[e] # None /\ n.location \in Stored(locations) \cup {None}
    BY <1>9 DEF IsUpdated
  <2>3. /\ Tables' /\ resources'[e] = n
        /\ \A k \in Resources \ {e} : resources'[k] = resources[k]
        /\ Stored(resources)' = Stored(resources) \cup {e}
        /\ Stored(resources)' \subseteq Resources
        /\ \A x : FitsWhere(x)' = FitsWhere(x)
        /\ \A s : FitsLocations(s)' = FitsLocations(s)
    BY <1>1, <1>5, <1>6, <2>1, RowFrame
  <2>4. ReferencesKept' /\ (calm' = calm => ListsKept')
    BY <1>1, <1>5, <1>6, <2>1, <2>2, RowKeepsReferences
  <2>5. calm' = calm => BookedStay'
    <3>1. Stored(bookings)' = Stored(bookings)
      BY <1>1 DEF Stored
    <3>2. \A b \in Stored(bookings) : bookings[b].on \in Resources
      BY <1>6 DEF Tables, Stored, Booking
    <3>3. calm => n.owner = resources[e].owner /\ n.location = resources[e].location
      BY <1>7 DEF Revised
    <3>. QED
      BY <1>1, <1>6, <2>3, <3>1, <3>2, <3>3 DEF BookedStay
  <2>6. calm => \A s \in Stored(services)' : FitsLocations(services[s])'
    BY <1>1, <1>6, <2>3 DEF HoursAwait, Stored
  <2>7. r.todo \in [Services \cup Calendars -> Service \cup Resource \cup {None}]
    BY <1>2 DEF Request
  <2>8. /\ rest \in [Services \cup Calendars -> Service \cup Resource \cup {None}]
        /\ \A k : k \in Stored(rest) <=> k \in Stored(r.todo) /\ k # e
        /\ \A k \in Stored(rest) : rest[k] = r.todo[k]
    BY <1>5, <2>7 DEF Stored
  <2>. HIDE DEF rest
  <2>9. ASSUME calm, NEW i \in Stored(resources)', ~FitsWhere(resources'[i])
        PROVE  r.op \in Rehours /\ i \in Calendars /\ i \in Stored(rest)
    <3>1. i # e
      BY <1>7, <2>3, <2>9
    <3>2. i \in Stored(resources) /\ resources'[i] = resources[i]
      BY <2>3, <2>9, <3>1
    <3>3. Awaited(r, i)
      BY <1>1, <2>9, <3>2, StillAwaited
    <3>. QED
      BY <1>1, <2>8, <3>1, <3>3 DEF Awaited
  <2>10. CASE Stored(rest) = {}
    <3>1. Requests' /\ OnlyOne' /\ calm' = calm
      BY <1>1, <2>1, <2>10, EndsKeeps
    <3>2. HoursAwait'
      BY <2>3, <2>6, <2>9, <2>10, <3>1 DEF HoursAwait
    <3>. QED
      BY <2>3, <2>4, <2>5, <3>1, <3>2, InvParts, PTL
  <2>11. CASE Stored(rest) # {}
    <3>. DEFINE q == [r EXCEPT !.todo = rest, !.wrote = TRUE]
    <3>1. /\ q \in Request /\ q.op = r.op /\ q.id = r.id /\ q.todo = rest /\ q.draft = r.draft
          /\ q.phase = "save" /\ q.wrote /\ q.left = r.left
      BY <1>1, <1>2, <2>8 DEF Request
    <3>2. Goes(c, q)
      BY <2>1, <2>11
    <3>. HIDE DEF q
    <3>3. Shaped(q)
      <4>1. \A k \in Stored(q.todo) : k \in Calendars /\ q.todo[k] \in Resource /\ KindFits(k, q.todo[k])
        BY <1>2, <1>3, <2>8, <3>1 DEF Shaped
      <4>2. q.op = "set team hours" => q.left \subseteq Calendars
        BY <1>2, <3>1 DEF Shaped
      <4>3. q.op \in Rehours => q.id \in Locations /\ q.draft \in Location
        BY <1>2, <3>1 DEF Shaped
      <4>. QED
        BY <1>3, <3>1, <4>1, <4>2, <4>3
           DEF Shaped, Steps, Rewrites, Rehours, Rewriting, Replacing
    <3>4. calm => Ready(q)'
      <4>. SUFFICES ASSUME calm PROVE Ready(q)'
        OBVIOUS
      <4>1. TeamChecked(r) /\ LocationChecked(r)
        BY <1>2 DEF Ready
      <4>2. ASSUME NEW k \in Stored(rest)
            PROVE  k \in Resources \ {e} /\ k \in Stored(r.todo) /\ rest[k] = r.todo[k]
        BY <1>2, <1>3, <2>8 DEF Shaped, Resources
      <4>3. \A k \in Stored(rest) : resources'[k] # None /\ Revised(resources'[k], rest[k])
                                   /\ FitsWhere(rest[k])'
        BY <1>3, <2>3, <4>1, <4>2 DEF TeamChecked
      <4>4. TeamChecked(q)'
        BY <3>1, <4>3 DEF TeamChecked, Stored, Revised
      <4>5. LocationChecked(q)'
        BY <1>1, <1>3, <3>1, <4>1 DEF LocationChecked, Rehours
      <4>. QED
        BY <1>3, <3>1, <4>4, <4>5 DEF Ready, ServiceChecked, DeletionChecked, RowChecked,
           Rewrites, Rehours, Rewriting
    <3>5. Requests' /\ OnlyOne' /\ calm' = calm /\ req'[c] = q /\ q # None
      BY <1>1, <3>1, <3>2, <3>3, <3>4, GoesKeeps
    <3>6. ASSUME calm, NEW i \in Stored(resources)'
          PROVE  FitsWhere(resources[i])' \/ \E d \in Clients : req'[d] # None /\ Awaited(req[d], i)'
      <4>1. CASE FitsWhere(resources'[i])
        BY <2>3, <4>1
      <4>2. CASE ~FitsWhere(resources'[i])
        <5>1. Awaited(q, i)'
          BY <2>9, <3>1, <3>6, <4>2 DEF Awaited, Stored
        <5>2. Awaited(q, i)' = Awaited(req[c], i)'
          BY <3>5 DEF Awaited
        <5>. QED
          BY <3>5, <5>1, <5>2
      <4>. QED
        BY <4>1, <4>2
    <3>7. HoursAwait'
      BY <2>6, <3>5, <3>6 DEF HoursAwait
    <3>. QED
      BY <2>3, <2>4, <2>5, <3>5, <3>7, InvParts, PTL
  <2>. QED
    BY <2>10, <2>11
<1>. QED
  BY <1>8, <1>9

LEMMA RowWritten ==
    ASSUME SetupInv, NEW c \in Clients, WriteResource(c)
    PROVE  SetupInv'
<1>1. /\ req[c] # None /\ req[c].phase = "write" /\ Ends(c)
      /\ req[c].op \in {"create room", "update room", "save profile", "acknowledge", "set services"}
      /\ UNCHANGED <<locations, services, bookings>>
  BY DEF WriteResource, At
<1>. PICK r : r = req[c]
  OBVIOUS
<1>2. r \in Request /\ Shaped(r) /\ (calm => Ready(r))
  BY <1>1, AtWork
<1>3. CASE UNCHANGED resources
  BY <1>1, <1>3, QuietOver DEF tables
<1>4. CASE ~UNCHANGED resources
  <2>1. PICK i :
          /\ \/ r.row = None /\ i \in Calendars /\ resources[i] = None
             \/ r.row # None /\ i = r.row
          /\ r.draft.location \in Stored(locations) \cup {None}
          /\ resources' = [resources EXCEPT ![i] = r.draft]
    BY <1>4 DEF WriteResource
  <2>. PICK n : n = r.draft
    OBVIOUS
  <2>2. i \in Resources /\ n \in Resource /\ n # None /\ KindFits(i, n)
    <3>1. CASE r.op # "save profile"
      BY <1>1, <1>2, <2>1, <3>1, NotNone, SetupIds DEF Shaped, Replacing, Ids
    <3>2. CASE r.op = "save profile"
      BY <1>1, <1>2, <2>1, <3>2, NotNone DEF Shaped, KindFits, Resources
    <3>. QED
      BY <3>1, <3>2
  <2>3. Tables /\ ReferencesKept /\ Requests /\ ListsKept /\ BookedStay /\ HoursAwait
    BY InvParts
  <2>4. /\ Tables' /\ resources'[i] = n
        /\ \A k \in Resources \ {i} : resources'[k] = resources[k]
        /\ Stored(resources)' = Stored(resources) \cup {i}
        /\ Stored(resources)' \subseteq Resources
        /\ \A x : FitsWhere(x)' = FitsWhere(x)
        /\ \A s : FitsLocations(s)' = FitsLocations(s)
    BY <1>1, <2>1, <2>2, <2>3, RowFrame
  <2>5. ReferencesKept' /\ (calm' = calm => ListsKept')
    BY <1>1, <2>1, <2>2, <2>3, RowKeepsReferences
  <2>6. Requests' /\ OnlyOne' /\ calm' = calm
    BY <1>1, EndsKeeps
  <2>7. calm => \A k \in Stored(resources) : FitsWhere(resources[k])
    BY <1>1, StillAwaited DEF Awaited
  <2>8. calm /\ r.op \in {"acknowledge", "set services"} =>
          /\ i \in Stored(resources)
          /\ n.hours = resources[i].hours /\ n.location = resources[i].location
          /\ n.owner = resources[i].owner
    <3>1. r.op \in {"acknowledge", "set services"} => r.row \in Resources
      BY <1>2 DEF Shaped, Replacing
    <3>2. r.row \in Resources => r.row # None
      BY SetupIds DEF Ids, Resources
    <3>. QED
      BY <1>2, <2>1, <2>3, <3>1, <3>2 DEF Ready, RowChecked, Tables, Stored
  <2>9. calm => FitsWhere(n)
    <3>1. CASE r.op \in {"acknowledge", "set services"}
      BY <2>7, <2>8, <3>1 DEF FitsWhere, Fits
    <3>2. CASE r.op \in {"create room", "update room", "save profile"}
      BY <1>1, <1>2, <3>2 DEF Ready, RowChecked
    <3>. QED
      BY <1>1, <3>1, <3>2
  <2>10. HoursAwait'
    <3>1. calm => \A s \in Stored(services)' : FitsLocations(services[s])'
      BY <1>1, <2>3, <2>4 DEF HoursAwait, Stored
    <3>2. calm => \A k \in Stored(resources)' : FitsWhere(resources[k])'
      BY <2>4, <2>7, <2>9
    <3>. QED
      BY <2>6, <3>1, <3>2 DEF HoursAwait
  <2>11. BookedStay'
    <3>1. Stored(bookings)' = Stored(bookings)
      BY <1>1 DEF Stored
    <3>2. \A b \in Stored(bookings) : bookings[b].on \in Resources
      BY <2>3 DEF Tables, Stored, Booking
    <3>3. ASSUME calm, NEW b \in Stored(bookings), bookings[b].state = "upcoming",
                 bookings[b].on = i, n.owner # None
          PROVE  n.location = bookings[b].at
      <4>1. resources[i] # None
        BY <2>3, <3>3 DEF ReferencesKept
      <4>2. r.row = i /\ i # None
        BY <2>1, <4>1
      <4>3. HasUpcoming(i)
        BY <3>3 DEF HasUpcoming
      <4>4. resources[i].owner # None
        <5>1. i \in Stored(resources)
          BY <2>2, <2>3, <4>1 DEF Tables, Stored
        <5>. QED
          BY <2>2, <2>3, <3>3, <5>1 DEF Tables, KindFits
      <4>5. resources[i].location = bookings[b].at
        BY <2>3, <3>3, <4>4 DEF BookedStay
      <4>6. n.location = resources[i].location
        <5>1. CASE r.op \in {"acknowledge", "set services"}
          BY <2>8, <3>3, <5>1
        <5>2. CASE r.op = "save profile"
          BY <1>1, <1>2, <3>3, <4>2, <4>3, <5>2 DEF Ready, RowChecked
        <5>3. CASE r.op \in {"create room", "update room"}
          <6>1. i \in Rooms /\ i \notin Calendars
            BY <1>2, <4>2, <5>3, SetupIds DEF Shaped
          <6>. QED
            BY <2>2, <3>3, <6>1 DEF KindFits
        <5>. QED
          BY <1>1, <5>1, <5>2, <5>3
      <4>. QED
        BY <4>5, <4>6
    <3>4. ASSUME calm, NEW b \in Stored(bookings), bookings[b].state = "upcoming",
                 resources'[bookings[b].on].owner # None
          PROVE  resources'[bookings[b].on].location = bookings[b].at
      <4>1. CASE bookings[b].on = i
        BY <2>4, <3>3, <3>4, <4>1
      <4>2. CASE bookings[b].on # i
        BY <2>3, <2>4, <3>2, <3>4, <4>2 DEF BookedStay
      <4>. QED
        BY <4>1, <4>2
    <3>. QED
      BY <1>1, <2>6, <3>1, <3>4 DEF BookedStay
  <2>. QED
    BY <2>4, <2>5, <2>6, <2>10, <2>11, InvParts, PTL
<1>. QED
  BY <1>3, <1>4

LEMMA BookingWritten ==
    ASSUME SetupInv, NEW c \in Clients, WriteBooking(c)
    PROVE  SetupInv'
<1>1. /\ req[c] # None /\ req[c].phase = "write" /\ Ends(c) /\ req[c].op = "book"
      /\ UNCHANGED <<locations, services, resources>>
  BY DEF WriteBooking, At
<1>. PICK r : r = req[c]
  OBVIOUS
<1>2. r \in Request /\ Shaped(r) /\ (calm => Ready(r))
  BY <1>1, AtWork
<1>3. CASE UNCHANGED bookings
  BY <1>1, <1>3, QuietOver DEF tables
<1>4. CASE ~UNCHANGED bookings
  <2>1. /\ bookings' = [bookings EXCEPT ![r.id] = r.draft]
        /\ services[r.draft.service] # None /\ locations[r.draft.at] # None
        /\ resources[r.draft.on] # None
    BY <1>4 DEF WriteBooking
  <2>2. r.id \in Bookings /\ r.draft \in Booking /\ r.draft # None
    BY <1>1, <1>2, NotNone DEF Shaped
  <2>3. Tables /\ ReferencesKept /\ Requests /\ ListsKept /\ BookedStay /\ HoursAwait
    BY InvParts
  <2>4. Tables'
    BY <1>1, <2>1, <2>2, <2>3 DEF Tables, Stored, KindFits
  <2>5. \A b \in Stored(bookings)' :
          \/ bookings'[b] = r.draft
          \/ b \in Stored(bookings) /\ bookings'[b] = bookings[b]
    BY <2>1, <2>2, <2>3 DEF Tables, Stored
  <2>6. /\ Stored(locations)' = Stored(locations) /\ Stored(services)' = Stored(services)
        /\ Stored(resources)' = Stored(resources)
    BY <1>1 DEF Stored
  <2>7. ReferencesKept'
    <3>1. ASSUME NEW b \in Stored(bookings)'
          PROVE  /\ services[bookings'[b].service] # None
                 /\ locations[bookings'[b].at] # None
                 /\ bookings'[b].state # "ended" => resources[bookings'[b].on] # None
      <4>1. CASE bookings'[b] = r.draft
        BY <2>1, <4>1
      <4>2. CASE b \in Stored(bookings) /\ bookings'[b] = bookings[b]
        BY <2>3, <4>2 DEF ReferencesKept
      <4>. QED
        BY <2>5, <4>1, <4>2
    <3>2. \A i \in Stored(resources) : resources[i].location \in Stored(locations) \cup {None}
      BY <2>3 DEF ReferencesKept
    <3>. QED
      BY <1>1, <2>6, <3>1, <3>2 DEF ReferencesKept
  <2>8. Requests' /\ OnlyOne' /\ calm' = calm
    BY <1>1, EndsKeeps
  <2>9. ListsKept'
    BY <1>1, <2>3, <2>6, <2>8 DEF ListsKept
  <2>10. calm => \A k \in Stored(resources) : FitsWhere(resources[k])
    BY <1>1, StillAwaited DEF Awaited
  <2>11. /\ \A x : FitsWhere(x)' = FitsWhere(x)
         /\ \A s : FitsLocations(s)' = FitsLocations(s)
    BY <1>1, <2>6 DEF FitsWhere, Fits, FitsWeek, EmployeeHours, FitsLocations
  <2>12. HoursAwait'
    BY <1>1, <2>3, <2>6, <2>8, <2>10, <2>11 DEF HoursAwait
  <2>13. calm /\ resources[r.draft.on].owner # None => resources[r.draft.on].location = r.draft.at
    <3>1. r.draft.on \in Stored(resources)
      BY <2>1, <2>2, <2>3 DEF Booking, Tables, Stored
    <3>2. resources[r.draft.on].owner # None => resources[r.draft.on].location # None
      BY <2>3, <3>1 DEF Tables, KindFits
    <3>. QED
      BY <1>1, <1>2, <3>2 DEF Ready, RowChecked, ServesLocation
  <2>14. BookedStay'
    BY <1>1, <2>3, <2>5, <2>8, <2>13 DEF BookedStay
  <2>. QED
    BY <2>4, <2>7, <2>8, <2>9, <2>12, <2>14, InvParts, PTL
<1>. QED
  BY <1>3, <1>4

LEMMA RequestFails ==
    ASSUME SetupInv, NEW c \in Clients, Fail(c)
    PROVE  SetupInv'
<1>1. /\ req[c] # None /\ calm' = (calm /\ ~req[c].wrote) /\ req' = [req EXCEPT ![c] = None]
      /\ UNCHANGED <<tables, begun>>
  BY DEF Fail
<1>2. req[c] \in Request /\ Shaped(req[c])
  BY <1>1, AtWork
<1>3. Requests /\ OnlyOne /\ HoursAwait
  BY InvParts
<1>4. Tables' /\ ReferencesKept' /\ ListsKept' /\ BookedStay'
  BY <1>1, TablesFrame
<1>5. calm' \in BOOLEAN /\ (calm' => calm /\ ~req[c].wrote)
  BY <1>1, <1>2, <1>3 DEF Requests
<1>6. Requests'
  BY <1>1, <1>3, <1>5 DEF Requests
<1>7. calm => \A d \in Clients : req'[d] = None
  BY <1>1, <1>3 DEF Requests, OnlyOne
<1>8. OnlyOne'
  BY <1>5, <1>7 DEF OnlyOne
<1>9. calm' => \A k \in Stored(resources) : FitsWhere(resources[k])
  <2>. SUFFICES ASSUME calm', NEW k \in Stored(resources) PROVE FitsWhere(resources[k])
    OBVIOUS
  <2>1. ~Awaited(req[c], k)
    BY <1>2, <1>5 DEF Awaited, Shaped
  <2>. QED
    BY <1>1, <1>5, <2>1, StillAwaited
<1>10. /\ \A x : FitsWhere(x)' = FitsWhere(x)
       /\ \A s : FitsLocations(s)' = FitsLocations(s)
       /\ Stored(resources)' = Stored(resources) /\ Stored(services)' = Stored(services)
  BY <1>1 DEF tables, FitsWhere, Fits, FitsWeek, EmployeeHours, FitsLocations, Stored
<1>11. HoursAwait'
  BY <1>1, <1>3, <1>5, <1>9, <1>10 DEF HoursAwait, tables
<1>. QED
  BY <1>4, <1>6, <1>8, <1>11, InvParts, PTL

LEMMA RowDeleted ==
    ASSUME SetupInv, NEW c \in Clients, Delete(c)
    PROVE  SetupInv'
<1>1. req[c] # None /\ req[c].phase = "delete" /\ Ends(c) /\ UNCHANGED bookings
  BY DEF Delete, At
<1>. PICK r, i : r = req[c] /\ i = req[c].id
  OBVIOUS
<1>2. r \in Request /\ Shaped(r) /\ (calm => Ready(r))
  BY <1>1, AtWork
<1>3. \/ r.op = "delete location" /\ i \in Locations
      \/ r.op = "delete service" /\ i \in Services
      \/ r.op = "delete room" /\ i \in Rooms
  BY ZenonT(40), <1>1, <1>2 DEF Request, Ops, Shaped, Steps, Rewrites, Rehours, Rewriting
<1>4. CASE ~Unrestricted(i)
  <2>1. UNCHANGED tables
    BY <1>1, <1>4 DEF Delete, tables
  <2>. QED
    BY <1>1, <2>1, QuietOver
<1>5. CASE Unrestricted(i)
  <2>1. /\ locations' = [k \in Locations |-> IF k = i THEN None ELSE locations[k]]
        /\ services' = [k \in Services |-> IF k = i THEN None ELSE services[k]]
        /\ resources' = [k \in Resources |-> IF k = i THEN None ELSE resources[k]]
    BY <1>5 DEF Delete
  <2>2. Tables /\ ReferencesKept /\ Requests /\ ListsKept /\ BookedStay /\ HoursAwait
    BY InvParts
  <2>3. /\ locations' \in [Locations -> Location \cup {None}]
        /\ services' \in [Services -> Service \cup {None}]
        /\ resources' \in [Resources -> Resource \cup {None}]
    BY <2>1, <2>2 DEF Tables
  <2>4. /\ \A k : k \in Stored(locations)' <=> k \in Stored(locations) /\ k # i
        /\ \A k \in Locations : k # i => locations'[k] = locations[k]
    BY <2>1, <2>2 DEF Tables, Stored
  <2>5. /\ \A k : k \in Stored(services)' <=> k \in Stored(services) /\ k # i
        /\ \A k \in Services : k # i => services'[k] = services[k]
    BY <2>1, <2>2 DEF Tables, Stored
  <2>6. /\ \A k : k \in Stored(resources)' <=> k \in Stored(resources) /\ k # i
        /\ \A k \in Resources : k # i => resources'[k] = resources[k]
    BY <2>1, <2>2 DEF Tables, Stored
  <2>7. /\ Stored(locations) \subseteq Locations /\ Stored(services) \subseteq Services
        /\ Stored(resources) \subseteq Resources /\ Stored(bookings)' = Stored(bookings)
    BY <1>1, <2>2 DEF Tables, Stored
  <2>8. \A k \in Stored(resources)' : resources'[k] = resources[k] /\ resources[k] \in Resource
    BY <2>2, <2>6, <2>7 DEF Tables, Stored
  <2>9. Tables'
    BY <1>1, <2>2, <2>3, <2>6, <2>8 DEF Tables, KindFits
  <2>10. ASSUME NEW b \in Stored(bookings)
         PROVE  /\ bookings[b].service # i /\ bookings[b].at # i
                /\ bookings[b].state # "ended" => bookings[b].on # i
                /\ bookings[b].service \in Services /\ bookings[b].at \in Locations
                /\ bookings[b].on \in Resources
    <3>1. /\ bookings[b].service \in Services /\ bookings[b].at \in Locations
          /\ bookings[b].on \in Resources
      BY <2>2 DEF Tables, Stored, Booking
    <3>2. CASE i \in Locations
      BY <1>5, <3>1, <3>2, SetupIds DEF Unrestricted, LocationIsReferenced
    <3>3. CASE i \in Services
      BY <1>5, <3>1, <3>3, SetupIds DEF Unrestricted, ServiceIsReferenced
    <3>4. CASE i \in Rooms
      BY <1>5, <3>1, <3>4, SetupIds DEF Unrestricted, ResourceIsReferenced, Resources
    <3>. QED
      BY <1>3, <3>1, <3>2, <3>3, <3>4
  <2>11. \A k \in Stored(resources) : resources[k].location # i
    <3>1. \A k \in Stored(resources) : resources[k].location \in Locations \cup {None}
      BY <2>2 DEF Tables, Stored, Resource
    <3>2. i # None
      BY <1>3, SetupIds DEF Ids, Resources
    <3>3. CASE i \in Locations
      BY <1>5, <3>3 DEF Unrestricted
    <3>4. CASE i \in Services \cup Rooms
      BY <3>1, <3>2, <3>4, SetupIds DEF Resources
    <3>. QED
      BY <1>3, <3>3, <3>4
  <2>12. ReferencesKept'
    <3>1. \A b \in Stored(bookings) :
            /\ services'[bookings[b].service] # None
            /\ locations'[bookings[b].at] # None
            /\ bookings[b].state # "ended" => resources'[bookings[b].on] # None
      BY <2>2, <2>4, <2>5, <2>6, <2>10 DEF ReferencesKept
    <3>2. \A k \in Stored(resources)' : resources'[k].location \in Stored(locations)' \cup {None}
      BY <2>2, <2>4, <2>6, <2>8, <2>11 DEF ReferencesKept
    <3>. QED
      BY <1>1, <2>7, <3>1, <3>2 DEF ReferencesKept
  <2>13. Requests' /\ OnlyOne' /\ calm' = calm
    BY <1>1, EndsKeeps
  <2>14. \A s \in Stored(services)' : /\ s \in Stored(services) /\ services'[s] = services[s]
                                     /\ services[s] \in Service
    BY <2>2, <2>5, <2>7 DEF Tables, Stored
  <2>15. calm => \A s \in Stored(services)' : i \notin services[s].at /\ i \notin services[s].pool
    <3>. SUFFICES ASSUME calm, NEW s \in Stored(services)'
                  PROVE  i \notin services[s].at /\ i \notin services[s].pool
      OBVIOUS
    <3>1. services[s].at \subseteq Locations /\ services[s].pool \subseteq Rooms
      BY <2>14 DEF Service
    <3>2. CASE r.op = "delete location"
      BY <1>1, <1>2, <1>3, <2>14, <3>1, <3>2, SetupIds
         DEF Ready, DeletionChecked, Resources, Rewriting
    <3>3. CASE r.op = "delete service"
      BY <1>3, <3>1, <3>3, SetupIds DEF Resources
    <3>4. CASE r.op = "delete room"
      BY <1>1, <1>2, <1>3, <2>14, <3>1, <3>4, SetupIds
         DEF Ready, DeletionChecked, Unnamed, Resources
    <3>. QED
      BY <1>3, <3>2, <3>3, <3>4
  <2>16. ListsKept'
    <3>1. calm => \A s \in Stored(services) :
            /\ services[s].at # {} /\ services[s].at \subseteq Stored(locations)
            /\ services[s].pool \subseteq Stored(resources)
      BY <2>2 DEF ListsKept
    <3>2. calm => \A s \in Stored(services)' :
            /\ services'[s].at # {} /\ services'[s].at \subseteq Stored(locations)'
            /\ services'[s].pool \subseteq Stored(resources)'
      BY <2>4, <2>6, <2>14, <2>15, <3>1
    <3>. QED
      BY <2>13, <3>2 DEF ListsKept
  <2>17. calm => \A k \in Stored(resources) : FitsWhere(resources[k])
    BY <1>1, StillAwaited DEF Awaited
  <2>18. calm => \A k \in Stored(resources)' : FitsWhere(resources[k])'
    <3>. SUFFICES ASSUME calm, NEW k \in Stored(resources)', resources[k].location \in Stored(locations)'
                  PROVE  Fits(resources[k], locations'[resources[k].location])
      BY <2>8 DEF FitsWhere, Fits, FitsWeek, EmployeeHours
    <3>1. FitsWhere(resources[k]) /\ resources[k].location \in Stored(locations)
          /\ locations'[resources[k].location] = locations[resources[k].location]
      BY <2>4, <2>6, <2>7, <2>17
    <3>. QED
      BY <3>1 DEF FitsWhere
  <2>19. calm => \A s \in Stored(services)' : FitsLocations(services[s])'
    <3>. SUFFICES ASSUME calm, NEW s \in Stored(services)', NEW l \in services[s].at \cap Stored(locations)'
                  PROVE  FitsWeek(services[s].hours, locations'[l])
      BY <2>14 DEF FitsLocations, FitsWeek
    <3>1. FitsLocations(services[s])
      BY <2>2, <2>14 DEF HoursAwait
    <3>2. l \in Stored(locations) /\ locations'[l] = locations[l]
      BY <2>4, <2>7
    <3>. QED
      BY <3>1, <3>2 DEF FitsLocations
  <2>20. HoursAwait'
    BY <2>13, <2>18, <2>19 DEF HoursAwait
  <2>21. BookedStay'
    <3>1. calm => \A b \in Stored(bookings) : bookings[b].state = "upcoming" =>
            (resources'[bookings[b].on].owner # None =>
               resources'[bookings[b].on].location = bookings[b].at)
      BY <2>2, <2>6, <2>10 DEF BookedStay
    <3>. QED
      BY <1>1, <2>7, <2>13, <3>1 DEF BookedStay
  <2>. QED
    BY <2>9, <2>12, <2>13, <2>16, <2>20, <2>21, InvParts, PTL
<1>. QED
  BY <1>4, <1>5

LEMMA BookingSettles ==
    ASSUME SetupInv, NEW b \in Bookings, Settle(b)
    PROVE  SetupInv'
<1>1. Tables /\ ReferencesKept /\ Requests /\ ListsKept /\ BookedStay /\ OnlyOne /\ HoursAwait
  BY InvParts
<1>2. PICK state \in {"over", "ended"} :
        /\ bookings[b] # None /\ bookings[b].state \in {"upcoming", "over"} \ {state}
        /\ bookings' = [bookings EXCEPT ![b].state = state]
        /\ UNCHANGED <<locations, services, resources, req, begun, calm>>
  BY DEF Settle
<1>3. bookings[b] \in Booking /\ [bookings[b] EXCEPT !.state = state] \in Booking
  BY <1>1, <1>2 DEF Tables, Booking
<1>4. [bookings[b] EXCEPT !.state = state] # None
  BY <1>3, NotNone
<1>5. bookings' = [bookings EXCEPT ![b] = [bookings[b] EXCEPT !.state = state]]
  BY <1>2
<1>6. Stored(bookings)' = Stored(bookings)
  BY <1>1, <1>2, <1>4, <1>5 DEF Tables, Stored
<1>7. \A x \in Stored(bookings) :
        /\ bookings'[x].service = bookings[x].service /\ bookings'[x].at = bookings[x].at
        /\ bookings'[x].on = bookings[x].on
        /\ bookings'[x].state = "upcoming" => bookings[x].state = "upcoming"
        /\ bookings'[x].state # "ended" => bookings[x].state # "ended"
  BY <1>1, <1>2, <1>3, <1>5 DEF Tables, Stored, Booking
<1>8. Tables'
  BY <1>1, <1>2, <1>3, <1>5 DEF Tables, Stored, KindFits
<1>9. /\ Stored(locations)' = Stored(locations) /\ Stored(services)' = Stored(services)
      /\ Stored(resources)' = Stored(resources)
  BY <1>2 DEF Stored
<1>10. ReferencesKept'
  BY <1>1, <1>2, <1>6, <1>7, <1>9 DEF ReferencesKept
<1>11. Requests' /\ ListsKept'
  BY <1>1, <1>2, <1>9 DEF Requests, ListsKept
<1>12. BookedStay'
  BY <1>1, <1>2, <1>6, <1>7 DEF BookedStay
<1>13. \A x : FitsWhere(x)' = FitsWhere(x)
  BY <1>2, <1>9 DEF FitsWhere, Fits, FitsWeek, EmployeeHours
<1>14. ASSUME NEW q, Ready(q) PROVE Ready(q)'
  <2>1. ServiceChecked(q)'
    BY <1>2, <1>9, <1>14 DEF Ready, ServiceChecked, KnownPool, FitsLocations, FitsWeek
  <2>2. DeletionChecked(q)'
    BY <1>2, <1>9, <1>14 DEF Ready, DeletionChecked, Unnamed, Stored
  <2>3. LocationChecked(q)'
    BY <1>2, <1>9, <1>14 DEF Ready, LocationChecked, FitsWeek
  <2>4. TeamChecked(q)'
    BY <1>2, <1>13, <1>14 DEF Ready, TeamChecked, Revised, Stored
  <2>5. ~HasUpcoming(q.row) => ~HasUpcoming(q.row)'
    BY <1>6, <1>7 DEF HasUpcoming
  <2>6. RowChecked(q)'
    BY <1>2, <1>13, <1>14, <2>5 DEF Ready, RowChecked, Revised, ServesLocation
  <2>. QED
    BY <2>1, <2>2, <2>3, <2>4, <2>6 DEF Ready
<1>15. OnlyOne'
  <2>1. ASSUME calm, NEW c \in Clients, req[c] # None PROVE Ready(req[c])'
    <3>. PICK q : q = req[c]
      OBVIOUS
    <3>1. Ready(q)'
      BY <1>1, <1>14, <2>1 DEF OnlyOne
    <3>2. Ready(req[c])' <=> Ready(q)'
      BY <1>2 DEF Ready, ServiceChecked, DeletionChecked, LocationChecked, TeamChecked, RowChecked
    <3>. QED
      BY <3>1, <3>2
  <2>. QED
    BY <1>1, <1>2, <2>1 DEF OnlyOne
<1>16. HoursAwait'
  <2>1. \A s : FitsLocations(s)' = FitsLocations(s)
    BY <1>2, <1>9 DEF FitsLocations, FitsWeek
  <2>2. \A c \in Clients : \A i : Awaited(req[c], i)' = Awaited(req[c], i)
    BY <1>2 DEF Awaited, Stored
  <2>. QED
    BY <1>1, <1>2, <1>9, <1>13, <2>1, <2>2 DEF HoursAwait
<1>. QED
  BY <1>8, <1>10, <1>11, <1>12, <1>15, <1>16, InvParts, PTL

LEMMA StepKeeps ==
    ASSUME SetupInv, NEW c \in Clients, Step(c)
    PROVE  SetupInv'
<1>1. CASE \/ CreateService(c) \/ UpdateService(c) \/ Offer(c) \/ DeleteService(c)
           \/ CreateLocation(c) \/ UpdateLocation(c) \/ SetStaffHours(c) \/ DeleteLocation(c)
           \/ CreateRoom(c) \/ UpdateRoom(c) \/ DeleteRoom(c)
           \/ SaveProfile(c) \/ Acknowledge(c) \/ SetServices(c) \/ SetTeamHours(c) \/ Book(c)
  BY <1>1, BeginningKeeps
<1>2. CASE \/ CheckLocations(c) \/ CheckResources(c) \/ CheckServiceFits(c)
           \/ RequireBookable(c) \/ ListActiveLocations(c)
  BY <1>2, ServiceChecks, ListActiveKeeps
<1>3. CASE CheckServicesHere(c) \/ CheckPlaced(c) \/ ListTeam(c)
  BY <1>3, DependentsChecked, TeamListed
<1>4. CASE \/ CheckPools(c) \/ CheckReferenced(c) \/ CheckEmpty(c) \/ ListOffers(c)
           \/ StopOffering(c)
  BY <1>4, DeletionChecks, OffersListed, OfferStops
<1>5. CASE \/ FindOwn(c) \/ CheckMove(c) \/ CheckPlace(c) \/ CheckFrame(c)
           \/ CheckOfferable(c) \/ Prepare(c)
  BY <1>5, OwnFound, RowChecks, FrameChecked, TeamPrepared
<1>6. CASE \/ WriteService(c) \/ WriteLocation(c) \/ SaveNext(c) \/ Delete(c)
           \/ WriteResource(c) \/ WriteBooking(c) \/ Fail(c)
  BY <1>6, ServiceWritten, LocationWritten, NextSaved, RowDeleted, RowWritten,
     BookingWritten, RequestFails
<1>. QED
  BY <1>1, <1>2, <1>3, <1>4, <1>5, <1>6 DEF Step

LEMMA NextKeeps == SetupInv /\ [Next]_vars => SetupInv'
<1>. SUFFICES ASSUME SetupInv, [Next]_vars PROVE SetupInv'
  OBVIOUS
<1>1. CASE UNCHANGED vars
  <2>1. UNCHANGED tables /\ calm' = calm /\ req' = req /\ begun' = begun
    BY <1>1 DEF vars
  <2>2. Tables /\ ReferencesKept /\ Requests /\ ListsKept /\ BookedStay /\ OnlyOne /\ HoursAwait
    BY InvParts
  <2>3. Tables' /\ ReferencesKept' /\ ListsKept' /\ BookedStay'
    BY <2>1, TablesFrame
  <2>4. Requests'
    BY <2>1, <2>2 DEF Requests
  <2>5. OnlyOne'
    <3>1. ASSUME calm, NEW c \in Clients, req[c] # None PROVE Ready(req[c])'
      <4>. PICK q : q = req[c]
        OBVIOUS
      <4>1. Ready(q)'
        BY <2>1, <2>2, <3>1, ReadyFrame DEF OnlyOne
      <4>2. Ready(req[c])' <=> Ready(q)'
        BY <2>1 DEF Ready, ServiceChecked, DeletionChecked, LocationChecked, TeamChecked, RowChecked
      <4>. QED
        BY <4>1, <4>2
    <3>. QED
      BY <2>1, <2>2, <3>1 DEF OnlyOne
  <2>6. HoursAwait'
    <3>1. /\ \A x : FitsWhere(x)' = FitsWhere(x)
          /\ \A s : FitsLocations(s)' = FitsLocations(s)
          /\ Stored(resources)' = Stored(resources) /\ Stored(services)' = Stored(services)
      BY <2>1 DEF tables, FitsWhere, Fits, FitsWeek, EmployeeHours, FitsLocations, Stored
    <3>2. \A c \in Clients : \A i : Awaited(req[c], i)' = Awaited(req[c], i)
      BY <2>1 DEF tables, Awaited, Stored
    <3>. QED
      BY <2>1, <2>2, <3>1, <3>2 DEF HoursAwait, tables
  <2>. QED
    BY <2>3, <2>4, <2>5, <2>6, InvParts, PTL
<1>2. CASE Next
  BY <1>2, StepKeeps, BookingSettles DEF Next
<1>. QED
  BY <1>1, <1>2

LEMMA InitSound == Init => SetupInv
<1>. SUFFICES ASSUME Init PROVE SetupInv
  OBVIOUS
<1>1. PICK setup \in FirstSetups :
        /\ locations = setup.locations /\ services = setup.services
        /\ resources = setup.resources
  BY DEF Init
<1>2. /\ locations \in [Locations -> Location \cup {None}]
      /\ services \in [Services -> Service \cup {None}]
      /\ resources \in [Resources -> Resource \cup {None}]
  BY <1>1, SetupConstants
<1>3. /\ bookings = [b \in Bookings |-> None] /\ req = [c \in Clients |-> None]
      /\ begun = 0 /\ calm = TRUE /\ Stored(bookings) = {}
  BY DEF Init, Stored
<1>4. \A i \in Stored(resources) :
        /\ KindFits(i, resources[i])
        /\ resources[i].location # None =>
              /\ locations[resources[i].location] # None
              /\ Fits(resources[i], locations[resources[i].location])
  BY <1>1, <1>2, FirstSound DEF Stored, KindFits
<1>5. \A s \in Stored(services) :
        /\ services[s] \in Service
        /\ \A l \in services[s].at : /\ l # None
                                     /\ locations[l] # None
                                     /\ FitsWeek(services[s].hours, locations[l])
        /\ \A i \in services[s].pool : resources[i] # None
  <2>1. \A s \in Stored(services) : services[s] \in Service /\ services[s].at \subseteq Locations
    BY <1>2 DEF Stored, Service
  <2>2. \A l \in Locations : l # None
    BY SetupIds DEF Ids
  <2>. QED
    BY <1>1, <1>2, <2>1, <2>2, FirstSound DEF Stored
<1>6. Tables
  BY <1>2, <1>3, <1>4 DEF Tables
<1>7. ReferencesKept
  <2>1. \A i \in Stored(resources) : resources[i].location \in Locations \cup {None}
    BY <1>2 DEF Stored, Resource
  <2>. QED
    BY <1>2, <1>3, <1>4, <2>1 DEF ReferencesKept, Stored
<1>8. Requests /\ OnlyOne /\ BookedStay
  BY <1>3, SetupConstants DEF Requests, OnlyOne, BookedStay
<1>9. ListsKept
  <2>1. \A s \in Stored(services) : /\ services[s].at # {} /\ services[s].at \subseteq Locations
                                    /\ services[s].pool \subseteq Resources
    BY <1>5 DEF Service, Resources
  <2>. QED
    BY <1>2, <1>5, <2>1 DEF ListsKept, Stored
<1>10. HoursAwait
  <2>1. \A l \in Stored(locations) : l # None
    BY <1>2, SetupIds DEF Stored, Ids
  <2>2. \A i \in Stored(resources) : FitsWhere(resources[i])
    BY <1>4, <2>1 DEF FitsWhere
  <2>3. \A s \in Stored(services) : FitsLocations(services[s])
    BY <1>5 DEF FitsLocations
  <2>. QED
    BY <2>2, <2>3 DEF HoursAwait
<1>. QED
  BY <1>6, <1>7, <1>8, <1>9, <1>10, InvParts

-----------------------------------------------------------------------------
(* The theorems.                                                           *)

\* However requests interleave and fail, what the configuration and the bookings refer to
\* exists; and while requests do not overlap, the promises hold but for what the one
\* request under way has still to do (replace-service.ts, replace-location.ts,
\* hours-fit-checks.ts and the other commands of booking setup).
THEOREM SetupAlwaysSound == Spec => []SetupInv
BY InitSound, NextKeeps, PTL DEF Spec

LEMMA QuietContained == SetupInv => HoursContained
BY DEF SetupInv, HoursContained, HoursAwait, Quiet

\* When requests neither overlapped nor failed half way, nothing is available beyond the
\* hours of its location, whichever side changed (hours-fit-checks.ts).
THEOREM HoursAlwaysContained == Spec => []HoursContained
BY SetupAlwaysSound, QuietContained, PTL

\* ... and no employee is moved away from an upcoming booking (requireNoUpcomingMove).
THEOREM BookedAlwaysStay == Spec => []BookedStay
<1>1. SetupInv => BookedStay
  BY DEF SetupInv
<1>. QED
  BY <1>1, SetupAlwaysSound, PTL

LEMMA SavedIsTold ==
    ASSUME SetupInv, NEW c \in Clients, SaveNext(c), NEW e \in Calendars
    PROVE  Told(e)
<1>1. req[c] # None /\ req[c].phase = "save"
  BY DEF SaveNext, At
<1>. PICK r : r = req[c]
  OBVIOUS
<1>2. r \in Request /\ Shaped(r) /\ (calm => Ready(r))
  BY <1>1, AtWork
<1>3. r.op \in Rehours \cup {"set team hours"}
  BY <1>1, <1>2 DEF Request, Ops, Shaped, Steps, Rewrites, Rehours, Rewriting
<1>4. calm' => calm
  BY DEF SaveNext, Ends, Goes
<1>5. PICK k \in Stored(r.todo) :
        \/ UNCHANGED resources
        \/ resources' = [resources EXCEPT ![k] = r.todo[k]]
  BY DEF SaveNext
<1>6. resources \in [Resources -> Resource \cup {None}] /\ e \in Resources
  BY InvParts DEF Tables, Resources
<1>7. CASE e = k /\ resources' = [resources EXCEPT ![k] = r.todo[k]]
  BY <1>2, <1>3, <1>4, <1>6, <1>7 DEF Ready, TeamChecked, Told
<1>. QED
  BY <1>5, <1>6, <1>7 DEF Told

LEMMA WrittenIsTold ==
    ASSUME SetupInv, NEW c \in Clients, WriteResource(c), NEW e \in Calendars
    PROVE  Told(e)
<1>1. /\ req[c] # None /\ req[c].phase = "write" /\ Ends(c)
      /\ req[c].op \in {"create room", "update room", "save profile", "acknowledge", "set services"}
  BY DEF WriteResource, At
<1>. PICK r : r = req[c]
  OBVIOUS
<1>2. r \in Request /\ Shaped(r) /\ (calm => Ready(r))
  BY <1>1, AtWork
<1>3. calm' = calm /\ req'[c] = None
  BY <1>1, InvParts DEF Ends, Requests
<1>4. CASE r.op \in {"save profile", "acknowledge"}
  BY <1>1, <1>3, <1>4 DEF Told
<1>5. CASE r.op \in {"create room", "update room", "set services"}
  <2>1. r.row \in Resources /\ r.row # None
    BY <1>2, <1>5, SetupIds DEF Shaped, Replacing, Ids, Resources
  <2>2. UNCHANGED resources \/ resources' = [resources EXCEPT ![r.row] = r.draft]
    BY <2>1 DEF WriteResource
  <2>3. resources \in [Resources -> Resource \cup {None}] /\ e \in Resources
    BY InvParts DEF Tables, Resources
  <2>4. r.op # "set services" => e # r.row
    BY <1>2, <1>5, SetupIds DEF Shaped
  <2>5. r.op = "set services" /\ calm => Revised(resources[r.row], r.draft)
    BY <1>2 DEF Ready, RowChecked
  <2>. QED
    BY <1>3, <2>1, <2>2, <2>3, <2>4, <2>5 DEF Told
<1>. QED
  BY <1>1, <1>4, <1>5

LEMMA DeletedIsTold ==
    ASSUME SetupInv, NEW c \in Clients, Delete(c), NEW e \in Calendars
    PROVE  Told(e)
<1>1. req[c] # None /\ req[c].phase = "delete"
  BY DEF Delete, At
<1>2. req[c] \in Request /\ Shaped(req[c])
  BY <1>1, AtWork
<1>3. req[c].id \in Locations \cup Services \cup Rooms
  BY <1>1, <1>2 DEF Request, Ops, Shaped, Steps, Rewrites, Rehours, Rewriting
<1>4. e # req[c].id /\ e \in Resources
  BY <1>3, SetupIds DEF Resources
<1>5. resources'[e] = resources[e]
  BY <1>4 DEF Delete
<1>. QED
  BY <1>5 DEF Told

LEMMA NextTells ==
    ASSUME SetupInv, Next, NEW e \in Calendars
    PROVE  Told(e)
<1>1. CASE UNCHANGED resources
  BY <1>1 DEF Told
<1>2. ASSUME NEW c \in Clients, Step(c) PROVE Told(e)
  <2>1. \/ SaveNext(c) \/ WriteResource(c) \/ Delete(c) \/ UNCHANGED resources
    <3>1. CASE \/ CreateService(c) \/ UpdateService(c) \/ Offer(c) \/ DeleteService(c)
               \/ CreateLocation(c) \/ UpdateLocation(c) \/ SetStaffHours(c) \/ DeleteLocation(c)
               \/ CreateRoom(c) \/ UpdateRoom(c) \/ DeleteRoom(c)
               \/ SaveProfile(c) \/ Acknowledge(c) \/ SetServices(c) \/ SetTeamHours(c) \/ Book(c)
      BY <3>1 DEF CreateService, UpdateService, Offer, DeleteService, CreateLocation,
         UpdateLocation, SetStaffHours, DeleteLocation, CreateRoom, UpdateRoom, DeleteRoom,
         SaveProfile, Acknowledge, SetServices, SetTeamHours, Book, Begins, BeginsWith, tables
    <3>2. CASE CheckReferenced(c)
      <4>1. req[c] # None /\ req[c].phase = "referenced"
        BY <3>2 DEF CheckReferenced, At
      <4>2. req[c].op \in {"delete location", "delete service", "delete room"}
        BY <4>1, AtWork DEF Request, Ops, Shaped, Steps, Rewrites, Rehours, Rewriting
      <4>. QED
        BY <3>2, <4>2 DEF CheckReferenced, Checks, tables
    <3>3. CASE \/ CheckLocations(c) \/ CheckResources(c) \/ CheckServiceFits(c)
               \/ RequireBookable(c) \/ ListActiveLocations(c)
               \/ CheckServicesHere(c) \/ CheckPlaced(c) \/ ListTeam(c)
               \/ CheckPools(c) \/ CheckEmpty(c) \/ ListOffers(c) \/ StopOffering(c)
               \/ FindOwn(c) \/ CheckMove(c) \/ CheckPlace(c) \/ CheckFrame(c)
               \/ CheckOfferable(c) \/ Prepare(c)
      BY <3>3 DEF CheckLocations, CheckResources, CheckServiceFits, RequireBookable,
         ListActiveLocations, CheckServicesHere, CheckPlaced, ListTeam, CheckPools, CheckEmpty,
         ListOffers, StopOffering, FindOwn, CheckMove, CheckPlace, CheckFrame, CheckOfferable,
         Prepare, Checks, tables
    <3>4. CASE WriteService(c) \/ WriteLocation(c) \/ WriteBooking(c) \/ Fail(c)
      BY <3>4 DEF WriteService, WriteLocation, WriteBooking, Fail, tables
    <3>. QED
      BY <1>2, <3>1, <3>2, <3>3, <3>4 DEF Step
  <2>. QED
    BY <1>1, <2>1, SavedIsTold, WrittenIsTold, DeletedIsTold
<1>3. ASSUME NEW b \in Bookings, Settle(b) PROVE Told(e)
  BY <1>1, <1>3 DEF Settle
<1>. QED
  BY <1>2, <1>3 DEF Next

\* Nobody's calendar is changed behind their back: what others change on it is noted, and
\* the note stays until the employee saves or acknowledges (managerChange).
THEOREM ChangesAlwaysNoted == Spec => NobodyBehindTheirBack
<1>1. SetupInv /\ [Next]_vars =>
        [\A e \in Calendars : Told(e)]_vars
  BY NextTells
<1>. QED
  BY <1>1, SetupAlwaysSound, PTL DEF Spec, NobodyBehindTheirBack
=============================================================================
