---------------------------- MODULE BookingProofs ----------------------------
(***************************************************************************)
(* Proofs about the booking flow, for every value of its constants: what   *)
(* is always so of bookings and their rows, then the calendar that the     *)
(* flow keeps.  What requests carry stays true while others write,         *)
(* sessions keep to their places, the cap on holds is passed by little,    *)
(* and every step of the flow is one of the abstract calendar.             *)
(***************************************************************************)
EXTENDS MoveCount, FiniteSetTheorems, WellFoundedInduction, TLAPS

\* Every nonempty set of naturals has a least element.
LEMMA LeastNat ==
    ASSUME NEW S \in SUBSET Nat, S # {}
    PROVE  \E x \in S : \A y \in S : x <= y
<1>. DEFINE R == {ss \in Nat \X Nat : ss[1] < ss[2]}
<1>1. IsWellFoundedOn(R, Nat)
  BY NatLessThanWellFounded DEF OpToRel
<1>. HIDE DEF R
<1>2. PICK x \in S : \A y \in S : ~(<<y, x>> \in R)
  BY <1>1, WFMin
<1>3. ASSUME NEW y \in S
      PROVE  x <= y
  <2>1. <<y, x>> \in Nat \X Nat /\ ~(<<y, x>> \in R)
    BY <1>2
  <2>2. ~(y < x)
    BY <2>1 DEF R
  <2>. QED
    BY <2>2
<1>. QED
  BY <1>3

\* Min chooses it.
LEMMA MinIsNat ==
    ASSUME NEW S \in SUBSET Nat, S # {}
    PROVE  Min(S) \in S /\ \A y \in S : Min(S) <= y
  BY LeastNat DEF Min

LEMMA CapacityType ==
    ASSUME NEW o \in Offerings, NEW crew \in SUBSET Resources
    PROVE  CapacityOn(o, crew) \in Nat
<1>. DEFINE S == {Places[o]} \cup {Seats[r] : r \in crew}
<1>1. S \in SUBSET Nat /\ S # {}
  BY StoreConstants
<1>. QED
  BY <1>1, MinIsNat DEF CapacityOn

LEMMA KeyType ==
    ASSUME NEW o \in Offerings, NEW s \in Nat, NEW b \in Ids
    PROVE  SessionKey(o, s, b) \in Keys
  BY DEF SessionKey, Keys

LEMMA SpanType ==
    ASSUME NEW k \in Booking
    PROVE  From(k) \in Int /\ To(k) \in Int /\ End(k) \in Int
  BY StoreConstants DEF Booking, From, To, End

LEMMA RowsOfType ==
    ASSUME NEW k \in Booking, NEW b \in Ids, NEW crew \in SUBSET Resources
    PROVE  RowsOf(b, k, crew) \subseteq HoldRow
<1>1. From(k) \in Int /\ To(k) \in Int /\ k.key \in Keys
  BY SpanType DEF Booking
<1>2. ASSUME NEW r \in crew
      PROVE  [booking |-> b, resource |-> r, from |-> From(k), to |-> To(k),
              key |-> k.key, active |-> TRUE] \in HoldRow
  BY <1>1 DEF HoldRow
<1>. QED
  BY <1>2 DEF RowsOf

LEMMA CrewType ==
    ASSUME rows \subseteq HoldRow, NEW b
    PROVE  Crew(b) \in SUBSET Resources
  BY DEF Crew, HoldRow

LEMMA ExpireType ==
    ASSUME bookings \in [Ids -> Booking \cup {None}], NEW now \in Nat, NEW due,
           \A b \in due \cap Ids : bookings[b] # None
    PROVE  ExpireBookings(due, now) \in [Ids -> Booking \cup {None}]
<1>. SUFFICES ASSUME NEW b \in Ids
              PROVE  (IF b \in due
                      THEN [bookings[b] EXCEPT !.status = "expired", !.stamp = now]
                      ELSE bookings[b]) \in Booking \cup {None}
  BY DEF ExpireBookings
<1>1. CASE b \in due
  <2>1. bookings[b] \in Booking
    BY <1>1
  <2>. QED
    BY <1>1, <2>1 DEF Booking, Statuses
<1>2. CASE b \notin due
  BY <1>2
<1>. QED
  BY <1>1, <1>2

\* Releasing the rows of the bookings in due leaves the other rows as they
\* are and these without force.
LEMMA Released ==
    ASSUME rows \subseteq HoldRow, NEW due
    PROVE  /\ ReleaseRows(due) \subseteq HoldRow
           /\ \A r \in ReleaseRows(due) : r.booking \notin due => r \in rows
           /\ \A r \in ReleaseRows(due) : r.booking \in due =>
                 ~r.active /\ \E x \in rows : x.booking = r.booking
           /\ \A x \in rows : x.booking \notin due => x \in ReleaseRows(due)
           /\ \A x \in rows : \E r \in ReleaseRows(due) : r.booking = x.booking
<1>. DEFINE Rel(x) == [x EXCEPT !.active = @ /\ x.booking \notin due]
<1>1. ASSUME NEW x \in rows
      PROVE  /\ Rel(x) \in HoldRow
             /\ Rel(x).booking = x.booking
             /\ x.booking \in due => ~Rel(x).active
             /\ x.booking \notin due => Rel(x) = x
  <2>1. x \in HoldRow
    OBVIOUS
  <2>2. Rel(x) \in HoldRow /\ Rel(x).booking = x.booking
    BY <2>1 DEF HoldRow
  <2>3. x.booking \in due => ~Rel(x).active
    BY <2>1 DEF HoldRow
  <2>4. x.booking \notin due => Rel(x) = x
    BY <2>1 DEF HoldRow
  <2>. QED
    BY <2>2, <2>3, <2>4
<1>2. ReleaseRows(due) = {Rel(x) : x \in rows}
  BY DEF ReleaseRows
<1>. HIDE DEF Rel
<1>. QED
  BY <1>1, <1>2

-----------------------------------------------------------------------------
(* The tables.                                                             *)

\* What the invariant says in the terms of the properties.
LEMMA TablesFollow ==
    ASSUME TablesOK
    PROVE  RowsFollowBookings
<1>. SUFFICES ASSUME NEW b \in Ids
              PROVE  LET mine == {r \in rows : r.booking = b}
                     IN  /\ IsLive(b) => /\ mine = RowsOf(b, bookings[b], Crew(b))
                                         /\ mine # {}
                         /\ ~IsLive(b) => \A r \in mine : ~r.active
                         /\ Exists(b) /\ bookings[b].status = "expired" => mine # {}
                         /\ Exists(b) /\ bookings[b].status \in
                               {"cancelled", "completed", "no_show"} => mine = {}
  BY DEF RowsFollowBookings
<1>. DEFINE mine == {r \in rows : r.booking = b}
<1>1. \A r \in mine : RowFits(r) /\ r \in HoldRow /\ r.booking = b
  BY DEF TablesOK, RowsFit, StoreTypeOK
<1>2. ASSUME IsLive(b)
      PROVE  mine = RowsOf(b, bookings[b], Crew(b)) /\ mine # {}
  <2>. DEFINE k == bookings[b]
              Row(x) == [booking |-> b, resource |-> x, from |-> From(k),
                         to |-> To(k), key |-> k.key, active |-> TRUE]
  <2>1. ASSUME NEW r \in mine
        PROVE  r = Row(r.resource)
    <3>1. /\ r \in HoldRow /\ r.booking = b
          /\ r.active = TRUE /\ r.from = From(k) /\ r.to = To(k) /\ r.key = k.key
      BY <1>1, <1>2 DEF RowFits, IsLive, HoldRow
    <3>. HIDE DEF k
    <3>. QED
      BY <3>1 DEF HoldRow
  <2>2. RowsOf(b, k, Crew(b)) = {Row(x) : x \in Crew(b)}
    BY DEF RowsOf
  <2>3. Crew(b) = {r.resource : r \in mine}
    BY DEF Crew
  <2>4. mine # {}
    BY <1>2 DEF TablesOK, HaveRows, IsLive, Exists
  <2>. HIDE DEF mine, Row
  <2>5. mine = {Row(x) : x \in Crew(b)}
    BY <2>1, <2>3
  <2>. QED
    BY <2>2, <2>4, <2>5
<1>3. ASSUME ~IsLive(b), NEW r \in mine
      PROVE  ~r.active
  BY <1>1, <1>3 DEF RowFits, IsLive, Exists
<1>4. Exists(b) /\ bookings[b].status = "expired" => mine # {}
  BY DEF TablesOK, HaveRows, Exists
<1>5. Exists(b) /\ bookings[b].status \in {"cancelled", "completed", "no_show"}
         => mine = {}
  BY <1>1 DEF RowFits, Live
<1>. QED
  BY <1>2, <1>3, <1>4, <1>5

LEMMA TablesExclude ==
    ASSUME TablesOK
    PROVE  NoDoubleBooking
<1>. SUFFICES ASSUME NEW b \in Ids, NEW d \in Ids, IsLive(b), IsLive(d), Meets(b, d)
              PROVE  bookings[b].key = bookings[d].key
  BY DEF NoDoubleBooking
<1>1. PICK r \in rows, x \in rows :
         r.booking = b /\ x.booking = d /\ r.resource = x.resource
  BY DEF Meets, Crew
<1>2. /\ r.active /\ r.from = From(bookings[b]) /\ r.to = To(bookings[b])
      /\ r.key = bookings[b].key
  BY <1>1 DEF TablesOK, RowsFit, RowFits, IsLive
<1>3. /\ x.active /\ x.from = From(bookings[d]) /\ x.to = To(bookings[d])
      /\ x.key = bookings[d].key
  BY <1>1 DEF TablesOK, RowsFit, RowFits, IsLive
<1>. QED
  BY <1>1, <1>2, <1>3 DEF TablesOK, RowsExclude, Meets

-----------------------------------------------------------------------------
(* The transactions keep the tables.                                       *)

LEMMA Expired ==
    ASSUME StoreTypeOK, NEW now \in Nat, NEW due,
           \A b \in due : b \in Ids /\ bookings[b] # None
    PROVE  /\ ExpireBookings(due, now) \in [Ids -> Booking \cup {None}]
           /\ \A b \in Ids \ due : ExpireBookings(due, now)[b] = bookings[b]
           /\ \A b \in due : /\ ExpireBookings(due, now)[b] # None
                             /\ ExpireBookings(due, now)[b].status = "expired"
                             /\ ExpireBookings(due, now)[b].customer =
                                   bookings[b].customer
<1>1. ExpireBookings(due, now) \in [Ids -> Booking \cup {None}]
  BY ExpireType DEF StoreTypeOK
<1>2. \A b \in Ids \ due : ExpireBookings(due, now)[b] = bookings[b]
  BY DEF ExpireBookings
<1>3. ASSUME NEW b \in due
      PROVE  /\ ExpireBookings(due, now)[b] # None
             /\ ExpireBookings(due, now)[b].status = "expired"
             /\ ExpireBookings(due, now)[b].customer = bookings[b].customer
  <2>1. bookings[b] \in Booking /\ b \in Ids
    BY DEF StoreTypeOK
  <2>2. ExpireBookings(due, now)[b] =
           [bookings[b] EXCEPT !.status = "expired", !.stamp = now]
    BY <2>1 DEF ExpireBookings
  <2>3. [bookings[b] EXCEPT !.status = "expired", !.stamp = now] \in Booking
    BY <2>1 DEF Booking, Statuses
  <2>4. None \notin Booking
    BY StoreConstants
  <2>5. /\ [bookings[b] EXCEPT !.status = "expired", !.stamp = now].status = "expired"
        /\ [bookings[b] EXCEPT !.status = "expired", !.stamp = now].customer =
              bookings[b].customer
    BY <2>1 DEF Booking
  <2>. QED
    BY <2>2, <2>3, <2>4, <2>5
<1>. QED
  BY <1>1, <1>2, <1>3

\* Holds that expire together leave the tables in order.
LEMMA ExpiryKeeps ==
    ASSUME TablesOK, NEW now \in Nat, NEW due,
           \A b \in due : /\ b \in Ids
                          /\ bookings[b] # None
                          /\ bookings[b].status = "held",
           bookings' = ExpireBookings(due, now),
           rows' = ReleaseRows(due),
           clock' \in Nat
    PROVE  TablesOK'
<1>. USE DEF TablesOK
<1>1. StoreTypeOK'
  BY Expired, Released DEF StoreTypeOK
<1>2. ASSUME NEW r \in rows'
      PROVE  RowFits(r)'
  <2>1. r \in HoldRow /\ r.booking \in Ids
    BY Released DEF StoreTypeOK, HoldRow
  <2>2. CASE r.booking \in due
    <3>1. bookings'[r.booking] # None /\ bookings'[r.booking].status = "expired"
      BY <2>2, Expired
    <3>2. ~r.active
      BY <2>2, Released DEF StoreTypeOK
    <3>. QED
      BY <3>1, <3>2 DEF RowFits, Live
  <2>3. CASE r.booking \notin due
    <3>1. r \in rows /\ bookings'[r.booking] = bookings[r.booking]
      BY <2>1, <2>3, Expired, Released DEF StoreTypeOK
    <3>. QED
      BY <3>1 DEF RowsFit, RowFits, From, To
  <2>. QED
    BY <2>2, <2>3
<1>3. ASSUME NEW b \in Ids, bookings'[b] # None,
             bookings'[b].status \in Live \cup {"expired"}
      PROVE  \E r \in rows' : r.booking = b
  <2>1. bookings[b] # None /\ bookings[b].status \in Live \cup {"expired"}
    <3>1. CASE b \in due
      BY <3>1 DEF Live
    <3>2. CASE b \notin due
      BY <1>3, <3>2, Expired
    <3>. QED
      BY <3>1, <3>2
  <2>2. \E x \in rows : x.booking = b
    BY <2>1 DEF HaveRows
  <2>. QED
    BY <2>2, Released DEF StoreTypeOK
<1>4. ASSUME NEW r \in rows', NEW x \in rows', r.active, x.active
      PROVE  r \in rows /\ x \in rows
  BY <1>4, Released DEF StoreTypeOK
<1>5. RowsFit'
  BY <1>2 DEF RowsFit
<1>6. HaveRows'
  BY <1>3 DEF HaveRows
<1>7. RowsExclude'
  BY <1>4 DEF RowsExclude
<1>. QED
  BY <1>1, <1>5, <1>6, <1>7

\* The tables once booking b stands as k on crew: the holds in due expired,
\* the rows of b are replaced, and no other active row is in the way.
LEMMA PlacingKeeps ==
    ASSUME TablesOK, NEW now \in Nat, NEW due,
           \A d \in due : /\ d \in Ids
                          /\ bookings[d] # None
                          /\ bookings[d].status = "held",
           NEW b \in Ids, b \notin due,
           NEW k \in Booking, NEW crew \in SUBSET Resources,
           NEW mine \in SUBSET HoldRow,
           k.status \in Live => crew # {} /\ mine = RowsOf(b, k, crew),
           k.status \notin Live => k.status # "expired" /\ mine = {},
           ~Collides(mine, {r \in ReleaseRows(due) : r.booking # b}),
           bookings' = [ExpireBookings(due, now) EXCEPT ![b] = k],
           rows' = {r \in ReleaseRows(due) : r.booking # b} \cup mine,
           clock' \in Nat
    PROVE  TablesOK'
<1>. USE DEF TablesOK
<1>0. None \notin Booking
  BY StoreConstants
<1>1. /\ bookings' \in [Ids -> Booking \cup {None}]
      /\ bookings'[b] = k
      /\ \A d \in Ids \ {b} : bookings'[d] = ExpireBookings(due, now)[d]
  BY Expired
<1>2. rows' \subseteq HoldRow
  BY Released DEF StoreTypeOK
<1>3. StoreTypeOK'
  BY <1>1, <1>2 DEF StoreTypeOK
<1>4. ASSUME NEW r \in mine
      PROVE  /\ r.booking = b /\ r.active /\ k.status \in Live
             /\ r.from = From(k) /\ r.to = To(k) /\ r.key = k.key
  BY DEF RowsOf
<1>5. ASSUME NEW r \in rows', r \notin mine
      PROVE  /\ r.booking \in Ids \ {b}
             /\ r.booking \in due => ~r.active
             /\ r.booking \notin due => r \in rows
             /\ \E x \in rows : x.booking = r.booking
  BY <1>5, Released DEF StoreTypeOK, HoldRow
<1>6. ASSUME NEW r \in rows'
      PROVE  RowFits(r)'
  <2>1. CASE r \in mine
    BY <1>0, <1>1, <1>4, <2>1 DEF RowFits, From, To, Live
  <2>2. CASE r \notin mine /\ r.booking \in due
    <3>1. bookings'[r.booking] # None /\ bookings'[r.booking].status = "expired"
      BY <1>1, <1>5, <2>2, Expired
    <3>. QED
      BY <1>5, <2>2, <3>1 DEF RowFits, Live
  <2>3. CASE r \notin mine /\ r.booking \notin due
    <3>1. r \in rows /\ bookings'[r.booking] = bookings[r.booking]
      BY <1>1, <1>5, <2>3, Expired
    <3>. QED
      BY <3>1 DEF RowsFit, RowFits, From, To
  <2>. QED
    BY <2>1, <2>2, <2>3
<1>7. ASSUME NEW d \in Ids, bookings'[d] # None,
             bookings'[d].status \in Live \cup {"expired"}
      PROVE  \E r \in rows' : r.booking = d
  <2>1. CASE d = b
    <3>1. k.status \in Live
      BY <1>1, <1>7, <2>1
    <3>2. mine # {}
      <4>1. mine = RowsOf(b, k, crew) /\ crew # {}
        BY <3>1
      <4>. QED
        BY <4>1 DEF RowsOf
    <3>. QED
      BY <1>4, <2>1, <3>2
  <2>2. CASE d # b
    <3>1. bookings[d] # None /\ bookings[d].status \in Live \cup {"expired"}
      <4>1. CASE d \in due
        BY <4>1 DEF Live
      <4>2. CASE d \notin due
        BY <1>1, <1>7, <2>2, <4>2, Expired
      <4>. QED
        BY <4>1, <4>2
    <3>2. PICK r \in ReleaseRows(due) : r.booking = d
      BY <3>1, Released DEF HaveRows, StoreTypeOK
    <3>. QED
      BY <2>2, <3>2
  <2>. QED
    BY <2>1, <2>2
<1>8. ASSUME NEW r \in rows', NEW x \in rows', r.active, x.active,
             r.resource = x.resource, Overlap(r.from, r.to, x.from, x.to)
      PROVE  r.key = x.key
  <2>1. CASE r \in mine /\ x \in mine
    BY <1>4, <2>1
  <2>2. CASE r \in mine /\ x \notin mine
    BY <1>5, <1>8, <2>2 DEF Collides, Overlap
  <2>3. CASE r \notin mine /\ x \in mine
    BY <1>5, <1>8, <2>3 DEF Collides, Overlap
  <2>4. CASE r \notin mine /\ x \notin mine
    BY <1>5, <1>8, <2>4 DEF RowsExclude
  <2>. QED
    BY <2>1, <2>2, <2>3, <2>4
<1>9. RowsFit' /\ HaveRows' /\ RowsExclude'
  BY <1>6, <1>7, <1>8 DEF RowsFit, HaveRows, RowsExclude
<1>. QED
  BY <1>3, <1>9

LEMMA StutterKeeps ==
    ASSUME TablesOK, UNCHANGED <<bookings, rows>>, clock' \in Nat
    PROVE  TablesOK'
  BY DEF TablesOK, StoreTypeOK, RowsFit, RowFits, HaveRows, RowsExclude,
         From, To, Overlap

LEMMA LapsedHolds ==
    ASSUME NEW k, NEW crew, NEW now
    PROVE  \A b \in Lapsed(k, crew, now) : /\ b \in Ids
                                           /\ bookings[b] # None
                                           /\ bookings[b].status = "held"
  BY DEF Lapsed, Exists

LEMMA CreateKeeps ==
    ASSUME TablesOK, NEW now \in Nat, NEW b \in Ids, bookings[b] = None,
           NEW k \in Booking, k.status = "held",
           NEW crew \in SUBSET Resources, crew # {},
           Create(b, k, crew, now), clock' \in Nat
    PROVE  TablesOK'
<1>. DEFINE due  == Lapsed(k, crew, now)
            mine == RowsOf(b, k, crew)
<1>1. CASE /\ ~Collides(mine, ReleaseRows(due))
           /\ bookings' = [ExpireBookings(due, now) EXCEPT ![b] = k]
           /\ rows' = ReleaseRows(due) \cup mine
  <2>1. \A r \in ReleaseRows(due) : r.booking # b
    <3>1. \A x \in rows : x.booking # b
      BY DEF TablesOK, RowsFit, RowFits
    <3>2. \A r \in ReleaseRows(due) : r.booking \in due => r.booking # b
      BY LapsedHolds
    <3>. QED
      BY <3>1, <3>2, Released DEF TablesOK, StoreTypeOK
  <2>2. {r \in ReleaseRows(due) : r.booking # b} = ReleaseRows(due)
    BY <2>1
  <2>3. \A d \in due : /\ d \in Ids
                       /\ bookings[d] # None
                       /\ bookings[d].status = "held"
    BY LapsedHolds
  <2>4. b \notin due
    BY <2>3
  <2>5. mine \in SUBSET HoldRow
    BY RowsOfType
  <2>6. /\ k.status \in Live => crew # {} /\ mine = RowsOf(b, k, crew)
        /\ k.status \notin Live => k.status # "expired" /\ mine = {}
    BY DEF Live
  <2>7. /\ ~Collides(mine, {r \in ReleaseRows(due) : r.booking # b})
        /\ bookings' = [ExpireBookings(due, now) EXCEPT ![b] = k]
        /\ rows' = {r \in ReleaseRows(due) : r.booking # b} \cup mine
    BY <1>1, <2>2
  <2>. HIDE DEF due, mine
  <2>. QED
    BY <2>3, <2>4, <2>5, <2>6, <2>7, PlacingKeeps
<1>2. CASE UNCHANGED <<bookings, rows>>
  BY <1>2, StutterKeeps
<1>. QED
  BY <1>1, <1>2 DEF Create

LEMMA SaveKeeps ==
    ASSUME TablesOK, NEW now \in Nat, NEW b \in Ids, NEW base \in Booking,
           NEW k \in Booking, k.status # "expired",
           NEW crew \in SUBSET Resources, k.status \in Live => crew # {},
           Save(b, base, k, crew, now), clock' \in Nat
    PROVE  TablesOK'
<1>. DEFINE lives  == k.status \in Live
            due    == IF lives THEN Lapsed(k, crew, now) ELSE {}
            others == {r \in ReleaseRows(due) : r.booking # b}
            mine   == IF lives THEN RowsOf(b, k, crew) ELSE {}
<1>1. \A d \in due : /\ d \in Ids
                     /\ bookings[d] # None
                     /\ bookings[d].status = "held"
  BY LapsedHolds
<1>2. CASE /\ IsStill(b, base, due)
           /\ ~Collides(mine, others)
           /\ bookings' = [ExpireBookings(due, now) EXCEPT ![b] = k]
           /\ rows' = others \cup mine
  <2>1. b \notin due
    BY <1>2 DEF IsStill
  <2>2. mine \in SUBSET HoldRow
    BY RowsOfType
  <2>3. /\ k.status \in Live => crew # {} /\ mine = RowsOf(b, k, crew)
        /\ k.status \notin Live => k.status # "expired" /\ mine = {}
    OBVIOUS
  <2>. HIDE DEF due, mine
  <2>. QED
    BY <1>1, <1>2, <2>1, <2>2, <2>3, PlacingKeeps
<1>3. CASE /\ bookings' = ExpireBookings(due, now)
           /\ rows' = ReleaseRows(due)
  <2>. HIDE DEF due
  <2>. QED
    BY <1>1, <1>3, ExpiryKeeps
<1>4. CASE UNCHANGED <<bookings, rows>>
  BY <1>4, StutterKeeps
<1>. QED
  BY <1>2, <1>3, <1>4 DEF Save

LEMMA SweepKeeps ==
    ASSUME TablesOK, NEW now \in Nat, Sweep(now), clock' \in Nat
    PROVE  TablesOK'
<1>1. PICK due \in SUBSET DueHolds(now) :
         bookings' = ExpireBookings(due, now) /\ rows' = ReleaseRows(due)
  BY DEF Sweep
<1>2. \A d \in due : d \in Ids /\ bookings[d] # None /\ bookings[d].status = "held"
  BY DEF DueHolds, Exists
<1>. QED
  BY <1>1, <1>2, ExpiryKeeps

-----------------------------------------------------------------------------
(* What a transaction may do to one booking: nothing, a step along the     *)
(* lifecycle, or a move of a confirmed booking; and it keeps a customer.   *)

Advances(b) ==
    /\ bookings'[b] # None
    /\ \/ bookings'[b] = bookings[b]
       \/ bookings'[b].status = "confirmed" /\ bookings[b].status = "confirmed"
       \/ bookings'[b].status \in Transitions[bookings[b].status]
    /\ bookings[b].customer # None => bookings'[b].customer = bookings[b].customer

\* Each booking there is advances, and none appears but those in new.
BookingsAdvance(new) ==
    \A b \in Ids : /\ Exists(b) => Advances(b)
                   /\ ~Exists(b) /\ b \notin new => bookings'[b] = None

LEMMA ExpiryAdvances ==
    ASSUME StoreTypeOK, CustomersOK, NEW now \in Nat, NEW due,
           \A d \in due : /\ d \in Ids
                          /\ bookings[d] # None
                          /\ bookings[d].status = "held",
           bookings' = ExpireBookings(due, now)
    PROVE  BookingsAdvance({}) /\ CustomersOK'
<1>1. ASSUME NEW b \in due
      PROVE  Advances(b) /\ bookings'[b].status = "expired"
  <2>1. /\ bookings'[b] # None
        /\ bookings'[b].status = "expired"
        /\ bookings'[b].customer = bookings[b].customer
    BY Expired
  <2>. QED
    BY <2>1 DEF Advances, Transitions
<1>2. \A b \in Ids \ due : bookings'[b] = bookings[b]
  BY Expired
<1>3. ASSUME NEW b \in Ids
      PROVE  /\ Exists(b) => Advances(b)
             /\ ~Exists(b) => bookings'[b] = None
  <2>1. CASE b \in due
    BY <1>1, <2>1 DEF Exists
  <2>2. CASE b \notin due
    BY <1>2, <2>2 DEF Exists, Advances
  <2>. QED
    BY <2>1, <2>2
<1>4. ASSUME NEW b \in Ids, bookings'[b] # None
      PROVE  CustomerFits(bookings'[b])
  <2>1. CASE b \in due
    BY <1>1, <2>1 DEF CustomerFits
  <2>2. CASE b \notin due
    BY <1>2, <1>4, <2>2 DEF CustomersOK, Exists, CustomerFits
  <2>. QED
    BY <2>1, <2>2
<1>5. BookingsAdvance({})
  BY <1>3 DEF BookingsAdvance
<1>6. CustomersOK'
  BY <1>4 DEF CustomersOK, Exists, CustomerFits
<1>. QED
  BY <1>5, <1>6

LEMMA CreateAdvances ==
    ASSUME StoreTypeOK, CustomersOK, NEW now \in Nat, NEW b \in Ids,
           bookings[b] = None, NEW k \in Booking, CustomerFits(k), NEW crew,
           Create(b, k, crew, now)
    PROVE  BookingsAdvance({b}) /\ CustomersOK'
<1>. DEFINE due   == Lapsed(k, crew, now)
            after == ExpireBookings(due, now)
<1>1. CASE bookings' = [after EXCEPT ![b] = k]
  <2>1. \A d \in due : /\ d \in Ids
                       /\ bookings[d] # None
                       /\ bookings[d].status = "held"
    BY LapsedHolds
  <2>. HIDE DEF due
  <2>2. /\ after \in [Ids -> Booking \cup {None}]
        /\ \A d \in Ids \ due : after[d] = bookings[d]
        /\ \A d \in due : /\ after[d] # None
                          /\ after[d].status = "expired"
                          /\ after[d].customer = bookings[d].customer
    BY <2>1, Expired
  <2>. HIDE DEF after
  <2>3. bookings'[b] = k /\ \A d \in Ids \ {b} : bookings'[d] = after[d]
    BY <1>1, <2>2
  <2>4. ASSUME NEW d \in Ids
        PROVE  /\ Exists(d) => Advances(d)
               /\ ~Exists(d) /\ d # b => bookings'[d] = None
    <3>1. CASE d \in due
      BY <2>1, <2>2, <2>3, <3>1 DEF Exists, Advances, Transitions
    <3>2. CASE d \notin due
      BY <2>2, <2>3, <3>2 DEF Exists, Advances
    <3>. QED
      BY <3>1, <3>2
  <2>5. ASSUME NEW d \in Ids, bookings'[d] # None
        PROVE  CustomerFits(bookings'[d])
    <3>1. CASE d = b
      BY <2>3, <3>1
    <3>2. CASE d # b /\ d \in due
      BY <2>2, <2>3, <3>2 DEF CustomerFits
    <3>3. CASE d # b /\ d \notin due
      BY <2>2, <2>3, <2>5, <3>3 DEF CustomersOK, Exists, CustomerFits
    <3>. QED
      BY <3>1, <3>2, <3>3
  <2>6. CustomersOK'
    BY <2>5 DEF CustomersOK, Exists, CustomerFits
  <2>. QED
    BY <2>4, <2>6 DEF BookingsAdvance
<1>2. CASE UNCHANGED bookings
  BY <1>2 DEF BookingsAdvance, Advances, Exists, CustomersOK, CustomerFits
<1>. QED
  BY <1>1, <1>2 DEF Create

LEMMA SaveAdvances ==
    ASSUME StoreTypeOK, CustomersOK, NEW now \in Nat, NEW b \in Ids,
           NEW base \in Booking, NEW k \in Booking, StepFits(base, k),
           CustomerFits(base),
           base.customer # None => bookings[b].customer = base.customer,
           NEW crew, Save(b, base, k, crew, now)
    PROVE  BookingsAdvance({}) /\ CustomersOK'
<1>. DEFINE due   == IF k.status \in Live THEN Lapsed(k, crew, now) ELSE {}
            after == ExpireBookings(due, now)
<1>1. \A d \in due : /\ d \in Ids
                     /\ bookings[d] # None
                     /\ bookings[d].status = "held"
  BY LapsedHolds
<1>2. CASE IsStill(b, base, due) /\ bookings' = [after EXCEPT ![b] = k]
  <2>. HIDE DEF due
  <2>1. /\ after \in [Ids -> Booking \cup {None}]
        /\ \A d \in Ids \ due : after[d] = bookings[d]
        /\ \A d \in due : /\ after[d] # None
                          /\ after[d].status = "expired"
                          /\ after[d].customer = bookings[d].customer
    BY <1>1, Expired
  <2>. HIDE DEF after
  <2>2. bookings'[b] = k /\ \A d \in Ids \ {b} : bookings'[d] = after[d]
    BY <1>2, <2>1
  <2>3. /\ bookings[b] # None /\ b \notin due
        /\ bookings[b].status = base.status
    BY <1>2 DEF IsStill, Exists
  <2>4. Advances(b)
    <3>1. k # None
      BY StoreConstants
    <3>2. CustomerFits(bookings[b])
      BY <2>3 DEF CustomersOK, Exists
    <3>3. bookings[b].customer # None => k.customer = bookings[b].customer
      <4>1. base.status \in Statuses
        BY DEF Booking
      <4>2. base.status \in Live
        BY <4>1 DEF StepFits, Transitions, Live, Statuses
      <4>3. CASE base.status = "held"
        BY <2>3, <3>2, <4>3 DEF CustomerFits
      <4>4. CASE base.status = "confirmed"
        BY <4>4 DEF StepFits, CustomerFits
      <4>. QED
        BY <4>2, <4>3, <4>4 DEF Live
    <3>4. \/ k.status \in Transitions[bookings[b].status]
          \/ k.status = "confirmed" /\ bookings[b].status = "confirmed"
      BY <2>3 DEF StepFits
    <3>. QED
      BY <2>2, <3>1, <3>3, <3>4 DEF Advances
  <2>5. ASSUME NEW d \in Ids, d # b
        PROVE  /\ Exists(d) => Advances(d)
               /\ ~Exists(d) => bookings'[d] = None
    <3>1. CASE d \in due
      BY <1>1, <2>1, <2>2, <2>5, <3>1 DEF Exists, Advances, Transitions
    <3>2. CASE d \notin due
      BY <2>1, <2>2, <2>5, <3>2 DEF Exists, Advances
    <3>. QED
      BY <3>1, <3>2
  <2>6. ASSUME NEW d \in Ids, bookings'[d] # None
        PROVE  CustomerFits(bookings'[d])
    <3>1. CASE d = b
      BY <2>2, <3>1 DEF StepFits
    <3>2. CASE d # b /\ d \in due
      BY <2>1, <2>2, <3>2 DEF CustomerFits
    <3>3. CASE d # b /\ d \notin due
      BY <2>1, <2>2, <2>6, <3>3 DEF CustomersOK, Exists, CustomerFits
    <3>. QED
      BY <3>1, <3>2, <3>3
  <2>7. CustomersOK'
    BY <2>6 DEF CustomersOK, Exists, CustomerFits
  <2>. QED
    BY <2>3, <2>4, <2>5, <2>7 DEF BookingsAdvance, Exists
<1>3. CASE bookings' = after
  <2>. HIDE DEF due
  <2>. QED
    BY <1>1, <1>3, ExpiryAdvances
<1>4. CASE UNCHANGED bookings
  BY <1>4 DEF BookingsAdvance, Advances, Exists, CustomersOK, CustomerFits
<1>. QED
  BY <1>2, <1>3, <1>4 DEF Save

-----------------------------------------------------------------------------
(* Steps of a request.                                                     *)

\* A request that is not the one that takes the step stays sound.
LEMMA OthersKeep ==
    ASSUME RequestsOK, NEW new, BookingsAdvance(new),
           NEW d \in Clients, req[d] # None, req'[d] = req[d],
           req[d].op = "hold" => req[d].id \notin new
    PROVE  (HoldFits(req[d]) /\ ChangeFits(req[d]))'
<1>. DEFINE q == req[d]
<1>1. HoldFits(q) /\ ChangeFits(q)
  BY DEF RequestsOK
<1>2. HoldFits(req[d])'
  <2>1. q.op = "hold" => q.id \in Ids /\ bookings'[q.id] = None
    BY <1>1 DEF HoldFits, BookingsAdvance
  <2>. QED
    BY <1>1, <2>1 DEF HoldFits, Exists
<1>3. ChangeFits(req[d])'
  <2>1. q.op \notin {"hold", "sweep"} /\ q.phase # "read" =>
           /\ bookings'[q.id] # None
           /\ q.base.customer # None => bookings'[q.id].customer = q.base.customer
    BY <1>1 DEF ChangeFits, BookingsAdvance, Advances
  <2>. QED
    BY <1>1, <2>1 DEF ChangeFits, Exists, StepFits, CustomerFits
<1>. QED
  BY <1>2, <1>3

\* A request that ends with a transaction.
LEMMA DoneKeeps ==
    ASSUME IInv, NEW c \in Clients, Done(c), TablesOK', CustomersOK',
           NEW new, BookingsAdvance(new),
           \A d \in Clients \ {c} :
              req[d] # None /\ req[d].op = "hold" => req[d].id \notin new
    PROVE  IInv'
<1>. USE DEF IInv
<1>1. /\ req' \in [Clients -> Request \cup {None}]
      /\ req'[c] = None
      /\ \A d \in Clients \ {c} : req'[d] = req[d]
  BY DEF Done, TypeOK
<1>2. RequestsOK'
  <2>1. ASSUME NEW d \in Clients, req'[d] # None
        PROVE  (HoldFits(req[d]) /\ ChangeFits(req[d]))'
    BY <1>1, <2>1, OthersKeep
  <2>. QED
    BY <2>1 DEF RequestsOK
<1>3. HoldsApart'
  BY <1>1 DEF HoldsApart
<1>4. TypeOK'
  BY <1>1 DEF TypeOK, TablesOK
<1>. QED
  BY <1>2, <1>3, <1>4

\* A request that goes on without a write.
LEMMA GoesKeeps ==
    ASSUME IInv, NEW c \in Clients, NEW q \in Request, Goes(c, q),
           HoldFits(q), ChangeFits(q), UNCHANGED <<bookings, rows>>,
           clock' \in Nat,
           q.op = "hold" => \A d \in Clients \ {c} :
              req[d] # None /\ req[d].op = "hold" => req[d].id # q.id
    PROVE  IInv'
<1>. USE DEF IInv
<1>1. /\ req' \in [Clients -> Request \cup {None}]
      /\ req'[c] = q
      /\ \A d \in Clients \ {c} : req'[d] = req[d]
  BY DEF Goes, TypeOK
<1>2. BookingsAdvance({})
  BY DEF BookingsAdvance, Advances, Exists
<1>3. RequestsOK'
  <2>1. ASSUME NEW d \in Clients \ {c}, req'[d] # None
        PROVE  (HoldFits(req[d]) /\ ChangeFits(req[d]))'
    BY <1>1, <1>2, <2>1, OthersKeep
  <2>2. (HoldFits(req[c]) /\ ChangeFits(req[c]))'
    BY <1>1 DEF HoldFits, ChangeFits, Exists, StepFits, CustomerFits
  <2>. QED
    BY <2>1, <2>2 DEF RequestsOK
<1>4. HoldsApart'
  BY <1>1 DEF HoldsApart
<1>5. TablesOK' /\ CustomersOK'
  BY StutterKeeps DEF CustomersOK, Exists, CustomerFits
<1>6. TypeOK'
  BY <1>1, <1>5 DEF TypeOK, TablesOK
<1>. QED
  BY <1>3, <1>4, <1>5, <1>6

\* A request that ends without a write.
LEMMA EndKeeps ==
    ASSUME IInv, NEW c \in Clients, Done(c), UNCHANGED <<clock, bookings, rows>>
    PROVE  IInv'
<1>1. BookingsAdvance({})
  BY DEF BookingsAdvance, Advances, Exists
<1>2. TablesOK' /\ CustomersOK'
  BY StutterKeeps DEF IInv, TablesOK, StoreTypeOK, CustomersOK, Exists, CustomerFits
<1>. QED
  BY <1>1, <1>2, DoneKeeps

-----------------------------------------------------------------------------
(* Types of what a request carries.                                        *)

LEMMA HoldType ==
    ASSUME NEW o \in Offerings, NEW s \in Nat, NEW n \in Nat, NEW b \in Ids,
           NEW crew \in SUBSET Resources, NEW now \in Nat
    PROVE  LET k == NewHold(o, s, n, b, crew, now)
           IN  k \in Booking /\ k.status = "held" /\ k.customer = None
<1>1. SessionKey(o, s, b) \in Keys /\ CapacityOn(o, crew) \in Nat
  BY KeyType, CapacityType
<1>2. now + HoldTime \in Nat
  BY FlowConstants
<1>. QED
  BY <1>1, <1>2 DEF NewHold, Booking, Statuses

LEMMA CancelledType ==
    ASSUME NEW k \in Booking, NEW now \in Nat
    PROVE  /\ Cancelled(k, now) \in Booking
           /\ Cancelled(k, now).status = "cancelled"
           /\ Cancelled(k, now).customer = k.customer
  BY DEF Booking, Statuses, Cancelled

LEMMA ConfirmedType ==
    ASSUME NEW k \in Booking, NEW e \in Emails, NEW now \in Nat
    PROVE  /\ Confirmed(k, e, now) \in Booking
           /\ Confirmed(k, e, now).status = "confirmed"
           /\ Confirmed(k, e, now).customer = e
  BY DEF Booking, Statuses, Confirmed

LEMMA FinishedType ==
    ASSUME NEW k \in Booking, NEW to \in {"completed", "no_show"}, NEW now \in Nat
    PROVE  /\ Finished(k, to, now) \in Booking
           /\ Finished(k, to, now).status = to
           /\ Finished(k, to, now).customer = k.customer
  BY DEF Booking, Statuses, Finished

LEMMA RescheduledType ==
    ASSUME NEW k \in Booking, NEW s \in Nat, NEW key \in Keys, NEW n \in Nat,
           NEW now \in Nat
    PROVE  Rescheduled(k, s, key, n, now) \in Booking
<1>1. k.moves + 1 \in Nat
  BY DEF Booking
<1>. QED
  BY <1>1 DEF Booking, Rescheduled

LEMMA NewRequestType ==
    ASSUME StoreTypeOK, NEW op \in Ops, NEW phase \in Phases
    PROVE  LET q == NewRequest(op, phase)
           IN  q \in Request /\ q.op = op /\ q.phase = phase
  BY DEF NewRequest, Request, StoreTypeOK, Actors

LEMMA HavingType ==
    ASSUME StoreTypeOK, NEW q \in Request, NEW phase \in Phases,
           NEW b \in Ids, Exists(b)
    PROVE  LET h == Having(q, phase, b)
           IN  /\ h \in Request
               /\ h.op = q.op /\ h.phase = phase /\ h.id = b
               /\ h.base = bookings[b] /\ h.crew = Crew(b)
               /\ h.email = q.email /\ h.now = q.now
<1>1. bookings[b] \in Booking /\ Crew(b) \in SUBSET Resources
  BY CrewType DEF StoreTypeOK, Exists
<1>. QED
  BY <1>1 DEF Having, Request

LEMMA WritingType ==
    ASSUME NEW q \in Request, NEW k \in Booking, NEW crew \in SUBSET Resources
    PROVE  LET w == Writing(q, k, crew)
           IN  /\ w \in Request
               /\ w.op = q.op /\ w.phase = "write" /\ w.id = q.id
               /\ w.base = q.base /\ w.next = k /\ w.crew = crew
               /\ w.email = q.email
  BY DEF Writing, Request, Phases

LEMMA CrewOfLive ==
    ASSUME TablesOK, NEW b \in Ids, Exists(b), bookings[b].status \in Live
    PROVE  Crew(b) # {}
  BY DEF TablesOK, HaveRows, Crew, Exists

LEMMA PlannedType ==
    ASSUME TablesOK, NEW k, k.offering \in Offerings, NEW now, NEW self,
           NEW crew \in PlannedCrews(k, now, self)
    PROVE  crew \in SUBSET Resources /\ crew # {}
<1>1. CASE crew \in JoinCrews(k, now, self)
  <2>1. PICK b \in Session(k.key, now, self) : crew = Crew(b)
    BY <1>1 DEF JoinCrews
  <2>2. b \in Ids /\ Exists(b) /\ bookings[b].status \in Live
    BY <2>1 DEF Session, Blocking, IsBlocking, Live
  <2>. QED
    BY <2>1, <2>2, CrewOfLive, CrewType DEF TablesOK, StoreTypeOK
<1>2. CASE crew \in FreshCrews(k, now, self)
  BY <1>2, StoreConstants DEF FreshCrews
<1>. QED
  BY <1>1, <1>2 DEF PlannedCrews

\* A request that has read booking b may go on to any phase but the write.
LEMMA HavingFits ==
    ASSUME IInv, NEW q \in Request, NEW phase \in Phases \ {"write"},
           NEW b \in Ids, Exists(b), q.op # "confirm", q.op # "hold"
    PROVE  LET h == Having(q, phase, b) IN HoldFits(h) /\ ChangeFits(h)
<1>1. LET h == Having(q, phase, b)
      IN  /\ h.op = q.op /\ h.phase = phase /\ h.id = b
          /\ h.base = bookings[b] /\ h.crew = Crew(b)
  BY HavingType DEF IInv, TypeOK
<1>2. /\ bookings[b] \in Booking
      /\ CustomerFits(bookings[b])
      /\ bookings[b].status \in Live => Crew(b) # {}
  BY CrewOfLive DEF IInv, TypeOK, StoreTypeOK, CustomersOK, Exists
<1>. QED
  BY <1>1, <1>2 DEF HoldFits, ChangeFits

-----------------------------------------------------------------------------
(* The steps of the commands.                                              *)

LEMMA BeginKeeps ==
    ASSUME IInv, NEW c \in Clients, NEW op \in Ops \ {"hold"},
           NEW phase \in Phases, Begin(c, op, phase),
           op = "sweep" \/ phase = "read", UNCHANGED <<clock, bookings, rows>>
    PROVE  IInv'
<1>. DEFINE q == NewRequest(op, phase)
<1>1. q \in Request /\ q.op = op /\ q.phase = phase
  BY NewRequestType DEF IInv, TypeOK
<1>2. HoldFits(q) /\ ChangeFits(q)
  BY <1>1 DEF HoldFits, ChangeFits
<1>3. Goes(c, q)
  BY DEF Begin
<1>4. clock' \in Nat
  BY DEF IInv, TypeOK, StoreTypeOK
<1>. HIDE DEF q
<1>. QED
  BY <1>1, <1>2, <1>3, <1>4, GoesKeeps

LEMMA BeginHoldKeeps ==
    ASSUME IInv, NEW c \in Clients, BeginHold(c)
    PROVE  IInv'
<1>1. PICK b \in Ids \ Drawn :
         /\ ~Exists(b)
         /\ Goes(c, [NewRequest("hold", "count") EXCEPT !.id = b])
         /\ UNCHANGED <<clock, bookings, rows>>
  BY DEF BeginHold
<1>. DEFINE q == [NewRequest("hold", "count") EXCEPT !.id = b]
<1>2. q \in Request /\ q.op = "hold" /\ q.phase = "count" /\ q.id = b
  <2>1. NewRequest("hold", "count") \in Request
        /\ NewRequest("hold", "count").op = "hold"
        /\ NewRequest("hold", "count").phase = "count"
    BY NewRequestType DEF IInv, TypeOK, Ops, Phases
  <2>. QED
    BY <2>1 DEF Request
<1>3. HoldFits(q) /\ ChangeFits(q)
  BY <1>1, <1>2 DEF HoldFits, ChangeFits
<1>4. \A d \in Clients \ {c} :
         req[d] # None /\ req[d].op = "hold" => req[d].id # q.id
  BY <1>1, <1>2 DEF Drawn
<1>5. clock' \in Nat
  BY <1>1 DEF IInv, TypeOK, StoreTypeOK
<1>6. Goes(c, q) /\ UNCHANGED <<bookings, rows>>
  BY <1>1
<1>. HIDE DEF q
<1>. QED
  BY <1>2, <1>3, <1>4, <1>5, <1>6, GoesKeeps

\* A request of a hold that goes on keeps its id, so the ids stay apart.
LEMMA HoldGoesOn ==
    ASSUME IInv, NEW c \in Clients, req[c] # None, req[c].op = "hold",
           NEW q \in Request, q.op = "hold", q.id = req[c].id,
           HoldFits(q), Goes(c, q), UNCHANGED <<clock, bookings, rows>>
    PROVE  IInv'
<1>1. \A d \in Clients \ {c} :
         req[d] # None /\ req[d].op = "hold" => req[d].id # q.id
  BY DEF IInv, HoldsApart
<1>2. ChangeFits(q)
  BY DEF ChangeFits
<1>3. clock' \in Nat
  BY DEF IInv, TypeOK, StoreTypeOK
<1>. QED
  BY <1>1, <1>2, <1>3, GoesKeeps

LEMMA CountHoldsKeeps ==
    ASSUME IInv, NEW c \in Clients, CountHolds(c)
    PROVE  IInv'
<1>1. CASE Done(c)
  BY <1>1, EndKeeps DEF CountHolds
<1>2. CASE Goes(c, [req[c] EXCEPT !.phase = "assess"])
  <2>. DEFINE q == [req[c] EXCEPT !.phase = "assess"]
  <2>1. req[c] # None /\ req[c].op = "hold" /\ req[c] \in Request /\ HoldFits(req[c])
    BY DEF CountHolds, Under, IInv, TypeOK, RequestsOK
  <2>2. q \in Request /\ q.op = "hold" /\ q.id = req[c].id /\ q.phase = "assess"
    BY <2>1 DEF Request, Phases
  <2>3. HoldFits(q)
    BY <2>1, <2>2 DEF HoldFits
  <2>. HIDE DEF q
  <2>. QED
    BY <1>2, <2>1, <2>2, <2>3, HoldGoesOn DEF CountHolds, q
<1>. QED
  BY <1>1, <1>2 DEF CountHolds

LEMMA AssessHoldKeeps ==
    ASSUME IInv, NEW c \in Clients, AssessHold(c)
    PROVE  IInv'
<1>. DEFINE p == req[c]
<1>1. p # None /\ p.op = "hold" /\ p \in Request /\ HoldFits(p)
  BY DEF AssessHold, Under, IInv, TypeOK, RequestsOK
<1>2. CASE Done(c)
  BY <1>2, EndKeeps DEF AssessHold
<1>3. ASSUME NEW o \in Offerings, NEW s \in Starts[o], NEW n \in 1 .. MaxGroup[o],
             NEW crew \in PlannedCrews(NewHold(o, s, n, p.id, {}, p.now), p.now, None),
             Goes(c, Writing(p, NewHold(o, s, n, p.id, crew, p.now), crew))
      PROVE  IInv'
  <2>. DEFINE k == NewHold(o, s, n, p.id, crew, p.now)
              q == Writing(p, k, crew)
  <2>1. s \in Nat /\ n \in Nat /\ p.id \in Ids /\ p.now \in Nat
    BY <1>1, StoreConstants DEF HoldFits, Request
  <2>2. crew \in SUBSET Resources /\ crew # {}
    BY PlannedType DEF IInv, NewHold
  <2>3. k \in Booking /\ k.status = "held" /\ k.customer = None
    BY <2>1, <2>2, HoldType
  <2>. HIDE DEF k
  <2>4. /\ q \in Request /\ q.op = "hold" /\ q.phase = "write" /\ q.id = p.id
        /\ q.next = k /\ q.crew = crew
    BY <1>1, <2>2, <2>3, WritingType
  <2>5. HoldFits(q)
    BY <1>1, <2>2, <2>3, <2>4 DEF HoldFits
  <2>6. Goes(c, q)
    BY <1>3 DEF k
  <2>. HIDE DEF q
  <2>. QED
    BY <1>1, <2>4, <2>5, <2>6, HoldGoesOn DEF AssessHold
<1>4. \/ Done(c)
      \/ \E o \in Offerings : \E s \in Starts[o], n \in 1 .. MaxGroup[o] :
            \E crew \in PlannedCrews(NewHold(o, s, n, p.id, {}, p.now), p.now, None) :
               Goes(c, Writing(p, NewHold(o, s, n, p.id, crew, p.now), crew))
  <2>. HIDE DEF p
  <2>. QED
    BY DEF AssessHold, p
<1>. QED
  BY <1>2, <1>3, <1>4

LEMMA CreateHoldKeeps ==
    ASSUME IInv, NEW c \in Clients, CreateHold(c)
    PROVE  IInv' /\ BookingsAdvance(Ids)
<1>. DEFINE q == req[c]
<1>1. /\ q # None /\ q.op = "hold" /\ q \in Request
      /\ q.id \in Ids /\ ~Exists(q.id)
      /\ q.next \in Booking /\ q.next.status = "held" /\ q.next.customer = None
      /\ q.crew \in SUBSET Resources /\ q.crew # {} /\ q.now \in Nat
  BY DEF CreateHold, Under, IInv, TypeOK, RequestsOK, HoldFits, Request
<1>2. Create(q.id, q.next, q.crew, q.now) /\ Done(c) /\ clock' \in Nat
  BY DEF CreateHold, IInv, TypeOK, StoreTypeOK
<1>3. CustomerFits(q.next)
  BY <1>1 DEF CustomerFits
<1>4. TablesOK'
  BY <1>1, <1>2, CreateKeeps DEF IInv, Exists
<1>5. BookingsAdvance({q.id}) /\ CustomersOK'
  BY <1>1, <1>2, <1>3, CreateAdvances DEF IInv, TypeOK, Exists
<1>6. \A d \in Clients \ {c} :
         req[d] # None /\ req[d].op = "hold" => req[d].id \notin {q.id}
  BY <1>1 DEF IInv, HoldsApart
<1>7. IInv'
  BY <1>2, <1>4, <1>5, <1>6, DoneKeeps
<1>. QED
  BY <1>1, <1>5, <1>7 DEF BookingsAdvance

LEMMA SaveBookingKeeps ==
    ASSUME IInv, NEW c \in Clients, SaveBooking(c)
    PROVE  IInv' /\ BookingsAdvance(Ids)
<1>. DEFINE q == req[c]
<1>1. /\ q \in Request
      /\ q.id \in Ids
      /\ q.base \in Booking /\ q.next \in Booking
      /\ StepFits(q.base, q.next) /\ CustomerFits(q.base)
      /\ q.base.customer # None => bookings[q.id].customer = q.base.customer
      /\ q.base.status \in Live => q.crew # {}
      /\ q.crew \in SUBSET Resources /\ q.now \in Nat
  BY DEF SaveBooking, IInv, TypeOK, RequestsOK, ChangeFits, Request
<1>2. Save(q.id, q.base, q.next, q.crew, q.now) /\ Done(c) /\ clock' \in Nat
  BY DEF SaveBooking, IInv, TypeOK, StoreTypeOK
<1>3. q.next.status # "expired" /\ (q.next.status \in Live => q.crew # {})
  <2>1. q.base.status \in Statuses
    BY <1>1 DEF Booking
  <2>. QED
    BY <1>1, <2>1 DEF StepFits, Transitions, Live, Statuses
<1>. HIDE DEF q
<1>4. TablesOK'
  BY <1>1, <1>2, <1>3, SaveKeeps DEF IInv
<1>5. BookingsAdvance({}) /\ CustomersOK'
  BY <1>1, <1>2, SaveAdvances DEF IInv, TypeOK
<1>6. IInv'
  BY <1>2, <1>4, <1>5, DoneKeeps
<1>. QED
  BY <1>5, <1>6 DEF BookingsAdvance

LEMMA SweepHoldsKeeps ==
    ASSUME IInv, NEW c \in Clients, SweepHolds(c)
    PROVE  IInv' /\ BookingsAdvance(Ids)
<1>1. /\ Sweep(req[c].now) /\ Done(c) /\ clock' \in Nat
      /\ req[c].now \in Nat
  BY DEF SweepHolds, Under, IInv, TypeOK, StoreTypeOK, Request
<1>2. TablesOK'
  BY <1>1, SweepKeeps DEF IInv
<1>3. PICK due \in SUBSET DueHolds(req[c].now) :
         bookings' = ExpireBookings(due, req[c].now)
  BY <1>1 DEF Sweep
<1>4. \A b \in due : b \in Ids /\ bookings[b] # None /\ bookings[b].status = "held"
  BY <1>3 DEF DueHolds, Exists
<1>5. BookingsAdvance({}) /\ CustomersOK'
  BY <1>1, <1>3, <1>4, ExpiryAdvances DEF IInv, TypeOK
<1>6. IInv'
  BY <1>1, <1>2, <1>5, DoneKeeps
<1>. QED
  BY <1>5, <1>6 DEF BookingsAdvance

\* A change that goes on, with the booking it read, or with what it writes.
LEMMA ChangeGoesOn ==
    ASSUME IInv, NEW c \in Clients, NEW q \in Request, q.op # "hold",
           ChangeFits(q), Goes(c, q), UNCHANGED <<clock, bookings, rows>>
    PROVE  IInv'
<1>1. HoldFits(q)
  BY DEF HoldFits
<1>2. clock' \in Nat
  BY DEF IInv, TypeOK, StoreTypeOK
<1>. QED
  BY <1>1, <1>2, GoesKeeps

LEMMA ReadConfirmKeeps ==
    ASSUME IInv, NEW c \in Clients, ReadConfirm(c)
    PROVE  IInv'
<1>. DEFINE h(b)    == Having(req[c], "count", b)
            q(b, e) == [h(b) EXCEPT !.email = e]
<1>1. CASE Done(c)
  BY <1>1, EndKeeps DEF ReadConfirm
<1>2. ASSUME NEW b \in Ids, NEW e \in Emails, Exists(b), Goes(c, q(b, e))
      PROVE  IInv'
  <2>1. req[c] \in Request /\ req[c].op = "confirm"
    BY DEF ReadConfirm, Under, IInv, TypeOK
  <2>2. /\ h(b) \in Request
        /\ h(b).op = "confirm" /\ h(b).phase = "count" /\ h(b).id = b
        /\ h(b).base = bookings[b] /\ h(b).crew = Crew(b)
    <3>1. StoreTypeOK /\ "count" \in Phases
      BY DEF IInv, TypeOK, Phases
    <3>. QED
      BY <1>2, <2>1, <3>1, HavingType
  <2>. HIDE DEF h
  <2>3. /\ q(b, e) \in Request
        /\ q(b, e).op = "confirm" /\ q(b, e).phase = "count" /\ q(b, e).id = b
        /\ q(b, e).base = bookings[b] /\ q(b, e).crew = Crew(b)
        /\ q(b, e).email = e
    BY <2>2 DEF Request
  <2>. HIDE DEF q
  <2>4. /\ bookings[b] \in Booking
        /\ CustomerFits(bookings[b])
        /\ bookings[b].status \in Live => Crew(b) # {}
    BY <1>2, CrewOfLive DEF IInv, TypeOK, StoreTypeOK, CustomersOK, Exists
  <2>5. ChangeFits(q(b, e))
    BY <1>2, <2>3, <2>4 DEF ChangeFits
  <2>6. UNCHANGED <<clock, bookings, rows>>
    BY DEF ReadConfirm
  <2>. QED
    BY <1>2, <2>3, <2>5, <2>6, ChangeGoesOn
<1>. QED
  BY <1>1, <1>2 DEF ReadConfirm

\* A request that goes on to write k, a lawful step from the booking it read.
LEMMA WritingKeeps ==
    ASSUME IInv, NEW c \in Clients, NEW p \in Request,
           p.op \notin {"hold", "sweep"}, p.phase # "read", ChangeFits(p),
           NEW k \in Booking, StepFits(p.base, k), NEW crew \in SUBSET Resources,
           p.base.status \in Live => crew # {},
           Goes(c, Writing(p, k, crew)), UNCHANGED <<clock, bookings, rows>>
    PROVE  IInv'
<1>. DEFINE q == Writing(p, k, crew)
<1>1. /\ q \in Request
      /\ q.op = p.op /\ q.phase = "write" /\ q.id = p.id
      /\ q.base = p.base /\ q.next = k /\ q.crew = crew /\ q.email = p.email
  BY WritingType
<1>2. Goes(c, q)
  OBVIOUS
<1>. HIDE DEF q
<1>3. ChangeFits(q)
  BY <1>1 DEF ChangeFits
<1>. QED
  BY <1>1, <1>2, <1>3, ChangeGoesOn

LEMMA CountEmailKeeps ==
    ASSUME IInv, NEW c \in Clients, CountEmail(c)
    PROVE  IInv'
<1>. DEFINE p == req[c]
            k == Confirmed(p.base, p.email, p.now)
<1>1. CASE Done(c)
  BY <1>1, EndKeeps DEF CountEmail
<1>2. CASE CanConfirm(p.base, p.now) /\ Goes(c, Writing(p, k, p.crew))
  <2>1. /\ p \in Request /\ p.op = "confirm" /\ p.phase = "count"
        /\ ChangeFits(p) /\ p.base \in Booking /\ p.email \in Emails
        /\ p.now \in Nat /\ p.crew \in SUBSET Resources
        /\ p.base.status \in Live => p.crew # {}
    BY DEF CountEmail, Under, IInv, TypeOK, RequestsOK, ChangeFits, Request
  <2>2. k \in Booking /\ k.status = "confirmed" /\ k.customer = p.email
    BY <2>1, ConfirmedType
  <2>3. p.base.status = "held" /\ p.email # None
    BY <1>2, <2>1, StoreConstants DEF CanConfirm
  <2>. HIDE DEF k
  <2>4. StepFits(p.base, k)
    BY <2>2, <2>3 DEF StepFits, Transitions, CustomerFits
  <2>5. Goes(c, Writing(p, k, p.crew)) /\ UNCHANGED <<clock, bookings, rows>>
    BY <1>2 DEF CountEmail
  <2>. HIDE DEF p
  <2>. QED
    BY <2>1, <2>2, <2>4, <2>5, WritingKeeps
<1>. QED
  BY <1>1, <1>2 DEF CountEmail

\* ReadRelease and ReadFinish read a booking and decide in one step.
LEMMA ReadAndWriteKeeps ==
    ASSUME IInv, NEW c \in Clients, NEW p \in Request,
           p.op \notin {"hold", "sweep", "confirm"},
           NEW b \in Ids, Exists(b), NEW k \in Booking, StepFits(bookings[b], k),
           Goes(c, Writing(Having(p, "read", b), k, Crew(b))),
           UNCHANGED <<clock, bookings, rows>>
    PROVE  IInv'
<1>. DEFINE h == Having(p, "read", b)
            q == Writing(h, k, Crew(b))
<1>1. h \in Request /\ h.op = p.op /\ h.id = b /\ h.base = bookings[b]
  BY HavingType DEF IInv, TypeOK, Phases
<1>2. /\ bookings[b] \in Booking
      /\ CustomerFits(bookings[b])
      /\ Crew(b) \in SUBSET Resources
      /\ bookings[b].status \in Live => Crew(b) # {}
  BY CrewOfLive, CrewType DEF IInv, TypeOK, StoreTypeOK, CustomersOK, Exists
<1>3. /\ q \in Request
      /\ q.op = p.op /\ q.phase = "write" /\ q.id = b
      /\ q.base = bookings[b] /\ q.next = k /\ q.crew = Crew(b)
  <2>. HIDE DEF h
  <2>. QED
    BY <1>1, <1>2, WritingType
<1>4. Goes(c, q)
  OBVIOUS
<1>. HIDE DEF q
<1>5. ChangeFits(q)
  BY <1>2, <1>3 DEF ChangeFits
<1>. QED
  BY <1>3, <1>4, <1>5, ChangeGoesOn

LEMMA ReadReleaseKeeps ==
    ASSUME IInv, NEW c \in Clients, ReadRelease(c)
    PROVE  IInv'
<1>. DEFINE p == req[c]
<1>1. CASE Done(c)
  BY <1>1, EndKeeps DEF ReadRelease
<1>2. ASSUME NEW b \in Ids, Exists(b), bookings[b].status = "held",
             Goes(c, Writing(Having(p, "read", b), Cancelled(bookings[b], p.now), Crew(b)))
      PROVE  IInv'
  <2>. DEFINE k == Cancelled(bookings[b], p.now)
  <2>1. p \in Request /\ p.op = "release" /\ p.now \in Nat
    BY DEF ReadRelease, Under, IInv, TypeOK, Request
  <2>2. bookings[b] \in Booking
    BY <1>2 DEF IInv, TypeOK, StoreTypeOK, Exists
  <2>3. k \in Booking /\ k.status = "cancelled" /\ k.customer = bookings[b].customer
    BY <2>1, <2>2, CancelledType
  <2>4. Goes(c, Writing(Having(p, "read", b), k, Crew(b)))
    BY <1>2
  <2>. HIDE DEF k
  <2>5. StepFits(bookings[b], k)
    BY <1>2, <2>3 DEF StepFits, Transitions, CustomerFits
  <2>. HIDE DEF p
  <2>. QED
    BY <1>2, <2>1, <2>3, <2>4, <2>5, ReadAndWriteKeeps DEF ReadRelease
<1>. QED
  BY <1>1, <1>2 DEF ReadRelease

LEMMA ReadFinishKeeps ==
    ASSUME IInv, NEW c \in Clients, ReadFinish(c)
    PROVE  IInv'
<1>. DEFINE p  == req[c]
            to == IF p.op = "complete" THEN "completed" ELSE "no_show"
<1>1. CASE Done(c)
  BY <1>1, EndKeeps DEF ReadFinish
<1>2. ASSUME NEW b \in Ids, Exists(b), CanFinish(bookings[b], to, p.now),
             Goes(c, Writing(Having(p, "read", b), Finished(bookings[b], to, p.now), Crew(b)))
      PROVE  IInv'
  <2>. DEFINE k == Finished(bookings[b], to, p.now)
  <2>1. p \in Request /\ p.op \in {"complete", "no_show"} /\ p.now \in Nat
    BY DEF ReadFinish, Under, IInv, TypeOK, Request
  <2>2. bookings[b] \in Booking
    BY <1>2 DEF IInv, TypeOK, StoreTypeOK, Exists
  <2>3. k \in Booking /\ k.status = to /\ k.customer = bookings[b].customer
    BY <2>1, <2>2, FinishedType
  <2>4. Goes(c, Writing(Having(p, "read", b), k, Crew(b)))
    BY <1>2
  <2>5. to \in Transitions[bookings[b].status] /\ to \in {"completed", "no_show"}
    BY <1>2 DEF CanFinish, CanMove
  <2>. HIDE DEF k, to
  <2>6. StepFits(bookings[b], k)
    BY <2>3, <2>5 DEF StepFits, CustomerFits
  <2>7. UNCHANGED <<clock, bookings, rows>>
    BY DEF ReadFinish
  <2>. HIDE DEF p
  <2>. QED
    BY <1>2, <2>1, <2>3, <2>4, <2>6, <2>7, ReadAndWriteKeeps
<1>. QED
  BY <1>1, <1>2 DEF ReadFinish

LEMMA ReadChangeKeeps ==
    ASSUME IInv, NEW c \in Clients, NEW op \in {"cancel", "move"}, ReadChange(c, op)
    PROVE  IInv'
<1>1. PICK b \in Ids, actor \in Actors :
         /\ Finds(actor, b)
         /\ Goes(c, [Having(NewRequest(op, "decide"), "decide", b)
                        EXCEPT !.actor = actor, !.now = 0])
         /\ UNCHANGED <<clock, bookings, rows>>
  BY FlowConstants DEF ReadChange
<1>. DEFINE p == NewRequest(op, "decide")
            h == Having(p, "decide", b)
            q == [h EXCEPT !.actor = actor, !.now = 0]
<1>2. p \in Request /\ p.op = op
  BY NewRequestType DEF IInv, TypeOK, Ops, Phases
<1>3. h \in Request /\ h.op = op /\ h.phase = "decide" /\ ChangeFits(h)
  <2>1. StoreTypeOK /\ "decide" \in Phases \ {"write"} /\ Exists(b)
    BY <1>1 DEF IInv, TypeOK, Phases, Finds
  <2>2. op # "confirm" /\ op # "hold"
    OBVIOUS
  <2>. HIDE DEF p
  <2>3. h \in Request /\ h.op = p.op /\ h.phase = "decide"
    BY <1>2, <2>1, HavingType
  <2>4. ChangeFits(h)
    BY <1>2, <2>1, <2>2, HavingFits
  <2>. QED
    BY <1>2, <2>3, <2>4
<1>. HIDE DEF h
<1>4. /\ q \in Request /\ q.op = op /\ q.phase = h.phase /\ q.id = h.id
      /\ q.base = h.base /\ q.crew = h.crew
  BY <1>3 DEF Request
<1>5. Goes(c, q)
  BY <1>1 DEF h
<1>. HIDE DEF q
<1>6. ChangeFits(q)
  BY <1>3, <1>4 DEF ChangeFits
<1>. QED
  BY <1>1, <1>4, <1>5, <1>6, ChangeGoesOn

\* Taking the time leaves a request as it fits.
LEMMA TimedFits ==
    ASSUME NEW p \in Request, ChangeFits(p), NEW now \in Nat
    PROVE  LET q == [p EXCEPT !.now = now]
           IN  /\ q \in Request /\ ChangeFits(q) /\ q.now = now
               /\ q.op = p.op /\ q.phase = p.phase /\ q.base = p.base
               /\ q.id = p.id /\ q.crew = p.crew
<1>. DEFINE q == [p EXCEPT !.now = now]
<1>1. /\ q \in Request /\ q.now = now
      /\ q.op = p.op /\ q.phase = p.phase /\ q.base = p.base /\ q.next = p.next
      /\ q.id = p.id /\ q.crew = p.crew /\ q.email = p.email
  BY DEF Request
<1>. HIDE DEF q
<1>2. ChangeFits(q)
  BY <1>1 DEF ChangeFits
<1>3. QED
  BY <1>1, <1>2 DEF q

LEMMA DecideCancelKeeps ==
    ASSUME IInv, NEW c \in Clients, DecideCancel(c)
    PROVE  IInv'
<1>. DEFINE q == [req[c] EXCEPT !.now = clock]
            k == Cancelled(q.base, q.now)
<1>1. CASE Done(c)
  BY <1>1, EndKeeps DEF DecideCancel
<1>2. CASE CanMove(q.base, "cancelled") /\ Goes(c, Writing(q, k, q.crew))
  <2>1. /\ req[c] \in Request /\ req[c].op = "cancel" /\ req[c].phase = "decide"
        /\ ChangeFits(req[c]) /\ clock \in Nat
    BY DEF DecideCancel, Under, IInv, TypeOK, StoreTypeOK, RequestsOK
  <2>2. /\ q \in Request /\ q.op = "cancel" /\ q.phase = "decide" /\ ChangeFits(q)
    BY <2>1, TimedFits
  <2>. HIDE DEF q
  <2>3. /\ q.base \in Booking /\ q.now \in Nat /\ q.crew \in SUBSET Resources
        /\ q.base.status \in Live => q.crew # {}
    BY <2>2 DEF ChangeFits, Request
  <2>4. k \in Booking /\ k.status = "cancelled" /\ k.customer = q.base.customer
    BY <2>3, CancelledType
  <2>. HIDE DEF k
  <2>5. StepFits(q.base, k)
    BY <1>2, <2>4 DEF StepFits, CanMove, CustomerFits
  <2>6. UNCHANGED <<clock, bookings, rows>>
    BY DEF DecideCancel
  <2>. QED
    BY <1>2, <2>2, <2>3, <2>4, <2>5, <2>6, WritingKeeps
<1>. QED
  BY <1>1, <1>2 DEF DecideCancel

LEMMA DecideMoveKeeps ==
    ASSUME IInv, NEW c \in Clients, DecideMove(c)
    PROVE  IInv'
<1>. DEFINE p == [req[c] EXCEPT !.now = clock]
            q == [p EXCEPT !.phase = "assess"]
<1>1. CASE Done(c)
  BY <1>1, EndKeeps DEF DecideMove
<1>2. CASE Goes(c, q)
  <2>1. /\ req[c] \in Request /\ req[c].op = "move" /\ req[c].phase = "decide"
        /\ ChangeFits(req[c]) /\ clock \in Nat
    BY DEF DecideMove, Under, IInv, TypeOK, StoreTypeOK, RequestsOK
  <2>2. /\ p \in Request /\ p.op = "move" /\ p.phase = "decide" /\ ChangeFits(p)
    BY <2>1, TimedFits
  <2>. HIDE DEF p
  <2>3. /\ q \in Request /\ q.op = "move" /\ q.phase = "assess" /\ q.id = p.id
        /\ q.base = p.base /\ q.crew = p.crew
    BY <2>2 DEF Request, Phases
  <2>. HIDE DEF q
  <2>4. ChangeFits(q)
    BY <2>2, <2>3 DEF ChangeFits
  <2>5. UNCHANGED <<clock, bookings, rows>>
    BY DEF DecideMove
  <2>. QED
    BY <1>2, <2>3, <2>4, <2>5, ChangeGoesOn
<1>. QED
  BY <1>1, <1>2 DEF DecideMove

LEMMA AssessMoveKeeps ==
    ASSUME IInv, NEW c \in Clients, AssessMove(c)
    PROVE  IInv'
<1>. DEFINE p == req[c]
            o == p.base.offering
            wish(s, crew) == Rescheduled(p.base, s, SessionKey(o, s, p.id),
                                         CapacityOn(o, crew), p.now)
<1>1. CASE Done(c)
  BY <1>1, EndKeeps DEF AssessMove
<1>2. ASSUME p.base.status = "confirmed", NEW s \in Starts[o],
             NEW crew \in PlannedCrews(wish(s, {}), p.now, p.id),
             Goes(c, Writing(p, wish(s, crew), crew))
      PROVE  IInv'
  <2>1. /\ p \in Request /\ p.op = "move" /\ p.phase = "assess" /\ ChangeFits(p)
        /\ p.base \in Booking /\ p.id \in Ids /\ p.now \in Nat
        /\ CustomerFits(p.base)
    BY DEF AssessMove, Under, IInv, TypeOK, RequestsOK, ChangeFits, Request
  <2>. HIDE DEF p
  <2>2. o \in Offerings /\ s \in Nat
    <3>1. o \in Offerings
      BY <2>1 DEF Booking
    <3>. QED
      BY <3>1, StoreConstants
  <2>3. wish(s, {}).offering = o
    BY <2>1 DEF Booking, Rescheduled
  <2>4. crew \in SUBSET Resources /\ crew # {}
    <3>. HIDE DEF o, wish
    <3>. QED
      BY <2>2, <2>3, PlannedType DEF IInv
  <2>. DEFINE k == wish(s, crew)
  <2>5. k \in Booking /\ k.status = "confirmed" /\ k.customer = p.base.customer
    <3>1. SessionKey(o, s, p.id) \in Keys /\ CapacityOn(o, crew) \in Nat
      BY <2>1, <2>2, <2>4, KeyType, CapacityType
    <3>. DEFINE key == SessionKey(o, s, p.id)
                n == CapacityOn(o, crew)
                m == Rescheduled(p.base, s, key, n, p.now)
    <3>2. p.base \in Booking /\ s \in Nat /\ p.now \in Nat /\ key \in Keys /\ n \in Nat
      BY <2>1, <2>2, <3>1
    <3>3. m \in Booking /\ m.status = p.base.status /\ m.customer = p.base.customer
      <4>. HIDE DEF key, n, k, wish, o
      <4>1. m \in Booking
        BY <3>2, RescheduledType
      <4>2. m.status = p.base.status /\ m.customer = p.base.customer
        BY <3>2 DEF Booking, Rescheduled
      <4>. QED
        BY <4>1, <4>2
    <3>4. p.base.status = "confirmed"
      BY <1>2
    <3>. QED
      BY <3>3, <3>4
  <2>6. Goes(c, Writing(p, k, crew)) /\ UNCHANGED <<clock, bookings, rows>>
    BY <1>2 DEF AssessMove
  <2>. HIDE DEF k, wish, o
  <2>7. StepFits(p.base, k)
    BY <1>2, <2>1, <2>5 DEF StepFits, CustomerFits
  <2>. QED
    BY <2>1, <2>4, <2>5, <2>6, <2>7, WritingKeeps
<1>3. \/ Done(c)
      \/ p.base.status = "confirmed"
         /\ \E s \in Starts[o] : \E crew \in PlannedCrews(wish(s, {}), p.now, p.id) :
               Goes(c, Writing(p, wish(s, crew), crew))
  BY DEF AssessMove
<1>. QED
  BY <1>1, <1>2, <1>3

LEMMA TickKeeps ==
    ASSUME IInv, Tick
    PROVE  IInv'
<1>. USE DEF IInv, Tick
<1>1. clock' \in Nat
  BY DEF TypeOK, StoreTypeOK
<1>2. TablesOK'
  BY <1>1, StutterKeeps
<1>3. TypeOK' /\ CustomersOK' /\ HoldsApart'
  BY <1>1 DEF TypeOK, StoreTypeOK, CustomersOK, Exists, CustomerFits, HoldsApart
<1>4. BookingsAdvance({})
  BY DEF BookingsAdvance, Advances, Exists
<1>5. RequestsOK'
  BY <1>4, OthersKeep DEF RequestsOK
<1>. QED
  BY <1>2, <1>3, <1>5

-----------------------------------------------------------------------------
(* The theorems.                                                           *)

LEMMA InitKeeps == Init => IInv
<1>. SUFFICES ASSUME Init
              PROVE  IInv
  OBVIOUS
<1>1. TypeOK
  BY DEF Init, StoreInit, TypeOK, StoreTypeOK
<1>2. TablesOK
  BY <1>1 DEF Init, StoreInit, TypeOK, TablesOK, RowsFit, HaveRows, RowsExclude
<1>3. CustomersOK /\ RequestsOK /\ HoldsApart
  BY DEF Init, StoreInit, CustomersOK, Exists, RequestsOK, HoldsApart
<1>. QED
  BY <1>1, <1>2, <1>3 DEF IInv

LEMMA NextKeeps == IInv /\ [Next]_vars => IInv' /\ BookingsAdvance(Ids)
<1>. SUFFICES ASSUME IInv, [Next]_vars
              PROVE  IInv' /\ BookingsAdvance(Ids)
  OBVIOUS
<1>1. UNCHANGED bookings => BookingsAdvance(Ids)
  BY DEF BookingsAdvance, Advances, Exists
<1>2. CASE UNCHANGED vars
  <2>1. IInv'
    BY <1>2 DEF vars, IInv, TypeOK, StoreTypeOK, TablesOK, RowsFit, RowFits,
                HaveRows, RowsExclude, From, To, Overlap, CustomersOK, Exists,
                CustomerFits, RequestsOK, HoldFits, ChangeFits, StepFits, HoldsApart
  <2>. QED
    BY <1>1, <1>2, <2>1 DEF vars
<1>3. CASE Tick
  BY <1>1, <1>3, TickKeeps DEF Tick
<1>4. ASSUME NEW c \in Clients, Hold(c)
      PROVE  IInv' /\ BookingsAdvance(Ids)
  <2>1. CASE BeginHold(c)
    BY <1>1, <2>1, BeginHoldKeeps DEF BeginHold
  <2>2. CASE CountHolds(c)
    BY <1>1, <2>2, CountHoldsKeeps DEF CountHolds
  <2>3. CASE AssessHold(c)
    BY <1>1, <2>3, AssessHoldKeeps DEF AssessHold
  <2>4. CASE CreateHold(c)
    BY <2>4, CreateHoldKeeps
  <2>. QED
    BY <1>4, <2>1, <2>2, <2>3, <2>4 DEF Hold
<1>5. ASSUME NEW c \in Clients, Confirm(c)
      PROVE  IInv' /\ BookingsAdvance(Ids)
  <2>1. CASE BeginConfirm(c)
    BY <1>1, <2>1, BeginKeeps DEF BeginConfirm, Ops, Phases
  <2>2. CASE ReadConfirm(c)
    BY <1>1, <2>2, ReadConfirmKeeps DEF ReadConfirm
  <2>3. CASE CountEmail(c)
    BY <1>1, <2>3, CountEmailKeeps DEF CountEmail
  <2>. QED
    BY <1>5, <2>1, <2>2, <2>3 DEF Confirm
<1>6. ASSUME NEW c \in Clients, Release(c)
      PROVE  IInv' /\ BookingsAdvance(Ids)
  <2>1. CASE BeginRelease(c)
    BY <1>1, <2>1, BeginKeeps DEF BeginRelease, Ops, Phases
  <2>2. CASE ReadRelease(c)
    BY <1>1, <2>2, ReadReleaseKeeps DEF ReadRelease
  <2>. QED
    BY <1>6, <2>1, <2>2 DEF Release
<1>7. ASSUME NEW c \in Clients, Cancel(c)
      PROVE  IInv' /\ BookingsAdvance(Ids)
  <2>1. CASE ReadCancel(c)
    BY <1>1, <2>1, ReadChangeKeeps DEF ReadCancel, ReadChange
  <2>2. CASE DecideCancel(c)
    BY <1>1, <2>2, DecideCancelKeeps DEF DecideCancel
  <2>. QED
    BY <1>7, <2>1, <2>2 DEF Cancel
<1>8. ASSUME NEW c \in Clients, Move(c)
      PROVE  IInv' /\ BookingsAdvance(Ids)
  <2>1. CASE ReadMove(c)
    BY <1>1, <2>1, ReadChangeKeeps DEF ReadMove, ReadChange
  <2>2. CASE DecideMove(c)
    BY <1>1, <2>2, DecideMoveKeeps DEF DecideMove
  <2>3. CASE AssessMove(c)
    BY <1>1, <2>3, AssessMoveKeeps DEF AssessMove
  <2>. QED
    BY <1>8, <2>1, <2>2, <2>3 DEF Move
<1>9. ASSUME NEW c \in Clients, Finish(c)
      PROVE  IInv' /\ BookingsAdvance(Ids)
  <2>1. CASE BeginFinish(c)
    BY <1>1, <2>1, BeginKeeps DEF BeginFinish, Ops, Phases
  <2>2. CASE ReadFinish(c)
    BY <1>1, <2>2, ReadFinishKeeps DEF ReadFinish
  <2>. QED
    BY <1>9, <2>1, <2>2 DEF Finish
<1>10. ASSUME NEW c \in Clients, Clean(c)
       PROVE  IInv' /\ BookingsAdvance(Ids)
  <2>1. CASE BeginSweep(c)
    BY <1>1, <2>1, BeginKeeps DEF BeginSweep, Ops, Phases
  <2>2. CASE SweepHolds(c)
    BY <2>2, SweepHoldsKeeps
  <2>. QED
    BY <1>10, <2>1, <2>2 DEF Clean
<1>11. ASSUME NEW c \in Clients, SaveBooking(c)
       PROVE  IInv' /\ BookingsAdvance(Ids)
  BY <1>11, SaveBookingKeeps
<1>. QED
  BY <1>2, <1>3, <1>4, <1>5, <1>6, <1>7, <1>8, <1>9, <1>10, <1>11 DEF Next

\* Whatever requests race and wherever they stop, the tables, the customers
\* and the requests under way fit together (all commands on bookings).
THEOREM Consistent == Spec => []IInv
<1>1. Init => IInv
  BY InitKeeps
<1>2. IInv /\ [Next]_vars => IInv'
  BY NextKeeps
<1>. QED
  BY <1>1, <1>2, PTL DEF Spec

\* Every state of the booking flow is well formed: the types of the two
\* tables, the clock and the requests.
THEOREM TypeCorrect == Spec => []TypeOK
<1>1. IInv => TypeOK
  BY DEF IInv
<1>. QED
  BY <1>1, Consistent, PTL

\* The rows of BookingResource always say what the rows of Booking say
\* (holdRows and expireHolds), for any number of bookings and requests.
THEOREM RowsAlwaysFollow == Spec => []RowsFollowBookings
<1>1. IInv => RowsFollowBookings
  BY TablesFollow DEF IInv
<1>. QED
  BY <1>1, Consistent, PTL

\* No resource is booked twice, for any number of resources, bookings and
\* requests (the exclusion constraint, and the two tables kept in step).
THEOREM NeverDoubleBooked == Spec => []NoDoubleBooking
<1>1. IInv => NoDoubleBooking
  BY TablesExclude DEF IInv
<1>. QED
  BY <1>1, Consistent, PTL

\* Every booking moves along the lifecycle only, from whatever stale read a
\* request writes (the compare-and-swap of save).
THEOREM AlwaysLawful == Spec => LawfulStatus
<1>1. IInv /\ [Next]_vars =>
         [\A b \in Ids : Exists(b) =>
            \/ bookings'[b] = bookings[b]
            \/ bookings'[b].status = "confirmed" /\ bookings[b].status = "confirmed"
            \/ bookings'[b].status \in Transitions[bookings[b].status]]_vars
  BY NextKeeps DEF BookingsAdvance, Advances
<1>. QED
  BY <1>1, Consistent, PTL DEF Spec, LawfulStatus

\* A confirmed booking never passes to another customer, although save
\* compares no address (ConfirmBooking and everything after it).
THEOREM CustomerAlwaysKept == Spec => CustomerKept
<1>1. IInv /\ [Next]_vars =>
         [\A b \in Ids : Exists(b) /\ bookings[b].customer # None =>
            bookings'[b].customer = bookings[b].customer]_vars
  BY NextKeeps DEF BookingsAdvance, Advances
<1>. QED
  BY <1>1, Consistent, PTL DEF Spec, CustomerKept

-----------------------------------------------------------------------------
(* What a transaction leaves behind, in terms of bookings and their crews. *)

\* The bookings in due are holds that ran out by now.
RanOut(due, now) ==
    \A d \in due : /\ d \in Ids
                   /\ bookings[d] # None
                   /\ bookings[d].status = "held"
                   /\ bookings[d].expires <= now

\* All bookings but those in but are as they were, or expired if in due.
OthersAfter(due, but) ==
    /\ \A d \in Ids \ but : Crew(d)' = Crew(d)
    /\ \A d \in Ids \ (due \cup but) : bookings'[d] = bookings[d]
    /\ \A d \in due \ but : /\ bookings'[d] # None
                            /\ bookings'[d].status = "expired"
                            /\ bookings'[d].moves = bookings[d].moves

\* Holds in due lapse and nothing else happens.
Lapses(due, now) == RanOut(due, now) /\ OthersAfter(due, {})

\* Booking b comes to stand as k on crew, which its session allows.
Takes(b, k, crew, due, now) ==
    /\ RanOut(due, now)
    /\ b \notin due
    /\ OthersAfter(due, {b})
    /\ bookings'[b] = k
    /\ Crew(b)' = crew
    /\ FitsSession(k, crew, now, b)

\* Booking b ends as k.
Ends(b, k) == OthersAfter({}, {b}) /\ bookings'[b] = k /\ k.status \notin Live

LEMMA LapsedRanOut ==
    ASSUME NEW k, NEW crew, NEW now
    PROVE  RanOut(Lapsed(k, crew, now), now)
  BY DEF RanOut, Lapsed, Exists

LEMMA ExpiredKeep ==
    ASSUME StoreTypeOK, NEW now \in Nat, NEW due, RanOut(due, now)
    PROVE  /\ ExpireBookings(due, now) \in [Ids -> Booking \cup {None}]
           /\ \A b \in Ids \ due : ExpireBookings(due, now)[b] = bookings[b]
           /\ \A b \in due : /\ ExpireBookings(due, now)[b] # None
                             /\ ExpireBookings(due, now)[b].status = "expired"
                             /\ ExpireBookings(due, now)[b].moves = bookings[b].moves
<1>1. ASSUME NEW b \in due
      PROVE  ExpireBookings(due, now)[b].moves = bookings[b].moves
  <2>1. bookings[b] \in Booking /\ b \in Ids
    BY DEF StoreTypeOK, RanOut
  <2>2. ExpireBookings(due, now)[b] =
           [bookings[b] EXCEPT !.status = "expired", !.stamp = now]
    BY <2>1 DEF ExpireBookings
  <2>. QED
    BY <2>1, <2>2 DEF Booking
<1>. QED
  BY <1>1, Expired DEF RanOut

\* Releasing rows leaves every booking its resources.
LEMMA ReleaseKeepsCrew ==
    ASSUME rows \subseteq HoldRow, NEW due, NEW b
    PROVE  {r.resource : r \in {x \in ReleaseRows(due) : x.booking = b}} = Crew(b)
<1>. DEFINE Rel(x) == [x EXCEPT !.active = @ /\ x.booking \notin due]
<1>1. \A x \in rows : Rel(x).booking = x.booking /\ Rel(x).resource = x.resource
  BY DEF HoldRow
<1>2. ReleaseRows(due) = {Rel(x) : x \in rows}
  BY DEF ReleaseRows
<1>. HIDE DEF Rel
<1>. QED
  BY <1>1, <1>2 DEF Crew

LEMMA LapseEffect ==
    ASSUME StoreTypeOK, NEW now \in Nat, NEW due, RanOut(due, now),
           bookings' = ExpireBookings(due, now), rows' = ReleaseRows(due)
    PROVE  Lapses(due, now)
<1>1. ASSUME NEW b \in Ids
      PROVE  Crew(b)' = Crew(b)
  <2>1. Crew(b)' = {r.resource : r \in {x \in ReleaseRows(due) : x.booking = b}}
    BY DEF Crew
  <2>. QED
    BY <2>1, ReleaseKeepsCrew DEF StoreTypeOK
<1>. QED
  BY <1>1, ExpiredKeep DEF Lapses, OthersAfter

\* The rows of booking b are replaced by mine, one for each of crew.
Replaces(b, due, mine, crew) ==
    /\ \A r : r \in rows' <=> \/ r \in ReleaseRows(due) /\ r.booking # b
                             \/ r \in mine
    /\ \A r \in mine : r.booking = b
    /\ \A x : x \in crew <=> \E r \in mine : r.resource = x

LEMMA PlaceEffect ==
    ASSUME StoreTypeOK, NEW now \in Nat, NEW due, RanOut(due, now),
           NEW b \in Ids, b \notin due, NEW k, NEW mine, NEW crew,
           bookings' = [ExpireBookings(due, now) EXCEPT ![b] = k],
           Replaces(b, due, mine, crew)
    PROVE  OthersAfter(due, {b}) /\ bookings'[b] = k /\ Crew(b)' = crew
<1>1. ASSUME NEW d \in Ids \ {b}
      PROVE  Crew(d)' = Crew(d)
  <2>1. {r \in rows' : r.booking = d} = {r \in ReleaseRows(due) : r.booking = d}
    BY DEF Replaces
  <2>2. Crew(d)' = {r.resource : r \in {x \in ReleaseRows(due) : x.booking = d}}
    BY <2>1 DEF Crew
  <2>. QED
    BY <2>2, ReleaseKeepsCrew DEF StoreTypeOK
<1>2. {r \in rows' : r.booking = b} = mine
  BY DEF Replaces
<1>3. Crew(b)' = crew
  BY <1>2 DEF Crew, Replaces
<1>4. /\ bookings'[b] = k
      /\ \A d \in Ids \ {b} : bookings'[d] = ExpireBookings(due, now)[d]
  BY ExpiredKeep
<1>5. /\ \A d \in Ids \ (due \cup {b}) : bookings'[d] = bookings[d]
      /\ \A d \in due \ {b} : /\ bookings'[d] # None
                              /\ bookings'[d].status = "expired"
                              /\ bookings'[d].moves = bookings[d].moves
  <2>1. due \subseteq Ids
    BY DEF RanOut
  <2>. QED
    BY <1>4, <2>1, ExpiredKeep
<1>. QED
  BY <1>1, <1>3, <1>4, <1>5 DEF OthersAfter

LEMMA RowsOfCrew ==
    ASSUME NEW b, NEW k, NEW crew
    PROVE  /\ \A r \in RowsOf(b, k, crew) : r.booking = b
           /\ \A x : x \in crew <=> \E r \in RowsOf(b, k, crew) : r.resource = x
<1>. DEFINE Row(x) == [booking |-> b, resource |-> x, from |-> From(k),
                       to |-> To(k), key |-> k.key, active |-> TRUE]
<1>1. \A x : Row(x).booking = b /\ Row(x).resource = x
  OBVIOUS
<1>2. RowsOf(b, k, crew) = {Row(x) : x \in crew}
  BY DEF RowsOf
<1>. HIDE DEF Row
<1>. QED
  BY <1>1, <1>2

LEMMA CreateEffect ==
    ASSUME TablesOK, NEW now \in Nat, NEW b \in Ids, bookings[b] = None,
           NEW k, NEW crew, Create(b, k, crew, now)
    PROVE  \/ UNCHANGED <<bookings, rows>>
           \/ Takes(b, k, crew, Lapsed(k, crew, now), now)
<1>. DEFINE due  == Lapsed(k, crew, now)
            mine == RowsOf(b, k, crew)
<1>1. CASE /\ FitsSession(k, crew, now, b)
           /\ bookings' = [ExpireBookings(due, now) EXCEPT ![b] = k]
           /\ rows' = ReleaseRows(due) \cup mine
  <2>1. RanOut(due, now)
    BY LapsedRanOut
  <2>2. b \notin due
    BY <2>1 DEF RanOut
  <2>3. \A r \in ReleaseRows(due) : r.booking # b
    <3>1. \A x \in rows : x.booking # b
      BY DEF TablesOK, RowsFit, RowFits
    <3>. HIDE DEF due
    <3>. QED
      BY <3>1, <2>1, <2>2, Released DEF TablesOK, StoreTypeOK
  <2>4. \A r : r \in rows' <=> \/ r \in ReleaseRows(due) /\ r.booking # b
                               \/ r \in mine
    BY <1>1, <2>3
  <2>5. /\ \A r \in mine : r.booking = b
        /\ \A x : x \in crew <=> \E r \in mine : r.resource = x
    BY RowsOfCrew
  <2>. HIDE DEF due, mine
  <2>6. Replaces(b, due, mine, crew)
    BY <2>4, <2>5 DEF Replaces
  <2>7. OthersAfter(due, {b}) /\ bookings'[b] = k /\ Crew(b)' = crew
    BY <1>1, <2>1, <2>2, <2>6, PlaceEffect DEF TablesOK
  <2>. QED
    BY <1>1, <2>1, <2>2, <2>7 DEF Takes, due
<1>. QED
  BY <1>1 DEF Create

LEMMA SaveEffect ==
    ASSUME StoreTypeOK, NEW now \in Nat, NEW b \in Ids, NEW base, NEW k,
           NEW crew, Save(b, base, k, crew, now)
    PROVE  \/ UNCHANGED <<bookings, rows>>
           \/ k.status \in Live /\ Lapses(Lapsed(k, crew, now), now)
           \/ /\ bookings[b] # None /\ bookings[b].status = base.status
              /\ \/ k.status \in Live /\ Takes(b, k, crew, Lapsed(k, crew, now), now)
                 \/ Ends(b, k)
<1>. DEFINE lives  == k.status \in Live
            due    == IF lives THEN Lapsed(k, crew, now) ELSE {}
            others == {r \in ReleaseRows(due) : r.booking # b}
            mine   == IF lives THEN RowsOf(b, k, crew) ELSE {}
<1>1. RanOut(due, now)
  BY LapsedRanOut DEF RanOut
<1>. DEFINE left == IF lives THEN crew ELSE {}
<1>2. /\ \A r \in mine : r.booking = b
      /\ \A x : x \in left <=> \E r \in mine : r.resource = x
  BY RowsOfCrew
<1>3. CASE /\ lives => FitsSession(k, crew, now, b)
           /\ IsStill(b, base, due)
           /\ bookings' = [ExpireBookings(due, now) EXCEPT ![b] = k]
           /\ rows' = others \cup mine
  <2>1. b \notin due /\ bookings[b] # None /\ bookings[b].status = base.status
    BY <1>3 DEF IsStill, Exists
  <2>2. OthersAfter(due, {b}) /\ bookings'[b] = k /\ Crew(b)' = left
    <3>1. \A r : r \in rows' <=> \/ r \in ReleaseRows(due) /\ r.booking # b
                                 \/ r \in mine
      BY <1>3
    <3>. HIDE DEF due, mine, left
    <3>2. Replaces(b, due, mine, left)
      BY <1>2, <3>1 DEF Replaces
    <3>. QED
      BY ZenonT(40), <1>1, <1>3, <2>1, <3>2, PlaceEffect
  <2>3. CASE lives
    BY <1>1, <1>2, <1>3, <2>1, <2>2, <2>3 DEF Takes
  <2>4. CASE ~lives
    BY <2>1, <2>2, <2>4 DEF Ends
  <2>. QED
    BY <2>3, <2>4
<1>4. CASE /\ bookings' = ExpireBookings(due, now)
           /\ rows' = ReleaseRows(due)
  <2>1. Lapses(due, now)
    <3>. HIDE DEF due
    <3>. QED
      BY <1>1, <1>4, LapseEffect
  <2>2. CASE lives
    BY <2>1, <2>2
  <2>3. CASE ~lives
    <3>1. due = {}
      BY <2>3
    <3>2. bookings' = bookings /\ rows' = rows
      <4>1. ReleaseRows({}) = rows
        <5>1. \A x \in rows : [x EXCEPT !.active = @ /\ x.booking \notin {}] = x
          BY DEF StoreTypeOK, HoldRow
        <5>. QED
          BY <5>1 DEF ReleaseRows
      <4>2. ExpireBookings({}, now) = bookings
        BY DEF ExpireBookings, StoreTypeOK
      <4>. QED
        BY <1>4, <3>1, <4>1, <4>2
    <3>. QED
      BY <3>2
  <2>. QED
    BY <2>2, <2>3
<1>. QED
  BY <1>3, <1>4 DEF Save

LEMMA SweepEffect ==
    ASSUME StoreTypeOK, NEW now \in Nat, Sweep(now)
    PROVE  \E due \in SUBSET Ids : Lapses(due, now)
<1>1. PICK due \in SUBSET DueHolds(now) :
         bookings' = ExpireBookings(due, now) /\ rows' = ReleaseRows(due)
  BY DEF Sweep
<1>2. RanOut(due, now) /\ due \in SUBSET Ids
  BY DEF RanOut, DueHolds, Exists
<1>. QED
  BY <1>1, <1>2, LapseEffect

-----------------------------------------------------------------------------
(* Sums over finite sets: what People adds up.                             *)

\* Induction over the finite subsets of a set, the family F being what is
\* to be shown of them.
LEMMA FiniteInduction ==
    ASSUME NEW A, NEW F,
           \A S \in SUBSET A :
              IsFiniteSet(S) /\ (\A T \in SUBSET S : T # S => T \in F) => S \in F
    PROVE  \A S \in SUBSET A : IsFiniteSet(S) => S \in F
<1>. DEFINE Bad == {S \in SUBSET A : IsFiniteSet(S) /\ S \notin F}
            Sizes == {Cardinality(S) : S \in Bad}
<1>. SUFFICES ASSUME Bad # {}
              PROVE  FALSE
  OBVIOUS
<1>1. Sizes \in SUBSET Nat /\ Sizes # {}
  BY FS_CardinalityType
<1>2. Min(Sizes) \in Sizes /\ \A n \in Sizes : Min(Sizes) <= n
  <2>. HIDE DEF Sizes
  <2>. QED
    BY <1>1, MinIsNat
<1>3. PICK S \in Bad : Cardinality(S) = Min(Sizes)
  BY <1>2
<1>4. ASSUME NEW T \in SUBSET S, T # S
      PROVE  T \in F
  <2>1. IsFiniteSet(T) /\ T \in SUBSET A /\ Cardinality(T) < Cardinality(S)
    BY <1>4, FS_Subset, FS_CardinalityType
  <2>2. CASE T \in Bad
    <3>1. Cardinality(S) <= Cardinality(T)
      <4>1. Cardinality(T) \in Sizes
        BY <2>2
      <4>. HIDE DEF Sizes, Bad
      <4>. QED
        BY <1>2, <1>3, <4>1
    <3>. QED
      BY <2>1, <3>1, FS_CardinalityType
  <2>. QED
    BY <2>1, <2>2
<1>. QED
  BY <1>3, <1>4

Pick(s) == CHOOSE x \in s : TRUE

IsSum(f, w, S) ==
    f = [s \in SUBSET S |-> IF s = {} THEN 0 ELSE w[Pick(s)] + f[s \ {Pick(s)}]]

LEMMA PickIn ==
    ASSUME NEW s, s # {}
    PROVE  Pick(s) \in s /\ s \ {Pick(s)} # s
  BY DEF Pick

LEMMA SumUnique ==
    ASSUME NEW w, NEW S, NEW T, NEW f, IsSum(f, w, S), NEW g, IsSum(g, w, T)
    PROVE  \A U \in SUBSET (S \cap T) : IsFiniteSet(U) => f[U] = g[U]
<1>. DEFINE F == {U \in SUBSET (S \cap T) : f[U] = g[U]}
<1>1. ASSUME NEW U \in SUBSET (S \cap T),
             \A V \in SUBSET U : V # U => V \in F
      PROVE  U \in F
  <2>1. /\ f[U] = IF U = {} THEN 0 ELSE w[Pick(U)] + f[U \ {Pick(U)}]
        /\ g[U] = IF U = {} THEN 0 ELSE w[Pick(U)] + g[U \ {Pick(U)}]
    BY DEF IsSum
  <2>2. U # {} => f[U \ {Pick(U)}] = g[U \ {Pick(U)}]
    BY <1>1, PickIn
  <2>. QED
    BY <2>1, <2>2
<1>. HIDE DEF F
<1>2. \A U \in SUBSET (S \cap T) : IsFiniteSet(U) => U \in F
  BY <1>1, FiniteInduction
<1>. QED
  BY <1>2 DEF F

LEMMA SumExists ==
    ASSUME NEW w, NEW A, IsFiniteSet(A)
    PROVE  \E f : IsSum(f, w, A)
<1>. DEFINE F == {S \in SUBSET A : \E f : IsSum(f, w, S)}
<1>1. ASSUME NEW S \in SUBSET A, IsFiniteSet(S),
             \A T \in SUBSET S : T # S => T \in F
      PROVE  S \in F
  <2>. DEFINE G(r) == CHOOSE f : IsSum(f, w, r)
              V(s) == IF s = {} THEN 0 ELSE w[Pick(s)] + G(s \ {Pick(s)})[s \ {Pick(s)}]
              f == [s \in SUBSET S |-> V(s)]
  <2>1. \A r \in SUBSET S : r # S => IsSum(G(r), w, r)
    BY <1>1
  <2>2. ASSUME NEW r \in SUBSET S, r # S
        PROVE  G(r)[r] = V(r)
    <3>1. G(r)[r] = IF r = {} THEN 0 ELSE w[Pick(r)] + G(r)[r \ {Pick(r)}]
      <4>1. IsSum(G(r), w, r)
        BY <2>1, <2>2
      <4>. HIDE DEF G
      <4>. QED
        BY <4>1 DEF IsSum
    <3>2. CASE r # {}
      <4>. DEFINE q == r \ {Pick(r)}
      <4>1. q \in SUBSET S /\ q # S /\ q \in SUBSET (r \cap q) /\ IsFiniteSet(q)
        BY <1>1, <3>2, PickIn, FS_Subset
      <4>2. IsSum(G(q), w, q) /\ IsSum(G(r), w, r)
        BY <2>1, <2>2, <4>1
      <4>3. G(r)[q] = G(q)[q]
        <5>. HIDE DEF G, q
        <5>. QED
          BY <4>1, <4>2, SumUnique
      <4>. HIDE DEF G
      <4>. QED
        BY <3>1, <3>2, <4>3
    <3>3. CASE r = {}
      BY <3>1, <3>3
    <3>. QED
      BY <3>2, <3>3
  <2>3. ASSUME NEW s \in SUBSET S
        PROVE  V(s) = IF s = {} THEN 0 ELSE w[Pick(s)] + f[s \ {Pick(s)}]
    <3>1. CASE s # {}
      <4>. DEFINE q == s \ {Pick(s)}
      <4>1. q \in SUBSET S /\ q # S
        BY <3>1, PickIn
      <4>2. f[q] = V(q)
        BY <4>1
      <4>3. G(q)[q] = V(q)
        BY <2>2, <4>1
      <4>. HIDE DEF G, f
      <4>. QED
        BY <3>1, <4>2, <4>3
    <3>. QED
      BY <3>1
  <2>4. IsSum(f, w, S)
    <3>. HIDE DEF V
    <3>1. f = [s \in SUBSET S |-> IF s = {} THEN 0 ELSE w[Pick(s)] + f[s \ {Pick(s)}]]
      BY <2>3
    <3>. QED
      BY <3>1 DEF IsSum
  <2>. HIDE DEF f
  <2>. QED
    BY <2>4
<1>. HIDE DEF F
<1>2. \A S \in SUBSET A : IsFiniteSet(S) => S \in F
  BY <1>1, FiniteInduction
<1>. QED
  BY <1>2 DEF F

Total(w, S) == (CHOOSE f : IsSum(f, w, S))[S]

LEMMA TotalIs ==
    ASSUME NEW w, NEW S, IsFiniteSet(S), NEW f, IsSum(f, w, S), NEW U \in SUBSET S
    PROVE  Total(w, U) = f[U]
<1>1. IsFiniteSet(U) /\ U \in SUBSET (U \cap S)
  BY FS_Subset
<1>. DEFINE g == CHOOSE g : IsSum(g, w, U)
<1>2. IsSum(g, w, U)
  BY <1>1, SumExists
<1>. HIDE DEF g
<1>3. g[U] = f[U]
  BY <1>1, <1>2, SumUnique
<1>. QED
  BY <1>3 DEF Total, g

LEMMA TotalEmpty ==
    ASSUME NEW w
    PROVE  Total(w, {}) = 0
<1>1. IsFiniteSet({})
  BY FS_EmptySet
<1>2. PICK f : IsSum(f, w, {})
  BY <1>1, SumExists
<1>3. Total(w, {}) = f[{}]
  BY <1>1, <1>2, TotalIs
<1>4. f[{}] = 0
  BY <1>2 DEF IsSum
<1>. QED
  BY <1>3, <1>4

LEMMA TotalStep ==
    ASSUME NEW w, NEW S, IsFiniteSet(S), S # {}
    PROVE  Total(w, S) = w[Pick(S)] + Total(w, S \ {Pick(S)})
<1>1. PICK f : IsSum(f, w, S)
  BY SumExists
<1>2. f[S] = w[Pick(S)] + f[S \ {Pick(S)}]
  BY <1>1 DEF IsSum
<1>3. S \in SUBSET S /\ S \ {Pick(S)} \in SUBSET S
  OBVIOUS
<1>4. Total(w, S) = f[S]
  BY <1>1, <1>3, TotalIs
<1>5. Total(w, S \ {Pick(S)}) = f[S \ {Pick(S)}]
  BY <1>1, <1>3, TotalIs
<1>. QED
  BY <1>2, <1>4, <1>5

\* The total of naturals is one, and does not depend on the order.
LEMMA TotalRemoves ==
    ASSUME NEW A, NEW w \in [A -> Nat], NEW S \in SUBSET A, IsFiniteSet(S)
    PROVE  /\ Total(w, S) \in Nat
           /\ \A x \in S : Total(w, S) = w[x] + Total(w, S \ {x})
<1>. DEFINE Good(U) == /\ Total(w, U) \in Nat
                       /\ \A x \in U : Total(w, U) = w[x] + Total(w, U \ {x})
            F == {U \in SUBSET A : Good(U)}
<1>1. ASSUME NEW U \in SUBSET A, IsFiniteSet(U),
             \A V \in SUBSET U : V # U => V \in F
      PROVE  Good(U)
  <2>1. CASE U = {}
    BY <2>1, TotalEmpty
  <2>2. CASE U # {}
    <3>. DEFINE p == Pick(U)
                P == U \ {p}
    <3>1. p \in U /\ P \in F /\ Total(w, U) = w[p] + Total(w, P)
      BY <1>1, <2>2, PickIn, TotalStep
    <3>2. w[p] \in Nat /\ Total(w, P) \in Nat
      BY <3>1
    <3>3. ASSUME NEW x \in U
          PROVE  Total(w, U) = w[x] + Total(w, U \ {x})
      <4>1. CASE x = p
        BY <3>1, <4>1
      <4>2. CASE x # p
        <5>. DEFINE Q == U \ {x}
                    O == P \ {x}
        <5>1. Q \in F /\ P \in F /\ O \in F
          <6>1. P \in SUBSET U /\ P # U /\ Q \in SUBSET U /\ Q # U
                /\ O \in SUBSET U /\ O # U
            BY <3>1
          <6>. QED
            BY <1>1, <6>1
        <5>2. Total(w, P) = w[x] + Total(w, O)
          BY <4>2, <5>1
        <5>3. Total(w, Q) = w[p] + Total(w, O)
          <6>1. Q \ {p} = O /\ p \in Q
            BY <3>1, <4>2
          <6>. HIDE DEF O, Q, P, p
          <6>. QED
            BY <5>1, <6>1
        <5>4. w[x] \in Nat /\ Total(w, O) \in Nat
          BY <5>1
        <5>. HIDE DEF O, Q, P, p
        <5>5. Total(w, U) = w[x] + Total(w, Q)
          BY <3>1, <3>2, <5>2, <5>3, <5>4
        <5>. QED
          BY <5>5 DEF Q
      <4>. QED
        BY <4>1, <4>2
    <3>4. Total(w, U) \in Nat
      <4>. HIDE DEF P, p
      <4>. QED
        BY <3>1, <3>2
    <3>. QED
      BY <3>3, <3>4
  <2>. QED
    BY <2>1, <2>2
<1>2. \A U \in SUBSET A : IsFiniteSet(U) => U \in F
  <2>1. \A U \in SUBSET A :
           IsFiniteSet(U) /\ (\A V \in SUBSET U : V # U => V \in F) => U \in F
    BY <1>1
  <2>. HIDE DEF F
  <2>. QED
    BY <2>1, FiniteInduction
<1>. QED
  BY <1>2

LEMMA TotalGrows ==
    ASSUME NEW A, NEW w \in [A -> Nat], NEW S \in SUBSET A, IsFiniteSet(S)
    PROVE  \A T \in SUBSET S : Total(w, T) <= Total(w, S)
<1>. DEFINE F == {U \in SUBSET A : \A T \in SUBSET U : Total(w, T) <= Total(w, U)}
<1>1. ASSUME NEW U \in SUBSET A, IsFiniteSet(U),
             \A V \in SUBSET U : V # U => V \in F
      PROVE  U \in F
  <2>. SUFFICES ASSUME NEW T \in SUBSET U
                PROVE  Total(w, T) <= Total(w, U)
    OBVIOUS
  <2>1. CASE T = U
    BY <1>1, <2>1, TotalRemoves
  <2>2. CASE T # U
    <3>1. PICK x \in U : x \notin T
      BY <2>2
    <3>2. U \ {x} \in SUBSET U /\ U \ {x} # U /\ T \in SUBSET (U \ {x})
      BY <3>1
    <3>3. Total(w, T) <= Total(w, U \ {x})
      BY <1>1, <3>2
    <3>4. IsFiniteSet(T) /\ IsFiniteSet(U \ {x})
      BY <1>1, FS_Subset
    <3>5. /\ Total(w, U) = w[x] + Total(w, U \ {x})
          /\ Total(w, U \ {x}) \in Nat /\ Total(w, T) \in Nat /\ w[x] \in Nat
      BY <1>1, <3>4, TotalRemoves
    <3>. QED
      BY <3>3, <3>5
  <2>. QED
    BY <2>1, <2>2
<1>2. \A U \in SUBSET A : IsFiniteSet(U) => U \in F
  <2>. HIDE DEF F
  <2>. QED
    BY <1>1, FiniteInduction
<1>. QED
  BY <1>2

LEMMA TotalSame ==
    ASSUME NEW w, NEW v, NEW S, IsFiniteSet(S), \A x \in S : w[x] = v[x]
    PROVE  Total(w, S) = Total(v, S)
<1>1. PICK f : IsSum(f, w, S)
  BY SumExists
<1>2. f = [s \in SUBSET S |-> IF s = {} THEN 0 ELSE w[Pick(s)] + f[s \ {Pick(s)}]]
  BY <1>1 DEF IsSum
<1>3. \A s \in SUBSET S : s # {} => w[Pick(s)] = v[Pick(s)]
  BY PickIn
<1>4. f = [s \in SUBSET S |-> IF s = {} THEN 0 ELSE v[Pick(s)] + f[s \ {Pick(s)}]]
  BY <1>2, <1>3
<1>5. IsSum(f, v, S)
  BY <1>4 DEF IsSum
<1>6. S \in SUBSET S
  OBVIOUS
<1>7. Total(w, S) = f[S]
  BY <1>1, <1>6, TotalIs
<1>8. Total(v, S) = f[S]
  BY <1>5, <1>6, TotalIs
<1>. QED
  BY <1>7, <1>8

\* The participants of each stored booking, and what People adds up to.
Stored == {b \in Ids : Exists(b)}

PeopleOf == [b \in Stored |-> bookings[b].people]

PeopleAreTotals ==
    \A S \in SUBSET Stored : IsFiniteSet(S) => People(S) = Total(PeopleOf, S)

LEMMA PeopleAddUp == PeopleAreTotals
<1>. SUFFICES ASSUME NEW S \in SUBSET Stored, IsFiniteSet(S)
              PROVE  People(S) = Total(PeopleOf, S)
  BY DEF PeopleAreTotals
<1>. DEFINE Is(f) == f = [s \in SUBSET S |->
                        IF s = {} THEN 0
                        ELSE bookings[CHOOSE x \in s : TRUE].people
                             + f[s \ {CHOOSE x \in s : TRUE}]]
<1>1. People(S) = (CHOOSE f : Is(f))[S]
  BY DEF People, MapThenSumSet, MapThenFoldSet
<1>2. ASSUME NEW f
      PROVE  Is(f) <=> IsSum(f, PeopleOf, S)
  <2>1. \A s \in SUBSET S : s # {} => PeopleOf[Pick(s)] = bookings[Pick(s)].people
    BY PickIn DEF PeopleOf
  <2>2. \A s \in SUBSET S :
           (IF s = {} THEN 0 ELSE bookings[Pick(s)].people + f[s \ {Pick(s)}])
           = (IF s = {} THEN 0 ELSE PeopleOf[Pick(s)] + f[s \ {Pick(s)}])
    BY <2>1
  <2>3. Is(f) <=> f = [s \in SUBSET S |->
                         IF s = {} THEN 0
                         ELSE bookings[Pick(s)].people + f[s \ {Pick(s)}]]
    BY DEF Pick
  <2>. HIDE DEF Is
  <2>. QED
    BY <2>2, <2>3 DEF IsSum
<1>3. \E f : Is(f)
  <2>1. PICK f : IsSum(f, PeopleOf, S)
    BY SumExists
  <2>. HIDE DEF Is
  <2>. QED
    BY <1>2, <2>1
<1>. DEFINE g == CHOOSE f : Is(f)
<1>4. Is(g)
  <2>. HIDE DEF Is
  <2>. QED
    BY <1>3
<1>. HIDE DEF g, Is
<1>5. IsSum(g, PeopleOf, S)
  BY <1>2, <1>4
<1>6. Total(PeopleOf, S) = g[S]
  <2>1. S \in SUBSET S
    OBVIOUS
  <2>. QED
    BY <1>5, <2>1, TotalIs
<1>. QED
  BY <1>1, <1>6 DEF g

-----------------------------------------------------------------------------
(* What a step does to the bookings that stand.                            *)

\* Nobody comes to stand, and who stands still does as before.
Settled ==
    /\ clock <= clock'
    /\ \A d \in Ids : IsLive(d)' => /\ IsLive(d)
                                    /\ bookings'[d] = bookings[d]
                                    /\ Crew(d)' = Crew(d)
    /\ \A d \in Ids : bookings'[d] # None => bookings[d] # None

\* Booking b, new or confirmed, comes to stand as k on crew.
Stands(b, k, crew, due, now) ==
    /\ clock' = clock /\ now \in Nat /\ now <= clock
    /\ b \in Ids /\ k \in Booking /\ k.status \in Live
    /\ bookings[b] # None => k.status = "confirmed"
    /\ KeyFits(b, k, crew)
    /\ Takes(b, k, crew, due, now)

LEMMA QuietSettles ==
    ASSUME UNCHANGED <<bookings, rows>>, clock <= clock'
    PROVE  Settled
  BY DEF Settled, IsLive, Exists, Crew

LEMMA LapseSettles ==
    ASSUME NEW due, NEW now, Lapses(due, now), clock <= clock'
    PROVE  Settled
<1>1. \A d \in due : d \in Ids /\ bookings[d] # None /\ bookings'[d].status = "expired"
  BY DEF Lapses, OthersAfter, RanOut
<1>2. \A d \in Ids \ due : bookings'[d] = bookings[d]
  BY DEF Lapses, OthersAfter
<1>3. \A d \in Ids : Crew(d)' = Crew(d)
  BY DEF Lapses, OthersAfter
<1>4. ASSUME NEW d \in Ids, IsLive(d)'
      PROVE  d \notin due /\ IsLive(d)
  <2>1. d \notin due
    BY <1>1, <1>4 DEF IsLive, Live
  <2>. QED
    BY <1>2, <1>4, <2>1 DEF IsLive, Exists
<1>. QED
  BY <1>1, <1>2, <1>3, <1>4 DEF Settled

LEMMA EndSettles ==
    ASSUME NEW b \in Ids, NEW k, Ends(b, k), bookings[b] # None, clock <= clock'
    PROVE  Settled
<1>1. ASSUME NEW d \in Ids, IsLive(d)'
      PROVE  d # b
  BY <1>1 DEF Ends, IsLive
<1>2. \A d \in Ids \ {b} : bookings'[d] = bookings[d] /\ Crew(d)' = Crew(d)
  BY DEF Ends, OthersAfter
<1>3. \A d \in Ids : IsLive(d)' => /\ IsLive(d)
                                   /\ bookings'[d] = bookings[d]
                                   /\ Crew(d)' = Crew(d)
  BY <1>1, <1>2 DEF IsLive, Exists
<1>. QED
  BY <1>2, <1>3 DEF Settled

\* Who stands after a booking came to stand.
LEMMA StandsEffect ==
    ASSUME NEW b, NEW k, NEW crew, NEW due, NEW now, Stands(b, k, crew, due, now)
    PROVE  /\ bookings'[b] = k /\ Crew(b)' = crew /\ IsLive(b)'
           /\ \A d \in Ids \ {b} :
                 IsLive(d)' => /\ d \notin due
                               /\ IsLive(d)
                               /\ bookings'[d] = bookings[d]
                               /\ Crew(d)' = Crew(d)
           /\ \A d \in Ids \ {b} : bookings'[d] # None => bookings[d] # None
<1>1. bookings'[b] = k /\ Crew(b)' = crew
  BY DEF Stands, Takes
<1>2. k # None
  BY StoreConstants DEF Stands
<1>3. IsLive(b)'
  BY <1>1, <1>2 DEF IsLive, Exists, Stands
<1>4. \A d \in due \ {b} : bookings[d] # None /\ bookings'[d].status = "expired"
  BY DEF Stands, Takes, OthersAfter, RanOut
<1>5. /\ \A d \in Ids \ (due \cup {b}) : bookings'[d] = bookings[d]
      /\ \A d \in Ids \ {b} : Crew(d)' = Crew(d)
  BY DEF Stands, Takes, OthersAfter
<1>6. ASSUME NEW d \in Ids \ {b}, IsLive(d)'
      PROVE  d \notin due /\ IsLive(d) /\ bookings'[d] = bookings[d]
  <2>1. d \notin due
    BY <1>4, <1>6 DEF IsLive, Live
  <2>. QED
    BY <1>5, <1>6, <2>1 DEF IsLive, Exists
<1>. QED
  BY <1>1, <1>3, <1>4, <1>5, <1>6

LEMMA SettledFit ==
    ASSUME BookingsFit, Settled
    PROVE  BookingsFit'
  BY DEF BookingsFit, Settled, KeyFits

LEMMA StandsFit ==
    ASSUME BookingsFit, NEW b, NEW k, NEW crew, NEW due, NEW now,
           Stands(b, k, crew, due, now)
    PROVE  BookingsFit'
<1>1. KeyFits(b, k, crew)
  BY DEF Stands
<1>. QED
  BY <1>1, StandsEffect DEF BookingsFit, KeyFits

-----------------------------------------------------------------------------
(* The sessions.                                                           *)

LEMMA TotalsCompare ==
    ASSUME NEW A, NEW w \in [A -> Nat], NEW S \in SUBSET A, IsFiniteSet(S),
           NEW T \in SUBSET S, NEW v, \A x \in T : v[x] = w[x]
    PROVE  Total(v, T) <= Total(w, S) /\ Total(v, T) \in Nat /\ Total(w, S) \in Nat
<1>1. IsFiniteSet(T) /\ T \in SUBSET A
  BY FS_Subset
<1>2. Total(v, T) = Total(w, T)
  BY <1>1, TotalSame
<1>3. Total(w, T) <= Total(w, S)
  BY TotalGrows
<1>4. Total(w, T) \in Nat /\ Total(w, S) \in Nat
  BY <1>1, TotalRemoves
<1>. QED
  BY <1>2, <1>3, <1>4

\* A shared key is one of its offering.
LEMMA SharedOffering ==
    ASSUME NEW o, NEW s, NEW b, NEW p, NEW t, NEW d,
           SessionKey(o, s, b) = SessionKey(p, t, d), IsShared(SessionKey(o, s, b))
    PROVE  o = p
<1>1. <<"booking", b>>[1] = "booking" /\ <<"booking", d>>[1] = "booking"
  OBVIOUS
<1>2. SessionKey(o, s, b) = <<"session", o, s>> /\ SessionKey(p, t, d) = <<"session", p, t>>
  BY <1>1 DEF SessionKey, IsShared
<1>3. <<"session", o, s>>[2] = o /\ <<"session", p, t>>[2] = p
  OBVIOUS
<1>. QED
  BY <1>2, <1>3

\* The bookings that block now, and those of them with a key.
Standing == Blocking(clock)

Together(key) == {b \in Standing : bookings[b].key = key}

PeopleFit ==
    \A b \in Standing :
        IsShared(bookings[b].key) =>
            Total(PeopleOf, Together(bookings[b].key)) <= bookings[b].capacity

PeopleTyped == /\ PeopleOf \in [Stored -> Nat]
               /\ \A S \in SUBSET Stored : IsFiniteSet(S)

LEMMA PeopleType == StoreTypeOK /\ FinitelyMany => PeopleTyped
<1>. SUFFICES ASSUME StoreTypeOK, FinitelyMany
              PROVE  PeopleTyped
  OBVIOUS
<1>1. ASSUME NEW b \in Stored
      PROVE  bookings[b].people \in Nat
  <2>1. bookings[b] \in Booking
    BY DEF Stored, Exists, StoreTypeOK
  <2>. QED
    BY <2>1 DEF Booking
<1>2. \A S \in SUBSET Stored : IsFiniteSet(S)
  BY FS_Subset DEF FinitelyMany, Stored
<1>. QED
  BY <1>1, <1>2 DEF PeopleTyped, PeopleOf

LEMMA BlockingStored ==
    ASSUME NEW now
    PROVE  Blocking(now) \subseteq Stored /\ \A b \in Blocking(now) : IsLive(b)
  BY DEF Blocking, Stored, IsBlocking, IsLive, Live

LEMMA SessionsFitIs == StoreTypeOK /\ FinitelyMany => (SessionsFit <=> PeopleFit)
<1>. SUFFICES ASSUME StoreTypeOK, FinitelyMany
              PROVE  SessionsFit <=> PeopleFit
  OBVIOUS
<1>1. ASSUME NEW key
      PROVE  People(Session(key, clock, None)) = Total(PeopleOf, Together(key))
  <2>1. None \notin Blocking(clock)
    BY StoreConstants DEF Blocking
  <2>2. Session(key, clock, None) = Together(key)
    BY <2>1 DEF Session, Together, Standing
  <2>3. Together(key) \in SUBSET Stored /\ IsFiniteSet(Together(key))
    BY BlockingStored, PeopleType DEF Together, Standing, PeopleTyped
  <2>. QED
    BY <2>2, <2>3, PeopleAddUp DEF PeopleAreTotals
<1>. QED
  BY <1>1 DEF SessionsFit, PeopleFit, Standing

\* The same of the next state.
LEMMA PeopleTypeNext ==
    StoreTypeOK' /\ FinitelyMany' => PeopleTyped' /\ (SessionsFit' <=> PeopleFit')
<1>1. (StoreTypeOK /\ FinitelyMany)' => PeopleTyped'
  BY PeopleType, PTL
<1>2. (StoreTypeOK /\ FinitelyMany)' => (SessionsFit <=> PeopleFit)'
  BY SessionsFitIs, PTL
<1>. QED
  BY <1>1, <1>2

\* Sessions stay sound while nobody comes to stand.
LEMMA SettledSound ==
    ASSUME StoreTypeOK, FinitelyMany, SessionsSound, Settled,
           StoreTypeOK', FinitelyMany'
    PROVE  SessionsSound'
<1>1. ASSUME NEW d \in Ids, d \in Standing'
      PROVE  /\ d \in Standing
             /\ bookings'[d] = bookings[d]
             /\ Crew(d)' = Crew(d)
  <2>1. IsLive(d)'
    BY <1>1 DEF Standing, Blocking, IsBlocking, IsLive, Live
  <2>2. IsLive(d) /\ bookings'[d] = bookings[d] /\ Crew(d)' = Crew(d)
    BY <2>1 DEF Settled
  <2>3. IsBlocking(bookings[d], clock')
    BY <1>1, <2>2 DEF Standing, Blocking
  <2>4. IsBlocking(bookings[d], clock)
    <3>1. bookings[d] \in Booking /\ clock \in Nat /\ clock' \in Nat /\ clock <= clock'
      BY <2>2 DEF StoreTypeOK, IsLive, Exists, Settled
    <3>2. bookings[d].expires \in Nat
      BY <3>1 DEF Booking
    <3>. QED
      BY <2>3, <3>1, <3>2 DEF IsBlocking
  <2>. QED
    BY <2>2, <2>4 DEF Standing, Blocking, IsLive
<1>2. Standing' \subseteq Ids
  BY DEF Standing, Blocking
<1>3. SessionsTogether'
  BY <1>1, <1>2 DEF SessionsTogether, SessionsSound, Standing
<1>4. PeopleFit'
  <2>1. ASSUME NEW d \in Ids, d \in Standing', IsShared(bookings'[d].key)
        PROVE  Total(PeopleOf', Together(bookings[d].key)') <= bookings'[d].capacity
    <3>. DEFINE key == bookings[d].key
    <3>1. d \in Standing /\ bookings'[d] = bookings[d]
      BY <1>1, <2>1
    <3>2. Total(PeopleOf, Together(key)) <= bookings[d].capacity
      BY <2>1, <3>1, SessionsFitIs DEF SessionsSound, PeopleFit
    <3>3. Together(key)' \in SUBSET Together(key)
      BY <1>1, <1>2, <3>1 DEF Together
    <3>4. Together(key) \in SUBSET Stored /\ Together(key)' \in SUBSET Stored'
      <4>1. Standing \subseteq Stored /\ Standing' \subseteq Stored'
        BY DEF Standing, Blocking, Stored
      <4>. QED
        BY <4>1 DEF Together
    <3>5. \A x \in Together(key)' : PeopleOf'[x] = PeopleOf[x]
      <4>1. ASSUME NEW x \in Together(key)'
            PROVE  PeopleOf'[x] = PeopleOf[x]
        <5>1. x \in Stored /\ x \in Stored'
          BY <3>3, <3>4
        <5>2. bookings'[x] = bookings[x]
          BY <1>1, <1>2 DEF Together
        <5>. QED
          BY <5>1, <5>2 DEF PeopleOf
      <4>. QED
        BY <4>1
    <3>6. PeopleOf \in [Stored -> Nat] /\ IsFiniteSet(Together(key))
      BY <3>4, PeopleType DEF PeopleTyped
    <3>7. /\ Total(PeopleOf', Together(key)') <= Total(PeopleOf, Together(key))
          /\ Total(PeopleOf', Together(key)') \in Nat
          /\ Total(PeopleOf, Together(key)) \in Nat
      BY <3>3, <3>4, <3>5, <3>6, TotalsCompare
    <3>8. bookings[d].capacity \in Nat
      <4>1. bookings[d] \in Booking
        BY <3>1 DEF Standing, Blocking, Exists, StoreTypeOK
      <4>. QED
        BY <4>1 DEF Booking
    <3>. HIDE DEF key
    <3>9. Total(PeopleOf', Together(key)') <= bookings[d].capacity
      BY <3>2, <3>7, <3>8
    <3>. QED
      BY <3>1, <3>9 DEF key
  <2>2. ASSUME NEW d \in Ids, d \in Standing'
        PROVE  bookings'[d] = bookings[d]
    BY <1>1, <2>2
  <2>. QED
    BY <1>2, <2>1, <2>2 DEF PeopleFit, Together
<1>. QED
  BY <1>3, <1>4, PeopleTypeNext DEF SessionsSound

\* Sessions stay sound when a booking comes to stand that its session allows,
\* although the session was read at an earlier time.
LEMMA StandsSound ==
    ASSUME StoreTypeOK, FinitelyMany, SessionsSound, BookingsFit,
           NEW b, NEW k, NEW crew, NEW due, NEW now, Stands(b, k, crew, due, now),
           StoreTypeOK', FinitelyMany'
    PROVE  SessionsSound'
<1>. DEFINE mates == Session(k.key, now, b)
<1>0. clock' = clock /\ clock \in Nat /\ now \in Nat /\ now <= clock /\ b \in Ids
  BY DEF Stands, StoreTypeOK
<1>1. ASSUME NEW d \in Ids \ {b}, d \in Standing'
      PROVE  /\ d \in Standing /\ d \in Blocking(now)
             /\ bookings'[d] = bookings[d]
             /\ Crew(d)' = Crew(d)
  <2>1. IsLive(d)'
    BY <1>1 DEF Standing, Blocking, IsBlocking, IsLive, Live
  <2>2. IsLive(d) /\ bookings'[d] = bookings[d] /\ Crew(d)' = Crew(d)
    BY <2>1, StandsEffect
  <2>3. IsBlocking(bookings[d], clock)
    BY <1>0, <1>1, <2>2 DEF Standing, Blocking
  <2>4. IsBlocking(bookings[d], now)
    <3>1. bookings[d] \in Booking
      BY <2>2 DEF StoreTypeOK, IsLive, Exists
    <3>2. bookings[d].expires \in Nat
      BY <3>1 DEF Booking
    <3>. QED
      BY <1>0, <2>3, <3>2 DEF IsBlocking
  <2>. QED
    BY <2>2, <2>3, <2>4 DEF Standing, Blocking, IsLive
<1>2. Standing' \subseteq Ids
  BY DEF Standing, Blocking
<1>3. bookings'[b] = k /\ Crew(b)' = crew
  BY StandsEffect
<1>4. ASSUME NEW d \in Ids \ {b}, d \in Standing', bookings[d].key = k.key,
             IsShared(k.key)
      PROVE  d \in mates /\ Crew(d) = crew /\ bookings[d].capacity = k.capacity
  <2>1. d \in mates
    BY <1>1, <1>4 DEF Session
  <2>2. Crew(d) = crew
    BY <1>4, <2>1 DEF Stands, Takes, FitsSession
  <2>3. IsLive(d)
    BY <1>1, <1>4 DEF Standing, Blocking, IsBlocking, IsLive, Live
  <2>4. KeyFits(d, bookings[d], Crew(d)) /\ KeyFits(b, k, crew)
    BY <2>3 DEF BookingsFit, Stands
  <2>5. bookings[d].offering = k.offering
    BY <1>4, <2>4, SharedOffering DEF KeyFits
  <2>. QED
    BY <2>1, <2>2, <2>4, <2>5 DEF KeyFits
<1>5. SessionsTogether'
  <2>1. ASSUME NEW d \in Standing', NEW e \in Standing',
               IsShared(bookings'[d].key), bookings'[d].key = bookings'[e].key
        PROVE  Crew(d)' = Crew(e)'
    <3>1. CASE d = b /\ e = b
      BY <3>1
    <3>2. CASE d = b /\ e # b
      BY <1>1, <1>2, <1>3, <1>4, <2>1, <3>2
    <3>3. CASE d # b /\ e = b
      BY <1>1, <1>2, <1>3, <1>4, <2>1, <3>3
    <3>4. CASE d # b /\ e # b
      BY <1>1, <1>2, <2>1, <3>4 DEF SessionsTogether, SessionsSound, Standing
    <3>. QED
      BY <3>1, <3>2, <3>3, <3>4
  <2>. QED
    BY <2>1 DEF SessionsTogether, Standing
<1>6. /\ PeopleOf \in [Stored -> Nat] /\ PeopleOf' \in [Stored' -> Nat]
      /\ \A S \in SUBSET Stored : IsFiniteSet(S)
      /\ \A S \in SUBSET Stored' : IsFiniteSet(S)
  BY PeopleType, PeopleTypeNext DEF PeopleTyped
<1>7. Standing \subseteq Stored /\ Standing' \subseteq Stored' /\ mates \subseteq Stored
  BY DEF Standing, Blocking, Stored, Session
<1>8. ASSUME NEW x \in Standing', x # b
      PROVE  PeopleOf'[x] = PeopleOf[x]
  <2>1. x \in Stored /\ x \in Stored' /\ bookings'[x] = bookings[x]
    BY <1>1, <1>2, <1>7, <1>8
  <2>. QED
    BY <2>1 DEF PeopleOf
<1>. HIDE DEF mates
<1>9. PeopleFit'
  <2>. SUFFICES ASSUME NEW d \in Standing', IsShared(bookings'[d].key)
                PROVE  Total(PeopleOf', Together(bookings[d].key)')
                          <= bookings'[d].capacity
    BY DEF PeopleFit, Together
  <2>1. PICK T : T = Together(bookings[d].key)'
    OBVIOUS
  <2>2. T = {x \in Standing' : bookings'[x].key = bookings'[d].key}
    BY <2>1 DEF Together
  <2>3. T \in SUBSET Stored'
    BY <1>7, <2>2
  <2>4. bookings'[d].capacity \in Nat
    <3>1. bookings'[d] \in Booking
      BY DEF StoreTypeOK, Standing, Blocking, Exists
    <3>. QED
      BY <3>1 DEF Booking
  <2>5. CASE bookings'[d].key # k.key
    <3>1. d # b /\ b \notin T
      BY <1>3, <2>2, <2>5
    <3>2. d \in Standing /\ bookings'[d] = bookings[d]
      BY <1>1, <1>2, <3>1
    <3>. DEFINE S == Together(bookings[d].key)
    <3>3. T \in SUBSET S /\ S \in SUBSET Stored
      BY <1>1, <1>2, <1>7, <2>2, <3>1, <3>2 DEF Together
    <3>4. \A x \in T : PeopleOf'[x] = PeopleOf[x]
      BY <1>8, <2>2, <3>1
    <3>5. Total(PeopleOf, S) <= bookings[d].capacity
      BY <3>2, SessionsFitIs DEF SessionsSound, PeopleFit
    <3>. HIDE DEF S
    <3>6. /\ Total(PeopleOf', T) <= Total(PeopleOf, S)
          /\ Total(PeopleOf', T) \in Nat /\ Total(PeopleOf, S) \in Nat
      BY <1>6, <3>3, <3>4, TotalsCompare
    <3>7. Total(PeopleOf', T) <= bookings'[d].capacity
      BY <2>4, <3>2, <3>5, <3>6
    <3>. QED
      BY <2>1, <3>7
  <2>6. CASE bookings'[d].key = k.key
    <3>1. IsShared(k.key)
      BY <2>6
    <3>2. bookings'[d].capacity = k.capacity
      BY <1>1, <1>2, <1>3, <1>4, <2>6, <3>1
    <3>. DEFINE R == T \ {b}
    <3>3. R \in SUBSET mates /\ \A x \in R : PeopleOf'[x] = PeopleOf[x]
      BY <1>1, <1>2, <1>4, <1>8, <2>2, <2>6, <3>1
    <3>4. People(mates) = Total(PeopleOf, mates)
      BY <1>6, <1>7, PeopleAddUp DEF PeopleAreTotals
    <3>5. Total(PeopleOf, mates) + k.people <= k.capacity
      BY <3>1, <3>4 DEF Stands, Takes, FitsSession, mates
    <3>6. /\ Total(PeopleOf', R) <= Total(PeopleOf, mates)
          /\ Total(PeopleOf', R) \in Nat /\ Total(PeopleOf, mates) \in Nat
      <4>. HIDE DEF R
      <4>. QED
        BY <1>6, <1>7, <3>3, TotalsCompare
    <3>7. k.people \in Nat /\ k.capacity \in Nat
      BY DEF Stands, Booking
    <3>8. CASE b \in T
      <4>1. Total(PeopleOf', T) = PeopleOf'[b] + Total(PeopleOf', R)
        BY <1>6, <2>3, <3>8, TotalRemoves
      <4>2. PeopleOf'[b] = k.people
        BY <1>3, <2>3, <3>8 DEF PeopleOf
      <4>. HIDE DEF R
      <4>3. Total(PeopleOf', T) <= k.capacity
        BY <3>5, <3>6, <3>7, <4>1, <4>2
      <4>. QED
        BY <2>1, <3>2, <4>3
    <3>9. CASE b \notin T
      <4>1. R = T
        BY <3>9
      <4>2. Total(PeopleOf', T) <= k.capacity
        BY <3>5, <3>6, <3>7, <4>1
      <4>. QED
        BY <2>1, <3>2, <4>2
    <3>. QED
      BY <3>8, <3>9
  <2>. QED
    BY <2>5, <2>6
<1>. QED
  BY <1>5, <1>9, PeopleTypeNext DEF SessionsSound

-----------------------------------------------------------------------------
(* What requests carry stays true while others write.                      *)

\* A hold that is still one is as it was.
HeldStay ==
    \A d \in Ids : bookings[d] # None /\ bookings'[d].status = "held" =>
        bookings'[d] = bookings[d] /\ Crew(d)' = Crew(d)

LEMMA SettledHeld ==
    ASSUME BookingsAdvance(Ids), Settled
    PROVE  HeldStay
  BY DEF BookingsAdvance, Advances, Exists, Settled, HeldStay, IsLive, Live

LEMMA StandsHeld ==
    ASSUME BookingsAdvance(Ids), NEW b, NEW k, NEW crew, NEW due, NEW now,
           Stands(b, k, crew, due, now)
    PROVE  HeldStay
<1>. SUFFICES ASSUME NEW d \in Ids, bookings[d] # None, bookings'[d].status = "held"
              PROVE  bookings'[d] = bookings[d] /\ Crew(d)' = Crew(d)
  BY DEF HeldStay
<1>1. bookings'[d] # None /\ IsLive(d)'
  BY DEF BookingsAdvance, Advances, Exists, IsLive, Live
<1>2. d # b
  BY StandsEffect DEF Stands
<1>. QED
  BY <1>1, <1>2, StandsEffect

LEMMA OthersCarry ==
    ASSUME IInv, clock' \in Nat, clock <= clock', HeldStay,
           NEW d \in Clients, req[d] # None, Carries(req[d]), req'[d] = req[d]
    PROVE  Carries(req[d])'
<1>1. PICK q : q = req[d]
  OBVIOUS
<1>2. q \in Request /\ q.now \in Nat /\ clock \in Nat /\ ChangeFits(q) /\ Carries(q)
  BY <1>1 DEF IInv, TypeOK, StoreTypeOK, RequestsOK, Request
<1>3. q.now <= clock'
  BY <1>2 DEF Carries
<1>4. ASSUME q.op \notin {"hold", "sweep"}, q.phase # "read"
      PROVE  HeldAsRead(q)'
  <2>1. q.id \in Ids /\ bookings[q.id] # None
    BY <1>2, <1>4 DEF ChangeFits, Exists
  <2>2. HeldAsRead(q)
    BY <1>2, <1>4 DEF Carries, ChangeCarries
  <2>. QED
    BY <2>1, <2>2 DEF HeldAsRead, HeldStay
<1>5. HoldCarries(q)' /\ ChangeCarries(q)'
  BY <1>2, <1>4 DEF Carries, HoldCarries, ChangeCarries, KeyFits, MoveCarries
<1>6. Carries(q)'
  BY <1>3, <1>5 DEF Carries
<1>. QED
  BY <1>1, <1>6 DEF Carries, HoldCarries, ChangeCarries, HeldAsRead, KeyFits, MoveCarries

LEMMA DoneCarries ==
    ASSUME IInv, RequestsCarry, clock' \in Nat, clock <= clock', HeldStay,
           NEW c \in Clients, Done(c)
    PROVE  RequestsCarry'
<1>. SUFFICES ASSUME NEW d \in Clients, req'[d] # None
              PROVE  Carries(req[d])'
  BY DEF RequestsCarry
<1>1. req'[d] = req[d]
  BY DEF Done, IInv, TypeOK
<1>. QED
  BY <1>1, OthersCarry DEF RequestsCarry

LEMMA GoesKeepsCarries ==
    ASSUME IInv, RequestsCarry, UNCHANGED <<clock, bookings, rows>>,
           NEW c \in Clients, NEW q, Goes(c, q), Carries(q)
    PROVE  RequestsCarry'
<1>. SUFFICES ASSUME NEW d \in Clients, req'[d] # None
              PROVE  Carries(req[d])'
  BY DEF RequestsCarry
<1>1. CASE d = c
  <2>1. req'[d] = q
    BY <1>1 DEF Goes, IInv, TypeOK
  <2>. QED
    BY <2>1 DEF Carries, HoldCarries, ChangeCarries, HeldAsRead, KeyFits,
                MoveCarries, Crew
<1>2. CASE d # c
  <2>1. req'[d] = req[d]
    BY <1>2 DEF Goes, IInv, TypeOK
  <2>2. clock' \in Nat /\ clock <= clock' /\ HeldStay
    BY DEF IInv, TypeOK, StoreTypeOK, HeldStay, Crew
  <2>. QED
    BY <2>1, <2>2, OthersCarry DEF RequestsCarry
<1>. QED
  BY <1>1, <1>2

LEMMA GoesCarries ==
    ASSUME IInv, RequestsCarry, UNCHANGED <<clock, bookings, rows>>,
           NEW c \in Clients, NEW q, Goes(c, q), Carries(q),
           q.op = "hold" /\ q.phase # "count" => c \in Admitted
    PROVE  RequestsCarry' /\ Admitted' \subseteq Admitted
<1>1. req'[c] = q /\ \A d \in Clients \ {c} : req'[d] = req[d]
  BY DEF Goes, IInv, TypeOK
<1>2. Admitted' \subseteq Admitted
  BY <1>1 DEF Admitted
<1>. QED
  BY <1>2, GoesKeepsCarries

LEMMA DoneAdmits ==
    ASSUME TypeOK, NEW c \in Clients, Done(c)
    PROVE  Admitted' = Admitted \ {c}
<1>1. req'[c] = None /\ \A d \in Clients \ {c} : req'[d] = req[d]
  BY DEF Done, TypeOK
<1>. QED
  BY <1>1 DEF Admitted

-----------------------------------------------------------------------------
(* The steps that write nothing.                                           *)

LEMMA BeginCarries ==
    ASSUME IInv, RequestsCarry, NEW c \in Clients, NEW op \in Ops \ {"hold"},
           NEW phase \in Phases, Begin(c, op, phase),
           op = "sweep" \/ phase = "read", UNCHANGED <<clock, bookings, rows>>
    PROVE  RequestsCarry' /\ Admitted' \subseteq Admitted
<1>. DEFINE q == NewRequest(op, phase)
<1>1. q.op = op /\ q.phase = phase /\ q.now = clock /\ clock \in Nat
  BY DEF NewRequest, IInv, TypeOK, StoreTypeOK
<1>2. Goes(c, q)
  BY DEF Begin
<1>. HIDE DEF q
<1>3. Carries(q)
  BY <1>1 DEF Carries, HoldCarries, ChangeCarries
<1>. QED
  BY <1>1, <1>2, <1>3, GoesCarries

LEMMA BeginHoldCarries ==
    ASSUME IInv, RequestsCarry, NEW c \in Clients, BeginHold(c)
    PROVE  RequestsCarry' /\ Admitted' \subseteq Admitted
<1>1. PICK b \in Ids \ Drawn : Goes(c, [NewRequest("hold", "count") EXCEPT !.id = b])
  BY DEF BeginHold
<1>. DEFINE q == [NewRequest("hold", "count") EXCEPT !.id = b]
<1>2. q.op = "hold" /\ q.phase = "count" /\ q.now = clock /\ clock \in Nat
  BY DEF NewRequest, IInv, TypeOK, StoreTypeOK
<1>3. Goes(c, q)
  BY <1>1
<1>. HIDE DEF q
<1>4. Carries(q)
  BY <1>2 DEF Carries, HoldCarries, ChangeCarries
<1>. QED
  BY <1>2, <1>3, <1>4, GoesCarries DEF BeginHold

\* A request that ends without a write.
LEMMA EndCarries ==
    ASSUME IInv, RequestsCarry, NEW c \in Clients, Done(c),
           UNCHANGED <<clock, bookings, rows>>
    PROVE  RequestsCarry' /\ Admitted' \subseteq Admitted
<1>1. clock' \in Nat /\ clock <= clock' /\ HeldStay
  BY DEF IInv, TypeOK, StoreTypeOK, HeldStay, Crew
<1>2. Admitted' \subseteq Admitted
  BY DoneAdmits DEF IInv
<1>. QED
  BY <1>1, <1>2, DoneCarries

LEMMA CountHoldsCarries ==
    ASSUME IInv, RequestsCarry, FinitelyMany, NEW c \in Clients, CountHolds(c)
    PROVE  /\ RequestsCarry'
           /\ \/ Admitted' \subseteq Admitted
              \/ Cardinality(LiveHolds(req[c].now)) < MaxLiveHolds
<1>. DEFINE q == [req[c] EXCEPT !.phase = "assess"]
<1>1. CASE Done(c)
  BY <1>1, EndCarries DEF CountHolds
<1>2. CASE ~(Cardinality(LiveHolds(req[c].now)) >= MaxLiveHolds) /\ Goes(c, q)
  <2>1. req[c] \in Request /\ req[c].op = "hold" /\ req[c].now <= clock
    BY DEF CountHolds, Under, IInv, TypeOK, RequestsCarry, Carries
  <2>2. q.op = "hold" /\ q.phase = "assess" /\ q.now <= clock
    BY <2>1 DEF Request
  <2>. HIDE DEF q
  <2>3. Carries(q)
    BY <2>2 DEF Carries, HoldCarries, ChangeCarries
  <2>4. RequestsCarry'
    BY <1>2, <2>3, GoesKeepsCarries DEF CountHolds
  <2>5. Cardinality(LiveHolds(req[c].now)) < MaxLiveHolds
    <3>1. LiveHolds(req[c].now) \subseteq Stored
      BY BlockingStored DEF LiveHolds
    <3>2. Cardinality(LiveHolds(req[c].now)) \in Nat
      BY <3>1, PeopleType, FS_CardinalityType DEF IInv, TypeOK, PeopleTyped
    <3>. QED
      BY <1>2, <3>2, FlowConstants
  <2>. QED
    BY <2>4, <2>5
<1>. QED
  BY <1>1, <1>2 DEF CountHolds

\* The seats of a crew bound its capacity from below.
LEMMA SeatsSuffice ==
    ASSUME NEW o \in Offerings, NEW crew \in SUBSET Resources, NEW n \in Nat,
           n <= Places[o], \A r \in crew : n <= Seats[r]
    PROVE  n <= CapacityOn(o, crew)
<1>. DEFINE S == {Places[o]} \cup {Seats[r] : r \in crew}
<1>1. S \in SUBSET Nat /\ S # {}
  BY StoreConstants
<1>2. Min(S) \in S
  <2>. HIDE DEF S
  <2>. QED
    BY <1>1, MinIsNat
<1>3. \A m \in S : n <= m
  OBVIOUS
<1>. HIDE DEF S
<1>. QED
  BY <1>2, <1>3 DEF CapacityOn, S

\* Where a slot is planned, its participants have places.
LEMMA PlannedSuffice ==
    ASSUME StoreTypeOK, FinitelyMany, TablesOK,
           NEW k, k.offering \in Offerings, k.people \in Nat, NEW now, NEW self,
           NEW crew \in PlannedCrews(k, now, self)
    PROVE  k.people <= CapacityOn(k.offering, crew)
<1>1. crew \in SUBSET Resources /\ k.people <= MaxGroup[k.offering]
  BY PlannedType DEF PlannedCrews
<1>2. k.people <= Places[k.offering]
  <2>1. /\ MaxGroup[k.offering] \in Nat /\ Places[k.offering] \in Nat
        /\ MaxGroup[k.offering] <= Places[k.offering]
    BY StoreConstants
  <2>. QED
    BY <1>1, <2>1
<1>3. CASE crew \in JoinCrews(k, now, self)
  <2>. DEFINE mates == Session(k.key, now, self)
  <2>1. People(mates) + k.people <= CapacityOn(k.offering, crew)
    BY <1>3 DEF JoinCrews
  <2>2. mates \in SUBSET Stored
    BY BlockingStored DEF Session
  <2>3. People(mates) \in Nat
    <3>1. PeopleOf \in [Stored -> Nat] /\ IsFiniteSet(mates)
      BY <2>2, PeopleType DEF PeopleTyped
    <3>. HIDE DEF mates
    <3>2. Total(PeopleOf, mates) \in Nat
      BY <2>2, <3>1, TotalRemoves
    <3>3. People(mates) = Total(PeopleOf, mates)
      BY <2>2, <3>1, PeopleAddUp DEF PeopleAreTotals
    <3>. QED
      BY <3>2, <3>3
  <2>4. CapacityOn(k.offering, crew) \in Nat
    BY <1>1, CapacityType
  <2>. HIDE DEF mates
  <2>. QED
    BY <2>1, <2>3, <2>4
<1>4. CASE crew \in FreshCrews(k, now, self)
  <2>1. \A r \in crew : Seats[r] >= k.people
    BY <1>4 DEF FreshCrews
  <2>2. \A r \in crew : k.people <= Seats[r]
    BY <1>1, <2>1, StoreConstants
  <2>. QED
    BY <1>1, <1>2, <2>2, SeatsSuffice
<1>. QED
  BY <1>3, <1>4 DEF PlannedCrews

LEMMA AssessHoldCarries ==
    ASSUME IInv, RequestsCarry, FinitelyMany, NEW c \in Clients, AssessHold(c)
    PROVE  RequestsCarry' /\ Admitted' \subseteq Admitted
<1>. DEFINE p == req[c]
<1>1. /\ p # None /\ p.op = "hold" /\ p \in Request /\ p.id \in Ids
      /\ p.now \in Nat /\ p.now <= clock
  BY DEF AssessHold, Under, IInv, TypeOK, RequestsOK, HoldFits, Request,
         RequestsCarry, Carries
<1>2. CASE Done(c)
  BY <1>2, EndCarries DEF AssessHold
<1>3. ASSUME NEW o \in Offerings, NEW s \in Starts[o], NEW n \in 1 .. MaxGroup[o],
             NEW crew \in PlannedCrews(NewHold(o, s, n, p.id, {}, p.now), p.now, None),
             Goes(c, Writing(p, NewHold(o, s, n, p.id, crew, p.now), crew))
      PROVE  RequestsCarry' /\ Admitted' \subseteq Admitted
  <2>. DEFINE wish == NewHold(o, s, n, p.id, {}, p.now)
              k == NewHold(o, s, n, p.id, crew, p.now)
              q == Writing(p, k, crew)
  <2>1. s \in Nat /\ n \in Nat
    BY StoreConstants
  <2>2. wish.offering = o /\ wish.people = n
    BY DEF NewHold
  <2>3. /\ k.offering = o /\ k.people = n /\ k.start = s
        /\ k.key = SessionKey(o, s, p.id) /\ k.capacity = CapacityOn(o, crew)
    BY DEF NewHold
  <2>. HIDE DEF wish
  <2>4. n <= CapacityOn(o, crew)
    BY <2>1, <2>2, PlannedSuffice DEF IInv, TypeOK, wish
  <2>. HIDE DEF k, p
  <2>5. /\ q.op = "hold" /\ q.phase = "write" /\ q.id = p.id /\ q.next = k
        /\ q.crew = crew /\ q.now = p.now
    BY <1>1 DEF Writing, Request
  <2>6. Goes(c, q)
    BY <1>3 DEF k, p
  <2>. HIDE DEF q
  <2>7. Carries(q)
    BY <1>1, <2>3, <2>4, <2>5 DEF Carries, HoldCarries, ChangeCarries, KeyFits
  <2>. QED
    BY <1>1, <2>6, <2>7, GoesCarries DEF AssessHold, Under, Admitted, p
<1>4. \/ Done(c)
      \/ \E o \in Offerings : \E s \in Starts[o], n \in 1 .. MaxGroup[o] :
            \E crew \in PlannedCrews(NewHold(o, s, n, p.id, {}, p.now), p.now, None) :
               Goes(c, Writing(p, NewHold(o, s, n, p.id, crew, p.now), crew))
  <2>. HIDE DEF p
  <2>. QED
    BY DEF AssessHold, p
<1>. QED
  BY <1>2, <1>3, <1>4

\* A request that has just read booking b carries it as it is.
LEMMA HavingCarries ==
    ASSUME NEW q, q.op # "hold", q.phase \notin {"assess", "write"},
           NEW b, q.id = b, q.base = bookings[b], q.crew = Crew(b), q.now <= clock
    PROVE  Carries(q)
  BY DEF Carries, HoldCarries, ChangeCarries, HeldAsRead

\* What a write may carry.
MayWrite(q, k, crew) ==
    \/ k.status \notin Live
    \/ q.base.status = "held" /\ k = Confirmed(q.base, q.email, q.now)
    \/ /\ q.op = "move"
       /\ q.base.status = "confirmed" /\ k.status = "confirmed"
       /\ KeyFits(q.id, k, crew)
       /\ q.actor = "customer" => k.moves <= MaxMoves

LEMMA WritingCarries ==
    ASSUME NEW p \in Request, p.op # "hold", p.now <= clock, HeldAsRead(p),
           NEW k, NEW crew, p.base.status = "held" => crew = p.crew,
           MayWrite(p, k, crew)
    PROVE  Carries(Writing(p, k, crew)) /\ Writing(p, k, crew).op # "hold"
<1>. DEFINE q == Writing(p, k, crew)
<1>1. /\ q.op = p.op /\ q.phase = "write" /\ q.id = p.id /\ q.base = p.base
      /\ q.next = k /\ q.crew = crew /\ q.email = p.email /\ q.now = p.now
      /\ q.actor = p.actor
  BY DEF Writing, Request
<1>. HIDE DEF q
<1>2. HeldAsRead(q)
  BY <1>1 DEF HeldAsRead
<1>3. ChangeCarries(q)
  BY <1>1, <1>2 DEF ChangeCarries, MayWrite, MoveCarries
<1>. QED
  BY <1>1, <1>3 DEF Carries, HoldCarries, q

LEMMA ReadConfirmCarries ==
    ASSUME IInv, RequestsCarry, NEW c \in Clients, ReadConfirm(c)
    PROVE  RequestsCarry' /\ Admitted' \subseteq Admitted
<1>1. CASE Done(c)
  BY <1>1, EndCarries DEF ReadConfirm
<1>2. ASSUME NEW b \in Ids, NEW e \in Emails, Exists(b),
             Goes(c, [Having(req[c], "count", b) EXCEPT !.email = e])
      PROVE  RequestsCarry' /\ Admitted' \subseteq Admitted
  <2>. DEFINE h == Having(req[c], "count", b)
              q == [h EXCEPT !.email = e]
  <2>1. /\ req[c] \in Request /\ req[c].op = "confirm" /\ req[c].now <= clock
        /\ StoreTypeOK /\ "count" \in Phases
    BY DEF ReadConfirm, Under, IInv, TypeOK, RequestsCarry, Carries, Phases
  <2>2. /\ h \in Request /\ h.op = "confirm" /\ h.phase = "count" /\ h.id = b
        /\ h.base = bookings[b] /\ h.crew = Crew(b) /\ h.now <= clock
    BY <1>2, <2>1, HavingType
  <2>. HIDE DEF h
  <2>3. /\ q.op = "confirm" /\ q.phase = "count" /\ q.id = b
        /\ q.base = bookings[b] /\ q.crew = Crew(b) /\ q.now <= clock
    BY <2>2 DEF Request
  <2>4. Goes(c, q)
    BY <1>2 DEF h
  <2>. HIDE DEF q
  <2>5. Carries(q)
    BY <2>3, HavingCarries
  <2>. QED
    BY <2>3, <2>4, <2>5, GoesCarries DEF ReadConfirm
<1>. QED
  BY <1>1, <1>2 DEF ReadConfirm

LEMMA CountEmailCarries ==
    ASSUME IInv, RequestsCarry, NEW c \in Clients, CountEmail(c)
    PROVE  RequestsCarry' /\ Admitted' \subseteq Admitted
<1>. DEFINE p == req[c]
            k == Confirmed(p.base, p.email, p.now)
<1>1. CASE Done(c)
  BY <1>1, EndCarries DEF CountEmail
<1>2. CASE CanConfirm(p.base, p.now) /\ Goes(c, Writing(p, k, p.crew))
  <2>1. /\ p \in Request /\ p.op = "confirm" /\ p.now <= clock /\ HeldAsRead(p)
    BY DEF CountEmail, Under, IInv, TypeOK, RequestsCarry, Carries, ChangeCarries
  <2>2. MayWrite(p, k, p.crew)
    BY <1>2 DEF MayWrite, CanConfirm
  <2>3. Goes(c, Writing(p, k, p.crew))
    BY <1>2
  <2>. HIDE DEF p, k
  <2>4. Carries(Writing(p, k, p.crew)) /\ Writing(p, k, p.crew).op # "hold"
    BY <2>1, <2>2, WritingCarries
  <2>. QED
    BY <2>3, <2>4, GoesCarries DEF CountEmail
<1>. QED
  BY <1>1, <1>2 DEF CountEmail

\* ReadRelease and ReadFinish read a booking and decide to end it in one step.
LEMMA ReadAndWriteCarries ==
    ASSUME IInv, RequestsCarry, NEW c \in Clients, NEW p \in Request,
           p.op # "hold", p.now <= clock, NEW b \in Ids, Exists(b),
           NEW k, k.status \notin Live,
           Goes(c, Writing(Having(p, "read", b), k, Crew(b))),
           UNCHANGED <<clock, bookings, rows>>
    PROVE  RequestsCarry' /\ Admitted' \subseteq Admitted
<1>. DEFINE h == Having(p, "read", b)
<1>1. StoreTypeOK /\ "read" \in Phases
  BY DEF IInv, TypeOK, Phases
<1>2. /\ h \in Request /\ h.op = p.op /\ h.id = b /\ h.base = bookings[b]
      /\ h.crew = Crew(b) /\ h.now = p.now
  BY <1>1, HavingType
<1>3. Goes(c, Writing(h, k, Crew(b)))
  OBVIOUS
<1>. HIDE DEF h
<1>4. HeldAsRead(h) /\ MayWrite(h, k, Crew(b))
  BY <1>2 DEF HeldAsRead, MayWrite
<1>5. Carries(Writing(h, k, Crew(b))) /\ Writing(h, k, Crew(b)).op # "hold"
  BY <1>2, <1>4, WritingCarries
<1>. QED
  BY <1>3, <1>5, GoesCarries

LEMMA ReadReleaseCarries ==
    ASSUME IInv, RequestsCarry, NEW c \in Clients, ReadRelease(c)
    PROVE  RequestsCarry' /\ Admitted' \subseteq Admitted
<1>. DEFINE p == req[c]
<1>1. CASE Done(c)
  BY <1>1, EndCarries DEF ReadRelease
<1>2. ASSUME NEW b \in Ids, Exists(b),
             Goes(c, Writing(Having(p, "read", b), Cancelled(bookings[b], p.now), Crew(b)))
      PROVE  RequestsCarry' /\ Admitted' \subseteq Admitted
  <2>. DEFINE k == Cancelled(bookings[b], p.now)
  <2>1. p \in Request /\ p.op = "release" /\ p.now <= clock
    BY DEF ReadRelease, Under, IInv, TypeOK, RequestsCarry, Carries
  <2>2. k.status \notin Live
    <3>1. bookings[b] \in Booking
      BY <1>2 DEF IInv, TypeOK, StoreTypeOK, Exists
    <3>. QED
      BY <3>1 DEF Cancelled, Booking, Live
  <2>3. Goes(c, Writing(Having(p, "read", b), k, Crew(b)))
    BY <1>2
  <2>. HIDE DEF k, p
  <2>. QED
    BY <1>2, <2>1, <2>2, <2>3, ReadAndWriteCarries DEF ReadRelease
<1>. QED
  BY <1>1, <1>2 DEF ReadRelease

LEMMA ReadFinishCarries ==
    ASSUME IInv, RequestsCarry, NEW c \in Clients, ReadFinish(c)
    PROVE  RequestsCarry' /\ Admitted' \subseteq Admitted
<1>. DEFINE p  == req[c]
            to == IF p.op = "complete" THEN "completed" ELSE "no_show"
<1>1. CASE Done(c)
  BY <1>1, EndCarries DEF ReadFinish
<1>2. ASSUME NEW b \in Ids, Exists(b),
             Goes(c, Writing(Having(p, "read", b), Finished(bookings[b], to, p.now), Crew(b)))
      PROVE  RequestsCarry' /\ Admitted' \subseteq Admitted
  <2>. DEFINE k == Finished(bookings[b], to, p.now)
  <2>1. p \in Request /\ p.op # "hold" /\ p.now <= clock
    BY DEF ReadFinish, Under, IInv, TypeOK, RequestsCarry, Carries
  <2>2. k.status \notin Live
    <3>1. bookings[b] \in Booking
      BY <1>2 DEF IInv, TypeOK, StoreTypeOK, Exists
    <3>. QED
      BY <3>1 DEF Finished, Booking, Live
  <2>3. Goes(c, Writing(Having(p, "read", b), k, Crew(b)))
    BY <1>2
  <2>4. UNCHANGED <<clock, bookings, rows>>
    BY DEF ReadFinish
  <2>. HIDE DEF k, p
  <2>. QED
    BY <1>2, <2>1, <2>2, <2>3, <2>4, ReadAndWriteCarries
<1>. QED
  BY <1>1, <1>2 DEF ReadFinish

LEMMA ReadChangeCarries ==
    ASSUME IInv, RequestsCarry, NEW c \in Clients, NEW op \in {"cancel", "move"},
           ReadChange(c, op)
    PROVE  RequestsCarry' /\ Admitted' \subseteq Admitted
<1>1. PICK b \in Ids, actor \in Actors :
         /\ Finds(actor, b)
         /\ Goes(c, [Having(NewRequest(op, "decide"), "decide", b)
                        EXCEPT !.actor = actor, !.now = 0])
         /\ UNCHANGED <<clock, bookings, rows>>
  BY FlowConstants DEF ReadChange
<1>. DEFINE p == NewRequest(op, "decide")
            h == Having(p, "decide", b)
            q == [h EXCEPT !.actor = actor, !.now = 0]
<1>2. /\ p \in Request /\ p.op = op /\ StoreTypeOK /\ clock \in Nat
      /\ "decide" \in Phases /\ Exists(b)
  BY <1>1, NewRequestType DEF IInv, TypeOK, StoreTypeOK, Ops, Phases, Finds
<1>. HIDE DEF p
<1>3. /\ h \in Request /\ h.op = op /\ h.phase = "decide" /\ h.id = b
      /\ h.base = bookings[b] /\ h.crew = Crew(b)
  BY <1>2, HavingType
<1>. HIDE DEF h
<1>4. /\ q.op = op /\ q.phase = "decide" /\ q.id = b
      /\ q.base = bookings[b] /\ q.crew = Crew(b) /\ q.now <= clock
  BY <1>2, <1>3 DEF Request
<1>5. Goes(c, q)
  BY <1>1 DEF h, p
<1>. HIDE DEF q
<1>6. Carries(q)
  BY <1>4, HavingCarries
<1>. QED
  BY <1>1, <1>4, <1>5, <1>6, GoesCarries

LEMMA DecideCancelCarries ==
    ASSUME IInv, RequestsCarry, NEW c \in Clients, DecideCancel(c)
    PROVE  RequestsCarry' /\ Admitted' \subseteq Admitted
<1>. DEFINE q == [req[c] EXCEPT !.now = clock]
            k == Cancelled(q.base, q.now)
<1>1. CASE Done(c)
  BY <1>1, EndCarries DEF DecideCancel
<1>2. CASE Goes(c, Writing(q, k, q.crew))
  <2>1. /\ req[c] \in Request /\ req[c].op = "cancel" /\ ChangeFits(req[c])
        /\ req[c].phase = "decide" /\ clock \in Nat /\ HeldAsRead(req[c])
    BY DEF DecideCancel, Under, IInv, TypeOK, StoreTypeOK, RequestsOK,
           RequestsCarry, Carries, ChangeCarries
  <2>2. /\ q \in Request /\ q.op = "cancel" /\ q.now = clock
        /\ q.base = req[c].base /\ q.id = req[c].id /\ q.crew = req[c].crew
    BY <2>1, TimedFits
  <2>3. HeldAsRead(q)
    <3>. HIDE DEF q
    <3>. QED
      BY <2>1, <2>2 DEF HeldAsRead
  <2>4. q.base \in Booking
    BY <2>1, <2>2 DEF ChangeFits
  <2>5. k.status \notin Live
    <3>. HIDE DEF q
    <3>. QED
      BY <2>4 DEF Cancelled, Booking, Live
  <2>6. q.now <= clock
    BY <2>1, <2>2
  <2>7. Goes(c, Writing(q, k, q.crew)) /\ UNCHANGED <<clock, bookings, rows>>
    BY <1>2 DEF DecideCancel
  <2>. HIDE DEF q, k
  <2>8. Carries(Writing(q, k, q.crew)) /\ Writing(q, k, q.crew).op # "hold"
    BY <2>2, <2>3, <2>5, <2>6, WritingCarries DEF MayWrite
  <2>. QED
    BY <2>7, <2>8, GoesCarries
<1>. QED
  BY <1>1, <1>2 DEF DecideCancel

LEMMA DecideMoveCarries ==
    ASSUME IInv, RequestsCarry, NEW c \in Clients, DecideMove(c)
    PROVE  RequestsCarry' /\ Admitted' \subseteq Admitted
<1>. DEFINE p == [req[c] EXCEPT !.now = clock]
            q == [p EXCEPT !.phase = "assess"]
<1>1. CASE Done(c)
  BY <1>1, EndCarries DEF DecideMove
<1>2. CASE MayReschedule(p.base, p.actor, p.now) /\ Goes(c, q)
  <2>1. /\ req[c] \in Request /\ req[c].op = "move" /\ ChangeFits(req[c])
        /\ req[c].phase = "decide" /\ clock \in Nat /\ HeldAsRead(req[c])
    BY DEF DecideMove, Under, IInv, TypeOK, StoreTypeOK, RequestsOK,
           RequestsCarry, Carries, ChangeCarries
  <2>2. /\ p \in Request /\ p.op = "move" /\ p.now = clock
        /\ p.base = req[c].base /\ p.id = req[c].id /\ p.crew = req[c].crew
    BY <2>1, TimedFits
  <2>3. p.actor = "customer" => p.base.moves < MaxMoves
    BY <1>2 DEF MayReschedule
  <2>4. Goes(c, q) /\ UNCHANGED <<clock, bookings, rows>>
    BY <1>2 DEF DecideMove
  <2>. HIDE DEF p
  <2>5. /\ q.op = "move" /\ q.phase = "assess" /\ q.now <= clock
        /\ q.base = p.base /\ q.id = p.id /\ q.crew = p.crew /\ q.actor = p.actor
    BY <2>1, <2>2 DEF Request
  <2>. HIDE DEF q
  <2>6. Carries(q)
    BY <2>1, <2>2, <2>3, <2>5 DEF Carries, HoldCarries, ChangeCarries, HeldAsRead
  <2>. QED
    BY <2>4, <2>5, <2>6, GoesCarries
<1>. QED
  BY <1>1, <1>2 DEF DecideMove

LEMMA AssessMoveCarries ==
    ASSUME IInv, RequestsCarry, NEW c \in Clients, AssessMove(c)
    PROVE  RequestsCarry' /\ Admitted' \subseteq Admitted
<1>. DEFINE p == req[c]
            o == p.base.offering
            wish(s, crew) == Rescheduled(p.base, s, SessionKey(o, s, p.id),
                                         CapacityOn(o, crew), p.now)
<1>1. CASE Done(c)
  BY <1>1, EndCarries DEF AssessMove
<1>2. ASSUME p.base.status = "confirmed", NEW s \in Starts[o],
             NEW crew, Goes(c, Writing(p, wish(s, crew), crew))
      PROVE  RequestsCarry' /\ Admitted' \subseteq Admitted
  <2>1. /\ p \in Request /\ p.op = "move" /\ p.now <= clock /\ HeldAsRead(p)
        /\ p.base \in Booking
        /\ p.actor = "customer" => p.base.moves < MaxMoves
    BY DEF AssessMove, Under, IInv, TypeOK, RequestsOK, ChangeFits,
           RequestsCarry, Carries, ChangeCarries
  <2>. DEFINE k == wish(s, crew)
  <2>. HIDE DEF p
  <2>2. /\ k.status = "confirmed" /\ k.offering = o /\ k.start = s
        /\ k.key = SessionKey(o, s, p.id) /\ k.capacity = CapacityOn(o, crew)
        /\ k.moves = p.base.moves + 1
    BY <1>2, <2>1 DEF Booking, Rescheduled
  <2>3. Goes(c, Writing(p, k, crew))
    BY <1>2
  <2>. HIDE DEF k, wish
  <2>4. p.actor = "customer" => k.moves <= MaxMoves
    <3>1. p.base.moves \in Nat /\ MaxMoves \in Nat
      BY <2>1, FlowConstants DEF Booking
    <3>. QED
      BY <2>1, <2>2, <3>1
  <2>5. MayWrite(p, k, crew)
    <3>. HIDE DEF o
    <3>. QED
      BY <1>2, <2>1, <2>2, <2>4 DEF MayWrite, KeyFits
  <2>6. p.base.status # "held"
    BY <1>2
  <2>7. Carries(Writing(p, k, crew)) /\ Writing(p, k, crew).op # "hold"
    BY <2>1, <2>5, <2>6, WritingCarries
  <2>. QED
    BY <2>3, <2>7, GoesCarries DEF AssessMove
<1>3. \/ Done(c)
      \/ p.base.status = "confirmed"
         /\ \E s \in Starts[o] : \E crew : Goes(c, Writing(p, wish(s, crew), crew))
  BY DEF AssessMove
<1>. QED
  BY <1>1, <1>2, <1>3

-----------------------------------------------------------------------------
(* The steps that write.                                                   *)

\* A request that writes: what the tables have to do with it.
LEMMA CreateHoldStands ==
    ASSUME BookingInv, NEW c \in Clients, CreateHold(c)
    PROVE  LET q == req[c]
           IN  \/ UNCHANGED <<bookings, rows>>
               \/ Stands(q.id, q.next, q.crew, Lapsed(q.next, q.crew, q.now), q.now)
<1>. DEFINE q == req[c]
<1>1. /\ q # None /\ q.op = "hold" /\ q \in Request /\ q.phase = "write"
      /\ q.id \in Ids /\ bookings[q.id] = None
      /\ q.next \in Booking /\ q.next.status = "held" /\ q.now \in Nat
  BY DEF CreateHold, Under, BookingInv, IInv, TypeOK, RequestsOK, HoldFits, Request,
         Exists
<1>2. q.now <= clock /\ KeyFits(q.id, q.next, q.crew)
  BY <1>1 DEF BookingInv, RequestsCarry, Carries, HoldCarries
<1>3. Create(q.id, q.next, q.crew, q.now) /\ clock' = clock
  BY DEF CreateHold
<1>. HIDE DEF q
<1>4. CASE UNCHANGED <<bookings, rows>>
  BY <1>4
<1>5. CASE Takes(q.id, q.next, q.crew, Lapsed(q.next, q.crew, q.now), q.now)
  <2>1. Stands(q.id, q.next, q.crew, Lapsed(q.next, q.crew, q.now), q.now)
    BY <1>1, <1>2, <1>3, <1>5 DEF Stands, Live
  <2>. QED
    BY <2>1 DEF q
<1>6. TablesOK
  BY DEF BookingInv, IInv
<1>7. \/ UNCHANGED <<bookings, rows>>
      \/ Takes(q.id, q.next, q.crew, Lapsed(q.next, q.crew, q.now), q.now)
  BY <1>1, <1>3, <1>6, CreateEffect
<1>. QED
  BY <1>4, <1>5, <1>7

LEMMA SaveBookingStands ==
    ASSUME BookingInv, NEW c \in Clients, SaveBooking(c)
    PROVE  LET q == req[c]
               due == Lapsed(q.next, q.crew, q.now)
           IN  \/ UNCHANGED <<bookings, rows>>
               \/ Lapses(due, q.now)
               \/ /\ IsLive(q.id) /\ q.base.status = bookings[q.id].status
                  /\ \/ Ends(q.id, q.next)
                     \/ /\ Stands(q.id, q.next, q.crew, due, q.now)
                        /\ \/ /\ bookings[q.id].status = "held"
                              /\ Crew(q.id) = q.crew
                              /\ q.next = Confirmed(bookings[q.id], q.email, q.now)
                           \/ bookings[q.id].status = "confirmed" /\ MoveCarries(q)
<1>. DEFINE q == req[c]
            due == Lapsed(q.next, q.crew, q.now)
<1>1. /\ q # None /\ q.op \notin {"hold", "sweep"} /\ q \in Request
      /\ q.phase = "write" /\ q.id \in Ids /\ bookings[q.id] # None
      /\ q.base \in Booking /\ q.next \in Booking /\ q.now \in Nat
      /\ StepFits(q.base, q.next)
  BY DEF SaveBooking, BookingInv, IInv, TypeOK, RequestsOK, ChangeFits, Request,
         Exists
<1>2. /\ q.now <= clock /\ HeldAsRead(q)
      /\ \/ q.next.status \notin Live
         \/ q.base.status = "held" /\ q.next = Confirmed(q.base, q.email, q.now)
         \/ MoveCarries(q)
  BY <1>1 DEF BookingInv, RequestsCarry, Carries, ChangeCarries
<1>3. Save(q.id, q.base, q.next, q.crew, q.now) /\ clock' = clock /\ StoreTypeOK
  BY DEF SaveBooking, BookingInv, IInv, TypeOK
<1>4. q.base.status \in Live
  <2>1. q.base.status \in Statuses
    BY <1>1 DEF Booking
  <2>. QED
    BY <1>1, <2>1 DEF StepFits, Transitions, Live, Statuses
<1>. HIDE DEF q
<1>5. ASSUME bookings[q.id].status = q.base.status,
             \/ q.next.status \in Live /\ Takes(q.id, q.next, q.crew, due, q.now)
             \/ Ends(q.id, q.next)
      PROVE  /\ IsLive(q.id)
             /\ \/ Ends(q.id, q.next)
                \/ /\ Stands(q.id, q.next, q.crew, due, q.now)
                   /\ \/ /\ bookings[q.id].status = "held"
                         /\ Crew(q.id) = q.crew
                         /\ q.next = Confirmed(bookings[q.id], q.email, q.now)
                      \/ bookings[q.id].status = "confirmed" /\ MoveCarries(q)
  <2>. HIDE DEF due
  <2>1. IsLive(q.id)
    BY <1>1, <1>4, <1>5 DEF IsLive, Exists
  <2>2. CASE Ends(q.id, q.next)
    BY <2>1, <2>2
  <2>3. CASE q.next.status \in Live /\ Takes(q.id, q.next, q.crew, due, q.now)
    <3>1. q.next.status = "confirmed"
      BY <1>1, <2>3 DEF StepFits, Live
    <3>2. CASE q.base.status = "held" /\ q.next = Confirmed(q.base, q.email, q.now)
      <4>1. bookings[q.id] = q.base /\ Crew(q.id) = q.crew
        BY <1>2, <1>5, <3>2 DEF HeldAsRead
      <4>2. KeyFits(q.id, q.base, q.crew)
        BY <1>1, <2>1, <4>1 DEF BookingInv, BookingsFit
      <4>3. /\ q.next.key = q.base.key /\ q.next.offering = q.base.offering
            /\ q.next.start = q.base.start /\ q.next.capacity = q.base.capacity
        BY <1>1, <3>2 DEF Confirmed, Booking
      <4>4. KeyFits(q.id, q.next, q.crew)
        BY <4>2, <4>3 DEF KeyFits
      <4>5. Stands(q.id, q.next, q.crew, due, q.now)
        BY <1>1, <1>2, <1>3, <2>3, <3>1, <4>4 DEF Stands
      <4>. QED
        BY <1>5, <2>1, <3>2, <4>1, <4>5
    <3>3. CASE MoveCarries(q)
      <4>1. Stands(q.id, q.next, q.crew, due, q.now)
        BY <1>1, <1>2, <1>3, <2>3, <3>1, <3>3 DEF Stands, MoveCarries
      <4>2. bookings[q.id].status = "confirmed"
        BY <1>5, <3>3 DEF MoveCarries
      <4>. QED
        BY <2>1, <3>3, <4>1, <4>2
    <3>. QED
      BY <1>2, <2>3, <3>2, <3>3
  <2>. QED
    BY <1>5, <2>2, <2>3
<1>6. \/ UNCHANGED <<bookings, rows>>
      \/ Lapses(due, q.now)
      \/ /\ bookings[q.id].status = q.base.status
         /\ \/ q.next.status \in Live /\ Takes(q.id, q.next, q.crew, due, q.now)
            \/ Ends(q.id, q.next)
  BY <1>1, <1>3, SaveEffect
<1>7. \/ UNCHANGED <<bookings, rows>>
      \/ Lapses(due, q.now)
      \/ /\ IsLive(q.id) /\ q.base.status = bookings[q.id].status
         /\ \/ Ends(q.id, q.next)
            \/ /\ Stands(q.id, q.next, q.crew, due, q.now)
               /\ \/ /\ bookings[q.id].status = "held"
                     /\ Crew(q.id) = q.crew
                     /\ q.next = Confirmed(bookings[q.id], q.email, q.now)
                  \/ bookings[q.id].status = "confirmed" /\ MoveCarries(q)
  <2>. HIDE DEF due
  <2>. QED
    BY <1>5, <1>6
<1>. QED
  BY <1>7 DEF q

-----------------------------------------------------------------------------
(* The cap on live holds.                                                  *)

\* The live holds now and the holds admitted, in numbers.
LEMMA HoldNumbers ==
    ASSUME StoreTypeOK, FinitelyMany
    PROVE  /\ IsFiniteSet(LiveHolds(clock)) /\ IsFiniteSet(Admitted)
           /\ Cardinality(LiveHolds(clock)) \in Nat
           /\ Cardinality(Admitted) \in Nat /\ Cardinality(Clients) \in Nat
           /\ Cardinality(Admitted) <= Cardinality(Clients)
<1>1. LiveHolds(clock) \subseteq Stored
  BY BlockingStored DEF LiveHolds
<1>2. IsFiniteSet(LiveHolds(clock))
  BY <1>1, PeopleType DEF PeopleTyped
<1>3. /\ IsFiniteSet(Admitted) /\ Cardinality(Admitted) <= Cardinality(Clients)
  BY FS_Subset, FlowConstants DEF Admitted
<1>. QED
  BY <1>2, <1>3, FS_CardinalityType, FlowConstants

LEMMA FewerStay ==
    ASSUME StoreTypeOK, FinitelyMany, HoldsAdmitted,
           LiveHolds(clock)' \subseteq LiveHolds(clock), Admitted' \subseteq Admitted
    PROVE  HoldsAdmitted'
<1>. DEFINE l == Cardinality(LiveHolds(clock))
            a == Cardinality(Admitted)
            n == Cardinality(Clients)
<1>1. l \in Nat /\ a \in Nat /\ n \in Nat
  BY HoldNumbers
<1>2. /\ Cardinality(LiveHolds(clock)') \in Nat /\ Cardinality(LiveHolds(clock)') <= l
      /\ Cardinality(Admitted') \in Nat /\ Cardinality(Admitted') <= a
  BY HoldNumbers, FS_Subset, FS_CardinalityType
<1>3. MaxLiveHolds \in Nat /\ (MaxLiveHolds > 0 => l + a < MaxLiveHolds + n)
  BY FlowConstants DEF HoldsAdmitted
<1>4. MaxLiveHolds > 0 =>
         Cardinality(LiveHolds(clock)') + Cardinality(Admitted') < MaxLiveHolds + n
  <2>. HIDE DEF l, a, n
  <2>. QED
    BY <1>1, <1>2, <1>3
<1>. QED
  BY <1>4 DEF HoldsAdmitted

\* One more live hold, and one request fewer that has one to create.
LEMMA OneMoreHold ==
    ASSUME StoreTypeOK, FinitelyMany, HoldsAdmitted, NEW b,
           LiveHolds(clock)' \subseteq LiveHolds(clock) \cup {b},
           NEW c \in Admitted, Admitted' = Admitted \ {c}
    PROVE  HoldsAdmitted'
<1>. DEFINE l == Cardinality(LiveHolds(clock))
            a == Cardinality(Admitted)
            n == Cardinality(Clients)
            after == LiveHolds(clock) \cup {b}
<1>1. /\ l \in Nat /\ a \in Nat /\ n \in Nat
      /\ IsFiniteSet(LiveHolds(clock)) /\ IsFiniteSet(Admitted)
  BY HoldNumbers
<1>2. IsFiniteSet(after) /\ Cardinality(after) <= l + 1
  <2>1. CASE b \in LiveHolds(clock)
    <3>1. after = LiveHolds(clock)
      BY <2>1
    <3>2. Cardinality(after) = l
      BY <3>1, Zenon
    <3>. HIDE DEF after, l
    <3>. QED
      BY <1>1, <3>1, <3>2
  <2>2. CASE b \notin LiveHolds(clock)
    <3>1. IsFiniteSet(after) /\ Cardinality(after) = l + 1
      BY <1>1, <2>2, FS_AddElement
    <3>. HIDE DEF after, l
    <3>. QED
      BY <1>1, <3>1
  <2>. QED
    BY <2>1, <2>2
<1>3. Cardinality(LiveHolds(clock)') \in Nat /\ Cardinality(LiveHolds(clock)') <= l + 1
  <2>1. /\ IsFiniteSet(LiveHolds(clock)')
        /\ Cardinality(LiveHolds(clock)') <= Cardinality(after)
    BY <1>2, FS_Subset
  <2>2. Cardinality(LiveHolds(clock)') \in Nat /\ Cardinality(after) \in Nat
    BY <1>2, <2>1, FS_CardinalityType
  <2>. HIDE DEF after, l
  <2>. QED
    BY <1>1, <1>2, <2>1, <2>2
<1>4. Cardinality(Admitted \ {c}) = a - 1
  BY <1>1, FS_RemoveElement
<1>5. Cardinality(Admitted') = a - 1
  BY <1>4
<1>6. MaxLiveHolds \in Nat /\ (MaxLiveHolds > 0 => l + a < MaxLiveHolds + n)
  BY FlowConstants DEF HoldsAdmitted
<1>7. MaxLiveHolds > 0 =>
         Cardinality(LiveHolds(clock)') + Cardinality(Admitted') < MaxLiveHolds + n
  <2>. HIDE DEF l, a, n
  <2>. QED
    BY <1>1, <1>3, <1>5, <1>6
<1>. QED
  BY <1>7 DEF HoldsAdmitted

\* The count that admits a request was below the cap, and is no higher now.
LEMMA CountAdmits ==
    ASSUME StoreTypeOK, FinitelyMany, StoreTypeOK', FinitelyMany', NEW now \in Nat, now <= clock,
           Cardinality(LiveHolds(now)) < MaxLiveHolds,
           UNCHANGED <<clock, bookings>>
    PROVE  HoldsAdmitted'
<1>1. LiveHolds(clock)' \subseteq LiveHolds(now)
  <2>1. ASSUME NEW b \in LiveHolds(clock)'
        PROVE  b \in LiveHolds(now)
    <3>1. /\ b \in Ids /\ bookings[b] # None /\ bookings[b].status = "held"
          /\ IsBlocking(bookings[b], clock)
      BY DEF LiveHolds, Blocking, Exists
    <3>2. bookings[b] \in Booking /\ clock \in Nat
      BY <3>1 DEF StoreTypeOK
    <3>3. bookings[b].expires \in Nat
      BY <3>2 DEF Booking
    <3>4. IsBlocking(bookings[b], now)
      BY <3>1, <3>2, <3>3 DEF IsBlocking
    <3>. QED
      BY <3>1, <3>4 DEF LiveHolds, Blocking, Exists
  <2>. QED
    BY <2>1
<1>2. IsFiniteSet(LiveHolds(now))
  <2>1. LiveHolds(now) \subseteq Stored
    BY BlockingStored DEF LiveHolds
  <2>. QED
    BY <2>1, PeopleType DEF PeopleTyped
<1>3. /\ IsFiniteSet(LiveHolds(clock)')
      /\ Cardinality(LiveHolds(clock)') <= Cardinality(LiveHolds(now))
  BY <1>1, <1>2, FS_Subset
<1>4. /\ Cardinality(LiveHolds(now)) \in Nat /\ Cardinality(LiveHolds(clock)') \in Nat
      /\ MaxLiveHolds \in Nat
  BY <1>2, <1>3, FS_CardinalityType, FlowConstants
<1>5. /\ Cardinality(Admitted') \in Nat /\ Cardinality(Clients) \in Nat
      /\ Cardinality(Admitted') <= Cardinality(Clients)
  <2>1. Admitted' \subseteq Clients
    BY DEF Admitted
  <2>. QED
    BY <2>1, FS_Subset, FS_CardinalityType, FlowConstants
<1>6. Cardinality(LiveHolds(clock)') + Cardinality(Admitted')
         < MaxLiveHolds + Cardinality(Clients)
  BY <1>3, <1>4, <1>5
<1>. QED
  BY <1>6 DEF HoldsAdmitted

LEMMA SettledHolds ==
    ASSUME StoreTypeOK, clock' \in Nat, Settled
    PROVE  LiveHolds(clock)' \subseteq LiveHolds(clock)
<1>. SUFFICES ASSUME NEW b \in LiveHolds(clock)'
              PROVE  b \in LiveHolds(clock)
  OBVIOUS
<1>1. b \in Ids /\ bookings'[b] # None /\ bookings'[b].status = "held"
      /\ IsBlocking(bookings'[b], clock')
  BY DEF LiveHolds, Blocking, Exists
<1>2. bookings'[b] = bookings[b] /\ clock <= clock'
  BY <1>1 DEF Settled, IsLive, Exists, Live
<1>3. bookings[b] \in Booking /\ clock \in Nat
  BY <1>1, <1>2 DEF StoreTypeOK
<1>4. bookings[b].expires \in Nat
  BY <1>3 DEF Booking
<1>5. IsBlocking(bookings[b], clock)
  BY <1>1, <1>2, <1>3, <1>4 DEF IsBlocking
<1>. QED
  BY <1>1, <1>2, <1>5 DEF LiveHolds, Blocking, Exists

LEMMA StandsHolds ==
    ASSUME NEW b, NEW k, NEW crew, NEW due, NEW now, Stands(b, k, crew, due, now)
    PROVE  /\ LiveHolds(clock)' \subseteq LiveHolds(clock) \cup {b}
           /\ bookings[b] # None => LiveHolds(clock)' \subseteq LiveHolds(clock)
<1>1. ASSUME NEW d \in LiveHolds(clock)', d # b
      PROVE  d \in LiveHolds(clock)
  <2>1. d \in Ids /\ bookings'[d] # None /\ bookings'[d].status = "held"
        /\ IsBlocking(bookings'[d], clock')
    BY DEF LiveHolds, Blocking, Exists
  <2>2. bookings'[d] = bookings[d] /\ clock' = clock
    BY <1>1, <2>1, StandsEffect DEF IsLive, Exists, Live, Stands
  <2>. QED
    BY <2>1, <2>2 DEF LiveHolds, Blocking, Exists
<1>2. ASSUME bookings[b] # None
      PROVE  b \notin LiveHolds(clock)'
  <2>1. bookings'[b].status = "confirmed"
    BY <1>2, StandsEffect DEF Stands
  <2>. QED
    BY <2>1 DEF LiveHolds
<1>. QED
  BY <1>1, <1>2

LEMMA FinitelyStay ==
    ASSUME FinitelyMany, NEW new, IsFiniteSet(new),
           \A d \in Ids \ new : bookings'[d] # None => bookings[d] # None
    PROVE  FinitelyMany'
<1>1. {b \in Ids : Exists(b)}' \subseteq {b \in Ids : Exists(b)} \cup new
  BY DEF Exists
<1>2. IsFiniteSet({b \in Ids : Exists(b)} \cup new)
  BY FS_Union DEF FinitelyMany
<1>. QED
  BY <1>1, <1>2, FS_Subset DEF FinitelyMany

-----------------------------------------------------------------------------
(* The inductive invariant.                                                *)

LEMMA BookingInvStarts == Init => BookingInv
<1>. SUFFICES ASSUME Init PROVE BookingInv
  OBVIOUS
<1>1. IInv
  BY InitKeeps
<1>2. \A b \in Ids : bookings[b] = None
  BY DEF Init, StoreInit
<1>3. BookingsFit /\ Stored = {} /\ \A now : Blocking(now) = {}
  BY <1>2 DEF BookingsFit, IsLive, Exists, Stored, Blocking
<1>4. RequestsCarry /\ Admitted = {}
  BY DEF Init, RequestsCarry, Admitted
<1>5. SessionsSound
  BY <1>3 DEF SessionsSound, SessionsTogether, SessionsFit
<1>6. FinitelyMany
  BY <1>3, FS_EmptySet DEF FinitelyMany, Stored
<1>7. HoldsAdmitted
  <2>1. LiveHolds(clock) = {}
    BY <1>3 DEF LiveHolds
  <2>2. Cardinality(LiveHolds(clock)) = Cardinality({})
    BY <2>1, Zenon
  <2>3. Cardinality(Admitted) = Cardinality({})
    BY <1>4, Zenon
  <2>4. Cardinality(LiveHolds(clock)) = 0 /\ Cardinality(Admitted) = 0
    BY <2>2, <2>3, FS_EmptySet
  <2>5. Cardinality(Clients) \in Nat /\ MaxLiveHolds \in Nat
    BY FS_CardinalityType, FlowConstants
  <2>. QED
    BY <2>4, <2>5 DEF HoldsAdmitted
<1>. QED
  BY <1>1, <1>3, <1>4, <1>5, <1>6, <1>7 DEF BookingInv

\* A step that places nothing keeps what rests on the bookings.
LEMMA SettledKeeps ==
    ASSUME BookingInv, IInv', Settled
    PROVE  /\ BookingsFit' /\ SessionsSound' /\ FinitelyMany'
           /\ LiveHolds(clock)' \subseteq LiveHolds(clock)
<1>1. StoreTypeOK /\ StoreTypeOK' /\ clock' \in Nat
  BY DEF BookingInv, IInv, TypeOK, StoreTypeOK
<1>2. FinitelyMany'
  <2>1. \A d \in Ids \ {} : bookings'[d] # None => bookings[d] # None
    BY DEF Settled
  <2>. QED
    BY <2>1, FinitelyStay, FS_EmptySet DEF BookingInv
<1>. QED
  BY <1>1, <1>2, SettledFit, SettledSound, SettledHolds DEF BookingInv

LEMMA QuietKeeps ==
    ASSUME BookingInv, IInv', UNCHANGED <<bookings, rows>>, clock <= clock',
           RequestsCarry', Admitted' \subseteq Admitted
    PROVE  BookingInv'
<1>1. Settled
  BY QuietSettles
<1>2. /\ BookingsFit' /\ SessionsSound' /\ FinitelyMany'
      /\ LiveHolds(clock)' \subseteq LiveHolds(clock)
  BY <1>1, SettledKeeps
<1>3. HoldsAdmitted'
  BY <1>2, FewerStay DEF BookingInv, IInv, TypeOK
<1>. QED
  BY <1>2, <1>3 DEF BookingInv

\* A request ends, and nothing new stands.
LEMMA EndedKeeps ==
    ASSUME BookingInv, IInv', BookingsAdvance(Ids), Settled, clock' = clock,
           NEW c \in Clients, Done(c)
    PROVE  BookingInv'
<1>1. /\ BookingsFit' /\ SessionsSound' /\ FinitelyMany'
      /\ LiveHolds(clock)' \subseteq LiveHolds(clock)
  BY SettledKeeps
<1>2. RequestsCarry' /\ Admitted' \subseteq Admitted
  <2>1. HeldStay
    BY SettledHeld
  <2>2. clock \in Nat /\ clock' \in Nat /\ clock <= clock' /\ TypeOK
    BY DEF BookingInv, IInv, TypeOK, StoreTypeOK
  <2>. QED
    BY <2>1, <2>2, DoneCarries, DoneAdmits DEF BookingInv
<1>3. HoldsAdmitted'
  BY <1>1, <1>2, FewerStay DEF BookingInv, IInv, TypeOK
<1>. QED
  BY <1>1, <1>2, <1>3 DEF BookingInv

\* A request ends by putting a booking where it stands.
LEMMA PlacedKeeps ==
    ASSUME BookingInv, IInv', BookingsAdvance(Ids),
           NEW b, NEW k, NEW crew, NEW due, NEW now, Stands(b, k, crew, due, now),
           NEW c \in Clients, Done(c), bookings[b] = None => c \in Admitted
    PROVE  BookingInv'
<1>1. /\ StoreTypeOK /\ StoreTypeOK' /\ TypeOK /\ clock' = clock /\ clock \in Nat
      /\ b \in Ids
  BY DEF BookingInv, IInv, TypeOK, StoreTypeOK, Stands
<1>2. FinitelyMany'
  <2>1. \A d \in Ids \ {b} : bookings'[d] # None => bookings[d] # None
    BY StandsEffect
  <2>2. IsFiniteSet({b})
    BY FS_Singleton
  <2>. QED
    BY <2>1, <2>2, FinitelyStay DEF BookingInv
<1>3. BookingsFit' /\ SessionsSound'
  BY <1>1, <1>2, StandsFit, StandsSound DEF BookingInv
<1>4. RequestsCarry' /\ Admitted' = Admitted \ {c}
  <2>1. HeldStay
    BY StandsHeld
  <2>2. clock' \in Nat /\ clock <= clock'
    BY <1>1
  <2>. QED
    BY <1>1, <2>1, <2>2, DoneCarries, DoneAdmits DEF BookingInv
<1>5. HoldsAdmitted'
  <2>1. CASE bookings[b] = None
    <3>1. LiveHolds(clock)' \subseteq LiveHolds(clock) \cup {b}
      BY StandsHolds
    <3>. QED
      BY <1>1, <1>4, <2>1, <3>1, OneMoreHold DEF BookingInv
  <2>2. CASE bookings[b] # None
    <3>1. LiveHolds(clock)' \subseteq LiveHolds(clock)
      BY <2>2, StandsHolds
    <3>2. Admitted' \subseteq Admitted
      BY <1>4
    <3>. QED
      BY <1>1, <3>1, <3>2, FewerStay DEF BookingInv
  <2>. QED
    BY <2>1, <2>2
<1>. QED
  BY <1>2, <1>3, <1>4, <1>5 DEF BookingInv

LEMMA CreateHoldHolds ==
    ASSUME BookingInv, IInv', BookingsAdvance(Ids), NEW c \in Clients, CreateHold(c)
    PROVE  BookingInv'
<1>. DEFINE q == req[c]
<1>1. Done(c) /\ clock' = clock /\ clock \in Nat
  BY DEF CreateHold, BookingInv, IInv, TypeOK, StoreTypeOK
<1>2. c \in Admitted
  BY DEF CreateHold, Under, Admitted
<1>3. CASE UNCHANGED <<bookings, rows>>
  <2>1. Settled
    BY <1>1, <1>3, QuietSettles
  <2>. QED
    BY <1>1, <2>1, EndedKeeps
<1>4. CASE Stands(q.id, q.next, q.crew, Lapsed(q.next, q.crew, q.now), q.now)
  BY <1>1, <1>2, <1>4, PlacedKeeps
<1>. QED
  BY <1>3, <1>4, CreateHoldStands

LEMMA SaveBookingHolds ==
    ASSUME BookingInv, IInv', BookingsAdvance(Ids), NEW c \in Clients, SaveBooking(c)
    PROVE  BookingInv'
<1>. DEFINE q == req[c]
            due == Lapsed(q.next, q.crew, q.now)
<1>1. Done(c) /\ clock' = clock /\ clock \in Nat /\ clock <= clock'
  BY DEF SaveBooking, BookingInv, IInv, TypeOK, StoreTypeOK
<1>2. CASE UNCHANGED <<bookings, rows>>
  BY <1>1, <1>2, QuietSettles, EndedKeeps
<1>3. CASE Lapses(due, q.now)
  BY <1>1, <1>3, LapseSettles, EndedKeeps
<1>4. CASE IsLive(q.id) /\ Ends(q.id, q.next)
  <2>1. q.id \in Ids /\ bookings[q.id] # None
    BY <1>4 DEF SaveBooking, BookingInv, IInv, TypeOK, RequestsOK, ChangeFits, IsLive, Exists
  <2>. QED
    BY <1>1, <1>4, <2>1, EndSettles, EndedKeeps
<1>5. CASE IsLive(q.id) /\ Stands(q.id, q.next, q.crew, due, q.now)
  <2>1. bookings[q.id] # None
    BY <1>5 DEF IsLive, Exists
  <2>. QED
    BY <1>1, <1>5, <2>1, PlacedKeeps
<1>. QED
  BY <1>2, <1>3, <1>4, <1>5, SaveBookingStands

LEMMA SweepHoldsHolds ==
    ASSUME BookingInv, IInv', BookingsAdvance(Ids), NEW c \in Clients, SweepHolds(c)
    PROVE  BookingInv'
<1>1. /\ Done(c) /\ clock' = clock /\ clock \in Nat /\ clock <= clock'
      /\ StoreTypeOK /\ Sweep(req[c].now) /\ req[c].now \in Nat
  BY DEF SweepHolds, Under, BookingInv, IInv, TypeOK, StoreTypeOK, Request
<1>2. PICK due \in SUBSET Ids : Lapses(due, req[c].now)
  BY <1>1, SweepEffect
<1>3. Settled
  BY <1>1, <1>2, LapseSettles
<1>. QED
  BY <1>1, <1>3, EndedKeeps

LEMMA CountHoldsHolds ==
    ASSUME BookingInv, IInv', NEW c \in Clients, CountHolds(c)
    PROVE  BookingInv'
<1>1. /\ UNCHANGED <<clock, bookings, rows>> /\ clock \in Nat
      /\ StoreTypeOK /\ StoreTypeOK' /\ FinitelyMany
  BY DEF CountHolds, BookingInv, IInv, TypeOK, StoreTypeOK
<1>2. RequestsCarry'
  BY CountHoldsCarries DEF BookingInv
<1>3. CASE Admitted' \subseteq Admitted
  <2>1. clock <= clock'
    BY <1>1
  <2>. QED
    BY <1>1, <1>2, <1>3, <2>1, QuietKeeps
<1>4. CASE Cardinality(LiveHolds(req[c].now)) < MaxLiveHolds
  <2>1. Settled
    BY <1>1, QuietSettles
  <2>2. BookingsFit' /\ SessionsSound' /\ FinitelyMany'
    BY <2>1, SettledKeeps
  <2>3. req[c].now \in Nat /\ req[c].now <= clock
    <3>1. req[c] # None
      BY DEF CountHolds, Under
    <3>2. req[c] \in Request /\ Carries(req[c])
      BY <3>1 DEF BookingInv, IInv, TypeOK, RequestsCarry
    <3>. QED
      BY <3>2 DEF Request, Carries
  <2>4. HoldsAdmitted'
    BY <1>1, <1>4, <2>2, <2>3, CountAdmits
  <2>. QED
    BY <1>2, <2>2, <2>4 DEF BookingInv
<1>. QED
  BY <1>3, <1>4, CountHoldsCarries DEF BookingInv

\* The steps that only read and decide.
LEMMA ReadingCarries ==
    ASSUME BookingInv, NEW c \in Clients,
           \/ BeginHold(c) \/ AssessHold(c)
           \/ Confirm(c) \/ Release(c) \/ Cancel(c) \/ Move(c) \/ Finish(c)
           \/ BeginSweep(c)
    PROVE  /\ RequestsCarry' /\ Admitted' \subseteq Admitted
           /\ UNCHANGED <<clock, bookings, rows>>
<1>. IInv /\ RequestsCarry /\ FinitelyMany
  BY DEF BookingInv
<1>1. UNCHANGED <<clock, bookings, rows>>
  BY DEF BeginHold, AssessHold, Confirm, BeginConfirm, ReadConfirm, CountEmail,
         Release, BeginRelease, ReadRelease, Cancel, ReadCancel, ReadChange,
         DecideCancel, Move, ReadMove, DecideMove, AssessMove, Finish, BeginFinish,
         ReadFinish, BeginSweep
<1>2. CASE BeginHold(c)
  BY <1>1, <1>2, BeginHoldCarries
<1>3. CASE AssessHold(c)
  BY <1>1, <1>3, AssessHoldCarries
<1>4. CASE Confirm(c)
  <2>1. CASE BeginConfirm(c)
    BY <1>1, <2>1, BeginCarries DEF BeginConfirm, Ops, Phases
  <2>. QED
    BY <1>1, <1>4, <2>1, ReadConfirmCarries, CountEmailCarries DEF Confirm
<1>5. CASE Release(c)
  <2>1. CASE BeginRelease(c)
    BY <1>1, <2>1, BeginCarries DEF BeginRelease, Ops, Phases
  <2>. QED
    BY <1>1, <1>5, <2>1, ReadReleaseCarries DEF Release
<1>6. CASE Cancel(c)
  <2>1. CASE ReadCancel(c)
    BY <1>1, <2>1, ReadChangeCarries DEF ReadCancel
  <2>. QED
    BY <1>1, <1>6, <2>1, DecideCancelCarries DEF Cancel
<1>7. CASE Move(c)
  <2>1. CASE ReadMove(c)
    BY <1>1, <2>1, ReadChangeCarries DEF ReadMove
  <2>. QED
    BY <1>1, <1>7, <2>1, DecideMoveCarries, AssessMoveCarries DEF Move
<1>8. CASE Finish(c)
  <2>1. CASE BeginFinish(c)
    <3>1. PICK op \in {"complete", "no_show"} : Begin(c, op, "read")
      BY <2>1 DEF BeginFinish
    <3>. QED
      BY <1>1, <3>1, BeginCarries DEF Ops, Phases
  <2>. QED
    BY <1>1, <1>8, <2>1, ReadFinishCarries DEF Finish
<1>9. CASE BeginSweep(c)
  BY <1>1, <1>9, BeginCarries DEF BeginSweep, Ops, Phases
<1>. QED
  BY <1>1, <1>2, <1>3, <1>4, <1>5, <1>6, <1>7, <1>8, <1>9

LEMMA BookingInvKept == BookingInv /\ [Next]_vars => BookingInv'
<1>. SUFFICES ASSUME BookingInv, [Next]_vars PROVE BookingInv'
  OBVIOUS
<1>1. IInv' /\ BookingsAdvance(Ids) /\ clock \in Nat
  BY NextKeeps DEF BookingInv, IInv, TypeOK, StoreTypeOK
<1>2. CASE UNCHANGED vars
  <2>1. RequestsCarry' /\ Admitted' = Admitted
    BY <1>2 DEF vars, BookingInv, RequestsCarry, Carries, HoldCarries, ChangeCarries,
                HeldAsRead, Crew, MoveCarries, KeyFits, Admitted
  <2>2. UNCHANGED <<bookings, rows>> /\ clock <= clock'
    BY <1>1, <1>2 DEF vars
  <2>. QED
    BY <1>1, <2>1, <2>2, QuietKeeps
<1>3. CASE Tick
  <2>1. /\ UNCHANGED <<bookings, rows, req>> /\ clock' \in Nat /\ clock <= clock'
    BY <1>1, <1>3 DEF Tick
  <2>2. HeldStay
    BY <2>1, QuietSettles, SettledHeld, <1>1
  <2>3. RequestsCarry'
    BY <2>1, <2>2, OthersCarry DEF BookingInv, RequestsCarry
  <2>4. Admitted' = Admitted
    BY <2>1 DEF Admitted
  <2>. QED
    BY <1>1, <2>1, <2>3, <2>4, QuietKeeps
<1>4. ASSUME NEW c \in Clients,
             \/ BeginHold(c) \/ AssessHold(c)
             \/ Confirm(c) \/ Release(c) \/ Cancel(c) \/ Move(c) \/ Finish(c)
             \/ BeginSweep(c)
      PROVE  BookingInv'
  <2>1. /\ RequestsCarry' /\ Admitted' \subseteq Admitted
        /\ UNCHANGED <<clock, bookings, rows>>
    BY <1>4, ReadingCarries
  <2>2. UNCHANGED <<bookings, rows>> /\ clock <= clock'
    BY <1>1, <2>1
  <2>. QED
    BY <1>1, <2>1, <2>2, QuietKeeps
<1>5. ASSUME NEW c \in Clients, CountHolds(c)
      PROVE  BookingInv'
  BY <1>1, <1>5, CountHoldsHolds
<1>6. ASSUME NEW c \in Clients, CreateHold(c)
      PROVE  BookingInv'
  BY <1>1, <1>6, CreateHoldHolds
<1>7. ASSUME NEW c \in Clients, SaveBooking(c)
      PROVE  BookingInv'
  BY <1>1, <1>7, SaveBookingHolds
<1>8. ASSUME NEW c \in Clients, SweepHolds(c)
      PROVE  BookingInv'
  BY <1>1, <1>8, SweepHoldsHolds
<1>9. CASE Next
  BY <1>3, <1>4, <1>5, <1>6, <1>7, <1>8, <1>9 DEF Next, Hold, Clean
<1>. QED
  BY <1>2, <1>9

-----------------------------------------------------------------------------
(* The theorems.                                                           *)

\* The tables, the requests under way, the sessions and the holds fit
\* together in every state, however requests race.
THEOREM BookingAlwaysSound == Spec => []BookingInv
BY BookingInvStarts, BookingInvKept, PTL DEF Spec

\* A session never has more participants than its places, and all its
\* bookings stand on the same resources (checkSession).
THEOREM SessionsAlwaysSound == Spec => []SessionsSound
<1>1. BookingInv => SessionsSound
  BY DEF BookingInv
<1>. QED
  BY <1>1, BookingAlwaysSound, PTL

\* The cap on live holds is passed by fewer holds than requests run at once.
THEOREM HoldsAlwaysBounded == Spec => []HoldsBounded
<1>1. BookingInv => HoldsBounded
  <2>. SUFFICES ASSUME BookingInv PROVE HoldsBounded
    OBVIOUS
  <2>1. /\ Cardinality(LiveHolds(clock)) \in Nat
        /\ Cardinality(Admitted) \in Nat /\ Cardinality(Clients) \in Nat
    BY HoldNumbers DEF BookingInv, IInv, TypeOK
  <2>2. MaxLiveHolds \in Nat /\ HoldsAdmitted
    BY FlowConstants DEF BookingInv
  <2>. QED
    BY <2>1, <2>2 DEF HoldsAdmitted, HoldsBounded
<1>. QED
  BY <1>1, BookingAlwaysSound, PTL

-----------------------------------------------------------------------------
(* The steps that change the tables, and who takes them.                   *)

Due(c) == Lapsed(req[c].next, req[c].crew, req[c].now)

\* Request c puts its booking where it is to stand, or ends it.
Puts(c) ==
    Stands(req[c].id, req[c].next, req[c].crew, Due(c), req[c].now)

EndsOwn(c) ==
    /\ SaveBooking(c)
    /\ IsLive(req[c].id)
    /\ Ends(req[c].id, req[c].next)

\* What the put is: a new hold, a confirmation or a move.
PutsHold(c) == CreateHold(c) /\ Puts(c)

PutsFirm(c) ==
    /\ SaveBooking(c)
    /\ Puts(c)
    /\ bookings[req[c].id] # None
    /\ bookings[req[c].id].status = "held"
    /\ Crew(req[c].id) = req[c].crew
    /\ req[c].next = Confirmed(bookings[req[c].id], req[c].email, req[c].now)

PutsMoved(c) ==
    /\ SaveBooking(c)
    /\ Puts(c)
    /\ bookings[req[c].id] # None
    /\ bookings[req[c].id].status = "confirmed"
    /\ MoveCarries(req[c])

Moments == \E due \in SUBSET Ids : \E now : Lapses(due, now)

TableSteps ==
    \/ UNCHANGED <<bookings, rows>>
    \/ Moments
    \/ \E c \in Clients : PutsHold(c) \/ PutsFirm(c) \/ PutsMoved(c) \/ EndsOwn(c)

LEMMA StepsOfTables ==
    ASSUME BookingInv, [Next]_vars
    PROVE  TableSteps
<1>1. CASE UNCHANGED vars
  BY <1>1 DEF vars, TableSteps
<1>2. CASE Tick
  BY <1>2 DEF Tick, TableSteps
<1>3. ASSUME NEW c \in Clients,
             \/ BeginHold(c) \/ AssessHold(c) \/ CountHolds(c)
             \/ Confirm(c) \/ Release(c) \/ Cancel(c) \/ Move(c) \/ Finish(c)
             \/ BeginSweep(c)
      PROVE  TableSteps
  <2>1. CASE CountHolds(c)
    BY <2>1 DEF CountHolds, TableSteps
  <2>. QED
    BY <1>3, <2>1, ReadingCarries DEF TableSteps
<1>4. ASSUME NEW c \in Clients, CreateHold(c)
      PROVE  TableSteps
  BY <1>4, CreateHoldStands DEF TableSteps, PutsHold, Puts, Due
<1>5. ASSUME NEW c \in Clients, SaveBooking(c)
      PROVE  TableSteps
  <2>1. Due(c) \in SUBSET Ids
    BY DEF Due, Lapsed
  <2>2. CASE Lapses(Due(c), req[c].now)
    BY <2>1, <2>2 DEF TableSteps, Moments
  <2>. QED
    BY <1>5, <2>2, SaveBookingStands
       DEF TableSteps, PutsFirm, PutsMoved, EndsOwn, Puts, Due, IsLive, Exists
<1>6. ASSUME NEW c \in Clients, SweepHolds(c)
      PROVE  TableSteps
  <2>1. StoreTypeOK /\ Sweep(req[c].now) /\ req[c].now \in Nat
    BY <1>6 DEF SweepHolds, Under, BookingInv, IInv, TypeOK, StoreTypeOK, Request
  <2>2. Moments
    BY <2>1, SweepEffect DEF Moments
  <2>. QED
    BY <2>2 DEF TableSteps
<1>7. CASE Next
  BY <1>2, <1>3, <1>4, <1>5, <1>6, <1>7 DEF Next, Hold, Clean
<1>. QED
  BY <1>1, <1>7

-----------------------------------------------------------------------------
(* The moves of customers.                                                 *)

\* A request to move that a step leaves is as it was, or was read, decided or assessed.
LEMMA MovesGoOn ==
    ASSUME TypeOK, [Next]_vars, NEW d \in Clients, req'[d] # None, req'[d].op = "move",
           req'[d] # req[d]
    PROVE  ReadMove(d) \/ DecideMove(d) \/ AssessMove(d)
<1>1. ASSUME NEW c \in Clients, Done(c)
      PROVE  FALSE
  BY <1>1 DEF Done, TypeOK
<1>2. ASSUME NEW c \in Clients, NEW op \in Ops \ {"move"}, NEW phase, Begin(c, op, phase)
      PROVE  FALSE
  BY <1>2 DEF Begin, Goes, NewRequest, TypeOK
<1>3. ASSUME NEW c \in Clients, NEW q, Goes(c, q)
      PROVE  c = d /\ req'[d] = q
  BY <1>3 DEF Goes, TypeOK
<1>4. ASSUME NEW c \in Clients, NEW q, Goes(c, q), q.op # "move"
      PROVE  FALSE
  BY <1>3, <1>4
<1>5. ~UNCHANGED req
  OBVIOUS
<1>6. ~UNCHANGED vars /\ ~Tick
  BY <1>5 DEF vars, Tick
<1>7. ASSUME NEW c \in Clients, Hold(c) \/ Clean(c) \/ SaveBooking(c)
      PROVE  FALSE
  <2>1. ~BeginHold(c)
    BY <1>4, <1>6 DEF BeginHold, NewRequest
  <2>2. ~CountHolds(c)
    <3>1. ASSUME CountHolds(c)
          PROVE  FALSE
      <4>1. req[c] \in Request /\ req[c].op = "hold"
        BY <3>1 DEF CountHolds, Under, TypeOK
      <4>2. [req[c] EXCEPT !.phase = "assess"].op = "hold"
        BY <4>1 DEF Request
      <4>. QED
        BY <1>1, <1>4, <3>1, <4>2 DEF CountHolds
    <3>. QED
      BY <3>1
  <2>3. ~AssessHold(c)
    <3>1. ASSUME AssessHold(c)
          PROVE  FALSE
      <4>1. req[c] \in Request /\ req[c].op = "hold"
        BY <3>1 DEF AssessHold, Under, TypeOK
      <4>2. PICK k, crew : Goes(c, Writing(req[c], k, crew))
        BY <1>1, <3>1 DEF AssessHold
      <4>3. Writing(req[c], k, crew).op = "hold"
        BY <4>1 DEF Request, Writing
      <4>. QED
        BY <1>4, <4>2, <4>3
    <3>. QED
      BY <3>1
  <2>4. ~CreateHold(c) /\ ~SweepHolds(c) /\ ~SaveBooking(c)
    BY <1>1 DEF CreateHold, SweepHolds, SaveBooking
  <2>5. ~BeginSweep(c)
    BY <1>2 DEF BeginSweep, Ops
  <2>. QED
    BY <1>7, <2>1, <2>2, <2>3, <2>4, <2>5 DEF Hold, Clean
<1>8. ASSUME NEW c \in Clients, Confirm(c) \/ Release(c) \/ Finish(c)
      PROVE  FALSE
  <2>1. ~BeginConfirm(c) /\ ~BeginRelease(c) /\ ~BeginFinish(c)
    BY <1>2 DEF BeginConfirm, BeginRelease, BeginFinish, Ops
  <2>2. ASSUME ReadConfirm(c) \/ CountEmail(c) \/ ReadRelease(c) \/ ReadFinish(c)
        PROVE  FALSE
    <3>1. req[c] \in Request /\ req[c].op # "move"
      BY <2>2 DEF ReadConfirm, CountEmail, ReadRelease, ReadFinish, Under, TypeOK
    <3>2. ASSUME NEW q, q.op = req[c].op, Goes(c, q)
          PROVE  FALSE
      BY <1>4, <3>1, <3>2
    <3>3. ASSUME NEW b, NEW e
          PROVE  [Having(req[c], "count", b) EXCEPT !.email = e].op = req[c].op
      BY <3>1 DEF Having, Request
    <3>4. ASSUME NEW k, NEW crew
          PROVE  Writing(req[c], k, crew).op = req[c].op
      BY <3>1 DEF Writing, Request
    <3>5. ASSUME NEW b, NEW k, NEW crew
          PROVE  Writing(Having(req[c], "read", b), k, crew).op = req[c].op
      BY <3>1 DEF Writing, Having, Request
    <3>6. ~ReadConfirm(c)
      BY <1>1, <3>2, <3>3 DEF ReadConfirm
    <3>7. ~CountEmail(c)
      BY <1>1, <3>2, <3>4 DEF CountEmail
    <3>8. ~ReadRelease(c) /\ ~ReadFinish(c)
      BY <1>1, <3>2, <3>5 DEF ReadRelease, ReadFinish
    <3>. QED
      BY <2>2, <3>6, <3>7, <3>8
  <2>. QED
    BY <1>8, <2>1, <2>2 DEF Confirm, Release, Finish
<1>9. ASSUME NEW c \in Clients, Cancel(c)
      PROVE  FALSE
  <2>1. ASSUME ReadCancel(c)
        PROVE  FALSE
    <3>1. PICK b, actor : Goes(c, [Having(NewRequest("cancel", "decide"), "decide", b)
                                     EXCEPT !.actor = actor, !.now = 0])
      BY <2>1 DEF ReadCancel, ReadChange
    <3>2. [Having(NewRequest("cancel", "decide"), "decide", b)
             EXCEPT !.actor = actor, !.now = 0].op = "cancel"
      BY DEF Having, NewRequest
    <3>. QED
      BY <1>4, <3>1, <3>2
  <2>2. ASSUME DecideCancel(c)
        PROVE  FALSE
    <3>1. req[c] \in Request /\ req[c].op = "cancel"
      BY <2>2 DEF DecideCancel, Under, TypeOK
    <3>2. PICK k, crew : Goes(c, Writing([req[c] EXCEPT !.now = clock], k, crew))
      BY <1>1, <2>2 DEF DecideCancel
    <3>3. Writing([req[c] EXCEPT !.now = clock], k, crew).op = "cancel"
      BY <3>1 DEF Writing, Request
    <3>. QED
      BY <1>4, <3>2, <3>3
  <2>. QED
    BY <1>9, <2>1, <2>2 DEF Cancel
<1>10. ASSUME NEW c \in Clients, Move(c)
       PROVE  c = d
  <2>1. Done(c) \/ \E q : Goes(c, q)
    BY <1>10 DEF Move, ReadMove, ReadChange, DecideMove, AssessMove
  <2>. QED
    BY <1>1, <1>3, <2>1
<1>. QED
  BY <1>6, <1>7, <1>8, <1>9, <1>10 DEF Next, Move

\* What a step does to booking b and to the count of its moves: nothing; it is not
\* confirmed afterwards; it comes to be confirmed; or it is moved.
Stays(b)   == bookings'[b] = bookings[b] /\ moved'[b] = moved[b]

Leaves(b)  == /\ bookings'[b] # None /\ bookings'[b].status # "confirmed"
              /\ moved'[b] = moved[b]
              /\ bookings'[b].status = "held" => bookings[b] = None

Firms(b)   == /\ bookings[b] # None /\ bookings[b].status = "held"
              /\ bookings'[b] \in Booking /\ bookings'[b].stamp <= clock
              /\ moved'[b] = moved[b]

IsMoved(b) == \E c \in Clients :
    LET q == req[c]
    IN  /\ q # None /\ q.op = "move" /\ q.phase = "write" /\ q.id = b
        /\ IsConfirmed(b) /\ q.base.stamp = bookings[b].stamp
        /\ bookings'[b] = q.next
        /\ \/ moved'[b] = moved[b]
           \/ /\ q.actor = "customer" /\ q.next.stamp > bookings[b].stamp
              /\ moved'[b] = moved[b] + 1

BookingStep(b) == Stays(b) \/ Leaves(b) \/ Firms(b) \/ IsMoved(b)

\* The steps that are counted are those of the flow, with the count.
LEMMA CountNextIs == CountNext <=> Next /\ Count
  BY DEF CountNext, Next, Hold, Confirm, Release, Cancel, Move, Finish, Clean

LEMMA CountMoves ==
    ASSUME CountInv, [CountNext]_countedVars, NEW b \in Ids
    PROVE  \/ moved'[b] = moved[b]
           \/ /\ moved'[b] = moved[b] + 1
              /\ \E c \in Clients : CustomerMoves(c) /\ req[c].id = b
<1>1. CASE UNCHANGED countedVars
  BY <1>1 DEF countedVars
<1>2. CASE Count
  BY <1>2 DEF Count, CountInv
<1>. QED
  BY <1>1, <1>2, CountNextIs

\* Who moves a booking for a customer writes it, confirmed.
LEMMA MoversWrite ==
    ASSUME CountInv, NEW c \in Clients, CustomerMoves(c)
    PROVE  /\ req[c] # None /\ req[c].op = "move" /\ req[c].phase = "write"
           /\ req[c].base.status = "confirmed" /\ MoveKnows(req[c])
           /\ req[c].next.status = "confirmed" /\ req[c].actor = "customer"
           /\ bookings'[req[c].id] = req[c].next /\ bookings[req[c].id] # req[c].next
           /\ req[c].next.stamp > bookings[req[c].id].stamp
           /\ req'[c] = None
<1>1. /\ req[c] # None /\ req[c].op = "move" /\ req[c].phase = "write" /\ req[c].actor = "customer"
      /\ bookings'[req[c].id] = req[c].next /\ bookings[req[c].id] # req[c].next
      /\ req[c].next.stamp > bookings[req[c].id].stamp
      /\ req'[c] = None
  BY DEF CustomerMoves, Stores
<1>2. req[c].base.status = "confirmed" /\ MoveKnows(req[c])
  BY <1>1 DEF CountInv
<1>. QED
  BY <1>1, <1>2 DEF MoveKnows

LEMMA BookingSteps ==
    ASSUME BookingInv, CountInv, [CountNext]_countedVars, NEW b \in Ids
    PROVE  BookingStep(b)
<1>0. [Next]_vars
  BY CountNextIs DEF countedVars
<1>1. StoreTypeOK /\ TypeOK
  BY DEF BookingInv, IInv, TypeOK
<1>2. ASSUME moved'[b] # moved[b]
      PROVE  /\ bookings'[b] # bookings[b] /\ bookings'[b].status = "confirmed"
             /\ moved'[b] = moved[b] + 1
             /\ \E c \in Clients : CustomerMoves(c) /\ req[c].id = b
  BY <1>2, CountMoves, MoversWrite
<1>3. CASE bookings'[b] = bookings[b]
  BY <1>2, <1>3 DEF BookingStep, Stays
<1>4. ASSUME NEW due, NEW but, OthersAfter(due, but), b \notin but
      PROVE  BookingStep(b)
  <2>1. CASE b \in due
    <3>1. bookings'[b] # None /\ bookings'[b].status = "expired"
      BY <1>4, <2>1 DEF OthersAfter
    <3>. QED
      BY <1>2, <3>1 DEF BookingStep, Leaves
  <2>2. CASE b \notin due
    BY <1>3, <1>4, <2>2 DEF OthersAfter
  <2>. QED
    BY <2>1, <2>2
<1>5. ASSUME NEW due, NEW now, Lapses(due, now)
      PROVE  BookingStep(b)
  BY <1>4, <1>5 DEF Lapses
<1>6. ASSUME NEW c \in Clients, Puts(c), b # req[c].id
      PROVE  BookingStep(b)
  BY <1>4, <1>6 DEF Puts, Stands, Takes
<1>7. ASSUME NEW c \in Clients, Puts(c)
      PROVE  /\ bookings'[req[c].id] = req[c].next /\ req[c].next \in Booking
             /\ req[c].now <= clock /\ req[c].next # None
  <2>1. bookings'[req[c].id] = req[c].next
    BY <1>7, StandsEffect DEF Puts
  <2>2. req[c].next \in Booking /\ req[c].now <= clock
    BY <1>7 DEF Puts, Stands
  <2>. QED
    BY <2>1, <2>2, StoreConstants
<1>8. ASSUME NEW c \in Clients, PutsHold(c), b = req[c].id
      PROVE  BookingStep(b)
  <2>1. req[c] # None /\ req[c].op = "hold" /\ req[c].phase = "write"
    BY <1>8 DEF PutsHold, CreateHold, Under
  <2>2. bookings[b] = None /\ req[c].next.status = "held"
    BY <1>8, <2>1 DEF BookingInv, IInv, RequestsOK, HoldFits, Exists
  <2>3. bookings'[b] = req[c].next /\ bookings'[b] # None
    BY <1>7, <1>8 DEF PutsHold
  <2>. QED
    BY <1>2, <2>2, <2>3 DEF BookingStep, Leaves
<1>9. ASSUME NEW c \in Clients, SaveBooking(c), NEW d \in Clients, CustomerMoves(d)
      PROVE  d = c
  BY <1>1, <1>9, MoversWrite DEF SaveBooking, Done, TypeOK
<1>10. ASSUME NEW c \in Clients, PutsFirm(c), b = req[c].id
       PROVE  BookingStep(b)
  <2>1. /\ bookings[b] # None /\ bookings[b].status = "held" /\ SaveBooking(c) /\ Puts(c)
        /\ req[c].next = Confirmed(bookings[b], req[c].email, req[c].now)
    BY <1>10 DEF PutsFirm
  <2>2. bookings[b] \in Booking /\ CustomerFits(bookings[b])
    BY <1>1, <2>1 DEF StoreTypeOK, BookingInv, IInv, CustomersOK, Exists
  <2>3. req[c].next.stamp = req[c].now
    BY <2>1, <2>2 DEF Confirmed, Booking
  <2>4. ~CustomerMoves(c)
    <3>1. ASSUME CustomerMoves(c)
          PROVE  FALSE
      <4>1. /\ req[c] # None /\ req[c].op = "move" /\ req[c].phase = "write"
            /\ req[c].base.status = "confirmed"
        BY <3>1, MoversWrite
      <4>2. ChangeFits(req[c])
        BY <4>1 DEF BookingInv, IInv, RequestsOK
      <4>3. req[c].base.customer # None /\ bookings[b].customer = req[c].base.customer
        BY <1>10, <4>1, <4>2 DEF ChangeFits, CustomerFits
      <4>. QED
        BY <2>1, <2>2, <4>3 DEF CustomerFits
    <3>. QED
      BY <3>1
  <2>5. moved'[b] = moved[b]
    BY <1>2, <1>9, <2>1, <2>4
  <2>. QED
    BY <1>7, <1>10, <2>1, <2>3, <2>5 DEF BookingStep, Firms
<1>11. ASSUME NEW c \in Clients, PutsMoved(c), b = req[c].id, bookings'[b] # bookings[b]
       PROVE  BookingStep(b)
  <2>1. /\ SaveBooking(c) /\ Puts(c) /\ MoveCarries(req[c])
        /\ bookings[b] # None /\ bookings[b].status = "confirmed"
    BY <1>11 DEF PutsMoved
  <2>2. req[c] # None /\ req[c].op = "move" /\ req[c].phase = "write"
    BY <2>1 DEF SaveBooking, MoveCarries
  <2>3. bookings[b].stamp = req[c].base.stamp
    <3>. DEFINE q == req[c]
                due == IF q.next.status \in Live THEN Lapsed(q.next, q.crew, q.now) ELSE {}
    <3>1. Save(b, q.base, q.next, q.crew, q.now)
      BY <1>11, <2>1 DEF SaveBooking
    <3>2. b \notin due
      BY <2>1 DEF Lapsed
    <3>3. ExpireBookings(due, q.now)[b] = bookings[b]
      BY <3>2 DEF ExpireBookings
    <3>4. IsStill(b, q.base, due)
      <4>. HIDE DEF due
      <4>1. \/ IsStill(b, q.base, due)
            \/ bookings' = ExpireBookings(due, q.now)
            \/ UNCHANGED bookings
        BY <3>1 DEF Save, due
      <4>. QED
        BY <1>11, <3>3, <4>1
    <3>. QED
      BY <3>4 DEF IsStill
  <2>4. bookings'[b] = req[c].next
    BY <1>7, <1>11, <2>1
  <2>5. \/ moved'[b] = moved[b]
        \/ /\ req[c].actor = "customer" /\ req[c].next.stamp > bookings[b].stamp
           /\ moved'[b] = moved[b] + 1
    BY <1>2, <1>9, <2>1, <1>11, MoversWrite
  <2>6. IsMoved(b)
    BY <1>11, <2>1, <2>2, <2>3, <2>4, <2>5 DEF IsMoved, IsConfirmed, Exists
  <2>. QED
    BY <2>6 DEF BookingStep
<1>12. ASSUME NEW c \in Clients, EndsOwn(c)
       PROVE  BookingStep(b)
  <2>1. /\ OthersAfter({}, {req[c].id}) /\ bookings'[req[c].id] = req[c].next
        /\ req[c].next.status \notin Live /\ SaveBooking(c)
    BY <1>12 DEF EndsOwn, Ends
  <2>2. CASE b = req[c].id
    <3>1. req[c] # None /\ req[c].phase = "write" /\ req[c].op \notin {"hold", "sweep"}
      BY <2>1 DEF SaveBooking
    <3>2. req[c].next \in Booking
      BY <3>1 DEF BookingInv, IInv, RequestsOK, ChangeFits
    <3>3. req[c].next # None /\ req[c].next.status \notin {"held", "confirmed"}
      BY <2>1, <3>2, StoreConstants DEF Live
    <3>. QED
      BY <1>2, <2>1, <2>2, <3>3 DEF BookingStep, Leaves
  <2>3. CASE b # req[c].id
    BY <1>4, <2>1, <2>3
  <2>. QED
    BY <2>2, <2>3
<1>13. TableSteps
  BY <1>0, StepsOfTables
<1>14. CASE UNCHANGED <<bookings, rows>>
  BY <1>3, <1>14
<1>15. ASSUME NEW c \in Clients, PutsHold(c) \/ PutsFirm(c) \/ PutsMoved(c)
       PROVE  BookingStep(b)
  <2>1. Puts(c)
    BY <1>15 DEF PutsHold, PutsFirm, PutsMoved
  <2>. QED
    BY <1>3, <1>6, <1>8, <1>10, <1>11, <1>15, <2>1
<1>. QED
  BY <1>5, <1>12, <1>13, <1>14, <1>15 DEF TableSteps, Moments

LEMMA ClockMoves ==
    ASSUME [Next]_vars
    PROVE  clock' = clock \/ clock' = clock + 1
<1>1. CASE UNCHANGED vars \/ Tick
  BY <1>1 DEF vars, Tick
<1>2. ASSUME NEW c \in Clients, Hold(c) \/ Confirm(c) \/ Release(c) \/ Cancel(c) \/ Move(c)
                                \/ Finish(c) \/ Clean(c) \/ SaveBooking(c)
      PROVE  clock' = clock
  BY <1>2 DEF Hold, BeginHold, CountHolds, AssessHold, CreateHold, Confirm, BeginConfirm,
     ReadConfirm, CountEmail, Release, BeginRelease, ReadRelease, Cancel, ReadCancel, ReadChange,
     DecideCancel, Move, ReadMove, DecideMove, AssessMove, Finish, BeginFinish, ReadFinish,
     Clean, BeginSweep, SweepHolds, SaveBooking
<1>. QED
  BY <1>1, <1>2 DEF Next

\* What a step does to the counts that are known of booking b.
CountKnown(b) ==
    /\ moved[b] <= MaxMoves
    /\ IsConfirmed(b) => moved[b] <= bookings[b].moves /\ bookings[b].stamp <= clock
    /\ ~Exists(b) \/ bookings[b].status = "held" => moved[b] = 0

LEMMA CountKept ==
    ASSUME BookingInv, CountInv, [CountNext]_countedVars, NEW b \in Ids
    PROVE  moved'[b] \in Nat /\ CountKnown(b)'
<1>0. /\ StoreTypeOK /\ StoreTypeOK' /\ moved[b] \in Nat /\ MaxMoves \in Nat
      /\ clock \in Nat /\ clock' \in Nat /\ clock <= clock'
  <2>1. [Next]_vars
    BY CountNextIs DEF countedVars
  <2>2. BookingInv'
    BY <2>1, BookingInvKept
  <2>3. clock' = clock \/ clock' = clock + 1
    BY <2>1, ClockMoves
  <2>. QED
    BY <2>2, <2>3, FlowConstants DEF BookingInv, IInv, TypeOK, StoreTypeOK, CountInv
<1>1. CountKnown(b)
  BY DEF CountInv, CountsKnown, CountKnown
<1>2. CASE Stays(b)
  <2>1. IsConfirmed(b) => bookings[b].stamp \in Nat
    BY <1>0 DEF IsConfirmed, Exists, StoreTypeOK, Booking
  <2>. QED
    BY <1>0, <1>1, <1>2, <2>1 DEF CountKnown, Stays, IsConfirmed, Exists
<1>3. CASE Leaves(b)
  BY <1>0, <1>1, <1>3 DEF CountKnown, Leaves, IsConfirmed, Exists
<1>4. CASE Firms(b)
  <2>1. moved[b] = 0 /\ moved'[b] = 0
    BY <1>1, <1>4 DEF CountKnown, Firms
  <2>2. bookings'[b].moves \in Nat /\ bookings'[b].stamp \in Nat
    BY <1>4 DEF Firms, Booking
  <2>3. bookings'[b].stamp <= clock'
    BY <1>0, <1>4, <2>2 DEF Firms
  <2>. QED
    BY <1>0, <2>1, <2>2, <2>3 DEF CountKnown, IsConfirmed, Exists
<1>5. CASE IsMoved(b)
  <2>1. PICK c \in Clients :
           /\ req[c] # None /\ req[c].op = "move" /\ req[c].phase = "write" /\ req[c].id = b
           /\ IsConfirmed(b) /\ req[c].base.stamp = bookings[b].stamp
           /\ bookings'[b] = req[c].next
           /\ \/ moved'[b] = moved[b]
              \/ /\ req[c].actor = "customer" /\ req[c].next.stamp > bookings[b].stamp
                 /\ moved'[b] = moved[b] + 1
    BY <1>5 DEF IsMoved
  <2>2. /\ req[c].base \in Booking /\ req[c].next \in Booking /\ req[c].now \in Nat
        /\ req[c].now <= clock
    <3>1. req[c] \in Request /\ ChangeFits(req[c]) /\ Carries(req[c])
      BY <2>1 DEF BookingInv, IInv, TypeOK, RequestsOK, RequestsCarry
    <3>. QED
      BY <2>1, <3>1 DEF ChangeFits, Request, Carries
  <2>3. MoveKnows(req[c])
    BY <2>1 DEF CountInv
  <2>4. /\ req[c].next.status = "confirmed" /\ req[c].next.moves = req[c].base.moves + 1
        /\ req[c].next.stamp = req[c].now
        /\ req[c].actor = "customer" => req[c].base.moves < MaxMoves
        /\ moved[b] <= req[c].base.moves
    BY <2>1, <2>3 DEF MoveKnows
  <2>5. req[c].base.moves \in Nat
    BY <2>2 DEF Booking
  <2>6. moved'[b] \in Nat /\ moved'[b] <= MaxMoves /\ moved'[b] <= req[c].next.moves
    BY <1>0, <1>1, <2>1, <2>4, <2>5 DEF CountKnown
  <2>7. req[c].next # None
    BY <2>2, StoreConstants
  <2>8. req[c].next.stamp <= clock'
    BY <1>0, <2>2, <2>4
  <2>. QED
    BY <2>1, <2>4, <2>6, <2>7, <2>8 DEF CountKnown, IsConfirmed, Exists
<1>. QED
  BY <1>2, <1>3, <1>4, <1>5, BookingSteps DEF BookingStep

\* What a request that does nothing knows stays so.
LEMMA KnowledgeStays ==
    ASSUME BookingInv, CountInv, [CountNext]_countedVars, NEW d \in Clients,
           req[d] # None, req'[d] = req[d], req[d].op = "move", req[d].base.status = "confirmed"
    PROVE  MoveKnows(req[d])'
<1>. PICK q : q = req[d]
  OBVIOUS
<1>1. MoveKnows(q)
  BY DEF CountInv
<1>2. /\ q \in Request /\ ChangeFits(q) /\ clock \in Nat /\ clock' \in Nat /\ clock <= clock'
      /\ StoreTypeOK /\ CustomersOK
  <2>1. [Next]_vars
    BY CountNextIs DEF countedVars
  <2>2. BookingInv'
    BY <2>1, BookingInvKept
  <2>3. clock' = clock \/ clock' = clock + 1
    BY <2>1, ClockMoves
  <2>. QED
    BY <2>2, <2>3 DEF BookingInv, IInv, TypeOK, StoreTypeOK, RequestsOK
<1>. DEFINE b == q.id
<1>3. q.phase \in {"decide", "assess", "write"} => b \in Ids /\ q.base \in Booking /\ Exists(b)
  BY <1>2 DEF ChangeFits
<1>4. q.phase # "read"
  BY <1>1 DEF MoveKnows
<1>5. b \in Ids /\ q.base \in Booking /\ bookings[b] # None /\ q.base.customer # None
      /\ bookings[b].customer = q.base.customer
  BY <1>2, <1>4 DEF ChangeFits, CustomerFits, Exists
<1>6. bookings[b].status # "held"
  BY <1>2, <1>5 DEF CustomersOK, CustomerFits, Exists
<1>7. q.base.stamp \in Nat /\ q.base.moves \in Nat
  BY <1>5 DEF Booking
<1>8. IsConfirmed(b)' =>
          /\ q.base.stamp <= bookings'[b].stamp
          /\ q.base.stamp = bookings'[b].stamp => moved'[b] <= q.base.moves
  <2>. HIDE DEF b
  <2>1. CASE Stays(b)
    BY <1>1, <2>1 DEF MoveKnows, Stays, IsConfirmed, Exists, b
  <2>2. CASE Leaves(b)
    BY <2>2 DEF Leaves, IsConfirmed, Exists
  <2>3. CASE Firms(b)
    BY <1>6, <2>3 DEF Firms
  <2>4. CASE IsMoved(b)
    <3>1. PICK c \in Clients :
             /\ req[c] # None /\ req[c].op = "move" /\ req[c].phase = "write" /\ req[c].id = b
             /\ IsConfirmed(b) /\ req[c].base.stamp = bookings[b].stamp
             /\ bookings'[b] = req[c].next
             /\ \/ moved'[b] = moved[b]
                \/ /\ req[c].actor = "customer" /\ req[c].next.stamp > bookings[b].stamp
                   /\ moved'[b] = moved[b] + 1
      BY <2>4 DEF IsMoved
    <3>2. MoveKnows(req[c])
      BY <3>1 DEF CountInv
    <3>3. /\ bookings[b].stamp <= req[c].next.stamp
          /\ bookings[b].stamp \in Nat /\ req[c].next.stamp \in Nat
      <4>1. req[c] \in Request /\ ChangeFits(req[c])
        BY <3>1 DEF BookingInv, IInv, TypeOK, RequestsOK
      <4>2. req[c].next \in Booking /\ bookings[b] \in Booking
        BY <1>2, <1>5, <3>1, <4>1 DEF ChangeFits, StoreTypeOK, b
      <4>3. req[c].base.stamp <= req[c].now /\ req[c].next.stamp = req[c].now
        BY <3>1, <3>2 DEF MoveKnows
      <4>. QED
        BY <3>1, <4>2, <4>3 DEF Booking
    <3>4. /\ q.base.stamp <= bookings[b].stamp
          /\ q.base.stamp = bookings[b].stamp => moved[b] <= q.base.moves
      BY <1>1, <3>1 DEF MoveKnows, b
    <3>. QED
      BY <1>7, <3>1, <3>3, <3>4
  <2>. QED
    BY <1>5, <2>1, <2>2, <2>3, <2>4, BookingSteps DEF BookingStep, b
<1>9. q.base.stamp <= clock'
  BY <1>1, <1>2, <1>7 DEF MoveKnows
<1>. QED
  BY <1>1, <1>8, <1>9 DEF MoveKnows

\* A step of a move knows what it has read.
LEMMA MoveLearns ==
    ASSUME BookingInv, CountInv, [CountNext]_countedVars, NEW d \in Clients,
           ReadMove(d) \/ DecideMove(d) \/ AssessMove(d),
           req'[d] # None
    PROVE  IF req'[d].base.status = "confirmed" THEN MoveKnows(req[d])'
                                                ELSE req'[d].phase # "write"
<1>1. UNCHANGED <<clock, bookings>> /\ clock \in Nat /\ TypeOK /\ StoreTypeOK
  BY DEF ReadMove, ReadChange, DecideMove, AssessMove, BookingInv, IInv, TypeOK, StoreTypeOK
<1>2. \A b \in Ids : moved'[b] = moved[b]
  BY <1>1, CountMoves, MoversWrite
<1>3. \A b \in Ids : IsConfirmed(b)' <=> IsConfirmed(b)
  BY <1>1 DEF IsConfirmed, Exists
<1>4. ~Done(d)
  BY <1>1 DEF Done, TypeOK
<1>5. ASSUME NEW q, Goes(d, q)
      PROVE  req'[d] = q
  BY <1>1, <1>5 DEF Goes, TypeOK
<1>6. CASE ReadMove(d)
  <2>1. PICK b \in Ids, actor \in Actors :
           /\ Finds(actor, b)
           /\ Goes(d, [Having(NewRequest("move", "decide"), "decide", b)
                          EXCEPT !.actor = actor, !.now = 0])
    BY <1>6, FlowConstants DEF ReadMove, ReadChange
  <2>. DEFINE p == NewRequest("move", "decide")
              h == Having(p, "decide", b)
              q == [h EXCEPT !.actor = actor, !.now = 0]
  <2>2. p \in Request /\ p.op = "move" /\ "decide" \in Phases /\ Exists(b)
    BY <1>1, <2>1, NewRequestType DEF Ops, Phases, Finds
  <2>. HIDE DEF p
  <2>3. /\ h \in Request /\ h.op = "move" /\ h.phase = "decide" /\ h.id = b
        /\ h.base = bookings[b]
    BY <1>1, <2>2, HavingType
  <2>. HIDE DEF h
  <2>4. q.phase = "decide" /\ q.id = b /\ q.base = bookings[b]
    BY <2>3 DEF Request
  <2>5. req'[d] = q
    BY <1>5, <2>1 DEF h, p
  <2>. HIDE DEF q
  <2>6. bookings[b] \in Booking
    BY <1>1, <2>2 DEF StoreTypeOK, Exists
  <2>7. CASE bookings[b].status = "confirmed"
    <3>1. IsConfirmed(b) /\ bookings[b].stamp \in Nat
      BY <2>2, <2>6, <2>7 DEF IsConfirmed, Booking
    <3>2. moved[b] <= bookings[b].moves /\ bookings[b].stamp <= clock
      BY <3>1 DEF CountInv, CountsKnown
    <3>. QED
      BY <1>1, <1>2, <2>4, <2>5, <2>7, <3>1, <3>2 DEF MoveKnows, IsConfirmed, Exists
  <2>. QED
    BY <2>4, <2>5, <2>7
<1>7. ASSUME req[d] # None, req[d].op = "move", req[d].phase # "read"
      PROVE  /\ req[d] \in Request /\ req[d].base \in Booking /\ req[d].id \in Ids
             /\ req[d].base.stamp \in Nat /\ req[d].base.moves \in Nat
             /\ req[d].base.status = "confirmed" => MoveKnows(req[d])
  <2>1. req[d] \in Request /\ ChangeFits(req[d])
    BY <1>1, <1>7 DEF BookingInv, IInv, TypeOK, RequestsOK
  <2>. QED
    BY <1>7, <2>1 DEF ChangeFits, Booking, CountInv
<1>8. ASSUME req[d].base.status = "confirmed", MoveKnows(req[d]), req[d].id \in Ids,
             req'[d].id = req[d].id, req'[d].base = req[d].base
      PROVE  IsConfirmed(req[d].id)' =>
                 /\ req'[d].base.stamp <= bookings'[req'[d].id].stamp
                 /\ req'[d].base.stamp = bookings'[req'[d].id].stamp
                       => moved'[req'[d].id] <= req'[d].base.moves
  BY <1>1, <1>2, <1>3, <1>8 DEF MoveKnows
<1>9. CASE DecideMove(d)
  <2>1. req[d] # None /\ req[d].op = "move" /\ req[d].phase = "decide"
    BY <1>9 DEF DecideMove, Under
  <2>. DEFINE p == [req[d] EXCEPT !.now = clock]
              q == [p EXCEPT !.phase = "assess"]
  <2>2. Goes(d, q)
    BY <1>4, <1>9 DEF DecideMove
  <2>3. req[d] \in Request
    BY <1>7, <2>1
  <2>4. q.phase = "assess" /\ q.id = req[d].id /\ q.base = req[d].base /\ q.now = clock
    BY <2>3 DEF Request
  <2>5. req'[d] = q
    BY <1>5, <2>2
  <2>. HIDE DEF q
  <2>6. CASE req[d].base.status = "confirmed"
    <3>1. MoveKnows(req[d]) /\ req[d].id \in Ids
      BY <1>7, <2>1, <2>6
    <3>2. req[d].base.stamp <= clock
      BY <3>1 DEF MoveKnows
    <3>. QED
      BY <1>1, <1>8, <2>4, <2>5, <2>6, <3>1, <3>2 DEF MoveKnows
  <2>. QED
    BY <2>4, <2>5, <2>6
<1>10. CASE AssessMove(d)
  <2>1. req[d] # None /\ req[d].op = "move" /\ req[d].phase = "assess"
    BY <1>10 DEF AssessMove, Under
  <2>. DEFINE p == req[d]
  <2>2. /\ p \in Request /\ p.base \in Booking /\ p.id \in Ids
        /\ p.actor = "customer" => p.base.moves < MaxMoves
    BY <1>7, <2>1 DEF BookingInv, RequestsCarry, Carries, ChangeCarries
  <2>3. PICK s, crew : /\ p.base.status = "confirmed"
                       /\ Goes(d, Writing(p, Rescheduled(p.base, s, SessionKey(p.base.offering, s, p.id),
                                                     CapacityOn(p.base.offering, crew), p.now), crew))
    BY <1>4, <1>10 DEF AssessMove
  <2>. DEFINE k == Rescheduled(p.base, s, SessionKey(p.base.offering, s, p.id),
                               CapacityOn(p.base.offering, crew), p.now)
  <2>4. k.status = "confirmed" /\ k.moves = p.base.moves + 1 /\ k.stamp = p.now
    BY <2>2, <2>3 DEF Rescheduled, Booking
  <2>5. req'[d] = Writing(p, k, crew)
    BY <1>5, <2>3
  <2>. HIDE DEF k
  <2>6. /\ req'[d].phase = "write" /\ req'[d].next = k /\ req'[d].base = p.base
        /\ req'[d].id = p.id /\ req'[d].now = p.now /\ req'[d].actor = p.actor
    BY <2>2, <2>5 DEF Writing, Request
  <2>7. MoveKnows(p)
    BY <1>7, <2>1, <2>3
  <2>8. p.base.stamp <= clock /\ p.base.stamp <= p.now
    BY <2>1, <2>7 DEF MoveKnows
  <2>. QED
    BY <1>1, <1>8, <2>2, <2>3, <2>4, <2>6, <2>7, <2>8 DEF MoveKnows
<1>. QED
  BY <1>6, <1>9, <1>10

LEMMA CountInvKept == BookingInv /\ CountInv /\ [CountNext]_countedVars => CountInv'
<1>. SUFFICES ASSUME BookingInv, CountInv, [CountNext]_countedVars
              PROVE  CountInv'
  OBVIOUS
<1>0. [Next]_vars /\ TypeOK
  BY CountNextIs DEF countedVars, BookingInv, IInv
<1>1. moved' \in [Ids -> Nat]
  <2>1. \A b \in Ids : moved'[b] \in Nat
    BY CountKept
  <2>2. moved' = [b \in Ids |-> moved'[b]]
    BY CountNextIs DEF Count, countedVars, CountInv
  <2>. QED
    BY <2>1, <2>2
<1>2. CountsKnown'
  BY CountKept DEF CountsKnown, CountKnown
<1>3. ASSUME NEW c \in Clients, req'[c] # None, req'[c].op = "move"
      PROVE  IF req'[c].base.status = "confirmed" THEN MoveKnows(req[c])'
                                                  ELSE req'[c].phase # "write"
  <2>1. CASE req'[c] = req[c]
    BY <1>3, <2>1, KnowledgeStays DEF CountInv
  <2>2. CASE req'[c] # req[c]
    BY <1>0, <1>3, <2>2, MovesGoOn, MoveLearns
  <2>. QED
    BY <2>1, <2>2
<1>. QED
  BY <1>1, <1>2, <1>3 DEF CountInv

\* However customers and staff move, cancel and end bookings at once, customers move a
\* booking no more than MAX_CUSTOMER_RESCHEDULES times, but for moves that are stored in
\* the same instant as the change before them, which the compare-and-swap lets through.
THEOREM CustomersAlwaysMoveSeldom == CountSpec => []CustomersMoveSeldom
<1>1. CountSpec => Spec
  <2>1. [CountNext]_countedVars => [Next]_vars
    BY CountNextIs DEF countedVars
  <2>. QED
    BY <2>1, PTL DEF CountSpec, CountInit, Spec
<1>2. CountInit => CountInv
  BY FlowConstants DEF CountInit, CountInv, CountsKnown, IsConfirmed, Exists, Init, StoreInit
<1>3. CountInv => CustomersMoveSeldom
  BY DEF CountInv, CountsKnown, CustomersMoveSeldom
<1>. QED
  BY <1>1, <1>2, <1>3, CountInvKept, BookingAlwaysSound, PTL DEF CountSpec

-----------------------------------------------------------------------------
(* The calendar.                                                           *)

Board == [b \in Ids |-> PlaceOf(b)]

LEMMA PlaceIs ==
    ASSUME StoreTypeOK, NEW b \in Ids
    PROVE  /\ Board[b] = PlaceOf(b)
           /\ IsLive(b) <=> PlaceOf(b) \notin {None, Gone}
           /\ IsLive(b) => /\ PlaceOf(b) \in Plan!Place
                           /\ PlaceOf(b) = [firm |-> bookings[b].status = "confirmed",
                                            crew |-> Crew(b), from |-> From(bookings[b]),
                                            to |-> To(bookings[b]), key |-> bookings[b].key]
           /\ bookings[b] = None <=> PlaceOf(b) = None
           /\ bookings[b] # None /\ ~IsLive(b) => PlaceOf(b) = Gone
<1>1. None # Gone
  BY PlaceConstants
<1>2. ASSUME IsLive(b)
      PROVE  /\ PlaceOf(b) \in Plan!Place /\ PlaceOf(b) \notin {None, Gone}
             /\ PlaceOf(b) = [firm |-> bookings[b].status = "confirmed",
                              crew |-> Crew(b), from |-> From(bookings[b]),
                              to |-> To(bookings[b]), key |-> bookings[b].key]
  <2>1. bookings[b] \in Booking /\ Crew(b) \in SUBSET Resources
    BY <1>2, CrewType DEF StoreTypeOK, IsLive, Exists
  <2>2. From(bookings[b]) \in Int /\ To(bookings[b]) \in Int /\ bookings[b].key \in Keys
    BY <2>1, SpanType DEF Booking
  <2>3. PlaceOf(b) = [firm |-> bookings[b].status = "confirmed",
                      crew |-> Crew(b), from |-> From(bookings[b]),
                      to |-> To(bookings[b]), key |-> bookings[b].key]
    BY <1>2 DEF PlaceOf, IsLive, Exists
  <2>4. (bookings[b].status = "confirmed") \in BOOLEAN
    OBVIOUS
  <2>5. PlaceOf(b) \in [firm: BOOLEAN, crew: SUBSET Resources, from: Int, to: Int,
                        key: Keys]
    BY <2>1, <2>2, <2>3, <2>4
  <2>6. PlaceOf(b) \notin {None, Gone}
    BY <2>5, PlaceConstants
  <2>. QED
    BY <2>3, <2>5, <2>6 DEF Plan!Place
<1>3. ASSUME ~IsLive(b)
      PROVE  /\ bookings[b] = None => PlaceOf(b) = None
             /\ bookings[b] # None => PlaceOf(b) = Gone
  BY <1>3 DEF PlaceOf, IsLive, Exists
<1>4. IsLive(b) => bookings[b] # None
  BY DEF IsLive, Exists
<1>. HIDE DEF PlaceOf
<1>5. Board[b] = PlaceOf(b)
  BY DEF Board
<1>. QED
  BY <1>1, <1>2, <1>3, <1>4, <1>5

\* What a place says of its booking, here and in the next state.
Placing ==
    \A b \in Ids :
        /\ Board[b] = PlaceOf(b)
        /\ IsLive(b) <=> Board[b] \notin {None, Gone}
        /\ IsLive(b) => /\ Board[b] \in Plan!Place
                        /\ Board[b] = [firm |-> bookings[b].status = "confirmed",
                                       crew |-> Crew(b), from |-> From(bookings[b]),
                                       to |-> To(bookings[b]), key |-> bookings[b].key]
        /\ bookings[b] = None <=> Board[b] = None
        /\ bookings[b] # None /\ ~IsLive(b) => Board[b] = Gone

LEMMA PlacesHold == StoreTypeOK => Placing
<1>. SUFFICES ASSUME StoreTypeOK PROVE Placing
  OBVIOUS
<1>. QED
  BY PlaceIs DEF Placing

LEMMA PlacesHoldNext == StoreTypeOK' => Placing'
BY PlacesHold, PTL

\* The place of a booking that a step leaves alone.
LEMMA SamePlace ==
    ASSUME Placing, Placing', NEW b \in Ids, bookings'[b] = bookings[b],
           Crew(b)' = Crew(b)
    PROVE  Board'[b] = Board[b]
<1>1. PlaceOf(b)' = PlaceOf(b)
  BY DEF PlaceOf, Exists
<1>. QED
  BY <1>1 DEF Placing

\* The places after the holds in due ran out, but for the bookings in but.
LEMMA OthersPlaces ==
    ASSUME Placing, Placing', NEW due, NEW but, OthersAfter(due, but)
    PROVE  /\ \A d \in Ids \ (due \cup but) : Board'[d] = Board[d]
           /\ \A d \in (due \cap Ids) \ but : Board'[d] = Gone
<1>1. ASSUME NEW d \in Ids \ (due \cup but)
      PROVE  Board'[d] = Board[d]
  <2>1. bookings'[d] = bookings[d] /\ Crew(d)' = Crew(d)
    BY DEF OthersAfter
  <2>. QED
    BY <2>1, SamePlace
<1>2. ASSUME NEW d \in (due \cap Ids) \ but
      PROVE  Board'[d] = Gone
  <2>1. bookings'[d] # None /\ ~IsLive(d)'
    BY DEF OthersAfter, IsLive, Live
  <2>. QED
    BY <2>1 DEF Placing
<1>. QED
  BY <1>1, <1>2

\* A place is firm when its booking is confirmed.
LEMMA FirmIs ==
    ASSUME Placing, NEW b \in Ids, IsLive(b)
    PROVE  /\ Board[b] \notin {None, Gone}
           /\ bookings[b].status = "confirmed" => Board[b].firm = TRUE
           /\ bookings[b].status = "held" => Board[b].firm = FALSE
<1>1. /\ Board[b] \notin {None, Gone}
      /\ Board[b] = [firm |-> bookings[b].status = "confirmed",
                     crew |-> Crew(b), from |-> From(bookings[b]),
                     to |-> To(bookings[b]), key |-> bookings[b].key]
  BY DEF Placing
<1>2. Board[b].firm = (bookings[b].status = "confirmed")
  BY <1>1
<1>3. ASSUME bookings[b].status = "confirmed" PROVE Board[b].firm = TRUE
  <2>1. (bookings[b].status = "confirmed") = TRUE
    BY <1>3
  <2>. QED
    BY <1>2, <2>1
<1>4. ASSUME bookings[b].status = "held" PROVE Board[b].firm = FALSE
  <2>1. (bookings[b].status = "confirmed") = FALSE
    BY <1>4
  <2>. QED
    BY <1>2, <2>1
<1>. QED
  BY <1>1, <1>3, <1>4

FirmAll ==
    \A b \in Ids : IsLive(b) =>
        /\ bookings[b].status = "confirmed" => Board[b].firm = TRUE
        /\ bookings[b].status = "held" => Board[b].firm = FALSE

LEMMA FirmAllHolds == Placing => FirmAll
BY FirmIs DEF FirmAll

LEMMA FirmAllNext == Placing' => FirmAll'
BY FirmAllHolds, PTL

LEMMA FirmIsNext ==
    ASSUME Placing', NEW b \in Ids, IsLive(b)'
    PROVE  /\ bookings'[b].status = "confirmed" => Board'[b].firm = TRUE
           /\ bookings'[b].status = "held" => Board'[b].firm = FALSE
<1>1. FirmAll'
  BY FirmAllNext
<1>. QED
  BY <1>1 DEF FirmAll

LEMMA MadeFirm ==
    ASSUME NEW p, NEW old, NEW new, NEW crew, NEW from, NEW to, NEW key,
           p = [firm |-> old, crew |-> crew, from |-> from, to |-> to, key |-> key]
    PROVE  [p EXCEPT !.firm = new] =
              [firm |-> new, crew |-> crew, from |-> from, to |-> to, key |-> key]
  OBVIOUS

LEMMA DueTentative ==
    ASSUME Placing, StoreTypeOK, NEW due, NEW now, RanOut(due, now)
    PROVE  due \in SUBSET Plan!Tentative
<1>1. ASSUME NEW d \in due
      PROVE  d \in Plan!Tentative
  <2>1. d \in Ids /\ IsLive(d) /\ bookings[d].status = "held"
    BY DEF RanOut, IsLive, Live, Exists
  <2>2. Board[d] \notin {None, Gone} /\ ~Board[d].firm
    BY <2>1, FirmIs
  <2>. QED
    BY <2>1, <2>2 DEF Plan!Tentative, Plan!Has, Board
<1>. QED
  BY <1>1

LEMMA BoardIs ==
    /\ Board = [b \in Ids |-> Board[b]]
    /\ Board' = [b \in Ids |-> Board'[b]]
BY DEF Board

LEMMA LapsesPlan ==
    ASSUME Placing, Placing', StoreTypeOK, NEW due, NEW now, Lapses(due, now)
    PROVE  Plan!CalendarNext
<1>1. due \in SUBSET Plan!Tentative /\ due \subseteq Ids
  BY DueTentative DEF Lapses, RanOut
<1>2. \A d \in Ids : Board'[d] = IF d \in due THEN Gone ELSE Board[d]
  BY <1>1, OthersPlaces DEF Lapses
<1>3. Board' = [d \in Ids |-> IF d \in due THEN Gone ELSE Board[d]]
  BY <1>2, BoardIs
<1>4. Plan!Lapse(due)
  BY <1>3 DEF Plan!Lapse, Board
<1>. QED
  BY <1>1, <1>4 DEF Plan!CalendarNext

\* A put booking takes its place, and nobody's but that of holds that ran out.
PlaceTaken(b, k, crew, due) ==
    /\ Plan!Put(b, Board'[b], due)
    /\ due \in SUBSET Plan!Tentative /\ b \in Ids \ due
    /\ Board'[b] \in Plan!Place
    /\ Board'[b] = [firm |-> k.status = "confirmed", crew |-> crew,
                    from |-> From(k), to |-> To(k), key |-> k.key]
    /\ k.status = "confirmed" => Board'[b].firm = TRUE
    /\ k.status = "held" => Board'[b].firm = FALSE

LEMMA PutsPlan ==
    ASSUME Placing, Placing', StoreTypeOK, NoDoubleBooking',
           NEW b, NEW k, NEW crew, NEW due, NEW now, Stands(b, k, crew, due, now)
    PROVE  PlaceTaken(b, k, crew, due)
<1>1. /\ RanOut(due, now) /\ OthersAfter(due, {b}) /\ b \in Ids \ due
      /\ due \subseteq Ids
  BY DEF Stands, Takes, RanOut
<1>2. bookings'[b] = k /\ Crew(b)' = crew /\ IsLive(b)'
  BY StandsEffect
<1>3. /\ Board'[b] \in Plan!Place
      /\ Board'[b] = [firm |-> k.status = "confirmed", crew |-> crew,
                      from |-> From(k), to |-> To(k), key |-> k.key]
  BY <1>1, <1>2 DEF Placing, From, To
<1>4. \A d \in Ids : Board'[d] = IF d = b THEN Board'[b]
                                 ELSE IF d \in due THEN Gone ELSE Board[d]
  BY <1>1, OthersPlaces
<1>5. Board' = [d \in Ids |-> IF d = b THEN Board'[b]
                              ELSE IF d \in due THEN Gone ELSE Board[d]]
  BY <1>4, BoardIs
<1>6. ASSUME NEW d \in Ids \ (due \cup {b}), Board[d] \notin {None, Gone}
      PROVE  Plan!Compatible(Board'[b], Board[d])
  <2>1. Board'[d] = Board[d] /\ IsLive(d)
    <3>1. Board'[d] = Board[d]
      BY <1>1, <1>6, OthersPlaces
    <3>2. IsLive(d)
      BY <1>6 DEF Placing
    <3>. QED
      BY <3>1, <3>2
  <2>2. bookings'[d] = bookings[d] /\ Crew(d)' = Crew(d)
    BY <1>1 DEF OthersAfter
  <2>3. IsLive(d)'
    BY <2>1, <2>2 DEF IsLive, Exists
  <2>4. Board[d] = [firm |-> bookings[d].status = "confirmed",
                    crew |-> Crew(d), from |-> From(bookings[d]),
                    to |-> To(bookings[d]), key |-> bookings[d].key]
    BY <2>1 DEF Placing
  <2>5. crew \cap Crew(d) # {}
        /\ From(k) < To(bookings[d]) /\ From(bookings[d]) < To(k) => k.key = bookings[d].key
    BY <1>1, <1>2, <2>2, <2>3 DEF NoDoubleBooking, Meets, Overlap, From, To
  <2>. QED
    BY <1>3, <2>4, <2>5 DEF Plan!Compatible
<1>7. Plan!Put(b, Board'[b], due)
  BY <1>5, <1>6 DEF Plan!Put, Plan!Has, Board
<1>8. /\ k.status = "confirmed" => Board'[b].firm = TRUE
      /\ k.status = "held" => Board'[b].firm = FALSE
  BY <1>1, <1>2, FirmIsNext
<1>. QED
  BY <1>1, <1>3, <1>7, <1>8, DueTentative DEF PlaceTaken

LEMMA ExcludeNext == TablesOK' => NoDoubleBooking'
<1>1. TablesOK => NoDoubleBooking
  BY TablesExclude
<1>. QED
  BY <1>1, PTL

LEMMA CalendarSteps ==
    ASSUME BookingInv, BookingInv', [Next]_vars
    PROVE  [Plan!CalendarNext]_Board
<1>1. /\ StoreTypeOK /\ StoreTypeOK' /\ Placing /\ Placing'
  BY PlacesHold, PlacesHoldNext DEF BookingInv, IInv, TypeOK
<1>2. NoDoubleBooking'
  BY ExcludeNext DEF BookingInv, IInv
<1>3. CASE UNCHANGED <<bookings, rows>>
  <2>1. \A b \in Ids : Board'[b] = Board[b]
    BY <1>1, <1>3, SamePlace DEF Crew
  <2>. QED
    BY <2>1, BoardIs
<1>4. CASE Moments
  BY <1>1, <1>4, LapsesPlan DEF Moments
<1>5. ASSUME NEW c \in Clients, PutsHold(c)
      PROVE  Plan!CalendarNext
  <2>0. PICK b : b = req[c].id
    OBVIOUS
  <2>1. /\ Plan!Put(b, Board'[b], Due(c))
        /\ Due(c) \in SUBSET Plan!Tentative /\ b \in Ids \ Due(c)
        /\ Board'[b] \in Plan!Place
        /\ Board'[b].firm = FALSE
    <3>1. req[c].next.status = "held"
      BY <1>5 DEF PutsHold, CreateHold, Under, BookingInv, IInv, RequestsOK, HoldFits
    <3>3. Stands(b, req[c].next, req[c].crew, Due(c), req[c].now)
      BY <1>5, <2>0 DEF PutsHold, Puts
    <3>4. PlaceTaken(b, req[c].next, req[c].crew, Due(c))
      BY <1>1, <1>2, <3>3, PutsPlan
    <3>. QED
      BY <3>1, <3>4 DEF PlaceTaken
  <2>2. Board[b] = None
    BY <1>1, <1>5, <2>0 DEF PutsHold, CreateHold, Under, BookingInv, IInv, RequestsOK,
                      HoldFits, Exists, Placing
  <2>3. Plan!Take(b, Due(c))
    BY <2>1, <2>2 DEF Plan!Take, Board
  <2>. QED
    BY <2>1, <2>3 DEF Plan!CalendarNext
<1>6. ASSUME NEW c \in Clients, PutsFirm(c)
      PROVE  Plan!CalendarNext
  <2>0. PICK b : b = req[c].id
    OBVIOUS
  <2>1. /\ Plan!Put(b, Board'[b], Due(c))
        /\ Due(c) \in SUBSET Plan!Tentative /\ b \in Ids \ Due(c)
        /\ Board'[b] = [firm |-> req[c].next.status = "confirmed", crew |-> req[c].crew,
                        from |-> From(req[c].next), to |-> To(req[c].next),
                        key |-> req[c].next.key]
    <3>3. Stands(b, req[c].next, req[c].crew, Due(c), req[c].now)
      BY <1>6, <2>0 DEF PutsFirm, Puts
    <3>4. PlaceTaken(b, req[c].next, req[c].crew, Due(c))
      BY <1>1, <1>2, <3>3, PutsPlan
    <3>. QED
      BY <3>4 DEF PlaceTaken
  <2>2. /\ bookings[b] \in Booking /\ IsLive(b) /\ bookings[b].status = "held"
        /\ Crew(b) = req[c].crew
        /\ req[c].next = Confirmed(bookings[b], req[c].email, req[c].now)
    BY <1>1, <1>6, <2>0, <2>1 DEF PutsFirm, StoreTypeOK, IsLive, Live, Exists
  <2>3. /\ Board[b] \notin {None, Gone}
        /\ Board[b] = [firm |-> FALSE, crew |-> Crew(b), from |-> From(bookings[b]),
                       to |-> To(bookings[b]), key |-> bookings[b].key]
    <3>1. Board[b] = [firm |-> bookings[b].status = "confirmed",
                      crew |-> Crew(b), from |-> From(bookings[b]),
                      to |-> To(bookings[b]), key |-> bookings[b].key]
      BY <1>1, <2>1, <2>2 DEF Placing
    <3>2. (bookings[b].status = "confirmed") = FALSE
      BY <2>2
    <3>. QED
      BY <1>1, <2>1, <2>2, <3>1, <3>2 DEF Placing
  <2>4. /\ req[c].next.status = "confirmed" /\ From(req[c].next) = From(bookings[b])
        /\ To(req[c].next) = To(bookings[b]) /\ req[c].next.key = bookings[b].key
    BY <2>2 DEF Confirmed, Booking, From, To
  <2>5. Board'[b] = [firm |-> TRUE, crew |-> Crew(b), from |-> From(bookings[b]),
                     to |-> To(bookings[b]), key |-> bookings[b].key]
    BY <2>1, <2>2, <2>4
  <2>6. Board'[b] = [Board[b] EXCEPT !.firm = TRUE]
    <3>1. Board[b] = [firm |-> FALSE, crew |-> Crew(b), from |-> From(bookings[b]),
                      to |-> To(bookings[b]), key |-> bookings[b].key]
      BY <2>3
    <3>2. [Board[b] EXCEPT !.firm = TRUE] =
             [firm |-> TRUE, crew |-> Crew(b), from |-> From(bookings[b]),
              to |-> To(bookings[b]), key |-> bookings[b].key]
      <4>1. PICK p : p = Board[b]
        OBVIOUS
      <4>2. PICK old : old = FALSE
        OBVIOUS
      <4>3. PICK new : new = TRUE
        OBVIOUS
      <4>4. PICK crew : crew = Crew(b)
        OBVIOUS
      <4>5. PICK from : from = From(bookings[b])
        OBVIOUS
      <4>6. PICK to : to = To(bookings[b])
        OBVIOUS
      <4>7. PICK key : key = bookings[b].key
        OBVIOUS
      <4>8. p = [firm |-> old, crew |-> crew, from |-> from, to |-> to, key |-> key]
        BY <3>1, <4>1, <4>2, <4>4, <4>5, <4>6, <4>7
      <4>9. [p EXCEPT !.firm = new] =
               [firm |-> new, crew |-> crew, from |-> from, to |-> to, key |-> key]
        BY <4>8, MadeFirm
      <4>. QED
        BY <4>1, <4>3, <4>4, <4>5, <4>6, <4>7, <4>9
    <3>. QED
      BY <2>5, <3>2
  <2>7. Plan!Settle(b, Due(c))
    <3>1. Plan!Put(b, [Board[b] EXCEPT !.firm = TRUE], Due(c))
      BY <2>1, <2>6
    <3>. QED
      BY <2>3, <3>1 DEF Plan!Settle, Plan!Has, Board
  <2>. QED
    BY <2>1, <2>7 DEF Plan!CalendarNext
<1>7. ASSUME NEW c \in Clients, PutsMoved(c)
      PROVE  Plan!CalendarNext
  <2>0. PICK b : b = req[c].id
    OBVIOUS
  <2>1. /\ Plan!Put(b, Board'[b], Due(c))
        /\ Due(c) \in SUBSET Plan!Tentative /\ b \in Ids \ Due(c)
        /\ Board'[b] \in Plan!Place
        /\ Board'[b].firm = TRUE
    <3>1. req[c].next.status = "confirmed"
      BY <1>7 DEF PutsMoved, MoveCarries
    <3>3. Stands(b, req[c].next, req[c].crew, Due(c), req[c].now)
      BY <1>7, <2>0 DEF PutsMoved, Puts
    <3>4. PlaceTaken(b, req[c].next, req[c].crew, Due(c))
      BY <1>1, <1>2, <3>3, PutsPlan
    <3>. QED
      BY <3>1, <3>4 DEF PlaceTaken
  <2>2. IsLive(b) /\ bookings[b].status = "confirmed"
    BY <1>7, <2>0, <2>1 DEF PutsMoved, IsLive, Live, Exists
  <2>3. Board[b] \notin {None, Gone} /\ Board[b].firm
    BY <1>1, <2>1, <2>2, FirmIs
  <2>4. Plan!Shift(b, Due(c))
    BY <2>1, <2>3 DEF Plan!Shift, Plan!Has, Board
  <2>. QED
    BY <2>1, <2>4 DEF Plan!CalendarNext
<1>8. ASSUME NEW c \in Clients, EndsOwn(c)
      PROVE  Plan!CalendarNext
  <2>0. PICK b : b = req[c].id
    OBVIOUS
  <2>1. b \in Ids /\ req[c].next \in Booking
    BY <1>8, <2>0 DEF EndsOwn, SaveBooking, IsLive, BookingInv, IInv, TypeOK, RequestsOK,
                ChangeFits
  <2>2. /\ OthersAfter({}, {b}) /\ bookings'[b] = req[c].next /\ ~IsLive(b)'
        /\ bookings'[b] # None
    BY <1>8, <2>0, <2>1, StoreConstants DEF EndsOwn, Ends, IsLive
  <2>3. Board'[b] = Gone /\ Board[b] \notin {None, Gone}
    BY <1>1, <1>8, <2>0, <2>1, <2>2 DEF Placing, EndsOwn
  <2>4. \A d \in Ids : Board'[d] = IF d = b THEN Gone ELSE Board[d]
    BY <1>1, <2>2, <2>3, OthersPlaces
  <2>5. Board' = [Board EXCEPT ![b] = Gone]
    BY <2>4, BoardIs
  <2>6. Plan!Leave(b)
    BY <2>3, <2>5 DEF Plan!Leave, Plan!Has, Board
  <2>7. {} \in SUBSET Plan!Tentative
    OBVIOUS
  <2>. QED
    BY <2>1, <2>6, <2>7 DEF Plan!CalendarNext
<1>. QED
  BY <1>3, <1>4, <1>5, <1>6, <1>7, <1>8, StepsOfTables DEF TableSteps

\* The tables keep the calendar's promises at every step: a hold takes a
\* place nobody has, is settled where it stands or put out by its expiry, and
\* a confirmed booking moves or leaves by its own change only (create, save,
\* releaseExpiredHolds).
THEOREM CalendarAlwaysKept == Spec => KeepsCalendar
<1>1. BookingInv /\ BookingInv' /\ [Next]_vars => [Plan!CalendarNext]_Board
  BY CalendarSteps
<1>2. Init => Plan!CalendarInit
  BY DEF Init, StoreInit, Plan!CalendarInit, PlaceOf, Exists
<1>. QED
  BY <1>1, <1>2, BookingAlwaysSound, PTL DEF Spec, KeepsCalendar, Plan!CalendarSpec, Board

-----------------------------------------------------------------------------
(* The holds that are refused.                                             *)

\* Only its own last step ends a request that has a hold to create.
LEMMA RefusedAtWrite ==
    ASSUME TypeOK, [Next]_vars, NEW c \in Clients, IsRefused(c)
    PROVE  CreateHold(c)
<1>1. /\ req[c] # None /\ req[c].op = "hold" /\ req[c].phase = "write" /\ req'[c] = None
  BY DEF IsRefused, Under
<1>2. req \in [Clients -> Request \cup {None}]
  BY DEF TypeOK
<1>3. ~UNCHANGED vars /\ ~Tick
  BY <1>1 DEF vars, Tick
<1>4. PICK d \in Clients : \/ Hold(d) \/ Confirm(d) \/ Release(d) \/ Cancel(d) \/ Move(d)
                           \/ Finish(d) \/ Clean(d) \/ SaveBooking(d)
  BY <1>3 DEF Next
<1>5. \E q : Goes(d, q)
  BY <1>4 DEF Goes, Done, Hold, BeginHold, CountHolds, AssessHold, CreateHold,
              Confirm, BeginConfirm, Begin, ReadConfirm, CountEmail, Release,
              BeginRelease, ReadRelease, Cancel, ReadCancel, ReadChange, DecideCancel,
              Move, ReadMove, DecideMove, AssessMove, Finish, BeginFinish, ReadFinish,
              Clean, BeginSweep, SweepHolds, SaveBooking
<1>6. d = c
  BY <1>1, <1>2, <1>5 DEF Goes
<1>. QED
  BY <1>1, <1>4, <1>6 DEF Under, Hold, BeginHold, CountHolds, AssessHold,
              Confirm, BeginConfirm, Begin, ReadConfirm, CountEmail, Release,
              BeginRelease, ReadRelease, Cancel, ReadCancel, ReadChange, DecideCancel,
              Move, ReadMove, DecideMove, AssessMove, Finish, BeginFinish, ReadFinish,
              Clean, BeginSweep, SweepHolds, SaveBooking

LEMMA EmptySession ==
    People({}) = 0
<1>1. {} \in SUBSET Stored /\ IsFiniteSet({})
  BY FS_EmptySet
<1>2. People({}) = Total(PeopleOf, {})
  BY <1>1, PeopleAddUp DEF PeopleAreTotals
<1>. QED
  BY <1>2, TotalEmpty

\* A hold that would fit an empty session only fails to fit another's.
LEMMA SessionRefuses ==
    ASSUME NEW k \in Booking, k.people <= k.capacity, NEW crew, NEW now, NEW b,
           ~FitsSession(k, crew, now, b)
    PROVE  IsShared(k.key) /\ \E d \in Blocking(now) : bookings[d].key = k.key
<1>. DEFINE mates == Session(k.key, now, b)
<1>1. IsShared(k.key)
  BY DEF FitsSession
<1>2. CASE mates = {}
  <2>1. People(mates) = People({})
    BY <1>2, Zenon
  <2>2. People(mates) = 0 /\ k.people \in Nat /\ k.capacity \in Nat
    BY <2>1, EmptySession DEF Booking
  <2>3. People(mates) + k.people <= k.capacity
    <3>. HIDE DEF mates
    <3>. QED
      BY <2>2
  <2>. QED
    BY <1>2, <2>3 DEF FitsSession
<1>3. CASE mates # {}
  BY <1>1, <1>3 DEF Session
<1>. QED
  BY <1>2, <1>3

\* A row that a released batch of holds leaves active is of a booking that
\* blocks at the time of the request.
LEMMA CollisionBlocks ==
    ASSUME TablesOK, NEW k \in Booking, NEW crew \in SUBSET Resources, NEW now \in Nat,
           NEW b, Collides(RowsOf(b, k, crew), ReleaseRows(Lapsed(k, crew, now)))
    PROVE  \E d \in Blocking(now) :
              /\ Crew(d) \cap crew # {}
              /\ Overlap(From(bookings[d]), To(bookings[d]), From(k), To(k))
<1>. DEFINE due == Lapsed(k, crew, now)
<1>1. PICK n \in RowsOf(b, k, crew), r \in ReleaseRows(due) :
         /\ r.active /\ r.resource = n.resource
         /\ Overlap(r.from, r.to, n.from, n.to)
  BY DEF Collides
<1>2. n.resource \in crew /\ n.from = From(k) /\ n.to = To(k)
  BY DEF RowsOf
<1>3. StoreTypeOK /\ rows \subseteq HoldRow /\ RowsFit
  BY DEF TablesOK, StoreTypeOK
<1>. HIDE DEF due
<1>4. r \in rows /\ r.booking \notin due
  BY <1>1, <1>3, Released
<1>5. r \in HoldRow /\ RowFits(r) /\ r.booking \in Ids
  BY <1>3, <1>4 DEF RowsFit, HoldRow
<1>6. PICK d \in Ids : d = r.booking
  BY <1>5
<1>7. /\ bookings[d] # None /\ bookings[d].status \in Live
      /\ r.from = From(bookings[d]) /\ r.to = To(bookings[d])
  BY <1>1, <1>5, <1>6 DEF RowFits
<1>8. r.resource \in Crew(d)
  BY <1>4, <1>6 DEF Crew
<1>9. bookings[d] \in Booking /\ bookings[d].expires \in Nat
  BY <1>3, <1>7 DEF StoreTypeOK, Booking
<1>10. ~(bookings[d].status = "held" /\ bookings[d].expires <= now)
  BY <1>1, <1>2, <1>4, <1>6, <1>7 DEF due, Lapsed, Exists
<1>11. d \in Blocking(now)
  BY <1>7, <1>9, <1>10 DEF Blocking, IsBlocking, Exists, Live
<1>. QED
  BY <1>1, <1>2, <1>7, <1>8, <1>11

\* A new hold is refused only for a booking that stands in its way at the
\* time of its request: no expired hold that nobody tidied up does it
\* (releaseExpiredHoldsOn before the insert).
THEOREM OnlyLiveAlwaysRefuse == Spec => OnlyLiveBookingsRefuse
<1>1. ASSUME BookingInv, [Next]_vars, NEW c \in Clients, IsRefused(c)
      PROVE  \E b \in Blocking(req[c].now) :
                \/ IsShared(req[c].next.key) /\ bookings[b].key = req[c].next.key
                \/ /\ Crew(b) \cap req[c].crew # {}
                   /\ Overlap(From(bookings[b]), To(bookings[b]),
                              From(req[c].next), To(req[c].next))
  <2>1. CreateHold(c)
    BY <1>1, RefusedAtWrite DEF BookingInv, IInv
  <2>2. PICK q : q = req[c]
    OBVIOUS
  <2>3. /\ q \in Request /\ q.op = "hold" /\ q.phase = "write" /\ HoldFits(q) /\ Carries(q)
    BY <1>1, <2>1, <2>2
       DEF CreateHold, Under, BookingInv, IInv, TypeOK, RequestsOK, RequestsCarry
  <2>4. /\ q.id \in Ids /\ q.next \in Booking /\ q.crew \in SUBSET Resources
        /\ q.now \in Nat /\ q.next.people <= q.next.capacity
    BY <2>3 DEF HoldFits, Carries, HoldCarries, Request
  <2>5. Create(q.id, q.next, q.crew, q.now) /\ bookings'[q.id] = None
    BY <1>1, <2>1, <2>2 DEF CreateHold, IsRefused
  <2>6. /\ TablesOK /\ StoreTypeOK
    BY <1>1, StoreConstants DEF BookingInv, IInv, TablesOK
  <2>7. CASE ~FitsSession(q.next, q.crew, q.now, q.id)
    BY <2>2, <2>4, <2>7, SessionRefuses
  <2>8. CASE Collides(RowsOf(q.id, q.next, q.crew),
                      ReleaseRows(Lapsed(q.next, q.crew, q.now)))
    BY <2>2, <2>4, <2>6, <2>8, CollisionBlocks
  <2>9. ASSUME bookings' = [ExpireBookings(Lapsed(q.next, q.crew, q.now), q.now)
                               EXCEPT ![q.id] = q.next]
        PROVE  FALSE
    <3>1. bookings'[q.id] = q.next
      BY <2>4, <2>9 DEF ExpireBookings
    <3>. QED
      BY <2>4, <2>5, <3>1, StoreConstants
  <2>. QED
    BY <2>5, <2>7, <2>8, <2>9 DEF Create
<1>2. BookingInv /\ [Next]_vars =>
         \A c \in Clients : IsRefused(c) =>
            \E b \in Blocking(req[c].now) :
                \/ IsShared(req[c].next.key) /\ bookings[b].key = req[c].next.key
                \/ /\ Crew(b) \cap req[c].crew # {}
                   /\ Overlap(From(bookings[b]), To(bookings[b]),
                              From(req[c].next), To(req[c].next))
  BY <1>1
<1>. QED
  BY <1>2, BookingAlwaysSound, PTL DEF Spec, OnlyLiveBookingsRefuse
===============================================================================
