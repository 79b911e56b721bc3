-------------------------- MODULE BookingProperties --------------------------
(***************************************************************************)
(* What must be true of the booking flow, what a step of it may never do,  *)
(* and the calendar whose promises it keeps.                               *)
(***************************************************************************)
EXTENDS BookingFlow

CONSTANT Gone  \* the place of a booking that no longer has one

\* Neither None nor Gone is a place in the calendar.
ASSUME PlaceConstants ==
    /\ None # Gone
    /\ {None, Gone} \cap [firm: BOOLEAN, crew: SUBSET Resources, from: Int,
                         to: Int, key: Keys] = {}

IsLive(b) == Exists(b) /\ bookings[b].status \in Live

\* The two tables agree, whatever raced: a booking that stands has active
\* rows for exactly its span and key, an expired hold has only inactive
\* rows, one that ended has none (holdRows and expireHolds, which write one
\* table after the other).
RowsFollowBookings ==
    \A b \in Ids :
        LET mine == {r \in rows : r.booking = b}
        IN  /\ IsLive(b) => /\ mine = RowsOf(b, bookings[b], Crew(b))
                            /\ mine # {}
            /\ ~IsLive(b) => \A r \in mine : ~r.active
            /\ Exists(b) /\ bookings[b].status = "expired" => mine # {}
            /\ Exists(b) /\ bookings[b].status \in {"cancelled", "completed", "no_show"}
                  => mine = {}

Meets(b, d) ==
    /\ Crew(b) \cap Crew(d) # {}
    /\ Overlap(From(bookings[b]), To(bookings[b]),
               From(bookings[d]), To(bookings[d]))

\* No double booking: two bookings that stand and meet on a resource are of
\* one session, however requests raced past the availability check (the
\* promise of BookingRepository.create and save).
NoDoubleBooking ==
    \A b, d \in Ids :
        b # d /\ IsLive(b) /\ IsLive(d) /\ Meets(b, d)
            => bookings[b].key = bookings[d].key

\* A session never has more participants than any of its bookings was
\* promised, although requests read it before they write and judge the
\* holds in it by times of their own (checkSession under the session lock).
SessionsFit ==
    \A b \in Blocking(clock) :
        IsShared(bookings[b].key) =>
            People(Session(bookings[b].key, clock, None)) <= bookings[b].capacity

\* All bookings of one session stand on the same resources: two requests
\* that both began it elsewhere do not split it (checkSession).
SessionsTogether ==
    \A b, d \in Blocking(clock) :
        /\ IsShared(bookings[b].key)
        /\ bookings[b].key = bookings[d].key
        => Crew(b) = Crew(d)

\* Sessions stay sound however requests race for their places and their crew.
SessionsSound == SessionsTogether /\ SessionsFit

\* The cap on live holds is checked before the write and not in it, so it
\* can be passed; by no more than the requests that run at once less one
\* (HoldSlot counts, then creates).
HoldsBounded ==
    MaxLiveHolds > 0 =>
        Cardinality(LiveHolds(clock)) < MaxLiveHolds + Cardinality(Clients)

\* A booking only ever moves along the lifecycle, and what ended stays as it
\* was, whoever wrote from a stale read (the compare-and-swap of save and
\* the second look of expireHolds).
LawfulStatus ==
    [][\A b \in Ids : Exists(b) =>
          \/ bookings'[b] = bookings[b]
          \/ bookings'[b].status = "confirmed" /\ bookings[b].status = "confirmed"
          \/ bookings'[b].status \in Transitions[bookings[b].status]]_vars

\* A booking keeps the customer it was confirmed for: of two confirmations of
\* one hold under different addresses, one loses (ConfirmBooking).
CustomerKept ==
    [][\A b \in Ids : Exists(b) /\ bookings[b].customer # None =>
          bookings'[b].customer = bookings[b].customer]_vars

\* This step ends request c and stores the booking it wanted to write.
Stores(c) ==
    /\ req[c] # None
    /\ req[c].phase = "write"
    /\ req[c].op # "sweep"
    /\ req'[c] = None
    /\ bookings'[req[c].id] = req[c].next
    /\ bookings[req[c].id] # req[c].next

\* This step ends request c, a new hold, and stores nothing.
IsRefused(c) ==
    /\ Under(c, "hold", "write")
    /\ req'[c] = None
    /\ bookings'[req[c].id] = None

\* A new hold is refused only because of a booking that stands in its way at
\* the request's time: an expired hold nobody tidied up never refuses a
\* visitor (releaseExpiredHoldsOn before the insert).
OnlyLiveBookingsRefuse ==
    [][\A c \in Clients : IsRefused(c) =>
          \E b \in Blocking(req[c].now) :
              \/ IsShared(req[c].next.key) /\ bookings[b].key = req[c].next.key
              \/ /\ Crew(b) \cap req[c].crew # {}
                 /\ Overlap(From(bookings[b]), To(bookings[b]),
                            From(req[c].next), To(req[c].next))]_vars


-----------------------------------------------------------------------------
(* The calendar that the tables stand for.                                 *)

PlaceOf(b) ==
    IF ~Exists(b) THEN None
    ELSE IF bookings[b].status \in Live
    THEN [firm |-> bookings[b].status = "confirmed", crew |-> Crew(b),
          from |-> From(bookings[b]), to |-> To(bookings[b]),
          key |-> bookings[b].key]
    ELSE Gone

Plan == INSTANCE Calendar WITH place <- [b \in Ids |-> PlaceOf(b)]

\* The booking flow keeps the calendar's promises: whatever requests race, a
\* confirmed booking is moved or ended by its own change only, a hold is put
\* out only by expiry, and nobody's place is taken (create and save).
KeepsCalendar == Plan!CalendarSpec

-----------------------------------------------------------------------------
(* What comments and documents say, and the code does not keep.            *)

\* "a hold that lapsed or was released cannot be confirmed"
\* (confirm-booking.ts:33): no hold is confirmed once its time is over.
LapsedNeverConfirmed ==
    [][\A b \in Ids : Exists(b) /\ bookings[b].status = "held"
                      /\ bookings'[b].status = "confirmed" =>
          bookings[b].expires > clock]_vars
=============================================================================
