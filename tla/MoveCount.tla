------------------------------ MODULE MoveCount ------------------------------
(***************************************************************************)
(* The booking flow with a count of how often customers moved each         *)
(* booking.  The booking's own count is of no use for that: each move      *)
(* writes the count it read plus one, so two moves that read the booking   *)
(* at one stamp write the same.  The count changes nothing of the flow.    *)
(***************************************************************************)
EXTENDS BookingInvariant

VARIABLE moved  \* id -> how many moves of customers counted; a history variable

countedVars == <<vars, moved>>

\* Client c's request stores the move of a customer, with a stamp later than that of
\* the change it overwrites.
CustomerMoves(c) ==
    /\ req[c] # None
    /\ req[c].op = "move"
    /\ req[c].actor = "customer"
    /\ Stores(c)
    /\ req[c].next.stamp > bookings[req[c].id].stamp

Count ==
    \/ \E c \in Clients : /\ CustomerMoves(c)
                          /\ moved' = [moved EXCEPT ![req[c].id] = @ + 1]
    \/ /\ \A c \in Clients : ~CustomerMoves(c)
       /\ UNCHANGED moved

CountInit == Init /\ moved = [b \in Ids |-> 0]
\* The steps of Next, each with the count kept.
CountNext ==
    \/ Tick /\ Count
    \/ \E c \in Clients :
        \/ BeginHold(c) /\ Count
        \/ CountHolds(c) /\ Count
        \/ AssessHold(c) /\ Count
        \/ CreateHold(c) /\ Count
        \/ BeginConfirm(c) /\ Count
        \/ ReadConfirm(c) /\ Count
        \/ CountEmail(c) /\ Count
        \/ SaveBooking(c) /\ Count
        \/ BeginRelease(c) /\ Count
        \/ ReadRelease(c) /\ Count
        \/ ReadCancel(c) /\ Count
        \/ DecideCancel(c) /\ Count
        \/ ReadMove(c) /\ Count
        \/ DecideMove(c) /\ Count
        \/ AssessMove(c) /\ Count
        \/ BeginFinish(c) /\ Count
        \/ ReadFinish(c) /\ Count
        \/ BeginSweep(c) /\ Count
        \/ SweepHolds(c) /\ Count

CountSpec == CountInit /\ [][CountNext]_countedVars

-----------------------------------------------------------------------------

IsConfirmed(b) == Exists(b) /\ bookings[b].status = "confirmed"

\* A confirmed booking has been moved as often as was counted; only such bookings are.
CountsKnown ==
    \A b \in Ids :
        /\ moved[b] <= MaxMoves
        /\ IsConfirmed(b) => /\ moved[b] <= bookings[b].moves
                             /\ bookings[b].stamp <= clock
        /\ ~Exists(b) \/ bookings[b].status = "held" => moved[b] = 0

\* A move knows the count of what it may still overwrite.
MoveKnows(q) ==
    /\ q.phase \in {"decide", "assess", "write"}
    /\ q.base.stamp <= clock
    /\ q.phase \in {"assess", "write"} => q.base.stamp <= q.now
    /\ q.phase = "write" => /\ q.next.status = "confirmed"
                            /\ q.next.moves = q.base.moves + 1
                            /\ q.next.stamp = q.now
                            /\ q.actor = "customer" => q.base.moves < MaxMoves
    /\ IsConfirmed(q.id) =>
          /\ q.base.stamp <= bookings[q.id].stamp
          /\ q.base.stamp = bookings[q.id].stamp => moved[q.id] <= q.base.moves

CountInv ==
    /\ moved \in [Ids -> Nat]
    /\ CountsKnown
    /\ \A c \in Clients :
          req[c] # None /\ req[c].op = "move" =>
              IF req[c].base.status = "confirmed" THEN MoveKnows(req[c])
                                                  ELSE req[c].phase # "write"

\* Customers move a booking at most MaxMoves times, however many of them and of the
\* staff move it at once (change-policy.ts, the compare-and-swap of save): moves that
\* are stored within the same instant of the clock as the change before them, which
\* the compare-and-swap cannot tell from it, are not counted.
CustomersMoveSeldom == \A b \in Ids : moved[b] <= MaxMoves
=============================================================================
