----------------------------- MODULE MCMoveCount -----------------------------
(* The instances of MCBookingFlow, with the moves of customers counted.     *)
EXTENDS MCBookingFlow, MoveCount
=============================================================================
