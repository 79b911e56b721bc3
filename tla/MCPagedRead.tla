----------------------------- MODULE MCPagedRead -----------------------------
(* Instances of PagedRead for TLC.                                          *)
EXTENDS PagedRead

AllTotals  == 0..5
AllOffsets == 0..3
==============================================================================
