---------------------------- MODULE MCQuickSort ----------------------------
(***************************************************************************)
(* QuickSort for TLC: two tasks SORT and lists of four numbers.  N must be  *)
(* twice M for RoomLeft: see the README.                                   *)
(***************************************************************************)
EXTENDS QuickSort

MCValue == 1..3

=============================================================================
