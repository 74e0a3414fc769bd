---------------------------- MODULE MCAutoQueues ----------------------------
(* AutoQueues of an agent of two dynamic queues and a static one, for TLC. *)
EXTENDS AutoQueues

CONSTANTS sales, support, board

ThreeQueues == <<sales, board, support>>
TwoDynamic  == {sales, support}
=============================================================================
