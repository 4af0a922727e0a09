--------------------------- MODULE MCTuiRuntime ---------------------------
(***************************************************************************)
(* Two boards on one serial port at launch, a third that the topology      *)
(* wizard attaches to the same port while the program runs.                *)
(***************************************************************************)
EXTENDS TuiRuntime

CONSTANTS b1, b2, b3, p1, p2

MCPortOf == [b \in Boards |-> p1]
=============================================================================
