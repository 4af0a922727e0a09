---------------------------- MODULE MCVcSampling ----------------------------
(* One channel of each kind; two reads may be overtaken and three DAC codes
   written, so that a reading can be two writes old. *)
EXTENDS VcSampling

MCBoards == {"hvb", "hvb_voltage", "hvb_current", "lvb"}
=============================================================================
