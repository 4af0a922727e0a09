-------------------------- MODULE MCRegisterAccess --------------------------
(* The channels of the two boards, and two other combinations of
   capabilities that a devicetree may describe. *)
EXTENDS RegisterAccess

MCBoards ==
    {Capabilities,
     {"VOLTAGE_MEASUREMENT", "CURRENT_MEASUREMENT"},
     {"OUTPUT_ENABLE", "VOLTAGE_MEASUREMENT", "CURRENT_MEASUREMENT"},
     {"OUTPUT_ENABLE", "RAW_OUTPUT_DRIVE"}}
=============================================================================
