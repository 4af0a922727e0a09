----------------------------- MODULE LinkConfig -----------------------------
(***************************************************************************)
(* What the Modbus adapter promises of its link configuration (the slave   *)
(* address and the baud rate): a configuration written for the next start  *)
(* survives losing power at any moment and is the one the next start uses, *)
(* unless the start cannot read it, and then it is the default for that    *)
(* start and the following ones; whatever is in use was a whole, valid     *)
(* configuration.                                                          *)
(***************************************************************************)
CONSTANTS
    Valid,      \* the valid configurations
    Default,
    NoConfig    \* the link is not in use

VARIABLES
    next,       \* what the next start will use
    active      \* what is in use, or NoConfig

vars == <<next, active>>

Init ==
    /\ next \in Valid
    /\ active = NoConfig

Start ==
    /\ active = NoConfig
    /\ active' = next
    /\ UNCHANGED next

StartUnreadable ==
    /\ active = NoConfig
    /\ next' = Default
    /\ active' = Default

Store ==
    /\ active # NoConfig
    /\ next' \in Valid
    /\ UNCHANGED active

Apply ==
    /\ active # NoConfig
    /\ active' \in Valid
    /\ UNCHANGED next

Stop ==
    /\ active' = NoConfig
    /\ UNCHANGED next

Next == Start \/ StartUnreadable \/ Store \/ Apply \/ Stop

Spec == Init /\ [][Next]_vars
=============================================================================
