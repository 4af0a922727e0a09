-------------------------- MODULE MCModbusAdapter --------------------------
(***************************************************************************)
(* Two slave addresses and two baud rates that are valid, one of each that *)
(* is not, and a storage that holds nothing, a valid record or a bad one.  *)
(***************************************************************************)
EXTENDS ModbusAdapter

MCDefault == [slave_address |-> 1, baud_rate_code |-> 0]
MCCommissioned ==
    {NoRecord, [slave_address |-> 2, baud_rate_code |-> 0],
     [slave_address |-> 0, baud_rate_code |-> 0]}
=============================================================================
