---------------------------- MODULE MCVcRetryLog ----------------------------
(***************************************************************************)
(* VcRetryLog on the instances of MCVcController.                          *)
(***************************************************************************)
EXTENDS VcRetryLog, MCVcController
=============================================================================
