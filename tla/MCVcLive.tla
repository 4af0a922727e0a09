------------------------------ MODULE MCVcLive ------------------------------
(***************************************************************************)
(* VcControllerLive on the instances of MCVcController.                    *)
(***************************************************************************)
EXTENDS VcControllerLive, MCVcController
=============================================================================
