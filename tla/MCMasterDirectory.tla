--------------------------- MODULE MCMasterDirectory ---------------------------
(***************************************************************************)
(* Instances of MasterDirectory for TLC.                                   *)
(***************************************************************************)
EXTENDS MasterDirectory

SixTokens == 1 .. 6
================================================================================
