---------------------------- MODULE MCNetSession ----------------------------
(***************************************************************************)
(* The instance of NetSession for TLC; its constants are in the .cfg.      *)
(***************************************************************************)
EXTENDS NetSession
=============================================================================
