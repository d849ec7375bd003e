---------------------------- MODULE MCModDownload ---------------------------
(***************************************************************************)
(* The instance of ModDownload for TLC; its constants are in the .cfg.     *)
(***************************************************************************)
EXTENDS ModDownload
=============================================================================
