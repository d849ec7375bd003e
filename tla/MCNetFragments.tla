---------------------------- MODULE MCNetFragments ----------------------------
(***************************************************************************)
(* Instances of NetFragments for TLC.                                      *)
(***************************************************************************)
EXTENDS NetFragments, TLC

CONSTANTS server, client

Ends == {server, client}
Both(s, c) == server :> s @@ client :> c

TwoAndOne == Both(2, 1)
===============================================================================
