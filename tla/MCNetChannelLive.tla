--------------------------- MODULE MCNetChannelLive ---------------------------
(***************************************************************************)
(* Instances of NetChannelLive for TLC.                                    *)
(***************************************************************************)
EXTENDS NetChannelLive, TLC

CONSTANTS server, client

Ends == {server, client}
Both(s, c) == server :> s @@ client :> c

TwoWay == Both({"vim"}, {"vim"})
TwoAndOne == Both(2, 1)
Room == Both(10, 10)
===============================================================================
