----------------------------- MODULE MCNetChannel -----------------------------
(***************************************************************************)
(* Instances of NetChannel for TLC: a server and a client, with windows of *)
(* a few serials where the code has some of 32, 64 and 1024.               *)
(***************************************************************************)
EXTENDS NetChannelInv, TLC

CONSTANTS server, client,
          MaxPackets  \* bound on the packets that differ, per peer

Ends == {server, client}
Both(s, c) == server :> s @@ client :> c

\* Guaranteed messages of every kind, only the server has any.
Mixed == Both({"vim", "handshake", "urgentVim", "urgent"}, {})
\* Messages of a session that ends, with one of the client's among them.
Stopped == Both({"vim", "control", "handshake"}, {"common"})

TwoAndOne == Both(2, 1)
ThreeAndOne == Both(3, 1)
FourAndOne == Both(4, 1)

FewPackets ==
    \A p \in Ends : Cardinality({pkt \in net : pkt.src = p}) =< MaxPackets[p]
===============================================================================
