----------------------------- MODULE VimDelivery ------------------------------
(***************************************************************************)
(* What the channel promises of the messages a peer sends: each reaches    *)
(* the other peer at most once, and the guaranteed ones (VIM) of a class,  *)
(* urgent or not, in the order they were sent and without a gap.  Nothing  *)
(* is promised between the classes, nor of the other messages.             *)
(***************************************************************************)
EXTENDS Naturals, Sequences

CONSTANTS Peer, Message

VARIABLES
    sent,     \* sent[p]: the VIMs p sent, each with its class
    given     \* given[p]: all that the other peer was given of p

deliveryVars == <<sent, given>>

Given(p) == {given[p][b] : b \in 1..Len(given[p])}

Init ==
    /\ sent = [p \in Peer |-> <<>>]
    /\ given = [p \in Peer |-> <<>>]

Send(p, m, urg) ==
    /\ \A k \in 1..Len(sent[p]) : sent[p][k].id # m
    /\ m \notin Given(p)
    /\ sent' = [sent EXCEPT ![p] = Append(@, [id |-> m, urg |-> urg])]
    /\ UNCHANGED given

\* A VIM is given when all those of its class before it were.
Give(p, m) ==
    /\ m \notin Given(p)
    /\ \A k \in 1..Len(sent[p]) : \A j \in 1..k-1 :
          sent[p][k].id = m /\ sent[p][j].urg = sent[p][k].urg
              => sent[p][j].id \in Given(p)
    /\ given' = [given EXCEPT ![p] = Append(@, m)]
    /\ UNCHANGED sent

Next ==
    \E p \in Peer, m \in Message :
        Give(p, m) \/ \E urg \in BOOLEAN : Send(p, m, urg)

Spec == Init /\ [][Next]_deliveryVars
===============================================================================
