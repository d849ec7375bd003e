------------------------------- MODULE VimChains -------------------------------
(***************************************************************************)
(* What the channel promises of guaranteed messages (VIM) whoever sends    *)
(* them: each may wait for one that was sent before it, no two for the     *)
(* same, and each is delivered once, after the one it waits for.           *)
(***************************************************************************)
EXTENDS Naturals, Sequences

CONSTANT Peer

VARIABLES
    after,    \* after[p][k]: the one the k-th VIM of p waits for, or 0
    taken     \* taken[p]: which of them the other peer was given

chainVars == <<after, taken>>

ChainInit ==
    /\ after = [p \in Peer |-> <<>>]
    /\ taken = [p \in Peer |-> {}]

Send(p, prev) ==
    /\ prev \in 0..Len(after[p])
    /\ prev # 0 => \A k \in 1..Len(after[p]) : after[p][k] # prev
    /\ after' = [after EXCEPT ![p] = Append(@, prev)]
    /\ UNCHANGED taken

Ready(p, k) ==
    /\ k \in 1..Len(after[p]) /\ k \notin taken[p]
    /\ after[p][k] \in taken[p] \cup {0}

Take(p, k) ==
    /\ Ready(p, k)
    /\ taken' = [taken EXCEPT ![p] = @ \cup {k}]
    /\ UNCHANGED after

ChainNext ==
    \E p \in Peer :
        \/ \E prev \in 0..Len(after[p]) : Send(p, prev)
        \/ \E k \in 1..Len(after[p]) : Take(p, k)

ChainSpec == ChainInit /\ [][ChainNext]_chainVars
===============================================================================
