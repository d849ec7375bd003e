---------------------------- MODULE NetChannelLive ----------------------------
(***************************************************************************)
(* NetChannel on a network that loses a bounded number of packets, with    *)
(* the timers of the channel: every guaranteed message is delivered and    *)
(* acknowledged in the end.  The users send theirs in the first round.     *)
(*                                                                         *)
(* Time is a sequence of rounds.  A round lasts as long as the longest     *)
(* timeout of a resend: each VIM that is not acknowledged is resent in it, *)
(* and so is a heart-beat or a ping of each peer unless it was skipped     *)
(* because other packets left.  Resends put the heart-beat off, but not    *)
(* the ping, which is tried every PING_TRY_INTERVAL as none is answered;   *)
(* so a peer skips at most MaxSkips rounds in a row.  Timeouts are longer  *)
(* than the trip of a packet (adjustChannel: three times the latency and   *)
(* 0.4 s): a timer expires when nothing is under way.  Resends of both     *)
(* peers may still expire together and cross.  A heart-beat may not cross  *)
(* a resend for ever: its gap is at most 2 s, and resends slow down to one *)
(* in 7 s, so that each round has a heart-beat while nothing is queued.    *)
(***************************************************************************)
EXTENDS NetChannel

CONSTANTS
    MaxVims,     \* MaxVims[p]: bound on the guaranteed messages of p
    MaxLosses,   \* how many packets the network may lose
    MaxSkips     \* how many rounds in a row may pass without a heart-beat

ASSUME LiveAssumption ==
    /\ MaxVims \in [Peer -> Nat]
    /\ MaxLosses \in Nat /\ MaxSkips \in Nat /\ PingRequests = {}

VARIABLES
    losses,      \* packets lost so far
    fired,       \* fired[p]: the messages resent, and 0 for a heart-beat
    skips        \* rounds without a heart-beat in a row

liveVars == <<vars, losses, fired, skips>>

Due(p) == {i \in revisited[p] : msgs[p][i].vim /\ msgs[p][i].status # "ack"}

Acked(p, i) == i \in 1..Len(msgs[p]) /\ msgs[p][i].status = "ack"

Busy == \E p \in Peer : \E i \in Range(dispatched[p]) : ~Acked(p, i)

\* Nothing is under way but what this round's resends have queued.
Idle ==
    /\ net = {}
    /\ \A p \in Peer :
        /\ prepared[p] = 0 /\ draft[p] = 0 /\ working[p] = {}
        /\ Queued(p) \subseteq fired[p]

Quiet == Idle /\ \A p \in Peer : NextToSend(p) = 0

LiveInit ==
    /\ Init
    /\ losses = 0
    /\ fired = [p \in Peer |-> {}]
    /\ skips = [p \in Peer |-> 0]

\* What needs no timer, the receiver takes the packet from the network.
Work(p) ==
    /\ \/ Dispatch(p)
       \/ Transmit(p)
       \/ PostSend(p)
       \/ ProcessVIM(p)
       \/ \E pkt \in net : Receive(p, pkt) /\ net' = net \ {pkt}
    /\ UNCHANGED <<losses, fired, skips>>

Lose(pkt) ==
    /\ losses < MaxLosses
    /\ losses' = losses + 1
    /\ net' = net \ {pkt}
    /\ UNCHANGED <<life, sendVars, recvVars, histVars, fired, skips>>

TimedResend(p, i) ==
    /\ Idle /\ i \notin fired[p]
    /\ Resend(p, i)
    /\ fired' = [fired EXCEPT ![p] = @ \cup {i}]
    /\ UNCHANGED <<losses, skips>>

\* checkConnectivity is due when no other packet left for a while, or when the
\* ping is overdue.
BeatDue(p) == skips[p] = MaxSkips \/ (Due(p) = {} /\ fired[p] \subseteq {0})

Beat(p) ==
    /\ Busy /\ Quiet /\ 0 \notin fired[p] /\ BeatDue(p)
    /\ WriteOutbox(p, HeartBeat(Outbox(p), FALSE))
    /\ fired' = [fired EXCEPT ![p] = @ \cup {0}]
    /\ UNCHANGED <<life, draft, vimQ, lastUrgent, lastVIM, serial, prepared,
                   revisited, recvVars, net, histVars, losses, skips>>

NewRound ==
    /\ Busy /\ Quiet
    /\ \A p \in Peer : /\ Due(p) \subseteq fired[p]
                       /\ BeatDue(p) => 0 \in fired[p]
    /\ fired' = [p \in Peer |-> {}]
    /\ skips' = [p \in Peer |-> IF 0 \in fired[p] THEN 0 ELSE skips[p] + 1]
    /\ UNCHANGED <<vars, losses>>

\* What the threads do by themselves, as long as there is something to do.
Run(p) ==
    \/ Work(p)
    \/ \E i \in revisited[p] : TimedResend(p, i)
    \/ Beat(p)

\* What the user and the network may do or not.
UserWork(p) ==
    /\ \A q \in Peer : fired[q] = {} /\ skips[q] = 0
    /\ Len(dispatched[p]) < MaxVims[p]
    /\ \E kind \in AllKinds : Compose(p, kind)
    /\ UNCHANGED <<losses, fired, skips>>

LiveNext ==
    \/ \E p \in Peer : Run(p) \/ UserWork(p)
    \/ \E pkt \in net : Lose(pkt)
    \/ NewRound

\* The threads never stop.  A round has a bounded number of steps and ends only
\* when all that was due in it happened, so that fairness of all of them
\* together is enough.
Fairness == WF_liveVars((\E p \in Peer : Run(p)) \/ NewRound)

LiveSpec == LiveInit /\ [][LiveNext]_liveVars /\ Fairness

\* Every guaranteed message reaches the call-back of the other peer, though
\* packets and acknowledgements are lost and a duplicate's acks are ignored.
\* (Each user dispatches finitely many, so all are delivered again and again.)
EventuallyDelivered ==
    []<>(\A p \in Peer :
            Range(dispatched[p]) \subseteq Range(delivered[Other(p)]))

\* And its sender learns of it and stops resending it.
EventuallyAcked == []<>~Busy
===============================================================================
