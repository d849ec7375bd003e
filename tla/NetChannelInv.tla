---------------------------- MODULE NetChannelInv -----------------------------
(***************************************************************************)
(* The inductive invariant behind the theorems of NetChannelProofs: how    *)
(* the queues, serials and states of a sender's messages hang together,    *)
(* and how the packets on the network relate to those messages.            *)
(***************************************************************************)
EXTENDS NetChannel

\* The queues of p, with those of the outgoing side out the listener works on.
QueuedIn(p, out) == Range(out.urgentQ) \cup Range(vimQ[p]) \cup Range(out.commonQ)

\* The three queues share no message and hold none twice; ...
QueuesApart(p, out) ==
    /\ IsInjective(out.urgentQ) /\ IsInjective(vimQ[p])
    /\ IsInjective(out.commonQ)
    /\ Range(out.urgentQ) \cap Range(vimQ[p]) = {}
    /\ Range(out.urgentQ) \cap Range(out.commonQ) = {}
    /\ Range(vimQ[p]) \cap Range(out.commonQ) = {}

\* ... what is prepared, remembered or not yet dispatched is in none of them.
PlacesApart(p, out) ==
    /\ QueuesApart(p, out)
    /\ QueuedIn(p, out) \cap (revisited[p] \cup {draft[p], prepared[p]}) = {}
    /\ prepared[p] \notin revisited[p]

\* Where message i may stand depends on its status, and has a serial or not.
StatusFits(p, out, i) ==
    LET m == out.msgs[i]
    IN  /\ m.serial \in 0..serial[p] - 1
        /\ m.status = "new" => m.serial = 0
        /\ m.status \in {"pending", "sent", "ack"} => m.serial # 0
        /\ i \in QueuedIn(p, out) => m.status \in {"new", "sent"}
        /\ i = prepared[p] => m.status \in {"pending", "sent"}
        /\ i \in revisited[p] => m.status \in {"sent", "ack"}
        /\ i = draft[p] => m.status = "new"
        /\ m.pred \in 0..Len(out.msgs) /\ m.ctl2 \in 0..serial[p] - 1
        /\ i \in Range(out.commonQ) => ~m.vim

\* A dispatched VIM is somewhere, until it is acknowledged or cancelled.
VimKept(p, out, i) ==
    /\ out.msgs[i].vim
    /\ \/ ~opened[p]
       \/ i \in QueuedIn(p, out) \cup revisited[p] \cup {prepared[p]}
       \/ out.msgs[i].status \in {"ack", "cancel"}

\* The serials given so far are 1, 2, ... and each belongs to one message.
SerialsFit(ms, next) ==
    /\ \A i, j \in 1..Len(ms) :
          ms[i].serial = ms[j].serial /\ ms[i].serial # 0 => i = j
    /\ \A s \in 1..next - 1 : \E i \in 1..Len(ms) : ms[i].serial = s

\* Whatever refers to a message of p refers to one that exists.
OutTypes(p, out) ==
    /\ out \in [msgs : Seq(NetMessage), urgentQ : Seq(Nat), commonQ : Seq(Nat)]
    /\ {draft[p], prepared[p], lastUrgent[p], lastVIM[p]}
          \subseteq 0..Len(out.msgs)
    /\ QueuedIn(p, out) \cup revisited[p] \subseteq 1..Len(out.msgs)
    /\ Range(dispatched[p]) \subseteq 1..Len(out.msgs)
    /\ serial[p] \in 1..Len(out.msgs) + 1

Sound(p, out) ==
    /\ OutTypes(p, out)
    /\ PlacesApart(p, out)
    /\ \A i \in 1..Len(out.msgs) : StatusFits(p, out, i)
    /\ \A i \in Range(dispatched[p]) : VimKept(p, out, i)
    /\ SerialsFit(out.msgs, serial[p])

\* A packet tells of its message what will stay so.
PacketSound(pkt) ==
    LET m == msgs[pkt.src][pkt.id]
    IN  /\ pkt.id \in 1..Len(msgs[pkt.src])
        /\ m.serial = pkt.serial /\ m.vim = pkt.vim /\ m.dummy = pkt.dummy
        /\ pkt.pred = IF m.ord THEN m.ctl2 ELSE 0
        /\ m.ord => m.pred = 0

IInv ==
    /\ SenderTypes /\ ReceiverTypes /\ net \subseteq PacketSet
    /\ \A p \in Peer :
          /\ Len(msgs[p]) =< MaxMsgs[p]
          /\ Sound(p, Outbox(p))
          /\ ReceiverBounds(p)
    /\ \A pkt \in net : PacketSound(pkt)
-----------------------------------------------------------------------------
(***************************************************************************)
(* The receiving side, while the bit-masks need not move on: no serial is  *)
(* outside their span then.                                                *)
(***************************************************************************)
MasksSuffice == \A p \in Peer : MaxMsgs[p] =< MaxMask

Incoming(p) == {pkt \in net : pkt.src = Other(p)}
Held(p) == deferred[p] \cup working[p]

\* What counts as received was received.
MaskTrue(p) == \A s \in ackMask[p] : \E pkt \in Incoming(p) : pkt.serial = s

\* What waits for its call-back was received and not yet processed, in one
\* packet; what was given to the call-back was received, and is processed.
ReceivedOnce(p) ==
    /\ ackMin[p] = 1 /\ procMask[p] \subseteq ackMask[p]
    /\ \A d \in Held(p) : d.vim /\ d.serial \in ackMask[p] \ procMask[p]
    /\ \A d, e \in Held(p) : d.serial = e.serial => d = e
    /\ deferred[p] \cap working[p] = {}
    /\ IsInjective(delivered[p])
    /\ \A i \in Range(delivered[p]) : \E pkt \in Incoming(p) :
          /\ pkt.id = i /\ pkt.serial \in ackMask[p]
          /\ pkt.vim => pkt.serial \in procMask[p]

\* A VIM that was received is held until it is processed, which is after its
\* predecessor, and then it was given to the call-back.
HeldUntilProcessed(p) ==
    /\ \A d \in working[p] : d.pred = 0 \/ d.pred \in procMask[p]
    /\ \A pkt \in Incoming(p) :
          registered[p] /\ pkt.vim /\ pkt.serial \in ackMask[p] =>
             IF pkt.serial \in procMask[p] THEN pkt.id \in Range(delivered[p])
             ELSE \E d \in Held(p) : d.serial = pkt.serial

\* Acks are for what was received, and what is marked was acknowledged.
AcksSound(p) ==
    /\ \A pkt \in net : pkt.src = p => pkt.acks \subseteq ackMask[p]
    /\ \A i \in 1..Len(msgs[p]) :
          msgs[p][i].status = "ack" => msgs[p][i].serial \in ackMask[Other(p)]

-----------------------------------------------------------------------------
(***************************************************************************)
(* The chains of VIMs: who is ordered behind whom, and where the two are,  *)
(* in a sender's messages ms and its queues uq (urgent) and vq (VIM), with *)
(* the draft d, and the last VIM of each class in last.                    *)
(***************************************************************************)
\* Message i is ordered behind message j, known by its id until i is sent, or
\* by its serial.
Follows(ms, i, j) ==
    /\ ms[i].ord
    /\ IF ms[i].pred # 0 THEN j = ms[i].pred
       ELSE ms[i].ctl2 # 0 /\ ms[j].serial = ms[i].ctl2

\* An ORDERED message is a VIM, and knows the serial of its predecessor, which
\* is below its own, once it has been sent.
Linked(m) ==
    /\ m.ord => m.vim
    /\ ~m.ord \/ m.serial # 0 => m.pred = 0
    /\ m.ord /\ m.pred = 0 => m.ctl2 # 0
    /\ m.ord /\ m.serial # 0 => m.ctl2 < m.serial

Unsent(ms, j) == j # 0 /\ ms[j].serial = 0

\* Where a message of a class is before it is sent.
Waiting(uq, vq, urg) == Range(uq) \cup (IF urg THEN {} ELSE Range(vq))

\* j stands before i in the sequence q.
Before(q, j, i) == \E a, b \in 1..Len(q) : b < a /\ q[a] = i /\ q[b] = j

\* j is sent before i.
Ahead(uq, vq, j, i) ==
    \/ Before(uq, j, i) \/ Before(vq, j, i)
    \/ j \in Range(uq) /\ i \in Range(vq)

\* The last VIM of a class is one of that class, and queued until it is sent.
LastKnown(ms, uq, vq, d, last) ==
    \A urg \in BOOLEAN :
        LET j == last[urg]
        IN  j # 0 => /\ j # d /\ ms[j].vim /\ ms[j].urg = urg
                     /\ Unsent(ms, j) => j \in Waiting(uq, vq, urg)

\* A message that waits for another one to get its serial is sent after it.
PredecessorAhead(ms, uq, vq, d) ==
    /\ \A i \in Range(uq) \cup Range(vq) :
          Unsent(ms, ms[i].pred) => Ahead(uq, vq, ms[i].pred, i)
    /\ d # 0 /\ Unsent(ms, ms[d].pred) =>
          ms[d].pred \in Waiting(uq, vq, ms[d].urg)

\* Each message has one successor at most, and then is a VIM of the same class;
\* the draft has none, and the last of a class none but the draft.
OneFollows(ms, d, last) ==
    LET Id == 1..Len(ms)
    IN  /\ \A i, k, j \in Id : Follows(ms, i, j) /\ Follows(ms, k, j) => i = k
        /\ \A i, j \in Id :
              Follows(ms, i, j) => ms[j].vim /\ ms[i].urg = ms[j].urg
        /\ d # 0 => \A k \in Id : ~Follows(ms, k, d)
        /\ \A urg \in BOOLEAN, k \in Id :
              last[urg] # 0 /\ Follows(ms, k, last[urg]) => k = d

Chain(ms, uq, vq, d, last) ==
    /\ \A i \in 1..Len(ms) : Linked(ms[i])
    /\ LastKnown(ms, uq, vq, d, last)
    /\ PredecessorAhead(ms, uq, vq, d)
    /\ OneFollows(ms, d, last)

LastVIMs(p) == [urg \in BOOLEAN |-> IF urg THEN lastUrgent[p] ELSE lastVIM[p]]

ChainSound(p) ==
    Chain(msgs[p], urgentQ[p], vimQ[p], draft[p], LastVIMs(p))

ChainsSound == \A p \in Peer : ChainSound(p)
===============================================================================
