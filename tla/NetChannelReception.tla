------------------------- MODULE NetChannelReception -------------------------
(***************************************************************************)
(* Proofs about the receiving side of NetChannel: what is acknowledged was *)
(* received, what was received is given to the call-back once, and an      *)
(* acknowledged VIM is with its receiver.                                  *)
(***************************************************************************)
EXTENDS NetChannelProofs

-----------------------------------------------------------------------------
(***************************************************************************)
(* The steps, as the receiving side sees them.                             *)
(***************************************************************************)
StillStep == UNCHANGED <<recvVars, net, delivered, registered>>

ReceptionStep(p) ==
    \/ Transmit(p) \/ ProcessVIM(p) \/ Unregister(p)
    \/ \E pkt \in net : /\ pkt.src # p /\ UNCHANGED net
                        /\ ReceiveAgain(p, pkt) \/ ReceiveNew(p, pkt)

LEMMA StepKinds ==
    ASSUME [Next]_vars
    PROVE  StillStep \/ \E p \in Peer : ReceptionStep(p)
<1>1. ASSUME NEW p \in Peer, NEW kind \in AllKinds,
             Compose(p, kind) \/ DispatchPlain(p, kind)
      PROVE  StillStep
    BY <1>1 DEF Compose, DispatchPlain, StillStep, life, histVars
<1>2. ASSUME NEW p \in Peer, Dispatch(p) \/ CancelAllMessages(p) \/ Close(p)
      PROVE  StillStep
    BY <1>2 DEF Dispatch, CancelAllMessages, Close, CancelQueues, StillStep,
                life, histVars
<1>3. ASSUME NEW p \in Peer, PostSend(p) \/ DropObsolete(p) \/ CheckConnectivity(p)
      PROVE  StillStep
    BY <1>3 DEF PostSend, DropObsolete, CheckConnectivity, StillStep, life, histVars
<1>4. ASSUME NEW p \in Peer, NEW i \in revisited[p], Resend(p, i) \/ Discard(p, i)
      PROVE  StillStep
    BY <1>4 DEF Resend, Discard, StillStep, life, histVars
<1>5. CASE UNCHANGED vars
    BY <1>5 DEF vars, StillStep, life, histVars
<1>6. CASE Next
    BY <1>1, <1>2, <1>3, <1>4, <1>6
       DEF Next, UserStep, SenderStep, ListenerStep, Receive, ReceptionStep
<1> QED BY <1>5, <1>6

\* A transmission sends one packet, with acks for what was received, and counts
\* them.
LEMMA TransmitFact ==
    ASSUME NEW p \in Peer, Transmit(p)
    PROVE  \E i, h :
              /\ net' = net \cup {Packet(p, i, h)} /\ CountAcks(p, h)
              /\ UNCHANGED <<registered, inputMax, inputMin, ackMin, ackMask,
                             procMask, deferred, working, delivered>>
<1>1. PICK bw \in Bandwidths :
         LET i == NextToSend(p)
             m == Header(p, i, bw)
         IN  net' = net \cup {Packet(p, i, m)} /\ CountAcks(p, m)
    BY DEF Transmit
<1>2. PICK i, h : net' = net \cup {Packet(p, i, h)} /\ CountAcks(p, h)
    BY <1>1
<1> QED BY <1>2 DEF Transmit, life, histVars

\* What a step may do to what p has received.
LEMMA NewAckMask ==
    ASSUME NEW p \in Peer, Invariant, NEW pkt \in net, pkt.src # p,
           ReceiveNew(p, pkt)
    PROVE  /\ ackMask'[p] \subseteq ackMask[p] \cup {pkt.serial}
           /\ \A q \in Peer \ {p} : SameWindows(q)
<1>1. ReceiverInv
    BY DEF Invariant
<1>2. /\ ackMask \in [Peer -> SUBSET Nat] /\ ackMin \in [Peer -> Nat]
      /\ procMask \in [Peer -> SUBSET Nat]
      /\ deferred \in [Peer -> SUBSET net] /\ working \in [Peer -> SUBSET net]
      /\ delivered \in [Peer -> Seq(Nat)]
      /\ inputMax \in [Peer -> Nat] /\ inputMin \in [Peer -> Nat]
      /\ ackLeft = [q \in Peer |-> ackLeft[q]]
    BY <1>1 DEF ReceiverInv, ReceiverTypes
<1>3. ackMask'[p] \subseteq ackMask[p] \cup {pkt.serial}
    BY <1>2 DEF ReceiveNew, MoveWindows
<1>4. ASSUME NEW q \in Peer \ {p}
      PROVE  SameWindows(q)
    <2>1. /\ inputMax'[q] = inputMax[q] /\ inputMin'[q] = inputMin[q]
          /\ ackMin'[q] = ackMin[q] /\ ackMask'[q] = ackMask[q]
          /\ procMask'[q] = procMask[q] /\ ackLeft'[q] = ackLeft[q]
        BY <1>2 DEF ReceiveNew, MoveWindows
    <2>2. oldAcks'[q] = oldAcks[q] /\ deferred'[q] = deferred[q]
             /\ working'[q] = working[q] /\ delivered'[q] = delivered[q]
        BY <1>2 DEF ReceiveNew, Sort
    <2> QED BY <2>1, <2>2 DEF SameWindows
<1> QED BY <1>3, <1>4

-----------------------------------------------------------------------------
(***************************************************************************)
(* No ack is forgotten.                                                    *)
(***************************************************************************)
MasksTrue == \A p \in Peer : MaskTrue(p)

LEMMA MasksTrueStep ==
    ASSUME Invariant, MasksTrue, [Next]_vars
    PROVE  MasksTrue'
<1>1. CASE StillStep
    BY <1>1 DEF StillStep, recvVars, MasksTrue, MaskTrue, Incoming
<1>2. ASSUME NEW p \in Peer, Transmit(p)
      PROVE  MasksTrue'
    <2>1. net \subseteq net' /\ ackMask' = ackMask
        BY <1>2, TransmitFact
    <2> QED BY <2>1 DEF MasksTrue, MaskTrue, Incoming
<1>3. ASSUME NEW p \in Peer, ProcessVIM(p) \/ Unregister(p)
      PROVE  MasksTrue'
    <2>1. UNCHANGED <<net, ackMask>>
        BY <1>3 DEF ProcessVIM, Unregister
    <2> QED BY <2>1 DEF MasksTrue, MaskTrue, Incoming
<1>4. ASSUME NEW p \in Peer, NEW pkt \in net, pkt.src # p, UNCHANGED net,
             ReceiveAgain(p, pkt)
      PROVE  MasksTrue'
    <2>1. UNCHANGED <<net, ackMask>>
        BY <1>4 DEF ReceiveAgain
    <2> QED BY <2>1 DEF MasksTrue, MaskTrue, Incoming
<1>5. ASSUME NEW p \in Peer, NEW pkt \in net, pkt.src # p, UNCHANGED net,
             ReceiveNew(p, pkt)
      PROVE  MasksTrue'
    <2>1. pkt \in Incoming(p)
        BY <1>5, PacketFact DEF Invariant, ReceiverInv, Incoming
    <2>2. \A q \in Peer : Incoming(q)' = Incoming(q)
        BY <1>5 DEF Incoming
    <2>3. /\ ackMask'[p] \subseteq ackMask[p] \cup {pkt.serial}
          /\ \A q \in Peer \ {p} : ackMask'[q] = ackMask[q]
        BY <1>5, NewAckMask DEF SameWindows
    <2> QED BY <2>1, <2>2, <2>3 DEF MasksTrue, MaskTrue
<1> QED BY <1>1, <1>2, <1>3, <1>4, <1>5, StepKinds DEF ReceptionStep

\* A message and its serial belong together, in all packets of a peer.
LEMMA OneSerial ==
    ASSUME Invariant, NEW a \in net, NEW b \in net, a.src = b.src,
           a.serial = b.serial
    PROVE  a.id = b.id /\ a.vim = b.vim /\ a.dummy = b.dummy /\ a.pred = b.pred
<1>1. a \in PacketSet /\ PacketSound(a) /\ PacketSound(b)
    BY DEF Invariant, ReceiverInv, PacketsSound
<1>2. a.src \in Peer /\ a.serial # 0
    BY <1>1, PacketFact
<1>3. SerialsFit(msgs[a.src], serial[a.src])
    BY <1>2, SoundParts DEF Invariant
<1>4. /\ a.id \in 1..Len(msgs[a.src]) /\ b.id \in 1..Len(msgs[a.src])
      /\ msgs[a.src][a.id].serial = a.serial
      /\ msgs[a.src][b.id].serial = b.serial
    BY <1>1 DEF PacketSound
<1>5. a.id = b.id
    BY <1>2, <1>3, <1>4 DEF SerialsFit
<1> QED BY <1>1, <1>5 DEF PacketSound

\* A packet with a serial that was received repeats one that was there.
LEMMA OldPacket ==
    ASSUME Invariant, Invariant', MasksTrue, net \subseteq net',
           UNCHANGED ackMask, NEW q \in Peer, NEW pkt \in net', pkt.src # q,
           pkt.serial \in ackMask[q]
    PROVE  \E old \in net : /\ old.src = pkt.src /\ old.serial = pkt.serial
                            /\ old.id = pkt.id /\ old.vim = pkt.vim
<1>1. PICK old \in Incoming(q) : old.serial = pkt.serial
    BY DEF MasksTrue, MaskTrue
<1>2. old.src = pkt.src /\ old \in net /\ old \in net'
    <2>1. pkt \in PacketSet
        BY DEF Invariant, ReceiverInv, PacketSet, Ids, Serials, Other
    <2> QED BY <1>1, <2>1, PacketFact, OtherFact DEF Incoming
<1>3. PacketSound(old)' /\ PacketSound(pkt)'
    BY <1>2 DEF Invariant, PacketsSound
<1>4. old.id = pkt.id
    <2>1. old.src \in Peer /\ old.serial # 0
        BY <1>2, PacketFact DEF Invariant, ReceiverInv
    <2>2. SerialsFit(msgs[old.src], serial[old.src])'
        BY <2>1 DEF Invariant, SenderInv, Sound, Outbox
    <2>3. /\ old.id \in 1..Len(msgs'[old.src]) /\ pkt.id \in 1..Len(msgs'[old.src])
          /\ msgs'[old.src][old.id].serial = old.serial
          /\ msgs'[old.src][pkt.id].serial = pkt.serial
        BY <1>2, <1>3 DEF PacketSound
    <2> QED BY <1>1, <2>1, <2>2, <2>3 DEF SerialsFit
<1> QED BY <1>1, <1>2, <1>3, <1>4 DEF PacketSound

AckKept(p, s) ==
    \/ ackLeft[p][s] > 0
    \/ \E back \in net : back.src = p /\ s \in back.acks

\* An ack is counted only when it leaves.
LEMMA TransmitKeepsAcks ==
    ASSUME NEW p \in Peer, NEW q \in Peer, Invariant, Transmit(p),
           NEW s \in ackMask[q], AckKept(q, s)
    PROVE  AckKept(q, s)'
<1>1. PICK i, h :
         /\ net' = net \cup {Packet(p, i, h)} /\ CountAcks(p, h)
         /\ UNCHANGED ackMask
    BY TransmitFact
<1>2. /\ ackLeft = [r \in Peer |-> ackLeft[r]] /\ s \in Serials(q)
      /\ ackLeft[q] \in [Serials(q) -> -1..AckRedundancy]
    BY ReceiverParts DEF Invariant, ReceiverInv, ReceiverTypes
<1>3. CASE \E back \in net : back.src = q /\ s \in back.acks
    BY <1>1, <1>3 DEF AckKept
<1>4. CASE ackLeft[q][s] > 0 /\ q = p /\ s \in AckSpan(p, h)
    <2>1. Packet(p, i, h) \in net' /\ Packet(p, i, h).src = p
             /\ s \in Packet(p, i, h).acks
        BY <1>1, <1>4 DEF Packet
    <2> QED BY <1>4, <2>1 DEF AckKept
<1>5. CASE ackLeft[q][s] > 0 /\ ~(q = p /\ s \in AckSpan(p, h))
    <2>1. ackLeft'[q][s] = ackLeft[q][s]
        BY <1>1, <1>2, <1>5 DEF CountAcks
    <2> QED BY <1>5, <2>1 DEF AckKept
<1> QED BY <1>3, <1>4, <1>5 DEF AckKept

\* A duplicate renews an ack or leaves it alone.
LEMMA DuplicateKeepsAcks ==
    ASSUME NEW p \in Peer, NEW q \in Peer, Invariant, NEW pkt \in net, pkt.src # p,
           InputResent(p, pkt), UNCHANGED net,
           NEW s \in ackMask[q], AckKept(q, s)
    PROVE  AckKept(q, s)'
<1>1. /\ ackLeft = [r \in Peer |-> ackLeft[r]] /\ s \in Serials(q)
      /\ ackLeft[q] \in [Serials(q) -> -1..AckRedundancy]
    BY ReceiverParts DEF Invariant, ReceiverInv, ReceiverTypes
<1>2. ackLeft'[q][s] \in {ackLeft[q][s], AckRedundancy}
    BY <1>1 DEF InputResent
<1> QED BY <1>2, BoundAssumption DEF AckKept

\* The windows move up, if at all.
LEMMA WindowsMoveUp ==
    ASSUME NEW p \in Peer, ReceiverInv, NEW s \in Serials(p)
    PROVE  /\ NewMax(p, s) \in {inputMax[p], s}
           /\ NewMin(p, s) \in Nat /\ NewMin(p, s) >= inputMin[p]
<1>1. /\ inputMax[p] \in Int /\ s \in Int /\ s \in Nat /\ inputMax[p] \in Nat
      /\ inputMin[p] \in Nat /\ AckArray \in Nat \ {0}
    BY ReceiverParts, BoundAssumption
<1>2. NewMax(p, s) = IF inputMax[p] >= s THEN inputMax[p] ELSE s
    BY <1>1, MaxFact DEF NewMax
<1>3. PICK max : max = NewMax(p, s)
    OBVIOUS
<1>4. max \in Nat /\ NewMin(p, s) = IF max - inputMin[p] >= AckArray
                                  THEN max - AckArray + 1 ELSE inputMin[p]
    BY <1>1, <1>2, <1>3 DEF NewMin
<1>5. NewMin(p, s) \in Nat /\ NewMin(p, s) >= inputMin[p]
    BY <1>1, <1>4
<1> QED BY <1>2, <1>5

\* A new message owes its ack, and takes none from those in the window.
LEMMA NewKeepsAcks ==
    ASSUME NEW p \in Peer, NEW q \in Peer, Invariant, NEW pkt \in net, pkt.src # p,
           ReceiveNew(p, pkt), UNCHANGED net,
           NEW s \in ackMask'[q], s >= inputMin'[q],
           s \in ackMask[q] /\ s >= inputMin[q] => AckKept(q, s)
    PROVE  AckKept(q, s)'
<1>1. /\ ackLeft = [r \in Peer |-> ackLeft[r]]
      /\ ackMask[q] \subseteq Serials(q) /\ pkt.serial \in Serials(p)
      /\ ackLeft[p] \in [Serials(p) -> -1..AckRedundancy]
      /\ inputMin[p] \in Nat /\ Serials(p) \subseteq Nat
      /\ inputMin \in [Peer -> Nat] /\ ackMask \in [Peer -> SUBSET Nat]
    <2>1. pkt.serial \in Serials(p)
        BY PacketFact DEF Invariant, ReceiverInv
    <2>2. ReceiverInv /\ inputMin[p] \in Nat
        BY ReceiverParts DEF Invariant
    <2>3. Serials(p) \subseteq Nat /\ ackMask[q] \subseteq Serials(q)
             /\ ackLeft[p] \in [Serials(p) -> -1..AckRedundancy]
        BY <2>2, ReceiverParts
    <2> QED BY <2>1, <2>2, <2>3 DEF ReceiverInv, ReceiverTypes
<1>2. CASE q # p
    <2>1. SameWindows(q)
        BY <1>2, NewAckMask
    <2> QED BY <2>1 DEF SameWindows, AckKept
<1>3. CASE q = p /\ ~InSpan(p, pkt.serial)
    BY <1>3 DEF ReceiveNew, AckKept
<1>4. CASE q = p /\ InSpan(p, pkt.serial)
    <2> DEFINE t == pkt.serial
    <2>1. /\ inputMin'[p] = NewMin(p, t) /\ ackMask'[p] \subseteq ackMask[p] \cup {t}
          /\ ackLeft'[p] = NewLeft(p, t)
        BY <1>1, <1>4 DEF ReceiveNew, MoveWindows
    <2>2. NewMin(p, t) \in Nat /\ NewMin(p, t) >= inputMin[p]
        BY <1>1, WindowsMoveUp DEF Invariant
    <2>3. s \in Serials(p) /\ ~(s < NewMin(p, t))
        BY <1>1, <1>4, <2>1, <2>2
    <2>4. CASE s = t
        <3>1. ackLeft'[p][s] = AckRedundancy
            BY <2>1, <2>3, <2>4 DEF NewLeft
        <3> QED BY <1>4, <3>1, BoundAssumption DEF AckKept
    <2>5. CASE s # t
        <3>1. ackLeft'[p][s] = ackLeft[p][s]
            BY <2>1, <2>3, <2>5 DEF NewLeft
        <3>2. s \in ackMask[p] /\ s >= inputMin[p]
            <4>1. s \in ackMask[p] /\ s \in Nat /\ s >= NewMin(p, t)
                BY <1>1, <1>4, <2>1, <2>3, <2>5
            <4> QED BY <1>1, <2>2, <4>1
        <3> QED BY <1>4, <3>1, <3>2 DEF AckKept
    <2> QED BY <2>4, <2>5
<1> QED BY <1>2, <1>3, <1>4

AcksKept ==
    \A p \in Peer : \A pkt \in net :
        pkt.src # p /\ pkt.vim /\ pkt.serial \in ackMask[p]
            /\ pkt.serial >= inputMin[p] => AckKept(p, pkt.serial)

LEMMA AcksKeptStep ==
    ASSUME Invariant, MasksTrue, AcksKept, [Next]_vars
    PROVE  AcksKept'
<1>1. CASE StillStep
    BY <1>1 DEF StillStep, recvVars, AcksKept, AckKept
<1>2. ASSUME NEW p \in Peer, Transmit(p)
      PROVE  AcksKept'
    <2>1. ASSUME NEW q \in Peer, NEW pkt \in net', pkt.src # q, pkt.vim,
                 pkt.serial \in ackMask'[q], pkt.serial >= inputMin'[q]
          PROVE  AckKept(q, pkt.serial)'
        <3>1. ackMask' = ackMask /\ inputMin' = inputMin /\ net \subseteq net'
            BY <1>2, TransmitFact
        <3>2. Invariant'
            BY NextStep DEF InvStep, SoundStep, Invariant
        <3>3. PICK old \in net : /\ old.src = pkt.src /\ old.serial = pkt.serial
                                /\ old.vim = pkt.vim
            BY <2>1, <3>1, <3>2, OldPacket
        <3>4. AckKept(q, pkt.serial)
            BY <2>1, <3>1, <3>3 DEF AcksKept
        <3> QED BY <1>2, <2>1, <3>1, <3>4, TransmitKeepsAcks
    <2> QED BY <2>1 DEF AcksKept
<1>3. ASSUME NEW p \in Peer, ProcessVIM(p) \/ Unregister(p)
      PROVE  AcksKept'
    <2>1. UNCHANGED <<net, ackMask, inputMin, ackLeft>>
        BY <1>3 DEF ProcessVIM, Unregister
    <2> QED BY <2>1 DEF AcksKept, AckKept
<1>4. ASSUME NEW p \in Peer, NEW pkt \in net, pkt.src # p, UNCHANGED net,
             ReceiveAgain(p, pkt)
      PROVE  AcksKept'
    <2>1. UNCHANGED <<ackMask, inputMin>> /\ InputResent(p, pkt)
        BY <1>4 DEF ReceiveAgain
    <2> QED BY <1>4, <2>1, DuplicateKeepsAcks DEF AcksKept
<1>5. ASSUME NEW p \in Peer, NEW pkt \in net, pkt.src # p, UNCHANGED net,
             ReceiveNew(p, pkt)
      PROVE  AcksKept'
    BY <1>5, NewKeepsAcks DEF AcksKept
<1> QED BY <1>1, <1>2, <1>3, <1>4, <1>5, StepKinds DEF ReceptionStep

\* setOutputData sends each ack that inputStatistics owes, and inputResent owes
\* it again, so that none in the window is lost before a packet has carried it.
THEOREM AcksRemembered == Spec => []NoAckForgotten
<1>1. Init => Invariant /\ MasksTrue /\ AcksKept
    BY InitInvariant DEF Init, MasksTrue, MaskTrue, AcksKept
<1>2. Invariant /\ MasksTrue /\ AcksKept /\ [Next]_vars
         => (Invariant /\ MasksTrue /\ AcksKept)'
    BY NextStep, MasksTrueStep, AcksKeptStep DEF InvStep, SoundStep, Invariant
<1>3. AcksKept => NoAckForgotten
    BY DEF AcksKept, AckKept, NoAckForgotten
<1> QED BY <1>1, <1>2, <1>3, PTL DEF Spec

-----------------------------------------------------------------------------
(***************************************************************************)
(* While the masks need not move on, each message is delivered once.       *)
(***************************************************************************)
LEMMA MasksStay ==
    ASSUME NEW p \in Peer, MasksSuffice, Invariant, ackMin[p] = 1,
           NEW pkt \in net, pkt.src # p
    PROVE  /\ InSpan(p, pkt.serial) /\ NewAckMin(p, pkt.serial) = 1
           /\ Received(p, pkt.serial) <=> pkt.serial \in ackMask[p]
           /\ pkt.serial \in Nat \ {0} /\ pkt.pred \in Nat /\ pkt \in Incoming(p)
<1>1. pkt \in PacketSet /\ ReceiverInv
    BY DEF Invariant, ReceiverInv
<1>2. /\ pkt.serial \in Serials(p) /\ pkt.src = Other(p)
      /\ Serials(p) = 1..MaxMsgs[Other(p)] /\ MaxMsgs[Other(p)] \in Nat
      /\ MaxMsgs[Other(p)] =< MaxMask /\ MaxMask \in Nat
      /\ inputMax[p] \in Serials(p)
    BY <1>1, PacketFact, ReceiverParts, OtherFact, BoundAssumption DEF MasksSuffice
<1>3. NewMax(p, pkt.serial) \in Serials(p)
    BY <1>1, <1>2, WindowsMoveUp
<1>4. NewAckMin(p, pkt.serial) = 1
    BY <1>2, <1>3 DEF NewAckMin
<1>5. InSpan(p, pkt.serial)
    BY <1>2 DEF InSpan
<1>6. pkt.pred \in Nat
    <2>1. PICK q \in Peer : pkt \in
             [src : {q}, id : Ids(q), serial : Ids(q), vim : BOOLEAN,
              dummy : BOOLEAN, inst : BOOLEAN, pred : 0..MaxMsgs[q],
              acks : SUBSET Serials(q)]
        BY <1>1 DEF PacketSet
    <2> QED BY <2>1
<1> QED BY <1>2, <1>4, <1>5, <1>6 DEF Received, Incoming

\* A message received for the first time is held, or delivered, or has none to
\* be called for.
LEMMA NewEffect ==
    ASSUME NEW p \in Peer, MasksSuffice, Invariant, ReceivedOnce(p),
           NEW pkt \in net, pkt.src # p, ReceiveNew(p, pkt)
    PROVE  /\ registered[p] /\ working[p] = {} /\ ackMin'[p] = 1
           /\ pkt.serial \notin ackMask[p]
           /\ ackMask'[p] = ackMask[p] \cup {pkt.serial}
           /\ procMask'[p] = procMask[p] /\ UNCHANGED registered
           /\ deferred'[p] \cap working'[p] = {}
           /\ \/ /\ pkt.vim /\ ~pkt.dummy /\ delivered'[p] = delivered[p]
                 /\ Held(p)' = Held(p) \cup {pkt}
                 /\ \/ working'[p] = {}
                    \/ /\ working'[p] = {pkt}
                       /\ pkt.pred = 0 \/ pkt.pred \in procMask[p]
              \/ /\ pkt.dummy /\ UNCHANGED <<deferred, working, delivered>>
              \/ /\ ~pkt.vim /\ UNCHANGED <<deferred, working>>
                 /\ delivered'[p] = Append(delivered[p], pkt.id)
<1>1. /\ ackMin[p] = 1 /\ procMask[p] \subseteq ackMask[p]
      /\ ackMask \in [Peer -> SUBSET Nat] /\ ackMin \in [Peer -> Nat]
      /\ procMask \in [Peer -> SUBSET Nat]
      /\ deferred \in [Peer -> SUBSET net] /\ working \in [Peer -> SUBSET net]
      /\ delivered \in [Peer -> Seq(Nat)]
    BY DEF ReceivedOnce, Invariant, ReceiverInv, ReceiverTypes
<1>2. /\ InSpan(p, pkt.serial) /\ NewAckMin(p, pkt.serial) = 1
      /\ Received(p, pkt.serial) <=> pkt.serial \in ackMask[p]
      /\ pkt.serial \in Nat \ {0} /\ pkt.pred \in Nat
    BY <1>1, MasksStay
<1>3. /\ registered[p] /\ working[p] = {} /\ ~Received(p, pkt.serial)
      /\ MoveWindows(p, pkt.serial) /\ Sort(p, pkt) /\ UNCHANGED registered
    BY <1>2 DEF ReceiveNew, life
<1>4. /\ ackMask[p] \subseteq Serials(p) /\ Serials(p) \subseteq Nat \ {0}
    <2>1. ReceiverInv
        BY DEF Invariant
    <2>2. Serials(p) = 1..MaxMsgs[Other(p)] /\ MaxMsgs[Other(p)] \in Nat
             /\ ackMask[p] \subseteq Serials(p)
        BY <2>1, ReceiverParts
    <2> QED BY <2>2
<1>5. /\ ackMin'[p] = 1 /\ ackMask'[p] = ackMask[p] \cup {pkt.serial}
      /\ procMask'[p] = procMask[p]
    <2>1. /\ ackMin'[p] = NewAckMin(p, pkt.serial)
          /\ ackMask'[p] = {t \in ackMask[p] \cup {pkt.serial} :
                              t >= NewAckMin(p, pkt.serial)}
          /\ procMask'[p] = {t \in procMask[p] : t >= NewAckMin(p, pkt.serial)}
        BY <1>1, <1>3 DEF MoveWindows
    <2>2. /\ ackMask'[p] = {t \in ackMask[p] \cup {pkt.serial} : t >= 1}
          /\ procMask'[p] = {t \in procMask[p] : t >= 1} /\ ackMin'[p] = 1
        BY <1>2, <2>1
    <2>3. \A t \in ackMask[p] \cup {pkt.serial} : t \in Nat /\ t >= 1
        BY <1>2, <1>4
    <2> QED BY <1>1, <2>2, <2>3
<1>6. ~MustDefer(p, pkt) => pkt.pred = 0 \/ pkt.pred \in procMask[p]
    BY <1>2, <1>5 DEF MustDefer
<1>7. deferred[p] \cap working[p] = {} /\ pkt \notin deferred[p]
    <2>1. pkt \notin Held(p)
        BY <1>2, <1>3 DEF ReceivedOnce
    <2> QED BY <2>1 DEF ReceivedOnce, Held
<1>8. CASE pkt.dummy
    BY <1>7, <1>2, <1>3, <1>5, <1>8 DEF Sort
<1>9. CASE ~pkt.dummy /\ ~pkt.vim
    BY <1>1, <1>2, <1>3, <1>5, <1>9, <1>7 DEF Sort
<1>10. CASE ~pkt.dummy /\ pkt.vim /\ MustDefer(p, pkt)
    <2>1. /\ deferred'[p] = deferred[p] \cup {pkt} /\ working' = working
          /\ delivered' = delivered
        BY <1>1, <1>3, <1>10 DEF Sort
    <2> QED BY <1>2, <1>3, <1>5, <1>10, <1>7, <2>1 DEF Held
<1>11. CASE ~pkt.dummy /\ pkt.vim /\ ~MustDefer(p, pkt)
    <2>1. /\ deferred' = deferred /\ working'[p] = {pkt} /\ delivered' = delivered
        BY <1>1, <1>3, <1>11 DEF Sort
    <2> QED BY <1>2, <1>3, <1>5, <1>6, <1>11, <1>7, <2>1 DEF Held
<1> QED BY <1>8, <1>9, <1>10, <1>11

LEMMA ProcessEffect ==
    ASSUME NEW p \in Peer, Invariant, ReceivedOnce(p), ProcessVIM(p)
    PROVE  /\ UNCHANGED <<net, registered, ackMin, ackMask>>
           /\ \A q \in Peer \ {p} : SameWindows(q)
           /\ \E m \in working[p] :
                 /\ procMask'[p] = procMask[p] \cup {m.serial}
                 /\ Held(p)' = Held(p) \ {m}
                 /\ deferred'[p] \cap working'[p] = {}
                 /\ \A d \in working'[p] : d \in working[p] \/ d.pred = m.serial
                 /\ delivered'[p] = IF registered[p]
                                    THEN Append(delivered[p], m.id)
                                    ELSE delivered[p]
<1>1. /\ procMask \in [Peer -> SUBSET Nat] /\ delivered \in [Peer -> Seq(Nat)]
      /\ deferred \in [Peer -> SUBSET net] /\ working \in [Peer -> SUBSET net]
      /\ ReceiverInv
    BY DEF Invariant, ReceiverInv, ReceiverTypes
<1>2. PICK m \in working[p] :
        LET kids == {d \in deferred[p] : d.pred = m.serial}
            fresh == m.serial >= ackMin[p]
        IN  /\ deferred' = [deferred EXCEPT ![p] = @ \ kids]
            /\ working' = [working EXCEPT ![p] = (@ \ {m}) \cup kids]
            /\ procMask' = IF fresh
                           THEN [procMask EXCEPT ![p] = @ \cup {m.serial}]
                           ELSE procMask
            /\ delivered' = IF fresh /\ registered[p]
                            THEN [delivered EXCEPT ![p] = Append(@, m.id)]
                            ELSE delivered
            /\ UNCHANGED <<life, sendVars, inputMax, inputMin,
                           ackMin, ackMask, ackLeft, oldAcks, net, dispatched>>
    BY DEF ProcessVIM
<1>3. m.serial >= ackMin[p]
    <2>1. m \in net /\ m.src = Other(p)
        BY <1>1, ReceiverParts
    <2>2. m.serial \in 1..MaxMsgs[m.src] /\ m.src \in Peer
        BY <1>1, <2>1, PacketFact DEF ReceiverInv
    <2> QED BY <2>2, BoundAssumption DEF ReceivedOnce
<1>4. m \notin deferred[p] /\ deferred[p] \cap working[p] = {}
    BY DEF ReceivedOnce
<1> DEFINE kids == {d \in deferred[p] : d.pred = m.serial}
<1>5. /\ deferred' = [deferred EXCEPT ![p] = @ \ kids]
      /\ working' = [working EXCEPT ![p] = (@ \ {m}) \cup kids]
      /\ procMask' = [procMask EXCEPT ![p] = @ \cup {m.serial}]
      /\ delivered' = IF registered[p]
                      THEN [delivered EXCEPT ![p] = Append(@, m.id)]
                      ELSE delivered
    BY <1>2, <1>3
<1>6. /\ deferred'[p] = deferred[p] \ kids
      /\ working'[p] = (working[p] \ {m}) \cup kids
      /\ procMask'[p] = procMask[p] \cup {m.serial}
      /\ delivered'[p] = IF registered[p] THEN Append(delivered[p], m.id)
                         ELSE delivered[p]
      /\ \A q \in Peer \ {p} :
            /\ deferred'[q] = deferred[q] /\ working'[q] = working[q]
            /\ procMask'[q] = procMask[q] /\ delivered'[q] = delivered[q]
    BY <1>1, <1>5
<1>7. kids \subseteq deferred[p] /\ \A d \in kids : d.pred = m.serial
    OBVIOUS
<1>8. UNCHANGED <<net, registered, inputMax, inputMin, ackMin, ackMask,
                  ackLeft, oldAcks>>
    BY <1>2 DEF life
<1>9. \A q \in Peer \ {p} : SameWindows(q)
    BY <1>6, <1>8 DEF SameWindows
<1> HIDE DEF kids
<1>10. Held(p)' = Held(p) \ {m} /\ deferred'[p] \cap working'[p] = {}
    BY <1>4, <1>6, <1>7 DEF Held
<1>11. \A d \in working'[p] : d \in working[p] \/ d.pred = m.serial
    BY <1>6, <1>7
<1> QED BY <1>6, <1>8, <1>9, <1>10, <1>11

\* What does not concern p leaves it sound.
LEMMA ReceivedOnceSame ==
    ASSUME NEW p \in Peer, ReceivedOnce(p), SameWindows(p), net \subseteq net'
    PROVE  ReceivedOnce(p)'
<1>1. Held(p)' = Held(p) /\ Incoming(p) \subseteq Incoming(p)'
    BY DEF SameWindows, Held, Incoming
<1> QED BY <1>1 DEF ReceivedOnce, SameWindows

LEMMA ReceivedOnceNew ==
    ASSUME NEW p \in Peer, MasksSuffice, Invariant, ReceivedOnce(p),
           NEW pkt \in net, pkt.src # p, ReceiveNew(p, pkt), UNCHANGED net
    PROVE  ReceivedOnce(p)'
<1>1. /\ ackMin'[p] = 1 /\ ackMask'[p] = ackMask[p] \cup {pkt.serial}
      /\ procMask'[p] = procMask[p] /\ pkt.serial \notin ackMask[p]
      /\ deferred'[p] \cap working'[p] = {}
      /\ procMask[p] \subseteq ackMask[p]
    BY NewEffect DEF ReceivedOnce
<1>2. Incoming(p)' = Incoming(p) /\ pkt \in Incoming(p)
    BY MasksStay DEF Incoming, ReceivedOnce
<1>3. /\ \A d \in Held(p)' : d.vim /\ d.serial \in ackMask'[p] \ procMask'[p]
      /\ \A d, e \in Held(p)' : d.serial = e.serial => d = e
    <2>1. Held(p)' = Held(p) \/ (pkt.vim /\ Held(p)' = Held(p) \cup {pkt})
        BY NewEffect DEF Held
    <2>2. \A d \in Held(p) : d.serial \in ackMask[p] /\ d.serial # pkt.serial
        BY <1>1 DEF ReceivedOnce
    <2> QED BY <1>1, <2>1, <2>2 DEF ReceivedOnce
<1>4. \A i \in Range(delivered[p]) : \E a \in Incoming(p)' :
          /\ a.id = i /\ a.serial \in ackMask'[p] /\ a.serial # pkt.serial
          /\ a.vim => a.serial \in procMask'[p]
    BY <1>1, <1>2 DEF ReceivedOnce
<1>5. CASE delivered'[p] = delivered[p]
    BY <1>1, <1>3, <1>4, <1>5 DEF ReceivedOnce
<1>6. CASE ~pkt.vim /\ delivered'[p] = Append(delivered[p], pkt.id)
    <2>1. delivered[p] \in Seq(Nat) /\ pkt.id \in Nat
        <3>1. pkt.id \in 1..MaxMsgs[pkt.src] /\ delivered[p] \in Seq(Nat)
            BY PacketFact DEF Invariant, ReceiverInv, ReceiverTypes
        <3> QED BY <3>1
    <2>2. pkt.id \notin Range(delivered[p])
        <3>1. ASSUME NEW a \in Incoming(p), a.id = pkt.id
              PROVE  a.serial = pkt.serial
            <4>1. PacketSound(a) /\ PacketSound(pkt) /\ a.src = pkt.src
                BY <1>2 DEF Invariant, PacketsSound, Incoming
            <4> QED BY <3>1, <4>1 DEF PacketSound
        <3> QED BY <1>2, <1>4, <3>1
    <2>3. /\ Range(delivered'[p]) = Range(delivered[p]) \cup {pkt.id}
          /\ IsInjective(delivered'[p])
        BY <1>6, <2>1, <2>2, AppendFact DEF ReceivedOnce
    <2> QED BY <1>1, <1>2, <1>3, <1>4, <1>6, <2>3 DEF ReceivedOnce
<1> QED BY <1>5, <1>6, NewEffect

LEMMA ReceivedOnceProcess ==
    ASSUME NEW p \in Peer, Invariant, ReceivedOnce(p), ProcessVIM(p)
    PROVE  ReceivedOnce(p)'
<1>1. PICK m \in working[p] :
         /\ procMask'[p] = procMask[p] \cup {m.serial}
         /\ Held(p)' = Held(p) \ {m} /\ deferred'[p] \cap working'[p] = {}
         /\ delivered'[p] = IF registered[p] THEN Append(delivered[p], m.id)
                                             ELSE delivered[p]
    BY ProcessEffect
<1>2. UNCHANGED <<net, ackMin, ackMask>> /\ Incoming(p)' = Incoming(p)
    BY ProcessEffect DEF Incoming
<1>3. /\ m \in Held(p) /\ m.vim /\ m.serial \in ackMask[p] \ procMask[p]
      /\ m \in Incoming(p)
    <2>1. m \in net /\ m.src = Other(p)
        BY ReceiverParts DEF Invariant
    <2> QED BY <2>1 DEF ReceivedOnce, Held, Incoming
<1>4. \A d \in Held(p)' : d.vim /\ d.serial \in ackMask'[p] \ procMask'[p]
    <2>1. \A d \in Held(p)' : d.serial # m.serial
        BY <1>1, <1>3 DEF ReceivedOnce
    <2> QED BY <1>1, <1>2, <2>1 DEF ReceivedOnce
<1>5. procMask'[p] \subseteq ackMask'[p]
    BY <1>1, <1>2, <1>3 DEF ReceivedOnce
<1>6. \A i \in Range(delivered[p]) : \E a \in Incoming(p)' :
          /\ a.id = i /\ a.serial \in ackMask'[p]
          /\ a.vim => a.serial \in procMask'[p]
    BY <1>1, <1>2 DEF ReceivedOnce
<1>7. CASE ~registered[p]
    BY <1>1, <1>2, <1>4, <1>5, <1>6, <1>7 DEF ReceivedOnce
<1>8. CASE registered[p]
    <2>1. delivered[p] \in Seq(Nat) /\ m.id \in Nat
        <3>1. m.id \in 1..MaxMsgs[m.src] /\ delivered[p] \in Seq(Nat)
            BY <1>3, PacketFact DEF Invariant, ReceiverInv, ReceiverTypes, Incoming
        <3> QED BY <3>1
    <2>2. m.id \notin Range(delivered[p])
        <3>1. ASSUME NEW a \in Incoming(p), a.id = m.id
              PROVE  a.serial = m.serial /\ a.vim
            <4>1. PacketSound(a) /\ PacketSound(m) /\ a.src = m.src
                BY <1>3 DEF Invariant, PacketsSound, Incoming
            <4> QED BY <1>3, <3>1, <4>1 DEF PacketSound
        <3> QED BY <1>3, <3>1 DEF ReceivedOnce
    <2>3. /\ Range(delivered'[p]) = Range(delivered[p]) \cup {m.id}
          /\ IsInjective(delivered'[p])
        BY <1>1, <1>8, <2>1, <2>2, AppendFact DEF ReceivedOnce
    <2> QED BY <1>1, <1>2, <1>3, <1>4, <1>5, <1>6, <2>3 DEF ReceivedOnce
<1> QED BY <1>7, <1>8

EachOnce == \A p \in Peer : ReceivedOnce(p)

LEMMA EachOnceStep ==
    ASSUME MasksSuffice, Invariant, EachOnce, [Next]_vars
    PROVE  EachOnce'
<1>1. CASE StillStep
    <2>1. \A q \in Peer : SameWindows(q) /\ net \subseteq net'
        BY <1>1 DEF StillStep, recvVars, SameWindows
    <2> QED BY <2>1, ReceivedOnceSame DEF EachOnce
<1>2. ASSUME NEW p \in Peer, Transmit(p), NEW q \in Peer
      PROVE  ReceivedOnce(q)'
    <2>1. net \subseteq net' /\ UNCHANGED <<ackMin, ackMask, procMask, deferred,
                                            working, delivered>>
        BY <1>2, TransmitFact
    <2>2. Held(q)' = Held(q) /\ Incoming(q) \subseteq Incoming(q)'
        BY <2>1 DEF Held, Incoming
    <2> QED BY <2>1, <2>2 DEF EachOnce, ReceivedOnce
<1>3. ASSUME NEW p \in Peer, ProcessVIM(p)
      PROVE  EachOnce'
    <2>1. ReceivedOnce(p)'
        BY <1>3, ReceivedOnceProcess DEF EachOnce
    <2>2. \A q \in Peer \ {p} : ReceivedOnce(q)'
        <3>1. \A q \in Peer \ {p} : SameWindows(q) /\ net \subseteq net'
            BY <1>3, ProcessEffect DEF EachOnce
        <3> QED BY <3>1, ReceivedOnceSame DEF EachOnce
    <2> QED BY <2>1, <2>2 DEF EachOnce
<1>4. ASSUME NEW p \in Peer, Unregister(p), NEW q \in Peer
      PROVE  ReceivedOnce(q)'
    <2>1. UNCHANGED <<net, ackMin, ackMask, procMask, working, delivered>>
        BY <1>4 DEF Unregister, histVars
    <2>2. deferred'[q] \subseteq deferred[q]
        BY <1>4 DEF Unregister, Invariant, ReceiverInv, ReceiverTypes
    <2>3. Held(q)' \subseteq Held(q) /\ Incoming(q)' = Incoming(q)
        BY <2>1, <2>2 DEF Held, Incoming
    <2> QED BY <2>1, <2>2, <2>3 DEF EachOnce, ReceivedOnce
<1>5. ASSUME NEW p \in Peer, NEW pkt \in net, pkt.src # p, UNCHANGED net,
             ReceiveAgain(p, pkt), NEW q \in Peer
      PROVE  ReceivedOnce(q)'
    <2>1. UNCHANGED <<net, ackMin, ackMask, procMask, deferred, working, delivered>>
        BY <1>5 DEF ReceiveAgain, histVars
    <2> QED BY <2>1 DEF EachOnce, ReceivedOnce, Held, Incoming
<1>6. ASSUME NEW p \in Peer, NEW pkt \in net, pkt.src # p, UNCHANGED net,
             ReceiveNew(p, pkt)
      PROVE  EachOnce'
    <2>1. ReceivedOnce(p)'
        BY <1>6, ReceivedOnceNew DEF EachOnce
    <2>2. \A q \in Peer \ {p} : ReceivedOnce(q)'
        BY <1>6, NewAckMask, ReceivedOnceSame DEF EachOnce
    <2> QED BY <2>1, <2>2 DEF EachOnce
<1> QED BY <1>1, <1>2, <1>3, <1>4, <1>5, <1>6, StepKinds DEF ReceptionStep, EachOnce

LEMMA EachOnceInit ==
    ASSUME Init
    PROVE  EachOnce
<1>1. ASSUME NEW p \in Peer
      PROVE  ReceivedOnce(p)
    <2>1. /\ ackMin[p] = 1 /\ procMask[p] = {} /\ deferred[p] = {} /\ working[p] = {}
          /\ delivered[p] = <<>>
        BY DEF Init
    <2> QED BY <2>1, EmptyFact DEF ReceivedOnce, Held
<1> QED BY <1>1 DEF EachOnce

\* processData gives no message to the call-back twice, however often it was
\* resent or repeated, as long as the bit-masks hold all serials.
THEOREM NoneTwice ==
    ASSUME MasksSuffice
    PROVE  Spec => []AtMostOnce
<1>1. Init => Invariant /\ EachOnce
    BY InitInvariant, EachOnceInit
<1>2. Invariant /\ EachOnce /\ [Next]_vars => (Invariant /\ EachOnce)'
    BY NextStep, EachOnceStep DEF InvStep, SoundStep, Invariant
<1>3. Invariant /\ EachOnce => AtMostOnce
    <2>1. ASSUME Invariant, EachOnce, NEW p \in Peer
          PROVE  \A j, k \in 1..Len(delivered[p]) :
                    delivered[p][j] = delivered[p][k] => j = k
        <3>1. IsInjective(delivered[p]) /\ delivered[p] \in Seq(Nat)
            BY <2>1 DEF EachOnce, ReceivedOnce, Invariant, ReceiverInv, ReceiverTypes
        <3>2. DOMAIN delivered[p] = 1..Len(delivered[p])
            BY <3>1, RangeFact
        <3> QED BY <3>1, <3>2 DEF IsInjective
    <2> QED BY <2>1 DEF AtMostOnce
<1> QED BY <1>1, <1>2, <1>3, PTL DEF Spec

-----------------------------------------------------------------------------
(***************************************************************************)
(* Most steps leave a message what it is and behind what it is ordered;    *)
(* only acks mark one as acknowledged, and what they add is no VIM.        *)
(***************************************************************************)
KeptMsg(m, n, acks) ==
    /\ n.vim = m.vim /\ n.urg = m.urg /\ n.ord = m.ord /\ n.dummy = m.dummy
    /\ n.pred = m.pred /\ n.ctl2 = m.ctl2 /\ n.serial = m.serial
    /\ n.status = "ack" => m.status = "ack" \/ m.serial \in acks

Plain(m) ==
    ~m.vim /\ ~m.ord /\ m.pred = 0 /\ m.serial = 0 /\ m.status # "ack"

Kept(ms, ns, acks) ==
    /\ Len(ms) =< Len(ns)
    /\ \A i \in 1..Len(ms) : KeptMsg(ms[i], ns[i], acks)
    /\ \A i \in Len(ms) + 1..Len(ns) : Plain(ns[i])

LEMMA KeptSame ==
    ASSUME NEW ms \in Seq(NetMessage), NEW acks
    PROVE  Kept(ms, ms, acks)
<1>1. Len(ms) \in Nat
    BY LenProperties
<1> QED BY <1>1 DEF Kept, KeptMsg

LEMMA KeptTransitive ==
    ASSUME NEW a \in Seq(NetMessage), NEW b \in Seq(NetMessage),
           NEW c \in Seq(NetMessage), NEW acks, 0 \notin acks,
           Kept(a, b, acks), Kept(b, c, acks)
    PROVE  Kept(a, c, acks)
<1>1. Len(a) \in Nat /\ Len(b) \in Nat /\ Len(c) \in Nat
      /\ Len(a) =< Len(b) /\ Len(b) =< Len(c)
    BY LenProperties DEF Kept
<1>2. ASSUME NEW i \in 1..Len(a)
      PROVE  KeptMsg(a[i], c[i], acks)
    <2>1. i \in 1..Len(b)
        BY <1>1
    <2>2. KeptMsg(a[i], b[i], acks) /\ KeptMsg(b[i], c[i], acks)
        BY <2>1 DEF Kept
    <2> QED BY <2>2 DEF KeptMsg
<1>3. ASSUME NEW i \in Len(a) + 1..Len(c)
      PROVE  Plain(c[i])
    <2>1. CASE i \in 1..Len(b)
        <3>1. i \in Len(a) + 1..Len(b)
            BY <1>1, <2>1
        <3>2. Plain(b[i]) /\ KeptMsg(b[i], c[i], acks)
            BY <2>1, <3>1 DEF Kept
        <3> QED BY <3>2 DEF Plain, KeptMsg
    <2>2. CASE i \notin 1..Len(b)
        <3>1. i \in Len(b) + 1..Len(c)
            BY <1>1, <2>2
        <3> QED BY <3>1 DEF Kept
    <2> QED BY <2>1, <2>2
<1> QED BY <1>1, <1>2, <1>3 DEF Kept

\* A plain message is appended; one message changes.
LEMMA KeptAppend ==
    ASSUME NEW ms \in Seq(NetMessage), NEW m \in NetMessage, Plain(m), NEW acks
    PROVE  Kept(ms, Append(ms, m), acks) /\ Append(ms, m) \in Seq(NetMessage)
<1>1. /\ Len(ms) \in Nat /\ Len(Append(ms, m)) = Len(ms) + 1
      /\ \A i \in 1..Len(ms) : Append(ms, m)[i] = ms[i]
      /\ Append(ms, m)[Len(ms) + 1] = m /\ Append(ms, m) \in Seq(NetMessage)
    BY AppendProperties, LenProperties
<1>2. \A i \in Len(ms) + 1..Len(Append(ms, m)) : i = Len(ms) + 1
    BY <1>1
<1> QED BY <1>1, <1>2 DEF Kept, KeptMsg

LEMMA KeptExcept ==
    ASSUME NEW ms \in Seq(NetMessage), NEW i \in 1..Len(ms),
           NEW m \in NetMessage, NEW acks, KeptMsg(ms[i], m, acks)
    PROVE  /\ Kept(ms, [ms EXCEPT ![i] = m], acks)
           /\ [ms EXCEPT ![i] = m] \in Seq(NetMessage)
<1> DEFINE new == [ms EXCEPT ![i] = m]
<1>1. Len(ms) \in Nat /\ DOMAIN ms = 1..Len(ms) /\ ms \in [1..Len(ms) -> NetMessage]
    BY LenProperties
<1>2. /\ new \in [1..Len(ms) -> NetMessage]
      /\ \A j \in 1..Len(ms) : new[j] = IF j = i THEN m ELSE ms[j]
    BY <1>1
<1> HIDE DEF new
<1>3. new \in Seq(NetMessage) /\ Len(new) = Len(ms)
    BY <1>1, <1>2, FunctionFact
<1>4. \A j \in 1..Len(ms) : KeptMsg(ms[j], new[j], acks)
    BY <1>2 DEF KeptMsg
<1>5. Len(ms) + 1..Len(new) = {}
    BY <1>1, <1>3
<1> QED BY <1>1, <1>3, <1>4, <1>5 DEF Kept, new

\* One message changes its status, to another one than "ack".
LEMMA KeptStatus ==
    ASSUME NEW ms \in Seq(NetMessage), NEW i \in 1..Len(ms),
           NEW st \in Status \ {"ack"}
    PROVE  Kept(ms, [ms EXCEPT ![i].status = st], {})
<1> DEFINE m == [ms[i] EXCEPT !.status = st]
<1>1. ms[i] \in NetMessage
    BY LenProperties
<1>2. m \in NetMessage /\ KeptMsg(ms[i], m, {})
    BY <1>1 DEF NetMessage, KeptMsg
<1>3. [ms EXCEPT ![i].status = st] = [ms EXCEPT ![i] = m]
    OBVIOUS
<1> HIDE DEF m
<1> QED BY <1>2, <1>3, KeptExcept

-----------------------------------------------------------------------------
(***************************************************************************)
(* The listener's writes to the outgoing side.                             *)
(***************************************************************************)
Box(out) ==
    /\ out \in [msgs : Seq(NetMessage), urgentQ : Seq(Nat), commonQ : Seq(Nat)]
    /\ Range(out.urgentQ) \cup Range(out.commonQ) \subseteq 1..Len(out.msgs)

LEMMA HeartBeatKept ==
    ASSUME NEW out, Box(out), NEW ping \in BOOLEAN, NEW acks
    PROVE  Kept(out.msgs, HeartBeat(out, ping).msgs, acks)
<1>1. CASE out.urgentQ = <<>>
    <2> DEFINE beat == [Blank EXCEPT !.dummy = TRUE, !.inst = ping]
    <2>1. beat \in NetMessage /\ Plain(beat)
        BY DEF Blank, NetMessage, Status, Plain
    <2>2. HeartBeat(out, ping).msgs = Append(out.msgs, beat)
        BY <1>1 DEF HeartBeat, NewUrgent
    <2> HIDE DEF beat
    <2> QED BY <2>1, <2>2, KeptAppend DEF Box
<1>2. CASE out.urgentQ # <<>> /\ ping
    <2> DEFINE i == Head(out.urgentQ)
               m == [out.msgs[i] EXCEPT !.inst = TRUE]
    <2>1. i \in 1..Len(out.msgs) /\ out.msgs \in Seq(NetMessage)
        <3>1. out.urgentQ \in Seq(Nat) /\ Range(out.urgentQ) \subseteq 1..Len(out.msgs)
                 /\ out.msgs \in Seq(NetMessage)
            BY DEF Box
        <3> QED BY <1>2, <3>1, TailFact
    <2>2. out.msgs[i] \in NetMessage
        BY <2>1, LenProperties
    <2>3. m \in NetMessage /\ KeptMsg(out.msgs[i], m, acks)
        BY <2>2 DEF NetMessage, KeptMsg
    <2>4. HeartBeat(out, ping) = [out EXCEPT !.msgs = [out.msgs EXCEPT ![i] = m]]
        BY <1>2 DEF HeartBeat
    <2>5. HeartBeat(out, ping).msgs = [out.msgs EXCEPT ![i] = m]
        BY <2>4 DEF Box
    <2> HIDE DEF i, m
    <2> QED BY <2>1, <2>3, <2>5, KeptExcept
<1>3. CASE out.urgentQ # <<>> /\ ~ping
    <2>1. HeartBeat(out, ping) = out
        BY <1>3 DEF HeartBeat
    <2> QED BY <2>1, KeptSame DEF Box
<1> QED BY <1>1, <1>2, <1>3

LEMMA DelayKept ==
    ASSUME NEW ms \in Seq(NetMessage), NEW i \in 1..Len(ms), NEW request \in Nat,
           NEW acks
    PROVE  Kept(ms, [ms EXCEPT ![i].delay = request], acks)
<1> DEFINE m == [ms[i] EXCEPT !.delay = request]
<1>1. ms[i] \in NetMessage
    BY LenProperties
<1>2. m \in NetMessage /\ KeptMsg(ms[i], m, acks)
    BY <1>1 DEF NetMessage, KeptMsg
<1>3. [ms EXCEPT ![i].delay = request] = [ms EXCEPT ![i] = m]
    OBVIOUS
<1> HIDE DEF m
<1> QED BY <1>2, <1>3, KeptExcept

LEMMA DelayReplyKept ==
    ASSUME NEW out, Box(out), NEW request \in Nat, NEW acks
    PROVE  Kept(out.msgs, DelayReply(out, request).msgs, acks)
<1> DEFINE long == {k \in 1..Len(out.urgentQ) : ~Short(out.msgs[out.urgentQ[k]])}
<1>1. /\ out.urgentQ \in Seq(Nat) /\ out.commonQ \in Seq(Nat)
      /\ out.msgs \in Seq(NetMessage)
      /\ out \in [msgs : Seq(NetMessage), urgentQ : Seq(Nat), commonQ : Seq(Nat)]
      /\ Range(out.urgentQ) \subseteq 1..Len(out.msgs)
      /\ Range(out.commonQ) \subseteq 1..Len(out.msgs)
    BY DEF Box
<1>2. CASE long # {}
    <2> DEFINE i == out.urgentQ[Min(long)]
    <2>1. long \subseteq Nat /\ \A k \in long : k \in 1..Len(out.urgentQ)
        BY <1>1, LenProperties
    <2>2. Min(long) \in long
        <3> HIDE DEF long
        <3> QED BY <1>2, <2>1, MinInSet
    <2>3. i \in 1..Len(out.msgs)
        <3>1. \A k \in 1..Len(out.urgentQ) : out.urgentQ[k] \in Range(out.urgentQ)
            BY <1>1, RangeFact
        <3> QED BY <1>1, <2>1, <2>2, <3>1
    <2>4. DelayReply(out, request)
             = [out EXCEPT !.msgs = [out.msgs EXCEPT ![i].delay = request]]
        BY <1>2 DEF DelayReply
    <2>5. DelayReply(out, request).msgs = [out.msgs EXCEPT ![i].delay = request]
        BY <1>1, <2>4
    <2>6. \A n \in 1..Len(out.msgs) :
             Kept(out.msgs, [out.msgs EXCEPT ![n].delay = request], acks)
        BY <1>1, DelayKept
    <2> HIDE DEF i
    <2> QED BY <2>3, <2>5, <2>6
<1>3. CASE long = {} /\ out.commonQ # <<>>
    <2>1. Head(out.commonQ) \in 1..Len(out.msgs)
        BY <1>1, <1>3, TailFact
    <2>2. DelayReply(out, request).msgs
             = [out.msgs EXCEPT ![Head(out.commonQ)].delay = request]
        BY <1>3 DEF DelayReply
    <2>3. \A n \in 1..Len(out.msgs) :
             Kept(out.msgs, [out.msgs EXCEPT ![n].delay = request], acks)
        BY <1>1, DelayKept
    <2> QED BY <2>1, <2>2, <2>3
<1>4. CASE long = {} /\ out.commonQ = <<>>
    <2> DEFINE reply == [Blank EXCEPT !.delay = request]
    <2>1. reply \in NetMessage /\ Plain(reply)
        BY DEF Blank, NetMessage, Status, Plain
    <2>2. DelayReply(out, request).msgs = Append(out.msgs, reply)
        BY <1>4 DEF DelayReply, NewUrgent
    <2> HIDE DEF reply
    <2> QED BY <1>1, <2>1, <2>2, KeptAppend
<1> QED BY <1>2, <1>3, <1>4

LEMMA MarkAckedKept ==
    ASSUME NEW p \in Peer, NEW ms \in Seq(NetMessage), NEW acks
    PROVE  Kept(ms, MarkAcked(p, ms, acks), acks)
<1> DEFINE edited == MarkAcked(p, ms, acks)
<1>1. Len(ms) \in Nat /\ \A i \in 1..Len(ms) : ms[i] \in NetMessage
    BY LenProperties
<1>2. /\ edited = [i \in 1..Len(ms) |-> edited[i]]
      /\ \A i \in 1..Len(ms) : edited[i] \in NetMessage /\ KeptMsg(ms[i], edited[i], acks)
    <2>1. ASSUME NEW i \in 1..Len(ms)
          PROVE  edited[i] \in NetMessage /\ KeptMsg(ms[i], edited[i], acks)
        <3>1. CASE i \in revisited[p] /\ ms[i].serial \in acks
            <4>1. edited[i] = [ms[i] EXCEPT !.status = "ack"]
                BY <3>1 DEF MarkAcked
            <4> QED BY <4>1, <3>1, <1>1 DEF NetMessage, Status, KeptMsg
        <3>2. CASE ~(i \in revisited[p] /\ ms[i].serial \in acks)
            <4>1. edited[i] = ms[i]
                BY <3>2 DEF MarkAcked
            <4> QED BY <4>1, <1>1 DEF KeptMsg
        <3> QED BY <3>1, <3>2
    <2> QED BY <2>1 DEF MarkAcked
<1> HIDE DEF edited
<1>3. edited \in Seq(NetMessage) /\ Len(edited) = Len(ms)
    BY <1>1, <1>2, FunctionFact
<1>4. Len(ms) + 1..Len(edited) = {}
    BY <1>1, <1>3
<1> QED BY <1>1, <1>2, <1>3, <1>4 DEF Kept, edited

LEMMA OutboxBox ==
    ASSUME NEW p \in Peer, Invariant
    PROVE  Box(Outbox(p)) /\ Outbox(p).msgs = msgs[p]
<1>1. SenderInv
    BY DEF Invariant
<1> QED BY <1>1, SoundParts DEF SenderInv, SenderTypes, Outbox, Box, Queued

\* What HeartBeat leaves is an outgoing side again.
LEMMA HeartBeatBox ==
    ASSUME NEW out, Box(out), NEW ping \in BOOLEAN
    PROVE  Box(HeartBeat(out, ping))
<1>1. /\ out.msgs \in Seq(NetMessage) /\ out.urgentQ \in Seq(Nat)
      /\ out.commonQ \in Seq(Nat) /\ Len(out.msgs) \in Nat
      /\ out \in [msgs : Seq(NetMessage), urgentQ : Seq(Nat), commonQ : Seq(Nat)]
      /\ Range(out.urgentQ) \subseteq 1..Len(out.msgs)
      /\ Range(out.commonQ) \subseteq 1..Len(out.msgs)
    BY LenProperties DEF Box
<1>2. CASE out.urgentQ = <<>>
    <2> DEFINE beat == [Blank EXCEPT !.dummy = TRUE, !.inst = ping]
               n == Len(out.msgs) + 1
               box == [msgs |-> Append(out.msgs, beat),
                       urgentQ |-> Append(out.urgentQ, n),
                       commonQ |-> out.commonQ]
    <2>1. beat \in NetMessage
        BY DEF Blank, NetMessage, Status
    <2>2. HeartBeat(out, ping) = box
        BY <1>2 DEF HeartBeat, NewUrgent
    <2> HIDE DEF beat
    <2>3. /\ Append(out.msgs, beat) \in Seq(NetMessage)
          /\ Len(Append(out.msgs, beat)) = n
        BY <1>1, <2>1, AppendProperties
    <2>4. n \in Nat /\ 1..Len(out.msgs) \subseteq 1..n /\ n \in 1..n
        BY <1>1
    <2> HIDE DEF n
    <2>5. /\ Append(out.urgentQ, n) \in Seq(Nat)
          /\ Range(Append(out.urgentQ, n)) = Range(out.urgentQ) \cup {n}
        <3>1. \A q \in Seq(Nat), x \in Nat :
                 /\ Append(q, x) \in Seq(Nat)
                 /\ Range(Append(q, x)) = Range(q) \cup {x}
            BY AppendFact
        <3> QED BY <1>1, <2>4, <3>1, Zenon
    <2>6. Box(box)
        BY <1>1, <2>3, <2>4, <2>5 DEF Box
    <2> QED BY <2>2, <2>6
<1>3. CASE out.urgentQ # <<>> /\ ping
    <2> DEFINE i == Head(out.urgentQ)
               m == [out.msgs[i] EXCEPT !.inst = TRUE]
               ms == [out.msgs EXCEPT ![i] = m]
    <2>1. i \in 1..Len(out.msgs)
        BY <1>1, <1>3, TailFact
    <2>2. out.msgs[i] \in NetMessage
        BY <1>1, <2>1, LenProperties
    <2>3. m \in NetMessage /\ KeptMsg(out.msgs[i], m, {})
        BY <2>2 DEF NetMessage, KeptMsg
    <2>4. HeartBeat(out, ping) = [out EXCEPT !.msgs = ms]
        BY <1>3 DEF HeartBeat
    <2> HIDE DEF i, m
    <2>5. ms \in Seq(NetMessage) /\ Kept(out.msgs, ms, {})
        BY <1>1, <2>1, <2>3, KeptExcept
    <2>6. Len(ms) \in Nat /\ Len(out.msgs) =< Len(ms)
        BY <2>5, LenProperties DEF Kept
    <2> HIDE DEF ms
    <2>7. 1..Len(out.msgs) \subseteq 1..Len(ms)
        BY <1>1, <2>6
    <2> QED BY <1>1, <2>4, <2>5, <2>7 DEF Box
<1>4. CASE out.urgentQ # <<>> /\ ~ping
    BY <1>4 DEF HeartBeat
<1> QED BY <1>2, <1>3, <1>4

-----------------------------------------------------------------------------
(***************************************************************************)
(* The steps that allocate no VIM and number no message.                   *)
(***************************************************************************)
MsgsKept == \A q \in Peer : Kept(msgs[q], msgs'[q], {})

LEMMA SameMsgsKept ==
    ASSUME Invariant, NEW p \in Peer, \A q \in Peer \ {p} : msgs'[q] = msgs[q],
           Kept(msgs[p], msgs'[p], {})
    PROVE  MsgsKept
<1>1. ASSUME NEW q \in Peer \ {p}
      PROVE  Kept(msgs[q], msgs'[q], {})
    BY KeptSame, SoundParts DEF Invariant
<1> QED BY <1>1 DEF MsgsKept

LEMMA StatusKept ==
    ASSUME NEW p \in Peer, Invariant, PostSend(p) \/ DropObsolete(p)
    PROVE  MsgsKept
<1>1. /\ msgs \in [Peer -> Seq(NetMessage)] /\ msgs[p] \in Seq(NetMessage)
      /\ prepared[p] \in 0..Len(msgs[p]) /\ Queued(p) \subseteq 1..Len(msgs[p])
      /\ commonQ[p] \in Seq(Nat) /\ Len(msgs[p]) \in Nat
    <2>1. SenderInv
        BY DEF Invariant
    <2> QED BY <2>1, SoundParts DEF SenderInv, SenderTypes
<1>2. PICK i \in 1..Len(msgs[p]), st \in Status \ {"ack"} :
         msgs' = [msgs EXCEPT ![p][i].status = st]
    <2>1. CASE PostSend(p)
        <3>1. prepared[p] \in 1..Len(msgs[p]) /\ "sent" \in Status \ {"ack"}
            BY <1>1, <2>1 DEF PostSend, Status
        <3>2. msgs' = [msgs EXCEPT ![p][prepared[p]].status = "sent"]
            BY <2>1 DEF PostSend
        <3> QED BY <3>1, <3>2, Zenon
    <2>2. CASE DropObsolete(p)
        <3>1. Head(commonQ[p]) \in 1..Len(msgs[p])
            BY <1>1, <2>2, TailFact DEF DropObsolete, Queued
        <3>2. msgs' = [msgs EXCEPT ![p][Head(commonQ[p])].status = "obsolete"]
            BY <2>2 DEF DropObsolete
        <3>3. "obsolete" \in Status \ {"ack"}
            BY DEF Status
        <3> QED BY <3>1, <3>2, <3>3, Zenon
    <2> QED BY <2>1, <2>2
<1>3. msgs'[p] = [msgs[p] EXCEPT ![i].status = st]
    BY <1>1, <1>2
<1>4. \A q \in Peer \ {p} : msgs'[q] = msgs[q]
    BY <1>1, <1>2
<1>5. Kept(msgs[p], msgs'[p], {})
    BY <1>1, <1>3, KeptStatus
<1> QED BY <1>4, <1>5, SameMsgsKept

LEMMA CancelKept ==
    ASSUME NEW p \in Peer, Invariant, CancelQueues(p)
    PROVE  MsgsKept
<1> DEFINE ms == msgs[p]
           new == [i \in 1..Len(ms) |-> IF i \in Queued(p)
                                        THEN [ms[i] EXCEPT !.status = "cancel"]
                                        ELSE ms[i]]
<1>1. /\ msgs \in [Peer -> Seq(NetMessage)] /\ Len(ms) \in Nat
      /\ \A i \in 1..Len(ms) : ms[i] \in NetMessage
    <2>1. SenderInv
        BY DEF Invariant
    <2> QED BY <2>1, SoundParts DEF SenderInv, SenderTypes
<1>2. msgs'[p] = new /\ \A q \in Peer \ {p} : msgs'[q] = msgs[q]
    BY <1>1 DEF CancelQueues
<1> HIDE DEF ms
<1>3. \A i \in 1..Len(ms) : new[i] \in NetMessage /\ KeptMsg(ms[i], new[i], {})
    <2> TAKE i \in 1..Len(ms)
    <2>1. CASE i \in Queued(p)
        <3>1. new[i] = [ms[i] EXCEPT !.status = "cancel"]
            BY <2>1
        <3> QED BY <1>1, <3>1 DEF NetMessage, Status, KeptMsg
    <2>2. CASE i \notin Queued(p)
        <3>1. new[i] = ms[i]
            BY <2>2
        <3> QED BY <1>1, <3>1 DEF KeptMsg
    <2> QED BY <2>1, <2>2
<1>4. new \in [1..Len(ms) -> NetMessage]
    <2>1. new = [i \in 1..Len(ms) |-> new[i]]
        OBVIOUS
    <2> HIDE DEF new
    <2> QED BY <1>3, <2>1
<1> HIDE DEF new
<1>5. Len(new) = Len(ms)
    BY <1>1, <1>4, FunctionFact
<1>6. Len(ms) + 1..Len(new) = {}
    BY <1>1, <1>5
<1>7. Kept(ms, new, {})
    BY <1>1, <1>3, <1>5, <1>6 DEF Kept
<1> QED BY <1>2, <1>7, SameMsgsKept DEF ms

LEMMA CheckConnectivityKept ==
    ASSUME NEW p \in Peer, Invariant, CheckConnectivity(p)
    PROVE  MsgsKept
<1>1. PICK ping \in PingRequests : WriteOutbox(p, HeartBeat(Outbox(p), ping))
    BY DEF CheckConnectivity
<1>2. ping \in BOOLEAN /\ msgs \in [Peer -> Seq(NetMessage)]
    BY ModeAssumption DEF Invariant, SenderInv, SenderTypes
<1>3. /\ msgs'[p] = HeartBeat(Outbox(p), ping).msgs
      /\ \A q \in Peer \ {p} : msgs'[q] = msgs[q]
    BY <1>1, <1>2 DEF WriteOutbox
<1>4. Box(Outbox(p)) /\ Outbox(p).msgs = msgs[p]
    BY OutboxBox
<1>5. Kept(Outbox(p).msgs, HeartBeat(Outbox(p), ping).msgs, {})
    BY <1>2, <1>4, HeartBeatKept
<1> QED BY <1>3, <1>4, <1>5, SameMsgsKept

\* The boxes between inputStatistics, the heart-beat and the reply to a ping.
ListenerWrites(p, pkt) ==
    \E acked, out, last :
        /\ Box(acked) /\ Box(out) /\ Len(acked.msgs) = Len(msgs[p])
        /\ acked.urgentQ = urgentQ[p] /\ acked.commonQ = commonQ[p]
        /\ out = acked \/ \E ping \in BOOLEAN : out = HeartBeat(acked, ping)
        /\ last = out \/ last = DelayReply(out, pkt.serial)
        /\ WriteOutbox(p, last)

\* inputStatistics marks what the packet acknowledges.
LEMMA ReceiveNewKept ==
    ASSUME NEW p \in Peer, Invariant, NEW pkt \in net, pkt.src # p,
           ReceiveNew(p, pkt)
    PROVE  /\ Kept(msgs[p], msgs'[p], pkt.acks)
           /\ \A q \in Peer \ {p} : msgs'[q] = msgs[q]
           /\ ListenerWrites(p, pkt)
<1> DEFINE box == Outbox(p)
           acked == [box EXCEPT !.msgs = MarkAcked(p, @, pkt.acks)]
<1>1. PICK out \in StatisticsOutboxes(p, pkt) :
         WriteOutbox(p, IF pkt.inst THEN DelayReply(out, pkt.serial) ELSE out)
    BY DEF ReceiveNew
<1>2. pkt.serial \in Nat /\ 0 \notin pkt.acks
    <2>1. PICK q \in Peer : pkt \in
             [src : {q}, id : Ids(q), serial : Ids(q), vim : BOOLEAN,
              dummy : BOOLEAN, inst : BOOLEAN, pred : 0..MaxMsgs[q],
              acks : SUBSET Serials(q)]
        BY DEF Invariant, ReceiverInv, PacketSet
    <2>2. MaxMsgs[q] \in Nat /\ MaxMsgs[Other(q)] \in Nat
        BY BoundAssumption, OtherFact
    <2> QED BY <2>1, <2>2 DEF Ids, Serials
<1>3. Box(box) /\ box.msgs = msgs[p] /\ msgs \in [Peer -> Seq(NetMessage)]
    BY OutboxBox DEF Invariant, SenderInv, SenderTypes
<1> HIDE DEF box
<1>4. /\ acked.msgs = MarkAcked(p, box.msgs, pkt.acks)
      /\ acked.urgentQ = box.urgentQ /\ acked.commonQ = box.commonQ
    BY <1>3 DEF Box
<1>5. /\ Kept(box.msgs, acked.msgs, pkt.acks) /\ Box(acked)
      /\ Len(acked.msgs) = Len(box.msgs)
    <2>1. Kept(box.msgs, acked.msgs, pkt.acks)
        BY <1>3, <1>4, MarkAckedKept DEF Box
    <2>2. Len(acked.msgs) = Len(box.msgs) /\ acked.msgs \in Seq(NetMessage)
        <3>1. Sound(p, box) /\ box \in [msgs : Seq(NetMessage), urgentQ : Seq(Nat),
                                        commonQ : Seq(Nat)]
            BY <1>3 DEF Invariant, SenderInv, Box, box
        <3>2. Sound(p, acked)
            BY <3>1, MarkAckedSound
        <3>3. acked.msgs \in Seq(NetMessage)
            BY <3>2 DEF Sound, OutTypes
        <3>4. Len(box.msgs) \in Nat /\ DOMAIN acked.msgs = 1..Len(box.msgs)
                 /\ DOMAIN acked.msgs = 1..Len(acked.msgs) /\ Len(acked.msgs) \in Nat
            <4>1. DOMAIN acked.msgs = 1..Len(box.msgs)
                BY <1>4 DEF MarkAcked
            <4> QED BY <3>1, <3>3, <4>1, LenProperties
        <3> QED BY <3>3, <3>4
    <2>3. acked \in [msgs : Seq(NetMessage), urgentQ : Seq(Nat), commonQ : Seq(Nat)]
        BY <1>3, <1>4, <2>2 DEF Box
    <2> HIDE DEF acked
    <2> QED BY <1>3, <1>4, <2>1, <2>2, <2>3 DEF Box
<1> HIDE DEF acked
<1>6. out \in {box, acked} \cup {HeartBeat(acked, ping) : ping \in PingRequests}
    BY <1>1 DEF StatisticsOutboxes, box, acked
<1>7. Kept(box.msgs, out.msgs, pkt.acks) /\ Box(out)
    <2>1. CASE out = box
        BY <2>1, <1>3, KeptSame DEF Box
    <2>2. CASE out = acked
        BY <2>2, <1>5
    <2>3. ASSUME NEW ping \in PingRequests, out = HeartBeat(acked, ping)
          PROVE  Kept(box.msgs, out.msgs, pkt.acks) /\ Box(out)
        <3>1. ping \in BOOLEAN
            BY ModeAssumption
        <3>2. Kept(acked.msgs, out.msgs, pkt.acks) /\ Box(out)
            BY <1>5, <2>3, <3>1, HeartBeatKept, HeartBeatBox
        <3>3. /\ box.msgs \in Seq(NetMessage) /\ acked.msgs \in Seq(NetMessage)
              /\ out.msgs \in Seq(NetMessage)
            BY <1>3, <1>5, <3>2 DEF Box
        <3> QED BY <1>2, <1>5, <3>2, <3>3, KeptTransitive
    <2> QED BY <1>6, <2>1, <2>2, <2>3
<1> DEFINE last == IF pkt.inst THEN DelayReply(out, pkt.serial) ELSE out
<1>8. msgs'[p] = last.msgs /\ \A q \in Peer \ {p} : msgs'[q] = msgs[q]
    BY <1>1, <1>3 DEF WriteOutbox
<1>9. ListenerWrites(p, pkt)
    <2>1. WriteOutbox(p, last) /\ (last = out \/ last = DelayReply(out, pkt.serial))
        BY <1>1
    <2>2. box.urgentQ = urgentQ[p] /\ box.commonQ = commonQ[p]
        BY DEF box, Outbox
    <2> HIDE DEF last
    <2>3. CASE out = box
        BY <1>3, <2>1, <2>2, <2>3 DEF ListenerWrites
    <2>4. CASE out # box
        <3>1. out = acked \/ \E ping \in BOOLEAN : out = HeartBeat(acked, ping)
            BY <1>6, <2>4, ModeAssumption
        <3> QED BY <1>3, <1>4, <1>5, <1>7, <2>1, <2>2, <3>1 DEF ListenerWrites
    <2> QED BY <2>3, <2>4
<1>10. CASE ~pkt.inst
    BY <1>3, <1>7, <1>8, <1>9, <1>10
<1>11. CASE pkt.inst
    <2>1. last = DelayReply(out, pkt.serial)
        BY <1>11
    <2> HIDE DEF last
    <2>2. Kept(out.msgs, last.msgs, pkt.acks)
        BY <1>2, <1>7, <2>1, DelayReplyKept
    <2>3. /\ box.msgs \in Seq(NetMessage) /\ out.msgs \in Seq(NetMessage)
          /\ last.msgs \in Seq(NetMessage)
        <3>1. SoundStep
            BY <1>2, ReceiveNewSound DEF Invariant
        <3> QED BY <1>3, <1>7, <1>8, <3>1 DEF Box, SoundStep, SenderInv, SenderTypes
    <2> QED BY <1>2, <1>3, <1>7, <1>8, <1>9, <2>2, <2>3, KeptTransitive
<1> QED BY <1>8, <1>10, <1>11

-----------------------------------------------------------------------------
(***************************************************************************)
(* What marks a message as acknowledged.                                   *)
(***************************************************************************)
\* The serials of p that packets on the network acknowledge.
AcksTo(p) == UNION {pkt.acks : pkt \in Incoming(p)}

Marked(p) ==
    \A i \in 1..Len(msgs'[p]) :
        LET n == msgs'[p][i]
        IN  \/ /\ i \in 1..Len(msgs[p])
               /\ n.vim = msgs[p][i].vim /\ n.dummy = msgs[p][i].dummy
               /\ n.status = "ack" =>
                     /\ n.serial = msgs[p][i].serial
                     /\ msgs[p][i].status = "ack" \/ n.serial \in AcksTo(p)
            \/ /\ i \notin 1..Len(msgs[p])
               /\ n.status # "ack" /\ (n.vim => ~n.dummy)

LEMMA MarkedKept ==
    ASSUME NEW p \in Peer, msgs[p] \in Seq(NetMessage), NEW acks,
           acks \subseteq AcksTo(p), Kept(msgs[p], msgs'[p], acks)
    PROVE  Marked(p)
<1>1. Len(msgs[p]) \in Nat
    BY LenProperties
<1> SUFFICES ASSUME NEW i \in 1..Len(msgs'[p])
             PROVE  LET n == msgs'[p][i]
                    IN  \/ /\ i \in 1..Len(msgs[p])
                           /\ n.vim = msgs[p][i].vim /\ n.dummy = msgs[p][i].dummy
                           /\ n.status = "ack" =>
                                 /\ n.serial = msgs[p][i].serial
                                 /\ msgs[p][i].status = "ack" \/ n.serial \in AcksTo(p)
                        \/ /\ i \notin 1..Len(msgs[p])
                           /\ n.status # "ack" /\ (n.vim => ~n.dummy)
    BY DEF Marked
<1>2. CASE i \in 1..Len(msgs[p])
    BY <1>2 DEF Kept, KeptMsg
<1>3. CASE i \notin 1..Len(msgs[p])
    <2>1. i \in Len(msgs[p]) + 1..Len(msgs'[p])
        BY <1>1, <1>3
    <2> QED BY <1>3, <2>1 DEF Kept, Plain
<1> QED BY <1>2, <1>3

LEMMA MarkedSame ==
    ASSUME NEW p \in Peer, Invariant, msgs'[p] = msgs[p]
    PROVE  Marked(p)
<1>1. msgs[p] \in Seq(NetMessage)
    BY DEF Invariant, SenderInv, SenderTypes
<1>2. Kept(msgs[p], msgs'[p], AcksTo(p))
    BY <1>1, KeptSame
<1> QED BY <1>1, <1>2, MarkedKept

\* A message is allocated with its flags.
LEMMA MarkedNew ==
    ASSUME NEW p \in Peer, Invariant, NEW kind,
           Compose(p, kind) \/ DispatchPlain(p, kind), NEW q \in Peer
    PROVE  Marked(q)
<1>1. msgs \in [Peer -> Seq(NetMessage)] /\ SenderInv
    BY DEF Invariant, SenderInv, SenderTypes
<1>2. CASE q # p
    <2>1. msgs'[q] = msgs[q]
        BY <1>1, <1>2 DEF Compose, DispatchPlain
    <2> QED BY <2>1, MarkedSame
<1>3. CASE q = p
    <2>1. /\ Flagged(kind) \in NetMessage /\ Flagged(kind).serial = 0
          /\ Flagged(kind).status = "new"
          /\ Flagged(kind).pred = 0 /\ Flagged(kind).ctl2 = 0
          /\ Flagged(kind).dummy = FALSE
        BY FlaggedFact DEF Flagged, Blank
    <2>2. PICK m : /\ msgs' = [msgs EXCEPT ![p] = Append(@, m)]
                   /\ m \in {Flagged(kind), SetOrderedPrevious(p, Flagged(kind))}
        BY DEF Compose, DispatchPlain
    <2>3. m \in NetMessage /\ m.status = "new" /\ m.dummy = FALSE
        <3>1. CASE m = Flagged(kind)
            BY <2>1, <3>1
        <3>2. CASE m = SetOrderedPrevious(p, Flagged(kind))
            <4>1. m \in NetMessage /\ m.status = "new"
                BY <1>1, <2>1, <3>2, ComposedFact
            <4>2. \A m0 \in NetMessage : SetOrderedPrevious(p, m0).dummy = m0.dummy
                BY DEF SetOrderedPrevious, NetMessage
            <4> QED BY <2>1, <3>2, <4>1, <4>2
        <3> QED BY <2>2, <3>1, <3>2
    <2>4. /\ msgs'[p] = Append(msgs[p], m) /\ Len(msgs[p]) \in Nat
          /\ Len(msgs'[p]) = Len(msgs[p]) + 1
          /\ \A i \in 1..Len(msgs[p]) : msgs'[p][i] = msgs[p][i]
          /\ msgs'[p][Len(msgs[p]) + 1] = m
        BY <1>1, <2>2, <2>3, AppendProperties, LenProperties
    <2>5. \A i \in 1..Len(msgs'[p]) : i \in 1..Len(msgs[p]) \/ i = Len(msgs[p]) + 1
        BY <2>4
    <2>6. Len(msgs[p]) + 1 \notin 1..Len(msgs[p])
        BY <2>4
    <2>7. \A i \in 1..Len(msgs[p]) :
             /\ msgs'[p][i].vim = msgs[p][i].vim
             /\ msgs'[p][i].dummy = msgs[p][i].dummy
             /\ msgs'[p][i].serial = msgs[p][i].serial
             /\ msgs'[p][i].status = msgs[p][i].status
        BY <2>4
    <2>8. \A i \in 1..Len(msgs'[p]) : i \notin 1..Len(msgs[p]) =>
             msgs'[p][i].status # "ack" /\ ~msgs'[p][i].dummy
        BY <2>3, <2>4, <2>5
    <2>9. Marked(p)
        <3>1. ASSUME NEW i \in 1..Len(msgs'[p])
              PROVE  LET n == msgs'[p][i]
                     IN  \/ /\ i \in 1..Len(msgs[p])
                            /\ n.vim = msgs[p][i].vim /\ n.dummy = msgs[p][i].dummy
                            /\ n.status = "ack" =>
                                  /\ n.serial = msgs[p][i].serial
                                  /\ \/ msgs[p][i].status = "ack"
                                     \/ n.serial \in AcksTo(p)
                         \/ /\ i \notin 1..Len(msgs[p])
                            /\ n.status # "ack" /\ (n.vim => ~n.dummy)
            <4>1. CASE i \in 1..Len(msgs[p])
                BY <2>7, <4>1
            <4>2. CASE i \notin 1..Len(msgs[p])
                BY <2>8, <4>2
            <4> QED BY <4>1, <4>2
        <3> QED BY <3>1 DEF Marked
    <2> QED BY <1>3, <2>9
<1> QED BY <1>2, <1>3

\* A header marks nothing.
LEMMA MarkedTransmit ==
    ASSUME NEW p \in Peer, Invariant, Transmit(p), NEW q \in Peer
    PROVE  Marked(q)
<1>1. /\ msgs \in [Peer -> Seq(NetMessage)] /\ msgs[p] \in Seq(NetMessage)
      /\ SenderInv /\ QueueTypes /\ QueuesApart(p, Outbox(p))
      /\ Queued(p) \subseteq 1..Len(msgs[p])
    BY SoundParts DEF Invariant, SenderInv, SenderTypes
<1>2. PICK bw \in Bandwidths :
         msgs' = [msgs EXCEPT ![p][NextToSend(p)] = Header(p, NextToSend(p), bw)]
    BY DEF Transmit
<1>3. CASE q # p
    <2>1. msgs'[q] = msgs[q]
        BY <1>1, <1>2, <1>3
    <2> QED BY <2>1, MarkedSame
<1>4. CASE q = p
    <2>1. PICK i, h : i = NextToSend(p) /\ h = Header(p, NextToSend(p), bw)
        OBVIOUS
    <2>2. i \in Queued(p) /\ i \in 1..Len(msgs[p]) /\ bw \in BOOLEAN
        BY <1>1, <2>1, DequeueFact, ModeAssumption DEF Transmit
    <2>3. /\ h \in NetMessage /\ h.vim = msgs[p][i].vim /\ h.dummy = msgs[p][i].dummy
          /\ h.status # "ack"
        BY <1>1, <2>1, <2>2, HeaderFact
    <2>4. msgs'[p] = [msgs[p] EXCEPT ![i] = h]
        BY <1>1, <1>2, <2>1
    <2>5. /\ Len(msgs'[p]) = Len(msgs[p])
          /\ \A j \in 1..Len(msgs[p]) :
                msgs'[p][j] = IF j = i THEN h ELSE msgs[p][j]
        <3>1. DOMAIN msgs[p] = 1..Len(msgs[p]) /\ Len(msgs[p]) \in Nat
                 /\ msgs[p] \in [1..Len(msgs[p]) -> NetMessage]
            BY <1>1, LenProperties
        <3>2. msgs'[p] \in [1..Len(msgs[p]) -> NetMessage]
            BY <2>2, <2>3, <2>4, <3>1
        <3>3. Len(msgs'[p]) = Len(msgs[p])
            BY <3>1, <3>2, FunctionFact
        <3> QED BY <2>4, <3>1, <3>3
    <2> QED BY <1>4, <2>3, <2>5 DEF Marked
<1> QED BY <1>3, <1>4

LEMMA MarkedStep ==
    ASSUME Invariant, [Next]_vars, NEW q \in Peer
    PROVE  Marked(q)
<1>1. \A r \in Peer : msgs[r] \in Seq(NetMessage)
    BY DEF Invariant, SenderInv, SenderTypes
<1>2. ASSUME MsgsKept
      PROVE  Marked(q)
    <2>1. PICK none : none = {}
        OBVIOUS
    <2>2. Kept(msgs[q], msgs'[q], none) /\ none \subseteq AcksTo(q)
        BY <1>2, <2>1 DEF MsgsKept
    <2> QED BY <1>1, <2>2, MarkedKept
<1>3. ASSUME NEW p \in Peer, NEW kind \in AllKinds,
             Compose(p, kind) \/ DispatchPlain(p, kind)
      PROVE  Marked(q)
    BY <1>3, MarkedNew
<1>4. ASSUME NEW p \in Peer, CancelAllMessages(p) \/ Close(p)
      PROVE  Marked(q)
    BY <1>2, <1>4, CancelKept DEF CancelAllMessages, Close
<1>5. ASSUME NEW p \in Peer, PostSend(p) \/ DropObsolete(p) \/ CheckConnectivity(p)
      PROVE  Marked(q)
    BY <1>2, <1>5, StatusKept, CheckConnectivityKept
<1>6. ASSUME UNCHANGED msgs
      PROVE  Marked(q)
    BY <1>6, MarkedSame
<1>7. ASSUME NEW p \in Peer,
             \/ Dispatch(p) \/ Unregister(p) \/ ProcessVIM(p)
             \/ \E i \in revisited[p] : Resend(p, i) \/ Discard(p, i)
             \/ \E pkt \in net : ReceiveAgain(p, pkt)
      PROVE  Marked(q)
    BY <1>6, <1>7
       DEF Dispatch, Unregister, ProcessVIM, Resend, Discard, ReceiveAgain, sendVars
<1>8. ASSUME NEW p \in Peer, NEW pkt \in net, pkt.src # p, ReceiveNew(p, pkt)
      PROVE  Marked(q)
    <2>1. /\ Kept(msgs[p], msgs'[p], pkt.acks)
          /\ \A r \in Peer \ {p} : msgs'[r] = msgs[r]
        BY <1>8, ReceiveNewKept
    <2>2. pkt.acks \subseteq AcksTo(p)
        <3>1. pkt \in Incoming(p)
            BY <1>8, PacketFact DEF Invariant, ReceiverInv, Incoming
        <3> QED BY <3>1 DEF AcksTo
    <2> QED BY <1>1, <2>1, <2>2, MarkedKept, MarkedSame
<1>9. CASE UNCHANGED vars
    BY <1>6, <1>9 DEF vars, sendVars
<1>10. CASE Next
    BY <1>3, <1>4, <1>5, <1>7, <1>8, <1>10, MarkedTransmit
       DEF Next, UserStep, SenderStep, ListenerStep, Receive
<1> QED BY <1>9, <1>10

-----------------------------------------------------------------------------
(***************************************************************************)
(* An acknowledged VIM was received, and a received one is held until it   *)
(* is processed.                                                           *)
(***************************************************************************)
RealVims ==
    \A p \in Peer : \A i \in 1..Len(msgs[p]) : msgs[p][i].vim => ~msgs[p][i].dummy

AcksTrue == \A p \in Peer : AcksSound(p)
VimsHeld == \A p \in Peer : HeldUntilProcessed(p)

LEMMA RealVimsStep ==
    ASSUME Invariant, RealVims, [Next]_vars
    PROVE  RealVims'
<1>1. ASSUME NEW p \in Peer, NEW i \in 1..Len(msgs'[p]), msgs'[p][i].vim
      PROVE  ~msgs'[p][i].dummy
    BY <1>1, MarkedStep DEF Marked, RealVims
<1> QED BY <1>1 DEF RealVims

LEMMA MasksGrow ==
    ASSUME MasksSuffice, Invariant, EachOnce, [Next]_vars, NEW q \in Peer
    PROVE  ackMask[q] \subseteq ackMask'[q]
<1>1. CASE StillStep
    BY <1>1 DEF StillStep, recvVars
<1>2. ASSUME NEW p \in Peer, Transmit(p) \/ ProcessVIM(p) \/ Unregister(p)
      PROVE  ackMask' = ackMask
    BY <1>2 DEF Transmit, ProcessVIM, Unregister
<1>3. ASSUME NEW p \in Peer, NEW pkt \in net, ReceiveAgain(p, pkt)
      PROVE  ackMask' = ackMask
    BY <1>3 DEF ReceiveAgain
<1>4. ASSUME NEW p \in Peer, NEW pkt \in net, pkt.src # p, ReceiveNew(p, pkt)
      PROVE  ackMask[q] \subseteq ackMask'[q]
    <2>1. CASE q = p
        BY <1>4, <2>1, NewEffect DEF EachOnce
    <2>2. CASE q # p
        BY <1>4, <2>2, NewAckMask DEF SameWindows
    <2> QED BY <2>1, <2>2
<1> QED BY <1>1, <1>2, <1>3, <1>4, StepKinds DEF ReceptionStep

LEMMA AcksTrueStep ==
    ASSUME MasksSuffice, Invariant, EachOnce, AcksTrue, [Next]_vars
    PROVE  AcksTrue'
<1>1. \A q \in Peer : ackMask[q] \subseteq ackMask'[q] /\ Other(q) \in Peer
    BY MasksGrow, OtherFact
<1>2. ASSUME NEW p \in Peer, NEW pkt \in net', pkt.src = p
      PROVE  pkt.acks \subseteq ackMask'[p]
    <2>1. CASE pkt \in net
        BY <1>1, <1>2, <2>1 DEF AcksTrue, AcksSound
    <2>2. CASE pkt \notin net
        <3>1. PICK r \in Peer : Transmit(r)
            BY <1>2, <2>2, StepKinds
               DEF StillStep, ReceptionStep, ProcessVIM, Unregister
        <3>2. PICK i, h : net' = net \cup {Packet(r, i, h)}
            BY <3>1, TransmitFact
        <3>3. pkt = Packet(r, i, h)
            BY <2>2, <3>2
        <3>4. pkt.src = r /\ pkt.acks \subseteq ackMask[r]
            BY <3>3 DEF Packet
        <3> QED BY <1>1, <1>2, <3>4
    <2> QED BY <2>1, <2>2
<1>3. ASSUME NEW p \in Peer, NEW i \in 1..Len(msgs'[p]), msgs'[p][i].status = "ack"
      PROVE  msgs'[p][i].serial \in ackMask'[Other(p)]
    <2>1. /\ i \in 1..Len(msgs[p]) /\ msgs'[p][i].serial = msgs[p][i].serial
          /\ msgs[p][i].status = "ack" \/ msgs'[p][i].serial \in AcksTo(p)
        BY <1>3, MarkedStep DEF Marked
    <2>2. AcksTo(p) \subseteq ackMask[Other(p)]
        <3>1. \A pkt \in Incoming(p) : pkt.acks \subseteq ackMask[Other(p)]
            BY <1>1 DEF Incoming, AcksTrue, AcksSound
        <3> QED BY <3>1 DEF AcksTo
    <2> QED BY <1>1, <2>1, <2>2 DEF AcksTrue, AcksSound
<1>4. \A p \in Peer : Other(p)' = Other(p)
    BY DEF Other
<1> QED BY <1>2, <1>3, <1>4 DEF AcksTrue, AcksSound

\* Where the packets, masks and held messages of q are the same, so is this.
LEMMA HeldSame ==
    ASSUME NEW q \in Peer, HeldUntilProcessed(q), Incoming(q)' = Incoming(q),
           registered'[q] => registered[q], SameWindows(q)
    PROVE  HeldUntilProcessed(q)'
<1>1. Held(q)' = Held(q)
    BY DEF SameWindows, Held
<1> QED BY <1>1 DEF HeldUntilProcessed, SameWindows

\* A new packet repeats one that was there, if its serial was received.
LEMMA HeldTransmit ==
    ASSUME NEW p \in Peer, Invariant, MasksTrue, VimsHeld, [Next]_vars, Transmit(p),
           NEW q \in Peer
    PROVE  HeldUntilProcessed(q)'
<1>1. /\ net \subseteq net'
      /\ UNCHANGED <<registered, ackMask, procMask, deferred, working, delivered>>
    BY TransmitFact
<1>2. Invariant'
    BY NextStep DEF InvStep, SoundStep, Invariant
<1>3. Held(q)' = Held(q) /\ HeldUntilProcessed(q)
    BY <1>1 DEF Held, VimsHeld
<1>4. ASSUME NEW pkt \in Incoming(q)', registered[q], pkt.vim,
             pkt.serial \in ackMask[q]
      PROVE  IF pkt.serial \in procMask[q] THEN pkt.id \in Range(delivered[q])
             ELSE \E d \in Held(q) : d.serial = pkt.serial
    <2>1. pkt \in net' /\ pkt.src = Other(q) /\ pkt.src # q
        BY OtherFact DEF Incoming, Other
    <2>2. PICK old \in net : /\ old.src = pkt.src /\ old.serial = pkt.serial
                             /\ old.id = pkt.id /\ old.vim = pkt.vim
        BY <1>1, <1>2, <1>4, <2>1, OldPacket
    <2>3. old \in Incoming(q)
        BY <2>1, <2>2 DEF Incoming
    <2> QED BY <1>3, <1>4, <2>2, <2>3 DEF HeldUntilProcessed
<1> QED BY <1>1, <1>3, <1>4 DEF HeldUntilProcessed

\* A new VIM is held.
LEMMA HeldNew ==
    ASSUME NEW p \in Peer, MasksSuffice, Invariant, EachOnce, VimsHeld, RealVims,
           NEW pkt \in net, pkt.src # p, UNCHANGED net, ReceiveNew(p, pkt)
    PROVE  HeldUntilProcessed(p)'
<1>1. /\ ackMask'[p] = ackMask[p] \cup {pkt.serial} /\ procMask'[p] = procMask[p]
      /\ pkt.serial \notin ackMask[p] /\ procMask[p] \subseteq ackMask[p]
      /\ registered'[p] = registered[p] /\ Incoming(p)' = Incoming(p)
      /\ working[p] = {} /\ HeldUntilProcessed(p)
    BY NewEffect DEF EachOnce, ReceivedOnce, VimsHeld, Incoming
<1>2. \A d \in working'[p] : d.pred = 0 \/ d.pred \in procMask'[p]
    BY <1>1, NewEffect DEF EachOnce
<1>3. Held(p) \subseteq Held(p)'
    BY NewEffect DEF EachOnce, Held
<1>4. pkt.vim => pkt \in Held(p)' /\ delivered'[p] = delivered[p]
    <2>1. pkt.vim => ~pkt.dummy
        <3>1. PacketSound(pkt) /\ pkt.src \in Peer
            BY PacketFact DEF Invariant, ReceiverInv, PacketsSound
        <3> QED BY <3>1 DEF PacketSound, RealVims
    <2> QED BY <2>1, NewEffect DEF EachOnce
<1>5. Range(delivered[p]) \subseteq Range(delivered'[p])
    <2>1. delivered[p] \in Seq(Nat) /\ pkt.id \in Nat
        <3>1. pkt.id \in 1..MaxMsgs[pkt.src] /\ delivered[p] \in Seq(Nat)
            BY PacketFact DEF Invariant, ReceiverInv, ReceiverTypes
        <3> QED BY <3>1
    <2>2. delivered'[p] \in {delivered[p], Append(delivered[p], pkt.id)}
        BY NewEffect DEF EachOnce
    <2>3. Range(Append(delivered[p], pkt.id)) = Range(delivered[p]) \cup {pkt.id}
        BY <2>1, AppendFact
    <2> QED BY <2>2, <2>3
<1>6. ASSUME NEW a \in Incoming(p), registered[p], a.vim,
             a.serial \in ackMask[p] \cup {pkt.serial}
      PROVE  IF a.serial \in procMask[p] THEN a.id \in Range(delivered'[p])
             ELSE \E d \in Held(p)' : d.serial = a.serial
    <2>1. CASE a.serial \in ackMask[p]
        BY <1>1, <1>3, <1>5, <1>6, <2>1 DEF HeldUntilProcessed
    <2>2. CASE a.serial = pkt.serial
        <3>1. a \in net /\ a.src = pkt.src
            BY PacketFact DEF Incoming, Invariant, ReceiverInv
        <3>2. pkt.vim
            BY <1>6, <2>2, <3>1, OneSerial
        <3> QED BY <1>1, <1>4, <2>2, <3>2
    <2> QED BY <1>6, <2>1, <2>2
<1> QED BY <1>1, <1>2, <1>6 DEF HeldUntilProcessed

\* A processed VIM is given to the call-back, and those behind it may follow.
LEMMA HeldProcess ==
    ASSUME NEW p \in Peer, Invariant, EachOnce, VimsHeld, ProcessVIM(p)
    PROVE  HeldUntilProcessed(p)'
<1>1. PICK m \in working[p] :
         /\ procMask'[p] = procMask[p] \cup {m.serial}
         /\ Held(p)' = Held(p) \ {m}
         /\ \A d \in working'[p] : d \in working[p] \/ d.pred = m.serial
         /\ delivered'[p] = IF registered[p] THEN Append(delivered[p], m.id)
                                             ELSE delivered[p]
    BY ProcessEffect DEF EachOnce
<1>2. /\ Incoming(p)' = Incoming(p) /\ UNCHANGED <<registered, ackMask>>
      /\ HeldUntilProcessed(p)
    BY ProcessEffect DEF EachOnce, Incoming, VimsHeld
<1>3. \A d \in working'[p] : d.pred = 0 \/ d.pred \in procMask'[p]
    BY <1>1, <1>2 DEF HeldUntilProcessed
<1>4. m \in net /\ m.src = Other(p) /\ delivered[p] \in Seq(Nat) /\ m.id \in Nat
    <2>1. m \in net /\ m.src = Other(p) /\ delivered[p] \in Seq(Nat)
        BY ReceiverParts DEF Invariant, ReceiverInv, ReceiverTypes
    <2>2. m.id \in 1..MaxMsgs[m.src]
        BY <2>1, PacketFact DEF Invariant, ReceiverInv
    <2> QED BY <2>1, <2>2
<1>5. registered[p] => Range(delivered'[p]) = Range(delivered[p]) \cup {m.id}
    BY <1>1, <1>4, AppendFact
<1>6. ASSUME NEW a \in Incoming(p), registered[p], a.vim, a.serial \in ackMask[p]
      PROVE  IF a.serial \in procMask'[p] THEN a.id \in Range(delivered'[p])
             ELSE \E d \in Held(p)' : d.serial = a.serial
    <2>1. CASE a.serial = m.serial
        <3>1. a.id = m.id
            BY <1>4, <2>1, OneSerial DEF Incoming
        <3> QED BY <1>1, <1>5, <1>6, <2>1, <3>1
    <2>2. CASE a.serial # m.serial /\ a.serial \in procMask[p]
        BY <1>1, <1>2, <1>5, <1>6, <2>2 DEF HeldUntilProcessed
    <2>3. CASE a.serial # m.serial /\ a.serial \notin procMask[p]
        <3>1. PICK d \in Held(p) : d.serial = a.serial
            BY <1>2, <1>6, <2>3 DEF HeldUntilProcessed
        <3>2. d \in Held(p)' /\ a.serial \notin procMask'[p]
            BY <1>1, <2>3, <3>1
        <3> QED BY <3>1, <3>2
    <2> QED BY <2>1, <2>2, <2>3
<1> QED BY <1>2, <1>3, <1>6 DEF HeldUntilProcessed

LEMMA VimsHeldStep ==
    ASSUME MasksSuffice, Invariant, MasksTrue, EachOnce, RealVims, VimsHeld,
           [Next]_vars
    PROVE  VimsHeld'
<1>1. CASE StillStep
    <2>1. \A q \in Peer : /\ SameWindows(q) /\ Incoming(q)' = Incoming(q)
                          /\ registered'[q] = registered[q]
        BY <1>1 DEF StillStep, recvVars, SameWindows, Incoming, Other
    <2> QED BY <2>1, HeldSame DEF VimsHeld
<1>2. ASSUME NEW p \in Peer, Transmit(p)
      PROVE  VimsHeld'
    BY <1>2, HeldTransmit DEF VimsHeld
<1>3. ASSUME NEW p \in Peer, ProcessVIM(p)
      PROVE  VimsHeld'
    <2>1. HeldUntilProcessed(p)'
        BY <1>3, HeldProcess
    <2>2. ASSUME NEW q \in Peer \ {p}
          PROVE  HeldUntilProcessed(q)'
        <3>1. SameWindows(q) /\ UNCHANGED <<net, registered>>
            BY <1>3, ProcessEffect DEF EachOnce
        <3>2. Incoming(q)' = Incoming(q)
            BY <3>1 DEF Incoming, Other
        <3> QED BY <3>1, <3>2, HeldSame DEF VimsHeld
    <2> QED BY <2>1, <2>2 DEF VimsHeld
<1>4. ASSUME NEW p \in Peer, Unregister(p), NEW q \in Peer
      PROVE  HeldUntilProcessed(q)'
    <2>1. /\ UNCHANGED <<net, ackMask, procMask, working, delivered>>
          /\ registered' = [registered EXCEPT ![p] = FALSE]
          /\ deferred' = [deferred EXCEPT ![p] = {}]
        BY <1>4 DEF Unregister, histVars
    <2>2. /\ registered \in [Peer -> BOOLEAN] /\ deferred \in [Peer -> SUBSET net]
          /\ HeldUntilProcessed(q) /\ Incoming(q)' = Incoming(q)
        BY <2>1 DEF Invariant, SenderInv, SenderTypes, ReceiverInv, ReceiverTypes,
                    VimsHeld, Incoming, Other
    <2>3. CASE q = p
        <3>1. ~registered'[q]
            BY <2>1, <2>2, <2>3
        <3> QED BY <2>1, <2>2, <3>1 DEF HeldUntilProcessed
    <2>4. CASE q # p
        <3>1. registered'[q] = registered[q] /\ Held(q)' = Held(q)
            BY <2>1, <2>2, <2>4 DEF Held
        <3> QED BY <2>1, <2>2, <3>1 DEF HeldUntilProcessed
    <2> QED BY <2>3, <2>4
<1>5. ASSUME NEW p \in Peer, NEW pkt \in net, UNCHANGED net, ReceiveAgain(p, pkt)
      PROVE  VimsHeld'
    <2>1. UNCHANGED <<net, registered, ackMask, procMask, deferred, working, delivered>>
        BY <1>5 DEF ReceiveAgain, histVars, life
    <2> QED BY <2>1 DEF VimsHeld, HeldUntilProcessed, Held, Incoming, Other
<1>6. ASSUME NEW p \in Peer, NEW pkt \in net, pkt.src # p, UNCHANGED net,
             ReceiveNew(p, pkt)
      PROVE  VimsHeld'
    <2>1. HeldUntilProcessed(p)'
        BY <1>6, HeldNew
    <2>2. ASSUME NEW q \in Peer \ {p}
          PROVE  HeldUntilProcessed(q)'
        <3>1. SameWindows(q) /\ UNCHANGED registered
            BY <1>6, NewAckMask DEF ReceiveNew, life
        <3>2. Incoming(q)' = Incoming(q)
            BY <1>6 DEF Incoming, Other
        <3> QED BY <3>1, <3>2, HeldSame DEF VimsHeld
    <2> QED BY <2>1, <2>2 DEF VimsHeld
<1> QED BY <1>1, <1>2, <1>3, <1>4, <1>5, <1>6, StepKinds DEF ReceptionStep, VimsHeld

\* What newAcknowledgement marks, and runRevisited then forgets, its receiver has
\* given to the call-back or holds, as long as the bit-masks hold all serials.
THEOREM AcksHonest ==
    ASSUME MasksSuffice
    PROVE  Spec => []AckTruth
<1> DEFINE All == /\ Invariant /\ MasksTrue /\ EachOnce
                  /\ RealVims /\ AcksTrue /\ VimsHeld
<1>1. Init => All
    <2> SUFFICES ASSUME Init PROVE All
        OBVIOUS
    <2>1. \A p \in Peer : /\ msgs[p] = <<>> /\ Len(msgs[p]) = 0 /\ 1..Len(msgs[p]) = {}
                          /\ ackMask[p] = {} /\ working[p] = {}
        BY EmptyFact DEF Init
    <2>2. net = {}
        BY DEF Init
    <2>3. MasksTrue /\ RealVims /\ AcksTrue /\ VimsHeld
        BY <2>1, <2>2 DEF MasksTrue, MaskTrue, RealVims, AcksTrue, AcksSound,
                          VimsHeld, HeldUntilProcessed
    <2> QED BY <2>3, InitInvariant, EachOnceInit
<1>2. All /\ [Next]_vars => All'
    BY NextStep, MasksTrueStep, EachOnceStep, RealVimsStep, AcksTrueStep, VimsHeldStep
       DEF InvStep, SoundStep, Invariant
<1>3. All => AckTruth
    <2> SUFFICES ASSUME All, NEW p \in Peer, NEW q, q = Other(p),
                        NEW i \in 1..Len(msgs[p]),
                        msgs[p][i].vim, msgs[p][i].status = "ack", registered[q]
                 PROVE  \/ i \in Range(delivered[q])
                        \/ \E pkt \in deferred[q] \cup working[q] : pkt.id = i
        BY DEF AckTruth
    <2>1. q \in Peer /\ Other(q) = p
        BY OtherFact
    <2>2. msgs[p][i].serial \in ackMask[q]
        BY DEF AcksTrue, AcksSound
    <2>3. PICK a \in Incoming(q) : a.serial = msgs[p][i].serial
        BY <2>1, <2>2 DEF MasksTrue, MaskTrue
    <2>4. /\ SerialsFit(msgs[p], serial[p])
          /\ \A pkt \in net : PacketSound(pkt)
          /\ \A pkt \in net : pkt.serial # 0
        BY SoundParts, PacketFact DEF Invariant, PacketsSound, ReceiverInv
    <2>5. \A pkt \in Incoming(q) : pkt.serial = msgs[p][i].serial => pkt.id = i
        BY <2>1, <2>4 DEF Incoming, PacketSound, SerialsFit
    <2>6. a.id = i /\ a.vim
        BY <2>1, <2>3, <2>4, <2>5 DEF Incoming, PacketSound
    <2>7. CASE a.serial \in procMask[q]
        BY <2>1, <2>2, <2>3, <2>6, <2>7 DEF VimsHeld, HeldUntilProcessed
    <2>8. CASE a.serial \notin procMask[q]
        <3>1. PICK d \in Held(q) : d.serial = a.serial
            BY <2>1, <2>2, <2>3, <2>6, <2>8 DEF VimsHeld, HeldUntilProcessed
        <3>2. d \in Incoming(q)
            BY <2>1, ReceiverParts DEF Held, Incoming, Invariant
        <3> QED BY <2>3, <2>5, <3>1, <3>2 DEF Held
    <2> QED BY <2>7, <2>8
<1> HIDE DEF All
<1> QED BY <1>1, <1>2, <1>3, PTL DEF Spec
=============================================================================
