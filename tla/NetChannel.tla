------------------------------ MODULE NetChannel ------------------------------
(***************************************************************************)
(* One reliable UDP channel of the Poseidon engine, both of its ends:      *)
(* NetChannelBasic (NetChannel.cpp) with the parts of NetMessage and of    *)
(* the peer's sender and listener threads (NetPeer.cpp) that drive it.     *)
(*                                                                         *)
(* A peer numbers every message it sends, remembers the sent ones in       *)
(* "revisited", resends the guaranteed ones (VIM) until they are           *)
(* acknowledged, and acknowledges what it received with a window of bits   *)
(* in every header.  A VIM may depend on the VIM before it; the receiver   *)
(* defers it until that one was processed.                                 *)
(*                                                                         *)
(* The network is the set of all packets ever sent: any packet may arrive  *)
(* any number of times, in any order, or never.                            *)
(*                                                                         *)
(* Not modelled: band-width, drop-out and latency statistics, and the      *)
(* clock.  A timeout is an action that may happen at any moment.           *)
(***************************************************************************)
EXTENDS Integers, Sequences, FiniteSets, SequencesExt

CONSTANTS
    Peer,           \* the two ends of the channel
    Kinds,          \* Kinds[p]: the kinds of message the user of p dispatches
    LateHandshake,  \* TRUE: a handshake may also be sent on a channel in use
    MaxMsgs,        \* MaxMsgs[p]: bound on the messages p ever allocates
    PingRequests,   \* subset of BOOLEAN: may a heart-beat ask for a reply?
    Bandwidths,     \* subset of BOOLEAN: may a header carry MSG_BANDWIDTH?
    MayCancel,      \* the peers that may call cancelAllMessages
    MayClose,       \* the peers that may close the channel
    ShortAck,       \* span of a 32-bit acknowledgement (31 in the code)
    LongAck,        \* span of a 64-bit acknowledgement (63 in the code)
    AckArray,       \* MAX_ACK_ARRAY
    AckRedundancy,  \* NetworkParams::ackRedundancy
    OldAckSlots,    \* MAX_OLD_ACKS - 1, what the oldAckQueue ring can hold
    MaxMask,        \* NetworkParams::maxChannelBitMask
    GoodMask,       \* GOOD_CHANNEL_BIT_MASK
    StarveGap       \* age of an owed ack that forces a heart-beat (31)

AllKinds == {"vim", "urgentVim", "common", "urgent", "handshake", "control"}

ASSUME PeerAssumption == \A p \in Peer : \E q \in Peer : Peer = {p, q} /\ p # q
ASSUME KindsAssumption == Kinds \in [Peer -> SUBSET AllKinds]
ASSUME ModeAssumption ==
    /\ LateHandshake \in BOOLEAN
    /\ PingRequests \subseteq BOOLEAN
    /\ Bandwidths \subseteq BOOLEAN
    /\ MayCancel \subseteq Peer /\ MayClose \subseteq Peer
ASSUME BoundAssumption ==
    /\ MaxMsgs \in [Peer -> Nat \ {0}]
    /\ ShortAck \in Nat /\ LongAck \in Nat
    /\ AckArray \in Nat \ {0} /\ AckRedundancy \in Nat \ {0}
    /\ OldAckSlots \in Nat
    /\ MaxMask \in Nat /\ GoodMask \in 1..MaxMask
    /\ StarveGap \in Nat

VARIABLES
    opened,      \* NetChannel::opened
    registered,  \* the channel is in its peer's chMap
    msgs,        \* msgs[p][i]: the i-th NetMessage p allocated
    draft,       \* the message between setOrderedPrevious and send, or 0
    urgentQ, vimQ, commonQ,    \* urgentToSend, vimToSend, commonToSend
    lastUrgent, lastVIM,       \* the last VIM dispatched, by class, or 0
    serial,      \* serial number of the next new message
    prepared,    \* the message between sendData and postSend, or 0
    revisited,   \* sent messages that wait for an ack or a timeout
    inputMax, inputMin,        \* newest serial received; oldest one in ack[]
    ackMin,      \* ackMaskMin: everything below counts as received
    ackMask,     \* serials received, from ackMin on
    ackLeft,     \* ack[], by serial: how often its ack is still to be sent
    oldAcks,     \* oldAckQueue: serials below inputMin to acknowledge again
    procMask,    \* serials of the VIMs processed
    deferred,    \* VIM packets whose predecessor was not processed yet
    working,     \* VIM packets the listener is about to process
    net,         \* packets sent
    dispatched,  \* history: the VIMs of p in the order of dispatchMessage
    delivered    \* history: messages given to the call-back of p, in order

sendVars == <<msgs, draft, urgentQ, vimQ, commonQ, lastUrgent, lastVIM,
              serial, prepared, revisited>>
recvVars == <<inputMax, inputMin, ackMin, ackMask, ackLeft, oldAcks, procMask,
              deferred, working>>
histVars == <<dispatched, delivered>>
life == <<opened, registered>>
vars == <<life, sendVars, recvVars, net, histVars>>

NotReceived == -1
Other(p) == CHOOSE q \in Peer : q # p

Ids(p) == 1..MaxMsgs[p]
\* Serials are never reused, so there are no more of them than messages.
Serials(p) == 1..MaxMsgs[Other(p)]

Status == {"new", "pending", "sent", "ack", "cancel", "obsolete"}

NetMessage ==
    [vim : BOOLEAN, urg : BOOLEAN, ord : BOOLEAN, dummy : BOOLEAN,
     inst : BOOLEAN, bw : BOOLEAN, delay : Nat, pred : Nat, ctl2 : Nat,
     serial : Nat, status : Status]

Blank ==
    [vim |-> FALSE, urg |-> FALSE, ord |-> FALSE, dummy |-> FALSE,
     inst |-> FALSE, bw |-> FALSE, delay |-> 0, pred |-> 0, ctl2 |-> 0,
     serial |-> 0, status |-> "new"]

\* SHORT_ACK: ORDERED, DELAY or BANDWIDTH takes control2, 32 bits are left.
Short(m) == m.ord \/ m.delay # 0 \/ m.bw

-----------------------------------------------------------------------------
Init ==
    /\ opened = [p \in Peer |-> TRUE]
    /\ registered = [p \in Peer |-> TRUE]
    /\ msgs = [p \in Peer |-> <<>>]
    /\ draft = [p \in Peer |-> 0]
    /\ urgentQ = [p \in Peer |-> <<>>]
    /\ vimQ = [p \in Peer |-> <<>>]
    /\ commonQ = [p \in Peer |-> <<>>]
    /\ lastUrgent = [p \in Peer |-> 0]
    /\ lastVIM = [p \in Peer |-> 0]
    /\ serial = [p \in Peer |-> 1]
    /\ prepared = [p \in Peer |-> 0]
    /\ revisited = [p \in Peer |-> {}]
    /\ inputMax = [p \in Peer |-> 1]
    /\ inputMin = [p \in Peer |-> 1]
    /\ ackMin = [p \in Peer |-> 1]
    /\ ackMask = [p \in Peer |-> {}]
    /\ ackLeft = [p \in Peer |-> [s \in Serials(p) |-> NotReceived]]
    /\ oldAcks = [p \in Peer |-> <<>>]
    /\ procMask = [p \in Peer |-> {}]
    /\ deferred = [p \in Peer |-> {}]
    /\ working = [p \in Peer |-> {}]
    /\ net = {}
    /\ dispatched = [p \in Peer |-> <<>>]
    /\ delivered = [p \in Peer |-> <<>>]

\* What is queued to be sent.
Queued(p) == Range(urgentQ[p]) \cup Range(vimQ[p]) \cup Range(commonQ[p])

-----------------------------------------------------------------------------
(***************************************************************************)
(* Sending.  The user composes a message and chooses its predecessor under *)
(* one hold of the channel lock, and dispatches it under another one; a    *)
(* lock of the session keeps other users out, but not the other threads.   *)
(*                                                                         *)
(*   vim, urgentVim  a guaranteed user message (SendMsg)                   *)
(*   urgent          the server's high-priority message without VIM: it is *)
(*                   made VIM by setOrderedPrevious if there is an urgent  *)
(*                   VIM to follow                                         *)
(*   common          a user message with a send timeout                    *)
(*   handshake       CreatePlayer or AckPlayer: VIM, never ORDERED, urgent *)
(*   control         Destroy/TerminateSession: urgent, no VIM              *)
(***************************************************************************)
Chained(kind) == kind \in {"vim", "urgentVim", "urgent"}

\* setOrderedPrevious, with the flags the message has before the call.
SetOrderedPrevious(p, m) ==
    LET last == IF m.urg THEN lastUrgent[p] ELSE lastVIM[p]
        lastSerial == msgs[p][last].serial
    IN  IF last = 0
        THEN m
        ELSE [m EXCEPT !.ord = TRUE, !.vim = TRUE,
                       !.pred = IF lastSerial = 0 THEN last ELSE 0,
                       !.ctl2 = lastSerial]

Flagged(kind) ==
    [Blank EXCEPT !.vim = kind \in {"vim", "urgentVim", "handshake"},
                  !.urg = kind \in {"urgentVim", "urgent"}]

\* newMessage, setFlags, setOrderedPrevious: a chained message up to send().
Compose(p, kind) ==
    /\ kind \in Kinds[p] /\ Chained(kind)
    /\ opened[p] /\ draft[p] = 0
    /\ Len(msgs[p]) < MaxMsgs[p]
    /\ msgs' = [msgs EXCEPT ![p] =
                   Append(@, SetOrderedPrevious(p, Flagged(kind)))]
    /\ draft' = [draft EXCEPT ![p] = Len(msgs[p]) + 1]
    /\ UNCHANGED <<life, urgentQ, vimQ, commonQ, lastUrgent, lastVIM, serial,
                   prepared, revisited, recvVars, net, histVars>>

\* Mutant: a message that is ORDERED itself is not remembered.
RememberFirst(p, i, m) ==
    /\ lastUrgent' = IF m.vim /\ m.urg /\ ~m.ord
                     THEN [lastUrgent EXCEPT ![p] = i] ELSE lastUrgent
    /\ lastVIM' = IF m.vim /\ ~m.urg /\ ~m.ord
                  THEN [lastVIM EXCEPT ![p] = i] ELSE lastVIM
    /\ dispatched' = IF m.vim THEN [dispatched EXCEPT ![p] = Append(@, i)]
                              ELSE dispatched

\* dispatchMessage remembers the last VIM of each class ...
RememberLast(p, i, m) ==
    /\ lastUrgent' = IF m.vim /\ m.urg THEN [lastUrgent EXCEPT ![p] = i]
                                       ELSE lastUrgent
    /\ lastVIM' = IF m.vim /\ ~m.urg THEN [lastVIM EXCEPT ![p] = i]
                                     ELSE lastVIM
    /\ dispatched' = IF m.vim THEN [dispatched EXCEPT ![p] = Append(@, i)]
                              ELSE dispatched

\* ... and appends the message to one of the three queues.
Enqueue(p, i, m, urgent) ==
    LET toUrgent == urgent \/ m.urg
    IN  /\ urgentQ' = IF toUrgent THEN [urgentQ EXCEPT ![p] = Append(@, i)]
                                  ELSE urgentQ
        /\ vimQ' = IF ~toUrgent /\ m.vim
                   THEN [vimQ EXCEPT ![p] = Append(@, i)] ELSE vimQ
        /\ commonQ' = IF ~toUrgent /\ ~m.vim
                      THEN [commonQ EXCEPT ![p] = Append(@, i)] ELSE commonQ

\* send() of the composed message.
Dispatch(p) ==
    /\ opened[p] /\ draft[p] # 0
    /\ draft' = [draft EXCEPT ![p] = 0]
    /\ RememberLast(p, draft[p], msgs[p][draft[p]])
    /\ Enqueue(p, draft[p], msgs[p][draft[p]], FALSE)
    /\ UNCHANGED <<life, msgs, serial, prepared, revisited, recvVars, net,
                   delivered>>

\* A message that is never ORDERED is composed and dispatched in one go; the
\* handshake comes from the thread that creates or reconnects the channel.
DispatchPlain(p, kind) ==
    LET m == Flagged(kind)
        i == Len(msgs[p]) + 1
    IN  /\ kind \in Kinds[p] /\ ~Chained(kind)
        /\ opened[p]
        /\ kind = "handshake" =>
              LateHandshake \/ (draft[p] = 0 /\ dispatched[p] = <<>>)
        /\ Len(msgs[p]) < MaxMsgs[p]
        /\ msgs' = [msgs EXCEPT ![p] = Append(@, m)]
        /\ RememberLast(p, i, m)
        /\ Enqueue(p, i, m, kind # "common")
        /\ UNCHANGED <<life, draft, serial, prepared, revisited, recvVars, net,
                       delivered>>

-----------------------------------------------------------------------------
(***************************************************************************)
(* The sender thread: choose a message, fill in its header, send it, and   *)
(* remember it.  Between the last two the listener may run, so they are    *)
(* two steps: an ack that arrives in between does not find the message.    *)
(* The thread holds the lock of its peer meanwhile, and looks for timeouts *)
(* (runRevisited) at other times.                                          *)
(***************************************************************************)
\* getPreparedMessage: urgent messages first, then VIMs, then common ones.
NextToSend(p) ==
    IF urgentQ[p] # <<>> THEN Head(urgentQ[p])
    ELSE IF vimQ[p] # <<>> THEN Head(vimQ[p])
    ELSE IF commonQ[p] # <<>> THEN Head(commonQ[p]) ELSE 0

Dequeue(p) ==
    /\ urgentQ' = IF urgentQ[p] = <<>> THEN urgentQ
                  ELSE [urgentQ EXCEPT ![p] = Tail(@)]
    /\ vimQ' = IF urgentQ[p] # <<>> \/ vimQ[p] = <<>> THEN vimQ
               ELSE [vimQ EXCEPT ![p] = Tail(@)]
    /\ commonQ' = IF urgentQ[p] # <<>> \/ vimQ[p] # <<>> THEN commonQ
                  ELSE [commonQ EXCEPT ![p] = Tail(@)]

\* The messages whose acknowledgement is still to be sent.
Owed(p) == {s \in inputMin[p]..inputMax[p] : ackLeft[p][s] > 0}

HasOldAck(p, m) ==
    m.delay = 0 /\ ackLeft[p][inputMax[p]] # NotReceived /\ oldAcks[p] # <<>>

\* The ack origin of header m: the newest serial of its acknowledgement mask.
AckOrigin(p, m) ==
    LET size == IF Short(m) THEN ShortAck ELSE LongAck
    IN  IF m.delay # 0 THEN m.delay
        ELSE IF ackLeft[p][inputMax[p]] = NotReceived THEN inputMax[p]
        ELSE IF oldAcks[p] # <<>> THEN Head(oldAcks[p])
        ELSE IF Owed(p) = {} THEN inputMax[p]
        ELSE Min({Min(Owed(p)) + size, inputMax[p]})

\* The serials the mask speaks of.
AckSpan(p, m) ==
    LET newest == AckOrigin(p, m)
        size == IF Short(m) THEN ShortAck ELSE LongAck
    IN  Max({newest - size, 0})..newest

\* Mutant: a resent message gets a new serial.
HeaderRenumbered(p, i, bw) ==
    LET m == msgs[p][i]
    IN  [m EXCEPT !.serial = serial[p], !.status = "pending", !.pred = 0,
                  !.ctl2 = IF m.pred # 0 THEN msgs[p][m.pred].serial ELSE @]

\* The header setOutputData leaves in message i.  A message that was sent
\* before keeps its serial; the predecessor's serial is known by now.
Header(p, i, bw) ==
    LET m == msgs[p][i]
        n == [m EXCEPT !.bw = @ \/ (bw /\ ~Short(m)),
                       !.ctl2 = IF m.ord /\ m.pred # 0
                                THEN msgs[p][m.pred].serial ELSE @,
                       !.pred = IF m.ord THEN 0 ELSE @]
    IN  IF m.status = "sent" THEN n
        ELSE [n EXCEPT !.serial = serial[p], !.status = "pending"]

\* Mutant: everything up to the newest serial received is acknowledged.
PacketCumulative(p, i, m) ==
    [src |-> p, id |-> i, serial |-> m.serial, vim |-> m.vim,
     dummy |-> m.dummy, inst |-> m.inst,
     pred |-> IF m.ord THEN m.ctl2 ELSE 0,
     acks |-> {s \in AckSpan(p, m) \cap Serials(p) : s =< inputMax[p]}]

\* What goes out on the wire: the header of m and the acks it carries.
Packet(p, i, m) ==
    [src |-> p, id |-> i, serial |-> m.serial, vim |-> m.vim,
     dummy |-> m.dummy, inst |-> m.inst,
     pred |-> IF m.ord THEN m.ctl2 ELSE 0,
     acks |-> ackMask[p] \cap AckSpan(p, m)]

\* Mutant: an ack is counted whether or not the mask speaks of it.
CountAcksAll(p, m) ==
    /\ oldAcks' = IF HasOldAck(p, m) THEN [oldAcks EXCEPT ![p] = Tail(@)]
                                     ELSE oldAcks
    /\ ackLeft' = [ackLeft EXCEPT ![p] =
           [s \in Serials(p) |->
               IF s >= inputMin[p] /\ @[s] > 0 THEN @[s] - 1 ELSE @[s]]]

\* Acknowledgements leave with the header: each is due once less.
CountAcks(p, m) ==
    /\ oldAcks' = IF HasOldAck(p, m) THEN [oldAcks EXCEPT ![p] = Tail(@)]
                                     ELSE oldAcks
    /\ ackLeft' = [ackLeft EXCEPT ![p] =
           [s \in Serials(p) |->
               IF s \in AckSpan(p, m) /\ s >= inputMin[p] /\ @[s] > 0
               THEN @[s] - 1 ELSE @[s]]]

\* getPreparedMessage, preSend and sendData.  A packet the socket refuses is
\* one that never arrives; the error status differs in nothing from "sent".
Transmit(p) ==
    /\ opened[p] /\ prepared[p] = 0 /\ NextToSend(p) # 0
    /\ \E bw \in Bandwidths :
          LET i == NextToSend(p)
              m == Header(p, i, bw)
          IN  /\ msgs' = [msgs EXCEPT ![p][i] = m]
              /\ serial' = IF msgs[p][i].status = "sent" THEN serial
                           ELSE [serial EXCEPT ![p] = @ + 1]
              /\ prepared' = [prepared EXCEPT ![p] = i]
              /\ net' = net \cup {Packet(p, i, m)}
              /\ CountAcks(p, m)
    /\ Dequeue(p)
    /\ UNCHANGED <<life, draft, lastUrgent, lastVIM, revisited, inputMax,
                   inputMin, ackMin, ackMask, procMask, deferred, working,
                   histVars>>

\* The status after sendData, and postSend; a closed channel only forgets.
PostSend(p) ==
    LET i == prepared[p]
    IN  /\ i # 0
        /\ prepared' = [prepared EXCEPT ![p] = 0]
        /\ msgs' = [msgs EXCEPT ![p][i].status = "sent"]
        /\ revisited' = IF opened[p] THEN [revisited EXCEPT ![p] = @ \cup {i}]
                                     ELSE revisited
        /\ UNCHANGED <<life, draft, urgentQ, vimQ, commonQ, lastUrgent,
                       lastVIM, serial, recvVars, net, histVars>>

\* getCommonMessage drops the oldest common message when it is out of date.
DropObsolete(p) ==
    /\ opened[p] /\ prepared[p] = 0
    /\ urgentQ[p] = <<>> /\ vimQ[p] = <<>> /\ commonQ[p] # <<>>
    /\ msgs' = [msgs EXCEPT ![p][Head(commonQ[p])].status = "obsolete"]
    /\ commonQ' = [commonQ EXCEPT ![p] = Tail(@)]
    /\ UNCHANGED <<life, draft, urgentQ, vimQ, lastUrgent, lastVIM, serial,
                   prepared, revisited, recvVars, net, histVars>>

\* insertResend: before the first younger message behind the head.
InsertResend(q, i) ==
    LET older == {k \in 2..Len(q) : \A j \in 2..k : q[j] < i}
    IN  InsertAt(q, IF q = <<>> \/ i < q[1] THEN 1 ELSE Cardinality(older) + 2, i)

\* Mutant: a resent message stays remembered as well.
ResendKept(p, i) ==
    /\ registered[p] /\ prepared[p] = 0 /\ i \in revisited[p]
    /\ msgs[p][i].vim /\ msgs[p][i].status # "ack"
    /\ urgentQ' = [urgentQ EXCEPT ![p] = InsertResend(@, i)]
    /\ UNCHANGED <<life, msgs, draft, vimQ, commonQ, lastUrgent, lastVIM,
                   serial, prepared, revisited, recvVars, net, histVars>>

\* runRevisited, for a guaranteed message whose ack did not come in time.  It
\* looks at "opened" before it takes the lock: close() may come in between.
Resend(p, i) ==
    /\ registered[p] /\ prepared[p] = 0 /\ i \in revisited[p]
    /\ msgs[p][i].vim /\ msgs[p][i].status # "ack"
    /\ urgentQ' = [urgentQ EXCEPT ![p] = InsertResend(@, i)]
    /\ revisited' = [revisited EXCEPT ![p] = @ \ {i}]
    /\ UNCHANGED <<life, msgs, draft, vimQ, commonQ, lastUrgent, lastVIM,
                   serial, prepared, recvVars, net, histVars>>

\* runRevisited, for a message it need not remember any longer.
Discard(p, i) ==
    /\ registered[p] /\ prepared[p] = 0 /\ i \in revisited[p]
    /\ ~(msgs[p][i].vim /\ msgs[p][i].status # "ack")
    /\ revisited' = [revisited EXCEPT ![p] = @ \ {i}]
    /\ UNCHANGED <<life, msgs, draft, urgentQ, vimQ, commonQ, lastUrgent,
                   lastVIM, serial, prepared, recvVars, net, histVars>>

\* The outgoing side the listener may write to: messages and two queues.
Outbox(p) == [msgs |-> msgs[p], urgentQ |-> urgentQ[p], commonQ |-> commonQ[p]]

WriteOutbox(p, out) ==
    /\ Len(out.msgs) =< MaxMsgs[p]
    /\ msgs' = [msgs EXCEPT ![p] = out.msgs]
    /\ urgentQ' = [urgentQ EXCEPT ![p] = out.urgentQ]
    /\ commonQ' = [commonQ EXCEPT ![p] = out.commonQ]

NewUrgent(out, m) ==
    [msgs |-> Append(out.msgs, m),
     urgentQ |-> Append(out.urgentQ, Len(out.msgs) + 1),
     commonQ |-> out.commonQ]

\* checkConnectivityInternal, when it is due: let an urgent message carry the
\* acknowledgements, and the request for a reply if a ping is due as well.
HeartBeat(out, ping) ==
    IF out.urgentQ = <<>>
    THEN NewUrgent(out, [Blank EXCEPT !.dummy = TRUE, !.inst = ping])
    ELSE IF ping
    THEN [out EXCEPT !.msgs = [@ EXCEPT ![Head(out.urgentQ)].inst = TRUE]]
    ELSE out

CheckConnectivity(p) ==
    /\ opened[p]
    /\ \E ping \in PingRequests : WriteOutbox(p, HeartBeat(Outbox(p), ping))
    /\ UNCHANGED <<life, draft, vimQ, lastUrgent, lastVIM, serial, prepared,
                   revisited, recvVars, net, histVars>>

\* setDelayMessage: the reply to a ping rides on an urgent message with a long
\* ack, else on the oldest common one (made urgent), else on an empty one.
DelayReply(out, request) ==
    LET long == {k \in 1..Len(out.urgentQ) : ~Short(out.msgs[out.urgentQ[k]])}
    IN  IF long # {}
        THEN [out EXCEPT !.msgs =
                 [@ EXCEPT ![out.urgentQ[Min(long)]].delay = request]]
        ELSE IF out.commonQ # <<>>
        THEN [msgs |-> [out.msgs EXCEPT ![Head(out.commonQ)].delay = request],
              urgentQ |-> Append(out.urgentQ, Head(out.commonQ)),
              commonQ |-> Tail(out.commonQ)]
        ELSE NewUrgent(out, [Blank EXCEPT !.delay = request])

-----------------------------------------------------------------------------
(***************************************************************************)
(* The listener thread: processData, up to the call-back of a VIM.  The    *)
(* lock is released around each call-back, so the call-backs of one packet *)
(* and of the packets deferred behind it are steps of their own.           *)
(***************************************************************************)
\* Mutant: a message counts as received while its ack is owed.
ReceivedOwed(p, s) ==
    s < ackMin[p] \/ (s \in Serials(p) /\ ackLeft[p][s] > 0)

\* Everything below the masks counts as received.
Received(p, s) == s < ackMin[p] \/ s \in ackMask[p]

\* WireBounds::SerialWithinSpan.
InSpan(p, s) == s >= ackMin[p] - MaxMask /\ s =< inputMax[p] + MaxMask

\* Mutant: a full oldAckQueue is overrun.
InputResentOverrun(p, pkt) ==
    LET s == pkt.serial
        inWindow == s >= inputMin[p]
    IN  /\ ackLeft' = IF s >= ackMin[p] /\ inWindow /\ pkt.vim
                      THEN [ackLeft EXCEPT ![p][s] = AckRedundancy]
                      ELSE ackLeft
        /\ oldAcks' = IF s >= ackMin[p] /\ ~inWindow
                      THEN [oldAcks EXCEPT ![p] = Append(@, s)]
                      ELSE oldAcks

\* Mutant: the ack of a message received again is not sent again.
InputResentIgnored(p, pkt) == UNCHANGED <<ackLeft, oldAcks>>

\* inputResent: a serial received before.  A VIM is acknowledged again.
InputResent(p, pkt) ==
    LET s == pkt.serial
        inWindow == s >= inputMin[p]
    IN  /\ ackLeft' = IF s >= ackMin[p] /\ inWindow /\ pkt.vim
                      THEN [ackLeft EXCEPT ![p][s] = AckRedundancy]
                      ELSE ackLeft
        /\ oldAcks' = IF s >= ackMin[p] /\ ~inWindow
                         /\ Len(oldAcks[p]) < OldAckSlots
                      THEN [oldAcks EXCEPT ![p] = Append(@, s)]
                      ELSE oldAcks

\* Nothing else in the header of a duplicate is looked at.
ReceiveAgain(p, pkt) ==
    /\ registered[p] /\ working[p] = {}
    /\ Received(p, pkt.serial)
    /\ InputResent(p, pkt)
    /\ UNCHANGED <<life, sendVars, inputMax, inputMin, ackMin, ackMask,
                   procMask, deferred, working, histVars>>

\* inputStatistics, first part: the windows of received serials move on.
NewMax(p, s) == Max({inputMax[p], s})
NewMin(p, s) == IF NewMax(p, s) - inputMin[p] >= AckArray
                THEN NewMax(p, s) - AckArray + 1 ELSE inputMin[p]
NewAckMin(p, s) == IF NewMax(p, s) - ackMin[p] > MaxMask
                   THEN NewMax(p, s) - MaxMask + GoodMask ELSE ackMin[p]

\* The acks still to be sent once s was received.
NewLeft(p, s) ==
    [t \in Serials(p) |->
        IF t < NewMin(p, s) THEN NotReceived
        ELSE IF t = s THEN AckRedundancy ELSE ackLeft[p][t]]

MoveWindows(p, s) ==
    /\ inputMax' = [inputMax EXCEPT ![p] = NewMax(p, s)]
    /\ inputMin' = [inputMin EXCEPT ![p] = NewMin(p, s)]
    /\ ackMin' = [ackMin EXCEPT ![p] = NewAckMin(p, s)]
    /\ ackMask' = [ackMask EXCEPT ![p] =
                      {t \in @ \cup {s} : t >= NewAckMin(p, s)}]
    /\ procMask' = [procMask EXCEPT ![p] = {t \in @ : t >= NewAckMin(p, s)}]
    /\ ackLeft' = [ackLeft EXCEPT ![p] = NewLeft(p, s)]

\* Many received messages wait for an ack and nothing is queued to carry it.
Starving(p, s) ==
    /\ urgentQ[p] = <<>> /\ vimQ[p] = <<>> /\ commonQ[p] = <<>>
    /\ \E t \in NewMin(p, s)..NewMax(p, s) :
          NewLeft(p, s)[t] > 0 /\ NewMax(p, s) - t > StarveGap

\* Mutant: a message that is on its way is marked as well.
MarkAckedAny(p, ms, acks) ==
    [i \in 1..Len(ms) |->
        IF ms[i].serial \in acks THEN [ms[i] EXCEPT !.status = "ack"]
        ELSE ms[i]]

\* newAcknowledgement, for each remembered message the mask names.
MarkAcked(p, ms, acks) ==
    [i \in 1..Len(ms) |->
        IF i \in revisited[p] /\ ms[i].serial \in acks
        THEN [ms[i] EXCEPT !.status = "ack"] ELSE ms[i]]

\* The outgoing side after inputStatistics: acknowledged messages are marked,
\* and a heart-beat is due or it is not.  It is due in starvation.
StatisticsOutboxes(p, pkt) ==
    LET acked == [Outbox(p) EXCEPT !.msgs = MarkAcked(p, @, pkt.acks)]
        beats == {HeartBeat(acked, ping) : ping \in PingRequests}
    IN  IF ~InSpan(p, pkt.serial) THEN {Outbox(p)}
        ELSE IF Starving(p, pkt.serial) THEN beats
        ELSE beats \cup {acked}

\* Mutant: it is enough that the predecessor was received.
MustDeferUnreceived(p, pkt) ==
    pkt.pred # 0 /\ pkt.pred >= ackMin'[p] /\ pkt.pred \notin ackMask'[p]

\* Mutant: a VIM never waits.
MustDeferNever(p, pkt) == FALSE

\* A VIM is deferred while its predecessor was not processed, ...
MustDefer(p, pkt) ==
    pkt.pred # 0 /\ pkt.pred >= ackMin'[p] /\ pkt.pred \notin procMask'[p]

\* ... a VIM that need not wait goes to processVIM, a dummy ends here, and
\* anything else goes to the call-back at once.
Sort(p, pkt) ==
    LET defer == pkt.vim /\ ~pkt.dummy /\ MustDefer(p, pkt)
        now == pkt.vim /\ ~pkt.dummy /\ ~MustDefer(p, pkt)
    IN  /\ deferred' = IF defer THEN [deferred EXCEPT ![p] = @ \cup {pkt}]
                                ELSE deferred
        /\ working' = IF now THEN [working EXCEPT ![p] = {pkt}] ELSE working
        /\ delivered' = IF pkt.vim \/ pkt.dummy THEN delivered
                        ELSE [delivered EXCEPT ![p] = Append(@, pkt.id)]

\* A serial not seen before.  One outside the span is not recorded, but its
\* message is processed all the same.
ReceiveNew(p, pkt) ==
    /\ registered[p] /\ working[p] = {}
    /\ ~Received(p, pkt.serial)
    /\ IF InSpan(p, pkt.serial) THEN MoveWindows(p, pkt.serial)
       ELSE UNCHANGED <<inputMax, inputMin, ackMin, ackMask, procMask, ackLeft>>
    /\ \E out \in StatisticsOutboxes(p, pkt) :
          WriteOutbox(p, IF pkt.inst THEN DelayReply(out, pkt.serial) ELSE out)
    /\ Sort(p, pkt)
    /\ UNCHANGED <<life, draft, vimQ, lastUrgent, lastVIM, serial,
                   prepared, revisited, oldAcks, dispatched>>

Receive(p, pkt) ==
    /\ pkt.src # p
    /\ ReceiveAgain(p, pkt) \/ ReceiveNew(p, pkt)

\* Mutant: the messages deferred behind this one stay deferred.
ProcessVIMAlone(p) ==
    \E m \in working[p] :
        LET fresh == m.serial >= ackMin[p]
        IN  /\ working' = [working EXCEPT ![p] = @ \ {m}]
            /\ procMask' = IF fresh
                           THEN [procMask EXCEPT ![p] = @ \cup {m.serial}]
                           ELSE procMask
            /\ delivered' = IF fresh /\ registered[p]
                            THEN [delivered EXCEPT ![p] = Append(@, m.id)]
                            ELSE delivered
            /\ UNCHANGED <<life, sendVars, inputMax, inputMin, ackMin, ackMask,
                           ackLeft, oldAcks, deferred, net, dispatched>>

\* processVIM: call back, mark as processed, go on with the messages deferred
\* behind this one.  At most one is (see OneSuccessor), so order is no matter.
ProcessVIM(p) ==
    \E m \in working[p] :
        LET kids == {d \in deferred[p] : d.pred = m.serial}
            fresh == m.serial >= ackMin[p]
        IN  /\ deferred' = [deferred EXCEPT ![p] = @ \ kids]
            /\ working' = [working EXCEPT ![p] = (@ \ {m}) \cup kids]
            /\ procMask' = IF fresh
                           THEN [procMask EXCEPT ![p] = @ \cup {m.serial}]
                           ELSE procMask
            /\ delivered' = IF fresh /\ registered[p]
                            THEN [delivered EXCEPT ![p] = Append(@, m.id)]
                            ELSE delivered
            /\ UNCHANGED <<life, sendVars, inputMax, inputMin,
                           ackMin, ackMask, ackLeft, oldAcks, net, dispatched>>

-----------------------------------------------------------------------------
(***************************************************************************)
(* cancelAllMessages drops what is queued and starts new chains of VIMs;   *)
(* what was sent already is still remembered and resent.  close() first    *)
(* stops the sending side and then, as it leaves the peer's map of         *)
(* channels, forgets the rest: packets may arrive in between.  Both hold   *)
(* the lock under which the user composes and dispatches a message.  The   *)
(* peer, when it cancels for all its channels or takes one out of its map, *)
(* holds the lock that the sender thread holds over a message.             *)
(***************************************************************************)
\* Mutant: the ends of the two chains are kept.
CancelQueuesChained(p) ==
    LET cancelled == Queued(p)
    IN  /\ msgs' = [msgs EXCEPT ![p] =
               [i \in 1..Len(@) |-> IF i \in cancelled
                                    THEN [@[i] EXCEPT !.status = "cancel"]
                                    ELSE @[i]]]
        /\ urgentQ' = [urgentQ EXCEPT ![p] = <<>>]
        /\ vimQ' = [vimQ EXCEPT ![p] = <<>>]
        /\ commonQ' = [commonQ EXCEPT ![p] = <<>>]
        /\ UNCHANGED <<registered, draft, serial, prepared, revisited, recvVars,
                       net, histVars, lastUrgent, lastVIM>>

\* Cancel what is queued, and start new chains.
CancelQueues(p) ==
    LET cancelled == Queued(p)
    IN  /\ msgs' = [msgs EXCEPT ![p] =
               [i \in 1..Len(@) |-> IF i \in cancelled
                                    THEN [@[i] EXCEPT !.status = "cancel"]
                                    ELSE @[i]]]
        /\ urgentQ' = [urgentQ EXCEPT ![p] = <<>>]
        /\ vimQ' = [vimQ EXCEPT ![p] = <<>>]
        /\ commonQ' = [commonQ EXCEPT ![p] = <<>>]
        /\ lastUrgent' = [lastUrgent EXCEPT ![p] = 0]
        /\ lastVIM' = [lastVIM EXCEPT ![p] = 0]
        /\ UNCHANGED <<registered, draft, serial, prepared, revisited, recvVars,
                       net, histVars>>

CancelAllMessages(p) ==
    /\ p \in MayCancel /\ opened[p] /\ draft[p] = 0 /\ prepared[p] = 0
    /\ CancelQueues(p)
    /\ UNCHANGED opened

Close(p) ==
    /\ p \in MayClose /\ opened[p] /\ draft[p] = 0
    /\ opened' = [opened EXCEPT ![p] = FALSE]
    /\ CancelQueues(p)

Unregister(p) ==
    /\ ~opened[p] /\ registered[p] /\ prepared[p] = 0
    /\ registered' = [registered EXCEPT ![p] = FALSE]
    /\ deferred' = [deferred EXCEPT ![p] = {}]
    /\ revisited' = [revisited EXCEPT ![p] = {}]
    /\ UNCHANGED <<opened, msgs, draft, urgentQ, vimQ, commonQ, lastUrgent,
                   lastVIM, serial, prepared, inputMax, inputMin, ackMin,
                   ackMask, ackLeft, oldAcks, procMask, working, net, histVars>>

-----------------------------------------------------------------------------
UserStep(p) ==
    \/ \E kind \in AllKinds : Compose(p, kind) \/ DispatchPlain(p, kind)
    \/ Dispatch(p)
    \/ CancelAllMessages(p)
    \/ Close(p)
    \/ Unregister(p)

SenderStep(p) ==
    \/ Transmit(p)
    \/ PostSend(p)
    \/ DropObsolete(p)
    \/ \E i \in revisited[p] : Resend(p, i) \/ Discard(p, i)

ListenerStep(p) ==
    \/ \E pkt \in net : Receive(p, pkt) /\ UNCHANGED net
    \/ ProcessVIM(p)

Next == \E p \in Peer : UserStep(p) \/ SenderStep(p) \/ ListenerStep(p)
                        \/ CheckConnectivity(p)

Spec == Init /\ [][Next]_vars

-----------------------------------------------------------------------------
(***************************************************************************)
(* Correctness.                                                            *)
(***************************************************************************)
PacketSet ==
    UNION {[src : {p}, id : Ids(p), serial : Ids(p), vim : BOOLEAN,
            dummy : BOOLEAN, inst : BOOLEAN, pred : 0..MaxMsgs[p],
            acks : SUBSET Serials(p)] : p \in Peer}

SenderTypes ==
    /\ opened \in [Peer -> BOOLEAN] /\ registered \in [Peer -> BOOLEAN]
    /\ msgs \in [Peer -> Seq(NetMessage)]
    /\ draft \in [Peer -> Nat] /\ prepared \in [Peer -> Nat]
    /\ urgentQ \in [Peer -> Seq(Nat)]
    /\ vimQ \in [Peer -> Seq(Nat)]
    /\ commonQ \in [Peer -> Seq(Nat)]
    /\ lastUrgent \in [Peer -> Nat] /\ lastVIM \in [Peer -> Nat]
    /\ serial \in [Peer -> Nat]
    /\ revisited \in [Peer -> SUBSET Nat]
    /\ dispatched \in [Peer -> Seq(Nat)]

ReceiverTypes ==
    /\ inputMax \in [Peer -> Nat] /\ inputMin \in [Peer -> Nat]
    /\ ackMin \in [Peer -> Nat]
    /\ ackMask \in [Peer -> SUBSET Nat] /\ procMask \in [Peer -> SUBSET Nat]
    /\ ackLeft = [p \in Peer |-> ackLeft[p]]
    /\ oldAcks \in [Peer -> Seq(Nat)]
    /\ deferred \in [Peer -> SUBSET net] /\ working \in [Peer -> SUBSET net]
    /\ delivered \in [Peer -> Seq(Nat)]

SenderBounds(p) ==
    /\ Len(msgs[p]) =< MaxMsgs[p]
    /\ {draft[p], prepared[p], lastUrgent[p], lastVIM[p]} \subseteq 0..Len(msgs[p])
    /\ Queued(p) \cup revisited[p] \subseteq 1..Len(msgs[p])
    /\ serial[p] \in 1..Len(msgs[p]) + 1
    /\ Range(dispatched[p]) \subseteq 1..Len(msgs[p])

ReceiverBounds(p) ==
    /\ inputMax[p] \in Serials(p)
    /\ inputMin[p] \in 1..inputMax[p] /\ ackMin[p] \in 1..inputMax[p]
    /\ ackMask[p] \subseteq Serials(p) /\ procMask[p] \subseteq Serials(p)
    /\ ackLeft[p] \in [Serials(p) -> -1..AckRedundancy]
    /\ Range(oldAcks[p]) \subseteq Serials(p) /\ Len(oldAcks[p]) =< OldAckSlots
    /\ Range(delivered[p]) \subseteq 1..Len(msgs[Other(p)])
    /\ \A pkt \in deferred[p] \cup working[p] : pkt.src = Other(p)

\* Every variable has its type.  Serials and ids stay within their bounds, so
\* that no header, window or queue refers to a message that does not exist.
TypeOK ==
    /\ SenderTypes /\ ReceiverTypes /\ net \subseteq PacketSet
    /\ \A p \in Peer : SenderBounds(p) /\ ReceiverBounds(p)

\* The b-th message got is the VIM whose turn it is: it is new, and each VIM of
\* its class that was dispatched before it was got before it.
InTurn(p, got, b) ==
    \E k \in 1..Len(dispatched[p]) :
        /\ dispatched[p][k] = got[b]
        /\ \A a \in 1..b-1 : got[a] # got[b]
        /\ \A j \in 1..k-1 :
              msgs[p][dispatched[p][j]].urg = msgs[p][got[b]].urg =>
                  \E a \in 1..b-1 : got[a] = dispatched[p][j]

\* The guaranteed messages of each class reach the call-back of the other peer
\* in the order of their dispatch, without a gap, whatever the network does
\* (MSG_VIM_FLAG, NetGlobal.hpp; setOrderedPrevious, NetMessage.hpp).
InOrder ==
    \A p \in Peer : \A b \in 1..Len(delivered[Other(p)]) :
        msgs[p][delivered[Other(p)][b]].vim => InTurn(p, delivered[Other(p)], b)

\* No message is given to the call-back twice, however often it is resent or
\* the network repeats it.
AtMostOnce ==
    \A p \in Peer : \A j, k \in 1..Len(delivered[p]) :
        delivered[p][j] = delivered[p][k] => j = k

\* A sender that marks a VIM as acknowledged, and stops resending it, may rely
\* on its peer: it was delivered or the peer holds it, unless the peer has
\* closed or its bit-masks have moved past the serial.
AckTruth ==
    \A p \in Peer : LET q == Other(p) IN
        \A i \in 1..Len(msgs[p]) :
            msgs[p][i].vim /\ msgs[p][i].status = "ack" =>
                \/ i \in Range(delivered[q])
                \/ \E pkt \in deferred[q] \cup working[q] : pkt.id = i
                \/ msgs[p][i].serial < ackMin[q]
                \/ ~registered[q]

\* In how many places of the sender message i stands.
Places(p, i) ==
    Cardinality({k \in 1..Len(urgentQ[p]) : urgentQ[p][k] = i})
    + Cardinality({k \in 1..Len(vimQ[p]) : vimQ[p][k] = i})
    + Cardinality({k \in 1..Len(commonQ[p]) : commonQ[p][k] = i})
    + (IF prepared[p] = i THEN 1 ELSE 0) + (IF i \in revisited[p] THEN 1 ELSE 0)

\* The sender neither loses a message nor holds it twice: each is in one queue,
\* under way, or remembered; and a VIM on an open channel is nowhere only when
\* it was acknowledged or cancelled.
OnePlace ==
    \A p \in Peer : \A i \in 1..Len(msgs[p]) :
        /\ Places(p, i) =< 1
        /\ i \in Range(dispatched[p]) /\ opened[p] /\ Places(p, i) = 0 =>
              msgs[p][i].status \in {"ack", "cancel"}

\* No acknowledgement is forgotten: a received VIM in the window either has its
\* ack still to be sent or some packet has carried it.
NoAckForgotten ==
    \A p \in Peer : \A pkt \in net :
        pkt.src # p /\ pkt.vim /\ pkt.serial \in ackMask[p]
            /\ pkt.serial >= inputMin[p] =>
                \/ ackLeft[p][pkt.serial] > 0
                \/ \E back \in net : back.src = p /\ pkt.serial \in back.acks

\* A resent message is the same message to its receiver.
ResentIsSame ==
    \A a, b \in net : a.src = b.src =>
        /\ a.id = b.id <=> a.serial = b.serial
        /\ a.id = b.id =>
              a.vim = b.vim /\ a.dummy = b.dummy /\ a.pred = b.pred

\* An ORDERED message never leaves without its predecessor's serial:
\* NET_ERROR(control2 != MSG_SERIAL_NULL) in setOutputData.
PredecessorKnown ==
    \A pkt \in net : msgs[pkt.src][pkt.id].ord => pkt.pred \in 1..pkt.serial - 1

\* No two messages wait behind the same one, so that it does not matter in
\* which order processVIM takes the messages deferred behind a serial.
OneSuccessor ==
    \A p \in Peer : \A d, e \in deferred[p] \cup working[p] :
        d.pred = e.pred /\ d.pred # 0 => d = e

\* An acknowledged message is done with: it is not acknowledged, sent or
\* cancelled again.
AckIsFinal ==
    [][\A p \in Peer : \A i \in 1..Len(msgs[p]) :
          msgs[p][i].status = "ack" => msgs'[p][i] = msgs[p][i]]_vars

\* The abstract channel of VimDelivery, read off the two histories.
Delivery == INSTANCE VimDelivery WITH
    Message <- UNION {Ids(p) : p \in Peer},
    sent <- [p \in Peer |->
                [k \in 1..Len(dispatched[p]) |->
                    [id |-> dispatched[p][k],
                     urg |-> msgs[p][dispatched[p][k]].urg]]],
    given <- [p \in Peer |-> delivered[Other(p)]]

\* The channel implements it: each step dispatches a VIM, gives the call-back the
\* next one of its class or another message, or does nothing to either history.
ImplementsDelivery == Delivery!Spec

\* The message a dispatched one is ordered behind, known by its serial once it
\* has been sent; 0 if there is none.
Predecessor(p, i) ==
    LET m == msgs[p][i]
    IN  IF ~m.ord THEN 0
        ELSE IF m.pred # 0 THEN m.pred
        ELSE CHOOSE j \in 1..Len(msgs[p]) : msgs[p][j].serial = m.ctl2

\* Where message i stands in the history of dispatched ones.
Position(p, i) ==
    IF i = 0 THEN 0
    ELSE CHOOSE k \in 1..Len(dispatched[p]) : dispatched[p][k] = i

\* The abstract channel of VimChains.
Chains == INSTANCE VimChains WITH
    after <- [p \in Peer |->
                 [k \in 1..Len(dispatched[p]) |->
                     Position(p, Predecessor(p, dispatched[p][k]))]],
    taken <- [p \in Peer |->
                 {k \in 1..Len(dispatched[p]) :
                     dispatched[p][k] \in Range(delivered[Other(p)])}]

\* The channel implements it even when handshakes cut the chain of the user's
\* messages: a VIM is delivered once and after the one it is ordered behind.
ImplementsChains == Chains!ChainSpec
===============================================================================
