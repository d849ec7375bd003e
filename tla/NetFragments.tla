----------------------------- MODULE NetFragments -----------------------------
(***************************************************************************)
(* User messages of a session over one channel (NetTransportNet.cpp): the  *)
(* guaranteed ones (NMFGuaranteed) are split into parts when they are too  *)
(* long, the parts travel as VIMs of the channel, and the receiver merges  *)
(* them by their flags as they arrive.  What is complete waits in a list   *)
(* sorted by serial until the main thread asks for it.                     *)
(*                                                                         *)
(* The channel is VimChains: parts are numbered in the order of their      *)
(* dispatch, each waits for the one it is ordered behind.  The server also *)
(* sends AckPlayer on it, from its listener thread.                        *)
(*                                                                         *)
(* Not modelled: messages that are not guaranteed (they are never split),  *)
(* an allocation that fails, and RemoveUserMessages.                       *)
(***************************************************************************)
EXTENDS VimChains, SequencesExt

CONSTANTS
    Server,        \* the peer that accepts the other one as a player
    MaxUser,       \* MaxUser[p]: bound on the user messages p sends
    MaxParts,      \* the length of the longest one, in parts
    Urgencies,     \* subset of BOOLEAN: may a user message be NMFHighPriority?
    LateHandshake  \* TRUE: AckPlayer may follow messages of the user

ASSUME PeerAssumption == \A p \in Peer : \E q \in Peer : Peer = {p, q} /\ p # q
ASSUME FragmentAssumption ==
    /\ Server \in Peer
    /\ MaxUser \in [Peer -> Nat] /\ MaxParts \in Nat \ {0}
    /\ Urgencies \subseteq BOOLEAN /\ LateHandshake \in BOOLEAN

VARIABLES
    users,       \* users[p]: the messages SendMsg was called with, so far
    sentParts,   \* how many parts of the last one were dispatched
    draft,       \* the part between setOrderedPrevious and send, or NoDraft
    parts,       \* parts[p][k]: flags of the k-th VIM, and whose part it is
    lastVIM,     \* lastVIM[p][urg]: the last VIM dispatched in the class, or 0
    acked,       \* AckPlayer was sent
    queue,       \* queue[p][urgent]: urgentToSend and vimToSend
    wire,        \* wire[p]: the VIMs sent, in the order of their serials
    split,       \* split[p][urg]: parts p collects, split and splitUrgent
    received,    \* complete messages, as sequences of parts
    reported,    \* history: what the user's call-back was given
    orphan       \* a closing part came and there was no first one

fragVars == <<users, sentParts, draft, parts, lastVIM, acked, queue, wire,
              split, received, reported, orphan>>
vars == <<chainVars, fragVars>>

Other(p) == CHOOSE q \in Peer : q # p

NoDraft == [after |-> 0, closing |-> FALSE, part |-> FALSE, urg |-> FALSE,
            owner |-> 0, nth |-> 0]

Init ==
    /\ ChainInit
    /\ users = [p \in Peer |-> <<>>]
    /\ sentParts = [p \in Peer |-> 0]
    /\ draft = [p \in Peer |-> NoDraft]
    /\ parts = [p \in Peer |-> <<>>]
    /\ lastVIM = [p \in Peer |-> [urg \in BOOLEAN |-> 0]]
    /\ acked = FALSE
    /\ queue = [p \in Peer |-> [urgent \in BOOLEAN |-> <<>>]]
    /\ wire = [p \in Peer |-> <<>>]
    /\ split = [p \in Peer |-> [urg \in BOOLEAN |-> <<>>]]
    /\ received = [p \in Peer |-> <<>>]
    /\ reported = [p \in Peer |-> <<>>]
    /\ orphan = [p \in Peer |-> FALSE]

-----------------------------------------------------------------------------
(***************************************************************************)
(* Sending.  SendMsg holds the session's lock over all parts of a message; *)
(* AckPlayer is sent by the listener thread, after it has left that lock.  *)
(***************************************************************************)
\* The user message whose parts SendMsg of p is sending, if there is one.
Sending(p) ==
    users[p] # <<>> /\ sentParts[p] < users[p][Len(users[p])].size

SendMsg(p, size, urg) ==
    /\ ~Sending(p) /\ Len(users[p]) < MaxUser[p]
    /\ users' = [users EXCEPT ![p] = Append(@, [size |-> size, urg |-> urg])]
    /\ sentParts' = [sentParts EXCEPT ![p] = 0]
    /\ UNCHANGED <<chainVars, draft, parts, lastVIM, acked, queue, wire, split,
                   received, reported, orphan>>

\* setFlags and setOrderedPrevious for the next part.
ComposePart(p) ==
    /\ Sending(p) /\ draft[p] = NoDraft
    /\ LET user == users[p][Len(users[p])]
           nth == sentParts[p] + 1
       IN  draft' = [draft EXCEPT ![p] =
               [after |-> lastVIM[p][user.urg], closing |-> nth = user.size,
                part |-> user.size > 1, urg |-> user.urg,
                owner |-> Len(users[p]), nth |-> nth]]
    /\ UNCHANGED <<chainVars, users, sentParts, parts, lastVIM, acked, queue,
                   wire, split, received, reported, orphan>>

\* dispatchMessage: the VIM is the last one of its class and is queued.
Dispatch(p, part, urgent) ==
    LET k == Len(parts[p]) + 1
    IN  /\ Send(p, part.after)
        /\ parts' = [parts EXCEPT ![p] = Append(@, part)]
        /\ lastVIM' = [lastVIM EXCEPT ![p][part.urg] = k]
        /\ queue' = [queue EXCEPT ![p][urgent] = Append(@, k)]

DispatchPart(p) ==
    /\ draft[p] # NoDraft
    /\ Dispatch(p, draft[p], draft[p].urg)
    /\ draft' = [draft EXCEPT ![p] = NoDraft]
    /\ sentParts' = [sentParts EXCEPT ![p] = @ + 1]
    /\ UNCHANGED <<users, acked, wire, split, received, reported, orphan>>

\* ctrlReceive: the new player is in users, and may be sent messages to, before
\* AckPlayer is.  It is a VIM but neither ORDERED nor of the urgent class.
AckPlayer ==
    /\ ~acked
    /\ LateHandshake \/ (parts[Server] = <<>> /\ draft[Server] = NoDraft)
    /\ acked' = TRUE
    /\ Dispatch(Server, NoDraft, TRUE)
    /\ UNCHANGED <<users, sentParts, draft, wire, split, received, reported,
                   orphan>>

\* The sender thread gives the next message its serial.
Transmit(p) ==
    LET urgent == queue[p][TRUE] # <<>>
    IN  /\ queue[p][urgent] # <<>>
        /\ wire' = [wire EXCEPT ![p] = Append(@, Head(queue[p][urgent]))]
        /\ queue' = [queue EXCEPT ![p][urgent] = Tail(@)]
        /\ UNCHANGED <<chainVars, users, sentParts, draft, parts, lastVIM, acked,
                       split, received, reported, orphan>>

-----------------------------------------------------------------------------
(***************************************************************************)
(* Receiving: clientReceive and serverReceive.  The channel's listener     *)
(* gives them one VIM at a time.                                           *)
(***************************************************************************)
Serial(q, k) == CHOOSE s \in 1..Len(wire[q]) : wire[q][s] = k

\* The serial of a complete message is that of its last part.
SerialOf(q, message) == Serial(q, Last(message))

\* insertReceived passes the first n messages of the list, which are older, and
\* stops before one that is not.
Passes(p, message, n) ==
    LET q == Other(p)
        Older(j) == SerialOf(q, received[p][j]) < SerialOf(q, message)
    IN  /\ \A j \in 1..n : Older(j)
        /\ n < Len(received[p]) => ~Older(n + 1)

\* Mutant: the tail of the list is not linked to the new message.
InsertUnlinked(p, message) ==
    \E n \in 0..Len(received[p]) :
        /\ Passes(p, message, n)
        /\ received' = [received EXCEPT ![p] = Append(SubSeq(@, 1, n), message)]

\* insertReceived keeps the list sorted by serial.
InsertReceived(p, message) ==
    \E n \in 0..Len(received[p]) :
        /\ Passes(p, message, n)
        /\ received' = [received EXCEPT ![p] = InsertAt(@, n + 1, message)]

\* A part that is not the last one is remembered.
Collect(p, k, urg) ==
    /\ split' = [split EXCEPT ![p][urg] = Append(@, k)]
    /\ UNCHANGED <<received, orphan>>

\* Mutant: the list of parts is not cleared after the merge.
MergeKept(p, k, urg) ==
    IF split[p][urg] = <<>>
    THEN orphan' = [orphan EXCEPT ![p] = TRUE] /\ UNCHANGED <<split, received>>
    ELSE /\ InsertReceived(p, Append(split[p][urg], k))
         /\ UNCHANGED <<split, orphan>>

\* The last part is merged with those before it.  If there are none the server
\* drops it; the client takes for granted that there are.
Merge(p, k, urg) ==
    IF split[p][urg] = <<>>
    THEN orphan' = [orphan EXCEPT ![p] = TRUE] /\ UNCHANGED <<split, received>>
    ELSE /\ InsertReceived(p, Append(split[p][urg], k))
         /\ split' = [split EXCEPT ![p][urg] = <<>>]
         /\ UNCHANGED orphan

\* Mutant: one list of parts for both classes.
ListShared(part) == FALSE

\* Which of the two lists a part goes to.
List(part) == part.urg

\* The call-back for the k-th VIM of the other peer.  AckPlayer ends there.
Receive(p, k) ==
    LET q == Other(p)
        part == parts[q][k]
    IN  /\ k \in Range(wire[q])
        /\ Take(q, k)
        /\ IF part.owner = 0 THEN UNCHANGED <<split, received, orphan>>
           ELSE IF ~part.part
           THEN InsertReceived(p, <<k>>) /\ UNCHANGED <<split, orphan>>
           ELSE IF part.closing THEN Merge(p, k, List(part))
           ELSE Collect(p, k, List(part))
        /\ UNCHANGED <<users, sentParts, draft, parts, lastVIM, acked, queue,
                       wire, reported>>

\* ProcessUserMessages, for the first message of the list.
ProcessUserMessage(p) ==
    /\ received[p] # <<>>
    /\ reported' = [reported EXCEPT ![p] = Append(@, Head(received[p]))]
    /\ received' = [received EXCEPT ![p] = Tail(@)]
    /\ UNCHANGED <<chainVars, users, sentParts, draft, parts, lastVIM, acked,
                   queue, wire, split, orphan>>

-----------------------------------------------------------------------------
UserStep(p) == \E size \in 1..MaxParts, urg \in Urgencies : SendMsg(p, size, urg)

Run(p) ==
    \/ ComposePart(p)
    \/ DispatchPart(p)
    \/ Transmit(p)
    \/ \E k \in 1..Len(parts[Other(p)]) : Receive(p, k)
    \/ ProcessUserMessage(p)

Next == AckPlayer \/ \E p \in Peer : UserStep(p) \/ Run(p)

\* The threads go on, the main thread asks for messages again and again, and
\* the channel delivers what it was given (EventuallyDelivered in
\* NetChannelLive).  No step takes another's turn, so one condition is enough.
Fairness == WF_vars(AckPlayer \/ \E p \in Peer : Run(p))

Spec == Init /\ [][Next]_vars /\ Fairness

-----------------------------------------------------------------------------
(***************************************************************************)
(* Correctness.                                                            *)
(***************************************************************************)
TypeOK ==
    \A p \in Peer :
        /\ Len(parts[p]) = Len(after[p]) /\ taken[p] \subseteq Range(wire[p])
        /\ sentParts[p] \in 0..MaxParts
        /\ Range(wire[p]) \cup Range(queue[p][TRUE]) \cup Range(queue[p][FALSE])
              = 1..Len(parts[p])
        /\ \A urg \in BOOLEAN : Range(split[p][urg]) \subseteq taken[Other(p)]

\* The closing part of a message always finds the parts before it:
\* NET_ERROR(_client->split.NotNull()) in clientReceive.
OpenerPresent == \A p \in Peer : ~orphan[p]

\* The parts of a message as its receiver must find them: all of one user
\* message, in order.
Whole(q, message) ==
    LET owner == parts[q][message[1]].owner
    IN  /\ owner # 0 /\ Len(message) = users[q][owner].size
        /\ \A j \in 1..Len(message) : parts[q][message[j]].owner = owner
                                      /\ parts[q][message[j]].nth = j

\* Of a sequence of messages, the b-th is new and comes after all of its class
\* that were sent before it.
InTurn(q, messages, b) ==
    LET owner(m) == parts[q][m[1]].owner
        this == owner(messages[b])
    IN  /\ \A a \in 1..b-1 : owner(messages[a]) # this
        /\ \A i \in 1..this-1 : users[q][i].urg = users[q][this].urg =>
              \E a \in 1..b-1 : owner(messages[a]) = i

\* What the user was given and is about to be given: whole messages, those of
\* each class in the order of SendMsg, none left out and none twice.
WholeAndInOrder ==
    \A p \in Peer : LET all == reported[p] \o received[p] IN
        \A b \in 1..Len(all) : Whole(Other(p), all[b]) /\ InTurn(Other(p), all, b)

\* Each message SendMsg was called with is reported to the other user.
EventuallyReported ==
    []<>(\A p \in Peer :
            Len(users[p]) = Len(reported[Other(p)]))
===============================================================================
