----------------------------- MODULE NetSession -----------------------------
(***************************************************************************)
(* The server's books about its players, NetTransportNet.cpp: the listener *)
(* creates players from the CreatePlayer messages it receives and destroys *)
(* those who leave; the sender destroys the ones it has sent a kick to;    *)
(* the game's thread learns of both in ProcessPlayers.  A step is what one *)
(* thread does under usrCs without leaving it.  Versions, passwords and    *)
(* the names of players are left out.                                      *)
(***************************************************************************)
EXTENDS Integers, FiniteSets

CONSTANTS
  Addrs,       \* the distant IP:port pairs
  Uids,        \* the unique IDs clients propose
  Tries,       \* UNIQUE_TO_TRY
  MaxPlayers,  \* session.maxPlayers
  MaxCreates,  \* bound: CreatePlayer messages received
  Nobody       \* no player, no address

Ids == UNION {u .. u + Tries - 1 : u \in Uids}

ASSUME SessionAssumption ==
  /\ Uids \subseteq Nat
  /\ Tries \in Nat \ {0}
  /\ MaxPlayers \in Nat
  /\ MaxCreates \in Nat
  /\ Nobody \notin Addrs
  /\ Nobody \notin Ids

VARIABLES
  users,     \* users: the address of the channel of each player, or Nobody
  chans,     \* addresses with a channel of their own (the peer's chMap)
  support,   \* addresses with an entry in m_support
  creates,   \* _createPlayers: how often each player is in the list
  deletes,   \* _deletePlayers: likewise
  known,     \* the players the game was told of and not told to forget
  kicks,     \* players whose kick message waits in their channel
  sender,    \* the player whose kick was sent, its call-back to come
  listener,  \* what the listener is in the middle of
  received   \* CreatePlayer messages so far

books == <<users, chans, support, creates, deletes>>
vars == <<books, known, kicks, sender, listener, received>>

Idle == [pc |-> "idle", addr |-> Nobody, uid |-> Nobody]

Players == {p \in Ids : users[p] # Nobody}

TypeOK ==
  /\ users \in [Ids -> Addrs \cup {Nobody}]
  /\ chans \subseteq Addrs
  /\ support \subseteq Addrs
  /\ creates \in [Ids -> Nat]
  /\ deletes \in [Ids -> Nat]
  /\ known \subseteq Ids
  /\ kicks \subseteq Ids
  /\ sender \in Ids \cup {Nobody}
  /\ listener.pc \in {"idle", "wait", "part"}
  /\ listener.addr \in Addrs \cup {Nobody}
  /\ listener.uid \in Uids \cup {Nobody}
  /\ received \in 0 .. MaxCreates

Init ==
  /\ users = [p \in Ids |-> Nobody]
  /\ chans = {}
  /\ support = {}
  /\ creates = [p \in Ids |-> 0]
  /\ deletes = [p \in Ids |-> 0]
  /\ known = {}
  /\ kicks = {}
  /\ sender = Nobody
  /\ listener = Idle
  /\ received = 0

-----------------------------------------------------------------------------
(* finishDestroyPlayer, deleteChannel and channelToPlayer. *)

\* Mutant: a player not yet announced is announced as deleted.
WithdrawnLate(p) == deletes' = [deletes EXCEPT ![p] = @ + 1] /\ UNCHANGED creates

\* Mutant: both lists are changed.
WithdrawnTwice(p) ==
  /\ creates' = [creates EXCEPT ![p] = @ - 1]
  /\ deletes' = [deletes EXCEPT ![p] = @ + 1]

\* A player not yet announced to the game is forgotten, the others are
\* announced as deleted.
Withdrawn(p) ==
  IF creates[p] > 0
    THEN creates' = [creates EXCEPT ![p] = @ - 1] /\ UNCHANGED deletes
    ELSE deletes' = [deletes EXCEPT ![p] = @ + 1] /\ UNCHANGED creates

\* Mutant: the channel stays in the peer's map.
ClosedNot(p) == chans' = chans /\ support' = support \ {users[p]}

\* The channel leaves the peer's map, the fragments go with it.
Closed(p) == chans' = chans \ {users[p]} /\ support' = support \ {users[p]}

\* users.get fails for a player who is already gone: nothing happens.
Finish(p) ==
  IF p \in Players
    THEN /\ users' = [users EXCEPT ![p] = Nobody]
         /\ Closed(p)
         /\ Withdrawn(p)
         /\ kicks' = kicks \ {p}
    ELSE UNCHANGED <<books, kicks>>

\* The player of the channel of an address, -1 (here Nobody) if there is none.
ChannelToPlayer(a) ==
  IF \E p \in Players : users[p] = a
    THEN CHOOSE p \in Players : users[p] = a
    ELSE Nobody

-----------------------------------------------------------------------------
(* The listener: ctrlReceive and serverReceive. *)

\* The IDs at which a CreatePlayer message is recognised as a duplicate.
Recent(u) == u - Tries + 1 .. u

IsDuplicate(a, u) == \E p \in Recent(u) \cap Players : users[p] = a

Free(u) == {p \in u .. u + Tries - 1 :
              /\ p \notin Players
              /\ \A q \in u .. p - 1 : q \in Players}

Full == MaxPlayers > 0 /\ Cardinality(Players) + 2 > MaxPlayers

\* createChannel fails for an address that has a channel.
Accept(a, u) ==
  IF Free(u) = {} \/ Full \/ a \in chans
    THEN UNCHANGED books
    ELSE \E p \in Free(u) :
           /\ users' = [users EXCEPT ![p] = a]
           /\ chans' = chans \cup {a}
           /\ support' = support \cup {a}
           /\ creates' = [creates EXCEPT ![p] = @ + 1]
           /\ UNCHANGED deletes

\* A CreatePlayer message.  From an address in use it is a duplicate, or the
\* old player goes first and the listener lets go of usrCs for DESTROY_WAIT.
CreatePlayer(a, u) ==
  /\ listener.pc = "idle"
  /\ received < MaxCreates
  /\ received' = received + 1
  /\ \/ /\ a \notin chans
        /\ Accept(a, u)
        /\ UNCHANGED <<listener, kicks>>
     \/ /\ a \in chans
        /\ IsDuplicate(a, u)
        /\ UNCHANGED <<books, listener, kicks>>
     \/ /\ a \in chans
        /\ ~IsDuplicate(a, u)
        /\ Finish(ChannelToPlayer(a))
        /\ listener' = [pc |-> "wait", addr |-> a, uid |-> u]
  /\ UNCHANGED <<known, sender>>

\* The wait is over: the new player is created.
CreateWaited ==
  /\ listener.pc = "wait"
  /\ Accept(listener.addr, listener.uid)
  /\ listener' = Idle
  /\ UNCHANGED <<known, kicks, sender, received>>

\* A DestroyPlayer message: the player leaves.
DestroyMsg(a) ==
  /\ listener.pc = "idle"
  /\ a \in chans
  /\ Finish(ChannelToPlayer(a))
  /\ UNCHANGED <<known, sender, listener, received>>

\* A part of a message arrives on the channel of a player...
ReceivePart(a) ==
  /\ listener.pc = "idle"
  /\ a \in chans
  /\ listener' = [pc |-> "part", addr |-> a, uid |-> Nobody]
  /\ UNCHANGED <<books, known, kicks, sender, received>>

\* ... and is kept in the support of its address, looked up without usrCs.
KeepPart ==
  /\ listener.pc = "part"
  /\ listener' = Idle
  /\ UNCHANGED <<books, known, kicks, sender, received>>

-----------------------------------------------------------------------------
(* The game's thread. *)

KickOff(p) ==
  /\ p \in Players \ kicks
  /\ kicks' = kicks \cup {p}
  /\ UNCHANGED <<books, known, sender, listener, received>>

Listed(list) == {p \in Ids : list[p] > 0}

\* Mutant: the creations are told first.
ToldBackwards == (known \cup Listed(creates)) \ Listed(deletes)

\* The deletions are told before the creations.
Told == (known \ Listed(deletes)) \cup Listed(creates)

\* callbackCreate may refuse a new player: it kicks it off at once.
ProcessPlayers ==
  /\ Listed(creates) \cup Listed(deletes) # {}
  /\ known' = Told
  /\ creates' = [p \in Ids |-> 0]
  /\ deletes' = [p \in Ids |-> 0]
  /\ \E refused \in SUBSET (Listed(creates) \cap Players) : kicks' = kicks \cup refused
  /\ UNCHANGED <<users, chans, support, sender, listener, received>>

-----------------------------------------------------------------------------
(* The sender. *)

\* The kick message goes out: postSend finds the channel still opened...
Send(p) ==
  /\ sender = Nobody
  /\ p \in kicks
  /\ sender' = p
  /\ kicks' = kicks \ {p}
  /\ UNCHANGED <<books, known, listener, received>>

\* Mutant: the call-back does nothing.
SentUnheard ==
  /\ sender # Nobody
  /\ sender' = Nobody
  /\ UNCHANGED <<books, known, kicks, listener, received>>

\* ... and calls destroyPlayerCallback, which has only the player's ID.
Sent ==
  /\ sender # Nobody
  /\ Finish(sender)
  /\ sender' = Nobody
  /\ UNCHANGED <<known, listener, received>>

Next ==
  \/ \E a \in Addrs, u \in Uids : CreatePlayer(a, u)
  \/ CreateWaited
  \/ \E a \in Addrs : DestroyMsg(a) \/ ReceivePart(a)
  \/ KeepPart
  \/ \E p \in Ids : KickOff(p) \/ Send(p)
  \/ ProcessPlayers
  \/ Sent

\* The listener and the sender never block for good, and the game calls
\* ProcessPlayers in every frame.
Fairness ==
  /\ WF_vars(CreateWaited)
  /\ WF_vars(KeepPart)
  /\ WF_vars(ProcessPlayers)
  /\ WF_vars(\E p \in Ids : Send(p))
  /\ WF_vars(Sent)

Spec == Init /\ [][Next]_vars
FairSpec == Spec /\ Fairness

-----------------------------------------------------------------------------
(* Properties. *)

\* What the game knows and the news waiting for it add up to the players of
\* the session: no player is announced twice, none is announced and deleted
\* in the wrong order, no deletion names a player the game never heard of,
\* whatever the three threads do between two calls of ProcessPlayers
\* (finishDestroyPlayer, NetTransportNet.cpp:2106-2124).
Accounted ==
  /\ \A p \in Ids : creates[p] <= 1 /\ deletes[p] <= 1
  /\ Listed(deletes) \subseteq known
  /\ Listed(creates) \cap (known \ Listed(deletes)) = {}
  /\ Players = (known \ Listed(deletes)) \cup Listed(creates)

\* Three structures say who is connected, the users, the peer's map of
\* channels and the supports of the addresses; between two steps under usrCs
\* they agree, and no two players share a channel.
BooksAgree ==
  /\ \A p, q \in Players : users[p] = users[q] => p = q
  /\ chans = {users[p] : p \in Players}
  /\ support = chans

\* A kick has its effect: a player with a kick under way leaves the session,
\* by the sender's call-back or in another way (NetTransportNet.cpp:2038-2048).
KickedGoes == \A p \in Ids : (p \in kicks \/ sender = p) ~> (p \notin Players)

\* When players stop coming and going the game ends up knowing exactly the
\* ones who are there.
EventuallyTold == <>[](known = Players)

=============================================================================
