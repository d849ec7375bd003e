-------------------------- MODULE NetSessionProofs --------------------------
(***************************************************************************)
(* The server's books agree, and the news for the game add up, for any     *)
(* number of addresses, unique IDs and players, and any interleaving of    *)
(* the three threads.                                                      *)
(***************************************************************************)
EXTENDS NetSession, TLAPS

\* What the listener took with it into the wait is an address and a unique ID.
WaitOK ==
  listener.pc = "wait" => listener.addr \in Addrs /\ listener.uid \in Uids

IInv == TypeOK /\ WaitOK /\ Accounted /\ BooksAgree

\* The part of the invariant that is about the books alone.
BooksOK ==
  /\ users \in [Ids -> Addrs \cup {Nobody}]
  /\ chans \subseteq Addrs
  /\ support \subseteq Addrs
  /\ creates \in [Ids -> Nat]
  /\ deletes \in [Ids -> Nat]
  /\ Accounted
  /\ BooksAgree

-----------------------------------------------------------------------------

LEMMA FreeIsId ==
  ASSUME NEW u \in Uids, NEW p \in Free(u)
  PROVE  p \in Ids /\ p \notin Players
BY SessionAssumption DEF Free, Ids

\* The player found for a channel is a player; -1 never is.
LEMMA NobodyPlays == Nobody \notin Players
BY SessionAssumption DEF Players

LEMMA PlayerOfChannel ==
  ASSUME NEW a
  PROVE  ChannelToPlayer(a) \in Players \/ ChannelToPlayer(a) = Nobody
BY DEF ChannelToPlayer

\* Destroying a player, present or gone, keeps the books in order.
LEMMA FinishKeeps ==
  ASSUME BooksOK, NEW p, Finish(p), known' = known
  PROVE  BooksOK'
<1>1. CASE p \notin Players
  BY <1>1 DEF Finish, books, BooksOK, Accounted, BooksAgree, Players, Listed
<1>2. CASE p \in Players
  <2>1. /\ p \in Ids
        /\ users' = [users EXCEPT ![p] = Nobody]
        /\ chans' = chans \ {users[p]}
        /\ support' = support \ {users[p]}
        /\ Withdrawn(p)
    BY <1>2 DEF Finish, Players, Closed
  <2>2. Players' = Players \ {p}
    BY <2>1 DEF Players, BooksOK
  <2>3. \A q \in Players \ {p} : users'[q] = users[q]
    BY <2>1 DEF Players, BooksOK
  <2>4. BooksAgree'
    <3>1. users[p] \notin {users[q] : q \in Players \ {p}}
      BY <1>2 DEF BooksOK, BooksAgree
    <3>2. {users'[q] : q \in Players'} = {users[q] : q \in Players} \ {users[p]}
      BY <1>2, <2>2, <2>3, <3>1
    <3>3. \A q, r \in Players' : users'[q] = users'[r] => q = r
      BY <2>2, <2>3 DEF BooksOK, BooksAgree
    <3> QED
      BY <2>1, <3>2, <3>3 DEF BooksOK, BooksAgree
  <2>5. Accounted' /\ creates' \in [Ids -> Nat] /\ deletes' \in [Ids -> Nat]
    <3>1. CASE creates[p] > 0
      <4>1. creates' = [creates EXCEPT ![p] = @ - 1] /\ deletes' = deletes
        BY <2>1, <3>1 DEF Withdrawn
      <4>2. creates[p] = 1
        BY <2>1, <3>1 DEF BooksOK, Accounted
      <4>3. Listed(creates)' = Listed(creates) \ {p} /\ Listed(deletes)' = Listed(deletes)
        BY <2>1, <4>1, <4>2 DEF Listed, BooksOK
      <4>4. p \in Listed(creates)
        BY <2>1, <3>1 DEF Listed
      <4>5. creates' \in [Ids -> Nat] /\ \A q \in Ids : creates'[q] <= 1
        BY <2>1, <4>1, <4>2 DEF BooksOK, Accounted
      <4> QED
        BY <2>2, <4>1, <4>3, <4>4, <4>5 DEF BooksOK, Accounted
    <3>2. CASE ~(creates[p] > 0)
      <4>1. deletes' = [deletes EXCEPT ![p] = @ + 1] /\ creates' = creates
        BY <2>1, <3>2 DEF Withdrawn
      <4>2. p \notin Listed(creates) /\ p \in known \ Listed(deletes)
        BY <1>2, <3>2 DEF Listed, BooksOK, Accounted
      <4>3. deletes[p] = 0
        BY <2>1, <4>2 DEF Listed, BooksOK
      <4>4. Listed(deletes)' = Listed(deletes) \cup {p} /\ Listed(creates)' = Listed(creates)
        BY <2>1, <4>1, <4>3 DEF Listed, BooksOK
      <4>5. deletes' \in [Ids -> Nat] /\ \A q \in Ids : deletes'[q] <= 1
        BY <2>1, <4>1, <4>3 DEF BooksOK, Accounted
      <4> QED
        BY <2>2, <4>1, <4>2, <4>4, <4>5 DEF BooksOK, Accounted
    <3> QED
      BY <3>1, <3>2
  <2>6. users' \in [Ids -> Addrs \cup {Nobody}] /\ chans' \subseteq Addrs /\ support' \subseteq Addrs
    BY <2>1 DEF BooksOK
  <2> QED
    BY <2>4, <2>5, <2>6 DEF BooksOK
<1> QED
  BY <1>1, <1>2

\* So does creating one, or refusing to.
LEMMA AcceptKeeps ==
  ASSUME BooksOK, NEW a \in Addrs, NEW u \in Uids, Accept(a, u), known' = known
  PROVE  BooksOK'
<1>1. CASE UNCHANGED books
  BY <1>1 DEF books, BooksOK, Accounted, BooksAgree, Players, Listed
<1>2. CASE ~(Free(u) = {} \/ Full \/ a \in chans)
  <2>1. PICK p \in Free(u) :
          /\ users' = [users EXCEPT ![p] = a]
          /\ chans' = chans \cup {a}
          /\ support' = support \cup {a}
          /\ creates' = [creates EXCEPT ![p] = @ + 1]
          /\ deletes' = deletes
    BY <1>2 DEF Accept
  <2>2. p \in Ids /\ p \notin Players
    BY FreeIsId
  <2>3. a # Nobody /\ a \notin chans
    BY <1>2, SessionAssumption
  <2>4. Players' = Players \cup {p} /\ \A q \in Players : users'[q] = users[q]
    BY <2>1, <2>2, <2>3 DEF Players, BooksOK
  <2>5. users'[p] = a
    BY <2>1, <2>2 DEF BooksOK
  <2>6. BooksAgree'
    <3>1. \A q, r \in Players' : users'[q] = users'[r] => q = r
      BY <2>3, <2>4, <2>5 DEF BooksOK, BooksAgree
    <3>2. {users'[q] : q \in Players'} = {users[q] : q \in Players} \cup {a}
      BY <2>2, <2>4, <2>5
    <3> QED
      BY <2>1, <3>1, <3>2 DEF BooksOK, BooksAgree
  <2>7. p \notin Listed(creates) /\ p \notin known \ Listed(deletes) /\ creates[p] = 0
    BY <2>2 DEF Listed, BooksOK, Accounted
  <2>8. Listed(creates)' = Listed(creates) \cup {p} /\ Listed(deletes)' = Listed(deletes)
    BY <2>1, <2>2, <2>7 DEF Listed, BooksOK
  <2>9. creates' \in [Ids -> Nat] /\ \A q \in Ids : creates'[q] <= 1
    BY <2>1, <2>2, <2>7 DEF BooksOK, Accounted
  <2>10. Accounted'
    BY <2>1, <2>4, <2>7, <2>8, <2>9 DEF BooksOK, Accounted
  <2> QED
    BY <2>1, <2>6, <2>9, <2>10 DEF BooksOK
<1> QED
  BY <1>1, <1>2 DEF Accept

\* ProcessPlayers hands all the news over.
LEMMA ToldKeeps ==
  ASSUME BooksOK, ProcessPlayers
  PROVE  BooksOK'
<1>1. /\ users' = users /\ chans' = chans /\ support' = support
      /\ known' = (known \ Listed(deletes)) \cup Listed(creates)
      /\ creates' = [p \in Ids |-> 0] /\ deletes' = [p \in Ids |-> 0]
  BY DEF ProcessPlayers, Told
<1>2. Listed(creates)' = {} /\ Listed(deletes)' = {} /\ Players' = Players
  BY <1>1 DEF Listed, Players
<1>3. Accounted'
  BY <1>1, <1>2 DEF BooksOK, Accounted
<1>4. BooksAgree'
  BY <1>1, <1>2 DEF BooksOK, BooksAgree
<1> QED
  BY <1>1, <1>3, <1>4 DEF BooksOK

LEMMA BooksOfIInv == IInv => BooksOK
BY DEF IInv, BooksOK, TypeOK

-----------------------------------------------------------------------------
(* The books start in order, and every step of the three threads keeps them *)
(* so.                                                                      *)

LEMMA InitIInv == Init => IInv
<1> SUFFICES ASSUME Init PROVE IInv
  OBVIOUS
<1>1. Players = {} /\ Listed(creates) = {} /\ Listed(deletes) = {}
  BY DEF Init, Players, Listed
<1>2. TypeOK /\ WaitOK
  BY SessionAssumption DEF Init, TypeOK, WaitOK, Idle
<1>3. Accounted
  BY <1>1 DEF Init, Accounted
<1>4. BooksAgree
  BY <1>1 DEF Init, BooksAgree
<1> QED
  BY <1>2, <1>3, <1>4 DEF IInv

\* What is not the books: the kicks and what the threads are in the middle of.
ThreadsOK ==
  /\ known \subseteq Ids
  /\ kicks \subseteq Ids
  /\ sender \in Ids \cup {Nobody}
  /\ listener.pc \in {"idle", "wait", "part"}
  /\ listener.addr \in Addrs \cup {Nobody}
  /\ listener.uid \in Uids \cup {Nobody}
  /\ received \in 0 .. MaxCreates
  /\ WaitOK

LEMMA IInvParts == IInv <=> BooksOK /\ ThreadsOK
BY DEF IInv, BooksOK, ThreadsOK, TypeOK

LEMMA IInvPartsNext == IInv' <=> BooksOK' /\ ThreadsOK'
BY DEF IInv, BooksOK, ThreadsOK, TypeOK

\* The books stay in order when nothing that they hold changes.
LEMMA SameBooks ==
  ASSUME BooksOK, UNCHANGED <<books, known>>
  PROVE  BooksOK'
BY DEF books, BooksOK, Accounted, BooksAgree, Players, Listed

LEMMA FinishDropsKicks ==
  ASSUME kicks \subseteq Ids, NEW p, Finish(p)
  PROVE  kicks' \subseteq Ids
BY DEF Finish

LEMMA CreatePlayerKeeps ==
  ASSUME IInv, NEW a \in Addrs, NEW u \in Uids, CreatePlayer(a, u)
  PROVE  IInv'
<1>1. BooksOK /\ ThreadsOK
  BY IInvParts
<1>2. known' = known /\ sender' = sender /\ received' \in 0 .. MaxCreates
  BY <1>1, SessionAssumption DEF CreatePlayer, ThreadsOK
<1>3. CASE Accept(a, u) /\ UNCHANGED <<listener, kicks>>
  <2>1. BooksOK'
    BY <1>1, <1>2, <1>3, AcceptKeeps
  <2>2. ThreadsOK'
    BY <1>1, <1>2, <1>3 DEF ThreadsOK, WaitOK
  <2> QED
    BY <2>1, <2>2, IInvPartsNext
<1>4. CASE UNCHANGED <<books, listener, kicks>>
  <2>1. BooksOK'
    BY <1>1, <1>2, <1>4, SameBooks
  <2>2. ThreadsOK'
    BY <1>1, <1>2, <1>4 DEF ThreadsOK, WaitOK
  <2> QED
    BY <2>1, <2>2, IInvPartsNext
<1>5. CASE Finish(ChannelToPlayer(a)) /\ listener' = [pc |-> "wait", addr |-> a, uid |-> u]
  <2>1. BooksOK'
    BY <1>1, <1>2, <1>5, FinishKeeps
  <2>2. kicks' \subseteq Ids
    BY <1>1, <1>5, FinishDropsKicks DEF ThreadsOK
  <2>3. ThreadsOK'
    BY <1>1, <1>2, <1>5, <2>2 DEF ThreadsOK, WaitOK
  <2> QED
    BY <2>1, <2>3, IInvPartsNext
<1> QED
  BY <1>3, <1>4, <1>5 DEF CreatePlayer

LEMMA CreateWaitedKeeps ==
  ASSUME IInv, CreateWaited
  PROVE  IInv'
<1>1. BooksOK /\ ThreadsOK
  BY IInvParts
<1>2. listener.addr \in Addrs /\ listener.uid \in Uids
  BY <1>1 DEF CreateWaited, ThreadsOK, WaitOK
<1>3. BooksOK'
  BY <1>1, <1>2, AcceptKeeps DEF CreateWaited
<1>4. ThreadsOK'
  BY <1>1 DEF CreateWaited, ThreadsOK, WaitOK, Idle
<1> QED
  BY <1>3, <1>4, IInvPartsNext

LEMMA DestroyMsgKeeps ==
  ASSUME IInv, NEW a \in Addrs, DestroyMsg(a)
  PROVE  IInv'
<1>1. BooksOK /\ ThreadsOK
  BY IInvParts
<1>2. BooksOK'
  BY <1>1, FinishKeeps DEF DestroyMsg
<1>3. kicks' \subseteq Ids
  BY <1>1, FinishDropsKicks DEF DestroyMsg, ThreadsOK
<1>4. ThreadsOK'
  BY <1>1, <1>3 DEF DestroyMsg, ThreadsOK, WaitOK
<1> QED
  BY <1>2, <1>4, IInvPartsNext

LEMMA SentKeeps ==
  ASSUME IInv, Sent
  PROVE  IInv'
<1>1. BooksOK /\ ThreadsOK
  BY IInvParts
<1>2. BooksOK'
  BY <1>1, FinishKeeps DEF Sent
<1>3. kicks' \subseteq Ids
  BY <1>1, FinishDropsKicks DEF Sent, ThreadsOK
<1>4. ThreadsOK'
  BY <1>1, <1>3 DEF Sent, ThreadsOK, WaitOK
<1> QED
  BY <1>2, <1>4, IInvPartsNext

LEMMA ProcessPlayersKeeps ==
  ASSUME IInv, ProcessPlayers
  PROVE  IInv'
<1>1. BooksOK /\ ThreadsOK
  BY IInvParts
<1>2. BooksOK'
  BY <1>1, ToldKeeps
<1>3. known' \subseteq Ids /\ kicks' \subseteq Ids
  BY <1>1 DEF ProcessPlayers, Told, Listed, Players, ThreadsOK
<1>4. ThreadsOK'
  BY <1>1, <1>3 DEF ProcessPlayers, ThreadsOK, WaitOK
<1> QED
  BY <1>2, <1>4, IInvPartsNext

\* The steps that leave the books alone.
LEMMA OthersKeep ==
  ASSUME IInv,
         \/ \E a \in Addrs : ReceivePart(a)
         \/ KeepPart
         \/ \E p \in Ids : KickOff(p) \/ Send(p)
         \/ UNCHANGED vars
  PROVE  IInv'
<1>1. BooksOK /\ ThreadsOK
  BY IInvParts
<1>2. BooksOK'
  <2>1. UNCHANGED <<books, known>>
    BY DEF ReceivePart, KeepPart, KickOff, Send, vars
  <2> QED
    BY <1>1, <2>1, SameBooks
<1>3. ThreadsOK'
  <2>1. CASE \E a \in Addrs : ReceivePart(a)
    BY <1>1, <2>1 DEF ReceivePart, ThreadsOK, WaitOK
  <2>2. CASE KeepPart
    BY <1>1, <2>2 DEF KeepPart, ThreadsOK, WaitOK, Idle
  <2>3. CASE \E p \in Ids : KickOff(p) \/ Send(p)
    BY <1>1, <2>3 DEF KickOff, Send, ThreadsOK, WaitOK
  <2>4. CASE UNCHANGED vars
    BY <1>1, <2>4 DEF vars, ThreadsOK, WaitOK
  <2> QED
    BY <2>1, <2>2, <2>3, <2>4
<1> QED
  BY <1>2, <1>3, IInvPartsNext

LEMMA StepKeeps ==
  ASSUME IInv, [Next]_vars
  PROVE  IInv'
<1>1. CASE \E a \in Addrs, u \in Uids : CreatePlayer(a, u)
  BY <1>1, CreatePlayerKeeps
<1>2. CASE CreateWaited
  BY <1>2, CreateWaitedKeeps
<1>3. CASE \E a \in Addrs : DestroyMsg(a)
  BY <1>3, DestroyMsgKeeps
<1>4. CASE ProcessPlayers
  BY <1>4, ProcessPlayersKeeps
<1>5. CASE Sent
  BY <1>5, SentKeeps
<1>6. CASE \/ \E a \in Addrs : ReceivePart(a)
           \/ KeepPart
           \/ \E p \in Ids : KickOff(p) \/ Send(p)
           \/ UNCHANGED vars
  BY <1>6, OthersKeep
<1> QED
  BY <1>1, <1>2, <1>3, <1>4, <1>5, <1>6 DEF Next

-----------------------------------------------------------------------------

\* The strengthened invariant holds for ever, whatever the three threads do
\* (NetTransportNet.cpp:319-333, 493-625, 2038-2142, 2702-2738).
THEOREM SessionInductive == Spec => []IInv
<1>1. Init => IInv
  BY InitIInv
<1>2. IInv /\ [Next]_vars => IInv'
  BY StepKeeps
<1> QED
  BY <1>1, <1>2, PTL DEF Spec

\* The state of the session keeps its type.
THEOREM SessionTypeCorrect == Spec => []TypeOK
<1>1. IInv => TypeOK
  BY DEF IInv
<1> QED
  BY <1>1, SessionInductive, PTL

\* What the game knows and the news waiting for it always add up to the
\* players of the session, and no list names a player twice: this is what
\* numPlayers rests on (NetTransportNet.cpp:2106-2124, 2702-2738).
THEOREM NewsAddUp == Spec => []Accounted
<1>1. IInv => Accounted
  BY DEF IInv
<1> QED
  BY <1>1, SessionInductive, PTL

\* The users, the peer's map of channels and the supports always name the same
\* addresses, one player to each (NetTransportNet.cpp:2089-2124, 523-625).
THEOREM BooksAlwaysAgree == Spec => []BooksAgree
<1>1. IInv => BooksAgree
  BY DEF IInv
<1> QED
  BY <1>1, SessionInductive, PTL
=============================================================================
