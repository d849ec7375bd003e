------------------------------ MODULE NetLocks ------------------------------
(***************************************************************************)
(* The critical sections of the server's transport and the order in which  *)
(* its three threads enter them: usrCs and poolLock of NetTransportNet.cpp *)
(* and the peer's own of NetPeer.cpp.  Each thing a thread does is the     *)
(* sequence of its lock operations; what it does between them is left out. *)
(* A section entered again by its owner is left out too, and so are the    *)
(* sections that are never held while another is entered.                  *)
(***************************************************************************)
EXTENDS SequencesExt

Threads == {"listener", "sender", "main"}
Locks == {"usr", "pool", "peer"}

VARIABLES
  todo,    \* the lock operations each thread has before it
  owner,   \* the thread inside each section, "none" if there is none
  working, \* the peer's listen and sending, and that it has channels
  ended    \* the threads that have returned

vars == <<todo, owner, working, ended>>

Enter(l) == <<"enter", l>>
Leave(l) == <<"leave", l>>
Stop == <<"stop", "">>
Join(t) == <<"join", t>>

\* What the listener may do of a message, from inside the peer's section, where
\* it looks up the channel: nothing more; a CreatePlayer message from a new
\* address; one from an address in use, with the wait in the middle; a
\* DestroyPlayer message.
Register == <<Enter("peer"), Leave("peer"), Leave("pool"), Leave("usr")>>
Messages ==
  {<<Leave("peer")>>,
   <<Leave("peer"), Enter("usr"), Enter("pool")>> \o Register,
   <<Leave("peer"), Enter("usr"), Enter("pool"), Leave("pool"), Leave("usr"),
     Enter("usr"), Enter("pool")>> \o Register,
   <<Leave("peer"), Enter("usr"), Leave("usr")>>}

\* The sender stays inside the peer's section for a whole pass; it sends an
\* ordinary message, or a kick, and calls destroyPlayerCallback.
Passes ==
  {<<Leave("peer")>>,
   <<Enter("pool"), Enter("usr"), Leave("usr"), Leave("pool"), Leave("peer")>>}

\* The game's thread: ProcessPlayers and KickOff, GetURL, and in the end the
\* destructor of the server with NetPeerUDP::close.  The hold that stops the
\* two threads also closes all channels and empties the peer's map of them.
Frames == {<<Enter("usr"), Leave("usr")>>, <<Enter("pool"), Leave("pool")>>}
Close ==
  <<Enter("peer"), Stop, Leave("peer"), Join("sender"), Join("listener"),
    Enter("peer"), Leave("peer")>>
Shutdown == <<Enter("usr"), Leave("usr"), Enter("pool")>> \o Close \o <<Leave("pool")>>

Init ==
  /\ todo = [t \in Threads |-> <<>>]
  /\ owner = [l \in Locks |-> "none"]
  /\ working = TRUE
  /\ ended = {}

\* The head of a thread's loop: once more, or the end.
Take(t) ==
  /\ t \notin ended
  /\ todo[t] = <<>>
  /\ \A l \in Locks : owner[l] # t
  /\ \/ /\ working
        /\ \E s \in (IF t = "main" THEN Frames \cup {Shutdown} ELSE {<<Enter("peer")>>}) :
             todo' = [todo EXCEPT ![t] = s]
        /\ UNCHANGED ended
     \/ /\ ~working
        /\ ended' = ended \cup {t}
        /\ UNCHANGED todo
  /\ UNCHANGED <<owner, working>>

\* What there is to do is found inside the peer's section; in a peer without
\* channels it is nothing.
Found(t) ==
  CASE ~working -> {<<Leave("peer")>>}
    [] working /\ t = "listener" -> Messages
    [] OTHER -> Passes

Look(t) ==
  /\ owner["peer"] = t
  /\ todo[t] = <<>>
  /\ \E s \in Found(t) : todo' = [todo EXCEPT ![t] = s]
  /\ UNCHANGED <<owner, working, ended>>

\* The next lock operation of a thread.
Do(t) ==
  /\ todo[t] # <<>>
  /\ LET op == Head(todo[t])
     IN \/ /\ op[1] = "enter"
           /\ owner[op[2]] = "none"
           /\ owner' = [owner EXCEPT ![op[2]] = t]
           /\ UNCHANGED working
        \/ /\ op[1] = "leave"
           /\ owner' = [owner EXCEPT ![op[2]] = "none"]
           /\ UNCHANGED working
        \/ /\ op = Stop
           /\ working' = FALSE
           /\ UNCHANGED owner
        \/ /\ op[1] = "join"
           /\ op[2] \in ended
           /\ UNCHANGED <<owner, working>>
  /\ todo' = [todo EXCEPT ![t] = Tail(@)]
  /\ UNCHANGED ended

Next == \E t \in Threads : Take(t) \/ Look(t) \/ Do(t)

Spec == Init /\ [][Next]_vars

\* No thread is passed over for ever, not even at a section others enter often.
FairSpec == Spec /\ \A t \in Threads : WF_vars(Take(t) \/ Look(t)) /\ SF_vars(Do(t))

-----------------------------------------------------------------------------

\* The destructor has called close.
Closing == owner["pool"] = "main" /\ Contains(todo["main"], Join("listener"))

\* "serverPeer->close(); // Stops UDP listener/sender threads via poThreadJoin"
\* (NetTransportNet.cpp:1876): once the destructor calls it, the threads end.
CloseStopsThreads == Closing ~> {"listener", "sender"} \subseteq ended

=============================================================================
