-------------------------- MODULE NetChannelDelivery -------------------------
(***************************************************************************)
(* Proofs about NetChannel: a message is chained to the one it is ordered  *)
(* behind, no step changes who is ordered behind whom, and each dispatched *)
(* VIM is delivered once, after the one it is ordered behind: NetChannel   *)
(* implements VimChains and VimDelivery.                                   *)
(***************************************************************************)
EXTENDS NetChannelReception

-----------------------------------------------------------------------------
(***************************************************************************)
(* The order of a queue, under what is done to a queue.                    *)
(***************************************************************************)
Longer(q, r) ==
    /\ Range(q) \subseteq Range(r)
    /\ \A j, i : Before(q, j, i) => Before(r, j, i)

LEMMA LongerSame == \A q : Longer(q, q)
BY DEF Longer

LEMMA LongerTransitive ==
    \A a, b, c : Longer(a, b) /\ Longer(b, c) => Longer(a, c)
BY DEF Longer

LEMMA BeforeIn ==
    ASSUME NEW q \in Seq(Nat), NEW j, NEW i, Before(q, j, i)
    PROVE  j \in Range(q) /\ i \in Range(q)
BY RangeFact DEF Before

LEMMA LongerAppend ==
    ASSUME NEW q \in Seq(Nat), NEW x \in Nat
    PROVE  /\ Longer(q, Append(q, x)) /\ x \in Range(Append(q, x))
           /\ \A j \in Range(q) : Before(Append(q, x), j, x)
<1> DEFINE r == Append(q, x)
<1>1. /\ Len(r) = Len(q) + 1 /\ Len(q) \in Nat /\ r[Len(q) + 1] = x
      /\ \A k \in 1..Len(q) : r[k] = q[k]
      /\ Range(r) = Range(q) \cup {x}
    BY AppendProperties, LenProperties, AppendFact
<1> HIDE DEF r
<1>2. ASSUME NEW j, NEW i, Before(q, j, i)
      PROVE  Before(r, j, i)
    BY <1>1, <1>2 DEF Before
<1>3. ASSUME NEW j \in Range(q)
      PROVE  Before(r, j, x)
    <2>1. PICK b \in 1..Len(q) : q[b] = j
        BY RangeFact
    <2>2. b \in 1..Len(r) /\ Len(q) + 1 \in 1..Len(r) /\ b < Len(q) + 1 /\ r[b] = j
        BY <1>1, <2>1
    <2> QED BY <1>1, <2>2 DEF Before
<1> QED BY <1>1, <1>2, <1>3 DEF Longer, r

LEMMA LongerInsert ==
    ASSUME NEW S, NEW q \in Seq(S), NEW x \in S, NEW k \in 1..Len(q) + 1
    PROVE  Longer(q, InsertAt(q, k, x))
<1> DEFINE r == InsertAt(q, k, x)
<1>1. Len(q) \in Nat /\ Len(r) = Len(q) + 1
    BY InsertPlaces, LenProperties
<1>2. \A n \in 1..(Len(q) + 1) :
         r[n] = IF n < k THEN q[n] ELSE IF n = k THEN x ELSE q[n - 1]
    BY InsertPlaces
<1>3. Range(r) = Range(q) \cup {x}
    BY InsertFact
<1> HIDE DEF r
<1>4. ASSUME NEW j, NEW i, Before(q, j, i)
      PROVE  Before(r, j, i)
    <2>1. PICK a, b \in 1..Len(q) : b < a /\ q[a] = i /\ q[b] = j
        BY <1>4 DEF Before
    <2> DEFINE At(n) == IF n < k THEN n ELSE n + 1
    <2>2. /\ At(a) \in 1..Len(r) /\ r[At(a)] = i
          /\ At(b) \in 1..Len(r) /\ r[At(b)] = j
        BY <1>1, <1>2, <2>1
    <2>3. At(b) < At(a)
        BY <1>1, <2>1
    <2> QED BY <2>2, <2>3 DEF Before
<1> QED BY <1>3, <1>4 DEF Longer, r

LEMMA LongerResend ==
    ASSUME NEW q \in Seq(Nat), NEW x \in Nat
    PROVE  Longer(q, InsertResend(q, x))
<1>1. PICK k \in 1..Len(q) + 1 : InsertResend(q, x) = InsertAt(q, k, x)
    BY ResendFact
<1>2. \A n \in 1..Len(q) + 1 : Longer(q, InsertAt(q, n, x))
    BY LongerInsert, Zenon
<1> QED BY <1>1, <1>2, Zenon

\* What is taken from the head of a queue stood before all others.
LEMMA BeforeTail ==
    ASSUME NEW q \in Seq(Nat), q # <<>>
    PROVE  /\ \A j, i : Before(q, j, i) /\ j # Head(q) => Before(Tail(q), j, i)
           /\ \A j : j \in Range(q) /\ j # Head(q) => j \in Range(Tail(q))
           /\ IsInjective(q) => \A j : ~Before(q, j, Head(q))
<1>1. /\ Len(Tail(q)) = Len(q) - 1 /\ \A n \in 1..Len(Tail(q)) : Tail(q)[n] = q[n + 1]
      /\ Len(q) \in Nat \ {0} /\ Head(q) = q[1] /\ DOMAIN q = 1..Len(q)
    BY HeadTailProperties, LenProperties, EmptySeq
<1>2. ASSUME NEW j, NEW i, Before(q, j, i), j # Head(q)
      PROVE  Before(Tail(q), j, i)
    <2>1. PICK a, b \in 1..Len(q) : b < a /\ q[a] = i /\ q[b] = j
        BY <1>2 DEF Before
    <2>2. b # 1
        BY <1>1, <1>2, <2>1
    <2>3. /\ a - 1 \in 1..Len(Tail(q)) /\ b - 1 \in 1..Len(Tail(q))
          /\ b - 1 < a - 1 /\ (a - 1) + 1 = a /\ (b - 1) + 1 = b
        BY <1>1, <2>1, <2>2
    <2>4. Tail(q)[a - 1] = i /\ Tail(q)[b - 1] = j
        BY <1>1, <2>1, <2>3
    <2> QED BY <2>3, <2>4 DEF Before
<1>3. \A j : j \in Range(q) /\ j # Head(q) => j \in Range(Tail(q))
    BY TailFact
<1>4. ASSUME IsInjective(q), NEW j, Before(q, j, Head(q))
      PROVE  FALSE
    <2>1. PICK a, b \in 1..Len(q) : b < a /\ q[a] = q[1]
        BY <1>1, <1>4 DEF Before
    <2>2. a = 1
        BY <1>1, <1>4, <2>1 DEF IsInjective
    <2> QED BY <1>1, <2>1, <2>2
<1> QED BY <1>2, <1>3, <1>4

-----------------------------------------------------------------------------
(***************************************************************************)
(* Messages that keep their place in the chains, and new ones in none.     *)
(***************************************************************************)
SameLink(m, n) ==
    /\ n.vim = m.vim /\ n.urg = m.urg /\ n.ord = m.ord
    /\ n.pred = m.pred /\ n.ctl2 = m.ctl2 /\ n.serial = m.serial

Unlinked(m) == ~m.ord /\ m.pred = 0 /\ m.serial = 0

SameLinks(ms, ns) ==
    /\ Len(ms) =< Len(ns)
    /\ \A i \in 1..Len(ms) : SameLink(ms[i], ns[i])
    /\ \A i \in Len(ms) + 1..Len(ns) : Unlinked(ns[i])

LEMMA KeptLinks ==
    ASSUME NEW ms, NEW ns, NEW acks, Kept(ms, ns, acks)
    PROVE  SameLinks(ms, ns)
BY DEF Kept, KeptMsg, Plain, SameLinks, SameLink, Unlinked

\* References of a sender to its messages that exist.
Refers(ms, uq, vq, d, last) ==
    /\ ms \in Seq(NetMessage) /\ Len(ms) \in Nat
    /\ uq \in Seq(Nat) /\ vq \in Seq(Nat)
    /\ Range(uq) \cup Range(vq) \subseteq 1..Len(ms)
    /\ d \in 0..Len(ms) /\ \A urg \in BOOLEAN : last[urg] \in 0..Len(ms)
    /\ \A i \in 1..Len(ms) : ms[i].pred \in 0..Len(ms)

LEMMA FollowsKept ==
    ASSUME NEW ms \in Seq(NetMessage), NEW ns \in Seq(NetMessage),
           \A i \in 1..Len(ms) : ms[i].pred \in 0..Len(ms),
           SameLinks(ms, ns), NEW k \in 1..Len(ns), NEW j \in 1..Len(ns),
           Follows(ns, k, j)
    PROVE  k \in 1..Len(ms) /\ j \in 1..Len(ms) /\ Follows(ms, k, j)
<1>1. Len(ms) \in Nat /\ Len(ns) \in Nat
    BY LenProperties
<1>2. \A i \in 1..Len(ns) : i \in 1..Len(ms) \/ Unlinked(ns[i])
    <2>1. \A i \in 1..Len(ns) : i \in 1..Len(ms) \/ i \in Len(ms) + 1..Len(ns)
        BY <1>1
    <2> QED BY <2>1 DEF SameLinks
<1>3. k \in 1..Len(ms) /\ SameLink(ms[k], ns[k])
    BY <1>2 DEF Follows, Unlinked, SameLinks
<1>4. CASE ms[k].pred # 0
    <2>1. j = ms[k].pred /\ ms[k].ord
        BY <1>3, <1>4 DEF Follows, SameLink
    <2>2. ms[k].pred \in 0..Len(ms)
        BY <1>3
    <2> QED BY <1>1, <1>3, <1>4, <2>1, <2>2 DEF Follows
<1>5. CASE ms[k].pred = 0
    <2>1. ns[j].serial = ms[k].ctl2 /\ ms[k].ctl2 # 0 /\ ms[k].ord
        BY <1>3, <1>5 DEF Follows, SameLink
    <2>2. j \in 1..Len(ms) /\ SameLink(ms[j], ns[j])
        BY <1>2, <2>1 DEF Unlinked, SameLinks
    <2> QED BY <1>3, <1>5, <2>1, <2>2 DEF Follows, SameLink
<1> QED BY <1>4, <1>5

LEMMA LinkedKept ==
    ASSUME NEW ms \in Seq(NetMessage), NEW ns \in Seq(NetMessage),
           SameLinks(ms, ns), \A i \in 1..Len(ms) : Linked(ms[i])
    PROVE  \A i \in 1..Len(ns) : Linked(ns[i])
<1>1. Len(ms) \in Nat /\ Len(ns) \in Nat
    BY LenProperties
<1> SUFFICES ASSUME NEW i \in 1..Len(ns)
             PROVE  Linked(ns[i])
    OBVIOUS
<1>2. CASE i \in 1..Len(ms)
    BY <1>2 DEF SameLinks, SameLink, Linked
<1>3. CASE i \notin 1..Len(ms)
    <2>1. i \in Len(ms) + 1..Len(ns)
        BY <1>1, <1>3
    <2> QED BY <2>1 DEF SameLinks, Unlinked, Linked
<1> QED BY <1>2, <1>3

\* What was unsent was so before.
LEMMA UnsentKept ==
    ASSUME NEW ms, NEW ns, SameLinks(ms, ns), NEW j \in 0..Len(ms), Unsent(ns, j),
           Len(ms) \in Nat
    PROVE  Unsent(ms, j)
<1>1. j \in 1..Len(ms)
    BY DEF Unsent
<1> QED BY <1>1 DEF SameLinks, SameLink, Unsent

LEMMA OneFollowsKept ==
    ASSUME NEW ms, NEW ns \in Seq(NetMessage), NEW uq, NEW vq, NEW d, NEW last,
           Refers(ms, uq, vq, d, last), SameLinks(ms, ns),
           OneFollows(ms, d, last)
    PROVE  OneFollows(ns, d, last)
<1>1. \A k, j \in 1..Len(ns) : Follows(ns, k, j) =>
         k \in 1..Len(ms) /\ j \in 1..Len(ms) /\ Follows(ms, k, j)
    BY FollowsKept DEF Refers
<1>2. /\ d # 0 => d \in 1..Len(ms) /\ d \in 1..Len(ns)
      /\ \A urg \in BOOLEAN : last[urg] # 0 => last[urg] \in 1..Len(ms)
                                               /\ last[urg] \in 1..Len(ns)
    <2>1. Len(ms) \in Nat /\ Len(ns) \in Nat /\ Len(ms) =< Len(ns)
        BY LenProperties DEF Refers, SameLinks
    <2> QED BY <2>1 DEF Refers
<1>3. \A i, k, j \in 1..Len(ns) : Follows(ns, i, j) /\ Follows(ns, k, j) => i = k
    BY <1>1 DEF OneFollows
<1>4. \A i, j \in 1..Len(ns) :
         Follows(ns, i, j) => ns[j].vim /\ ns[i].urg = ns[j].urg
    <2> TAKE i, j \in 1..Len(ns)
    <2> HAVE Follows(ns, i, j)
    <2>1. i \in 1..Len(ms) /\ j \in 1..Len(ms) /\ Follows(ms, i, j)
        BY <1>1
    <2>2. ms[j].vim /\ ms[i].urg = ms[j].urg
        BY <2>1 DEF OneFollows
    <2> QED BY <2>1, <2>2 DEF SameLinks, SameLink
<1>5. d # 0 => \A k \in 1..Len(ns) : ~Follows(ns, k, d)
    BY <1>1, <1>2 DEF OneFollows
<1>6. \A urg \in BOOLEAN, k \in 1..Len(ns) :
         last[urg] # 0 /\ Follows(ns, k, last[urg]) => k = d
    BY <1>1, <1>2 DEF OneFollows
<1> QED BY <1>3, <1>4, <1>5, <1>6 DEF OneFollows

\* The queues may get longer by messages that follow nobody unsent.
LEMMA ChainKept ==
    ASSUME NEW ms, NEW ns \in Seq(NetMessage), NEW uq, NEW vq, NEW uq2,
           NEW d, NEW last,
           Refers(ms, uq, vq, d, last), SameLinks(ms, ns), Longer(uq, uq2),
           \A i \in Range(uq2) : i \in Range(uq) \/ ns[i].pred = 0,
           Chain(ms, uq, vq, d, last)
    PROVE  Chain(ns, uq2, vq, d, last)
<1>1. \A i \in 1..Len(ns) : Linked(ns[i])
    BY LinkedKept DEF Chain, Refers
<1>2. OneFollows(ns, d, last)
    BY OneFollowsKept DEF Chain
<1>3. \A j \in 1..Len(ms) : SameLink(ms[j], ns[j])
    BY DEF SameLinks
<1>4. \A j \in 0..Len(ms) : Unsent(ns, j) => Unsent(ms, j)
    BY UnsentKept DEF Refers
<1>5. \A urg : Waiting(uq, vq, urg) \subseteq Waiting(uq2, vq, urg)
    BY DEF Waiting, Longer
<1>6. LastKnown(ns, uq2, vq, d, last)
    <2> SUFFICES ASSUME NEW urg \in BOOLEAN, NEW j, j = last[urg], j # 0
                 PROVE  /\ j # d /\ ns[j].vim /\ ns[j].urg = urg
                        /\ Unsent(ns, j) => j \in Waiting(uq2, vq, urg)
        BY DEF LastKnown
    <2>1. j \in 0..Len(ms) /\ j \in 1..Len(ms)
        BY DEF Refers
    <2>2. /\ j # d /\ ms[j].vim /\ ms[j].urg = urg
          /\ Unsent(ms, j) => j \in Waiting(uq, vq, urg)
        BY DEF Chain, LastKnown
    <2> QED BY <1>3, <1>4, <1>5, <2>1, <2>2 DEF SameLink
<1>7. PredecessorAhead(ns, uq2, vq, d)
    <2>1. ASSUME NEW i \in Range(uq2) \cup Range(vq), NEW j, j = ns[i].pred,
                 Unsent(ns, j)
          PROVE  Ahead(uq2, vq, j, i)
        <3>1. i \in Range(uq) \cup Range(vq)
            BY <2>1 DEF Unsent
        <3>2. i \in 1..Len(ms)
            BY <3>1 DEF Refers
        <3>3. j = ms[i].pred /\ j \in 0..Len(ms)
            BY <1>3, <2>1, <3>2 DEF SameLink, Refers
        <3>4. Ahead(uq, vq, j, i)
            BY <1>4, <2>1, <3>1, <3>3 DEF Chain, PredecessorAhead
        <3> QED BY <3>4 DEF Ahead, Longer
    <2>2. ASSUME d # 0, NEW j, j = ns[d].pred, Unsent(ns, j)
          PROVE  j \in Waiting(uq2, vq, ns[d].urg)
        <3>1. d \in 1..Len(ms)
            BY <2>2 DEF Refers
        <3>2. j = ms[d].pred /\ j \in 0..Len(ms) /\ ns[d].urg = ms[d].urg
            BY <1>3, <2>2, <3>1 DEF SameLink, Refers
        <3> QED BY <1>4, <1>5, <2>2, <3>2 DEF Chain, PredecessorAhead
    <2> QED BY <2>1, <2>2 DEF PredecessorAhead
<1> QED BY <1>1, <1>2, <1>6, <1>7 DEF Chain

\* A step changes no message's predecessor: whoever follows one followed it.
LinksFrom(ms, ns) ==
    /\ Len(ms) =< Len(ns)
    /\ \A k \in 1..Len(ms) :
          /\ ns[k].vim = ms[k].vim /\ ns[k].urg = ms[k].urg /\ ns[k].ord = ms[k].ord
          /\ \A j \in 1..Len(ns) :
                Follows(ns, k, j) => j \in 1..Len(ms) /\ Follows(ms, k, j)

LEMMA SameLinksFrom ==
    ASSUME NEW ms \in Seq(NetMessage), NEW ns \in Seq(NetMessage),
           \A i \in 1..Len(ms) : ms[i].pred \in 0..Len(ms),
           SameLinks(ms, ns)
    PROVE  LinksFrom(ms, ns)
<1>1. Len(ms) \in Nat /\ Len(ns) \in Nat /\ Len(ms) =< Len(ns)
    BY LenProperties DEF SameLinks
<1>2. ASSUME NEW k \in 1..Len(ms)
      PROVE  /\ k \in 1..Len(ns)
             /\ ns[k].vim = ms[k].vim /\ ns[k].urg = ms[k].urg /\ ns[k].ord = ms[k].ord
    BY <1>1 DEF SameLinks, SameLink
<1>3. ASSUME NEW k \in 1..Len(ms), NEW j \in 1..Len(ns), Follows(ns, k, j)
      PROVE  j \in 1..Len(ms) /\ Follows(ms, k, j)
    BY <1>2, <1>3, FollowsKept
<1> QED BY <1>1, <1>2, <1>3 DEF LinksFrom

\* cancelAllMessages: nothing is queued, and new chains begin.
LEMMA ChainCancelled ==
    ASSUME NEW ms, NEW ns \in Seq(NetMessage), NEW uq, NEW vq, NEW last, NEW last2,
           Refers(ms, uq, vq, 0, last), SameLinks(ms, ns),
           \A urg \in BOOLEAN : last2[urg] = 0,
           Chain(ms, uq, vq, 0, last)
    PROVE  Chain(ns, <<>>, <<>>, 0, last2)
<1>1. \A i \in 1..Len(ns) : Linked(ns[i])
    BY LinkedKept DEF Chain, Refers
<1>2. OneFollows(ns, 0, last)
    BY OneFollowsKept DEF Chain
<1>3. OneFollows(ns, 0, last2)
    BY <1>2 DEF OneFollows
<1>4. Range(<<>>) = {}
    BY EmptyFact
<1> QED BY <1>1, <1>3, <1>4 DEF Chain, LastKnown, PredecessorAhead

-----------------------------------------------------------------------------
(***************************************************************************)
(* setOrderedPrevious and dispatchMessage, on the chains.                  *)
(***************************************************************************)
SerialsApart(ms) ==
    \A i, j \in 1..Len(ms) :
        ms[i].serial = ms[j].serial /\ ms[i].serial # 0 => i = j

\* The message follows nobody, or the last one of its class.
Ordered(ms, last, m) ==
    LET j == last[m.urg]
    IN  \/ Unlinked(m)
        \/ /\ j # 0 /\ m.ord /\ m.vim /\ m.ctl2 = ms[j].serial
           /\ m.pred = IF ms[j].serial = 0 THEN j ELSE 0

\* Who follows whom once m is the newest message.
Composed(ms, last, m, ns, k, j) ==
    /\ j \in 1..Len(ms) /\ ns[j] = ms[j]
    /\ IF k = Len(ms) + 1
       THEN ns[k] = m /\ m.ord /\ j = last[m.urg]
       ELSE k \in 1..Len(ms) /\ Follows(ms, k, j)

LEMMA ComposedFollows ==
    ASSUME NEW ms, NEW uq, NEW vq, NEW last, Refers(ms, uq, vq, 0, last),
           SerialsApart(ms), NEW m \in NetMessage, m.serial = 0,
           Ordered(ms, last, m), NEW ns, ns = Append(ms, m),
           NEW k \in 1..Len(ns), NEW j \in 1..Len(ns), Follows(ns, k, j)
    PROVE  Composed(ms, last, m, ns, k, j)
<1>1. /\ Len(ms) \in Nat /\ Len(ns) = Len(ms) + 1 /\ ns[Len(ms) + 1] = m
      /\ \A i \in 1..Len(ms) : ns[i] = ms[i]
    BY AppendProperties DEF Refers
<1>2. /\ \A i \in 1..Len(ns) : i \in 1..Len(ms) \/ i = Len(ms) + 1
      /\ Len(ms) + 1 \notin 1..Len(ms) /\ Len(ms) + 1 # 0
    BY <1>1
<1>3. CASE k = Len(ms) + 1
    <2>1. /\ m.ord /\ last[m.urg] # 0 /\ m.ctl2 = ms[last[m.urg]].serial
          /\ m.pred = IF ms[last[m.urg]].serial = 0 THEN last[m.urg] ELSE 0
        BY <1>1, <1>3 DEF Follows, Ordered, Unlinked
    <2>2. last[m.urg] \in 1..Len(ms)
        <3>1. m.urg \in BOOLEAN
            BY DEF NetMessage
        <3> QED BY <2>1, <3>1 DEF Refers
    <2>3. CASE ms[last[m.urg]].serial = 0
        BY <1>1, <1>3, <2>1, <2>2, <2>3 DEF Follows, Composed
    <2>4. CASE ms[last[m.urg]].serial # 0
        <3>1. ns[j].serial = ms[last[m.urg]].serial
            BY <1>1, <1>3, <2>1, <2>4 DEF Follows
        <3>2. j \in 1..Len(ms)
            BY <1>1, <1>2, <2>4, <3>1
        <3> QED BY <1>1, <1>3, <2>1, <2>2, <2>4, <3>1, <3>2 DEF SerialsApart, Composed
    <2> QED BY <2>3, <2>4
<1>4. CASE k # Len(ms) + 1
    <2>1. k \in 1..Len(ms) /\ ns[k] = ms[k] /\ ms[k].pred \in 0..Len(ms)
        BY <1>1, <1>2, <1>4 DEF Refers
    <2>2. j \in 1..Len(ms)
        BY <1>1, <1>2, <2>1 DEF Follows
    <2> QED BY <1>1, <1>4, <2>1, <2>2 DEF Follows, Composed
<1> QED BY <1>3, <1>4

LEMMA ChainComposed ==
    ASSUME NEW ms, NEW uq, NEW vq, NEW last, Refers(ms, uq, vq, 0, last),
           SerialsApart(ms), NEW m \in NetMessage, m.serial = 0,
           Ordered(ms, last, m), NEW ns, ns = Append(ms, m),
           Chain(ms, uq, vq, 0, last)
    PROVE  Chain(ns, uq, vq, Len(ms) + 1, last)
<1> DEFINE n == Len(ms) + 1
<1>1. /\ Len(ms) \in Nat /\ Len(ns) = n /\ ns[n] = m
      /\ \A i \in 1..Len(ms) : ns[i] = ms[i]
    BY AppendProperties DEF Refers
<1>2. /\ \A i \in 1..Len(ns) : i \in 1..Len(ms) \/ i = n
      /\ n \notin 1..Len(ms) /\ n # 0 /\ 1..Len(ms) \subseteq 1..Len(ns)
      /\ \A i \in 0..Len(ms) : i # 0 => i \in 1..Len(ms)
    BY <1>1
<1> HIDE DEF n
<1>3. ASSUME NEW k \in 1..Len(ns), NEW j \in 1..Len(ns), Follows(ns, k, j)
      PROVE  /\ j \in 1..Len(ms) /\ ns[j] = ms[j]
             /\ IF k = Len(ms) + 1
                THEN ns[k] = m /\ m.ord /\ j = last[m.urg]
                ELSE k \in 1..Len(ms) /\ Follows(ms, k, j)
    <2>1. Composed(ms, last, m, ns, k, j)
        BY <1>3, ComposedFollows, Zenon
    <2> QED BY <2>1 DEF Composed
<1>4. m.urg \in BOOLEAN
    BY DEF NetMessage
<1>5. m.ord => /\ last[m.urg] \in 1..Len(ms) /\ m.vim
               /\ m.ctl2 = ms[last[m.urg]].serial
               /\ m.pred = IF ms[last[m.urg]].serial = 0 THEN last[m.urg] ELSE 0
    BY <1>2, <1>4 DEF Ordered, Unlinked, Refers
<1>6. \A i \in 1..Len(ns) : Linked(ns[i])
    <2>1. Linked(m)
        <3>1. CASE ~m.ord
            <4>1. m.pred = 0
                BY <3>1 DEF Ordered, Unlinked
            <4> QED BY <3>1, <4>1 DEF Linked
        <3>2. CASE m.ord
            <4>1. last[m.urg] # 0
                BY <1>1, <1>5, <3>2
            <4> QED BY <1>5, <3>2, <4>1 DEF Linked
        <3> QED BY <3>1, <3>2
    <2> QED BY <1>1, <1>2, <2>1 DEF Chain
<1>7. \A i \in 0..Len(ms) : Unsent(ns, i) => Unsent(ms, i)
    BY <1>1, <1>2 DEF Unsent
<1>8. LastKnown(ns, uq, vq, n, last)
    <2> SUFFICES ASSUME NEW urg \in BOOLEAN, NEW j, j = last[urg], j # 0
                 PROVE  /\ j # n /\ ns[j].vim /\ ns[j].urg = urg
                        /\ Unsent(ns, j) => j \in Waiting(uq, vq, urg)
        BY DEF LastKnown
    <2>1. j \in 0..Len(ms) /\ j \in 1..Len(ms)
        BY DEF Refers
    <2> QED BY <1>1, <1>2, <1>7, <2>1 DEF Chain, LastKnown
<1>9. PredecessorAhead(ns, uq, vq, n)
    <2>1. ASSUME NEW i \in Range(uq) \cup Range(vq), NEW j, j = ns[i].pred,
                 Unsent(ns, j)
          PROVE  Ahead(uq, vq, j, i)
        <3>1. i \in 1..Len(ms)
            BY DEF Refers
        <3>2. j = ms[i].pred /\ j \in 0..Len(ms)
            BY <1>1, <2>1, <3>1 DEF Refers
        <3> QED BY <1>7, <2>1, <3>2 DEF Chain, PredecessorAhead
    <2>2. ASSUME NEW j, j = ns[n].pred, Unsent(ns, j)
          PROVE  j \in Waiting(uq, vq, ns[n].urg)
        <3>1. j = m.pred /\ j # 0 /\ m.ord
            BY <1>1, <2>2 DEF Unsent, Ordered, Unlinked
        <3>2. j = last[m.urg] /\ j \in 1..Len(ms) /\ ms[j].serial = 0
            BY <1>5, <3>1
        <3> QED BY <1>1, <1>4, <3>1, <3>2 DEF Chain, LastKnown, Unsent
    <2> QED BY <2>1, <2>2 DEF PredecessorAhead
<1>10. \A urg \in BOOLEAN, k \in 1..Len(ms) :
          last[urg] # 0 => ~Follows(ms, k, last[urg])
    BY <1>1 DEF Chain, OneFollows
<1>11. \A i, k, j \in 1..Len(ns) : Follows(ns, i, j) /\ Follows(ns, k, j) => i = k
    <2> TAKE i, k, j \in 1..Len(ns)
    <2> HAVE Follows(ns, i, j) /\ Follows(ns, k, j)
    <2>1. j \in 1..Len(ms) /\ j # 0
        BY <1>1, <1>3
    <2>2. CASE i = n /\ k # n
        BY <1>3, <1>4, <1>10, <2>1, <2>2 DEF n
    <2>3. CASE i # n /\ k = n
        BY <1>3, <1>4, <1>10, <2>1, <2>3 DEF n
    <2>4. CASE i # n /\ k # n
        <3>1. i \in 1..Len(ms) /\ k \in 1..Len(ms) /\ Follows(ms, i, j) /\ Follows(ms, k, j)
            BY <1>3, <2>4 DEF n
        <3> QED BY <2>1, <3>1 DEF Chain, OneFollows
    <2> QED BY <2>2, <2>3, <2>4
<1>12. \A i, j \in 1..Len(ns) :
          Follows(ns, i, j) => ns[j].vim /\ ns[i].urg = ns[j].urg
    <2> TAKE i, j \in 1..Len(ns)
    <2> HAVE Follows(ns, i, j)
    <2>1. j \in 1..Len(ms) /\ ns[j] = ms[j] /\ j # 0
        BY <1>1, <1>3
    <2>2. CASE i = n
        <3>1. ns[i] = m /\ j = last[m.urg]
            BY <1>3, <2>2 DEF n
        <3>2. ms[j].urg = m.urg /\ ms[j].vim
            BY <1>4, <2>1, <3>1 DEF Chain, LastKnown
        <3> QED BY <2>1, <3>1, <3>2
    <2>3. CASE i # n
        <3>1. i \in 1..Len(ms) /\ Follows(ms, i, j) /\ ns[i] = ms[i]
            BY <1>1, <1>3, <2>3 DEF n
        <3> QED BY <2>1, <3>1 DEF Chain, OneFollows
    <2> QED BY <2>2, <2>3
<1>13. n # 0 => \A k \in 1..Len(ns) : ~Follows(ns, k, n)
    <2>1. n \in 1..Len(ns)
        BY <1>1, <1>2 DEF n
    <2> QED BY <1>2, <1>3, <2>1
<1>14. \A urg \in BOOLEAN, k \in 1..Len(ns) :
          last[urg] # 0 /\ Follows(ns, k, last[urg]) => k = n
    <2> TAKE urg \in BOOLEAN, k \in 1..Len(ns)
    <2> HAVE last[urg] # 0 /\ Follows(ns, k, last[urg])
    <2>1. last[urg] \in 1..Len(ms) /\ last[urg] \in 1..Len(ns)
        BY <1>2 DEF Refers
    <2>2. CASE k # n
        <3>1. k \in 1..Len(ms) /\ Follows(ms, k, last[urg])
            BY <1>3, <2>1, <2>2 DEF n
        <3> QED BY <1>10, <3>1
    <2> QED BY <2>2
<1>15. OneFollows(ns, n, last)
    BY <1>11, <1>12, <1>13, <1>14 DEF OneFollows
<1> QED BY <1>6, <1>8, <1>9, <1>15 DEF Chain, n

\* The message is put at the end of a queue, and is the last of its class.
Entered(m, urgent, i, uq, vq, uq2, vq2) ==
    /\ uq2 = IF urgent \/ m.urg THEN Append(uq, i) ELSE uq
    /\ vq2 = IF ~(urgent \/ m.urg) /\ m.vim THEN Append(vq, i) ELSE vq

LEMMA EnteredQueues ==
    ASSUME NEW uq \in Seq(Nat), NEW vq \in Seq(Nat), NEW i \in Nat,
           NEW m \in NetMessage, NEW urgent \in BOOLEAN, NEW uq2, NEW vq2,
           Entered(m, urgent, i, uq, vq, uq2, vq2), m.ord => m.vim /\ ~urgent
    PROVE  /\ Longer(uq, uq2) /\ Longer(vq, vq2)
           /\ Range(uq2) \subseteq Range(uq) \cup {i}
           /\ Range(vq2) \subseteq Range(vq) \cup {i}
           /\ m.vim => i \in Waiting(uq2, vq2, m.urg)
           /\ m.ord => \A j \in Waiting(uq, vq, m.urg) : Ahead(uq2, vq2, j, i)
<1>1. \A q \in Seq(Nat) : /\ Longer(q, Append(q, i)) /\ i \in Range(Append(q, i))
                          /\ \A j \in Range(q) : Before(Append(q, i), j, i)
                          /\ Range(Append(q, i)) = Range(q) \cup {i}
    BY LongerAppend, AppendFact
<1>2. Longer(uq, uq) /\ Longer(vq, vq) /\ m.urg \in BOOLEAN /\ m.vim \in BOOLEAN
    BY LongerSame DEF NetMessage
<1>3. CASE urgent \/ m.urg
    <2>1. uq2 = Append(uq, i) /\ vq2 = vq
        BY <1>3 DEF Entered
    <2>2. m.ord => \A j \in Waiting(uq, vq, m.urg) : Ahead(uq2, vq2, j, i)
        BY <1>1, <1>3, <2>1 DEF Waiting, Ahead
    <2> QED BY <1>1, <1>2, <2>1, <2>2 DEF Waiting
<1>4. CASE ~(urgent \/ m.urg) /\ m.vim
    <2>1. uq2 = uq /\ vq2 = Append(vq, i)
        BY <1>4 DEF Entered
    <2>2. m.ord => \A j \in Waiting(uq, vq, m.urg) : Ahead(uq2, vq2, j, i)
        BY <1>1, <1>4, <2>1 DEF Waiting, Ahead
    <2> QED BY <1>1, <1>2, <1>4, <2>1, <2>2 DEF Waiting
<1>5. CASE ~(urgent \/ m.urg) /\ ~m.vim
    <2>1. uq2 = uq /\ vq2 = vq
        BY <1>5 DEF Entered
    <2> QED BY <1>2, <1>5, <2>1
<1> QED BY <1>3, <1>4, <1>5

\* Message i is dispatched: the draft, or one that follows nobody.
Dispatched(ms, uq, vq, d, last, i, urgent, uq2, vq2, d2, last2) ==
    /\ i \in 1..Len(ms) /\ i \notin Range(uq) \cup Range(vq)
    /\ \A k \in 1..Len(ms) : ~Follows(ms, k, i)
    /\ (d2 = d /\ d # i /\ ~ms[i].ord) \/ (d2 = 0 /\ d = i)
    /\ urgent \in BOOLEAN /\ (ms[i].ord => ~urgent)
    /\ Entered(ms[i], urgent, i, uq, vq, uq2, vq2)
    /\ \A urg \in BOOLEAN :
          last2[urg] = IF ms[i].vim /\ ms[i].urg = urg THEN i ELSE last[urg]

LEMMA ChainDispatched ==
    ASSUME NEW ms, NEW uq, NEW vq, NEW d, NEW last, Refers(ms, uq, vq, d, last),
           Chain(ms, uq, vq, d, last),
           NEW i, NEW urgent, NEW uq2, NEW vq2, NEW d2, NEW last2,
           Dispatched(ms, uq, vq, d, last, i, urgent, uq2, vq2, d2, last2)
    PROVE  Chain(ms, uq2, vq2, d2, last2)
<1> USE DEF Dispatched
<1>1. /\ ms[i] \in NetMessage /\ Linked(ms[i]) /\ i \in Nat /\ i # 0
      /\ uq \in Seq(Nat) /\ vq \in Seq(Nat)
    BY LenProperties DEF Chain, Refers
<1>2. /\ Longer(uq, uq2) /\ Longer(vq, vq2)
      /\ Range(uq2) \subseteq Range(uq) \cup {i}
      /\ Range(vq2) \subseteq Range(vq) \cup {i}
      /\ ms[i].vim => i \in Waiting(uq2, vq2, ms[i].urg)
      /\ ms[i].ord => \A j \in Waiting(uq, vq, ms[i].urg) : Ahead(uq2, vq2, j, i)
    BY <1>1, EnteredQueues DEF Linked
<1>3. \A urg : Waiting(uq, vq, urg) \subseteq Waiting(uq2, vq2, urg)
    BY <1>2 DEF Waiting, Longer
<1>4. LastKnown(ms, uq2, vq2, d2, last2)
    <2> SUFFICES ASSUME NEW urg \in BOOLEAN, NEW j, j = last2[urg], j # 0
                 PROVE  /\ j # d2 /\ ms[j].vim /\ ms[j].urg = urg
                        /\ Unsent(ms, j) => j \in Waiting(uq2, vq2, urg)
        BY DEF LastKnown
    <2>1. CASE ms[i].vim /\ ms[i].urg = urg
        BY <1>1, <1>2, <2>1
    <2>2. CASE ~(ms[i].vim /\ ms[i].urg = urg)
        <3>1. j = last[urg]
            BY <2>2
        <3>2. /\ j # d /\ ms[j].vim /\ ms[j].urg = urg
              /\ Unsent(ms, j) => j \in Waiting(uq, vq, urg)
            BY <3>1 DEF Chain, LastKnown
        <3> QED BY <1>3, <3>2
    <2> QED BY <2>1, <2>2
<1>5. PredecessorAhead(ms, uq2, vq2, d2)
    <2>1. ASSUME NEW k \in Range(uq2) \cup Range(vq2), Unsent(ms, ms[k].pred)
          PROVE  Ahead(uq2, vq2, ms[k].pred, k)
        <3>1. CASE k \in Range(uq) \cup Range(vq)
            <4>1. Ahead(uq, vq, ms[k].pred, k)
                BY <2>1, <3>1 DEF Chain, PredecessorAhead
            <4> QED BY <1>2, <4>1 DEF Ahead, Longer
        <3>2. CASE k = i
            <4>1. ms[i].ord /\ d = i
                BY <1>1, <2>1, <3>2 DEF Linked, Unsent
            <4>2. ms[i].pred \in Waiting(uq, vq, ms[i].urg)
                BY <1>1, <2>1, <3>2, <4>1 DEF Chain, PredecessorAhead
            <4> QED BY <1>2, <3>2, <4>1, <4>2
        <3> QED BY <1>2, <3>1, <3>2
    <2>2. ASSUME d2 # 0, Unsent(ms, ms[d2].pred)
          PROVE  ms[d2].pred \in Waiting(uq2, vq2, ms[d2].urg)
        BY <1>3, <2>2 DEF Chain, PredecessorAhead
    <2> QED BY <2>1, <2>2 DEF PredecessorAhead
<1>6. OneFollows(ms, d2, last2)
    <2>1. OneFollows(ms, d, last)
        BY DEF Chain
    <2>2. \A urg \in BOOLEAN, k \in 1..Len(ms) :
             last2[urg] # 0 /\ Follows(ms, k, last2[urg]) => k = d2
        <3> TAKE urg \in BOOLEAN, k \in 1..Len(ms)
        <3> HAVE last2[urg] # 0 /\ Follows(ms, k, last2[urg])
        <3>1. ~(ms[i].vim /\ ms[i].urg = urg) /\ last2[urg] = last[urg]
            OBVIOUS
        <3>2. k = d /\ last[urg] \in 1..Len(ms)
            BY <2>1, <3>1 DEF OneFollows, Refers
        <3>3. CASE d = i
            <4>1. ms[i].vim
                BY <1>1, <3>2, <3>3 DEF Follows, Linked
            <4>2. ms[i].urg = ms[last[urg]].urg
                BY <2>1, <3>1, <3>2, <3>3 DEF OneFollows
            <4>3. ms[last[urg]].urg = urg
                BY <3>1 DEF Chain, LastKnown
            <4> QED BY <3>1, <4>1, <4>2, <4>3
        <3> QED BY <3>2, <3>3
    <2> QED BY <2>1, <2>2 DEF OneFollows
<1> QED BY <1>4, <1>5, <1>6 DEF Chain

-----------------------------------------------------------------------------
(***************************************************************************)
(* getPreparedMessage and setOutputData, on the chains.                    *)
(***************************************************************************)
\* i stands before all others and is taken from its queue.
Popped(uq, vq, i, uq2, vq2) ==
    /\ Range(uq2) = Range(uq) \ {i} /\ Range(vq2) = Range(vq) \ {i}
    /\ \A j, k : j # i /\ Before(uq, j, k) => Before(uq2, j, k)
    /\ \A j, k : j # i /\ Before(vq, j, k) => Before(vq2, j, k)
    /\ \A j : ~Ahead(uq, vq, j, i)

\* A message is numbered, and resolves its predecessor.
Numbered(ms, i, h, next) ==
    LET m == ms[i]
    IN  /\ h.vim = m.vim /\ h.urg = m.urg /\ h.ord = m.ord
        /\ h.pred = IF m.ord THEN 0 ELSE m.pred
        /\ h.ctl2 = IF m.ord /\ m.pred # 0 THEN ms[m.pred].serial ELSE m.ctl2
        /\ h.serial = IF m.serial = 0 THEN next ELSE m.serial

\* Message i is taken from its queue and sent with header h.
Sent(ms, uq, vq, d, i, h, next, ns, uq2, vq2) ==
    /\ SerialsApart(ms) /\ next \in Nat \ {0}
    /\ \A j \in 1..Len(ms) : /\ ms[j].serial \in 0..next - 1
                             /\ ms[j].ctl2 \in 0..next - 1
    /\ i \in 1..Len(ms) /\ i # d
    /\ i \in Range(uq) \cup Range(vq) \/ ~ms[i].vim
    /\ Popped(uq, vq, i, uq2, vq2) /\ Numbered(ms, i, h, next)
    /\ Len(ns) = Len(ms)
    /\ \A j \in 1..Len(ms) : ns[j] = IF j = i THEN h ELSE ms[j]

LEMMA ChainSent ==
    ASSUME NEW ms, NEW uq, NEW vq, NEW d, NEW last, Refers(ms, uq, vq, d, last),
           Chain(ms, uq, vq, d, last), NEW i, NEW h, NEW next,
           NEW ns, NEW uq2, NEW vq2, Sent(ms, uq, vq, d, i, h, next, ns, uq2, vq2)
    PROVE  Chain(ns, uq2, vq2, d, last) /\ LinksFrom(ms, ns)
<1> USE DEF Sent
<1> DEFINE m == ms[i]
<1>1. /\ Linked(m) /\ m.pred \in 0..Len(ms) /\ Len(ms) \in Nat
      /\ ns[i] = h /\ \A j \in 1..Len(ms) : j # i => ns[j] = ms[j]
    BY DEF Chain, Refers
<1>2. m.pred # 0 => /\ m.ord /\ m.pred \in 1..Len(ms) /\ m.pred # i
                    /\ ms[m.pred].serial # 0 /\ m.serial = 0
    <2> SUFFICES ASSUME m.pred # 0
                 PROVE  /\ m.ord /\ m.pred \in 1..Len(ms) /\ m.pred # i
                        /\ ms[m.pred].serial # 0 /\ m.serial = 0
        OBVIOUS
    <2>1. m.ord /\ m.vim /\ m.serial = 0 /\ m.pred \in 1..Len(ms)
        BY <1>1 DEF Linked
    <2>2. ms[m.pred].serial # 0
        BY <2>1 DEF Chain, PredecessorAhead, Unsent, Popped
    <2> QED BY <2>1, <2>2
<1>3. Linked(h) /\ h.pred = 0 /\ h.serial \in Nat \ {0}
    <2>1. /\ h.vim = m.vim /\ h.ord = m.ord /\ h.pred = 0
          /\ h.ctl2 = IF m.pred # 0 THEN ms[m.pred].serial ELSE m.ctl2
          /\ h.serial = IF m.serial = 0 THEN next ELSE m.serial
        BY <1>1, <1>2 DEF Numbered, Linked
    <2>2. m.ord => h.ctl2 # 0 /\ h.ctl2 < h.serial
        <3>1. CASE m.pred # 0
            BY <1>2, <2>1, <3>1
        <3>2. CASE m.pred = 0
            BY <1>1, <2>1, <3>2 DEF Linked
        <3> QED BY <3>1, <3>2
    <2> QED BY <1>1, <2>1, <2>2 DEF Linked
<1>4. \A k, j \in 1..Len(ms) : Follows(ns, k, j) => Follows(ms, k, j)
    <2> SUFFICES ASSUME NEW k \in 1..Len(ms), NEW j \in 1..Len(ms), Follows(ns, k, j)
                 PROVE  Follows(ms, k, j)
        OBVIOUS
    <2>1. CASE k = i
        <3>1. h.ord /\ h.ctl2 # 0 /\ ns[j].serial = h.ctl2
            BY <1>1, <1>3, <2>1 DEF Follows
        <3>2. j # i
            BY <1>1, <1>3, <3>1 DEF Linked
        <3>3. ms[j].serial = h.ctl2 /\ m.ord
            BY <1>1, <3>1, <3>2 DEF Numbered
        <3>4. CASE m.pred # 0
            <4>1. ms[j].serial = ms[m.pred].serial
                BY <3>3, <3>4 DEF Numbered
            <4>2. j = m.pred
                BY <1>2, <3>4, <4>1 DEF SerialsApart
            <4> QED BY <2>1, <3>3, <3>4, <4>2 DEF Follows
        <3>5. CASE m.pred = 0
            <4>1. h.ctl2 = m.ctl2
                BY <3>5 DEF Numbered
            <4> QED BY <2>1, <3>1, <3>3, <3>5, <4>1 DEF Follows
        <3> QED BY <3>4, <3>5
    <2>2. CASE k # i
        <3>1. ns[k] = ms[k] /\ ms[k].ctl2 \in 0..next - 1
            BY <1>1, <2>2
        <3>2. CASE ms[k].pred # 0
            BY <3>1, <3>2 DEF Follows
        <3>3. CASE ms[k].pred = 0
            <4>1. ms[k].ord /\ ms[k].ctl2 # 0 /\ ns[j].serial = ms[k].ctl2
                BY <3>1, <3>3 DEF Follows
            <4>2. ns[j].serial = ms[j].serial
                <5>1. CASE j # i
                    BY <1>1, <5>1
                <5>2. CASE j = i /\ m.serial # 0
                    BY <1>1, <5>2 DEF Numbered
                <5>3. CASE j = i /\ m.serial = 0
                    <6>1. ns[j].serial = next
                        BY <1>1, <5>3 DEF Numbered
                    <6> QED BY <3>1, <4>1, <6>1
                <5> QED BY <5>1, <5>2, <5>3
            <4> QED BY <3>3, <4>1, <4>2 DEF Follows
        <3> QED BY <3>2, <3>3
    <2> QED BY <2>1, <2>2
<1>5. \A j \in 1..Len(ms) : ns[j].vim = ms[j].vim /\ ns[j].urg = ms[j].urg
    BY <1>1 DEF Numbered
<1>6. \A j \in 0..Len(ms) : Unsent(ns, j) => j # i /\ Unsent(ms, j)
    <2>1. \A j \in 0..Len(ms) : j # 0 => j \in 1..Len(ms)
        BY <1>1
    <2> QED BY <1>1, <1>3, <2>1 DEF Unsent
<1>7. \A j, urg : j # i /\ j \in Waiting(uq, vq, urg) => j \in Waiting(uq2, vq2, urg)
    BY DEF Waiting, Popped
<1>8. \A j \in 1..Len(ns) : Linked(ns[j])
    BY <1>1, <1>3 DEF Chain
<1>9. LastKnown(ns, uq2, vq2, d, last)
    <2> SUFFICES ASSUME NEW urg \in BOOLEAN, NEW j, j = last[urg], j # 0
                 PROVE  /\ j # d /\ ns[j].vim /\ ns[j].urg = urg
                        /\ Unsent(ns, j) => j \in Waiting(uq2, vq2, urg)
        BY DEF LastKnown
    <2>1. j \in 0..Len(ms) /\ j \in 1..Len(ms)
        BY DEF Refers
    <2>2. /\ j # d /\ ms[j].vim /\ ms[j].urg = urg
          /\ Unsent(ms, j) => j \in Waiting(uq, vq, urg)
        BY DEF Chain, LastKnown
    <2> QED BY <1>5, <1>6, <1>7, <2>1, <2>2
<1>10. PredecessorAhead(ns, uq2, vq2, d)
    <2>1. ASSUME NEW k \in Range(uq2) \cup Range(vq2), NEW j, j = ns[k].pred,
                 Unsent(ns, j)
          PROVE  Ahead(uq2, vq2, j, k)
        <3>1. k \in Range(uq) \cup Range(vq) /\ k # i /\ k \in 1..Len(ms)
            BY <2>1 DEF Popped, Refers
        <3>2. j = ms[k].pred /\ j \in 0..Len(ms)
            BY <1>1, <2>1, <3>1 DEF Refers
        <3>3. j # i /\ Ahead(uq, vq, j, k)
            BY <1>6, <2>1, <3>1, <3>2 DEF Chain, PredecessorAhead
        <3> QED BY <3>1, <3>3 DEF Ahead, Popped
    <2>2. ASSUME d # 0, NEW j, j = ns[d].pred, Unsent(ns, j)
          PROVE  j \in Waiting(uq2, vq2, ns[d].urg)
        <3>1. d \in 1..Len(ms)
            BY <2>2 DEF Refers
        <3>2. ns[d] = ms[d] /\ j = ms[d].pred /\ j \in 0..Len(ms)
            BY <1>1, <2>2, <3>1 DEF Refers
        <3> QED BY <1>6, <1>7, <2>2, <3>2 DEF Chain, PredecessorAhead
    <2> QED BY <2>1, <2>2 DEF PredecessorAhead
<1>11. OneFollows(ns, d, last)
    <2>1. OneFollows(ms, d, last)
        BY DEF Chain
    <2>2. \A j, k \in 1..Len(ns) :
             Follows(ns, j, k) => ns[k].vim /\ ns[j].urg = ns[k].urg
        BY <1>4, <1>5, <2>1 DEF OneFollows
    <2>3. /\ d # 0 => d \in 1..Len(ms)
          /\ \A urg \in BOOLEAN : last[urg] # 0 => last[urg] \in 1..Len(ms)
        BY DEF Refers
    <2>4. d # 0 => \A k \in 1..Len(ns) : ~Follows(ns, k, d)
        BY <1>4, <2>1, <2>3 DEF OneFollows
    <2>5. \A urg \in BOOLEAN, k \in 1..Len(ns) :
             last[urg] # 0 /\ Follows(ns, k, last[urg]) => k = d
        BY <1>4, <2>1, <2>3 DEF OneFollows
    <2>6. \A j, k, n \in 1..Len(ns) : Follows(ns, j, n) /\ Follows(ns, k, n) => j = k
        BY <1>4, <2>1 DEF OneFollows
    <2> QED BY <2>2, <2>4, <2>5, <2>6 DEF OneFollows
<1>12. LinksFrom(ms, ns)
    <2>1. \A k \in 1..Len(ms) :
             ns[k].vim = ms[k].vim /\ ns[k].urg = ms[k].urg /\ ns[k].ord = ms[k].ord
        BY <1>1 DEF Numbered
    <2> QED BY <1>1, <1>4, <2>1 DEF LinksFrom
<1> QED BY <1>8, <1>9, <1>10, <1>11, <1>12 DEF Chain

\* The head of a queue, and what its header leaves of it.
LEMMA PoppedHead ==
    ASSUME NEW q \in Seq(Nat), q # <<>>, IsInjective(q)
    PROVE  /\ Range(Tail(q)) = Range(q) \ {Head(q)}
           /\ \A j, k : j # Head(q) /\ Before(q, j, k) => Before(Tail(q), j, k)
           /\ \A j : ~Before(q, j, Head(q))
BY TailQueue, BeforeTail

LEMMA DequeuePops ==
    ASSUME NEW p \in Peer, SenderInv, NextToSend(p) # 0, Dequeue(p)
    PROVE  /\ Popped(urgentQ[p], vimQ[p], NextToSend(p), urgentQ'[p], vimQ'[p])
           /\ \/ NextToSend(p) \in Range(urgentQ[p]) \cup Range(vimQ[p])
              \/ NextToSend(p) \in Range(commonQ[p])
           /\ \A q \in Peer \ {p} : urgentQ'[q] = urgentQ[q] /\ vimQ'[q] = vimQ[q]
<1> DEFINE uq == urgentQ[p]
           vq == vimQ[p]
<1>1. /\ uq \in Seq(Nat) /\ vq \in Seq(Nat) /\ commonQ[p] \in Seq(Nat)
      /\ IsInjective(uq) /\ IsInjective(vq)
      /\ Range(uq) \cap Range(vq) = {}
      /\ Range(uq) \cap Range(commonQ[p]) = {}
      /\ Range(vq) \cap Range(commonQ[p]) = {}
      /\ urgentQ \in [Peer -> Seq(Nat)] /\ vimQ \in [Peer -> Seq(Nat)]
    BY SoundParts DEF QueueTypes, QueuesApart, Outbox
<1>2. \A q \in Seq(Nat) : q # <<>> /\ IsInjective(q) =>
         /\ Range(Tail(q)) = Range(q) \ {Head(q)} /\ Head(q) \in Range(q)
         /\ \A j, k : j # Head(q) /\ Before(q, j, k) => Before(Tail(q), j, k)
         /\ \A j : ~Before(q, j, Head(q))
    BY PoppedHead, TailFact
<1>3. \A q \in Seq(Nat) : \A j, k : Before(q, j, k) => k \in Range(q)
    BY BeforeIn
<1>4. \A q \in Peer \ {p} : urgentQ'[q] = urgentQ[q] /\ vimQ'[q] = vimQ[q]
    BY <1>1 DEF Dequeue
<1>5. CASE uq # <<>>
    <2>1. /\ NextToSend(p) = Head(uq) /\ vimQ'[p] = vq /\ urgentQ'[p] = Tail(uq)
        BY <1>1, <1>5 DEF NextToSend, Dequeue
    <2>2. Head(uq) \notin Range(vq) /\ Head(uq) \in Range(uq)
        BY <1>1, <1>2, <1>5
    <2> HIDE DEF uq, vq
    <2>3. /\ Range(Tail(uq)) = Range(uq) \ {Head(uq)}
          /\ \A j, k : j # Head(uq) /\ Before(uq, j, k) => Before(Tail(uq), j, k)
          /\ \A j : ~Before(uq, j, Head(uq))
        BY <1>1, <1>2, <1>5
    <2>4. \A j : ~Ahead(uq, vq, j, Head(uq))
        BY <1>1, <1>3, <2>2, <2>3 DEF Ahead
    <2>5. Popped(uq, vq, Head(uq), Tail(uq), vq)
        BY <2>2, <2>3, <2>4 DEF Popped
    <2> QED BY <1>4, <2>1, <2>2, <2>5 DEF uq, vq
<1>6. CASE uq = <<>> /\ vq # <<>>
    <2>1. /\ NextToSend(p) = Head(vq) /\ vimQ'[p] = Tail(vq) /\ urgentQ'[p] = uq
        BY <1>1, <1>6 DEF NextToSend, Dequeue
    <2>2. Head(vq) \notin Range(uq) /\ Head(vq) \in Range(vq) /\ Range(uq) = {}
        BY <1>1, <1>2, <1>6, EmptyFact
    <2> HIDE DEF uq, vq
    <2>3. Popped(uq, vq, Head(vq), uq, Tail(vq))
        BY <1>1, <1>2, <1>3, <1>6, <2>2 DEF Popped, Ahead
    <2> QED BY <1>4, <2>1, <2>2, <2>3 DEF uq, vq
<1>7. CASE uq = <<>> /\ vq = <<>>
    <2>1. /\ NextToSend(p) = Head(commonQ[p]) /\ vimQ'[p] = vq /\ urgentQ'[p] = uq
          /\ commonQ[p] # <<>>
        BY <1>1, <1>7 DEF NextToSend, Dequeue
    <2>2. /\ Head(commonQ[p]) \in Range(commonQ[p])
          /\ Head(commonQ[p]) \notin Range(uq) /\ Head(commonQ[p]) \notin Range(vq)
        BY <1>1, <2>1, TailFact
    <2> HIDE DEF uq, vq
    <2>3. Popped(uq, vq, Head(commonQ[p]), uq, vq)
        BY <1>1, <1>3, <2>2 DEF Popped, Ahead
    <2> QED BY <1>4, <2>1, <2>2, <2>3 DEF uq, vq
<1> QED BY <1>5, <1>6, <1>7

LEMMA HeaderNumbered ==
    ASSUME NEW p \in Peer, SenderInv, NEW i \in Queued(p), NEW bw \in BOOLEAN
    PROVE  /\ Numbered(msgs[p], i, Header(p, i, bw), serial[p])
           /\ Header(p, i, bw) \in NetMessage
<1> DEFINE m == msgs[p][i]
           ctl2 == IF m.ord /\ m.pred # 0 THEN msgs[p][m.pred].serial ELSE m.ctl2
           pred == IF m.ord THEN 0 ELSE m.pred
           bw2 == m.bw \/ (bw /\ ~Short(m))
           n == [m EXCEPT !.bw = bw2, !.ctl2 = ctl2, !.pred = pred]
<1>1. /\ m \in NetMessage
      /\ Header(p, i, bw) \in NetMessage
      /\ m.status \in {"new", "sent"}
      /\ m.status = "sent" => m.serial # 0
      /\ m.status = "new" => m.serial = 0
    BY HeaderFact, SoundParts
<1>2. Header(p, i, bw) = IF m.status = "sent" THEN n
                         ELSE [n EXCEPT !.serial = serial[p], !.status = "pending"]
    BY DEF Header
<1> HIDE DEF bw2, ctl2, pred
<1>3. /\ n.vim = m.vim /\ n.urg = m.urg /\ n.ord = m.ord
      /\ n.pred = pred /\ n.ctl2 = ctl2 /\ n.serial = m.serial
    BY <1>1 DEF NetMessage
<1>4. LET h == [n EXCEPT !.serial = serial[p], !.status = "pending"]
      IN  /\ h.vim = m.vim /\ h.urg = m.urg /\ h.ord = m.ord
          /\ h.pred = pred /\ h.ctl2 = ctl2 /\ h.serial = serial[p]
    BY <1>1 DEF NetMessage
<1>5. CASE m.status = "sent"
    BY <1>1, <1>2, <1>3, <1>5 DEF Numbered, pred, ctl2
<1>6. CASE m.status = "new"
    BY <1>1, <1>2, <1>4, <1>6 DEF Numbered, pred, ctl2
<1> QED BY <1>1, <1>5, <1>6

-----------------------------------------------------------------------------
(***************************************************************************)
(* The steps of one peer, on its chains.                                   *)
(***************************************************************************)
LEMMA ChainFacts ==
    ASSUME NEW p \in Peer, Invariant
    PROVE  /\ Refers(msgs[p], urgentQ[p], vimQ[p], draft[p], LastVIMs(p))
           /\ SerialsApart(msgs[p])
           /\ serial[p] \in Nat \ {0}
           /\ \A i \in 1..Len(msgs[p]) :
                 /\ msgs[p][i].serial \in 0..serial[p] - 1
                 /\ msgs[p][i].ctl2 \in 0..serial[p] - 1
                 /\ i \in Range(commonQ[p]) => ~msgs[p][i].vim
           /\ Queued(p) \subseteq 1..Len(msgs[p])
           /\ draft[p] \notin Queued(p)
           /\ draft[p] # 0 => msgs[p][draft[p]].serial = 0
<1>1. SenderInv
    BY DEF Invariant
<1>2. /\ msgs[p] \in Seq(NetMessage) /\ Len(msgs[p]) \in Nat /\ QueueTypes
      /\ {draft[p], lastUrgent[p], lastVIM[p]} \subseteq 0..Len(msgs[p])
      /\ Queued(p) \subseteq 1..Len(msgs[p]) /\ draft[p] \notin Queued(p)
      /\ serial[p] \in 1..Len(msgs[p]) + 1
      /\ \A i \in 1..Len(msgs[p]) : StatusFits(p, Outbox(p), i)
      /\ SerialsFit(msgs[p], serial[p])
    BY <1>1, SoundParts
<1>3. /\ Outbox(p).msgs = msgs[p] /\ Outbox(p).commonQ = commonQ[p]
    BY DEF Outbox
<1>4. \A i \in 1..Len(msgs[p]) :
         /\ msgs[p][i].pred \in 0..Len(msgs[p])
         /\ msgs[p][i].serial \in 0..serial[p] - 1
         /\ msgs[p][i].ctl2 \in 0..serial[p] - 1
         /\ i \in Range(commonQ[p]) => ~msgs[p][i].vim
         /\ i = draft[p] => msgs[p][i].serial = 0
    BY <1>2, <1>3 DEF StatusFits
<1>5. /\ \A urg \in BOOLEAN : LastVIMs(p)[urg] \in 0..Len(msgs[p])
      /\ urgentQ[p] \in Seq(Nat) /\ vimQ[p] \in Seq(Nat)
      /\ Range(urgentQ[p]) \cup Range(vimQ[p]) \subseteq 1..Len(msgs[p])
    BY <1>2 DEF LastVIMs, QueueTypes, Queued
<1>6. draft[p] # 0 => draft[p] \in 1..Len(msgs[p])
    BY <1>2
<1> QED BY <1>2, <1>4, <1>5, <1>6 DEF Refers, SerialsApart, SerialsFit

ChainStill(q) ==
    /\ msgs'[q] = msgs[q] /\ draft'[q] = draft[q]
    /\ urgentQ'[q] = urgentQ[q] /\ vimQ'[q] = vimQ[q]
    /\ lastUrgent'[q] = lastUrgent[q] /\ lastVIM'[q] = lastVIM[q]

LEMMA ChainSame ==
    ASSUME NEW q \in Peer, ChainSound(q), ChainStill(q)
    PROVE  ChainSound(q)'
BY DEF ChainSound, ChainStill, LastVIMs

\* The peer's messages keep their links, and its urgent queue gets longer.
LEMMA ChainQuiet ==
    ASSUME NEW p \in Peer, Invariant, Invariant', ChainSound(p),
           SameLinks(msgs[p], msgs'[p]), Longer(urgentQ[p], urgentQ'[p]),
           \A i \in Range(urgentQ'[p]) :
              i \in Range(urgentQ[p]) \/ msgs'[p][i].pred = 0,
           draft'[p] = draft[p], vimQ'[p] = vimQ[p],
           lastUrgent'[p] = lastUrgent[p], lastVIM'[p] = lastVIM[p]
    PROVE  ChainSound(p)'
<1>1. Refers(msgs[p], urgentQ[p], vimQ[p], draft[p], LastVIMs(p))
    BY ChainFacts
<1>2. msgs'[p] \in Seq(NetMessage)
    BY DEF Invariant, SenderInv, SenderTypes
<1>3. LastVIMs(p)' = LastVIMs(p)
    BY DEF LastVIMs
<1>4. Chain(msgs'[p], urgentQ'[p], vimQ[p], draft[p], LastVIMs(p))
    BY <1>1, <1>2, ChainKept DEF ChainSound
<1> QED BY <1>3, <1>4 DEF ChainSound

LEMMA ComposeOrdered ==
    ASSUME NEW p \in Peer, Invariant, NEW kind
    PROVE  LET m == SetOrderedPrevious(p, Flagged(kind))
           IN  /\ m \in NetMessage /\ m.serial = 0
               /\ Ordered(msgs[p], LastVIMs(p), m)
               /\ m.ord \/ LastVIMs(p)[m.urg] = 0
<1> DEFINE m0 == Flagged(kind)
           m == SetOrderedPrevious(p, m0)
           last == IF m0.urg THEN lastUrgent[p] ELSE lastVIM[p]
           lastSerial == msgs[p][last].serial
<1>1. /\ m0 \in NetMessage /\ m0.serial = 0 /\ m0.pred = 0 /\ m \in NetMessage
      /\ m.serial = 0
    BY FlaggedFact, ComposedFact DEF Invariant
<1>2. ~m0.ord
    BY DEF Flagged, Blank
<1>3. m0.urg \in BOOLEAN
    BY <1>1 DEF NetMessage
<1> HIDE DEF m0
<1>4. LastVIMs(p)[m0.urg] = last
    BY <1>3 DEF LastVIMs
<1>5. CASE last = 0
    <2>1. m = m0
        BY <1>5 DEF SetOrderedPrevious
    <2> QED BY <1>1, <1>2, <1>4, <1>5, <2>1 DEF Ordered, Unlinked, m0
<1>6. CASE last # 0
    <2>1. m = [m0 EXCEPT !.ord = TRUE, !.vim = TRUE,
                         !.pred = IF lastSerial = 0 THEN last ELSE 0,
                         !.ctl2 = lastSerial]
        BY <1>6 DEF SetOrderedPrevious
    <2> HIDE DEF last, lastSerial, m
    <2>2. /\ m.ord /\ m.vim /\ m.urg = m0.urg /\ m.ctl2 = lastSerial
          /\ m.pred = IF lastSerial = 0 THEN last ELSE 0
        BY <1>1, <2>1 DEF NetMessage
    <2>3. LastVIMs(p)[m.urg] = last /\ lastSerial = msgs[p][last].serial
        BY <1>4, <2>2 DEF lastSerial
    <2>4. Ordered(msgs[p], LastVIMs(p), m)
        BY <1>6, <2>2, <2>3 DEF Ordered
    <2> QED BY <1>1, <2>2, <2>4 DEF m, m0
<1> QED BY <1>5, <1>6

LEMMA ComposeChain ==
    ASSUME NEW p \in Peer, Invariant, ChainsSound, NEW kind, Compose(p, kind)
    PROVE  ChainsSound'
<1> DEFINE m == SetOrderedPrevious(p, Flagged(kind))
<1>1. m \in NetMessage /\ m.serial = 0 /\ Ordered(msgs[p], LastVIMs(p), m)
    BY ComposeOrdered
<1>2. /\ msgs' = [msgs EXCEPT ![p] = Append(@, m)] /\ draft[p] = 0
      /\ draft' = [draft EXCEPT ![p] = Len(msgs[p]) + 1]
      /\ UNCHANGED <<urgentQ, vimQ, lastUrgent, lastVIM>>
    BY DEF Compose
<1> HIDE DEF m
<1>3. msgs \in [Peer -> Seq(NetMessage)] /\ draft \in [Peer -> Nat]
    BY DEF Invariant, SenderInv, SenderTypes
<1>4. /\ msgs'[p] = Append(msgs[p], m) /\ draft'[p] = Len(msgs[p]) + 1
      /\ urgentQ'[p] = urgentQ[p] /\ vimQ'[p] = vimQ[p] /\ LastVIMs(p)' = LastVIMs(p)
      /\ \A q \in Peer \ {p} : ChainStill(q)
    BY <1>2, <1>3 DEF ChainStill, LastVIMs
<1>5. /\ Refers(msgs[p], urgentQ[p], vimQ[p], 0, LastVIMs(p))
      /\ SerialsApart(msgs[p])
    BY <1>2, ChainFacts
<1>6. Chain(msgs[p], urgentQ[p], vimQ[p], 0, LastVIMs(p))
    BY <1>2 DEF ChainsSound, ChainSound
<1>7. Chain(msgs'[p], urgentQ[p], vimQ[p], Len(msgs[p]) + 1, LastVIMs(p))
    BY <1>1, <1>4, <1>5, <1>6, ChainComposed
<1>8. ChainSound(p)'
    BY <1>4, <1>7 DEF ChainSound
<1>9. \A q \in Peer \ {p} : ChainSound(q)'
    BY <1>4, ChainSame DEF ChainsSound
<1> QED BY <1>8, <1>9 DEF ChainsSound

\* RememberLast and Enqueue, in terms of the chains.
LEMMA DispatchEffect ==
    ASSUME NEW p \in Peer, Invariant, NEW i \in Nat, NEW m \in NetMessage,
           NEW urgent \in BOOLEAN, RememberLast(p, i, m), Enqueue(p, i, m, urgent)
    PROVE  /\ Entered(m, urgent, i, urgentQ[p], vimQ[p], urgentQ'[p], vimQ'[p])
           /\ \A urg \in BOOLEAN :
                 LastVIMs(p)'[urg] = IF m.vim /\ m.urg = urg THEN i
                                     ELSE LastVIMs(p)[urg]
           /\ \A q \in Peer \ {p} :
                 /\ urgentQ'[q] = urgentQ[q] /\ vimQ'[q] = vimQ[q]
                 /\ lastUrgent'[q] = lastUrgent[q] /\ lastVIM'[q] = lastVIM[q]
<1>1. /\ urgentQ \in [Peer -> Seq(Nat)] /\ vimQ \in [Peer -> Seq(Nat)]
      /\ lastUrgent \in [Peer -> Nat] /\ lastVIM \in [Peer -> Nat]
      /\ m.vim \in BOOLEAN /\ m.urg \in BOOLEAN
    BY DEF Invariant, SenderInv, SenderTypes, NetMessage
<1>2. Entered(m, urgent, i, urgentQ[p], vimQ[p], urgentQ'[p], vimQ'[p])
    BY <1>1 DEF Entered, Enqueue
<1>3. /\ lastUrgent'[p] = IF m.vim /\ m.urg THEN i ELSE lastUrgent[p]
      /\ lastVIM'[p] = IF m.vim /\ ~m.urg THEN i ELSE lastVIM[p]
    BY <1>1 DEF RememberLast
<1>4. \A urg \in BOOLEAN :
         LastVIMs(p)'[urg] = IF m.vim /\ m.urg = urg THEN i ELSE LastVIMs(p)[urg]
    <2> TAKE urg \in BOOLEAN
    <2>1. /\ LastVIMs(p)'[urg] = IF urg THEN lastUrgent'[p] ELSE lastVIM'[p]
          /\ LastVIMs(p)[urg] = IF urg THEN lastUrgent[p] ELSE lastVIM[p]
        BY DEF LastVIMs
    <2> QED BY <1>1, <1>3, <2>1
<1>5. \A q \in Peer \ {p} :
         /\ urgentQ'[q] = urgentQ[q] /\ vimQ'[q] = vimQ[q]
         /\ lastUrgent'[q] = lastUrgent[q] /\ lastVIM'[q] = lastVIM[q]
    BY <1>1 DEF RememberLast, Enqueue
<1> QED BY <1>2, <1>4, <1>5

LEMMA DispatchChain ==
    ASSUME NEW p \in Peer, Invariant, ChainsSound, Dispatch(p)
    PROVE  ChainsSound'
<1> DEFINE i == draft[p]
<1>1. /\ Refers(msgs[p], urgentQ[p], vimQ[p], draft[p], LastVIMs(p))
      /\ i \notin Queued(p) /\ i # 0
    BY ChainFacts DEF Dispatch
<1>2. /\ i \in 1..Len(msgs[p]) /\ i \in Nat /\ msgs[p][i] \in NetMessage
      /\ i \notin Range(urgentQ[p]) \cup Range(vimQ[p])
    BY <1>1, LenProperties DEF Refers, Queued
<1>3. /\ RememberLast(p, i, msgs[p][i]) /\ Enqueue(p, i, msgs[p][i], FALSE)
      /\ draft' = [draft EXCEPT ![p] = 0] /\ msgs' = msgs
      /\ draft \in [Peer -> Nat]
    BY DEF Dispatch, Invariant, SenderInv, SenderTypes
<1>4. /\ Entered(msgs[p][i], FALSE, i, urgentQ[p], vimQ[p], urgentQ'[p], vimQ'[p])
      /\ \A urg \in BOOLEAN :
            LastVIMs(p)'[urg] = IF msgs[p][i].vim /\ msgs[p][i].urg = urg THEN i
                                ELSE LastVIMs(p)[urg]
      /\ \A q \in Peer \ {p} : ChainStill(q)
    BY <1>2, <1>3, DispatchEffect DEF ChainStill
<1>5. /\ Chain(msgs[p], urgentQ[p], vimQ[p], i, LastVIMs(p))
      /\ \A k \in 1..Len(msgs[p]) : ~Follows(msgs[p], k, i)
    BY <1>1 DEF ChainsSound, ChainSound, Chain, OneFollows
<1>6. Chain(msgs[p], urgentQ'[p], vimQ'[p], 0, LastVIMs(p)')
    <2>1. Dispatched(msgs[p], urgentQ[p], vimQ[p], i, LastVIMs(p), i, FALSE,
                     urgentQ'[p], vimQ'[p], 0, LastVIMs(p)')
        BY <1>2, <1>4, <1>5 DEF Dispatched
    <2> QED BY <1>1, <1>5, <2>1, ChainDispatched, Zenon
<1>7. ChainSound(p)'
    BY <1>3, <1>6 DEF ChainSound
<1>8. \A q \in Peer \ {p} : ChainSound(q)'
    BY <1>4, ChainSame DEF ChainsSound
<1> QED BY <1>7, <1>8 DEF ChainsSound

LEMMA DispatchPlainChain ==
    ASSUME NEW p \in Peer, Invariant, Invariant', ChainsSound, NEW kind,
           DispatchPlain(p, kind)
    PROVE  ChainsSound'
<1> DEFINE m == Flagged(kind)
           i == Len(msgs[p]) + 1
           urgent == kind # "common"
<1>1. m \in NetMessage /\ m.serial = 0 /\ m.pred = 0 /\ ~m.ord
    <2>1. ~m.ord
        BY DEF Flagged, Blank
    <2> QED BY <2>1, FlaggedFact
<1>2. /\ RememberLast(p, i, m) /\ Enqueue(p, i, m, urgent) /\ draft' = draft
      /\ msgs' = [msgs EXCEPT ![p] = Append(@, m)] /\ urgent \in BOOLEAN
    BY DEF DispatchPlain
<1> HIDE DEF m, urgent
<1>3. Refers(msgs[p], urgentQ[p], vimQ[p], draft[p], LastVIMs(p))
    BY ChainFacts
<1>4. /\ msgs[p] \in Seq(NetMessage) /\ msgs \in [Peer -> Seq(NetMessage)]
      /\ msgs' \in [Peer -> Seq(NetMessage)]
    BY DEF Invariant, SenderInv, SenderTypes
<1>5. /\ msgs'[p] = Append(msgs[p], m) /\ \A q \in Peer \ {p} : msgs'[q] = msgs[q]
    BY <1>2, <1>4
<1>6. /\ Len(msgs'[p]) = i /\ Len(msgs[p]) \in Nat /\ msgs'[p][i] = m
      /\ \A k \in 1..Len(msgs[p]) : msgs'[p][k] = msgs[p][k]
      /\ msgs'[p] \in Seq(NetMessage)
    BY <1>1, <1>4, <1>5, AppendProperties, LenProperties
<1>7. /\ i \in 1..Len(msgs'[p]) /\ i \in Nat /\ i \notin 1..Len(msgs[p]) /\ i # 0
      /\ 1..Len(msgs[p]) \subseteq 1..Len(msgs'[p])
      /\ 0..Len(msgs[p]) \subseteq 0..Len(msgs'[p])
      /\ \A k \in 1..Len(msgs'[p]) : k \in 1..Len(msgs[p]) \/ k = i
      /\ \A k \in Len(msgs[p]) + 1..Len(msgs'[p]) : k = i
      /\ 0 \in 0..Len(msgs'[p]) /\ i \notin 0..Len(msgs[p]) /\ Len(msgs[p]) =< i
    BY <1>6
<1> HIDE DEF i
<1>8. SameLinks(msgs[p], msgs'[p])
    BY <1>1, <1>6, <1>7 DEF SameLinks, SameLink, Unlinked, i
<1>9. Chain(msgs'[p], urgentQ[p], vimQ[p], draft[p], LastVIMs(p))
    BY <1>3, <1>6, <1>8, ChainKept, LongerSame DEF ChainsSound, ChainSound
<1>10. /\ Refers(msgs'[p], urgentQ[p], vimQ[p], draft[p], LastVIMs(p))
       /\ i \notin Range(urgentQ[p]) \cup Range(vimQ[p]) /\ draft[p] # i
    <2>1. \A k \in 1..Len(msgs'[p]) : msgs'[p][k].pred \in 0..Len(msgs'[p])
        BY <1>1, <1>3, <1>6, <1>7 DEF Refers
    <2> QED BY <1>3, <1>6, <1>7, <2>1, LenProperties DEF Refers
<1>11. \A k \in 1..Len(msgs'[p]) : ~Follows(msgs'[p], k, i)
    BY <1>3, <1>4, <1>6, <1>7, <1>8, FollowsKept DEF Refers
<1>12. /\ Entered(m, urgent, i, urgentQ[p], vimQ[p], urgentQ'[p], vimQ'[p])
       /\ \A urg \in BOOLEAN :
             LastVIMs(p)'[urg] = IF m.vim /\ m.urg = urg THEN i ELSE LastVIMs(p)[urg]
       /\ \A q \in Peer \ {p} : ChainStill(q)
    BY <1>1, <1>2, <1>5, <1>7, DispatchEffect DEF ChainStill
<1>13. Chain(msgs'[p], urgentQ'[p], vimQ'[p], draft[p], LastVIMs(p)')
    <2>1. msgs'[p][i] = m
        BY <1>6
    <2>2. /\ Entered(msgs'[p][i], urgent, i, urgentQ[p], vimQ[p],
                     urgentQ'[p], vimQ'[p])
          /\ \A urg \in BOOLEAN :
                LastVIMs(p)'[urg] = IF msgs'[p][i].vim /\ msgs'[p][i].urg = urg
                                    THEN i ELSE LastVIMs(p)[urg]
        BY <1>12, <2>1
    <2>3. ~msgs'[p][i].ord
        BY <1>1, <2>1
    <2>4. Dispatched(msgs'[p], urgentQ[p], vimQ[p], draft[p], LastVIMs(p), i,
                     urgent, urgentQ'[p], vimQ'[p], draft[p], LastVIMs(p)')
        <3>1. urgent \in BOOLEAN /\ i \in 1..Len(msgs'[p])
            BY <1>2, <1>7
        <3>2. i \notin Range(urgentQ[p]) \cup Range(vimQ[p]) /\ draft[p] # i
            BY <1>10
        <3> QED BY <1>11, <2>2, <2>3, <3>1, <3>2, Zenon DEF Dispatched
    <2> QED BY <1>9, <1>10, <2>4, ChainDispatched, Zenon
<1>14. ChainSound(p)'
    BY <1>2, <1>13 DEF ChainSound
<1>15. \A q \in Peer \ {p} : ChainSound(q)'
    BY <1>12, ChainSame DEF ChainsSound
<1> QED BY <1>14, <1>15 DEF ChainsSound

LEMMA CancelChain ==
    ASSUME NEW p \in Peer, Invariant, Invariant', ChainsSound,
           CancelQueues(p), draft[p] = 0
    PROVE  ChainsSound'
<1>1. MsgsKept
    BY CancelKept
<1>2. SameLinks(msgs[p], msgs'[p])
    BY <1>1, KeptLinks DEF MsgsKept
<1>3. /\ msgs \in [Peer -> Seq(NetMessage)] /\ msgs'[p] \in Seq(NetMessage)
      /\ urgentQ \in [Peer -> Seq(Nat)] /\ vimQ \in [Peer -> Seq(Nat)]
      /\ lastUrgent \in [Peer -> Nat] /\ lastVIM \in [Peer -> Nat]
    BY DEF Invariant, SenderInv, SenderTypes
<1>4. /\ urgentQ'[p] = <<>> /\ vimQ'[p] = <<>> /\ draft'[p] = 0
      /\ lastUrgent'[p] = 0 /\ lastVIM'[p] = 0
      /\ \A q \in Peer \ {p} : ChainStill(q)
    BY <1>3 DEF CancelQueues, ChainStill
<1>5. \A urg \in BOOLEAN : LastVIMs(p)'[urg] = 0
    BY <1>4 DEF LastVIMs
<1>6. /\ Refers(msgs[p], urgentQ[p], vimQ[p], 0, LastVIMs(p))
      /\ Chain(msgs[p], urgentQ[p], vimQ[p], 0, LastVIMs(p))
    BY ChainFacts DEF ChainsSound, ChainSound
<1>7. Chain(msgs'[p], <<>>, <<>>, 0, LastVIMs(p)')
    BY <1>2, <1>3, <1>5, <1>6, ChainCancelled
<1>8. ChainSound(p)'
    BY <1>4, <1>7 DEF ChainSound
<1>9. \A q \in Peer \ {p} : ChainSound(q)'
    BY <1>4, ChainSame DEF ChainsSound
<1> QED BY <1>8, <1>9 DEF ChainsSound

LEMMA TransmitChain ==
    ASSUME NEW p \in Peer, Invariant, Invariant', ChainsSound, Transmit(p)
    PROVE  ChainsSound' /\ \A q \in Peer : LinksFrom(msgs[q], msgs'[q])
<1> DEFINE i == NextToSend(p)
<1>1. SenderInv /\ i # 0 /\ Dequeue(p)
    BY DEF Invariant, Transmit
<1>2. /\ Popped(urgentQ[p], vimQ[p], i, urgentQ'[p], vimQ'[p])
      /\ i \in Range(urgentQ[p]) \cup Range(vimQ[p]) \/ i \in Range(commonQ[p])
      /\ \A q \in Peer \ {p} : urgentQ'[q] = urgentQ[q] /\ vimQ'[q] = vimQ[q]
    BY <1>1, DequeuePops
<1>3. i \in Queued(p)
    BY <1>2 DEF Queued
<1>4. PICK bw \in Bandwidths : msgs' = [msgs EXCEPT ![p][i] = Header(p, i, bw)]
    BY DEF Transmit
<1> DEFINE h == Header(p, i, bw)
<1>5. Numbered(msgs[p], i, h, serial[p]) /\ h \in NetMessage
    <2>1. bw \in BOOLEAN
        BY ModeAssumption
    <2> QED BY <1>1, <1>3, <2>1, HeaderNumbered
<1> HIDE DEF h
<1>6. /\ Refers(msgs[p], urgentQ[p], vimQ[p], draft[p], LastVIMs(p))
      /\ SerialsApart(msgs[p]) /\ serial[p] \in Nat \ {0}
      /\ \A j \in 1..Len(msgs[p]) :
            /\ msgs[p][j].serial \in 0..serial[p] - 1
            /\ msgs[p][j].ctl2 \in 0..serial[p] - 1
            /\ j \in Range(commonQ[p]) => ~msgs[p][j].vim
      /\ i \in 1..Len(msgs[p]) /\ i # draft[p]
    BY <1>3, ChainFacts
<1>7. msgs \in [Peer -> Seq(NetMessage)] /\ msgs[p] \in Seq(NetMessage)
    BY DEF Invariant, SenderInv, SenderTypes
<1>8. /\ msgs'[p] = [msgs[p] EXCEPT ![i] = h]
      /\ \A q \in Peer \ {p} : msgs'[q] = msgs[q]
    BY <1>4, <1>7 DEF h
<1> HIDE DEF i
<1>9. /\ Len(msgs'[p]) = Len(msgs[p])
      /\ \A j \in 1..Len(msgs[p]) : msgs'[p][j] = IF j = i THEN h ELSE msgs[p][j]
    BY <1>6, <1>7, <1>8, LenProperties
<1>10. i \in Range(urgentQ[p]) \cup Range(vimQ[p]) \/ ~msgs[p][i].vim
    BY <1>2, <1>6 DEF i
<1>11. Chain(msgs[p], urgentQ[p], vimQ[p], draft[p], LastVIMs(p))
    BY DEF ChainsSound, ChainSound
<1>12. /\ Chain(msgs'[p], urgentQ'[p], vimQ'[p], draft[p], LastVIMs(p))
       /\ LinksFrom(msgs[p], msgs'[p])
    <2>1. Popped(urgentQ[p], vimQ[p], i, urgentQ'[p], vimQ'[p])
        BY <1>2 DEF i
    <2>2. Sent(msgs[p], urgentQ[p], vimQ[p], draft[p], i, h, serial[p],
               msgs'[p], urgentQ'[p], vimQ'[p])
        BY <1>5, <1>6, <1>9, <1>10, <2>1 DEF Sent
    <2> QED BY <1>6, <1>11, <2>2, ChainSent, Zenon
<1>13. /\ draft' = draft /\ UNCHANGED <<lastUrgent, lastVIM>>
    BY DEF Transmit
<1>14. ChainSound(p)'
    <2>1. LastVIMs(p)' = LastVIMs(p)
        BY <1>13 DEF LastVIMs
    <2> QED BY <1>12, <1>13, <2>1 DEF ChainSound
<1>15. \A q \in Peer \ {p} : ChainSound(q)'
    <2>1. \A q \in Peer \ {p} : ChainStill(q)
        BY <1>2, <1>8, <1>13 DEF ChainStill
    <2> QED BY <2>1, ChainSame DEF ChainsSound
<1>16. \A q \in Peer \ {p} : LinksFrom(msgs[q], msgs'[q])
    <2>1. \A q \in Peer : /\ msgs[q] \in Seq(NetMessage)
                          /\ Refers(msgs[q], urgentQ[q], vimQ[q], draft[q], LastVIMs(q))
        BY ChainFacts DEF Invariant, SenderInv, SenderTypes
    <2>2. \A q \in Peer : SameLinks(msgs[q], msgs[q])
        BY <2>1, KeptSame, KeptLinks
    <2> QED BY <1>8, <2>1, <2>2, SameLinksFrom DEF Refers
<1> QED BY <1>12, <1>14, <1>15, <1>16 DEF ChainsSound

-----------------------------------------------------------------------------
(***************************************************************************)
(* The listener's and the heart-beat's writes: an urgent queue gets longer *)
(* by common messages and by messages that are new, beyond the first n.    *)
(***************************************************************************)
Fed(uq, cq, n, r) ==
    /\ Longer(uq, r)
    /\ \A i \in Range(r) : i \in Range(uq) \/ i \in Range(cq) \/ ~(i =< n)

LEMMA FedSame ==
    \A uq, cq, n : Fed(uq, cq, n, uq)
BY LongerSame DEF Fed

LEMMA FedAppend ==
    ASSUME NEW uq \in Seq(Nat), NEW cq, NEW n, NEW x \in Nat,
           x \in Range(cq) \/ ~(x =< n)
    PROVE  Fed(uq, cq, n, Append(uq, x))
<1>1. Longer(uq, Append(uq, x))
    BY LongerAppend
<1>2. Range(Append(uq, x)) = Range(uq) \cup {x}
    BY AppendFact
<1> QED BY <1>1, <1>2 DEF Fed

LEMMA HeartBeatFeeds ==
    ASSUME NEW out, Box(out), NEW ping \in BOOLEAN
    PROVE  LET b == HeartBeat(out, ping)
           IN  /\ Fed(out.urgentQ, out.commonQ, Len(out.msgs), b.urgentQ)
               /\ b.commonQ = out.commonQ /\ Len(out.msgs) =< Len(b.msgs)
<1> DEFINE b == HeartBeat(out, ping)
<1>1. /\ out.msgs \in Seq(NetMessage) /\ out.urgentQ \in Seq(Nat)
      /\ Len(out.msgs) \in Nat
      /\ out \in [msgs : Seq(NetMessage), urgentQ : Seq(Nat), commonQ : Seq(Nat)]
    BY LenProperties DEF Box
<1>2. Len(out.msgs) =< Len(b.msgs)
    BY HeartBeatKept DEF Kept
<1>3. b.commonQ = out.commonQ
    BY <1>1 DEF HeartBeat, NewUrgent
<1>4. CASE out.urgentQ = <<>>
    <2> DEFINE n == Len(out.msgs) + 1
    <2>1. b.urgentQ = Append(out.urgentQ, n)
        BY <1>4 DEF HeartBeat, NewUrgent
    <2>2. n \in Nat /\ ~(n =< Len(out.msgs))
        BY <1>1
    <2> HIDE DEF n, b
    <2>3. Fed(out.urgentQ, out.commonQ, Len(out.msgs), Append(out.urgentQ, n))
        BY <1>1, <2>2, FedAppend, Zenon
    <2> QED BY <1>2, <1>3, <2>1, <2>3 DEF b
<1>5. CASE out.urgentQ # <<>>
    <2>1. b.urgentQ = out.urgentQ
        BY <1>1, <1>5 DEF HeartBeat
    <2> QED BY <1>2, <1>3, <2>1, FedSame
<1> QED BY <1>4, <1>5

LEMMA DelayFeeds ==
    ASSUME NEW out, Box(out), NEW request \in Nat
    PROVE  Fed(out.urgentQ, out.commonQ, Len(out.msgs),
               DelayReply(out, request).urgentQ)
<1> DEFINE long == {k \in 1..Len(out.urgentQ) : ~Short(out.msgs[out.urgentQ[k]])}
           b == DelayReply(out, request)
<1>1. /\ out.msgs \in Seq(NetMessage) /\ out.urgentQ \in Seq(Nat)
      /\ out.commonQ \in Seq(Nat) /\ Len(out.msgs) \in Nat
      /\ out \in [msgs : Seq(NetMessage), urgentQ : Seq(Nat), commonQ : Seq(Nat)]
    BY LenProperties DEF Box
<1>2. CASE long # {}
    <2>1. b.urgentQ = out.urgentQ
        BY <1>1, <1>2 DEF DelayReply
    <2> QED BY <2>1, FedSame
<1>3. CASE long = {} /\ out.commonQ # <<>>
    <2> DEFINE h == Head(out.commonQ)
    <2>1. b.urgentQ = Append(out.urgentQ, h)
        BY <1>3 DEF DelayReply
    <2>2. h \in Range(out.commonQ) /\ h \in Nat
        BY <1>1, <1>3, TailFact
    <2> HIDE DEF h, b
    <2>3. Fed(out.urgentQ, out.commonQ, Len(out.msgs), Append(out.urgentQ, h))
        BY <1>1, <2>2, FedAppend, Zenon
    <2> QED BY <2>1, <2>3 DEF b
<1>4. CASE long = {} /\ out.commonQ = <<>>
    <2> DEFINE n == Len(out.msgs) + 1
    <2>1. b.urgentQ = Append(out.urgentQ, n)
        BY <1>4 DEF DelayReply, NewUrgent
    <2>2. n \in Nat /\ ~(n =< Len(out.msgs))
        BY <1>1
    <2> HIDE DEF n, b
    <2>3. Fed(out.urgentQ, out.commonQ, Len(out.msgs), Append(out.urgentQ, n))
        BY <1>1, <2>2, FedAppend, Zenon
    <2> QED BY <2>1, <2>3 DEF b
<1> QED BY <1>2, <1>3, <1>4

LEMMA ListenerFeeds ==
    ASSUME NEW p \in Peer, Invariant, Invariant', NEW pkt, pkt.serial \in Nat,
           ListenerWrites(p, pkt)
    PROVE  /\ Fed(urgentQ[p], commonQ[p], Len(msgs[p]), urgentQ'[p])
           /\ \A q \in Peer \ {p} : msgs'[q] = msgs[q] /\ urgentQ'[q] = urgentQ[q]
<1>1. PICK acked, out, last :
         /\ Box(acked) /\ Box(out) /\ Len(acked.msgs) = Len(msgs[p])
         /\ acked.urgentQ = urgentQ[p] /\ acked.commonQ = commonQ[p]
         /\ out = acked \/ \E ping \in BOOLEAN : out = HeartBeat(acked, ping)
         /\ last = out \/ last = DelayReply(out, pkt.serial)
         /\ WriteOutbox(p, last)
    BY DEF ListenerWrites
<1>2. /\ urgentQ \in [Peer -> Seq(Nat)] /\ msgs \in [Peer -> Seq(NetMessage)]
      /\ Len(msgs[p]) \in Nat
    BY LenProperties DEF Invariant, SenderInv, SenderTypes
<1>3. /\ urgentQ'[p] = last.urgentQ
      /\ \A q \in Peer \ {p} : msgs'[q] = msgs[q] /\ urgentQ'[q] = urgentQ[q]
    BY <1>1, <1>2 DEF WriteOutbox
<1>4. /\ Fed(urgentQ[p], commonQ[p], Len(msgs[p]), out.urgentQ)
      /\ out.commonQ = commonQ[p] /\ Len(msgs[p]) =< Len(out.msgs)
      /\ Len(out.msgs) \in Nat
    <2>1. Len(out.msgs) \in Nat
        BY <1>1, LenProperties DEF Box
    <2>2. CASE out = acked
        BY <1>1, <1>2, <2>1, <2>2, FedSame
    <2>3. ASSUME NEW ping \in BOOLEAN, out = HeartBeat(acked, ping)
          PROVE  /\ Fed(urgentQ[p], commonQ[p], Len(msgs[p]), out.urgentQ)
                 /\ out.commonQ = commonQ[p] /\ Len(msgs[p]) =< Len(out.msgs)
        BY <1>1, <2>3, HeartBeatFeeds
    <2> QED BY <1>1, <2>1, <2>2, <2>3
<1>5. CASE last = out
    BY <1>3, <1>4, <1>5
<1>6. CASE last = DelayReply(out, pkt.serial)
    <2>1. Fed(out.urgentQ, out.commonQ, Len(out.msgs), last.urgentQ)
        BY <1>1, <1>6, DelayFeeds
    <2>2. Longer(urgentQ[p], last.urgentQ)
        BY <1>4, <2>1, LongerTransitive DEF Fed
    <2>3. ASSUME NEW i \in Range(last.urgentQ)
          PROVE  i \in Range(urgentQ[p]) \/ i \in Range(commonQ[p])
                    \/ ~(i =< Len(msgs[p]))
        <3>1. CASE i \in Range(out.urgentQ)
            BY <1>4, <3>1 DEF Fed
        <3>2. CASE i \in Range(out.commonQ)
            BY <1>4, <3>2
        <3>3. CASE ~(i =< Len(out.msgs)) /\ i \in Nat
            BY <1>2, <1>4, <3>3
        <3>4. i \in Nat
            <4>1. last.urgentQ \in Seq(Nat)
                BY <1>3 DEF Invariant, SenderInv, SenderTypes
            <4> QED BY <4>1, RangeFact
        <3> QED BY <2>1, <3>1, <3>2, <3>3, <3>4 DEF Fed
    <2> QED BY <1>3, <2>2, <2>3 DEF Fed
<1> QED BY <1>1, <1>5, <1>6

\* What is fed to the urgent queue follows nobody that is unsent.
LEMMA FedChain ==
    ASSUME NEW p \in Peer, Invariant, Invariant', ChainSound(p),
           SameLinks(msgs[p], msgs'[p]),
           Fed(urgentQ[p], commonQ[p], Len(msgs[p]), urgentQ'[p]),
           draft'[p] = draft[p], vimQ'[p] = vimQ[p],
           lastUrgent'[p] = lastUrgent[p], lastVIM'[p] = lastVIM[p]
    PROVE  ChainSound(p)'
<1>1. /\ Refers(msgs[p], urgentQ[p], vimQ[p], draft[p], LastVIMs(p))
      /\ \A i \in 1..Len(msgs[p]) : i \in Range(commonQ[p]) => ~msgs[p][i].vim
      /\ Queued(p) \subseteq 1..Len(msgs[p])
    BY ChainFacts
<1>2. /\ \A i \in 1..Len(msgs[p]) : Linked(msgs[p][i])
      /\ \A i \in 1..Len(msgs'[p]) : Linked(msgs'[p][i])
    <2>1. \A i \in 1..Len(msgs[p]) : Linked(msgs[p][i])
        BY DEF ChainSound, Chain
    <2>2. msgs[p] \in Seq(NetMessage) /\ msgs'[p] \in Seq(NetMessage)
        BY DEF Invariant, SenderInv, SenderTypes
    <2> QED BY <2>1, <2>2, LinkedKept
<1>3. /\ Queued(p)' \subseteq 1..Len(msgs'[p])
      /\ Len(msgs[p]) \in Nat /\ Len(msgs'[p]) \in Nat
    <2>1. SenderInv /\ SenderInv'
        BY DEF Invariant
    <2>2. Queued(p)' \subseteq 1..Len(msgs'[p])
        BY <2>1 DEF SenderInv, Sound, OutTypes, Outbox, QueuedIn, Queued
    <2> QED BY <2>1, <2>2, LenProperties DEF SenderInv, SenderTypes
<1>4. ASSUME NEW i \in Range(urgentQ'[p]), i \notin Range(urgentQ[p])
      PROVE  msgs'[p][i].pred = 0
    <2>1. i \in 1..Len(msgs'[p])
        BY <1>3 DEF Queued
    <2>2. CASE i \in Range(commonQ[p])
        <3>1. i \in 1..Len(msgs[p]) /\ ~msgs[p][i].vim
            BY <1>1, <2>2 DEF Queued
        <3>2. msgs[p][i].pred = 0 /\ SameLink(msgs[p][i], msgs'[p][i])
            BY <1>2, <3>1 DEF Linked, SameLinks
        <3> QED BY <3>2 DEF SameLink
    <2>3. CASE ~(i =< Len(msgs[p]))
        <3>1. i \in Len(msgs[p]) + 1..Len(msgs'[p])
            BY <1>3, <2>1, <2>3
        <3> QED BY <3>1 DEF SameLinks, Unlinked
    <2> QED BY <1>4, <2>2, <2>3 DEF Fed
<1> QED BY <1>4, ChainQuiet DEF Fed

LEMMA CheckConnectivityChain ==
    ASSUME NEW p \in Peer, Invariant, Invariant', ChainsSound, CheckConnectivity(p)
    PROVE  ChainsSound'
<1>1. PICK ping \in PingRequests : WriteOutbox(p, HeartBeat(Outbox(p), ping))
    BY DEF CheckConnectivity
<1>2. /\ ping \in BOOLEAN /\ msgs \in [Peer -> Seq(NetMessage)]
      /\ urgentQ \in [Peer -> Seq(Nat)]
    BY ModeAssumption DEF Invariant, SenderInv, SenderTypes
<1>3. /\ urgentQ'[p] = HeartBeat(Outbox(p), ping).urgentQ
      /\ \A q \in Peer \ {p} : msgs'[q] = msgs[q] /\ urgentQ'[q] = urgentQ[q]
      /\ UNCHANGED <<draft, vimQ, lastUrgent, lastVIM>>
    BY <1>1, <1>2 DEF WriteOutbox, CheckConnectivity
<1>4. Fed(urgentQ[p], commonQ[p], Len(msgs[p]), urgentQ'[p])
    <2>1. Box(Outbox(p)) /\ Outbox(p).msgs = msgs[p]
        BY OutboxBox
    <2>2. Outbox(p).urgentQ = urgentQ[p] /\ Outbox(p).commonQ = commonQ[p]
        BY DEF Outbox
    <2>3. Fed(Outbox(p).urgentQ, Outbox(p).commonQ, Len(Outbox(p).msgs),
              HeartBeat(Outbox(p), ping).urgentQ)
        BY <1>2, <2>1, HeartBeatFeeds
    <2> QED BY <1>3, <2>1, <2>2, <2>3
<1>5. SameLinks(msgs[p], msgs'[p])
    BY CheckConnectivityKept, KeptLinks DEF MsgsKept
<1>6. ChainSound(p)'
    BY <1>3, <1>4, <1>5, FedChain DEF ChainsSound
<1>7. \A q \in Peer \ {p} : ChainSound(q)'
    BY <1>3, ChainSame DEF ChainsSound, ChainStill
<1> QED BY <1>6, <1>7 DEF ChainsSound

LEMMA ReceiveNewChain ==
    ASSUME NEW p \in Peer, Invariant, Invariant', ChainsSound,
           NEW pkt \in net, pkt.src # p, ReceiveNew(p, pkt)
    PROVE  ChainsSound'
<1>1. /\ Kept(msgs[p], msgs'[p], pkt.acks) /\ ListenerWrites(p, pkt)
      /\ UNCHANGED <<draft, vimQ, lastUrgent, lastVIM>>
    BY ReceiveNewKept DEF ReceiveNew
<1>2. pkt.serial \in Nat
    <2>1. pkt.serial \in Ids(pkt.src) /\ MaxMsgs[pkt.src] \in Nat
        BY PacketFact, BoundAssumption DEF Invariant, ReceiverInv, Ids
    <2> QED BY <2>1 DEF Ids
<1>3. /\ Fed(urgentQ[p], commonQ[p], Len(msgs[p]), urgentQ'[p])
      /\ \A q \in Peer \ {p} : msgs'[q] = msgs[q] /\ urgentQ'[q] = urgentQ[q]
    BY <1>1, <1>2, ListenerFeeds
<1>4. SameLinks(msgs[p], msgs'[p])
    BY <1>1, KeptLinks
<1>5. ChainSound(p)'
    BY <1>1, <1>3, <1>4, FedChain DEF ChainsSound
<1>6. \A q \in Peer \ {p} : ChainSound(q)'
    BY <1>1, <1>3, ChainSame DEF ChainsSound, ChainStill
<1> QED BY <1>5, <1>6 DEF ChainsSound

\* A resent message knows its predecessor's serial.
LEMMA ResendChain ==
    ASSUME NEW p \in Peer, Invariant, Invariant', ChainsSound,
           NEW i \in revisited[p], Resend(p, i)
    PROVE  ChainsSound'
<1>1. /\ urgentQ' = [urgentQ EXCEPT ![p] = InsertResend(@, i)]
      /\ UNCHANGED <<msgs, draft, vimQ, lastUrgent, lastVIM>>
    BY DEF Resend
<1>2. /\ urgentQ \in [Peer -> Seq(Nat)] /\ i \in Nat
      /\ msgs[p] \in Seq(NetMessage) /\ Len(msgs[p]) \in Nat
    BY LenProperties DEF Invariant, SenderInv, SenderTypes
<1>3. /\ urgentQ'[p] = InsertResend(urgentQ[p], i)
      /\ \A q \in Peer \ {p} : urgentQ'[q] = urgentQ[q]
    BY <1>1, <1>2
<1>4. /\ Longer(urgentQ[p], urgentQ'[p])
      /\ Range(urgentQ'[p]) = Range(urgentQ[p]) \cup {i}
    <2>1. urgentQ[p] \in Seq(Nat)
        BY <1>2
    <2> QED BY <1>2, <1>3, <2>1, LongerResend, ResendFact
<1>5. msgs[p][i].pred = 0
    <2>1. /\ i \in 1..Len(msgs[p]) /\ StatusFits(p, Outbox(p), i)
        BY SoundParts DEF Invariant
    <2>2. msgs[p][i].serial # 0
        BY <2>1 DEF StatusFits, Outbox
    <2> QED BY <2>1, <2>2 DEF ChainsSound, ChainSound, Chain, Linked
<1>6. SameLinks(msgs[p], msgs'[p])
    <2>1. Kept(msgs[p], msgs'[p], {})
        BY <1>1, <1>2, KeptSame
    <2> QED BY <2>1, KeptLinks
<1>7. ChainSound(p)'
    BY <1>1, <1>4, <1>5, <1>6, ChainQuiet DEF ChainsSound
<1>8. \A q \in Peer \ {p} : ChainSound(q)'
    BY <1>1, <1>3, ChainSame DEF ChainsSound, ChainStill
<1> QED BY <1>7, <1>8 DEF ChainsSound

LEMMA StatusChain ==
    ASSUME NEW p \in Peer, Invariant, Invariant', ChainsSound,
           PostSend(p) \/ DropObsolete(p)
    PROVE  ChainsSound'
<1>1. UNCHANGED <<urgentQ, draft, vimQ, lastUrgent, lastVIM>>
    BY DEF PostSend, DropObsolete
<1>2. \A q \in Peer : SameLinks(msgs[q], msgs'[q])
    BY StatusKept, KeptLinks DEF MsgsKept
<1>3. \A q \in Peer : ChainSound(q)'
    BY <1>1, <1>2, ChainQuiet, LongerSame DEF ChainsSound
<1> QED BY <1>3 DEF ChainsSound

LEMMA OtherChain ==
    ASSUME ChainsSound,
           UNCHANGED <<msgs, urgentQ, draft, vimQ, lastUrgent, lastVIM>>
    PROVE  ChainsSound'
BY ChainSame DEF ChainsSound, ChainStill

LEMMA ChainsStep ==
    ASSUME Invariant, ChainsSound, [Next]_vars
    PROVE  ChainsSound'
<1>1. Invariant'
    BY NextStep DEF InvStep, SoundStep, Invariant
<1>2. ASSUME NEW p \in Peer, NEW kind \in AllKinds,
             Compose(p, kind) \/ DispatchPlain(p, kind)
      PROVE  ChainsSound'
    BY <1>1, <1>2, ComposeChain, DispatchPlainChain
<1>3. ASSUME NEW p \in Peer, Dispatch(p) \/ Transmit(p)
      PROVE  ChainsSound'
    BY <1>1, <1>3, DispatchChain, TransmitChain
<1>4. ASSUME NEW p \in Peer, CancelAllMessages(p) \/ Close(p)
      PROVE  ChainsSound'
    BY <1>1, <1>4, CancelChain DEF CancelAllMessages, Close
<1>5. ASSUME NEW p \in Peer,
             PostSend(p) \/ DropObsolete(p) \/ CheckConnectivity(p)
      PROVE  ChainsSound'
    BY <1>1, <1>5, StatusChain, CheckConnectivityChain
<1>6. ASSUME NEW p \in Peer, NEW i \in revisited[p], Resend(p, i) \/ Discard(p, i)
      PROVE  ChainsSound'
    <2>1. CASE Resend(p, i)
        BY <1>1, <2>1, ResendChain
    <2>2. CASE Discard(p, i)
        BY <2>2, OtherChain DEF Discard
    <2> QED BY <1>6, <2>1, <2>2
<1>7. ASSUME NEW p \in Peer, NEW pkt \in net, Receive(p, pkt)
      PROVE  ChainsSound'
    <2>1. CASE ReceiveNew(p, pkt)
        BY <1>1, <1>7, <2>1, ReceiveNewChain DEF Receive
    <2>2. CASE ReceiveAgain(p, pkt)
        BY <2>2, OtherChain DEF ReceiveAgain, sendVars
    <2> QED BY <1>7, <2>1, <2>2 DEF Receive
<1>8. ASSUME NEW p \in Peer, ProcessVIM(p) \/ Unregister(p)
      PROVE  ChainsSound'
    BY <1>8, OtherChain DEF ProcessVIM, Unregister, sendVars
<1>9. CASE UNCHANGED vars
    BY <1>9, OtherChain DEF vars, sendVars
<1> QED BY <1>2, <1>3, <1>4, <1>5, <1>6, <1>7, <1>8, <1>9
       DEF Next, UserStep, SenderStep, ListenerStep

LEMMA ChainsInit == Init => ChainsSound
<1> SUFFICES ASSUME Init PROVE ChainsSound
    OBVIOUS
<1>1. ASSUME NEW p \in Peer
      PROVE  ChainSound(p)
    <2>1. /\ msgs[p] = <<>> /\ urgentQ[p] = <<>> /\ vimQ[p] = <<>> /\ draft[p] = 0
          /\ lastUrgent[p] = 0 /\ lastVIM[p] = 0
        BY DEF Init
    <2>2. \A urg \in BOOLEAN : LastVIMs(p)[urg] = 0
        BY <2>1 DEF LastVIMs
    <2>3. Range(<<>>) = {} /\ Len(<<>>) = 0 /\ 1..Len(<<>>) = {}
        BY EmptyFact
    <2>4. Chain(<<>>, <<>>, <<>>, 0, LastVIMs(p))
        BY <2>2, <2>3 DEF Chain, LastKnown, PredecessorAhead, OneFollows
    <2> QED BY <2>1, <2>4 DEF ChainSound
<1> QED BY <1>1 DEF ChainsSound

\* NET_ERROR(control2 != MSG_SERIAL_NULL) in setOutputData is never reached: an
\* ORDERED message leaves with its predecessor's serial, which is below its own.
THEOREM PredecessorsKnown == Spec => []PredecessorKnown
<1> DEFINE All == Invariant /\ ChainsSound
<1>1. Init => All
    BY InitInvariant, ChainsInit
<1>2. All /\ [Next]_vars => All'
    BY NextStep, ChainsStep DEF InvStep, SoundStep, Invariant
<1>3. All => PredecessorKnown
    <2> SUFFICES ASSUME All, NEW pkt \in net, NEW m, m = msgs[pkt.src][pkt.id], m.ord
                 PROVE  pkt.pred \in 1..pkt.serial - 1
        BY DEF PredecessorKnown
    <2>1. PacketSound(pkt) /\ pkt.src \in Peer /\ pkt.serial \in 1..MaxMsgs[pkt.src]
        BY PacketFact DEF Invariant, PacketsSound, ReceiverInv
    <2>2. /\ pkt.id \in 1..Len(msgs[pkt.src]) /\ pkt.serial = m.serial
          /\ pkt.pred = m.ctl2 /\ m.pred = 0
        BY <2>1 DEF PacketSound
    <2>3. pkt.serial \in Nat /\ pkt.serial # 0
        BY <2>1
    <2>4. Linked(m)
        BY <2>1, <2>2 DEF ChainsSound, ChainSound, Chain
    <2>5. m.ctl2 # 0 /\ m.ctl2 < m.serial
        BY <2>2, <2>3, <2>4 DEF Linked
    <2>6. m.ctl2 \in 0..serial[pkt.src] - 1 /\ serial[pkt.src] \in Nat \ {0}
        BY <2>1, <2>2, ChainFacts
    <2> QED BY <2>2, <2>3, <2>5, <2>6
<1> HIDE DEF All
<1> QED BY <1>1, <1>2, <1>3, PTL DEF Spec

\* processVIM may take the messages deferred behind a serial in any order: there
\* is one at most, as long as the bit-masks hold all serials.
THEOREM OneEach ==
    ASSUME MasksSuffice
    PROVE  Spec => []OneSuccessor
<1> DEFINE All == Invariant /\ MasksTrue /\ EachOnce /\ ChainsSound
<1>1. Init => All
    <2> SUFFICES ASSUME Init PROVE All
        OBVIOUS
    <2>1. \A p \in Peer : ackMask[p] = {}
        BY DEF Init
    <2>2. MasksTrue
        BY <2>1 DEF MasksTrue, MaskTrue
    <2> QED BY <2>2, InitInvariant, EachOnceInit, ChainsInit
<1>2. All /\ [Next]_vars => All'
    BY NextStep, MasksTrueStep, EachOnceStep, ChainsStep
       DEF InvStep, SoundStep, Invariant
<1>3. All => OneSuccessor
    <2> SUFFICES ASSUME All, NEW p \in Peer,
                        NEW d \in deferred[p] \cup working[p],
                        NEW e \in deferred[p] \cup working[p],
                        d.pred = e.pred, d.pred # 0
                 PROVE  d = e
        BY DEF OneSuccessor
    <2>1. PICK q \in Peer : q = Other(p)
        BY OtherFact
    <2>2. d \in net /\ e \in net /\ d.src = q /\ e.src = q
        BY <2>1, ReceiverParts DEF Invariant, ReceiverInv, ReceiverTypes
    <2>3. PacketSound(d) /\ PacketSound(e)
        BY <2>2 DEF Invariant, PacketsSound
    <2> DEFINE m == msgs[q][d.id]
               n == msgs[q][e.id]
    <2>4. /\ d.id \in 1..Len(msgs[q]) /\ e.id \in 1..Len(msgs[q])
          /\ d.serial = m.serial /\ e.serial = n.serial
          /\ m.ord /\ m.pred = 0 /\ m.ctl2 = d.pred
          /\ n.ord /\ n.pred = 0 /\ n.ctl2 = d.pred
        BY <2>2, <2>3 DEF PacketSound
    <2>5. PICK j \in 1..Len(msgs[q]) : msgs[q][j].serial = d.pred
        <3>1. d.pred \in 0..serial[q] - 1 /\ serial[q] \in Nat \ {0}
            BY <2>4, ChainFacts
        <3>2. SerialsFit(msgs[q], serial[q])
            BY SoundParts DEF Invariant
        <3>3. d.pred \in 1..serial[q] - 1
            BY <3>1
        <3> QED BY <3>2, <3>3 DEF SerialsFit
    <2>6. Follows(msgs[q], d.id, j) /\ Follows(msgs[q], e.id, j)
        BY <2>4, <2>5 DEF Follows
    <2>7. d.id = e.id
        BY <2>4, <2>6 DEF ChainsSound, ChainSound, Chain, OneFollows
    <2> QED BY <2>4, <2>7 DEF EachOnce, ReceivedOnce, Held
<1> HIDE DEF All
<1> QED BY <1>1, <1>2, <1>3, PTL DEF Spec

-----------------------------------------------------------------------------
(***************************************************************************)
(* No step changes who is ordered behind whom.                             *)
(***************************************************************************)
LinksStep == \A q \in Peer : LinksFrom(msgs[q], msgs'[q])

LEMMA AppendedLinks ==
    ASSUME NEW p \in Peer, Invariant, ChainSound(p), NEW m \in NetMessage,
           m.serial = 0, Ordered(msgs[p], LastVIMs(p), m), draft[p] = 0 \/ ~m.ord
    PROVE  LinksFrom(msgs[p], Append(msgs[p], m))
<1> DEFINE ms == msgs[p]
           ns == Append(msgs[p], m)
<1>1. /\ ms \in Seq(NetMessage) /\ Len(ms) \in Nat /\ SerialsApart(ms)
      /\ Refers(ms, urgentQ[p], vimQ[p], draft[p], LastVIMs(p))
    BY ChainFacts, LenProperties DEF Invariant, SenderInv, SenderTypes
<1>2. Refers(ms, urgentQ[p], vimQ[p], 0, LastVIMs(p))
    BY <1>1 DEF Refers
<1>3. /\ Len(ns) = Len(ms) + 1 /\ \A k \in 1..Len(ms) : ns[k] = ms[k]
    BY <1>1, AppendProperties
<1> HIDE DEF ms, ns
<1>4. ASSUME NEW k \in 1..Len(ms), NEW j \in 1..Len(ns), Follows(ns, k, j)
      PROVE  j \in 1..Len(ms) /\ Follows(ms, k, j)
    <2>1. k \in 1..Len(ns) /\ k # Len(ms) + 1
        BY <1>1, <1>3
    <2>2. Composed(ms, LastVIMs(p), m, ns, k, j)
        BY <1>1, <1>2, <1>4, <2>1, ComposedFollows DEF ms, ns
    <2> QED BY <2>1, <2>2 DEF Composed
<1> QED BY <1>1, <1>3, <1>4 DEF LinksFrom, ms, ns

LEMMA LinksHold ==
    ASSUME Invariant, ChainsSound, [Next]_vars
    PROVE  LinksStep
<1>1. Invariant'
    BY NextStep DEF InvStep, SoundStep, Invariant
<1>2. \A q \in Peer :
         /\ msgs[q] \in Seq(NetMessage) /\ msgs'[q] \in Seq(NetMessage)
         /\ \A i \in 1..Len(msgs[q]) : msgs[q][i].pred \in 0..Len(msgs[q])
    BY <1>1, ChainFacts DEF Refers, Invariant, SenderInv, SenderTypes
<1>3. ASSUME NEW q \in Peer, NEW acks, Kept(msgs[q], msgs'[q], acks)
      PROVE  LinksFrom(msgs[q], msgs'[q])
    BY <1>2, <1>3, KeptLinks, SameLinksFrom
<1>4. ASSUME NEW q \in Peer, msgs'[q] = msgs[q]
      PROVE  LinksFrom(msgs[q], msgs'[q])
    BY <1>2, <1>3, <1>4, KeptSame
<1>5. MsgsKept => LinksStep
    BY <1>3 DEF MsgsKept, LinksStep
<1>6. UNCHANGED msgs => LinksStep
    BY <1>4 DEF LinksStep
<1>7. ASSUME NEW p \in Peer, NEW m \in NetMessage, m.serial = 0,
             Ordered(msgs[p], LastVIMs(p), m), draft[p] = 0 \/ ~m.ord,
             msgs' = [msgs EXCEPT ![p] = Append(@, m)]
      PROVE  LinksStep
    <2>1. /\ msgs'[p] = Append(msgs[p], m)
          /\ \A q \in Peer \ {p} : msgs'[q] = msgs[q]
        BY <1>7 DEF Invariant, SenderInv, SenderTypes
    <2>2. LinksFrom(msgs[p], msgs'[p])
        BY <1>7, <2>1, AppendedLinks DEF ChainsSound
    <2> QED BY <1>4, <2>1, <2>2 DEF LinksStep
<1>8. ASSUME NEW p \in Peer, NEW kind \in AllKinds, Compose(p, kind)
      PROVE  LinksStep
    <2>1. PICK m : m = SetOrderedPrevious(p, Flagged(kind))
        OBVIOUS
    <2>2. m \in NetMessage /\ m.serial = 0 /\ Ordered(msgs[p], LastVIMs(p), m)
        BY <2>1, ComposeOrdered
    <2>3. msgs' = [msgs EXCEPT ![p] = Append(@, m)] /\ draft[p] = 0
        BY <1>8, <2>1 DEF Compose
    <2> QED BY <1>7, <2>2, <2>3
<1>9. ASSUME NEW p \in Peer, NEW kind \in AllKinds, DispatchPlain(p, kind)
      PROVE  LinksStep
    <2>1. PICK m : m = Flagged(kind)
        OBVIOUS
    <2>2. m \in NetMessage /\ m.serial = 0 /\ m.pred = 0 /\ ~m.ord
        <3>1. ~m.ord
            BY <2>1 DEF Flagged, Blank
        <3> QED BY <2>1, <3>1, FlaggedFact
    <2>3. msgs' = [msgs EXCEPT ![p] = Append(@, m)]
        BY <1>9, <2>1 DEF DispatchPlain
    <2> QED BY <1>7, <2>2, <2>3 DEF Ordered, Unlinked
<1>10. ASSUME NEW p \in Peer, Transmit(p)
       PROVE  LinksStep
    BY <1>1, <1>10, TransmitChain DEF LinksStep
<1>11. ASSUME NEW p \in Peer, NEW pkt \in net, Receive(p, pkt)
       PROVE  LinksStep
    <2>1. CASE ReceiveNew(p, pkt)
        BY <1>3, <1>4, <1>11, <2>1, ReceiveNewKept DEF LinksStep, Receive
    <2>2. CASE ReceiveAgain(p, pkt)
        BY <1>6, <2>2 DEF ReceiveAgain, sendVars
    <2> QED BY <1>11, <2>1, <2>2 DEF Receive
<1>12. ASSUME NEW p \in Peer,
              PostSend(p) \/ DropObsolete(p) \/ CheckConnectivity(p)
       PROVE  LinksStep
    BY <1>5, <1>12, StatusKept, CheckConnectivityKept
<1>13. ASSUME NEW p \in Peer, CancelAllMessages(p) \/ Close(p)
       PROVE  LinksStep
    BY <1>5, <1>13, CancelKept DEF CancelAllMessages, Close
<1>14. ASSUME NEW p \in Peer, Dispatch(p) \/ ProcessVIM(p) \/ Unregister(p)
       PROVE  LinksStep
    BY <1>6, <1>14 DEF Dispatch, ProcessVIM, Unregister, sendVars
<1>15. ASSUME NEW p \in Peer, NEW i \in revisited[p], Resend(p, i) \/ Discard(p, i)
       PROVE  LinksStep
    BY <1>6, <1>15 DEF Resend, Discard
<1>16. CASE UNCHANGED vars
    BY <1>6, <1>16 DEF vars, sendVars
<1> QED BY <1>8, <1>9, <1>10, <1>11, <1>12, <1>13, <1>14, <1>15, <1>16
       DEF Next, UserStep, SenderStep, ListenerStep

-----------------------------------------------------------------------------
(***************************************************************************)
(* The history of dispatched messages: every VIM but the draft, once.      *)
(***************************************************************************)
DispatchedOnce(p) ==
    /\ IsInjective(dispatched[p])
    /\ \A i \in 1..Len(msgs[p]) :
          i \in Range(dispatched[p]) <=> msgs[p][i].vim /\ i # draft[p]

Histories == \A p \in Peer : DispatchedOnce(p)

\* Nothing is dispatched, and what is allocated is no VIM.
Quiet(q) ==
    /\ dispatched'[q] = dispatched[q] /\ draft'[q] = draft[q]
    /\ Len(msgs[q]) =< Len(msgs'[q])
    /\ \A i \in 1..Len(msgs[q]) : msgs'[q][i].vim = msgs[q][i].vim
    /\ \A i \in Len(msgs[q]) + 1..Len(msgs'[q]) : ~msgs'[q][i].vim

LEMMA QuietOnce ==
    ASSUME NEW q \in Peer, Invariant, Invariant', DispatchedOnce(q), Quiet(q)
    PROVE  DispatchedOnce(q)'
<1>1. /\ Len(msgs[q]) \in Nat /\ Len(msgs'[q]) \in Nat
      /\ Range(dispatched[q]) \subseteq 1..Len(msgs[q])
    BY SoundParts, LenProperties DEF Invariant, SenderInv, SenderTypes
<1>2. ASSUME NEW i \in 1..Len(msgs'[q])
      PROVE  i \in Range(dispatched'[q]) <=> msgs'[q][i].vim /\ i # draft'[q]
    <2>1. CASE i \in 1..Len(msgs[q])
        BY <2>1 DEF Quiet, DispatchedOnce
    <2>2. CASE i \notin 1..Len(msgs[q])
        <3>1. i \in Len(msgs[q]) + 1..Len(msgs'[q])
            BY <1>1, <2>2
        <3> QED BY <1>1, <2>2, <3>1 DEF Quiet
    <2> QED BY <2>1, <2>2
<1> QED BY <1>2 DEF DispatchedOnce, Quiet

LEMMA KeptQuiet ==
    ASSUME NEW q \in Peer, NEW acks, Kept(msgs[q], msgs'[q], acks),
           dispatched'[q] = dispatched[q], draft'[q] = draft[q]
    PROVE  Quiet(q)
BY DEF Kept, KeptMsg, Plain, Quiet

\* RememberLast, of a message that was not dispatched.
LEMMA RememberOnce ==
    ASSUME NEW p \in Peer, Invariant, Invariant', DispatchedOnce(p),
           NEW i \in 1..Len(msgs'[p]), i \notin Range(dispatched[p]),
           NEW m \in NetMessage, RememberLast(p, i, m), msgs'[p][i].vim = m.vim,
           \A j \in 1..Len(msgs'[p]) : j # i =>
              /\ j \in 1..Len(msgs[p]) /\ msgs'[p][j].vim = msgs[p][j].vim
              /\ j # draft[p] <=> j # draft'[p],
           i # draft'[p]
    PROVE  /\ DispatchedOnce(p)'
           /\ \A q \in Peer \ {p} : dispatched'[q] = dispatched[q]
<1>1. /\ dispatched \in [Peer -> Seq(Nat)] /\ i \in Nat /\ m.vim \in BOOLEAN
      /\ msgs'[p] \in Seq(NetMessage)
    <2>1. msgs'[p] \in Seq(NetMessage) /\ dispatched \in [Peer -> Seq(Nat)]
        BY DEF Invariant, SenderInv, SenderTypes
    <2>2. Len(msgs'[p]) \in Nat
        BY <2>1, LenProperties
    <2>3. m.vim \in BOOLEAN
        BY DEF NetMessage
    <2>4. i \in Nat
        BY <2>2
    <2> QED BY <2>1, <2>3, <2>4
<1>2. /\ dispatched'[p] = IF m.vim THEN Append(dispatched[p], i) ELSE dispatched[p]
      /\ \A q \in Peer \ {p} : dispatched'[q] = dispatched[q]
    BY <1>1 DEF RememberLast
<1>3. /\ Range(Append(dispatched[p], i)) = Range(dispatched[p]) \cup {i}
      /\ IsInjective(Append(dispatched[p], i))
    <2>1. dispatched[p] \in Seq(Nat) /\ IsInjective(dispatched[p])
        BY <1>1 DEF DispatchedOnce
    <2> QED BY <1>1, <2>1, AppendFact
<1>4. CASE m.vim
    BY <1>2, <1>3, <1>4 DEF DispatchedOnce
<1>5. CASE ~m.vim
    BY <1>2, <1>5 DEF DispatchedOnce
<1> QED BY <1>1, <1>2, <1>4, <1>5

LEMMA HistoriesStep ==
    ASSUME Invariant, Histories, [Next]_vars
    PROVE  Histories'
<1>1. Invariant'
    BY NextStep DEF InvStep, SoundStep, Invariant
<1>2. \A q \in Peer :
         /\ msgs[q] \in Seq(NetMessage) /\ msgs'[q] \in Seq(NetMessage)
         /\ Len(msgs[q]) \in Nat /\ Len(msgs'[q]) \in Nat
         /\ Range(dispatched[q]) \subseteq 1..Len(msgs[q])
         /\ draft[q] \in 0..Len(msgs[q])
    BY <1>1, SoundParts, LenProperties DEF Invariant, SenderInv, SenderTypes
<1>3. ASSUME NEW q \in Peer, Quiet(q)
      PROVE  DispatchedOnce(q)'
    BY <1>1, <1>3, QuietOnce DEF Histories
<1>4. ASSUME NEW q \in Peer, msgs'[q] = msgs[q], dispatched'[q] = dispatched[q],
             draft'[q] = draft[q]
      PROVE  DispatchedOnce(q)'
    BY <1>2, <1>3, <1>4, KeptSame, KeptQuiet
<1>5. ASSUME UNCHANGED <<dispatched, draft>>, MsgsKept \/ UNCHANGED msgs
      PROVE  Histories'
    <2>1. CASE MsgsKept
        BY <1>3, <1>5, <2>1, KeptQuiet DEF MsgsKept, Histories
    <2>2. CASE UNCHANGED msgs
        BY <1>4, <1>5, <2>2 DEF Histories
    <2> QED BY <1>5, <2>1, <2>2
<1>6. ASSUME NEW p \in Peer, NEW kind \in AllKinds, Compose(p, kind)
      PROVE  Histories'
    <2>1. PICK m : m = SetOrderedPrevious(p, Flagged(kind))
        OBVIOUS
    <2>2. m \in NetMessage
        BY <2>1, ComposeOrdered
    <2>3. /\ msgs' = [msgs EXCEPT ![p] = Append(@, m)] /\ draft[p] = 0
          /\ draft' = [draft EXCEPT ![p] = Len(msgs[p]) + 1]
          /\ dispatched' = dispatched
          /\ draft \in [Peer -> Nat] /\ msgs \in [Peer -> Seq(NetMessage)]
        BY <1>6, <2>1 DEF Compose, histVars, Invariant, SenderInv, SenderTypes
    <2>4. /\ Len(msgs'[p]) = Len(msgs[p]) + 1 /\ draft'[p] = Len(msgs[p]) + 1
          /\ \A i \in 1..Len(msgs[p]) : msgs'[p][i] = msgs[p][i]
          /\ \A q \in Peer \ {p} : msgs'[q] = msgs[q] /\ draft'[q] = draft[q]
        BY <1>2, <2>2, <2>3, AppendProperties
    <2>5. \A i \in 1..Len(msgs'[p]) : i \in 1..Len(msgs[p]) \/ i = draft'[p]
        BY <1>2, <2>4
    <2>6. \A i \in 1..Len(msgs[p]) : i # 0 /\ i # draft'[p]
        BY <1>2, <2>4
    <2>7. DispatchedOnce(p)'
        <3>1. draft'[p] \notin 1..Len(msgs[p])
            BY <1>2, <2>4
        <3> QED BY <1>2, <2>3, <2>4, <2>5, <2>6, <3>1 DEF DispatchedOnce, Histories
    <2> QED BY <1>4, <2>3, <2>4, <2>7 DEF Histories
<1>7. ASSUME NEW p \in Peer, Dispatch(p)
      PROVE  Histories'
    <2>1. /\ RememberLast(p, draft[p], msgs[p][draft[p]]) /\ draft[p] # 0
          /\ draft' = [draft EXCEPT ![p] = 0] /\ msgs' = msgs
          /\ draft \in [Peer -> Nat]
        BY <1>7 DEF Dispatch, Invariant, SenderInv, SenderTypes
    <2>2. /\ draft[p] \in 1..Len(msgs[p]) /\ msgs[p][draft[p]] \in NetMessage
          /\ draft'[p] = 0 /\ \A q \in Peer \ {p} : draft'[q] = draft[q]
          /\ \A j \in 1..Len(msgs[p]) : j # 0
        BY <1>2, <2>1, LenProperties
    <2>3. draft[p] \notin Range(dispatched[p])
        BY <2>2 DEF Histories, DispatchedOnce
    <2>4. /\ DispatchedOnce(p)'
          /\ \A q \in Peer \ {p} : dispatched'[q] = dispatched[q]
        BY <1>1, <2>1, <2>2, <2>3, RememberOnce DEF Histories
    <2> QED BY <1>4, <2>1, <2>2, <2>4 DEF Histories
<1>8. ASSUME NEW p \in Peer, NEW kind \in AllKinds, DispatchPlain(p, kind)
      PROVE  Histories'
    <2>1. PICK m, i : m = Flagged(kind) /\ i = Len(msgs[p]) + 1
        OBVIOUS
    <2>2. m \in NetMessage
        BY <2>1, FlaggedFact
    <2>3. /\ RememberLast(p, i, m) /\ draft' = draft
          /\ msgs' = [msgs EXCEPT ![p] = Append(@, m)]
          /\ msgs \in [Peer -> Seq(NetMessage)]
        BY <1>8, <2>1 DEF DispatchPlain, Invariant, SenderInv, SenderTypes
    <2>4. /\ Len(msgs'[p]) = i /\ msgs'[p][i] = m
          /\ \A j \in 1..Len(msgs[p]) : msgs'[p][j] = msgs[p][j]
          /\ \A q \in Peer \ {p} : msgs'[q] = msgs[q]
        BY <1>2, <2>1, <2>2, <2>3, AppendProperties
    <2>5. /\ i \in 1..Len(msgs'[p]) /\ i \notin 1..Len(msgs[p]) /\ i # draft[p]
          /\ \A j \in 1..Len(msgs'[p]) : j # i => j \in 1..Len(msgs[p])
        BY <1>2, <2>1, <2>4
    <2>6. /\ DispatchedOnce(p)'
          /\ \A q \in Peer \ {p} : dispatched'[q] = dispatched[q]
        BY <1>1, <1>2, <2>2, <2>3, <2>4, <2>5, RememberOnce DEF Histories
    <2> QED BY <1>4, <2>3, <2>4, <2>6 DEF Histories
<1>9. ASSUME NEW p \in Peer, Transmit(p)
      PROVE  Histories'
    <2>1. PICK bw \in Bandwidths :
             msgs' = [msgs EXCEPT ![p][NextToSend(p)] = Header(p, NextToSend(p), bw)]
        BY <1>9 DEF Transmit
    <2>2. PICK i, h : i = NextToSend(p) /\ h = Header(p, NextToSend(p), bw)
        OBVIOUS
    <2>3. i \in 1..Len(msgs[p]) /\ h \in NetMessage /\ h.vim = msgs[p][i].vim
        <3>1. SenderInv /\ i \in Queued(p) /\ bw \in BOOLEAN
            BY <1>9, <2>2, DequeueFact, SoundParts, ModeAssumption
               DEF Transmit, Invariant, SenderInv
        <3> QED BY <2>2, <3>1, HeaderFact, SoundParts
    <2>4. /\ UNCHANGED <<dispatched, draft>> /\ msgs \in [Peer -> Seq(NetMessage)]
          /\ msgs' = [msgs EXCEPT ![p][i] = h]
        BY <1>9, <2>1, <2>2 DEF Transmit, histVars, Invariant, SenderInv, SenderTypes
    <2>5. /\ msgs'[p] = [msgs[p] EXCEPT ![i] = h]
          /\ \A q \in Peer \ {p} : msgs'[q] = msgs[q]
        BY <2>4
    <2>6. /\ Len(msgs'[p]) = Len(msgs[p])
          /\ \A j \in 1..Len(msgs[p]) :
                msgs'[p][j] = IF j = i THEN h ELSE msgs[p][j]
        BY <1>2, <2>3, <2>5, LenProperties
    <2>7. Len(msgs[p]) + 1..Len(msgs'[p]) = {}
        BY <1>2, <2>6
    <2>8. Quiet(p)
        BY <1>2, <2>3, <2>4, <2>6, <2>7 DEF Quiet
    <2> QED BY <1>3, <1>4, <2>4, <2>5, <2>8 DEF Histories
<1>10. ASSUME NEW p \in Peer, NEW pkt \in net, Receive(p, pkt)
       PROVE  Histories'
    <2>1. CASE ReceiveNew(p, pkt)
        <3>1. UNCHANGED <<dispatched, draft>>
            BY <2>1 DEF ReceiveNew
        <3>2. /\ Kept(msgs[p], msgs'[p], pkt.acks)
              /\ \A q \in Peer \ {p} : msgs'[q] = msgs[q]
            BY <1>10, <2>1, ReceiveNewKept DEF Receive
        <3> QED BY <1>3, <1>4, <3>1, <3>2, KeptQuiet DEF Histories
    <2>2. CASE ReceiveAgain(p, pkt)
        BY <1>5, <2>2 DEF ReceiveAgain, sendVars, histVars
    <2> QED BY <1>10, <2>1, <2>2 DEF Receive
<1>11. ASSUME NEW p \in Peer,
              PostSend(p) \/ DropObsolete(p) \/ CheckConnectivity(p)
       PROVE  Histories'
    <2>1. UNCHANGED <<dispatched, draft>>
        BY <1>11 DEF PostSend, DropObsolete, CheckConnectivity, histVars
    <2> QED BY <1>5, <1>11, <2>1, StatusKept, CheckConnectivityKept
<1>12. ASSUME NEW p \in Peer, CancelAllMessages(p) \/ Close(p)
       PROVE  Histories'
    BY <1>5, <1>12, CancelKept DEF CancelAllMessages, Close, CancelQueues, histVars
<1>13. ASSUME NEW p \in Peer, ProcessVIM(p) \/ Unregister(p)
       PROVE  Histories'
    BY <1>5, <1>13 DEF ProcessVIM, Unregister, sendVars, histVars
<1>14. ASSUME NEW p \in Peer, NEW i \in revisited[p], Resend(p, i) \/ Discard(p, i)
       PROVE  Histories'
    BY <1>5, <1>14 DEF Resend, Discard, histVars
<1>15. CASE UNCHANGED vars
    BY <1>5, <1>15 DEF vars, sendVars, histVars
<1> QED BY <1>6, <1>7, <1>8, <1>9, <1>10, <1>11, <1>12, <1>13, <1>14, <1>15
       DEF Next, UserStep, SenderStep, ListenerStep

LEMMA HistoriesInit == Init => Histories
<1> SUFFICES ASSUME Init, NEW p \in Peer PROVE DispatchedOnce(p)
    BY DEF Histories
<1>1. /\ msgs[p] = <<>> /\ dispatched[p] = <<>> /\ 1..Len(<<>>) = {}
      /\ IsInjective(<<>>)
    BY EmptyFact DEF Init
<1> QED BY <1>1 DEF DispatchedOnce

-----------------------------------------------------------------------------
(***************************************************************************)
(* The abstract state, for one peer: from its messages ms, the history d   *)
(* of those it dispatched and the history g of those the other peer got.   *)
(***************************************************************************)
PredecessorIn(ms, i) ==
    IF ~ms[i].ord THEN 0
    ELSE IF ms[i].pred # 0 THEN ms[i].pred
    ELSE CHOOSE j \in 1..Len(ms) : ms[j].serial = ms[i].ctl2

PositionIn(d, i) == IF i = 0 THEN 0 ELSE CHOOSE k \in 1..Len(d) : d[k] = i

AfterIn(ms, d) == [k \in 1..Len(d) |-> PositionIn(d, PredecessorIn(ms, d[k]))]
TakenIn(d, g) == {k \in 1..Len(d) : d[k] \in Range(g)}

\* The predecessor of an ORDERED message is one of the messages, and one only.
Known(ms) ==
    /\ ms \in Seq(NetMessage) /\ SerialsApart(ms)
    /\ \A i \in 1..Len(ms) : ms[i].ord =>
          IF ms[i].pred # 0 THEN ms[i].pred \in 1..Len(ms)
          ELSE ms[i].ctl2 # 0 /\ \E j \in 1..Len(ms) : ms[j].serial = ms[i].ctl2

LEMMA KnownFact ==
    ASSUME NEW p \in Peer, Invariant, ChainsSound
    PROVE  Known(msgs[p])
<1>1. /\ msgs[p] \in Seq(NetMessage) /\ SerialsApart(msgs[p])
      /\ SerialsFit(msgs[p], serial[p]) /\ serial[p] \in Nat \ {0}
      /\ Len(msgs[p]) \in Nat
    BY ChainFacts, SoundParts, LenProperties DEF Refers, Invariant, SenderInv
<1>2. ASSUME NEW i \in 1..Len(msgs[p]), msgs[p][i].ord
      PROVE  IF msgs[p][i].pred # 0 THEN msgs[p][i].pred \in 1..Len(msgs[p])
             ELSE /\ msgs[p][i].ctl2 # 0
                  /\ \E j \in 1..Len(msgs[p]) : msgs[p][j].serial = msgs[p][i].ctl2
    <2>1. /\ msgs[p][i].pred \in 0..Len(msgs[p])
          /\ msgs[p][i].ctl2 \in 0..serial[p] - 1
        BY ChainFacts DEF Refers
    <2>2. msgs[p][i].pred = 0 => msgs[p][i].ctl2 # 0
        BY <1>2 DEF ChainsSound, ChainSound, Chain, Linked
    <2>3. CASE msgs[p][i].pred # 0
        BY <1>1, <2>1, <2>3
    <2>4. CASE msgs[p][i].pred = 0
        <3>1. msgs[p][i].ctl2 \in 1..serial[p] - 1
            BY <1>1, <2>1, <2>2, <2>4
        <3> QED BY <1>1, <2>2, <2>4, <3>1 DEF SerialsFit
    <2> QED BY <2>3, <2>4
<1> QED BY <1>1, <1>2 DEF Known

LEMMA PredecessorFact ==
    ASSUME NEW ms, Known(ms), NEW i \in 1..Len(ms), ms[i].ord
    PROVE  /\ PredecessorIn(ms, i) \in 1..Len(ms)
           /\ Follows(ms, i, PredecessorIn(ms, i))
           /\ \A j \in 1..Len(ms) : Follows(ms, i, j) => j = PredecessorIn(ms, i)
<1>1. CASE ms[i].pred # 0
    BY <1>1 DEF Known, PredecessorIn, Follows
<1>2. CASE ms[i].pred = 0
    <2>1. /\ ms[i].ctl2 # 0 /\ \E j \in 1..Len(ms) : ms[j].serial = ms[i].ctl2
        BY <1>2 DEF Known
    <2>2. PICK j : j = CHOOSE k \in 1..Len(ms) : ms[k].serial = ms[i].ctl2
        OBVIOUS
    <2>3. j \in 1..Len(ms) /\ ms[j].serial = ms[i].ctl2
        BY <2>1, <2>2
    <2>4. PredecessorIn(ms, i) = j
        BY <1>2, <2>2 DEF PredecessorIn
    <2>5. \A k \in 1..Len(ms) : Follows(ms, i, k) => k = j
        BY <1>2, <2>1, <2>3 DEF Follows, Known, SerialsApart
    <2> QED BY <1>2, <2>1, <2>3, <2>4, <2>5 DEF Follows
<1> QED BY <1>1, <1>2

LEMMA SamePredecessor ==
    ASSUME NEW ms, NEW ns, Known(ms), Known(ns), LinksFrom(ms, ns),
           NEW i \in 1..Len(ms)
    PROVE  PredecessorIn(ns, i) = PredecessorIn(ms, i)
<1>1. i \in 1..Len(ns) /\ ns[i].ord = ms[i].ord
    <2>1. Len(ms) \in Nat /\ Len(ns) \in Nat /\ Len(ms) =< Len(ns)
        BY LenProperties DEF Known, LinksFrom
    <2> QED BY <2>1 DEF LinksFrom
<1>2. CASE ~ms[i].ord
    BY <1>1, <1>2 DEF PredecessorIn
<1>3. CASE ms[i].ord
    <2>1. /\ PredecessorIn(ns, i) \in 1..Len(ns)
          /\ Follows(ns, i, PredecessorIn(ns, i))
        BY <1>1, <1>3, PredecessorFact
    <2>2. /\ PredecessorIn(ns, i) \in 1..Len(ms)
          /\ Follows(ms, i, PredecessorIn(ns, i))
        BY <2>1 DEF LinksFrom
    <2> QED BY <1>3, <2>2, PredecessorFact
<1> QED BY <1>2, <1>3

\* A history without repetitions has a place for each of its messages.
LEMMA PositionFact ==
    ASSUME NEW d \in Seq(Nat), IsInjective(d), NEW i \in Range(d), i # 0
    PROVE  /\ PositionIn(d, i) \in 1..Len(d) /\ d[PositionIn(d, i)] = i
           /\ \A k \in 1..Len(d) : d[k] = i => k = PositionIn(d, i)
<1>1. Range(d) = {d[k] : k \in 1..Len(d)} /\ DOMAIN d = 1..Len(d)
    BY RangeFact
<1>2. PositionIn(d, i) = CHOOSE k \in 1..Len(d) : d[k] = i
    BY DEF PositionIn
<1>3. PositionIn(d, i) \in 1..Len(d) /\ d[PositionIn(d, i)] = i
    BY <1>1, <1>2
<1> QED BY <1>1, <1>3 DEF IsInjective

LEMMA NewInInjective ==
    ASSUME NEW q \in Seq(Nat), NEW x \in Nat, IsInjective(Append(q, x))
    PROVE  x \notin Range(q)
<1> SUFFICES ASSUME x \in Range(q) PROVE FALSE
    OBVIOUS
<1>1. /\ Append(q, x) \in Seq(Nat) /\ Len(Append(q, x)) = Len(q) + 1
      /\ \A k \in 1..Len(q) : Append(q, x)[k] = q[k]
      /\ Append(q, x)[Len(q) + 1] = x /\ Len(q) \in Nat
    BY AppendProperties, LenProperties
<1>2. DOMAIN Append(q, x) = 1..Len(q) + 1
    BY <1>1, RangeFact
<1>3. PICK k \in 1..Len(q) : q[k] = x
    BY RangeFact
<1>4. k \in 1..Len(q) + 1 /\ Len(q) + 1 \in 1..Len(q) + 1 /\ k # Len(q) + 1
    BY <1>1
<1> QED BY <1>1, <1>2, <1>3, <1>4 DEF IsInjective

LEMMA PositionAppended ==
    ASSUME NEW d \in Seq(Nat), NEW x \in Nat, IsInjective(d), x \notin Range(d),
           NEW i \in Range(d) \cup {0}
    PROVE  PositionIn(Append(d, x), i) = PositionIn(d, i)
<1>1. CASE i = 0
    BY <1>1 DEF PositionIn
<1>2. CASE i # 0
    <2>1. /\ PositionIn(d, i) \in 1..Len(d) /\ d[PositionIn(d, i)] = i
        BY <1>2, PositionFact
    <2>2. /\ Range(Append(d, x)) = Range(d) \cup {x} /\ IsInjective(Append(d, x))
          /\ Append(d, x) \in Seq(Nat) /\ Len(Append(d, x)) = Len(d) + 1
          /\ Len(d) \in Nat /\ \A k \in 1..Len(d) : Append(d, x)[k] = d[k]
        BY AppendFact, AppendProperties, LenProperties
    <2>3. /\ PositionIn(d, i) \in 1..Len(Append(d, x))
          /\ Append(d, x)[PositionIn(d, i)] = i
        BY <2>1, <2>2
    <2> QED BY <1>2, <2>2, <2>3, PositionFact
<1> QED BY <1>1, <1>2

\* What a VIM that was dispatched is ordered behind was dispatched before it.
Behind(ms, d) == \A i \in Range(d) : PredecessorIn(ms, i) \in Range(d) \cup {0}

LEMMA BehindFact ==
    ASSUME NEW p \in Peer, Invariant, ChainsSound, Histories
    PROVE  Behind(msgs[p], dispatched[p])
<1> SUFFICES ASSUME NEW i \in Range(dispatched[p]), msgs[p][i].ord
             PROVE  PredecessorIn(msgs[p], i) \in Range(dispatched[p])
    BY DEF Behind, PredecessorIn
<1>1. i \in 1..Len(msgs[p])
    BY SoundParts DEF Invariant
<1>2. PICK j : j = PredecessorIn(msgs[p], i)
    OBVIOUS
<1>3. j \in 1..Len(msgs[p]) /\ Follows(msgs[p], i, j)
    BY <1>1, <1>2, KnownFact, PredecessorFact
<1>4. OneFollows(msgs[p], draft[p], LastVIMs(p))
    BY DEF ChainsSound, ChainSound, Chain
<1>5. j # 0
    BY <1>3
<1>6. msgs[p][j].vim /\ j # draft[p]
    BY <1>1, <1>3, <1>4, <1>5 DEF OneFollows
<1> QED BY <1>2, <1>3, <1>6 DEF Histories, DispatchedOnce

LEMMA AfterSame ==
    ASSUME NEW ms, NEW ns, Known(ms), Known(ns), LinksFrom(ms, ns),
           NEW d \in Seq(Nat), Range(d) \subseteq 1..Len(ms)
    PROVE  AfterIn(ns, d) = AfterIn(ms, d)
<1>1. \A k \in 1..Len(d) : d[k] \in 1..Len(ms)
    BY RangeFact
<1>2. \A k \in 1..Len(d) : PredecessorIn(ns, d[k]) = PredecessorIn(ms, d[k])
    BY <1>1, SamePredecessor
<1> QED BY <1>2 DEF AfterIn

LEMMA AppendedFunction ==
    ASSUME NEW S, NEW q \in Seq(S), NEW x \in S
    PROVE  /\ Append(q, x) = [k \in 1..Len(q) + 1 |-> Append(q, x)[k]]
           /\ \A k \in 1..Len(q) : Append(q, x)[k] = q[k]
           /\ Append(q, x)[Len(q) + 1] = x
<1>1. /\ Append(q, x) \in Seq(S) /\ Len(Append(q, x)) = Len(q) + 1
      /\ \A k \in 1..Len(q) : Append(q, x)[k] = q[k]
      /\ Append(q, x)[Len(q) + 1] = x
    BY AppendProperties
<1>2. Append(q, x) \in [1..Len(q) + 1 -> S]
    BY <1>1, LenProperties
<1> QED BY <1>1, <1>2

LEMMA AfterAppended ==
    ASSUME NEW ms, NEW ns, Known(ms), Known(ns), LinksFrom(ms, ns),
           NEW d \in Seq(Nat), Range(d) \subseteq 1..Len(ms), IsInjective(d),
           NEW i \in Nat, i \notin Range(d), Behind(ms, d),
           PredecessorIn(ns, i) \in Range(d) \cup {0}
    PROVE  AfterIn(ns, Append(d, i))
              = Append(AfterIn(ms, d), PositionIn(d, PredecessorIn(ns, i)))
<1> DEFINE e == Append(d, i)
           A == AfterIn(ms, d)
           prev == PositionIn(d, PredecessorIn(ns, i))
<1>1. /\ Len(d) \in Nat /\ Len(e) = Len(d) + 1 /\ e[Len(d) + 1] = i
      /\ \A k \in 1..Len(d) : e[k] = d[k] /\ d[k] \in Range(d)
      /\ \A x \in Range(d) \cup {0} : PositionIn(e, x) = PositionIn(d, x)
    BY AppendProperties, LenProperties, RangeFact, PositionAppended
<1>2. /\ A = [k \in 1..Len(d) |-> PositionIn(d, PredecessorIn(ms, d[k]))]
      /\ AfterIn(ns, e) = [k \in 1..Len(d) + 1 |-> PositionIn(e, PredecessorIn(ns, e[k]))]
    BY <1>1 DEF AfterIn
<1>3. A \in Seq({PositionIn(d, PredecessorIn(ms, d[k])) : k \in 1..Len(d)})
    BY <1>1, <1>2
<1>4. A \in Seq({PositionIn(d, PredecessorIn(ms, d[k])) : k \in 1..Len(d)} \cup {prev})
      /\ Len(A) = Len(d)
    BY <1>1, <1>2
<1> HIDE DEF e, A, prev
<1>5. /\ Append(A, prev) = [k \in 1..Len(d) + 1 |-> Append(A, prev)[k]]
      /\ \A k \in 1..Len(d) : Append(A, prev)[k] = A[k]
      /\ Append(A, prev)[Len(d) + 1] = prev
    <2>1. PICK S : A \in Seq(S) /\ prev \in S
        BY <1>4
    <2> QED BY <1>4, <2>1, AppendedFunction
<1>6. ASSUME NEW k \in 1..Len(d)
      PROVE  PositionIn(e, PredecessorIn(ns, e[k])) = A[k] /\ k # Len(d) + 1
    <2>1. d[k] \in 1..Len(ms) /\ d[k] \in Range(d) /\ e[k] = d[k]
        BY <1>1
    <2>2. PredecessorIn(ns, d[k]) = PredecessorIn(ms, d[k])
        BY <2>1, SamePredecessor
    <2>3. PredecessorIn(ms, d[k]) \in Range(d) \cup {0}
        BY <2>1 DEF Behind
    <2>4. k # Len(d) + 1
        BY <1>1
    <2> QED BY <1>1, <1>2, <2>1, <2>2, <2>3, <2>4
<1>7. PositionIn(e, PredecessorIn(ns, e[Len(d) + 1])) = prev
    BY <1>1 DEF prev
<1>8. \A k \in 1..Len(d) + 1 : k \in 1..Len(d) \/ k = Len(d) + 1
    BY <1>1
<1>9. \A k \in 1..Len(d) + 1 :
         PositionIn(e, PredecessorIn(ns, e[k])) = Append(A, prev)[k]
    BY <1>5, <1>6, <1>7, <1>8
<1> QED BY <1>2, <1>5, <1>9 DEF e, A, prev

LEMMA TakenAppended ==
    ASSUME NEW d \in Seq(Nat), NEW i \in Nat, NEW g, i \notin Range(g)
    PROVE  TakenIn(Append(d, i), g) = TakenIn(d, g)
<1>1. /\ Len(d) \in Nat /\ Len(Append(d, i)) = Len(d) + 1
      /\ Append(d, i)[Len(d) + 1] = i
      /\ \A k \in 1..Len(d) : Append(d, i)[k] = d[k]
    BY AppendProperties, LenProperties
<1>2. \A k \in 1..Len(d) + 1 : k \in 1..Len(d) \/ k = Len(d) + 1
    BY <1>1
<1>3. \A k \in 1..Len(d) : k \in 1..Len(d) + 1
    BY <1>1
<1> QED BY <1>1, <1>2, <1>3 DEF TakenIn

\* No two messages are ordered behind the same one.
Apart(ms) ==
    \A i, k \in 1..Len(ms) :
        PredecessorIn(ms, i) = PredecessorIn(ms, k) /\ PredecessorIn(ms, i) # 0
            => i = k

History(ms, d) ==
    /\ Known(ms) /\ Apart(ms) /\ Behind(ms, d)
    /\ d \in Seq(Nat) /\ IsInjective(d) /\ Range(d) \subseteq 1..Len(ms)

AllHistories == \A p \in Peer : History(msgs[p], dispatched[p])

LEMMA HistoryFact == Invariant /\ ChainsSound /\ Histories => AllHistories
<1> SUFFICES ASSUME Invariant, ChainsSound, Histories, NEW p \in Peer
             PROVE  History(msgs[p], dispatched[p])
    BY DEF AllHistories
<1>1. /\ Known(msgs[p]) /\ Behind(msgs[p], dispatched[p])
      /\ dispatched[p] \in Seq(Nat) /\ IsInjective(dispatched[p])
      /\ Range(dispatched[p]) \subseteq 1..Len(msgs[p])
    BY KnownFact, BehindFact, SoundParts
       DEF Histories, DispatchedOnce, Invariant, SenderInv, SenderTypes
<1>2. Apart(msgs[p])
    <2> SUFFICES ASSUME NEW i \in 1..Len(msgs[p]), NEW k \in 1..Len(msgs[p]),
                        PredecessorIn(msgs[p], i) = PredecessorIn(msgs[p], k),
                        PredecessorIn(msgs[p], i) # 0
                 PROVE  i = k
        BY DEF Apart
    <2>1. msgs[p][i].ord /\ msgs[p][k].ord
        BY DEF PredecessorIn
    <2>2. PICK j : j = PredecessorIn(msgs[p], i)
        OBVIOUS
    <2>3. /\ j \in 1..Len(msgs[p])
          /\ Follows(msgs[p], i, j) /\ Follows(msgs[p], k, j)
        BY <1>1, <2>1, <2>2, PredecessorFact
    <2> QED BY <2>3 DEF ChainsSound, ChainSound, Chain, OneFollows
<1> QED BY <1>1, <1>2 DEF History

LEMMA AfterLength ==
    ASSUME NEW ms, NEW d \in Seq(Nat)
    PROVE  Len(AfterIn(ms, d)) = Len(d) /\ Len(d) \in Nat
<1>1. Len(d) \in Nat
    BY LenProperties
<1>2. AfterIn(ms, d) \in Seq({PositionIn(d, PredecessorIn(ms, d[k])) : k \in 1..Len(d)})
    BY <1>1 DEF AfterIn
<1>3. DOMAIN AfterIn(ms, d) = 1..Len(d)
    BY DEF AfterIn
<1> QED BY <1>1, <1>2, <1>3, LenProperties

-----------------------------------------------------------------------------
(***************************************************************************)
(* The steps of VimChains, for one peer: after becomes after2, ...         *)
(***************************************************************************)
Sends(after, taken, after2, taken2) ==
    \E prev \in 0..Len(after) :
        /\ prev # 0 => \A k \in 1..Len(after) : after[k] # prev
        /\ after2 = Append(after, prev) /\ taken2 = taken

Takes(after, taken, after2, taken2) ==
    \E k \in 1..Len(after) :
        /\ k \notin taken /\ after[k] \in taken \cup {0}
        /\ after2 = after /\ taken2 = taken \cup {k}

Stays(after, taken, after2, taken2) == after2 = after /\ taken2 = taken

\* A message is dispatched.
LEMMA SendingSends ==
    ASSUME NEW ms, NEW ns, LinksFrom(ms, ns), NEW d, History(ms, d),
           NEW i \in Nat, History(ns, Append(d, i)), PredecessorIn(ns, i) # i,
           NEW g, i \notin Range(g)
    PROVE  Sends(AfterIn(ms, d), TakenIn(d, g),
                 AfterIn(ns, Append(d, i)), TakenIn(Append(d, i), g))
<1>1. /\ Known(ms) /\ Known(ns) /\ Apart(ns) /\ Behind(ms, d) /\ d \in Seq(Nat)
      /\ IsInjective(d) /\ Range(d) \subseteq 1..Len(ms)
      /\ Behind(ns, Append(d, i)) /\ IsInjective(Append(d, i))
      /\ Range(Append(d, i)) \subseteq 1..Len(ns)
    BY DEF History
<1>2. /\ Len(d) \in Nat /\ Len(Append(d, i)) = Len(d) + 1
      /\ Range(Append(d, i)) = Range(d) \cup {i}
      /\ Append(d, i) \in Seq(Nat) /\ Append(d, i)[Len(d) + 1] = i
      /\ \A k \in 1..Len(d) : Append(d, i)[k] = d[k] /\ d[k] \in Range(d)
      /\ \A x \in Range(d) : \E k \in 1..Len(d) : d[k] = x
    BY <1>1, AppendProperties, LenProperties, AppendFact, RangeFact
<1>3. i \notin Range(d)
    BY <1>1, NewInInjective
<1>4. PICK j : j = PredecessorIn(ns, i)
    OBVIOUS
<1>5. j \in Range(d) \cup {0}
    BY <1>1, <1>2, <1>4 DEF Behind
<1>6. PICK prev : prev = PositionIn(d, j)
    OBVIOUS
<1>7. AfterIn(ns, Append(d, i)) = Append(AfterIn(ms, d), prev)
    BY <1>1, <1>3, <1>4, <1>5, <1>6, AfterAppended
<1>8. TakenIn(Append(d, i), g) = TakenIn(d, g)
    BY <1>1, TakenAppended
<1>9. Len(AfterIn(ms, d)) = Len(d)
    BY <1>1, AfterLength
<1>10. CASE j = 0
    <2>1. prev = 0 /\ prev \in 0..Len(d)
        BY <1>2, <1>6, <1>10 DEF PositionIn
    <2> QED BY <1>7, <1>8, <1>9, <2>1 DEF Sends
<1>11. CASE j # 0
    <2>1. prev \in 1..Len(d) /\ d[prev] = j
        BY <1>1, <1>5, <1>6, <1>11, PositionFact
    <2>2. ASSUME NEW k \in 1..Len(d), AfterIn(ms, d)[k] = prev
          PROVE  FALSE
        <3>1. d[k] \in Range(d) /\ d[k] \in 1..Len(ms)
            BY <1>1, <1>2
        <3>2. PICK x : x = PredecessorIn(ms, d[k])
            OBVIOUS
        <3>3. PositionIn(d, x) = prev
            BY <2>2, <3>2 DEF AfterIn
        <3>4. prev # 0
            BY <1>2, <2>1
        <3>5. x # 0 /\ x \in Range(d)
            BY <1>1, <3>1, <3>2, <3>3, <3>4 DEF Behind, PositionIn
        <3>6. x = j
            BY <1>1, <2>1, <3>3, <3>5, PositionFact
        <3>7. PredecessorIn(ns, d[k]) = j
            BY <1>1, <3>1, <3>2, <3>6, SamePredecessor
        <3>8. d[k] = i
            BY <1>1, <1>2, <1>4, <1>11, <3>1, <3>7 DEF Apart
        <3> QED BY <1>3, <3>1, <3>8
    <2>3. prev \in 0..Len(d)
        BY <1>2, <2>1
    <2> QED BY <1>7, <1>8, <1>9, <2>2, <2>3 DEF Sends
<1> QED BY <1>10, <1>11

\* A dispatched message is given to the call-back of the other peer.
LEMMA DeliveryTakes ==
    ASSUME NEW ms, NEW ns, LinksFrom(ms, ns), NEW d, History(ms, d), History(ns, d),
           NEW g \in Seq(Nat), NEW i \in Range(d) \ Range(g),
           PredecessorIn(ms, i) \in Range(g) \cup {0}
    PROVE  Takes(AfterIn(ms, d), TakenIn(d, g),
                 AfterIn(ns, d), TakenIn(d, Append(g, i)))
<1>1. /\ Known(ms) /\ Known(ns) /\ Behind(ms, d) /\ d \in Seq(Nat) /\ i \in Nat
      /\ IsInjective(d) /\ Range(d) \subseteq 1..Len(ms)
    BY RangeFact DEF History
<1>2. AfterIn(ns, d) = AfterIn(ms, d) /\ Len(AfterIn(ms, d)) = Len(d)
    BY <1>1, AfterSame, AfterLength
<1>3. Range(Append(g, i)) = Range(g) \cup {i}
    BY <1>1, AppendFact
<1>4. i # 0
    BY <1>1
<1>5. PICK k \in 1..Len(d) : d[k] = i /\ \A l \in 1..Len(d) : d[l] = i => l = k
    <2>1. /\ PositionIn(d, i) \in 1..Len(d) /\ d[PositionIn(d, i)] = i
          /\ \A l \in 1..Len(d) : d[l] = i => l = PositionIn(d, i)
        BY <1>1, <1>4, PositionFact
    <2> QED BY <2>1
<1>6. TakenIn(d, Append(g, i)) = TakenIn(d, g) \cup {k} /\ k \notin TakenIn(d, g)
    BY <1>3, <1>5 DEF TakenIn
<1>7. PICK j : j = PredecessorIn(ms, i)
    OBVIOUS
<1>8. AfterIn(ms, d)[k] = PositionIn(d, j)
    BY <1>5, <1>7 DEF AfterIn
<1>9. AfterIn(ms, d)[k] \in TakenIn(d, g) \cup {0}
    <2>1. CASE j = 0
        BY <1>8, <2>1 DEF PositionIn
    <2>2. CASE j # 0
        <3>1. j \in Range(d) /\ j \in Range(g)
            BY <1>1, <1>7, <2>2 DEF Behind
        <3>2. PositionIn(d, j) \in 1..Len(d) /\ d[PositionIn(d, j)] = j
            BY <1>1, <2>2, <3>1, PositionFact
        <3> QED BY <1>8, <3>1, <3>2 DEF TakenIn
    <2> QED BY <2>1, <2>2
<1> QED BY <1>2, <1>5, <1>6, <1>9 DEF Takes

\* Neither: what is given to the call-back, if anything, is not guaranteed.
LEMMA OtherStays ==
    ASSUME NEW ms, NEW ns, LinksFrom(ms, ns), NEW d, History(ms, d), History(ns, d),
           NEW g \in Seq(Nat), NEW h,
           h = g \/ \E i \in Nat \ Range(d) : h = Append(g, i)
    PROVE  Stays(AfterIn(ms, d), TakenIn(d, g), AfterIn(ns, d), TakenIn(d, h))
<1>1. /\ Known(ms) /\ Known(ns) /\ d \in Seq(Nat) /\ Range(d) \subseteq 1..Len(ms)
      /\ \A k \in 1..Len(d) : d[k] \in Range(d)
    BY RangeFact DEF History
<1>2. AfterIn(ns, d) = AfterIn(ms, d)
    BY <1>1, AfterSame
<1>3. TakenIn(d, h) = TakenIn(d, g)
    <2>1. CASE h = g
        BY <2>1
    <2>2. ASSUME NEW i \in Nat \ Range(d), h = Append(g, i)
          PROVE  TakenIn(d, h) = TakenIn(d, g)
        <3>1. Range(h) = Range(g) \cup {i}
            BY <2>2, AppendFact
        <3> QED BY <1>1, <3>1 DEF TakenIn
    <2> QED BY <2>1, <2>2
<1> QED BY <1>2, <1>3 DEF Stays

-----------------------------------------------------------------------------
(***************************************************************************)
(* The steps of the channel, as steps of VimChains.                        *)
(***************************************************************************)
AfterOf(q) == AfterIn(msgs[q], dispatched[q])
TakenOf(q) == TakenIn(dispatched[q], delivered[Other(q)])

\* Nothing is dispatched or given to the call-back; ...
KeepsAt(q) ==
    dispatched'[q] = dispatched[q] /\ delivered'[Other(q)] = delivered[Other(q)]

\* ... something else than a VIM is given to it; ...
GivesAt(q) ==
    /\ dispatched'[q] = dispatched[q]
    /\ \E i \in Nat \ (Range(dispatched[q]) \cup Range(delivered[Other(q)])) :
          delivered'[Other(q)] = Append(delivered[Other(q)], i)

\* ... a VIM is dispatched; ...
SendsAt(q) ==
    /\ delivered'[Other(q)] = delivered[Other(q)]
    /\ \E i \in Nat \ Range(delivered[Other(q)]) :
          /\ dispatched'[q] = Append(dispatched[q], i)
          /\ PredecessorIn(msgs'[q], i) # i

\* ... or one is given to the call-back, which had its predecessor before.
TakesAt(q) ==
    /\ dispatched'[q] = dispatched[q]
    /\ \E i \in Range(dispatched[q]) \ Range(delivered[Other(q)]) :
          /\ delivered'[Other(q)] = Append(delivered[Other(q)], i)
          /\ PredecessorIn(msgs[q], i) \in Range(delivered[Other(q)]) \cup {0}

ChannelStep ==
    \/ \A q \in Peer : KeepsAt(q)
    \/ \E p \in Peer : /\ SendsAt(p) \/ TakesAt(p) \/ GivesAt(p)
                       /\ \A q \in Peer \ {p} : KeepsAt(q)

Everything ==
    /\ Invariant /\ MasksTrue /\ EachOnce /\ RealVims /\ AcksTrue /\ VimsHeld
    /\ ChainsSound /\ Histories

LEMMA EverythingStep ==
    ASSUME MasksSuffice, Everything, [Next]_vars
    PROVE  Everything' /\ LinksStep /\ AllHistories /\ AllHistories'
<1>1. /\ Invariant' /\ MasksTrue' /\ EachOnce' /\ RealVims' /\ AcksTrue'
      /\ VimsHeld' /\ ChainsSound' /\ Histories'
    BY NextStep, MasksTrueStep, EachOnceStep, RealVimsStep, AcksTrueStep,
       VimsHeldStep, ChainsStep, HistoriesStep
       DEF Everything, InvStep, SoundStep, Invariant
<1>2. Everything'
    BY <1>1 DEF Everything
<1>3. Everything => AllHistories
    BY HistoryFact DEF Everything
<1>4. Everything' => AllHistories'
    BY HistoryFact, PTL DEF Everything
<1>5. LinksStep
    BY LinksHold DEF Everything
<1> QED BY <1>2, <1>3, <1>4, <1>5

\* What is given to the call-back has been sent.
LEMMA DeliveredWasSent ==
    ASSUME NEW p \in Peer, Everything, NEW i \in Range(delivered[Other(p)])
    PROVE  i \in 1..Len(msgs[p]) /\ msgs[p][i].serial # 0
<1>1. Other(p) \in Peer /\ Other(Other(p)) = p
    BY OtherFact
<1>2. PICK a \in Incoming(Other(p)) : a.id = i
    BY <1>1 DEF Everything, EachOnce, ReceivedOnce
<1>3. a \in net /\ a.src = p
    BY <1>1, <1>2 DEF Incoming
<1>4. PacketSound(a) /\ a.serial # 0
    BY <1>3, PacketFact DEF Everything, Invariant, PacketsSound, ReceiverInv
<1> QED BY <1>2, <1>3, <1>4 DEF PacketSound

LEMMA StaysFact ==
    ASSUME LinksStep, AllHistories, AllHistories', Invariant, NEW q \in Peer,
           KeepsAt(q) \/ GivesAt(q)
    PROVE  Stays(AfterOf(q), TakenOf(q), AfterOf(q)', TakenOf(q)')
<1>1. /\ LinksFrom(msgs[q], msgs'[q]) /\ History(msgs[q], dispatched[q])
      /\ History(msgs'[q], dispatched[q])
    BY DEF LinksStep, AllHistories, KeepsAt, GivesAt
<1>2. delivered[Other(q)] \in Seq(Nat)
    BY OtherFact DEF Invariant, ReceiverInv, ReceiverTypes
<1>3. Stays(AfterIn(msgs[q], dispatched[q]),
            TakenIn(dispatched[q], delivered[Other(q)]),
            AfterIn(msgs'[q], dispatched[q]),
            TakenIn(dispatched[q], delivered'[Other(q)]))
    <2>1. \/ delivered'[Other(q)] = delivered[Other(q)]
          \/ \E i \in Nat \ Range(dispatched[q]) :
                delivered'[Other(q)] = Append(delivered[Other(q)], i)
        BY DEF KeepsAt, GivesAt
    <2> QED BY <1>1, <1>2, <2>1, OtherStays
<1> QED BY <1>3 DEF KeepsAt, GivesAt, AfterOf, TakenOf

LEMMA SendsFact ==
    ASSUME LinksStep, AllHistories, AllHistories', NEW p \in Peer, SendsAt(p)
    PROVE  Sends(AfterOf(p), TakenOf(p), AfterOf(p)', TakenOf(p)')
<1>1. PICK i \in Nat \ Range(delivered[Other(p)]) :
         /\ dispatched'[p] = Append(dispatched[p], i)
         /\ PredecessorIn(msgs'[p], i) # i
    BY DEF SendsAt
<1>2. /\ LinksFrom(msgs[p], msgs'[p]) /\ History(msgs[p], dispatched[p])
      /\ History(msgs'[p], Append(dispatched[p], i))
    BY <1>1 DEF LinksStep, AllHistories
<1>3. Sends(AfterIn(msgs[p], dispatched[p]),
            TakenIn(dispatched[p], delivered[Other(p)]),
            AfterIn(msgs'[p], Append(dispatched[p], i)),
            TakenIn(Append(dispatched[p], i), delivered[Other(p)]))
    BY <1>1, <1>2, SendingSends
<1> QED BY <1>1, <1>3 DEF SendsAt, AfterOf, TakenOf

LEMMA TakesFact ==
    ASSUME LinksStep, AllHistories, AllHistories', Invariant, NEW p \in Peer, TakesAt(p)
    PROVE  Takes(AfterOf(p), TakenOf(p), AfterOf(p)', TakenOf(p)')
<1>1. PICK i \in Range(dispatched[p]) \ Range(delivered[Other(p)]) :
         /\ delivered'[Other(p)] = Append(delivered[Other(p)], i)
         /\ PredecessorIn(msgs[p], i) \in Range(delivered[Other(p)]) \cup {0}
    BY DEF TakesAt
<1>2. /\ LinksFrom(msgs[p], msgs'[p]) /\ History(msgs[p], dispatched[p])
      /\ History(msgs'[p], dispatched[p])
    BY DEF LinksStep, AllHistories, TakesAt
<1>3. delivered[Other(p)] \in Seq(Nat)
    BY OtherFact DEF Invariant, ReceiverInv, ReceiverTypes
<1>4. Takes(AfterIn(msgs[p], dispatched[p]),
            TakenIn(dispatched[p], delivered[Other(p)]),
            AfterIn(msgs'[p], dispatched[p]),
            TakenIn(dispatched[p], Append(delivered[Other(p)], i)))
    BY <1>1, <1>2, <1>3, DeliveryTakes
<1> QED BY <1>1, <1>4 DEF TakesAt, AfterOf, TakenOf

\* dispatchMessage appends a VIM to the history.
LEMMA RememberSends ==
    ASSUME Invariant, NEW p \in Peer,
           NEW i \in Nat, NEW m \in NetMessage, RememberLast(p, i, m),
           delivered' = delivered, i \notin Range(delivered[Other(p)]),
           PredecessorIn(msgs'[p], i) # i
    PROVE  ChannelStep
<1>1. dispatched \in [Peer -> Seq(Nat)]
    BY DEF Invariant, SenderInv, SenderTypes
<1>2. \A q \in Peer \ {p} : KeepsAt(q)
    <2>1. \A q \in Peer \ {p} : dispatched'[q] = dispatched[q]
        BY <1>1 DEF RememberLast
    <2> QED BY <2>1 DEF KeepsAt
<1>3. CASE m.vim
    <2>1. dispatched'[p] = Append(dispatched[p], i)
        BY <1>1, <1>3 DEF RememberLast
    <2>2. SendsAt(p)
        BY <2>1 DEF SendsAt
    <2> QED BY <1>2, <2>2 DEF ChannelStep
<1>4. CASE ~m.vim
    <2>1. dispatched'[p] = dispatched[p]
        BY <1>4 DEF RememberLast
    <2>2. KeepsAt(p)
        BY <2>1 DEF KeepsAt
    <2> QED BY <1>2, <2>2 DEF ChannelStep
<1> QED BY <1>3, <1>4

LEMMA DispatchSends ==
    ASSUME Everything, AllHistories, NEW p \in Peer, Dispatch(p)
    PROVE  ChannelStep
<1>1. /\ RememberLast(p, draft[p], msgs[p][draft[p]]) /\ draft[p] # 0
      /\ msgs' = msgs /\ delivered' = delivered
    BY DEF Dispatch
<1>2. /\ draft[p] \in 1..Len(msgs[p]) /\ msgs[p] \in Seq(NetMessage)
      /\ msgs[p][draft[p]].serial = 0
    BY <1>1, ChainFacts DEF Everything, Refers
<1>3. /\ msgs[p][draft[p]] \in NetMessage /\ draft[p] \in Nat
    BY <1>2, LenProperties
<1>4. draft[p] \notin Range(delivered[Other(p)])
    BY <1>2, DeliveredWasSent
<1>5. PredecessorIn(msgs[p], draft[p]) # draft[p]
    <2>1. CASE ~msgs[p][draft[p]].ord
        BY <1>1, <2>1 DEF PredecessorIn
    <2>2. CASE msgs[p][draft[p]].ord
        <3>1. Known(msgs[p])
            BY DEF AllHistories, History
        <3>2. Follows(msgs[p], draft[p], PredecessorIn(msgs[p], draft[p]))
            BY <1>2, <2>2, <3>1, PredecessorFact
        <3>3. ~Follows(msgs[p], draft[p], draft[p])
            BY <1>1, <1>2 DEF Everything, ChainsSound, ChainSound, Chain, OneFollows
        <3> QED BY <3>2, <3>3
    <2> QED BY <2>1, <2>2
<1>6. Invariant /\ msgs'[p] = msgs[p]
    BY <1>1 DEF Everything
<1> QED BY <1>1, <1>3, <1>4, <1>5, <1>6, RememberSends

LEMMA DispatchPlainSends ==
    ASSUME Everything, NEW p \in Peer, NEW kind \in AllKinds, DispatchPlain(p, kind)
    PROVE  ChannelStep
<1>1. PICK m, i : m = Flagged(kind) /\ i = Len(msgs[p]) + 1
    OBVIOUS
<1>2. /\ m \in NetMessage /\ ~m.ord
      /\ msgs \in [Peer -> Seq(NetMessage)] /\ Len(msgs[p]) \in Nat
    BY <1>1, FlaggedFact, LenProperties
       DEF Flagged, Blank, Everything, Invariant, SenderInv, SenderTypes
<1>3. /\ RememberLast(p, i, m) /\ delivered' = delivered
      /\ msgs' = [msgs EXCEPT ![p] = Append(@, m)]
    BY <1>1 DEF DispatchPlain
<1>4. msgs'[p][i] = m /\ i \in Nat /\ i # 0 /\ i \notin 1..Len(msgs[p])
    BY <1>1, <1>2, <1>3, AppendProperties
<1>5. i \notin Range(delivered[Other(p)])
    BY <1>4, DeliveredWasSent
<1>6. PredecessorIn(msgs'[p], i) # i
    BY <1>2, <1>4 DEF PredecessorIn
<1>7. Invariant
    BY DEF Everything
<1> QED BY <1>2, <1>3, <1>4, <1>5, <1>6, <1>7, RememberSends

\* processVIM gives the call-back a VIM whose predecessor it was given before.
LEMMA ProcessTakes ==
    ASSUME Everything, Everything', AllHistories, NEW r \in Peer, ProcessVIM(r)
    PROVE  ChannelStep
<1>1. PICK m \in working[r] :
         delivered'[r] = IF registered[r] THEN Append(delivered[r], m.id)
                                          ELSE delivered[r]
    BY ProcessEffect DEF Everything, EachOnce
<1>2. /\ dispatched' = dispatched /\ msgs' = msgs
      /\ \A q \in Peer \ {r} : delivered'[q] = delivered[q]
    <2>1. \A q \in Peer \ {r} : SameWindows(q)
        BY ProcessEffect DEF Everything, EachOnce
    <2> QED BY <2>1 DEF ProcessVIM, sendVars, SameWindows
<1>3. PICK p \in Peer : p = Other(r) /\ Other(p) = r
    BY OtherFact
<1>4. \A q \in Peer \ {p} : Other(q) # r /\ Other(q) \in Peer
    BY <1>3, OtherFact
<1>5. \A q \in Peer \ {p} : KeepsAt(q)
    BY <1>2, <1>4 DEF KeepsAt
<1>6. CASE ~registered[r]
    <2>1. KeepsAt(p)
        BY <1>1, <1>2, <1>3, <1>6 DEF KeepsAt
    <2> QED BY <1>5, <2>1 DEF ChannelStep
<1>7. CASE registered[r]
    <2>1. /\ m \in net /\ m.src = p /\ m \in Incoming(r) /\ m.vim
          /\ PacketSound(m) /\ m.serial # 0
        <3>1. m \in net /\ m.src = p
            BY <1>3, ReceiverParts DEF Everything, Invariant
        <3>2. m.vim /\ m \in Held(r)
            BY DEF Held, Everything, EachOnce, ReceivedOnce
        <3>3. PacketSound(m) /\ m.serial # 0
            BY <3>1, PacketFact DEF Everything, Invariant, PacketsSound, ReceiverInv
        <3> QED BY <1>3, <3>1, <3>2, <3>3 DEF Incoming
    <2> DEFINE ms == msgs[p]
    <2>2. /\ m.id \in 1..Len(ms) /\ ms[m.id].serial = m.serial /\ ms[m.id].vim
          /\ m.pred = (IF ms[m.id].ord THEN ms[m.id].ctl2 ELSE 0)
          /\ ms[m.id].ord => ms[m.id].pred = 0
        BY <2>1 DEF PacketSound
    <2>3. m.id \in Range(dispatched[p])
        <3>1. m.id # draft[p]
            BY <2>1, <2>2, ChainFacts DEF Everything
        <3> QED BY <2>2, <3>1 DEF Everything, Histories, DispatchedOnce
    <2>4. m.id \notin Range(delivered[r])
        <3>1. ReceiverInv /\ delivered[r] \in Seq(Nat)
            BY DEF Everything, Invariant, ReceiverInv, ReceiverTypes
        <3>2. m.id \in Nat
            <4>1. m.id \in 1..MaxMsgs[m.src]
                BY <2>1, <3>1, PacketFact DEF ReceiverInv
            <4> QED BY <4>1
        <3>3. IsInjective(delivered'[r])
            BY DEF Everything, EachOnce, ReceivedOnce
        <3>4. IsInjective(Append(delivered[r], m.id))
            BY <1>1, <1>7, <3>3
        <3> QED BY <3>1, <3>2, <3>4, NewInInjective
    <2>5. PredecessorIn(ms, m.id) \in Range(delivered[r]) \cup {0}
        <3>1. CASE ~ms[m.id].ord
            BY <3>1 DEF PredecessorIn
        <3>2. CASE ms[m.id].ord
            <4>1. m.pred # 0 /\ m.pred = ms[m.id].ctl2 /\ ms[m.id].pred = 0
                BY <2>2, <3>2 DEF AllHistories, History, Known
            <4>2. m.pred \in procMask[r] /\ m.pred \in ackMask[r]
                BY <4>1 DEF Everything, VimsHeld, HeldUntilProcessed, EachOnce,
                            ReceivedOnce
            <4>3. PICK a \in Incoming(r) : a.serial = m.pred
                BY <4>2 DEF Everything, MasksTrue, MaskTrue
            <4>4. a \in net /\ a.src = p /\ PacketSound(a)
                BY <1>3 DEF Incoming, Everything, Invariant, PacketsSound
            <4>5. /\ a.id \in 1..Len(ms) /\ ms[a.id].serial = ms[m.id].ctl2
                  /\ ms[a.id].vim = a.vim
                BY <4>1, <4>3, <4>4 DEF PacketSound
            <4>6. Follows(ms, m.id, a.id)
                BY <3>2, <4>1, <4>5 DEF Follows
            <4>7. a.vim
                BY <2>2, <4>5, <4>6
                   DEF Everything, ChainsSound, ChainSound, Chain, OneFollows
            <4>8. a.id \in Range(delivered[r])
                BY <1>7, <4>2, <4>3, <4>7 DEF Everything, VimsHeld, HeldUntilProcessed
            <4>9. Known(ms)
                BY DEF AllHistories, History
            <4>10. PredecessorIn(ms, m.id) = a.id
                BY <2>2, <3>2, <4>5, <4>6, <4>9, PredecessorFact
            <4> QED BY <4>8, <4>10
        <3> QED BY <3>1, <3>2
    <2>6. TakesAt(p)
        <3>1. Invariant /\ dispatched'[p] = dispatched[p]
              /\ delivered'[Other(p)] = Append(delivered[Other(p)], m.id)
            BY <1>1, <1>2, <1>3, <1>7 DEF Everything
        <3> QED BY <1>3, <2>3, <2>4, <2>5, <3>1 DEF TakesAt
    <2> QED BY <1>5, <2>6 DEF ChannelStep
<1> QED BY <1>6, <1>7

\* processData gives the call-back at once only what is not guaranteed.
LEMMA ReceiveStays ==
    ASSUME MasksSuffice, Everything, Everything',
           NEW r \in Peer, NEW pkt \in net, pkt.src # r, ReceiveNew(r, pkt)
    PROVE  ChannelStep
<1>1. /\ dispatched' = dispatched
      /\ \A q \in Peer \ {r} : delivered'[q] = delivered[q]
    <2>1. \A q \in Peer \ {r} : SameWindows(q)
        BY NewAckMask DEF Everything
    <2> QED BY <2>1 DEF ReceiveNew, SameWindows
<1>2. PICK p \in Peer : p = Other(r) /\ Other(p) = r
    BY OtherFact
<1>3. \A q \in Peer \ {p} : Other(q) # r /\ Other(q) \in Peer
    BY <1>2, OtherFact
<1>4. \A q \in Peer \ {p} : KeepsAt(q)
    BY <1>1, <1>3 DEF KeepsAt
<1>5. \/ delivered'[r] = delivered[r]
      \/ ~pkt.vim /\ delivered'[r] = Append(delivered[r], pkt.id)
    BY NewEffect DEF Everything, EachOnce
<1>6. ~pkt.vim => pkt.id \in Nat \ Range(dispatched[p])
    <2>1. pkt.src = p /\ pkt.id \in 1..MaxMsgs[pkt.src] /\ PacketSound(pkt)
        BY <1>2, PacketFact DEF Everything, Invariant, PacketsSound, ReceiverInv
    <2>2. pkt.id \in 1..Len(msgs[p]) /\ msgs[p][pkt.id].vim = pkt.vim
        BY <2>1 DEF PacketSound
    <2>3. pkt.id \in Nat
        BY <2>1
    <2> QED BY <2>2, <2>3 DEF Everything, Histories, DispatchedOnce
<1>7. ASSUME ~pkt.vim, delivered'[r] = Append(delivered[r], pkt.id)
      PROVE  pkt.id \notin Range(delivered[r])
    <2>1. delivered[r] \in Seq(Nat)
        BY DEF Everything, Invariant, ReceiverInv, ReceiverTypes
    <2>2. IsInjective(delivered'[r])
        BY DEF Everything, EachOnce, ReceivedOnce
    <2> QED BY <1>6, <1>7, <2>1, <2>2, NewInInjective
<1>8. \/ delivered'[Other(p)] = delivered[Other(p)]
      \/ \E i \in Nat \ (Range(dispatched[p]) \cup Range(delivered[Other(p)])) :
            delivered'[Other(p)] = Append(delivered[Other(p)], i)
    BY <1>2, <1>5, <1>6, <1>7
<1>9. KeepsAt(p) \/ GivesAt(p)
    BY <1>1, <1>8 DEF KeepsAt, GivesAt
<1> QED BY <1>4, <1>9 DEF ChannelStep

LEMMA EachStep ==
    ASSUME MasksSuffice, Everything, [Next]_vars
    PROVE  ChannelStep
<1>1. Everything' /\ LinksStep /\ AllHistories /\ AllHistories'
    BY EverythingStep
<1>2. ASSUME UNCHANGED histVars
      PROVE  ChannelStep
    BY <1>2 DEF histVars, ChannelStep, KeepsAt
<1>3. ASSUME NEW p \in Peer, NEW kind \in AllKinds, Compose(p, kind)
      PROVE  ChannelStep
    BY <1>2, <1>3 DEF Compose
<1>4. ASSUME NEW p \in Peer, NEW kind \in AllKinds, DispatchPlain(p, kind)
      PROVE  ChannelStep
    BY <1>1, <1>4, DispatchPlainSends
<1>5. ASSUME NEW p \in Peer, Dispatch(p)
      PROVE  ChannelStep
    BY <1>1, <1>5, DispatchSends
<1>6. ASSUME NEW p \in Peer,
             CancelAllMessages(p) \/ Close(p) \/ Unregister(p) \/ CheckConnectivity(p)
      PROVE  ChannelStep
    BY <1>2, <1>6
       DEF CancelAllMessages, Close, CancelQueues, Unregister, CheckConnectivity
<1>7. ASSUME NEW p \in Peer, Transmit(p) \/ PostSend(p) \/ DropObsolete(p)
      PROVE  ChannelStep
    BY <1>2, <1>7 DEF Transmit, PostSend, DropObsolete
<1>8. ASSUME NEW p \in Peer, NEW i \in revisited[p], Resend(p, i) \/ Discard(p, i)
      PROVE  ChannelStep
    BY <1>2, <1>8 DEF Resend, Discard
<1>9. ASSUME NEW p \in Peer, NEW pkt \in net, Receive(p, pkt)
      PROVE  ChannelStep
    <2>1. CASE ReceiveAgain(p, pkt)
        BY <1>2, <2>1 DEF ReceiveAgain
    <2>2. CASE ReceiveNew(p, pkt)
        BY <1>1, <1>9, <2>2, ReceiveStays DEF Receive
    <2> QED BY <1>9, <2>1, <2>2 DEF Receive
<1>10. ASSUME NEW p \in Peer, ProcessVIM(p)
       PROVE  ChannelStep
    BY <1>1, <1>10, ProcessTakes
<1>11. CASE UNCHANGED vars
    BY <1>2, <1>11 DEF vars, histVars
<1> QED BY <1>3, <1>4, <1>5, <1>6, <1>7, <1>8, <1>9, <1>10, <1>11
       DEF Next, UserStep, SenderStep, ListenerStep

\* The abstract state, as NetChannel reads it off its own.
After == [p \in Peer |->
             [k \in 1..Len(dispatched[p]) |->
                 Position(p, Predecessor(p, dispatched[p][k]))]]
Taken == [p \in Peer |->
             {k \in 1..Len(dispatched[p]) :
                 dispatched[p][k] \in Range(delivered[Other(p)])}]

LEMMA AbstractState ==
    /\ After = [p \in Peer |-> AfterOf(p)]
    /\ Taken = [p \in Peer |-> TakenOf(p)]
BY DEF After, Taken, AfterOf, TakenOf, AfterIn, TakenIn, Position, Predecessor,
       PositionIn, PredecessorIn

Moves(after, taken, after2, taken2) ==
    \/ after2 = after /\ taken2 = taken
    \/ \E p \in Peer : \E prev \in 0..Len(after[p]) :
          /\ prev # 0 => \A k \in 1..Len(after[p]) : after[p][k] # prev
          /\ after2 = [after EXCEPT ![p] = Append(@, prev)]
          /\ taken2 = taken
    \/ \E p \in Peer : \E k \in 1..Len(after[p]) :
          /\ k \notin taken[p] /\ after[p][k] \in taken[p] \cup {0}
          /\ taken2 = [taken EXCEPT ![p] = @ \cup {k}]
          /\ after2 = after

LEMMA AbstractNext ==
    ASSUME ChannelStep, LinksStep, AllHistories, AllHistories', Invariant,
           NEW after, NEW taken, NEW after2, NEW taken2,
           after = [p \in Peer |-> AfterOf(p)], taken = [p \in Peer |-> TakenOf(p)],
           after2 = [p \in Peer |-> AfterOf(p)'],
           taken2 = [p \in Peer |-> TakenOf(p)']
    PROVE  Moves(after, taken, after2, taken2)
<1>1. ASSUME \A q \in Peer : KeepsAt(q) \/ GivesAt(q)
      PROVE  after2 = after /\ taken2 = taken
    BY <1>1, StaysFact DEF Stays
<1>2. ASSUME NEW p \in Peer, \A q \in Peer \ {p} : KeepsAt(q), SendsAt(p)
      PROVE  \E prev \in 0..Len(after[p]) :
                /\ prev # 0 => \A k \in 1..Len(after[p]) : after[p][k] # prev
                /\ after2 = [after EXCEPT ![p] = Append(@, prev)]
                /\ taken2 = taken
    BY <1>2, SendsFact, StaysFact DEF Sends, Stays
<1>3. ASSUME NEW p \in Peer, \A q \in Peer \ {p} : KeepsAt(q), TakesAt(p)
      PROVE  \E k \in 1..Len(after[p]) :
                /\ k \notin taken[p] /\ after[p][k] \in taken[p] \cup {0}
                /\ taken2 = [taken EXCEPT ![p] = @ \cup {k}]
                /\ after2 = after
    BY <1>3, TakesFact, StaysFact DEF Takes, Stays
<1>4. \/ after2 = after /\ taken2 = taken
      \/ \E p \in Peer : /\ \A q \in Peer \ {p} : KeepsAt(q)
                         /\ SendsAt(p) \/ TakesAt(p)
    <2>1. ASSUME NEW p \in Peer, GivesAt(p), \A q \in Peer \ {p} : KeepsAt(q)
          PROVE  after2 = after /\ taken2 = taken
        BY <1>1, <2>1
    <2> QED BY <1>1, <2>1 DEF ChannelStep
<1>5. ASSUME NEW p \in Peer, \A q \in Peer \ {p} : KeepsAt(q), SendsAt(p)
      PROVE  Moves(after, taken, after2, taken2)
    BY <1>2, <1>5, Zenon DEF Moves
<1>6. ASSUME NEW p \in Peer, \A q \in Peer \ {p} : KeepsAt(q), TakesAt(p)
      PROVE  Moves(after, taken, after2, taken2)
    BY <1>3, <1>6, Zenon DEF Moves
<1>7. after2 = after /\ taken2 = taken => Moves(after, taken, after2, taken2)
    BY Zenon DEF Moves
<1> QED BY <1>4, <1>5, <1>6, <1>7

LEMMA ChainsInitially ==
    ASSUME Init
    PROVE  Chains!ChainInit
<1>1. ASSUME NEW p \in Peer
      PROVE  AfterOf(p) = <<>> /\ TakenOf(p) = {}
    <2>1. dispatched[p] = <<>> /\ <<>> \in Seq(Nat) /\ Len(<<>>) = 0
        BY EmptyFact DEF Init
    <2>2. 1..Len(<<>>) = {}
        BY <2>1
    <2>3. AfterIn(msgs[p], <<>>) \in Seq({}) /\ Len(AfterIn(msgs[p], <<>>)) = 0
        <3>1. AfterIn(msgs[p], <<>>) \in [1..0 -> {}]
            BY <2>1, <2>2 DEF AfterIn
        <3> QED BY <2>1, <3>1, AfterLength
    <2>4. AfterOf(p) = <<>>
        BY <2>1, <2>3, EmptySeq DEF AfterOf
    <2> QED BY <2>1, <2>2, <2>4 DEF TakenOf, TakenIn
<1>2. /\ After = [p \in Peer |-> <<>>]
      /\ Taken = [p \in Peer |-> {}]
    BY <1>1, AbstractState
<1> QED BY <1>2, Zenon DEF Chains!ChainInit, After, Taken

LEMMA ChainsNext ==
    ASSUME ChannelStep, LinksStep, AllHistories, AllHistories', Invariant
    PROVE  [Chains!ChainNext]_Chains!chainVars
<1>1. /\ After = [p \in Peer |-> AfterOf(p)] /\ Taken = [p \in Peer |-> TakenOf(p)]
    BY AbstractState
<1>2. /\ After' = [p \in Peer |-> AfterOf(p)'] /\ Taken' = [p \in Peer |-> TakenOf(p)']
    BY DEF After, Taken, AfterOf, TakenOf, AfterIn, TakenIn, Position, Predecessor,
           PositionIn, PredecessorIn
<1>3. Moves(After, Taken, After', Taken')
    <2>1. PICK a, t, a2, t2 : a = After /\ t = Taken /\ a2 = After' /\ t2 = Taken'
        OBVIOUS
    <2>2. Moves(a, t, a2, t2)
        BY <1>1, <1>2, <2>1, AbstractNext
    <2> QED BY <2>1, <2>2
<1>4. CASE After' = After /\ Taken' = Taken
    BY <1>4, Zenon DEF Chains!chainVars, After, Taken
<1>5. ASSUME NEW p \in Peer, NEW prev \in 0..Len(After[p]),
             prev # 0 => \A k \in 1..Len(After[p]) : After[p][k] # prev,
             After' = [After EXCEPT ![p] = Append(@, prev)], Taken' = Taken
      PROVE  Chains!ChainNext
    BY <1>5, Zenon DEF Chains!ChainNext, Chains!Send, After, Taken
<1>6. ASSUME NEW p \in Peer, NEW k \in 1..Len(After[p]),
             k \notin Taken[p], After[p][k] \in Taken[p] \cup {0},
             Taken' = [Taken EXCEPT ![p] = @ \cup {k}], After' = After
      PROVE  Chains!ChainNext
    BY <1>6, Zenon DEF Chains!ChainNext, Chains!Take, Chains!Ready, After, Taken
<1> QED BY <1>3, <1>4, <1>5, <1>6 DEF Moves

LEMMA EverythingInit == Init => Everything
<1> SUFFICES ASSUME Init PROVE Everything
    OBVIOUS
<1>1. \A p \in Peer : /\ msgs[p] = <<>> /\ Len(msgs[p]) = 0 /\ 1..Len(msgs[p]) = {}
                      /\ ackMask[p] = {} /\ working[p] = {}
    BY EmptyFact DEF Init
<1>2. net = {}
    BY DEF Init
<1>3. MasksTrue /\ RealVims /\ AcksTrue /\ VimsHeld
    BY <1>1, <1>2 DEF MasksTrue, MaskTrue, RealVims, AcksTrue, AcksSound,
                      VimsHeld, HeldUntilProcessed
<1> QED BY <1>3, InitInvariant, EachOnceInit, ChainsInit, HistoriesInit
        DEF Everything

\* dispatchMessage and processVIM keep the chains: the channel gives each VIM
\* that was dispatched to the call-back once, after the one it is ordered
\* behind, and orders no two behind the same one, as long as the bit-masks hold
\* all serials.
THEOREM ChainsImplemented ==
    ASSUME MasksSuffice
    PROVE  Spec => ImplementsChains
<1>1. Init => Everything /\ Chains!ChainInit
    BY EverythingInit, ChainsInitially
<1>2. Everything /\ [Next]_vars => Everything' /\ [Chains!ChainNext]_Chains!chainVars
    BY EverythingStep, EachStep, ChainsNext DEF Everything
<1> QED BY <1>1, <1>2, PTL DEF Spec, ImplementsChains, Chains!ChainSpec

-----------------------------------------------------------------------------
(***************************************************************************)
(* The order of a class.  While handshakes come first and nothing is       *)
(* cancelled, each VIM is ordered behind the newest of its class.          *)
(***************************************************************************)

\* Of the first n of the history d, last is the newest of class urg; 0 if there
\* is none.
NewestIn(ms, d, n, urg, last) ==
    IF last = 0 THEN \A k \in 1..n : ms[d[k]].urg # urg
    ELSE \E k \in 1..n : /\ d[k] = last /\ ms[last].urg = urg
                         /\ \A l \in k+1..n : ms[d[l]].urg # urg

Gapless(ms, d) ==
    \A n \in 1..Len(d) :
        NewestIn(ms, d, n - 1, ms[d[n]].urg, PredecessorIn(ms, d[n]))

\* The last VIMs are the newest, and the draft is ordered behind one of them.
LastsNewest(ms, d, dr, last) ==
    /\ \A urg \in BOOLEAN : NewestIn(ms, d, Len(d), urg, last[urg])
    /\ dr # 0 => PredecessorIn(ms, dr) = last[ms[dr].urg]

Linear(p) ==
    /\ Gapless(msgs[p], dispatched[p])
    /\ opened[p] => LastsNewest(msgs[p], dispatched[p], draft[p], LastVIMs(p))

AllLinear == \A p \in Peer : Linear(p)

\* Whoever was the newest is, among the same messages.
LEMMA NewestKept ==
    ASSUME NEW ms, NEW ns, LinksFrom(ms, ns), NEW d, NEW e, NEW n \in Nat,
           \A k \in 1..n : e[k] = d[k] /\ d[k] \in 1..Len(ms),
           NEW urg, NEW last, NewestIn(ms, d, n, urg, last)
    PROVE  NewestIn(ns, e, n, urg, last)
<1>1. \A k \in 1..n : ns[e[k]].urg = ms[d[k]].urg
    BY DEF LinksFrom
<1>2. CASE last = 0
    BY <1>1, <1>2 DEF NewestIn
<1>3. CASE last # 0
    <2>1. PICK k \in 1..n : /\ d[k] = last /\ ms[last].urg = urg
                            /\ \A l \in k+1..n : ms[d[l]].urg # urg
        BY <1>3 DEF NewestIn
    <2>2. e[k] = last /\ ns[last].urg = urg
        BY <1>1, <2>1
    <2>3. \A l \in k+1..n : l \in 1..n
        OBVIOUS
    <2>4. \A l \in k+1..n : ns[e[l]].urg # urg
        BY <1>1, <2>1, <2>3
    <2> QED BY <1>3, <2>2, <2>4 DEF NewestIn
<1> QED BY <1>2, <1>3

LEMMA GaplessKept ==
    ASSUME NEW ms, NEW ns, LinksFrom(ms, ns), Known(ms), Known(ns),
           NEW d \in Seq(Nat), Range(d) \subseteq 1..Len(ms), NEW e,
           \A k \in 1..Len(d) : e[k] = d[k], Gapless(ms, d), NEW n \in 1..Len(d)
    PROVE  NewestIn(ns, e, n - 1, ns[e[n]].urg, PredecessorIn(ns, e[n]))
<1>1. /\ Len(d) \in Nat /\ \A k \in 1..Len(d) : d[k] \in 1..Len(ms)
    BY LenProperties, RangeFact
<1>2. /\ n - 1 \in Nat /\ d[n] \in 1..Len(ms) /\ e[n] = d[n]
      /\ \A k \in 1..n - 1 : e[k] = d[k] /\ d[k] \in 1..Len(ms)
    BY <1>1
<1>3. PredecessorIn(ns, e[n]) = PredecessorIn(ms, d[n])
    BY <1>2, SamePredecessor
<1>4. ns[e[n]].urg = ms[d[n]].urg
    BY <1>2 DEF LinksFrom
<1>5. NewestIn(ms, d, n - 1, ms[d[n]].urg, PredecessorIn(ms, d[n]))
    BY DEF Gapless
<1>6. NewestIn(ns, e, n - 1, ms[d[n]].urg, PredecessorIn(ms, d[n]))
    <2>1. PICK j, urg, last : /\ j = n - 1 /\ urg = ms[d[n]].urg
                              /\ last = PredecessorIn(ms, d[n])
        OBVIOUS
    <2>2. /\ j \in Nat /\ NewestIn(ms, d, j, urg, last)
          /\ \A k \in 1..j : e[k] = d[k] /\ d[k] \in 1..Len(ms)
        BY <1>2, <1>5, <2>1
    <2>3. NewestIn(ns, e, j, urg, last)
        BY <2>2, NewestKept
    <2> QED BY <2>1, <2>3
<1> QED BY <1>3, <1>4, <1>6

LEMMA GaplessSame ==
    ASSUME NEW ms, NEW ns, LinksFrom(ms, ns), NEW d, History(ms, d), History(ns, d),
           Gapless(ms, d)
    PROVE  Gapless(ns, d)
<1>1. \A n \in 1..Len(d) : NewestIn(ns, d, n - 1, ns[d[n]].urg, PredecessorIn(ns, d[n]))
    BY GaplessKept DEF History
<1> QED BY <1>1 DEF Gapless

LEMMA LastsSame ==
    ASSUME NEW ms, NEW ns, LinksFrom(ms, ns), NEW d, History(ms, d), History(ns, d),
           NEW dr \in 0..Len(ms), NEW last, LastsNewest(ms, d, dr, last)
    PROVE  LastsNewest(ns, d, dr, last)
<1>1. /\ Known(ms) /\ Known(ns) /\ d \in Seq(Nat) /\ Len(d) \in Nat
      /\ \A k \in 1..Len(d) : d[k] \in 1..Len(ms)
    BY LenProperties, RangeFact DEF History
<1>2. ASSUME NEW urg \in BOOLEAN
      PROVE  NewestIn(ns, d, Len(d), urg, last[urg])
    BY <1>1, NewestKept DEF LastsNewest
<1>3. ASSUME dr # 0
      PROVE  PredecessorIn(ns, dr) = last[ns[dr].urg]
    <2>1. dr \in 1..Len(ms)
        BY <1>1, <1>3, LenProperties DEF Known
    <2>2. PredecessorIn(ns, dr) = PredecessorIn(ms, dr) /\ ns[dr].urg = ms[dr].urg
        BY <1>1, <2>1, SamePredecessor DEF LinksFrom
    <2> QED BY <1>3, <2>2 DEF LastsNewest
<1> QED BY <1>2, <1>3 DEF LastsNewest

\* A VIM that is ordered behind the newest of its class becomes the newest.
LEMMA GaplessAppended ==
    ASSUME NEW ms, NEW ns, LinksFrom(ms, ns), NEW d, History(ms, d), Gapless(ms, d),
           NEW i \in Nat, History(ns, Append(d, i)), ns[i].urg \in BOOLEAN,
           NewestIn(ms, d, Len(d), ns[i].urg, PredecessorIn(ns, i))
    PROVE  /\ Gapless(ns, Append(d, i))
           /\ NewestIn(ns, Append(d, i), Len(Append(d, i)), ns[i].urg, i)
           /\ \A urg, last : urg # ns[i].urg /\ NewestIn(ms, d, Len(d), urg, last)
                 => NewestIn(ns, Append(d, i), Len(Append(d, i)), urg, last)
<1> DEFINE e == Append(d, i)
<1>1. /\ Known(ms) /\ Known(ns) /\ d \in Seq(Nat) /\ Len(d) \in Nat
      /\ Range(d) \subseteq 1..Len(ms)
      /\ \A k \in 1..Len(d) : d[k] \in 1..Len(ms)
    BY LenProperties, RangeFact DEF History
<1>2. /\ Len(e) = Len(d) + 1 /\ e[Len(d) + 1] = i
      /\ \A k \in 1..Len(d) : e[k] = d[k]
    BY <1>1, AppendProperties
<1>3. i \in 1..Len(ns) /\ i # 0
    <2>1. i \in Range(e)
        BY <1>1, AppendFact
    <2> QED BY <2>1 DEF History
<1> HIDE DEF e
<1>4. \A urg, last : NewestIn(ms, d, Len(d), urg, last)
                        => NewestIn(ns, e, Len(d), urg, last)
    BY <1>1, <1>2, NewestKept
<1>5. ASSUME NEW n \in 1..Len(e)
      PROVE  NewestIn(ns, e, n - 1, ns[e[n]].urg, PredecessorIn(ns, e[n]))
    <2>1. CASE n \in 1..Len(d)
        BY <1>1, <1>2, <2>1, GaplessKept
    <2>2. CASE n \notin 1..Len(d)
        <3>1. n = Len(d) + 1 /\ n - 1 = Len(d) /\ e[n] = i
            BY <1>1, <1>2, <2>2
        <3> QED BY <1>4, <3>1
    <2> QED BY <2>1, <2>2
<1>6. NewestIn(ns, e, Len(e), ns[i].urg, i)
    <2>1. /\ Len(d) + 1 \in 1..Len(e) /\ e[Len(d) + 1] = i
          /\ \A l \in Len(d) + 1 + 1..Len(e) : FALSE
        BY <1>1, <1>2
    <2> QED BY <1>3, <2>1 DEF NewestIn
<1>7. ASSUME NEW urg, NEW last, urg # ns[i].urg, NewestIn(ms, d, Len(d), urg, last)
      PROVE  NewestIn(ns, e, Len(e), urg, last)
    <2>1. NewestIn(ns, e, Len(d), urg, last)
        BY <1>4, <1>7
    <2>2. \A k \in 1..Len(e) : k \in 1..Len(d) \/ (k = Len(d) + 1 /\ ns[e[k]].urg # urg)
        BY <1>1, <1>2, <1>7
    <2>3. CASE last = 0
        BY <2>1, <2>2, <2>3 DEF NewestIn
    <2>4. CASE last # 0
        <3>1. PICK k \in 1..Len(d) : /\ e[k] = last /\ ns[last].urg = urg
                                     /\ \A l \in k+1..Len(d) : ns[e[l]].urg # urg
            BY <2>1, <2>4 DEF NewestIn
        <3>2. k \in 1..Len(e)
            BY <1>1, <1>2
        <3>3. \A l \in k+1..Len(e) : ns[e[l]].urg # urg
            <4> TAKE l \in k+1..Len(e)
            <4>1. l \in 1..Len(e) /\ (l \in 1..Len(d) => l \in k+1..Len(d))
                BY <1>1, <1>2
            <4> QED BY <2>2, <3>1, <4>1
        <3> QED BY <2>4, <3>1, <3>2, <3>3 DEF NewestIn
    <2> QED BY <2>3, <2>4
<1> QED BY <1>5, <1>6, <1>7 DEF Gapless, e

\* No VIM is dispatched, and the last ones are the same.
LEMMA LinearKept ==
    ASSUME Invariant, LinksStep, AllHistories, AllHistories', NEW q \in Peer, Linear(q),
           dispatched'[q] = dispatched[q],
           opened'[q] => opened[q] /\ draft'[q] = draft[q] /\ LastVIMs(q)' = LastVIMs(q)
    PROVE  Linear(q)'
<1>1. /\ LinksFrom(msgs[q], msgs'[q]) /\ History(msgs[q], dispatched[q])
      /\ History(msgs'[q], dispatched[q])
    BY DEF LinksStep, AllHistories
<1>2. draft[q] \in 0..Len(msgs[q])
    BY ChainFacts DEF Refers
<1>3. Gapless(msgs'[q], dispatched[q])
    BY <1>1, GaplessSame DEF Linear
<1>4. ASSUME opened'[q]
      PROVE  LastsNewest(msgs'[q], dispatched[q], draft[q], LastVIMs(q))
    BY <1>1, <1>2, <1>4, LastsSame DEF Linear
<1> QED BY <1>3, <1>4 DEF Linear

LEMMA ComposeLinear ==
    ASSUME Everything, LinksStep, AllHistories, AllHistories', AllLinear,
           NEW p \in Peer, NEW kind, Compose(p, kind)
    PROVE  AllLinear'
<1> DEFINE m == SetOrderedPrevious(p, Flagged(kind))
           ms == msgs[p]
           ns == msgs'[p]
           k == Len(msgs[p]) + 1
<1>1. Invariant
    BY DEF Everything
<1>2. /\ m \in NetMessage /\ Ordered(ms, LastVIMs(p), m)
      /\ m.ord \/ LastVIMs(p)[m.urg] = 0
    BY <1>1, ComposeOrdered
<1>3. /\ msgs' = [msgs EXCEPT ![p] = Append(@, m)] /\ draft' = [draft EXCEPT ![p] = k]
      /\ dispatched' = dispatched /\ opened' = opened /\ opened[p]
      /\ UNCHANGED <<lastUrgent, lastVIM>>
    BY DEF Compose, life, histVars
<1>4. /\ msgs \in [Peer -> Seq(NetMessage)] /\ draft \in [Peer -> Nat] /\ Len(ms) \in Nat
    BY <1>1, LenProperties DEF Invariant, SenderInv, SenderTypes
<1> HIDE DEF m
<1>5. ASSUME NEW q \in Peer \ {p} PROVE Linear(q)'
    <2>1. draft'[q] = draft[q] /\ LastVIMs(q)' = LastVIMs(q)
        BY <1>3, <1>4 DEF LastVIMs
    <2> QED BY <1>1, <1>3, <2>1, LinearKept DEF AllLinear
<1>6. /\ ns = Append(ms, m) /\ draft'[p] = k /\ LastVIMs(p)' = LastVIMs(p)
    BY <1>3, <1>4 DEF LastVIMs
<1>7. /\ LinksFrom(ms, ns) /\ History(ms, dispatched[p])
      /\ History(ns, dispatched[p]) /\ Known(ns)
    BY <1>3 DEF LinksStep, AllHistories, History
<1>8. /\ ns[k] = m /\ k \in 1..Len(ns) /\ \A j \in 1..Len(ms) : ns[j] = ms[j] /\ j \in 1..Len(ns)
    BY <1>2, <1>4, <1>6, AppendProperties
<1>9. Gapless(ns, dispatched[p])
    BY <1>7, GaplessSame DEF AllLinear, Linear
<1>10. LastsNewest(ns, dispatched[p], 0, LastVIMs(p))
    <2>1. LastsNewest(ms, dispatched[p], 0, LastVIMs(p))
        BY <1>3 DEF AllLinear, Linear, LastsNewest
    <2> QED BY <1>4, <1>7, <2>1, LastsSame
<1>11. PredecessorIn(ns, k) = LastVIMs(p)[m.urg]
    <2>1. CASE ~m.ord
        BY <1>2, <1>8, <2>1 DEF PredecessorIn
    <2>2. CASE m.ord
        <3>1. PICK j : j = LastVIMs(p)[m.urg]
            OBVIOUS
        <3>2. /\ j # 0 /\ m.ctl2 = ms[j].serial
              /\ m.pred = IF ms[j].serial = 0 THEN j ELSE 0
            BY <1>2, <2>2, <3>1 DEF Ordered, Unlinked
        <3>3. j \in 1..Len(ms)
            <4>1. \A urg \in BOOLEAN : LastVIMs(p)[urg] \in 0..Len(ms)
                BY <1>1, ChainFacts DEF Refers
            <4>2. m.urg \in BOOLEAN
                BY <1>2 DEF NetMessage
            <4>3. j \in 0..Len(ms)
                BY <3>1, <4>1, <4>2
            <4> QED BY <1>4, <3>2, <4>3
        <3>4. j \in 1..Len(ns) /\ ns[j] = ms[j]
            BY <1>8, <3>3
        <3>5. Follows(ns, k, j)
            BY <1>8, <2>2, <3>2, <3>4 DEF Follows
        <3> QED BY <1>7, <1>8, <2>2, <3>1, <3>4, <3>5, PredecessorFact
    <2> QED BY <2>1, <2>2
<1>12. LastsNewest(ns, dispatched[p], k, LastVIMs(p))
    BY <1>8, <1>10, <1>11 DEF LastsNewest
<1>13. Linear(p)'
    BY <1>3, <1>6, <1>9, <1>12 DEF Linear
<1> QED BY <1>5, <1>13 DEF AllLinear

\* dispatchMessage of a VIM behind the newest of its class.
LEMMA RememberLinear ==
    ASSUME Invariant, LinksStep, AllHistories, AllHistories', NEW p \in Peer, Linear(p),
           NEW i \in Nat, NEW m \in NetMessage, m.vim, RememberLast(p, i, m),
           msgs'[p][i].urg = m.urg, draft'[p] = 0,
           NewestIn(msgs[p], dispatched[p], Len(dispatched[p]), m.urg,
                    PredecessorIn(msgs'[p], i)),
           opened'[p] => opened[p]
    PROVE  Linear(p)'
<1> DEFINE d == dispatched[p]
           e == Append(dispatched[p], i)
<1>1. /\ dispatched \in [Peer -> Seq(Nat)] /\ m.urg \in BOOLEAN
      /\ lastUrgent \in [Peer -> Nat] /\ lastVIM \in [Peer -> Nat]
    BY DEF Invariant, SenderInv, SenderTypes, NetMessage
<1>2. dispatched'[p] = e
    BY <1>1 DEF RememberLast
<1>3. \A urg \in BOOLEAN : LastVIMs(p)'[urg] = IF m.urg = urg THEN i ELSE LastVIMs(p)[urg]
    BY <1>1 DEF RememberLast, LastVIMs
<1>4. /\ LinksFrom(msgs[p], msgs'[p]) /\ History(msgs[p], d) /\ History(msgs'[p], e)
    BY <1>2 DEF LinksStep, AllHistories
<1>5. /\ Gapless(msgs'[p], e)
      /\ NewestIn(msgs'[p], e, Len(e), m.urg, i)
      /\ \A urg, last : urg # m.urg /\ NewestIn(msgs[p], d, Len(d), urg, last)
            => NewestIn(msgs'[p], e, Len(e), urg, last)
    BY <1>1, <1>4, GaplessAppended DEF Linear
<1>6. ASSUME opened'[p], NEW urg \in BOOLEAN
      PROVE  NewestIn(msgs'[p], e, Len(e), urg, LastVIMs(p)'[urg])
    <2>1. CASE urg = m.urg
        BY <1>3, <1>5, <2>1
    <2>2. CASE urg # m.urg
        <3>1. NewestIn(msgs[p], d, Len(d), urg, LastVIMs(p)[urg])
            BY <1>6 DEF Linear, LastsNewest
        <3> QED BY <1>3, <1>5, <2>2, <3>1
    <2> QED BY <2>1, <2>2
<1> QED BY <1>2, <1>5, <1>6 DEF Linear, LastsNewest

LEMMA DispatchLinear ==
    ASSUME Everything, LinksStep, AllHistories, AllHistories', AllLinear,
           NEW p \in Peer, Dispatch(p)
    PROVE  AllLinear'
<1> DEFINE i == draft[p]
           m == msgs[p][draft[p]]
<1>1. Invariant
    BY DEF Everything
<1>2. /\ RememberLast(p, i, m) /\ i # 0 /\ draft' = [draft EXCEPT ![p] = 0]
      /\ msgs' = msgs /\ opened' = opened /\ opened[p]
    BY DEF Dispatch, life
<1>3. /\ draft \in [Peer -> Nat] /\ dispatched \in [Peer -> Seq(Nat)]
      /\ lastUrgent \in [Peer -> Nat] /\ lastVIM \in [Peer -> Nat]
      /\ msgs \in [Peer -> Seq(NetMessage)]
    BY <1>1 DEF Invariant, SenderInv, SenderTypes
<1>4. i \in Nat /\ m \in NetMessage
    <2>1. i \in 0..Len(msgs[p])
        BY <1>1, ChainFacts DEF Refers
    <2> QED BY <1>2, <1>3, <2>1, LenProperties
<1>5. ASSUME NEW q \in Peer \ {p} PROVE Linear(q)'
    <2>1. /\ dispatched'[q] = dispatched[q] /\ draft'[q] = draft[q]
          /\ LastVIMs(q)' = LastVIMs(q)
        BY <1>2, <1>3 DEF LastVIMs, RememberLast
    <2> QED BY <1>1, <1>2, <2>1, LinearKept DEF AllLinear
<1>6. Linear(p) /\ LastsNewest(msgs[p], dispatched[p], draft[p], LastVIMs(p))
    BY <1>2 DEF AllLinear, Linear
<1>7. CASE m.vim
    <2>1. m.urg \in BOOLEAN
        BY <1>4 DEF NetMessage
    <2>2. NewestIn(msgs[p], dispatched[p], Len(dispatched[p]), m.urg,
                   PredecessorIn(msgs[p], i))
        BY <1>2, <1>6, <2>1 DEF LastsNewest
    <2>3. /\ msgs'[p] = msgs[p] /\ draft'[p] = 0 /\ (opened'[p] => opened[p])
        BY <1>2, <1>3
    <2>4. Linear(p)'
        BY <1>1, <1>2, <1>4, <1>6, <1>7, <2>2, <2>3, RememberLinear
    <2> QED BY <1>5, <2>4 DEF AllLinear
<1>8. CASE ~m.vim
    <2>1. /\ dispatched'[p] = dispatched[p] /\ draft'[p] = 0 /\ msgs'[p] = msgs[p]
          /\ LastVIMs(p)' = LastVIMs(p) /\ opened'[p] = opened[p]
        BY <1>2, <1>3, <1>8 DEF LastVIMs, RememberLast
    <2>2. Linear(p)'
        BY <1>6, <2>1 DEF Linear, LastsNewest
    <2> QED BY <1>5, <2>2 DEF AllLinear
<1> QED BY <1>7, <1>8

LEMMA DispatchPlainLinear ==
    ASSUME ~LateHandshake, Everything, LinksStep, AllHistories, AllHistories', AllLinear,
           NEW p \in Peer, NEW kind \in AllKinds, DispatchPlain(p, kind)
    PROVE  AllLinear'
<1>1. Invariant
    BY DEF Everything
<1>2. PICK m, i : m = Flagged(kind) /\ i = Len(msgs[p]) + 1
    OBVIOUS
<1>3. /\ RememberLast(p, i, m) /\ msgs' = [msgs EXCEPT ![p] = Append(@, m)]
      /\ draft' = draft /\ opened' = opened /\ opened[p]
      /\ kind = "handshake" => draft[p] = 0 /\ dispatched[p] = <<>>
    BY <1>2 DEF DispatchPlain, life
<1>4. /\ m \in NetMessage /\ m.urg \in BOOLEAN /\ ~m.ord /\ i \in Nat
      /\ msgs \in [Peer -> Seq(NetMessage)] /\ Len(msgs[p]) \in Nat
      /\ dispatched \in [Peer -> Seq(Nat)]
      /\ lastUrgent \in [Peer -> Nat] /\ lastVIM \in [Peer -> Nat]
    <2>1. /\ msgs \in [Peer -> Seq(NetMessage)] /\ dispatched \in [Peer -> Seq(Nat)]
          /\ lastUrgent \in [Peer -> Nat] /\ lastVIM \in [Peer -> Nat]
        BY <1>1 DEF Invariant, SenderInv, SenderTypes
    <2>2. Len(msgs[p]) \in Nat
        BY <2>1, LenProperties
    <2>3. m \in NetMessage /\ ~m.ord
        BY <1>2, FlaggedFact DEF Flagged, Blank
    <2>4. m.urg \in BOOLEAN
        BY <2>3 DEF NetMessage
    <2> QED BY <1>2, <2>1, <2>2, <2>3, <2>4
<1>5. ASSUME NEW q \in Peer \ {p} PROVE Linear(q)'
    <2>1. dispatched'[q] = dispatched[q] /\ LastVIMs(q)' = LastVIMs(q)
        BY <1>3, <1>4 DEF LastVIMs, RememberLast
    <2> QED BY <1>1, <1>3, <2>1, LinearKept DEF AllLinear
<1>6. CASE m.vim
    <2>1. kind = "handshake"
        BY <1>2, <1>6 DEF DispatchPlain, Flagged, Blank, Chained
    <2>2. msgs'[p][i] = m
        BY <1>2, <1>3, <1>4, AppendProperties
    <2>3. NewestIn(msgs[p], dispatched[p], Len(dispatched[p]), m.urg,
                   PredecessorIn(msgs'[p], i))
        <3>1. Len(dispatched[p]) = 0
            BY <1>3, <2>1
        <3>2. PredecessorIn(msgs'[p], i) = 0
            BY <1>4, <2>2 DEF PredecessorIn
        <3> QED BY <3>1, <3>2 DEF NewestIn
    <2>4. Linear(p)'
        BY <1>1, <1>3, <1>4, <1>6, <2>1, <2>2, <2>3, RememberLinear DEF AllLinear
    <2> QED BY <1>5, <2>4 DEF AllLinear
<1>7. CASE ~m.vim
    <2>1. dispatched'[p] = dispatched[p] /\ LastVIMs(p)' = LastVIMs(p)
        BY <1>3, <1>4, <1>7 DEF LastVIMs, RememberLast
    <2>2. Linear(p)'
        BY <1>1, <1>3, <2>1, LinearKept DEF AllLinear
    <2> QED BY <1>5, <2>2 DEF AllLinear
<1> QED BY <1>6, <1>7

LEMMA LinearStep ==
    ASSUME MasksSuffice, ~LateHandshake, MayCancel = {}, Everything, AllLinear, [Next]_vars
    PROVE  AllLinear'
<1>1. Everything' /\ LinksStep /\ AllHistories /\ AllHistories'
    BY EverythingStep
<1>2. Invariant
    BY DEF Everything
<1>3. ASSUME dispatched' = dispatched, opened' = opened, draft' = draft,
             lastUrgent' = lastUrgent, lastVIM' = lastVIM
      PROVE  AllLinear'
    <2>1. \A q \in Peer : LastVIMs(q)' = LastVIMs(q)
        BY <1>3 DEF LastVIMs
    <2> QED BY <1>1, <1>2, <1>3, <2>1, LinearKept DEF AllLinear
<1>4. ASSUME NEW p \in Peer, NEW kind \in AllKinds, Compose(p, kind)
      PROVE  AllLinear'
    BY <1>1, <1>4, ComposeLinear
<1>5. ASSUME NEW p \in Peer, NEW kind \in AllKinds, DispatchPlain(p, kind)
      PROVE  AllLinear'
    BY <1>1, <1>5, DispatchPlainLinear
<1>6. ASSUME NEW p \in Peer, Dispatch(p)
      PROVE  AllLinear'
    BY <1>1, <1>6, DispatchLinear
<1>7. ASSUME NEW p \in Peer, Close(p)
      PROVE  AllLinear'
    <2>1. /\ opened' = [opened EXCEPT ![p] = FALSE] /\ dispatched' = dispatched
          /\ draft' = draft /\ lastUrgent' = [lastUrgent EXCEPT ![p] = 0]
          /\ lastVIM' = [lastVIM EXCEPT ![p] = 0]
        BY <1>7 DEF Close, CancelQueues, histVars
    <2>2. /\ opened \in [Peer -> BOOLEAN] /\ lastUrgent \in [Peer -> Nat]
          /\ lastVIM \in [Peer -> Nat]
        BY <1>2 DEF Invariant, SenderInv, SenderTypes
    <2>3. ASSUME NEW q \in Peer PROVE Linear(q)'
        <3>1. opened'[q] => opened[q] /\ LastVIMs(q)' = LastVIMs(q)
            BY <2>1, <2>2 DEF LastVIMs
        <3> QED BY <1>1, <1>2, <2>1, <3>1, LinearKept DEF AllLinear
    <2> QED BY <2>3 DEF AllLinear
<1>8. ASSUME NEW p \in Peer,
             Unregister(p) \/ CheckConnectivity(p) \/ Transmit(p) \/ PostSend(p)
                \/ DropObsolete(p) \/ ProcessVIM(p)
      PROVE  AllLinear'
    BY <1>3, <1>8
       DEF Unregister, CheckConnectivity, Transmit, PostSend, DropObsolete, ProcessVIM,
           life, histVars, sendVars
<1>9. ASSUME NEW p \in Peer, NEW i \in revisited[p], Resend(p, i) \/ Discard(p, i)
      PROVE  AllLinear'
    BY <1>3, <1>9 DEF Resend, Discard, life, histVars, sendVars
<1>10. ASSUME NEW p \in Peer, NEW pkt \in net, Receive(p, pkt)
       PROVE  AllLinear'
    BY <1>3, <1>10 DEF Receive, ReceiveAgain, ReceiveNew, life, histVars, sendVars
<1>11. ASSUME NEW p \in Peer, CancelAllMessages(p)
       PROVE  FALSE
    BY <1>11 DEF CancelAllMessages
<1>12. CASE UNCHANGED vars
    BY <1>3, <1>12 DEF vars, life, sendVars, histVars
<1> QED BY <1>4, <1>5, <1>6, <1>7, <1>8, <1>9, <1>10, <1>11, <1>12
       DEF Next, UserStep, SenderStep, ListenerStep

-----------------------------------------------------------------------------
(***************************************************************************)
(* What was given to the call-back in turn stays so, and the next is.      *)
(***************************************************************************)
\* The b-th message given was new, and all of its class before it were given.
Turn(ms, d, g, b) ==
    \E k \in 1..Len(d) :
        /\ d[k] = g[b] /\ \A a \in 1..b - 1 : g[a] # g[b]
        /\ \A j \in 1..k - 1 :
              ms[d[j]].urg = ms[d[k]].urg => \E a \in 1..b - 1 : g[a] = d[j]

Turns(ms, d, g) == \A b \in 1..Len(g) : g[b] \in Range(d) => Turn(ms, d, g, b)

AllTurns == \A p \in Peer : Turns(msgs[p], dispatched[p], delivered[Other(p)])

LEMMA TurnKept ==
    ASSUME NEW ms, NEW ns, LinksFrom(ms, ns), NEW d, History(ms, d), NEW e,
           Len(d) \in Nat, Len(e) \in Nat, Len(d) =< Len(e),
           \A k \in 1..Len(d) : e[k] = d[k],
           NEW g, NEW h, NEW b \in Nat, \A a \in 1..b : h[a] = g[a], b # 0,
           Turn(ms, d, g, b)
    PROVE  Turn(ns, e, h, b)
<1>1. \A k \in 1..Len(d) : d[k] \in 1..Len(ms) /\ ns[d[k]].urg = ms[d[k]].urg
    BY RangeFact DEF History, LinksFrom
<1>2. PICK k \in 1..Len(d) :
         /\ d[k] = g[b] /\ \A a \in 1..b - 1 : g[a] # g[b]
         /\ \A j \in 1..k - 1 :
               ms[d[j]].urg = ms[d[k]].urg => \E a \in 1..b - 1 : g[a] = d[j]
    BY DEF Turn
<1>3. /\ k \in 1..Len(e) /\ e[k] = d[k] /\ h[b] = g[b]
      /\ \A a \in 1..b - 1 : a \in 1..b /\ h[a] = g[a]
      /\ \A j \in 1..k - 1 : j \in 1..Len(d) /\ e[j] = d[j]
    <2>1. k \in 1..Len(e) /\ b \in 1..b /\ \A a \in 1..b - 1 : a \in 1..b
        OBVIOUS
    <2>2. \A j \in 1..k - 1 : j \in 1..Len(d)
        OBVIOUS
    <2> QED BY <2>1, <2>2
<1>4. \A a \in 1..b - 1 : h[a] # h[b]
    BY <1>2, <1>3
<1>5. ASSUME NEW j \in 1..k - 1, ns[e[j]].urg = ns[e[k]].urg
      PROVE  \E a \in 1..b - 1 : h[a] = e[j]
    <2>1. ms[d[j]].urg = ms[d[k]].urg
        BY <1>1, <1>3, <1>5
    <2>2. PICK a \in 1..b - 1 : g[a] = d[j]
        BY <1>2, <2>1
    <2> QED BY <1>3, <2>2
<1> QED BY <1>2, <1>3, <1>4, <1>5 DEF Turn

\* A VIM whose predecessor, the newest of its class before it, was given in turn.
LEMMA TurnTaken ==
    ASSUME NEW ms, NEW d, History(ms, d), Gapless(ms, d), NEW g \in Seq(Nat),
           Turns(ms, d, g), NEW i \in Range(d) \ Range(g),
           PredecessorIn(ms, i) \in Range(g) \cup {0}
    PROVE  Turn(ms, d, Append(g, i), Len(g) + 1)
<1> DEFINE h == Append(g, i)
<1>1. /\ d \in Seq(Nat) /\ i \in Nat /\ Len(d) \in Nat /\ Len(g) \in Nat
      /\ \A k \in 1..Len(d) : d[k] \in Range(d)
      /\ \A k, l \in 1..Len(d) : d[k] = d[l] => k = l
    <2>1. d \in Seq(Nat) /\ IsInjective(d)
        BY DEF History
    <2>2. /\ DOMAIN d = 1..Len(d) /\ Len(d) \in Nat /\ Range(d) \subseteq Nat
          /\ \A k \in 1..Len(d) : d[k] \in Range(d)
        BY <2>1, RangeFact
    <2>3. Len(g) \in Nat
        BY LenProperties
    <2> QED BY <2>1, <2>2, <2>3 DEF IsInjective
<1>2. /\ h[Len(g) + 1] = i
      /\ \A a \in 1..Len(g) : h[a] = g[a] /\ h[a] # i
    BY <1>1, AppendProperties, RangeFact
<1> HIDE DEF h
<1>3. PICK k \in 1..Len(d) : d[k] = i
    BY <1>1, RangeFact
<1>4. ASSUME NEW j \in 1..k - 1, ms[d[j]].urg = ms[i].urg
      PROVE  \E a \in 1..Len(g) : h[a] = d[j]
    <2>1. PICK pred : pred = PredecessorIn(ms, i)
        OBVIOUS
    <2>2. NewestIn(ms, d, k - 1, ms[i].urg, pred)
        BY <1>3, <2>1 DEF Gapless
    <2>3. pred # 0
        BY <1>4, <2>2 DEF NewestIn
    <2>4. PICK l \in 1..k - 1 : d[l] = pred /\ ms[pred].urg = ms[i].urg
                                /\ \A n \in l + 1..k - 1 : ms[d[n]].urg # ms[i].urg
        BY <2>2, <2>3 DEF NewestIn
    <2>5. /\ j \in 1..l /\ l \in 1..Len(d)
          /\ j # l => j \in 1..l - 1
        <3>1. j \notin l + 1..k - 1
            BY <1>4, <2>4
        <3> QED BY <1>1, <3>1
    <2>6. PICK b \in 1..Len(g) : g[b] = d[l]
        BY <2>1, <2>3, <2>4, RangeFact
    <2>7. CASE j = l
        BY <1>2, <2>6, <2>7
    <2>8. CASE j # l
        <3>1. Turn(ms, d, g, b)
            BY <1>1, <2>5, <2>6 DEF Turns
        <3>2. PICK n \in 1..Len(d) :
                 /\ d[n] = g[b]
                 /\ \A x \in 1..n - 1 :
                       ms[d[x]].urg = ms[d[n]].urg => \E a \in 1..b - 1 : g[a] = d[x]
            BY <3>1 DEF Turn
        <3>3. n = l
            BY <1>1, <2>5, <2>6, <3>2
        <3>4. PICK a \in 1..b - 1 : g[a] = d[j]
            BY <1>4, <2>4, <2>5, <2>8, <3>2, <3>3
        <3>5. a \in 1..Len(g)
            BY <1>1
        <3> QED BY <1>2, <3>4, <3>5
    <2> QED BY <2>7, <2>8
<1>5. Len(g) + 1 - 1 = Len(g)
    BY <1>1
<1> QED BY <1>2, <1>3, <1>4, <1>5 DEF Turn, h

\* Of d, e is what was dispatched later; of g, h what was given later.
LEMMA TurnsKept ==
    ASSUME NEW ms, NEW ns, LinksFrom(ms, ns), NEW d, History(ms, d), NEW e,
           Len(e) \in Nat, Len(d) =< Len(e), \A k \in 1..Len(d) : e[k] = d[k],
           NEW g \in Seq(Nat), NEW h, \A b \in 1..Len(g) : h[b] = g[b],
           Turns(ms, d, g), NEW b \in 1..Len(g), h[b] \in Range(d)
    PROVE  Turn(ns, e, h, b)
<1>1. Len(d) \in Nat /\ Len(g) \in Nat
    BY LenProperties DEF History
<1>2. b \in Nat /\ b # 0 /\ \A a \in 1..b : h[a] = g[a]
    BY <1>1
<1>3. Turn(ms, d, g, b)
    BY <1>2 DEF Turns
<1> QED BY <1>1, <1>2, <1>3, TurnKept

LEMMA TurnsAt ==
    ASSUME LinksStep, AllHistories, AllHistories', Invariant, AllLinear, AllTurns,
           NEW p \in Peer, KeepsAt(p) \/ GivesAt(p) \/ SendsAt(p) \/ TakesAt(p)
    PROVE  Turns(msgs'[p], dispatched'[p], delivered'[Other(p)])
<1> DEFINE ms == msgs[p]
           ns == msgs'[p]
           d == dispatched[p]
           g == delivered[Other(p)]
<1>1. /\ LinksFrom(ms, ns) /\ History(ms, d) /\ History(ns, dispatched'[p])
      /\ Turns(ms, d, g) /\ Gapless(ms, d) /\ d \in Seq(Nat)
      /\ Len(d) \in Nat /\ Len(d) =< Len(d)
    BY LenProperties DEF LinksStep, AllHistories, AllTurns, AllLinear, Linear, History
<1>2. g \in Seq(Nat) /\ Len(g) \in Nat
    BY OtherFact, LenProperties DEF Invariant, ReceiverInv, ReceiverTypes
<1>3. ASSUME dispatched'[p] = d, delivered'[Other(p)] = g
      PROVE  Turns(ns, d, g)
    <2>1. \A b \in 1..Len(g) : g[b] \in Range(d) => Turn(ns, d, g, b)
        BY <1>1, <1>2, TurnsKept
    <2> QED BY <2>1 DEF Turns
<1>4. ASSUME NEW i \in Nat \ Range(g), dispatched'[p] = Append(d, i)
      PROVE  Turns(ns, Append(d, i), g)
    <2>1. /\ Len(Append(d, i)) \in Nat /\ Len(d) =< Len(Append(d, i))
          /\ \A k \in 1..Len(d) : Append(d, i)[k] = d[k]
          /\ Range(Append(d, i)) = Range(d) \cup {i}
        BY <1>1, AppendProperties, AppendFact
    <2>2. \A b \in 1..Len(g) : g[b] # i
        BY <1>2, RangeFact
    <2>3. PICK e : e = Append(d, i)
        OBVIOUS
    <2>4. \A b \in 1..Len(g) : g[b] \in Range(e) => Turn(ns, e, g, b)
        BY <1>1, <1>2, <2>1, <2>2, <2>3, TurnsKept
    <2> QED BY <2>3, <2>4 DEF Turns
<1>5. ASSUME NEW i \in Nat, dispatched'[p] = d,
             i \in Range(d) => Turn(ms, d, Append(g, i), Len(g) + 1)
      PROVE  Turns(ns, d, Append(g, i))
    <2>1. PICK h : h = Append(g, i)
        OBVIOUS
    <2>2. /\ Len(h) = Len(g) + 1 /\ h[Len(g) + 1] = i
          /\ \A b \in 1..Len(g) : h[b] = g[b]
        BY <1>2, <2>1, AppendProperties
    <2>3. ASSUME NEW b \in 1..Len(h), h[b] \in Range(d)
          PROVE  Turn(ns, d, h, b)
        <3>1. CASE b \in 1..Len(g)
            BY <1>1, <1>2, <2>2, <2>3, <3>1, TurnsKept
        <3>2. CASE b \notin 1..Len(g)
            <4>1. b = Len(g) + 1 /\ b \in Nat /\ b # 0
                BY <1>1, <1>2, <2>2, <3>2
            <4>2. Turn(ms, d, h, b)
                BY <1>5, <2>1, <2>2, <2>3, <4>1
            <4>3. PICK e, f : e = d /\ f = h
                OBVIOUS
            <4>4. /\ \A k \in 1..Len(d) : e[k] = d[k]
                  /\ \A a \in 1..b : f[a] = h[a]
                  /\ Len(e) \in Nat /\ Len(d) =< Len(e)
                BY <1>1, <4>3
            <4>5. Turn(ns, e, f, b)
                BY <1>1, <4>1, <4>2, <4>4, TurnKept
            <4> QED BY <4>3, <4>5
        <3> QED BY <3>1, <3>2
    <2> QED BY <2>1, <2>3 DEF Turns
<1>6. CASE KeepsAt(p)
    BY <1>3, <1>6 DEF KeepsAt
<1>7. CASE GivesAt(p)
    <2>1. PICK i \in Nat \ (Range(d) \cup Range(g)) :
             delivered'[Other(p)] = Append(g, i)
        BY <1>7 DEF GivesAt
    <2> QED BY <1>5, <1>7, <2>1 DEF GivesAt
<1>8. CASE SendsAt(p)
    <2>1. PICK i \in Nat \ Range(g) : dispatched'[p] = Append(d, i)
        BY <1>8 DEF SendsAt
    <2> QED BY <1>4, <1>8, <2>1 DEF SendsAt
<1>9. CASE TakesAt(p)
    <2>1. PICK i \in Range(d) \ Range(g) :
             /\ delivered'[Other(p)] = Append(g, i)
             /\ PredecessorIn(ms, i) \in Range(g) \cup {0}
        BY <1>9 DEF TakesAt
    <2>2. Turn(ms, d, Append(g, i), Len(g) + 1) /\ i \in Nat
        BY <1>1, <1>2, <2>1, TurnTaken, RangeFact
    <2> QED BY <1>5, <1>9, <2>1, <2>2 DEF TakesAt
<1> QED BY <1>6, <1>7, <1>8, <1>9

LEMMA TurnsStep ==
    ASSUME ChannelStep, LinksStep, AllHistories, AllHistories', Invariant, AllLinear,
           AllTurns
    PROVE  AllTurns'
<1>1. \A p \in Peer : KeepsAt(p) \/ GivesAt(p) \/ SendsAt(p) \/ TakesAt(p)
    BY DEF ChannelStep
<1>2. \A p \in Peer : Turns(msgs'[p], dispatched'[p], delivered'[Other(p)])
    BY <1>1, TurnsAt
<1> QED BY <1>2 DEF AllTurns

\* What was given to the call-back is one of the messages; a VIM was dispatched.
GivenKnown ==
    \A p \in Peer : \A i \in Range(delivered[Other(p)]) :
        /\ i \in 1..Len(msgs[p])
        /\ msgs[p][i].vim => i \in Range(dispatched[p])

LEMMA GivenFact == Everything => GivenKnown
<1> SUFFICES ASSUME Everything, NEW p \in Peer, NEW i \in Range(delivered[Other(p)])
             PROVE  /\ i \in 1..Len(msgs[p])
                    /\ msgs[p][i].vim => i \in Range(dispatched[p])
    BY DEF GivenKnown
<1>1. i \in 1..Len(msgs[p]) /\ msgs[p][i].serial # 0
    BY DeliveredWasSent
<1>2. i # 0 /\ i # draft[p]
    BY <1>1, ChainFacts DEF Everything
<1> QED BY <1>1, <1>2 DEF Everything, Histories, DispatchedOnce

LEMMA TurnsOrder == Everything /\ AllTurns => InOrder
<1> SUFFICES ASSUME Everything, AllTurns, NEW p \in Peer,
                    NEW b \in 1..Len(delivered[Other(p)]),
                    msgs[p][delivered[Other(p)][b]].vim
             PROVE  InTurn(p, delivered[Other(p)], b)
    BY DEF InOrder
<1>1. delivered[Other(p)][b] \in Range(delivered[Other(p)])
    <2>1. delivered[Other(p)] \in Seq(Nat)
        BY OtherFact DEF Everything, Invariant, ReceiverInv, ReceiverTypes
    <2> QED BY <2>1, RangeFact
<1>2. delivered[Other(p)][b] \in Range(dispatched[p])
    BY <1>1, GivenFact DEF GivenKnown
<1>3. Turn(msgs[p], dispatched[p], delivered[Other(p)], b)
    BY <1>2 DEF AllTurns, Turns
<1> QED BY <1>3 DEF Turn, InTurn

LEMMA OrderInit ==
    ASSUME Init
    PROVE  AllLinear /\ AllTurns
<1>1. ASSUME NEW p \in Peer
      PROVE  Linear(p) /\ Turns(msgs[p], dispatched[p], delivered[Other(p)])
    <2>1. /\ dispatched[p] = <<>> /\ Len(dispatched[p]) = 0
          /\ delivered[Other(p)] = <<>> /\ Len(delivered[Other(p)]) = 0
          /\ draft[p] = 0 /\ \A urg \in BOOLEAN : LastVIMs(p)[urg] = 0
        BY EmptyFact, OtherFact DEF Init, LastVIMs
    <2>2. 1..0 = {}
        OBVIOUS
    <2> QED BY <2>1, <2>2 DEF Linear, Gapless, LastsNewest, NewestIn, Turns
<1> QED BY <1>1 DEF AllLinear, AllTurns

\* setOrderedPrevious, processData and processVIM: the guaranteed messages of a
\* class reach the call-back in the order of their dispatch and without a gap,
\* when no handshake cuts the chain, nothing is cancelled and the bit-masks hold
\* all serials.
THEOREM VimsInOrder ==
    ASSUME MasksSuffice, ~LateHandshake, MayCancel = {}
    PROVE  Spec => []InOrder
<1>1. Init => Everything /\ AllLinear /\ AllTurns
    BY EverythingInit, OrderInit
<1>2. Everything /\ AllLinear /\ AllTurns /\ [Next]_vars
        => Everything' /\ AllLinear' /\ AllTurns'
    BY EverythingStep, EachStep, LinearStep, TurnsStep DEF Everything
<1>3. Everything /\ AllTurns => InOrder
    BY TurnsOrder
<1> QED BY <1>1, <1>2, <1>3, PTL DEF Spec

-----------------------------------------------------------------------------
(***************************************************************************)
(* The steps of the channel, as steps of VimDelivery.                      *)
(***************************************************************************)
SentIn(ms, d) == [k \in 1..Len(d) |-> [id |-> d[k], urg |-> ms[d[k]].urg]]

SentOf(p) == SentIn(msgs[p], dispatched[p])
GivenOf(p) == delivered[Other(p)]

AnyId == UNION {Ids(p) : p \in Peer}

\* The steps of VimDelivery at one peer: s becomes s2, or g becomes g2.
Sending(s, g, m, urg, s2) ==
    /\ \A k \in 1..Len(s) : s[k].id # m
    /\ m \notin {g[b] : b \in 1..Len(g)}
    /\ s2 = Append(s, [id |-> m, urg |-> urg])

Giving(s, g, m, g2) ==
    /\ m \notin {g[b] : b \in 1..Len(g)}
    /\ \A k \in 1..Len(s) : \A j \in 1..k-1 :
          s[k].id = m /\ s[j].urg = s[k].urg => s[j].id \in {g[b] : b \in 1..Len(g)}
    /\ g2 = Append(g, m)

LEMMA SentLength ==
    ASSUME NEW ms, NEW d \in Seq(Nat)
    PROVE  /\ Len(SentIn(ms, d)) = Len(d) /\ Len(d) \in Nat
           /\ \E S : SentIn(ms, d) \in Seq(S)
           /\ \A k \in 1..Len(d) : /\ SentIn(ms, d)[k].id = d[k]
                                   /\ SentIn(ms, d)[k].urg = ms[d[k]].urg
<1> DEFINE s == SentIn(ms, d)
           S == {[id |-> d[k], urg |-> ms[d[k]].urg] : k \in 1..Len(d)}
<1>1. Len(d) \in Nat
    BY LenProperties
<1>2. /\ s \in [1..Len(d) -> S] /\ DOMAIN s = 1..Len(d)
      /\ \A k \in 1..Len(d) : s[k].id = d[k] /\ s[k].urg = ms[d[k]].urg
    BY DEF SentIn
<1> HIDE DEF s, S
<1>3. s \in Seq(S)
    BY <1>1, <1>2
<1>4. Len(s) = Len(d)
    BY <1>1, <1>2, <1>3, LenProperties
<1> QED BY <1>1, <1>2, <1>3, <1>4 DEF s, S

LEMMA SentSame ==
    ASSUME NEW ms, NEW ns, LinksFrom(ms, ns), NEW d, History(ms, d)
    PROVE  SentIn(ns, d) = SentIn(ms, d)
<1>1. \A k \in 1..Len(d) : ns[d[k]].urg = ms[d[k]].urg
    BY RangeFact DEF History, LinksFrom
<1> QED BY <1>1 DEF SentIn

LEMMA SentAppended ==
    ASSUME NEW ms, NEW ns, LinksFrom(ms, ns), NEW d, History(ms, d), NEW i \in Nat
    PROVE  SentIn(ns, Append(d, i))
              = Append(SentIn(ms, d), [id |-> i, urg |-> ns[i].urg])
<1> DEFINE e == Append(d, i)
           A == SentIn(ms, d)
           new == [id |-> i, urg |-> ns[i].urg]
<1>1. /\ d \in Seq(Nat) /\ Len(d) \in Nat /\ Len(e) = Len(d) + 1 /\ e[Len(d) + 1] = i
      /\ \A k \in 1..Len(d) : e[k] = d[k] /\ ns[d[k]].urg = ms[d[k]].urg
    BY AppendProperties, LenProperties, RangeFact DEF History, LinksFrom
<1>2. SentIn(ns, e) = [k \in 1..Len(d) + 1 |-> [id |-> e[k], urg |-> ns[e[k]].urg]]
    BY <1>1 DEF SentIn
<1>3. \A k \in 1..Len(d) : A[k] = [id |-> d[k], urg |-> ms[d[k]].urg]
    BY DEF SentIn
<1>4. PICK S : A \in Seq(S) /\ new \in S
    <2>1. PICK T : A \in Seq(T)
        BY <1>1, SentLength
    <2>2. A \in Seq(T \cup {new})
        BY <2>1
    <2> QED BY <2>2
<1>5. Len(A) = Len(d)
    BY <1>1, SentLength
<1> HIDE DEF e, A, new
<1>6. /\ Append(A, new) = [k \in 1..Len(d) + 1 |-> Append(A, new)[k]]
      /\ \A k \in 1..Len(d) : Append(A, new)[k] = A[k]
      /\ Append(A, new)[Len(d) + 1] = new
    BY <1>4, <1>5, AppendedFunction
<1>7. \A k \in 1..Len(d) + 1 : k \in 1..Len(d) \/ k = Len(d) + 1
    BY <1>1
<1>8. \A k \in 1..Len(d) : [id |-> e[k], urg |-> ns[e[k]].urg] = Append(A, new)[k]
    BY <1>1, <1>3, <1>6
<1>9. [id |-> e[Len(d) + 1], urg |-> ns[e[Len(d) + 1]].urg] = Append(A, new)[Len(d) + 1]
    BY <1>1, <1>6 DEF new
<1>10. \A k \in 1..Len(d) + 1 :
          [id |-> e[k], urg |-> ns[e[k]].urg] = Append(A, new)[k]
    BY <1>7, <1>8, <1>9
<1> QED BY <1>2, <1>6, <1>10 DEF e, A, new

\* Every message has an id of Message.
IdsKnown == \A p \in Peer : 1..Len(msgs[p]) \subseteq AnyId

LEMMA IdFact == Invariant => IdsKnown
<1> SUFFICES ASSUME Invariant, NEW p \in Peer, NEW i \in 1..Len(msgs[p])
             PROVE  i \in AnyId
    BY DEF IdsKnown
<1>1. /\ Len(msgs[p]) \in Nat /\ Len(msgs[p]) =< MaxMsgs[p] /\ MaxMsgs[p] \in Nat
    BY ChainFacts, BoundAssumption DEF Refers, Invariant, SenderInv
<1>2. i \in Ids(p)
    BY <1>1 DEF Ids
<1> QED BY <1>2 DEF AnyId

LEMMA RangeSet ==
    ASSUME NEW g \in Seq(Nat)
    PROVE  Range(g) = {g[b] : b \in 1..Len(g)}
<1>1. DOMAIN g = 1..Len(g)
    BY RangeFact
<1> QED BY <1>1 DEF Range

LEMMA KeepsDelivery ==
    ASSUME LinksStep, AllHistories, NEW q \in Peer, KeepsAt(q)
    PROVE  SentOf(q)' = SentOf(q) /\ GivenOf(q)' = GivenOf(q)
<1>1. SentIn(msgs'[q], dispatched[q]) = SentIn(msgs[q], dispatched[q])
    BY SentSame DEF LinksStep, AllHistories
<1> QED BY <1>1 DEF SentOf, GivenOf, KeepsAt

LEMMA SendsDelivery ==
    ASSUME LinksStep, AllHistories, AllHistories', Invariant, IdsKnown',
           NEW p \in Peer, SendsAt(p)
    PROVE  /\ \E m \in AnyId, urg \in BOOLEAN :
                 Sending(SentOf(p), GivenOf(p), m, urg, SentOf(p)')
           /\ GivenOf(p)' = GivenOf(p)
<1> DEFINE ms == msgs[p]
           ns == msgs'[p]
           d == dispatched[p]
           g == delivered[Other(p)]
<1>1. PICK i \in Nat \ Range(g) : dispatched'[p] = Append(d, i)
    BY DEF SendsAt
<1>2. /\ LinksFrom(ms, ns) /\ History(ms, d) /\ History(ns, Append(d, i))
    BY <1>1 DEF LinksStep, AllHistories
<1>3. /\ d \in Seq(Nat) /\ IsInjective(Append(d, i)) /\ ns \in Seq(NetMessage)
      /\ Range(Append(d, i)) \subseteq 1..Len(ns)
    BY <1>2 DEF History, Known
<1>4. /\ i \notin Range(d) /\ i \in 1..Len(ns)
      /\ \A k \in 1..Len(d) : d[k] # i
    <2>1. i \notin Range(d)
        BY <1>1, <1>3, NewInInjective
    <2>2. Range(Append(d, i)) = Range(d) \cup {i}
        BY <1>3, AppendFact
    <2>3. \A k \in 1..Len(d) : d[k] \in Range(d)
        BY <1>3, RangeFact
    <2> QED BY <1>3, <2>1, <2>2, <2>3
<1>5. i \in AnyId
    BY <1>4 DEF IdsKnown
<1>6. ns[i].urg \in BOOLEAN
    <2>1. ns[i] \in NetMessage
        BY <1>3, <1>4, RangeFact
    <2> QED BY <2>1 DEF NetMessage
<1>7. SentIn(ns, Append(d, i)) = Append(SentIn(ms, d), [id |-> i, urg |-> ns[i].urg])
    BY <1>1, <1>2, SentAppended
<1>8. \A k \in 1..Len(SentIn(ms, d)) : SentIn(ms, d)[k].id # i
    <2>1. /\ Len(SentIn(ms, d)) = Len(d)
          /\ \A k \in 1..Len(d) : SentIn(ms, d)[k].id = d[k]
        BY <1>3, SentLength
    <2> QED BY <1>4, <2>1
<1>9. i \notin {g[b] : b \in 1..Len(g)}
    <2>1. g \in Seq(Nat)
        BY OtherFact DEF Invariant, ReceiverInv, ReceiverTypes
    <2>2. Range(g) = {g[b] : b \in 1..Len(g)}
        BY <2>1, RangeSet
    <2> QED BY <1>1, <2>2
<1>10. Sending(SentIn(ms, d), g, i, ns[i].urg, SentIn(ns, Append(d, i)))
    BY <1>7, <1>8, <1>9 DEF Sending
<1>11. /\ SentOf(p) = SentIn(ms, d) /\ SentOf(p)' = SentIn(ns, Append(d, i))
       /\ GivenOf(p) = g /\ GivenOf(p)' = g
    BY <1>1 DEF SentOf, GivenOf, SendsAt
<1> QED BY <1>5, <1>6, <1>10, <1>11

LEMMA GivesDelivery ==
    ASSUME LinksStep, AllHistories, Invariant, AllLinear, AllTurns,
           IdsKnown', GivenKnown', NEW p \in Peer, GivesAt(p) \/ TakesAt(p)
    PROVE  /\ \E m \in AnyId : Giving(SentOf(p), GivenOf(p), m, GivenOf(p)')
           /\ SentOf(p)' = SentOf(p)
<1> DEFINE ms == msgs[p]
           ns == msgs'[p]
           d == dispatched[p]
           g == delivered[Other(p)]
           s == SentIn(msgs[p], dispatched[p])
<1>1. /\ LinksFrom(ms, ns) /\ History(ms, d) /\ d \in Seq(Nat) /\ IsInjective(d)
      /\ Gapless(ms, d) /\ Turns(ms, d, g) /\ g \in Seq(Nat)
      /\ dispatched'[p] = d
    BY OtherFact
       DEF LinksStep, AllHistories, History, AllLinear, Linear, AllTurns, Invariant,
           ReceiverInv, ReceiverTypes, GivesAt, TakesAt
<1>2. PICK i \in Nat \ Range(g) :
         /\ delivered'[Other(p)] = Append(g, i)
         /\ i \in Range(d) => PredecessorIn(ms, i) \in Range(g) \cup {0}
    BY <1>1, RangeFact DEF GivesAt, TakesAt
<1>3. i \in AnyId
    <2>1. i \in Range(delivered'[Other(p)])
        BY <1>1, <1>2, AppendFact
    <2>2. i \in 1..Len(msgs'[p])
        BY <2>1 DEF GivenKnown
    <2> QED BY <2>2 DEF IdsKnown
<1>4. i \notin {g[b] : b \in 1..Len(g)}
    BY <1>1, <1>2, RangeFact
<1>5. ASSUME NEW k \in 1..Len(s), NEW j \in 1..k - 1, s[k].id = i, s[j].urg = s[k].urg
      PROVE  s[j].id \in {g[b] : b \in 1..Len(g)}
    <2>1. /\ k \in 1..Len(d) /\ j \in 1..Len(d) /\ d[k] = i /\ d[k] \in Range(d)
          /\ s[j].id = d[j] /\ ms[d[j]].urg = ms[d[k]].urg /\ Len(g) \in Nat
        <3>1. /\ Len(s) = Len(d) /\ Len(d) \in Nat
              /\ \A l \in 1..Len(d) : s[l].id = d[l] /\ s[l].urg = ms[d[l]].urg
            BY <1>1, SentLength
        <3>2. k \in 1..Len(d) /\ j \in 1..Len(d)
            BY <3>1
        <3>3. Len(g) \in Nat /\ d[k] \in Range(d)
            BY <1>1, <3>2, RangeFact
        <3> QED BY <1>5, <3>1, <3>2, <3>3
    <2>2. Turn(ms, d, Append(g, i), Len(g) + 1)
        BY <1>1, <1>2, <2>1, TurnTaken
    <2>3. /\ Append(g, i)[Len(g) + 1] = i /\ Len(g) + 1 - 1 = Len(g)
          /\ \A a \in 1..Len(g) : Append(g, i)[a] = g[a]
        BY <1>1, <2>1, AppendProperties
    <2>4. PICK n \in 1..Len(d) :
             /\ d[n] = i
             /\ \A x \in 1..n - 1 : ms[d[x]].urg = ms[d[n]].urg
                  => \E a \in 1..Len(g) : Append(g, i)[a] = d[x]
        <3>1. PICK h, b : h = Append(g, i) /\ b = Len(g) + 1
            OBVIOUS
        <3>2. Turn(ms, d, h, b) /\ h[b] = i /\ b - 1 = Len(g)
            BY <2>2, <2>3, <3>1
        <3>3. PICK n \in 1..Len(d) :
                 /\ d[n] = h[b]
                 /\ \A x \in 1..n - 1 : ms[d[x]].urg = ms[d[n]].urg
                      => \E a \in 1..b - 1 : h[a] = d[x]
            BY <3>2 DEF Turn
        <3> QED BY <3>1, <3>2, <3>3
    <2>5. n = k
        <3>1. DOMAIN d = 1..Len(d)
            BY <1>1, RangeFact
        <3> QED BY <1>1, <2>1, <2>4, <3>1 DEF IsInjective
    <2>6. PICK a \in 1..Len(g) : Append(g, i)[a] = d[j]
        BY <2>1, <2>4, <2>5
    <2> QED BY <2>1, <2>3, <2>6
<1>6. Giving(s, g, i, Append(g, i))
    BY <1>4, <1>5 DEF Giving
<1>7. SentIn(ns, d) = s
    BY <1>1, SentSame
<1>8. /\ SentOf(p) = s /\ SentOf(p)' = s /\ GivenOf(p) = g /\ GivenOf(p)' = Append(g, i)
    BY <1>1, <1>2, <1>7 DEF SentOf, GivenOf
<1> QED BY <1>3, <1>6, <1>8

\* The abstract state, as NetChannel reads it off its own.
SentVIMs == [p \in Peer |->
                [k \in 1..Len(dispatched[p]) |->
                    [id |-> dispatched[p][k],
                     urg |-> msgs[p][dispatched[p][k]].urg]]]
GivenToOther == [p \in Peer |-> delivered[Other(p)]]

SendMove(s, g, s2, g2, p, m, urg) ==
    /\ \A k \in 1..Len(s[p]) : s[p][k].id # m
    /\ m \notin {g[p][b] : b \in 1..Len(g[p])}
    /\ s2 = [s EXCEPT ![p] = Append(@, [id |-> m, urg |-> urg])]
    /\ g2 = g

GiveMove(s, g, s2, g2, p, m) ==
    /\ m \notin {g[p][b] : b \in 1..Len(g[p])}
    /\ \A k \in 1..Len(s[p]) : \A j \in 1..k-1 :
          s[p][k].id = m /\ s[p][j].urg = s[p][k].urg
              => s[p][j].id \in {g[p][b] : b \in 1..Len(g[p])}
    /\ g2 = [g EXCEPT ![p] = Append(@, m)]
    /\ s2 = s

DeliveryMoves(s, g, s2, g2) ==
    \/ s2 = s /\ g2 = g
    \/ \E p \in Peer, m \in AnyId, urg \in BOOLEAN : SendMove(s, g, s2, g2, p, m, urg)
    \/ \E p \in Peer, m \in AnyId : GiveMove(s, g, s2, g2, p, m)

LEMMA DeliverySteps ==
    ASSUME ChannelStep, LinksStep, AllHistories, AllHistories', Invariant, AllLinear,
           AllTurns, IdsKnown', GivenKnown',
           NEW s, NEW g, NEW s2, NEW g2,
           s = [p \in Peer |-> SentOf(p)], g = [p \in Peer |-> GivenOf(p)],
           s2 = [p \in Peer |-> SentOf(p)'], g2 = [p \in Peer |-> GivenOf(p)']
    PROVE  DeliveryMoves(s, g, s2, g2)
<1>1. CASE \A q \in Peer : KeepsAt(q)
    <2>1. s2 = s /\ g2 = g
        BY <1>1, KeepsDelivery
    <2> QED BY <2>1, Zenon DEF DeliveryMoves
<1>2. ASSUME NEW p \in Peer, \A q \in Peer \ {p} : KeepsAt(q), SendsAt(p)
      PROVE  DeliveryMoves(s, g, s2, g2)
    <2>1. \A q \in Peer \ {p} : s2[q] = s[q] /\ g2[q] = g[q]
        BY <1>2, KeepsDelivery
    <2>2. PICK m \in AnyId, urg \in BOOLEAN : Sending(s[p], g[p], m, urg, s2[p])
        BY <1>2, SendsDelivery
    <2>3. g2 = g
        BY <1>2, <2>1, SendsDelivery
    <2>4. s2 = [s EXCEPT ![p] = Append(@, [id |-> m, urg |-> urg])]
        BY <2>1, <2>2 DEF Sending
    <2>5. SendMove(s, g, s2, g2, p, m, urg)
        BY <2>2, <2>3, <2>4 DEF Sending, SendMove
    <2> QED BY <2>5, Zenon DEF DeliveryMoves
<1>3. ASSUME NEW p \in Peer, \A q \in Peer \ {p} : KeepsAt(q), GivesAt(p) \/ TakesAt(p)
      PROVE  DeliveryMoves(s, g, s2, g2)
    <2>1. \A q \in Peer \ {p} : s2[q] = s[q] /\ g2[q] = g[q]
        BY <1>3, KeepsDelivery
    <2>2. PICK m \in AnyId : Giving(s[p], g[p], m, g2[p])
        BY <1>3, GivesDelivery
    <2>3. s2 = s
        BY <1>3, <2>1, GivesDelivery
    <2>4. g2 = [g EXCEPT ![p] = Append(@, m)]
        BY <2>1, <2>2 DEF Giving
    <2>5. GiveMove(s, g, s2, g2, p, m)
        BY <2>2, <2>3, <2>4 DEF Giving, GiveMove
    <2> QED BY <2>5, Zenon DEF DeliveryMoves
<1> QED BY <1>1, <1>2, <1>3 DEF ChannelStep

LEMMA DeliveryInitially ==
    ASSUME Init
    PROVE  Delivery!Init
<1>1. ASSUME NEW p \in Peer
      PROVE  SentOf(p) = <<>> /\ GivenOf(p) = <<>>
    <2>1. dispatched[p] = <<>> /\ delivered[Other(p)] = <<>> /\ <<>> \in Seq(Nat)
          /\ Len(<<>>) = 0
        BY EmptyFact, OtherFact DEF Init
    <2>2. Len(SentIn(msgs[p], <<>>)) = 0 /\ \E S : SentIn(msgs[p], <<>>) \in Seq(S)
        BY <2>1, SentLength
    <2> QED BY <2>1, <2>2, EmptySeq DEF SentOf, GivenOf
<1>2. /\ SentVIMs = [p \in Peer |-> <<>>]
      /\ GivenToOther = [p \in Peer |-> <<>>]
    BY <1>1 DEF SentVIMs, GivenToOther, SentOf, GivenOf, SentIn
<1> QED BY <1>2, Zenon DEF Delivery!Init, SentVIMs, GivenToOther

LEMMA DeliveryNext ==
    ASSUME ChannelStep, LinksStep, AllHistories, AllHistories', Invariant, AllLinear,
           AllTurns, IdsKnown', GivenKnown'
    PROVE  [Delivery!Next]_Delivery!deliveryVars
<1>1. /\ SentVIMs = [p \in Peer |-> SentOf(p)]
      /\ GivenToOther = [p \in Peer |-> GivenOf(p)]
      /\ SentVIMs' = [p \in Peer |-> SentOf(p)']
      /\ GivenToOther' = [p \in Peer |-> GivenOf(p)']
    BY DEF SentVIMs, GivenToOther, SentOf, GivenOf, SentIn
<1>2. DeliveryMoves(SentVIMs, GivenToOther, SentVIMs', GivenToOther')
    <2>1. PICK s, g, s2, g2 : /\ s = SentVIMs /\ g = GivenToOther
                              /\ s2 = SentVIMs' /\ g2 = GivenToOther'
        OBVIOUS
    <2>2. DeliveryMoves(s, g, s2, g2)
        BY <1>1, <2>1, DeliverySteps
    <2> QED BY <2>1, <2>2
<1>3. CASE SentVIMs' = SentVIMs /\ GivenToOther' = GivenToOther
    BY <1>3, Zenon DEF Delivery!deliveryVars, SentVIMs, GivenToOther
<1>4. ASSUME NEW p \in Peer, NEW m \in AnyId, NEW urg \in BOOLEAN,
             SendMove(SentVIMs, GivenToOther, SentVIMs', GivenToOther', p, m, urg)
      PROVE  Delivery!Next
    <2>1. Delivery!Send(p, m, urg)
        BY <1>4, Zenon DEF SendMove, Delivery!Send, Delivery!Given, SentVIMs, GivenToOther
    <2> QED BY <2>1, Zenon DEF Delivery!Next, AnyId
<1>5. ASSUME NEW p \in Peer, NEW m \in AnyId,
             GiveMove(SentVIMs, GivenToOther, SentVIMs', GivenToOther', p, m)
      PROVE  Delivery!Next
    <2>1. Delivery!Give(p, m)
        BY <1>5, Zenon DEF GiveMove, Delivery!Give, Delivery!Given, SentVIMs, GivenToOther
    <2> QED BY <2>1, Zenon DEF Delivery!Next, AnyId
<1> QED BY <1>2, <1>3, <1>4, <1>5 DEF DeliveryMoves

\* The channel implements VimDelivery: what a peer is given, it is given once, and
\* the guaranteed messages of a class in the order of their dispatch and without a
\* gap, when no handshake cuts the chain, nothing is cancelled and the bit-masks
\* hold all serials.
THEOREM DeliveryImplemented ==
    ASSUME MasksSuffice, ~LateHandshake, MayCancel = {}
    PROVE  Spec => ImplementsDelivery
<1>1. Init => Everything /\ AllLinear /\ AllTurns /\ Delivery!Init
    BY EverythingInit, OrderInit, DeliveryInitially
<1>2. Everything /\ AllLinear /\ AllTurns /\ [Next]_vars
        => /\ Everything' /\ AllLinear' /\ AllTurns'
           /\ [Delivery!Next]_Delivery!deliveryVars
    <2> SUFFICES ASSUME Everything, AllLinear, AllTurns, [Next]_vars
                 PROVE  /\ Everything' /\ AllLinear' /\ AllTurns'
                        /\ [Delivery!Next]_Delivery!deliveryVars
        OBVIOUS
    <2>1. /\ Everything' /\ LinksStep /\ AllHistories /\ AllHistories' /\ ChannelStep
          /\ AllLinear' /\ Invariant /\ Invariant'
        BY EverythingStep, EachStep, LinearStep DEF Everything
    <2>2. GivenKnown' /\ IdsKnown'
        BY <2>1, GivenFact, IdFact, PTL
    <2> QED BY <2>1, <2>2, TurnsStep, DeliveryNext
<1> QED BY <1>1, <1>2, PTL DEF Spec, ImplementsDelivery, Delivery!Spec
=============================================================================
