-------------------------- MODULE NetChannelProofs ---------------------------
(***************************************************************************)
(* Proofs about NetChannel, for any windows, bounds and kinds of message:  *)
(* facts about its queues, its windows and its two ends, the invariant of  *)
(* NetChannelInv, which is inductive, and what follows from it.            *)
(***************************************************************************)
EXTENDS NetChannelInv, SequenceTheorems, FiniteSetTheorems,
        WellFoundedInduction, TLAPS

-----------------------------------------------------------------------------
(***************************************************************************)
(* Queues are sequences of ids without repetition: what is in them after   *)
(* an insertion or a removal.                                              *)
(***************************************************************************)

\* A sequence of numbers as a function, and its range.
LEMMA RangeFact ==
    ASSUME NEW S, NEW q \in Seq(S)
    PROVE  /\ DOMAIN q = 1..Len(q) /\ Len(q) \in Nat
           /\ Range(q) \subseteq S
           /\ \A k \in 1..Len(q) : q[k] \in S /\ q[k] \in Range(q)
           /\ \A x \in Range(q) : \E k \in 1..Len(q) : q[k] = x
<1>1. q \in [1..Len(q) -> S] /\ DOMAIN q = 1..Len(q) /\ Len(q) \in Nat
    BY LenProperties
<1> QED BY <1>1 DEF Range

\* The empty queue.
LEMMA EmptyFact ==
    /\ \A S : <<>> \in Seq(S)
    /\ Range(<<>>) = {} /\ IsInjective(<<>>) /\ Len(<<>>) = 0
<1>1. \A S : <<>> \in Seq(S) /\ Len(<<>>) = 0
    BY EmptySeq
<1>2. DOMAIN <<>> = {}
    BY <1>1, LenProperties
<1> QED BY <1>1, <1>2 DEF Range, IsInjective

\* A message is appended to a queue (insertUrgent, insertVIM, insertCommon).
LEMMA AppendFact ==
    ASSUME NEW S, NEW q \in Seq(S), NEW x \in S
    PROVE  /\ Append(q, x) \in Seq(S) /\ Len(Append(q, x)) = Len(q) + 1
           /\ Range(Append(q, x)) = Range(q) \cup {x}
           /\ IsInjective(q) /\ x \notin Range(q) => IsInjective(Append(q, x))
<1> DEFINE r == Append(q, x)
<1>1. /\ r \in Seq(S) /\ Len(r) = Len(q) + 1
      /\ \A i \in 1..Len(q) : r[i] = q[i]
      /\ r[Len(q) + 1] = x
    BY AppendProperties
<1>2. Len(q) \in Nat /\ DOMAIN r = 1..(Len(q) + 1) /\ DOMAIN q = 1..Len(q)
    BY <1>1, LenProperties
<1> HIDE DEF r
<1>3. Range(r) = Range(q) \cup {x}
    <2>1. \A y \in Range(r) : y \in Range(q) \cup {x}
        <3> TAKE y \in Range(r)
        <3>1. PICK i \in 1..(Len(q) + 1) : r[i] = y
            BY <1>2 DEF Range
        <3>2. i \in 1..Len(q) \/ i = Len(q) + 1
            BY <1>2, <3>1
        <3> QED BY <3>1, <3>2, <1>1, <1>2 DEF Range
    <2>2. \A y \in Range(q) : y \in Range(r)
        BY <1>1, <1>2 DEF Range
    <2>3. x \in Range(r)
        BY <1>1, <1>2 DEF Range
    <2> QED BY <2>1, <2>2, <2>3
<1>4. IsInjective(q) /\ x \notin Range(q) => IsInjective(r)
    <2> SUFFICES ASSUME IsInjective(q), x \notin Range(q),
                        NEW a \in 1..(Len(q) + 1), NEW b \in 1..(Len(q) + 1),
                        r[a] = r[b]
                 PROVE  a = b
        BY <1>2 DEF IsInjective
    <2>1. \A i \in 1..Len(q) : q[i] # x
        BY <1>2 DEF Range
    <2>2. (a \in 1..Len(q) \/ a = Len(q) + 1)
            /\ (b \in 1..Len(q) \/ b = Len(q) + 1)
        BY <1>2
    <2> QED BY <1>1, <1>2, <2>1, <2>2 DEF IsInjective
<1> QED BY <1>1, <1>3, <1>4 DEF r

\* The first message of a queue is taken out.
LEMMA TailFact ==
    ASSUME NEW S, NEW q \in Seq(S), q # <<>>
    PROVE  /\ Head(q) \in S /\ Head(q) \in Range(q)
           /\ Tail(q) \in Seq(S)
           /\ Range(q) = Range(Tail(q)) \cup {Head(q)}
           /\ IsInjective(q) => IsInjective(Tail(q))
           /\ IsInjective(q) => Head(q) \notin Range(Tail(q))
<1> DEFINE r == Tail(q)
<1>1. /\ Head(q) \in S /\ r \in Seq(S) /\ Len(r) = Len(q) - 1
      /\ \A i \in 1..Len(r) : r[i] = q[i + 1]
    BY HeadTailProperties
<1>2. Len(q) \in Nat \ {0} /\ DOMAIN r = 1..(Len(q) - 1) /\ DOMAIN q = 1..Len(q)
    BY <1>1, LenProperties, EmptySeq
<1>3. Head(q) = q[1]
    BY <1>2
<1> HIDE DEF r
<1>4. Range(q) = Range(r) \cup {Head(q)}
    <2>1. \A y \in Range(q) : y \in Range(r) \cup {Head(q)}
        <3> TAKE y \in Range(q)
        <3>1. PICK i \in 1..Len(q) : q[i] = y
            BY <1>2 DEF Range
        <3>2. CASE i = 1
            BY <3>1, <3>2, <1>3
        <3>3. CASE i # 1
            <4>1. i - 1 \in 1..Len(r) /\ i - 1 \in DOMAIN r /\ i - 1 + 1 = i
                BY <3>3, <1>1, <1>2
            <4>2. r[i - 1] = y
                BY <4>1, <3>1, <1>1
            <4> QED BY <4>1, <4>2 DEF Range
        <3> QED BY <3>2, <3>3
    <2>2. \A y \in Range(r) : y \in Range(q)
        <3> TAKE y \in Range(r)
        <3>1. PICK i \in 1..Len(r) : r[i] = y
            BY <1>1, <1>2 DEF Range
        <3>2. i + 1 \in 1..Len(q) /\ q[i + 1] = y
            BY <3>1, <1>1, <1>2
        <3> QED BY <3>2, <1>2 DEF Range
    <2>3. Head(q) \in Range(q)
        BY <1>2, <1>3 DEF Range
    <2> QED BY <2>1, <2>2, <2>3
<1>5. IsInjective(q) => IsInjective(r)
    <2> SUFFICES ASSUME IsInjective(q),
                        NEW a \in 1..Len(r), NEW b \in 1..Len(r), r[a] = r[b]
                 PROVE  a = b
        BY <1>1, <1>2 DEF IsInjective
    <2>1. a + 1 \in 1..Len(q) /\ b + 1 \in 1..Len(q) /\ q[a + 1] = q[b + 1]
        BY <1>1, <1>2
    <2>2. a + 1 = b + 1
        BY <2>1, <1>2 DEF IsInjective
    <2> QED BY <2>2, <1>1, <1>2
<1>6. IsInjective(q) => Head(q) \notin Range(r)
    <2> SUFFICES ASSUME IsInjective(q), NEW a \in 1..Len(r), r[a] = q[1]
                 PROVE  FALSE
        BY <1>1, <1>2, <1>3 DEF Range
    <2>1. a + 1 \in 1..Len(q) /\ q[a + 1] = q[1] /\ a + 1 # 1
        BY <1>1, <1>2
    <2> QED BY <2>1, <1>2 DEF IsInjective
<1> QED BY <1>1, <1>2, <1>4, <1>5, <1>6 DEF r

\* A message is put in between (insertResend).
LEMMA InsertPlaces ==
    ASSUME NEW S, NEW q \in Seq(S), NEW x \in S, NEW k \in 1..Len(q) + 1
    PROVE  /\ InsertAt(q, k, x) \in Seq(S) /\ Len(InsertAt(q, k, x)) = Len(q) + 1
           /\ \A i \in 1..(Len(q) + 1) :
                 InsertAt(q, k, x)[i] = IF i < k THEN q[i]
                                        ELSE IF i = k THEN x ELSE q[i - 1]
<1> DEFINE a == SubSeq(q, 1, k - 1)
           b == SubSeq(q, k, Len(q))
           r == InsertAt(q, k, x)
<1>1. Len(q) \in Nat /\ DOMAIN q = 1..Len(q) /\ \A i \in 1..Len(q) : q[i] \in S
    BY LenProperties
<1>2. /\ a \in Seq(S) /\ Len(a) = k - 1
      /\ \A i \in 1..(k - 1) : a[i] = q[i]
    <2>1. \A i \in 1..(k - 1) : q[i] \in S
        BY <1>1
    <2>2. k - 1 \in Int
        BY <1>1
    <2>3. /\ a \in Seq(S)
          /\ Len(a) = IF 1 <= k - 1 THEN k - 1 - 1 + 1 ELSE 0
          /\ \A i \in 1..(k - 1 - 1 + 1) : a[i] = q[1 + i - 1]
        BY <2>1, <2>2, SubSeqProperties
    <2> QED BY <2>3, <1>1
<1>3. /\ b \in Seq(S) /\ Len(b) = Len(q) - k + 1
      /\ \A i \in 1..(Len(q) - k + 1) : b[i] = q[k + i - 1]
    <2>1. \A i \in k..Len(q) : q[i] \in S
        BY <1>1
    <2>2. k \in Int /\ Len(q) \in Int
        BY <1>1
    <2>3. /\ b \in Seq(S)
          /\ Len(b) = IF k <= Len(q) THEN Len(q) - k + 1 ELSE 0
          /\ \A i \in 1..(Len(q) - k + 1) : b[i] = q[k + i - 1]
        BY <2>1, <2>2, SubSeqProperties
    <2> QED BY <2>3, <1>1
<1>4. <<x>> \in Seq(S) /\ Len(<<x>>) = 1 /\ <<x>>[1] = x
    OBVIOUS
<1> HIDE DEF a, b
<1>5. /\ a \o <<x>> \in Seq(S) /\ Len(a \o <<x>>) = k
      /\ \A i \in 1..k : (a \o <<x>>)[i] = IF i <= k - 1 THEN a[i] ELSE x
    <2>1. /\ a \o <<x>> \in Seq(S) /\ Len(a \o <<x>>) = Len(a) + Len(<<x>>)
          /\ \A i \in 1..(Len(a) + Len(<<x>>)) : (a \o <<x>>)[i] =
                IF i <= Len(a) THEN a[i] ELSE <<x>>[i - Len(a)]
        BY <1>2, <1>4, ConcatProperties
    <2> QED BY <2>1, <1>1, <1>2, <1>4
<1>6. r = (a \o <<x>>) \o b
    BY DEF a, b, InsertAt
<1>7. /\ r \in Seq(S) /\ Len(r) = Len(q) + 1
      /\ \A i \in 1..(Len(q) + 1) :
            r[i] = IF i <= k THEN (a \o <<x>>)[i] ELSE b[i - k]
    <2> DEFINE c == a \o <<x>>
    <2>1. c \in Seq(S) /\ Len(c) = k
        BY <1>5
    <2> HIDE DEF c
    <2>2. /\ c \o b \in Seq(S) /\ Len(c \o b) = Len(c) + Len(b)
          /\ \A i \in 1..(Len(c) + Len(b)) :
                (c \o b)[i] = IF i <= Len(c) THEN c[i] ELSE b[i - Len(c)]
        BY <1>3, <2>1, ConcatProperties
    <2>3. Len(c) + Len(b) = Len(q) + 1
        BY <2>1, <1>3, <1>1
    <2> QED BY <2>1, <2>2, <2>3, <1>6 DEF c
<1> HIDE DEF r
<1>8. \A i \in 1..(Len(q) + 1) :
         r[i] = IF i < k THEN q[i] ELSE IF i = k THEN x ELSE q[i - 1]
    <2> TAKE i \in 1..(Len(q) + 1)
    <2>1. CASE i < k
        <3>1. i \in 1..k - 1 /\ i \in 1..k /\ i <= k
            BY <2>1, <1>1
        <3>2. r[i] = (a \o <<x>>)[i]
            BY <3>1, <1>7
        <3>3. (a \o <<x>>)[i] = a[i] /\ a[i] = q[i]
            BY <3>1, <1>1, <1>2, <1>5
        <3> QED BY <3>2, <3>3, <2>1
    <2>2. CASE i = k
        BY <2>2, <1>1, <1>5, <1>7
    <2>3. CASE i > k
        <3>1. i - k \in 1..(Len(q) - k + 1) /\ k + (i - k) - 1 = i - 1
            BY <2>3, <1>1
        <3>2. b[i - k] = q[i - 1]
            BY <3>1, <1>3
        <3> QED BY <2>3, <3>2, <1>7, <1>1
    <2> QED BY <2>1, <2>2, <2>3, <1>1
<1> QED BY <1>7, <1>8 DEF r

LEMMA InsertFact ==
    ASSUME NEW S, NEW q \in Seq(S), NEW x \in S, NEW k \in 1..Len(q) + 1
    PROVE  /\ InsertAt(q, k, x) \in Seq(S)
           /\ Range(InsertAt(q, k, x)) = Range(q) \cup {x}
           /\ IsInjective(q) /\ x \notin Range(q)
                 => IsInjective(InsertAt(q, k, x))
<1> DEFINE r == InsertAt(q, k, x)
<1>1. Len(q) \in Nat /\ DOMAIN q = 1..Len(q) /\ \A i \in 1..Len(q) : q[i] \in S
    BY LenProperties
<1>2. r \in Seq(S) /\ Len(r) = Len(q) + 1
    BY InsertPlaces
<1>3. \A i \in 1..(Len(q) + 1) :
         r[i] = IF i < k THEN q[i] ELSE IF i = k THEN x ELSE q[i - 1]
    BY InsertPlaces
<1> HIDE DEF r
<1>4. DOMAIN r = 1..(Len(q) + 1)
    BY <1>2, LenProperties
<1>5. Range(r) = Range(q) \cup {x}
    <2>1. \A y \in Range(r) : y \in Range(q) \cup {x}
        BY <1>3, <1>4, <1>1 DEF Range
    <2>2. \A y \in Range(q) : y \in Range(r)
        <3> TAKE y \in Range(q)
        <3>1. PICK i \in 1..Len(q) : q[i] = y
            BY <1>1 DEF Range
        <3>2. CASE i < k
            BY <3>1, <3>2, <1>1, <1>3, <1>4 DEF Range
        <3>3. CASE i >= k
            <4>1. i + 1 \in 1..(Len(q) + 1) /\ r[i + 1] = q[i]
                BY <3>3, <1>1, <1>3
            <4> QED BY <4>1, <3>1, <1>4 DEF Range
        <3> QED BY <3>2, <3>3, <1>1
    <2>3. r[k] = x /\ k \in DOMAIN r
        BY <1>1, <1>3, <1>4
    <2> QED BY <2>1, <2>2, <2>3 DEF Range
<1>6. IsInjective(q) /\ x \notin Range(q) => IsInjective(r)
    <2> SUFFICES ASSUME IsInjective(q), x \notin Range(q),
                        NEW i \in 1..(Len(q) + 1), NEW j \in 1..(Len(q) + 1),
                        r[i] = r[j]
                 PROVE  i = j
        BY <1>4 DEF IsInjective
    <2>1. \A n \in 1..Len(q) : q[n] # x
        BY <1>1 DEF Range
    <2>2. \A n, m \in 1..Len(q) : q[n] = q[m] => n = m
        BY <1>1 DEF IsInjective
    <2>3. \A n \in 1..(Len(q) + 1) :
             n = k \/ (n < k /\ n \in 1..Len(q) /\ r[n] = q[n])
                   \/ (n > k /\ n - 1 \in 1..Len(q) /\ r[n] = q[n - 1])
        BY <1>1, <1>3
    <2>4. r[k] = x
        BY <1>1, <1>3
    <2> QED BY <2>1, <2>2, <2>3, <2>4, <1>1
<1> QED BY <1>2, <1>5, <1>6 DEF r

\* insertResend puts its message somewhere into the queue.
LEMMA ResendFact ==
    ASSUME NEW q \in Seq(Nat), NEW i \in Nat
    PROVE  /\ InsertResend(q, i) \in Seq(Nat)
           /\ Range(InsertResend(q, i)) = Range(q) \cup {i}
           /\ IsInjective(q) /\ i \notin Range(q)
                 => IsInjective(InsertResend(q, i))
           /\ \E k \in 1..Len(q) + 1 : InsertResend(q, i) = InsertAt(q, k, i)
<1> DEFINE older == {k \in 2..Len(q) : \A j \in 2..k : q[j] < i}
           at == IF q = <<>> \/ i < q[1] THEN 1 ELSE Cardinality(older) + 2
<1>1. Len(q) \in Nat
    BY LenProperties
<1>2. /\ IsFiniteSet(2..Len(q))
      /\ Cardinality(2..Len(q)) = IF 2 > Len(q) THEN 0 ELSE Len(q) - 2 + 1
    <2>1. 2 \in Int /\ Len(q) \in Int
        BY <1>1
    <2>2. PICK n : n = Len(q)
        OBVIOUS
    <2>3. n \in Int
        BY <2>1, <2>2
    <2>4. IsFiniteSet(2..n) /\ Cardinality(2..n) = IF 2 > n THEN 0 ELSE n - 2 + 1
        BY <2>1, <2>3, FS_Interval
    <2> QED BY <2>2, <2>4, Zenon
<1>3. IsFiniteSet(older) /\ Cardinality(older) =< Cardinality(2..Len(q))
    BY <1>2, FS_Subset
<1>4. Cardinality(older) \in Nat
    BY <1>3, FS_CardinalityType
<1>5. q # <<>> => Len(q) # 0
    BY EmptySeq
<1> HIDE DEF older
<1>6. at \in 1..Len(q) + 1
    <2>1. CASE q = <<>> \/ i < q[1]
        BY <2>1, <1>1
    <2>2. CASE ~(q = <<>> \/ i < q[1])
        <3>1. Len(q) # 0 /\ at = Cardinality(older) + 2
            BY <2>2, <1>5
        <3>2. Cardinality(older) =< IF 2 > Len(q) THEN 0 ELSE Len(q) - 2 + 1
            BY <1>2, <1>3
        <3> HIDE DEF at
        <3> QED BY <3>1, <3>2, <1>1, <1>4
    <2> QED BY <2>1, <2>2
<1>7. InsertResend(q, i) = InsertAt(q, at, i)
    BY DEF InsertResend, older
<1> HIDE DEF at
<1>8. /\ InsertAt(q, at, i) \in Seq(Nat)
      /\ Range(InsertAt(q, at, i)) = Range(q) \cup {i}
      /\ IsInjective(q) /\ i \notin Range(q) => IsInjective(InsertAt(q, at, i))
    BY <1>6, InsertFact, Zenon
<1> QED BY <1>6, <1>7, <1>8, Zenon

\* A function on 1..n is a sequence.
LEMMA FunctionFact ==
    ASSUME NEW S, NEW n \in Nat, NEW f \in [1..n -> S]
    PROVE  f \in Seq(S) /\ Len(f) = n
<1>1. f \in Seq(S)
    BY SeqDef
<1>2. DOMAIN f = 1..n /\ DOMAIN f = 1..Len(f) /\ Len(f) \in Nat
    BY <1>1, LenProperties
<1> QED BY <1>1, <1>2

\* Of two numbers.
LEMMA MaxFact ==
    ASSUME NEW a \in Int, NEW b \in Int
    PROVE  Max({a, b}) = IF a >= b THEN a ELSE b
<1>1. \E x \in {a, b} : \A y \in {a, b} : x >= y
    OBVIOUS
<1>2. Max({a, b}) \in {a, b} /\ \A y \in {a, b} : Max({a, b}) >= y
    BY <1>1 DEF Max
<1> QED BY <1>2

LEMMA MinFact ==
    ASSUME NEW a \in Int, NEW b \in Int
    PROVE  Min({a, b}) = IF a =< b THEN a ELSE b
<1>1. \E x \in {a, b} : \A y \in {a, b} : x =< y
    OBVIOUS
<1>2. Min({a, b}) \in {a, b} /\ \A y \in {a, b} : Min({a, b}) =< y
    BY <1>1 DEF Min
<1> QED BY <1>2

\* A channel has two ends.
LEMMA OtherFact ==
    ASSUME NEW p \in Peer
    PROVE  /\ Other(p) \in Peer /\ Other(p) # p
           /\ \A q \in Peer : q # p <=> q = Other(p)
           /\ Other(Other(p)) = p
<1>1. \A x \in Peer : \E y \in Peer : Peer = {x, y} /\ x # y
    BY PeerAssumption
<1>2. \A x \in Peer : Other(x) \in Peer /\ Other(x) # x
    <2> TAKE x \in Peer
    <2>1. \E y \in Peer : y # x
        BY <1>1
    <2> QED BY <2>1 DEF Other
<1>3. \A q \in Peer : q # p <=> q = Other(p)
    <2>1. PICK y \in Peer : Peer = {p, y} /\ p # y
        BY <1>1
    <2> QED BY <1>2, <2>1
<1> QED BY <1>2, <1>3

\* The least of some numbers is one of them.
LEMMA MinInSet ==
    ASSUME NEW S, S \subseteq Nat, S # {}
    PROVE  Min(S) \in S
<1> DEFINE R == OpToRel(<, Nat)
<1>1. IsWellFoundedOn(R, Nat)
    BY NatLessThanWellFounded
<1>2. \A y, z \in Nat : y < z => <<y, z>> \in R
    <2>1. R = {ss \in Nat \X Nat : ss[1] < ss[2]}
        BY DEF OpToRel
    <2> HIDE DEF R
    <2> QED BY <2>1
<1> HIDE DEF R
<1>3. PICK y \in S : \A z \in S : ~ (<<z, y>> \in R)
    BY <1>1, WFMin, Zenon
<1>4. \A z \in S : ~ (z < y)
    BY <1>2, <1>3, Zenon
<1>5. \A z \in S : y =< z
    BY <1>4
<1> QED BY <1>5 DEF Min

-----------------------------------------------------------------------------
(***************************************************************************)
(* What a step may do to the messages of a peer: a message that has been   *)
(* sent keeps what its packet told of it, an acknowledged one keeps all.   *)
(***************************************************************************)
Keeps(m, n) ==
    /\ m.serial # 0 /\ (m.ord => m.pred = 0) =>
          /\ n.serial = m.serial /\ n.vim = m.vim
          /\ n.dummy = m.dummy /\ n.ord = m.ord
          /\ m.ord => n.pred = 0 /\ n.ctl2 = m.ctl2
    /\ m.status = "ack" => n = m

Grows(ms, grown) ==
    Len(ms) =< Len(grown) /\ \A i \in 1..Len(ms) : Keeps(ms[i], grown[i])

LEMMA KeepsTransitive ==
    ASSUME NEW m, NEW n, NEW o, Keeps(m, n), Keeps(n, o)
    PROVE  Keeps(m, o)
BY DEF Keeps

LEMMA GrowsTransitive ==
    ASSUME NEW a \in Seq(NetMessage), NEW b \in Seq(NetMessage),
           NEW c \in Seq(NetMessage), Grows(a, b), Grows(b, c)
    PROVE  Grows(a, c)
<1>1. Len(a) \in Nat /\ Len(b) \in Nat /\ Len(c) \in Nat
    BY LenProperties
<1>2. \A i \in 1..Len(a) : Keeps(a[i], b[i]) /\ Keeps(b[i], c[i])
    BY <1>1 DEF Grows
<1>3. \A i \in 1..Len(a) : Keeps(a[i], c[i])
    BY <1>2, KeepsTransitive
<1> QED BY <1>1, <1>3 DEF Grows

LEMMA GrowsSame ==
    ASSUME NEW ms \in Seq(NetMessage)
    PROVE  Grows(ms, ms)
<1>1. Len(ms) =< Len(ms)
    BY LenProperties
<1> QED BY <1>1 DEF Grows, Keeps

LEMMA GrowsAppend ==
    ASSUME NEW ms \in Seq(NetMessage), NEW m \in NetMessage
    PROVE  Grows(ms, Append(ms, m))
<1>1. /\ Len(ms) \in Nat /\ Len(Append(ms, m)) = Len(ms) + 1
      /\ \A i \in 1..Len(ms) : Append(ms, m)[i] = ms[i]
    BY AppendProperties, LenProperties
<1>2. \A i \in 1..Len(ms) : Keeps(ms[i], Append(ms, m)[i])
    BY <1>1 DEF Keeps
<1> QED BY <1>1, <1>2 DEF Grows

\* One message changes.
LEMMA GrowsExcept ==
    ASSUME NEW ms \in Seq(NetMessage), NEW i \in 1..Len(ms),
           NEW m \in NetMessage, Keeps(ms[i], m)
    PROVE  /\ [ms EXCEPT ![i] = m] \in Seq(NetMessage)
           /\ Len([ms EXCEPT ![i] = m]) = Len(ms)
           /\ \A j \in 1..Len(ms) :
                 [ms EXCEPT ![i] = m][j] = IF j = i THEN m ELSE ms[j]
           /\ Grows(ms, [ms EXCEPT ![i] = m])
<1> DEFINE new == [ms EXCEPT ![i] = m]
<1>1. Len(ms) \in Nat /\ DOMAIN ms = 1..Len(ms) /\ ms \in [1..Len(ms) -> NetMessage]
    BY LenProperties
<1>2. /\ new \in [1..Len(ms) -> NetMessage]
      /\ \A j \in 1..Len(ms) : new[j] = IF j = i THEN m ELSE ms[j]
    BY <1>1
<1> HIDE DEF new
<1>3. new \in Seq(NetMessage) /\ Len(new) = Len(ms)
    BY <1>1, <1>2, FunctionFact
<1>4. \A j \in 1..Len(ms) : Keeps(ms[j], new[j])
    <2> TAKE j \in 1..Len(ms)
    <2>1. Keeps(ms[j], ms[j])
        BY DEF Keeps
    <2> QED BY <1>2, <2>1
<1> QED BY <1>1, <1>2, <1>3, <1>4 DEF Grows, new

\* Serials stay in order: a message is added, ...
LEMMA SerialsAppend ==
    ASSUME NEW ms \in Seq(NetMessage), NEW next \in Nat, SerialsFit(ms, next),
           NEW m \in NetMessage, m.serial = 0
    PROVE  SerialsFit(Append(ms, m), next)
<1> DEFINE n == Len(ms) + 1
           new == Append(ms, m)
<1>1. /\ Len(ms) \in Nat /\ Len(new) = n /\ new[n] = m
      /\ \A i \in 1..Len(ms) : new[i] = ms[i]
    BY AppendProperties, LenProperties
<1>2. /\ \A i \in 1..n : i \in 1..Len(ms) \/ i = n
      /\ \A i \in 1..Len(ms) : i \in 1..n
    BY <1>1
<1> HIDE DEF n, new
<1>3. \A i \in 1..n : new[i].serial # 0 => i \in 1..Len(ms) /\ new[i] = ms[i]
    BY <1>1, <1>2
<1> QED BY <1>1, <1>2, <1>3 DEF SerialsFit, new

\* ... messages change, but not their serials, ...
LEMMA SerialsSame ==
    ASSUME NEW ms, NEW new, NEW next \in Nat, SerialsFit(ms, next),
           Len(new) = Len(ms), \A i \in 1..Len(ms) : new[i].serial = ms[i].serial
    PROVE  SerialsFit(new, next)
BY DEF SerialsFit

\* ... or a message gets the next one.
LEMMA SerialsNext ==
    ASSUME NEW ms \in Seq(NetMessage), NEW next \in Nat, SerialsFit(ms, next),
           \A i \in 1..Len(ms) : ms[i].serial \in 0..next - 1,
           NEW new, Len(new) = Len(ms), NEW k \in 1..Len(ms),
           ms[k].serial = 0, new[k].serial = next,
           \A i \in 1..Len(ms) : i # k => new[i].serial = ms[i].serial
    PROVE  SerialsFit(new, next + 1)
<1>1. Len(ms) \in Nat
    BY LenProperties
<1>2. \A i \in 1..Len(ms) : i # k => new[i].serial # next
    BY <1>1
<1>3. ASSUME NEW i \in 1..Len(new), NEW j \in 1..Len(new),
             new[i].serial = new[j].serial, new[i].serial # 0
      PROVE  i = j
    <2>1. CASE i = k \/ j = k
        BY <1>1, <1>2, <1>3, <2>1
    <2>2. CASE i # k /\ j # k
        <3>1. /\ i \in 1..Len(ms) /\ j \in 1..Len(ms)
              /\ ms[i].serial = ms[j].serial /\ ms[i].serial # 0
            BY <1>3, <2>2
        <3> QED BY <3>1 DEF SerialsFit
    <2> QED BY <2>1, <2>2
<1>4. ASSUME NEW s \in 1..next + 1 - 1
      PROVE  \E i \in 1..Len(new) : new[i].serial = s
    <2>1. CASE s = next
        BY <2>1, <1>1
    <2>2. CASE s # next
        <3>1. s \in 1..next - 1
            BY <2>2
        <3>2. PICK i \in 1..Len(ms) : ms[i].serial = s
            BY <3>1 DEF SerialsFit
        <3> QED BY <3>1, <3>2
    <2> QED BY <2>1, <2>2
<1> QED BY <1>3, <1>4 DEF SerialsFit

\* As long as some message has no serial, the next one is not above the number
\* of messages: each serial below it belongs to another message.
LEMMA SerialsCount ==
    ASSUME NEW ms \in Seq(NetMessage), NEW next \in Nat \ {0}, SerialsFit(ms, next),
           NEW k \in 1..Len(ms), ms[k].serial = 0
    PROVE  next =< Len(ms)
<1> DEFINE S == 1..next - 1
           T == (1..Len(ms)) \ {k}
           f == [s \in S |-> CHOOSE i \in 1..Len(ms) : ms[i].serial = s]
<1>1. Len(ms) \in Nat \ {0}
    <2>1. Len(ms) \in Nat
        BY LenProperties
    <2> QED BY <2>1
<1>2. IsFiniteSet(S) /\ Cardinality(S) = next - 1
    <2>1. next - 1 \in Int /\ 1 \in Int
        OBVIOUS
    <2>2. /\ IsFiniteSet(S)
          /\ Cardinality(S) = IF 1 > next - 1 THEN 0 ELSE next - 1 - 1 + 1
        BY <2>1, FS_Interval, Zenon
    <2> HIDE DEF S
    <2> QED BY <2>2
<1>3. IsFiniteSet(T) /\ Cardinality(T) = Len(ms) - 1
    <2> DEFINE I == 1..Len(ms)
    <2>1. Len(ms) \in Int /\ 1 \in Int
        BY <1>1
    <2>2. IsFiniteSet(I) /\ Cardinality(I) = IF 1 > Len(ms) THEN 0 ELSE Len(ms) - 1 + 1
        BY <2>1, FS_Interval, Zenon
    <2> HIDE DEF I
    <2>3. Cardinality(I) = Len(ms) /\ k \in I
        BY <2>2, <1>1 DEF I
    <2>4. /\ IsFiniteSet(I \ {k})
          /\ Cardinality(I \ {k}) = IF k \in I THEN Cardinality(I) - 1 ELSE Cardinality(I)
        BY <2>2, FS_RemoveElement
    <2> QED BY <2>3, <2>4 DEF I
<1>4. \A s \in S : f[s] \in 1..Len(ms) /\ ms[f[s]].serial = s
    <2> TAKE s \in S
    <2>1. \E i \in 1..Len(ms) : ms[i].serial = s
        BY DEF SerialsFit
    <2> QED BY <2>1
<1>5. f \in [S -> T]
    <2>1. \A s \in S : f[s] \in T
        <3> TAKE s \in S
        <3>1. s # 0
            OBVIOUS
        <3> HIDE DEF f, S
        <3> QED BY <1>4, <3>1
    <2>2. f = [s \in S |-> f[s]]
        OBVIOUS
    <2> HIDE DEF f, S, T
    <2> QED BY <2>1, <2>2
<1>6. \A x, y \in S : f[x] = f[y] => x = y
    <2> HIDE DEF f, S
    <2> QED BY <1>4
<1>7. ~ (Cardinality(T) < Cardinality(S))
    <2> HIDE DEF f, S, T
    <2>1. ASSUME Cardinality(T) < Cardinality(S)
          PROVE  FALSE
        <3>1. \E x, y \in S : x # y /\ f[x] = f[y]
            BY <1>2, <1>3, <1>5, <2>1, FS_PigeonHole
        <3> QED BY <3>1, <1>6
    <2> QED BY <2>1
<1> HIDE DEF S, T, f
<1> QED BY <1>1, <1>2, <1>3, <1>7

-----------------------------------------------------------------------------
(***************************************************************************)
(* The outgoing side of p, as the listener of p changes it.                *)
(***************************************************************************)

\* A message with no serial is appended and queued as urgent.
LEMMA NewUrgentSound ==
    ASSUME NEW p \in Peer, SenderTypes, NEW out, Sound(p, out),
           NEW m \in NetMessage, m.serial = 0, m.status = "new",
           m.pred = 0, m.ctl2 = 0
    PROVE  Sound(p, NewUrgent(out, m)) /\ Grows(out.msgs, NewUrgent(out, m).msgs)
<1> DEFINE n == Len(out.msgs) + 1
           new == NewUrgent(out, m)
<1>1. /\ out \in [msgs : Seq(NetMessage), urgentQ : Seq(Nat), commonQ : Seq(Nat)]
      /\ out.msgs \in Seq(NetMessage) /\ out.urgentQ \in Seq(Nat)
      /\ Len(out.msgs) \in Nat /\ n \in Nat
    BY LenProperties DEF Sound, OutTypes
<1>2. /\ new.msgs = Append(out.msgs, m)
      /\ new.urgentQ = Append(out.urgentQ, n)
      /\ new.commonQ = out.commonQ
      /\ new = [msgs |-> new.msgs, urgentQ |-> new.urgentQ, commonQ |-> new.commonQ]
    BY <1>1 DEF NewUrgent
<1>3. /\ new.msgs \in Seq(NetMessage) /\ Len(new.msgs) = n
      /\ \A i \in 1..Len(out.msgs) : new.msgs[i] = out.msgs[i]
      /\ new.msgs[n] = m
    BY <1>1, <1>2, AppendProperties
<1>4. /\ new.urgentQ \in Seq(Nat)
      /\ Range(new.urgentQ) = Range(out.urgentQ) \cup {n}
      /\ IsInjective(out.urgentQ) /\ n \notin Range(out.urgentQ)
            => IsInjective(new.urgentQ)
    <2> DEFINE q == out.urgentQ
    <2>1. q \in Seq(Nat) /\ n \in Nat
        BY <1>1
    <2>2. new.urgentQ = Append(q, n)
        BY <1>2
    <2> HIDE DEF n, q, new
    <2>3. /\ Append(q, n) \in Seq(Nat) /\ Range(Append(q, n)) = Range(q) \cup {n}
          /\ IsInjective(q) /\ n \notin Range(q) => IsInjective(Append(q, n))
        BY <2>1, AppendFact
    <2> QED BY <2>2, <2>3 DEF q
<1> HIDE DEF new
<1>5. QueuedIn(p, new) = QueuedIn(p, out) \cup {n}
    BY <1>2, <1>4 DEF QueuedIn
<1>6. n \notin QueuedIn(p, out) \cup revisited[p] \cup {draft[p], prepared[p]}
    BY <1>1 DEF Sound, OutTypes
<1>7. OutTypes(p, new)
    <2>1. new \in [msgs : Seq(NetMessage), urgentQ : Seq(Nat), commonQ : Seq(Nat)]
        BY <1>1, <1>2, <1>3, <1>4
    <2>2. OutTypes(p, out)
        BY DEF Sound
    <2>3. QueuedIn(p, new) \cup revisited[p] \subseteq 1..n
        BY <2>2, <1>1, <1>5 DEF OutTypes
    <2>4. {draft[p], prepared[p], lastUrgent[p], lastVIM[p]} \subseteq 0..n
        BY <2>2, <1>1 DEF OutTypes
    <2>5. Range(dispatched[p]) \subseteq 1..n
        BY <2>2, <1>1 DEF OutTypes
    <2>6. serial[p] \in 1..n + 1
        BY <2>2, <1>1 DEF OutTypes
    <2> HIDE DEF n
    <2> QED BY <2>1, <2>3, <2>4, <2>5, <2>6, <1>3 DEF OutTypes
<1>8. PlacesApart(p, new)
    BY <1>2, <1>4, <1>5, <1>6 DEF Sound, PlacesApart, QueuesApart, QueuedIn
<1>9. \A i \in 1..n : StatusFits(p, new, i)
    <2>1. \A i \in 1..Len(out.msgs) : StatusFits(p, new, i)
        BY <1>1, <1>2, <1>3, <1>5 DEF Sound, StatusFits
    <2>2. StatusFits(p, new, n)
        <3>1. new.msgs[n] = m /\ Len(new.msgs) \in Nat
            BY <1>1, <1>3
        <3>2. n # prepared[p] /\ n \notin revisited[p]
            BY <1>6
        <3>3. n \notin Range(new.commonQ)
            BY <1>2, <1>6 DEF QueuedIn
        <3>4. serial[p] \in Nat \ {0}
            BY <1>1 DEF Sound, OutTypes
        <3>5. m.serial \in 0..serial[p] - 1 /\ m.ctl2 \in 0..serial[p] - 1
            BY <3>4
        <3>6. m.pred \in 0..Len(new.msgs)
            BY <3>1
        <3> HIDE DEF new, n
        <3> QED BY <3>1, <3>2, <3>3, <3>5, <3>6 DEF StatusFits
    <2> QED BY <2>1, <2>2, <1>1
<1>10. \A i \in Range(dispatched[p]) : VimKept(p, new, i)
    BY <1>3, <1>5 DEF Sound, VimKept, OutTypes
<1>11. SerialsFit(new.msgs, serial[p])
    <2>1. serial[p] \in Nat /\ SerialsFit(out.msgs, serial[p])
        BY DEF Sound, SenderTypes
    <2> QED BY <2>1, <1>1, <1>2, SerialsAppend
<1>12. Grows(out.msgs, new.msgs)
    BY <1>1, <1>2, GrowsAppend
<1> QED BY <1>3, <1>7, <1>8, <1>9, <1>10, <1>11, <1>12 DEF Sound, new

\* Messages change in what the invariant does not look at, or become "ack" when
\* they are remembered.
Edits(p, ms, edited) ==
    /\ edited \in Seq(NetMessage) /\ Len(edited) = Len(ms)
    /\ \A i \in 1..Len(ms) :
          /\ edited[i].serial = ms[i].serial /\ edited[i].vim = ms[i].vim
          /\ edited[i].pred = ms[i].pred /\ edited[i].ctl2 = ms[i].ctl2
          /\ \/ edited[i].status = ms[i].status
             \/ edited[i].status = "ack" /\ i \in revisited[p]

LEMMA EditSound ==
    ASSUME NEW p \in Peer, NEW out, Sound(p, out), NEW edited,
           Edits(p, out.msgs, edited)
    PROVE  Sound(p, [out EXCEPT !.msgs = edited])
<1> DEFINE ms == out.msgs
           new == [out EXCEPT !.msgs = edited]
<1>1. /\ out \in [msgs : Seq(NetMessage), urgentQ : Seq(Nat), commonQ : Seq(Nat)]
      /\ OutTypes(p, out) /\ PlacesApart(p, out) /\ SerialsFit(out.msgs, serial[p])
      /\ \A i \in 1..Len(ms) : StatusFits(p, out, i)
      /\ \A i \in Range(dispatched[p]) : VimKept(p, out, i)
    BY DEF Sound, OutTypes
<1>2. new.msgs = edited /\ new.urgentQ = out.urgentQ /\ new.commonQ = out.commonQ
    BY <1>1
<1>3. edited \in Seq(NetMessage) /\ Len(edited) = Len(ms)
    BY DEF Edits
<1>4. new \in [msgs : Seq(NetMessage), urgentQ : Seq(Nat), commonQ : Seq(Nat)]
    BY <1>1, <1>3
<1> HIDE DEF new
<1>5. QueuedIn(p, new) = QueuedIn(p, out)
    BY <1>2 DEF QueuedIn
<1>6. OutTypes(p, new)
    BY <1>1, <1>2, <1>3, <1>4, <1>5 DEF OutTypes
<1>7. PlacesApart(p, new)
    BY <1>1, <1>2, <1>5 DEF PlacesApart, QueuesApart
<1>8. ASSUME NEW i \in 1..Len(ms)
      PROVE  StatusFits(p, new, i)
    <2>1. StatusFits(p, out, i)
        BY <1>1
    <2>2. CASE edited[i].status = ms[i].status
        BY <2>1, <2>2, <1>2, <1>3, <1>5 DEF StatusFits, Edits
    <2>3. CASE edited[i].status = "ack" /\ i \in revisited[p]
        <3>1. ms[i].serial # 0
            BY <2>1, <2>3 DEF StatusFits
        <3>2. i \notin QueuedIn(p, out) /\ i # prepared[p] /\ i # draft[p]
            BY <2>1, <2>3, <1>1 DEF PlacesApart, StatusFits
        <3> QED BY <2>1, <2>3, <3>1, <3>2, <1>2, <1>3, <1>5 DEF StatusFits, Edits
    <2> QED BY <2>2, <2>3 DEF Edits
<1>9. \A i \in Range(dispatched[p]) : VimKept(p, new, i)
    <2> TAKE i \in Range(dispatched[p])
    <2>1. VimKept(p, out, i) /\ i \in 1..Len(ms)
        BY <1>1 DEF OutTypes
    <2> QED BY <2>1, <1>2, <1>5 DEF VimKept, Edits
<1>10. SerialsFit(edited, serial[p])
    <2>1. \A i \in 1..Len(ms) : edited[i].serial = ms[i].serial
        BY DEF Edits
    <2>2. serial[p] \in Nat /\ ms \in Seq(NetMessage)
        BY <1>1, LenProperties DEF OutTypes
    <2> HIDE DEF ms
    <2>3. SerialsFit(ms, serial[p])
        BY <1>1 DEF ms
    <2> QED BY <1>3, <2>1, <2>2, <2>3, SerialsSame
<1> QED BY <1>2, <1>3, <1>6, <1>7, <1>8, <1>9, <1>10 DEF Sound, new

\* One message changes in what the invariant does not look at.
LEMMA EditFact ==
    ASSUME NEW p \in Peer, NEW ms \in Seq(NetMessage), NEW i \in 1..Len(ms),
           NEW m \in NetMessage, m.serial = ms[i].serial, m.vim = ms[i].vim,
           m.pred = ms[i].pred, m.ctl2 = ms[i].ctl2, m.status = ms[i].status
    PROVE  Edits(p, ms, [ms EXCEPT ![i] = m])
<1>1. Len(ms) \in Nat /\ DOMAIN ms = 1..Len(ms) /\ ms \in [1..Len(ms) -> NetMessage]
    BY LenProperties
<1> DEFINE edited == [ms EXCEPT ![i] = m]
<1>2. /\ edited \in [1..Len(ms) -> NetMessage]
      /\ \A j \in 1..Len(ms) : edited[j] = IF j = i THEN m ELSE ms[j]
    BY <1>1
<1> HIDE DEF edited
<1>3. edited \in Seq(NetMessage) /\ Len(edited) = Len(ms)
    BY <1>1, <1>2, FunctionFact
<1> QED BY <1>2, <1>3 DEF Edits, edited

\* The oldest common message becomes the last urgent one.
LEMMA UpgradeSound ==
    ASSUME NEW p \in Peer, SenderTypes, NEW out, Sound(p, out), out.commonQ # <<>>
    PROVE  Sound(p, [msgs |-> out.msgs,
                     urgentQ |-> Append(out.urgentQ, Head(out.commonQ)),
                     commonQ |-> Tail(out.commonQ)])
<1> DEFINE i == Head(out.commonQ)
           uq == Append(out.urgentQ, i)
           cq == Tail(out.commonQ)
           new == [msgs |-> out.msgs, urgentQ |-> uq, commonQ |-> cq]
<1>1. /\ out.msgs \in Seq(NetMessage)
      /\ out.urgentQ \in Seq(Nat) /\ out.commonQ \in Seq(Nat)
      /\ OutTypes(p, out) /\ PlacesApart(p, out) /\ SerialsFit(out.msgs, serial[p])
      /\ \A k \in 1..Len(out.msgs) : StatusFits(p, out, k)
      /\ \A k \in Range(dispatched[p]) : VimKept(p, out, k)
    BY DEF Sound, OutTypes
<1>2. /\ i \in Nat /\ i \in Range(out.commonQ) /\ cq \in Seq(Nat)
      /\ Range(out.commonQ) = Range(cq) \cup {i}
      /\ IsInjective(out.commonQ) => IsInjective(cq) /\ i \notin Range(cq)
    <2> HIDE DEF cq, i
    <2>1. \A q \in Seq(Nat) : q # <<>> =>
             /\ Head(q) \in Nat /\ Head(q) \in Range(q) /\ Tail(q) \in Seq(Nat)
             /\ Range(q) = Range(Tail(q)) \cup {Head(q)}
             /\ IsInjective(q) => IsInjective(Tail(q)) /\ Head(q) \notin Range(Tail(q))
        BY TailFact
    <2> QED BY <1>1, <2>1 DEF cq, i
<1> HIDE DEF i
<1>3. /\ uq \in Seq(Nat) /\ Range(uq) = Range(out.urgentQ) \cup {i}
      /\ IsInjective(out.urgentQ) /\ i \notin Range(out.urgentQ) => IsInjective(uq)
    <2>1. \A q \in Seq(Nat), x \in Nat :
             /\ Append(q, x) \in Seq(Nat) /\ Range(Append(q, x)) = Range(q) \cup {x}
             /\ IsInjective(q) /\ x \notin Range(q) => IsInjective(Append(q, x))
        BY AppendFact
    <2> QED BY <1>1, <1>2, <2>1, Zenon
<1> HIDE DEF uq, cq
<1>4. new.msgs = out.msgs /\ new.urgentQ = uq /\ new.commonQ = cq
    OBVIOUS
<1>5. new \in [msgs : Seq(NetMessage), urgentQ : Seq(Nat), commonQ : Seq(Nat)]
    BY <1>1, <1>2, <1>3
<1> HIDE DEF new
<1>6. QueuedIn(p, new) = QueuedIn(p, out)
    BY <1>2, <1>3, <1>4 DEF QueuedIn
<1>7. OutTypes(p, new)
    BY <1>1, <1>4, <1>5, <1>6 DEF OutTypes
<1>8. PlacesApart(p, new)
    BY <1>1, <1>2, <1>3, <1>4, <1>6 DEF PlacesApart, QueuesApart
<1>9. \A k \in 1..Len(out.msgs) : StatusFits(p, new, k)
    BY <1>1, <1>2, <1>4, <1>6 DEF StatusFits
<1>10. \A k \in Range(dispatched[p]) : VimKept(p, new, k)
    BY <1>1, <1>4, <1>6 DEF VimKept
<1>11. SerialsFit(new.msgs, serial[p])
    BY <1>1, <1>4
<1> QED BY <1>4, <1>7, <1>8, <1>9, <1>10, <1>11 DEF Sound, new, uq, cq, i

LEMMA HeartBeatSound ==
    ASSUME NEW p \in Peer, SenderTypes, NEW out, Sound(p, out), NEW ping \in BOOLEAN
    PROVE  Sound(p, HeartBeat(out, ping)) /\ Grows(out.msgs, HeartBeat(out, ping).msgs)
<1> DEFINE beat == [Blank EXCEPT !.dummy = TRUE, !.inst = ping]
           i == Head(out.urgentQ)
           m == [out.msgs[i] EXCEPT !.inst = TRUE]
<1>1. /\ out \in [msgs : Seq(NetMessage), urgentQ : Seq(Nat), commonQ : Seq(Nat)]
      /\ QueuedIn(p, out) \subseteq 1..Len(out.msgs)
    BY DEF Sound, OutTypes
<1>2. CASE out.urgentQ = <<>>
    <2>1. /\ beat \in NetMessage /\ beat.serial = 0 /\ beat.status = "new"
          /\ beat.pred = 0 /\ beat.ctl2 = 0
        BY DEF Blank, NetMessage, Status
    <2> HIDE DEF beat
    <2>2. Sound(p, NewUrgent(out, beat)) /\ Grows(out.msgs, NewUrgent(out, beat).msgs)
        BY <2>1, NewUrgentSound
    <2> QED BY <1>2, <2>2 DEF HeartBeat, beat
<1>3. CASE out.urgentQ # <<>> /\ ping
    <2>1. out.urgentQ \in Seq(Nat) /\ out.msgs \in Seq(NetMessage)
        BY <1>1
    <2>2. i \in Range(out.urgentQ)
        BY <2>1, <1>3, TailFact
    <2>3. i \in 1..Len(out.msgs)
        BY <2>2, <1>1 DEF QueuedIn
    <2>4. out.msgs[i] \in NetMessage
        BY <2>1, <2>3, LenProperties
    <2>5. /\ m \in NetMessage /\ m.serial = out.msgs[i].serial
          /\ m.vim = out.msgs[i].vim /\ m.pred = out.msgs[i].pred
          /\ m.ctl2 = out.msgs[i].ctl2 /\ m.status = out.msgs[i].status
          /\ m.dummy = out.msgs[i].dummy /\ m.ord = out.msgs[i].ord
        BY <2>4 DEF NetMessage
    <2> HIDE DEF i, m
    <2>6. out.msgs[i].status # "ack"
        BY <2>2, <2>3 DEF Sound, StatusFits, QueuedIn
    <2>7. Edits(p, out.msgs, [out.msgs EXCEPT ![i] = m])
             /\ Grows(out.msgs, [out.msgs EXCEPT ![i] = m])
        BY <2>1, <2>3, <2>5, <2>6, EditFact, GrowsExcept DEF Keeps
    <2>8. Sound(p, [out EXCEPT !.msgs = [out.msgs EXCEPT ![i] = m]])
        BY <2>7, EditSound
    <2>9. HeartBeat(out, ping) = [out EXCEPT !.msgs = [out.msgs EXCEPT ![i] = m]]
        BY <1>3 DEF HeartBeat, i, m
    <2>10. HeartBeat(out, ping).msgs = [out.msgs EXCEPT ![i] = m]
        BY <2>9, <1>1
    <2> QED BY <2>8, <2>9, <2>7, <2>10
<1>4. CASE out.urgentQ # <<>> /\ ~ping
    <2>1. HeartBeat(out, ping) = out
        BY <1>4 DEF HeartBeat
    <2> QED BY <2>1, <1>1, GrowsSame
<1> QED BY <1>2, <1>3, <1>4

\* The serials a peer acknowledges are numbers.
LEMMA DelayedSound ==
    ASSUME NEW p \in Peer, NEW out, Sound(p, out), NEW i \in QueuedIn(p, out),
           NEW request \in Nat
    PROVE  /\ Sound(p, [out EXCEPT !.msgs = [out.msgs EXCEPT ![i].delay = request]])
           /\ Grows(out.msgs, [out.msgs EXCEPT ![i].delay = request])
<1> DEFINE m == [out.msgs[i] EXCEPT !.delay = request]
<1>1. /\ out.msgs \in Seq(NetMessage)
      /\ QueuedIn(p, out) \subseteq 1..Len(out.msgs)
    BY DEF Sound, OutTypes
<1>2. i \in 1..Len(out.msgs) /\ out.msgs[i] \in NetMessage
    BY <1>1, LenProperties
<1>3. /\ m \in NetMessage /\ m.serial = out.msgs[i].serial
      /\ m.vim = out.msgs[i].vim /\ m.pred = out.msgs[i].pred
      /\ m.ctl2 = out.msgs[i].ctl2 /\ m.status = out.msgs[i].status
      /\ m.dummy = out.msgs[i].dummy /\ m.ord = out.msgs[i].ord
    BY <1>2 DEF NetMessage
<1>4. [out.msgs EXCEPT ![i].delay = request] = [out.msgs EXCEPT ![i] = m]
    OBVIOUS
<1> HIDE DEF m
<1>5. Edits(p, out.msgs, [out.msgs EXCEPT ![i] = m])
    BY <1>1, <1>2, <1>3, EditFact
<1>6. Sound(p, [out EXCEPT !.msgs = [out.msgs EXCEPT ![i] = m]])
    BY <1>5, EditSound
<1>7. out.msgs[i].status # "ack"
    BY <1>2 DEF Sound, StatusFits
<1>8. Grows(out.msgs, [out.msgs EXCEPT ![i] = m])
    BY <1>1, <1>2, <1>3, <1>7, GrowsExcept DEF Keeps
<1> QED BY <1>4, <1>6, <1>8

LEMMA DelayReplySound ==
    ASSUME NEW p \in Peer, SenderTypes, NEW out, Sound(p, out), NEW request \in Nat
    PROVE  Sound(p, DelayReply(out, request)) /\ Grows(out.msgs, DelayReply(out, request).msgs)
<1> DEFINE long == {k \in 1..Len(out.urgentQ) : ~Short(out.msgs[out.urgentQ[k]])}
           reply == [Blank EXCEPT !.delay = request]
<1>1. /\ out.urgentQ \in Seq(Nat) /\ out.commonQ \in Seq(Nat)
      /\ out \in [msgs : Seq(NetMessage), urgentQ : Seq(Nat), commonQ : Seq(Nat)]
    BY DEF Sound, OutTypes
<1>2. CASE long # {}
    <2> DEFINE i == out.urgentQ[Min(long)]
    <2>1. long \subseteq Nat /\ \A k \in long : k \in 1..Len(out.urgentQ)
        BY <1>1, LenProperties
    <2>2. Min(long) \in long
        <3> HIDE DEF long
        <3> QED BY <1>2, <2>1, MinInSet
    <2>3. i \in QueuedIn(p, out)
        <3>1. \A k \in 1..Len(out.urgentQ) : out.urgentQ[k] \in Range(out.urgentQ)
            BY <1>1, RangeFact
        <3> QED BY <2>1, <2>2, <3>1 DEF QueuedIn
    <2> HIDE DEF i
    <2>4. /\ Sound(p, [out EXCEPT !.msgs = [out.msgs EXCEPT ![i].delay = request]])
          /\ Grows(out.msgs, [out.msgs EXCEPT ![i].delay = request])
        BY <2>3, DelayedSound
    <2>5. DelayReply(out, request)
             = [out EXCEPT !.msgs = [out.msgs EXCEPT ![i].delay = request]]
        BY <1>2 DEF DelayReply, i
    <2>6. DelayReply(out, request).msgs = [out.msgs EXCEPT ![i].delay = request]
        BY <2>5, <1>1
    <2> QED BY <2>4, <2>5, <2>6
<1>3. CASE long = {} /\ out.commonQ # <<>>
    <2> DEFINE i == Head(out.commonQ)
               ms == [out.msgs EXCEPT ![i].delay = request]
               late == [out EXCEPT !.msgs = ms]
    <2>1. i \in QueuedIn(p, out)
        BY <1>1, <1>3, TailFact DEF QueuedIn
    <2>2. Sound(p, late) /\ Grows(out.msgs, ms)
        <3> HIDE DEF i
        <3> QED BY <2>1, DelayedSound
    <2>3. late.msgs = ms /\ late.urgentQ = out.urgentQ /\ late.commonQ = out.commonQ
        BY <1>1
    <2> HIDE DEF late
    <2>4. Sound(p, [msgs |-> late.msgs,
                    urgentQ |-> Append(late.urgentQ, Head(late.commonQ)),
                    commonQ |-> Tail(late.commonQ)])
        BY <2>2, <2>3, <1>3, UpgradeSound
    <2>5. DelayReply(out, request) = [msgs |-> ms,
             urgentQ |-> Append(out.urgentQ, i), commonQ |-> Tail(out.commonQ)]
        BY <1>3 DEF DelayReply
    <2>6. DelayReply(out, request).msgs = ms
        BY <2>5
    <2> QED BY <2>2, <2>3, <2>4, <2>5, <2>6
<1>4. CASE long = {} /\ out.commonQ = <<>>
    <2>1. /\ reply \in NetMessage /\ reply.serial = 0 /\ reply.status = "new"
          /\ reply.pred = 0 /\ reply.ctl2 = 0
        BY DEF Blank, NetMessage, Status
    <2> HIDE DEF reply
    <2>2. Sound(p, NewUrgent(out, reply)) /\ Grows(out.msgs, NewUrgent(out, reply).msgs)
        BY <2>1, NewUrgentSound
    <2> QED BY <1>4, <2>2 DEF DelayReply, reply
<1> QED BY <1>2, <1>3, <1>4

\* newAcknowledgement marks remembered messages only.
LEMMA MarkAckedSound ==
    ASSUME NEW p \in Peer, NEW out, Sound(p, out), NEW acks
    PROVE  /\ Sound(p, [out EXCEPT !.msgs = MarkAcked(p, @, acks)])
           /\ Grows(out.msgs, MarkAcked(p, out.msgs, acks))
<1> DEFINE ms == out.msgs
           edited == MarkAcked(p, ms, acks)
<1>1. ms \in Seq(NetMessage) /\ Len(ms) \in Nat
    BY LenProperties DEF Sound, OutTypes
<1>2. \A i \in 1..Len(ms) : ms[i] \in NetMessage
    BY <1>1, LenProperties
<1>3. /\ DOMAIN edited = 1..Len(ms)
      /\ \A i \in 1..Len(ms) :
            /\ edited[i] \in NetMessage
            /\ edited[i].serial = ms[i].serial /\ edited[i].vim = ms[i].vim
            /\ edited[i].pred = ms[i].pred /\ edited[i].ctl2 = ms[i].ctl2
            /\ \/ edited[i].status = ms[i].status
               \/ edited[i].status = "ack" /\ i \in revisited[p]
            /\ Keeps(ms[i], edited[i])
    <2> HIDE DEF ms
    <2>1. DOMAIN edited = 1..Len(ms)
        BY DEF MarkAcked
    <2>2. ASSUME NEW i \in 1..Len(ms)
          PROVE  /\ edited[i] \in NetMessage
                 /\ edited[i].serial = ms[i].serial /\ edited[i].vim = ms[i].vim
                 /\ edited[i].pred = ms[i].pred /\ edited[i].ctl2 = ms[i].ctl2
                 /\ \/ edited[i].status = ms[i].status
                    \/ edited[i].status = "ack" /\ i \in revisited[p]
                 /\ Keeps(ms[i], edited[i])
        <3>1. CASE i \in revisited[p] /\ ms[i].serial \in acks
            <4>1. edited[i] = [ms[i] EXCEPT !.status = "ack"]
                BY <3>1 DEF MarkAcked
            <4> QED BY <4>1, <3>1, <1>2 DEF NetMessage, Status, Keeps
        <3>2. CASE ~(i \in revisited[p] /\ ms[i].serial \in acks)
            <4>1. edited[i] = ms[i]
                BY <3>2 DEF MarkAcked
            <4> QED BY <4>1, <1>2 DEF Keeps
        <3> QED BY <3>1, <3>2
    <2> QED BY <2>1, <2>2
<1>4. edited = [i \in 1..Len(ms) |-> edited[i]]
    BY DEF MarkAcked
<1> HIDE DEF ms, edited
<1>5. edited \in [1..Len(ms) -> NetMessage]
    BY <1>3, <1>4
<1>6. edited \in Seq(NetMessage) /\ Len(edited) = Len(ms)
    BY <1>1, <1>5, FunctionFact
<1>7. Edits(p, ms, edited)
    BY <1>3, <1>6 DEF Edits
<1>8. Sound(p, [out EXCEPT !.msgs = edited])
    BY <1>7, EditSound DEF ms
<1>9. Grows(ms, edited)
    BY <1>1, <1>3, <1>6 DEF Grows
<1> QED BY <1>8, <1>9 DEF edited, ms

-----------------------------------------------------------------------------
(***************************************************************************)
(* The steps of the sending side.  What a step of one peer leaves alone at *)
(* the other one stays sound.                                              *)
(***************************************************************************)
SameBook(q) ==
    /\ opened'[q] = opened[q] /\ vimQ'[q] = vimQ[q] /\ draft'[q] = draft[q]
    /\ prepared'[q] = prepared[q] /\ revisited'[q] = revisited[q]
    /\ serial'[q] = serial[q] /\ lastUrgent'[q] = lastUrgent[q]
    /\ lastVIM'[q] = lastVIM[q] /\ dispatched'[q] = dispatched[q]

LEMMA BookSound ==
    ASSUME NEW q \in Peer, NEW out, Sound(q, out), SameBook(q)
    PROVE  Sound(q, out)'
<1>1. QueuedIn(q, out)' = QueuedIn(q, out)
    BY DEF SameBook, QueuedIn
<1>2. OutTypes(q, out)' <=> OutTypes(q, out)
    BY <1>1 DEF SameBook, OutTypes
<1>3. PlacesApart(q, out)' <=> PlacesApart(q, out)
    BY <1>1 DEF SameBook, PlacesApart, QueuesApart
<1>4. \A i : StatusFits(q, out, i)' <=> StatusFits(q, out, i)
    BY <1>1 DEF SameBook, StatusFits
<1>5. \A i : VimKept(q, out, i)' <=> VimKept(q, out, i)
    BY <1>1 DEF SameBook, VimKept
<1>6. SerialsFit(out.msgs, serial[q])' <=> SerialsFit(out.msgs, serial[q])
    BY DEF SameBook
<1> QED BY <1>2, <1>3, <1>4, <1>5, <1>6 DEF Sound, SameBook

LEMMA SoundSame ==
    ASSUME NEW q \in Peer, Sound(q, Outbox(q)), SameBook(q),
           Outbox(q)' = Outbox(q)
    PROVE  Sound(q, Outbox(q))'
<1>1. PICK x : x = Outbox(q)
    OBVIOUS
<1>2. Sound(q, x)'
    BY <1>1, BookSound
<1>3. Outbox(q)' = x
    BY <1>1
<1> QED BY <1>2, <1>3

\* The listener writes a sound outgoing side.
LEMMA OutboxSound ==
    ASSUME NEW p \in Peer, SenderTypes, NEW out, Sound(p, out),
           WriteOutbox(p, out), UNCHANGED vimQ, SameBook(p)
    PROVE  /\ Sound(p, Outbox(p))'
           /\ Outbox(p)' = out
           /\ msgs' \in [Peer -> Seq(NetMessage)]
           /\ urgentQ' \in [Peer -> Seq(Nat)] /\ commonQ' \in [Peer -> Seq(Nat)]
           /\ Len(msgs'[p]) =< MaxMsgs[p]
           /\ \A q \in Peer \ {p} : Outbox(q)' = Outbox(q)
<1>1. /\ out \in [msgs : Seq(NetMessage), urgentQ : Seq(Nat), commonQ : Seq(Nat)]
    BY DEF Sound, OutTypes
<1>2. /\ msgs \in [Peer -> Seq(NetMessage)]
      /\ urgentQ \in [Peer -> Seq(Nat)] /\ commonQ \in [Peer -> Seq(Nat)]
    BY DEF SenderTypes
<1>3. /\ msgs' \in [Peer -> Seq(NetMessage)]
      /\ urgentQ' \in [Peer -> Seq(Nat)] /\ commonQ' \in [Peer -> Seq(Nat)]
    BY <1>1, <1>2 DEF WriteOutbox
<1>4. /\ msgs'[p] = out.msgs /\ urgentQ'[p] = out.urgentQ
      /\ commonQ'[p] = out.commonQ
    BY <1>2 DEF WriteOutbox
<1>5. \A q \in Peer \ {p} : Outbox(q)' = Outbox(q)
    BY <1>2 DEF WriteOutbox, Outbox
<1>6. Outbox(p)' = out
    BY <1>1, <1>4 DEF Outbox
<1>7. Sound(p, out)'
    BY BookSound
<1>8. Len(msgs'[p]) =< MaxMsgs[p]
    BY <1>4 DEF WriteOutbox
<1> QED BY <1>3, <1>5, <1>6, <1>7, <1>8

QueueTypes ==
    /\ urgentQ \in [Peer -> Seq(Nat)] /\ vimQ \in [Peer -> Seq(Nat)]
    /\ commonQ \in [Peer -> Seq(Nat)]

SameQueues(q) ==
    urgentQ'[q] = urgentQ[q] /\ vimQ'[q] = vimQ[q] /\ commonQ'[q] = commonQ[q]

\* dispatchMessage puts the message into one queue.
LEMMA EnqueueFact ==
    ASSUME NEW p \in Peer, QueueTypes, QueuesApart(p, Outbox(p)),
           NEW i \in Nat, i \notin Queued(p), NEW m, NEW urgent,
           Enqueue(p, i, m, urgent)
    PROVE  /\ QueueTypes' /\ QueuesApart(p, Outbox(p))'
           /\ Queued(p)' = Queued(p) \cup {i}
           /\ i \in Range(commonQ'[p]) => ~m.vim
           /\ Range(commonQ'[p]) \subseteq Range(commonQ[p]) \cup {i}
           /\ \A q \in Peer \ {p} : SameQueues(q)
<1>1. /\ urgentQ[p] \in Seq(Nat) /\ vimQ[p] \in Seq(Nat) /\ commonQ[p] \in Seq(Nat)
    BY DEF QueueTypes
<1>2. \A q \in Seq(Nat) :
         /\ Append(q, i) \in Seq(Nat) /\ Range(Append(q, i)) = Range(q) \cup {i}
         /\ IsInjective(q) /\ i \notin Range(q) => IsInjective(Append(q, i))
    BY AppendFact
<1>3. \/ /\ urgentQ' = [urgentQ EXCEPT ![p] = Append(@, i)]
         /\ vimQ' = vimQ /\ commonQ' = commonQ
      \/ /\ vimQ' = [vimQ EXCEPT ![p] = Append(@, i)]
         /\ urgentQ' = urgentQ /\ commonQ' = commonQ
      \/ /\ commonQ' = [commonQ EXCEPT ![p] = Append(@, i)] /\ ~m.vim
         /\ urgentQ' = urgentQ /\ vimQ' = vimQ
    BY DEF Enqueue
<1>4. /\ IsInjective(urgentQ[p]) /\ IsInjective(vimQ[p]) /\ IsInjective(commonQ[p])
      /\ Range(urgentQ[p]) \cap Range(vimQ[p]) = {}
      /\ Range(urgentQ[p]) \cap Range(commonQ[p]) = {}
      /\ Range(vimQ[p]) \cap Range(commonQ[p]) = {}
      /\ Queued(p) = Range(urgentQ[p]) \cup Range(vimQ[p]) \cup Range(commonQ[p])
    BY DEF QueuesApart, Outbox, Queued
<1>5. Queued(p)' = Range(urgentQ'[p]) \cup Range(vimQ'[p]) \cup Range(commonQ'[p])
    BY DEF Queued
<1>6. SUFFICES /\ QueueTypes'
               /\ IsInjective(urgentQ'[p]) /\ IsInjective(vimQ'[p])
               /\ IsInjective(commonQ'[p])
               /\ Range(urgentQ'[p]) \cap Range(vimQ'[p]) = {}
               /\ Range(urgentQ'[p]) \cap Range(commonQ'[p]) = {}
               /\ Range(vimQ'[p]) \cap Range(commonQ'[p]) = {}
               /\ Queued(p)' = Queued(p) \cup {i}
               /\ i \in Range(commonQ'[p]) => ~m.vim
               /\ Range(commonQ'[p]) \subseteq Range(commonQ[p]) \cup {i}
               /\ \A q \in Peer \ {p} : SameQueues(q)
    BY DEF QueuesApart, Outbox
<1>7. CASE /\ urgentQ' = [urgentQ EXCEPT ![p] = Append(@, i)]
           /\ vimQ' = vimQ /\ commonQ' = commonQ
    <2>1. urgentQ'[p] = Append(urgentQ[p], i) /\ vimQ'[p] = vimQ[p]
             /\ commonQ'[p] = commonQ[p]
        BY <1>7 DEF QueueTypes
    <2>2. QueueTypes' /\ \A q \in Peer \ {p} : SameQueues(q)
        BY <1>7, <1>1, <1>2 DEF QueueTypes, SameQueues
    <2> QED BY <2>1, <2>2, <1>1, <1>2, <1>4, <1>5
<1>8. CASE /\ vimQ' = [vimQ EXCEPT ![p] = Append(@, i)]
           /\ urgentQ' = urgentQ /\ commonQ' = commonQ
    <2>1. urgentQ'[p] = urgentQ[p] /\ vimQ'[p] = Append(vimQ[p], i)
             /\ commonQ'[p] = commonQ[p]
        BY <1>8 DEF QueueTypes
    <2>2. QueueTypes' /\ \A q \in Peer \ {p} : SameQueues(q)
        BY <1>8, <1>1, <1>2 DEF QueueTypes, SameQueues
    <2> QED BY <2>1, <2>2, <1>1, <1>2, <1>4, <1>5
<1>9. CASE /\ commonQ' = [commonQ EXCEPT ![p] = Append(@, i)] /\ ~m.vim
           /\ urgentQ' = urgentQ /\ vimQ' = vimQ
    <2>1. urgentQ'[p] = urgentQ[p] /\ vimQ'[p] = vimQ[p]
             /\ commonQ'[p] = Append(commonQ[p], i)
        BY <1>9 DEF QueueTypes
    <2>2. QueueTypes' /\ \A q \in Peer \ {p} : SameQueues(q)
        BY <1>9, <1>1, <1>2 DEF QueueTypes, SameQueues
    <2> QED BY <1>9, <2>1, <2>2, <1>1, <1>2, <1>4, <1>5
<1> QED BY <1>3, <1>7, <1>8, <1>9

\* What the sending side keeps, in one state and over one step.
SenderInv ==
    /\ SenderTypes
    /\ \A p \in Peer : Len(msgs[p]) =< MaxMsgs[p] /\ Sound(p, Outbox(p))

SoundStep ==
    SenderInv' /\ \A p \in Peer : Grows(msgs[p], msgs'[p])

\* It is enough to look at the peer that takes the step.
LEMMA StepSound ==
    ASSUME NEW p \in Peer, SenderInv, SenderTypes',
           \A q \in Peer \ {p} : SameBook(q) /\ Outbox(q)' = Outbox(q),
           Len(msgs'[p]) =< MaxMsgs[p], Sound(p, Outbox(p))',
           Grows(msgs[p], msgs'[p])
    PROVE  SoundStep
<1>1. ASSUME NEW q \in Peer \ {p}
      PROVE  /\ Len(msgs'[q]) =< MaxMsgs[q] /\ Sound(q, Outbox(q))'
             /\ Grows(msgs[q], msgs'[q])
    <2>1. Sound(q, Outbox(q))'
        BY SoundSame DEF SenderInv
    <2>2. msgs'[q] = msgs[q]
        BY DEF Outbox
    <2>3. msgs[q] \in Seq(NetMessage) /\ Len(msgs[q]) =< MaxMsgs[q]
        BY DEF SenderInv, SenderTypes
    <2> QED BY <2>1, <2>2, <2>3, GrowsSame
<1>2. \A q \in Peer : Len(msgs'[q]) =< MaxMsgs[q] /\ Sound(q, Outbox(q))'
    BY <1>1
<1>3. SenderInv'
    BY <1>2 DEF SenderInv
<1> QED BY <1>1, <1>3 DEF SoundStep

\* The parts of Sound(p, Outbox(p)), spelled out.
LEMMA SoundParts ==
    ASSUME NEW p \in Peer, SenderInv
    PROVE  /\ msgs[p] \in Seq(NetMessage) /\ Len(msgs[p]) \in Nat
           /\ \A i \in 1..Len(msgs[p]) : msgs[p][i] \in NetMessage
           /\ QueueTypes /\ QueuesApart(p, Outbox(p))
           /\ QueuedIn(p, Outbox(p)) = Queued(p)
           /\ {draft[p], prepared[p], lastUrgent[p], lastVIM[p]}
                 \subseteq 0..Len(msgs[p])
           /\ Queued(p) \cup revisited[p] \subseteq 1..Len(msgs[p])
           /\ Range(dispatched[p]) \subseteq 1..Len(msgs[p])
           /\ serial[p] \in 1..Len(msgs[p]) + 1
           /\ Queued(p) \cap (revisited[p] \cup {draft[p], prepared[p]}) = {}
           /\ prepared[p] \notin revisited[p]
           /\ \A i \in 1..Len(msgs[p]) : StatusFits(p, Outbox(p), i)
           /\ \A i \in Range(dispatched[p]) : VimKept(p, Outbox(p), i)
           /\ SerialsFit(msgs[p], serial[p])
           /\ Len(msgs[p]) =< MaxMsgs[p]
<1>1. /\ Sound(p, Outbox(p)) /\ SenderTypes /\ Len(msgs[p]) =< MaxMsgs[p]
      /\ msgs[p] \in Seq(NetMessage)
    BY DEF SenderInv, SenderTypes
<1>2. Len(msgs[p]) \in Nat /\ \A i \in 1..Len(msgs[p]) : msgs[p][i] \in NetMessage
    BY <1>1, LenProperties
<1>3. QueuedIn(p, Outbox(p)) = Queued(p)
    BY DEF QueuedIn, Queued, Outbox
<1>4. Outbox(p).msgs = msgs[p]
    BY DEF Outbox
<1> QED BY <1>1, <1>2, <1>3, <1>4
        DEF Sound, OutTypes, PlacesApart, SenderTypes, QueueTypes

\* A fresh message, and one that follows the last VIM of its class.
LEMMA FlaggedFact ==
    ASSUME NEW kind
    PROVE  /\ Flagged(kind) \in NetMessage /\ Flagged(kind).serial = 0
           /\ Flagged(kind).status = "new"
           /\ Flagged(kind).pred = 0 /\ Flagged(kind).ctl2 = 0
<1>1. ASSUME NEW v \in BOOLEAN, NEW u \in BOOLEAN
      PROVE  LET m == [Blank EXCEPT !.vim = v, !.urg = u] IN
             /\ m \in NetMessage /\ m.serial = 0 /\ m.status = "new"
             /\ m.pred = 0 /\ m.ctl2 = 0
    BY DEF Blank, NetMessage, Status
<1>2. (kind \in {"vim", "urgentVim", "handshake"}) \in BOOLEAN
         /\ (kind \in {"urgentVim", "urgent"}) \in BOOLEAN
    OBVIOUS
<1> QED BY <1>1, <1>2, Zenon DEF Flagged

LEMMA ComposedFact ==
    ASSUME NEW p \in Peer, SenderInv, NEW m0 \in NetMessage, m0.serial = 0,
           m0.status = "new", m0.pred = 0, m0.ctl2 = 0
    PROVE  LET m == SetOrderedPrevious(p, m0) IN
           /\ m \in NetMessage /\ m.serial = 0 /\ m.status = "new"
           /\ m.pred \in 0..Len(msgs[p]) /\ m.ctl2 \in 0..serial[p] - 1
<1> DEFINE last == IF m0.urg THEN lastUrgent[p] ELSE lastVIM[p]
           lastSerial == msgs[p][last].serial
           pred == IF lastSerial = 0 THEN last ELSE 0
           m == SetOrderedPrevious(p, m0)
<1>1. /\ Len(msgs[p]) \in Nat /\ last \in 0..Len(msgs[p])
      /\ serial[p] \in Nat \ {0}
      /\ \A i \in 1..Len(msgs[p]) : StatusFits(p, Outbox(p), i)
    BY SoundParts
<1>2. CASE last = 0
    <2>1. m = m0
        BY <1>2 DEF SetOrderedPrevious
    <2> QED BY <2>1, <1>1
<1>3. CASE last # 0
    <2>1. lastSerial \in 0..serial[p] - 1
        BY <1>1, <1>3 DEF StatusFits, Outbox
    <2>2. m = [m0 EXCEPT !.ord = TRUE, !.vim = TRUE, !.pred = pred,
                         !.ctl2 = lastSerial]
        BY <1>3 DEF SetOrderedPrevious
    <2>3. m0 = [vim |-> m0.vim, urg |-> m0.urg, ord |-> m0.ord,
                dummy |-> m0.dummy, inst |-> m0.inst, bw |-> m0.bw,
                delay |-> m0.delay, pred |-> m0.pred, ctl2 |-> m0.ctl2,
                serial |-> m0.serial, status |-> m0.status]
        BY DEF NetMessage
    <2>4. m = [vim |-> TRUE, urg |-> m0.urg, ord |-> TRUE,
               dummy |-> m0.dummy, inst |-> m0.inst, bw |-> m0.bw,
               delay |-> m0.delay, pred |-> pred, ctl2 |-> lastSerial,
               serial |-> m0.serial, status |-> m0.status]
        BY <2>2, <2>3
    <2>5. pred \in 0..Len(msgs[p]) /\ pred \in Nat /\ lastSerial \in Nat
        BY <2>1, <1>1
    <2>6. /\ m0.urg \in BOOLEAN /\ m0.dummy \in BOOLEAN /\ m0.inst \in BOOLEAN
          /\ m0.bw \in BOOLEAN /\ m0.delay \in Nat
        BY DEF NetMessage
    <2> HIDE DEF m, pred, lastSerial
    <2>7. m \in NetMessage
        BY <2>4, <2>5, <2>6 DEF NetMessage, Status
    <2>8. m.serial = 0 /\ m.status = "new" /\ m.pred = pred /\ m.ctl2 = lastSerial
        BY <2>4
    <2> QED BY <2>1, <2>5, <2>7, <2>8 DEF m
<1> QED BY <1>2, <1>3

\* newMessage, and a message that stays out of the queues.
LEMMA ComposeSound ==
    ASSUME NEW p \in Peer, SenderInv, NEW kind, Compose(p, kind)
    PROVE  SoundStep
<1> DEFINE m == SetOrderedPrevious(p, Flagged(kind))
           ms == msgs[p]
           n == Len(ms) + 1
<1>1. /\ m \in NetMessage /\ m.serial = 0 /\ m.status = "new"
      /\ m.pred \in 0..Len(ms) /\ m.ctl2 \in 0..serial[p] - 1
    BY FlaggedFact, ComposedFact
<1> HIDE DEF m
<1>2. /\ ms \in Seq(NetMessage) /\ Len(ms) \in Nat /\ Len(ms) =< MaxMsgs[p]
      /\ MaxMsgs[p] \in Nat
    BY SoundParts, BoundAssumption
<1>3. SenderTypes
    BY DEF SenderInv
<1>4. /\ msgs' = [msgs EXCEPT ![p] = Append(ms, m)]
      /\ draft' = [draft EXCEPT ![p] = n] /\ draft[p] = 0
      /\ Len(ms) < MaxMsgs[p]
      /\ UNCHANGED <<opened, registered, urgentQ, vimQ, commonQ, lastUrgent,
                     lastVIM, serial, prepared, revisited, dispatched>>
    BY DEF Compose, m, life, histVars
<1>5. /\ Append(ms, m) \in Seq(NetMessage) /\ Len(Append(ms, m)) = n
      /\ \A i \in 1..Len(ms) : Append(ms, m)[i] = ms[i]
      /\ Append(ms, m)[n] = m /\ Grows(ms, Append(ms, m))
    BY <1>1, <1>2, AppendProperties, GrowsAppend
<1>6. SenderTypes'
    BY <1>2, <1>3, <1>4, <1>5 DEF SenderTypes
<1>7. \A q \in Peer \ {p} : SameBook(q) /\ Outbox(q)' = Outbox(q)
    BY <1>3, <1>4 DEF SenderTypes, SameBook, Outbox
<1>8. msgs'[p] = Append(ms, m) /\ draft'[p] = n
    BY <1>3, <1>4 DEF SenderTypes
<1>9. Sound(p, Outbox(p))'
    <2>1. /\ QueuedIn(p, Outbox(p))' = Queued(p)
          /\ QueuesApart(p, Outbox(p))'
        BY <1>4, SoundParts DEF QueuedIn, Queued, QueuesApart, Outbox
    <2>2. /\ serial'[p] = serial[p] /\ prepared'[p] = prepared[p]
          /\ revisited'[p] = revisited[p] /\ opened'[p] = opened[p]
          /\ dispatched'[p] = dispatched[p] /\ lastUrgent'[p] = lastUrgent[p]
          /\ lastVIM'[p] = lastVIM[p]
          /\ urgentQ'[p] \in Seq(Nat) /\ commonQ'[p] \in Seq(Nat)
          /\ Range(commonQ'[p]) \subseteq Queued(p)
          /\ \A i \in Range(commonQ'[p]) : i \in Range(commonQ[p])
        BY <1>3, <1>4 DEF SenderTypes, Queued
    <2>3. \A i \in 1..n : i \in 1..Len(ms) \/ i = n
        BY <1>2
    <2>4. n \notin Queued(p) \cup revisited[p] /\ n # prepared[p] /\ n \in 1..n
             /\ 1..Len(ms) \subseteq 1..n /\ 0..Len(ms) \subseteq 0..n
        BY <1>2, SoundParts
    <2>5. Outbox(p)' \in [msgs : Seq(NetMessage), urgentQ : Seq(Nat), commonQ : Seq(Nat)]
        BY <1>5, <1>8, <2>2 DEF Outbox
    <2>6. Outbox(p)'.msgs = Append(ms, m) /\ Outbox(p)'.commonQ = commonQ[p]
        BY <1>4, <1>8 DEF Outbox
    <2>7. OutTypes(p, Outbox(p))'
        <3>1. serial[p] \in 1..n + 1
            BY <1>2, SoundParts
        <3> HIDE DEF n
        <3> QED BY <1>5, <1>8, <2>1, <2>2, <2>4, <2>5, <2>6, <3>1, SoundParts, SMTT(60) DEF OutTypes
    <2>8. PlacesApart(p, Outbox(p))'
        BY <1>8, <2>1, <2>2, <2>4, SoundParts DEF PlacesApart
    <2>9. \A i \in 1..n : StatusFits(p, Outbox(p), i)'
        <3>1. ASSUME NEW i \in 1..Len(ms) PROVE StatusFits(p, Outbox(p), i)'
            <4>1. StatusFits(p, Outbox(p), i) /\ i # n
                BY <1>2, SoundParts
            <4>2. Append(ms, m)[i] = ms[i] /\ QueuedIn(p, Outbox(p)) = Queued(p)
                     /\ Outbox(p).msgs = ms /\ Outbox(p).commonQ = commonQ[p]
                BY <1>5, SoundParts DEF Outbox
            <4> HIDE DEF n, ms
            <4> QED BY <4>1, <4>2, <1>5, <1>8, <2>1, <2>2, <2>4, <2>6
                    DEF StatusFits
        <3>2. ASSUME NEW i \in 1..n, i = n PROVE StatusFits(p, Outbox(p), i)'
            <4>1. m.serial \in 0..serial[p] - 1 /\ m.pred \in 0..n
                BY <1>1, <1>2, SoundParts
            <4>2. Outbox(p)'.msgs[i] = m /\ Len(Outbox(p)'.msgs) = n
                BY <1>5, <2>6, <3>2
            <4>3. /\ i \notin QueuedIn(p, Outbox(p))' /\ i # prepared'[p]
                  /\ i \notin revisited'[p] /\ i \notin Range(Outbox(p)'.commonQ)
                BY <2>1, <2>2, <2>4, <2>6, <1>4, <3>2
            <4> HIDE DEF n, ms
            <4> QED BY <4>1, <4>2, <4>3, <1>1, <2>2 DEF StatusFits
        <3> HIDE DEF n
        <3> QED BY <2>3, <3>1, <3>2, Zenon
    <2>10. \A i \in Range(dispatched[p]) : VimKept(p, Outbox(p), i)'
        <3> TAKE i \in Range(dispatched[p])
        <3>1. /\ VimKept(p, Outbox(p), i) /\ i \in 1..Len(ms)
              /\ QueuedIn(p, Outbox(p)) = Queued(p) /\ Outbox(p).msgs = ms
            BY SoundParts DEF Outbox
        <3> HIDE DEF n, ms
        <3> QED BY <3>1, <1>5, <2>1, <2>2, <2>6 DEF VimKept
    <2>11. SerialsFit(msgs'[p], serial'[p])
        BY <1>1, <1>2, <1>8, <2>2, SoundParts, SerialsAppend
    <2> QED BY <1>5, <2>2, <2>6, <2>7, <2>8, <2>9, <2>10, <2>11, <1>8 DEF Sound
<1> QED BY <1>2, <1>4, <1>5, <1>6, <1>7, <1>8, <1>9, StepSound

\* RememberLast, by what it may change.
LEMMA RememberFact ==
    ASSUME NEW p \in Peer, SenderTypes, NEW i \in Nat, NEW m,
           RememberLast(p, i, m)
    PROVE  /\ lastUrgent' \in [Peer -> Nat] /\ lastVIM' \in [Peer -> Nat]
           /\ dispatched' \in [Peer -> Seq(Nat)]
           /\ lastUrgent'[p] \in {i, lastUrgent[p]}
           /\ lastVIM'[p] \in {i, lastVIM[p]}
           /\ \A j \in Range(dispatched'[p]) :
                 j \in Range(dispatched[p]) \/ (j = i /\ m.vim)
           /\ \A q \in Peer \ {p} :
                 /\ lastUrgent'[q] = lastUrgent[q] /\ lastVIM'[q] = lastVIM[q]
                 /\ dispatched'[q] = dispatched[q]
<1>1. /\ lastUrgent \in [Peer -> Nat] /\ lastVIM \in [Peer -> Nat]
      /\ dispatched \in [Peer -> Seq(Nat)]
    BY DEF SenderTypes
<1>2. /\ lastUrgent' \in [Peer -> Nat] /\ lastVIM' \in [Peer -> Nat]
      /\ lastUrgent'[p] \in {i, lastUrgent[p]}
      /\ lastVIM'[p] \in {i, lastVIM[p]}
      /\ \A q \in Peer \ {p} :
            lastUrgent'[q] = lastUrgent[q] /\ lastVIM'[q] = lastVIM[q]
    BY <1>1 DEF RememberLast
<1>3. CASE m.vim
    <2>1. dispatched' = [dispatched EXCEPT ![p] = Append(dispatched[p], i)]
        BY <1>3 DEF RememberLast
    <2>2. \A q \in Seq(Nat) : Append(q, i) \in Seq(Nat)
                               /\ Range(Append(q, i)) = Range(q) \cup {i}
        BY AppendFact
    <2>3. dispatched'[p] = Append(dispatched[p], i)
             /\ \A q \in Peer \ {p} : dispatched'[q] = dispatched[q]
        BY <1>1, <2>1
    <2>4. dispatched' \in [Peer -> Seq(Nat)]
        BY <1>1, <2>1, <2>2
    <2>5. Range(dispatched'[p]) = Range(dispatched[p]) \cup {i}
        BY <1>1, <2>2, <2>3
    <2> QED BY <1>2, <1>3, <2>3, <2>4, <2>5
<1>4. CASE ~m.vim
    <2>1. dispatched' = dispatched
        BY <1>4 DEF RememberLast
    <2> QED BY <1>1, <1>2, <2>1
<1> QED BY <1>3, <1>4

\* A message that is in no place yet enters a queue.
LEMMA EnqueueSound ==
    ASSUME NEW p \in Peer, SenderInv,
           NEW ms \in Seq(NetMessage), NEW i \in 1..Len(ms), NEW urgent,
           NEW d \in {0, draft[p]}, d # i,
           \/ ms = msgs[p]
           \/ i = Len(msgs[p]) + 1 /\ ms = Append(msgs[p], ms[i]),
           Len(ms) =< MaxMsgs[p],
           i \notin Queued(p) \cup revisited[p] \cup {prepared[p]},
           ms[i].serial = 0, ms[i].status = "new",
           ms[i].pred \in 0..Len(ms), ms[i].ctl2 \in 0..serial[p] - 1,
           msgs' = [msgs EXCEPT ![p] = ms], draft' = [draft EXCEPT ![p] = d],
           RememberLast(p, i, ms[i]), Enqueue(p, i, ms[i], urgent),
           UNCHANGED <<opened, registered, serial, prepared, revisited>>
    PROVE  SoundStep
<1> DEFINE old == msgs[p]
<1>1. /\ old \in Seq(NetMessage) /\ Len(old) \in Nat /\ Len(ms) \in Nat /\ i \in Nat
      /\ SenderTypes /\ MaxMsgs[p] \in Nat
    BY SoundParts, LenProperties, BoundAssumption DEF SenderInv
<1>2. /\ Len(old) =< Len(ms)
      /\ \A j \in 1..Len(ms) : j \in 1..Len(old) \/ j = i
      /\ \A j \in 1..Len(old) : j \in 1..Len(ms) /\ ms[j] = old[j]
      /\ Grows(old, ms) /\ SerialsFit(ms, serial[p])
    <2>1. SerialsFit(old, serial[p]) /\ serial[p] \in Nat
        BY <1>1, SoundParts
    <2>2. CASE ms = old
        <3>1. Grows(old, old)
            BY <1>1, GrowsSame
        <3> HIDE DEF old
        <3> QED BY <2>1, <2>2, <1>1, <3>1
    <2>3. CASE i = Len(old) + 1 /\ ms = Append(old, ms[i])
        <3> DEFINE m == ms[i]
        <3>1. m \in NetMessage /\ m.serial = 0
            BY LenProperties
        <3>2. ms = Append(old, m)
            BY <2>3
        <3> HIDE DEF old, m
        <3>3. /\ Len(ms) = Len(old) + 1
              /\ \A j \in 1..Len(old) : ms[j] = old[j]
            BY <3>1, <3>2, <1>1, AppendProperties
        <3>4. Grows(old, ms) /\ SerialsFit(ms, serial[p])
            BY <3>1, <3>2, <2>1, <1>1, GrowsAppend, SerialsAppend
        <3> QED BY <2>3, <3>3, <3>4, <1>1
    <2> QED BY <2>2, <2>3
<1>3. /\ QueueTypes' /\ QueuesApart(p, Outbox(p))'
      /\ Queued(p)' = Queued(p) \cup {i}
      /\ i \in Range(commonQ'[p]) => ~ms[i].vim
      /\ Range(commonQ'[p]) \subseteq Range(commonQ[p]) \cup {i}
      /\ \A q \in Peer \ {p} : SameQueues(q)
    BY <1>1, SoundParts, EnqueueFact
<1>4. /\ lastUrgent' \in [Peer -> Nat] /\ lastVIM' \in [Peer -> Nat]
      /\ dispatched' \in [Peer -> Seq(Nat)]
      /\ lastUrgent'[p] \in {i, lastUrgent[p]} /\ lastVIM'[p] \in {i, lastVIM[p]}
      /\ \A j \in Range(dispatched'[p]) :
            j \in Range(dispatched[p]) \/ (j = i /\ ms[i].vim)
      /\ \A q \in Peer \ {p} :
            /\ lastUrgent'[q] = lastUrgent[q] /\ lastVIM'[q] = lastVIM[q]
            /\ dispatched'[q] = dispatched[q]
    BY <1>1, RememberFact
<1>5. /\ msgs'[p] = ms /\ draft'[p] = d /\ msgs' \in [Peer -> Seq(NetMessage)]
      /\ draft' \in [Peer -> Nat] /\ d \in Nat
      /\ \A q \in Peer \ {p} : msgs'[q] = msgs[q] /\ draft'[q] = draft[q]
    <2>1. msgs \in [Peer -> Seq(NetMessage)] /\ draft \in [Peer -> Nat]
        BY <1>1 DEF SenderTypes
    <2>2. d \in Nat
        BY <2>1
    <2> QED BY <2>1, <2>2
<1>6. SenderTypes'
    BY <1>1, <1>3, <1>4, <1>5 DEF SenderTypes, QueueTypes
<1>7. \A q \in Peer \ {p} : SameBook(q) /\ Outbox(q)' = Outbox(q)
    BY <1>3, <1>4, <1>5 DEF SameBook, Outbox, SameQueues
<1>8. /\ Outbox(p)'.msgs = ms /\ Outbox(p)'.commonQ = commonQ'[p]
      /\ QueuedIn(p, Outbox(p))' = Queued(p)'
      /\ Outbox(p)' \in [msgs : Seq(NetMessage), urgentQ : Seq(Nat), commonQ : Seq(Nat)]
    BY <1>3, <1>5 DEF Outbox, QueuedIn, Queued, QueueTypes
<1>9. /\ QueuedIn(p, Outbox(p)) = Queued(p)
      /\ Outbox(p).msgs = old /\ Outbox(p).commonQ = commonQ[p]
    BY SoundParts DEF Outbox
<1> HIDE DEF old
<1>10. OutTypes(p, Outbox(p))'
    <2>1. /\ {draft[p], prepared[p], lastUrgent[p], lastVIM[p]} \subseteq 0..Len(old)
          /\ Queued(p) \cup revisited[p] \subseteq 1..Len(old)
          /\ Range(dispatched[p]) \subseteq 1..Len(old)
          /\ serial[p] \in 1..Len(old) + 1
        BY SoundParts DEF old
    <2>2. {d, prepared[p], lastUrgent'[p], lastVIM'[p]} \subseteq 0..Len(ms)
        <3>1. \A j \in 0..Len(old) : j \in 0..Len(ms)
            BY <1>1, <1>2
        <3>2. i \in 0..Len(ms) /\ 0 \in 0..Len(ms)
            BY <1>1
        <3>3. /\ draft[p] \in 0..Len(ms) /\ prepared[p] \in 0..Len(ms)
              /\ lastUrgent[p] \in 0..Len(ms) /\ lastVIM[p] \in 0..Len(ms)
            BY <2>1, <3>1
        <3>4. lastUrgent'[p] \in 0..Len(ms) /\ lastVIM'[p] \in 0..Len(ms)
            BY <3>2, <3>3, <1>4
        <3> QED BY <3>2, <3>3, <3>4
    <2>3. /\ Queued(p)' \cup revisited[p] \subseteq 1..Len(ms)
          /\ Range(dispatched'[p]) \subseteq 1..Len(ms)
        BY <2>1, <1>2, <1>3, <1>4
    <2>4. serial[p] \in 1..Len(ms) + 1
        BY <2>1, <1>1, <1>2
    <2> QED BY <2>2, <2>3, <2>4, <1>5, <1>8 DEF OutTypes
<1>11. PlacesApart(p, Outbox(p))'
    <2>1. /\ Queued(p) \cap (revisited[p] \cup {draft[p], prepared[p]}) = {}
          /\ prepared[p] \notin revisited[p]
          /\ 0 \notin Queued(p)
        BY SoundParts
    <2> QED BY <2>1, <1>3, <1>5, <1>8 DEF PlacesApart
<1>12. \A j \in 1..Len(ms) : StatusFits(p, Outbox(p), j)'
    <2>1. ASSUME NEW j \in 1..Len(old), j # i
          PROVE  StatusFits(p, Outbox(p), j)'
        <3>1. StatusFits(p, Outbox(p), j)
            BY SoundParts DEF old
        <3>2. ms[j] = old[j] /\ j \in Nat \ {0} /\ 0..Len(old) \subseteq 0..Len(ms)
            BY <1>1, <1>2
        <3>3. j = draft'[p] => j = draft[p]
            BY <3>2, <1>5
        <3>4. j \in Range(commonQ'[p]) => j \in Range(commonQ[p])
            BY <2>1, <1>3
        <3>5. j \in Queued(p)' => j \in Queued(p)
            BY <2>1, <1>3
        <3> QED BY <3>1, <3>2, <3>3, <3>4, <3>5, <1>8, <1>9 DEF StatusFits
    <2>2. ASSUME NEW j \in 1..Len(ms), j = i
          PROVE  StatusFits(p, Outbox(p), j)'
        <3>1. j # prepared'[p] /\ j \notin revisited'[p] /\ ms[j] = ms[i]
            BY <2>2
        <3>2. 0 \in 0..serial[p] - 1
            BY SoundParts
        <3> QED BY <2>2, <3>1, <3>2, <1>3, <1>5, <1>8 DEF StatusFits
    <2> QED BY <2>1, <2>2, <1>2
<1>13. ASSUME NEW j \in Range(dispatched'[p])
       PROVE  VimKept(p, Outbox(p), j)'
    <2>1. CASE j \in Range(dispatched[p])
        <3>1. VimKept(p, Outbox(p), j) /\ ms[j] = old[j]
            BY <2>1, <1>2, SoundParts DEF old
        <3> QED BY <3>1, <1>3, <1>8, <1>9 DEF VimKept
    <2>2. CASE j = i /\ ms[i].vim
        BY <2>2, <1>3, <1>8 DEF VimKept
    <2> QED BY <2>1, <2>2, <1>4
<1>14. Sound(p, Outbox(p))'
    BY <1>2, <1>8, <1>10, <1>11, <1>12, <1>13 DEF Sound
<1> QED BY <1>2, <1>5, <1>6, <1>7, <1>14, StepSound DEF old

LEMMA DispatchSound ==
    ASSUME NEW p \in Peer, SenderInv, Dispatch(p)
    PROVE  SoundStep
<1> DEFINE i == draft[p]
           ms == msgs[p]
<1>1. /\ ms \in Seq(NetMessage) /\ Len(ms) =< MaxMsgs[p] /\ i \in 1..Len(ms)
      /\ StatusFits(p, Outbox(p), i)
    BY SoundParts DEF Dispatch
<1>2. i \notin Queued(p)
    BY SoundParts
<1>3. /\ ms[i].status = "new" /\ ms[i].serial = 0
      /\ ms[i].pred \in 0..Len(ms) /\ ms[i].ctl2 \in 0..serial[p] - 1
      /\ i \notin revisited[p] /\ i # prepared[p]
    BY <1>1 DEF StatusFits, Outbox
<1>4. /\ msgs' = [msgs EXCEPT ![p] = ms] /\ draft' = [draft EXCEPT ![p] = 0]
      /\ RememberLast(p, i, ms[i]) /\ Enqueue(p, i, ms[i], FALSE)
      /\ UNCHANGED <<opened, registered, serial, prepared, revisited>>
    BY DEF Dispatch, life, SenderInv, SenderTypes
<1>5. 0 \in {0, draft[p]} /\ 0 # i /\ ms = msgs[p]
    BY <1>1
<1> HIDE DEF i, ms
<1> QED BY <1>1, <1>2, <1>3, <1>4, <1>5, EnqueueSound

LEMMA DispatchPlainSound ==
    ASSUME NEW p \in Peer, SenderInv, NEW kind, DispatchPlain(p, kind)
    PROVE  SoundStep
<1> DEFINE m == Flagged(kind)
           i == Len(msgs[p]) + 1
           ms == Append(msgs[p], m)
           urgent == kind # "common"
<1>1. /\ m \in NetMessage /\ m.serial = 0 /\ m.status = "new"
      /\ m.pred = 0 /\ m.ctl2 = 0
    BY FlaggedFact
<1>2. /\ msgs[p] \in Seq(NetMessage) /\ Len(msgs[p]) \in Nat
      /\ {draft[p], prepared[p], lastUrgent[p], lastVIM[p]} \subseteq 0..Len(msgs[p])
      /\ Queued(p) \cup revisited[p] \subseteq 1..Len(msgs[p])
      /\ serial[p] \in 1..Len(msgs[p]) + 1
    BY SoundParts
<1>3. /\ Len(msgs[p]) < MaxMsgs[p] /\ msgs' = [msgs EXCEPT ![p] = ms]
      /\ RememberLast(p, i, m) /\ Enqueue(p, i, m, urgent)
      /\ draft' = draft
      /\ UNCHANGED <<opened, registered, serial, prepared, revisited>>
    BY DEF DispatchPlain, life
<1> HIDE DEF m
<1>4. ms \in Seq(NetMessage) /\ Len(ms) = i /\ ms[i] = m /\ i \in 1..Len(ms)
    BY <1>1, <1>2, AppendProperties
<1>5. MaxMsgs[p] \in Nat /\ i =< MaxMsgs[p]
    BY <1>2, <1>3, BoundAssumption
<1>6. /\ i # draft[p] /\ i # prepared[p] /\ i \notin Queued(p) \cup revisited[p]
      /\ 0 \in 0..i /\ 0 \in 0..serial[p] - 1
    BY <1>2
<1>7. draft' = [draft EXCEPT ![p] = draft[p]]
    BY <1>3 DEF SenderInv, SenderTypes
<1>8. i = Len(msgs[p]) + 1 /\ ms = Append(msgs[p], ms[i])
    BY <1>4
<1> HIDE DEF ms, i, urgent
<1> QED BY <1>1, <1>3, <1>4, <1>5, <1>6, <1>7, <1>8, EnqueueSound

\* A step that allocates no message and dispatches none.
LEMMA PlacesSound ==
    ASSUME NEW p \in Peer, SenderInv, SenderTypes',
           Len(msgs'[p]) = Len(msgs[p]), dispatched'[p] = dispatched[p],
           draft'[p] = draft[p], prepared'[p] \in 0..Len(msgs[p]),
           lastUrgent'[p] \in {0, lastUrgent[p]}, lastVIM'[p] \in {0, lastVIM[p]},
           Queued(p)' \cup revisited'[p] \subseteq 1..Len(msgs[p]),
           QueuesApart(p, Outbox(p))',
           Queued(p)' \cap (revisited'[p] \cup {draft[p], prepared'[p]}) = {},
           prepared'[p] \notin revisited'[p],
           \A i \in 1..Len(msgs[p]) : StatusFits(p, Outbox(p), i)',
           \A i \in Range(dispatched[p]) : VimKept(p, Outbox(p), i)',
           serial'[p] \in 1..Len(msgs[p]) + 1, SerialsFit(msgs'[p], serial'[p])
    PROVE  Sound(p, Outbox(p))'
<1> DEFINE ms == msgs'[p]
           n == Len(msgs[p])
<1>1. /\ Outbox(p)'.msgs = ms
      /\ QueuedIn(p, Outbox(p))' = Queued(p)'
      /\ Outbox(p)' \in [msgs : Seq(NetMessage), urgentQ : Seq(Nat), commonQ : Seq(Nat)]
    BY DEF Outbox, QueuedIn, Queued, SenderTypes
<1>2. /\ n \in Nat /\ Len(ms) = n
      /\ {draft[p], prepared[p], lastUrgent[p], lastVIM[p]} \subseteq 0..n
      /\ Range(dispatched[p]) \subseteq 1..n
    BY SoundParts
<1> HIDE DEF ms, n
<1>3. OutTypes(p, Outbox(p))'
    <2>1. {draft'[p], prepared'[p], lastUrgent'[p], lastVIM'[p]} \subseteq 0..n
        <3>1. 0 \in 0..n
            BY <1>2
        <3> QED BY <1>2, <3>1 DEF n
    <2> QED BY <1>1, <1>2, <2>1 DEF OutTypes, n
<1>4. PlacesApart(p, Outbox(p))'
    BY <1>1 DEF PlacesApart
<1> QED BY <1>1, <1>2, <1>3, <1>4 DEF Sound, ms, n

\* One message changes its status only.
LEMMA StatusFact ==
    ASSUME NEW ms \in Seq(NetMessage), NEW i \in 1..Len(ms), NEW st \in Status,
           ms[i].status # "ack"
    PROVE  LET new == [ms EXCEPT ![i].status = st] IN
           /\ new \in Seq(NetMessage) /\ Len(new) = Len(ms) /\ Grows(ms, new)
           /\ \A j \in 1..Len(ms) :
                 /\ new[j].serial = ms[j].serial /\ new[j].vim = ms[j].vim
                 /\ new[j].pred = ms[j].pred /\ new[j].ctl2 = ms[j].ctl2
                 /\ new[j].status = IF j = i THEN st ELSE ms[j].status
<1> DEFINE m == [ms[i] EXCEPT !.status = st]
           new == [ms EXCEPT ![i] = m]
<1>1. ms[i] \in NetMessage
    BY LenProperties
<1>2. /\ m \in NetMessage /\ m.serial = ms[i].serial /\ m.vim = ms[i].vim
      /\ m.pred = ms[i].pred /\ m.ctl2 = ms[i].ctl2 /\ m.status = st
      /\ m.dummy = ms[i].dummy /\ m.ord = ms[i].ord
    BY <1>1 DEF NetMessage
<1>3. [ms EXCEPT ![i].status = st] = new
    OBVIOUS
<1> HIDE DEF m
<1>4. Keeps(ms[i], m)
    BY <1>2 DEF Keeps
<1>5. /\ new \in Seq(NetMessage) /\ Len(new) = Len(ms) /\ Grows(ms, new)
      /\ \A j \in 1..Len(ms) : new[j] = IF j = i THEN m ELSE ms[j]
    BY <1>2, <1>4, GrowsExcept
<1> HIDE DEF new
<1>6. \A j \in 1..Len(ms) :
         /\ new[j].serial = ms[j].serial /\ new[j].vim = ms[j].vim
         /\ new[j].pred = ms[j].pred /\ new[j].ctl2 = ms[j].ctl2
         /\ new[j].status = IF j = i THEN st ELSE ms[j].status
    BY <1>2, <1>5
<1> QED BY <1>3, <1>5, <1>6

\* The message sent is remembered, or forgotten when the channel was closed.
LEMMA PostSendSound ==
    ASSUME NEW p \in Peer, SenderInv, PostSend(p)
    PROVE  SoundStep
<1> DEFINE i == prepared[p]
           old == msgs[p]
           ms == [old EXCEPT ![i].status = "sent"]
<1>1. /\ old \in Seq(NetMessage) /\ Len(old) \in Nat /\ i \in 1..Len(old)
      /\ SenderTypes /\ Len(old) =< MaxMsgs[p] /\ SerialsFit(old, serial[p])
      /\ serial[p] \in Nat
    BY SoundParts DEF SenderInv, PostSend
<1>2. \A j \in 1..Len(old) : StatusFits(p, Outbox(p), j)
    BY SoundParts
<1>3. old[i].status # "ack" /\ i \notin Queued(p) /\ i # draft[p]
    <2>1. StatusFits(p, Outbox(p), i)
        BY <1>1, <1>2
    <2>2. old[i].status \in {"pending", "sent"} /\ (i = draft[p] => old[i].status = "new")
        BY <2>1 DEF StatusFits, Outbox
    <2> QED BY <2>2, SoundParts
<1>4. /\ ms \in Seq(NetMessage) /\ Len(ms) = Len(old) /\ Grows(old, ms)
      /\ \A j \in 1..Len(old) :
            /\ ms[j].serial = old[j].serial /\ ms[j].vim = old[j].vim
            /\ ms[j].pred = old[j].pred /\ ms[j].ctl2 = old[j].ctl2
            /\ ms[j].status = IF j = i THEN "sent" ELSE old[j].status
    <2>1. "sent" \in Status
        BY DEF Status
    <2> HIDE DEF old, i
    <2> QED BY <2>1, <1>1, <1>3, StatusFact, ZenonT(60)
<1>5. /\ msgs' = [msgs EXCEPT ![p] = ms] /\ prepared' = [prepared EXCEPT ![p] = 0]
      /\ revisited' = IF opened[p] THEN [revisited EXCEPT ![p] = @ \cup {i}]
                                   ELSE revisited
      /\ UNCHANGED <<opened, registered, draft, urgentQ, vimQ, commonQ,
                     lastUrgent, lastVIM, serial, dispatched>>
    <2>1. msgs' = [msgs EXCEPT ![p][i].status = "sent"]
        BY DEF PostSend
    <2>2. [msgs EXCEPT ![p][i].status = "sent"] = [msgs EXCEPT ![p] = ms]
        OBVIOUS
    <2> QED BY <2>1, <2>2 DEF PostSend, life, histVars
<1> HIDE DEF ms
<1>6. /\ msgs'[p] = ms /\ prepared'[p] = 0
      /\ revisited'[p] = IF opened[p] THEN revisited[p] \cup {i} ELSE revisited[p]
      /\ SenderTypes'
      /\ \A q \in Peer \ {p} : SameBook(q) /\ Outbox(q)' = Outbox(q)
    <2>1. SenderTypes'
        <3>1. msgs' \in [Peer -> Seq(NetMessage)]
            BY <1>1, <1>4, <1>5 DEF SenderTypes
        <3>2. prepared' \in [Peer -> Nat]
            BY <1>1, <1>5 DEF SenderTypes
        <3>3. revisited' \in [Peer -> SUBSET Nat]
            BY <1>1, <1>5 DEF SenderTypes
        <3> QED BY <1>1, <1>5, <3>1, <3>2, <3>3 DEF SenderTypes
    <2>2. /\ msgs'[p] = ms /\ prepared'[p] = 0
          /\ revisited'[p] = IF opened[p] THEN revisited[p] \cup {i} ELSE revisited[p]
        BY <1>1, <1>5 DEF SenderTypes
    <2>3. \A q \in Peer \ {p} : SameBook(q) /\ Outbox(q)' = Outbox(q)
        BY <1>1, <1>5 DEF SenderTypes, SameBook, Outbox
    <2> QED BY <2>1, <2>2, <2>3
<1>7. /\ Queued(p)' = Queued(p) /\ QueuesApart(p, Outbox(p))'
      /\ QueuedIn(p, Outbox(p))' = Queued(p)
      /\ Outbox(p)'.msgs = ms /\ Outbox(p)'.commonQ = commonQ[p]
    BY <1>5, <1>6, SoundParts DEF QueuesApart, Outbox, Queued, QueuedIn
<1>8. /\ QueuedIn(p, Outbox(p)) = Queued(p)
      /\ Outbox(p).msgs = old /\ Outbox(p).commonQ = commonQ[p]
    BY SoundParts DEF Outbox
<1> HIDE DEF old
<1>9. \A j \in 1..Len(old) : StatusFits(p, Outbox(p), j)'
    <2> TAKE j \in 1..Len(old)
    <2>1. StatusFits(p, Outbox(p), j) /\ j # 0
        BY <1>2
    <2>2. CASE j = i
        BY <2>1, <2>2, <1>3, <1>4, <1>5, <1>6, <1>7, <1>8 DEF StatusFits
    <2>3. CASE j # i
        <3>1. j \in revisited'[p] => j \in revisited[p]
            BY <2>3, <1>6
        <3> QED BY <2>1, <2>3, <3>1, <1>4, <1>5, <1>6, <1>7, <1>8 DEF StatusFits
    <2> QED BY <2>2, <2>3
<1>10. \A j \in Range(dispatched[p]) : VimKept(p, Outbox(p), j)'
    <2> TAKE j \in Range(dispatched[p])
    <2>1. VimKept(p, Outbox(p), j) /\ j \in 1..Len(old)
        BY SoundParts DEF old
    <2>2. old[i].status \notin {"ack", "cancel"}
        BY <1>1, <1>2, <1>8 DEF StatusFits
    <2> QED BY <2>1, <2>2, <1>4, <1>5, <1>6, <1>7, <1>8 DEF VimKept
<1>11. SerialsFit(ms, serial[p])
    BY <1>1, <1>4, SerialsSame
<1>12. Sound(p, Outbox(p))'
    <2>1. revisited'[p] \subseteq 1..Len(old) /\ 0 \notin revisited'[p]
        BY <1>1, <1>6, SoundParts DEF old
    <2>2. Queued(p) \cap (revisited'[p] \cup {draft[p], 0}) = {}
        BY <1>3, <1>6, SoundParts
    <2>3. Queued(p) \subseteq 1..Len(old) /\ serial[p] \in 1..Len(old) + 1
        BY SoundParts DEF old
    <2> QED BY <2>1, <2>2, <2>3, <1>1, <1>4, <1>5, <1>6, <1>7, <1>9, <1>10, <1>11,
               PlacesSound DEF old
<1> QED BY <1>1, <1>4, <1>6, <1>12, StepSound DEF old

\* getPreparedMessage takes the first message of a queue.
LEMMA TailQueue ==
    ASSUME NEW q \in Seq(Nat), q # <<>>, IsInjective(q)
    PROVE  /\ Tail(q) \in Seq(Nat) /\ IsInjective(Tail(q)) /\ Head(q) \in Range(q)
           /\ Range(Tail(q)) = Range(q) \ {Head(q)}
<1>1. /\ Head(q) \in Range(q) /\ Tail(q) \in Seq(Nat)
      /\ Range(q) = Range(Tail(q)) \cup {Head(q)}
      /\ IsInjective(q) => IsInjective(Tail(q))
      /\ IsInjective(q) => Head(q) \notin Range(Tail(q))
    BY TailFact
<1> QED BY <1>1

LEMMA DequeueFact ==
    ASSUME NEW p \in Peer, QueueTypes, QueuesApart(p, Outbox(p)),
           NextToSend(p) # 0, Dequeue(p)
    PROVE  /\ QueueTypes' /\ QueuesApart(p, Outbox(p))'
           /\ NextToSend(p) \in Queued(p)
           /\ Queued(p)' = Queued(p) \ {NextToSend(p)}
           /\ Range(commonQ'[p]) \subseteq Range(commonQ[p])
           /\ \A q \in Peer \ {p} : SameQueues(q)
<1> DEFINE i == NextToSend(p)
<1>1. /\ urgentQ[p] \in Seq(Nat) /\ vimQ[p] \in Seq(Nat) /\ commonQ[p] \in Seq(Nat)
      /\ IsInjective(urgentQ[p]) /\ IsInjective(vimQ[p]) /\ IsInjective(commonQ[p])
      /\ Range(urgentQ[p]) \cap Range(vimQ[p]) = {}
      /\ Range(urgentQ[p]) \cap Range(commonQ[p]) = {}
      /\ Range(vimQ[p]) \cap Range(commonQ[p]) = {}
      /\ Queued(p) = Range(urgentQ[p]) \cup Range(vimQ[p]) \cup Range(commonQ[p])
    BY DEF QueueTypes, QueuesApart, Outbox, Queued
<1>2. \A q \in Seq(Nat) : q # <<>> /\ IsInjective(q) =>
         /\ Tail(q) \in Seq(Nat) /\ IsInjective(Tail(q)) /\ Head(q) \in Range(q)
         /\ Range(Tail(q)) = Range(q) \ {Head(q)}
    BY TailQueue
<1>3. Queued(p)' = Range(urgentQ'[p]) \cup Range(vimQ'[p]) \cup Range(commonQ'[p])
    BY DEF Queued
<1>4. SUFFICES /\ QueueTypes'
               /\ IsInjective(urgentQ'[p]) /\ IsInjective(vimQ'[p])
               /\ IsInjective(commonQ'[p])
               /\ Range(urgentQ'[p]) \cap Range(vimQ'[p]) = {}
               /\ Range(urgentQ'[p]) \cap Range(commonQ'[p]) = {}
               /\ Range(vimQ'[p]) \cap Range(commonQ'[p]) = {}
               /\ i \in Queued(p) /\ Queued(p)' = Queued(p) \ {i}
               /\ Range(commonQ'[p]) \subseteq Range(commonQ[p])
               /\ \A q \in Peer \ {p} : SameQueues(q)
    BY DEF QueuesApart, Outbox
<1>5. CASE urgentQ[p] # <<>>
    <2>1. /\ i = Head(urgentQ[p]) /\ vimQ' = vimQ /\ commonQ' = commonQ
          /\ urgentQ' = [urgentQ EXCEPT ![p] = Tail(urgentQ[p])]
        BY <1>5 DEF NextToSend, Dequeue
    <2>2. /\ urgentQ'[p] = Tail(urgentQ[p])
          /\ QueueTypes' /\ \A q \in Peer \ {p} : SameQueues(q)
        BY <1>1, <1>2, <1>5, <2>1 DEF QueueTypes, SameQueues
    <2> HIDE DEF i
    <2> QED BY <1>1, <1>2, <1>3, <1>5, <2>1, <2>2
<1>6. CASE urgentQ[p] = <<>> /\ vimQ[p] # <<>>
    <2>1. /\ i = Head(vimQ[p]) /\ urgentQ' = urgentQ /\ commonQ' = commonQ
          /\ vimQ' = [vimQ EXCEPT ![p] = Tail(vimQ[p])]
        BY <1>6 DEF NextToSend, Dequeue
    <2>2. /\ vimQ'[p] = Tail(vimQ[p])
          /\ QueueTypes' /\ \A q \in Peer \ {p} : SameQueues(q)
        BY <1>1, <1>2, <1>6, <2>1 DEF QueueTypes, SameQueues
    <2> HIDE DEF i
    <2> QED BY <1>1, <1>2, <1>3, <1>6, <2>1, <2>2
<1>7. CASE urgentQ[p] = <<>> /\ vimQ[p] = <<>>
    <2>1. /\ i = Head(commonQ[p]) /\ urgentQ' = urgentQ /\ vimQ' = vimQ
          /\ commonQ' = [commonQ EXCEPT ![p] = Tail(commonQ[p])]
          /\ commonQ[p] # <<>>
        BY <1>7 DEF NextToSend, Dequeue
    <2>2. /\ commonQ'[p] = Tail(commonQ[p])
          /\ QueueTypes' /\ \A q \in Peer \ {p} : SameQueues(q)
        BY <1>1, <1>2, <2>1 DEF QueueTypes, SameQueues
    <2> HIDE DEF i
    <2> QED BY <1>1, <1>2, <1>3, <2>1, <2>2
<1> QED BY <1>5, <1>6, <1>7

\* A common message is never a VIM, so nobody misses the one dropped here.
LEMMA DropObsoleteSound ==
    ASSUME NEW p \in Peer, SenderInv, DropObsolete(p)
    PROVE  SoundStep
<1> DEFINE i == Head(commonQ[p])
           old == msgs[p]
           ms == [old EXCEPT ![i].status = "obsolete"]
<1>1. /\ old \in Seq(NetMessage) /\ Len(old) \in Nat
      /\ SenderTypes /\ Len(old) =< MaxMsgs[p] /\ SerialsFit(old, serial[p])
      /\ serial[p] \in Nat /\ QueueTypes /\ QueuesApart(p, Outbox(p))
    BY SoundParts DEF SenderInv
<1>2. /\ i \in Range(commonQ[p]) /\ Tail(commonQ[p]) \in Seq(Nat)
      /\ IsInjective(Tail(commonQ[p]))
      /\ Range(Tail(commonQ[p])) = Range(commonQ[p]) \ {i}
    <2>1. commonQ[p] \in Seq(Nat) /\ commonQ[p] # <<>> /\ IsInjective(commonQ[p])
        BY <1>1 DEF QueueTypes, QueuesApart, Outbox, DropObsolete
    <2> QED BY <2>1, TailQueue
<1>3. i \in Queued(p) /\ i \in 1..Len(old)
    <2>1. i \in Queued(p)
        BY <1>2 DEF Queued
    <2> HIDE DEF i
    <2> QED BY <2>1, SoundParts
<1>4. \A j \in 1..Len(old) : StatusFits(p, Outbox(p), j)
    BY SoundParts
<1>5. old[i].status # "ack" /\ ~old[i].vim
    <2>1. StatusFits(p, Outbox(p), i) /\ QueuedIn(p, Outbox(p)) = Queued(p)
        BY <1>3, <1>4, SoundParts
    <2>2. Outbox(p).msgs = old /\ Outbox(p).commonQ = commonQ[p]
        BY DEF Outbox
    <2> HIDE DEF i, old
    <2> QED BY <2>1, <2>2, <1>2, <1>3 DEF StatusFits
<1>6. /\ ms \in Seq(NetMessage) /\ Len(ms) = Len(old) /\ Grows(old, ms)
      /\ \A j \in 1..Len(old) :
            /\ ms[j].serial = old[j].serial /\ ms[j].vim = old[j].vim
            /\ ms[j].pred = old[j].pred /\ ms[j].ctl2 = old[j].ctl2
            /\ ms[j].status = IF j = i THEN "obsolete" ELSE old[j].status
    <2>1. "obsolete" \in Status
        BY DEF Status
    <2> HIDE DEF old, i
    <2> QED BY <2>1, <1>1, <1>3, <1>5, StatusFact, ZenonT(60)
<1>7. /\ msgs' = [msgs EXCEPT ![p] = ms]
      /\ commonQ' = [commonQ EXCEPT ![p] = Tail(commonQ[p])]
      /\ UNCHANGED <<opened, registered, draft, urgentQ, vimQ, prepared, revisited,
                     lastUrgent, lastVIM, serial, dispatched>>
    <2>1. msgs' = [msgs EXCEPT ![p][i].status = "obsolete"]
        BY DEF DropObsolete
    <2>2. [msgs EXCEPT ![p][i].status = "obsolete"] = [msgs EXCEPT ![p] = ms]
        OBVIOUS
    <2> QED BY <2>1, <2>2 DEF DropObsolete, life, histVars
<1> HIDE DEF ms
<1>8. /\ msgs'[p] = ms /\ commonQ'[p] = Tail(commonQ[p]) /\ SenderTypes'
      /\ \A q \in Peer \ {p} : SameBook(q) /\ Outbox(q)' = Outbox(q)
    <2>1. SenderTypes'
        <3>1. msgs' \in [Peer -> Seq(NetMessage)]
            BY <1>1, <1>6, <1>7 DEF SenderTypes
        <3>2. commonQ' \in [Peer -> Seq(Nat)]
            BY <1>1, <1>2, <1>7 DEF SenderTypes
        <3> QED BY <1>1, <1>7, <3>1, <3>2 DEF SenderTypes
    <2>2. msgs'[p] = ms /\ commonQ'[p] = Tail(commonQ[p])
        BY <1>1, <1>7 DEF SenderTypes
    <2>3. \A q \in Peer \ {p} : SameBook(q) /\ Outbox(q)' = Outbox(q)
        BY <1>1, <1>7 DEF SenderTypes, SameBook, Outbox
    <2> QED BY <2>1, <2>2, <2>3
<1> HIDE DEF i
<1>9. /\ Queued(p)' = Queued(p) \ {i} /\ QueuesApart(p, Outbox(p))'
      /\ QueuedIn(p, Outbox(p))' = Queued(p)'
      /\ Outbox(p)'.msgs = ms /\ Range(Outbox(p)'.commonQ) \subseteq Range(commonQ[p])
    BY <1>1, <1>2, <1>7, <1>8 DEF QueuesApart, Outbox, Queued, QueuedIn
<1>10. /\ QueuedIn(p, Outbox(p)) = Queued(p)
       /\ Outbox(p).msgs = old /\ Outbox(p).commonQ = commonQ[p]
    BY SoundParts DEF Outbox
<1>11. \A j \in 1..Len(old) : StatusFits(p, Outbox(p), j)'
    <2> TAKE j \in 1..Len(old)
    <2>1. StatusFits(p, Outbox(p), j)
        BY <1>4
    <2>2. CASE j = i
        <3>1. i \notin revisited[p] \cup {draft[p], prepared[p]}
            BY <1>3, SoundParts
        <3> HIDE DEF old
        <3> QED BY <2>1, <2>2, <3>1, <1>6, <1>7, <1>8, <1>9, <1>10 DEF StatusFits
    <2>3. CASE j # i
        <3> HIDE DEF old
        <3> QED BY <2>1, <2>3, <1>6, <1>7, <1>8, <1>9, <1>10 DEF StatusFits
    <2> QED BY <2>2, <2>3
<1>12. \A j \in Range(dispatched[p]) : VimKept(p, Outbox(p), j)'
    <2> TAKE j \in Range(dispatched[p])
    <2>1. VimKept(p, Outbox(p), j) /\ j \in 1..Len(old)
        BY SoundParts
    <2>2. j # i
        BY <2>1, <1>5, <1>10 DEF VimKept
    <2> HIDE DEF old
    <2> QED BY <2>1, <2>2, <1>6, <1>7, <1>8, <1>9, <1>10 DEF VimKept
<1>13. SerialsFit(ms, serial[p])
    <2> HIDE DEF old
    <2> QED BY <1>1, <1>6, SerialsSame
<1>14. Sound(p, Outbox(p))'
    <2>1. /\ revisited[p] \subseteq 1..Len(old) /\ prepared[p] \in 0..Len(old)
          /\ Queued(p)' \subseteq 1..Len(old) /\ serial[p] \in 1..Len(old) + 1
          /\ Queued(p)' \cap (revisited[p] \cup {draft[p], prepared[p]}) = {}
          /\ prepared[p] \notin revisited[p]
        BY <1>9, SoundParts
    <2> QED BY <2>1, <1>6, <1>7, <1>8, <1>9, <1>11, <1>12, <1>13, PlacesSound
<1> QED BY <1>1, <1>6, <1>8, <1>14, StepSound

\* A message that is resent goes from the remembered ones to the urgent queue.
LEMMA ResendSound ==
    ASSUME NEW p \in Peer, SenderInv, NEW i \in revisited[p], Resend(p, i)
    PROVE  SoundStep
<1> DEFINE uq == InsertResend(urgentQ[p], i)
           ms == msgs[p]
<1>1. /\ ms \in Seq(NetMessage) /\ Len(ms) \in Nat /\ i \in 1..Len(ms) /\ i \in Nat
      /\ SenderTypes /\ Len(ms) =< MaxMsgs[p]
      /\ QueueTypes /\ QueuesApart(p, Outbox(p)) /\ i \notin Queued(p)
    BY SoundParts DEF SenderInv
<1>2. /\ IsInjective(urgentQ[p]) /\ IsInjective(vimQ[p]) /\ IsInjective(commonQ[p])
      /\ Range(urgentQ[p]) \cap Range(vimQ[p]) = {}
      /\ Range(urgentQ[p]) \cap Range(commonQ[p]) = {}
      /\ Range(vimQ[p]) \cap Range(commonQ[p]) = {}
      /\ Queued(p) = Range(urgentQ[p]) \cup Range(vimQ[p]) \cup Range(commonQ[p])
      /\ urgentQ[p] \in Seq(Nat)
    BY <1>1 DEF QueueTypes, QueuesApart, Outbox, Queued
<1>3. uq \in Seq(Nat) /\ Range(uq) = Range(urgentQ[p]) \cup {i} /\ IsInjective(uq)
    <2>1. \A q \in Seq(Nat), x \in Nat :
             /\ InsertResend(q, x) \in Seq(Nat)
             /\ Range(InsertResend(q, x)) = Range(q) \cup {x}
             /\ IsInjective(q) /\ x \notin Range(q) => IsInjective(InsertResend(q, x))
        BY ResendFact, Zenon
    <2> QED BY <1>1, <1>2, <2>1, Zenon
<1>4. /\ urgentQ' = [urgentQ EXCEPT ![p] = uq]
      /\ revisited' = [revisited EXCEPT ![p] = revisited[p] \ {i}]
      /\ prepared[p] = 0 /\ ms[i].vim /\ ms[i].status # "ack"
      /\ UNCHANGED <<opened, registered, msgs, draft, vimQ, commonQ, prepared,
                     lastUrgent, lastVIM, serial, dispatched>>
    BY DEF Resend, life, histVars
<1> HIDE DEF uq
<1>5. /\ urgentQ'[p] = uq /\ revisited'[p] = revisited[p] \ {i} /\ SenderTypes'
      /\ \A q \in Peer \ {p} : SameBook(q) /\ Outbox(q)' = Outbox(q)
    <2>1. SenderTypes'
        <3>1. urgentQ' \in [Peer -> Seq(Nat)]
            BY <1>1, <1>3, <1>4 DEF SenderTypes
        <3>2. revisited' \in [Peer -> SUBSET Nat]
            BY <1>1, <1>4 DEF SenderTypes
        <3> QED BY <1>1, <1>4, <3>1, <3>2 DEF SenderTypes
    <2>2. urgentQ'[p] = uq /\ revisited'[p] = revisited[p] \ {i}
        BY <1>1, <1>4 DEF SenderTypes
    <2>3. \A q \in Peer \ {p} : SameBook(q) /\ Outbox(q)' = Outbox(q)
        BY <1>1, <1>4 DEF SenderTypes, SameBook, Outbox
    <2> QED BY <2>1, <2>2, <2>3
<1>6. /\ Queued(p)' = Queued(p) \cup {i} /\ QueuesApart(p, Outbox(p))'
      /\ QueuedIn(p, Outbox(p))' = Queued(p)'
      /\ Outbox(p)'.msgs = ms /\ Outbox(p)'.commonQ = commonQ[p]
    BY <1>1, <1>2, <1>3, <1>4, <1>5 DEF QueuesApart, Outbox, Queued, QueuedIn
<1>7. /\ QueuedIn(p, Outbox(p)) = Queued(p)
      /\ Outbox(p).msgs = ms /\ Outbox(p).commonQ = commonQ[p]
    BY SoundParts DEF Outbox
<1>8. i # draft[p] /\ ms[i].status = "sent"
    <2>1. StatusFits(p, Outbox(p), i)
        BY <1>1, SoundParts
    <2> QED BY <2>1, <1>4, <1>7 DEF StatusFits
<1>9. \A j \in 1..Len(ms) : StatusFits(p, Outbox(p), j)'
    <2> TAKE j \in 1..Len(ms)
    <2>1. StatusFits(p, Outbox(p), j)
        BY SoundParts
    <2> HIDE DEF ms
    <2> QED BY <2>1, <1>4, <1>5, <1>6, <1>7, <1>8 DEF StatusFits
<1>10. \A j \in Range(dispatched[p]) : VimKept(p, Outbox(p), j)'
    <2> TAKE j \in Range(dispatched[p])
    <2>1. VimKept(p, Outbox(p), j)
        BY SoundParts
    <2> HIDE DEF ms
    <2> QED BY <2>1, <1>4, <1>5, <1>6, <1>7 DEF VimKept
<1>11. Sound(p, Outbox(p))'
    <2>1. /\ revisited'[p] \subseteq 1..Len(ms) /\ prepared[p] \in 0..Len(ms)
          /\ Queued(p)' \subseteq 1..Len(ms) /\ serial[p] \in 1..Len(ms) + 1
          /\ Queued(p)' \cap (revisited'[p] \cup {draft[p], prepared[p]}) = {}
          /\ prepared[p] \notin revisited'[p]
        BY <1>1, <1>4, <1>5, <1>6, <1>8, SoundParts
    <2> QED BY <2>1, <1>4, <1>5, <1>6, <1>9, <1>10, PlacesSound, SoundParts
<1> QED BY <1>1, <1>4, <1>5, <1>11, StepSound, GrowsSame

\* A message is forgotten that is no VIM, or was acknowledged.
LEMMA DiscardSound ==
    ASSUME NEW p \in Peer, SenderInv, NEW i \in revisited[p], Discard(p, i)
    PROVE  SoundStep
<1> DEFINE ms == msgs[p]
<1>1. /\ ms \in Seq(NetMessage) /\ Len(ms) =< MaxMsgs[p] /\ SenderTypes
    BY SoundParts DEF SenderInv
<1>2. /\ revisited' = [revisited EXCEPT ![p] = revisited[p] \ {i}]
      /\ ms[i].vim => ms[i].status = "ack"
      /\ UNCHANGED <<opened, registered, msgs, draft, urgentQ, vimQ, commonQ, prepared,
                     lastUrgent, lastVIM, serial, dispatched>>
    BY DEF Discard, life, histVars
<1>3. /\ revisited'[p] = revisited[p] \ {i} /\ SenderTypes'
      /\ \A q \in Peer \ {p} : SameBook(q) /\ Outbox(q)' = Outbox(q)
    BY <1>1, <1>2 DEF SenderTypes, SameBook, Outbox
<1>4. /\ Queued(p)' = Queued(p) /\ QueuesApart(p, Outbox(p))'
      /\ QueuedIn(p, Outbox(p))' = QueuedIn(p, Outbox(p))
      /\ Outbox(p)' = Outbox(p) /\ Outbox(p).msgs = ms
    BY <1>2, SoundParts DEF QueuesApart, Outbox, Queued, QueuedIn
<1>5. \A j \in 1..Len(ms) : StatusFits(p, Outbox(p), j)'
    <2> TAKE j \in 1..Len(ms)
    <2>1. StatusFits(p, Outbox(p), j)
        BY SoundParts
    <2> QED BY <2>1, <1>2, <1>3, <1>4 DEF StatusFits
<1>6. \A j \in Range(dispatched[p]) : VimKept(p, Outbox(p), j)'
    <2> TAKE j \in Range(dispatched[p])
    <2>1. VimKept(p, Outbox(p), j)
        BY SoundParts
    <2> QED BY <2>1, <1>2, <1>3, <1>4 DEF VimKept
<1>7. Sound(p, Outbox(p))'
    <2>1. /\ revisited'[p] \subseteq 1..Len(ms) /\ prepared[p] \in 0..Len(ms)
          /\ Queued(p)' \subseteq 1..Len(ms) /\ serial[p] \in 1..Len(ms) + 1
          /\ Queued(p)' \cap (revisited'[p] \cup {draft[p], prepared[p]}) = {}
          /\ prepared[p] \notin revisited'[p]
        BY <1>3, <1>4, SoundParts
    <2> QED BY <2>1, <1>2, <1>3, <1>4, <1>5, <1>6, PlacesSound, SoundParts
<1> QED BY <1>1, <1>2, <1>3, <1>7, StepSound, GrowsSame

\* A channel taken out of its peer forgets what it remembered.
LEMMA UnregisterSound ==
    ASSUME NEW p \in Peer, SenderInv, Unregister(p)
    PROVE  SoundStep
<1> DEFINE ms == msgs[p]
<1>1. /\ ms \in Seq(NetMessage) /\ Len(ms) =< MaxMsgs[p] /\ SenderTypes
    BY SoundParts DEF SenderInv
<1>2. /\ revisited' = [revisited EXCEPT ![p] = {}] /\ ~opened[p]
      /\ registered' = [registered EXCEPT ![p] = FALSE]
      /\ UNCHANGED <<opened, msgs, draft, urgentQ, vimQ, commonQ, prepared,
                     lastUrgent, lastVIM, serial, dispatched>>
    BY DEF Unregister, histVars
<1>3. /\ revisited'[p] = {} /\ SenderTypes'
      /\ \A q \in Peer \ {p} : SameBook(q) /\ Outbox(q)' = Outbox(q)
    <2>1. SenderTypes'
        <3>1. revisited' \in [Peer -> SUBSET Nat] /\ registered' \in [Peer -> BOOLEAN]
            BY <1>1, <1>2 DEF SenderTypes
        <3> QED BY <1>1, <1>2, <3>1 DEF SenderTypes
    <2>2. revisited'[p] = {}
        BY <1>1, <1>2 DEF SenderTypes
    <2>3. \A q \in Peer \ {p} : SameBook(q) /\ Outbox(q)' = Outbox(q)
        BY <1>1, <1>2 DEF SenderTypes, SameBook, Outbox
    <2> QED BY <2>1, <2>2, <2>3
<1>4. /\ Queued(p)' = Queued(p) /\ QueuesApart(p, Outbox(p))'
      /\ QueuedIn(p, Outbox(p))' = QueuedIn(p, Outbox(p))
      /\ Outbox(p)' = Outbox(p) /\ Outbox(p).msgs = ms
    BY <1>2, SoundParts DEF QueuesApart, Outbox, Queued, QueuedIn
<1>5. \A j \in 1..Len(ms) : StatusFits(p, Outbox(p), j)'
    <2> TAKE j \in 1..Len(ms)
    <2>1. StatusFits(p, Outbox(p), j)
        BY SoundParts
    <2> QED BY <2>1, <1>2, <1>3, <1>4 DEF StatusFits
<1>6. \A j \in Range(dispatched[p]) : VimKept(p, Outbox(p), j)'
    <2> TAKE j \in Range(dispatched[p])
    <2>1. VimKept(p, Outbox(p), j)
        BY SoundParts
    <2> QED BY <2>1, <1>2, <1>4 DEF VimKept
<1>7. Sound(p, Outbox(p))'
    <2>1. /\ revisited'[p] \subseteq 1..Len(ms) /\ prepared[p] \in 0..Len(ms)
          /\ Queued(p)' \subseteq 1..Len(ms) /\ serial[p] \in 1..Len(ms) + 1
          /\ Queued(p)' \cap (revisited'[p] \cup {draft[p], prepared[p]}) = {}
          /\ prepared[p] \notin revisited'[p]
        BY <1>3, <1>4, SoundParts
    <2> QED BY <2>1, <1>2, <1>3, <1>4, <1>5, <1>6, PlacesSound, SoundParts
<1> QED BY <1>1, <1>2, <1>3, <1>7, StepSound, GrowsSame

\* The queued messages are cancelled, and the chains of VIMs end.
LEMMA CancelSound ==
    ASSUME NEW p \in Peer, SenderInv, CancelQueues(p),
           opened' \in {opened, [opened EXCEPT ![p] = FALSE]}
    PROVE  SoundStep
<1> DEFINE old == msgs[p]
           ms == [i \in 1..Len(old) |-> IF i \in Queued(p)
                                        THEN [old[i] EXCEPT !.status = "cancel"]
                                        ELSE old[i]]
<1>1. /\ old \in Seq(NetMessage) /\ Len(old) \in Nat
      /\ \A i \in 1..Len(old) : old[i] \in NetMessage
      /\ Len(old) =< MaxMsgs[p] /\ SenderTypes /\ SerialsFit(old, serial[p])
      /\ serial[p] \in Nat
    BY SoundParts DEF SenderInv
<1>2. \A i \in 1..Len(old) : StatusFits(p, Outbox(p), i)
    BY SoundParts
<1>3. /\ QueuedIn(p, Outbox(p)) = Queued(p)
      /\ Outbox(p).msgs = old /\ Outbox(p).commonQ = commonQ[p]
    BY SoundParts DEF Outbox
<1>4. ASSUME NEW i \in 1..Len(old)
      PROVE  /\ ms[i] \in NetMessage /\ Keeps(old[i], ms[i])
             /\ ms[i].serial = old[i].serial /\ ms[i].vim = old[i].vim
             /\ ms[i].pred = old[i].pred /\ ms[i].ctl2 = old[i].ctl2
             /\ ms[i].status = IF i \in Queued(p) THEN "cancel" ELSE old[i].status
    <2> DEFINE m == old[i]
    <2>1. m \in NetMessage
        BY <1>1
    <2>2. CASE i \in Queued(p)
        <3>1. ms[i] = [m EXCEPT !.status = "cancel"]
            BY <2>2
        <3>2. m.status # "ack"
            BY <2>2, <1>2, <1>3 DEF StatusFits
        <3> HIDE DEF ms, m
        <3>3. /\ ms[i] \in NetMessage
              /\ ms[i].serial = m.serial /\ ms[i].vim = m.vim
              /\ ms[i].pred = m.pred /\ ms[i].ctl2 = m.ctl2
              /\ ms[i].dummy = m.dummy /\ ms[i].ord = m.ord
              /\ ms[i].status = "cancel"
            BY <2>1, <3>1 DEF NetMessage, Status
        <3> QED BY <2>2, <3>2, <3>3 DEF Keeps, m
    <2>3. CASE i \notin Queued(p)
        <3>1. ms[i] = m
            BY <2>3
        <3> HIDE DEF ms, m
        <3> QED BY <2>1, <2>3, <3>1 DEF Keeps, m
    <2> QED BY <2>2, <2>3
<1>5. ms \in Seq(NetMessage) /\ Len(ms) = Len(old) /\ Grows(old, ms)
    <2>1. ms \in [1..Len(old) -> NetMessage]
        <3>1. \A i \in 1..Len(old) : ms[i] \in NetMessage
            BY <1>4
        <3>2. ms = [i \in 1..Len(old) |-> ms[i]]
            OBVIOUS
        <3> HIDE DEF ms
        <3> QED BY <3>1, <3>2
    <2> HIDE DEF ms, old
    <2>2. ms \in Seq(NetMessage) /\ Len(ms) = Len(old)
        BY <1>1, <2>1, FunctionFact
    <2> QED BY <1>1, <1>4, <2>2 DEF Grows
<1>6. /\ msgs' = [msgs EXCEPT ![p] = ms]
      /\ urgentQ' = [urgentQ EXCEPT ![p] = <<>>] /\ vimQ' = [vimQ EXCEPT ![p] = <<>>]
      /\ commonQ' = [commonQ EXCEPT ![p] = <<>>]
      /\ lastUrgent' = [lastUrgent EXCEPT ![p] = 0]
      /\ lastVIM' = [lastVIM EXCEPT ![p] = 0]
      /\ UNCHANGED <<registered, draft, serial, prepared, revisited, dispatched>>
    BY DEF CancelQueues, histVars
<1> HIDE DEF ms
<1>7. /\ msgs'[p] = ms /\ urgentQ'[p] = <<>> /\ vimQ'[p] = <<>> /\ commonQ'[p] = <<>>
      /\ lastUrgent'[p] = 0 /\ lastVIM'[p] = 0
    BY <1>1, <1>6 DEF SenderTypes
<1>8. SenderTypes'
    <2>1. msgs' \in [Peer -> Seq(NetMessage)] /\ opened' \in [Peer -> BOOLEAN]
        BY <1>1, <1>5, <1>6 DEF SenderTypes
    <2>2. /\ urgentQ' \in [Peer -> Seq(Nat)] /\ vimQ' \in [Peer -> Seq(Nat)]
          /\ commonQ' \in [Peer -> Seq(Nat)]
        BY <1>1, <1>6, EmptyFact DEF SenderTypes
    <2>3. lastUrgent' \in [Peer -> Nat] /\ lastVIM' \in [Peer -> Nat]
        BY <1>1, <1>6 DEF SenderTypes
    <2> QED BY <1>1, <1>6, <2>1, <2>2, <2>3 DEF SenderTypes
<1>9. \A q \in Peer \ {p} : SameBook(q) /\ Outbox(q)' = Outbox(q)
    <2>1. \A q \in Peer \ {p} : opened'[q] = opened[q]
        BY <1>1 DEF SenderTypes
    <2> QED BY <1>1, <1>6, <2>1 DEF SenderTypes, SameBook, Outbox
<1>10. /\ Queued(p)' = {} /\ QueuesApart(p, Outbox(p))'
       /\ QueuedIn(p, Outbox(p))' = {}
       /\ Outbox(p)'.msgs = ms /\ Outbox(p)'.commonQ = <<>>
    BY <1>7, EmptyFact DEF QueuesApart, Outbox, Queued, QueuedIn
<1> HIDE DEF old
<1>11. \A j \in 1..Len(old) : StatusFits(p, Outbox(p), j)'
    <2> TAKE j \in 1..Len(old)
    <2>1. StatusFits(p, Outbox(p), j)
        BY <1>2
    <2>2. j \in Queued(p) => j \notin revisited[p] \cup {draft[p], prepared[p]}
        BY SoundParts
    <2>3. j \notin Range(Outbox(p)'.commonQ)
        BY <1>10, EmptyFact
    <2> QED BY <2>1, <2>2, <2>3, <1>3, <1>4, <1>5, <1>6, <1>7, <1>10 DEF StatusFits
<1>12. \A j \in Range(dispatched[p]) : VimKept(p, Outbox(p), j)'
    <2> TAKE j \in Range(dispatched[p])
    <2>1. VimKept(p, Outbox(p), j) /\ j \in 1..Len(old)
        BY SoundParts DEF old
    <2>2. ~opened[p] => ~opened'[p]
        BY <1>1 DEF SenderTypes
    <2> QED BY <2>1, <2>2, <1>3, <1>4, <1>6, <1>7, <1>10 DEF VimKept
<1>13. SerialsFit(ms, serial[p])
    BY <1>1, <1>4, <1>5, SerialsSame
<1>14. Sound(p, Outbox(p))'
    <2>1. /\ revisited[p] \subseteq 1..Len(old) /\ prepared[p] \in 0..Len(old)
          /\ serial[p] \in 1..Len(old) + 1 /\ prepared[p] \notin revisited[p]
        BY SoundParts DEF old
    <2> QED BY <2>1, <1>5, <1>6, <1>7, <1>8, <1>10, <1>11, <1>12, <1>13, PlacesSound
            DEF old
<1> QED BY <1>1, <1>5, <1>7, <1>8, <1>9, <1>14, StepSound DEF old

\* What setOutputData leaves in the header of a queued message.
LEMMA HeaderFact ==
    ASSUME NEW p \in Peer, SenderInv, NEW i \in Queued(p), NEW bw \in BOOLEAN
    PROVE  LET m == msgs[p][i]
               h == Header(p, i, bw)
           IN  /\ h \in NetMessage /\ Keeps(m, h)
               /\ h.vim = m.vim /\ h.dummy = m.dummy /\ h.ord = m.ord
               /\ h.pred \in {0, m.pred} /\ (h.ord => h.pred = 0)
               /\ h.ctl2 \in 0..serial[p] - 1
               /\ m.status \in {"new", "sent"}
               /\ m.status = "sent" => h.serial = m.serial /\ h.status = "sent"
                                       /\ m.serial # 0
               /\ m.status = "new" => h.serial = serial[p] /\ h.status = "pending"
                                      /\ m.serial = 0
<1> DEFINE m == msgs[p][i]
           h == Header(p, i, bw)
           bw2 == m.bw \/ (bw /\ ~Short(m))
           ctl2 == IF m.ord /\ m.pred # 0 THEN msgs[p][m.pred].serial ELSE m.ctl2
           pred == IF m.ord THEN 0 ELSE m.pred
           n == [m EXCEPT !.bw = bw2, !.ctl2 = ctl2, !.pred = pred]
<1>1. /\ i \in 1..Len(msgs[p]) /\ m \in NetMessage /\ serial[p] \in Nat \ {0}
      /\ \A j \in 1..Len(msgs[p]) : StatusFits(p, Outbox(p), j)
      /\ Len(msgs[p]) \in Nat
      /\ Outbox(p).msgs = msgs[p] /\ QueuedIn(p, Outbox(p)) = Queued(p)
    BY SoundParts DEF Outbox
<1>2. /\ m.status \in {"new", "sent"} /\ (m.status = "new" => m.serial = 0)
      /\ (m.status = "sent" => m.serial # 0)
      /\ m.pred \in 0..Len(msgs[p]) /\ m.ctl2 \in 0..serial[p] - 1
      /\ m.serial \in 0..serial[p] - 1
    BY <1>1 DEF StatusFits
<1>3. ctl2 \in 0..serial[p] - 1 /\ ctl2 \in Nat
    <2>1. CASE m.ord /\ m.pred # 0
        <3>1. m.pred \in 1..Len(msgs[p])
            BY <2>1, <1>1, <1>2
        <3>2. msgs[p][m.pred].serial \in 0..serial[p] - 1
            BY <3>1, <1>1 DEF StatusFits
        <3> QED BY <2>1, <3>2, <1>1
    <2>2. CASE ~(m.ord /\ m.pred # 0)
        BY <2>2, <1>1, <1>2
    <2> QED BY <2>1, <2>2
<1>4. pred \in {0, m.pred} /\ pred \in Nat /\ (m.ord => pred = 0)
    BY <1>1, <1>2
<1>5. bw2 \in BOOLEAN
    OBVIOUS
<1>6. m = [vim |-> m.vim, urg |-> m.urg, ord |-> m.ord,
           dummy |-> m.dummy, inst |-> m.inst, bw |-> m.bw,
           delay |-> m.delay, pred |-> m.pred, ctl2 |-> m.ctl2,
           serial |-> m.serial, status |-> m.status]
    BY <1>1 DEF NetMessage
<1>7. n = [vim |-> m.vim, urg |-> m.urg, ord |-> m.ord,
           dummy |-> m.dummy, inst |-> m.inst, bw |-> bw2,
           delay |-> m.delay, pred |-> pred, ctl2 |-> ctl2,
           serial |-> m.serial, status |-> m.status]
    <2>1. \A x \in NetMessage : \A b \in BOOLEAN :
             [x EXCEPT !.bw = b] =
             [vim |-> x.vim, urg |-> x.urg, ord |-> x.ord, dummy |-> x.dummy,
              inst |-> x.inst, bw |-> b, delay |-> x.delay, pred |-> x.pred,
              ctl2 |-> x.ctl2, serial |-> x.serial, status |-> x.status]
        BY DEF NetMessage
    <2>2. \A x \in NetMessage : \A c \in Nat :
             [x EXCEPT !.ctl2 = c] =
             [vim |-> x.vim, urg |-> x.urg, ord |-> x.ord, dummy |-> x.dummy,
              inst |-> x.inst, bw |-> x.bw, delay |-> x.delay, pred |-> x.pred,
              ctl2 |-> c, serial |-> x.serial, status |-> x.status]
        BY DEF NetMessage
    <2>3. \A x \in NetMessage : \A d \in Nat :
             [x EXCEPT !.pred = d] =
             [vim |-> x.vim, urg |-> x.urg, ord |-> x.ord, dummy |-> x.dummy,
              inst |-> x.inst, bw |-> x.bw, delay |-> x.delay, pred |-> d,
              ctl2 |-> x.ctl2, serial |-> x.serial, status |-> x.status]
        BY DEF NetMessage
    <2> DEFINE n1 == [m EXCEPT !.bw = bw2]
               n2 == [n1 EXCEPT !.ctl2 = ctl2]
    <2>4. n = [n2 EXCEPT !.pred = pred]
        BY Zenon
    <2> HIDE DEF m, bw2, ctl2, pred, n
    <2>5. n1 = [vim |-> m.vim, urg |-> m.urg, ord |-> m.ord, dummy |-> m.dummy,
                inst |-> m.inst, bw |-> bw2, delay |-> m.delay, pred |-> m.pred,
                ctl2 |-> m.ctl2, serial |-> m.serial, status |-> m.status]
        BY <2>1, <1>1, <1>5
    <2>6. n1 \in NetMessage
        BY <2>5, <1>1, <1>5 DEF NetMessage
    <2> HIDE DEF n1
    <2>7. n2 = [vim |-> n1.vim, urg |-> n1.urg, ord |-> n1.ord, dummy |-> n1.dummy,
                inst |-> n1.inst, bw |-> n1.bw, delay |-> n1.delay, pred |-> n1.pred,
                ctl2 |-> ctl2, serial |-> n1.serial, status |-> n1.status]
        BY <2>2, <2>6, <1>3
    <2>8. n2 \in NetMessage
        BY <2>6, <2>7, <1>3 DEF NetMessage
    <2> HIDE DEF n2
    <2>9. n = [vim |-> n2.vim, urg |-> n2.urg, ord |-> n2.ord, dummy |-> n2.dummy,
                inst |-> n2.inst, bw |-> n2.bw, delay |-> n2.delay, pred |-> pred,
                ctl2 |-> n2.ctl2, serial |-> n2.serial, status |-> n2.status]
        BY <2>3, <2>4, <2>8, <1>4
    <2> QED BY <2>5, <2>7, <2>9
<1>8. h = IF m.status = "sent" THEN n
          ELSE [n EXCEPT !.serial = serial[p], !.status = "pending"]
    BY DEF Header
<1>9. h = [vim |-> m.vim, urg |-> m.urg, ord |-> m.ord,
           dummy |-> m.dummy, inst |-> m.inst, bw |-> bw2,
           delay |-> m.delay, pred |-> pred, ctl2 |-> ctl2,
           serial |-> IF m.status = "sent" THEN m.serial ELSE serial[p],
           status |-> IF m.status = "sent" THEN "sent" ELSE "pending"]
    <2> HIDE DEF bw2, pred, ctl2, m, h, n
    <2> QED BY <1>7, <1>8
<1>10. /\ m.urg \in BOOLEAN /\ m.dummy \in BOOLEAN /\ m.inst \in BOOLEAN
       /\ m.vim \in BOOLEAN /\ m.ord \in BOOLEAN /\ m.delay \in Nat
       /\ m.serial \in Nat
    BY <1>1 DEF NetMessage
<1>11. m.ord /\ m.pred = 0 => ctl2 = m.ctl2
    OBVIOUS
<1> HIDE DEF bw2, pred, ctl2, m, h, n
<1>12. /\ h.vim = m.vim /\ h.dummy = m.dummy /\ h.ord = m.ord /\ h.pred = pred
       /\ h.ctl2 = ctl2
       /\ h.serial = IF m.status = "sent" THEN m.serial ELSE serial[p]
       /\ h.status = IF m.status = "sent" THEN "sent" ELSE "pending"
    BY <1>9
<1>13. h \in NetMessage
    BY <1>1, <1>3, <1>4, <1>5, <1>9, <1>10 DEF NetMessage, Status
<1>14. Keeps(m, h)
    BY <1>2, <1>4, <1>11, <1>12 DEF Keeps
<1> QED BY <1>2, <1>3, <1>4, <1>12, <1>13, <1>14 DEF m, h

\* A queued message leaves; it gets a serial if it has none.
LEMMA TransmitSound ==
    ASSUME NEW p \in Peer, SenderInv, NEW bw \in BOOLEAN,
           prepared[p] = 0, NextToSend(p) # 0, Dequeue(p),
           NEW i, i = NextToSend(p), NEW h, h = Header(p, i, bw),
           msgs' = [msgs EXCEPT ![p][i] = h],
           serial' = IF msgs[p][i].status = "sent" THEN serial
                     ELSE [serial EXCEPT ![p] = @ + 1],
           prepared' = [prepared EXCEPT ![p] = i],
           UNCHANGED <<opened, registered, draft, lastUrgent, lastVIM,
                       revisited, dispatched>>
    PROVE  /\ SoundStep
           /\ i \in 1..Len(msgs[p]) /\ h \in NetMessage /\ msgs'[p][i] = h
           /\ h.serial \in 1..Len(msgs[p]) /\ h.ctl2 \in 0..Len(msgs[p])
           /\ h.ord => h.pred = 0
<1> DEFINE old == msgs[p]
           ms == [old EXCEPT ![i] = h]
           m == old[i]
           next == IF m.status = "sent" THEN serial[p] ELSE serial[p] + 1
<1>1. /\ old \in Seq(NetMessage) /\ Len(old) \in Nat
      /\ SenderTypes /\ Len(old) =< MaxMsgs[p] /\ SerialsFit(old, serial[p])
      /\ serial[p] \in Nat \ {0} /\ serial[p] \in 1..Len(old) + 1
      /\ QueueTypes /\ QueuesApart(p, Outbox(p))
    BY SoundParts DEF SenderInv
<1>2. /\ QueueTypes' /\ QueuesApart(p, Outbox(p))' /\ i \in Queued(p)
      /\ Queued(p)' = Queued(p) \ {i}
      /\ Range(commonQ'[p]) \subseteq Range(commonQ[p])
      /\ \A q \in Peer \ {p} : SameQueues(q)
    BY <1>1, DequeueFact
<1>3. i \in 1..Len(old) /\ i \notin revisited[p] /\ i # draft[p]
      /\ Queued(p) \subseteq 1..Len(old) /\ revisited[p] \subseteq 1..Len(old)
    BY <1>2, SoundParts
<1>4. \A j \in 1..Len(old) : StatusFits(p, Outbox(p), j)
    BY SoundParts
<1>5. /\ h \in NetMessage /\ Keeps(m, h)
      /\ h.vim = m.vim /\ h.dummy = m.dummy /\ h.ord = m.ord
      /\ h.pred \in {0, m.pred} /\ (h.ord => h.pred = 0)
      /\ h.ctl2 \in 0..serial[p] - 1
      /\ m.status \in {"new", "sent"}
      /\ m.status = "sent" => h.serial = m.serial /\ h.status = "sent"
                              /\ m.serial # 0
      /\ m.status = "new" => h.serial = serial[p] /\ h.status = "pending"
                             /\ m.serial = 0
    BY <1>2, HeaderFact
<1>6. /\ ms \in Seq(NetMessage) /\ Len(ms) = Len(old) /\ Grows(old, ms)
      /\ \A j \in 1..Len(old) : ms[j] = IF j = i THEN h ELSE old[j]
    <2> HIDE DEF old
    <2> QED BY <1>1, <1>3, <1>5, GrowsExcept DEF m
<1>7. msgs' = [msgs EXCEPT ![p] = ms]
    OBVIOUS
<1> HIDE DEF ms
<1>8. /\ msgs'[p] = ms /\ prepared'[p] = i /\ serial'[p] = next
      /\ SenderTypes'
      /\ \A q \in Peer \ {p} : SameBook(q) /\ Outbox(q)' = Outbox(q)
    <2>1. SenderTypes'
        <3>1. msgs' \in [Peer -> Seq(NetMessage)]
            BY <1>1, <1>6, <1>7 DEF SenderTypes
        <3>2. prepared' \in [Peer -> Nat]
            BY <1>1, <1>3 DEF SenderTypes
        <3>3. serial' \in [Peer -> Nat]
            BY <1>1 DEF SenderTypes
        <3> QED BY <1>1, <1>2, <3>1, <3>2, <3>3 DEF SenderTypes, QueueTypes
    <2>2. msgs'[p] = ms /\ prepared'[p] = i /\ serial'[p] = next
        BY <1>1, <1>7 DEF SenderTypes
    <2>3. \A q \in Peer \ {p} : SameBook(q) /\ Outbox(q)' = Outbox(q)
        <3>1. \A q \in Peer \ {p} : msgs'[q] = msgs[q]
            BY <1>7 DEF SenderTypes
        <3>2. \A q \in Peer \ {p} : SameBook(q)
            BY <1>1, <1>2 DEF SenderTypes, SameBook, SameQueues
        <3>3. \A q \in Peer \ {p} : Outbox(q)' = Outbox(q)
            BY <1>2, <3>1 DEF Outbox, SameQueues
        <3> QED BY <3>2, <3>3
    <2> QED BY <2>1, <2>2, <2>3
<1>9. next \in Nat /\ next >= serial[p] /\ next \in 1..Len(old) + 1
      /\ h.serial \in 1..next - 1
    <2>1. m.serial \in 0..serial[p] - 1
        BY <1>3, <1>4 DEF StatusFits, Outbox
    <2>2. CASE m.status = "sent"
        BY <2>1, <2>2, <1>1, <1>5
    <2>3. CASE m.status = "new"
        <3>1. serial[p] =< Len(old)
            <4> HIDE DEF old
            <4> QED BY <1>1, <1>3, <1>5, <2>3, SerialsCount DEF m
        <3> QED BY <3>1, <2>3, <1>1, <1>5
    <2> QED BY <2>2, <2>3, <1>5
<1>10. /\ QueuedIn(p, Outbox(p))' = Queued(p) \ {i}
       /\ Outbox(p)'.msgs = ms /\ Range(Outbox(p)'.commonQ) \subseteq Range(commonQ[p])
    BY <1>2, <1>8 DEF Outbox, Queued, QueuedIn
<1>11. /\ QueuedIn(p, Outbox(p)) = Queued(p)
       /\ Outbox(p).msgs = old /\ Outbox(p).commonQ = commonQ[p]
    BY SoundParts DEF Outbox
<1>12. i \notin Range(Outbox(p)'.commonQ)
    BY <1>10 DEF QueuedIn
<1> HIDE DEF old, next
<1>13. \A j \in 1..Len(old) : StatusFits(p, Outbox(p), j)'
    <2> TAKE j \in 1..Len(old)
    <2>1. StatusFits(p, Outbox(p), j)
        BY <1>4
    <2>2. CASE j = i
        <3>1. /\ ms[i] = h /\ Outbox(p)'.msgs[i] = h
              /\ i \notin QueuedIn(p, Outbox(p))'
              /\ i \notin revisited'[p] /\ i # draft'[p]
            BY <1>3, <1>6, <1>10
        <3>2. h.serial \in 0..next - 1 /\ h.serial # 0 /\ h.ctl2 \in 0..next - 1
            BY <1>1, <1>5, <1>9
        <3>3. h.pred \in 0..Len(old)
            <4>1. m.pred \in 0..Len(old)
                BY <2>1, <2>2, <1>11 DEF StatusFits, m
            <4> QED BY <4>1, <1>1, <1>5
        <3>4. h.status \in {"pending", "sent"}
            BY <1>5
        <3> HIDE DEF m
        <3> QED BY <2>2, <3>1, <3>2, <3>3, <3>4, <1>6, <1>8, <1>10, <1>12 DEF StatusFits
    <2>3. CASE j # i
        <3>1. Outbox(p)'.msgs[j] = old[j]
            BY <2>3, <1>6, <1>10
        <3>2. 0..serial[p] - 1 \subseteq 0..next - 1
            BY <1>1, <1>9
        <3> QED BY <2>1, <2>3, <3>1, <3>2, <1>6, <1>8, <1>10, <1>11 DEF StatusFits
    <2> QED BY <2>2, <2>3
<1>14. \A j \in Range(dispatched[p]) : VimKept(p, Outbox(p), j)'
    <2> TAKE j \in Range(dispatched[p])
    <2>1. VimKept(p, Outbox(p), j) /\ j \in 1..Len(old) /\ prepared[p] = 0
        BY SoundParts DEF old
    <2>2. j # i => Outbox(p)'.msgs[j] = old[j]
        BY <2>1, <1>6, <1>10
    <2>3. Outbox(p)'.msgs[i] = h /\ h.vim = old[i].vim
        BY <1>3, <1>5, <1>6, <1>10 DEF m
    <2>4. CASE j = i
        BY <2>1, <2>3, <2>4, <1>8, <1>11 DEF VimKept
    <2>5. CASE j # i
        <3>1. j \in QueuedIn(p, Outbox(p)) => j \in QueuedIn(p, Outbox(p))'
            BY <2>5, <1>10, <1>11
        <3> QED BY <2>1, <2>2, <2>5, <3>1, <1>3, <1>8, <1>11 DEF VimKept
    <2> QED BY <2>4, <2>5
<1>15. SerialsFit(ms, next)
    <2>1. CASE m.status = "sent"
        <3>1. \A j \in 1..Len(old) : ms[j].serial = old[j].serial
            BY <2>1, <1>5, <1>6 DEF m
        <3> QED BY <2>1, <3>1, <1>1, <1>6, SerialsSame DEF next
    <2>2. CASE m.status = "new"
        <3>1. \A j \in 1..Len(old) : old[j].serial \in 0..serial[p] - 1
            BY <1>4, <1>11 DEF StatusFits
        <3>2. old[i].serial = 0 /\ ms[i].serial = serial[p]
            BY <2>2, <1>3, <1>5, <1>6 DEF m
        <3>3. \A j \in 1..Len(old) : j # i => ms[j].serial = old[j].serial
            BY <1>6
        <3>4. SerialsFit(ms, serial[p] + 1)
            BY <3>1, <3>2, <3>3, <1>1, <1>3, <1>6, SerialsNext
        <3> QED BY <2>2, <3>4 DEF next
    <2> QED BY <2>1, <2>2, <1>5
<1>16. Sound(p, Outbox(p))'
    <2>1. Queued(p)' \cup revisited'[p] \subseteq 1..Len(old) /\ i \in 0..Len(old)
        BY <1>1, <1>2, <1>3 DEF old
    <2>2. Queued(p)' \cap (revisited'[p] \cup {draft[p], i}) = {}
        BY <1>2, SoundParts
    <2> QED BY <2>1, <2>2, <1>1, <1>2, <1>3, <1>6, <1>8, <1>9, <1>13, <1>14, <1>15,
               PlacesSound DEF old
<1>17. SoundStep
    BY <1>1, <1>6, <1>8, <1>16, StepSound DEF old
<1>18. h.serial \in 1..Len(old) /\ h.ctl2 \in 0..Len(old)
    BY <1>1, <1>5, <1>9
<1> QED BY <1>3, <1>5, <1>6, <1>8, <1>17, <1>18 DEF old

\* What the listener does to the outgoing side is one write of it.
LEMMA WriteSound ==
    ASSUME NEW p \in Peer, SenderInv, NEW out, Sound(p, out),
           Grows(msgs[p], out.msgs), WriteOutbox(p, out),
           UNCHANGED <<opened, registered, draft, vimQ, lastUrgent, lastVIM,
                       serial, prepared, revisited, dispatched>>
    PROVE  SoundStep
<1>1. SenderTypes /\ SameBook(p)
    BY DEF SenderInv, SameBook
<1>2. /\ Sound(p, Outbox(p))' /\ Outbox(p)' = out
      /\ msgs' \in [Peer -> Seq(NetMessage)]
      /\ urgentQ' \in [Peer -> Seq(Nat)] /\ commonQ' \in [Peer -> Seq(Nat)]
      /\ Len(msgs'[p]) =< MaxMsgs[p]
      /\ \A q \in Peer \ {p} : Outbox(q)' = Outbox(q)
    BY <1>1, OutboxSound
<1>3. SenderTypes'
    BY <1>1, <1>2 DEF SenderTypes
<1>4. \A q \in Peer \ {p} : SameBook(q) /\ Outbox(q)' = Outbox(q)
    BY <1>2 DEF SameBook
<1>5. msgs'[p] = out.msgs
    BY <1>2 DEF Outbox
<1> QED BY <1>2, <1>3, <1>4, <1>5, StepSound

LEMMA CheckConnectivitySound ==
    ASSUME NEW p \in Peer, SenderInv, CheckConnectivity(p)
    PROVE  SoundStep
<1>1. PICK ping \in PingRequests : WriteOutbox(p, HeartBeat(Outbox(p), ping))
    BY DEF CheckConnectivity
<1>2. ping \in BOOLEAN /\ SenderTypes /\ Sound(p, Outbox(p))
    BY ModeAssumption DEF SenderInv
<1>3. /\ Sound(p, HeartBeat(Outbox(p), ping))
      /\ Grows(Outbox(p).msgs, HeartBeat(Outbox(p), ping).msgs)
    BY <1>2, HeartBeatSound
<1>4. Outbox(p).msgs = msgs[p]
    BY DEF Outbox
<1>5. UNCHANGED <<opened, registered, draft, vimQ, lastUrgent, lastVIM,
                  serial, prepared, revisited, dispatched>>
    BY DEF CheckConnectivity, life, histVars
<1> QED BY <1>1, <1>3, <1>4, <1>5, WriteSound

\* inputStatistics and setDelayMessage.
LEMMA ReceiveNewSound ==
    ASSUME NEW p \in Peer, SenderInv, NEW pkt, pkt.serial \in Nat,
           ReceiveNew(p, pkt)
    PROVE  SoundStep
<1> DEFINE box == Outbox(p)
           acked == [box EXCEPT !.msgs = MarkAcked(p, @, pkt.acks)]
<1>1. PICK out \in StatisticsOutboxes(p, pkt) :
         WriteOutbox(p, IF pkt.inst THEN DelayReply(out, pkt.serial) ELSE out)
    BY DEF ReceiveNew
<1>2. /\ SenderTypes /\ Sound(p, box) /\ box.msgs = msgs[p]
      /\ box \in [msgs : Seq(NetMessage), urgentQ : Seq(Nat), commonQ : Seq(Nat)]
    BY DEF SenderInv, Outbox, Sound, OutTypes
<1> HIDE DEF box
<1>3. acked.msgs = MarkAcked(p, box.msgs, pkt.acks)
    BY <1>2
<1>4. Sound(p, acked) /\ Grows(box.msgs, acked.msgs)
    BY <1>2, <1>3, MarkAckedSound
<1> HIDE DEF acked
<1>5. out \in {box, acked} \cup {HeartBeat(acked, ping) : ping \in PingRequests}
    BY <1>1 DEF StatisticsOutboxes, box, acked
<1>6. \A x : Sound(p, x) => x.msgs \in Seq(NetMessage)
    BY DEF Sound, OutTypes
<1>7. Sound(p, out) /\ Grows(box.msgs, out.msgs)
    <2>1. CASE out = box
        BY <2>1, <1>2, <1>6, GrowsSame
    <2>2. CASE out = acked
        BY <2>2, <1>4
    <2>3. ASSUME NEW ping \in PingRequests, out = HeartBeat(acked, ping)
          PROVE  Sound(p, out) /\ Grows(box.msgs, out.msgs)
        <3>1. ping \in BOOLEAN
            BY ModeAssumption
        <3>2. Sound(p, out) /\ Grows(acked.msgs, out.msgs)
            BY <1>2, <1>4, <2>3, <3>1, HeartBeatSound
        <3> QED BY <1>2, <1>4, <1>6, <3>2, GrowsTransitive
    <2> QED BY <1>5, <2>1, <2>2, <2>3
<1> DEFINE last == IF pkt.inst THEN DelayReply(out, pkt.serial) ELSE out
<1>8. Sound(p, last) /\ Grows(box.msgs, last.msgs)
    <2>1. CASE pkt.inst
        <3>1. last = DelayReply(out, pkt.serial)
            BY <2>1
        <3> HIDE DEF last
        <3>2. Sound(p, last) /\ Grows(out.msgs, last.msgs)
            BY <3>1, <1>2, <1>7, DelayReplySound
        <3> QED BY <1>2, <1>6, <1>7, <3>2, GrowsTransitive
    <2>2. CASE ~pkt.inst
        BY <2>2, <1>7
    <2> QED BY <2>1, <2>2
<1>9. UNCHANGED <<opened, registered, draft, vimQ, lastUrgent, lastVIM,
                  serial, prepared, revisited, dispatched>>
    BY DEF ReceiveNew, life
<1>10. WriteOutbox(p, last)
    BY <1>1
<1> HIDE DEF last
<1> QED BY <1>2, <1>8, <1>9, <1>10, WriteSound

-----------------------------------------------------------------------------
(***************************************************************************)
(* The receiving side and the network.                                     *)
(***************************************************************************)
ReceiverInv ==
    /\ ReceiverTypes /\ net \subseteq PacketSet
    /\ \A p \in Peer : ReceiverBounds(p)

SameWindows(q) ==
    /\ inputMax'[q] = inputMax[q] /\ inputMin'[q] = inputMin[q]
    /\ ackMin'[q] = ackMin[q] /\ ackMask'[q] = ackMask[q]
    /\ procMask'[q] = procMask[q] /\ ackLeft'[q] = ackLeft[q]
    /\ oldAcks'[q] = oldAcks[q] /\ deferred'[q] = deferred[q]
    /\ working'[q] = working[q] /\ delivered'[q] = delivered[q]

LEMMA PacketFact ==
    ASSUME NEW pkt \in PacketSet
    PROVE  /\ pkt.src \in Peer /\ pkt.id \in 1..MaxMsgs[pkt.src]
           /\ pkt.serial \in 1..MaxMsgs[pkt.src]
           /\ \A p \in Peer : pkt.src # p =>
                 pkt.src = Other(p) /\ pkt.serial \in Serials(p)
<1>1. PICK q \in Peer :
         pkt \in [src : {q}, id : Ids(q), serial : Ids(q), vim : BOOLEAN,
                 dummy : BOOLEAN, inst : BOOLEAN, pred : 0..MaxMsgs[q],
                 acks : SUBSET Serials(q)]
    BY DEF PacketSet
<1>2. pkt.src = q /\ pkt.id \in Ids(q) /\ pkt.serial \in Ids(q)
    BY <1>1
<1>3. \A p \in Peer : q # p => q = Other(p)
    BY OtherFact
<1> QED BY <1>2, <1>3 DEF Ids, Serials

\* The windows of the other peer, and the messages of both, stay or grow.
LEMMA OtherWindows ==
    ASSUME ReceiverInv, SoundStep, NEW q \in Peer, SameWindows(q)
    PROVE  ReceiverBounds(q)'
<1>1. ReceiverBounds(q) /\ Other(q) \in Peer
    BY OtherFact DEF ReceiverInv
<1>2. Len(msgs[Other(q)]) =< Len(msgs'[Other(q)])
    BY <1>1 DEF SoundStep, Grows
<1>3. Range(delivered[q]) \subseteq 1..Len(msgs[Other(q)])
    BY <1>1 DEF ReceiverBounds
<1>4. Len(msgs'[Other(q)]) \in Nat
    BY <1>1, LenProperties DEF SoundStep, SenderInv, SenderTypes
<1>5. Range(delivered[q]) \subseteq 1..Len(msgs'[Other(q)])
    BY <1>2, <1>3, <1>4
<1> QED BY <1>1, <1>5 DEF ReceiverBounds, SameWindows

LEMMA ReceiverStep ==
    ASSUME NEW p \in Peer, ReceiverInv, SoundStep, net' \subseteq PacketSet,
           ReceiverTypes', ReceiverBounds(p)',
           \A q \in Peer \ {p} : SameWindows(q)
    PROVE  ReceiverInv'
<1>1. \A q \in Peer : ReceiverBounds(q)'
    BY OtherWindows
<1>2. (net \subseteq PacketSet)'
    BY DEF PacketSet, Ids, Serials, Other
<1> QED BY <1>1, <1>2 DEF ReceiverInv

\* A step of the sending side alone.
LEMMA ReceiverSame ==
    ASSUME ReceiverInv, SoundStep, UNCHANGED <<recvVars, net, delivered>>
    PROVE  ReceiverInv'
<1>1. UNCHANGED <<inputMax, inputMin, ackMin, ackMask, ackLeft, oldAcks,
                  procMask, deferred, working, net, delivered>>
    BY DEF recvVars
<1>2. \A q \in Peer : ReceiverBounds(q)'
    <2>1. \A q \in Peer : SameWindows(q)
        BY <1>1 DEF SameWindows
    <2> QED BY <2>1, OtherWindows
<1>3. ReceiverTypes'
    BY <1>1 DEF ReceiverInv, ReceiverTypes
<1>4. (net \subseteq PacketSet)'
    BY <1>1 DEF ReceiverInv, PacketSet, Ids, Serials, Other
<1> QED BY <1>2, <1>3, <1>4 DEF ReceiverInv

\* What a packet tells of its message stays so.
LEMMA PacketStep ==
    ASSUME SenderInv, SoundStep, NEW pkt \in PacketSet, PacketSound(pkt)
    PROVE  PacketSound(pkt)'
<1> DEFINE p == pkt.src
           i == pkt.id
<1>1. p \in Peer /\ pkt.serial # 0
    BY PacketFact
<1>2. /\ Len(msgs[p]) =< Len(msgs'[p]) /\ Len(msgs[p]) \in Nat
      /\ Len(msgs'[p]) \in Nat /\ i \in 1..Len(msgs[p])
    BY <1>1, LenProperties
       DEF SoundStep, SenderInv, SenderTypes, Grows, PacketSound
<1>3. Keeps(msgs[p][i], msgs'[p][i])
    BY <1>1, <1>2 DEF SoundStep, Grows
<1>4. i \in 1..Len(msgs'[p])
    BY <1>2
<1> QED BY <1>1, <1>3, <1>4 DEF PacketSound, Keeps

\* The parts of ReceiverInv.
LEMMA ReceiverParts ==
    ASSUME NEW p \in Peer, ReceiverInv
    PROVE  /\ MaxMsgs[Other(p)] \in Nat /\ Serials(p) = 1..MaxMsgs[Other(p)]
           /\ inputMax[p] \in Serials(p)
           /\ inputMin[p] \in 1..inputMax[p] /\ ackMin[p] \in 1..inputMax[p]
           /\ ackMask[p] \subseteq Serials(p) /\ procMask[p] \subseteq Serials(p)
           /\ ackLeft[p] \in [Serials(p) -> -1..AckRedundancy]
           /\ oldAcks[p] \in Seq(Nat) /\ Len(oldAcks[p]) =< OldAckSlots
           /\ Range(oldAcks[p]) \subseteq Serials(p)
           /\ Range(delivered[p]) \subseteq 1..Len(msgs[Other(p)])
           /\ deferred[p] \cup working[p] \subseteq net
           /\ \A pkt \in deferred[p] \cup working[p] : pkt.src = Other(p)
BY OtherFact, BoundAssumption DEF ReceiverInv, ReceiverTypes, ReceiverBounds, Serials

\* A header counts the acknowledgements it carries.
LEMMA CountAcksFact ==
    ASSUME NEW p \in Peer, ReceiverInv, NEW m, CountAcks(p, m)
    PROVE  /\ ackLeft' = [q \in Peer |-> ackLeft'[q]]
           /\ oldAcks' \in [Peer -> Seq(Nat)]
           /\ ackLeft'[p] \in [Serials(p) -> -1..AckRedundancy]
           /\ Range(oldAcks'[p]) \subseteq Serials(p)
           /\ Len(oldAcks'[p]) =< OldAckSlots
           /\ \A q \in Peer \ {p} :
                 ackLeft'[q] = ackLeft[q] /\ oldAcks'[q] = oldAcks[q]
<1> DEFINE left == [s \in Serials(p) |->
                       IF s \in AckSpan(p, m) /\ s >= inputMin[p] /\ ackLeft[p][s] > 0
                       THEN ackLeft[p][s] - 1 ELSE ackLeft[p][s]]
<1>1. /\ ackLeft = [q \in Peer |-> ackLeft[q]] /\ oldAcks \in [Peer -> Seq(Nat)]
    BY DEF ReceiverInv, ReceiverTypes
<1>2. left \in [Serials(p) -> -1..AckRedundancy]
    <2>1. AckRedundancy \in Nat /\ ackLeft[p] \in [Serials(p) -> -1..AckRedundancy]
        BY ReceiverParts, BoundAssumption
    <2>2. \A s \in Serials(p) : ackLeft[p][s] > 0 => ackLeft[p][s] - 1 \in -1..AckRedundancy
        BY <2>1
    <2> QED BY <2>1, <2>2
<1>3. ackLeft' = [ackLeft EXCEPT ![p] = left]
    BY DEF CountAcks
<1> HIDE DEF left
<1>4. /\ ackLeft' = [q \in Peer |-> ackLeft'[q]] /\ ackLeft'[p] = left
      /\ \A q \in Peer \ {p} : ackLeft'[q] = ackLeft[q]
    <2>1. PICK f : f = ackLeft /\ f = [q \in Peer |-> f[q]]
        BY <1>1
    <2>2. PICK g : g = ackLeft' /\ g = [f EXCEPT ![p] = left]
        BY <1>3, <2>1
    <2>3. g = [q \in Peer |-> g[q]] /\ g[p] = left /\ \A q \in Peer \ {p} : g[q] = f[q]
        BY <2>1, <2>2
    <2> QED BY <2>1, <2>2, <2>3
<1>5. CASE HasOldAck(p, m)
    <2>1. oldAcks' = [oldAcks EXCEPT ![p] = Tail(oldAcks[p])] /\ oldAcks[p] # <<>>
        BY <1>5 DEF CountAcks, HasOldAck
    <2>2. /\ oldAcks[p] \in Seq(Nat) /\ Len(oldAcks[p]) =< OldAckSlots
          /\ Range(oldAcks[p]) \subseteq Serials(p)
        BY ReceiverParts
    <2>3. /\ Tail(oldAcks[p]) \in Seq(Nat)
          /\ Range(Tail(oldAcks[p])) \subseteq Range(oldAcks[p])
        BY <2>1, <2>2, TailFact
    <2>4. Len(Tail(oldAcks[p])) =< OldAckSlots
        <3>1. /\ Len(oldAcks[p]) \in Nat
              /\ Len(Tail(oldAcks[p])) = Len(oldAcks[p]) - 1
            BY <2>1, <2>2, HeadTailProperties, LenProperties
        <3> QED BY <2>2, <3>1, BoundAssumption
    <2>5. /\ oldAcks'[p] = Tail(oldAcks[p]) /\ oldAcks' \in [Peer -> Seq(Nat)]
          /\ \A q \in Peer \ {p} : oldAcks'[q] = oldAcks[q]
        BY <1>1, <2>1, <2>3
    <2> QED BY <1>2, <1>4, <2>2, <2>3, <2>4, <2>5
<1>6. CASE ~HasOldAck(p, m)
    <2>1. oldAcks' = oldAcks
        BY <1>6 DEF CountAcks
    <2> QED BY <1>1, <1>2, <1>4, <2>1, ReceiverParts
<1> QED BY <1>5, <1>6

\* A duplicate is acknowledged again.
LEMMA InputResentFact ==
    ASSUME NEW p \in Peer, ReceiverInv, NEW pkt, pkt.serial \in Serials(p),
           InputResent(p, pkt)
    PROVE  /\ ackLeft' = [q \in Peer |-> ackLeft'[q]]
           /\ oldAcks' \in [Peer -> Seq(Nat)]
           /\ ackLeft'[p] \in [Serials(p) -> -1..AckRedundancy]
           /\ Range(oldAcks'[p]) \subseteq Serials(p)
           /\ Len(oldAcks'[p]) =< OldAckSlots
           /\ \A q \in Peer \ {p} :
                 ackLeft'[q] = ackLeft[q] /\ oldAcks'[q] = oldAcks[q]
<1> DEFINE s == pkt.serial
           left == [ackLeft[p] EXCEPT ![s] = AckRedundancy]
<1>1. /\ ackLeft = [q \in Peer |-> ackLeft[q]] /\ oldAcks \in [Peer -> Seq(Nat)]
      /\ s \in Nat
    <2>1. Serials(p) \subseteq Nat
        BY ReceiverParts
    <2> QED BY <2>1 DEF ReceiverInv, ReceiverTypes
<1>2. left \in [Serials(p) -> -1..AckRedundancy]
    BY ReceiverParts, BoundAssumption
<1>3. ackLeft' \in {ackLeft, [ackLeft EXCEPT ![p] = left]}
    <2>1. [ackLeft EXCEPT ![p][s] = AckRedundancy] = [ackLeft EXCEPT ![p] = left]
        OBVIOUS
    <2> QED BY <2>1 DEF InputResent
<1> HIDE DEF left
<1>4. /\ ackLeft' = [q \in Peer |-> ackLeft'[q]]
      /\ ackLeft'[p] \in {ackLeft[p], left}
      /\ \A q \in Peer \ {p} : ackLeft'[q] = ackLeft[q]
    <2>1. PICK f : f = ackLeft /\ f = [q \in Peer |-> f[q]]
        BY <1>1
    <2>2. PICK g : g = ackLeft' /\ (g = f \/ g = [f EXCEPT ![p] = left])
        BY <1>3, <2>1
    <2>3. /\ g = [q \in Peer |-> g[q]] /\ g[p] \in {f[p], left}
          /\ \A q \in Peer \ {p} : g[q] = f[q]
        BY <2>1, <2>2
    <2> QED BY <2>1, <2>2, <2>3
<1>5. CASE oldAcks' = oldAcks
    BY <1>1, <1>2, <1>4, <1>5, ReceiverParts
<1>6. CASE oldAcks' # oldAcks
    <2>1. /\ oldAcks' = [oldAcks EXCEPT ![p] = Append(oldAcks[p], s)]
          /\ Len(oldAcks[p]) < OldAckSlots
        BY <1>6 DEF InputResent
    <2>2. /\ oldAcks[p] \in Seq(Nat) /\ Range(oldAcks[p]) \subseteq Serials(p)
          /\ Len(oldAcks[p]) \in Nat
        BY ReceiverParts, LenProperties
    <2>3. /\ Append(oldAcks[p], s) \in Seq(Nat)
          /\ Range(Append(oldAcks[p], s)) = Range(oldAcks[p]) \cup {s}
          /\ Len(Append(oldAcks[p], s)) = Len(oldAcks[p]) + 1
        <3>1. \A q \in Seq(Nat), x \in Nat :
                 /\ Append(q, x) \in Seq(Nat) /\ Range(Append(q, x)) = Range(q) \cup {x}
                 /\ Len(Append(q, x)) = Len(q) + 1
            BY AppendFact
        <3> QED BY <1>1, <2>2, <3>1, Zenon
    <2>4. Len(Append(oldAcks[p], s)) =< OldAckSlots
        BY <2>1, <2>2, <2>3, BoundAssumption
    <2>5. /\ oldAcks'[p] = Append(oldAcks[p], s) /\ oldAcks' \in [Peer -> Seq(Nat)]
          /\ \A q \in Peer \ {p} : oldAcks'[q] = oldAcks[q]
        BY <1>1, <2>1, <2>3
    <2> QED BY <1>2, <1>4, <2>2, <2>3, <2>4, <2>5, ReceiverParts
<1> QED BY <1>5, <1>6

PacketsSound == \A pkt \in net : PacketSound(pkt)

\* All that IInv says, and that a step keeps it and lets the messages grow.
Invariant == SenderInv /\ ReceiverInv /\ PacketsSound
InvStep == SoundStep /\ ReceiverInv' /\ PacketsSound'

LEMMA PacketsStep ==
    ASSUME Invariant, SoundStep, \A pkt \in net' \ net : PacketSound(pkt)'
    PROVE  PacketsSound'
<1>1. \A pkt \in net : PacketSound(pkt)'
    BY PacketStep DEF Invariant, ReceiverInv, PacketsSound
<1> QED BY <1>1 DEF PacketsSound

\* Steps of the user and of the sender thread.
LEMMA SendingStep ==
    ASSUME Invariant, SoundStep, UNCHANGED <<recvVars, net, delivered>>
    PROVE  InvStep
<1>1. ReceiverInv'
    BY ReceiverSame DEF Invariant
<1>2. PacketsSound'
    BY PacketsStep
<1> QED BY <1>1, <1>2 DEF InvStep

LEMMA TransmitStep ==
    ASSUME NEW p \in Peer, Invariant, Transmit(p)
    PROVE  InvStep
<1> DEFINE i == NextToSend(p)
<1>1. PICK bw \in Bandwidths :
         LET m == Header(p, i, bw)
         IN  /\ msgs' = [msgs EXCEPT ![p][i] = m]
             /\ serial' = IF msgs[p][i].status = "sent" THEN serial
                          ELSE [serial EXCEPT ![p] = @ + 1]
             /\ prepared' = [prepared EXCEPT ![p] = i]
             /\ net' = net \cup {Packet(p, i, m)}
             /\ CountAcks(p, m)
    BY DEF Transmit
<1> DEFINE h == Header(p, i, bw)
<1>2. /\ SoundStep /\ i \in 1..Len(msgs[p]) /\ h \in NetMessage /\ msgs'[p][i] = h
      /\ h.serial \in 1..Len(msgs[p]) /\ h.ctl2 \in 0..Len(msgs[p])
      /\ h.ord => h.pred = 0
    <2>1. bw \in BOOLEAN
        BY ModeAssumption
    <2>2. /\ msgs' = [msgs EXCEPT ![p][i] = h]
          /\ serial' = IF msgs[p][i].status = "sent" THEN serial
                       ELSE [serial EXCEPT ![p] = @ + 1]
          /\ prepared' = [prepared EXCEPT ![p] = i]
        BY <1>1
    <2>3. /\ prepared[p] = 0 /\ i # 0 /\ Dequeue(p) /\ SenderInv
          /\ UNCHANGED <<opened, registered, draft, lastUrgent, lastVIM,
                         revisited, dispatched>>
        BY DEF Transmit, life, histVars, Invariant
    <2>4. PICK x : x = i
        OBVIOUS
    <2>5. PICK y : y = h
        OBVIOUS
    <2>6. /\ x = NextToSend(p) /\ y = Header(p, x, bw) /\ x # 0
          /\ msgs' = [msgs EXCEPT ![p][x] = y]
          /\ serial' = IF msgs[p][x].status = "sent" THEN serial
                       ELSE [serial EXCEPT ![p] = @ + 1]
          /\ prepared' = [prepared EXCEPT ![p] = x]
        BY <2>2, <2>3, <2>4, <2>5
    <2> HIDE DEF i, h
    <2>7. NextToSend(p) # 0 /\ prepared[p] = 0
        BY <2>3, <2>6
    <2>8. /\ SoundStep /\ x \in 1..Len(msgs[p]) /\ y \in NetMessage /\ msgs'[p][x] = y
          /\ y.serial \in 1..Len(msgs[p]) /\ y.ctl2 \in 0..Len(msgs[p])
          /\ y.ord => y.pred = 0
        BY <2>1, <2>3, <2>6, <2>7, TransmitSound, ZenonT(60)
    <2> QED BY <2>4, <2>5, <2>8
<1> DEFINE packet == Packet(p, i, h)
<1>3. /\ net' = net \cup {packet} /\ CountAcks(p, h)
      /\ UNCHANGED <<inputMax, inputMin, ackMin, ackMask, procMask, deferred,
                     working, delivered>>
    BY <1>1 DEF Transmit, histVars
<1> HIDE DEF h, i
<1>4. /\ Len(msgs[p]) \in Nat /\ Len(msgs[p]) =< MaxMsgs[p] /\ MaxMsgs[p] \in Nat
      /\ ackMask[p] \subseteq Serials(p)
    BY SoundParts, ReceiverParts, BoundAssumption DEF Invariant
<1>pkt. PICK pkt : pkt = packet
    OBVIOUS
<1>5. pkt \in PacketSet
    <2>1. pkt \in [src : {p}, id : Ids(p), serial : Ids(p), vim : BOOLEAN,
                   dummy : BOOLEAN, inst : BOOLEAN, pred : 0..MaxMsgs[p],
                   acks : SUBSET Serials(p)]
        <3>1. i \in Ids(p) /\ h.serial \in Ids(p) /\ h.ctl2 \in 0..MaxMsgs[p]
            BY <1>2, <1>4 DEF Ids
        <3>2. h.vim \in BOOLEAN /\ h.dummy \in BOOLEAN /\ h.inst \in BOOLEAN
            BY <1>2 DEF NetMessage
        <3>3. (IF h.ord THEN h.ctl2 ELSE 0) \in 0..MaxMsgs[p]
            BY <3>1, <1>4
        <3>4. ackMask[p] \cap AckSpan(p, h) \in SUBSET Serials(p)
            BY <1>4
        <3> QED BY <1>pkt, <3>1, <3>2, <3>3, <3>4 DEF Packet
    <2> QED BY <2>1 DEF PacketSet
<1>6. PacketSound(pkt)'
    <2>1. /\ pkt.src = p /\ pkt.id = i /\ pkt.serial = h.serial /\ pkt.vim = h.vim
          /\ pkt.dummy = h.dummy /\ pkt.pred = IF h.ord THEN h.ctl2 ELSE 0
        BY <1>pkt DEF Packet
    <2>2. Len(msgs[p]) =< Len(msgs'[p]) /\ Len(msgs'[p]) \in Nat
        BY <1>2, LenProperties DEF SoundStep, Grows, SenderInv, SenderTypes
    <2>3. i \in 1..Len(msgs'[p])
        BY <1>2, <1>4, <2>2
    <2>4. PICK x, y : x = i /\ y = h
        OBVIOUS
    <2>5. /\ x \in 1..Len(msgs'[p]) /\ msgs'[p][x] = y /\ (y.ord => y.pred = 0)
          /\ pkt.src = p /\ pkt.id = x /\ pkt.serial = y.serial /\ pkt.vim = y.vim
          /\ pkt.dummy = y.dummy /\ pkt.pred = IF y.ord THEN y.ctl2 ELSE 0
        BY <2>1, <2>3, <2>4, <1>2
    <2> QED BY <2>5 DEF PacketSound
<1> HIDE DEF packet
<1>7. PacketsSound'
    BY <1>pkt, <1>2, <1>3, <1>6, PacketsStep
<1>8. ReceiverInv'
    <2>1. ReceiverInv
        BY DEF Invariant
    <2>2. /\ ackLeft' = [q \in Peer |-> ackLeft'[q]]
          /\ oldAcks' \in [Peer -> Seq(Nat)]
          /\ ackLeft'[p] \in [Serials(p) -> -1..AckRedundancy]
          /\ Range(oldAcks'[p]) \subseteq Serials(p)
          /\ Len(oldAcks'[p]) =< OldAckSlots
          /\ \A q \in Peer \ {p} :
                ackLeft'[q] = ackLeft[q] /\ oldAcks'[q] = oldAcks[q]
        BY <1>3, <2>1, CountAcksFact
    <2>3. ReceiverTypes'
        BY <1>3, <2>1, <2>2 DEF ReceiverInv, ReceiverTypes
    <2>4. Range(delivered'[p]) \subseteq 1..Len(msgs'[Other(p)])
        <3>1. /\ Other(p) \in Peer
              /\ Range(delivered[p]) \subseteq 1..Len(msgs[Other(p)])
            BY <2>1, OtherFact, ReceiverParts
        <3>2. Len(msgs[Other(p)]) =< Len(msgs'[Other(p)])
                 /\ Len(msgs'[Other(p)]) \in Nat
            BY <3>1, <1>2, LenProperties
               DEF SoundStep, Grows, SenderInv, SenderTypes
        <3>3. delivered'[p] = delivered[p]
            BY <1>3
        <3> QED BY <3>1, <3>2, <3>3
    <2>5. ReceiverBounds(p)'
        BY <1>3, <2>1, <2>2, <2>4 DEF ReceiverInv, ReceiverBounds
    <2>6. \A q \in Peer \ {p} : SameWindows(q)
        BY <1>3, <2>2 DEF SameWindows
    <2>7. net' \subseteq PacketSet
        BY <1>pkt, <1>3, <1>5, <2>1 DEF ReceiverInv
    <2> QED BY <1>2, <2>1, <2>3, <2>5, <2>6, <2>7, ReceiverStep
<1> QED BY <1>2, <1>7, <1>8 DEF InvStep

LEMMA ReceiveAgainStep ==
    ASSUME NEW p \in Peer, Invariant, NEW pkt \in net, pkt.src # p,
           ReceiveAgain(p, pkt), UNCHANGED net
    PROVE  InvStep
<1>1. ReceiverInv /\ SenderInv /\ pkt.serial \in Serials(p)
    BY PacketFact DEF Invariant, ReceiverInv
<1>2. /\ InputResent(p, pkt)
      /\ UNCHANGED <<inputMax, inputMin, ackMin, ackMask, procMask, deferred,
                     working, delivered>>
      /\ UNCHANGED <<opened, registered, msgs, draft, urgentQ, vimQ, commonQ,
                     lastUrgent, lastVIM, serial, prepared, revisited, dispatched>>
    BY DEF ReceiveAgain, histVars, sendVars, life
<1>3. SoundStep
    <2>1. \A q \in Peer : SameBook(q) /\ Outbox(q)' = Outbox(q)
        BY <1>2 DEF SameBook, Outbox
    <2>2. SenderTypes'
        BY <1>1, <1>2 DEF SenderInv, SenderTypes
    <2>3. Sound(p, Outbox(p))'
        BY <1>1, <2>1, SoundSame DEF SenderInv
    <2>4. Len(msgs'[p]) =< MaxMsgs[p] /\ Grows(msgs[p], msgs'[p])
        BY <1>1, <1>2, GrowsSame DEF SenderInv, SenderTypes
    <2> QED BY <1>1, <2>1, <2>2, <2>3, <2>4, StepSound
<1>4. /\ ackLeft' = [q \in Peer |-> ackLeft'[q]]
      /\ oldAcks' \in [Peer -> Seq(Nat)]
      /\ ackLeft'[p] \in [Serials(p) -> -1..AckRedundancy]
      /\ Range(oldAcks'[p]) \subseteq Serials(p)
      /\ Len(oldAcks'[p]) =< OldAckSlots
      /\ \A q \in Peer \ {p} :
            ackLeft'[q] = ackLeft[q] /\ oldAcks'[q] = oldAcks[q]
    BY <1>1, <1>2, InputResentFact
<1>5. ReceiverTypes'
    BY <1>1, <1>2, <1>4 DEF ReceiverInv, ReceiverTypes
<1>6. ReceiverBounds(p)'
    BY <1>1, <1>2, <1>4 DEF ReceiverInv, ReceiverBounds
<1>7. \A q \in Peer \ {p} : SameWindows(q)
    BY <1>2, <1>4 DEF SameWindows
<1>8. net' \subseteq PacketSet
    BY <1>1 DEF ReceiverInv
<1>9. ReceiverInv'
    BY <1>1, <1>3, <1>5, <1>6, <1>7, <1>8, ReceiverStep
<1>10. PacketsSound'
    BY <1>3, PacketsStep
<1> QED BY <1>3, <1>9, <1>10 DEF InvStep

\* The windows move on, to serials that exist.
LEMMA MoveWindowsFact ==
    ASSUME NEW p \in Peer, ReceiverInv, NEW s \in Serials(p), MoveWindows(p, s)
    PROVE  /\ inputMax' \in [Peer -> Nat] /\ inputMin' \in [Peer -> Nat]
           /\ ackMin' \in [Peer -> Nat] /\ ackMask' \in [Peer -> SUBSET Nat]
           /\ procMask' \in [Peer -> SUBSET Nat]
           /\ ackLeft' = [q \in Peer |-> ackLeft'[q]]
           /\ inputMax'[p] \in Serials(p)
           /\ inputMin'[p] \in 1..inputMax'[p] /\ ackMin'[p] \in 1..inputMax'[p]
           /\ ackMask'[p] \subseteq Serials(p) /\ procMask'[p] \subseteq Serials(p)
           /\ ackLeft'[p] \in [Serials(p) -> -1..AckRedundancy]
           /\ \A q \in Peer \ {p} :
                 /\ inputMax'[q] = inputMax[q] /\ inputMin'[q] = inputMin[q]
                 /\ ackMin'[q] = ackMin[q] /\ ackMask'[q] = ackMask[q]
                 /\ procMask'[q] = procMask[q] /\ ackLeft'[q] = ackLeft[q]
<1> DEFINE max == NewMax(p, s)
           min == NewMin(p, s)
           amin == NewAckMin(p, s)
           left == NewLeft(p, s)
<1>1. /\ inputMax \in [Peer -> Nat] /\ inputMin \in [Peer -> Nat]
      /\ ackMin \in [Peer -> Nat] /\ ackMask \in [Peer -> SUBSET Nat]
      /\ procMask \in [Peer -> SUBSET Nat]
      /\ ackLeft = [q \in Peer |-> ackLeft[q]]
    BY DEF ReceiverInv, ReceiverTypes
<1>2. /\ MaxMsgs[Other(p)] \in Nat /\ Serials(p) = 1..MaxMsgs[Other(p)]
      /\ inputMax[p] \in Serials(p)
      /\ inputMin[p] \in 1..inputMax[p] /\ ackMin[p] \in 1..inputMax[p]
      /\ ackMask[p] \subseteq Serials(p) /\ procMask[p] \subseteq Serials(p)
      /\ ackLeft[p] \in [Serials(p) -> -1..AckRedundancy]
    BY ReceiverParts
<1>3. max = IF inputMax[p] >= s THEN inputMax[p] ELSE s
    <2>1. inputMax[p] \in Int /\ s \in Int
        BY <1>2
    <2> QED BY <2>1, MaxFact DEF NewMax
<1>4. max \in Serials(p) /\ max >= inputMax[p] /\ max \in Nat
    BY <1>2, <1>3
<1>5. min \in 1..max
    <2>1. min = IF max - inputMin[p] >= AckArray THEN max - AckArray + 1 ELSE inputMin[p]
        BY DEF NewMin
    <2>2. AckArray \in Nat \ {0}
        BY BoundAssumption
    <2> HIDE DEF max, min
    <2> QED BY <1>2, <1>4, <2>1, <2>2
<1>6. amin \in 1..max
    <2>1. amin = IF max - ackMin[p] > MaxMask THEN max - MaxMask + GoodMask ELSE ackMin[p]
        BY DEF NewAckMin
    <2>2. MaxMask \in Nat /\ GoodMask \in 1..MaxMask
        BY BoundAssumption
    <2> HIDE DEF max, amin
    <2> QED BY <1>2, <1>4, <2>1, <2>2
<1>7. left \in [Serials(p) -> -1..AckRedundancy]
    <2>1. NotReceived \in -1..AckRedundancy /\ AckRedundancy \in -1..AckRedundancy
        BY BoundAssumption DEF NotReceived
    <2>2. left = [t \in Serials(p) |->
                    IF t < NewMin(p, s) THEN NotReceived
                    ELSE IF t = s THEN AckRedundancy ELSE ackLeft[p][t]]
        BY DEF NewLeft
    <2> HIDE DEF left
    <2> QED BY <1>2, <2>1, <2>2
<1> HIDE DEF max, min, amin, left
<1>8. /\ inputMax' = [inputMax EXCEPT ![p] = max]
      /\ inputMin' = [inputMin EXCEPT ![p] = min]
      /\ ackMin' = [ackMin EXCEPT ![p] = amin]
      /\ ackMask' = [ackMask EXCEPT ![p] = {t \in ackMask[p] \cup {s} : t >= amin}]
      /\ procMask' = [procMask EXCEPT ![p] = {t \in procMask[p] : t >= amin}]
      /\ ackLeft' = [ackLeft EXCEPT ![p] = left]
    BY DEF MoveWindows, max, min, amin, left
<1>9. /\ inputMax'[p] = max /\ inputMin'[p] = min /\ ackMin'[p] = amin
      /\ inputMax' \in [Peer -> Nat] /\ inputMin' \in [Peer -> Nat]
      /\ ackMin' \in [Peer -> Nat]
    BY <1>1, <1>4, <1>5, <1>6, <1>8
<1>10. /\ ackMask'[p] \subseteq Serials(p) /\ procMask'[p] \subseteq Serials(p)
       /\ ackMask' \in [Peer -> SUBSET Nat] /\ procMask' \in [Peer -> SUBSET Nat]
    <2> DEFINE A == {t \in ackMask[p] \cup {s} : t >= amin}
               P == {t \in procMask[p] : t >= amin}
    <2>1. A \subseteq Serials(p) /\ P \subseteq Serials(p) /\ Serials(p) \subseteq Nat
        BY <1>2
    <2>2. ackMask' = [ackMask EXCEPT ![p] = A] /\ procMask' = [procMask EXCEPT ![p] = P]
        BY <1>8
    <2> HIDE DEF A, P
    <2> QED BY <1>1, <2>1, <2>2
<1>11. \A q \in Peer \ {p} :
          /\ inputMax'[q] = inputMax[q] /\ inputMin'[q] = inputMin[q]
          /\ ackMin'[q] = ackMin[q] /\ ackMask'[q] = ackMask[q]
          /\ procMask'[q] = procMask[q]
    BY <1>1, <1>8
<1>12. /\ ackLeft' = [q \in Peer |-> ackLeft'[q]] /\ ackLeft'[p] = left
       /\ \A q \in Peer \ {p} : ackLeft'[q] = ackLeft[q]
    <2>1. PICK f : f = ackLeft /\ f = [q \in Peer |-> f[q]]
        BY <1>1
    <2>2. PICK g : g = ackLeft' /\ g = [f EXCEPT ![p] = left]
        BY <1>8, <2>1
    <2>3. g = [q \in Peer |-> g[q]] /\ g[p] = left /\ \A q \in Peer \ {p} : g[q] = f[q]
        BY <2>1, <2>2
    <2> QED BY <2>1, <2>2, <2>3
<1> QED BY <1>4, <1>5, <1>6, <1>7, <1>9, <1>10, <1>11, <1>12

\* Only messages that exist are given to the call-back.
LEMMA DeliveredFact ==
    ASSUME NEW p \in Peer, Invariant, SoundStep, NEW pkt \in net,
           pkt.src = Other(p),
           delivered' \in {delivered, [delivered EXCEPT ![p] = Append(@, pkt.id)]}
    PROVE  /\ delivered' \in [Peer -> Seq(Nat)]
           /\ Range(delivered'[p]) \subseteq 1..Len(msgs'[Other(p)])
           /\ \A q \in Peer \ {p} : delivered'[q] = delivered[q]
<1> DEFINE n == Len(msgs[Other(p)])
           n1 == Len(msgs'[Other(p)])
<1>1. /\ Other(p) \in Peer /\ delivered \in [Peer -> Seq(Nat)]
      /\ Range(delivered[p]) \subseteq 1..n /\ pkt.id \in 1..n
    BY OtherFact, ReceiverParts
       DEF Invariant, ReceiverInv, ReceiverTypes, PacketsSound, PacketSound
<1>2. n \in Nat /\ n1 \in Nat /\ n =< n1
    BY <1>1, LenProperties
       DEF SoundStep, Grows, SenderInv, SenderTypes, Invariant
<1> HIDE DEF n, n1
<1>3. 1..n \subseteq 1..n1 /\ pkt.id \in Nat
    BY <1>1, <1>2
<1>4. CASE delivered' = delivered
    BY <1>1, <1>3, <1>4 DEF n1
<1>5. CASE delivered' = [delivered EXCEPT ![p] = Append(delivered[p], pkt.id)]
    <2>1. /\ Append(delivered[p], pkt.id) \in Seq(Nat)
          /\ Range(Append(delivered[p], pkt.id)) = Range(delivered[p]) \cup {pkt.id}
        <3>1. \A q \in Seq(Nat), x \in Nat :
                 Append(q, x) \in Seq(Nat) /\ Range(Append(q, x)) = Range(q) \cup {x}
            BY AppendFact
        <3>2. delivered[p] \in Seq(Nat)
            BY <1>1
        <3> QED BY <1>3, <3>1, <3>2, Zenon
    <2>2. /\ delivered'[p] = Append(delivered[p], pkt.id)
          /\ delivered' \in [Peer -> Seq(Nat)]
          /\ \A q \in Peer \ {p} : delivered'[q] = delivered[q]
        BY <1>1, <1>5, <2>1
    <2> QED BY <1>1, <1>3, <2>1, <2>2 DEF n1
<1> QED BY <1>4, <1>5

LEMMA ReceiveNewStep ==
    ASSUME NEW p \in Peer, Invariant, NEW pkt \in net, pkt.src # p,
           ReceiveNew(p, pkt), UNCHANGED net
    PROVE  InvStep
<1>1. ReceiverInv /\ SenderInv /\ pkt.serial \in Serials(p) /\ pkt.src = Other(p)
    BY PacketFact DEF Invariant, ReceiverInv
<1>2. SoundStep
    <2>1. pkt.serial \in Nat
        BY <1>1, ReceiverParts
    <2> QED BY <1>1, <2>1, ReceiveNewSound
<1>3. /\ inputMax' \in [Peer -> Nat] /\ inputMin' \in [Peer -> Nat]
      /\ ackMin' \in [Peer -> Nat] /\ ackMask' \in [Peer -> SUBSET Nat]
      /\ procMask' \in [Peer -> SUBSET Nat]
      /\ ackLeft' = [q \in Peer |-> ackLeft'[q]]
      /\ inputMax'[p] \in Serials(p)
      /\ inputMin'[p] \in 1..inputMax'[p] /\ ackMin'[p] \in 1..inputMax'[p]
      /\ ackMask'[p] \subseteq Serials(p) /\ procMask'[p] \subseteq Serials(p)
      /\ ackLeft'[p] \in [Serials(p) -> -1..AckRedundancy]
      /\ \A q \in Peer \ {p} :
            /\ inputMax'[q] = inputMax[q] /\ inputMin'[q] = inputMin[q]
            /\ ackMin'[q] = ackMin[q] /\ ackMask'[q] = ackMask[q]
            /\ procMask'[q] = procMask[q] /\ ackLeft'[q] = ackLeft[q]
    <2>1. CASE InSpan(p, pkt.serial)
        <3>1. MoveWindows(p, pkt.serial)
            BY <2>1 DEF ReceiveNew
        <3> QED BY <1>1, <3>1, MoveWindowsFact
    <2>2. CASE ~InSpan(p, pkt.serial)
        <3>1. UNCHANGED <<inputMax, inputMin, ackMin, ackMask, procMask, ackLeft>>
            BY <2>2 DEF ReceiveNew
        <3> QED BY <1>1, <3>1, ReceiverParts DEF ReceiverInv, ReceiverTypes
    <2> QED BY <2>1, <2>2
<1>4. /\ deferred' \in {deferred, [deferred EXCEPT ![p] = @ \cup {pkt}]}
      /\ working' \in {working, [working EXCEPT ![p] = {pkt}]}
      /\ delivered' \in {delivered, [delivered EXCEPT ![p] = Append(@, pkt.id)]}
      /\ oldAcks' = oldAcks
    BY DEF ReceiveNew, Sort
<1>5. /\ delivered' \in [Peer -> Seq(Nat)]
      /\ Range(delivered'[p]) \subseteq 1..Len(msgs'[Other(p)])
      /\ \A q \in Peer \ {p} : delivered'[q] = delivered[q]
    BY <1>1, <1>2, <1>4, DeliveredFact
<1>6. /\ deferred' \in [Peer -> SUBSET net] /\ working' \in [Peer -> SUBSET net]
      /\ deferred'[p] \cup working'[p] \subseteq deferred[p] \cup working[p] \cup {pkt}
      /\ \A q \in Peer \ {p} :
            deferred'[q] = deferred[q] /\ working'[q] = working[q]
    <2> DEFINE D == deferred[p] \cup {pkt}
    <2>1. deferred \in [Peer -> SUBSET net] /\ working \in [Peer -> SUBSET net]
        BY <1>1 DEF ReceiverInv, ReceiverTypes
    <2>2. D \in SUBSET net /\ {pkt} \in SUBSET net
        BY <2>1
    <2>3. D = deferred[p] \cup {pkt}
        OBVIOUS
    <2>4. deferred' \in {deferred, [deferred EXCEPT ![p] = D]}
        BY <1>4
    <2> HIDE DEF D
    <2>5. /\ deferred' \in [Peer -> SUBSET net] /\ deferred'[p] \in {deferred[p], D}
          /\ \A q \in Peer \ {p} : deferred'[q] = deferred[q]
        BY <2>1, <2>2, <2>4
    <2>6. /\ working' \in [Peer -> SUBSET net] /\ working'[p] \in {working[p], {pkt}}
          /\ \A q \in Peer \ {p} : working'[q] = working[q]
        BY <2>1, <2>2, <1>4
    <2> QED BY <2>3, <2>5, <2>6
<1>7. ReceiverTypes'
    BY <1>1, <1>3, <1>4, <1>5, <1>6 DEF ReceiverInv, ReceiverTypes
<1>8. ReceiverBounds(p)'
    <2>1. \A d \in deferred'[p] \cup working'[p] : d.src = Other(p)
        BY <1>1, <1>6, ReceiverParts
    <2>2. Range(oldAcks'[p]) \subseteq Serials(p) /\ Len(oldAcks'[p]) =< OldAckSlots
        BY <1>1, <1>4, ReceiverParts
    <2> QED BY <1>3, <1>5, <2>1, <2>2 DEF ReceiverBounds
<1>9. \A q \in Peer \ {p} : SameWindows(q)
    BY <1>3, <1>4, <1>5, <1>6 DEF SameWindows
<1>10. net' \subseteq PacketSet
    BY <1>1 DEF ReceiverInv
<1>11. ReceiverInv'
    BY <1>1, <1>2, <1>7, <1>8, <1>9, <1>10, ReceiverStep
<1>12. PacketsSound'
    BY <1>2, PacketsStep
<1> QED BY <1>2, <1>11, <1>12 DEF InvStep

LEMMA ProcessVIMStep ==
    ASSUME NEW p \in Peer, Invariant, ProcessVIM(p)
    PROVE  InvStep
<1>1. PICK pkt \in working[p] :
         LET kids == {d \in deferred[p] : d.pred = pkt.serial}
             fresh == pkt.serial >= ackMin[p]
         IN  /\ deferred' = [deferred EXCEPT ![p] = @ \ kids]
             /\ working' = [working EXCEPT ![p] = (@ \ {pkt}) \cup kids]
             /\ procMask' = IF fresh
                            THEN [procMask EXCEPT ![p] = @ \cup {pkt.serial}]
                            ELSE procMask
             /\ delivered' = IF fresh /\ registered[p]
                             THEN [delivered EXCEPT ![p] = Append(@, pkt.id)]
                             ELSE delivered
    BY DEF ProcessVIM
<1>2. /\ UNCHANGED <<inputMax, inputMin, ackMin, ackMask, ackLeft, oldAcks, net>>
      /\ UNCHANGED <<opened, registered, msgs, draft, urgentQ, vimQ, commonQ,
                     lastUrgent, lastVIM, serial, prepared, revisited, dispatched>>
    BY DEF ProcessVIM, sendVars, life
<1>3. /\ ReceiverInv /\ SenderInv /\ ReceiverTypes
      /\ pkt \in net /\ pkt.src = Other(p) /\ pkt.src # p
    BY OtherFact, ReceiverParts DEF Invariant, ReceiverInv
<1>4. pkt.serial \in Serials(p) /\ Serials(p) \subseteq Nat
    BY <1>3, PacketFact, ReceiverParts DEF ReceiverInv
<1>5. SoundStep
    <2>1. \A q \in Peer : SameBook(q) /\ Outbox(q)' = Outbox(q)
        BY <1>2 DEF SameBook, Outbox
    <2>2. SenderTypes'
        BY <1>2, <1>3 DEF SenderInv, SenderTypes
    <2>3. Sound(p, Outbox(p))'
        BY <1>3, <2>1, SoundSame DEF SenderInv
    <2>4. Len(msgs'[p]) =< MaxMsgs[p] /\ Grows(msgs[p], msgs'[p])
        BY <1>2, <1>3, GrowsSame DEF SenderInv, SenderTypes
    <2> QED BY <1>3, <2>1, <2>2, <2>3, <2>4, StepSound
<1>6. /\ delivered' \in [Peer -> Seq(Nat)]
      /\ Range(delivered'[p]) \subseteq 1..Len(msgs'[Other(p)])
      /\ \A q \in Peer \ {p} : delivered'[q] = delivered[q]
    <2>1. delivered' \in {delivered, [delivered EXCEPT ![p] = Append(@, pkt.id)]}
        BY <1>1
    <2> QED BY <1>3, <1>5, <2>1, DeliveredFact
<1>7. /\ procMask' \in [Peer -> SUBSET Nat] /\ procMask'[p] \subseteq Serials(p)
      /\ \A q \in Peer \ {p} : procMask'[q] = procMask[q]
    <2>1. procMask[p] \subseteq Serials(p)
        BY <1>3, ReceiverParts
    <2> DEFINE P == procMask[p] \cup {pkt.serial}
    <2>2. P \subseteq Serials(p) /\ P \in SUBSET Nat
        BY <1>4, <2>1
    <2>3. procMask' \in {procMask, [procMask EXCEPT ![p] = P]}
        BY <1>1
    <2> HIDE DEF P
    <2>4. procMask \in [Peer -> SUBSET Nat]
        BY <1>3 DEF ReceiverTypes
    <2> QED BY <2>1, <2>2, <2>3, <2>4
<1>8. /\ deferred' \in [Peer -> SUBSET net] /\ working' \in [Peer -> SUBSET net]
      /\ deferred'[p] \cup working'[p] \subseteq deferred[p] \cup working[p]
      /\ \A q \in Peer \ {p} :
            deferred'[q] = deferred[q] /\ working'[q] = working[q]
    <2> DEFINE kids == {d \in deferred[p] : d.pred = pkt.serial}
    <2>1. kids \subseteq deferred[p]
        OBVIOUS
    <2>2. /\ deferred' = [deferred EXCEPT ![p] = deferred[p] \ kids]
          /\ working' = [working EXCEPT ![p] = (working[p] \ {pkt}) \cup kids]
        BY <1>1
    <2> HIDE DEF kids
    <2> QED BY <1>3, <2>1, <2>2 DEF ReceiverTypes
<1>9. ReceiverTypes'
    BY <1>2, <1>3, <1>6, <1>7, <1>8 DEF ReceiverTypes
<1>10. ReceiverBounds(p)'
    <2>1. \A d \in deferred'[p] \cup working'[p] : d.src = Other(p)
        BY <1>3, <1>8, ReceiverParts
    <2> QED BY <1>2, <1>3, <1>6, <1>7, <2>1 DEF ReceiverInv, ReceiverBounds
<1>11. \A q \in Peer \ {p} : SameWindows(q)
    BY <1>2, <1>6, <1>7, <1>8 DEF SameWindows
<1>12. net' \subseteq PacketSet
    BY <1>2, <1>3 DEF ReceiverInv
<1>13. ReceiverInv'
    BY <1>3, <1>5, <1>9, <1>10, <1>11, <1>12, ReceiverStep
<1>14. PacketsSound'
    BY <1>2, <1>5, PacketsStep
<1> QED BY <1>5, <1>13, <1>14 DEF InvStep

LEMMA UnregisterStep ==
    ASSUME NEW p \in Peer, Invariant, Unregister(p)
    PROVE  InvStep
<1>1. /\ deferred' = [deferred EXCEPT ![p] = {}]
      /\ UNCHANGED <<inputMax, inputMin, ackMin, ackMask, ackLeft, oldAcks,
                     procMask, working, net, delivered>>
    BY DEF Unregister, histVars
<1>2. ReceiverInv /\ SenderInv /\ ReceiverTypes
    BY DEF Invariant, ReceiverInv
<1>3. SoundStep
    BY <1>2, UnregisterSound
<1>4. /\ deferred' \in [Peer -> SUBSET net] /\ deferred'[p] \subseteq deferred[p]
      /\ \A q \in Peer \ {p} : deferred'[q] = deferred[q]
    BY <1>1, <1>2 DEF ReceiverTypes
<1>5. ReceiverTypes'
    BY <1>1, <1>2, <1>4 DEF ReceiverTypes
<1>6. \A q \in Peer \ {p} : SameWindows(q)
    BY <1>1, <1>4 DEF SameWindows
<1>7. ReceiverBounds(p)'
    <2>1. Range(delivered'[p]) \subseteq 1..Len(msgs'[Other(p)])
        <3>1. /\ Other(p) \in Peer
              /\ Range(delivered[p]) \subseteq 1..Len(msgs[Other(p)])
            BY <1>2, OtherFact, ReceiverParts
        <3>2. Len(msgs[Other(p)]) =< Len(msgs'[Other(p)])
                 /\ Len(msgs'[Other(p)]) \in Nat
            BY <3>1, <1>3, LenProperties
               DEF SoundStep, Grows, SenderInv, SenderTypes
        <3> QED BY <1>1, <3>1, <3>2
    <2>2. \A d \in deferred'[p] \cup working'[p] : d.src = Other(p)
        BY <1>1, <1>2, <1>4, ReceiverParts
    <2> QED BY <1>1, <1>2, <2>1, <2>2 DEF ReceiverInv, ReceiverBounds
<1>8. net' \subseteq PacketSet
    BY <1>1, <1>2 DEF ReceiverInv
<1>9. ReceiverInv'
    BY <1>2, <1>3, <1>5, <1>6, <1>7, <1>8, ReceiverStep
<1>10. PacketsSound'
    BY <1>1, <1>3, PacketsStep
<1> QED BY <1>3, <1>9, <1>10 DEF InvStep

-----------------------------------------------------------------------------
(***************************************************************************)
(* The invariant is inductive.                                             *)
(***************************************************************************)
LEMMA InvariantIsIInv ==
    Invariant <=> IInv
BY DEF Invariant, SenderInv, ReceiverInv, PacketsSound, IInv

LEMMA InitInvariant ==
    ASSUME Init
    PROVE  Invariant
<1>1. <<>> \in Seq(Nat) /\ <<>> \in Seq(NetMessage) /\ Range(<<>>) = {}
         /\ IsInjective(<<>>) /\ Len(<<>>) = 0
    BY EmptyFact
<1>2. SenderTypes
    BY <1>1 DEF Init, SenderTypes
<1>3. ASSUME NEW p \in Peer
      PROVE  Len(msgs[p]) =< MaxMsgs[p] /\ Sound(p, Outbox(p))
    <2>1. /\ msgs[p] = <<>> /\ urgentQ[p] = <<>> /\ vimQ[p] = <<>> /\ commonQ[p] = <<>>
          /\ draft[p] = 0 /\ prepared[p] = 0 /\ lastUrgent[p] = 0 /\ lastVIM[p] = 0
          /\ serial[p] = 1 /\ revisited[p] = {} /\ dispatched[p] = <<>>
        BY DEF Init
    <2>2. /\ Outbox(p).msgs = <<>> /\ Outbox(p).urgentQ = <<>>
          /\ Outbox(p).commonQ = <<>> /\ QueuedIn(p, Outbox(p)) = {}
          /\ Outbox(p) \in [msgs : Seq(NetMessage), urgentQ : Seq(Nat), commonQ : Seq(Nat)]
        BY <1>1, <2>1 DEF Outbox, QueuedIn
    <2>3. OutTypes(p, Outbox(p))
        BY <1>1, <2>1, <2>2 DEF OutTypes
    <2>4. PlacesApart(p, Outbox(p))
        BY <1>1, <2>1, <2>2 DEF PlacesApart, QueuesApart
    <2>5. SerialsFit(<<>>, 1)
        BY <1>1 DEF SerialsFit
    <2>6. Sound(p, Outbox(p))
        BY <1>1, <2>1, <2>2, <2>3, <2>4, <2>5 DEF Sound
    <2> QED BY <1>1, <2>1, <2>6, BoundAssumption
<1>4. SenderInv
    BY <1>2, <1>3 DEF SenderInv
<1>5. ReceiverTypes
    BY <1>1 DEF Init, ReceiverTypes
<1>6. ASSUME NEW p \in Peer
      PROVE  ReceiverBounds(p)
    <2>1. /\ inputMax[p] = 1 /\ inputMin[p] = 1 /\ ackMin[p] = 1
          /\ ackMask[p] = {} /\ procMask[p] = {} /\ oldAcks[p] = <<>>
          /\ ackLeft[p] = [s \in Serials(p) |-> NotReceived]
          /\ delivered[p] = <<>> /\ deferred[p] = {} /\ working[p] = {}
        BY DEF Init
    <2>2. 1 \in Serials(p)
        BY OtherFact, BoundAssumption DEF Serials
    <2>3. NotReceived \in -1..AckRedundancy /\ OldAckSlots \in Nat
        BY BoundAssumption DEF NotReceived
    <2> QED BY <1>1, <2>1, <2>2, <2>3 DEF ReceiverBounds
<1>7. net = {}
    BY DEF Init
<1> QED BY <1>4, <1>5, <1>6, <1>7 DEF Invariant, ReceiverInv, PacketsSound

LEMMA StutterStep ==
    ASSUME Invariant, UNCHANGED vars
    PROVE  InvStep
<1>1. /\ UNCHANGED <<recvVars, net, delivered>>
      /\ UNCHANGED <<opened, registered, msgs, draft, urgentQ, vimQ, commonQ,
                     lastUrgent, lastVIM, serial, prepared, revisited, dispatched>>
    BY DEF vars, sendVars, life, histVars
<1>2. SenderInv
    BY DEF Invariant
<1>3. SenderTypes'
    BY <1>1, <1>2 DEF SenderInv, SenderTypes
<1>4. ASSUME NEW p \in Peer
      PROVE  /\ Len(msgs'[p]) =< MaxMsgs[p] /\ Sound(p, Outbox(p))'
             /\ Grows(msgs[p], msgs'[p])
    <2>1. SameBook(p) /\ Outbox(p)' = Outbox(p)
        BY <1>1 DEF SameBook, Outbox
    <2> QED BY <1>1, <1>2, <2>1, SoundSame, GrowsSame DEF SenderInv, SenderTypes
<1>5. SoundStep
    BY <1>3, <1>4 DEF SoundStep, SenderInv
<1> QED BY <1>1, <1>5, SendingStep

LEMMA NextStep ==
    ASSUME Invariant, [Next]_vars
    PROVE  InvStep
<1>1. SenderInv /\ ReceiverInv
    BY DEF Invariant
<1>2. ASSUME NEW p \in Peer, NEW kind \in AllKinds, Compose(p, kind)
      PROVE  InvStep
    <2>1. SoundStep
        BY <1>1, <1>2, ComposeSound
    <2> QED BY <1>2, <2>1, SendingStep DEF Compose, histVars
<1>3. ASSUME NEW p \in Peer, NEW kind \in AllKinds, DispatchPlain(p, kind)
      PROVE  InvStep
    <2>1. SoundStep
        BY <1>1, <1>3, DispatchPlainSound
    <2> QED BY <1>3, <2>1, SendingStep DEF DispatchPlain
<1>4. ASSUME NEW p \in Peer, Dispatch(p)
      PROVE  InvStep
    <2>1. SoundStep
        BY <1>1, <1>4, DispatchSound
    <2> QED BY <1>4, <2>1, SendingStep DEF Dispatch
<1>5. ASSUME NEW p \in Peer, CancelAllMessages(p) \/ Close(p)
      PROVE  InvStep
    <2>1. CancelQueues(p) /\ opened' \in {opened, [opened EXCEPT ![p] = FALSE]}
        BY <1>5 DEF CancelAllMessages, Close
    <2>2. SoundStep
        BY <1>1, <2>1, CancelSound
    <2> QED BY <2>1, <2>2, SendingStep DEF CancelQueues, histVars
<1>6. ASSUME NEW p \in Peer, PostSend(p) \/ DropObsolete(p)
      PROVE  InvStep
    <2>1. SoundStep
        BY <1>1, <1>6, PostSendSound, DropObsoleteSound
    <2> QED BY <1>6, <2>1, SendingStep DEF PostSend, DropObsolete, histVars
<1>7. ASSUME NEW p \in Peer, NEW i \in revisited[p], Resend(p, i) \/ Discard(p, i)
      PROVE  InvStep
    <2>1. SoundStep
        BY <1>1, <1>7, ResendSound, DiscardSound
    <2> QED BY <1>7, <2>1, SendingStep DEF Resend, Discard, histVars
<1>8. ASSUME NEW p \in Peer, CheckConnectivity(p)
      PROVE  InvStep
    <2>1. SoundStep
        BY <1>1, <1>8, CheckConnectivitySound
    <2> QED BY <1>8, <2>1, SendingStep DEF CheckConnectivity, histVars
<1>9. ASSUME NEW p \in Peer, NEW pkt \in net, Receive(p, pkt), UNCHANGED net
      PROVE  InvStep
    BY <1>9, ReceiveAgainStep, ReceiveNewStep DEF Receive
<1>10. CASE Next
    BY <1>2, <1>3, <1>4, <1>5, <1>6, <1>7, <1>8, <1>9, <1>10, TransmitStep,
       ProcessVIMStep, UnregisterStep
       DEF Next, UserStep, SenderStep, ListenerStep
<1>11. CASE UNCHANGED vars
    BY <1>11, StutterStep
<1> QED BY <1>10, <1>11

\* The invariant of NetChannelInv holds in every reachable state, whatever the
\* windows, the bounds and the kinds of message: queues, serials, statuses and
\* packets of NetChannelBasic fit together.
THEOREM Inductive == Spec => []IInv
<1>1. Init => Invariant
    BY InitInvariant
<1>2. Invariant /\ [Next]_vars => Invariant'
    BY NextStep DEF InvStep, SoundStep, Invariant
<1>3. Invariant => IInv
    BY InvariantIsIInv
<1> QED BY <1>1, <1>2, <1>3, PTL DEF Spec

-----------------------------------------------------------------------------
(***************************************************************************)
(* What follows from it.                                                   *)
(***************************************************************************)

\* Every queue, window and header of NetChannelBasic refers to messages and
\* serials that exist (TypeOK), for every number of messages.
THEOREM TypeCorrect == Spec => []TypeOK
<1>1. IInv => TypeOK
    <2>1. ASSUME Invariant, NEW p \in Peer
          PROVE  SenderBounds(p)
        BY <2>1, SoundParts DEF Invariant, SenderBounds
    <2> QED BY <2>1, InvariantIsIInv DEF Invariant, SenderInv, ReceiverInv, TypeOK
<1> QED BY <1>1, Inductive, PTL

\* How often a message stands in a queue.
LEMMA CountFact ==
    ASSUME NEW q \in Seq(Nat), IsInjective(q), NEW i
    PROVE  Cardinality({k \in 1..Len(q) : q[k] = i}) = IF i \in Range(q) THEN 1 ELSE 0
<1> DEFINE K == {k \in 1..Len(q) : q[k] = i}
<1>1. DOMAIN q = 1..Len(q)
    BY RangeFact
<1>2. CASE i \in Range(q)
    <2>1. PICK k \in 1..Len(q) : q[k] = i
        BY <1>1, <1>2 DEF Range
    <2>2. K = {k}
        BY <1>1, <2>1 DEF IsInjective
    <2> HIDE DEF K
    <2>3. Cardinality(K) = 1
        BY <2>2, FS_Singleton
    <2> QED BY <1>2, <2>3 DEF K
<1>3. CASE i \notin Range(q)
    <2>1. K = {}
        BY <1>1, <1>3 DEF Range
    <2> HIDE DEF K
    <2>2. Cardinality(K) = 0
        BY <2>1, FS_EmptySet
    <2> QED BY <1>3, <2>2 DEF K
<1> QED BY <1>2, <1>3

\* getPreparedMessage, postSend, runRevisited and cancelAllMessages together
\* never hold a message twice, and lose none before it is acknowledged.
THEOREM OneHolder == Spec => []OnePlace
<1>1. ASSUME Invariant, NEW p \in Peer, NEW i \in 1..Len(msgs[p])
      PROVE  /\ Places(p, i) =< 1
             /\ i \in Range(dispatched[p]) /\ opened[p] /\ Places(p, i) = 0 =>
                   msgs[p][i].status \in {"ack", "cancel"}
    <2>1. SenderInv
        BY <1>1 DEF Invariant
    <2>2. /\ urgentQ[p] \in Seq(Nat) /\ vimQ[p] \in Seq(Nat) /\ commonQ[p] \in Seq(Nat)
          /\ IsInjective(urgentQ[p]) /\ IsInjective(vimQ[p])
          /\ IsInjective(commonQ[p])
          /\ Range(urgentQ[p]) \cap Range(vimQ[p]) = {}
          /\ Range(urgentQ[p]) \cap Range(commonQ[p]) = {}
          /\ Range(vimQ[p]) \cap Range(commonQ[p]) = {}
          /\ Queued(p) = Range(urgentQ[p]) \cup Range(vimQ[p]) \cup Range(commonQ[p])
        BY <2>1, SoundParts DEF QueueTypes, QueuesApart, Outbox, Queued
    <2>3. /\ Queued(p) \cap (revisited[p] \cup {draft[p], prepared[p]}) = {}
          /\ prepared[p] \notin revisited[p]
        BY <2>1, SoundParts
    <2> DEFINE u == Cardinality({k \in 1..Len(urgentQ[p]) : urgentQ[p][k] = i})
               v == Cardinality({k \in 1..Len(vimQ[p]) : vimQ[p][k] = i})
               c == Cardinality({k \in 1..Len(commonQ[p]) : commonQ[p][k] = i})
               s == IF prepared[p] = i THEN 1 ELSE 0
               r == IF i \in revisited[p] THEN 1 ELSE 0
    <2>4. /\ u = IF i \in Range(urgentQ[p]) THEN 1 ELSE 0
          /\ v = IF i \in Range(vimQ[p]) THEN 1 ELSE 0
          /\ c = IF i \in Range(commonQ[p]) THEN 1 ELSE 0
        <3>1. u = IF i \in Range(urgentQ[p]) THEN 1 ELSE 0
            BY <2>2, CountFact
        <3>2. v = IF i \in Range(vimQ[p]) THEN 1 ELSE 0
            BY <2>2, CountFact
        <3>3. c = IF i \in Range(commonQ[p]) THEN 1 ELSE 0
            BY <2>2, CountFact
        <3> QED BY <3>1, <3>2, <3>3
    <2>5. Places(p, i) = u + v + c + s + r
        BY DEF Places
    <2> HIDE DEF u, v, c
    <2>6. u + v + c = IF i \in Queued(p) THEN 1 ELSE 0
        BY <2>2, <2>4
    <2>7. Places(p, i) = IF i \in Queued(p) \cup revisited[p] \cup {prepared[p]}
                         THEN 1 ELSE 0
        <3>1. u \in Int /\ v \in Int /\ c \in Int
            BY <2>4
        <3> QED BY <2>3, <2>5, <2>6, <3>1
    <2>8. i \in Range(dispatched[p]) => VimKept(p, Outbox(p), i)
        BY <2>1, SoundParts
    <2>9. QueuedIn(p, Outbox(p)) = Queued(p) /\ Outbox(p).msgs = msgs[p]
        BY <2>1, SoundParts DEF Outbox
    <2> QED BY <2>7, <2>8, <2>9 DEF VimKept
<1>2. IInv => OnePlace
    BY <1>1, InvariantIsIInv DEF OnePlace
<1> QED BY <1>2, Inductive, PTL

\* setOutputData gives every packet of a message the serial, the flags and the
\* predecessor of the first one, and no two messages share a serial.
THEOREM ResentSame == Spec => []ResentIsSame
<1>1. ASSUME Invariant, NEW a \in net, NEW b \in net, a.src = b.src
      PROVE  /\ a.id = b.id <=> a.serial = b.serial
             /\ a.id = b.id =>
                   a.vim = b.vim /\ a.dummy = b.dummy /\ a.pred = b.pred
    <2>1. a \in PacketSet /\ PacketSound(a) /\ PacketSound(b)
        BY <1>1 DEF Invariant, ReceiverInv, PacketsSound
    <2>2. a.src \in Peer /\ a.serial # 0
        BY <2>1, PacketFact
    <2>3. SerialsFit(msgs[a.src], serial[a.src])
        BY <1>1, <2>2, SoundParts DEF Invariant
    <2>4. /\ a.id \in 1..Len(msgs[a.src]) /\ b.id \in 1..Len(msgs[a.src])
          /\ msgs[a.src][a.id].serial = a.serial
          /\ msgs[a.src][b.id].serial = b.serial
        BY <1>1, <2>1 DEF PacketSound
    <2>5. a.id = b.id <=> a.serial = b.serial
        BY <2>2, <2>3, <2>4 DEF SerialsFit
    <2>6. a.id = b.id => a.vim = b.vim /\ a.dummy = b.dummy /\ a.pred = b.pred
        BY <1>1, <2>1 DEF PacketSound
    <2> QED BY <2>5, <2>6
<1>2. IInv => ResentIsSame
    BY <1>1, InvariantIsIInv DEF ResentIsSame
<1> QED BY <1>2, Inductive, PTL

\* Once newAcknowledgement has marked a message, no later resend, cancel or
\* header changes it.
THEOREM AckFinal == Spec => AckIsFinal
<1>1. ASSUME Invariant, [Next]_vars
      PROVE  [\A p \in Peer : \A i \in 1..Len(msgs[p]) :
                msgs[p][i].status = "ack" => msgs'[p][i] = msgs[p][i]]_vars
    BY <1>1, NextStep DEF InvStep, SoundStep, Grows, Keeps
<1>2. IInv => Invariant
    BY InvariantIsIInv
<1> QED BY <1>1, <1>2, Inductive, PTL DEF Spec, AckIsFinal
=============================================================================
