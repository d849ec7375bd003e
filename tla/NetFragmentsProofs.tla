--------------------------- MODULE NetFragmentsProofs --------------------------
(***************************************************************************)
(* Proofs about NetFragments, for any numbers of messages and parts: while *)
(* AckPlayer comes first, a closing part finds the parts before it, and    *)
(* what the user is given is whole and in order.                           *)
(***************************************************************************)
EXTENDS NetFragments, SequenceTheorems, TLAPS

Part == [after : Nat, closing : BOOLEAN, part : BOOLEAN, urg : BOOLEAN,
         owner : Nat, nth : Nat]
User == [size : Nat \ {0}, urg : BOOLEAN]

\* s is the beginning of t.
Extends(s, t) == Len(s) =< Len(t) /\ \A j \in 1..Len(s) : t[j] = s[j]

\* r is q with x put at the k-th place.
Inserted(q, k, x, r) ==
    /\ Len(r) = Len(q) + 1 /\ r[k] = x
    /\ \A j \in 1..k-1 : r[j] = q[j]
    /\ \A j \in k..Len(q) : r[j + 1] = q[j]

Shifted(q, k, x, r) ==
    /\ Len(r) = Len(q) + 1 /\ r[k] = x
    /\ \A b \in 1..k-1 : b \in 1..Len(q) /\ r[b] = q[b]
    /\ \A b \in k+1..Len(r) : b - 1 \in k..Len(q) /\ r[b] = q[b - 1]
    /\ \A b \in k..Len(q) : b + 1 \in k+1..Len(r) /\ r[b + 1] = q[b]

-----------------------------------------------------------------------------
(***************************************************************************)
(* The invariant of a sender: its parts ps of the messages us of its user. *)
(***************************************************************************)
OfUser(us, x) ==
    /\ x.owner \in 1..Len(us) /\ x.nth \in 1..us[x.owner].size
    /\ x.urg = us[x.owner].urg
    /\ x.closing <=> x.nth = us[x.owner].size
    /\ x.part <=> us[x.owner].size > 1

Earlier(x, y) == x.owner < y.owner \/ (x.owner = y.owner /\ x.nth < y.nth)

\* Among the first n parts, last is the newest of the class; 0 if there is none.
Newest(ps, n, urg, last) ==
    /\ last \in 0..n
    /\ last # 0 => ps[last].urg = urg
    /\ \A l \in last + 1..n : ps[l].urg # urg

IsPart(ps, j, i, nth) == ps[j].owner = i /\ ps[j].nth = nth

\* Parts are those of the user's messages in their order, behind AckPlayer, and
\* none is left out; each is ordered behind the newest of its class.
PartSound(us, ps, k) ==
    /\ (ps[k] = NoDraft /\ k = 1) \/ OfUser(us, ps[k])
    /\ \A j \in 1..k-1 : Earlier(ps[j], ps[k])
    /\ \A i \in 1..ps[k].owner : \A nth \in 1..us[i].size :
          i < ps[k].owner \/ nth < ps[k].nth => \E j \in 1..k-1 : IsPart(ps, j, i, nth)
    /\ Newest(ps, k - 1, ps[k].urg, ps[k].after)

PartsSound(us, ps) == \A k \in 1..Len(ps) : PartSound(us, ps, k)

\* SendMsg has dispatched n parts of its last message and all of those before.
Progress(us, ps, n) ==
    /\ \A i \in 1..Len(us) : \A nth \in 1..us[i].size :
          i < Len(us) \/ nth =< n => \E j \in 1..Len(ps) : IsPart(ps, j, i, nth)
    /\ \A k \in 1..Len(ps) : ps[k].owner = Len(us) => ps[k].nth =< n

\* The next part is composed.
DraftSound(us, dr, n, lasts) ==
    dr # NoDraft =>
        OfUser(us, dr) /\ dr.owner = Len(us) /\ dr.nth = n + 1 /\ dr.after = lasts[dr.urg]

\* What was dispatched, behind what the channel was told to order it.
DispatchedSound(us, ps, behind, lasts) ==
    /\ PartsSound(us, ps)
    /\ Len(behind) = Len(ps) /\ \A k \in 1..Len(ps) : behind[k] = ps[k].after
    /\ \A urg \in BOOLEAN : Newest(ps, Len(ps), urg, lasts[urg])

SenderSound(us, ps, behind, lasts, n, dr) ==
    /\ DispatchedSound(us, ps, behind, lasts)
    /\ Progress(us, ps, n)
    /\ DraftSound(us, dr, n, lasts)

-----------------------------------------------------------------------------
(***************************************************************************)
(* The invariant of the queues and the wire: each line keeps its order.    *)
(***************************************************************************)
Line(x) == IF x.owner = 0 THEN TRUE ELSE x.urg

QueueSound(ps, q, w, u) ==
    \A b \in 1..Len(q) :
        /\ q[b] \in 1..Len(ps) /\ Line(ps[q[b]]) = u
        /\ \A a \in 1..b-1 : q[a] < q[b]
        /\ \A a \in 1..Len(w) : Line(ps[w[a]]) = u => w[a] < q[b]

WireSound(ps, w) ==
    \A b \in 1..Len(w) :
        /\ w[b] \in 1..Len(ps)
        /\ \A a \in 1..b-1 : Line(ps[w[a]]) = Line(ps[w[b]]) => w[a] < w[b]

LineSound(ps, queues, w) ==
    WireSound(ps, w) /\ \A u \in BOOLEAN : QueueSound(ps, queues[u], w, u)

-----------------------------------------------------------------------------
(***************************************************************************)
(* The invariant of a receiver: of the parts ps that came by the wire w it *)
(* has taken tk; s are those it collects of one class, all the messages    *)
(* that were complete and list those that still wait.                      *)
(***************************************************************************)
Initial(ps, tk) ==
    \A k \in tk : \A j \in 1..k-1 : ps[j].urg = ps[k].urg => j \in tk

NewestTaken(ps, tk, urg, t) ==
    t \in tk /\ ps[t].urg = urg /\ \A l \in tk : ps[l].urg = urg => l =< t

\* What is collected are the parts of one message so far, up to the newest taken.
SplitSound(ps, tk, s, urg) ==
    /\ \A j \in 1..Len(s) :
          /\ s[j] \in 1..Len(ps) /\ ps[s[j]].part /\ ~ps[s[j]].closing
          /\ ps[s[j]].owner = ps[s[1]].owner /\ ps[s[j]].nth = j
    /\ Len(s) # 0 => NewestTaken(ps, tk, urg, s[Len(s)])
    /\ Len(s) = 0 => \A t \in tk : NewestTaken(ps, tk, urg, t)
                                       => ps[t].owner = 0 \/ ps[t].closing

MessageSound(us, ps, tk, m) ==
    /\ Len(m) # 0 /\ ps[m[1]].owner # 0 /\ Len(m) = us[ps[m[1]].owner].size
    /\ \A j \in 1..Len(m) : /\ m[j] \in 1..Len(ps)
                            /\ IsPart(ps, m[j], ps[m[1]].owner, j)
    /\ m[Len(m)] \in tk

OwnerOf(ps, m) == ps[m[1]].owner

TurnSound(us, ps, all, b) ==
    /\ \A a \in 1..b-1 : OwnerOf(ps, all[a]) # OwnerOf(ps, all[b])
    /\ \A i \in 1..OwnerOf(ps, all[b]) - 1 :
          us[i].urg = us[OwnerOf(ps, all[b])].urg =>
              \E a \in 1..b-1 : OwnerOf(ps, all[a]) = i

\* Each closing part that was taken has its message.
Finished(ps, tk, all) ==
    \A c \in tk : ps[c].owner # 0 /\ ps[c].closing =>
        \E b \in 1..Len(all) : all[b][Len(all[b])] = c

MessagesSound(us, ps, tk, all) ==
    /\ \A b \in 1..Len(all) : MessageSound(us, ps, tk, all[b])
    /\ \A b \in 1..Len(all) : TurnSound(us, ps, all, b)
    /\ Finished(ps, tk, all)

SerialIn(w, k) == CHOOSE s \in 1..Len(w) : w[s] = k

LastSerial(w, m) == SerialIn(w, m[Len(m)])

Sorted(w, list) ==
    \A b \in 1..Len(list) : \A a \in 1..b-1 :
        LastSerial(w, list[a]) < LastSerial(w, list[b])

\* What is taken are parts that came by the wire.
Came(w, tk) == \A k \in tk : \E a \in 1..Len(w) : w[a] = k

ReceiverSound(us, ps, w, tk, splits, reps, list) ==
    /\ Came(w, tk)
    /\ Initial(ps, tk)
    /\ \A urg \in BOOLEAN : SplitSound(ps, tk, splits[urg], urg)
    /\ MessagesSound(us, ps, tk, reps \o list)
    /\ Sorted(w, list)

-----------------------------------------------------------------------------
Types ==
    /\ after \in [Peer -> Seq(Nat)] /\ taken \in [Peer -> SUBSET Nat]
    /\ users \in [Peer -> Seq(User)] /\ sentParts \in [Peer -> Nat]
    /\ draft \in [Peer -> Part] /\ parts \in [Peer -> Seq(Part)]
    /\ lastVIM \in [Peer -> [BOOLEAN -> Nat]]
    /\ queue \in [Peer -> [BOOLEAN -> Seq(Nat)]] /\ wire \in [Peer -> Seq(Nat)]
    /\ split \in [Peer -> [BOOLEAN -> Seq(Nat)]]
    /\ received \in [Peer -> Seq(Seq(Nat))] /\ reported \in [Peer -> Seq(Seq(Nat))]
    /\ orphan \in [Peer -> BOOLEAN]

\* One direction: what its sender q did, and what Other(q) has received.
LinkSound(us, ps, behind, lasts, n, dr, queues, w, tk, splits, reps, list, lost) ==
    /\ SenderSound(us, ps, behind, lasts, n, dr)
    /\ LineSound(ps, queues, w)
    /\ ReceiverSound(us, ps, w, tk, splits, reps, list)
    /\ ~lost

Sound(q) ==
    LinkSound(users[q], parts[q], after[q], lastVIM[q], sentParts[q], draft[q],
              queue[q], wire[q], taken[q], split[Other(q)], reported[Other(q)],
              received[Other(q)], orphan[Other(q)])

IInv == Types /\ \A q \in Peer : Sound(q)

-----------------------------------------------------------------------------
(***************************************************************************)
(* Facts about sequences and records.                                      *)
(***************************************************************************)
\* The elements of a sequence.
LEMMA SeqFact ==
    ASSUME NEW S, NEW q \in Seq(S)
    PROVE  Len(q) \in Nat /\ \A j \in 1..Len(q) : q[j] \in S
BY LenProperties

\* What Append leaves where it is, and what it adds.
LEMMA AppendFact ==
    ASSUME NEW S, NEW q \in Seq(S), NEW x \in S
    PROVE  /\ Append(q, x) \in Seq(S) /\ Len(Append(q, x)) = Len(q) + 1
           /\ \A j \in 1..Len(q) : Append(q, x)[j] = q[j]
           /\ Append(q, x)[Len(q) + 1] = x
BY AppendProperties

\* What is left without the head.
LEMMA TailFact ==
    ASSUME NEW S, NEW q \in Seq(S), q # <<>>
    PROVE  /\ Tail(q) \in Seq(S) /\ Len(Tail(q)) = Len(q) - 1
           /\ Len(q) \in Nat \ {0} /\ Head(q) = q[1] /\ Head(q) \in S
           /\ \A j \in 1..Len(q) - 1 : Tail(q)[j] = q[j + 1]
<1>1. Len(q) \in Nat /\ (Len(q) = 0 => q = <<>>)
    BY LenProperties, EmptySeq
<1>2. Head(q) = q[1] /\ Head(q) \in S /\ Tail(q) \in Seq(S)
      /\ Len(Tail(q)) = Len(q) - 1
      /\ \A j \in 1..Len(Tail(q)) : Tail(q)[j] = q[j + 1]
    BY HeadTailProperties
<1> QED BY <1>1, <1>2

\* The elements of a concatenation.
LEMMA ConcatFact ==
    ASSUME NEW S, NEW q \in Seq(S), NEW r \in Seq(S)
    PROVE  /\ q \o r \in Seq(S) /\ Len(q \o r) = Len(q) + Len(r)
           /\ \A j \in 1..Len(q) : (q \o r)[j] = q[j]
           /\ \A j \in 1..Len(r) : (q \o r)[Len(q) + j] = r[j]
<1>1. /\ q \o r \in Seq(S) /\ Len(q \o r) = Len(q) + Len(r)
      /\ \A j \in 1..(Len(q) + Len(r)) :
            (q \o r)[j] = IF j <= Len(q) THEN q[j] ELSE r[j - Len(q)]
    BY ConcatProperties
<1>2. Len(q) \in Nat /\ Len(r) \in Nat
    BY LenProperties
<1>3. \A j \in 1..Len(r) : (q \o r)[Len(q) + j] = r[j]
    <2> TAKE j \in 1..Len(r)
    <2>1. PICK i : i = Len(q) + j
        OBVIOUS
    <2>2. i \in 1..(Len(q) + Len(r)) /\ ~(i <= Len(q)) /\ i - Len(q) = j
        BY <1>2, <2>1
    <2> QED BY <1>1, <2>1, <2>2
<1> QED BY <1>1, <1>2, <1>3

\* Where InsertAt puts its element, and what it moves.
LEMMA InsertFact ==
    ASSUME NEW S, NEW q \in Seq(S), NEW x \in S, NEW k \in 1..Len(q) + 1
    PROVE  InsertAt(q, k, x) \in Seq(S) /\ Inserted(q, k, x, InsertAt(q, k, x))
<1> DEFINE a == SubSeq(q, 1, k - 1)
           b == SubSeq(q, k, Len(q))
           r == InsertAt(q, k, x)
<1>1. Len(q) \in Nat /\ DOMAIN q = 1..Len(q) /\ \A i \in 1..Len(q) : q[i] \in S
    BY LenProperties
<1>2. a \in Seq(S) /\ Len(a) = k - 1 /\ \A i \in 1..k - 1 : a[i] = q[i]
    <2>1. (\A i \in 1..k - 1 : q[i] \in S) /\ k - 1 \in Int
        BY <1>1
    <2>2. /\ a \in Seq(S)
          /\ Len(a) = IF 1 <= k - 1 THEN k - 1 - 1 + 1 ELSE 0
          /\ \A i \in 1..(k - 1 - 1 + 1) : a[i] = q[1 + i - 1]
        BY <2>1, SubSeqProperties
    <2> QED BY <2>2, <1>1
<1>3. /\ b \in Seq(S) /\ Len(b) = Len(q) - k + 1
      /\ \A i \in 1..(Len(q) - k + 1) : b[i] = q[k + i - 1]
    <2>1. (\A i \in k..Len(q) : q[i] \in S) /\ k \in Int /\ Len(q) \in Int
        BY <1>1
    <2>2. /\ b \in Seq(S)
          /\ Len(b) = IF k <= Len(q) THEN Len(q) - k + 1 ELSE 0
          /\ \A i \in 1..(Len(q) - k + 1) : b[i] = q[k + i - 1]
        BY <2>1, SubSeqProperties
    <2> QED BY <2>2, <1>1
<1>4. <<x>> \in Seq(S) /\ Len(<<x>>) = 1 /\ <<x>>[1] = x
    OBVIOUS
<1>5. PICK c \in Seq(S) : c = a \o <<x>>
    BY <1>2, <1>4, ConcatProperties
<1> HIDE DEF a, b
<1>6. Len(c) = k /\ (\A j \in 1..k - 1 : c[j] = q[j]) /\ c[k] = x
    <2>1. /\ Len(c) = Len(a) + Len(<<x>>) /\ \A j \in 1..Len(a) : c[j] = a[j]
          /\ \A j \in 1..Len(<<x>>) : c[Len(a) + j] = <<x>>[j]
        BY <1>2, <1>4, <1>5, ConcatFact
    <2>2. c[Len(a) + 1] = x
        BY <1>4, <2>1
    <2> QED BY <1>1, <1>2, <1>4, <2>1, <2>2
<1>7. r = c \o b
    BY <1>5 DEF a, b, InsertAt
<1> HIDE DEF r
<1>8. /\ r \in Seq(S) /\ Len(r) = Len(c) + Len(b)
      /\ \A j \in 1..Len(c) : r[j] = c[j]
      /\ \A j \in 1..Len(b) : r[Len(c) + j] = b[j]
    <2>1. b \in Seq(S)
        BY <1>3
    <2>2. /\ c \o b \in Seq(S) /\ Len(c \o b) = Len(c) + Len(b)
          /\ \A j \in 1..Len(c) : (c \o b)[j] = c[j]
          /\ \A j \in 1..Len(b) : (c \o b)[Len(c) + j] = b[j]
        BY <2>1, ConcatFact
    <2> QED BY <1>7, <2>2, Zenon
<1>9. \A j \in k..Len(q) : r[j + 1] = q[j]
    <2> TAKE j \in k..Len(q)
    <2>1. PICK i : i = j - k + 1
        OBVIOUS
    <2>2. i \in 1..Len(b) /\ Len(c) + i = j + 1 /\ k + i - 1 = j
        BY <1>1, <1>3, <1>6, <2>1
    <2>3. r[j + 1] = b[i] /\ b[i] = q[j]
        BY <1>3, <1>8, <2>2
    <2> QED BY <2>3
<1> QED BY <1>1, <1>3, <1>6, <1>8, <1>9 DEF r, Inserted

\* The fields of a part, and of what stands for AckPlayer.
LEMMA PartFact ==
    ASSUME NEW x \in Part
    PROVE  /\ x.after \in Nat /\ x.closing \in BOOLEAN /\ x.part \in BOOLEAN
           /\ x.urg \in BOOLEAN /\ x.owner \in Nat /\ x.nth \in Nat
BY DEF Part

\* The fields of NoDraft.
LEMMA NoDraftFact ==
    /\ NoDraft \in Part /\ NoDraft.after = 0 /\ NoDraft.owner = 0 /\ NoDraft.nth = 0
    /\ NoDraft.urg = FALSE /\ NoDraft.part = FALSE /\ NoDraft.closing = FALSE
BY DEF Part, NoDraft

\* The fields of what SendMsg was called with.
LEMMA UserFact ==
    ASSUME NEW x \in User
    PROVE  x.size \in Nat \ {0} /\ x.urg \in BOOLEAN
BY DEF User

-----------------------------------------------------------------------------
(***************************************************************************)
(* What a sender knows of its parts.                                       *)
(***************************************************************************)
\* A part is of a message of the user, or stands for AckPlayer.
LEMMA OwnedFact ==
    ASSUME NEW us \in Seq(User), NEW ps \in Seq(Part), PartsSound(us, ps),
           NEW k \in 1..Len(ps)
    PROVE  /\ ps[k] \in Part
           /\ (ps[k].owner = 0 /\ ps[k] = NoDraft /\ k = 1)
              \/ (OfUser(us, ps[k]) /\ ps[k].owner # 0 /\ us[ps[k].owner] \in User)
<1>1. ps[k] \in Part
    BY SeqFact
<1>2. (ps[k] = NoDraft /\ k = 1) \/ OfUser(us, ps[k])
    BY DEF PartsSound, PartSound
<1>3. OfUser(us, ps[k]) => ps[k].owner # 0 /\ us[ps[k].owner] \in User
    BY SeqFact DEF OfUser
<1> QED BY <1>1, <1>2, <1>3, NoDraftFact

\* No two parts are the same part of the same message.
LEMMA PartUnique ==
    ASSUME NEW us \in Seq(User), NEW ps \in Seq(Part), PartsSound(us, ps),
           NEW j \in 1..Len(ps), NEW k \in 1..Len(ps),
           ps[j].owner = ps[k].owner, ps[j].nth = ps[k].nth
    PROVE  j = k
<1>1. \A a \in 1..Len(ps) : \A b \in 1..a-1 : Earlier(ps[b], ps[a])
    BY DEF PartsSound, PartSound
<1>2. ps[j] \in Part /\ ps[k] \in Part /\ Len(ps) \in Nat
    BY SeqFact
<1>3. ~Earlier(ps[j], ps[k]) /\ ~Earlier(ps[k], ps[j])
    BY <1>2, PartFact DEF Earlier
<1>4. ~(j \in 1..k-1) /\ ~(k \in 1..j-1)
    BY <1>1, <1>3
<1> QED BY <1>2, <1>4

\* Parts stay sound as messages and parts are added.
LEMMA PartKept ==
    ASSUME NEW us \in Seq(User), NEW vs \in Seq(User), Extends(us, vs),
           NEW ps \in Seq(Part), NEW rs \in Seq(Part), Extends(ps, rs),
           NEW k \in 1..Len(ps), PartSound(us, ps, k)
    PROVE  PartSound(vs, rs, k)
<1>1. Len(ps) \in Nat /\ Len(rs) \in Nat /\ Len(us) \in Nat /\ Len(vs) \in Nat
    BY SeqFact
<1>2. ps[k] \in Part /\ rs[k] = ps[k] /\ \A j \in 1..k-1 : rs[j] = ps[j]
    BY <1>1, SeqFact DEF Extends
<1>3. ps[k].owner \in 0..Len(us)
    BY <1>1, NoDraftFact DEF PartSound, OfUser
<1>4. \A i \in 1..ps[k].owner : vs[i] = us[i]
    BY <1>1, <1>3 DEF Extends
<1>5. OfUser(us, ps[k]) => OfUser(vs, ps[k])
    BY <1>1, <1>3 DEF OfUser, Extends
<1>6. (rs[k] = NoDraft /\ k = 1) \/ OfUser(vs, rs[k])
    BY <1>2, <1>5 DEF PartSound
<1>7. \A j \in 1..k-1 : Earlier(rs[j], rs[k])
    BY <1>2 DEF PartSound
<1>8. \A i \in 1..rs[k].owner : \A nth \in 1..vs[i].size :
          i < rs[k].owner \/ nth < rs[k].nth
              => \E j \in 1..k-1 : IsPart(rs, j, i, nth)
    <2> SUFFICES ASSUME NEW i \in 1..ps[k].owner, NEW nth \in 1..us[i].size,
                        i < ps[k].owner \/ nth < ps[k].nth
                 PROVE  \E j \in 1..k-1 : IsPart(rs, j, i, nth)
        BY <1>2, <1>4
    <2>1. PICK j \in 1..k-1 : IsPart(ps, j, i, nth)
        BY DEF PartSound
    <2> QED BY <1>2, <2>1 DEF IsPart
<1>9. Newest(rs, k - 1, rs[k].urg, rs[k].after)
    <2>1. Newest(ps, k - 1, ps[k].urg, ps[k].after)
        BY DEF PartSound
    <2>2. PICK e : e = ps[k].after
        OBVIOUS
    <2>3. e \in 0..k-1 /\ (e # 0 => e \in 1..k-1) /\ \A l \in e+1..k-1 : l \in 1..k-1
        BY <1>1, <2>1, <2>2 DEF Newest
    <2> QED BY <1>2, <2>1, <2>2, <2>3 DEF Newest
<1> QED BY <1>6, <1>7, <1>8, <1>9 DEF PartSound

\* Before its k-th part of class urg the other peer needs those of that class.
LEMMA ChainFact ==
    ASSUME NEW us \in Seq(User), NEW ps \in Seq(Part), PartsSound(us, ps),
           NEW tk, Initial(ps, tk), tk \subseteq 1..Len(ps),
           NEW k \in 1..Len(ps), k \notin tk, ps[k].after \in tk \cup {0}
    PROVE  /\ \A j \in 1..k-1 : ps[j].urg = ps[k].urg => j \in tk
           /\ \A t \in tk : ps[t].urg = ps[k].urg => t < k
           /\ Initial(ps, tk \cup {k})
<1>1. Len(ps) \in Nat
    BY SeqFact
<1>2. PICK e : e = ps[k].after
    OBVIOUS
<1>3. /\ e \in 0..k-1 /\ (e # 0 => ps[e].urg = ps[k].urg)
      /\ \A l \in e+1..k-1 : ps[l].urg # ps[k].urg
    BY <1>2 DEF PartsSound, PartSound, Newest
<1>4. \A j \in 1..k-1 : ps[j].urg = ps[k].urg => j \in tk
    <2> TAKE j \in 1..k-1
    <2> HAVE ps[j].urg = ps[k].urg
    <2>1. e # 0 /\ e \in tk /\ (j = e \/ j \in 1..e-1)
        <3>1. ~(j \in e+1..k-1) /\ e \in 0..k-1
            BY <1>3
        <3>2. j =< e /\ e # 0
            BY <1>1, <3>1
        <3> QED BY <1>1, <1>2, <3>1, <3>2
    <2> QED BY <1>3, <2>1 DEF Initial
<1>5. \A t \in tk : ps[t].urg = ps[k].urg => t < k
    <2> TAKE t \in tk
    <2> HAVE ps[t].urg = ps[k].urg
    <2>1. k \in 1..t-1 => k \in tk
        BY DEF Initial
    <2> QED BY <1>1, <2>1
<1>6. Initial(ps, tk \cup {k})
    BY <1>4 DEF Initial
<1> QED BY <1>4, <1>5, <1>6

\* A part that is not the first one is ordered behind the part before it.
LEMMA BehindPart ==
    ASSUME NEW us \in Seq(User), NEW ps \in Seq(Part), PartsSound(us, ps),
           NEW k \in 1..Len(ps), ps[k].owner # 0, ps[k].nth # 1
    PROVE  /\ ps[k].after \in 1..k-1 /\ ps[ps[k].after].urg = ps[k].urg
           /\ IsPart(ps, ps[k].after, ps[k].owner, ps[k].nth - 1)
           /\ ps[ps[k].after].part /\ ~ps[ps[k].after].closing
<1>1. Len(ps) \in Nat
    BY SeqFact
<1>2. PICK o, n, m : o = ps[k].owner /\ n = ps[k].nth /\ m = n - 1
    OBVIOUS
<1>3. /\ o \in 1..Len(us) /\ us[o].size \in Nat /\ n \in 1..us[o].size
      /\ ps[k].urg = us[o].urg
    BY <1>2, OwnedFact, UserFact DEF OfUser
<1>4. m \in 1..us[o].size /\ m < n /\ n \in Nat /\ m \in Nat /\ o \in 1..o /\ m # 0
    <2>1. n # 1 /\ n \in 1..us[o].size /\ o \in Nat \ {0}
        BY <1>2, <1>3
    <2> QED BY <1>2, <1>3, <2>1
<1>5. PICK j \in 1..k-1 : IsPart(ps, j, o, m)
    BY <1>2, <1>4 DEF PartsSound, PartSound
<1>6. j \in 1..Len(ps) /\ ps[j].owner = o /\ ps[j].nth = m
    BY <1>1, <1>5 DEF IsPart
<1>7. /\ ps[j].urg = us[o].urg /\ (ps[j].closing <=> m = us[o].size)
      /\ (ps[j].part <=> us[o].size > 1)
    <2>1. OfUser(us, ps[j])
        BY <1>3, <1>6, OwnedFact
    <2> QED BY <1>6, <2>1 DEF OfUser
<1>8. PICK e : e = ps[k].after
    OBVIOUS
<1>9. /\ e \in 0..k-1 /\ (e # 0 => ps[e].urg = ps[k].urg)
      /\ \A l \in e+1..k-1 : ps[l].urg # ps[k].urg
    BY <1>8 DEF PartsSound, PartSound, Newest
<1>10. j =< e
    BY <1>1, <1>3, <1>7, <1>9
<1>11. j = e
    <2> SUFFICES ASSUME j \in 1..e-1 PROVE FALSE
        BY <1>1, <1>9, <1>10
    <2>1. e \in 1..k-1 /\ e \in 1..Len(ps)
        BY <1>1, <1>9
    <2>2. Earlier(ps[j], ps[e]) /\ Earlier(ps[e], ps[k])
        BY <2>1 DEF PartsSound, PartSound
    <2>3. ps[e].owner \in Nat /\ ps[e].nth \in Nat /\ o \in Nat
        BY <1>2, <2>1, SeqFact, PartFact
    <2>4. PICK eo, en : eo = ps[e].owner /\ en = ps[e].nth
        OBVIOUS
    <2>5. /\ o < eo \/ (o = eo /\ m < en)
          /\ eo < o \/ (eo = o /\ en < n)
        BY <1>2, <1>6, <2>2, <2>4 DEF Earlier
    <2>6. eo \in Nat /\ en \in Nat /\ m \in Nat /\ n \in Nat /\ m = n - 1
        BY <1>2, <1>4, <2>3, <2>4
    <2> QED BY <2>3, <2>5, <2>6
<1>12. m # us[o].size /\ us[o].size > 1
    BY <1>3, <1>4
<1> QED BY <1>2, <1>5, <1>7, <1>8, <1>9, <1>11, <1>12

\* The first part of a message is ordered behind the end of another one.
LEMMA BehindClosing ==
    ASSUME NEW us \in Seq(User), NEW ps \in Seq(Part), PartsSound(us, ps),
           NEW k \in 1..Len(ps), ps[k].owner # 0, ps[k].nth = 1, ps[k].after # 0
    PROVE  /\ ps[k].after \in 1..k-1 /\ ps[ps[k].after].urg = ps[k].urg
           /\ ps[ps[k].after].owner = 0 \/ ps[ps[k].after].closing
<1>1. Len(ps) \in Nat
    BY SeqFact
<1>2. PICK e : e = ps[k].after
    OBVIOUS
<1>3. /\ e \in 1..k-1 /\ ps[e].urg = ps[k].urg
      /\ \A l \in e+1..k-1 : ps[l].urg # ps[k].urg
    BY <1>1, <1>2 DEF PartsSound, PartSound, Newest
<1>4. e \in 1..Len(ps)
    BY <1>1, <1>3
<1> SUFFICES ASSUME ps[e].owner # 0, ~ps[e].closing PROVE FALSE
    BY <1>2, <1>3
<1>5. PICK o, n : o = ps[e].owner /\ n = ps[e].nth
    OBVIOUS
<1>6. /\ o \in 1..Len(us) /\ us[o].size \in Nat /\ n \in 1..us[o].size
      /\ ps[e].urg = us[o].urg /\ n # us[o].size
    BY <1>4, <1>5, OwnedFact, UserFact DEF OfUser
<1>7. ps[k].owner \in Nat /\ Earlier(ps[e], ps[k])
    BY <1>3, SeqFact, PartFact DEF PartsSound, PartSound
<1>8. o < ps[k].owner
    BY <1>5, <1>6, <1>7 DEF Earlier
<1>9. PICK z : z = us[o].size
    OBVIOUS
<1>10. o \in 1..ps[k].owner /\ z \in 1..us[o].size /\ z # 0
    BY <1>6, <1>7, <1>8, <1>9
<1>11. PICK j \in 1..k-1 : IsPart(ps, j, o, z)
    BY <1>8, <1>9, <1>10 DEF PartsSound, PartSound
<1>12. j \in 1..Len(ps) /\ ps[j].owner = o /\ ps[j].nth = z
    BY <1>1, <1>11 DEF IsPart
<1>13. ps[j].urg = us[o].urg
    BY <1>6, <1>12, OwnedFact, NoDraftFact DEF OfUser
<1>14. j =< e
    BY <1>1, <1>3, <1>6, <1>13
<1>15. j # e
    BY <1>5, <1>6, <1>9, <1>12
<1>16. Earlier(ps[j], ps[e])
    BY <1>1, <1>4, <1>14, <1>15 DEF PartsSound, PartSound
<1> QED BY <1>5, <1>6, <1>9, <1>12, <1>16 DEF Earlier

-----------------------------------------------------------------------------
(***************************************************************************)
(* What a receiver knows of the messages it has.                           *)
(***************************************************************************)
\* A complete message is one of the user's, and ends with its closing part.
LEMMA MessageFact ==
    ASSUME NEW us \in Seq(User), NEW ps \in Seq(Part), PartsSound(us, ps),
           NEW tk, NEW m \in Seq(Nat), MessageSound(us, ps, tk, m)
    PROVE  /\ Len(m) \in Nat \ {0} /\ m[1] \in 1..Len(ps)
           /\ OwnerOf(ps, m) \in 1..Len(us) /\ OwnerOf(ps, m) # 0
           /\ m[Len(m)] \in tk /\ m[Len(m)] \in 1..Len(ps)
           /\ IsPart(ps, m[Len(m)], OwnerOf(ps, m), us[OwnerOf(ps, m)].size)
           /\ ps[m[Len(m)]].closing
           /\ ps[m[Len(m)]].urg = us[OwnerOf(ps, m)].urg
<1>1. Len(m) \in Nat \ {0} /\ 1 \in 1..Len(m) /\ Len(m) \in 1..Len(m)
    <2>1. Len(m) \in Nat
        BY LenProperties
    <2>2. Len(m) # 0
        BY DEF MessageSound
    <2> QED BY <2>1, <2>2
<1>2. PICK o, c : o = OwnerOf(ps, m) /\ c = m[Len(m)]
    OBVIOUS
<1>3. m[1] \in 1..Len(ps) /\ o = ps[m[1]].owner /\ o # 0 /\ Len(m) = us[o].size
    BY <1>1, <1>2 DEF MessageSound, OwnerOf
<1>4. c \in 1..Len(ps) /\ c \in tk /\ ps[c].owner = o /\ ps[c].nth = Len(m)
    BY <1>1, <1>2 DEF MessageSound, OwnerOf, IsPart
<1>5. OfUser(us, ps[c])
    BY <1>3, <1>4, OwnedFact
<1>6. o \in 1..Len(us) /\ ps[c].closing /\ ps[c].urg = us[o].urg
    BY <1>3, <1>4, <1>5 DEF OfUser
<1> QED BY <1>1, <1>2, <1>3, <1>4, <1>6 DEF IsPart

\* Serials are the places on the wire.
LEMMA SerialFact ==
    ASSUME NEW w, NEW k, \E a \in 1..Len(w) : w[a] = k
    PROVE  SerialIn(w, k) \in 1..Len(w) /\ w[SerialIn(w, k)] = k
BY DEF SerialIn

\* On its line a part with a smaller number has a smaller serial.
LEMMA SerialOrder ==
    ASSUME NEW ps \in Seq(Part), NEW w \in Seq(Nat), WireSound(ps, w),
           NEW j, NEW k, \E a \in 1..Len(w) : w[a] = j, \E a \in 1..Len(w) : w[a] = k,
           Line(ps[j]) = Line(ps[k]), j < k
    PROVE  SerialIn(w, j) < SerialIn(w, k)
<1>1. PICK a, b : a = SerialIn(w, j) /\ b = SerialIn(w, k)
    OBVIOUS
<1>2. a \in 1..Len(w) /\ b \in 1..Len(w) /\ w[a] = j /\ w[b] = k /\ Len(w) \in Nat
    BY <1>1, SerialFact, SeqFact
<1>3. j \in Nat /\ k \in Nat
    BY <1>2, SeqFact
<1>4. b \in 1..a-1 => k < j
    BY <1>2 DEF WireSound
<1> QED BY <1>1, <1>2, <1>3, <1>4

\* What a receiver has stays sound as messages and parts are added.
LEMMA MessageKept ==
    ASSUME NEW us \in Seq(User), NEW vs \in Seq(User), Extends(us, vs),
           NEW ps \in Seq(Part), NEW rs \in Seq(Part), Extends(ps, rs),
           PartsSound(us, ps), NEW tk, NEW m \in Seq(Nat), MessageSound(us, ps, tk, m)
    PROVE  MessageSound(vs, rs, tk, m) /\ OwnerOf(rs, m) = OwnerOf(ps, m)
<1>1. Len(us) \in Nat /\ Len(ps) \in Nat /\ Len(m) \in Nat \ {0}
    BY SeqFact, MessageFact
<1>2. m[1] \in 1..Len(ps) /\ \A j \in 1..Len(m) : m[j] \in 1..Len(ps)
    BY MessageFact DEF MessageSound
<1>3. rs[m[1]] = ps[m[1]] /\ \A j \in 1..Len(m) : rs[m[j]] = ps[m[j]]
    BY <1>2 DEF Extends
<1>4. Len(rs) \in Nat /\ Len(ps) =< Len(rs)
    BY SeqFact DEF Extends
<1>5. PICK o : o = ps[m[1]].owner
    OBVIOUS
<1>6. o \in 1..Len(us) /\ vs[o] = us[o]
    BY <1>5, MessageFact DEF OwnerOf, Extends
<1>7. /\ o # 0 /\ Len(m) = us[o].size /\ m[Len(m)] \in tk
      /\ \A j \in 1..Len(m) : ps[m[j]].owner = o /\ ps[m[j]].nth = j
    BY <1>5 DEF MessageSound, IsPart
<1>8. \A j \in 1..Len(m) : m[j] \in 1..Len(rs)
    BY <1>1, <1>2, <1>4
<1> QED BY <1>1, <1>3, <1>5, <1>6, <1>7, <1>8 DEF MessageSound, IsPart, OwnerOf

\* Messages stay whole and in turn as more is sent.
LEMMA MessagesKept ==
    ASSUME NEW us \in Seq(User), NEW vs \in Seq(User), Extends(us, vs),
           NEW ps \in Seq(Part), NEW rs \in Seq(Part), Extends(ps, rs),
           PartsSound(us, ps), NEW tk, tk \subseteq 1..Len(ps),
           NEW all \in Seq(Seq(Nat)), MessagesSound(us, ps, tk, all)
    PROVE  MessagesSound(vs, rs, tk, all)
<1>1. Len(all) \in Nat /\ \A b \in 1..Len(all) : all[b] \in Seq(Nat)
    BY SeqFact
<1>2. \A b \in 1..Len(all) :
         MessageSound(vs, rs, tk, all[b]) /\ OwnerOf(rs, all[b]) = OwnerOf(ps, all[b])
    BY <1>1, MessageKept DEF MessagesSound
<1>3. \A b \in 1..Len(all) : TurnSound(vs, rs, all, b)
    <2> TAKE b \in 1..Len(all)
    <2>1. PICK o : o = OwnerOf(ps, all[b])
        OBVIOUS
    <2>2. o \in 1..Len(us) /\ OwnerOf(rs, all[b]) = o /\ Len(us) \in Nat
        BY <1>1, <1>2, <2>1, MessageFact, SeqFact DEF MessagesSound
    <2>3. \A i \in 1..o : vs[i] = us[i]
        BY <2>2 DEF Extends
    <2>4. \A a \in 1..b-1 : OwnerOf(rs, all[a]) = OwnerOf(ps, all[a])
        BY <1>1, <1>2
    <2>5. /\ \A a \in 1..b-1 : OwnerOf(ps, all[a]) # o
          /\ \A i \in 1..o-1 : us[i].urg = us[o].urg =>
                \E a \in 1..b-1 : OwnerOf(ps, all[a]) = i
        BY <2>1 DEF MessagesSound, TurnSound
    <2>6. \A a \in 1..b-1 : OwnerOf(rs, all[a]) # OwnerOf(rs, all[b])
        BY <2>2, <2>4, <2>5
    <2>7. \A i \in 1..o-1 : vs[i].urg = vs[o].urg =>
             \E a \in 1..b-1 : OwnerOf(rs, all[a]) = i
        <3> TAKE i \in 1..o-1
        <3>1. i \in 1..o /\ o \in 1..o
            BY <2>2
        <3>2. us[i].urg = us[o].urg => \E a \in 1..b-1 : OwnerOf(ps, all[a]) = i
            BY <2>5
        <3> QED BY <2>3, <2>4, <3>1, <3>2
    <2> QED BY <2>2, <2>6, <2>7 DEF TurnSound
<1>4. \A c \in tk : rs[c] = ps[c]
    BY DEF Extends
<1> QED BY <1>2, <1>3, <1>4 DEF MessagesSound, Finished

\* So does what is collected.
LEMMA SplitKept ==
    ASSUME NEW ps \in Seq(Part), NEW rs \in Seq(Part), Extends(ps, rs),
           NEW tk, tk \subseteq 1..Len(ps),
           NEW s \in Seq(Nat), NEW urg, SplitSound(ps, tk, s, urg)
    PROVE  SplitSound(rs, tk, s, urg)
<1>1. Len(ps) \in Nat /\ Len(rs) \in Nat /\ Len(ps) =< Len(rs) /\ Len(s) \in Nat
    BY SeqFact DEF Extends
<1>2. \A j \in 1..Len(s) : /\ s[j] \in 1..Len(ps) /\ rs[s[j]] = ps[s[j]]
                           /\ s[j] \in 1..Len(rs) /\ 1 \in 1..Len(s)
    BY <1>1 DEF SplitSound, Extends
<1>3. \A t \in tk : rs[t] = ps[t]
    BY DEF Extends
<1>4. \A t : NewestTaken(rs, tk, urg, t) <=> NewestTaken(ps, tk, urg, t)
    BY <1>3 DEF NewestTaken
<1>5. \A j \in 1..Len(s) :
         /\ s[j] \in 1..Len(rs) /\ rs[s[j]].part /\ ~rs[s[j]].closing
         /\ rs[s[j]].owner = rs[s[1]].owner /\ rs[s[j]].nth = j
    <2> TAKE j \in 1..Len(s)
    <2>1. /\ ps[s[j]].part /\ ~ps[s[j]].closing
          /\ ps[s[j]].owner = ps[s[1]].owner /\ ps[s[j]].nth = j
        BY DEF SplitSound
    <2> QED BY <1>2, <2>1
<1>6. Len(s) # 0 => NewestTaken(rs, tk, urg, s[Len(s)])
    BY <1>4 DEF SplitSound
<1>7. Len(s) = 0 => \A t \in tk : NewestTaken(rs, tk, urg, t)
                                     => rs[t].owner = 0 \/ rs[t].closing
    BY <1>3, <1>4 DEF SplitSound
<1> QED BY <1>5, <1>6, <1>7 DEF SplitSound

\* So does all that the receiver has.
LEMMA ReceiverKept ==
    ASSUME NEW us \in Seq(User), NEW vs \in Seq(User), Extends(us, vs),
           NEW ps \in Seq(Part), NEW rs \in Seq(Part), Extends(ps, rs),
           PartsSound(us, ps), NEW w \in Seq(Nat), WireSound(ps, w), NEW tk,
           NEW splits \in [BOOLEAN -> Seq(Nat)], NEW reps \in Seq(Seq(Nat)),
           NEW list \in Seq(Seq(Nat)), ReceiverSound(us, ps, w, tk, splits, reps, list)
    PROVE  ReceiverSound(vs, rs, w, tk, splits, reps, list)
<1>1. tk \subseteq 1..Len(ps)
    BY DEF ReceiverSound, WireSound, Came
<1>2. Initial(rs, tk)
    <2>1. Len(ps) \in Nat /\ \A k \in tk : \A j \in 1..k-1 : j \in 1..Len(ps)
        BY <1>1, SeqFact
    <2>2. \A k \in tk : rs[k] = ps[k] /\ \A j \in 1..k-1 : rs[j] = ps[j]
        BY <1>1, <2>1 DEF Extends
    <2> QED BY <2>2 DEF ReceiverSound, Initial
<1>3. \A urg \in BOOLEAN : SplitSound(rs, tk, splits[urg], urg)
    BY <1>1, SplitKept DEF ReceiverSound
<1>4. reps \o list \in Seq(Seq(Nat))
    BY ConcatFact
<1>5. MessagesSound(vs, rs, tk, reps \o list)
    BY <1>1, <1>4, MessagesKept DEF ReceiverSound
<1> QED BY <1>2, <1>3, <1>5 DEF ReceiverSound

-----------------------------------------------------------------------------
(***************************************************************************)
(* A message gets its place among those that wait.                         *)
(***************************************************************************)
\* What is put into the second of two sequences is put into the whole.
LEMMA ConcatInserted ==
    ASSUME NEW S, NEW reps \in Seq(S), NEW list \in Seq(S), NEW new \in Seq(S),
           NEW n \in 0..Len(list), NEW m, Inserted(list, n + 1, m, new)
    PROVE  Inserted(reps \o list, Len(reps) + n + 1, m, reps \o new)
<1>1. Len(reps) \in Nat /\ Len(list) \in Nat
    BY SeqFact
<1>2. PICK all, r : all = reps \o list /\ r = reps \o new
    OBVIOUS
<1>0. PICK L : L = Len(reps)
    OBVIOUS
<1>3. /\ Len(all) = L + Len(list) /\ \A j \in 1..L : all[j] = reps[j]
      /\ \A j \in 1..Len(list) : all[L + j] = list[j]
    <2>1. /\ Len(reps \o list) = Len(reps) + Len(list)
          /\ \A j \in 1..Len(reps) : (reps \o list)[j] = reps[j]
          /\ \A j \in 1..Len(list) : (reps \o list)[Len(reps) + j] = list[j]
        BY ConcatFact
    <2> QED BY <1>0, <1>2, <2>1
<1>4. /\ Len(r) = L + Len(new) /\ \A j \in 1..L : r[j] = reps[j]
      /\ \A j \in 1..Len(new) : r[L + j] = new[j]
    <2>1. /\ Len(reps \o new) = Len(reps) + Len(new)
          /\ \A j \in 1..Len(reps) : (reps \o new)[j] = reps[j]
          /\ \A j \in 1..Len(new) : (reps \o new)[Len(reps) + j] = new[j]
        BY ConcatFact
    <2> QED BY <1>0, <1>2, <2>1
<1>5. /\ Len(new) = Len(list) + 1 /\ new[n + 1] = m
      /\ \A j \in 1..n : new[j] = list[j]
      /\ \A j \in n + 1..Len(list) : new[j + 1] = list[j]
    BY <1>1 DEF Inserted
<1>6. r[L + n + 1] = m
    <2>1. n + 1 \in 1..Len(new) /\ L + (n + 1) = L + n + 1
        BY <1>0, <1>1, <1>5
    <2> QED BY <1>4, <1>5, <2>1
<1>7. \A j \in 1..L + n : r[j] = all[j]
    <2> TAKE j \in 1..L + n
    <2>1. CASE j =< L
        <3>1. j \in 1..L
            BY <1>0, <1>1, <2>1
        <3> QED BY <1>3, <1>4, <3>1
    <2>2. CASE j > L
        <3>1. PICK i : i = j - L
            OBVIOUS
        <3>2. i \in 1..n /\ i \in 1..Len(list) /\ i \in 1..Len(new) /\ L + i = j
            BY <1>0, <1>1, <1>5, <2>2, <3>1
        <3> QED BY <1>3, <1>4, <1>5, <3>2
    <2> QED BY <1>0, <1>1, <2>1, <2>2
<1>8. \A j \in L + n + 1..Len(all) : r[j + 1] = all[j]
    <2> TAKE j \in L + n + 1..Len(all)
    <2>1. PICK i : i = j - L
        OBVIOUS
    <2>2. /\ i \in n + 1..Len(list) /\ i \in 1..Len(list) /\ L + i = j
          /\ i + 1 \in 1..Len(new) /\ L + (i + 1) = j + 1
        BY <1>0, <1>1, <1>3, <1>5, <2>1
    <2>3. all[j] = list[i] /\ r[j + 1] = new[i + 1] /\ new[i + 1] = list[i]
        BY <1>3, <1>4, <1>5, <2>2
    <2> QED BY <2>3
<1>9. PICK z : z = L + n + 1
    OBVIOUS
<1>10. Len(r) = Len(all) + 1 /\ z - 1 = L + n
    BY <1>0, <1>1, <1>3, <1>4, <1>5, <1>9
<1>11. Inserted(all, z, m, r)
    BY <1>6, <1>7, <1>8, <1>9, <1>10 DEF Inserted
<1> QED BY <1>0, <1>2, <1>9, <1>11

\* The elements of a sequence are found again in one that has m in addition.
LEMMA InsertedFact ==
    ASSUME NEW q, Len(q) \in Nat, NEW k \in 1..Len(q) + 1, NEW m, NEW r,
           Inserted(q, k, m, r)
    PROVE  Shifted(q, k, m, r)
<1>1. Len(q) \in Nat /\ Len(r) = Len(q) + 1 /\ r[k] = m
    BY DEF Inserted
<1>2. \A b \in 1..k-1 : b \in 1..Len(q) /\ r[b] = q[b]
    BY <1>1 DEF Inserted
<1>3. \A b \in k..Len(q) : b + 1 \in k+1..Len(r) /\ r[b + 1] = q[b]
    BY <1>1 DEF Inserted
<1>4. \A b \in k+1..Len(r) : b - 1 \in k..Len(q) /\ r[b] = q[b - 1]
    <2> TAKE b \in k+1..Len(r)
    <2>1. PICK j : j = b - 1
        OBVIOUS
    <2>2. j \in k..Len(q) /\ j + 1 = b
        BY <1>1, <2>1
    <2> QED BY <1>3, <2>1, <2>2
<1> QED BY <1>1, <1>2, <1>3, <1>4 DEF Shifted

\* Where insertReceived stops.
Stops(w, list, k, n) ==
    /\ n \in 0..Len(list)
    /\ \A j \in 1..n : LastSerial(w, list[j]) < SerialIn(w, k)
    /\ n < Len(list) => ~(LastSerial(w, list[n + 1]) < SerialIn(w, k))

\* The messages that wait ended with parts that came, and not the k-th.
OthersCame(w, list, k) ==
    \A b \in 1..Len(list) : /\ list[b][Len(list[b])] # k
                            /\ \E a \in 1..Len(w) : w[a] = list[b][Len(list[b])]

\* A list that was sorted is sorted with the new message.
LEMMA InsertSorted ==
    ASSUME NEW w \in Seq(Nat), NEW list \in Seq(Seq(Nat)), Sorted(w, list),
           NEW k, \E a \in 1..Len(w) : w[a] = k,
           OthersCame(w, list, k),
           NEW n, Stops(w, list, k, n), NEW m \in Seq(Nat), m[Len(m)] = k,
           NEW new \in Seq(Seq(Nat)), Inserted(list, n + 1, m, new)
    PROVE  Sorted(w, new)
<1>1. Len(list) \in Nat /\ Len(w) \in Nat /\ n \in 0..Len(list) /\ n \in Nat
    BY SeqFact DEF Stops
<1>2. n + 1 \in 1..Len(list) + 1 /\ n + 1 - 1 = n
    BY <1>1
<1>3. /\ Len(new) = Len(list) + 1 /\ new[n + 1] = m
      /\ \A b \in 1..n : b \in 1..Len(list) /\ new[b] = list[b]
      /\ \A b \in n+1+1..Len(new) : b - 1 \in n+1..Len(list) /\ new[b] = list[b - 1]
    <2>1. PICK z : z = n + 1
        OBVIOUS
    <2>2. z \in 1..Len(list) + 1 /\ Inserted(list, z, m, new) /\ z - 1 = n
        BY <1>1, <1>2, <2>1
    <2>3. Shifted(list, z, m, new)
        BY <1>1, <2>2, InsertedFact
    <2>4. /\ Len(new) = Len(list) + 1 /\ new[z] = m
          /\ \A b \in 1..z-1 : b \in 1..Len(list) /\ new[b] = list[b]
          /\ \A b \in z+1..Len(new) : b - 1 \in z..Len(list) /\ new[b] = list[b - 1]
        BY <2>3 DEF Shifted
    <2>5. \A b \in 1..n : b \in 1..Len(list) /\ new[b] = list[b]
        BY <2>2, <2>4
    <2> QED BY <2>1, <2>4, <2>5, Zenon
<1>4. PICK s : s = SerialIn(w, k)
    OBVIOUS
<1>5. s \in 1..Len(w) /\ w[s] = k /\ LastSerial(w, m) = s
    BY <1>4, SerialFact DEF LastSerial
<1>6. \A b \in 1..Len(list) :
         LastSerial(w, list[b]) \in 1..Len(w) /\ LastSerial(w, list[b]) # s
    <2> TAKE b \in 1..Len(list)
    <2>1. PICK c : c = list[b][Len(list[b])]
        OBVIOUS
    <2>2. c # k /\ SerialIn(w, c) \in 1..Len(w) /\ w[SerialIn(w, c)] = c
        <3>1. c # k /\ \E a \in 1..Len(w) : w[a] = c
            BY <2>1 DEF OthersCame
        <3> QED BY <3>1, SerialFact
    <2> QED BY <1>5, <2>1, <2>2 DEF LastSerial
<1>7. \A b \in 1..n : LastSerial(w, list[b]) < s
    BY <1>4 DEF Stops
<1>8. \A b \in n+1..Len(list) : s < LastSerial(w, list[b])
    <2> TAKE b \in n+1..Len(list)
    <2>1. PICK z : z = n + 1
        OBVIOUS
    <2>2. z \in 1..Len(list) /\ n < Len(list) /\ b \in 1..Len(list)
        <3>1. PICK len : len = Len(list)
            OBVIOUS
        <3>2. len \in Nat /\ n \in Nat /\ b \in n+1..len
            BY <1>1, <3>1
        <3>3. n + 1 \in 1..len /\ n < len /\ b \in 1..len
            BY <3>2
        <3> QED BY <2>1, <3>1, <3>3
    <2>3. ~(LastSerial(w, list[z]) < s)
        BY <1>4, <2>1, <2>2 DEF Stops
    <2>4. s < LastSerial(w, list[z])
        BY <1>1, <1>5, <1>6, <2>2, <2>3
    <2>5. b = z \/ LastSerial(w, list[z]) < LastSerial(w, list[b])
        BY <1>1, <2>1, <2>2 DEF Sorted
    <2>6. LastSerial(w, list[z]) \in Nat /\ LastSerial(w, list[b]) \in Nat /\ s \in Nat
        <3>1. \A x \in 1..Len(w) : x \in Nat
            BY <1>1
        <3> QED BY <1>5, <1>6, <2>2, <3>1
    <2> QED BY <2>4, <2>5, <2>6
<1> SUFFICES ASSUME NEW b \in 1..Len(new), NEW a \in 1..b-1
             PROVE  LastSerial(w, new[a]) < LastSerial(w, new[b])
    BY DEF Sorted
<1>9. \A i \in 1..Len(list) : \A j \in 1..i-1 :
         LastSerial(w, list[j]) < LastSerial(w, list[i])
    BY DEF Sorted
<1>10. CASE b =< n
    <2>1. b \in 1..n /\ a \in 1..n /\ b \in 1..Len(list)
        BY <1>1, <1>3, <1>10
    <2> QED BY <1>3, <1>9, <2>1
<1>11. CASE b = n + 1
    <2>1. a \in 1..n
        BY <1>1, <1>11
    <2> QED BY <1>3, <1>5, <1>7, <1>11, <2>1
<1>12. CASE b > n + 1
    <2>1. PICK i : i = b - 1
        OBVIOUS
    <2>0. b \in n+1+1..Len(new) /\ Len(new) = Len(list) + 1
        BY <1>1, <1>3, <1>12
    <2>2. i \in n+1..Len(list) /\ i \in 1..Len(list) /\ new[b] = list[i]
        <3>1. i \in n+1..Len(list) /\ i \in 1..Len(list)
            BY <1>1, <2>0, <2>1
        <3> QED BY <1>3, <2>0, <2>1, <3>1
    <2>3. CASE a =< n
        <3>1. a \in 1..n /\ a \in 1..i-1
            BY <1>1, <2>2, <2>3
        <3> QED BY <1>3, <1>9, <2>2, <3>1
    <2>4. CASE a = n + 1
        BY <1>3, <1>5, <1>8, <2>2, <2>4
    <2>5. CASE a > n + 1
        <3>1. PICK j : j = a - 1
            OBVIOUS
        <3>2. j \in 1..i-1 /\ new[a] = list[j]
            <4>1. a \in n+1+1..Len(new) /\ j \in 1..i-1
                BY <1>1, <2>0, <2>1, <2>5, <3>1
            <4> QED BY <1>3, <3>1, <4>1
        <3> QED BY <1>9, <2>2, <3>2
    <2> QED BY <1>1, <2>0, <2>3, <2>4, <2>5
<1>13. b \in Int
    BY <1>1, <1>3
<1>14. b =< n \/ b = n + 1 \/ b > n + 1
    BY <1>1, <1>13
<1> QED BY <1>10, <1>11, <1>12, <1>14

\* What the k-th part brings, when it is the closing part of message m.
Closes(us, ps, tk, m, k) ==
    MessageSound(us, ps, tk \cup {k}, m) /\ m[Len(m)] = k

\* The part that closes a message is the last one of its owner.
LEMMA ClosedFact ==
    ASSUME NEW us \in Seq(User), NEW ps \in Seq(Part), PartsSound(us, ps), NEW tk,
           NEW k, NEW m \in Seq(Nat), Closes(us, ps, tk, m, k)
    PROVE  /\ OwnerOf(ps, m) \in 1..Len(us) /\ OwnerOf(ps, m) # 0
           /\ IsPart(ps, k, OwnerOf(ps, m), us[OwnerOf(ps, m)].size)
           /\ ps[k].closing /\ ps[k].urg = us[OwnerOf(ps, m)].urg
<1>1. PICK tks, o, c : tks = tk \cup {k} /\ o = OwnerOf(ps, m) /\ c = m[Len(m)]
    OBVIOUS
<1>2. MessageSound(us, ps, tks, m) /\ c = k
    BY <1>1 DEF Closes
<1>3. PICK l : l = us[o].size
    OBVIOUS
<1>4. /\ o \in 1..Len(us) /\ o # 0 /\ IsPart(ps, c, o, l)
      /\ ps[c].closing /\ ps[c].urg = us[o].urg
    <2>1. /\ OwnerOf(ps, m) \in 1..Len(us) /\ OwnerOf(ps, m) # 0
          /\ IsPart(ps, m[Len(m)], OwnerOf(ps, m), us[OwnerOf(ps, m)].size)
          /\ ps[m[Len(m)]].closing
          /\ ps[m[Len(m)]].urg = us[OwnerOf(ps, m)].urg
        BY <1>2, MessageFact
    <2> QED BY <1>1, <1>3, <2>1
<1> QED BY <1>1, <1>2, <1>3, <1>4

\* From the z-th on, no message has the k-th part's class and ends before it.
AllNewer(ps, all, k, z) ==
    \A b \in z..Len(all) : ps[all[b][Len(all[b])]].urg = ps[k].urg
                              => ~(all[b][Len(all[b])] < k)

\* Messages that were whole, in turn and complete are so with the new one, put
\* after all of its class.
LEMMA InsertMessages ==
    ASSUME NEW us \in Seq(User), NEW ps \in Seq(Part), PartsSound(us, ps),
           NEW tk, tk \subseteq 1..Len(ps), NEW k \in 1..Len(ps), k \notin tk,
           \A j \in 1..k-1 : ps[j].urg = ps[k].urg => j \in tk,
           NEW all \in Seq(Seq(Nat)), MessagesSound(us, ps, tk, all),
           NEW m \in Seq(Nat), Closes(us, ps, tk, m, k), NEW z \in 1..Len(all) + 1,
           AllNewer(ps, all, k, z),
           NEW new \in Seq(Seq(Nat)), Inserted(all, z, m, new)
    PROVE  MessagesSound(us, ps, tk \cup {k}, new)
<1>0. Len(all) \in Nat /\ Len(us) \in Nat /\ Len(ps) \in Nat /\ Len(new) \in Nat
    BY SeqFact
<1>1. \A b \in 1..Len(all) : all[b] \in Seq(Nat)
    BY SeqFact
<1>2. /\ Len(new) = Len(all) + 1 /\ new[z] = m
      /\ \A b \in 1..z-1 : b \in 1..Len(all) /\ new[b] = all[b]
      /\ \A b \in z+1..Len(new) : b - 1 \in z..Len(all) /\ new[b] = all[b - 1]
      /\ \A b \in z..Len(all) : b + 1 \in z+1..Len(new) /\ new[b + 1] = all[b]
    <2>1. Shifted(all, z, m, new)
        BY <1>0, InsertedFact
    <2> QED BY <2>1 DEF Shifted
<1>10. Len(new) = Len(all) + 1
    BY <1>2
<1>3. PICK o : o = OwnerOf(ps, m)
    OBVIOUS
<1>4. /\ o \in 1..Len(us) /\ o # 0 /\ us[o].size \in Nat \ {0} /\ m[Len(m)] = k
      /\ IsPart(ps, k, o, us[o].size) /\ ps[k].closing /\ ps[k].urg = us[o].urg
    <2>1. MessageSound(us, ps, tk \cup {k}, m) /\ m[Len(m)] = k
        BY DEF Closes
    <2>2. o \in 1..Len(us) /\ o # 0 /\ IsPart(ps, k, o, us[o].size) /\ ps[k].closing
          /\ ps[k].urg = us[o].urg
        BY <1>3, ClosedFact
    <2> QED BY <2>1, <2>2, SeqFact, UserFact
<1>5. \A b \in 1..Len(all) : MessageSound(us, ps, tk \cup {k}, all[b])
    BY DEF MessagesSound, MessageSound
<1>6. \A b \in 1..Len(all) : OwnerOf(ps, all[b]) # o
    <2> TAKE b \in 1..Len(all)
    <2>1. PICK c : c = all[b][Len(all[b])]
        OBVIOUS
    <2>2. /\ c \in tk /\ c \in 1..Len(ps)
          /\ IsPart(ps, c, OwnerOf(ps, all[b]), us[OwnerOf(ps, all[b])].size)
        BY <1>1, <2>1, MessageFact DEF MessagesSound
    <2>3. OwnerOf(ps, all[b]) = o
             => ps[c].owner = ps[k].owner /\ ps[c].nth = ps[k].nth
        BY <1>4, <2>2 DEF IsPart
    <2>4. OwnerOf(ps, all[b]) = o => c = k
        BY <2>2, <2>3, PartUnique
    <2> QED BY <2>2, <2>4
<1>7. \A i \in 1..o-1 : us[i].urg = us[o].urg =>
         \E a \in 1..z-1 : OwnerOf(ps, all[a]) = i
    <2> TAKE i \in 1..o-1
    <2> HAVE us[i].urg = us[o].urg
    <2>1. i \in 1..Len(us) /\ i < o /\ i # 0 /\ i \in 1..o
        <3>1. o \in 1..Len(us)
            BY <1>4
        <3> QED BY <1>0, <3>1
    <2>2. PICK s : s = us[i].size
        OBVIOUS
    <2>3. s \in Nat \ {0} /\ s \in 1..us[i].size
        BY <2>1, <2>2, SeqFact, UserFact
    <2>4. PICK j \in 1..k-1 : IsPart(ps, j, i, s)
        <3>1. ps[k].owner = o /\ i \in 1..ps[k].owner /\ i < ps[k].owner
            BY <1>4, <2>1 DEF IsPart
        <3>2. PartSound(us, ps, k)
            BY DEF PartsSound
        <3> QED BY <2>3, <3>1, <3>2 DEF PartSound
    <2>5. j \in 1..Len(ps) /\ ps[j].owner = i /\ ps[j].nth = s
        BY <1>0, <2>4 DEF IsPart
    <2>6. ps[j].closing /\ ps[j].urg = us[i].urg
        <3>1. OfUser(us, ps[j])
            BY <2>1, <2>5, OwnedFact
        <3> QED BY <2>2, <2>5, <3>1 DEF OfUser
    <2>7. j \in tk
        BY <1>4, <2>6
    <2>8. PICK b \in 1..Len(all) : all[b][Len(all[b])] = j
        BY <2>1, <2>5, <2>6, <2>7 DEF MessagesSound, Finished
    <2>9. OwnerOf(ps, all[b]) = i
        <3>1. MessageSound(us, ps, tk, all[b]) /\ all[b] \in Seq(Nat)
            BY <1>1, <2>8 DEF MessagesSound
        <3>2. PICK c, l : c = OwnerOf(ps, all[b]) /\ l = us[c].size
            OBVIOUS
        <3>3. IsPart(ps, j, c, l)
            BY <2>8, <3>1, <3>2, MessageFact
        <3> QED BY <2>5, <3>2, <3>3 DEF IsPart
    <2>10. ~(b \in z..Len(all))
        <3>1. ps[j].urg = ps[k].urg /\ j < k
            BY <1>0, <1>4, <2>4, <2>6
        <3> QED BY <2>8, <3>1 DEF AllNewer
    <2>11. b \in 1..z-1
        BY <1>0, <2>10
    <2> QED BY <2>9, <2>11
<1>8. ASSUME NEW b \in 1..Len(new)
      PROVE  MessageSound(us, ps, tk \cup {k}, new[b]) /\ TurnSound(us, ps, new, b)
    <2>1. CASE b \in 1..z-1
        <3>1. new[b] = all[b] /\ b \in 1..Len(all) /\ \A a \in 1..b-1 : new[a] = all[a]
            <4>1. \A a \in 1..b-1 : a \in 1..z-1
                BY <2>1
            <4> QED BY <1>2, <2>1, <4>1
        <3>2. TurnSound(us, ps, all, b)
            BY <3>1 DEF MessagesSound
        <3> QED BY <1>5, <3>1, <3>2 DEF TurnSound
    <2>2. CASE b = z
        <3>1. \A a \in 1..z-1 : OwnerOf(ps, new[a]) = OwnerOf(ps, all[a])
                                /\ OwnerOf(ps, new[a]) # o
            BY <1>2, <1>6
        <3>2. MessageSound(us, ps, tk \cup {k}, new[b])
            BY <1>2, <2>2 DEF Closes
        <3> QED BY <1>2, <1>3, <1>7, <2>2, <3>1, <3>2 DEF TurnSound
    <2>3. CASE b \in z+1..Len(new)
        <3>1. PICK c : c = b - 1
            OBVIOUS
        <3>2. c \in z..Len(all) /\ c \in 1..Len(all) /\ new[b] = all[c]
            <4>1. c \in z..Len(all) /\ new[b] = all[c]
                BY <1>2, <2>3, <3>1
            <4> QED BY <1>0, <4>1
        <3>3. TurnSound(us, ps, all, c)
            BY <3>2 DEF MessagesSound
        <3>4. \A a \in 1..b-1 : OwnerOf(ps, new[a]) # OwnerOf(ps, new[b])
            <4> TAKE a \in 1..b-1
            <4>1. CASE a < z
                <5>1. a \in 1..z-1 /\ a \in 1..c-1
                    <6>1. c \in Int /\ z \in Int /\ z <= c /\ a \in Int /\ 1 <= a
                        BY <1>0, <3>1, <3>2
                    <6> QED BY <4>1, <6>1
                <5> QED BY <1>2, <3>2, <3>3, <5>1 DEF TurnSound
            <4>2. CASE a = z
                BY <1>2, <1>3, <1>6, <3>2, <4>2
            <4>3. CASE a > z
                <5>1. PICK d : d = a - 1
                    OBVIOUS
                <5>2. a \in z+1..Len(new) /\ d \in 1..c-1
                    BY <1>0, <2>3, <3>1, <3>2, <4>3, <5>1
                <5>3. new[a] = all[d]
                    BY <1>2, <5>1, <5>2
                <5> QED BY <3>2, <3>3, <5>2, <5>3 DEF TurnSound
            <4> QED BY <1>0, <4>1, <4>2, <4>3
        <3>5. \A i \in 1..OwnerOf(ps, new[b]) - 1 :
                 us[i].urg = us[OwnerOf(ps, new[b])].urg =>
                     \E a \in 1..b-1 : OwnerOf(ps, new[a]) = i
            <4> TAKE i \in 1..OwnerOf(ps, new[b]) - 1
            <4> HAVE us[i].urg = us[OwnerOf(ps, new[b])].urg
            <4>1. PICK d \in 1..c-1 : OwnerOf(ps, all[d]) = i
                BY <3>2, <3>3 DEF TurnSound
            <4>2. CASE d < z
                <5>1. d \in 1..z-1 /\ d \in 1..b-1
                    BY <1>0, <3>1, <3>2, <4>2
                <5> QED BY <1>2, <4>1, <5>1
            <4>3. CASE d >= z
                <5>1. PICK a : a = d + 1
                    OBVIOUS
                <5>2. d \in z..Len(all) /\ a \in 1..b-1
                    BY <1>0, <3>1, <3>2, <4>3, <5>1
                <5>3. new[a] = all[d]
                    BY <1>2, <5>1, <5>2
                <5> QED BY <4>1, <5>2, <5>3
            <4> QED BY <1>0, <3>2, <4>2, <4>3
        <3>6. MessageSound(us, ps, tk \cup {k}, new[b])
            BY <1>5, <3>2
        <3> QED BY <3>4, <3>5, <3>6 DEF TurnSound
    <2> QED BY <1>0, <1>2, <2>1, <2>2, <2>3
<1>9. Finished(ps, tk \cup {k}, new)
    <2> SUFFICES ASSUME NEW c \in tk \cup {k}, ps[c].owner # 0, ps[c].closing
                 PROVE  \E b \in 1..Len(new) : new[b][Len(new[b])] = c
        BY DEF Finished
    <2>1. CASE c = k
        <3>1. z \in 1..Len(new)
            BY <1>0, <1>2
        <3> QED BY <1>2, <1>4, <2>1, <3>1
    <2>2. CASE c \in tk
        <3>1. PICK b \in 1..Len(all) : all[b][Len(all[b])] = c
            BY <2>2 DEF MessagesSound, Finished
        <3>2. CASE b < z
            <4>1. b \in 1..z-1 /\ b \in 1..Len(new)
                BY <1>0, <1>2, <3>2
            <4> QED BY <1>2, <3>1, <4>1
        <3>3. CASE b >= z
            <4>1. PICK d : d = b + 1
                OBVIOUS
            <4>2. b \in z..Len(all) /\ d \in 1..Len(new)
                BY <1>0, <1>10, <3>3, <4>1
            <4>3. new[d] = all[b]
                BY <1>2, <4>1, <4>2
            <4> QED BY <3>1, <4>2, <4>3
        <3> QED BY <1>0, <3>2, <3>3
    <2> QED BY <2>1, <2>2
<1> QED BY <1>8, <1>9 DEF MessagesSound

\* A message put where insertReceived stops.
LEMMA InsertReception ==
    ASSUME NEW us \in Seq(User), NEW ps \in Seq(Part), PartsSound(us, ps),
           NEW w \in Seq(Nat), WireSound(ps, w),
           NEW tk, Came(w, tk), NEW k \in 1..Len(ps), k \notin tk,
           \E a \in 1..Len(w) : w[a] = k,
           \A j \in 1..k-1 : ps[j].urg = ps[k].urg => j \in tk,
           NEW reps \in Seq(Seq(Nat)), NEW list \in Seq(Seq(Nat)),
           MessagesSound(us, ps, tk, reps \o list), Sorted(w, list),
           NEW m \in Seq(Nat), Closes(us, ps, tk, m, k), NEW n, Stops(w, list, k, n)
    PROVE  /\ InsertAt(list, n + 1, m) \in Seq(Seq(Nat))
           /\ MessagesSound(us, ps, tk \cup {k}, reps \o InsertAt(list, n + 1, m))
           /\ Sorted(w, InsertAt(list, n + 1, m))
<1>1. Len(list) \in Nat /\ n \in 0..Len(list) /\ n \in Nat /\ Len(reps) \in Nat
      /\ Len(w) \in Nat /\ Len(ps) \in Nat
    BY SeqFact DEF Stops
<1>2. tk \subseteq 1..Len(ps)
    BY DEF Came, WireSound
<1>3. PICK at, new : at = n + 1 /\ new = InsertAt(list, at, m)
    OBVIOUS
<1>4. at \in 1..Len(list) + 1
    BY <1>1, <1>3
<1>5. new \in Seq(Seq(Nat)) /\ Inserted(list, n + 1, m, new)
    BY <1>3, <1>4, InsertFact
<1>6. PICK all, z : all = reps \o list /\ z = Len(reps) + n + 1
    OBVIOUS
<1>7. /\ all \in Seq(Seq(Nat)) /\ Len(all) = Len(reps) + Len(list)
      /\ \A j \in 1..Len(list) : all[Len(reps) + j] = list[j]
    BY <1>6, ConcatFact
<1>8. z \in 1..Len(all) + 1
    BY <1>1, <1>6, <1>7
<1>9. PICK whole : whole = reps \o new
    OBVIOUS
<1>10. whole \in Seq(Seq(Nat)) /\ Inserted(all, z, m, whole)
    <2>1. whole \in Seq(Seq(Nat))
        BY <1>5, <1>9, ConcatFact
    <2> QED BY <1>1, <1>5, <1>6, <1>9, <2>1, ConcatInserted
<1>11. \A b \in 1..Len(list) :
          LET c == list[b][Len(list[b])]
          IN  c \in tk /\ ps[c].owner # 0 /\ LastSerial(w, list[b]) = SerialIn(w, c)
    <2> TAKE b \in 1..Len(list)
    <2>1. PICK d : d = Len(reps) + b
        OBVIOUS
    <2>2. d \in 1..Len(all) /\ all[d] = list[b] /\ list[b] \in Seq(Nat)
        BY <1>1, <1>7, <2>1, SeqFact
    <2>3. MessageSound(us, ps, tk, list[b])
        BY <1>6, <2>2 DEF MessagesSound
    <2>4. PICK g : g = list[b]
        OBVIOUS
    <2>5. g \in Seq(Nat) /\ MessageSound(us, ps, tk, g)
        BY <2>2, <2>3, <2>4
    <2>6. PICK c, o : c = g[Len(g)] /\ o = OwnerOf(ps, g)
        OBVIOUS
    <2>7. c \in tk /\ o # 0 /\ IsPart(ps, c, o, us[o].size)
        BY <2>5, <2>6, MessageFact
    <2> QED BY <2>4, <2>6, <2>7 DEF LastSerial, IsPart
<1>12. Sorted(w, new)
    <2>1. OthersCame(w, list, k)
        BY <1>11 DEF OthersCame, Came
    <2>2. m[Len(m)] = k
        BY DEF Closes
    <2> QED BY <1>5, <2>1, <2>2, InsertSorted
<1>13. ps[k].owner # 0
    <2>1. PICK o : o = OwnerOf(ps, m)
        OBVIOUS
    <2>2. o # 0 /\ IsPart(ps, k, o, us[o].size)
        BY <2>1, ClosedFact
    <2> QED BY <2>2 DEF IsPart
<1>14. AllNewer(ps, all, k, z)
    <2> SUFFICES ASSUME NEW b \in z..Len(all), NEW c, c = all[b][Len(all[b])],
                        ps[c].urg = ps[k].urg, c < k
                 PROVE  FALSE
        BY DEF AllNewer
    <2>0. PICK i, y : i = b - Len(reps) /\ y = n + 1
        OBVIOUS
    <2>1. PICK s : s = SerialIn(w, k)
        OBVIOUS
    <2>2. /\ i \in y..Len(list) /\ i \in 1..Len(list) /\ Len(reps) + i = b
          /\ y \in 1..Len(list) /\ n < Len(list)
        <3>1. PICK L : L = Len(reps)
            OBVIOUS
        <3>2. L \in Nat /\ i = b - L /\ z = L + n + 1 /\ Len(all) = L + Len(list)
              /\ b \in z..Len(all)
            BY <1>1, <1>6, <1>7, <2>0, <3>1
        <3>3. PICK len, end : len = Len(list) /\ end = Len(all)
            OBVIOUS
        <3>4. len \in Nat /\ n \in Nat /\ end = L + len /\ b \in z..end
            BY <1>1, <3>2, <3>3
        <3>5. L \in Nat /\ i = b - L /\ z = L + n + 1 /\ y = n + 1
            BY <2>0, <3>1, <3>2
        <3>6. b >= L + n + 1 /\ b <= L + len /\ b \in Int
            BY <3>4, <3>5
        <3>7. i \in y..len /\ L + i = b /\ y \in 1..len /\ i \in 1..len /\ n < len
            BY <3>4, <3>5, <3>6
        <3> QED BY <3>1, <3>3, <3>7
    <2>3. all[b] = list[i]
        BY <1>7, <2>2
    <2>4. c \in tk /\ ps[c].owner # 0 /\ LastSerial(w, list[i]) = SerialIn(w, c)
        BY <1>11, <2>1, <2>2, <2>3
    <2>5. SerialIn(w, c) < s
        <3>1. Line(ps[c]) = Line(ps[k])
            BY <1>13, <2>1, <2>4 DEF Line
        <3>2. \E a \in 1..Len(w) : w[a] = c
            BY <2>4 DEF Came
        <3> QED BY <2>1, <3>1, <3>2, SerialOrder
    <2>6. ~(LastSerial(w, list[y]) < s)
        BY <2>0, <2>1, <2>2 DEF Stops
    <2>7. y = i \/ LastSerial(w, list[y]) < LastSerial(w, list[i])
        <3>1. y = i \/ y \in 1..i-1
            <4>1. i \in Int /\ y \in Int /\ y <= i /\ 1 <= y
                BY <2>2
            <4> QED BY <4>1
        <3> QED BY <2>2, <3>1 DEF Sorted
    <2>8. LastSerial(w, list[y]) \in Nat /\ s \in Nat /\ SerialIn(w, c) \in Nat
        <3>1. \E a \in 1..Len(w) : w[a] = c
            BY <2>4 DEF Came
        <3>2. PICK e : e = list[y][Len(list[y])]
            OBVIOUS
        <3>3. e \in tk /\ LastSerial(w, list[y]) = SerialIn(w, e)
            BY <1>11, <2>2, <3>2
        <3>4. \E a \in 1..Len(w) : w[a] = e
            BY <3>3 DEF Came
        <3>5. SerialIn(w, e) \in 1..Len(w) /\ SerialIn(w, c) \in 1..Len(w)
              /\ s \in 1..Len(w)
            BY <2>1, <3>1, <3>4, SerialFact
        <3>6. \A x \in 1..Len(w) : x \in Nat
            BY <1>1
        <3> QED BY <3>3, <3>5, <3>6
    <2>9. PICK lc, ly, li : /\ lc = SerialIn(w, c) /\ ly = LastSerial(w, list[y])
                            /\ li = LastSerial(w, list[i])
        OBVIOUS
    <2>10. /\ lc < s /\ ~(ly < s) /\ (y = i \/ ly < li) /\ li = lc
           /\ ly \in Nat /\ s \in Nat /\ lc \in Nat
        BY <2>4, <2>5, <2>6, <2>7, <2>8, <2>9
    <2>11. y # i
        BY <2>9, <2>10
    <2> QED BY <2>10, <2>11
<1>15. MessagesSound(us, ps, tk \cup {k}, whole)
    <2>1. MessagesSound(us, ps, tk, all)
        BY <1>6
    <2> QED BY <1>2, <1>7, <1>8, <1>10, <1>14, <2>1, InsertMessages
<1> QED BY <1>3, <1>5, <1>9, <1>12, <1>15

-----------------------------------------------------------------------------
(***************************************************************************)
(* The parts a receiver collects.                                          *)
(***************************************************************************)
\* s are the parts before the k-th of its message.
Before(ps, k, s) ==
    Len(s) = ps[k].nth - 1 /\ (Len(s) # 0 => ps[s[1]].owner = ps[k].owner)

\* A part finds those before it of its message, and nothing else.
LEMMA SplitBefore ==
    ASSUME NEW us \in Seq(User), NEW ps \in Seq(Part), PartsSound(us, ps),
           NEW tk, Initial(ps, tk), tk \subseteq 1..Len(ps),
           NEW k \in 1..Len(ps), k \notin tk, ps[k].after \in tk \cup {0},
           ps[k].owner # 0, NEW s \in Seq(Nat), SplitSound(ps, tk, s, ps[k].urg)
    PROVE  Before(ps, k, s)
<1>1. Len(ps) \in Nat /\ Len(s) \in Nat /\ ps[k].nth \in Nat
    BY SeqFact, PartFact
<1>2. PICK e, u : e = ps[k].after /\ u = ps[k].urg
    OBVIOUS
<1>3. /\ \A t \in tk : ps[t].urg = u => t < k
      /\ \A t \in e+1..k-1 : ps[t].urg # u
    <2>1. \A t \in tk : ps[t].urg = ps[k].urg => t < k
        BY ChainFact
    <2>2. Newest(ps, k - 1, ps[k].urg, ps[k].after)
        BY DEF PartsSound, PartSound
    <2>3. \A t \in e+1..k-1 : ps[t].urg # u
        BY <1>2, <2>2 DEF Newest
    <2> QED BY <1>2, <2>1, <2>3
<1>4. ps[e].urg = u /\ e \in 1..k-1 => NewestTaken(ps, tk, u, e)
    <2> HAVE ps[e].urg = u /\ e \in 1..k-1
    <2>1. e \in tk
        BY <1>1, <1>2
    <2>2. \A t \in tk : ps[t].urg = u => t =< e
        <3> TAKE t \in tk
        <3> HAVE ps[t].urg = u
        <3>1. t < k /\ t \in 1..Len(ps) /\ ~(t \in e+1..k-1)
            BY <1>3
        <3> QED BY <1>1, <3>1
    <2> QED BY <2>1, <2>2 DEF NewestTaken
<1>5. PICK t : t = s[Len(s)]
    OBVIOUS
<1>6. Len(s) # 0 => /\ NewestTaken(ps, tk, u, t) /\ t \in 1..Len(ps)
                    /\ ps[t].part /\ ~ps[t].closing
                    /\ ps[t].owner = ps[s[1]].owner /\ ps[t].nth = Len(s)
    <2> HAVE Len(s) # 0
    <2>1. Len(s) \in 1..Len(s)
        BY <1>1
    <2> QED BY <1>2, <1>5, <2>1 DEF SplitSound
<1>7. CASE ps[k].nth # 1
    <2>1. /\ e \in 1..k-1 /\ ps[e].urg = u /\ IsPart(ps, e, ps[k].owner, ps[k].nth - 1)
          /\ ~ps[e].closing
        BY <1>2, <1>7, BehindPart
    <2>2. NewestTaken(ps, tk, u, e)
        BY <1>4, <2>1
    <2>3. e \in tk /\ ps[e].owner # 0
        BY <2>1, <2>2 DEF NewestTaken, IsPart
    <2>4. Len(s) # 0
        BY <1>2, <2>1, <2>2, <2>3 DEF SplitSound
    <2>5. t = e
        <3>1. e =< t /\ t =< e
            BY <1>6, <2>2, <2>4 DEF NewestTaken
        <3>2. e \in Nat /\ t \in Nat
            BY <1>1, <1>6, <2>1, <2>4
        <3> QED BY <3>1, <3>2
    <2> QED BY <1>6, <2>1, <2>4, <2>5 DEF IsPart, Before
<1>8. CASE ps[k].nth = 1
    <2> SUFFICES ASSUME Len(s) # 0 PROVE FALSE
        BY <1>8 DEF Before
    <2>1. t \in tk /\ t \in 1..Len(ps) /\ ps[t].urg = u /\ t < k
        BY <1>3, <1>6 DEF NewestTaken
    <2>2. ~(t \in e+1..k-1) /\ e \in Nat
        BY <1>2, <1>3, <2>1, SeqFact, PartFact
    <2>3. e # 0
        BY <1>1, <2>1, <2>2
    <2>4. e \in 1..k-1 /\ ps[e].urg = u /\ (ps[e].owner = 0 \/ ps[e].closing)
        BY <1>2, <1>8, <2>3, BehindClosing
    <2>5. NewestTaken(ps, tk, u, e)
        BY <1>4, <2>4
    <2>6. t = e
        <3>1. e =< t /\ t =< e /\ e \in Nat /\ t \in Nat
            BY <1>1, <1>6, <2>1, <2>4, <2>5 DEF NewestTaken
        <3> QED BY <3>1
    <2>7. ps[t].owner # 0
        BY <1>6, <2>1, OwnedFact, NoDraftFact
    <2> QED BY <1>6, <2>4, <2>6, <2>7
<1> QED BY <1>7, <1>8

\* The newest part taken of a class is the k-th when it is of that class.
LEMMA NewestNow ==
    ASSUME NEW ps \in Seq(Part), NEW tk, tk \subseteq 1..Len(ps), NEW k \in 1..Len(ps),
           \A t \in tk : ps[t].urg = ps[k].urg => t < k
    PROVE  /\ NewestTaken(ps, tk \cup {k}, ps[k].urg, k)
           /\ \A t : NewestTaken(ps, tk \cup {k}, ps[k].urg, t) => t = k
           /\ \A urg, t : urg # ps[k].urg =>
                 (NewestTaken(ps, tk \cup {k}, urg, t) <=> NewestTaken(ps, tk, urg, t))
<1>1. Len(ps) \in Nat /\ k \in Nat /\ \A t \in tk : t \in Nat
    BY SeqFact
<1>2. NewestTaken(ps, tk \cup {k}, ps[k].urg, k)
    BY <1>1 DEF NewestTaken
<1>3. \A t : NewestTaken(ps, tk \cup {k}, ps[k].urg, t) => t = k
    <2> TAKE t
    <2> HAVE NewestTaken(ps, tk \cup {k}, ps[k].urg, t)
    <2>1. k =< t /\ t \in tk \cup {k} /\ ps[t].urg = ps[k].urg
        BY DEF NewestTaken
    <2> QED BY <1>1, <2>1
<1>4. \A urg, t : urg # ps[k].urg =>
         (NewestTaken(ps, tk \cup {k}, urg, t) <=> NewestTaken(ps, tk, urg, t))
    BY DEF NewestTaken
<1> QED BY <1>2, <1>3, <1>4

\* The lists of parts after the k-th one, which is of the class urg.
LEMMA SplitOther ==
    ASSUME NEW ps \in Seq(Part), NEW tk, tk \subseteq 1..Len(ps), NEW k \in 1..Len(ps),
           \A t \in tk : ps[t].urg = ps[k].urg => t < k,
           NEW urg, urg # ps[k].urg, NEW s, SplitSound(ps, tk, s, urg)
    PROVE  SplitSound(ps, tk \cup {k}, s, urg)
<1>1. \A t : NewestTaken(ps, tk \cup {k}, urg, t) <=> NewestTaken(ps, tk, urg, t)
    BY NewestNow
<1>2. \A t : NewestTaken(ps, tk, urg, t) => t \in tk
    BY DEF NewestTaken
<1> QED BY <1>1, <1>2 DEF SplitSound

\* After a closing part nothing is collected.
LEMMA SplitEmpty ==
    ASSUME NEW ps \in Seq(Part), NEW tk, tk \subseteq 1..Len(ps), NEW k \in 1..Len(ps),
           \A t \in tk : ps[t].urg = ps[k].urg => t < k,
           ps[k].owner = 0 \/ ps[k].closing, NEW s \in Seq(Nat), Len(s) = 0
    PROVE  SplitSound(ps, tk \cup {k}, s, ps[k].urg)
<1>1. \A t \in tk \cup {k} : NewestTaken(ps, tk \cup {k}, ps[k].urg, t)
                                => ps[t].owner = 0 \/ ps[t].closing
    BY NewestNow
<1>2. \A j \in 1..Len(s) : FALSE
    OBVIOUS
<1> QED BY <1>1, <1>2 DEF SplitSound

\* A part that does not close its message is collected behind those before it.
LEMMA SplitCollected ==
    ASSUME NEW ps \in Seq(Part), NEW tk, tk \subseteq 1..Len(ps), NEW k \in 1..Len(ps),
           \A t \in tk : ps[t].urg = ps[k].urg => t < k, ps[k].part, ~ps[k].closing,
           NEW s \in Seq(Nat), SplitSound(ps, tk, s, ps[k].urg),
           Before(ps, k, s)
    PROVE  SplitSound(ps, tk \cup {k}, Append(s, k), ps[k].urg)
<1>0. Len(s) = ps[k].nth - 1 /\ (Len(s) # 0 => ps[s[1]].owner = ps[k].owner)
    BY DEF Before
<1>1. Len(s) \in Nat /\ k \in Nat /\ ps[k].nth \in Nat /\ Len(ps) \in Nat
    BY SeqFact, PartFact
<1>2. PICK r : r = Append(s, k)
    OBVIOUS
<1>3. /\ Len(r) = Len(s) + 1 /\ (\A j \in 1..Len(s) : r[j] = s[j])
      /\ r[Len(s) + 1] = k
    BY <1>1, <1>2, AppendFact
<1>4. ps[r[1]].owner = ps[k].owner
    <2>1. CASE Len(s) = 0
        BY <1>0, <1>3, <2>1
    <2>2. CASE Len(s) # 0
        <3>1. 1 \in 1..Len(s)
            BY <1>1, <2>2
        <3> QED BY <1>0, <1>3, <2>2, <3>1
    <2> QED BY <2>1, <2>2
<1>5. \A j \in 1..Len(r) :
         /\ r[j] \in 1..Len(ps) /\ ps[r[j]].part /\ ~ps[r[j]].closing
         /\ ps[r[j]].owner = ps[r[1]].owner /\ ps[r[j]].nth = j
    <2> TAKE j \in 1..Len(r)
    <2>1. CASE j = Len(s) + 1
        <3>1. r[j] = k /\ ps[k].nth = j
            BY <1>0, <1>1, <1>3, <2>1
        <3> QED BY <1>4, <3>1
    <2>2. CASE j # Len(s) + 1
        <3>1. j \in 1..Len(s) /\ Len(s) # 0
            <4>1. Len(r) = Len(s) + 1
                BY <1>3
            <4>2. j \in 1..Len(s) + 1
                BY <4>1
            <4> QED BY <1>1, <2>2, <4>2
        <3>2. ps[s[1]].owner = ps[k].owner
            BY <1>0, <3>1
        <3>3. r[j] = s[j]
            BY <1>3, <3>1
        <3>4. /\ s[j] \in 1..Len(ps) /\ ps[s[j]].part /\ ~ps[s[j]].closing
              /\ ps[s[j]].owner = ps[s[1]].owner /\ ps[s[j]].nth = j
            BY <3>1 DEF SplitSound
        <3> QED BY <1>4, <3>2, <3>3, <3>4
    <2> QED BY <2>1, <2>2
<1>6. NewestTaken(ps, tk \cup {k}, ps[k].urg, r[Len(r)]) /\ Len(r) # 0
    <2>1. r[Len(r)] = k /\ Len(r) # 0
        BY <1>0, <1>1, <1>3
    <2>2. NewestTaken(ps, tk \cup {k}, ps[k].urg, k)
        BY NewestNow
    <2> QED BY <2>1, <2>2
<1> QED BY <1>2, <1>5, <1>6 DEF SplitSound

\* A part that closes a message brings it: alone or with those collected.
LEMMA ClosesFact ==
    ASSUME NEW us \in Seq(User), NEW ps \in Seq(Part), PartsSound(us, ps), NEW tk,
           NEW k \in 1..Len(ps), ps[k].owner # 0, ps[k].closing, NEW s \in Seq(Nat),
           SplitSound(ps, tk, s, ps[k].urg),
           Before(ps, k, s)
    PROVE  Append(s, k) \in Seq(Nat) /\ Closes(us, ps, tk, Append(s, k), k)
<1>0. Len(s) = ps[k].nth - 1 /\ (Len(s) # 0 => ps[s[1]].owner = ps[k].owner)
    BY DEF Before
<1>1. Len(s) \in Nat /\ k \in Nat /\ ps[k].nth \in Nat /\ Len(ps) \in Nat
    BY SeqFact, PartFact
<1>2. PICK r, o : r = Append(s, k) /\ o = ps[k].owner
    OBVIOUS
<1>3. /\ Len(r) = Len(s) + 1
      /\ (\A j \in 1..Len(s) : r[j] = s[j]) /\ r[Len(s) + 1] = k
    BY <1>1, <1>2, AppendFact
<1>7. r \in Seq(Nat)
    BY <1>1, <1>2, AppendFact
<1>4. Len(r) = us[o].size /\ o # 0 /\ Len(r) # 0 /\ r[Len(r)] = k
    <2>1. OfUser(us, ps[k])
        BY OwnedFact
    <2>2. ps[k].nth = us[o].size
        BY <1>2, <2>1 DEF OfUser
    <2>3. Len(r) = ps[k].nth /\ Len(r) # 0
        <3>1. Len(r) = Len(s) + 1
            BY <1>3
        <3> QED BY <1>0, <1>1, <3>1
    <2>4. r[Len(r)] = k
        BY <1>3
    <2> QED BY <1>2, <2>2, <2>3, <2>4
<1>5. \A j \in 1..Len(r) : r[j] \in 1..Len(ps) /\ IsPart(ps, r[j], o, j)
    <2> TAKE j \in 1..Len(r)
    <2>1. CASE j = Len(s) + 1
        BY <1>0, <1>1, <1>2, <1>3, <2>1 DEF IsPart
    <2>2. CASE j # Len(s) + 1
        <3>1. j \in 1..Len(s) /\ Len(s) # 0
            <4>1. Len(r) = Len(s) + 1
                BY <1>3
            <4>2. j \in 1..Len(s) + 1
                BY <4>1
            <4> QED BY <1>1, <2>2, <4>2
        <3>2. r[j] = s[j] /\ ps[s[1]].owner = o
            BY <1>0, <1>2, <1>3, <3>1
        <3> QED BY <3>1, <3>2 DEF SplitSound, IsPart
    <2> QED BY <2>1, <2>2
<1>6. ps[r[1]].owner = o
    <2>1. 1 \in 1..Len(r)
        BY <1>0, <1>1, <1>3
    <2> QED BY <1>5, <2>1 DEF IsPart
<1> QED BY <1>2, <1>4, <1>5, <1>6, <1>7 DEF Closes, MessageSound

-----------------------------------------------------------------------------
(***************************************************************************)
(* The steps of a sender.                                                  *)
(***************************************************************************)
\* SendMsg: one more message, when the parts of the last one are dispatched.
LEMMA SenderSends ==
    ASSUME NEW us \in Seq(User), NEW x \in User, NEW ps \in Seq(Part), NEW n \in Nat,
           NEW behind, NEW lasts, NEW dr \in Part,
           SenderSound(us, ps, behind, lasts, n, dr),
           us = <<>> \/ us[Len(us)].size =< n
    PROVE  SenderSound(Append(us, x), ps, behind, lasts, 0, dr)
<1>1. PICK vs : vs = Append(us, x)
    OBVIOUS
<1>2. /\ vs \in Seq(User) /\ Len(vs) = Len(us) + 1 /\ Len(us) \in Nat
      /\ Len(ps) \in Nat /\ \A j \in 1..Len(us) : vs[j] = us[j]
    BY <1>1, AppendFact, SeqFact
<1>3. Extends(us, vs) /\ Extends(ps, ps)
    BY <1>2 DEF Extends
<1>4. PartsSound(vs, ps)
    BY <1>2, <1>3, PartKept DEF SenderSound, DispatchedSound, PartsSound
<1>5. \A i \in 1..Len(us) : us[i].size \in Nat
    BY SeqFact, UserFact
<1>6. \A i \in 1..Len(us) : \A nth \in 1..us[i].size : i < Len(us) \/ nth =< n
    <2> TAKE i \in 1..Len(us)
    <2> TAKE nth \in 1..us[i].size
    <2>1. us # <<>>
        BY <1>2, EmptySeq
    <2>2. i = Len(us) => us[i].size =< n
        BY <2>1
    <2> QED BY <1>2, <1>5, <2>2
<1>7. Progress(vs, ps, 0)
    <2>1. \A i \in 1..Len(us) : \A nth \in 1..us[i].size :
             \E j \in 1..Len(ps) : IsPart(ps, j, i, nth)
        BY <1>6 DEF SenderSound, DispatchedSound, Progress
    <2>2. \A i \in 1..Len(vs) : \A nth \in 1..vs[i].size :
             i < Len(vs) \/ nth =< 0 => \E j \in 1..Len(ps) : IsPart(ps, j, i, nth)
        <3> SUFFICES ASSUME NEW i \in 1..Len(vs), NEW nth \in 1..vs[i].size,
                            i < Len(vs) \/ nth =< 0
                     PROVE  \E j \in 1..Len(ps) : IsPart(ps, j, i, nth)
            OBVIOUS
        <3>1. vs[i].size \in Nat
            BY <1>2, SeqFact, UserFact
        <3>2. i \in 1..Len(us)
            BY <1>2, <3>1
        <3> QED BY <1>2, <2>1, <3>2
    <2>3. \A k \in 1..Len(ps) : ps[k].owner # Len(vs)
        <3> TAKE k \in 1..Len(ps)
        <3>1. PartsSound(us, ps)
            BY DEF SenderSound, DispatchedSound
        <3>2. ps[k].owner = 0 \/ ps[k].owner \in 1..Len(us)
            BY <3>1, OwnedFact DEF OfUser
        <3> QED BY <1>2, <3>2
    <2> QED BY <2>2, <2>3 DEF Progress
<1>8. dr = NoDraft
    <2> SUFFICES ASSUME dr # NoDraft PROVE FALSE
        OBVIOUS
    <2>1. OfUser(us, dr) /\ dr.owner = Len(us) /\ dr.nth = n + 1
        BY DEF SenderSound, DispatchedSound, DraftSound
    <2>2. Len(us) \in 1..Len(us) /\ n + 1 \in 1..us[Len(us)].size
        BY <2>1 DEF OfUser
    <2> QED BY <1>2, <1>5, <1>6, <2>2
<1> QED BY <1>1, <1>4, <1>7, <1>8 DEF SenderSound, DispatchedSound, DraftSound

\* ComposePart: the next part of the last message.
LEMMA SenderComposes ==
    ASSUME NEW us \in Seq(User), NEW ps, NEW n \in Nat, NEW behind,
           NEW lasts \in [BOOLEAN -> Nat], NEW dr \in Part,
           SenderSound(us, ps, behind, lasts, n, dr),
           us # <<>>, n < us[Len(us)].size
    PROVE  LET x == [after |-> lasts[us[Len(us)].urg],
                     closing |-> n + 1 = us[Len(us)].size,
                     part |-> us[Len(us)].size > 1, urg |-> us[Len(us)].urg,
                     owner |-> Len(us), nth |-> n + 1]
           IN  x \in Part /\ SenderSound(us, ps, behind, lasts, n, x)
<1>1. Len(us) \in Nat \ {0} /\ Len(us) \in 1..Len(us)
    BY TailFact
<1>2. PICK user : user = us[Len(us)]
    OBVIOUS
<1>3. user.size \in Nat /\ user.urg \in BOOLEAN /\ lasts[user.urg] \in Nat
    BY <1>1, <1>2, SeqFact, UserFact
<1>4. PICK x : x = [after |-> lasts[user.urg], closing |-> n + 1 = user.size,
                    part |-> user.size > 1, urg |-> user.urg,
                    owner |-> Len(us), nth |-> n + 1]
    OBVIOUS
<1>5. /\ x.after = lasts[user.urg] /\ (x.closing <=> n + 1 = user.size)
      /\ (x.part <=> user.size > 1) /\ x.urg = user.urg /\ x.owner = Len(us)
      /\ x.nth = n + 1 /\ x \in Part
    <2>1. /\ x.after = lasts[user.urg] /\ x.urg = user.urg /\ x.owner = Len(us)
          /\ x.nth = n + 1
        BY <1>4
    <2>2. x.closing <=> n + 1 = user.size
        BY <1>4, Zenon
    <2>3. x.part <=> user.size > 1
        BY <1>4, Zenon
    <2>4. n + 1 \in Nat /\ (n + 1 = user.size) \in BOOLEAN /\ (user.size > 1) \in BOOLEAN
        BY <1>3
    <2>5. x \in Part
        BY <1>1, <1>3, <1>4, <2>4, Zenon DEF Part
    <2> QED BY <2>1, <2>2, <2>3, <2>5
<1>6. OfUser(us, x)
    <2>1. n + 1 \in 1..user.size
        BY <1>2, <1>3
    <2> QED BY <1>1, <1>2, <1>5, <2>1 DEF OfUser
<1>7. SenderSound(us, ps, behind, lasts, n, x)
    BY <1>5, <1>6 DEF SenderSound, DispatchedSound, DraftSound
<1> QED BY <1>2, <1>4, <1>5, <1>7

\* The newest parts of the classes when x is added.
LEMMA NewestAppend ==
    ASSUME NEW ps \in Seq(Part), NEW x \in Part, NEW lasts \in [BOOLEAN -> Nat],
           \A urg \in BOOLEAN : Newest(ps, Len(ps), urg, lasts[urg])
    PROVE  \A urg \in BOOLEAN :
              Newest(Append(ps, x), Len(Append(ps, x)), urg,
                     [lasts EXCEPT ![x.urg] = Len(ps) + 1][urg])
<1>1. PICK rs, news : rs = Append(ps, x) /\ news = [lasts EXCEPT ![x.urg] = Len(ps) + 1]
    OBVIOUS
<1>2. /\ Len(rs) = Len(ps) + 1 /\ Len(ps) \in Nat /\ rs[Len(ps) + 1] = x
      /\ \A j \in 1..Len(ps) : rs[j] = ps[j]
    BY <1>1, AppendFact, SeqFact
<1>3. x.urg \in BOOLEAN
    BY PartFact
<1>4. /\ news[x.urg] = Len(ps) + 1
      /\ \A urg \in BOOLEAN : urg # x.urg => news[urg] = lasts[urg]
    BY <1>1, <1>3
<1> SUFFICES ASSUME NEW urg \in BOOLEAN
             PROVE  Newest(rs, Len(rs), urg, news[urg])
    BY <1>1
<1>5. CASE urg = x.urg
    <2>1. news[urg] = Len(ps) + 1 /\ \A l \in Len(ps) + 1 + 1..Len(rs) : FALSE
        BY <1>2, <1>4, <1>5
    <2> QED BY <1>2, <1>5, <2>1 DEF Newest
<1>6. CASE urg # x.urg
    <2>1. PICK e : e = lasts[urg]
        OBVIOUS
    <2>2. e \in 0..Len(ps) /\ (e # 0 => ps[e].urg = urg)
          /\ \A l \in e+1..Len(ps) : ps[l].urg # urg
        BY <2>1 DEF Newest
    <2>3. \A l \in e+1..Len(rs) : rs[l].urg # urg
        <3> TAKE l \in e+1..Len(rs)
        <3>1. CASE l = Len(ps) + 1
            BY <1>2, <1>6, <3>1
        <3>2. CASE l # Len(ps) + 1
            <4>1. l \in e+1..Len(ps) /\ l \in 1..Len(ps)
                BY <1>2, <2>2, <3>2
            <4> QED BY <1>2, <2>2, <4>1
        <3> QED BY <3>1, <3>2
    <2>4. e \in 0..Len(rs) /\ (e # 0 => rs[e].urg = urg)
        <3>1. e # 0 => e \in 1..Len(ps)
            BY <1>2, <2>2
        <3> QED BY <1>2, <2>2, <3>1
    <2> QED BY <1>4, <1>6, <2>1, <2>3, <2>4 DEF Newest
<1> QED BY <1>5, <1>6

\* One more part x, which is sound: what Dispatch keeps.
LEMMA SenderAppends ==
    ASSUME NEW us \in Seq(User), NEW ps \in Seq(Part), NEW x \in Part,
           NEW behind \in Seq(Nat), NEW lasts \in [BOOLEAN -> Nat], NEW n, NEW dr,
           SenderSound(us, ps, behind, lasts, n, dr),
           (x = NoDraft /\ Len(ps) = 0) \/ OfUser(us, x),
           \A j \in 1..Len(ps) : Earlier(ps[j], x),
           \A i \in 1..x.owner : \A nth \in 1..us[i].size :
               i < x.owner \/ nth < x.nth => \E j \in 1..Len(ps) : IsPart(ps, j, i, nth),
           x.after = lasts[x.urg]
    PROVE  /\ DispatchedSound(us, Append(ps, x), Append(behind, x.after),
                              [lasts EXCEPT ![x.urg] = Len(ps) + 1])
           /\ Extends(ps, Append(ps, x))
<1>1. PICK rs, bs : rs = Append(ps, x) /\ bs = Append(behind, x.after)
    OBVIOUS
<1>2. /\ rs \in Seq(Part) /\ Len(rs) = Len(ps) + 1 /\ Len(ps) \in Nat
      /\ rs[Len(ps) + 1] = x /\ \A j \in 1..Len(ps) : rs[j] = ps[j]
    BY <1>1, AppendFact, SeqFact
<1>3. x.after \in Nat /\ x.urg \in BOOLEAN
    BY PartFact
<1>4. /\ Len(bs) = Len(behind) + 1 /\ Len(behind) = Len(ps)
      /\ bs[Len(ps) + 1] = x.after /\ \A j \in 1..Len(ps) : bs[j] = behind[j]
    BY <1>1, <1>3, AppendFact DEF SenderSound, DispatchedSound
<1>5. Extends(ps, rs) /\ Extends(us, us)
    BY <1>2, SeqFact DEF Extends
<1>6. \A k \in 1..Len(rs) : k \in 1..Len(ps) \/ k = Len(ps) + 1
    BY <1>2
<1>7. \A k \in 1..Len(rs) : bs[k] = rs[k].after
    BY <1>2, <1>4, <1>6 DEF SenderSound, DispatchedSound
<1>8. \A k \in 1..Len(ps) : PartSound(us, rs, k)
    BY <1>2, <1>5, PartKept DEF SenderSound, DispatchedSound, PartsSound
<1>9. PICK k : k = Len(ps) + 1
    OBVIOUS
<1>10. k - 1 = Len(ps) /\ rs[k] = x /\ \A j \in 1..k-1 : rs[j] = ps[j]
    BY <1>2, <1>9
<1>11. PartSound(us, rs, k)
    <2>1. (rs[k] = NoDraft /\ k = 1) \/ OfUser(us, rs[k])
        BY <1>9, <1>10
    <2>2. \A j \in 1..k-1 : Earlier(rs[j], rs[k])
        BY <1>10
    <2>3. \A i \in 1..rs[k].owner : \A nth \in 1..us[i].size :
             i < rs[k].owner \/ nth < rs[k].nth
                 => \E j \in 1..k-1 : IsPart(rs, j, i, nth)
        <3> SUFFICES ASSUME NEW i \in 1..x.owner, NEW nth \in 1..us[i].size,
                            i < x.owner \/ nth < x.nth
                     PROVE  \E j \in 1..k-1 : IsPart(rs, j, i, nth)
            BY <1>10
        <3>1. PICK j \in 1..Len(ps) : IsPart(ps, j, i, nth)
            OBVIOUS
        <3> QED BY <1>10, <3>1 DEF IsPart
    <2>4. Newest(rs, k - 1, rs[k].urg, rs[k].after)
        <3>1. PICK e, u : e = lasts[x.urg] /\ u = x.urg
            OBVIOUS
        <3>2. Newest(ps, Len(ps), u, e)
            BY <1>3, <3>1 DEF SenderSound, DispatchedSound
        <3>3. e \in 0..Len(ps) /\ (e # 0 => e \in 1..Len(ps))
              /\ \A l \in e+1..Len(ps) : l \in 1..Len(ps)
            BY <1>2, <3>2 DEF Newest
        <3>4. Newest(rs, Len(ps), u, e)
            BY <1>2, <3>2, <3>3 DEF Newest
        <3> QED BY <1>10, <3>1, <3>4
    <2> QED BY <2>1, <2>2, <2>3, <2>4 DEF PartSound
<1>12. PartsSound(us, rs)
    BY <1>6, <1>8, <1>9, <1>11 DEF PartsSound
<1>13. \A urg \in BOOLEAN : Newest(rs, Len(rs), urg,
                                   [lasts EXCEPT ![x.urg] = Len(ps) + 1][urg])
    BY <1>1, NewestAppend DEF SenderSound, DispatchedSound
<1> QED BY <1>1, <1>2, <1>4, <1>5, <1>7, <1>12, <1>13 DEF DispatchedSound

\* DispatchPart: the part that was composed.
LEMMA SenderDispatches ==
    ASSUME NEW us \in Seq(User), NEW ps \in Seq(Part), NEW dr \in Part, dr # NoDraft,
           NEW behind \in Seq(Nat), NEW lasts \in [BOOLEAN -> Nat], NEW n \in Nat,
           SenderSound(us, ps, behind, lasts, n, dr)
    PROVE  /\ SenderSound(us, Append(ps, dr), Append(behind, dr.after),
                          [lasts EXCEPT ![dr.urg] = Len(ps) + 1], n + 1, NoDraft)
           /\ Extends(ps, Append(ps, dr)) /\ dr.owner # 0
<1>1. /\ OfUser(us, dr) /\ dr.owner = Len(us) /\ dr.nth = n + 1
      /\ dr.after = lasts[dr.urg] /\ PartsSound(us, ps) /\ Progress(us, ps, n)
    BY DEF SenderSound, DispatchedSound, DraftSound
<1>2. Len(us) \in Nat /\ Len(us) # 0 /\ Len(ps) \in Nat
    BY <1>1, SeqFact DEF OfUser
<1>3. \A j \in 1..Len(ps) : Earlier(ps[j], dr)
    <2> TAKE j \in 1..Len(ps)
    <2>1. ps[j].owner = 0 \/ ps[j].owner \in 1..Len(us)
        BY <1>1, OwnedFact DEF OfUser
    <2>2. ps[j].owner = Len(us) => ps[j].nth =< n
        BY <1>1 DEF Progress
    <2>3. ps[j].nth \in Nat
        BY SeqFact, PartFact
    <2> QED BY <1>1, <1>2, <2>1, <2>2, <2>3 DEF Earlier
<1>4. \A i \in 1..dr.owner : \A nth \in 1..us[i].size :
         i < dr.owner \/ nth < dr.nth => \E j \in 1..Len(ps) : IsPart(ps, j, i, nth)
    <2> SUFFICES ASSUME NEW i \in 1..Len(us), NEW nth \in 1..us[i].size,
                        i < Len(us) \/ nth < n + 1
                 PROVE  \E j \in 1..Len(ps) : IsPart(ps, j, i, nth)
        BY <1>1
    <2>1. us[i].size \in Nat
        BY SeqFact, UserFact
    <2>2. i < Len(us) \/ nth =< n
        BY <2>1
    <2> QED BY <1>1, <2>2 DEF Progress
<1>5. PICK rs : rs = Append(ps, dr)
    OBVIOUS
<1>6. /\ Len(rs) = Len(ps) + 1 /\ rs[Len(ps) + 1] = dr
      /\ \A j \in 1..Len(ps) : rs[j] = ps[j]
    BY <1>5, AppendFact
<1>7. Progress(us, rs, n + 1)
    <2>1. \A i \in 1..Len(us) : \A nth \in 1..us[i].size :
             i < Len(us) \/ nth =< n + 1 => \E j \in 1..Len(rs) : IsPart(rs, j, i, nth)
        <3> SUFFICES ASSUME NEW i \in 1..Len(us), NEW nth \in 1..us[i].size,
                            i < Len(us) \/ nth =< n + 1
                     PROVE  \E j \in 1..Len(rs) : IsPart(rs, j, i, nth)
            OBVIOUS
        <3>1. us[i].size \in Nat
            BY SeqFact, UserFact
        <3>2. CASE i < Len(us) \/ nth =< n
            <4>1. PICK j \in 1..Len(ps) : IsPart(ps, j, i, nth)
                BY <1>1, <3>2 DEF Progress
            <4>2. j \in 1..Len(rs) /\ rs[j] = ps[j]
                BY <1>2, <1>6
            <4> QED BY <4>1, <4>2 DEF IsPart
        <3>3. CASE i = Len(us) /\ nth = n + 1
            <4>1. Len(ps) + 1 \in 1..Len(rs)
                BY <1>2, <1>6
            <4> QED BY <1>1, <1>6, <3>3, <4>1 DEF IsPart
        <3> QED BY <1>2, <3>1, <3>2, <3>3
    <2>2. \A k \in 1..Len(rs) : rs[k].owner = Len(us) => rs[k].nth =< n + 1
        <3> TAKE k \in 1..Len(rs)
        <3>1. CASE k = Len(ps) + 1
            BY <1>1, <1>6, <3>1
        <3>2. CASE k # Len(ps) + 1
            <4>1. k \in 1..Len(ps)
                BY <1>2, <1>6, <3>2
            <4>2. ps[k].nth \in Nat /\ rs[k] = ps[k]
                BY <1>6, <4>1, SeqFact, PartFact
            <4>3. ps[k].owner = Len(us) => ps[k].nth =< n
                BY <1>1, <4>1 DEF Progress
            <4> QED BY <4>2, <4>3
        <3> QED BY <3>1, <3>2
    <2> QED BY <2>1, <2>2 DEF Progress
<1>8. DraftSound(us, NoDraft, n + 1, [lasts EXCEPT ![dr.urg] = Len(ps) + 1])
    BY DEF DraftSound
<1>9. /\ DispatchedSound(us, rs, Append(behind, dr.after),
                          [lasts EXCEPT ![dr.urg] = Len(ps) + 1])
      /\ Extends(ps, rs)
    BY <1>1, <1>3, <1>4, <1>5, SenderAppends
<1> QED BY <1>1, <1>2, <1>5, <1>7, <1>8, <1>9 DEF SenderSound, DispatchedSound

\* AckPlayer, before the first part of a message.
LEMMA SenderAcks ==
    ASSUME NEW us \in Seq(User), NEW ps \in Seq(Part), Len(ps) = 0,
           NEW behind \in Seq(Nat), NEW lasts \in [BOOLEAN -> Nat], NEW n \in Nat,
           SenderSound(us, ps, behind, lasts, n, NoDraft)
    PROVE  /\ SenderSound(us, Append(ps, NoDraft), Append(behind, NoDraft.after),
                          [lasts EXCEPT ![NoDraft.urg] = Len(ps) + 1], n, NoDraft)
           /\ Extends(ps, Append(ps, NoDraft))
<1>1. PICK x : x = NoDraft
    OBVIOUS
<1>2. /\ x \in Part /\ x.after = 0 /\ x.owner = 0 /\ x.nth = 0 /\ x.urg = FALSE
      /\ x = NoDraft
    BY <1>1, NoDraftFact
<1>3. x.after = lasts[x.urg]
    <2>1. Newest(ps, Len(ps), FALSE, lasts[FALSE])
        BY DEF SenderSound, DispatchedSound
    <2>2. PICK e : e = lasts[FALSE]
        OBVIOUS
    <2>4. e \in 0..Len(ps)
        BY <2>1, <2>2 DEF Newest
    <2>5. e = 0
        BY <2>4
    <2>3. lasts[FALSE] = 0
        BY <2>2, <2>5
    <2> QED BY <1>2, <2>3, Zenon
<1>4. PICK rs : rs = Append(ps, x)
    OBVIOUS
<1>5. Len(rs) = 1 /\ rs[1] = x
    BY <1>2, <1>4, AppendFact
<1>6. Progress(us, rs, n)
    <2>1. Progress(us, ps, n)
        BY DEF SenderSound, DispatchedSound
    <2>2. \A i \in 1..Len(us) : \A nth \in 1..us[i].size :
             ~(i < Len(us) \/ nth =< n)
        BY <2>1 DEF Progress
    <2>3. \A k \in 1..Len(rs) : rs[k].nth =< n
        BY <1>2, <1>5
    <2> QED BY <2>2, <2>3 DEF Progress
<1>7. DraftSound(us, NoDraft, n, [lasts EXCEPT ![x.urg] = Len(ps) + 1])
    BY DEF DraftSound
<1>8. \A j \in 1..Len(ps) : Earlier(ps[j], x)
    OBVIOUS
<1>9. \A i \in 1..x.owner : \A nth \in 1..us[i].size :
         i < x.owner \/ nth < x.nth => \E j \in 1..Len(ps) : IsPart(ps, j, i, nth)
    BY <1>2
<1>10. (x = NoDraft /\ Len(ps) = 0) \/ OfUser(us, x)
    BY <1>2
<1>11. /\ DispatchedSound(us, rs, Append(behind, x.after),
                          [lasts EXCEPT ![x.urg] = Len(ps) + 1])
      /\ Extends(ps, rs)
    BY <1>2, <1>3, <1>4, <1>8, <1>9, <1>10, SenderAppends
<1> QED BY <1>1, <1>4, <1>6, <1>7, <1>11 DEF SenderSound, DispatchedSound

-----------------------------------------------------------------------------
(***************************************************************************)
(* The queues and the wire.                                                *)
(***************************************************************************)
\* Dispatch queues the new part in its line.
LEMMA LineDispatched ==
    ASSUME NEW ps \in Seq(Part), NEW x \in Part, NEW w \in Seq(Nat),
           NEW queues \in [BOOLEAN -> Seq(Nat)], LineSound(ps, queues, w),
           NEW u \in BOOLEAN, Line(x) = u
    PROVE  LineSound(Append(ps, x), [queues EXCEPT ![u] = Append(@, Len(ps) + 1)], w)
<1>1. PICK rs, k, q : rs = Append(ps, x) /\ k = Len(ps) + 1 /\ q = queues[u]
    OBVIOUS
<1>2. /\ Len(rs) = Len(ps) + 1 /\ Len(ps) \in Nat /\ rs[k] = x
      /\ \A j \in 1..Len(ps) : rs[j] = ps[j]
    BY <1>1, AppendFact, SeqFact
<1>3. k \in Nat /\ k \in 1..Len(rs) /\ \A j \in 1..Len(ps) : j \in 1..Len(rs) /\ j < k
    BY <1>1, <1>2
<1>4. q \in Seq(Nat) /\ Len(q) \in Nat
    BY <1>1, SeqFact
<1>5. PICK r : r = Append(q, k)
    OBVIOUS
<1>6. /\ Len(r) = Len(q) + 1 /\ r[Len(q) + 1] = k
      /\ \A b \in 1..Len(q) : r[b] = q[b]
    BY <1>3, <1>4, <1>5, AppendFact
<1>7. \A b \in 1..Len(w) : w[b] \in 1..Len(ps) /\ rs[w[b]] = ps[w[b]]
    BY <1>2 DEF LineSound, WireSound
<1>8. WireSound(rs, w)
    <2>1. \A b \in 1..Len(w) : \A a \in 1..b-1 : a \in 1..Len(w)
        BY SeqFact
    <2> QED BY <1>3, <1>7, <2>1 DEF LineSound, WireSound
<1>9. \A v \in BOOLEAN : QueueSound(rs, queues[v], w, v)
    <2> SUFFICES ASSUME NEW v \in BOOLEAN PROVE QueueSound(rs, queues[v], w, v)
        OBVIOUS
    <2>1. QueueSound(ps, queues[v], w, v)
        BY DEF LineSound
    <2>2. \A b \in 1..Len(queues[v]) :
             /\ queues[v][b] \in 1..Len(rs) /\ rs[queues[v][b]] = ps[queues[v][b]]
        BY <1>2, <1>3, <2>1 DEF QueueSound
    <2> QED BY <1>7, <2>1, <2>2 DEF QueueSound
<1>10. QueueSound(rs, r, w, u)
    <2>1. QueueSound(rs, q, w, u)
        BY <1>1, <1>9
    <2>2. \A b \in 1..Len(q) : q[b] \in 1..Len(ps)
        BY <1>1 DEF LineSound, QueueSound
    <2> SUFFICES ASSUME NEW b \in 1..Len(r)
                 PROVE  /\ r[b] \in 1..Len(rs) /\ Line(rs[r[b]]) = u
                        /\ \A a \in 1..b-1 : r[a] < r[b]
                        /\ \A a \in 1..Len(w) : Line(rs[w[a]]) = u => w[a] < r[b]
        BY DEF QueueSound
    <2>3. CASE b = Len(q) + 1
        <3>1. r[b] = k /\ \A a \in 1..b-1 : r[a] \in 1..Len(ps)
            <4>1. r[b] = k
                BY <1>6, <2>3
            <4>2. \A a \in 1..b-1 : a \in 1..Len(q)
                BY <1>4, <2>3
            <4> QED BY <1>6, <2>2, <4>1, <4>2
        <3> QED BY <1>2, <1>3, <1>7, <3>1
    <2>4. CASE b # Len(q) + 1
        <3>1. b \in 1..Len(q) /\ \A a \in 1..b-1 : a \in 1..Len(q)
            BY <1>4, <1>6, <2>4
        <3>2. r[b] = q[b] /\ \A a \in 1..b-1 : r[a] = q[a]
            BY <1>6, <3>1
        <3> QED BY <2>1, <3>1, <3>2 DEF QueueSound
    <2> QED BY <2>3, <2>4
<1>11. PICK news : news = [queues EXCEPT ![u] = Append(@, Len(ps) + 1)]
    OBVIOUS
<1>12. news[u] = r /\ \A v \in BOOLEAN : v # u => news[v] = queues[v]
    BY <1>1, <1>5, <1>11
<1>13. \A v \in BOOLEAN : QueueSound(rs, news[v], w, v)
    <2> TAKE v \in BOOLEAN
    <2>1. CASE v = u
        BY <1>10, <1>12, <2>1
    <2>2. CASE v # u
        BY <1>9, <1>12, <2>2
    <2> QED BY <2>1, <2>2
<1> QED BY <1>1, <1>8, <1>11, <1>13 DEF LineSound

\* Transmit moves the head of a line to the wire.
LEMMA LineTransmitted ==
    ASSUME NEW ps \in Seq(Part), NEW w \in Seq(Nat),
           NEW queues \in [BOOLEAN -> Seq(Nat)], LineSound(ps, queues, w),
           NEW u \in BOOLEAN, queues[u] # <<>>
    PROVE  LineSound(ps, [queues EXCEPT ![u] = Tail(@)], Append(w, Head(queues[u])))
<1>1. PICK q, k, r : q = queues[u] /\ k = Head(q) /\ r = Tail(q)
    OBVIOUS
<1>2. q \in Seq(Nat) /\ q # <<>>
    BY <1>1
<1>3. /\ Len(r) = Len(q) - 1 /\ Len(q) \in Nat \ {0} /\ k = q[1] /\ k \in Nat
      /\ \A j \in 1..Len(q) - 1 : r[j] = q[j + 1]
    BY <1>1, <1>2, TailFact
<1>4. PICK v : v = Append(w, k)
    OBVIOUS
<1>5. /\ Len(v) = Len(w) + 1 /\ Len(w) \in Nat /\ v[Len(w) + 1] = k
      /\ \A j \in 1..Len(w) : v[j] = w[j]
    BY <1>3, <1>4, AppendFact, SeqFact
<1>6. QueueSound(ps, q, w, u) /\ WireSound(ps, w)
    BY <1>1 DEF LineSound
<1>7. 1 \in 1..Len(q)
    BY <1>3
<1>8. /\ k \in 1..Len(ps) /\ Line(ps[k]) = u
      /\ \A a \in 1..Len(w) : Line(ps[w[a]]) = u => w[a] < k
    BY <1>3, <1>6, <1>7 DEF QueueSound
<1>9. \A b \in 1..Len(v) : (b \in 1..Len(w) /\ v[b] = w[b]) \/ (b = Len(w) + 1 /\ v[b] = k)
    BY <1>5
<1>10. WireSound(ps, v)
    <2> SUFFICES ASSUME NEW b \in 1..Len(v)
                 PROVE  /\ v[b] \in 1..Len(ps)
                        /\ \A a \in 1..b-1 : Line(ps[v[a]]) = Line(ps[v[b]]) => v[a] < v[b]
        BY DEF WireSound
    <2>1. CASE b \in 1..Len(w)
        <3>1. v[b] = w[b] /\ \A a \in 1..b-1 : v[a] = w[a]
            BY <1>5, <2>1
        <3> QED BY <1>6, <2>1, <3>1 DEF WireSound
    <2>2. CASE b = Len(w) + 1
        <3>1. v[b] = k /\ \A a \in 1..b-1 : a \in 1..Len(w) /\ v[a] = w[a]
            BY <1>5, <2>2
        <3> QED BY <1>8, <3>1
    <2> QED BY <1>9, <2>1, <2>2
<1>11. QueueSound(ps, r, v, u)
    <2> SUFFICES ASSUME NEW b \in 1..Len(r)
                 PROVE  /\ r[b] \in 1..Len(ps) /\ Line(ps[r[b]]) = u
                        /\ \A a \in 1..b-1 : r[a] < r[b]
                        /\ \A a \in 1..Len(v) : Line(ps[v[a]]) = u => v[a] < r[b]
        BY DEF QueueSound
    <2>1. PICK c : c = b + 1
        OBVIOUS
    <2>2. c \in 1..Len(q) /\ r[b] = q[c] /\ 1 \in 1..c-1
        BY <1>3, <2>1
    <2>3. /\ q[c] \in 1..Len(ps) /\ Line(ps[q[c]]) = u
          /\ \A a \in 1..c-1 : q[a] < q[c]
          /\ \A a \in 1..Len(w) : Line(ps[w[a]]) = u => w[a] < q[c]
        BY <1>6, <2>2 DEF QueueSound
    <2>4. \A a \in 1..b-1 : r[a] < r[b]
        <3> TAKE a \in 1..b-1
        <3>1. a + 1 \in 1..c-1 /\ a \in 1..Len(q) - 1
            BY <1>3, <2>1, <2>2
        <3> QED BY <1>3, <2>2, <2>3, <3>1
    <2>5. k < q[c]
        BY <1>3, <2>2, <2>3
    <2>6. \A a \in 1..Len(v) : Line(ps[v[a]]) = u => v[a] < r[b]
        BY <1>9, <2>2, <2>3, <2>5
    <2> QED BY <2>2, <2>3, <2>4, <2>6
<1>12. PICK news : news = [queues EXCEPT ![u] = Tail(@)]
    OBVIOUS
<1>13. news[u] = r /\ \A y \in BOOLEAN : y # u => news[y] = queues[y]
    BY <1>1, <1>12
<1>14. \A y \in BOOLEAN : QueueSound(ps, news[y], v, y)
    <2> TAKE y \in BOOLEAN
    <2>1. CASE y = u
        BY <1>11, <1>13, <2>1
    <2>2. CASE y # u
        <3>1. QueueSound(ps, queues[y], w, y)
            BY DEF LineSound
        <3>2. \A a \in 1..Len(v) : Line(ps[v[a]]) = y => a \in 1..Len(w) /\ v[a] = w[a]
            BY <1>8, <1>9, <2>2
        <3>3. QueueSound(ps, queues[y], v, y)
            BY <3>1, <3>2 DEF QueueSound
        <3> QED BY <1>13, <2>2, <3>3
    <2> QED BY <2>1, <2>2
<1> QED BY <1>1, <1>4, <1>10, <1>12, <1>14 DEF LineSound

\* Serials stay as the wire grows.
LEMMA SerialKept ==
    ASSUME NEW ps \in Seq(Part), NEW w \in Seq(Nat), NEW v \in Seq(Nat), Extends(w, v),
           WireSound(ps, v), NEW k, \E a \in 1..Len(w) : w[a] = k
    PROVE  SerialIn(v, k) = SerialIn(w, k)
<1>1. Len(w) \in Nat /\ Len(v) \in Nat /\ Len(w) =< Len(v)
    BY SeqFact DEF Extends
<1>2. PICK a, b : a = SerialIn(w, k) /\ b = SerialIn(v, k)
    OBVIOUS
<1>3. a \in 1..Len(w) /\ w[a] = k
    BY <1>2, SerialFact
<1>4. a \in 1..Len(v) /\ v[a] = k
    <2>1. v[a] = w[a]
        BY <1>3 DEF Extends
    <2> QED BY <1>1, <1>3, <2>1
<1>5. b \in 1..Len(v) /\ v[b] = k
    BY <1>2, <1>4, SerialFact
<1>6. k \in Nat
    BY <1>3, SeqFact
<1>7. ~(a \in 1..b-1) /\ ~(b \in 1..a-1)
    <2>1. \A x \in 1..Len(v) : \A y \in 1..x-1 :
             Line(ps[v[y]]) = Line(ps[v[x]]) => v[y] < v[x]
        BY DEF WireSound
    <2>2. Line(ps[v[a]]) = Line(ps[v[b]]) /\ Line(ps[v[b]]) = Line(ps[v[a]])
          /\ ~(v[a] < v[b]) /\ ~(v[b] < v[a])
        BY <1>4, <1>5, <1>6
    <2> QED BY <1>4, <1>5, <2>1, <2>2
<1> QED BY <1>1, <1>2, <1>4, <1>5, <1>7

\* The receiver is not disturbed by what comes on the wire.
LEMMA ReceiverTransmitted ==
    ASSUME NEW us, NEW ps \in Seq(Part), NEW w \in Seq(Nat), NEW v \in Seq(Nat),
           Extends(w, v), WireSound(ps, v), NEW tk, NEW splits,
           NEW reps \in Seq(Seq(Nat)), NEW list \in Seq(Seq(Nat)),
           ReceiverSound(us, ps, w, tk, splits, reps, list)
    PROVE  ReceiverSound(us, ps, v, tk, splits, reps, list)
<1>1. Came(w, tk) /\ MessagesSound(us, ps, tk, reps \o list) /\ Sorted(w, list)
    BY DEF ReceiverSound
<1>2. Came(v, tk)
    <2>1. Len(w) \in Nat /\ Len(v) \in Nat /\ Len(w) =< Len(v)
        BY SeqFact DEF Extends
    <2>2. \A a \in 1..Len(w) : a \in 1..Len(v) /\ v[a] = w[a]
        BY <2>1 DEF Extends
    <2> QED BY <1>1, <2>2 DEF Came
<1>3. \A b \in 1..Len(list) : LastSerial(v, list[b]) = LastSerial(w, list[b])
    <2> TAKE b \in 1..Len(list)
    <2>1. PICK all, d : all = reps \o list /\ d = Len(reps) + b
        OBVIOUS
    <2>2. all[d] = list[b] /\ d \in 1..Len(all)
        <3>1. Len(all) = Len(reps) + Len(list) /\ all[Len(reps) + b] = list[b]
            BY <2>1, ConcatFact
        <3>2. Len(reps) \in Nat /\ Len(list) \in Nat
            BY SeqFact
        <3> QED BY <2>1, <3>1, <3>2
    <2>3. PICK c : c = list[b][Len(list[b])]
        OBVIOUS
    <2>4. c \in tk
        BY <1>1, <2>1, <2>2, <2>3 DEF MessagesSound, MessageSound
    <2>5. \E a \in 1..Len(w) : w[a] = c
        BY <1>1, <2>4 DEF Came
    <2> QED BY <2>3, <2>5, SerialKept DEF LastSerial
<1>4. Sorted(v, list)
    <2>1. \A b \in 1..Len(list) : \A a \in 1..b-1 : a \in 1..Len(list)
        BY SeqFact
    <2> QED BY <1>1, <1>3, <2>1 DEF Sorted
<1> QED BY <1>1, <1>2, <1>4 DEF ReceiverSound

-----------------------------------------------------------------------------
(***************************************************************************)
(* The steps of a receiver.                                                *)
(***************************************************************************)
\* ProcessUserMessages: the first message of the list is given to the user.
LEMMA ReceiverProcesses ==
    ASSUME NEW us, NEW ps, NEW w, NEW tk, NEW splits,
           NEW reps \in Seq(Seq(Nat)), NEW list \in Seq(Seq(Nat)), list # <<>>,
           ReceiverSound(us, ps, w, tk, splits, reps, list)
    PROVE  ReceiverSound(us, ps, w, tk, splits, Append(reps, Head(list)), Tail(list))
<1>1. PICK m, rest, more : m = Head(list) /\ rest = Tail(list) /\ more = Append(reps, m)
    OBVIOUS
<1>2. /\ Len(rest) = Len(list) - 1 /\ Len(list) \in Nat \ {0} /\ m = list[1]
      /\ \A j \in 1..Len(list) - 1 : rest[j] = list[j + 1]
    BY <1>1, TailFact
<1>3. rest \in Seq(Seq(Nat)) /\ m \in Seq(Nat)
    BY <1>1, TailFact
<1>4. /\ Len(more) = Len(reps) + 1 /\ more[Len(reps) + 1] = m /\ Len(reps) \in Nat
      /\ \A j \in 1..Len(reps) : more[j] = reps[j]
    BY <1>1, <1>3, AppendFact, SeqFact
<1>5. more \in Seq(Seq(Nat))
    BY <1>1, <1>3, AppendFact
<1>6. PICK all, new : all = reps \o list /\ new = more \o rest
    OBVIOUS
<1>7. /\ Len(all) = Len(reps) + Len(list) /\ \A j \in 1..Len(reps) : all[j] = reps[j]
      /\ \A j \in 1..Len(list) : all[Len(reps) + j] = list[j]
    BY <1>6, ConcatFact
<1>8. /\ Len(new) = Len(more) + Len(rest) /\ \A j \in 1..Len(more) : new[j] = more[j]
      /\ \A j \in 1..Len(rest) : new[Len(more) + j] = rest[j]
    BY <1>3, <1>5, <1>6, ConcatFact
<1>9. Len(new) = Len(all)
    BY <1>2, <1>4, <1>7, <1>8
<1>10. \A j \in 1..Len(all) : new[j] = all[j]
    <2> TAKE j \in 1..Len(all)
    <2>1. PICK L, len : L = Len(reps) /\ len = Len(list)
        OBVIOUS
    <2>2. L \in Nat /\ len \in Nat \ {0} /\ j \in 1..L + len
        BY <1>2, <1>4, <1>7, <2>1
    <2>3. CASE j =< L
        <3>1. j \in 1..L /\ j \in 1..L + 1
            BY <2>2, <2>3
        <3> QED BY <1>4, <1>7, <1>8, <2>1, <3>1
    <2>4. CASE j = L + 1
        <3>1. 1 \in 1..len /\ j \in 1..L + 1
            BY <2>2, <2>4
        <3> QED BY <1>2, <1>4, <1>7, <1>8, <2>1, <2>4, <3>1
    <2>5. CASE j > L + 1
        <3>1. PICK i : i = j - (L + 1)
            OBVIOUS
        <3>2. i \in 1..len - 1 /\ i + 1 \in 1..len /\ L + (i + 1) = j /\ L + 1 + i = j
            BY <2>2, <2>5, <3>1
        <3>3. new[j] = rest[i] /\ rest[i] = list[i + 1]
            BY <1>2, <1>4, <1>8, <2>1, <3>2
        <3>4. all[j] = list[i + 1]
            BY <1>7, <2>1, <3>2
        <3> QED BY <3>3, <3>4
    <2> QED BY <2>2, <2>3, <2>4, <2>5
<1>11. new = all
    <2>1. new \in Seq(Seq(Nat)) /\ all \in Seq(Seq(Nat))
        BY <1>3, <1>5, <1>6, ConcatFact
    <2> QED BY <1>9, <1>10, <2>1, SeqEqual
<1>12. Sorted(w, rest)
    <2> SUFFICES ASSUME NEW b \in 1..Len(rest), NEW a \in 1..b-1
                 PROVE  LastSerial(w, rest[a]) < LastSerial(w, rest[b])
        BY DEF Sorted
    <2>1. PICK c, d : c = a + 1 /\ d = b + 1
        OBVIOUS
    <2>2. /\ d \in 1..Len(list) /\ c \in 1..d-1 /\ rest[a] = list[c] /\ rest[b] = list[d]
        <3>1. d \in 1..Len(list) /\ c \in 1..d-1 /\ b \in 1..Len(list) - 1
              /\ a \in 1..Len(list) - 1
            BY <1>2, <2>1
        <3> QED BY <1>2, <2>1, <3>1
    <2>3. Sorted(w, list)
        BY DEF ReceiverSound
    <2> QED BY <2>2, <2>3 DEF Sorted
<1> QED BY <1>1, <1>6, <1>11, <1>12 DEF ReceiverSound

\* The k-th part is taken: it came, its turn has come, and it was not taken.
Arrives(ps, w, tk, k) ==
    /\ k \in 1..Len(ps) /\ \E a \in 1..Len(w) : w[a] = k
    /\ k \notin tk /\ ps[k].after \in tk \cup {0}

\* What holds of it then.
Arrival(ps, w, tk, k) ==
    /\ tk \subseteq 1..Len(ps) /\ k \in 1..Len(ps) /\ k \notin tk
    /\ ps[k].after \in tk \cup {0} /\ ps[k].urg \in BOOLEAN
    /\ \E a \in 1..Len(w) : w[a] = k
    /\ \A j \in 1..k-1 : ps[j].urg = ps[k].urg => j \in tk
    /\ \A t \in tk : ps[t].urg = ps[k].urg => t < k
    /\ Initial(ps, tk) /\ Initial(ps, tk \cup {k}) /\ Came(w, tk \cup {k})

\* What a receiver knows when the k-th part arrives.
LEMMA ArrivalFact ==
    ASSUME NEW us \in Seq(User), NEW ps \in Seq(Part), PartsSound(us, ps),
           NEW w \in Seq(Nat), WireSound(ps, w), NEW tk, NEW splits, NEW reps, NEW list,
           ReceiverSound(us, ps, w, tk, splits, reps, list), NEW k, Arrives(ps, w, tk, k)
    PROVE  Arrival(ps, w, tk, k)
<1>1. k \in 1..Len(ps) /\ k \notin tk /\ ps[k].after \in tk \cup {0}
      /\ \E a \in 1..Len(w) : w[a] = k
    BY DEF Arrives
<1>2. Initial(ps, tk) /\ Came(w, tk)
    BY DEF ReceiverSound
<1>3. tk \subseteq 1..Len(ps)
    BY <1>2 DEF Came, WireSound
<1>4. /\ \A j \in 1..k-1 : ps[j].urg = ps[k].urg => j \in tk
      /\ \A t \in tk : ps[t].urg = ps[k].urg => t < k
      /\ Initial(ps, tk \cup {k})
    BY <1>1, <1>2, <1>3, ChainFact
<1>5. Came(w, tk \cup {k})
    BY <1>1, <1>2 DEF Came
<1>6. ps[k].urg \in BOOLEAN
    BY <1>1, SeqFact, PartFact
<1> QED BY <1>1, <1>2, <1>3, <1>4, <1>5, <1>6 DEF Arrival

\* Where there is no new message, what was complete still is.
LEMMA MessagesStay ==
    ASSUME NEW us, NEW ps, NEW tk, NEW all, MessagesSound(us, ps, tk, all), NEW k,
           ps[k].owner = 0 \/ ~ps[k].closing
    PROVE  MessagesSound(us, ps, tk \cup {k}, all)
<1>1. \A b \in 1..Len(all) : MessageSound(us, ps, tk \cup {k}, all[b])
    BY DEF MessagesSound, MessageSound
<1>2. Finished(ps, tk \cup {k}, all)
    BY DEF MessagesSound, Finished
<1> QED BY <1>1, <1>2 DEF MessagesSound

\* AckPlayer, which is not for the user.
LEMMA ReceivesAck ==
    ASSUME NEW us \in Seq(User), NEW ps \in Seq(Part), PartsSound(us, ps),
           NEW w \in Seq(Nat), WireSound(ps, w), NEW tk,
           NEW splits \in [BOOLEAN -> Seq(Nat)], NEW reps, NEW list,
           ReceiverSound(us, ps, w, tk, splits, reps, list), NEW k,
           Arrives(ps, w, tk, k), ps[k].owner = 0
    PROVE  ReceiverSound(us, ps, w, tk \cup {k}, splits, reps, list)
<1>1. /\ tk \subseteq 1..Len(ps) /\ k \in 1..Len(ps)
      /\ \A t \in tk : ps[t].urg = ps[k].urg => t < k
      /\ Initial(ps, tk \cup {k}) /\ Came(w, tk \cup {k})
    <2>1. Arrival(ps, w, tk, k)
        BY ArrivalFact
    <2> QED BY <2>1 DEF Arrival
<1>2. k = 1
    BY <1>1, OwnedFact
<1>3. \A urg \in BOOLEAN : SplitSound(ps, tk \cup {k}, splits[urg], urg)
    <2> TAKE urg \in BOOLEAN
    <2>1. SplitSound(ps, tk, splits[urg], urg) /\ splits[urg] \in Seq(Nat)
        BY DEF ReceiverSound
    <2>2. CASE urg # ps[k].urg
        BY <1>1, <2>1, <2>2, SplitOther
    <2>3. CASE urg = ps[k].urg
        <3>1. \A t \in tk : ps[t].urg # urg
            BY <1>1, <1>2, <2>3
        <3>2. Len(splits[urg]) = 0
            BY <2>1, <3>1 DEF SplitSound, NewestTaken
        <3> QED BY <1>1, <2>1, <2>3, <3>2, SplitEmpty
    <2> QED BY <2>2, <2>3
<1>4. MessagesSound(us, ps, tk \cup {k}, reps \o list)
    BY MessagesStay DEF ReceiverSound
<1> QED BY <1>1, <1>3, <1>4 DEF ReceiverSound

\* A part that is not the last one of its message.
LEMMA ReceivesPart ==
    ASSUME NEW us \in Seq(User), NEW ps \in Seq(Part), PartsSound(us, ps),
           NEW w \in Seq(Nat), WireSound(ps, w), NEW tk,
           NEW splits \in [BOOLEAN -> Seq(Nat)], NEW reps, NEW list,
           ReceiverSound(us, ps, w, tk, splits, reps, list), NEW k,
           Arrives(ps, w, tk, k), ps[k].owner # 0, ps[k].part, ~ps[k].closing
    PROVE  ReceiverSound(us, ps, w, tk \cup {k},
                         [splits EXCEPT ![ps[k].urg] = Append(@, k)], reps, list)
<1>1. /\ tk \subseteq 1..Len(ps) /\ k \in 1..Len(ps) /\ k \notin tk
      /\ ps[k].after \in tk \cup {0} /\ ps[k].urg \in BOOLEAN
      /\ \A t \in tk : ps[t].urg = ps[k].urg => t < k
      /\ Initial(ps, tk \cup {k}) /\ Came(w, tk \cup {k}) /\ Initial(ps, tk)
    <2>1. Arrival(ps, w, tk, k)
        BY ArrivalFact
    <2> QED BY <2>1 DEF Arrival
<1>2. PICK u, s : u = ps[k].urg /\ s = splits[u]
    OBVIOUS
<1>3. s \in Seq(Nat) /\ SplitSound(ps, tk, s, u) /\ u \in BOOLEAN
    BY <1>1, <1>2 DEF ReceiverSound
<1>4. Before(ps, k, s)
    BY <1>1, <1>2, <1>3, SplitBefore
<1>5. SplitSound(ps, tk \cup {k}, Append(s, k), u)
    BY <1>1, <1>2, <1>3, <1>4, SplitCollected
<1>6. PICK news : news = [splits EXCEPT ![u] = Append(@, k)]
    OBVIOUS
<1>7. news[u] = Append(s, k) /\ \A v \in BOOLEAN : v # u => news[v] = splits[v]
    BY <1>2, <1>3, <1>6
<1>8. \A urg \in BOOLEAN : SplitSound(ps, tk \cup {k}, news[urg], urg)
    <2> TAKE urg \in BOOLEAN
    <2>1. CASE urg = u
        BY <1>5, <1>7, <2>1
    <2>2. CASE urg # u
        <3>1. SplitSound(ps, tk, splits[urg], urg)
            BY DEF ReceiverSound
        <3>2. SplitSound(ps, tk \cup {k}, splits[urg], urg)
            BY <1>1, <1>2, <2>2, <3>1, SplitOther
        <3> QED BY <1>7, <2>2, <3>2
    <2> QED BY <2>1, <2>2
<1>9. MessagesSound(us, ps, tk \cup {k}, reps \o list)
    BY MessagesStay DEF ReceiverSound
<1> QED BY <1>1, <1>2, <1>6, <1>8, <1>9 DEF ReceiverSound

\* The last part of a message: s are those before it, n is its place in the list.
LEMMA ReceivesClosing ==
    ASSUME NEW us \in Seq(User), NEW ps \in Seq(Part), PartsSound(us, ps),
           NEW w \in Seq(Nat), WireSound(ps, w), NEW tk,
           NEW splits \in [BOOLEAN -> Seq(Nat)], NEW reps \in Seq(Seq(Nat)),
           NEW list \in Seq(Seq(Nat)),
           ReceiverSound(us, ps, w, tk, splits, reps, list), NEW k,
           Arrives(ps, w, tk, k), ps[k].owner # 0, ps[k].closing,
           NEW s, s = splits[ps[k].urg], NEW n, Stops(w, list, k, n)
    PROVE  /\ Append(s, k) \in Seq(Nat)
           /\ InsertAt(list, n + 1, Append(s, k)) \in Seq(Seq(Nat))
           /\ ReceiverSound(us, ps, w, tk \cup {k}, [splits EXCEPT ![ps[k].urg] = <<>>],
                            reps, InsertAt(list, n + 1, Append(s, k)))
<1>1. /\ tk \subseteq 1..Len(ps) /\ k \in 1..Len(ps) /\ k \notin tk
      /\ ps[k].after \in tk \cup {0} /\ ps[k].urg \in BOOLEAN
      /\ \E a \in 1..Len(w) : w[a] = k
      /\ \A j \in 1..k-1 : ps[j].urg = ps[k].urg => j \in tk
      /\ \A t \in tk : ps[t].urg = ps[k].urg => t < k
      /\ Initial(ps, tk \cup {k}) /\ Came(w, tk \cup {k}) /\ Initial(ps, tk)
    <2>1. Arrival(ps, w, tk, k)
        BY ArrivalFact
    <2> QED BY <2>1 DEF Arrival
<1>2. PICK u : u = ps[k].urg
    OBVIOUS
<1>3. s \in Seq(Nat) /\ SplitSound(ps, tk, s, u) /\ u \in BOOLEAN
    BY <1>1, <1>2 DEF ReceiverSound
<1>4. Before(ps, k, s)
    BY <1>1, <1>2, <1>3, SplitBefore
<1>5. Append(s, k) \in Seq(Nat) /\ Closes(us, ps, tk, Append(s, k), k)
    BY <1>1, <1>2, <1>3, <1>4, ClosesFact
<1>6. PICK m : m = Append(s, k)
    OBVIOUS
<1>7. MessagesSound(us, ps, tk, reps \o list) /\ Sorted(w, list) /\ Came(w, tk)
    BY DEF ReceiverSound
<1>8. /\ InsertAt(list, n + 1, m) \in Seq(Seq(Nat))
      /\ MessagesSound(us, ps, tk \cup {k}, reps \o InsertAt(list, n + 1, m))
      /\ Sorted(w, InsertAt(list, n + 1, m))
    <2>1. m \in Seq(Nat) /\ Closes(us, ps, tk, m, k)
        BY <1>5, <1>6
    <2> QED BY <1>1, <1>7, <2>1, InsertReception
<1>9. PICK news : news = [splits EXCEPT ![u] = <<>>]
    OBVIOUS
<1>10. news[u] = <<>> /\ \A v \in BOOLEAN : v # u => news[v] = splits[v]
    BY <1>3, <1>9
<1>11. \A urg \in BOOLEAN : SplitSound(ps, tk \cup {k}, news[urg], urg)
    <2> TAKE urg \in BOOLEAN
    <2>1. CASE urg = u
        <3>1. <<>> \in Seq(Nat) /\ Len(<<>>) = 0
            BY EmptySeq
        <3>2. SplitSound(ps, tk \cup {k}, <<>>, u)
            BY <1>1, <1>2, <3>1, SplitEmpty
        <3> QED BY <1>10, <2>1, <3>2
    <2>2. CASE urg # u
        <3>1. SplitSound(ps, tk, splits[urg], urg)
            BY DEF ReceiverSound
        <3>2. SplitSound(ps, tk \cup {k}, splits[urg], urg)
            BY <1>1, <1>2, <2>2, <3>1, SplitOther
        <3> QED BY <1>10, <2>2, <3>2
    <2> QED BY <2>1, <2>2
<1> QED BY <1>1, <1>2, <1>5, <1>6, <1>8, <1>9, <1>11 DEF ReceiverSound

\* A message that was not split, or the last part of one that was, finds
\* nothing collected but what is before it.
LEMMA ClosingFact ==
    ASSUME NEW us \in Seq(User), NEW ps \in Seq(Part), PartsSound(us, ps),
           NEW w \in Seq(Nat), WireSound(ps, w), NEW tk,
           NEW splits \in [BOOLEAN -> Seq(Nat)], NEW reps, NEW list,
           ReceiverSound(us, ps, w, tk, splits, reps, list), NEW k,
           Arrives(ps, w, tk, k), ps[k].owner # 0
    PROVE  /\ ~ps[k].part => ps[k].closing /\ splits[ps[k].urg] = <<>>
           /\ ps[k].part /\ ps[k].closing => splits[ps[k].urg] # <<>>
<1>1. /\ tk \subseteq 1..Len(ps) /\ k \in 1..Len(ps) /\ k \notin tk
      /\ ps[k].after \in tk \cup {0} /\ ps[k].urg \in BOOLEAN /\ Initial(ps, tk)
    <2>1. Arrival(ps, w, tk, k)
        BY ArrivalFact
    <2> QED BY <2>1 DEF Arrival
<1>2. PICK u, s : u = ps[k].urg /\ s = splits[u]
    OBVIOUS
<1>3. s \in Seq(Nat) /\ SplitSound(ps, tk, s, u)
    BY <1>1, <1>2 DEF ReceiverSound
<1>4. Len(s) = ps[k].nth - 1
    <2>1. Before(ps, k, s)
        BY <1>1, <1>2, <1>3, SplitBefore
    <2> QED BY <2>1 DEF Before
<1>5. PICK z, y : y = ps[k].nth /\ z = us[ps[k].owner].size
    OBVIOUS
<1>6. OfUser(us, ps[k]) /\ z \in Nat \ {0}
    BY <1>1, <1>5, OwnedFact, UserFact
<1>7. /\ y \in 1..z /\ (ps[k].closing <=> y = z) /\ (ps[k].part <=> z > 1)
    BY <1>5, <1>6 DEF OfUser
<1>8. Len(s) = 0 <=> s = <<>>
    BY <1>3, EmptySeq
<1>9. ~ps[k].part => ps[k].closing /\ s = <<>>
    <2> HAVE ~ps[k].part
    <2>1. ~(z > 1)
        BY <1>7
    <2>2. z = 1 /\ y = 1
        BY <1>6, <1>7, <2>1
    <2>3. ps[k].closing
        BY <1>7, <2>2
    <2>4. Len(s) = 0
        BY <1>4, <1>5, <2>2
    <2> QED BY <1>8, <2>3, <2>4
<1>10. ps[k].part /\ ps[k].closing => s # <<>>
    <2> HAVE ps[k].part /\ ps[k].closing
    <2>1. z > 1 /\ y = z
        BY <1>7
    <2>2. Len(s) # 0
        BY <1>4, <1>5, <1>6, <2>1
    <2> QED BY <1>8, <2>2
<1> QED BY <1>2, <1>9, <1>10

-----------------------------------------------------------------------------
(***************************************************************************)
(* The actions.                                                            *)
(***************************************************************************)
\* The two peers.
LEMMA OtherFact ==
    \A p \in Peer : /\ Other(p) \in Peer /\ Other(p) # p /\ Other(Other(p)) = p
                    /\ \A q \in Peer : q # p => q = Other(p)
<1> TAKE p \in Peer
<1>1. PICK o \in Peer : Peer = {p, o} /\ p # o
    BY PeerAssumption
<1>2. Other(p) = o
    BY <1>1 DEF Other
<1>3. Other(o) = p
    BY <1>1 DEF Other
<1> QED BY <1>1, <1>2, <1>3

\* The types of what p has.
LEMMA TypeFact ==
    ASSUME Types, NEW p \in Peer
    PROVE  /\ after[p] \in Seq(Nat) /\ users[p] \in Seq(User) /\ sentParts[p] \in Nat
           /\ draft[p] \in Part /\ parts[p] \in Seq(Part)
           /\ lastVIM[p] \in [BOOLEAN -> Nat] /\ queue[p] \in [BOOLEAN -> Seq(Nat)]
           /\ wire[p] \in Seq(Nat) /\ split[p] \in [BOOLEAN -> Seq(Nat)]
           /\ received[p] \in Seq(Seq(Nat)) /\ reported[p] \in Seq(Seq(Nat))
BY DEF Types

\* Initially nothing was sent.
LEMMA InitSound == Init => IInv
<1> SUFFICES ASSUME Init PROVE IInv
    OBVIOUS
<1>1. /\ <<>> \in Seq(Nat) /\ <<>> \in Seq(User) /\ <<>> \in Seq(Part)
      /\ <<>> \in Seq(Seq(Nat)) /\ Len(<<>>) = 0 /\ NoDraft \in Part
    BY EmptySeq, NoDraftFact
<1>2. Types
    <2>1. /\ [urg \in BOOLEAN |-> 0] \in [BOOLEAN -> Nat]
          /\ [urg \in BOOLEAN |-> <<>>] \in [BOOLEAN -> Seq(Nat)]
          /\ [urgent \in BOOLEAN |-> <<>>] \in [BOOLEAN -> Seq(Nat)]
        BY <1>1
    <2> QED BY <1>1, <2>1 DEF Types, Init, ChainInit
<1>3. ASSUME NEW q \in Peer PROVE Sound(q)
    <2>1. /\ users[q] = <<>> /\ parts[q] = <<>> /\ after[q] = <<>>
          /\ lastVIM[q] = [urg \in BOOLEAN |-> 0] /\ sentParts[q] = 0
          /\ draft[q] = NoDraft /\ queue[q] = [urgent \in BOOLEAN |-> <<>>]
          /\ wire[q] = <<>> /\ taken[q] = {}
          /\ split[Other(q)] = [urg \in BOOLEAN |-> <<>>]
          /\ reported[Other(q)] = <<>> /\ received[Other(q)] = <<>>
          /\ orphan[Other(q)] = FALSE
        BY OtherFact DEF Init, ChainInit
    <2>2. SenderSound(<<>>, <<>>, <<>>, [urg \in BOOLEAN |-> 0], 0, NoDraft)
        <3>1. \A urg \in BOOLEAN : Newest(<<>>, 0, urg, [u \in BOOLEAN |-> 0][urg])
            BY DEF Newest
        <3> QED BY <1>1, <3>1 DEF SenderSound, DispatchedSound, PartsSound, Progress,
                                  DraftSound
    <2>3. LineSound(<<>>, [urgent \in BOOLEAN |-> <<>>], <<>>)
        BY <1>1 DEF LineSound, WireSound, QueueSound
    <2>4. ReceiverSound(<<>>, <<>>, <<>>, {}, [urg \in BOOLEAN |-> <<>>], <<>>, <<>>)
        <3>1. PICK none : none = <<>> \o <<>>
            OBVIOUS
        <3>2. Len(none) = 0
            BY <1>1, <3>1, ConcatFact
        <3>3. MessagesSound(<<>>, <<>>, {}, none)
            BY <3>2 DEF MessagesSound, Finished
        <3>4. \A urg \in BOOLEAN : SplitSound(<<>>, {}, [u \in BOOLEAN |-> <<>>][urg], urg)
            BY <1>1 DEF SplitSound
        <3> QED BY <1>1, <3>1, <3>3, <3>4
                DEF ReceiverSound, Came, Initial, Sorted
    <2> QED BY <2>1, <2>2, <2>3, <2>4 DEF Sound, LinkSound
<1> QED BY <1>2, <1>3 DEF IInv

\* SendMsg keeps the invariant.
LEMMA SendMsgSound ==
    ASSUME IInv, NEW p \in Peer, NEW size \in 1..MaxParts, NEW urg \in Urgencies,
           SendMsg(p, size, urg)
    PROVE  IInv'
<1>1. Types /\ \A q \in Peer : Sound(q)
    BY DEF IInv
<1>2. PICK x : x = [size |-> size, urg |-> urg]
    OBVIOUS
<1>3. x \in User
    BY <1>2, FragmentAssumption DEF User
<1>4. PICK us : us = Append(users[p], x)
    OBVIOUS
<1>5. us \in Seq(User) /\ Len(us) = Len(users[p]) + 1 /\ Len(users[p]) \in Nat
      /\ \A j \in 1..Len(users[p]) : us[j] = users[p][j]
    BY <1>1, <1>3, <1>4, TypeFact, AppendFact, SeqFact
<1>6. /\ users' = [users EXCEPT ![p] = us] /\ sentParts' = [sentParts EXCEPT ![p] = 0]
      /\ UNCHANGED <<after, taken, draft, parts, lastVIM, acked, queue, wire, split,
                     received, reported, orphan>>
    BY <1>2, <1>4 DEF SendMsg, chainVars
<1>7. users[p] = <<>> \/ users[p][Len(users[p])].size =< sentParts[p]
    <2>1. users[p] = <<>> \/ ~(sentParts[p] < users[p][Len(users[p])].size)
        BY DEF SendMsg, Sending
    <2> SUFFICES ASSUME users[p] # <<>>
                 PROVE  users[p][Len(users[p])].size =< sentParts[p]
        OBVIOUS
    <2>2. users[p] \in Seq(User) /\ sentParts[p] \in Nat
        BY <1>1, TypeFact
    <2>3. Len(users[p]) \in 1..Len(users[p])
        BY <2>2, TailFact
    <2>4. users[p][Len(users[p])].size \in Nat
        BY <2>2, <2>3, SeqFact, UserFact
    <2> QED BY <2>1, <2>2, <2>4
<1>8. Types'
    BY <1>1, <1>5, <1>6 DEF Types
<1>9. ASSUME NEW q \in Peer PROVE Sound(q)'
    <2>1. CASE q = p
        <3>1. users'[p] = us /\ sentParts'[p] = 0
            BY <1>1, <1>6 DEF Types
        <3>2. /\ SenderSound(users[p], parts[p], after[p], lastVIM[p], sentParts[p],
                             draft[p])
              /\ LineSound(parts[p], queue[p], wire[p])
              /\ ReceiverSound(users[p], parts[p], wire[p], taken[p], split[Other(p)],
                               reported[Other(p)], received[Other(p)])
              /\ ~orphan[Other(p)]
            BY <1>1 DEF Sound, LinkSound
        <3>3. SenderSound(us, parts[p], after[p], lastVIM[p], 0, draft[p])
            BY <1>1, <1>3, <1>4, <1>7, <3>2, TypeFact, SenderSends
        <3>4. PartsSound(users[p], parts[p]) /\ WireSound(parts[p], wire[p])
            BY <3>2 DEF SenderSound, DispatchedSound, LineSound
        <3>5. Extends(users[p], us) /\ Extends(parts[p], parts[p])
            BY <1>1, <1>5, TypeFact, SeqFact DEF Extends
        <3>6. ReceiverSound(us, parts[p], wire[p], taken[p], split[Other(p)],
                            reported[Other(p)], received[Other(p)])
            BY <1>1, <1>5, <3>2, <3>4, <3>5, TypeFact, OtherFact, ReceiverKept
        <3> QED BY <1>6, <2>1, <3>1, <3>2, <3>3, <3>6 DEF Sound, LinkSound
    <2>2. CASE q # p
        <3>1. users'[q] = users[q] /\ sentParts'[q] = sentParts[q]
            BY <1>1, <1>6, <2>2 DEF Types
        <3> QED BY <1>1, <1>6, <3>1 DEF Sound
    <2> QED BY <2>1, <2>2
<1> QED BY <1>8, <1>9 DEF IInv

\* Composing a part keeps the invariant.
LEMMA ComposePartSound ==
    ASSUME IInv, NEW p \in Peer, ComposePart(p)
    PROVE  IInv'
<1>1. Types /\ \A q \in Peer : Sound(q)
    BY DEF IInv
<1>2. PICK us, n, lasts : us = users[p] /\ n = sentParts[p] /\ lasts = lastVIM[p]
    OBVIOUS
<1>3. us \in Seq(User) /\ n \in Nat /\ lasts \in [BOOLEAN -> Nat] /\ draft[p] \in Part
    BY <1>1, <1>2, TypeFact
<1>4. us # <<>> /\ n < us[Len(us)].size
    BY <1>2 DEF ComposePart, Sending
<1>5. PICK x : x = [after |-> lasts[us[Len(us)].urg],
                    closing |-> n + 1 = us[Len(us)].size,
                    part |-> us[Len(us)].size > 1, urg |-> us[Len(us)].urg,
                    owner |-> Len(us), nth |-> n + 1]
    OBVIOUS
<1>6. /\ draft' = [draft EXCEPT ![p] = x]
      /\ UNCHANGED <<after, taken, users, sentParts, parts, lastVIM, acked, queue, wire,
                     split, received, reported, orphan>>
    BY <1>2, <1>5 DEF ComposePart, chainVars
<1>7. SenderSound(us, parts[p], after[p], lasts, n, draft[p])
    BY <1>1, <1>2 DEF Sound, LinkSound
<1>8. x \in Part /\ SenderSound(us, parts[p], after[p], lasts, n, x)
    BY <1>3, <1>4, <1>5, <1>7, SenderComposes
<1>9. Types'
    BY <1>1, <1>6, <1>8 DEF Types
<1>10. ASSUME NEW q \in Peer PROVE Sound(q)'
    <2>1. CASE q = p
        <3>1. draft'[p] = x
            BY <1>1, <1>6 DEF Types
        <3>2. /\ LineSound(parts[p], queue[p], wire[p])
              /\ ReceiverSound(users[p], parts[p], wire[p], taken[p], split[Other(p)],
                               reported[Other(p)], received[Other(p)])
              /\ ~orphan[Other(p)]
            BY <1>1 DEF Sound, LinkSound
        <3> QED BY <1>2, <1>6, <1>8, <2>1, <3>1, <3>2 DEF Sound, LinkSound
    <2>2. CASE q # p
        <3>1. draft'[q] = draft[q]
            BY <1>1, <1>6, <2>2 DEF Types
        <3> QED BY <1>1, <1>6, <3>1 DEF Sound
    <2> QED BY <2>1, <2>2
<1> QED BY <1>9, <1>10 DEF IInv

\* Dispatch of part x, after which the sender has dispatched n parts of its last
\* message and is about to send dr.
LEMMA DispatchSound ==
    ASSUME IInv, NEW p \in Peer, NEW x \in Part, NEW u \in BOOLEAN, Line(x) = u,
           Dispatch(p, x, u), NEW n \in Nat, NEW dr \in Part,
           sentParts' = [sentParts EXCEPT ![p] = n], draft' = [draft EXCEPT ![p] = dr],
           UNCHANGED <<users, wire, split, received, reported, orphan>>,
           SenderSound(users[p], Append(parts[p], x), Append(after[p], x.after),
                       [lastVIM[p] EXCEPT ![x.urg] = Len(parts[p]) + 1], n, dr),
           Extends(parts[p], Append(parts[p], x))
    PROVE  IInv'
<1>1. Types /\ \A q \in Peer : Sound(q)
    BY DEF IInv
<1>2. PICK ps, rs, bs, lasts, queues :
          /\ ps = parts[p] /\ rs = Append(ps, x) /\ bs = Append(after[p], x.after)
          /\ lasts = [lastVIM[p] EXCEPT ![x.urg] = Len(ps) + 1]
          /\ queues = [queue[p] EXCEPT ![u] = Append(@, Len(ps) + 1)]
    OBVIOUS
<1>3. /\ parts' = [parts EXCEPT ![p] = rs] /\ after' = [after EXCEPT ![p] = bs]
      /\ lastVIM' = [lastVIM EXCEPT ![p] = lasts]
      /\ queue' = [queue EXCEPT ![p] = queues] /\ taken' = taken
    BY <1>1, <1>2 DEF Dispatch, Send, Types
<1>4. ps \in Seq(Part) /\ Len(ps) \in Nat /\ Len(ps) + 1 \in Nat /\ after[p] \in Seq(Nat)
      /\ lastVIM[p] \in [BOOLEAN -> Nat] /\ queue[p] \in [BOOLEAN -> Seq(Nat)]
      /\ x.after \in Nat /\ x.urg \in BOOLEAN
    <2>1. /\ parts[p] \in Seq(Part) /\ after[p] \in Seq(Nat)
          /\ lastVIM[p] \in [BOOLEAN -> Nat] /\ queue[p] \in [BOOLEAN -> Seq(Nat)]
        BY <1>1, TypeFact
    <2>2. ps \in Seq(Part)
        BY <1>2, <2>1
    <2>3. Len(ps) \in Nat
        BY <2>2, LenProperties
    <2>4. x.after \in Nat /\ x.urg \in BOOLEAN
        BY PartFact
    <2>5. Len(ps) + 1 \in Nat
        BY <2>3
    <2> QED BY <2>1, <2>2, <2>3, <2>4, <2>5
<1>5. rs \in Seq(Part) /\ bs \in Seq(Nat)
    BY <1>2, <1>4, AppendFact
<1>6. lasts \in [BOOLEAN -> Nat] /\ queues \in [BOOLEAN -> Seq(Nat)]
    <2>1. lasts \in [BOOLEAN -> Nat]
        BY <1>2, <1>4
    <2>2. queue[p][u] \in Seq(Nat)
        BY <1>4
    <2>3. Append(queue[p][u], Len(ps) + 1) \in Seq(Nat)
        BY <1>4, <2>2, AppendFact
    <2>4. queues \in [BOOLEAN -> Seq(Nat)]
        BY <1>2, <1>4, <2>3
    <2> QED BY <2>1, <2>4
<1>7. Types'
    BY <1>1, <1>3, <1>5, <1>6 DEF Types
<1>8. ASSUME NEW q \in Peer PROVE Sound(q)'
    <2>1. CASE q = p
        <3>1. /\ parts'[p] = rs /\ after'[p] = bs /\ lastVIM'[p] = lasts
              /\ queue'[p] = queues /\ sentParts'[p] = n /\ draft'[p] = dr
            BY <1>1, <1>3 DEF Types
        <3>2. /\ SenderSound(users[p], ps, after[p], lastVIM[p], sentParts[p], draft[p])
              /\ LineSound(ps, queue[p], wire[p])
              /\ ReceiverSound(users[p], ps, wire[p], taken[p], split[Other(p)],
                               reported[Other(p)], received[Other(p)])
              /\ ~orphan[Other(p)]
            BY <1>1, <1>2 DEF Sound, LinkSound
        <3>3. LineSound(rs, queues, wire[p])
            BY <1>1, <1>2, <1>4, <3>2, TypeFact, LineDispatched
        <3>4. PartsSound(users[p], ps) /\ WireSound(ps, wire[p])
            BY <3>2 DEF SenderSound, DispatchedSound, LineSound
        <3>5. Extends(users[p], users[p]) /\ Extends(ps, rs)
            BY <1>1, <1>2, TypeFact, SeqFact DEF Extends
        <3>6. ReceiverSound(users[p], rs, wire[p], taken[p], split[Other(p)],
                            reported[Other(p)], received[Other(p)])
            BY <1>1, <1>4, <1>5, <3>2, <3>4, <3>5, TypeFact, OtherFact, ReceiverKept
        <3>7. SenderSound(users[p], rs, bs, lasts, n, dr)
            BY <1>2
        <3> QED BY <1>3, <2>1, <3>1, <3>2, <3>3, <3>6, <3>7 DEF Sound, LinkSound
    <2>2. CASE q # p
        <3>1. /\ parts'[q] = parts[q] /\ after'[q] = after[q] /\ lastVIM'[q] = lastVIM[q]
              /\ queue'[q] = queue[q] /\ sentParts'[q] = sentParts[q]
              /\ draft'[q] = draft[q]
            BY <1>1, <1>3, <2>2 DEF Types
        <3> QED BY <1>1, <1>3, <3>1 DEF Sound
    <2> QED BY <2>1, <2>2
<1> QED BY <1>7, <1>8 DEF IInv

\* Dispatching a part keeps the invariant.
LEMMA DispatchPartSound ==
    ASSUME IInv, NEW p \in Peer, DispatchPart(p)
    PROVE  IInv'
<1>1. Types /\ \A q \in Peer : Sound(q)
    BY DEF IInv
<1>2. PICK x : x = draft[p]
    OBVIOUS
<1>3. x \in Part /\ x # NoDraft /\ x.urg \in BOOLEAN
    BY <1>1, <1>2, TypeFact, PartFact DEF DispatchPart
<1>4. SenderSound(users[p], parts[p], after[p], lastVIM[p], sentParts[p], x)
    BY <1>1, <1>2 DEF Sound, LinkSound
<1>5. /\ SenderSound(users[p], Append(parts[p], x), Append(after[p], x.after),
                     [lastVIM[p] EXCEPT ![x.urg] = Len(parts[p]) + 1],
                     sentParts[p] + 1, NoDraft)
      /\ Extends(parts[p], Append(parts[p], x)) /\ x.owner # 0
    BY <1>1, <1>3, <1>4, TypeFact, SenderDispatches
<1>6. Line(x) = x.urg
    BY <1>5 DEF Line
<1>7. /\ Dispatch(p, x, x.urg) /\ draft' = [draft EXCEPT ![p] = NoDraft]
      /\ sentParts' = [sentParts EXCEPT ![p] = sentParts[p] + 1]
      /\ UNCHANGED <<users, wire, split, received, reported, orphan>>
    BY <1>2 DEF DispatchPart
<1>8. sentParts[p] + 1 \in Nat /\ NoDraft \in Part
    BY <1>1, TypeFact, NoDraftFact
<1> QED BY <1>3, <1>5, <1>6, <1>7, <1>8, DispatchSound

\* AckPlayer, when it is before any message of the user.
LEMMA AckPlayerSound ==
    ASSUME IInv, ~LateHandshake, AckPlayer
    PROVE  IInv'
<1>1. Types /\ \A q \in Peer : Sound(q)
    BY DEF IInv
<1>2. PICK p : p = Server
    OBVIOUS
<1>3. p \in Peer /\ parts[p] = <<>> /\ draft[p] = NoDraft
    BY <1>2, FragmentAssumption DEF AckPlayer
<1>4. Len(parts[p]) = 0
    BY <1>3, EmptySeq
<1>5. SenderSound(users[p], parts[p], after[p], lastVIM[p], sentParts[p], NoDraft)
    BY <1>1, <1>3 DEF Sound, LinkSound
<1>6. /\ SenderSound(users[p], Append(parts[p], NoDraft),
                     Append(after[p], NoDraft.after),
                     [lastVIM[p] EXCEPT ![NoDraft.urg] = Len(parts[p]) + 1],
                     sentParts[p], NoDraft)
      /\ Extends(parts[p], Append(parts[p], NoDraft))
    BY <1>1, <1>3, <1>4, <1>5, TypeFact, SenderAcks
<1>7. Line(NoDraft) = TRUE
    BY NoDraftFact DEF Line
<1>8. /\ Dispatch(p, NoDraft, TRUE)
      /\ UNCHANGED <<users, wire, split, received, reported, orphan, sentParts, draft>>
    BY <1>2 DEF AckPlayer
<1>9. /\ sentParts' = [sentParts EXCEPT ![p] = sentParts[p]]
      /\ draft' = [draft EXCEPT ![p] = NoDraft]
    BY <1>1, <1>3, <1>8 DEF Types
<1>10. sentParts[p] \in Nat /\ NoDraft \in Part
    BY <1>1, <1>3, TypeFact, NoDraftFact
<1> QED BY <1>3, <1>6, <1>7, <1>8, <1>9, <1>10, DispatchSound

\* Transmitting a message keeps the invariant.
LEMMA TransmitSound ==
    ASSUME IInv, NEW p \in Peer, Transmit(p)
    PROVE  IInv'
<1>1. Types /\ \A q \in Peer : Sound(q)
    BY DEF IInv
<1>2. PICK u : u = (queue[p][TRUE] # <<>>)
    OBVIOUS
<1>3. u \in BOOLEAN /\ queue[p][u] # <<>>
    BY <1>2 DEF Transmit
<1>4. PICK w, queues : /\ w = Append(wire[p], Head(queue[p][u]))
                       /\ queues = [queue[p] EXCEPT ![u] = Tail(@)]
    OBVIOUS
<1>5. /\ wire' = [wire EXCEPT ![p] = w] /\ queue' = [queue EXCEPT ![p] = queues]
      /\ UNCHANGED <<after, taken, users, sentParts, draft, parts, lastVIM, acked,
                     split, received, reported, orphan>>
    BY <1>1, <1>2, <1>4 DEF Transmit, chainVars, Types
<1>6. queue[p] \in [BOOLEAN -> Seq(Nat)] /\ wire[p] \in Seq(Nat) /\ parts[p] \in Seq(Part)
    BY <1>1, TypeFact
<1>7. queue[p][u] \in Seq(Nat)
    BY <1>3, <1>6
<1>8. Tail(queue[p][u]) \in Seq(Nat) /\ Head(queue[p][u]) \in Nat
    BY <1>3, <1>7, TailFact
<1>9. queues \in [BOOLEAN -> Seq(Nat)]
    BY <1>3, <1>4, <1>6, <1>8
<1>10. w \in Seq(Nat) /\ Extends(wire[p], w)
    <2>1. PICK k : k = Head(queue[p][u])
        OBVIOUS
    <2>2. /\ w \in Seq(Nat) /\ Len(w) = Len(wire[p]) + 1 /\ Len(wire[p]) \in Nat
          /\ \A j \in 1..Len(wire[p]) : w[j] = wire[p][j]
        BY <1>4, <1>6, <1>8, <2>1, AppendFact, SeqFact
    <2> QED BY <2>2 DEF Extends
<1>11. Types'
    BY <1>1, <1>5, <1>9, <1>10 DEF Types
<1>12. ASSUME NEW q \in Peer PROVE Sound(q)'
    <2>1. CASE q = p
        <3>1. wire'[p] = w /\ queue'[p] = queues
            BY <1>1, <1>5 DEF Types
        <3>2. /\ SenderSound(users[p], parts[p], after[p], lastVIM[p], sentParts[p],
                             draft[p])
              /\ LineSound(parts[p], queue[p], wire[p])
              /\ ReceiverSound(users[p], parts[p], wire[p], taken[p], split[Other(p)],
                               reported[Other(p)], received[Other(p)])
              /\ ~orphan[Other(p)]
            BY <1>1 DEF Sound, LinkSound
        <3>3. LineSound(parts[p], queues, w)
            BY <1>3, <1>4, <1>6, <3>2, LineTransmitted
        <3>4. WireSound(parts[p], w)
            BY <3>3 DEF LineSound
        <3>5. reported[Other(p)] \in Seq(Seq(Nat)) /\ received[Other(p)] \in Seq(Seq(Nat))
            BY <1>1, OtherFact, TypeFact
        <3>6. ReceiverSound(users[p], parts[p], w, taken[p], split[Other(p)],
                            reported[Other(p)], received[Other(p)])
            BY <1>6, <1>10, <3>2, <3>4, <3>5, ReceiverTransmitted
        <3> QED BY <1>5, <2>1, <3>1, <3>2, <3>3, <3>6 DEF Sound, LinkSound
    <2>2. CASE q # p
        <3>1. wire'[q] = wire[q] /\ queue'[q] = queue[q]
            BY <1>1, <1>5, <2>2 DEF Types
        <3> QED BY <1>1, <1>5, <3>1 DEF Sound
    <2> QED BY <2>1, <2>2
<1> QED BY <1>11, <1>12 DEF IInv

\* The call-back for a message keeps the invariant.
LEMMA ProcessSound ==
    ASSUME IInv, NEW p \in Peer, ProcessUserMessage(p)
    PROVE  IInv'
<1>1. Types /\ \A q \in Peer : Sound(q)
    BY DEF IInv
<1>2. PICK more, rest : /\ more = Append(reported[p], Head(received[p]))
                        /\ rest = Tail(received[p])
    OBVIOUS
<1>3. /\ received[p] # <<>> /\ reported' = [reported EXCEPT ![p] = more]
      /\ received' = [received EXCEPT ![p] = rest]
      /\ UNCHANGED <<after, taken, users, sentParts, draft, parts, lastVIM, acked,
                     queue, wire, split, orphan>>
    BY <1>2 DEF ProcessUserMessage, chainVars
<1>4. received[p] \in Seq(Seq(Nat)) /\ reported[p] \in Seq(Seq(Nat))
    BY <1>1, TypeFact
<1>5. rest \in Seq(Seq(Nat)) /\ Head(received[p]) \in Seq(Nat)
    BY <1>2, <1>3, <1>4, TailFact
<1>6. more \in Seq(Seq(Nat))
    BY <1>2, <1>4, <1>5, AppendFact
<1>7. Types'
    BY <1>1, <1>3, <1>5, <1>6 DEF Types
<1>8. ASSUME NEW q \in Peer PROVE Sound(q)'
    <2>1. CASE q = Other(p)
        <3>1. Other(q) = p /\ reported'[p] = more /\ received'[p] = rest
            BY <1>1, <1>3, <2>1, OtherFact DEF Types
        <3>2. /\ SenderSound(users[q], parts[q], after[q], lastVIM[q], sentParts[q],
                             draft[q])
              /\ LineSound(parts[q], queue[q], wire[q])
              /\ ReceiverSound(users[q], parts[q], wire[q], taken[q], split[p],
                               reported[p], received[p])
              /\ ~orphan[p]
            BY <1>1, <3>1 DEF Sound, LinkSound
        <3>3. ReceiverSound(users[q], parts[q], wire[q], taken[q], split[p], more, rest)
            BY <1>2, <1>3, <1>4, <3>2, ReceiverProcesses
        <3> QED BY <1>3, <3>1, <3>2, <3>3 DEF Sound, LinkSound
    <2>2. CASE q # Other(p)
        <3>1. Other(q) # p /\ Other(q) \in Peer
            BY <2>2, OtherFact
        <3>2. /\ reported'[Other(q)] = reported[Other(q)]
              /\ received'[Other(q)] = received[Other(q)]
            BY <1>1, <1>3, <3>1 DEF Types
        <3> QED BY <1>1, <1>3, <3>2 DEF Sound
    <2> QED BY <2>1, <2>2
<1> QED BY <1>7, <1>8 DEF IInv

\* insertReceived stops before the first message with a greater serial.
LEMMA PassesFact ==
    ASSUME NEW p \in Peer, NEW message, NEW n \in 0..Len(received[p]),
           Passes(p, message, n)
    PROVE  Stops(wire[Other(p)], received[p], message[Len(message)], n)
<1>1. \A m : SerialOf(Other(p), m) = LastSerial(wire[Other(p)], m)
    BY DEF SerialOf, LastSerial, Serial, SerialIn, Last
<1>2. LastSerial(wire[Other(p)], message)
          = SerialIn(wire[Other(p)], message[Len(message)])
    BY DEF LastSerial
<1> QED BY <1>1, <1>2 DEF Passes, Stops

\* What Receive does to the receiver p, once the rest of the step is known.
LEMMA ReceiveStep ==
    ASSUME IInv, NEW p \in Peer, NEW k, NEW splits, NEW list,
           splits \in [BOOLEAN -> Seq(Nat)], list \in Seq(Seq(Nat)), k \in Nat,
           taken' = [taken EXCEPT ![Other(p)] = taken[Other(p)] \cup {k}],
           split' = [split EXCEPT ![p] = splits],
           received' = [received EXCEPT ![p] = list], orphan' = orphan,
           UNCHANGED <<after, users, sentParts, draft, parts, lastVIM, acked, queue,
                       wire, reported>>,
           ReceiverSound(users[Other(p)], parts[Other(p)], wire[Other(p)],
                         taken[Other(p)] \cup {k}, splits, reported[p], list)
    PROVE  IInv'
<1>1. Types /\ \A q \in Peer : Sound(q)
    BY DEF IInv
<1>2. Other(p) \in Peer /\ Other(Other(p)) = p
    BY OtherFact
<1>3. Types'
    <2>1. taken[Other(p)] \cup {k} \in SUBSET Nat
        BY <1>1, <1>2 DEF Types
    <2> QED BY <1>1, <1>2, <2>1 DEF Types
<1>4. ASSUME NEW q \in Peer PROVE Sound(q)'
    <2>1. CASE q = Other(p)
        <3>1. /\ Other(q) = p /\ taken'[q] = taken[q] \cup {k}
              /\ split'[p] = splits /\ received'[p] = list
            BY <1>1, <1>2, <2>1 DEF Types
        <3>2. /\ SenderSound(users[q], parts[q], after[q], lastVIM[q], sentParts[q],
                             draft[q])
              /\ LineSound(parts[q], queue[q], wire[q]) /\ ~orphan[p]
            BY <1>1, <3>1 DEF Sound, LinkSound
        <3>3. ReceiverSound(users[q], parts[q], wire[q], taken[q] \cup {k}, splits,
                            reported[p], list)
            BY <2>1
        <3> QED BY <3>1, <3>2, <3>3 DEF Sound, LinkSound
    <2>2. CASE q # Other(p)
        <3>1. Other(q) # p /\ Other(q) \in Peer
            BY <2>2, OtherFact
        <3>2. /\ taken'[q] = taken[q] /\ split'[Other(q)] = split[Other(q)]
              /\ received'[Other(q)] = received[Other(q)]
            BY <1>1, <1>2, <2>2, <3>1 DEF Types
        <3> QED BY <1>1, <3>2 DEF Sound
    <2> QED BY <2>1, <2>2
<1> QED BY <1>3, <1>4 DEF IInv

\* Receiving a part keeps the invariant, and finds those before it.
LEMMA ReceiveSound ==
    ASSUME IInv, NEW p \in Peer, NEW k, Receive(p, k)
    PROVE  IInv'
<1>1. Types /\ \A q \in Peer : Sound(q)
    BY DEF IInv
<1>2. PICK q : q = Other(p)
    OBVIOUS
<1>3. q \in Peer /\ Other(q) = p
    BY <1>2, OtherFact
<1>4. PICK us, ps, w, tk, splits, reps, list :
          /\ us = users[q] /\ ps = parts[q] /\ w = wire[q] /\ tk = taken[q]
          /\ splits = split[p] /\ reps = reported[p] /\ list = received[p]
    OBVIOUS
<1>5. /\ us \in Seq(User) /\ ps \in Seq(Part) /\ w \in Seq(Nat)
      /\ splits \in [BOOLEAN -> Seq(Nat)] /\ reps \in Seq(Seq(Nat))
      /\ list \in Seq(Seq(Nat))
    BY <1>1, <1>3, <1>4, TypeFact
<1>6. /\ DispatchedSound(us, ps, after[q], lastVIM[q]) /\ WireSound(ps, w)
      /\ ReceiverSound(us, ps, w, tk, splits, reps, list)
    BY <1>1, <1>3, <1>4 DEF Sound, LinkSound, SenderSound, LineSound
<1>7. PartsSound(us, ps) /\ Len(after[q]) = Len(ps)
      /\ \A j \in 1..Len(ps) : after[q][j] = ps[j].after
    BY <1>6 DEF DispatchedSound
<1>8. /\ taken' = [taken EXCEPT ![q] = tk \cup {k}] /\ after' = after
      /\ UNCHANGED <<users, sentParts, draft, parts, lastVIM, acked, queue, wire,
                     reported>>
      /\ k \in Range(w) /\ k \in 1..Len(after[q]) /\ k \notin tk
      /\ after[q][k] \in tk \cup {0}
    BY <1>2, <1>4 DEF Receive, Take, Ready
<1>9. Arrives(ps, w, tk, k) /\ k \in Nat
    <2>1. DOMAIN w = 1..Len(w)
        BY <1>5, LenProperties
    <2>2. \E a \in 1..Len(w) : w[a] = k
        BY <1>8, <2>1 DEF Range
    <2>3. k \in 1..Len(ps) /\ ps[k].after \in tk \cup {0}
        BY <1>7, <1>8
    <2>4. Len(ps) \in Nat
        BY <1>5, SeqFact
    <2> QED BY <1>8, <2>2, <2>3, <2>4 DEF Arrives
<1>10. ps[k] \in Part /\ ps[k].urg \in BOOLEAN /\ List(ps[k]) = ps[k].urg
    BY <1>5, <1>9, SeqFact, PartFact DEF Arrives, List
<1>11. \A new, queues :
          /\ queues \in [BOOLEAN -> Seq(Nat)] /\ new \in Seq(Seq(Nat))
          /\ split' = [split EXCEPT ![p] = queues]
          /\ received' = [received EXCEPT ![p] = new] /\ orphan' = orphan
          /\ ReceiverSound(us, ps, w, tk \cup {k}, queues, reps, new)
          => IInv'
    BY <1>2, <1>4, <1>8, <1>9, ReceiveStep
<1>12. split = [split EXCEPT ![p] = splits] /\ received = [received EXCEPT ![p] = list]
    BY <1>1, <1>4 DEF Types
<1>13. CASE ps[k].owner = 0
    <2>1. split' = split /\ received' = received /\ orphan' = orphan
        BY <1>2, <1>4, <1>13 DEF Receive
    <2>2. ReceiverSound(us, ps, w, tk \cup {k}, splits, reps, list)
        BY <1>5, <1>6, <1>7, <1>9, <1>13, ReceivesAck
    <2> QED BY <1>5, <1>11, <1>12, <2>1, <2>2
<1>14. CASE ps[k].owner # 0 /\ ~ps[k].part
    <2>1. ps[k].closing /\ splits[ps[k].urg] = <<>>
        BY <1>5, <1>6, <1>7, <1>9, <1>14, ClosingFact
    <2>2. InsertReceived(p, <<k>>) /\ split' = split /\ orphan' = orphan
        BY <1>2, <1>4, <1>14 DEF Receive
    <2>3. PICK m, s : m = <<k>> /\ s = splits[ps[k].urg]
        OBVIOUS
    <2>4. m = Append(s, k) /\ m[Len(m)] = k
        BY <2>1, <2>3
    <2>5. PICK n \in 0..Len(list) : /\ Passes(p, m, n)
                                    /\ received' = [received EXCEPT ![p] =
                                                       InsertAt(list, n + 1, m)]
        BY <1>4, <2>2, <2>3 DEF InsertReceived
    <2>6. Stops(w, list, k, n)
        BY <1>2, <1>4, <2>4, <2>5, PassesFact
    <2>7. PICK new : new = InsertAt(list, n + 1, m)
        OBVIOUS
    <2>8. PICK queues : queues = [splits EXCEPT ![ps[k].urg] = <<>>]
        OBVIOUS
    <2>9. new \in Seq(Seq(Nat)) /\ ReceiverSound(us, ps, w, tk \cup {k}, queues, reps, new)
        <3>1. s = splits[ps[k].urg] /\ m = Append(s, k)
            BY <2>3, <2>4
        <3>2. ps[k].closing
            BY <2>1
        <3> QED BY <1>5, <1>6, <1>7, <1>9, <1>14, <2>6, <2>7, <2>8, <3>1, <3>2, ReceivesClosing
    <2>10. queues = splits
        BY <1>5, <1>10, <2>1, <2>8
    <2> QED BY <1>5, <1>11, <1>12, <2>2, <2>5, <2>7, <2>9, <2>10
<1>15. CASE ps[k].owner # 0 /\ ps[k].part /\ ps[k].closing
    <2>1. PICK s : s = splits[ps[k].urg]
        OBVIOUS
    <2>2. s # <<>> /\ s \in Seq(Nat)
        BY <1>5, <1>6, <1>7, <1>9, <1>10, <1>15, <2>1, ClosingFact
    <2>3. PICK m, queues : m = Append(s, k)
                           /\ queues = [splits EXCEPT ![ps[k].urg] = <<>>]
        OBVIOUS
    <2>4. /\ InsertReceived(p, m) /\ split' = [split EXCEPT ![p] = queues]
          /\ orphan' = orphan
        <3>1. Merge(p, k, ps[k].urg)
            BY <1>2, <1>4, <1>10, <1>15 DEF Receive
        <3> QED BY <1>1, <1>4, <2>1, <2>2, <2>3, <3>1 DEF Merge, Types
    <2>5. m[Len(m)] = k
        <3>1. Len(m) = Len(s) + 1 /\ m[Len(s) + 1] = k
            BY <1>9, <2>2, <2>3, AppendFact
        <3> QED BY <3>1
    <2>6. PICK n \in 0..Len(list) : /\ Passes(p, m, n)
                                    /\ received' = [received EXCEPT ![p] =
                                                       InsertAt(list, n + 1, m)]
        BY <1>4, <2>4 DEF InsertReceived
    <2>7. Stops(w, list, k, n)
        BY <1>2, <1>4, <2>5, <2>6, PassesFact
    <2>8. PICK new : new = InsertAt(list, n + 1, m)
        OBVIOUS
    <2>9. new \in Seq(Seq(Nat)) /\ ReceiverSound(us, ps, w, tk \cup {k}, queues, reps, new)
        BY <1>5, <1>6, <1>7, <1>9, <1>15, <2>1, <2>3, <2>7, <2>8, ReceivesClosing
    <2>10. queues \in [BOOLEAN -> Seq(Nat)]
        BY <1>5, <1>10, <2>3, EmptySeq
    <2> QED BY <1>11, <2>4, <2>6, <2>8, <2>9, <2>10
<1>16. CASE ps[k].owner # 0 /\ ps[k].part /\ ~ps[k].closing
    <2>1. PICK queues : queues = [splits EXCEPT ![ps[k].urg] = Append(@, k)]
        OBVIOUS
    <2>2. split' = [split EXCEPT ![p] = queues] /\ received' = received /\ orphan' = orphan
        <3>1. Collect(p, k, ps[k].urg)
            BY <1>2, <1>4, <1>10, <1>16 DEF Receive
        <3> QED BY <1>1, <1>4, <2>1, <3>1 DEF Collect, Types
    <2>3. ReceiverSound(us, ps, w, tk \cup {k}, queues, reps, list)
        BY <1>5, <1>6, <1>7, <1>9, <1>16, <2>1, ReceivesPart
    <2>4. queues \in [BOOLEAN -> Seq(Nat)]
        <3>1. splits[ps[k].urg] \in Seq(Nat)
            BY <1>5, <1>10
        <3>2. Append(splits[ps[k].urg], k) \in Seq(Nat)
            BY <1>9, <3>1, AppendFact
        <3> QED BY <1>5, <1>10, <2>1, <3>2
    <2> QED BY <1>5, <1>11, <1>12, <2>2, <2>3, <2>4
<1> QED BY <1>13, <1>14, <1>15, <1>16

-----------------------------------------------------------------------------
(***************************************************************************)
(* The theorems.                                                           *)
(***************************************************************************)
\* The invariant holds of every run in which AckPlayer is not late.
LEMMA Invariance ==
    ASSUME ~LateHandshake
    PROVE  Spec => []IInv
<1>1. IInv /\ [Next]_vars => IInv'
    <2> SUFFICES ASSUME IInv, [Next]_vars PROVE IInv'
        OBVIOUS
    <2>1. CASE UNCHANGED vars
        BY <2>1 DEF IInv, Types, Sound, vars, chainVars, fragVars
    <2>2. CASE AckPlayer
        BY <2>2, AckPlayerSound
    <2>3. ASSUME NEW p \in Peer, UserStep(p) PROVE IInv'
        BY <2>3, SendMsgSound DEF UserStep
    <2>4. ASSUME NEW p \in Peer, Run(p) PROVE IInv'
        BY <2>4, ComposePartSound, DispatchPartSound, TransmitSound, ReceiveSound,
           ProcessSound DEF Run
    <2> QED BY <2>1, <2>2, <2>3, <2>4 DEF Next
<1> QED BY <1>1, InitSound, PTL DEF Spec

\* A closing part always finds the parts before it (clientReceive takes it for
\* granted), for any number of messages, of any length, of both classes.
THEOREM OpenerAlwaysPresent ==
    ASSUME ~LateHandshake
    PROVE  Spec => []OpenerPresent
<1>1. IInv => OpenerPresent
    <2> SUFFICES ASSUME IInv, NEW p \in Peer PROVE ~orphan[p]
        BY DEF OpenerPresent
    <2>1. Other(p) \in Peer /\ Other(Other(p)) = p
        BY OtherFact
    <2> QED BY <2>1 DEF IInv, Sound, LinkSound
<1> QED BY <1>1, Invariance, PTL

\* What the user is given are whole messages, those of each class in the order
\* of SendMsg, none left out and none twice.
THEOREM MessagesWholeInOrder ==
    ASSUME ~LateHandshake
    PROVE  Spec => []WholeAndInOrder
<1>1. IInv => WholeAndInOrder
    <2> SUFFICES ASSUME IInv, NEW p \in Peer, NEW all, all = reported[p] \o received[p],
                        NEW b \in 1..Len(all)
                 PROVE  Whole(Other(p), all[b]) /\ InTurn(Other(p), all, b)
        BY DEF WholeAndInOrder
    <2>1. PICK q : q = Other(p)
        OBVIOUS
    <2>2. q \in Peer /\ Other(q) = p
        BY <2>1, OtherFact
    <2>3. MessagesSound(users[q], parts[q], taken[q], all)
        BY <2>2 DEF IInv, Sound, LinkSound, ReceiverSound
    <2>4. MessageSound(users[q], parts[q], taken[q], all[b])
          /\ TurnSound(users[q], parts[q], all, b)
        BY <2>3 DEF MessagesSound
    <2>5. Whole(q, all[b])
        BY <2>4 DEF MessageSound, IsPart, Whole
    <2>6. InTurn(q, all, b)
        BY <2>4 DEF TurnSound, OwnerOf, InTurn
    <2> QED BY <2>1, <2>5, <2>6
<1> QED BY <1>1, Invariance, PTL

===============================================================================
