------------------------- MODULE StreamedWaveProofs -------------------------
(***************************************************************************)
(* A streamed sound never loses a buffer, never plays chunks out of order  *)
(* and stays silent while it is paused, for any number of buffers and      *)
(* chunks, any failures and any calls of its user.                         *)
(***************************************************************************)
EXTENDS StreamedWave, SequenceTheorems, TLAPS

StreamType ==
    [opened : BOOLEAN, offset : 0 .. NumChunks, eof : BOOLEAN, aborted : BOOLEAN,
     busy : BOOLEAN, inFlight : Nat, free : Nat, queue : Seq(Chunk)]

SourceType ==
    [source : {"none", "initial", "playing", "paused", "stopped"},
     ring : Seq(Chunk), played : Nat]

\* Where the pump is when it does not decode.
Away == {"idle", "drain", "upload"}

PumpPlaces == Away \cup {"check", "read", "flag", "push", "done"}

PumpType ==
    [pc : PumpPlaces,
     off : 0 .. NumChunks - 1, last : BOOLEAN, round : 0 .. MaxCalls]

\* TypeOK, but for the lengths, which follow from the next part.
Types ==
    /\ wave \in WaveType /\ stream \in StreamType /\ al \in SourceType
    /\ pump \in PumpType
    /\ main \in {"run", "unload", "restart", "replay", "closing", "leaving", "gone"}
    /\ round \in Nat /\ calls \in 0 .. MaxCalls /\ round =< calls
    /\ pump.round =< round

\* The buffers: before the first play there are none, and once the source is
\* gone it does not come back; a pass that has begun may still take free
\* buffers for it.
Buffers ==
    /\ stream.busy <=> pump.pc \notin Away
    /\ ~stream.opened =>
           al.source = "none" /\ stream.queue = <<>> /\ pump.pc = "idle"
    /\ al.source = "none" => al.ring = <<>>
    /\ stream.free + stream.inFlight =< NumBuffers
    /\ NoBufferLost
    /\ Bounded
    /\ al.played =< Len(al.ring)
    /\ al.source \in {"playing", "paused"} => al.played < Len(al.ring)

Reading == pump.pc \in {"read", "flag", "push"}

\* The chunk that is decoded next, or is being decoded.
Ahead ==
    IF Reading THEN pump.off
    ELSE IF stream.offset >= NumChunks THEN 0 ELSE stream.offset

FollowsAt(a, off) ==
    \/ off = a + 1
    \/ off = 0 /\ (a + 1 = NumChunks \/ a + 1 \in wave.empty)

\* A decode that a stop has overtaken finds nothing to follow.
Overtaken ==
    ~stream.aborted /\ Reading /\ pump.round # round => Pending = <<>>

\* What the pump adds next fits behind what is there.
Continued ==
    /\ ~stream.aborted /\ Pending # <<>>
    /\ Pending[Len(Pending)].round = round
    /\ Reading \/ ~stream.eof
    => FollowsAt(Pending[Len(Pending)].off, Ahead)

\* Once a chunk is read, the next decode goes on behind it.
Advancing ==
    pump.pc \in {"flag", "push"} /\ pump.round = round =>
        stream.offset = pump.off + 1

Order == InTrackOrder /\ Overtaken /\ Continued /\ Advancing

IInv == Types /\ Buffers /\ Order
-----------------------------------------------------------------------------
(***************************************************************************)
(* Facts about numbers and sequences.                                      *)
(***************************************************************************)
LEMMA Sizes ==
    NumBuffers \in Nat \ {0} /\ NumChunks \in Nat \ {0} /\ MaxCalls \in Nat
BY WaveAssumption

LEMMA MaxFact ==
    ASSUME NEW a \in Int, NEW b \in Int
    PROVE  Max({a, b}) = IF a >= b THEN a ELSE b
<1>1. \E x \in {a, b} : \A y \in {a, b} : x >= y
    OBVIOUS
<1>2. Max({a, b}) \in {a, b} /\ \A y \in {a, b} : Max({a, b}) >= y
    BY <1>1 DEF Max
<1> QED BY <1>2

LEMMA MinFact ==
    ASSUME NEW a \in Int, NEW b \in Int
    PROVE  Min({a, b}) = IF a =< b THEN a ELSE b
<1>1. \E x \in {a, b} : \A y \in {a, b} : x =< y
    OBVIOUS
<1>2. Min({a, b}) \in {a, b} /\ \A y \in {a, b} : Min({a, b}) =< y
    BY <1>1 DEF Min
<1> QED BY <1>2

\* A sequence of at most n elements.
LEMMA BoundedFact ==
    ASSUME NEW S, NEW q \in Seq(S), NEW n \in Nat, Len(q) =< n
    PROVE  q \in BoundedSeq(S, n)
<1>1. Len(q) \in 0 .. n /\ q \in [1 .. Len(q) -> S]
    BY LenProperties
<1> QED BY <1>1 DEF BoundedSeq, SeqOf

\* A part of a sequence.
LEMMA PartFact ==
    ASSUME NEW S, NEW q \in Seq(S), NEW m \in Nat, NEW n \in Nat, n =< Len(q)
    PROVE  /\ SubSeq(q, m + 1, n) \in Seq(S)
           /\ Len(SubSeq(q, m + 1, n)) = IF m < n THEN n - m ELSE 0
           /\ \A i \in 1 .. n - m : SubSeq(q, m + 1, n)[i] = q[i + m]
<1>1. Len(q) \in Nat /\ \A i \in m + 1 .. n : q[i] \in S
    BY ElementOfSeq, LenProperties
<1> DEFINE p == SubSeq(q, m + 1, n)
<1>2. /\ p \in Seq(S)
      /\ Len(p) = IF m + 1 =< n THEN n - (m + 1) + 1 ELSE 0
      /\ \A i \in 1 .. n - (m + 1) + 1 : p[i] = q[m + 1 + i - 1]
    BY <1>1, SubSeqProperties
<1> HIDE DEF p
<1>3. /\ p \in Seq(S) /\ Len(p) = IF m < n THEN n - m ELSE 0
      /\ \A i \in 1 .. n - m : p[i] = q[i + m]
    BY <1>2
<1> QED BY <1>3 DEF p

\* An element is appended to the second of two sequences.
LEMMA AppendBehind ==
    ASSUME NEW S, NEW s \in Seq(S), NEW t \in Seq(S), NEW x \in S
    PROVE  s \o Append(t, x) = Append(s \o t, x)
<1>1. <<x>> \in Seq(S)
    OBVIOUS
<1>2. s \o t \in Seq(S)
    BY ConcatProperties
<1>3. s \o (t \o <<x>>) = (s \o t) \o <<x>>
    BY <1>1, ConcatAssociative
<1>4. Append(t, x) = t \o <<x>> /\ Append(s \o t, x) = (s \o t) \o <<x>>
    BY <1>2, AppendIsConcat
<1> QED BY <1>3, <1>4

\* The first part of a queue behind another.
LEMMA BehindFact ==
    ASSUME NEW S, NEW r \in Seq(S), NEW q \in Seq(S), NEW k \in Nat, k =< Len(q)
    PROVE  LET t == r \o SubSeq(q, 1, k)
           IN  /\ t \in Seq(S) /\ Len(t) = Len(r) + k
               /\ \A i \in 1 .. Len(t) : t[i] = (r \o q)[i]
<1> DEFINE b == SubSeq(q, 1, k)
           t == r \o b
<1>1. Len(r) \in Nat /\ Len(q) \in Nat
    BY LenProperties
<1>2. /\ b \in Seq(S) /\ Len(b) = k /\ \A i \in 1 .. k : b[i] = q[i]
    <2>1. /\ SubSeq(q, 0 + 1, k) \in Seq(S)
          /\ Len(SubSeq(q, 0 + 1, k)) = IF 0 < k THEN k - 0 ELSE 0
          /\ \A i \in 1 .. k - 0 : SubSeq(q, 0 + 1, k)[i] = q[i + 0]
        BY <1>1, PartFact
    <2>2. SubSeq(q, 0 + 1, k) = b
        OBVIOUS
    <2> HIDE DEF b
    <2>3. b \in Seq(S) /\ Len(b) = k
        BY <2>1, <2>2
    <2>4. \A i \in 1 .. k : i + 0 = i /\ k - 0 = k
        OBVIOUS
    <2> QED BY <2>1, <2>2, <2>3, <2>4
<1> HIDE DEF b
<1>3. /\ t \in Seq(S) /\ Len(t) = Len(r) + k
      /\ \A i \in 1 .. Len(r) + k :
             t[i] = IF i <= Len(r) THEN r[i] ELSE b[i - Len(r)]
    <2>1. /\ t \in Seq(S) /\ Len(t) = Len(r) + Len(b)
          /\ \A i \in 1 .. Len(r) + Len(b) :
                 t[i] = IF i <= Len(r) THEN r[i] ELSE b[i - Len(r)]
        BY <1>2, ConcatProperties
    <2> QED BY <1>2, <2>1
<1>4. \A i \in 1 .. Len(r) + Len(q) :
          (r \o q)[i] = IF i <= Len(r) THEN r[i] ELSE q[i - Len(r)]
    BY ConcatProperties
<1> HIDE DEF t
<1>5. ASSUME NEW i \in 1 .. Len(t) PROVE t[i] = (r \o q)[i]
    <2>0. i \in 1 .. Len(r) + k /\ i \in 1 .. Len(r) + Len(q)
        BY <1>1, <1>3
    <2>1. CASE i =< Len(r)
        BY <1>3, <1>4, <2>0, <2>1
    <2>2. CASE ~(i =< Len(r))
        <3>1. i - Len(r) \in 1 .. k
            BY <1>1, <2>0, <2>2
        <3>2. t[i] = b[i - Len(r)] /\ (r \o q)[i] = q[i - Len(r)]
            BY <1>3, <1>4, <2>0, <2>2
        <3> QED BY <1>2, <3>1, <3>2
    <2> QED BY <2>1, <2>2
<1> QED BY <1>3, <1>5 DEF t, b

\* The rest of the queue behind them.
Rejoined(r, q, k) == (r \o SubSeq(q, 1, k)) \o SubSeq(q, k + 1, Len(q))

LEMMA RestFact ==
    ASSUME NEW S, NEW r \in Seq(S), NEW q \in Seq(S), NEW k \in Nat, k =< Len(q)
    PROVE  LET t == Rejoined(r, q, k)
           IN  /\ t \in Seq(S) /\ Len(t) = Len(r \o q)
               /\ \A i \in 1 .. Len(t) : t[i] = (r \o q)[i]
<1> DEFINE a == r \o SubSeq(q, 1, k)
           b == SubSeq(q, k + 1, Len(q))
           t == a \o b
<1>0. Rejoined(r, q, k) = t
    BY DEF Rejoined
<1>1. Len(r) \in Nat /\ Len(q) \in Nat
    BY LenProperties
<1>2. /\ a \in Seq(S) /\ Len(a) = Len(r) + k
      /\ \A i \in 1 .. Len(a) : a[i] = (r \o q)[i]
    BY BehindFact
<1>3. /\ b \in Seq(S) /\ Len(b) = Len(q) - k
      /\ \A i \in 1 .. Len(q) - k : b[i] = q[i + k]
    <2>1. /\ b \in Seq(S) /\ Len(b) = IF k < Len(q) THEN Len(q) - k ELSE 0
          /\ \A i \in 1 .. Len(q) - k : b[i] = q[i + k]
        BY <1>1, PartFact
    <2> HIDE DEF b
    <2>2. Len(b) = Len(q) - k
        BY <1>1, <2>1
    <2> QED BY <2>1, <2>2
<1>4. /\ Len(r \o q) = Len(r) + Len(q)
      /\ \A i \in 1 .. Len(r) + Len(q) :
             (r \o q)[i] = IF i <= Len(r) THEN r[i] ELSE q[i - Len(r)]
    BY ConcatProperties
<1> HIDE DEF a, b
<1>5. /\ t \in Seq(S) /\ Len(t) = Len(a) + Len(b)
      /\ \A i \in 1 .. Len(a) + Len(b) :
             t[i] = IF i <= Len(a) THEN a[i] ELSE b[i - Len(a)]
    BY <1>2, <1>3, ConcatProperties
<1> HIDE DEF t
<1>6. ASSUME NEW i \in 1 .. Len(t) PROVE t[i] = (r \o q)[i]
    <2>0. i \in 1 .. Len(a) + Len(b) /\ Len(a) \in Nat
        BY <1>1, <1>2, <1>5
    <2>1. CASE i =< Len(a)
        <3>1. i \in 1 .. Len(a)
            BY <2>0, <2>1
        <3> QED BY <1>2, <1>5, <2>0, <2>1, <3>1
    <2>2. CASE ~(i =< Len(a))
        <3>1. i - Len(a) \in 1 .. Len(q) - k
            BY <1>1, <1>2, <1>3, <2>0, <2>2
        <3>2. t[i] = b[i - Len(a)] /\ b[i - Len(a)] = q[i - Len(a) + k]
            BY <1>3, <1>5, <2>0, <2>2, <3>1
        <3>3. /\ i \in 1 .. Len(r) + Len(q) /\ ~(i =< Len(r))
              /\ i - Len(r) = i - Len(a) + k
            BY <1>1, <1>2, <3>1
        <3>4. (r \o q)[i] = q[i - Len(r)]
            BY <1>4, <3>3
        <3> QED BY <3>2, <3>3, <3>4
    <2> QED BY <2>1, <2>2
<1>7. Len(t) = Len(r \o q)
    BY <1>1, <1>2, <1>3, <1>4, <1>5
<1> QED BY <1>0, <1>5, <1>6, <1>7

-----------------------------------------------------------------------------
(***************************************************************************)
(* The types and the buffers.                                              *)
(***************************************************************************)
LEMMA InitBuffers == Init => Types /\ Buffers
<1> SUFFICES ASSUME Init PROVE Types /\ Buffers
    OBVIOUS
<1> USE WaveAssumption DEF Init
<1>1. /\ wave \in WaveType
    BY DEF NewWave, WaveType
<1>2. <<>> \in Seq(Chunk) /\ Len(<<>>) = 0
    BY EmptySeq
<1>3. Types
    BY <1>1, <1>2 DEF Types, StreamType, SourceType, PumpType, NoStream, NoSource,
                      IdlePump, PumpPlaces, Away
<1>4. Buffers
    BY <1>2 DEF Buffers, NoBufferLost, Bounded, Decoding, NoStream,
                NoSource, IdlePump, PumpPlaces, Away
<1> QED BY <1>3, <1>4

\* Nothing but the wave and the calls changes.
LEMMA WaveOnlyBuffers ==
    ASSUME Types, Buffers, UNCHANGED <<stream, al, pump, main, round>>,
           wave' \in WaveType, calls' \in {calls, calls + 1}, calls' =< MaxCalls
    PROVE  Types' /\ Buffers'
<1> USE Sizes
<1>1. Types'
    BY DEF Types
<1>2. Buffers'
    BY DEF Buffers, NoBufferLost, Bounded, Decoding
<1> QED BY <1>1, <1>2

\* The source is given new fields.
LEMMA SourceIs ==
    ASSUME NEW a \in SourceType
    PROVE  /\ a = [source |-> a.source, ring |-> a.ring, played |-> a.played]
           /\ a.source \in {"none", "initial", "playing", "paused", "stopped"}
           /\ a.ring \in Seq(Chunk) /\ Len(a.ring) \in Nat /\ a.played \in Nat
BY LenProperties DEF SourceType

LEMMA PlayBufferBuffers ==
    ASSUME Types, Buffers, PlayBuffer
    PROVE  Types' /\ Buffers'
<1> USE Sizes
<1>1. /\ Len(al.ring) \in Nat /\ al.played \in Nat /\ al.played < Len(al.ring)
      /\ al \in SourceType
    BY LenProperties DEF Types, SourceType, Buffers, PlayBuffer
<1>2. /\ al' = [source |-> IF al.played + 1 = Len(al.ring) THEN "stopped"
                           ELSE "playing",
                ring |-> al.ring, played |-> al.played + 1]
      /\ UNCHANGED <<wave, stream, pump, main, round, calls>>
    <2>1. al = [source |-> "playing", ring |-> al.ring, played |-> al.played]
        BY <1>1, SourceIs DEF PlayBuffer
    <2>2. CASE al.played + 1 = Len(al.ring)
        BY <1>1, <2>1, <2>2 DEF PlayBuffer
    <2>3. CASE al.played + 1 # Len(al.ring)
        BY <1>1, <2>1, <2>3 DEF PlayBuffer
    <2> QED BY <2>2, <2>3
<1>3. al' \in SourceType
    BY <1>1, <1>2 DEF Types, SourceType
<1>4. Types'
    BY <1>2, <1>3 DEF Types
<1>5. Buffers'
    <2>1. /\ al'.ring = al.ring /\ al'.source # "none" /\ al.source # "none"
          /\ al'.played =< Len(al.ring)
          /\ al'.source = "playing" => al'.played < Len(al.ring)
          /\ al'.source # "paused"
        BY <1>1, <1>2 DEF PlayBuffer
    <2> QED BY <2>1, <1>2
            DEF Buffers, NoBufferLost, Bounded, Decoding
<1> QED BY <1>4, <1>5

LEMMA PauseBuffers ==
    ASSUME Types, Buffers, Pause
    PROVE  Types' /\ Buffers'
<1> USE Sizes
<1>1. wave' \in WaveType /\ al \in SourceType
    BY DEF Types, WaveType, Pause
<1>2. /\ al' = [source |-> IF al.source = "playing" THEN "paused" ELSE al.source,
                ring |-> al.ring, played |-> al.played]
      /\ UNCHANGED <<stream, pump, main, round>>
      /\ calls' = calls + 1 /\ calls < MaxCalls
    BY <1>1, SourceIs DEF Pause, Call
<1>3. al' \in SourceType
    BY <1>1, <1>2 DEF SourceType
<1>4. Types'
    BY <1>1, <1>2, <1>3 DEF Types
<1>5. Buffers'
    BY <1>1, <1>2, SourceIs
    DEF Buffers, NoBufferLost, Bounded, Decoding
<1> QED BY <1>4, <1>5

\* The stream is given new fields.
LEMMA StreamIs ==
    ASSUME NEW t \in StreamType
    PROVE  /\ t = [opened |-> t.opened, offset |-> t.offset, eof |-> t.eof,
                   aborted |-> t.aborted, busy |-> t.busy,
                   inFlight |-> t.inFlight, free |-> t.free, queue |-> t.queue]
           /\ t.opened \in BOOLEAN /\ t.offset \in 0 .. NumChunks
           /\ t.eof \in BOOLEAN /\ t.aborted \in BOOLEAN /\ t.busy \in BOOLEAN
           /\ t.inFlight \in Nat /\ t.free \in Nat
           /\ t.queue \in Seq(Chunk) /\ Len(t.queue) \in Nat
BY LenProperties DEF StreamType

LEMMA PumpIs ==
    ASSUME NEW p \in PumpType
    PROVE  /\ p = [pc |-> p.pc, off |-> p.off, last |-> p.last, round |-> p.round]
           /\ p.pc \in PumpPlaces
           /\ p.off \in 0 .. NumChunks - 1 /\ p.last \in BOOLEAN
           /\ p.round \in 0 .. MaxCalls
BY DEF PumpType

LEMMA PumpGoes ==
    ASSUME NEW p \in PumpType,
           NEW pc \in PumpPlaces
    PROVE  LET q == [p EXCEPT !.pc = pc]
           IN  /\ q \in PumpType /\ q.pc = pc /\ q.off = p.off
               /\ q.last = p.last /\ q.round = p.round
BY DEF PumpType

\* What the steps of a decode that change no queue leave alone.
SameBuffers(t) ==
    /\ t \in StreamType
    /\ t.opened = stream.opened /\ t.busy = stream.busy /\ t.aborted = stream.aborted
    /\ t.inFlight = stream.inFlight /\ t.free = stream.free
    /\ t.queue = stream.queue

LEMMA StreamGoes ==
    ASSUME stream \in StreamType, NEW o \in 0 .. NumChunks, NEW e \in BOOLEAN
    PROVE  /\ SameBuffers(stream)
           /\ LET t == [stream EXCEPT !.offset = o]
              IN  SameBuffers(t) /\ t.offset = o /\ t.eof = stream.eof
           /\ LET t == [stream EXCEPT !.eof = e]
              IN  SameBuffers(t) /\ t.offset = stream.offset /\ t.eof = e
           /\ LET t == [stream EXCEPT !.offset = o, !.eof = e]
              IN  SameBuffers(t) /\ t.offset = o /\ t.eof = e
<1>1. SameBuffers(stream)
    BY DEF SameBuffers
<1>2. LET t == [stream EXCEPT !.offset = o]
      IN  SameBuffers(t) /\ t.offset = o /\ t.eof = stream.eof
    BY DEF SameBuffers, StreamType
<1>3. LET t == [stream EXCEPT !.eof = e]
      IN  SameBuffers(t) /\ t.offset = stream.offset /\ t.eof = e
    BY DEF SameBuffers, StreamType
<1>4. LET t == [stream EXCEPT !.offset = o, !.eof = e]
      IN  SameBuffers(t) /\ t.offset = o /\ t.eof = e
    BY DEF SameBuffers, StreamType
<1> QED BY <1>1, <1>2, <1>3, <1>4

\* What those steps do.
DecodeGoes ==
    /\ UNCHANGED <<wave, al, main, round, calls>>
    /\ pump.pc \in {"check", "read", "flag"}
    /\ pump'.pc \in {"read", "flag", "push", "done"}
    /\ pump' \in PumpType /\ pump'.round =< round
    /\ SameBuffers(stream')

LEMMA DecodeCheckIs ==
    ASSUME Types, DecodeCheck
    PROVE  /\ DecodeGoes
           /\ \/ /\ pump'.pc = "done"
                 /\ stream'.offset = stream.offset
                 /\ stream'.eof = stream.eof \/ stream'.eof
              \/ /\ pump'.pc = "read" /\ ~stream.eof /\ ~stream'.eof
                 /\ pump'.off = stream'.offset /\ pump'.round = round
                 /\ pump'.off = IF stream.offset >= NumChunks THEN 0
                                ELSE stream.offset
<1> USE Sizes
<1>1. /\ stream \in StreamType /\ pump \in PumpType /\ pump.round =< round
      /\ round \in 0 .. MaxCalls /\ stream.offset \in 0 .. NumChunks
      /\ UNCHANGED <<wave, al, main, round, calls>> /\ pump.pc = "check"
    BY DEF Types, DecodeCheck, StreamType
<1> DEFINE off == IF stream.offset >= NumChunks THEN 0 ELSE stream.offset
           last == off + 1 >= NumChunks /\ ~wave.looping
<1>2. off \in 0 .. NumChunks - 1 /\ last \in BOOLEAN
    BY <1>1
<1>3. \/ /\ pump' = [pump EXCEPT !.pc = "done"] /\ UNCHANGED stream
      \/ /\ pump' = [pump EXCEPT !.pc = "done"]
         /\ stream' = [stream EXCEPT !.eof = TRUE]
      \/ /\ pump' = [pc |-> "read", off |-> off, round |-> round, last |-> last]
         /\ stream' = [stream EXCEPT !.offset = off] /\ ~stream.eof
    BY DEF DecodeCheck
<1> HIDE DEF off, last
<1>4. CASE pump' = [pump EXCEPT !.pc = "done"] /\ UNCHANGED stream
    <2>1. pump' \in PumpType /\ pump'.pc = "done" /\ pump'.round = pump.round
        BY <1>1, <1>4, PumpGoes DEF PumpPlaces
    <2>2. SameBuffers(stream') /\ stream'.offset = stream.offset
              /\ stream'.eof = stream.eof
        BY <1>1, <1>4 DEF SameBuffers
    <2> QED BY <1>1, <2>1, <2>2 DEF DecodeGoes
<1>5. CASE /\ pump' = [pump EXCEPT !.pc = "done"]
           /\ stream' = [stream EXCEPT !.eof = TRUE]
    <2>1. pump' \in PumpType /\ pump'.pc = "done" /\ pump'.round = pump.round
        BY <1>1, <1>5, PumpGoes DEF PumpPlaces
    <2>2. SameBuffers(stream') /\ stream'.offset = stream.offset /\ stream'.eof
        BY <1>1, <1>5, StreamGoes
    <2> QED BY <1>1, <2>1, <2>2 DEF DecodeGoes
<1>6. CASE /\ pump' = [pc |-> "read", off |-> off, round |-> round, last |-> last]
           /\ stream' = [stream EXCEPT !.offset = off] /\ ~stream.eof
    <2>1. /\ pump' \in PumpType /\ pump'.pc = "read" /\ pump'.off = off
          /\ pump'.round = round
        BY <1>1, <1>2, <1>6 DEF PumpType, PumpPlaces, Away
    <2>2. off \in 0 .. NumChunks
        BY <1>2
    <2>3. SameBuffers(stream') /\ stream'.offset = off /\ stream'.eof = stream.eof
        BY <1>1, <1>6, <2>2, StreamGoes
    <2> QED BY <1>1, <1>6, <2>1, <2>3 DEF DecodeGoes, off
<1> QED BY <1>3, <1>4, <1>5, <1>6

LEMMA DecodeAdvanceIs ==
    ASSUME Types, DecodeAdvance
    PROVE  /\ DecodeGoes
           /\ pump.pc = "read" /\ pump'.pc \in {"flag", "push"}
           /\ pump'.off = pump.off /\ pump'.round = pump.round
           /\ stream'.offset = pump.off + 1 /\ stream'.eof = stream.eof
<1> USE Sizes
<1>1. /\ stream \in StreamType /\ pump \in PumpType /\ pump.round =< round
      /\ pump.off \in 0 .. NumChunks - 1
      /\ UNCHANGED <<wave, al, main, round, calls>> /\ pump.pc = "read"
    BY DEF Types, DecodeAdvance, PumpType
<1>2. pump.off + 1 \in 0 .. NumChunks
    BY <1>1
<1>3. SameBuffers(stream') /\ stream'.offset = pump.off + 1
          /\ stream'.eof = stream.eof
    BY <1>1, <1>2, StreamGoes DEF DecodeAdvance, Advanced
<1>4. PICK pc \in {"flag", "push"} : pump' = [pump EXCEPT !.pc = pc]
    BY DEF DecodeAdvance
<1> HIDE Sizes
<1>5. pc \in PumpPlaces
    BY DEF PumpPlaces
<1>6. /\ pump' \in PumpType /\ pump'.pc = pc
      /\ pump'.off = pump.off /\ pump'.round = pump.round
    BY <1>1, <1>4, <1>5, PumpGoes, Zenon
<1> QED BY <1>1, <1>3, <1>6 DEF DecodeGoes

LEMMA DecodeNothingIs ==
    ASSUME Types, DecodeNothing
    PROVE  /\ DecodeGoes
           /\ pump.pc = "read" /\ pump.off \in wave.empty /\ pump'.pc = "done"
           /\ stream'.eof \/ stream'.offset = 0
<1> USE Sizes
<1>1. /\ stream \in StreamType /\ pump \in PumpType /\ pump.round =< round
      /\ UNCHANGED <<wave, al, main, round, calls>> /\ pump.pc = "read"
      /\ pump.off \in wave.empty /\ wave.looping \in BOOLEAN
    BY DEF Types, DecodeNothing, WaveType
<1>2. SameBuffers(stream') /\ (stream'.offset = 0 \/ stream'.eof)
    <2>1. CASE wave.looping
        <3>1. stream' = [stream EXCEPT !.offset = 0, !.eof = stream.eof]
            BY <1>1, <2>1, StreamIs DEF DecodeNothing
        <3>2. stream.eof \in BOOLEAN /\ 0 \in 0 .. NumChunks
            BY <1>1, StreamIs
        <3> QED BY <3>1, <3>2, <1>1, StreamGoes
    <2>2. CASE ~wave.looping
        <3>1. stream' = [stream EXCEPT !.offset = stream.offset, !.eof = TRUE]
            BY <1>1, <2>2, StreamIs DEF DecodeNothing
        <3> QED BY <3>1, <1>1, StreamIs DEF SameBuffers, StreamType
    <2> QED BY <2>1, <2>2
<1>3. SameBuffers(stream')
    BY <1>2
<1>4. pump' = [pump EXCEPT !.pc = "done"]
    BY DEF DecodeNothing
<1> QED BY <1>1, <1>2, <1>3, <1>4, PumpGoes DEF DecodeGoes, PumpPlaces, Away

LEMMA DecodeFlagIs ==
    ASSUME Types, DecodeFlag
    PROVE  /\ DecodeGoes
           /\ pump.pc = "flag" /\ pump'.pc = "push"
           /\ pump'.off = pump.off /\ pump'.round = pump.round
           /\ stream'.offset = stream.offset
<1>1. /\ stream \in StreamType /\ pump \in PumpType /\ pump.round =< round
      /\ UNCHANGED <<wave, al, main, round, calls>> /\ pump.pc = "flag"
      /\ stream' = [stream EXCEPT !.eof = TRUE]
      /\ pump' = [pump EXCEPT !.pc = "push"]
    BY DEF Types, DecodeFlag
<1>2. 0 \in 0 .. NumChunks
    BY Sizes
<1>3. SameBuffers(stream') /\ stream'.offset = stream.offset
    BY <1>1, <1>2, StreamGoes
<1> QED BY <1>1, <1>3, PumpGoes DEF DecodeGoes, PumpPlaces, Away

LEMMA DecodeBuffers ==
    ASSUME Types, Buffers, DecodeCheck \/ DecodeAdvance \/ DecodeNothing \/ DecodeFlag
    PROVE  Types' /\ Buffers'
<1> USE Sizes
<1>1. DecodeGoes
    BY DecodeCheckIs, DecodeAdvanceIs, DecodeNothingIs, DecodeFlagIs
<1>2. Types'
    BY <1>1 DEF Types, DecodeGoes, SameBuffers
<1>3. al \in SourceType /\ stream \in StreamType
    BY DEF Types
<1>4. Buffers'
    <2>1. stream'.busy <=> pump'.pc \notin Away
        BY <1>1 DEF Buffers, DecodeGoes, SameBuffers, PumpPlaces, Away
    <2>2. Decoding' =< Decoding /\ Decoding' \in Nat /\ Decoding \in Nat
        BY <1>1 DEF DecodeGoes, Decoding
    <2>3. Bounded'
        BY <1>1, <1>3, <2>2, SourceIs, StreamIs
        DEF Buffers, Bounded, DecodeGoes, SameBuffers
    <2> QED BY <1>1, <2>1, <2>3
            DEF Buffers, NoBufferLost, DecodeGoes, SameBuffers
<1> QED BY <1>2, <1>4

LEMMA DecodePushBuffers ==
    ASSUME Types, Buffers, DecodePush
    PROVE  Types' /\ Buffers'
<1> USE Sizes
<1> DEFINE c == [off |-> pump.off, round |-> pump.round]
<1>1. /\ al \in SourceType /\ stream \in StreamType /\ pump \in PumpType
      /\ pump.pc = "push" /\ UNCHANGED <<wave, al, main, round, calls>>
    BY DEF Types, DecodePush
<1>2. c \in Chunk
    BY <1>1, PumpIs DEF Chunk
<1>3. Append(stream.queue, c) \in Seq(Chunk)
          /\ Len(Append(stream.queue, c)) = Len(stream.queue) + 1
    BY <1>1, <1>2, StreamIs, AppendProperties
<1>4. /\ stream' = [stream EXCEPT !.queue = Append(stream.queue, c)]
      /\ pump' = [pump EXCEPT !.pc = "done"]
    BY DEF DecodePush
<1> HIDE DEF c
<1>5. /\ stream' \in StreamType /\ stream'.queue = Append(stream.queue, c)
      /\ stream'.opened = stream.opened /\ stream'.busy = stream.busy
      /\ stream'.inFlight = stream.inFlight /\ stream'.free = stream.free
    BY <1>1, <1>3, <1>4 DEF StreamType
<1>6. /\ pump' \in PumpType /\ pump'.pc = "done" /\ pump'.round = pump.round
    BY <1>1, <1>4 DEF PumpType, PumpPlaces, Away
<1>7. Types'
    BY <1>1, <1>5, <1>6 DEF Types
<1>8. Buffers'
    <2>1. stream'.busy <=> pump'.pc \notin Away
        BY <1>1, <1>5, <1>6 DEF Buffers, PumpPlaces, Away
    <2>2. Decoding' = 0 /\ Decoding = 1
        BY <1>1, <1>6 DEF Decoding
    <2>3. Bounded'
        <3>1. Len(stream'.queue) = Len(stream.queue) + 1 /\ al' = al
            BY <1>1, <1>3, <1>5
        <3>2. Len(stream.queue) + 1 + Len(al.ring) =< NumBuffers
                  /\ Len(stream.queue) \in Nat /\ Len(al.ring) \in Nat
            BY <1>1, <2>2, SourceIs, StreamIs DEF Buffers, Bounded
        <3>3. Len(stream'.queue) + 0 + Len(al'.ring)
                  = Len(stream.queue) + 1 + Len(al.ring)
            BY <3>1, <3>2
        <3> QED BY <2>2, <3>2, <3>3 DEF Bounded
    <2>4. stream'.opened
        BY <1>1, <1>5 DEF Buffers, Away
    <2> QED BY <1>1, <1>5, <1>6, <2>1, <2>3, <2>4
            DEF Buffers, NoBufferLost
<1> QED BY <1>7, <1>8

LEMMA DecodeDoneBuffers ==
    ASSUME Types, Buffers, DecodeDone
    PROVE  Types' /\ Buffers'
<1> USE Sizes
<1>1. /\ al \in SourceType /\ stream \in StreamType /\ pump \in PumpType
      /\ pump.pc = "done" /\ UNCHANGED <<wave, al, main, round, calls>>
    BY DEF Types, DecodeDone
<1>2. /\ stream' = [stream EXCEPT !.busy = FALSE]
      /\ pump' = [pc |-> "idle", off |-> 0, last |-> FALSE, round |-> 0]
    BY DEF DecodeDone, NotBusy, IdlePump
<1>3. /\ stream' \in StreamType /\ stream'.queue = stream.queue
      /\ stream'.opened = stream.opened /\ ~stream'.busy
      /\ stream'.inFlight = stream.inFlight /\ stream'.free = stream.free
    BY <1>1, <1>2 DEF StreamType
<1>4. pump' \in PumpType /\ pump'.pc = "idle" /\ pump'.round = 0
    BY <1>2 DEF PumpType, PumpPlaces, Away
<1>5. Types'
    BY <1>1, <1>3, <1>4 DEF Types
<1>6. Buffers'
    BY <1>1, <1>3, <1>4, SourceIs, StreamIs
    DEF Buffers, NoBufferLost, Bounded, Decoding, PumpPlaces, Away
<1> QED BY <1>5, <1>6

LEMMA DestroyBuffers ==
    ASSUME Types, Buffers, Destroy
    PROVE  /\ Types' /\ Buffers'
           /\ stream'.aborted /\ stream'.queue = stream.queue
           /\ stream'.offset = stream.offset
<1>1. /\ al \in SourceType /\ stream \in StreamType
      /\ UNCHANGED <<wave, al, pump, round>> /\ calls' = calls + 1
      /\ calls < MaxCalls /\ main' = "closing"
      /\ stream' = [stream EXCEPT !.aborted = TRUE]
    BY DEF Types, Destroy, Call
<1>2. /\ stream' \in StreamType /\ stream'.queue = stream.queue
      /\ stream'.opened = stream.opened /\ stream'.busy = stream.busy
      /\ stream'.inFlight = stream.inFlight /\ stream'.free = stream.free
      /\ stream'.aborted /\ stream'.offset = stream.offset
    BY <1>1 DEF StreamType
<1>3. Types'
    BY <1>1, <1>2, Sizes DEF Types
<1>4. Buffers'
    <2>1. Bounded'
        BY <1>1, <1>2 DEF Buffers, Bounded, Decoding
    <2>2. stream'.busy <=> pump'.pc \notin Away
        BY <1>1, <1>2 DEF Buffers
    <2> QED BY <1>1, <1>2, <2>1, <2>2 DEF Buffers, NoBufferLost
<1> QED BY <1>2, <1>3, <1>4

\* The source is deleted.
LEMMA NoSourceBuffers ==
    ASSUME Types, Buffers, UNCHANGED <<stream, pump>>, al' = NoSource
    PROVE  /\ al' \in SourceType /\ al'.ring = <<>>
           /\ Buffers'
<1>1. /\ al \in SourceType /\ stream \in StreamType
      /\ al' = [source |-> "none", ring |-> <<>>, played |-> 0]
    BY DEF Types, NoSource
<1>2. /\ <<>> \in Seq(Chunk) /\ Len(<<>>) = 0
    BY EmptySeq
<1>3. al' \in SourceType
    BY <1>1, <1>2 DEF SourceType
<1>4. Bounded'
    <2>1. /\ Len(stream.queue) + Decoding + Len(al.ring) =< NumBuffers
          /\ Decoding' = Decoding /\ Decoding \in Nat
          /\ Len(al.ring) \in Nat /\ Len(stream.queue) \in Nat
        BY <1>1, SourceIs, StreamIs DEF Buffers, Bounded, Decoding
    <2>2. Len(al'.ring) = 0 /\ stream' = stream
        BY <1>1, <1>2
    <2>3. Len(stream.queue) + Decoding + 0 =< NumBuffers
        <3>1. \A a, b, c \in Nat : a + b + c =< NumBuffers => a + b + 0 =< NumBuffers
            BY Sizes
        <3> QED BY <2>1, <3>1
    <2> QED BY <2>1, <2>2, <2>3 DEF Bounded
<1>5. Buffers'
    BY <1>1, <1>2, <1>4 DEF Buffers, NoBufferLost
<1> QED BY <1>1, <1>3, <1>5

LEMMA UnloadBuffers ==
    ASSUME Types, Buffers, Unload
    PROVE  Types' /\ Buffers'
<1>1. /\ al \in SourceType /\ main' = "run" /\ (al' = NoSource \/ UNCHANGED al)
      /\ UNCHANGED <<stream, pump, round, calls>>
    BY DEF Types, Unload
<1>2. wave' \in WaveType
    <2>1. wave \in WaveType /\ wave' = [wave EXCEPT
              !.loaded = FALSE,
              !.terminated = @ /\ main = "unload",
              !.everPlayed = @ \/ main = "restart"]
        BY DEF Types, Unload
    <2>2. CASE main = "unload"
        BY <2>1, <2>2, ZenonT(40) DEF WaveType
    <2>3. CASE main # "unload"
        BY <2>1, <2>3 DEF WaveType
    <2> QED BY <2>2, <2>3
<1>3. CASE al' = NoSource
    BY <1>1, <1>2, <1>3, NoSourceBuffers DEF Types
<1>4. CASE UNCHANGED al
    <2>1. Types'
        BY <1>1, <1>2, <1>4 DEF Types
    <2>2. Buffers'
        BY <1>1, <1>4 DEF Buffers, NoBufferLost, Bounded, Decoding
    <2> QED BY <2>1, <2>2
<1> QED BY <1>1, <1>3, <1>4

LEMMA FreeBuffers ==
    ASSUME Types, Buffers, Free
    PROVE  Types' /\ Buffers'
<1>1. /\ main' = "gone" /\ al' = NoSource
      /\ UNCHANGED <<wave, stream, pump, round, calls>>
    BY DEF Free
<1> QED BY <1>1, NoSourceBuffers DEF Types

\* Nothing but the place of the main thread changes.
LEMMA WaitDecodeBuffers ==
    ASSUME Types, Buffers, WaitDecode
    PROVE  Types' /\ Buffers'
<1>1. UNCHANGED <<wave, stream, al, pump, round, calls>> /\ main' = "leaving"
    BY DEF WaitDecode
<1>2. Types'
    BY <1>1 DEF Types
<1>3. Buffers'
    BY <1>1 DEF Buffers, NoBufferLost, Bounded, Decoding
<1> QED BY <1>2, <1>3

\* The source is stopped and the stream reset, or nothing but the wave changes.
LEMMA DoStopIs ==
    ASSUME Types, Buffers, NEW w \in WaveType, w.empty = wave.empty, DoStop(w)
    PROVE  /\ wave' \in WaveType /\ wave'.empty = wave.empty
           /\ \/ UNCHANGED <<stream, al, round>>
              \/ /\ al.source # "none" /\ al' \in SourceType
                 /\ al'.source = "stopped" /\ al'.ring = <<>> /\ al'.played = 0
                 /\ stream' \in StreamType
                 /\ stream'.free = NumBuffers /\ stream'.inFlight = 0
                 /\ stream'.queue = <<>> /\ stream'.opened = stream.opened
                 /\ stream'.busy = stream.busy
                 /\ round' = round + 1
<1>1. wave' \in WaveType /\ wave'.empty = wave.empty
    <2>1. wave' = [w EXCEPT !.want = FALSE, !.intent = FALSE, !.paused = FALSE,
                            !.playing = FALSE]
        BY DEF DoStop
    <2> QED BY <2>1 DEF WaveType
<1>2. \/ UNCHANGED <<stream, al, round>>
      \/ /\ al.source # "none"
         /\ al' = [source |-> "stopped", ring |-> <<>>, played |-> 0]
         /\ stream' = [stream EXCEPT
                   !.free = Drained, !.inFlight = 0,
                   !.queue = <<>>, !.offset = 0, !.eof = FALSE]
         /\ round' = round + 1
    BY DEF DoStop
<1>3. CASE /\ al.source # "none"
           /\ al' = [source |-> "stopped", ring |-> <<>>, played |-> 0]
           /\ stream' = [stream EXCEPT
                   !.free = Drained, !.inFlight = 0,
                   !.queue = <<>>, !.offset = 0, !.eof = FALSE]
           /\ round' = round + 1
    <2>1. Drained = NumBuffers
        BY <1>3 DEF Drained, Buffers, NoBufferLost
    <2>2. <<>> \in Seq(Chunk)
        BY EmptySeq
    <2>3. /\ al' \in SourceType /\ al'.source = "stopped" /\ al'.ring = <<>>
          /\ al'.played = 0
        BY <1>3, <2>2 DEF SourceType
    <2>4. stream \in StreamType /\ NumBuffers \in Nat /\ 0 \in 0 .. NumChunks
        BY Sizes DEF Types
    <2>5. stream' = [stream EXCEPT !.free = NumBuffers, !.inFlight = 0,
                         !.queue = <<>>, !.offset = 0, !.eof = FALSE]
        BY <1>3, <2>1
    <2>6. /\ stream' \in StreamType
          /\ stream'.free = NumBuffers /\ stream'.inFlight = 0
          /\ stream'.queue = <<>> /\ stream'.opened = stream.opened
          /\ stream'.busy = stream.busy
        BY <2>2, <2>4, <2>5 DEF StreamType
    <2> QED BY <1>1, <1>3, <2>3, <2>6
<1> QED BY <1>1, <1>2, <1>3

LEMMA DoStopBuffers ==
    ASSUME Types, Buffers, NEW w \in WaveType, w.empty = wave.empty, DoStop(w),
           UNCHANGED pump, calls' = calls + 1, calls < MaxCalls,
           main' \in {"unload", "restart", "replay"}
    PROVE  Types' /\ Buffers'
<1>1. CASE UNCHANGED <<stream, al, round>>
    <2>1. Types'
        BY <1>1, DoStopIs, Sizes DEF Types
    <2>2. Buffers'
        BY <1>1 DEF Buffers, NoBufferLost, Bounded, Decoding
    <2> QED BY <2>1, <2>2
<1>2. CASE /\ al.source # "none" /\ al' \in SourceType
           /\ al'.source = "stopped" /\ al'.ring = <<>> /\ al'.played = 0
           /\ stream' \in StreamType
           /\ stream'.free = NumBuffers /\ stream'.inFlight = 0
           /\ stream'.queue = <<>> /\ stream'.opened = stream.opened
           /\ stream'.busy = stream.busy
           /\ round' = round + 1
    <2>1. Types'
        BY <1>2, DoStopIs, Sizes DEF Types, PumpType
    <2>2. Len(<<>>) = 0 /\ NumBuffers \in Nat \ {0}
        BY EmptySeq, Sizes
    <2>3. Bounded'
        <3>1. Decoding' \in {0, 1} /\ Len(stream'.queue) = 0 /\ Len(al'.ring) = 0
            BY <1>2, <2>2 DEF Decoding
        <3>2. Decoding' =< NumBuffers
            BY <2>2, <3>1
        <3> QED BY <3>1, <3>2 DEF Bounded
    <2>4. Buffers'
        BY <1>2, <2>2, <2>3 DEF Buffers, NoBufferLost
    <2> QED BY <2>1, <2>4
<1> QED BY <1>1, <1>2, DoStopIs

\* The steps of a pass.  It begins...
LEMMA PumpEnterIs ==
    ASSUME Types, Buffers, PumpEnter
    PROVE  /\ UNCHANGED <<wave, stream, al, main, round, calls>>
           /\ pump.pc = "idle" /\ pump'.pc = "drain" /\ pump'.round = pump.round
           /\ pump' \in PumpType /\ ~stream.aborted /\ stream.opened
<1>1. /\ UNCHANGED <<wave, stream, al, main, round, calls>>
      /\ pump.pc = "idle" /\ pump' = [pump EXCEPT !.pc = "drain"]
      /\ ~stream.aborted /\ stream.opened /\ pump \in PumpType
    BY DEF PumpEnter, Buffers, Types
<1>2. "drain" \in PumpPlaces
    BY DEF PumpPlaces, Away
<1> QED BY <1>1, <1>2, PumpGoes

\* ... recycles n buffers...
Drains(n) ==
    /\ UNCHANGED <<wave, main, round, calls>>
    /\ n \in Nat /\ n =< Len(al.ring)
    /\ al.source \in {"playing", "paused"} => n < Len(al.ring)
    /\ al' \in SourceType /\ al'.source = al.source /\ al'.played = 0
    /\ al'.ring = SubSeq(al.ring, n + 1, Len(al.ring))
    /\ stream' \in StreamType /\ stream'.opened = stream.opened
    /\ stream'.offset = stream.offset /\ stream'.eof = stream.eof
    /\ stream'.aborted = stream.aborted /\ stream'.queue = stream.queue
    /\ stream'.busy = stream.busy /\ stream.inFlight - n \in Nat
    /\ stream'.free = stream.free + n /\ stream'.inFlight = stream.inFlight - n
    /\ pump.pc = "drain" /\ pump'.pc = "upload" /\ pump'.round = pump.round
    /\ pump' \in PumpType

LEMMA PumpDrainIs ==
    ASSUME Types, Buffers, PumpDrain
    PROVE  \E n \in Nat : Drains(n)
<1> USE Sizes
<1>1. /\ al \in SourceType /\ stream \in StreamType /\ pump \in PumpType
      /\ pump.pc = "drain" /\ UNCHANGED <<wave, main, round, calls>>
      /\ pump' = [pump EXCEPT !.pc = "upload"]
    BY DEF Types, PumpDrain
<1>2. /\ Len(al.ring) \in Nat /\ al.ring \in Seq(Chunk) /\ al.played \in Nat
      /\ stream.free \in Nat /\ stream.inFlight \in Nat
    BY <1>1, SourceIs, StreamIs
<1>3. PICK n : n = Processed
    OBVIOUS
<1>4. /\ n \in Nat /\ n =< Len(al.ring)
      /\ al.source \in {"playing", "paused"} => n < Len(al.ring)
      /\ n =< stream.inFlight
    <2>1. CASE al.source = "none"
        <3>1. Len(al.ring) = 0
            BY <2>1, EmptySeq DEF Buffers
        <3> QED BY <1>2, <1>3, <2>1, <3>1 DEF Processed, Buffers
    <2>2. CASE al.source # "none"
        <3>1. stream.inFlight = Len(al.ring)
            BY <2>2 DEF Buffers, NoBufferLost
        <3>2. al.played =< Len(al.ring)
              /\ (al.source \in {"playing", "paused"} => al.played < Len(al.ring))
            BY DEF Buffers
        <3> QED BY <1>2, <1>3, <2>2, <3>1, <3>2 DEF Processed
    <2> QED BY <2>1, <2>2
<1>5. Max({0, stream.inFlight - n}) = stream.inFlight - n
          /\ stream.inFlight - n \in Nat
    <2>1. stream.inFlight - n \in Nat
        BY <1>2, <1>4
    <2>2. Max({0, stream.inFlight - n})
              = IF 0 >= stream.inFlight - n THEN 0 ELSE stream.inFlight - n
        BY <2>1, MaxFact
    <2> QED BY <2>1, <2>2
<1> DEFINE ring == SubSeq(al.ring, n + 1, Len(al.ring))
           f == stream.free + n
           i == stream.inFlight - n
<1>6. ring \in Seq(Chunk) /\ f \in Nat /\ i \in Nat
    <2>1. ring \in Seq(Chunk)
        BY <1>2, <1>4, PartFact
    <2> QED BY <1>2, <1>4, <1>5, <2>1
<1>7. /\ al' = [al EXCEPT !.ring = ring, !.played = 0]
      /\ stream' = [stream EXCEPT !.free = f, !.inFlight = i]
    BY <1>3, <1>5 DEF PumpDrain, Recycled
<1> HIDE DEF ring, f, i
<1>8. /\ al' \in SourceType /\ al'.source = al.source /\ al'.played = 0
      /\ al'.ring = ring
    BY <1>1, <1>6, <1>7 DEF SourceType
<1>9. /\ stream' \in StreamType /\ stream'.opened = stream.opened
      /\ stream'.offset = stream.offset /\ stream'.eof = stream.eof
      /\ stream'.aborted = stream.aborted /\ stream'.queue = stream.queue
      /\ stream'.busy = stream.busy
      /\ stream'.free = f /\ stream'.inFlight = i
    BY <1>1, <1>6, <1>7 DEF StreamType
<1>10. "upload" \in PumpPlaces
    BY DEF PumpPlaces, Away
<1>11. pump'.pc = "upload" /\ pump'.round = pump.round /\ pump' \in PumpType
    BY <1>1, <1>10, PumpGoes
<1>12. Drains(n)
    BY <1>1, <1>4, <1>5, <1>8, <1>9, <1>11 DEF Drains, ring, f, i
<1> QED BY <1>4, <1>12

\* ... and gives the source k chunks, if it is still there; d leave the queue,
\* and another decode begins only when there is room for it.
Uploads(fails, k, d) ==
    /\ UNCHANGED <<wave, main, round, calls>>
    /\ k \in Nat /\ d \in Nat /\ k =< d /\ d =< Len(stream.queue)
    /\ k =< stream.free /\ (~fails => k = d)
    /\ al' \in SourceType /\ al'.source = al.source /\ al'.played = al.played
    /\ al'.ring = IF al.source = "none" THEN al.ring
                  ELSE al.ring \o SubSeq(stream.queue, 1, k)
    /\ stream' \in StreamType /\ stream'.opened = stream.opened
    /\ stream'.offset = stream.offset /\ stream'.eof = stream.eof
    /\ (stream'.aborted <=> stream.aborted \/ fails)
    /\ stream'.queue = SubSeq(stream.queue, d + 1, Len(stream.queue))
    /\ stream'.free = stream.free - k /\ stream'.inFlight = stream.inFlight + k
    /\ pump.pc = "upload" /\ pump'.round = pump.round /\ pump' \in PumpType
    /\ \/ pump'.pc = "idle" /\ ~stream'.busy
       \/ /\ pump'.pc = "check" /\ stream'.busy
          /\ Len(stream'.queue) + stream'.inFlight < NumBuffers

LEMMA PumpUploadIs ==
    ASSUME Types, Buffers, NEW fails \in BOOLEAN, PumpUpload(fails)
    PROVE  \E k, d \in Nat : Uploads(fails, k, d)
<1> USE Sizes
<1>1. /\ al \in SourceType /\ stream \in StreamType /\ pump \in PumpType
      /\ pump.pc = "upload" /\ UNCHANGED <<wave, main, round, calls>>
      /\ ~stream.busy
    BY DEF Types, PumpUpload, Buffers, Away
<1>2. /\ stream.free \in Nat /\ stream.inFlight \in Nat
      /\ Len(stream.queue) \in Nat /\ stream.queue \in Seq(Chunk)
      /\ Len(al.ring) \in Nat /\ al.ring \in Seq(Chunk)
      /\ stream.aborted \in BOOLEAN /\ stream.eof \in BOOLEAN
    BY <1>1, SourceIs, StreamIs
<1> DEFINE most == Min({stream.free, Len(stream.queue)})
<1>3. /\ most \in Nat /\ most =< stream.free /\ most =< Len(stream.queue)
    <2>1. most = IF stream.free =< Len(stream.queue) THEN stream.free
                 ELSE Len(stream.queue)
        BY <1>2, MinFact
    <2> HIDE DEF most
    <2> QED BY <1>2, <2>1
<1>4. PICK k \in IF fails THEN 0 .. most - 1 ELSE {most} :
          LET queue == SubSeq(stream.queue, (IF fails THEN k + 2 ELSE k + 1),
                              Len(stream.queue))
              decode == /\ ~fails /\ ~stream.eof /\ ~stream.busy
                        /\ Len(queue) + (stream.inFlight + k) < NumBuffers
          IN  /\ al' = Queued(al, SubSeq(stream.queue, 1, k))
              /\ stream' = [stream EXCEPT
                     !.free = @ - k, !.inFlight = @ + k, !.queue = queue,
                     !.aborted = @ \/ fails, !.busy = @ \/ decode]
              /\ pump' = [pump EXCEPT !.pc = IF decode THEN "check" ELSE "idle"]
    BY DEF PumpUpload, Room
<1> HIDE DEF most
<1> DEFINE d == IF fails THEN k + 1 ELSE k
           queue == SubSeq(stream.queue, d + 1, Len(stream.queue))
           f == stream.free - k
           i == stream.inFlight + k
           aborted == stream.aborted \/ fails
           decode == ~fails /\ ~stream.eof /\ Len(queue) + i < NumBuffers
<1>5. /\ k \in Nat /\ d \in Nat /\ k =< d /\ (~fails => k = d)
      /\ d =< Len(stream.queue) /\ k =< stream.free /\ k =< Len(stream.queue)
      /\ f \in Nat /\ i \in Nat /\ aborted \in BOOLEAN /\ decode \in BOOLEAN
      /\ d + 1 = IF fails THEN k + 2 ELSE k + 1
    BY <1>2, <1>3
<1>6. queue \in Seq(Chunk) /\ Len(queue) \in Nat
    <2>1. queue \in Seq(Chunk)
        BY <1>2, <1>5, PartFact
    <2> QED BY <2>1, LenProperties
<1>7. /\ al' \in SourceType /\ al'.source = al.source /\ al'.played = al.played
      /\ al'.ring = IF al.source = "none" THEN al.ring
                    ELSE al.ring \o SubSeq(stream.queue, 1, k)
    <2> DEFINE ring == al.ring \o SubSeq(stream.queue, 1, k)
    <2>1. ring \in Seq(Chunk)
        BY <1>2, <1>5, BehindFact
    <2>2. al' = IF al.source = "none" THEN al ELSE [al EXCEPT !.ring = ring]
        BY <1>4 DEF Queued
    <2> HIDE DEF ring
    <2>3. CASE al.source = "none"
        BY <1>1, <2>2, <2>3
    <2>4. CASE al.source # "none"
        BY <1>1, <2>1, <2>2, <2>4 DEF SourceType, ring
    <2> QED BY <2>3, <2>4
<1>8. /\ stream' = [stream EXCEPT !.free = f, !.inFlight = i, !.queue = queue,
                                  !.aborted = aborted, !.busy = decode]
      /\ pump' = [pump EXCEPT !.pc = IF decode THEN "check" ELSE "idle"]
    <2>1. d + 1 = IF fails THEN k + 2 ELSE k + 1
        BY <1>5
    <2>2. queue = SubSeq(stream.queue, (IF fails THEN k + 2 ELSE k + 1),
                         Len(stream.queue))
        BY <2>1
    <2>3. /\ stream' = [stream EXCEPT
                 !.free = f, !.inFlight = i, !.queue = queue,
                 !.aborted = aborted,
                 !.busy = @ \/ (/\ ~fails /\ ~stream.eof /\ ~stream.busy
                                /\ Len(queue) + i < NumBuffers)]
          /\ pump' = [pump EXCEPT !.pc =
                 IF /\ ~fails /\ ~stream.eof /\ ~stream.busy
                    /\ Len(queue) + i < NumBuffers
                 THEN "check" ELSE "idle"]
        BY <1>4, <2>2
    <2> HIDE DEF f, i, queue, aborted, d
    <2>4. (stream.busy \/ (/\ ~fails /\ ~stream.eof /\ ~stream.busy
                           /\ Len(queue) + i < NumBuffers)) = decode
        BY <1>1
    <2> QED BY <1>1, <2>3, <2>4
<1> HIDE DEF f, i, aborted, d, queue
<1>9. /\ stream' \in StreamType /\ stream'.opened = stream.opened
      /\ stream'.offset = stream.offset /\ stream'.eof = stream.eof
      /\ stream'.aborted = aborted /\ stream'.queue = queue
      /\ stream'.free = f /\ stream'.inFlight = i /\ stream'.busy = decode
    <2> HIDE DEF decode
    <2> QED BY <1>1, <1>5, <1>6, <1>8 DEF StreamType
<1>10. "check" \in PumpPlaces /\ "idle" \in PumpPlaces
    BY DEF PumpPlaces, Away
<1>11. /\ pump'.round = pump.round /\ pump' \in PumpType
       /\ pump'.pc = IF decode THEN "check" ELSE "idle"
    <2> HIDE DEF decode
    <2>1. (IF decode THEN "check" ELSE "idle") \in PumpPlaces
        BY <1>10
    <2> QED BY <1>1, <1>8, <2>1, PumpGoes
<1>12. \/ pump'.pc = "idle" /\ ~stream'.busy
       \/ /\ pump'.pc = "check" /\ stream'.busy
          /\ Len(stream'.queue) + stream'.inFlight < NumBuffers
    <2>1. CASE decode
        BY <1>9, <1>11, <2>1
    <2>2. CASE ~decode
        <3> HIDE DEF decode
        <3> QED BY <1>9, <1>11, <2>2
    <2> QED BY <2>1, <2>2
<1>13. Uploads(fails, k, d)
    BY <1>1, <1>5, <1>7, <1>9, <1>11, <1>12 DEF Uploads, f, i, aborted, queue
<1> QED BY <1>5, <1>13

LEMMA PumpEnterBuffers ==
    ASSUME Types, Buffers, PumpEnter
    PROVE  Types' /\ Buffers'
<1>1. /\ UNCHANGED <<wave, stream, al, main, round, calls>>
      /\ pump.pc = "idle" /\ pump'.pc = "drain" /\ pump'.round = pump.round
      /\ pump' \in PumpType /\ stream.opened
    BY PumpEnterIs
<1>2. Types'
    BY <1>1 DEF Types
<1>3. Buffers'
    BY <1>1 DEF Buffers, NoBufferLost, Bounded, Decoding, Away
<1> QED BY <1>2, <1>3

LEMMA PumpDrainBuffers ==
    ASSUME Types, Buffers, PumpDrain
    PROVE  Types' /\ Buffers'
<1> USE Sizes
<1>1. PICK n \in Nat : Drains(n)
    BY PumpDrainIs
<1>2. /\ al \in SourceType /\ stream \in StreamType
      /\ Len(al.ring) \in Nat /\ al.ring \in Seq(Chunk)
      /\ Len(stream.queue) \in Nat /\ stream.free \in Nat /\ stream.inFlight \in Nat
    BY SourceIs, StreamIs DEF Types
<1>3. Types'
    BY <1>1 DEF Types, Drains
<1>4. n =< Len(al.ring) /\ al'.ring = SubSeq(al.ring, n + 1, Len(al.ring))
    BY <1>1 DEF Drains
<1>5. Len(al'.ring) = Len(al.ring) - n
    <2>1. Len(al'.ring) = IF n < Len(al.ring) THEN Len(al.ring) - n ELSE 0
        BY <1>2, <1>4, PartFact
    <2> QED BY <1>2, <1>4, <2>1
<1>6. Decoding = 0 /\ Decoding' = 0
    BY <1>1 DEF Drains, Decoding
<1>7. /\ stream'.busy <=> pump'.pc \notin Away
      /\ stream'.opened
    BY <1>1 DEF Drains, Buffers, Away
<1>8. al'.source = "none" => al'.ring = <<>>
    <2>1. SUFFICES ASSUME al.source = "none" PROVE al'.ring = <<>>
        BY <1>1 DEF Drains
    <2>2. Len(al.ring) = 0
        BY <2>1, EmptySeq DEF Buffers
    <2>3. Len(al'.ring) = 0 /\ al'.ring \in Seq(Chunk)
        BY <1>3, <1>4, <1>5, <2>2, SourceIs DEF Types
    <2> QED BY <2>3, EmptySeq
<1>9. /\ stream'.free + stream'.inFlight =< NumBuffers
      /\ NoBufferLost'
    <2>1. /\ stream'.free = stream.free + n /\ stream'.inFlight = stream.inFlight - n
          /\ al'.source = al.source
        BY <1>1 DEF Drains
    <2>2. stream.free + stream.inFlight =< NumBuffers /\ NoBufferLost
        BY DEF Buffers
    <2>3. stream'.free + stream'.inFlight = stream.free + stream.inFlight
        BY <1>2, <2>1
    <2>4. NoBufferLost'
        BY <1>2, <1>5, <2>1, <2>2 DEF NoBufferLost
    <2> QED BY <2>2, <2>3, <2>4
<1>10. Bounded'
    <2>1. Len(stream.queue) + 0 + Len(al.ring) =< NumBuffers
        BY <1>6 DEF Buffers, Bounded
    <2>2. stream'.queue = stream.queue
        BY <1>1 DEF Drains
    <2>3. Len(stream'.queue) + 0 + Len(al'.ring) =< NumBuffers
        <3>1. \A a, b \in Nat : a + 0 + b =< NumBuffers /\ n =< b =>
                  a + 0 + (b - n) =< NumBuffers
            OBVIOUS
        <3> QED BY <1>2, <1>4, <1>5, <2>1, <2>2, <3>1
    <2> QED BY <1>6, <2>3 DEF Bounded
<1>11. /\ al'.played =< Len(al'.ring)
       /\ al'.source \in {"playing", "paused"} => al'.played < Len(al'.ring)
    <2>1. /\ al'.played = 0 /\ al'.source = al.source
          /\ al.source \in {"playing", "paused"} => n < Len(al.ring)
        BY <1>1 DEF Drains
    <2> QED BY <1>2, <1>4, <1>5, <2>1
<1>12. Buffers'
    BY <1>7, <1>8, <1>9, <1>10, <1>11 DEF Buffers
<1> QED BY <1>3, <1>12

LEMMA PumpUploadBuffers ==
    ASSUME Types, Buffers, NEW fails \in BOOLEAN, PumpUpload(fails)
    PROVE  Types' /\ Buffers'
<1> USE Sizes
<1>1. PICK k \in Nat, d \in Nat : Uploads(fails, k, d)
    BY PumpUploadIs
<1>2. /\ al \in SourceType /\ stream \in StreamType
      /\ Len(al.ring) \in Nat /\ al.ring \in Seq(Chunk) /\ al.played \in Nat
      /\ Len(stream.queue) \in Nat /\ stream.queue \in Seq(Chunk)
      /\ stream.free \in Nat /\ stream.inFlight \in Nat
    BY SourceIs, StreamIs DEF Types
<1>3. Types'
    BY <1>1 DEF Types, Uploads
<1>4. /\ k =< d /\ d =< Len(stream.queue) /\ k =< stream.free
      /\ al'.source = al.source /\ al'.played = al.played
      /\ al'.ring = IF al.source = "none" THEN al.ring
                    ELSE al.ring \o SubSeq(stream.queue, 1, k)
      /\ stream'.queue = SubSeq(stream.queue, d + 1, Len(stream.queue))
      /\ stream'.free = stream.free - k /\ stream'.inFlight = stream.inFlight + k
      /\ pump.pc = "upload" /\ stream'.opened = stream.opened
      /\ \/ pump'.pc = "idle" /\ ~stream'.busy
         \/ /\ pump'.pc = "check" /\ stream'.busy
            /\ Len(stream'.queue) + stream'.inFlight < NumBuffers
    BY <1>1 DEF Uploads
<1>5. Len(al'.ring) = IF al.source = "none" THEN Len(al.ring) ELSE Len(al.ring) + k
    <2>1. k =< Len(stream.queue)
        BY <1>2, <1>4
    <2> DEFINE r == al.ring
               t == stream.queue
    <2>2. r \in Seq(Chunk) /\ t \in Seq(Chunk) /\ k =< Len(t)
        BY <1>2, <2>1
    <2> HIDE DEF r, t
    <2>3. Len(r \o SubSeq(t, 1, k)) = Len(r) + k
        BY <2>2, BehindFact
    <2> QED BY <1>4, <2>3 DEF r, t
<1>6. Len(stream'.queue) = Len(stream.queue) - d
    <2>1. Len(stream'.queue)
              = IF d < Len(stream.queue) THEN Len(stream.queue) - d ELSE 0
        <3>1. Len(stream.queue) =< Len(stream.queue)
            BY <1>2
        <3> QED BY <1>2, <1>4, <3>1, PartFact
    <2> QED BY <1>2, <1>4, <2>1
<1>7. Len(stream.queue) + 0 + Len(al.ring) =< NumBuffers
    <2>1. Decoding = 0
        BY <1>4 DEF Decoding
    <2> QED BY <2>1 DEF Buffers, Bounded
<1>8. /\ stream'.busy <=> pump'.pc \notin Away
      /\ stream'.opened
      /\ al'.source = "none" => al'.ring = <<>>
    BY <1>4 DEF Buffers, Away
<1>9. /\ stream'.free + stream'.inFlight =< NumBuffers
      /\ NoBufferLost'
    <2>1. stream.free + stream.inFlight =< NumBuffers /\ NoBufferLost
        BY DEF Buffers
    <2>2. stream'.free + stream'.inFlight = stream.free + stream.inFlight
        BY <1>2, <1>4
    <2>3. NoBufferLost'
        <3>1. SUFFICES ASSUME al.source # "none"
                       PROVE  /\ stream'.free + Len(al'.ring) = NumBuffers
                              /\ stream'.inFlight = Len(al'.ring)
            BY <1>4 DEF NoBufferLost
        <3>2. /\ stream.free + Len(al.ring) = NumBuffers
              /\ stream.inFlight = Len(al.ring)
            BY <2>1, <3>1 DEF NoBufferLost
        <3>3. /\ Len(al'.ring) = Len(al.ring) + k
              /\ stream'.free = stream.free - k
              /\ stream'.inFlight = stream.inFlight + k
            BY <1>4, <1>5, <3>1
        <3>4. \A a, b \in Nat : (a - k) + (b + k) = a + b
            OBVIOUS
        <3> QED BY <1>2, <3>2, <3>3, <3>4
    <2> QED BY <2>1, <2>2, <2>3
<1>10. Bounded'
    <2>1. CASE pump'.pc = "idle"
        <3>1. Decoding' = 0
            BY <2>1 DEF Decoding
        <3>2. Len(stream'.queue) + 0 + Len(al'.ring) =< NumBuffers
            <4>1. \A a, b \in Nat : a + 0 + b =< NumBuffers /\ d =< a =>
                      /\ (a - d) + 0 + b =< NumBuffers
                      /\ (a - d) + 0 + (b + k) =< NumBuffers
                BY <1>4
            <4> QED BY <1>2, <1>4, <1>5, <1>6, <1>7, <4>1
        <3> QED BY <3>1, <3>2 DEF Bounded
    <2>2. CASE /\ pump'.pc = "check"
               /\ Len(stream'.queue) + stream'.inFlight < NumBuffers
        <3>1. Decoding' = 1
            BY <2>2 DEF Decoding
        <3>2. Len(al'.ring) =< stream'.inFlight
            <4>1. CASE al.source = "none"
                <5>1. Len(al.ring) = 0
                    BY <4>1, EmptySeq DEF Buffers
                <5> QED BY <1>2, <1>4, <1>5, <4>1, <5>1
            <4>2. CASE al.source # "none"
                <5>1. stream.inFlight = Len(al.ring)
                    BY <4>2 DEF Buffers, NoBufferLost
                <5>2. Len(al'.ring) = Len(al.ring) + k
                      /\ stream'.inFlight = stream.inFlight + k
                    BY <1>4, <1>5, <4>2
                <5>3. \A b \in Nat : b + k =< b + k
                    OBVIOUS
                <5> QED BY <1>2, <5>1, <5>2, <5>3
            <4> QED BY <4>1, <4>2
        <3>3. /\ Len(al'.ring) \in Nat /\ Len(stream'.queue) \in Nat
              /\ stream'.inFlight \in Nat
            BY <1>3, SourceIs, StreamIs DEF Types
        <3>4. Len(stream'.queue) + 1 + Len(al'.ring) =< NumBuffers
            <4>1. \A a, b, c \in Nat : a + c < NumBuffers /\ b =< c =>
                      a + 1 + b =< NumBuffers
                OBVIOUS
            <4> QED BY <2>2, <3>2, <3>3, <4>1
        <3> QED BY <3>1, <3>4 DEF Bounded
    <2> QED BY <1>4, <2>1, <2>2
<1>11. /\ al'.played =< Len(al'.ring)
       /\ al'.source \in {"playing", "paused"} => al'.played < Len(al'.ring)
    <2>1. /\ al.played =< Len(al.ring)
          /\ al.source \in {"playing", "paused"} => al.played < Len(al.ring)
        BY DEF Buffers
    <2> QED BY <1>2, <1>4, <1>5, <2>1
<1>12. Buffers'
    BY <1>8, <1>9, <1>10, <1>11 DEF Buffers
<1> QED BY <1>3, <1>12

-----------------------------------------------------------------------------
(***************************************************************************)
(* What Commit and Replay do with the wave, the stream and the source.     *)
(***************************************************************************)
WaveState3 == [wave : WaveType, stream : StreamType, al : SourceType]

Fresh == [NoStream EXCEPT !.opened = TRUE, !.free = NumBuffers]

LEMMA FreshIs ==
    /\ Fresh \in StreamType /\ Fresh.opened /\ Fresh.queue = <<>>
    /\ Fresh.free = NumBuffers /\ Fresh.inFlight = 0 /\ ~Fresh.busy
<1>1. NoStream \in StreamType /\ NoStream.queue = <<>> /\ NoStream.inFlight = 0
          /\ NoStream.busy = FALSE
    BY EmptySeq, Sizes DEF NoStream, StreamType
<1> QED BY <1>1, Sizes DEF Fresh, StreamType

\* No chunk moves: the source starts or stops, or is made with its buffers.
Fine(s) ==
    /\ s \in WaveState3
    /\ s.wave.empty = wave.empty /\ s.al.ring = al.ring
    /\ s.al.played =< Len(al.ring)
    /\ s.al.source \in {"playing", "paused"} => s.al.played < Len(al.ring)
    /\ \/ s.stream = stream /\ (s.al.source = "none" <=> al.source = "none")
       \/ ~stream.opened /\ s.stream = Fresh /\ s.al.source # "none"

LEMMA FineHere ==
    ASSUME Types, Buffers
    PROVE  Fine(Here)
<1>1. /\ wave \in WaveType /\ stream \in StreamType /\ al \in SourceType
      /\ al.played =< Len(al.ring)
      /\ al.source \in {"playing", "paused"} => al.played < Len(al.ring)
    BY DEF Types, Buffers
<1> QED BY <1>1 DEF Fine, Here, WaveState3

\* The wave is given new fields.
LEMMA FineWave ==
    ASSUME Types, Buffers, NEW s, Fine(s), NEW w \in WaveType, w.empty = s.wave.empty
    PROVE  LET t == [s EXCEPT !.wave = w]
           IN  /\ Fine(t) /\ t.wave = w /\ t.stream = s.stream /\ t.al = s.al
<1>1. s = [wave |-> s.wave, stream |-> s.stream, al |-> s.al]
    BY DEF Fine, WaveState3
<1>2. [s EXCEPT !.wave = w] = [wave |-> w, stream |-> s.stream, al |-> s.al]
    BY <1>1
<1> QED BY <1>2 DEF Fine, WaveState3

LEMMA SourcePlayIs ==
    ASSUME NEW a \in SourceType, a.played =< Len(a.ring),
           a.source = "none" => a.ring = <<>>,
           a.source \in {"playing", "paused"} => a.played < Len(a.ring)
    PROVE  LET b == SourcePlay(a)
           IN  /\ b \in SourceType /\ b.ring = a.ring /\ b.played =< Len(b.ring)
               /\ b.source \in {"playing", "paused"} => b.played < Len(b.ring)
               /\ b.source = "none" <=> a.source = "none"
<1>1. CASE a.source = "none"
    BY <1>1 DEF SourcePlay
<1>2. CASE a.source # "none" /\ a.ring = <<>>
    <2>0. SourcePlay(a) = [a EXCEPT !.source = "stopped", !.played = 0]
        BY <1>2 DEF SourcePlay
    <2>1. SourcePlay(a) = [source |-> "stopped", ring |-> a.ring, played |-> 0]
        BY <2>0, SourceIs, ZenonT(40)
    <2>2. Len(a.ring) \in Nat
        BY SourceIs
    <2> QED BY <1>2, <2>1, <2>2, SourceIs DEF SourceType
<1>3. CASE a.source = "paused" /\ a.ring # <<>>
    <2>0. SourcePlay(a) = [a EXCEPT !.source = "playing"]
        BY <1>3 DEF SourcePlay
    <2>1. SourcePlay(a) = [source |-> "playing", ring |-> a.ring, played |-> a.played]
        BY <2>0, SourceIs
    <2> QED BY <1>3, <2>1, SourceIs DEF SourceType
<1>4. CASE a.source \notin {"none", "paused"} /\ a.ring # <<>>
    <2>0. SourcePlay(a) = [a EXCEPT !.source = "playing", !.played = 0]
        BY <1>4 DEF SourcePlay
    <2>1. SourcePlay(a) = [source |-> "playing", ring |-> a.ring, played |-> 0]
        BY <2>0, SourceIs
    <2>2. Len(a.ring) \in Nat \ {0}
        BY <1>4, SourceIs, EmptySeq
    <2> QED BY <1>4, <2>1, <2>2, SourceIs DEF SourceType
<1> QED BY <1>1, <1>2, <1>3, <1>4

LEMMA StartedFine ==
    ASSUME Types, Buffers, NEW s, Fine(s)
    PROVE  Fine(Started(s))
<1> DEFINE w == [s.wave EXCEPT !.playing = TRUE, !.everPlayed = TRUE,
                               !.terminated = FALSE]
<1>1. /\ s = [wave |-> s.wave, stream |-> s.stream, al |-> s.al]
      /\ s.wave \in WaveType /\ s.al \in SourceType /\ s.stream \in StreamType
    BY DEF Fine, WaveState3
<1>2. Started(s) = [wave |-> w, stream |-> s.stream, al |-> SourcePlay(s.al)]
    <2>1. Started(s) = [s EXCEPT !.al = SourcePlay(s.al), !.wave = w]
        BY DEF Started
    <2> HIDE DEF w
    <2> QED BY <1>1, <2>1
<1>3. w \in WaveType /\ w.empty = s.wave.empty
    BY <1>1 DEF WaveType
<1>4. /\ s.al.played =< Len(s.al.ring)
      /\ s.al.source = "none" => s.al.ring = <<>>
      /\ s.al.source \in {"playing", "paused"} => s.al.played < Len(s.al.ring)
    BY DEF Fine, Buffers
<1> HIDE DEF w
<1>5. LET b == SourcePlay(s.al)
      IN  /\ b \in SourceType /\ b.ring = s.al.ring /\ b.played =< Len(b.ring)
          /\ b.source \in {"playing", "paused"} => b.played < Len(b.ring)
          /\ b.source = "none" <=> s.al.source = "none"
    BY <1>1, <1>4, SourcePlayIs
<1> QED BY <1>1, <1>2, <1>3, <1>5 DEF Fine, WaveState3

LEMMA UpdateFine ==
    ASSUME Types, Buffers, NEW s, Fine(s)
    PROVE  Fine(Update(s))
BY StartedFine DEF Update

LEMMA OpenFine ==
    ASSUME Types, Buffers, NEW s, Fine(s), NEW fails \in BOOLEAN
    PROVE  Fine(Open(s, fails))
<1>1. /\ s = [wave |-> s.wave, stream |-> s.stream, al |-> s.al]
      /\ s.wave \in WaveType /\ s.al \in SourceType /\ s.stream \in StreamType
      /\ s.wave.empty = wave.empty
    BY DEF Fine, WaveState3
<1>2. CASE s.stream.opened
    BY <1>2 DEF Open
<1>3. CASE ~s.stream.opened /\ fails
    <2> DEFINE w == [s.wave EXCEPT !.failed = TRUE]
    <2>1. Open(s, fails) = [s EXCEPT !.wave = w]
        BY <1>1, <1>3 DEF Open
    <2>2. w \in WaveType /\ w.empty = s.wave.empty
        BY <1>1 DEF WaveType
    <2> HIDE DEF w
    <2> QED BY <2>1, <2>2, FineWave
<1>4. CASE ~s.stream.opened /\ ~fails
    <2> DEFINE a == [s.al EXCEPT !.source = "initial"]
    <2>1. Open(s, fails) = [wave |-> s.wave, stream |-> Fresh, al |-> a]
        BY <1>1, <1>4 DEF Open, Fresh
    <2>2. a = [source |-> "initial", ring |-> s.al.ring, played |-> s.al.played]
        BY <1>1, SourceIs
    <2> HIDE DEF a
    <2>3. a \in SourceType /\ a.ring = s.al.ring /\ a.played = s.al.played
              /\ a.source = "initial"
        BY <1>1, <2>2, SourceIs DEF SourceType
    <2>5. Fresh \in StreamType /\ Fresh.opened
        BY FreshIs
    <2>6. ~stream.opened /\ s.al.played =< Len(al.ring) /\ s.al.ring = al.ring
        BY <1>4, <2>5 DEF Fine
    <2> QED BY <1>1, <2>1, <2>3, <2>5, <2>6 DEF Fine, WaveState3
<1> QED BY <1>2, <1>3, <1>4

LEMMA DoPlayFine ==
    ASSUME Types, Buffers, NEW s, Fine(s), NEW fails \in BOOLEAN
    PROVE  Fine(DoPlay(s, fails))
<1>1. /\ s = [wave |-> s.wave, stream |-> s.stream, al |-> s.al]
      /\ s.wave \in WaveType
    BY DEF Fine, WaveState3
<1> DEFINE t == [s EXCEPT !.wave.intent = TRUE]
<1>2. Fine(t)
    <2> DEFINE w == [s.wave EXCEPT !.intent = TRUE]
    <2>1. t = [s EXCEPT !.wave = w]
        BY <1>1
    <2>2. w \in WaveType /\ w.empty = s.wave.empty
        BY <1>1 DEF WaveType
    <2> HIDE DEF w, t
    <2> QED BY <2>1, <2>2, FineWave
<1>3. Fine(FirstPlay(s, fails))
    <2> DEFINE o == Open(t, fails)
               l == [o EXCEPT !.wave.loaded = TRUE]
               u == Update(l)
    <2>1. Fine(o)
        BY <1>2, OpenFine
    <2>2. Fine(l)
        <3> HIDE DEF o
        <3> DEFINE w == [o.wave EXCEPT !.loaded = TRUE]
        <3>1. /\ o = [wave |-> o.wave, stream |-> o.stream, al |-> o.al]
              /\ o.wave \in WaveType
            BY <2>1 DEF Fine, WaveState3
        <3>2. l = [o EXCEPT !.wave = w]
            BY <3>1
        <3>3. w \in WaveType /\ w.empty = o.wave.empty
            BY <3>1 DEF WaveType
        <3> HIDE DEF w, l
        <3> QED BY <2>1, <3>2, <3>3, FineWave
    <2>3. Fine(u) /\ Fine(Started(u))
        BY <2>2, UpdateFine, StartedFine
    <2>4. FirstPlay(s, fails) \in {o, u, Started(u)}
        BY DEF FirstPlay
    <2> HIDE DEF o, l, u, t
    <2> QED BY <2>1, <2>3, <2>4
<1>4. Fine(Started(Update(t)))
    BY <1>2, UpdateFine, StartedFine
<1>5. DoPlay(s, fails) \in {s, FirstPlay(s, fails), Started(Update(t))}
    BY DEF DoPlay
<1> HIDE DEF t
<1> QED BY <1>3, <1>4, <1>5

LEMMA BecomeBuffers ==
    ASSUME Types, Buffers, NEW s, Fine(s), BecomeOf(s),
           UNCHANGED <<pump, round, calls>>, main' = "run"
    PROVE  /\ Types' /\ Buffers'
           /\ wave'.empty = wave.empty /\ al'.ring = al.ring
           /\ \/ stream' = stream
              \/ ~stream.opened /\ stream'.queue = <<>> /\ al.ring = <<>>
                     /\ pump.pc = "idle"
<1>1. /\ wave' \in WaveType /\ stream' \in StreamType /\ al' \in SourceType
      /\ wave'.empty = wave.empty /\ al'.ring = al.ring
      /\ al'.played =< Len(al.ring)
      /\ al'.source \in {"playing", "paused"} => al'.played < Len(al.ring)
    BY DEF Fine, WaveState3, BecomeOf
<1>2. Types'
    BY <1>1 DEF Types
<1>3. Decoding' = Decoding
    BY DEF Decoding
<1>4. CASE stream' = stream /\ (al'.source = "none" <=> al.source = "none")
    <2>1. Bounded'
        BY <1>1, <1>3, <1>4 DEF Buffers, Bounded
    <2>2. Buffers'
        BY <1>1, <1>3, <1>4, <2>1 DEF Buffers, NoBufferLost
    <2> QED BY <1>1, <1>2, <1>4, <2>2
<1>5. CASE ~stream.opened /\ stream' = Fresh /\ al'.source # "none"
    <2>1. /\ al.ring = <<>> /\ pump.pc = "idle" /\ Len(<<>>) = 0
          /\ NumBuffers \in Nat \ {0} /\ NumBuffers + 0 = NumBuffers
        BY <1>5, EmptySeq, Sizes DEF Buffers
    <2>2. Bounded'
        <3>1. Decoding' = 0
            BY <2>1, <1>3 DEF Decoding
        <3>2. Len(stream'.queue) = 0 /\ Len(al'.ring) = 0
            BY <1>1, <1>5, <2>1, FreshIs
        <3>3. 0 + 0 + 0 =< NumBuffers
            BY <2>1
        <3> QED BY <3>1, <3>2, <3>3 DEF Bounded
    <2>3. stream'.opened /\ stream'.free = NumBuffers /\ stream'.inFlight = 0
              /\ ~stream'.busy /\ stream'.queue = <<>>
        BY <1>5, FreshIs
    <2>4. Buffers'
        <3>1. stream'.busy <=> pump'.pc \notin Away
            BY <2>1, <2>3 DEF Away
        <3>2. Len(al'.ring) = 0 /\ NumBuffers + 0 =< NumBuffers
            BY <1>1, <2>1
        <3> QED BY <1>1, <1>5, <2>1, <2>2, <2>3, <3>1, <3>2 DEF Buffers, NoBufferLost
    <2> QED BY <1>1, <1>2, <1>5, <2>1, <2>3, <2>4
<1> QED BY <1>4, <1>5 DEF Fine, BecomeOf

LEMMA CommitFine ==
    ASSUME Types, Buffers, NEW fails \in BOOLEAN, Commit(fails)
    PROVE  \E s : Fine(s) /\ BecomeOf(s)
<1> DEFINE p == DoPlay(Here, fails)
           s == IF wave.want THEN [p EXCEPT !.wave.want = FALSE] ELSE Here
<1>1. Fine(Here) /\ Fine(p)
    BY FineHere, DoPlayFine
<1>2. Fine([p EXCEPT !.wave.want = FALSE])
    <2> HIDE DEF p
    <2> DEFINE w == [p.wave EXCEPT !.want = FALSE]
               t == [p EXCEPT !.wave.want = FALSE]
    <2>1. /\ p = [wave |-> p.wave, stream |-> p.stream, al |-> p.al]
          /\ p.wave \in WaveType
        BY <1>1 DEF Fine, WaveState3
    <2>2. t = [p EXCEPT !.wave = w]
        BY <2>1
    <2>3. w \in WaveType /\ w.empty = p.wave.empty
        BY <2>1 DEF WaveType
    <2> HIDE DEF w, t
    <2>4. Fine(t)
        BY <1>1, <2>2, <2>3, FineWave
    <2> QED BY <2>4 DEF t
<1>3. Fine(s)
    BY <1>1, <1>2
<1>4. BecomeOf(Update(s))
    BY DEF Commit
<1> HIDE DEF s
<1>5. Fine(Update(s))
    BY <1>3, UpdateFine
<1> QED BY <1>4, <1>5

\* A call that only gives the wave new fields, and the poll.
LEMMA WaveSteps ==
    ASSUME Types, Buffers, Play \/ Resume \/ RepeatOnce \/ Poll
    PROVE  /\ wave' \in WaveType /\ wave'.empty = wave.empty
           /\ UNCHANGED <<stream, al, pump, main, round>>
           /\ calls' \in {calls, calls + 1} /\ calls' =< MaxCalls
<1>1. wave \in WaveType /\ calls \in 0 .. MaxCalls /\ MaxCalls \in Nat
    BY Sizes DEF Types
<1>2. CASE Play
    <2>1. wave' \in WaveType /\ wave'.empty = wave.empty
        BY <1>1, <1>2 DEF Play, WaveType
    <2>2. UNCHANGED <<stream, al, pump, main, round>> /\ calls' = calls + 1
              /\ calls < MaxCalls
        BY <1>2 DEF Play, Call
    <2> QED BY <1>1, <2>1, <2>2
<1>3. CASE Resume
    <2>1. wave' \in WaveType /\ wave'.empty = wave.empty
        BY <1>1, <1>3 DEF Resume, WaveType
    <2>2. UNCHANGED <<stream, al, pump, main, round>> /\ calls' = calls + 1
              /\ calls < MaxCalls
        BY <1>3 DEF Resume, Call
    <2> QED BY <1>1, <2>1, <2>2
<1>4. CASE RepeatOnce
    <2>1. wave' \in WaveType /\ wave'.empty = wave.empty
        BY <1>1, <1>4 DEF RepeatOnce, WaveType
    <2>2. UNCHANGED <<stream, al, pump, main, round>> /\ calls' = calls + 1
              /\ calls < MaxCalls
        BY <1>4 DEF RepeatOnce, Call
    <2> QED BY <1>1, <2>1, <2>2
<1>5. CASE Poll
    <2>1. wave' \in WaveType /\ wave'.empty = wave.empty
        BY <1>1, <1>5 DEF Poll, WaveType
    <2>2. UNCHANGED <<stream, al, pump, main, round, calls>>
        BY <1>5 DEF Poll
    <2> QED BY <1>1, <2>1, <2>2
<1> QED BY <1>2, <1>3, <1>4, <1>5

\* A call that stops the wave, or would if it played.
LEMMA StopSteps ==
    ASSUME Types, Buffers, Stop \/ Restart \/ Repeat \/ LastLoop
    PROVE  \/ /\ wave' \in WaveType /\ wave'.empty = wave.empty
              /\ UNCHANGED <<stream, al, pump, main, round>>
              /\ calls' = calls + 1 /\ calls' =< MaxCalls
           \/ /\ \E w \in WaveType : w.empty = wave.empty /\ DoStop(w)
              /\ UNCHANGED pump /\ calls' = calls + 1 /\ calls < MaxCalls
              /\ main' \in {"unload", "restart", "replay"}
<1>1. wave \in WaveType /\ calls \in 0 .. MaxCalls /\ MaxCalls \in Nat
    BY Sizes DEF Types
<1>2. CASE Stop
    BY <1>1, <1>2 DEF Stop, Call
<1>3. CASE Restart
    BY <1>1, <1>3 DEF Restart, Call
<1>4. ASSUME NEW b \in BOOLEAN, SetLooping(b), calls < MaxCalls, calls' = calls + 1
      PROVE  \/ /\ wave' \in WaveType /\ wave'.empty = wave.empty
                /\ UNCHANGED <<stream, al, pump, main, round>>
             \/ /\ \E w \in WaveType : w.empty = wave.empty /\ DoStop(w)
                /\ UNCHANGED pump
                /\ main' \in {"unload", "restart", "replay"}
    <2> DEFINE w == [wave EXCEPT !.looping = b]
    <2>1. w \in WaveType /\ w.empty = wave.empty
        BY <1>1 DEF WaveType
    <2>2. \/ DoStop(w) /\ main' = "replay" /\ UNCHANGED pump
          \/ wave' = w /\ UNCHANGED <<stream, al, pump, main, round>>
        BY <1>4 DEF SetLooping
    <2> HIDE DEF w
    <2> QED BY <2>1, <2>2
<1>5. CASE Repeat
    <2>1. SetLooping(TRUE) /\ calls < MaxCalls /\ calls' = calls + 1 /\ TRUE \in BOOLEAN
        BY <1>5 DEF Repeat, Call
    <2>2. calls' =< MaxCalls
        BY <1>1, <2>1
    <2> QED BY <1>4, <2>1, <2>2
<1>6. CASE LastLoop
    <2>1. SetLooping(FALSE) /\ calls < MaxCalls /\ calls' = calls + 1 /\ FALSE \in BOOLEAN
        BY <1>6 DEF LastLoop, Call
    <2>2. calls' =< MaxCalls
        BY <1>1, <2>1
    <2> QED BY <1>4, <2>1, <2>2
<1> QED BY <1>2, <1>3, <1>5, <1>6

LEMMA NextBuffers ==
    ASSUME Types, Buffers, [Next]_vars
    PROVE  Types' /\ Buffers'
<1>0. calls \in 0 .. MaxCalls /\ MaxCalls \in Nat
    BY Sizes DEF Types
<1>1. CASE Play \/ Resume \/ RepeatOnce \/ Poll
    BY <1>1, WaveSteps, WaveOnlyBuffers
<1>2. CASE Stop \/ Restart \/ Repeat \/ LastLoop
    BY <1>0, <1>2, StopSteps, WaveOnlyBuffers, DoStopBuffers
<1>3. CASE Pause
    BY <1>3, PauseBuffers
<1>4. CASE Destroy
    BY <1>4, DestroyBuffers
<1>5. CASE Unload
    BY <1>5, UnloadBuffers
<1>6. CASE WaitDecode \/ Free
    BY <1>6, WaitDecodeBuffers, FreeBuffers
<1>7. CASE Replay
    <2>1. PICK fails \in BOOLEAN : BecomeOf(DoPlay(Here, fails))
        BY <1>7, WaveAssumption DEF Replay
    <2>2. Fine(DoPlay(Here, fails))
        BY FineHere, DoPlayFine
    <2>3. UNCHANGED <<pump, round, calls>> /\ main' = "run"
        BY <1>7 DEF Replay
    <2> QED BY <2>1, <2>2, <2>3, BecomeBuffers
<1>8. ASSUME NEW fails \in OpenFails, Commit(fails) PROVE Types' /\ Buffers'
    <2>1. fails \in BOOLEAN
        BY WaveAssumption
    <2>2. PICK s : Fine(s) /\ BecomeOf(s)
        BY <1>8, <2>1, CommitFine
    <2>3. UNCHANGED <<pump, main, round, calls>> /\ main = "run"
        BY <1>8 DEF Commit
    <2> QED BY <2>2, <2>3, BecomeBuffers
<1>9. CASE PumpPass
    <2>1. UploadFails \subseteq BOOLEAN
        BY WaveAssumption
    <2> QED BY <1>9, <2>1, PumpEnterBuffers, PumpDrainBuffers, PumpUploadBuffers
            DEF PumpPass
<1>10. CASE Decode
    BY <1>10, DecodeBuffers, DecodePushBuffers, DecodeDoneBuffers DEF Decode
<1>11. CASE PlayBuffer
    BY <1>11, PlayBufferBuffers
<1>12. CASE UNCHANGED vars
    <2>1. UNCHANGED <<wave, stream, al, pump, main, round, calls>>
        BY <1>12 DEF vars
    <2>2. wave' \in WaveType /\ calls' \in {calls, calls + 1} /\ calls' =< MaxCalls
        BY <1>0, <2>1 DEF Types
    <2> QED BY <2>1, <2>2, WaveOnlyBuffers
<1> QED BY <1>1, <1>2, <1>3, <1>4, <1>5, <1>6, <1>7, <1>8, <1>9, <1>10, <1>11, <1>12
        DEF Next, UserStep, MainStep

-----------------------------------------------------------------------------
(***************************************************************************)
(* The order of the chunks.                                                *)
(***************************************************************************)
\* InTrackOrder, of any queue of chunks.
Ordered(p, r, e) ==
    \A i \in 1 .. Len(p) - 1 :
        /\ p[i + 1].round = r
        /\ p[i].round = r =>
               \/ p[i + 1].off = p[i].off + 1
               \/ p[i + 1].off = 0 /\ (p[i].off + 1 = NumChunks \/ p[i].off + 1 \in e)

LEMMA OrderedIs == InTrackOrder <=> Ordered(Pending, round, wave.empty)
BY DEF InTrackOrder, Ordered, Follows

LEMMA OrderedIsNext == InTrackOrder' <=> Ordered(Pending', round', wave'.empty)
BY DEF InTrackOrder, Ordered, Follows

\* A part of a queue in order is in order.
LEMMA CutFact ==
    ASSUME NEW p \in Seq(Chunk), NEW q \in Seq(Chunk), NEW r, NEW e, NEW d \in Nat,
           Len(q) + d =< Len(p), \A i \in 1 .. Len(q) : q[i] = p[i + d],
           Ordered(p, r, e)
    PROVE  Ordered(q, r, e)
<1>1. Len(p) \in Nat /\ Len(q) \in Nat
    BY LenProperties
<1>2. SUFFICES ASSUME NEW i \in 1 .. Len(q) - 1
               PROVE  /\ q[i + 1].round = r
                      /\ q[i].round = r =>
                             \/ q[i + 1].off = q[i].off + 1
                             \/ /\ q[i + 1].off = 0
                                /\ \/ q[i].off + 1 = NumChunks
                                   \/ q[i].off + 1 \in e
    BY DEF Ordered
<1>3. /\ i \in 1 .. Len(q) /\ i + 1 \in 1 .. Len(q)
      /\ i + d \in 1 .. Len(p) - 1 /\ (i + 1) + d = (i + d) + 1
    BY <1>1
<1>4. q[i] = p[i + d] /\ q[i + 1] = p[(i + d) + 1]
    BY <1>3
<1> QED BY <1>3, <1>4 DEF Ordered

\* The queue of an empty or a single chunk.
LEMMA ShortFact ==
    ASSUME NEW q, Len(q) \in {0, 1}, NEW r, NEW e
    PROVE  Ordered(q, r, e)
<1>1. ASSUME NEW n \in {0, 1} PROVE \A i \in 1 .. n - 1 : FALSE
    OBVIOUS
<1> QED BY <1>1 DEF Ordered

\* What was decoded will not be heard.
Aborted == stream.aborted /\ MutexFree

LEMMA PendingType ==
    ASSUME Types
    PROVE  /\ Pending \in Seq(Chunk) /\ Len(Pending) \in Nat
           /\ al.ring \in Seq(Chunk) /\ Len(al.ring) \in Nat
           /\ stream.queue \in Seq(Chunk) /\ Len(stream.queue) \in Nat
           /\ Aborted => Pending = al.ring
           /\ ~Aborted =>
                  /\ Pending = al.ring \o stream.queue
                  /\ Len(Pending) = Len(al.ring) + Len(stream.queue)
                  /\ \A i \in 1 .. Len(Pending) :
                         Pending[i] = IF i <= Len(al.ring) THEN al.ring[i]
                                      ELSE stream.queue[i - Len(al.ring)]
<1>1. /\ al.ring \in Seq(Chunk) /\ Len(al.ring) \in Nat
      /\ stream.queue \in Seq(Chunk) /\ Len(stream.queue) \in Nat
    BY SourceIs, StreamIs DEF Types
<1>2. CASE Aborted
    BY <1>1, <1>2 DEF Pending, Aborted
<1>3. CASE ~Aborted
    <2>1. Pending = al.ring \o stream.queue
        BY <1>3 DEF Pending, Aborted
    <2> DEFINE p == al.ring \o stream.queue
    <2>2. /\ p \in Seq(Chunk) /\ Len(p) = Len(al.ring) + Len(stream.queue)
          /\ \A i \in 1 .. Len(al.ring) + Len(stream.queue) :
                 p[i] = IF i <= Len(al.ring) THEN al.ring[i]
                        ELSE stream.queue[i - Len(al.ring)]
        BY <1>1, ConcatProperties
    <2>3. Pending = p
        BY <2>1
    <2> HIDE DEF p
    <2>4. /\ Pending \in Seq(Chunk) /\ Len(Pending) = Len(al.ring) + Len(stream.queue)
          /\ \A i \in 1 .. Len(Pending) :
                 Pending[i] = IF i <= Len(al.ring) THEN al.ring[i]
                              ELSE stream.queue[i - Len(al.ring)]
        BY <2>2, <2>3
    <2>5. Len(Pending) \in Nat
        BY <2>4, LenProperties
    <2> QED BY <1>1, <1>3, <2>1, <2>4, <2>5
<1> QED BY <1>2, <1>3

\* The pump goes on in its pass, or does nothing.
PumpStays ==
    \/ pump' = pump
    \/ pump.pc \in Away /\ pump'.pc \in Away \cup {"check"}

LEMMA StaysFact ==
    ASSUME PumpStays
    PROVE  /\ Reading' = Reading /\ (Reading => pump' = pump)
           /\ (pump'.pc \in {"flag", "push"} => pump' = pump)
BY DEF PumpStays, Reading, Away

\* Nothing that will be heard changes.
LEMMA QuietOrder ==
    ASSUME Order, Pending' = Pending, round' = round, wave'.empty = wave.empty,
           stream'.aborted = stream.aborted, PumpStays,
           stream'.offset = stream.offset, stream'.eof = stream.eof
    PROVE  Order'
<1>1. InTrackOrder'
    BY OrderedIs, OrderedIsNext DEF Order
<1>2. Overtaken' /\ Advancing'
    BY StaysFact DEF Order, Overtaken, Advancing
<1>3. Continued'
    BY StaysFact DEF Order, Continued, Ahead, FollowsAt
<1> QED BY <1>1, <1>2, <1>3 DEF Order

\* Chunks are played, or will not be: at the head of the queue, and at its end
\* only when the stream is aborted.
LEMMA CutOrder ==
    ASSUME Types, Types', Order, NEW d \in Nat, Len(Pending') + d =< Len(Pending),
           \A i \in 1 .. Len(Pending') : Pending'[i] = Pending[i + d],
           \/ stream'.aborted
           \/ Pending' = <<>>
           \/ ~stream.aborted /\ Len(Pending') + d = Len(Pending),
           stream.aborted => stream'.aborted,
           round' = round, wave'.empty = wave.empty,
           stream'.offset = stream.offset, stream'.eof = stream.eof,
           PumpStays
    PROVE  Order'
<1>1. /\ Pending \in Seq(Chunk) /\ Len(Pending) \in Nat
      /\ Pending' \in Seq(Chunk) /\ Len(Pending') \in Nat
    BY PendingType, LenProperties DEF Types, StreamType, SourceType, Pending
<1>2. InTrackOrder'
    <2> DEFINE p == Pending
               q == Pending'
    <2>1. /\ p \in Seq(Chunk) /\ q \in Seq(Chunk) /\ Len(q) + d =< Len(p)
          /\ \A i \in 1 .. Len(q) : q[i] = p[i + d]
          /\ Ordered(p, round, wave.empty)
        BY <1>1, OrderedIs DEF Order
    <2> HIDE DEF p, q
    <2>2. Ordered(q, round, wave.empty)
        BY <2>1, CutFact
    <2> QED BY <2>2, OrderedIsNext DEF q
<1>3. Overtaken'
    <2>1. CASE ~Reading
        BY <2>1, StaysFact DEF Overtaken
    <2>2. CASE Reading /\ Pending = <<>>
        <3>1. Len(Pending) = 0
            BY <2>2, EmptySeq
        <3>2. Len(Pending') = 0
            BY <1>1, <3>1
        <3>3. Pending' = <<>>
            BY <1>1, <3>2, EmptySeq
        <3> QED BY <3>3 DEF Overtaken
    <2>3. CASE Reading /\ Pending # <<>>
        BY <2>3, StaysFact DEF Order, Overtaken
    <2> QED BY <2>1, <2>2, <2>3
<1>4. Advancing'
    BY StaysFact DEF Order, Advancing
<1>5. Continued'
    <2>1. CASE stream'.aborted \/ Pending' = <<>>
        BY <2>1 DEF Continued
    <2>2. CASE ~stream.aborted /\ Len(Pending') + d = Len(Pending) /\ Pending' # <<>>
        <3>1. Len(Pending') \in 1 .. Len(Pending') /\ Pending # <<>>
            BY <1>1, <2>2, EmptySeq
        <3>2. Pending'[Len(Pending')] = Pending[Len(Pending)]
            BY <2>2, <3>1
        <3>3. Reading' = Reading /\ Ahead' = Ahead
            BY StaysFact DEF Ahead
        <3> QED BY <2>2, <3>1, <3>2, <3>3 DEF Order, Continued, FollowsAt
    <2> QED BY <2>1, <2>2
<1> QED BY <1>2, <1>3, <1>4, <1>5 DEF Order

LEMMA InitOrder == Init => Order
<1> SUFFICES ASSUME Init PROVE Order
    OBVIOUS
<1>1. al.ring = <<>> /\ stream.queue = <<>> /\ pump.pc = "idle" /\ ~stream.aborted
    BY DEF Init, NoSource, NoStream, IdlePump
<1>2. Pending = <<>>
    BY <1>1 DEF Pending
<1>3. Len(Pending) = 0
    BY <1>2, EmptySeq
<1>4. InTrackOrder
    BY <1>3, ShortFact, OrderedIs
<1> QED BY <1>1, <1>2, <1>4 DEF Order, Overtaken, Continued, Advancing, Reading

\* Nothing will be heard any more, until the pump has decoded again.
LEMMA EmptyOrder ==
    ASSUME Pending' = <<>>, Advancing'
    PROVE  Order'
<1>1. Len(Pending') = 0
    BY EmptySeq
<1>2. InTrackOrder'
    BY <1>1, ShortFact, OrderedIsNext
<1> QED BY <1>2 DEF Order, Overtaken, Continued

LEMMA DecodeCheckOrder ==
    ASSUME Types, Buffers, Order, DecodeCheck
    PROVE  Order'
<1>1. /\ UNCHANGED <<wave, al, main, round, calls>> /\ pump.pc = "check"
      /\ stream'.aborted = stream.aborted /\ stream'.queue = stream.queue
      /\ pump'.pc \in {"read", "done"}
    BY DecodeCheckIs DEF DecodeGoes, SameBuffers, DecodeCheck
<1>2. Pending' = Pending
    BY <1>1 DEF Pending, MutexFree
<1>3. InTrackOrder'
    BY <1>1, <1>2, OrderedIs, OrderedIsNext DEF Order
<1>4. CASE /\ pump'.pc = "done" /\ stream'.offset = stream.offset
           /\ stream'.eof = stream.eof \/ stream'.eof
    <2>1. Overtaken' /\ Advancing'
        BY <1>4 DEF Overtaken, Advancing, Reading
    <2>2. Continued'
        BY <1>1, <1>2, <1>4 DEF Order, Continued, Reading, Ahead, FollowsAt
    <2> QED BY <1>3, <2>1, <2>2 DEF Order
<1>5. CASE /\ pump'.pc = "read" /\ ~stream.eof /\ ~stream'.eof
           /\ pump'.off = stream'.offset /\ pump'.round = round
           /\ pump'.off = IF stream.offset >= NumChunks THEN 0 ELSE stream.offset
    <2>1. Overtaken' /\ Advancing'
        BY <1>1, <1>5 DEF Overtaken, Advancing, Reading
    <2>2. Continued'
        BY <1>1, <1>2, <1>5 DEF Order, Continued, Reading, Ahead, FollowsAt
    <2> QED BY <1>3, <2>1, <2>2 DEF Order
<1> QED BY <1>4, <1>5, DecodeCheckIs

LEMMA DecodeReadOrder ==
    ASSUME Types, Buffers, Order, DecodeAdvance \/ DecodeFlag
    PROVE  Order'
<1>1. /\ UNCHANGED <<wave, al, main, round, calls>>
      /\ pump.pc \in {"read", "flag"} /\ pump'.pc \in {"flag", "push"}
      /\ pump'.off = pump.off /\ pump'.round = pump.round
      /\ stream'.aborted = stream.aborted /\ stream'.queue = stream.queue
      /\ \/ stream'.offset = pump.off + 1
         \/ pump.pc = "flag" /\ stream'.offset = stream.offset
    BY DecodeAdvanceIs, DecodeFlagIs DEF DecodeGoes, SameBuffers
<1>2. Pending' = Pending
    BY <1>1 DEF Pending, MutexFree
<1>3. InTrackOrder'
    BY <1>1, <1>2, OrderedIs, OrderedIsNext DEF Order
<1>4. Overtaken' /\ Advancing'
    BY <1>1, <1>2 DEF Order, Overtaken, Advancing, Reading
<1>5. Continued'
    BY <1>1, <1>2 DEF Order, Continued, Reading, Ahead, FollowsAt
<1> QED BY <1>3, <1>4, <1>5 DEF Order

LEMMA DecodeNothingOrder ==
    ASSUME Types, Buffers, Order, DecodeNothing
    PROVE  Order'
<1>1. /\ UNCHANGED <<wave, al, main, round, calls>>
      /\ pump.pc = "read" /\ pump.off \in wave.empty /\ pump'.pc = "done"
      /\ stream'.aborted = stream.aborted /\ stream'.queue = stream.queue
      /\ stream'.eof \/ stream'.offset = 0
    BY DecodeNothingIs DEF DecodeGoes, SameBuffers
<1>2. Pending' = Pending
    BY <1>1 DEF Pending, MutexFree
<1>3. InTrackOrder'
    BY <1>1, <1>2, OrderedIs, OrderedIsNext DEF Order
<1>4. Overtaken' /\ Advancing'
    BY <1>1 DEF Overtaken, Advancing, Reading
<1>5. Continued'
    <2>1. CASE stream'.eof
        BY <1>1, <2>1 DEF Continued, Reading
    <2>2. CASE stream'.offset = 0
        <3>1. Ahead' = 0
            BY <1>1, <2>2, Sizes DEF Ahead, Reading
        <3>2. SUFFICES ASSUME ~stream.aborted, Pending # <<>>,
                              Pending[Len(Pending)].round = round
                       PROVE  FollowsAt(Pending[Len(Pending)].off, 0)'
            BY <1>1, <1>2, <3>1 DEF Continued
        <3>3. FollowsAt(Pending[Len(Pending)].off, pump.off)
            BY <1>1, <3>2 DEF Order, Continued, Reading, Ahead
        <3> QED BY <1>1, <1>2, <3>3 DEF FollowsAt
    <2> QED BY <1>1, <2>1, <2>2
<1> QED BY <1>3, <1>4, <1>5 DEF Order

LEMMA DecodePushOrder ==
    ASSUME Types, Buffers, Order, DecodePush
    PROVE  Order'
<1> DEFINE c == [off |-> pump.off, round |-> pump.round]
           p == Pending
<1>1. /\ UNCHANGED <<wave, al, main, round, calls>> /\ stream \in StreamType
      /\ pump.pc = "push" /\ pump \in PumpType
      /\ pump' = [pump EXCEPT !.pc = "done"]
      /\ stream' = [stream EXCEPT !.queue = Append(stream.queue, c)]
    BY DEF Types, DecodePush
<1>2. /\ c \in Chunk /\ c.off = pump.off /\ c.round = pump.round
      /\ pump'.pc = "done" /\ pump.off \in 0 .. NumChunks - 1
    BY <1>1, PumpIs DEF Chunk
<1> HIDE DEF c
<1>3. /\ stream'.aborted = stream.aborted /\ stream'.offset = stream.offset
      /\ stream'.eof = stream.eof /\ stream'.queue = Append(stream.queue, c)
    BY <1>1 DEF StreamType
<1>4. Overtaken' /\ Advancing'
    BY <1>2 DEF Overtaken, Advancing, Reading
<1>5. CASE stream.aborted
    <2>1. Pending' = Pending
        BY <1>1, <1>2, <1>3, <1>5 DEF Pending, MutexFree
    <2>2. InTrackOrder'
        BY <1>1, <2>1, OrderedIs, OrderedIsNext DEF Order
    <2>3. Continued'
        BY <1>3, <1>5 DEF Continued
    <2> QED BY <1>4, <2>2, <2>3 DEF Order
<1>6. CASE ~stream.aborted
    <2>1. p \in Seq(Chunk) /\ Len(p) \in Nat
        BY PendingType
    <2>2. Pending' = Append(p, c)
        <3>1. /\ al.ring \in Seq(Chunk) /\ stream.queue \in Seq(Chunk)
              /\ p = al.ring \o stream.queue
            BY <1>6, PendingType DEF Aborted
        <3>2. al.ring \o Append(stream.queue, c) = Append(al.ring \o stream.queue, c)
            <4> DEFINE r == al.ring
                       t == stream.queue
            <4>1. c \in Chunk /\ r \in Seq(Chunk) /\ t \in Seq(Chunk)
                BY <1>2, <3>1
            <4> HIDE DEF r, t
            <4>2. r \o Append(t, c) = Append(r \o t, c)
                BY <4>1, AppendBehind
            <4> QED BY <4>2 DEF r, t
        <3>3. Pending' = al.ring \o Append(stream.queue, c)
            BY <1>1, <1>3, <1>6 DEF Pending, MutexFree
        <3> QED BY <3>1, <3>2, <3>3
    <2> HIDE DEF p
    <2> DEFINE q == Append(p, c)
    <2>3. /\ q \in Seq(Chunk) /\ Len(q) = Len(p) + 1 /\ q # <<>>
          /\ \A i \in 1 .. Len(p) : q[i] = p[i]
          /\ q[Len(p) + 1] = c /\ q[Len(q)] = c
        BY <1>2, <2>1, AppendProperties, EmptySeq
    <2> HIDE DEF q
    <2>4. Ordered(p, round, wave.empty)
        BY OrderedIs DEF Order, p
    <2>5. /\ pump.round # round => p = <<>>
          /\ p # <<>> /\ p[Len(p)].round = round =>
                 \/ pump.off = p[Len(p)].off + 1
                 \/ /\ pump.off = 0
                    /\ \/ p[Len(p)].off + 1 = NumChunks
                       \/ p[Len(p)].off + 1 \in wave.empty
        BY <1>1, <1>6
        DEF Order, Overtaken, Continued, Reading, Ahead, FollowsAt, p
    <2>6. Ordered(q, round, wave.empty)
        <3>1. SUFFICES ASSUME NEW i \in 1 .. Len(q) - 1
                       PROVE  /\ q[i + 1].round = round
                              /\ q[i].round = round =>
                                     \/ q[i + 1].off = q[i].off + 1
                                     \/ /\ q[i + 1].off = 0
                                        /\ \/ q[i].off + 1 = NumChunks
                                           \/ q[i].off + 1 \in wave.empty
            BY DEF Ordered
        <3>2. i \in 1 .. Len(p) /\ q[i] = p[i]
            BY <2>1, <2>3
        <3>3. CASE i = Len(p)
            <4>1. p # <<>> /\ q[i + 1] = c
                BY <2>1, <2>3, <3>2, <3>3, EmptySeq
            <4> QED BY <1>2, <2>5, <3>2, <3>3, <4>1
        <3>4. CASE i # Len(p)
            <4>1. i \in 1 .. Len(p) - 1 /\ i + 1 \in 1 .. Len(p)
                BY <2>1, <3>2, <3>4
            <4>2. q[i + 1] = p[i + 1]
                BY <2>3, <4>1
            <4> QED BY <2>4, <3>2, <4>1, <4>2 DEF Ordered
        <3> QED BY <3>3, <3>4
    <2>7. InTrackOrder'
        BY <1>1, <2>2, <2>6, OrderedIsNext DEF q
    <2>8. Continued'
        <3>1. SUFFICES ASSUME c.round = round
                       PROVE  FollowsAt(c.off, Ahead')
            BY <1>1, <1>3, <2>2, <2>3 DEF Continued, FollowsAt, q
        <3>2. stream.offset = pump.off + 1
            BY <1>1, <1>2, <3>1 DEF Order, Advancing
        <3>3. Ahead' = IF pump.off + 1 >= NumChunks THEN 0 ELSE pump.off + 1
            BY <1>2, <1>3, <3>2 DEF Ahead, Reading
        <3>4. pump.off + 1 >= NumChunks => pump.off + 1 = NumChunks
            BY <1>2, Sizes
        <3> QED BY <1>2, <3>3, <3>4 DEF FollowsAt
    <2> QED BY <1>4, <2>7, <2>8 DEF Order
<1> QED BY <1>5, <1>6

LEMMA DecodeDoneOrder ==
    ASSUME Types, Buffers, Order, DecodeDone
    PROVE  Order'
<1>1. /\ UNCHANGED <<wave, al, main, round, calls>> /\ stream \in StreamType
      /\ pump.pc = "done" /\ stream' = [stream EXCEPT !.busy = FALSE]
      /\ pump' = [pc |-> "idle", off |-> 0, last |-> FALSE, round |-> 0]
    BY DEF Types, DecodeDone, NotBusy, IdlePump
<1>2. /\ stream'.aborted = stream.aborted /\ stream'.offset = stream.offset
      /\ stream'.eof = stream.eof /\ stream'.queue = stream.queue
      /\ pump'.pc = "idle"
    BY <1>1 DEF StreamType
<1>3. Pending' = Pending
    BY <1>1, <1>2 DEF Pending, MutexFree
<1>4. InTrackOrder'
    BY <1>1, <1>3, OrderedIs, OrderedIsNext DEF Order
<1>5. Overtaken' /\ Advancing'
    BY <1>2 DEF Overtaken, Advancing, Reading
<1>6. Continued'
    BY <1>1, <1>2, <1>3 DEF Order, Continued, Reading, Ahead, FollowsAt
<1> QED BY <1>4, <1>5, <1>6 DEF Order

\* The source is deleted: what it had not played will not be heard.
LEMMA NoSourceOrder ==
    ASSUME Types, Types', Order, al'.ring = <<>>,
           UNCHANGED <<stream, pump, round>>, wave'.empty = wave.empty
    PROVE  Order'
<1> DEFINE p == Pending
           q == Pending'
           r == al.ring
           t == stream.queue
<1>1. /\ p \in Seq(Chunk) /\ Len(p) \in Nat /\ r \in Seq(Chunk) /\ Len(r) \in Nat
      /\ t \in Seq(Chunk) /\ Len(t) \in Nat
      /\ Aborted => p = r
      /\ ~Aborted =>
             /\ Len(p) = Len(r) + Len(t)
             /\ \A i \in 1 .. Len(p) : p[i] = IF i <= Len(r) THEN r[i] ELSE t[i - Len(r)]
    BY PendingType
<1>2. q = IF Aborted THEN <<>> ELSE <<>> \o t
    BY DEF Pending, Aborted, MutexFree
<1>3. <<>> \o t = t /\ Len(<<>>) = 0
    <2> HIDE DEF t
    <2> QED BY <1>1, ConcatEmptySeq, EmptySeq
<1> HIDE DEF p, q, r, t
<1>4. PICK d \in Nat : d = Len(r)
    BY <1>1
<1>5. CASE Aborted
    <2>1. q = <<>> /\ Len(q) = 0
        BY <1>2, <1>3, <1>5
    <2>2. Len(q) + 0 =< Len(p) /\ \A i \in 1 .. Len(q) : q[i] = p[i + 0]
        BY <1>1, <2>1
    <2> QED BY <1>5, <2>1, <2>2, CutOrder DEF p, q, Aborted, PumpStays
<1>6. CASE ~Aborted
    <2>1. q = t /\ Len(q) + d = Len(p)
        BY <1>1, <1>2, <1>3, <1>4, <1>6
    <2>2. ASSUME NEW i \in 1 .. Len(q) PROVE q[i] = p[i + d]
        <3>1. i + d \in 1 .. Len(p) /\ ~(i + d =< Len(r)) /\ i + d - Len(r) = i
            BY <1>1, <1>4, <2>1
        <3>2. p[i + d] = t[i + d - Len(r)]
            BY <1>1, <1>6, <3>1
        <3> QED BY <2>1, <3>1, <3>2
    <2>3. Len(q) + d =< Len(p)
        BY <1>1, <2>1
    <2>4. /\ Len(Pending') + d =< Len(Pending)
          /\ \A i \in 1 .. Len(Pending') : Pending'[i] = Pending[i + d]
          /\ Len(Pending') + d = Len(Pending)
        BY <1>6, <2>1, <2>2, <2>3 DEF p, q
    <2>5. /\ stream.aborted => stream'.aborted
          /\ round' = round /\ wave'.empty = wave.empty /\ PumpStays
          /\ stream'.offset = stream.offset /\ stream'.eof = stream.eof
          /\ stream'.aborted = stream.aborted
        BY DEF PumpStays
    <2> QED BY <2>4, <2>5, CutOrder
<1> QED BY <1>5, <1>6

LEMMA UnloadOrder ==
    ASSUME Types, Buffers, Order, Unload
    PROVE  Order'
<1>1. wave \in WaveType /\ Types' /\ UNCHANGED <<stream, pump, round>>
    BY UnloadBuffers DEF Types, Unload
<1>2. wave'.empty = wave.empty
    BY <1>1 DEF Unload, WaveType
<1>3. CASE al' = NoSource
    BY <1>1, <1>2, <1>3, NoSourceOrder DEF NoSource
<1>4. CASE al' = al
    BY <1>1, <1>2, <1>4, QuietOrder DEF Pending, MutexFree, PumpStays
<1> QED BY <1>3, <1>4 DEF Unload

LEMMA FreeOrder ==
    ASSUME Types, Buffers, Order, Free
    PROVE  Order'
<1>1. Types' /\ UNCHANGED <<wave, stream, pump, round>> /\ al'.ring = <<>>
    BY FreeBuffers DEF Free, NoSource
<1> QED BY <1>1, NoSourceOrder

\* The stream is aborted: what it had decoded will not be heard, unless the pump
\* is in a pass.
LEMMA DestroyOrder ==
    ASSUME Types, Buffers, Order, Destroy
    PROVE  Order'
<1> DEFINE p == Pending
           q == Pending'
<1>1. /\ Types' /\ stream'.aborted /\ stream'.offset = stream.offset
      /\ UNCHANGED <<wave, al, pump, round>> /\ stream'.eof = stream.eof
    BY DestroyBuffers DEF Destroy, Types, StreamType
<1>2. q = IF MutexFree THEN al.ring ELSE p
    <2>1. MutexFree' = MutexFree /\ al' = al
        BY <1>1 DEF MutexFree
    <2>2. stream'.queue = stream.queue
        BY DestroyBuffers
    <2> QED BY <1>1, <2>1, <2>2 DEF Pending
<1>3. /\ Len(q) \in Nat /\ Len(p) \in Nat /\ Len(q) + 0 =< Len(p)
      /\ \A i \in 1 .. Len(q) : q[i] = p[i]
    <2> DEFINE r == al.ring
               t == stream.queue
    <2>1. /\ Len(p) \in Nat /\ Len(r) \in Nat /\ Len(t) \in Nat
          /\ Aborted => p = r
          /\ ~Aborted =>
                 /\ Len(p) = Len(r) + Len(t)
                 /\ \A i \in 1 .. Len(p) :
                        p[i] = IF i <= Len(r) THEN r[i] ELSE t[i - Len(r)]
        BY PendingType
    <2>2. q = r \/ q = p
        BY <1>2
    <2> HIDE DEF p, q, r, t
    <2>3. CASE q = p
        BY <2>1, <2>3
    <2>5. CASE Aborted /\ q = r
        BY <2>1, <2>5
    <2>4. CASE ~Aborted /\ q = r
        <3>1. /\ Len(q) =< Len(p)
              /\ \A i \in 1 .. Len(q) : i \in 1 .. Len(p) /\ i <= Len(r)
            BY <2>1, <2>2, <2>4
        <3> QED BY <2>1, <2>2, <2>4, <3>1
    <2> QED BY <2>2, <2>3, <2>4, <2>5
<1>4. \A i \in 1 .. Len(q) : q[i] = p[i + 0]
    <2> HIDE DEF p, q
    <2> QED BY <1>3
<1> QED BY <1>1, <1>3, <1>4, CutOrder DEF PumpStays

\* The wave that plays is stopped.
LEMMA DoStopOrder ==
    ASSUME Types, Buffers, Order, NEW w \in WaveType, w.empty = wave.empty, DoStop(w),
           UNCHANGED pump
    PROVE  Order'
<1>1. CASE UNCHANGED <<stream, al, round>>
    BY <1>1, DoStopIs, QuietOrder DEF Pending, MutexFree, PumpStays
<1>2. CASE al'.ring = <<>> /\ stream'.queue = <<>> /\ round' = round + 1
    <2>1. Pending' = <<>>
        BY <1>2 DEF Pending
    <2>2. Advancing'
        BY <1>2, Sizes DEF Advancing, Types, PumpType
    <2> QED BY <2>1, <2>2, EmptyOrder
<1> QED BY <1>1, <1>2, DoStopIs

\* What Commit and Replay do.
LEMMA BecomeOrder ==
    ASSUME Types, Buffers, Order, NEW s, Fine(s), BecomeOf(s),
           UNCHANGED <<pump, round, calls>>, main' = "run"
    PROVE  Order'
<1>1. wave'.empty = wave.empty /\ al'.ring = al.ring
    BY BecomeBuffers
<1>2. CASE stream' = stream
    BY <1>1, <1>2, QuietOrder DEF Pending, MutexFree, PumpStays
<1>3. CASE stream'.queue = <<>> /\ al.ring = <<>> /\ pump.pc = "idle"
    <2>1. Pending' = <<>>
        BY <1>1, <1>3 DEF Pending
    <2>2. Advancing'
        BY <1>3 DEF Advancing
    <2> QED BY <2>1, <2>2, EmptyOrder
<1> QED BY <1>2, <1>3, BecomeBuffers

LEMMA PumpEnterOrder ==
    ASSUME Types, Buffers, Order, PumpEnter
    PROVE  Order'
<1>1. /\ UNCHANGED <<wave, stream, al, round>>
      /\ pump.pc = "idle" /\ pump'.pc = "drain" /\ ~stream.aborted
    BY PumpEnterIs
<1>2. Pending' = Pending
    BY <1>1 DEF Pending
<1>3. PumpStays
    BY <1>1 DEF PumpStays, Away
<1> QED BY <1>1, <1>2, <1>3, QuietOrder

LEMMA PumpDrainOrder ==
    ASSUME Types, Buffers, Order, PumpDrain
    PROVE  Order'
<1> DEFINE r == al.ring
           t == stream.queue
           p == Pending
           q == Pending'
<1>1. PICK n \in Nat : Drains(n)
    BY PumpDrainIs
<1>2. /\ UNCHANGED <<wave, round>> /\ n =< Len(r)
      /\ al'.ring = SubSeq(r, n + 1, Len(r)) /\ stream'.queue = t
      /\ stream'.offset = stream.offset /\ stream'.eof = stream.eof
      /\ stream'.aborted = stream.aborted
      /\ pump.pc = "drain" /\ pump'.pc = "upload"
    BY <1>1 DEF Drains
<1>3. Types' /\ PumpStays /\ ~MutexFree /\ ~MutexFree'
    BY <1>2, PumpDrainBuffers DEF PumpStays, Away, MutexFree
<1>4. p = r \o t /\ q = SubSeq(r, n + 1, Len(r)) \o t
    BY <1>2, <1>3 DEF Pending
<1>5. /\ r \in Seq(Chunk) /\ t \in Seq(Chunk) /\ Len(r) \in Nat /\ Len(t) \in Nat
    BY PendingType
<1> HIDE DEF r, t, p, q
<1> DEFINE a == SubSeq(r, n + 1, Len(r))
<1>6. /\ a \in Seq(Chunk) /\ Len(a) = Len(r) - n
      /\ \A i \in 1 .. Len(r) - n : a[i] = r[i + n]
    <2>1. /\ a \in Seq(Chunk) /\ Len(a) = IF n < Len(r) THEN Len(r) - n ELSE 0
          /\ \A i \in 1 .. Len(r) - n : a[i] = r[i + n]
        BY <1>2, <1>5, PartFact
    <2> HIDE DEF a
    <2>2. Len(a) = Len(r) - n
        BY <1>2, <1>5, <2>1
    <2> QED BY <2>1, <2>2
<1>7. q = a \o t
    BY <1>4
<1> HIDE DEF a
<1>8. /\ Len(p) = Len(r) + Len(t)
      /\ \A i \in 1 .. Len(r) + Len(t) : p[i] = IF i <= Len(r) THEN r[i] ELSE t[i - Len(r)]
    <2>1. /\ Len(r \o t) = Len(r) + Len(t)
          /\ \A i \in 1 .. Len(r) + Len(t) :
                 (r \o t)[i] = IF i <= Len(r) THEN r[i] ELSE t[i - Len(r)]
        BY <1>5, ConcatProperties
    <2> QED BY <1>4, <2>1
<1>9. /\ Len(q) = Len(a) + Len(t)
      /\ \A i \in 1 .. Len(a) + Len(t) : q[i] = IF i <= Len(a) THEN a[i] ELSE t[i - Len(a)]
    <2>1. /\ Len(a \o t) = Len(a) + Len(t)
          /\ \A i \in 1 .. Len(a) + Len(t) :
                 (a \o t)[i] = IF i <= Len(a) THEN a[i] ELSE t[i - Len(a)]
        BY <1>5, <1>6, ConcatProperties
    <2> QED BY <1>7, <2>1
<1>10. Len(q) + n = Len(p)
    BY <1>2, <1>5, <1>6, <1>8, <1>9
<1>11. ASSUME NEW i \in 1 .. Len(q) PROVE q[i] = p[i + n]
    <2>0. /\ i \in 1 .. Len(a) + Len(t) /\ i + n \in 1 .. Len(r) + Len(t)
          /\ i \in Nat /\ Len(a) = Len(r) - n
        BY <1>2, <1>5, <1>6, <1>9
    <2>1. CASE i =< Len(a)
        <3>1. i \in 1 .. Len(r) - n /\ i + n =< Len(r)
            BY <1>5, <2>0, <2>1
        <3>2. q[i] = a[i] /\ a[i] = r[i + n]
            BY <1>6, <1>9, <2>0, <2>1, <3>1
        <3>3. p[i + n] = r[i + n]
            BY <1>8, <2>0, <3>1
        <3> QED BY <3>2, <3>3
    <2>2. CASE ~(i =< Len(a))
        <3>1. ~(i + n =< Len(r)) /\ i + n - Len(r) = i - Len(a)
            BY <1>5, <2>0, <2>2
        <3>2. q[i] = t[i - Len(a)]
            BY <1>9, <2>0, <2>2
        <3>3. p[i + n] = t[i + n - Len(r)]
            BY <1>8, <2>0, <3>1
        <3> QED BY <3>1, <3>2, <3>3
    <2> QED BY <2>1, <2>2
<1>12. /\ Len(Pending') + n = Len(Pending)
       /\ \A i \in 1 .. Len(Pending') : Pending'[i] = Pending[i + n]
    BY <1>10, <1>11 DEF p, q
<1>13. Len(Pending') + n =< Len(Pending)
    BY <1>12, PendingType
<1> QED BY <1>2, <1>3, <1>12, <1>13, CutOrder

LEMMA PumpUploadOrder ==
    ASSUME Types, Buffers, Order, NEW fails \in BOOLEAN, PumpUpload(fails)
    PROVE  Order'
<1> DEFINE r == al.ring
           t == stream.queue
           p == Pending
           q == Pending'
<1>1. PICK k \in Nat, d \in Nat : Uploads(fails, k, d)
    BY PumpUploadIs
<1>2. /\ UNCHANGED <<wave, round>> /\ k =< d /\ d =< Len(t) /\ (~fails => k = d)
      /\ al'.ring = IF al.source = "none" THEN r ELSE r \o SubSeq(t, 1, k)
      /\ stream'.queue = SubSeq(t, d + 1, Len(t))
      /\ stream'.offset = stream.offset /\ stream'.eof = stream.eof
      /\ (stream'.aborted <=> stream.aborted \/ fails)
      /\ pump.pc = "upload" /\ pump'.pc \in {"idle", "check"}
    BY <1>1 DEF Uploads
<1>3. Types' /\ PumpStays /\ ~MutexFree /\ MutexFree'
    BY <1>2, PumpUploadBuffers DEF PumpStays, Away, MutexFree
<1>4. /\ p = r \o t
      /\ q = IF stream'.aborted THEN al'.ring ELSE al'.ring \o stream'.queue
    BY <1>3 DEF Pending
<1>5. /\ r \in Seq(Chunk) /\ t \in Seq(Chunk) /\ Len(r) \in Nat /\ Len(t) \in Nat
      /\ Len(p) \in Nat
    BY PendingType
<1>6. al.source = "none" => r = <<>>
    BY DEF Buffers
<1> HIDE DEF r, t, p, q
<1>7. k =< Len(t) /\ Len(p) = Len(r) + Len(t)
    <2>1. k =< Len(t)
        BY <1>2, <1>5
    <2>2. Len(r \o t) = Len(r) + Len(t)
        BY <1>5, ConcatProperties
    <2> QED BY <1>4, <2>1, <2>2
<1>8. CASE stream'.aborted
    <2>1. Len(q) + 0 =< Len(p) /\ \A i \in 1 .. Len(q) : q[i] = p[i + 0]
        <3>1. CASE al.source = "none"
            <4>1. q = <<>> /\ Len(q) = 0
                BY <1>2, <1>4, <1>6, <1>8, <3>1, EmptySeq
            <4> QED BY <1>5, <4>1
        <3>2. CASE al.source # "none"
            <4> DEFINE u == r \o SubSeq(t, 1, k)
            <4>1. Len(u) = Len(r) + k /\ \A i \in 1 .. Len(u) : u[i] = (r \o t)[i]
                BY <1>5, <1>7, BehindFact
            <4>2. q = u
                BY <1>2, <1>4, <1>8, <3>2
            <4> HIDE DEF u
            <4>3. Len(q) =< Len(p) /\ \A i \in 1 .. Len(q) : q[i] = p[i]
                <5>1. \A i \in 1 .. Len(q) : q[i] = p[i]
                    BY <1>4, <4>1, <4>2
                <5>2. Len(q) = Len(r) + k
                    BY <4>1, <4>2
                <5>3. Len(q) =< Len(p)
                    BY <1>5, <1>7, <5>2
                <5> QED BY <5>1, <5>3
            <4>4. Len(q) \in Nat
                BY <1>5, <4>1, <4>2
            <4>5. \A i \in 1 .. Len(q) : i + 0 = i
                BY <4>4
            <4> QED BY <4>3, <4>4, <4>5
        <3> QED BY <3>1, <3>2
    <2> QED BY <1>2, <1>3, <1>8, <2>1, CutOrder DEF p, q
<1>9. CASE ~stream'.aborted /\ al.source = "none"
    <2> DEFINE u == SubSeq(t, k + 1, Len(t))
    <2>1. u \in Seq(Chunk) /\ Len(u) = Len(t) - k /\ \A i \in 1 .. Len(t) - k : u[i] = t[i + k]
        <3>1. /\ u \in Seq(Chunk) /\ Len(u) = IF k < Len(t) THEN Len(t) - k ELSE 0
              /\ \A i \in 1 .. Len(t) - k : u[i] = t[i + k]
            BY <1>5, PartFact
        <3> HIDE DEF u
        <3>2. Len(u) = Len(t) - k
            BY <1>5, <1>7, <3>1
        <3> QED BY <3>1, <3>2
    <2>2. al'.ring = <<>> /\ stream'.queue = u /\ r = <<>>
        BY <1>2, <1>6, <1>9
    <2> HIDE DEF u
    <2>3. p = t /\ q = u
        <3>1. <<>> \o t = t /\ <<>> \o u = u
            BY <1>5, <2>1, ConcatEmptySeq
        <3> QED BY <1>4, <1>9, <2>2, <3>1
    <2>4. /\ Len(q) + k = Len(p) /\ Len(q) + k =< Len(p)
          /\ \A i \in 1 .. Len(q) : q[i] = p[i + k]
        <3>1. Len(q) = Len(t) - k /\ Len(p) = Len(t)
            BY <2>1, <2>3
        <3>2. Len(q) + k = Len(p) /\ Len(q) + k =< Len(p)
            BY <1>5, <3>1
        <3>3. \A i \in 1 .. Len(q) : q[i] = p[i + k]
            BY <2>1, <2>3, <3>1
        <3> QED BY <3>2, <3>3
    <2> QED BY <1>2, <1>3, <1>9, <2>4, CutOrder DEF p, q
<1>10. CASE ~stream'.aborted /\ al.source # "none"
    <2> DEFINE u == Rejoined(r, t, k)
    <2>1. Len(u) = Len(r \o t) /\ \A i \in 1 .. Len(u) : u[i] = (r \o t)[i]
        BY <1>5, <1>7, RestFact
    <2>2. q = u
        BY <1>2, <1>4, <1>10 DEF Rejoined
    <2> HIDE DEF u
    <2>3. Len(q) = Len(p) /\ \A i \in 1 .. Len(q) : q[i] = p[i]
        BY <1>4, <2>1, <2>2
    <2>4. \A i \in 1 .. Len(q) : i + 0 = i
        BY <1>5, <2>3
    <2>5. /\ Len(q) + 0 = Len(p) /\ Len(q) + 0 =< Len(p)
          /\ \A i \in 1 .. Len(q) : q[i] = p[i + 0]
        BY <1>5, <2>3, <2>4
    <2> QED BY <1>2, <1>3, <1>10, <2>5, CutOrder DEF p, q
<1> QED BY <1>8, <1>9, <1>10

LEMMA NextOrder ==
    ASSUME Types, Buffers, Order, [Next]_vars
    PROVE  Order'
<1>1. CASE Play \/ Resume \/ RepeatOnce \/ Poll
    BY <1>1, WaveSteps, QuietOrder DEF Pending, MutexFree, PumpStays
<1>2. CASE Stop \/ Restart \/ Repeat \/ LastLoop
    <2>1. CASE wave'.empty = wave.empty /\ UNCHANGED <<stream, al, pump, main, round>>
        BY <2>1, QuietOrder DEF Pending, MutexFree, PumpStays
    <2>2. CASE /\ \E w \in WaveType : w.empty = wave.empty /\ DoStop(w)
               /\ UNCHANGED pump
        BY <2>2, DoStopOrder
    <2> QED BY <1>2, <2>1, <2>2, StopSteps
<1>3. CASE Pause
    <2>1. al'.ring = al.ring /\ wave'.empty = wave.empty
        BY <1>3 DEF Pause, Types, SourceType, WaveType
    <2> QED BY <1>3, <2>1, QuietOrder DEF Pause, Pending, MutexFree, PumpStays
<1>4. CASE Destroy
    BY <1>4, DestroyOrder
<1>5. CASE Unload
    BY <1>5, UnloadOrder
<1>6. CASE WaitDecode \/ Free
    <2>1. CASE WaitDecode
        BY <2>1, QuietOrder DEF WaitDecode, Pending, MutexFree, PumpStays
    <2> QED BY <1>6, <2>1, FreeOrder
<1>7. CASE Replay
    <2>1. PICK fails \in BOOLEAN : BecomeOf(DoPlay(Here, fails))
        BY <1>7, WaveAssumption DEF Replay
    <2>2. Fine(DoPlay(Here, fails))
        BY FineHere, DoPlayFine
    <2>3. UNCHANGED <<pump, round, calls>> /\ main' = "run"
        BY <1>7 DEF Replay
    <2> QED BY <2>1, <2>2, <2>3, BecomeOrder
<1>8. ASSUME NEW fails \in OpenFails, Commit(fails) PROVE Order'
    <2>1. fails \in BOOLEAN
        BY WaveAssumption
    <2>2. PICK s : Fine(s) /\ BecomeOf(s)
        BY <1>8, <2>1, CommitFine
    <2>3. UNCHANGED <<pump, main, round, calls>> /\ main = "run"
        BY <1>8 DEF Commit
    <2> QED BY <2>2, <2>3, BecomeOrder
<1>9. CASE PumpPass
    <2>1. UploadFails \subseteq BOOLEAN
        BY WaveAssumption
    <2> QED BY <1>9, <2>1, PumpEnterOrder, PumpDrainOrder, PumpUploadOrder
            DEF PumpPass
<1>10. CASE Decode
    BY <1>10, DecodeCheckOrder, DecodeReadOrder, DecodeNothingOrder, DecodePushOrder,
       DecodeDoneOrder DEF Decode
<1>11. CASE PlayBuffer
    <2>1. al'.ring = al.ring
        BY <1>11 DEF PlayBuffer, Types, SourceType
    <2> QED BY <1>11, <2>1, QuietOrder DEF PlayBuffer, Pending, MutexFree, PumpStays
<1>12. CASE UNCHANGED vars
    BY <1>12, QuietOrder DEF vars, Pending, MutexFree, PumpStays
<1> QED BY <1>1, <1>2, <1>3, <1>4, <1>5, <1>6, <1>7, <1>8, <1>9, <1>10, <1>11, <1>12
        DEF Next, UserStep, MainStep

-----------------------------------------------------------------------------
(***************************************************************************)
(* The theorems.                                                           *)
(***************************************************************************)
\* The inductive invariant: types, buffers, and the order of the chunks, of
\* which every step of the pump, the device and the main thread keeps each.
THEOREM Inductive == Spec => []IInv
<1>1. Init => IInv
    BY InitBuffers, InitOrder DEF IInv
<1>2. IInv /\ [Next]_vars => IInv'
    BY NextBuffers, NextOrder DEF IInv
<1> QED BY <1>1, <1>2, PTL DEF Spec

\* No variable leaves its type: in particular neither queue, nor the counts of
\* free and playing buffers, ever exceed kNumBuffers.
THEOREM TypeCorrect == Spec => []TypeOK
<1>1. IInv => TypeOK
    <2> SUFFICES ASSUME IInv PROVE TypeOK
        OBVIOUS
    <2>1. Types /\ Buffers
        BY DEF IInv
    <2>2. /\ stream \in StreamType /\ al \in SourceType /\ Decoding \in Nat
          /\ Len(stream.queue) \in Nat /\ Len(al.ring) \in Nat
          /\ stream.inFlight \in Nat /\ stream.free \in Nat
          /\ stream.inFlight =< NumBuffers /\ stream.free =< NumBuffers
        <3>1. /\ stream \in StreamType /\ al \in SourceType /\ Decoding \in Nat
              /\ stream.free + stream.inFlight =< NumBuffers
            BY <2>1 DEF Types, Buffers, Decoding
        <3>2. /\ Len(stream.queue) \in Nat /\ Len(al.ring) \in Nat
              /\ stream.inFlight \in Nat /\ stream.free \in Nat
            BY <3>1, SourceIs, StreamIs
        <3>3. stream.inFlight =< NumBuffers /\ stream.free =< NumBuffers
            BY <3>1, <3>2, Sizes
        <3> QED BY <3>1, <3>2, <3>3
    <2>3. Len(stream.queue) =< NumBuffers /\ Len(al.ring) =< NumBuffers
        <3>1. \A a, b, c \in Nat : a + b + c =< NumBuffers =>
                  a =< NumBuffers /\ c =< NumBuffers
            BY Sizes
        <3> QED BY <2>1, <2>2, <3>1 DEF Buffers, Bounded
    <2>4. al.played \in Nat /\ al.played =< NumBuffers
        BY <2>1, <2>2, <2>3, SourceIs, Sizes DEF Buffers
    <2>5. /\ stream.queue \in BoundedSeq(Chunk, NumBuffers)
          /\ al.ring \in BoundedSeq(Chunk, NumBuffers)
        BY <2>2, <2>3, SourceIs, StreamIs, BoundedFact, Sizes
    <2>6. stream \in [opened : BOOLEAN, offset : 0 .. NumChunks, eof : BOOLEAN,
                      aborted : BOOLEAN, busy : BOOLEAN,
                      inFlight : 0 .. NumBuffers, free : 0 .. NumBuffers,
                      queue : BoundedSeq(Chunk, NumBuffers)]
        BY <2>2, <2>5, Sizes DEF StreamType
    <2>7. al \in [source : {"none", "initial", "playing", "paused", "stopped"},
                  ring : BoundedSeq(Chunk, NumBuffers), played : 0 .. NumBuffers]
        BY <2>2, <2>4, <2>5, Sizes DEF SourceType
    <2>8. round \in 0 .. MaxCalls
        BY <2>1, Sizes DEF Types
    <2> QED BY <2>1, <2>6, <2>7, <2>8 DEF TypeOK, Types, PumpType, PumpPlaces, Away
<1> QED BY <1>1, Inductive, PTL

\* No buffer of a source is lost or counted twice, whatever is recycled,
\* stopped, unloaded or aborted when (PumpDrainUpload, DoStop).
THEOREM BuffersKept == Spec => []NoBufferLost
<1>1. IInv => NoBufferLost
    BY DEF IInv, Buffers
<1> QED BY <1>1, Inductive, PTL

\* Every chunk that is decoded or being decoded will find a buffer, also when
\* a stop came in between.
THEOREM RingBounded == Spec => []Bounded
<1>1. IInv => Bounded
    BY DEF IInv, Buffers
<1> QED BY <1>1, Inductive, PTL

\* Chunks are heard in the order of the track, but for one that was decoded
\* before a stop.
THEOREM TrackOrder == Spec => []InTrackOrder
<1>1. IInv => InTrackOrder
    BY DEF IInv, Order
<1> QED BY <1>1, Inductive, PTL

\* A wave is not paused between the stop and the play of Repeat and LastLoop.
Awake == main = "replay" => ~wave.paused

LEMMA AwakeKept ==
    ASSUME Types, Awake, [Next]_vars
    PROVE  Awake'
<1>1. SUFFICES ASSUME main' = "replay" PROVE ~wave'.paused
    BY DEF Awake
<1>2. ASSUME NEW w \in WaveType, DoStop(w) PROVE ~wave'.paused
    BY <1>2 DEF DoStop, WaveType
<1>3. CASE main = "replay"
    <2>1. UNCHANGED wave
        BY <1>1, <1>3
        DEF Next, UserStep, MainStep, Call, Play, Resume, Pause, Stop, Restart,
            RepeatOnce, Repeat, LastLoop, Destroy, Unload, Replay, Poll, WaitDecode,
            Free, Commit, PumpPass, PumpEnter, PumpDrain, PumpUpload, Decode,
            DecodeCheck, DecodeAdvance, DecodeNothing, DecodeFlag, DecodePush,
            DecodeDone, PlayBuffer, vars
    <2> QED BY <1>3, <2>1 DEF Awake
<1>4. CASE main # "replay"
    <2>1. \E loops \in BOOLEAN : DoStop([wave EXCEPT !.looping = loops])
        BY <1>1, <1>4
        DEF Next, UserStep, MainStep, Call, Play, Resume, Pause, Stop, Restart,
            RepeatOnce, Repeat, LastLoop, SetLooping, Destroy, Unload, Replay, Poll,
            WaitDecode, Free, Commit, PumpPass, PumpEnter, PumpDrain, PumpUpload,
            Decode, DecodeCheck, DecodeAdvance, DecodeNothing, DecodeFlag,
            DecodePush, DecodeDone, PlayBuffer, vars
    <2>2. \A loops \in BOOLEAN : [wave EXCEPT !.looping = loops] \in WaveType
        BY DEF Types, WaveType
    <2> QED BY <1>2, <2>1, <2>2
<1> QED BY <1>3, <1>4

\* Nothing but a call of its user starts a wave again that was paused: neither
\* the recovery of one that ran dry (UpdateStreamingPlayback in Commit) nor the
\* end of a loop.
THEOREM PauseKept == Spec => PauseHolds
<1>1. Init => Awake
    BY DEF Init, Awake
<1>2. IInv /\ Awake /\ [Next]_vars => Awake'
    BY AwakeKept DEF IInv
<1>3. ASSUME IInv, Awake, [Next]_vars
      PROVE  [wave.paused /\ ~wave.want /\ al.source # "playing"
                  => al'.source # "playing"]_vars
    <2>1. SUFFICES ASSUME wave.paused, ~wave.want, al.source # "playing", Next
                   PROVE  al'.source # "playing"
        BY <1>3
    <2>2. Types /\ Buffers
        BY <1>3 DEF IInv
    <2>3. ASSUME NEW w \in WaveType, w.empty = wave.empty, DoStop(w)
          PROVE  al'.source # "playing"
        BY <2>1, <2>2, <2>3, DoStopIs
    <2>4. CASE UserStep
        <3>1. CASE Play \/ Resume \/ RepeatOnce
            BY <2>1, <2>2, <3>1, WaveSteps
        <3>2. CASE Stop \/ Restart \/ Repeat \/ LastLoop
            BY <2>1, <2>2, <2>3, <3>2, StopSteps
        <3>3. CASE Pause \/ Destroy
            BY <2>1, <3>3 DEF Pause, Destroy
        <3> QED BY <2>4, <3>1, <3>2, <3>3 DEF UserStep
    <2>5. CASE MainStep
        <3>1. ~Replay
            BY <1>3, <2>1 DEF Awake, Replay
        <3>2. CASE Unload \/ Free
            BY <2>1, <3>2 DEF Unload, Free, NoSource
        <3>3. CASE Poll \/ WaitDecode
            BY <2>1, <3>3 DEF Poll, WaitDecode
        <3> QED BY <2>5, <3>1, <3>2, <3>3 DEF MainStep
    <2>6. ASSUME NEW fails \in OpenFails, Commit(fails)
          PROVE  al'.source # "playing"
        <3>1. BecomeOf(Update(Here)) /\ Here.wave = wave /\ Here.al = al
            BY <2>1, <2>6 DEF Commit, Here
        <3>2. ~MayRestart(Here.wave)
            BY <2>1, <3>1 DEF MayRestart
        <3>3. Update(Here) = Here
            BY <3>2 DEF Update
        <3> QED BY <2>1, <3>1, <3>3 DEF BecomeOf
    <2>7. CASE PumpPass
        <3>1. CASE PumpEnter
            BY <2>1, <3>1 DEF PumpEnter
        <3>2. CASE PumpDrain
            BY <2>1, <2>2, <3>2, PumpDrainIs DEF Drains
        <3>3. ASSUME NEW fails \in UploadFails, PumpUpload(fails)
              PROVE  al'.source # "playing"
            <4>1. fails \in BOOLEAN
                BY WaveAssumption
            <4> QED BY <2>1, <2>2, <3>3, <4>1, PumpUploadIs DEF Uploads
        <3> QED BY <2>7, <3>1, <3>2, <3>3 DEF PumpPass
    <2>8. CASE Decode
        BY <2>1, <2>8 DEF Decode, DecodeCheck, DecodeAdvance, DecodeNothing,
                          DecodeFlag, DecodePush, DecodeDone
    <2>9. CASE PlayBuffer
        BY <2>1, <2>9 DEF PlayBuffer
    <2> QED BY <2>1, <2>4, <2>5, <2>6, <2>7, <2>8, <2>9 DEF Next
<1> QED BY <1>1, <1>2, <1>3, Inductive, PTL DEF Spec, PauseHolds
==============================================================================
