----------------------------- MODULE StreamedWave -----------------------------
(***************************************************************************)
(* A sound that is played while it is decoded (WaveOAL.cpp, an OGG file):  *)
(* the thread of StreamPumpLoop recycles and fills the buffers of an       *)
(* OpenAL source under the audio mutex and decodes the next chunk without  *)
(* it, while the main thread plays, pauses, stops and destroys the wave    *)
(* and, once a frame (Commit), starts the source or restarts it when it    *)
(* ran dry.                                                                *)
(*                                                                         *)
(* The source is OpenAL's: it plays the buffers of its queue, is stopped   *)
(* after the last one, and all the buffers of a stopped source count as    *)
(* processed.  PCM is a chunk's number in the track.  Volume, position in  *)
(* space, delayed starts, the chain of queued waves and the virtual cursor *)
(* (Skip) are left out.  What a decode does to a wave that was freed is    *)
(* undefined: the model stops there.                                       *)
(***************************************************************************)
EXTENDS Integers, Sequences, SequencesExt

CONSTANTS
    NumBuffers,   \* StreamingBuffers::kNumBuffers
    NumChunks,    \* the length of the track, in chunks
    Truncations,  \* sets of chunks for which the decoder may return no byte
    Loops,        \* subset of BOOLEAN: values the wave is created with
    OpenFails,    \* subset of BOOLEAN: may the AL objects not be created?
    UploadFails,  \* subset of BOOLEAN: may alBufferData fail?
    Ops,          \* the operations the wave's user calls
    MaxCalls      \* bound on their calls

AllOps == {"Play", "Resume", "Pause", "Stop", "Restart", "Repeat", "LastLoop",
           "Destroy"}

ASSUME WaveAssumption ==
    /\ NumBuffers \in Nat \ {0} /\ NumChunks \in Nat \ {0}
    /\ Truncations \subseteq SUBSET (0 .. NumChunks - 1)
    /\ Loops \subseteq BOOLEAN /\ OpenFails \subseteq BOOLEAN
    /\ UploadFails \subseteq BOOLEAN
    /\ Ops \subseteq AllOps /\ MaxCalls \in Nat

VARIABLES
    wave,    \* play-state, which only the main thread touches
    stream,  \* _streaming: the state both threads share
    al,      \* the source: its state, its queue, how much of it was played
    pump,    \* the pump thread: where it is in a pass or a decode, its locals
    main,    \* the main thread: where it is in an operation of several steps
    round,   \* history: how often DoStop has reset the stream
    calls    \* how often the user has called

vars == <<wave, stream, al, pump, main, round, calls>>

NewWave(loops, empty) ==
    [want |-> FALSE, playing |-> FALSE, paused |-> FALSE, everPlayed |-> FALSE,
     loaded |-> FALSE, failed |-> FALSE, intent |-> FALSE,
     terminated |-> FALSE, looping |-> loops, empty |-> empty]

NoStream == [opened |-> FALSE, offset |-> 0, eof |-> FALSE, aborted |-> FALSE,
             busy |-> FALSE, inFlight |-> 0, free |-> 0, queue |-> <<>>]

NoSource == [source |-> "none", ring |-> <<>>, played |-> 0]

IdlePump == [pc |-> "idle", off |-> 0, last |-> FALSE, round |-> 0]

Init ==
    /\ \E loops \in Loops, empty \in Truncations : wave = NewWave(loops, empty)
    /\ stream = NoStream /\ al = NoSource
    /\ pump = IdlePump /\ main = "run"
    /\ round = 0 /\ calls = 0

-----------------------------------------------------------------------------
(***************************************************************************)
(* The OpenAL source.                                                      *)
(***************************************************************************)
\* AL_BUFFERS_PROCESSED
Processed == IF al.source = "stopped" THEN Len(al.ring) ELSE al.played

\* alSourcePlay: from the head of the queue, unless it was paused.
SourcePlay(a) ==
    CASE a.source = "none" -> a
      [] a.source # "none" /\ a.ring = <<>> ->
             [a EXCEPT !.source = "stopped", !.played = 0]
      [] a.source = "paused" /\ a.ring # <<>> -> [a EXCEPT !.source = "playing"]
      [] OTHER -> [a EXCEPT !.source = "playing", !.played = 0]

\* The device plays a buffer to its end.
PlayBuffer ==
    /\ al.source = "playing"
    /\ al' = [al EXCEPT !.played = @ + 1,
                        !.source = IF al.played + 1 = Len(al.ring)
                                   THEN "stopped" ELSE @]
    /\ UNCHANGED <<wave, stream, pump, main, round, calls>>

-----------------------------------------------------------------------------
(***************************************************************************)
(* The pump thread.                                                        *)
(***************************************************************************)
\* Mutant: buffers on the source are not counted.
RoomQueued(queue, inFlight) == Len(queue) < NumBuffers

\* Is there room for another chunk?
Room(queue, inFlight) == Len(queue) + inFlight < NumBuffers

\* Mutant: a recycled buffer is counted twice.
RecycledTwice(n) == stream.free + 2 * n

\* Mutant: a buffer is lost whenever one is recycled.
RecycledLost(n) == Max({stream.free, stream.free + n - 1})

\* The free buffers once n played ones were unqueued.
Recycled(n) == stream.free + n

\* The main thread has the audio mutex only within a step; the pump keeps it
\* while it is in PumpDrainUpload.
MutexFree == pump.pc \notin {"drain", "upload"}

\* The pump takes the mutex, and PumpDrainUpload goes on for a registered wave
\* that has a source and is neither broken nor aborted...
PumpEnter ==
    /\ pump.pc = "idle" /\ main # "gone"
    /\ al.source # "none" /\ ~wave.failed /\ ~stream.aborted
    /\ pump' = [pump EXCEPT !.pc = "drain"]
    /\ UNCHANGED <<wave, stream, al, main, round, calls>>

\* ... it unqueues what was played...
PumpDrain ==
    /\ pump.pc = "drain"
    /\ LET n == Processed
       IN  /\ al' = [al EXCEPT !.ring = SubSeq(@, n + 1, Len(@)), !.played = 0]
           /\ stream' = [stream EXCEPT !.free = Recycled(n),
                                       !.inFlight = Max({0, @ - n})]
    /\ pump' = [pump EXCEPT !.pc = "upload"]
    /\ UNCHANGED <<wave, main, round, calls>>

\* A buffer is queued on the source, unless Unload has just deleted it.
Queued(a, chunks) ==
    IF a.source = "none" THEN a ELSE [a EXCEPT !.ring = @ \o chunks]

\* ... uploads what was decoded, and latches decodeInFlight if another chunk
\* is to be decoded; the mutex is released.  When an upload fails the chunk is
\* lost and the stream aborted.
PumpUpload(fails) ==
    /\ pump.pc = "upload"
    /\ LET most == Min({stream.free, Len(stream.queue)})
       IN  \E k \in IF fails THEN 0 .. most - 1 ELSE {most} :
               LET queue == SubSeq(stream.queue, (IF fails THEN k + 2 ELSE k + 1),
                                   Len(stream.queue))
                   decode == /\ ~fails /\ ~stream.eof /\ ~stream.busy
                             /\ Room(queue, stream.inFlight + k)
               IN  /\ al' = Queued(al, SubSeq(stream.queue, 1, k))
                   /\ stream' = [stream EXCEPT
                          !.free = @ - k, !.inFlight = @ + k, !.queue = queue,
                          !.aborted = @ \/ fails, !.busy = @ \/ decode]
                   /\ pump' = [pump EXCEPT !.pc = IF decode THEN "check" ELSE "idle"]
    /\ UNCHANGED <<wave, main, round, calls>>

\* DecodeOneChunk reads the flags and where to go on; a track that loops
\* starts again.
DecodeCheck ==
    /\ pump.pc = "check"
    /\ LET over == stream.offset >= NumChunks
           off == IF over THEN 0 ELSE stream.offset
       IN  CASE stream.aborted \/ wave.failed \/ stream.eof ->
                    /\ pump' = [pump EXCEPT !.pc = "done"]
                    /\ UNCHANGED stream
             [] ~(stream.aborted \/ wave.failed \/ stream.eof) /\ over
                    /\ ~wave.looping ->
                    /\ pump' = [pump EXCEPT !.pc = "done"]
                    /\ stream' = [stream EXCEPT !.eof = TRUE]
             [] OTHER ->
                    /\ pump' = [pc |-> "read", off |-> off, round |-> round,
                                last |-> off + 1 >= NumChunks /\ ~wave.looping]
                    /\ stream' = [stream EXCEPT !.offset = off]
    /\ UNCHANGED <<wave, al, main, round, calls>>

\* Mutant: the offset stays.
AdvancedNot(off) == off

\* Where the next decode goes on.
Advanced(off) == off + 1

\* The decoder has read the chunk, and the offset moves on...
DecodeAdvance ==
    /\ pump.pc = "read" /\ pump.off \notin wave.empty
    /\ stream' = [stream EXCEPT !.offset = Advanced(pump.off)]
    /\ pump' = [pump EXCEPT !.pc = IF pump.last THEN "flag" ELSE "push"]
    /\ UNCHANGED <<wave, al, main, round, calls>>

\* ... or it returned nothing, which is the end of the track.
DecodeNothing ==
    /\ pump.pc = "read" /\ pump.off \in wave.empty
    /\ stream' = [stream EXCEPT !.offset = IF wave.looping THEN 0 ELSE @,
                                !.eof = @ \/ ~wave.looping]
    /\ pump' = [pump EXCEPT !.pc = "done"]
    /\ UNCHANGED <<wave, al, main, round, calls>>

DecodeFlag ==
    /\ pump.pc = "flag"
    /\ stream' = [stream EXCEPT !.eof = TRUE]
    /\ pump' = [pump EXCEPT !.pc = "push"]
    /\ UNCHANGED <<wave, al, main, round, calls>>

DecodePush ==
    /\ pump.pc = "push"
    /\ stream' = [stream EXCEPT
           !.queue = Append(@, [off |-> pump.off, round |-> pump.round])]
    /\ pump' = [pump EXCEPT !.pc = "done"]
    /\ UNCHANGED <<wave, al, main, round, calls>>

\* Mutant: decodeInFlight stays when the stream was aborted.
NotBusyUnlessAborted == stream.aborted

\* The value of decodeInFlight when DecodeQueuedChunk returns.
NotBusy == FALSE

DecodeDone ==
    /\ pump.pc = "done"
    /\ stream' = [stream EXCEPT !.busy = NotBusy]
    /\ pump' = IdlePump
    /\ UNCHANGED <<wave, al, main, round, calls>>

Decode ==
    /\ main # "gone"
    /\ \/ DecodeCheck \/ DecodeAdvance \/ DecodeNothing
       \/ DecodeFlag \/ DecodePush \/ DecodeDone

-----------------------------------------------------------------------------
(***************************************************************************)
(* The main thread.  Play, Resume, Repeat(1), Unload and the destructor's  *)
(* wait take no lock; the others wait for the audio mutex, IsTerminated in *)
(* IsStreamingUnderrun.  Only the destructor waits for a decode.           *)
(***************************************************************************)
Call(op) ==
    /\ main = "run" /\ op \in Ops /\ calls < MaxCalls
    /\ calls' = calls + 1

Play ==
    /\ Call("Play")
    /\ ~wave.terminated /\ ~wave.playing
    /\ wave' = [wave EXCEPT !.want = TRUE, !.everPlayed = TRUE]
    /\ UNCHANGED <<stream, al, pump, main, round>>

\* Resume is called for a wave whose State() is Paused.
Resume ==
    /\ Call("Resume")
    /\ ~wave.terminated /\ ~wave.failed /\ ~wave.playing /\ wave.paused
    /\ wave' = [wave EXCEPT !.want = TRUE, !.paused = FALSE]
    /\ UNCHANGED <<stream, al, pump, main, round>>

Pause ==
    /\ Call("Pause")
    /\ MutexFree
    /\ wave.playing
    /\ wave' = [wave EXCEPT !.playing = FALSE, !.paused = TRUE, !.want = FALSE]
    /\ al' = IF al.source = "playing" THEN [al EXCEPT !.source = "paused"] ELSE al
    /\ UNCHANGED <<stream, pump, main, round>>

\* Mutant: the buffers on the source are forgotten.
DrainedLost == stream.free

\* The free buffers once the source was stopped and its queue emptied.
Drained == stream.free + Len(al.ring)

\* DoStop, with the wave w.  Only of one that plays the stream is reset.
DoStop(w) ==
    /\ MutexFree
    /\ wave' = [w EXCEPT !.want = FALSE, !.intent = FALSE, !.paused = FALSE,
                         !.playing = FALSE]
    /\ IF w.playing /\ al.source # "none"
       THEN /\ al' = [source |-> "stopped", ring |-> <<>>, played |-> 0]
            /\ stream' = [stream EXCEPT
                   !.free = Drained, !.inFlight = 0,
                   !.queue = <<>>, !.offset = 0, !.eof = FALSE]
            /\ round' = round + 1
       ELSE UNCHANGED <<stream, al, round>>

Stop ==
    /\ Call("Stop")
    /\ DoStop(wave)
    /\ main' = "unload"
    /\ UNCHANGED pump

Restart ==
    /\ Call("Restart")
    /\ DoStop(wave)
    /\ main' = "restart"
    /\ UNCHANGED pump

\* Unload, without the mutex; the end of Stop and of Restart.
Unload ==
    /\ main \in {"unload", "restart"}
    /\ al' = IF wave.loaded THEN NoSource ELSE al
    /\ wave' = [wave EXCEPT
           !.loaded = FALSE,
           !.terminated = @ /\ main = "unload",
           !.everPlayed = @ \/ main = "restart"]
    /\ main' = "run"
    /\ UNCHANGED <<stream, pump, round, calls>>

\* Repeat(1) only makes the current pass the last one.
RepeatOnce ==
    /\ Call("Repeat")
    /\ wave' = [wave EXCEPT !.looping = FALSE]
    /\ UNCHANGED <<stream, al, pump, main, round>>

\* The end of a loop, or a new one, stops and plays the wave that plays.
SetLooping(loops) ==
    LET w == [wave EXCEPT !.looping = loops]
    IN  IF w.playing /\ al.source # "none"
        THEN DoStop(w) /\ main' = "replay" /\ UNCHANGED pump
        ELSE wave' = w /\ UNCHANGED <<stream, al, pump, main, round>>

Repeat == Call("Repeat") /\ SetLooping(TRUE)

LastLoop == Call("LastLoop") /\ wave.looping /\ SetLooping(FALSE)

Here == [wave |-> wave, stream |-> stream, al |-> al]

Started(s) ==
    [s EXCEPT !.al = SourcePlay(@),
              !.wave = [@ EXCEPT !.playing = TRUE, !.everPlayed = TRUE,
                                 !.terminated = FALSE]]

\* Mutant: a wave that was paused may be started again.
MayRestartPaused(w) == w.intent /\ ~w.terminated

MayRestart(w) == w.intent /\ ~w.paused /\ ~w.terminated

\* UpdateStreamingPlayback: start a source that should play but is idle.
Update(s) ==
    IF /\ s.al.source \notin {"none", "playing", "paused"} /\ s.al.ring # <<>>
       /\ ~s.wave.failed /\ ~s.stream.aborted
       /\ MayRestart(s.wave) /\ ~s.stream.eof
    THEN Started(s)
    ELSE s

\* OpenStreaming, for the first play: the buffers and the source.
Open(s, fails) ==
    IF s.stream.opened THEN s
    ELSE IF fails THEN [s EXCEPT !.wave.failed = TRUE]
    ELSE [s EXCEPT !.stream = [NoStream EXCEPT !.opened = TRUE,
                                               !.free = NumBuffers],
                   !.al.source = "initial"]

FirstPlay(s, fails) ==
    LET o == Open([s EXCEPT !.wave.intent = TRUE], fails)
        u == Update([o EXCEPT !.wave.loaded = TRUE])
    IN  IF o.wave.failed THEN o
        ELSE IF u.stream.inFlight > 0 THEN Started(u)
        ELSE u

DoPlay(s, fails) ==
    IF s.wave.terminated \/ s.wave.playing \/ s.wave.failed THEN s
    ELSE IF ~s.wave.loaded THEN FirstPlay(s, fails)
    ELSE IF s.al.source = "none" THEN s
    ELSE Started(Update([s EXCEPT !.wave.intent = TRUE]))

BecomeOf(s) == wave' = s.wave /\ stream' = s.stream /\ al' = s.al

\* SoundSystemOAL::Commit, once a frame.
Commit(fails) ==
    /\ main = "run" /\ MutexFree
    /\ LET s == IF wave.want
                THEN [DoPlay(Here, fails) EXCEPT !.wave.want = FALSE]
                ELSE Here
       IN  BecomeOf(Update(s))
    /\ UNCHANGED <<pump, main, round, calls>>

\* The rest of Repeat and of LastLoop.
Replay ==
    /\ main = "replay" /\ MutexFree
    /\ \E fails \in OpenFails : BecomeOf(DoPlay(Here, fails))
    /\ main' = "run"
    /\ UNCHANGED <<pump, round, calls>>

\* IsStreamingUnderrun
Underrun == ~(stream.eof /\ stream.inFlight = 0)

\* IsTerminated and IsStopped, with which a frame polls the wave.
Poll ==
    /\ main = "run" /\ MutexFree
    /\ ~wave.want /\ wave.playing /\ al.source = "stopped" /\ ~Underrun
    /\ wave' = [wave EXCEPT !.playing = FALSE, !.terminated = TRUE,
                            !.intent = FALSE]
    /\ UNCHANGED <<stream, al, pump, main, round, calls>>

\* The destructor aborts the stream, whatever the pump is doing...
Destroy ==
    /\ Call("Destroy")
    /\ stream' = [stream EXCEPT !.aborted = TRUE]
    /\ main' = "closing"
    /\ UNCHANGED <<wave, al, pump, round>>

\* ... waits until no decode is in flight...
WaitDecode ==
    /\ main = "closing" /\ ~stream.busy
    /\ main' = "leaving"
    /\ UNCHANGED <<wave, stream, al, pump, round, calls>>

\* ... and, without another look, takes the mutex to leave the register of
\* waves and free its objects.
Free ==
    /\ main = "leaving" /\ MutexFree
    /\ al' = NoSource /\ main' = "gone"
    /\ UNCHANGED <<wave, stream, pump, round, calls>>

UserStep == \/ Play \/ Resume \/ Pause \/ Stop \/ Restart
            \/ RepeatOnce \/ Repeat \/ LastLoop \/ Destroy

MainStep == Unload \/ Replay \/ Poll \/ WaitDecode \/ Free

PumpPass == PumpEnter \/ PumpDrain \/ \E fails \in UploadFails : PumpUpload(fails)

Next ==
    \/ UserStep \/ MainStep
    \/ \E fails \in OpenFails : Commit(fails)
    \/ PumpPass
    \/ Decode
    \/ PlayBuffer

\* Commit and the poll run once a frame, and the pump, which sleeps between its
\* passes, leaves them the mutex; the device plays on; the pump runs every
\* 10 ms, so that some pass falls into the 100 ms a buffer lasts and finds the
\* one before it processed.
Fairness ==
    /\ WF_vars(Decode) /\ WF_vars(PumpPass) /\ SF_vars(PumpEnter /\ Processed > 0)
    /\ WF_vars(PlayBuffer) /\ SF_vars(Commit(FALSE)) /\ SF_vars(MainStep)

Spec == Init /\ [][Next]_vars /\ Fairness

-----------------------------------------------------------------------------
(***************************************************************************)
(* Properties.                                                             *)
(***************************************************************************)
Chunk == [off : 0 .. NumChunks - 1, round : 0 .. MaxCalls]

WaveType == [want : BOOLEAN, playing : BOOLEAN, paused : BOOLEAN,
             everPlayed : BOOLEAN, loaded : BOOLEAN, failed : BOOLEAN,
             intent : BOOLEAN, terminated : BOOLEAN, looping : BOOLEAN,
             empty : Truncations]

TypeOK ==
    /\ wave \in WaveType
    /\ stream \in [opened : BOOLEAN, offset : 0 .. NumChunks, eof : BOOLEAN,
                   aborted : BOOLEAN, busy : BOOLEAN,
                   inFlight : 0 .. NumBuffers, free : 0 .. NumBuffers,
                   queue : BoundedSeq(Chunk, NumBuffers)]
    /\ al \in [source : {"none", "initial", "playing", "paused", "stopped"},
               ring : BoundedSeq(Chunk, NumBuffers), played : 0 .. NumBuffers]
    /\ pump \in [pc : {"idle", "drain", "upload", "check", "read", "flag", "push", "done"},
                 off : 0 .. NumChunks - 1, last : BOOLEAN, round : 0 .. MaxCalls]
    /\ main \in {"run", "unload", "restart", "replay", "closing", "leaving", "gone"}
    /\ round \in 0 .. MaxCalls /\ calls \in 0 .. MaxCalls

\* Every buffer of a live source is on its queue or free, and buffersInFlight
\* is the length of the queue, whatever is recycled, stopped or aborted when.
NoBufferLost ==
    al.source # "none" =>
        /\ stream.free + Len(al.ring) = NumBuffers
        /\ stream.inFlight = Len(al.ring)

Decoding == IF pump.pc \in {"check", "read", "flag", "push"} THEN 1 ELSE 0

\* What is decoded, being decoded and on the source never exceeds the ring:
\* there is a free buffer for every chunk that waits, also after a stop that
\* came while a chunk was decoded.
Bounded == Len(stream.queue) + Decoding + Len(al.ring) =< NumBuffers

\* What will be heard: what an aborted stream has decoded will not, unless the
\* pump is in a pass already.
Pending ==
    IF stream.aborted /\ MutexFree THEN al.ring ELSE al.ring \o stream.queue

Follows(a, b) ==
    \/ b.off = a.off + 1
    \/ b.off = 0 /\ (a.off + 1 = NumChunks \/ a.off + 1 \in wave.empty)

\* The chunks that will be heard follow each other in the track, but for what
\* was decoded before the wave was stopped: at most one chunk, the first.
InTrackOrder ==
    \A i \in 1 .. Len(Pending) - 1 :
        /\ Pending[i + 1].round = round
        /\ Pending[i].round = round => Follows(Pending[i], Pending[i + 1])

\* The destructor's wait for the decode ends.
EventuallyFreed == main = "closing" ~> main = "gone"

\* A wave that plays comes to its end, also after underruns and pauses:
\* unless it loops, is aborted or has lost its source.
EventuallyEnds ==
    wave.playing ~> \/ ~wave.playing \/ wave.looping
                    \/ al.source = "none" \/ stream.aborted \/ main # "run"

\* A wave that was paused is not started again before its user asks for it,
\* not even one that ran dry when it was paused and whose recovery by the next
\* frame finds new chunks on the source (WaveOAL.cpp:540).
PauseHolds ==
    [][wave.paused /\ ~wave.want /\ al.source # "playing"
         => al'.source # "playing"]_vars

\* "Each wave here has decodeInFlight latched, so ~WaveOAL spins on it before
\* freeing -- the raw pointer stays valid for the duration of
\* DecodeQueuedChunk" (SoundSystemOAL.cpp:231-233).
NoUseAfterFree == main = "gone" => pump.pc = "idle"
===============================================================================
