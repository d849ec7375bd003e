-------------------------- MODULE ModDownloadProofs -------------------------
(***************************************************************************)
(* What holds of downloads for any number of mods, parts of a file,        *)
(* threads and restarts of the game.                                       *)
(***************************************************************************)
EXTENDS ModDownload, TLAPS

-----------------------------------------------------------------------------
(* The inductive invariant. *)

Pcs == Working \cup {"none", "next", "over"}

RunRecord ==
  [pc : Pcs, mod : 0 .. ModCount, todo : SUBSET Mods, list : SUBSET Mods, cancel : BOOLEAN,
   outcome : {"none", "done", "failed"}, ok : BOOLEAN, file : 0 .. MaxRuns,
   received : 0 .. ChunkCount, fault : BOOLEAN, lost : BOOLEAN,
   alone : BOOLEAN]

Typed ==
  /\ run \in [Runs -> RunRecord]
  /\ started \in 0 .. MaxRuns
  /\ dialog \in [phase : {"none", "prompt", "running", "done", "failed"}, session : 0 .. MaxRuns]
  /\ missing \subseteq Mods
  /\ part \in [Mods -> 0 .. MaxRuns]
  /\ dest \in [Mods -> 0 .. MaxRuns]
  /\ content \in [Mods -> [Runs -> SUBSET Chunks]]
  /\ tree \in [Mods -> {"none", "broken", "whole"}]
  /\ manifest \subseteq Mods
  /\ quits \in 0 .. MaxQuits

\* A thread works on a mod of its list, and has an outcome only when it is over.
RunOk(x) ==
  /\ x.pc \in Working => x.mod \in x.todo
  /\ x.todo \subseteq x.list
  /\ x.outcome # "none" => x.pc = "over"

\* A thread that has not been started has left no trace.
NotYet == \A r \in Runs : r > started => run[r] = Unstarted

\* The dialog shows the session started last, or none.
Current ==
  /\ dialog.session \in {0, started}
  /\ dialog.phase \in {"none", "prompt"} => dialog.session = 0
  /\ dialog.phase \in {"running", "done", "failed"} => dialog.session # 0
  /\ dialog.phase \in {"done", "failed"} => run[dialog.session].outcome = dialog.phase

\* A run that shared the disk with no other when it began is the only one left
\* as long as it is the last.
Sole == started # 0 /\ run[started].alone => \A q \in Runs \ {started} : ~Alive(q)

Holding == {"transfer", "discard", "clear", "rename"}

\* A .part has a thread that will rename or remove it.
Owned ==
  quits = 0 => \A m \in Mods : part[m] # 0 =>
                 \E r \in Runs : run[r].pc \in Holding /\ run[r].mod = m

\* How far a run that is alone has come with its file.
Progress(x, p, d, c) ==
  /\ x.pc \in {"transfer", "clear", "rename"} => x.file # 0 /\ p[x.mod] = x.file
  /\ x.pc = "transfer" => c[x.mod][x.file] = 1 .. x.received \/ x.fault
  /\ x.pc \in {"clear", "rename"} => c[x.mod][x.file] = Chunks \/ x.fault
  /\ x.pc \in {"discard", "returned"} /\ (x.pc = "returned" => ~x.ok) => x.fault \/ x.cancel
  /\ x.pc = "unpack" \/ (x.pc = "returned" /\ x.ok) =>
       d[x.mod] # 0 /\ (c[x.mod][d[x.mod]] = Chunks \/ x.fault)
  /\ x.outcome = "failed" => x.fault

Undivided == started # 0 /\ run[started].alone => Progress(run[started], part, dest, content)

\* The mods a run has written to the end.
Written(x) ==
  IF x.pc = "over" THEN IF x.outcome = "done" THEN x.list ELSE {}
  ELSE (x.list \ x.todo) \cup (IF x.pc = "manifest" THEN {x.mod} ELSE {})

\* What may have spoilt a mod the session s has written: a write s or another
\* thread lost, a thread that failed while it wrote, or one that is writing now.
Spoilt(s, m) ==
  \/ run[s].lost
  \/ /\ ~run[s].alone
     /\ \E q \in Runs \ {s} :
          run[q].fault \/ run[q].lost \/ (At(q, "install") /\ run[q].mod = m)

Intact ==
  dialog.session # 0 =>
    \A m \in Written(run[dialog.session]) : tree[m] = "whole" \/ Spoilt(dialog.session, m)

\* The mods for which a run has written mod.json.
Recorded(x) ==
  IF x.pc = "over" THEN IF x.outcome = "done" THEN x.list ELSE {}
  ELSE x.list \ x.todo

Lossy(s) == run[s].lost \/ (~run[s].alone /\ \E q \in Runs \ {s} : run[q].lost)

AllRecorded ==
  dialog.session # 0 =>
    \A m \in Recorded(run[dialog.session]) : m \in manifest \/ Lossy(dialog.session)

IInv ==
  /\ Typed
  /\ \A r \in Runs : RunOk(run[r])
  /\ NotYet
  /\ Current
  /\ Sole
  /\ Owned
  /\ Undivided
  /\ Intact
  /\ AllRecorded

-----------------------------------------------------------------------------
(* What any step of a thread does to it. *)

LEMMA EndedRecord ==
  ASSUME NEW x \in RunRecord, NEW o \in {"none", "done", "failed"}
  PROVE  /\ Ended(x, o) \in RunRecord /\ RunOk(Ended(x, o)) /\ Ended(x, o).pc = "over"
         /\ Ended(x, o).list = x.list /\ Ended(x, o).cancel = x.cancel
         /\ Ended(x, o).alone = x.alone /\ Ended(x, o).fault = x.fault
         /\ Ended(x, o).lost = x.lost /\ Ended(x, o).outcome = o
<1>1. Unstarted \in RunRecord
  BY DownloadAssumption DEF Unstarted, RunRecord, Pcs, Working, DownloadAssumption
<1>2. "over" \in Pcs BY DEF Pcs
<1>3. x.list \in SUBSET Mods /\ x.cancel \in BOOLEAN /\ x.fault \in BOOLEAN
      /\ x.lost \in BOOLEAN /\ x.alone \in BOOLEAN
  BY DEF RunRecord
<1>4. Ended(x, o) \in RunRecord
  BY <1>1, <1>2, <1>3 DEF Ended, RunRecord
<1>5. /\ Ended(x, o).pc = "over" /\ Ended(x, o).todo = {}
      /\ Ended(x, o).list = x.list /\ Ended(x, o).cancel = x.cancel
      /\ Ended(x, o).alone = x.alone /\ Ended(x, o).fault = x.fault
      /\ Ended(x, o).lost = x.lost /\ Ended(x, o).outcome = o
  BY DEF Ended, Unstarted
<1>6. RunOk(Ended(x, o)) BY <1>5 DEF RunOk, Working
<1> QED BY <1>4, <1>5, <1>6

\* A thread that moves is alive; it touches no other and keeps what it was started with.
Moves(r) ==
  /\ Alive(r)
  /\ run' \in [Runs -> RunRecord]
  /\ \A q \in Runs \ {r} : run'[q] = run[q]
  /\ RunOk(run'[r])
  /\ run'[r].pc # "none"
  /\ run'[r].list = run[r].list /\ run'[r].cancel = run[r].cancel
  /\ run'[r].alone = run[r].alone
  /\ (run[r].fault => run'[r].fault) /\ (run[r].lost => run'[r].lost)

LEMMA ThreadEnds ==
  ASSUME run \in [Runs -> RunRecord], NEW r \in Runs, Alive(r),
         NEW o \in {"none", "done", "failed"}, run' = [run EXCEPT ![r] = Ended(@, o)]
  PROVE  Moves(r)
<1>1. run[r] \in RunRecord OBVIOUS
<1>2. run'[r] = Ended(run[r], o) /\ \A q \in Runs \ {r} : run'[q] = run[q] OBVIOUS
<1>3. run' \in [Runs -> RunRecord] BY <1>1, EndedRecord
<1> QED BY <1>1, <1>2, <1>3, EndedRecord DEF Moves

LEMMA ThreadMoves ==
  ASSUME DownloadAssumption, Typed, \A q \in Runs : RunOk(run[q]), NEW r \in Runs, Step(r)
  PROVE  Moves(r)
<1>1. run \in [Runs -> RunRecord] /\ run[r] \in RunRecord BY DEF Typed
<1>2. RunOk(run[r]) OBVIOUS
<1>3. Alive(r)
  <2>1. ASSUME NEW pc \in {"open", "transfer", "discard", "clear", "rename", "returned", "unpack",
                           "install", "manifest", "next"}, At(r, pc)
        PROVE  Alive(r)
    BY <2>1 DEF At, Alive
  <2>2. CASE Head(r) \/ Open(r) \/ Receive(r) \/ EndTransfer(r)
    BY <2>1, <2>2 DEF Head, Open, Receive, EndTransfer
  <2>3. CASE Discard(r) \/ Clear(r) \/ Rename(r) \/ Returned(r)
    BY <2>1, <2>3 DEF Discard, Clear, Rename, Returned
  <2>4. CASE Unpack(r) \/ Install(r) \/ InstallFails(r) \/ Manifest(r)
    BY <2>1, <2>4 DEF Unpack, Install, InstallFails, Manifest
  <2> QED BY <2>2, <2>3, <2>4 DEF Step
<1>4. CASE Head(r)
  <2>1. CASE Finish(r) BY <1>1, <1>3, <2>1, ThreadEnds DEF Finish
  <2>2. CASE Leave(r) BY <1>1, <1>3, <2>2, ThreadEnds DEF Leave
  <2>3. ASSUME NEW m \in run[r].todo, run' = [run EXCEPT ![r].pc = "open", ![r].mod = m]
        PROVE  Moves(r)
    <3>1. m \in Mods /\ m \in 0 .. ModCount BY <1>1, DownloadAssumption DEF RunRecord, Mods, DownloadAssumption
    <3>2. run'[r] = [run[r] EXCEPT !.pc = "open", !.mod = m] /\ \A q \in Runs \ {r} : run'[q] = run[q]
      BY <1>1, <2>3
    <3>3. run'[r] \in RunRecord
      BY <1>1, <3>1, <3>2 DEF RunRecord, Pcs, Working
    <3>4. /\ run'[r].pc = "open" /\ run'[r].mod = m /\ run'[r].todo = run[r].todo
          /\ run'[r].list = run[r].list /\ run'[r].cancel = run[r].cancel
          /\ run'[r].alone = run[r].alone /\ run'[r].fault = run[r].fault
          /\ run'[r].lost = run[r].lost
          /\ run'[r].outcome = run[r].outcome
      BY <1>1, <3>2 DEF RunRecord
    <3>5. RunOk(run'[r]) BY <1>2, <1>3, <3>4 DEF RunOk, Alive, Working
    <3>6. run' \in [Runs -> RunRecord] BY <1>1, <2>3, <3>2, <3>3
    <3> QED BY <1>3, <3>2, <3>4, <3>5, <3>6 DEF Moves
  <2> QED BY <1>4, <2>1, <2>2, <2>3 DEF Head, NextTask
<1>5. CASE Open(r)
  <2>1. /\ run' \in [Runs -> RunRecord]
        /\ \A q \in Runs \ {r} : run'[q] = run[q]
    BY <1>1, <1>2, <1>5 DEF Open, At, OpenPart, RunRecord, Pcs, Working, RunOk, Mods, Chunks, DownloadAssumption
  <2>2. /\ RunOk(run'[r])
        /\ run'[r].pc # "none"
    BY <1>1, <1>2, <1>5 DEF Open, At, OpenPart, RunRecord, Working, RunOk
  <2>3. /\ run'[r].list = run[r].list /\ run'[r].cancel = run[r].cancel
        /\ run'[r].alone = run[r].alone
        /\ (run[r].fault => run'[r].fault) /\ (run[r].lost => run'[r].lost)
    BY <1>1, <1>2, <1>5 DEF Open, At, OpenPart, RunRecord, Working, RunOk
  <2> QED BY <1>3, <2>1, <2>2, <2>3 DEF Moves
<1>6. CASE Receive(r)
  <2>1. /\ run' \in [Runs -> RunRecord]
        /\ \A q \in Runs \ {r} : run'[q] = run[q]
    BY <1>1, <1>2, <1>6 DEF Receive, At, RunRecord, Pcs, Working, RunOk, Mods, Chunks, DownloadAssumption
  <2>2. /\ RunOk(run'[r])
        /\ run'[r].pc # "none"
    BY <1>1, <1>2, <1>6 DEF Receive, At, RunRecord, Working, RunOk
  <2>3. /\ run'[r].list = run[r].list /\ run'[r].cancel = run[r].cancel
        /\ run'[r].alone = run[r].alone
        /\ (run[r].fault => run'[r].fault) /\ (run[r].lost => run'[r].lost)
    BY <1>1, <1>2, <1>6 DEF Receive, At, RunRecord, Working, RunOk
  <2> QED BY <1>3, <2>1, <2>2, <2>3 DEF Moves
<1>7. CASE EndTransfer(r)
  <2>1. /\ run' \in [Runs -> RunRecord]
        /\ \A q \in Runs \ {r} : run'[q] = run[q]
    BY <1>1, <1>2, <1>7 DEF EndTransfer, At, End, Told, RunRecord, Pcs, Working, RunOk, Mods, Chunks, DownloadAssumption
  <2>2. /\ RunOk(run'[r])
        /\ run'[r].pc # "none"
    BY <1>1, <1>2, <1>7 DEF EndTransfer, At, End, Told, RunRecord, Working, RunOk
  <2>3. /\ run'[r].list = run[r].list /\ run'[r].cancel = run[r].cancel
        /\ run'[r].alone = run[r].alone
        /\ (run[r].fault => run'[r].fault) /\ (run[r].lost => run'[r].lost)
    BY <1>1, <1>2, <1>7 DEF EndTransfer, At, End, Told, RunRecord, Working, RunOk
  <2> QED BY <1>3, <2>1, <2>2, <2>3 DEF Moves
<1>8. CASE Discard(r)
  <2>1. /\ run' \in [Runs -> RunRecord]
        /\ \A q \in Runs \ {r} : run'[q] = run[q]
    BY <1>1, <1>2, <1>8 DEF Discard, At, Removed, RunRecord, Pcs, Working, RunOk, Mods, Chunks, DownloadAssumption
  <2>2. /\ RunOk(run'[r])
        /\ run'[r].pc # "none"
    BY <1>1, <1>2, <1>8 DEF Discard, At, Removed, RunRecord, Working, RunOk
  <2>3. /\ run'[r].list = run[r].list /\ run'[r].cancel = run[r].cancel
        /\ run'[r].alone = run[r].alone
        /\ (run[r].fault => run'[r].fault) /\ (run[r].lost => run'[r].lost)
    BY <1>1, <1>2, <1>8 DEF Discard, At, Removed, RunRecord, Working, RunOk
  <2> QED BY <1>3, <2>1, <2>2, <2>3 DEF Moves
<1>9. CASE Clear(r)
  <2>1. /\ run' \in [Runs -> RunRecord]
        /\ \A q \in Runs \ {r} : run'[q] = run[q]
    BY <1>1, <1>2, <1>9 DEF Clear, At, RunRecord, Pcs, Working, RunOk, Mods, Chunks, DownloadAssumption
  <2>2. /\ RunOk(run'[r])
        /\ run'[r].pc # "none"
    BY <1>1, <1>2, <1>9 DEF Clear, At, RunRecord, Working, RunOk
  <2>3. /\ run'[r].list = run[r].list /\ run'[r].cancel = run[r].cancel
        /\ run'[r].alone = run[r].alone
        /\ (run[r].fault => run'[r].fault) /\ (run[r].lost => run'[r].lost)
    BY <1>1, <1>2, <1>9 DEF Clear, At, RunRecord, Working, RunOk
  <2> QED BY <1>3, <2>1, <2>2, <2>3 DEF Moves
<1>10. CASE Rename(r)
  <2>1. /\ run' \in [Runs -> RunRecord]
        /\ \A q \in Runs \ {r} : run'[q] = run[q]
    BY <1>1, <1>2, <1>10 DEF Rename, At, RunRecord, Pcs, Working, RunOk, Mods, Chunks, DownloadAssumption
  <2>2. /\ RunOk(run'[r])
        /\ run'[r].pc # "none"
    BY <1>1, <1>2, <1>10 DEF Rename, At, RunRecord, Working, RunOk
  <2>3. /\ run'[r].list = run[r].list /\ run'[r].cancel = run[r].cancel
        /\ run'[r].alone = run[r].alone
        /\ (run[r].fault => run'[r].fault) /\ (run[r].lost => run'[r].lost)
    BY <1>1, <1>2, <1>10 DEF Rename, At, RunRecord, Working, RunOk
  <2> QED BY <1>3, <2>1, <2>2, <2>3 DEF Moves
<1>11. CASE Returned(r)
  <2>1. CASE Leave(r) BY <1>1, <1>3, <2>1, ThreadEnds DEF Leave
  <2>2. CASE Fail(r) BY <1>1, <1>3, <2>2, ThreadEnds DEF Fail
  <2>3. CASE run' = [run EXCEPT ![r].pc = "unpack"]
    BY <1>1, <1>2, <1>3, <1>11, <2>3 DEF Returned, At, Moves, RunRecord, Pcs, Working, RunOk
  <2> QED BY <1>11, <2>1, <2>2, <2>3 DEF Returned
<1>12. CASE Unpack(r)
  <2>1. CASE Fail(r) BY <1>1, <1>3, <2>1, ThreadEnds DEF Fail
  <2>2. CASE run' = [run EXCEPT ![r].pc = "install"]
    BY <1>1, <1>2, <1>3, <1>12, <2>2 DEF Unpack, At, Moves, RunRecord, Pcs, Working, RunOk
  <2> QED BY <1>12, <2>1, <2>2 DEF Unpack
<1>13. CASE Install(r)
  <2>1. /\ run' \in [Runs -> RunRecord]
        /\ \A q \in Runs \ {r} : run'[q] = run[q]
    BY <1>1, <1>2, <1>13 DEF Install, At, RunRecord, Pcs, Working, RunOk, Mods, Chunks, DownloadAssumption
  <2>2. /\ RunOk(run'[r])
        /\ run'[r].pc # "none"
    BY <1>1, <1>2, <1>13 DEF Install, At, RunRecord, Working, RunOk
  <2>3. /\ run'[r].list = run[r].list /\ run'[r].cancel = run[r].cancel
        /\ run'[r].alone = run[r].alone
        /\ (run[r].fault => run'[r].fault) /\ (run[r].lost => run'[r].lost)
    BY <1>1, <1>2, <1>13 DEF Install, At, RunRecord, Working, RunOk
  <2> QED BY <1>3, <2>1, <2>2, <2>3 DEF Moves
<1>14. CASE InstallFails(r)
  <2>1. /\ run' \in [Runs -> RunRecord]
        /\ \A q \in Runs \ {r} : run'[q] = run[q]
    <3>1. [run[r] EXCEPT !.fault = TRUE] \in RunRecord BY <1>1 DEF RunRecord
    <3>2. Ended([run[r] EXCEPT !.fault = TRUE], "failed") \in RunRecord BY <3>1, EndedRecord
    <3>3. run' = [run EXCEPT ![r] = Ended([run[r] EXCEPT !.fault = TRUE], "failed")]
      BY <1>1, <1>14 DEF InstallFails
    <3> QED BY <1>1, <3>2, <3>3
  <2>2. /\ RunOk(run'[r])
        /\ run'[r].pc # "none"
    BY <1>1, <1>2, <1>14 DEF InstallFails, At, Ended, Unstarted, RunRecord, Working, RunOk
  <2>3. /\ run'[r].list = run[r].list /\ run'[r].cancel = run[r].cancel
        /\ run'[r].alone = run[r].alone
        /\ (run[r].fault => run'[r].fault) /\ (run[r].lost => run'[r].lost)
    BY <1>1, <1>2, <1>14 DEF InstallFails, At, Ended, Unstarted, RunRecord, Working, RunOk
  <2> QED BY <1>3, <2>1, <2>2, <2>3 DEF Moves
<1>15. CASE Manifest(r)
  <2>0. PICK lost \in BOOLEAN : Completed(r, lost) /\ (run[r].lost => lost)
    BY <1>1, <1>15 DEF Manifest, RunRecord
  <2>1. /\ run' \in [Runs -> RunRecord]
        /\ \A q \in Runs \ {r} : run'[q] = run[q]
    <3>1. run[r].todo \ {run[r].mod} \in SUBSET Mods BY <1>1 DEF RunRecord
    <3> QED BY <1>1, <2>0, <3>1 DEF Completed, RunRecord, Pcs, Working
  <2>2. /\ RunOk(run'[r])
        /\ run'[r].pc # "none"
    BY <1>1, <1>2, <1>15, <2>0 DEF Manifest, At, Completed, RunRecord, Working, RunOk
  <2>3. /\ run'[r].list = run[r].list /\ run'[r].cancel = run[r].cancel
        /\ run'[r].alone = run[r].alone
        /\ run[r].fault => run'[r].fault
    BY <1>1, <2>0 DEF Completed, RunRecord
  <2>4. run[r].lost => run'[r].lost BY <1>1, <2>0 DEF Completed, RunRecord
  <2> QED BY <1>3, <2>1, <2>2, <2>3, <2>4 DEF Moves
<1> QED BY <1>4, <1>5, <1>6, <1>7, <1>8, <1>9, <1>10, <1>11, <1>12, <1>13, <1>14, <1>15 DEF Step

\* The files of a mod keep their types.
LEMMA FilesStayTyped ==
  ASSUME DownloadAssumption, Typed, \A q \in Runs : RunOk(run[q]), NEW r \in Runs, Step(r)
  PROVE  Typed'
<1>1. run' \in [Runs -> RunRecord] BY ThreadMoves DEF Moves
<1>2. started' = started /\ dialog' = dialog /\ missing' = missing /\ quits' = quits
  BY DEF Step
<1>3. run[r].pc \in Working => run[r].mod \in Mods
  BY DEF Typed, RunRecord, RunOk
<1>4. /\ part \in [Mods -> 0 .. MaxRuns] /\ dest \in [Mods -> 0 .. MaxRuns]
      /\ content \in [Mods -> [Runs -> SUBSET Chunks]]
      /\ tree \in [Mods -> {"none", "broken", "whole"}] /\ manifest \subseteq Mods
      /\ run[r].file \in 0 .. MaxRuns /\ r \in 1 .. MaxRuns
  BY DEF Typed, RunRecord, Runs
<1> DEFINE Filed == /\ part \in [Mods -> 0 .. MaxRuns] /\ dest \in [Mods -> 0 .. MaxRuns]
                    /\ content \in [Mods -> [Runs -> SUBSET Chunks]]
                    /\ tree \in [Mods -> {"none", "broken", "whole"}] /\ manifest \subseteq Mods
<1>5. ASSUME Filed' PROVE Typed' BY <1>1, <1>2, <1>5 DEF Typed
<1>6. CASE Head(r)
  <2>1. Filed' BY <1>3, <1>4, <1>6 DEF Head, At, Working, Removed, OpenPart, Runs, Chunks, Completed, files
  <2> QED BY <1>5, <2>1
<1>7. CASE Open(r)
  <2>1. ASSUME NEW m \in Mods, NEW f \in Runs, part' = [part EXCEPT ![m] = f],
               content' = [content EXCEPT ![m][f] = {}], UNCHANGED <<dest, tree, manifest>>
        PROVE  Filed'
    <3>1. part' \in [Mods -> 0 .. MaxRuns] BY <1>4, <2>1 DEF Runs
    <3>2. content' \in [Mods -> [Runs -> SUBSET Chunks]] BY <1>4, <2>1
    <3> QED BY <1>4, <2>1, <3>1, <3>2
  <2>2. run[r].mod \in Mods BY <1>3, <1>7 DEF Open, At, Working
  <2>3. part[run[r].mod] = 0 \/ part[run[r].mod] \in Runs BY <1>4, <2>2 DEF Runs
  <2>4. CASE OpenPart(r, run[r].mod)
    <3>1. Filed' BY <1>7, <2>1, <2>2, <2>3, <2>4 DEF Open, OpenPart
    <3> QED BY <1>5, <3>1
  <2>5. CASE UNCHANGED <<part, content, dest, tree, manifest>>
    <3>1. Filed' BY <1>4, <2>5
    <3> QED BY <1>5, <3>1
  <2> QED BY <1>7, <2>4, <2>5 DEF Open
<1>8. CASE Receive(r)
  <2>0. PICK m \in Mods : m = run[r].mod BY <1>3, <1>8 DEF Receive, At, Working
  <2>1. PICK f, k : f = run[r].file /\ k = run[r].received + 1 OBVIOUS
  <2>2. k \in Chunks /\ UNCHANGED <<part, dest, tree, manifest>> BY <1>8, <2>1 DEF Receive
  <2>3. CASE content' = [content EXCEPT ![m][f] = @ \cup {k}]
    <3>1. content' \in [Mods -> [Runs -> SUBSET Chunks]] BY <1>4, <2>2, <2>3
    <3>2. Filed' BY <1>4, <2>2, <3>1
    <3> QED BY <1>5, <3>2
  <2>4. CASE content' = content
    <3>1. Filed' BY <1>4, <2>2, <2>4
    <3> QED BY <1>5, <3>1
  <2> QED BY <1>8, <2>0, <2>1, <2>3, <2>4 DEF Receive
<1>9. CASE EndTransfer(r)
  <2>1. Filed' BY <1>3, <1>4, <1>9 DEF EndTransfer, At, Working, Removed, OpenPart, Runs, Chunks, Completed, files
  <2> QED BY <1>5, <2>1
<1>10. CASE Discard(r)
  <2>1. Filed' BY <1>3, <1>4, <1>10 DEF Discard, At, Working, Removed, OpenPart, Runs, Chunks, Completed, files
  <2> QED BY <1>5, <2>1
<1>11. CASE Clear(r)
  <2>1. Filed' BY <1>3, <1>4, <1>11 DEF Clear, At, Working, Removed, OpenPart, Runs, Chunks, Completed, files
  <2> QED BY <1>5, <2>1
<1>12. CASE Rename(r)
  <2>1. PICK m \in Mods : m = run[r].mod BY <1>3, <1>12 DEF Rename, At, Working
  <2>2. UNCHANGED <<content, tree, manifest>> BY <1>12 DEF Rename
  <2>3. CASE dest' = [dest EXCEPT ![m] = part[m]] /\ part' = [part EXCEPT ![m] = 0]
    <3>1. 0 \in 0 .. MaxRuns /\ part[m] \in 0 .. MaxRuns
      BY <1>4, DownloadAssumption DEF DownloadAssumption
    <3>2. dest' \in [Mods -> 0 .. MaxRuns] /\ part' \in [Mods -> 0 .. MaxRuns]
      BY <1>4, <2>3, <3>1
    <3>3. Filed' BY <1>4, <2>2, <3>2
    <3> QED BY <1>5, <3>3
  <2>4. CASE UNCHANGED <<part, dest>>
    <3>1. Filed' BY <1>4, <2>2, <2>4
    <3> QED BY <1>5, <3>1
  <2> QED BY <1>12, <2>1, <2>3, <2>4 DEF Rename
<1>13. CASE Returned(r)
  <2>1. Filed' BY <1>3, <1>4, <1>13 DEF Returned, At, Working, Removed, OpenPart, Runs, Chunks, Completed, files
  <2> QED BY <1>5, <2>1
<1>14. CASE Unpack(r)
  <2>1. Filed' BY <1>3, <1>4, <1>14 DEF Unpack, At, Working, Removed, OpenPart, Runs, Chunks, Completed, files
  <2> QED BY <1>5, <2>1
<1>15. CASE Install(r)
  <2>1. Filed' BY <1>3, <1>4, <1>15 DEF Install, At, Working, Removed, OpenPart, Runs, Chunks, Completed, files
  <2> QED BY <1>5, <2>1
<1>16. CASE InstallFails(r)
  <2>1. Filed' BY <1>3, <1>4, <1>16 DEF InstallFails, At, Working, Removed, OpenPart, Runs, Chunks, Completed, files
  <2> QED BY <1>5, <2>1
<1>17. CASE Manifest(r)
  <2>1. Filed' BY <1>3, <1>4, <1>17 DEF Manifest, At, Working, Removed, OpenPart, Runs, Chunks, Completed, files
  <2> QED BY <1>5, <2>1
<1> QED BY <1>6, <1>7, <1>8, <1>9, <1>10, <1>11, <1>12, <1>13, <1>14, <1>15, <1>16, <1>17 DEF Step

-----------------------------------------------------------------------------
(* The parts of the invariant that say which threads there are. *)

LEMMA StepKeepsThreads ==
  ASSUME DownloadAssumption, IInv, NEW r \in Runs, Step(r)
  PROVE  (NotYet /\ Current /\ Sole)' /\ \A q \in Runs : RunOk(run'[q])
<1>1. Moves(r) BY ThreadMoves DEF IInv
<1>2. started' = started /\ dialog' = dialog /\ started \in Nat /\ r \in Nat
  BY DownloadAssumption DEF Step, IInv, Typed, DownloadAssumption, Runs
<1>3. ~(r > started)
  BY <1>1, <1>2 DEF IInv, NotYet, Moves, Alive, Unstarted
<1>4. NotYet' BY <1>1, <1>2, <1>3 DEF IInv, NotYet, Moves
<1>5. run[r].outcome = "none" BY <1>1 DEF IInv, RunOk, Moves, Alive
<1>6. dialog.phase \in {"done", "failed"} => dialog.session \in Runs
  BY <1>2 DEF IInv, Current, Typed, Runs
<1>7. Current' BY <1>1, <1>2, <1>5, <1>6 DEF IInv, Current, Moves
<1>8. \A q \in Runs : Alive(q)' => Alive(q)
  BY <1>1 DEF Moves, Alive
<1>9. started # 0 => started \in Runs BY <1>2 DEF IInv, Typed, Runs
<1>10. Sole' BY <1>1, <1>2, <1>8, <1>9 DEF IInv, Sole, Moves
<1> QED BY <1>1, <1>4, <1>7, <1>10 DEF IInv, Moves

-----------------------------------------------------------------------------
(* A .part has an owner. *)

LEMMA StepKeepsOwned ==
  ASSUME DownloadAssumption, IInv, NEW r \in Runs, Step(r)
  PROVE  Owned'
<1> SUFFICES ASSUME quits = 0, NEW m \in Mods, part'[m] # 0
             PROVE  \E q \in Runs : run'[q].pc \in Holding /\ run'[q].mod = m
  BY DEF Owned, Step
<1>1. Moves(r) BY ThreadMoves DEF IInv
<1>2. run \in [Runs -> RunRecord] /\ run[r] \in RunRecord /\ part \in [Mods -> 0 .. MaxRuns]
  BY DEF IInv, Typed
<1>3. run[r].pc \in Working => run[r].mod \in Mods
  BY DEF IInv, Typed, RunRecord, RunOk
<1>4. ASSUME part[m] # 0,
             run[r].pc \in Holding /\ run[r].mod = m =>
               run'[r].pc \in Holding /\ run'[r].mod = m
      PROVE  \E q \in Runs : run'[q].pc \in Holding /\ run'[q].mod = m
  BY <1>1, <1>4 DEF IInv, Owned, Moves
<1>5. CASE Head(r) BY <1>4, <1>5 DEF Head, At, Holding, files
<1>6. CASE Open(r)
  <2>1. CASE part[m] # 0 BY <1>4, <1>6, <2>1 DEF Open, At, Holding
  <2>2. CASE part[m] = 0
    <3>1. OpenPart(r, run[r].mod) BY <1>6, <2>2 DEF Open
    <3>2. run[r].mod = m BY <1>2, <1>3, <1>6, <2>2, <3>1 DEF OpenPart, Open, At, Working
    <3>3. run'[r].pc = "transfer" /\ run'[r].mod = run[r].mod
      BY <1>2, <3>1 DEF OpenPart, RunRecord
    <3> QED BY <3>2, <3>3 DEF Holding
  <2> QED BY <2>1, <2>2
<1>7. CASE Receive(r) BY <1>2, <1>4, <1>7 DEF Receive, At, Holding, RunRecord
<1>8. CASE EndTransfer(r) BY <1>2, <1>4, <1>8 DEF EndTransfer, End, Told, At, Holding, RunRecord, files
<1>9. CASE Discard(r)
  <2>1. run[r].mod # m /\ part[m] # 0 BY <1>2, <1>3, <1>9 DEF Discard, Removed, At, Working
  <2> QED BY <1>4, <2>1
<1>10. CASE Clear(r) BY <1>2, <1>4, <1>10 DEF Clear, At, Holding, RunRecord
<1>11. CASE Rename(r)
  <2>1. CASE part' = [part EXCEPT ![run[r].mod] = 0]
    <3>1. run[r].mod # m /\ part[m] # 0 BY <1>2, <1>3, <1>11, <2>1 DEF Rename, At, Working
    <3> QED BY <1>4, <3>1
  <2>2. CASE /\ part' = part
             /\ \/ run' = [run EXCEPT ![r].pc = "discard"]
                \/ run' = [run EXCEPT ![r].pc = "discard", ![r].fault = TRUE]
    <3>1. run'[r].pc = "discard" /\ run'[r].mod = run[r].mod BY <1>2, <2>2 DEF RunRecord
    <3> QED BY <1>4, <2>2, <3>1 DEF Holding
  <2> QED BY <1>11, <2>1, <2>2 DEF Rename
<1>12. CASE Returned(r) BY <1>4, <1>12 DEF Returned, At, Holding, files
<1>13. CASE Unpack(r) BY <1>4, <1>13 DEF Unpack, At, Holding
<1>14. CASE Install(r) BY <1>4, <1>14 DEF Install, At, Holding
<1>15. CASE InstallFails(r) BY <1>4, <1>15 DEF InstallFails, At, Holding, files
<1>16. CASE Manifest(r) BY <1>4, <1>16 DEF Manifest, At, Holding
<1> QED BY <1>5, <1>6, <1>7, <1>8, <1>9, <1>10, <1>11, <1>12, <1>13, <1>14, <1>15, <1>16 DEF Step

-----------------------------------------------------------------------------
(* A run that is alone gets on with its file. *)

LEMMA StepKeepsUndivided ==
  ASSUME DownloadAssumption, IInv, NEW r \in Runs, Step(r)
  PROVE  Undivided'
<1> SUFFICES ASSUME started # 0, run'[started].alone
             PROVE  Progress(run'[started], part', dest', content')
  BY DEF Undivided, Step
<1>1. Moves(r) BY ThreadMoves DEF IInv
<1>2. run \in [Runs -> RunRecord] /\ run[r] \in RunRecord /\ part \in [Mods -> 0 .. MaxRuns]
  BY DEF IInv, Typed
<1>3. run[r].pc \in Working => run[r].mod \in Mods
  BY DEF IInv, Typed, RunRecord, RunOk
<1>4. started = r
  <2>1. started \in Runs BY DEF IInv, Typed, Runs
  <2> QED BY <1>1, <2>1 DEF IInv, Sole, Moves
<1>5. Progress(run[r], part, dest, content) BY <1>1, <1>4 DEF IInv, Undivided, Moves
<1>6. /\ dest \in [Mods -> 0 .. MaxRuns]
      /\ content \in [Mods -> [Runs -> SUBSET Chunks]]
      /\ 0 \notin Runs /\ r # 0
  BY DEF IInv, Typed, Runs
<1>7. run[r].outcome = "none" BY <1>1 DEF IInv, RunOk, Moves, Alive
<1>8. ASSUME NEW o \in {"none", "done"}, run' = [run EXCEPT ![r] = Ended(@, o)]
      PROVE  Progress(run'[r], part', dest', content')
  <2>1. run'[r] = Ended(run[r], o) BY <1>2, <1>8
  <2>2. run'[r].pc = "over" /\ run'[r].outcome = o BY <1>2, <2>1, EndedRecord
  <2> QED BY <2>2 DEF Progress
<1>9. ASSUME NEW x \in RunRecord, run' = [run EXCEPT ![r] = Ended(x, "failed")], x.fault
      PROVE  Progress(run'[r], part', dest', content')
  <2>1. run'[r] = Ended(x, "failed") BY <1>2, <1>9
  <2>2. Ended(x, "failed").pc = "over" /\ Ended(x, "failed").fault = x.fault BY EndedRecord
  <2> QED BY <1>9, <2>1, <2>2 DEF Progress
<1>10. CASE Head(r)
  <2>1. CASE Finish(r) \/ Leave(r) BY <1>4, <1>8, <2>1 DEF Finish, Leave
  <2>2. ASSUME NEW m \in run[r].todo, run' = [run EXCEPT ![r].pc = "open", ![r].mod = m]
        PROVE  Progress(run'[r], part', dest', content')
    <3>1. run'[r].pc = "open" /\ run'[r].outcome = "none" BY <1>2, <1>7, <2>2 DEF RunRecord
    <3> QED BY <3>1 DEF Progress
  <2> QED BY <1>4, <1>10, <2>1, <2>2 DEF Head, NextTask
<1>11. CASE Open(r)
  <2>1. CASE OpenPart(r, run[r].mod)
    <3>0. PICK m \in Mods : m = run[r].mod BY <1>3, <1>11 DEF Open, At, Working
    <3>1. PICK f \in Runs : f = IF part[m] = 0 THEN r ELSE part[m]
      BY <1>2 DEF Runs
    <3>2. part' = [part EXCEPT ![m] = f] /\ content' = [content EXCEPT ![m][f] = {}]
      BY <2>1, <3>0, <3>1 DEF OpenPart
    <3>3. /\ run'[r].pc = "transfer" /\ run'[r].mod = m /\ run'[r].file = f
          /\ run'[r].received = 0 /\ run'[r].outcome = "none"
      BY <1>2, <1>7, <2>1, <3>0, <3>1 DEF OpenPart, RunRecord
    <3>4. content'[m][f] = {} /\ part'[m] = f BY <1>2, <1>6, <3>2
    <3> QED BY <1>4, <1>6, <3>3, <3>4 DEF Progress
  <2>2. CASE run' = [run EXCEPT ![r].pc = "returned", ![r].ok = FALSE, ![r].fault = TRUE]
    <3>1. run'[r].pc = "returned" /\ run'[r].fault /\ ~run'[r].ok BY <1>2, <2>2 DEF RunRecord
    <3> QED BY <1>4, <3>1 DEF Progress
  <2> QED BY <1>11, <2>1, <2>2 DEF Open
<1>12. CASE Receive(r)
  <2>0. PICK m \in Mods : m = run[r].mod BY <1>3, <1>12 DEF Receive, At, Working
  <2>1. PICK f \in Runs : f = run[r].file
    BY <1>2, <1>5, <1>12 DEF Progress, Receive, At, RunRecord, Runs
  <2>2. PICK k \in Nat : k = run[r].received BY <1>2 DEF RunRecord
  <2>3. /\ run'[r].pc = "transfer" /\ run'[r].mod = m /\ run'[r].file = f
        /\ run'[r].received = k + 1 /\ run'[r].outcome = "none"
    BY <1>2, <1>7, <1>12, <2>0, <2>1, <2>2 DEF Receive, At, RunRecord
  <2>4. part' = part /\ part[m] = f BY <1>5, <1>12, <2>0, <2>1 DEF Progress, Receive, At
  <2>5. content[m][f] = 1 .. k \/ run[r].fault
    BY <1>5, <1>12, <2>0, <2>1, <2>2 DEF Progress, Receive, At
  <2>6. (run[r].fault => run'[r].fault) /\ run'[r].fault \in BOOLEAN BY <1>1 DEF Moves, RunRecord
  <2>7. CASE content' = [content EXCEPT ![m][f] = @ \cup {k + 1}]
    <3>1. content'[m][f] = content[m][f] \cup {k + 1} BY <1>6, <2>7
    <3>2. content[m][f] = 1 .. k => content'[m][f] = 1 .. (k + 1) BY <3>1
    <3> QED BY <1>4, <1>6, <2>3, <2>4, <2>5, <2>6, <3>2 DEF Progress
  <2>8. CASE run' = [run EXCEPT ![r].received = @ + 1, ![r].fault = TRUE]
    <3>1. run'[r].fault BY <1>2, <2>8 DEF RunRecord
    <3> QED BY <1>4, <1>6, <2>3, <2>4, <3>1 DEF Progress
  <2> QED BY <1>12, <2>0, <2>1, <2>2, <2>7, <2>8 DEF Receive
<1>13. CASE EndTransfer(r)
  <2>1. CASE run[r].received + 1 \notin Chunks /\ run' = [run EXCEPT ![r].pc = "clear"]
    <3>1. /\ run'[r].pc = "clear" /\ run'[r].mod = run[r].mod /\ run'[r].file = run[r].file
          /\ run'[r].outcome = "none" /\ run'[r].fault = run[r].fault
      BY <1>2, <1>7, <2>1 DEF RunRecord
    <3>2. run[r].received \in 0 .. ChunkCount BY <1>2 DEF RunRecord
    <3>3. 1 .. run[r].received = Chunks
      BY <2>1, <3>2, DownloadAssumption DEF Chunks, DownloadAssumption
    <3> QED BY <1>4, <1>5, <1>13, <3>1, <3>3 DEF Progress, EndTransfer, At, files
  <2>2. CASE run' = [run EXCEPT ![r].pc = "discard", ![r].fault = TRUE]
    <3>1. run'[r].pc = "discard" /\ run'[r].fault BY <1>2, <2>2 DEF RunRecord
    <3> QED BY <1>4, <3>1 DEF Progress
  <2>3. CASE run[r].cancel /\ run' = [run EXCEPT ![r].pc = "discard"]
    <3>1. run'[r].pc = "discard" /\ run'[r].cancel /\ run'[r].outcome = "none"
      BY <1>2, <1>7, <2>3 DEF RunRecord
    <3> QED BY <1>4, <3>1 DEF Progress
  <2> QED BY <1>13, <2>1, <2>2, <2>3 DEF EndTransfer, End, Told
<1>14. CASE Discard(r)
  <2>1. /\ run'[r].pc = "returned" /\ ~run'[r].ok /\ run'[r].fault = run[r].fault
        /\ run'[r].cancel = run[r].cancel /\ run'[r].outcome = "none"
    BY <1>2, <1>7, <1>14 DEF Discard, RunRecord
  <2>2. run[r].fault \/ run[r].cancel BY <1>5, <1>14 DEF Progress, Discard, At
  <2> QED BY <1>4, <2>1, <2>2 DEF Progress
<1>15. CASE Clear(r)
  <2>1. /\ run'[r].pc = "rename" /\ run'[r].mod = run[r].mod /\ run'[r].file = run[r].file
        /\ run'[r].outcome = "none" /\ run'[r].fault = run[r].fault
    BY <1>2, <1>7, <1>15 DEF Clear, RunRecord
  <2> QED BY <1>4, <1>5, <1>15, <2>1 DEF Progress, Clear, At
<1>16. CASE Rename(r)
  <2>0. PICK m \in Mods : m = run[r].mod BY <1>3, <1>16 DEF Rename, At, Working
  <2>1. part[m] # 0 /\ (content[m][part[m]] = Chunks \/ run[r].fault)
    BY <1>5, <1>16, <2>0 DEF Progress, Rename, At
  <2>2. CASE /\ dest' = [dest EXCEPT ![m] = part[m]] /\ content' = content
             /\ run' = [run EXCEPT ![r].pc = "returned", ![r].ok = TRUE]
    <3>1. /\ run'[r].pc = "returned" /\ run'[r].ok /\ run'[r].mod = m
          /\ run'[r].outcome = "none" /\ run'[r].fault = run[r].fault
      BY <1>2, <1>7, <2>0, <2>2 DEF RunRecord
    <3>2. dest'[m] = part[m] BY <1>6, <2>2
    <3> QED BY <1>4, <2>1, <2>2, <3>1, <3>2 DEF Progress
  <2>3. CASE run' = [run EXCEPT ![r].pc = "discard", ![r].fault = TRUE]
    <3>1. run'[r].pc = "discard" /\ run'[r].fault BY <1>2, <2>3 DEF RunRecord
    <3>2. run'[r].outcome = "none" BY <1>2, <1>7, <2>3 DEF RunRecord
    <3> QED BY <1>4, <3>1, <3>2 DEF Progress
  <2> QED BY <1>16, <2>0, <2>1, <2>2, <2>3 DEF Rename
<1>17. CASE Returned(r)
  <2>1. CASE run[r].cancel
    BY <1>4, <1>8, <1>17, <2>1 DEF Returned, Leave
  <2>2. CASE ~run[r].cancel /\ ~run[r].ok
    <3>1. run[r].fault BY <1>5, <1>17, <2>2 DEF Progress, Returned, At
    <3> QED BY <1>2, <1>4, <1>9, <1>17, <2>2, <3>1 DEF Returned, Fail
  <2>3. CASE ~run[r].cancel /\ run[r].ok
    <3>1. /\ run'[r].pc = "unpack" /\ run'[r].mod = run[r].mod /\ run'[r].outcome = "none"
          /\ run'[r].fault = run[r].fault
      BY <1>2, <1>7, <1>17, <2>3 DEF Returned, RunRecord
    <3> QED BY <1>4, <1>5, <1>17, <2>3, <3>1 DEF Progress, Returned, At, files
  <2> QED BY <2>1, <2>2, <2>3
<1>18. CASE Unpack(r)
  <2>1. CASE run' = [run EXCEPT ![r].pc = "install"]
    <3>1. run'[r].pc = "install" /\ run'[r].outcome = "none" BY <1>2, <1>7, <2>1 DEF RunRecord
    <3> QED BY <1>4, <3>1 DEF Progress
  <2>2. CASE Fail(r) /\ run[r].fault BY <1>2, <1>4, <1>9, <2>2 DEF Fail
  <2> QED BY <1>5, <1>18, <2>1, <2>2 DEF Progress, Unpack, At
<1>19. CASE Install(r)
  <2>1. run'[r].pc = "manifest" /\ run'[r].outcome = "none" BY <1>2, <1>7, <1>19 DEF Install, RunRecord
  <2> QED BY <1>4, <2>1 DEF Progress
<1>20. CASE InstallFails(r)
  <2>1. [run[r] EXCEPT !.fault = TRUE] \in RunRecord BY <1>2 DEF RunRecord
  <2>2. [run[r] EXCEPT !.fault = TRUE].fault BY <1>2 DEF RunRecord
  <2>3. run' = [run EXCEPT ![r] = Ended([run[r] EXCEPT !.fault = TRUE], "failed")]
    BY <1>2, <1>20 DEF InstallFails
  <2> QED BY <1>4, <1>9, <2>1, <2>2, <2>3
<1>21. CASE Manifest(r)
  <2>1. run'[r].pc = "next" /\ run'[r].outcome = "none"
    BY <1>2, <1>7, <1>21 DEF Manifest, Completed, RunRecord
  <2> QED BY <1>4, <2>1 DEF Progress
<1> QED BY <1>10, <1>11, <1>12, <1>13, <1>14, <1>15, <1>16, <1>17, <1>18, <1>19, <1>20, <1>21
        DEF Step

-----------------------------------------------------------------------------
(* What the session of the dialog has written stays whole. *)

LEMMA StepKeepsIntact ==
  ASSUME DownloadAssumption, IInv, NEW r \in Runs, Step(r)
  PROVE  Intact'
<1> DEFINE s == dialog.session
           SpoiltThen(m) ==
             \/ run'[s].lost
             \/ /\ ~run'[s].alone
                /\ \E q \in Runs \ {s} : \/ run'[q].fault \/ run'[q].lost
                                         \/ (run'[q].pc = "install" /\ run'[q].mod = m)
<1> SUFFICES ASSUME s # 0, NEW m \in Written(run'[s])
             PROVE  tree'[m] = "whole" \/ SpoiltThen(m)
  BY DEF Intact, Spoilt, Step, At
<1>1. Moves(r) BY ThreadMoves DEF IInv
<1>2. run \in [Runs -> RunRecord] /\ run[r] \in RunRecord /\ s \in Runs /\ s = started
      /\ tree \in [Mods -> {"none", "broken", "whole"}]
  BY DEF IInv, Typed, Current, Runs
<1>3. run[r].pc \in Working => run[r].mod \in Mods /\ run[r].mod \in run[r].todo
  BY DEF IInv, Typed, RunRecord, RunOk
<1>4. m \in Written(run[s]) => tree[m] = "whole" \/ Spoilt(s, m)
  BY DEF IInv, Intact
<1>5. run[s].alone => r = s BY <1>1, <1>2 DEF IInv, Sole, Moves
<1>6. run'[s].alone = run[s].alone BY <1>1, <1>2 DEF Moves
<1>7. m \in Mods
  <2>1. run'[s] \in RunRecord /\ RunOk(run'[s])
    BY <1>1, <1>2 DEF Moves, IInv
  <2>2. run'[s].list \subseteq Mods /\ run'[s].todo \subseteq run'[s].list BY <2>1 DEF RunRecord, RunOk
  <2>3. run'[s].pc = "manifest" => run'[s].mod \in run'[s].todo BY <2>1 DEF RunOk, Working
  <2> QED BY <2>2, <2>3 DEF Written
<1>8. \A q \in Runs : (run[q].fault => run'[q].fault) /\ (run[q].lost => run'[q].lost)
  BY <1>1 DEF Moves
<1> HIDE DEF s, SpoiltThen
\* What is spoilt remains so as long as no thread leaves off writing the mod.
<1>9. ASSUME Spoilt(s, m), run[r].pc = "install" => run'[r].fault PROVE SpoiltThen(m)
  <2>1. CASE run[s].lost BY <1>2, <1>8, <2>1 DEF SpoiltThen
  <2>2. CASE ~run[s].lost
    <3>1. PICK q \in Runs \ {s} :
            run[q].fault \/ run[q].lost \/ (run[q].pc = "install" /\ run[q].mod = m)
      BY <1>9, <2>2 DEF Spoilt, At
    <3>2. ~run'[s].alone BY <1>6, <1>9, <2>2 DEF Spoilt
    <3>3. run'[q].fault \/ run'[q].lost \/ (run'[q].pc = "install" /\ run'[q].mod = m)
      BY <1>1, <1>8, <1>9, <3>1 DEF Moves
    <3> QED BY <3>1, <3>2, <3>3 DEF SpoiltThen
  <2> QED BY <2>1, <2>2
<1>10. ASSUME m \in Written(run[s]), tree'[m] = tree[m],
              run[r].pc = "install" => run'[r].fault
       PROVE  tree'[m] = "whole" \/ SpoiltThen(m)
  BY <1>4, <1>9, <1>10
<1>11. r # s => m \in Written(run[s]) BY <1>1, <1>2 DEF Moves
<1>12. ASSUME NEW o \in {"none", "failed"}, r = s, NEW x \in RunRecord,
              run' = [run EXCEPT ![r] = Ended(x, o)]
       PROVE  FALSE
  <2>1. run'[s] = Ended(x, o) BY <1>2, <1>12
  <2>2. Ended(x, o).pc = "over" /\ Ended(x, o).outcome = o BY EndedRecord
  <2> QED BY <2>1, <2>2 DEF Written
<1>13. CASE Head(r)
  <2>0. tree' = tree /\ run[r].pc = "next" BY <1>13 DEF Head, files, At
  <2>1. CASE r # s BY <1>10, <1>11, <2>0, <2>1
  <2>2. CASE r = s
    <3>1. ~Leave(r) BY <1>2, <1>12, <2>2 DEF Leave
    <3>2. CASE run[r].todo = {} /\ Finish(r)
      <4>1. run'[s] = Ended(run[s], "done") BY <1>2, <2>2, <3>2 DEF Finish
      <4>2. Ended(run[s], "done").list = run[s].list /\ Ended(run[s], "done").pc = "over"
        BY <1>2, EndedRecord
      <4>3. m \in run[s].list BY <4>1, <4>2 DEF Written
      <4>4. m \in Written(run[s]) BY <2>0, <2>2, <3>2, <4>3 DEF Written
      <4> QED BY <1>10, <2>0, <4>4
    <3>3. ASSUME NEW n \in run[r].todo, run' = [run EXCEPT ![r].pc = "open", ![r].mod = n]
          PROVE  tree'[m] = "whole" \/ SpoiltThen(m)
      <4>1. run'[s].pc = "open" /\ run'[s].list = run[s].list /\ run'[s].todo = run[s].todo
        BY <1>2, <2>2, <3>3 DEF RunRecord
      <4>2. m \in Written(run[s]) BY <2>0, <2>2, <4>1 DEF Written
      <4> QED BY <1>10, <2>0, <4>2
    <3> QED BY <1>13, <3>1, <3>2, <3>3 DEF Head, NextTask
  <2> QED BY <2>1, <2>2
\* Steps on the files, before the archive is unpacked.
<1>14. ASSUME tree' = tree, run[r].pc \notin {"install", "manifest", "next", "over"},
              run'[r].pc \notin {"manifest", "over"}, run'[r].todo = run[r].todo
       PROVE  tree'[m] = "whole" \/ SpoiltThen(m)
  <2>1. run'[r].list = run[r].list BY <1>1 DEF Moves
  <2>2. m \in Written(run[s]) BY <1>11, <1>14, <2>1 DEF Written
  <2> QED BY <1>10, <1>14, <2>2
<1>15. CASE Open(r)
  <2>1. /\ run'[r].pc \notin {"manifest", "over"} /\ run'[r].todo = run[r].todo
    BY <1>2, <1>15 DEF Open, OpenPart, RunRecord
  <2> QED BY <1>14, <1>15, <2>1 DEF Open, At
<1>16. CASE Receive(r)
  <2>1. /\ run'[r].pc \notin {"manifest", "over"} /\ run'[r].todo = run[r].todo
    BY <1>2, <1>16 DEF Receive, At, RunRecord
  <2> QED BY <1>14, <1>16, <2>1 DEF Receive, At
<1>17. CASE EndTransfer(r)
  <2>1. /\ run'[r].pc \notin {"manifest", "over"} /\ run'[r].todo = run[r].todo
    BY <1>2, <1>17 DEF EndTransfer, End, Told, RunRecord
  <2> QED BY <1>14, <1>17, <2>1 DEF EndTransfer, At, files
<1>18. CASE Discard(r)
  <2>1. /\ run'[r].pc \notin {"manifest", "over"} /\ run'[r].todo = run[r].todo
    BY <1>2, <1>18 DEF Discard, RunRecord
  <2> QED BY <1>14, <1>18, <2>1 DEF Discard, At
<1>19. CASE Clear(r)
  <2>1. /\ run'[r].pc \notin {"manifest", "over"} /\ run'[r].todo = run[r].todo
    BY <1>2, <1>19 DEF Clear, RunRecord
  <2> QED BY <1>14, <1>19, <2>1 DEF Clear, At
<1>20. CASE Rename(r)
  <2>1. /\ run'[r].pc \notin {"manifest", "over"} /\ run'[r].todo = run[r].todo
    BY <1>2, <1>20 DEF Rename, RunRecord
  <2> QED BY <1>14, <1>20, <2>1 DEF Rename, At
<1>21. CASE Returned(r)
  <2>0. tree' = tree /\ run[r].pc = "returned" BY <1>21 DEF Returned, At, files
  <2>1. CASE r # s BY <1>10, <1>11, <2>0, <2>1
  <2>2. CASE r = s
    <3>1. ~Leave(r) /\ ~Fail(r) BY <1>2, <1>12, <2>2 DEF Leave, Fail
    <3>2. run' = [run EXCEPT ![r].pc = "unpack"] BY <1>21, <3>1 DEF Returned
    <3>3. run'[r].pc = "unpack" /\ run'[r].todo = run[r].todo BY <1>2, <3>2 DEF RunRecord
    <3> QED BY <1>14, <2>0, <3>3
  <2> QED BY <2>1, <2>2
<1>22. CASE Unpack(r)
  <2>0. PICK n \in Mods : n = run[r].mod /\ n \in run[r].todo
    BY <1>3, <1>22 DEF Unpack, At, Working
  <2>1. CASE Fail(r)
    <3>1. r # s BY <1>2, <1>12, <2>1 DEF Fail
    <3>2. run' # [run EXCEPT ![r].pc = "install"]
      <4>1. run'[r] = Ended(run[r], "failed") /\ Ended(run[r], "failed").pc = "over"
        BY <1>2, <2>1, EndedRecord DEF Fail
      <4> QED BY <1>2, <4>1 DEF RunRecord
    <3>3. tree' = tree /\ run[r].pc = "unpack" BY <1>22, <3>2 DEF Unpack, At
    <3> QED BY <1>10, <1>11, <3>1, <3>3
  <2>2. CASE /\ run' = [run EXCEPT ![r].pc = "install"]
             /\ tree' = [tree EXCEPT ![n] = "broken"]
    <3>1. /\ run'[r].pc = "install" /\ run'[r].mod = n /\ run'[r].todo = run[r].todo
          /\ run'[r].list = run[r].list /\ run[r].pc = "unpack"
      BY <1>2, <1>22, <2>0, <2>2 DEF RunRecord, Unpack, At
    <3>2. CASE r = s
      <4>1. m \in Written(run[s]) /\ m # n BY <2>0, <3>1, <3>2 DEF Written
      <4>2. tree'[m] = tree[m] BY <1>2, <1>7, <2>2, <4>1
      <4> QED BY <1>10, <3>1, <4>1, <4>2
    <3>3. CASE r # s /\ m = n
      BY <1>5, <1>6, <3>1, <3>3 DEF SpoiltThen
    <3>4. CASE r # s /\ m # n
      <4>1. tree'[m] = tree[m] BY <1>2, <1>7, <2>2, <3>4
      <4> QED BY <1>10, <1>11, <3>1, <3>4, <4>1
    <3> QED BY <3>2, <3>3, <3>4
  <2> QED BY <1>22, <2>0, <2>1, <2>2 DEF Unpack
<1>23. CASE Install(r)
  <2>0. PICK n \in Mods : n = run[r].mod /\ n \in run[r].todo
    BY <1>3, <1>23 DEF Install, At, Working
  <2> DEFINE others == {q \in Runs \ {r} : At(q, "install") /\ run[q].mod = n}
  <2>1. \/ tree' = [tree EXCEPT ![n] = IF others = {} THEN "whole" ELSE "broken"]
        \/ tree' = [tree EXCEPT ![n] = "broken"] /\ run'[r].lost
    BY <1>2, <1>23, <2>0 DEF Install, RunRecord
  <2>2. /\ run'[r].pc = "manifest" /\ run'[r].mod = n /\ run'[r].todo = run[r].todo
        /\ run'[r].list = run[r].list /\ run[r].pc = "install"
    BY <1>2, <1>23, <2>0 DEF RunRecord, Install, At
  <2>3. CASE m = n
    <3>0. CASE run'[r].lost
      <4>1. CASE r = s BY <3>0, <4>1 DEF SpoiltThen
      <4>2. CASE r # s BY <1>5, <1>6, <3>0, <4>2 DEF SpoiltThen
      <4> QED BY <4>1, <4>2
    <3>1. CASE others = {} /\ ~run'[r].lost BY <1>2, <1>7, <2>1, <2>3, <3>1
    <3>2. CASE others # {}
      <4>1. PICK q \in Runs \ {r} : run[q].pc = "install" /\ run[q].mod = n
        BY <3>2 DEF At
      <4>2. run'[q] = run[q] BY <1>1, <4>1 DEF Moves
      <4>3. q # s
        <5>1. SUFFICES ASSUME q = s PROVE FALSE OBVIOUS
        <5>2. n \in run[s].todo BY <1>2, <4>1, <5>1 DEF IInv, RunOk, Working
        <5>3. m \notin Written(run'[s]) BY <2>3, <4>1, <4>2, <5>1, <5>2 DEF Written
        <5> QED BY <5>3
      <4>4. ~run[s].alone
        <5>1. CASE r = s BY <1>2, <4>1, <4>3, <5>1 DEF IInv, Sole, Alive
        <5>2. CASE r # s BY <1>5, <5>2
        <5> QED BY <5>1, <5>2
      <4> QED BY <1>6, <2>3, <4>1, <4>2, <4>3, <4>4 DEF SpoiltThen
    <3> QED BY <3>0, <3>1, <3>2
  <2>4. CASE m # n
    <3>1. tree'[m] = tree[m] BY <1>2, <1>7, <2>1, <2>4
    <3>2. m \in Written(run[s])
      BY <1>11, <2>2, <2>4 DEF Written
    <3>3. Spoilt(s, m) => SpoiltThen(m)
      <4> SUFFICES ASSUME Spoilt(s, m) PROVE SpoiltThen(m) OBVIOUS
      <4>1. CASE run[s].lost BY <1>2, <1>8, <4>1 DEF SpoiltThen
      <4>2. CASE ~run[s].lost
        <5>1. PICK q \in Runs \ {s} :
                run[q].fault \/ run[q].lost \/ (run[q].pc = "install" /\ run[q].mod = m)
          BY <4>2 DEF Spoilt, At
        <5>2. ~run'[s].alone BY <1>6, <4>2 DEF Spoilt
        <5>3. run'[q].fault \/ run'[q].lost \/ (run'[q].pc = "install" /\ run'[q].mod = m)
          BY <1>1, <1>8, <2>0, <2>4, <5>1 DEF Moves
        <5> QED BY <5>1, <5>2, <5>3 DEF SpoiltThen
      <4> QED BY <4>1, <4>2
    <3> QED BY <1>4, <3>1, <3>2, <3>3
  <2> QED BY <2>3, <2>4
<1>24. CASE InstallFails(r)
  <2>1. [run[r] EXCEPT !.fault = TRUE] \in RunRecord /\ [run[r] EXCEPT !.fault = TRUE].fault
    BY <1>2 DEF RunRecord
  <2>2. run' = [run EXCEPT ![r] = Ended([run[r] EXCEPT !.fault = TRUE], "failed")]
    BY <1>2, <1>24 DEF InstallFails
  <2>3. r # s BY <1>12, <2>1, <2>2
  <2>4. run'[r] = Ended([run[r] EXCEPT !.fault = TRUE], "failed") BY <1>2, <2>2
  <2>5. Ended([run[r] EXCEPT !.fault = TRUE], "failed").fault = [run[r] EXCEPT !.fault = TRUE].fault
    BY <2>1, EndedRecord
  <2>6. run'[r].fault BY <2>1, <2>4, <2>5
  <2> QED BY <1>10, <1>11, <1>24, <2>3, <2>6 DEF InstallFails, files
<1>25. CASE Manifest(r)
  <2>0. PICK lost \in BOOLEAN : Completed(r, lost) BY <1>2, <1>25 DEF Manifest, RunRecord
  <2>1. /\ run'[r].pc = "next" /\ run'[r].todo = run[r].todo \ {run[r].mod}
        /\ run'[r].list = run[r].list /\ run[r].pc = "manifest" /\ tree' = tree
    BY <1>2, <1>25, <2>0 DEF RunRecord, Manifest, Completed, At
  <2>2. m \in Written(run[s]) BY <1>11, <2>1 DEF Written
  <2> QED BY <1>10, <2>1, <2>2
<1> QED BY <1>13, <1>15, <1>16, <1>17, <1>18, <1>19, <1>20, <1>21, <1>22, <1>23, <1>24, <1>25
        DEF Step

-----------------------------------------------------------------------------
(* What the session of the dialog has recorded stays so. *)

LEMMA StepKeepsRecorded ==
  ASSUME DownloadAssumption, IInv, NEW r \in Runs, Step(r)
  PROVE  AllRecorded'
<1> DEFINE s == dialog.session
           LossyThen == run'[s].lost \/ (~run'[s].alone /\ \E q \in Runs \ {s} : run'[q].lost)
<1> SUFFICES ASSUME s # 0, NEW m \in Recorded(run'[s])
             PROVE  m \in manifest' \/ LossyThen
  BY DEF AllRecorded, Lossy, Step
<1>1. Moves(r) BY ThreadMoves DEF IInv
<1>2. run \in [Runs -> RunRecord] /\ run[r] \in RunRecord /\ s \in Runs /\ s = started
  BY DEF IInv, Typed, Current, Runs
<1>3. m \in Recorded(run[s]) => m \in manifest \/ Lossy(s)
  BY DEF IInv, AllRecorded
<1>4. run[s].alone => r = s BY <1>1, <1>2 DEF IInv, Sole, Moves
<1>5. run'[s].alone = run[s].alone BY <1>1, <1>2 DEF Moves
<1>6. \A q \in Runs : run[q].lost => run'[q].lost BY <1>1 DEF Moves
<1> HIDE DEF s, LossyThen
<1>7. Lossy(s) => LossyThen BY <1>2, <1>5, <1>6 DEF Lossy, LossyThen
<1>8. run'[r].lost => LossyThen BY <1>2, <1>4, <1>5 DEF LossyThen
<1>9. r # s => m \in Recorded(run[s]) BY <1>1, <1>2 DEF Moves
<1>10. ASSUME m \in Recorded(run[s]), manifest' = manifest
       PROVE  m \in manifest' \/ LossyThen
  BY <1>3, <1>7, <1>10
<1>11. CASE Manifest(r)
  <2>0. PICK lost \in BOOLEAN : Completed(r, lost) BY <1>2, <1>11 DEF Manifest, RunRecord
  <2>1. /\ run'[r].pc = "next" /\ run'[r].todo = run[r].todo \ {run[r].mod}
        /\ run'[r].list = run[r].list /\ run[r].pc = "manifest"
    BY <1>2, <1>11, <2>0 DEF RunRecord, Manifest, Completed, At
  <2>2. CASE manifest' = manifest \cup {run[r].mod}
    <3>1. m = run[r].mod \/ m \in Recorded(run[s]) BY <1>9, <2>1 DEF Recorded
    <3> QED BY <1>3, <1>7, <2>2, <3>1
  <2>3. CASE Completed(r, TRUE)
    <3>1. run'[r].lost BY <1>2, <2>3 DEF Completed, RunRecord
    <3> QED BY <1>8, <3>1
  <2> QED BY <1>11, <2>2, <2>3 DEF Manifest
<1>12. ASSUME ~Manifest(r) PROVE manifest' = manifest
  BY <1>12 DEF Step, Head, Open, Receive, EndTransfer, Discard, Clear, Rename, Returned, Unpack, Install, InstallFails, files
<1>13. ASSUME ~Manifest(r), r = s PROVE m \in Recorded(run[s])
  <2>1. CASE run'[r].pc # "over" /\ run'[r].todo = run[r].todo
    <3>1. run'[r].list = run[r].list /\ run[r].pc # "over" BY <1>1 DEF Moves, Alive
    <3> QED BY <1>13, <2>1, <3>1 DEF Recorded
  <2>2. ASSUME NEW o \in {"none", "failed"}, NEW x \in RunRecord,
               run' = [run EXCEPT ![r] = Ended(x, o)]
        PROVE  FALSE
    <3>1. run'[s] = Ended(x, o) BY <1>2, <1>13, <2>2
    <3>2. Ended(x, o).pc = "over" /\ Ended(x, o).outcome = o BY EndedRecord
    <3> QED BY <3>1, <3>2 DEF Recorded
  <2>3. ~Leave(r) /\ ~Fail(r) BY <1>2, <2>2 DEF Leave, Fail
  <2>4. CASE Head(r)
    <3>1. CASE run[r].todo = {} /\ Finish(r)
      <4>1. run'[s] = Ended(run[s], "done") BY <1>2, <1>13, <3>1 DEF Finish
      <4>2. Ended(run[s], "done").list = run[s].list /\ Ended(run[s], "done").pc = "over"
        BY <1>2, EndedRecord
      <4>3. m \in run[s].list BY <4>1, <4>2 DEF Recorded
      <4> QED BY <1>13, <2>4, <3>1, <4>3 DEF Recorded, Head, At
    <3>2. ASSUME NEW n \in run[r].todo, run' = [run EXCEPT ![r].pc = "open", ![r].mod = n]
          PROVE  m \in Recorded(run[s])
      <4>1. run'[r].pc = "open" /\ run'[r].todo = run[r].todo BY <1>2, <3>2 DEF RunRecord
      <4> QED BY <2>1, <4>1
    <3> QED BY <2>3, <2>4, <3>1, <3>2 DEF Head, NextTask
  <2>5. CASE Open(r) BY <1>2, <2>1, <2>5 DEF Open, OpenPart, RunRecord
  <2>6. CASE Receive(r) BY <1>2, <2>1, <2>6 DEF Receive, At, RunRecord
  <2>7. CASE EndTransfer(r) BY <1>2, <2>1, <2>7 DEF EndTransfer, End, RunRecord
  <2>8. CASE Discard(r) \/ Clear(r) BY <1>2, <2>1, <2>8 DEF Discard, Clear, RunRecord
  <2>9. CASE Rename(r) BY <1>2, <2>1, <2>9 DEF Rename, RunRecord
  <2>10. CASE Returned(r) BY <1>2, <2>1, <2>3, <2>10 DEF Returned, RunRecord
  <2>11. CASE Unpack(r) BY <1>2, <2>1, <2>3, <2>11 DEF Unpack, RunRecord
  <2>12. CASE Install(r) BY <1>2, <2>1, <2>12 DEF Install, RunRecord
  <2>13. ~InstallFails(r)
    <3>1. SUFFICES ASSUME InstallFails(r) PROVE FALSE OBVIOUS
    <3>2. [run[r] EXCEPT !.fault = TRUE] \in RunRecord BY <1>2 DEF RunRecord
    <3> QED BY <1>2, <2>2, <3>1, <3>2 DEF InstallFails
  <2> QED BY <1>13, <2>4, <2>5, <2>6, <2>7, <2>8, <2>9, <2>10, <2>11, <2>12, <2>13 DEF Step
<1> QED BY <1>9, <1>10, <1>11, <1>12, <1>13

-----------------------------------------------------------------------------
(* The dialog. *)

\* A step of the main thread does no more to a thread than start it, cancel it
\* or end it with the game.
LEMMA CancelKeeps ==
  ASSUME NEW x \in RunRecord, RunOk(x)
  PROVE  LET y == [x EXCEPT !.cancel = TRUE]
         IN /\ y \in RunRecord /\ RunOk(y) /\ y.pc = x.pc /\ y.mod = x.mod /\ y.ok = x.ok
            /\ y.file = x.file /\ y.received = x.received /\ y.outcome = x.outcome
            /\ y.fault = x.fault /\ y.alone = x.alone /\ y.list = x.list /\ y.todo = x.todo
            /\ y.cancel
BY DEF RunRecord, RunOk

\* Cancelled changes nothing but the flag.
Cancelled(s) ==
  run' = [r \in Runs |-> IF r = s THEN [run[r] EXCEPT !.cancel = TRUE] ELSE run[r]]

LEMMA CancelledKeeps ==
  ASSUME Typed, \A r \in Runs : RunOk(run[r]), NEW s, Cancelled(s), NEW r \in Runs
  PROVE  /\ run'[r] \in RunRecord /\ RunOk(run'[r]) /\ run'[r].pc = run[r].pc
         /\ run'[r].mod = run[r].mod /\ run'[r].ok = run[r].ok
         /\ run'[r].file = run[r].file /\ run'[r].received = run[r].received
         /\ run'[r].outcome = run[r].outcome
         /\ run'[r].fault = run[r].fault /\ run'[r].alone = run[r].alone
         /\ run'[r].list = run[r].list /\ run'[r].todo = run[r].todo
         /\ run[r].cancel => run'[r].cancel
<1>1. run[r] \in RunRecord BY DEF Typed
<1>2. CASE r = s
  <2>1. run'[r] = [run[r] EXCEPT !.cancel = TRUE] BY <1>2 DEF Cancelled
  <2> QED BY <1>1, <2>1, CancelKeeps
<1>3. CASE r # s
  <2>1. run'[r] = run[r] BY <1>3 DEF Cancelled
  <2> QED BY <1>1, <2>1
<1> QED BY <1>2, <1>3

LEMMA CancelStep ==
  ASSUME DownloadAssumption, IInv, Cancel
  PROVE  IInv'
<1>1. Cancelled(dialog.session) /\ dialog' = [phase |-> "none", session |-> 0]
      /\ UNCHANGED <<started, missing, files, quits>>
  BY DEF Cancel, Cancelled
<1>2. /\ \A r \in Runs : run'[r] \in RunRecord /\ RunOk(run'[r])
  BY <1>1, CancelledKeeps DEF IInv
<1>3. Typed'
  <2>1. run' \in [Runs -> RunRecord] BY <1>1, <1>2 DEF Cancelled
  <2>2. dialog' \in [phase : {"none", "prompt", "running", "done", "failed"}, session : 0 .. MaxRuns]
    BY <1>1, DownloadAssumption DEF DownloadAssumption
  <2> QED BY <1>1, <2>1, <2>2 DEF IInv, Typed, files
<1>4. NotYet'
  <2> SUFFICES ASSUME NEW r \in Runs, r > started PROVE run'[r] = Unstarted
    BY <1>1 DEF NotYet
  <2>1. r # dialog.session BY DownloadAssumption DEF IInv, Current, Typed, Runs, DownloadAssumption
  <2> QED BY <1>1, <2>1 DEF IInv, NotYet, Cancelled
<1>5. Current' BY <1>1 DEF Current
<1>6. started # 0 => started \in Runs BY DEF IInv, Typed, Runs
<1>7. Sole'
  <2> SUFFICES ASSUME started # 0, run'[started].alone, NEW q \in Runs \ {started}
               PROVE  run'[q].pc \in {"none", "over"}
    BY <1>1 DEF Sole, Alive
  <2>1. run[started].alone /\ run'[q].pc = run[q].pc
    BY <1>1, <1>6, CancelledKeeps DEF IInv
  <2> QED BY <2>1 DEF IInv, Sole, Alive
<1>8. Owned'
  <2> SUFFICES ASSUME quits = 0, NEW m \in Mods, part[m] # 0
               PROVE  \E r \in Runs : run'[r].pc \in Holding /\ run'[r].mod = m
    BY <1>1 DEF Owned, files
  <2>1. PICK r \in Runs : run[r].pc \in Holding /\ run[r].mod = m BY DEF IInv, Owned
  <2>2. run'[r].pc = run[r].pc /\ run'[r].mod = run[r].mod BY <1>1, CancelledKeeps DEF IInv
  <2> QED BY <2>1, <2>2
<1>9. Undivided'
  <2> SUFFICES ASSUME started # 0, run'[started].alone
               PROVE  Progress(run'[started], part, dest, content)
    BY <1>1 DEF Undivided, files
  <2> DEFINE x == run[started]
             y == run'[started]
  <2>1. /\ y.pc = x.pc /\ y.mod = x.mod /\ y.ok = x.ok /\ y.file = x.file
        /\ y.received = x.received /\ y.outcome = x.outcome /\ y.fault = x.fault
        /\ y.alone = x.alone /\ (x.cancel => y.cancel)
    BY <1>1, <1>6, CancelledKeeps DEF IInv
  <2>2. Progress(x, part, dest, content) BY <2>1 DEF IInv, Undivided
  <2> HIDE DEF x, y
  <2>3. Progress(y, part, dest, content) BY <2>1, <2>2 DEF Progress
  <2> QED BY <2>3 DEF y
<1>10. Intact' /\ AllRecorded' BY <1>1 DEF Intact, AllRecorded
<1> QED BY <1>2, <1>3, <1>4, <1>5, <1>7, <1>8, <1>9, <1>10 DEF IInv

\* Apply, Rescan, Poll and Continue leave the threads and the files alone.
LEMMA DialogStep ==
  ASSUME DownloadAssumption, IInv, Apply \/ Rescan \/ Poll \/ Continue
  PROVE  IInv'
<1>1. UNCHANGED <<run, started, files, quits>>
  BY DEF Apply, Rescan, Poll, Continue
<1>2. missing' \subseteq Mods
  BY DEF Apply, Rescan, Poll, Continue, IInv, Typed
<1>3. dialog.session # 0 => dialog.session \in Runs BY DEF IInv, Typed, Runs
<1>4. /\ dialog' \in [phase : {"none", "prompt", "running", "done", "failed"}, session : 0 .. MaxRuns]
      /\ dialog'.session \in {0, dialog.session}
      /\ dialog'.phase \in {"none", "prompt"} => dialog'.session = 0
      /\ dialog'.phase \in {"running", "done", "failed"} => dialog'.session # 0
      /\ dialog'.phase \in {"done", "failed"} => run[dialog'.session].outcome = dialog'.phase
  <2>1. CASE Apply \/ Continue
    BY <2>1, DownloadAssumption DEF Apply, Continue, DownloadAssumption
  <2>2. CASE Rescan BY <2>2 DEF Rescan, IInv, Typed, Current
  <2>3. CASE Poll
    <3>1. run[dialog.session].outcome \in {"done", "failed"} /\ dialog.session # 0
      BY <1>3, <2>3 DEF Poll, IInv, Typed, Current, RunRecord
    <3>2. dialog'.session = dialog.session /\ dialog'.phase = run[dialog.session].outcome
          /\ dialog' \in [phase : {"none", "prompt", "running", "done", "failed"}, session : 0 .. MaxRuns]
      BY <2>3, <3>1 DEF Poll, IInv, Typed
    <3> QED BY <3>1, <3>2
  <2> QED BY <2>1, <2>2, <2>3
<1>5. Typed' BY <1>1, <1>2, <1>4 DEF IInv, Typed, files
<1>6. Current' BY <1>1, <1>4 DEF IInv, Current
<1>7. (NotYet /\ Sole)' /\ \A r \in Runs : RunOk(run'[r])
  BY <1>1 DEF IInv, NotYet, Sole, Alive
<1>8. Owned' BY <1>1 DEF IInv, Owned, files
<1>9. Undivided' BY <1>1 DEF IInv, Undivided, files
<1>10. Intact' BY <1>1, <1>4 DEF IInv, Intact, Spoilt, files, At
<1>11. AllRecorded' BY <1>1, <1>4 DEF IInv, AllRecorded, Lossy, files
<1> QED BY <1>5, <1>6, <1>7, <1>8, <1>9, <1>10, <1>11 DEF IInv

\* The game ends: the threads are over, and what they held stays on the disk.
LEMMA QuitStep ==
  ASSUME DownloadAssumption, IInv, Quit
  PROVE  IInv'
<1>1. /\ run' = [r \in Runs |-> IF Alive(r) THEN Ended(run[r], "none") ELSE run[r]]
      /\ dialog' = [phase |-> "none", session |-> 0]
      /\ missing' \subseteq Mods /\ quits' = quits + 1
      /\ UNCHANGED <<started, files>>
  BY DEF Quit
<1>2. ASSUME NEW r \in Runs
      PROVE  /\ run'[r] \in RunRecord /\ RunOk(run'[r]) /\ run'[r].pc \in {"none", "over"}
             /\ run'[r].alone = run[r].alone
             /\ run'[r] = run[r] \/ (run'[r].outcome = "none" /\ run'[r].pc = "over")
  <2>1. run[r] \in RunRecord /\ RunOk(run[r]) BY DEF IInv, Typed
  <2>2. CASE Alive(r)
    <3>1. run'[r] = Ended(run[r], "none") BY <1>1, <2>2
    <3> QED BY <2>1, <3>1, EndedRecord
  <2>3. CASE ~Alive(r)
    <3>1. run'[r] = run[r] BY <1>1, <2>3
    <3> QED BY <2>1, <2>3, <3>1 DEF Alive
  <2> QED BY <2>2, <2>3
<1>3. Typed'
  <2>1. run' \in [Runs -> RunRecord] BY <1>1, <1>2
  <2>2. dialog' \in [phase : {"none", "prompt", "running", "done", "failed"}, session : 0 .. MaxRuns]
    BY <1>1, DownloadAssumption DEF DownloadAssumption
  <2>3. quits' \in 0 .. MaxQuits
    BY <1>1, DownloadAssumption DEF Quit, IInv, Typed, DownloadAssumption
  <2> QED BY <1>1, <2>1, <2>2, <2>3 DEF IInv, Typed, files
<1>4. NotYet' BY <1>1 DEF IInv, NotYet, Alive, Unstarted
<1>5. Current' BY <1>1 DEF Current
<1>6. Sole' BY <1>1, <1>2 DEF Sole, Alive
<1>7. Owned' BY <1>1, DownloadAssumption DEF Owned, IInv, Typed, DownloadAssumption
<1>8. Undivided'
  <2>1. started # 0 => started \in Runs BY DEF IInv, Typed, Runs
  <2> SUFFICES ASSUME started # 0, run'[started].alone
               PROVE  Progress(run'[started], part, dest, content)
    BY <1>1 DEF Undivided, files
  <2>2. CASE run'[started] = run[started] BY <2>2 DEF IInv, Undivided
  <2>3. CASE run'[started].outcome = "none" /\ run'[started].pc = "over"
    BY <2>3 DEF Progress
  <2> QED BY <1>2, <2>1, <2>2, <2>3
<1>9. Intact' /\ AllRecorded' BY <1>1 DEF Intact, AllRecorded
<1> QED BY <1>2, <1>3, <1>4, <1>5, <1>6, <1>7, <1>8, <1>9 DEF IInv

\* A new session.
LEMMA StartStep ==
  ASSUME DownloadAssumption, IInv, Start
  PROVE  IInv'
<1> DEFINE n == started + 1
           new == [Unstarted EXCEPT !.pc = "next", !.todo = missing, !.list = missing,
                                    !.alone = \A q \in Runs : ~Alive(q)]
<1>1. n \in Runs /\ n # 0 /\ started \in Nat /\ n \in 0 .. MaxRuns /\ dialog.session # n
  BY DownloadAssumption DEF Start, IInv, Typed, Current, Runs, DownloadAssumption
<1>2. /\ run'[n] = new
      /\ \A r \in Runs \ {n} : run'[r] = IF r = dialog.session THEN [run[r] EXCEPT !.cancel = TRUE]
                                          ELSE run[r]
      /\ DOMAIN run' = Runs
  BY <1>1 DEF Start, StartedOver
<1>3. started' = n /\ dialog' = [phase |-> "running", session |-> n]
      /\ UNCHANGED <<missing, files, quits>>
  BY DEF Start
<1>4. new \in RunRecord
  <2>1. Unstarted \in RunRecord
    BY DownloadAssumption DEF Unstarted, RunRecord, Pcs, Working, DownloadAssumption
  <2>2. "next" \in Pcs /\ missing \in SUBSET Mods BY DEF Pcs, IInv, Typed
  <2> QED BY <2>1, <2>2 DEF RunRecord
<1>5. /\ new.pc = "next" /\ new.todo = missing /\ new.list = missing /\ new.outcome = "none"
      /\ new.alone = (\A q \in Runs : ~Alive(q))
  BY DEF Unstarted
<1> HIDE DEF new
<1>6. RunOk(new) BY <1>5 DEF RunOk, Working
<1>7. ASSUME NEW r \in Runs \ {n}
      PROVE  /\ run'[r] \in RunRecord /\ RunOk(run'[r]) /\ run'[r].pc = run[r].pc
             /\ run'[r].mod = run[r].mod
  <2>1. run[r] \in RunRecord /\ RunOk(run[r]) BY DEF IInv, Typed
  <2>2. CASE r = dialog.session
    <3>1. run'[r] = [run[r] EXCEPT !.cancel = TRUE] BY <1>2, <2>2
    <3> QED BY <2>1, <3>1, CancelKeeps
  <2>3. CASE r # dialog.session
    <3>1. run'[r] = run[r] BY <1>2, <2>3
    <3> QED BY <2>1, <3>1
  <2> QED BY <2>2, <2>3
<1>8. Typed'
  <2>1. \A r \in Runs : run'[r] \in RunRecord BY <1>2, <1>4, <1>7
  <2>2. run' = StartedOver(dialog.session) BY DEF Start
  <2>3. \A r \in Runs : StartedOver(dialog.session)[r] \in RunRecord BY <2>1, <2>2
  <2>4. run' \in [Runs -> RunRecord] BY <2>2, <2>3 DEF StartedOver
  <2>5. dialog' \in [phase : {"none", "prompt", "running", "done", "failed"}, session : 0 .. MaxRuns]
    BY <1>1, <1>3
  <2> QED BY <1>1, <1>3, <2>4, <2>5 DEF IInv, Typed, files
<1>9. \A r \in Runs : RunOk(run'[r]) BY <1>2, <1>6, <1>7
<1>10. NotYet'
  <2> SUFFICES ASSUME NEW r \in Runs, r > n PROVE run'[r] = Unstarted
    BY <1>3 DEF NotYet
  <2>1. r \in Runs \ {n} /\ r > started /\ r # dialog.session
    BY <1>1 DEF Runs, IInv, Current
  <2> QED BY <1>2, <2>1 DEF IInv, NotYet
<1>11. Current' BY <1>1, <1>3 DEF Current
<1>12. Sole' BY <1>2, <1>3, <1>5, <1>7 DEF Sole, Alive
<1>13. Owned'
  <2> SUFFICES ASSUME quits = 0, NEW m \in Mods, part[m] # 0
               PROVE  \E r \in Runs : run'[r].pc \in Holding /\ run'[r].mod = m
    BY <1>3 DEF Owned, files
  <2>1. PICK r \in Runs : run[r].pc \in Holding /\ run[r].mod = m BY DEF IInv, Owned
  <2>2. r # n BY <1>1, <2>1 DEF IInv, NotYet, Unstarted, Holding
  <2> QED BY <1>7, <2>1, <2>2
<1>14. Undivided' BY <1>2, <1>3, <1>5 DEF Undivided, Progress
<1>15. Intact' BY <1>2, <1>3, <1>5 DEF Intact, Written
<1>16. AllRecorded' BY <1>2, <1>3, <1>5 DEF AllRecorded, Recorded
<1> QED BY <1>8, <1>9, <1>10, <1>11, <1>12, <1>13, <1>14, <1>15, <1>16 DEF IInv

-----------------------------------------------------------------------------
(* The theorems. *)

LEMMA InitIInv ==
  ASSUME DownloadAssumption, Init
  PROVE  IInv
<1>1. Unstarted \in RunRecord
  BY DownloadAssumption DEF Unstarted, RunRecord, Pcs, Working, DownloadAssumption
<1>2. run = [r \in Runs |-> Unstarted] BY DEF Init
<1>3. Typed
  <2>1. run \in [Runs -> RunRecord] BY <1>1, <1>2
  <2>2. /\ started \in 0 .. MaxRuns /\ quits \in 0 .. MaxQuits /\ 0 \in 0 .. MaxRuns
        /\ dialog \in [phase : {"none", "prompt", "running", "done", "failed"}, session : 0 .. MaxRuns]
    BY DownloadAssumption DEF Init, DownloadAssumption
  <2> QED BY <2>1, <2>2 DEF Init, Typed
<1>4. \A r \in Runs : RunOk(run[r]) BY <1>2 DEF RunOk, Unstarted, Working
<1>5. NotYet BY <1>2 DEF NotYet
<1>6. Current /\ Sole /\ Owned /\ Undivided /\ Intact /\ AllRecorded
  BY DEF Init, Current, Sole, Owned, Undivided, Intact, AllRecorded
<1> QED BY <1>3, <1>4, <1>5, <1>6 DEF IInv

LEMMA NextIInv ==
  ASSUME DownloadAssumption, IInv, [Next]_vars
  PROVE  IInv'
<1>1. CASE Apply \/ Rescan \/ Poll \/ Continue BY <1>1, DialogStep
<1>2. CASE Start BY <1>2, StartStep
<1>3. CASE Cancel BY <1>3, CancelStep
<1>4. CASE Quit BY <1>4, QuitStep
<1>5. ASSUME NEW r \in Runs, Step(r) PROVE IInv'
  <2>1. Typed' BY <1>5, FilesStayTyped DEF IInv
  <2>2. (NotYet /\ Current /\ Sole)' /\ \A q \in Runs : RunOk(run'[q]) BY <1>5, StepKeepsThreads
  <2>3. Owned' BY <1>5, StepKeepsOwned
  <2>4. Undivided' BY <1>5, StepKeepsUndivided
  <2>5. Intact' BY <1>5, StepKeepsIntact
  <2>6. AllRecorded' BY <1>5, StepKeepsRecorded
  <2> QED BY <2>1, <2>2, <2>3, <2>4, <2>5, <2>6 DEF IInv
<1>6. CASE UNCHANGED vars
  <2>1. UNCHANGED <<run, started, dialog, missing, part, dest, content, tree, manifest, quits>>
    BY <1>6 DEF vars, files
  <2>2. Typed' /\ (\A r \in Runs : RunOk(run'[r])) /\ NotYet' /\ Current' /\ Sole'
    BY <2>1 DEF IInv, Typed, NotYet, Current, Sole, Alive
  <2>3. Owned' /\ Undivided' BY <2>1 DEF IInv, Owned, Undivided
  <2>4. Intact' /\ AllRecorded'
    BY <2>1 DEF IInv, Intact, Spoilt, AllRecorded, Lossy, At
  <2> QED BY <2>2, <2>3, <2>4 DEF IInv
<1> QED BY <1>1, <1>2, <1>3, <1>4, <1>5, <1>6 DEF Next

\* The inductive invariant holds in every state.
THEOREM DownloadInvariant == Spec => []IInv
<1>1. Init => IInv BY InitIInv, DownloadAssumption
<1>2. IInv /\ [Next]_vars => IInv' BY NextIInv, DownloadAssumption
<1> QED BY <1>1, <1>2, PTL DEF Spec

\* The state of threads, dialog and files has its type: a thread works on a mod
\* of its list, and has an outcome only when it has returned.
THEOREM DownloadTypes == Spec => []TypeOK
<1>1. IInv => TypeOK
  <2> SUFFICES ASSUME IInv PROVE TypeOK OBVIOUS
  <2>1. \A r \in Runs : run[r] \in RunRecord /\ RunOk(run[r]) BY DEF IInv, Typed
  <2>2. dialog.session \in 0 .. started
    BY DownloadAssumption DEF IInv, Typed, Current, DownloadAssumption
  <2> QED BY <2>1, <2>2 DEF IInv, Typed, TypeOK, RunRecord, RunOk, Pcs
<1> QED BY <1>1, DownloadInvariant, PTL

\* When the dialog says done, no abandoned thread was in its way and no write
\* was lost unnoticed, every mod of its list is whole on the disk and has its
\* mod.json (RunDownloadJobs, OptionsUIApp.cpp).
THEOREM DoneMeansInstalled == Spec => []DoneInstalled
<1>1. IInv => DoneInstalled
  <2> SUFFICES ASSUME IInv, dialog.phase = "done", Undisturbed(dialog.session),
                      ~run[dialog.session].lost, NEW m \in run[dialog.session].list
               PROVE  tree[m] = "whole" /\ m \in manifest
    BY DEF DoneInstalled
  <2> DEFINE s == dialog.session
  <2>1. s \in Runs /\ run[s].outcome = "done" BY DEF IInv, Typed, Current, Runs
  <2>2. run[s].pc = "over" BY <2>1 DEF IInv, RunOk
  <2>3. m \in Written(run[s]) /\ m \in Recorded(run[s]) /\ s # 0
    BY <2>1, <2>2 DEF Written, Recorded, Runs
  <2>4. tree[m] = "whole" \/ Spoilt(s, m) BY <2>3 DEF IInv, Intact
  <2>5. m \in manifest \/ Lossy(s) BY <2>3 DEF IInv, AllRecorded
  <2>6. ~Spoilt(s, m) /\ ~Lossy(s) BY DEF Spoilt, Lossy, Undisturbed, Alive, At
  <2> QED BY <2>4, <2>5, <2>6
<1> QED BY <1>1, DownloadInvariant, PTL

\* A run that shared the disk with no other fails only for a transfer or a write
\* that failed, never for what earlier runs left behind.
THEOREM FailuresHaveCause == Spec => []FailsForCause
<1>1. IInv => FailsForCause
  <2> SUFFICES ASSUME IInv, dialog.phase = "failed", run[dialog.session].alone
               PROVE  run[dialog.session].fault
    BY DEF FailsForCause
  <2>1. dialog.session = started /\ started # 0 /\ run[started].outcome = "failed"
    BY DEF IInv, Current
  <2>2. Progress(run[started], part, dest, content) BY <2>1 DEF IInv, Undivided
  <2> QED BY <2>1, <2>2 DEF Progress
<1> QED BY <1>1, DownloadInvariant, PTL

\* While the game was never cut short no .part outlives the threads.
THEOREM NoPartLeft == Spec => []NoLeftovers
<1>1. IInv => NoLeftovers BY DEF IInv, Owned, NoLeftovers, Alive, Holding
<1> QED BY <1>1, DownloadInvariant, PTL
=============================================================================
