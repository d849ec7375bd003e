---------------------------- MODULE ModDownload -----------------------------
(***************************************************************************)
(* Mods are downloaded and installed by a background thread while a dialog *)
(* shows its progress: DownloadWorker.cpp, the dialog in OptionsUIApp.cpp, *)
(* the transport in MasterServerServiceClient.cpp, ModArchive.cpp and      *)
(* ModInstall.cpp.  A cancelled thread is abandoned, not joined: it shares *)
(* the files with the one started next.  Files behave as under POSIX: a    *)
(* name removed or renamed does not disturb those who have the file open.  *)
(***************************************************************************)
EXTENDS Integers, FiniteSets

CONSTANTS
  ModCount,    \* mods in the list
  ChunkCount,  \* parts in which a file is received
  DiskFills,   \* may a buffered write be lost, unnoticed, when its file is closed?
  MaxFaults,   \* bound: writes, renames and transfers that fail by themselves
  MaxRuns,     \* bound: threads started
  MaxQuits     \* bound: times the game ends and is started again

ASSUME DownloadAssumption ==
  /\ ModCount \in Nat
  /\ ChunkCount \in Nat
  /\ DiskFills \in BOOLEAN
  /\ MaxFaults \in Nat
  /\ MaxRuns \in Nat
  /\ MaxQuits \in Nat

VARIABLES
  run,       \* the threads with their sessions
  started,   \* how many of them have been started
  dialog,    \* phase and current session of the dialog
  missing,   \* the rows of the list shown as missing
  part,      \* for each mod the file named <mod>.pbo.zst.part, 0 if there is none
  dest,      \* likewise <mod>.pbo.zst
  content,   \* for each mod and file what it holds; a file is named by its creator
  tree,      \* the files of the install directory
  manifest,  \* the mods with a mod.json
  quits

files == <<part, dest, content, tree, manifest>>
vars == <<run, started, dialog, missing, files, quits>>

Mods == 1 .. ModCount
Chunks == 1 .. ChunkCount
Runs == 1 .. MaxRuns

Unstarted == [pc |-> "none", mod |-> 0, todo |-> {}, list |-> {}, cancel |-> FALSE,
              outcome |-> "none", ok |-> FALSE, file |-> 0, received |-> 0,
              fault |-> FALSE, lost |-> FALSE, alone |-> FALSE]

\* What is left of a run whose thread has returned.
Ended(r, outcome) ==
  [Unstarted EXCEPT !.pc = "over", !.list = r.list, !.cancel = r.cancel, !.fault = r.fault,
                    !.lost = r.lost, !.alone = r.alone, !.outcome = outcome]

Alive(r) == run[r].pc \notin {"none", "over"}

Working == {"open", "transfer", "discard", "clear", "rename", "returned", "unpack",
            "install", "manifest"}

TypeOK ==
  /\ \A r \in Runs :
       /\ run[r].pc \in Working \cup {"none", "next", "over"}
       /\ run[r].pc \in Working => run[r].mod \in run[r].todo
       /\ run[r].todo \subseteq run[r].list
       /\ run[r].list \subseteq Mods
       /\ run[r].lost \in BOOLEAN
       /\ run[r].outcome \in {"none", "done", "failed"}
       /\ run[r].outcome # "none" => run[r].pc = "over"
  /\ started \in 0 .. MaxRuns
  /\ dialog.phase \in {"none", "prompt", "running", "done", "failed"}
  /\ dialog.session \in 0 .. started
  /\ missing \subseteq Mods
  /\ part \in [Mods -> 0 .. MaxRuns]
  /\ dest \in [Mods -> 0 .. MaxRuns]
  /\ content \in [Mods -> [Runs -> SUBSET Chunks]]
  /\ tree \in [Mods -> {"none", "broken", "whole"}]
  /\ manifest \subseteq Mods
  /\ quits \in 0 .. MaxQuits

Init ==
  /\ run = [r \in Runs |-> Unstarted]
  /\ started = 0
  /\ dialog = [phase |-> "none", session |-> 0]
  /\ missing = Mods
  /\ part = [m \in Mods |-> 0]
  /\ dest = [m \in Mods |-> 0]
  /\ content = [m \in Mods |-> [r \in Runs |-> {}]]
  /\ tree = [m \in Mods |-> "none"]
  /\ manifest = {}
  /\ quits = 0

-----------------------------------------------------------------------------
(* The dialog, on the main thread. *)

\* Apply: a ticked mod is missing, the user is asked.
Apply ==
  /\ dialog.phase = "none"
  /\ missing # {}
  /\ dialog' = [phase |-> "prompt", session |-> 0]
  /\ UNCHANGED <<run, started, missing, files, quits>>

\* What a scan of the disk may find installed.  A directory without a mod.json
\* counts too, if it is named after the mod and holds one of the directories or
\* the empty mod.json that make it look like one.
Scans == {manifest \cup seen : seen \in SUBSET {m \in Mods : tree[m] # "none"}}

\* The list of mods is opened again, and scans the disk.
Rescan ==
  /\ dialog.phase = "none"
  /\ \E found \in Scans : missing' = Mods \ found
  /\ UNCHANGED <<run, started, dialog, files, quits>>

\* A session of its own for every run; the session of the last one is cancelled.
StartedOver(s) ==
  [r \in Runs |->
     CASE r = started + 1 -> [Unstarted EXCEPT !.pc = "next", !.todo = missing, !.list = missing,
                                               !.alone = \A q \in Runs : ~Alive(q)]
       [] r = s -> [run[r] EXCEPT !.cancel = TRUE]
       [] OTHER -> run[r]]

\* Download, or Retry after a failure.
Start ==
  /\ dialog.phase \in {"prompt", "failed"}
  /\ started < MaxRuns
  /\ run' = StartedOver(dialog.session)
  /\ started' = started + 1
  /\ dialog' = [phase |-> "running", session |-> started + 1]
  /\ UNCHANGED <<missing, files, quits>>

\* Every frame the dialog looks at the session.
Poll ==
  /\ dialog.phase = "running"
  /\ run[dialog.session].outcome # "none"
  /\ dialog' = [dialog EXCEPT !.phase = run[dialog.session].outcome]
  /\ UNCHANGED <<run, started, missing, files, quits>>

\* Cancel closes the dialog; the thread is told, and left to itself.
Cancel ==
  /\ dialog.phase # "none"
  /\ run' = [r \in Runs |-> IF r = dialog.session THEN [run[r] EXCEPT !.cancel = TRUE]
                                                  ELSE run[r]]
  /\ dialog' = [phase |-> "none", session |-> 0]
  /\ UNCHANGED <<started, missing, files, quits>>

\* Continue: the mods found on the disk are no longer missing.
Continue ==
  /\ dialog.phase = "done"
  /\ dialog' = [phase |-> "none", session |-> 0]
  /\ \E found \in Scans : missing' = missing \ found
  /\ UNCHANGED <<run, started, files, quits>>

\* The game ends, whatever its threads were doing, and is started again.
Quit ==
  /\ quits < MaxQuits
  /\ quits' = quits + 1
  /\ run' = [r \in Runs |-> IF Alive(r) THEN Ended(run[r], "none") ELSE run[r]]
  /\ dialog' = [phase |-> "none", session |-> 0]
  /\ \E found \in Scans : missing' = Mods \ found
  /\ UNCHANGED <<started, files>>

-----------------------------------------------------------------------------
(* The thread of a session: RunDownloadJobs. *)

At(r, pc) == run[r].pc = pc

\* The bound on what may fail by itself, or be lost unnoticed.
MayFail ==
  Cardinality({r \in Runs : run[r].fault}) + Cardinality({r \in Runs : run[r].lost}) < MaxFaults

MayLose == DiskFills /\ MayFail

Finish(r) == run' = [run EXCEPT ![r] = Ended(@, "done")]

\* Mutant: the mods that follow one that failed are downloaded all the same.
FailSkips(r) == run' = [run EXCEPT ![r].todo = @ \ {run[r].mod}, ![r].pc = "next"]

\* Mutant: the thread ends without telling the dialog.
FailSilent(r) == run' = [run EXCEPT ![r] = Ended(@, "none")]

Fail(r) == run' = [run EXCEPT ![r] = Ended(@, "failed")]

Leave(r) == run' = [run EXCEPT ![r] = Ended(@, "none")]

\* The head of the loop.  Cancelling is looked at only while tasks are left.
NextTask(r) ==
  \/ run[r].todo = {} /\ Finish(r)
  \/ /\ run[r].todo # {}
     /\ run[r].cancel
     /\ Leave(r)
  \/ /\ ~run[r].cancel
     /\ \E m \in run[r].todo :
          /\ \A n \in run[r].todo : m <= n
          /\ run' = [run EXCEPT ![r].pc = "open", ![r].mod = m]

Head(r) ==
  /\ At(r, "next")
  /\ NextTask(r)
  /\ UNCHANGED files

\* fopen(part, "wb"): a file that is there is emptied.
OpenPart(r, m) ==
  LET f == IF part[m] = 0 THEN r ELSE part[m]
  IN /\ part' = [part EXCEPT ![m] = f]
     /\ content' = [content EXCEPT ![m][f] = {}]
     /\ run' = [run EXCEPT ![r].pc = "transfer", ![r].file = f, ![r].received = 0]

Open(r) ==
  /\ At(r, "open")
  /\ \/ OpenPart(r, run[r].mod)
     \/ /\ MayFail
        /\ run' = [run EXCEPT ![r].pc = "returned", ![r].ok = FALSE, ![r].fault = TRUE]
        /\ UNCHANGED <<part, content>>
  /\ UNCHANGED <<dest, tree, manifest>>

\* A chunk is written at the position the thread has reached; the last one may
\* be lost when the file is closed.
Receive(r) ==
  /\ At(r, "transfer")
  /\ run[r].received + 1 \in Chunks
  /\ \/ /\ run' = [run EXCEPT ![r].received = @ + 1]
        /\ content' =
             [content EXCEPT ![run[r].mod][run[r].file] = @ \cup {run[r].received + 1}]
     \/ /\ MayLose
        /\ run[r].received + 1 = ChunkCount
        /\ run' = [run EXCEPT ![r].received = @ + 1, ![r].fault = TRUE]
        /\ UNCHANGED content
  /\ UNCHANGED <<part, dest, tree, manifest>>

\* Mutant: what was received of a file is taken for the whole.
EndShort(r) == run' = [run EXCEPT ![r].pc = "clear"]

\* Mutant: the progress call-back does not look at cancel.
NotTold(r) == FALSE

\* The progress call-back, which curl calls whether or not anything arrives.
Told(r) == run[r].cancel

\* The transfer ends well only when all was received.  It fails by itself, or
\* at the progress call-back that finds the session cancelled.
End(r) ==
  \/ /\ run[r].received + 1 \notin Chunks
     /\ run' = [run EXCEPT ![r].pc = "clear"]
  \/ /\ MayFail
     /\ run' = [run EXCEPT ![r].pc = "discard", ![r].fault = TRUE]
  \/ /\ Told(r)
     /\ run' = [run EXCEPT ![r].pc = "discard"]

EndTransfer(r) ==
  /\ At(r, "transfer")
  /\ End(r)
  /\ UNCHANGED files

\* Mutant: the .part of a failed transfer stays.
Kept(m) == part

\* remove(part): by name, whoever has the file open.
Removed(m) == [part EXCEPT ![m] = 0]

Discard(r) ==
  /\ At(r, "discard")
  /\ part' = Removed(run[r].mod)
  /\ run' = [run EXCEPT ![r].pc = "returned", ![r].ok = FALSE]
  /\ UNCHANGED <<dest, content, tree, manifest>>

\* remove(dest), then rename(part, dest).
Clear(r) ==
  /\ At(r, "clear")
  /\ dest' = [dest EXCEPT ![run[r].mod] = 0]
  /\ run' = [run EXCEPT ![r].pc = "rename"]
  /\ UNCHANGED <<part, content, tree, manifest>>

\* A rename that fails, by itself or as another thread took the file, is
\* followed by remove(part).
Rename(r) ==
  LET m == run[r].mod
  IN /\ At(r, "rename")
     /\ \/ /\ part[m] # 0
           /\ dest' = [dest EXCEPT ![m] = part[m]]
           /\ part' = [part EXCEPT ![m] = 0]
           /\ run' = [run EXCEPT ![r].pc = "returned", ![r].ok = TRUE]
        \/ /\ part[m] = 0
           /\ run' = [run EXCEPT ![r].pc = "discard"]
           /\ UNCHANGED <<part, dest>>
        \/ /\ MayFail
           /\ run' = [run EXCEPT ![r].pc = "discard", ![r].fault = TRUE]
           /\ UNCHANGED <<part, dest>>
     /\ UNCHANGED <<content, tree, manifest>>

\* A cancelled run neither fails nor goes on.
Returned(r) ==
  /\ At(r, "returned")
  /\ IF run[r].cancel THEN Leave(r)
     ELSE IF ~run[r].ok THEN Fail(r)
     ELSE run' = [run EXCEPT ![r].pc = "unpack"]
  /\ UNCHANGED files

\* The archive is decoded into a private file; if it is whole its entries are
\* written over the ones in the directory.
Unpack(r) ==
  LET m == run[r].mod
  IN /\ At(r, "unpack")
     /\ IF dest[m] # 0 /\ content[m][dest[m]] = Chunks
          THEN /\ tree' = [tree EXCEPT ![m] = "broken"]
               /\ run' = [run EXCEPT ![r].pc = "install"]
          ELSE /\ Fail(r)
               /\ UNCHANGED tree
     /\ UNCHANGED <<part, dest, content, manifest>>

\* The last entry is written; an entry another thread has just emptied is not
\* whole, nor is one whose buffered tail was lost when it was closed.
Install(r) ==
  LET m == run[r].mod
      others == {q \in Runs \ {r} : At(q, "install") /\ run[q].mod = m}
  IN /\ At(r, "install")
     /\ \/ /\ tree' = [tree EXCEPT ![m] = IF others = {} THEN "whole" ELSE "broken"]
           /\ run' = [run EXCEPT ![r].pc = "manifest"]
        \/ /\ MayLose
           /\ tree' = [tree EXCEPT ![m] = "broken"]
           /\ run' = [run EXCEPT ![r].pc = "manifest", ![r].lost = TRUE]
     /\ UNCHANGED <<part, dest, content, manifest>>

\* The private file, an entry or mod.json cannot be opened, or a write of the
\* first two fails at once.
InstallFails(r) ==
  /\ At(r, "unpack") \/ At(r, "install") \/ At(r, "manifest")
  /\ MayFail
  /\ run' = [run EXCEPT ![r] = Ended([@ EXCEPT !.fault = TRUE], "failed")]
  /\ UNCHANGED files

\* CompleteItem: on to the next task.
Completed(r, lost) ==
  run' = [run EXCEPT ![r].todo = @ \ {run[r].mod}, ![r].pc = "next", ![r].lost = lost]

\* mod.json is written; or it is emptied and its text is lost, which the code
\* does not look at.
Manifest(r) ==
  LET m == run[r].mod
  IN /\ At(r, "manifest")
     /\ \/ /\ manifest' = manifest \cup {m}
           /\ Completed(r, run[r].lost)
        \/ /\ MayLose
           /\ manifest' = manifest \ {m}
           /\ Completed(r, TRUE)
     /\ UNCHANGED <<part, dest, content, tree>>

Step(r) ==
  /\ \/ Head(r) \/ Open(r) \/ Receive(r) \/ EndTransfer(r) \/ Discard(r) \/ Clear(r)
     \/ Rename(r) \/ Returned(r) \/ Unpack(r) \/ Install(r) \/ InstallFails(r) \/ Manifest(r)
  /\ UNCHANGED <<started, dialog, missing, quits>>

Next ==
  \/ Apply \/ Rescan \/ Start \/ Poll \/ Cancel \/ Continue \/ Quit
  \/ \E r \in Runs : Step(r)

\* Threads run and the dialog polls in every frame.  A transfer has no time-out:
\* it need not go on, nor end, until its session is cancelled.
Fairness ==
  /\ \A r \in Runs : WF_vars(Step(r) /\ (At(r, "transfer") => Told(r)))
  /\ WF_vars(Poll)

Spec == Init /\ [][Next]_vars
FairSpec == Spec /\ Fairness

-----------------------------------------------------------------------------
(* Properties. *)

\* No other thread can have spoilt the mods of the session: either none was left
\* when it started, or those that were have ended, and wrote what they meant to.
Undisturbed(s) ==
  run[s].alone \/ \A q \in Runs \ {s} : ~Alive(q) /\ ~run[q].fault /\ ~run[q].lost

\* When the dialog says that all is done, every mod of its list is whole on
\* the disk and has its mod.json, whatever failed, was cancelled or was cut
\* short by the end of the game before, as long as no abandoned thread is in
\* its way and no write was lost that the code does not look at
\* (OptionsUIApp.cpp:1786-1792).
DoneInstalled ==
  LET s == dialog.session
  IN dialog.phase = "done" /\ Undisturbed(s) /\ ~run[s].lost
       => \A m \in run[s].list : tree[m] = "whole" /\ m \in manifest

\* A failure the dialog shows has a reason of its own, a transfer or a write
\* that failed, when the run shared the disk with no other: what earlier runs
\* left behind, a .part, an archive or half a directory, does not stop it
\* (DownloadWorker.cpp:56-71, MasterServerServiceClient.cpp:1058-1087).
FailsForCause ==
  dialog.phase = "failed" /\ run[dialog.session].alone => run[dialog.session].fault

\* While the game was never cut short no .part outlives the threads: each name
\* is renamed or removed by one of those who opened it.
NoLeftovers ==
  quits = 0 /\ (\A r \in Runs : ~Alive(r)) => \A m \in Mods : part[m] = 0

\* A dialog that runs for ever waits for a transfer curl neither continues nor
\* ends (no total time-out, MasterServerServiceClient.cpp:279-281): every other
\* session is answered, done or failed, or closed by the user.
EventuallyAnswered ==
  <>[](dialog.phase = "running")
    => <>[](dialog.phase = "running" /\ At(dialog.session, "transfer"))

\* A thread that was told to stop ends, abandoned or not, even if nothing arrives
\* any more (DownloadWorker.cpp:90-100, MasterServerServiceClient.cpp:307-310).
CancelledEnds == \A r \in Runs : Alive(r) /\ run[r].cancel ~> ~Alive(r)

\* "The download dialog confirmed every ticked mod is now installed"
\* (OptionsUIApp.cpp:1601): when it says done, they are.
DoneIsInstalled ==
  dialog.phase = "done" => \A m \in run[dialog.session].list : tree[m] = "whole"

=============================================================================
