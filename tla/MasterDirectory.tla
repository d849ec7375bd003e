--------------------------- MODULE MasterDirectory ---------------------------
(***************************************************************************)
(* One row of the master server's directory (MasterService, http.rs and    *)
(* repository.rs), the game server that publishes it                       *)
(* (MasterServerPublisher.cpp) and the prober that watches it (probe.rs).  *)
(*                                                                         *)
(* A handler is a task that awaits one SQL statement after the other, so   *)
(* that handlers interleave.  The publisher waits for the answer to its    *)
(* request, but no longer than Timeout; the handler of a request it gave   *)
(* up may go on or be dropped at any await.  The row's hash of a token is  *)
(* the token; what the row says of the game, and the samples and sessions  *)
(* kept beside it, are left out.                                           *)
(***************************************************************************)
EXTENDS Integers, FiniteSetsExt

CONSTANTS
    Handlers,     \* bound on the handlers that run at the same time
    Tokens,       \* tokens the service may issue
    Enforce,      \* --require-server-token
    Beat,         \* ServicePublishIntervalMs, in ticks
    Retry,        \* ServiceRetryIntervalMs
    Timeout,      \* CURLOPT_TIMEOUT
    Fresh,        \* HEARTBEAT_FRESH_MS
    Recovery,     \* SERVER_TOKEN_RECOVERY_MS
    Hide,         \* UNREACHABLE_HIDE_MS
    PruneAge,     \* --prune-max-age-secs
    Tolerated,    \* failed heartbeats in a row that must not matter
    Misses,       \* UNREACHABLE_AFTER_FAILURES
    Others,       \* servers in the directory beside this one
    MinServers,   \* PROBE_OUTAGE_MIN_SERVERS
    MaxFaults     \* bound on timeouts, restarts and failures of the network

None == 0

ASSUME DirectoryAssumption ==
    /\ IsFiniteSet(Handlers) /\ Handlers \subseteq Nat /\ Enforce \in BOOLEAN
    /\ Tokens \subseteq Nat \ {None} /\ Cardinality(Tokens) > Cardinality(Handlers) + 3
    /\ {Beat, Retry, Timeout, Fresh, Recovery, Hide, PruneAge} \subseteq Nat \ {0}
    /\ Fresh < PruneAge /\ Recovery + Retry + 2 * Timeout =< PruneAge
    /\ Beat + 2 * Timeout + Tolerated * (Retry + Timeout) =< Fresh
    /\ {Tolerated, Others, MaxFaults} \subseteq Nat
    /\ {Misses, MinServers} \subseteq Nat \ {0}

VARIABLES
    row,       \* the row of servers, or NoRow
    task,      \* the handlers, by name
    pub,       \* the publisher
    probe,     \* the prober
    faults     \* how many faults there were

vars == <<row, task, pub, probe, faults>>

\* A state of the row that is not in the table.
NoRow == [token |-> None, seen |-> -1, unreachable |-> FALSE, observed |-> -1,
          failures |-> 0, late |-> FALSE]

\* "late" is history: the row was taken by an unregister its caller gave up.
Exists == row.seen # -1

NoTask == [pc |-> "none", sent |-> None, ok |-> FALSE, seen |-> -1,
           issue |-> None, answer |-> "none", awaited |-> FALSE]

Init ==
    /\ row = NoRow
    /\ task = [h \in Handlers |-> NoTask]
    /\ pub = [up |-> FALSE, waits |-> FALSE, held |-> None, file |-> None,
              due |-> 0, waited |-> 0, published |-> FALSE, lost |-> 0, refused |-> FALSE]
    /\ probe = [pc |-> "idle", reached |-> FALSE, dark |-> FALSE]
    /\ faults = 0

Fault == faults < MaxFaults /\ faults' = faults + 1

Capped(n, cap) == Min({n, cap})

-----------------------------------------------------------------------------
(***************************************************************************)
(* The handlers of the service.                                            *)
(***************************************************************************)
Goes(h, pc) == task' = [task EXCEPT ![h].pc = pc]

Answers(h, answer) ==
    task' = [task EXCEPT ![h] = IF @.awaited
                                THEN [@ EXCEPT !.pc = "answered", !.answer = answer]
                                ELSE NoTask]

ServiceKeeps == UNCHANGED <<pub, probe, faults>>

\* register_server: read the row...
ReadRow(h) ==
    /\ task[h].pc = "get"
    /\ task' = [task EXCEPT ![h].pc = "hash", ![h].seen = row.seen]
    /\ UNCHANGED row /\ ServiceKeeps

\* Mutant: silence never opens the row to its owner again.
ProtectsForever(seen) == row.token # None /\ seen # -1

\* A row whose owner was heard of lately is not given away.
Protects(seen) == row.token # None /\ seen # -1 /\ seen < Recovery

\* ... its hash, and refuse the wrong token; ...
ReadHash(h) ==
    /\ task[h].pc = "hash"
    /\ LET ok == task[h].sent # None /\ task[h].sent = row.token
       IN  IF Enforce /\ ~ok /\ Protects(task[h].seen)
           THEN Answers(h, "unauthorized")
           ELSE task' = [task EXCEPT ![h] = [@ EXCEPT
                    !.pc = "upsert", !.ok = ok, !.seen = -1, !.sent = None]]
    /\ UNCHANGED row /\ ServiceKeeps

\* Mutant: a heartbeat does not refresh the row.
SeenAtFirst == IF Exists THEN row.seen ELSE 0

\* last_seen_unix_ms, as an age
SeenNow == 0

\* ... insert the row or refresh it, which keeps its token and its verdict; ...
Upsert(h) ==
    /\ task[h].pc = "upsert"
    /\ row' = IF Exists THEN [row EXCEPT !.seen = SeenNow]
              ELSE [NoRow EXCEPT !.seen = SeenNow]
    /\ Goes(h, "reread")
    /\ ServiceKeeps

Used == {row.token, pub.held, pub.file} \cup {task[h].issue : h \in Handlers}

\* ... read it again, and issue a token if the caller has shown none that fits.
Reread(h) ==
    /\ task[h].pc = "reread"
    /\ CASE ~Exists -> Answers(h, "missing")
         [] Exists /\ task[h].ok -> Answers(h, "ok")
         [] OTHER -> task' = [task EXCEPT ![h].pc = "issue",
                                          ![h].issue = Min(Tokens \ Used)]
    /\ UNCHANGED row /\ ServiceKeeps

\* The row once a token was issued for it.
WithToken(token) == IF Exists THEN [row EXCEPT !.token = token] ELSE row

SetTokenHash(h) ==
    /\ task[h].pc = "issue"
    /\ row' = WithToken(task[h].issue)
    /\ Answers(h, "ok")
    /\ ServiceKeeps

\* unregister_server: with the token, delete the row.
CheckUnregister(h) ==
    /\ task[h].pc = "unregister"
    /\ IF Enforce /\ row.token # None /\ task[h].sent # row.token
       THEN Answers(h, "unauthorized")
       ELSE Goes(h, "delete")
    /\ UNCHANGED row /\ ServiceKeeps

Delete(h) ==
    /\ task[h].pc = "delete"
    /\ row' = [NoRow EXCEPT !.late = ~task[h].awaited]
    /\ Answers(h, "ok")
    /\ ServiceKeeps

Handle(h) ==
    \/ ReadRow(h) \/ ReadHash(h) \/ Upsert(h) \/ Reread(h)
    \/ SetTokenHash(h) \/ CheckUnregister(h) \/ Delete(h)

\* A handler whose caller is gone is dropped.
Drop(h) ==
    /\ task[h].pc # "none" /\ ~task[h].awaited
    /\ task' = [task EXCEPT ![h] = NoTask]
    /\ UNCHANGED row /\ ServiceKeeps

-----------------------------------------------------------------------------
(***************************************************************************)
(* The publisher, which blocks while it waits for the answer.              *)
(***************************************************************************)
\* Mutant: the token of the file is not sent.
SentNever(t) == None

\* The bearer token of a request.
Sent(t) == t

Send(pc, token) ==
    LET free == {h \in Handlers : task[h].pc = "none"}
    IN  /\ free # {}
        /\ task' = [task EXCEPT ![Min(free)] = [NoTask EXCEPT
               !.pc = pc, !.sent = Sent(token), !.awaited = TRUE]]

PublisherKeeps == UNCHANGED <<row, probe>>

\* StartMasterServerPublisher reads the token's file and registers.
Start ==
    /\ ~pub.up /\ ~pub.waits
    /\ Send("get", pub.file)
    /\ pub' = [pub EXCEPT !.up = TRUE, !.waits = TRUE, !.held = pub.file,
                          !.published = FALSE, !.waited = 0, !.lost = 0,
                          !.refused = FALSE]
    /\ UNCHANGED faults /\ PublisherKeeps

\* TickMasterServerPublisher; NotifyMasterServerStateChanged does not wait
\* until the next publish is due.
Publish ==
    /\ pub.up /\ ~pub.waits
    /\ Send("get", pub.held)
    /\ pub' = [pub EXCEPT !.waits = TRUE, !.waited = 0]
    /\ UNCHANGED faults /\ PublisherKeeps

\* A publisher that is down: what is left is the file.
Down == [pub EXCEPT !.up = FALSE, !.waits = FALSE, !.waited = 0, !.held = None,
                    !.due = 0, !.published = FALSE, !.lost = 0, !.refused = FALSE]

\* StopMasterServerPublisher
Stop ==
    /\ pub.up /\ ~pub.waits
    /\ IF pub.published
       THEN Send("unregister", pub.held) /\ pub' = [Down EXCEPT !.waits = TRUE]
       ELSE UNCHANGED task /\ pub' = Down
    /\ UNCHANGED faults /\ PublisherKeeps

\* What the publisher keeps of an answer, which is "none" if it got none; the
\* token also goes to its file, if that can be written.  "lost" and "refused"
\* are history: the failures in a row, and whether the last one was an answer.
Told(t, answer, stored) ==
    IF ~pub.up THEN Down
    ELSE IF answer # "ok"
         THEN [pub EXCEPT !.waits = FALSE, !.waited = 0, !.due = Retry,
                          !.lost = Capped(@ + 1, Tolerated + 1),
                          !.refused = answer # "none"]
         ELSE [pub EXCEPT !.waits = FALSE, !.waited = 0, !.due = Beat, !.published = TRUE,
                          !.lost = 0, !.refused = FALSE,
                          !.held = IF t.issue # None THEN t.issue ELSE @,
                          !.file = IF t.issue # None /\ stored THEN t.issue ELSE @]

Receive(h, stored) ==
    /\ task[h].pc = "answered"
    /\ pub' = Told(task[h], task[h].answer, stored)
    /\ task' = [task EXCEPT ![h] = NoTask]
    /\ UNCHANGED faults /\ PublisherKeeps

\* The request times out, or its answer is lost.
GiveUp(h) ==
    /\ task[h].awaited /\ Fault
    /\ pub' = Told(task[h], "none", FALSE)
    /\ task' = [task EXCEPT ![h] = IF @.pc = "answered" THEN NoTask
                                   ELSE [@ EXCEPT !.awaited = FALSE]]
    /\ PublisherKeeps

\* The game server dies and forgets all but the file.
Crash ==
    /\ pub.up /\ Fault
    /\ pub' = Down
    /\ task' = [h \in Handlers |-> IF task[h].pc = "answered" THEN NoTask
                                   ELSE [task[h] EXCEPT !.awaited = FALSE]]
    /\ PublisherKeeps

-----------------------------------------------------------------------------
(***************************************************************************)
(* The prober.                                                             *)
(***************************************************************************)
\* Mutant: one server more is needed.
IsProbeOutageMore(reachable, total) == reachable = 0 /\ total > MinServers

IsProbeOutage(reachable, total) == reachable = 0 /\ total >= MinServers

\* probe_round: read the list, probe all, and report unless nothing answered.
\* An outage of the prober's own network hides every server, a lost packet
\* only this one.
ProbeRound(dark, missed) ==
    /\ probe.pc = "idle"
    /\ IF dark \/ missed THEN Fault ELSE UNCHANGED faults
    /\ \E others \in IF dark THEN {0} ELSE 0 .. Others :
           LET reached == pub.up /\ ~dark /\ ~missed
               n == others + (IF reached THEN 1 ELSE 0)
               report == Exists /\ ~IsProbeOutage(n, Others + 1)
           IN  probe' = IF report
                        THEN [pc |-> "report", reached |-> reached, dark |-> dark]
                        ELSE [pc |-> "prune", reached |-> FALSE, dark |-> FALSE]
    /\ UNCHANGED <<row, task, pub>>

\* Mutant: a reachable server keeps the failures it had.
FailuresKept(reached) == Capped(row.failures + (IF reached THEN 0 ELSE 1), Misses)

\* consecutive_failures
FailuresAfter(reached) == IF reached THEN 0 ELSE Capped(row.failures + 1, Misses)

\* observe_server; without a row it does nothing.  The verdict changes with
\* the count of misses; the time of it matters for an unreachable row only.
Observe ==
    /\ probe.pc = "report"
    /\ LET n == FailuresAfter(probe.reached)
       IN  row' = IF ~Exists THEN row
                  ELSE [row EXCEPT
                      !.failures = n, !.unreachable = n >= Misses,
                      !.observed = IF n >= Misses THEN 0 ELSE -1]
    /\ probe' = [pc |-> "prune", reached |-> FALSE, dark |-> FALSE]
    /\ UNCHANGED <<task, pub, faults>>

\* Mutant: only rows the prober has not given up are pruned.
StaleReachable == row.seen >= PruneAge /\ ~row.unreachable

Stale == row.seen >= PruneAge

\* prune_servers
Prune ==
    /\ probe.pc = "prune"
    /\ row' = IF Stale THEN NoRow ELSE row
    /\ probe' = [pc |-> "sleep", reached |-> FALSE, dark |-> FALSE]
    /\ UNCHANGED <<task, pub, faults>>

-----------------------------------------------------------------------------
Older(age, cap) == IF age = -1 THEN -1 ELSE Capped(age + 1, cap)

\* Time passes, but not beyond the moment a publish is due or a request times
\* out: a frame and a timeout are short beside a tick.
Tick ==
    /\ pub.up /\ ~pub.waits => pub.due > 0
    /\ pub.waits => pub.waited < Timeout
    /\ row' = [row EXCEPT !.seen = Older(@, PruneAge), !.observed = Older(@, Hide)]
    /\ task' = [h \in Handlers |->
                   [task[h] EXCEPT !.seen = Older(@, Recovery)]]
    /\ pub' = [pub EXCEPT !.due = Max({0, @ - 1}),
                          !.waited = IF pub.waits THEN @ + 1 ELSE 0]
    /\ probe' = [probe EXCEPT !.pc = IF @ = "sleep" THEN "idle" ELSE @]
    /\ UNCHANGED faults

Probing == ProbeRound(FALSE, FALSE) \/ Observe \/ Prune

Next ==
    \/ \E h \in Handlers : Handle(h) \/ Drop(h) \/ GiveUp(h)
    \/ \E h \in Handlers, stored \in BOOLEAN : Receive(h, stored)
    \/ Start \/ Publish \/ Stop \/ Crash
    \/ Probing \/ ProbeRound(TRUE, FALSE) \/ ProbeRound(FALSE, TRUE)
    \/ Tick

\* The service, the prober's loop and time go on, and the publisher publishes
\* when it is due.
Fairness ==
    /\ \A h \in Handlers : WF_vars(Handle(h)) /\ WF_vars(Receive(h, TRUE))
    /\ WF_vars(Publish /\ pub.due = 0)
    /\ WF_vars(Probing) /\ WF_vars(Tick)

Spec == Init /\ [][Next]_vars /\ Fairness

-----------------------------------------------------------------------------
(***************************************************************************)
(* Properties.                                                             *)
(***************************************************************************)
Age(cap) == -1 .. cap
Token == Tokens \cup {None}

TypeOK ==
    /\ row \in [token : Token, seen : Age(PruneAge), observed : Age(Hide),
                unreachable : BOOLEAN,
                failures : 0 .. Misses, late : BOOLEAN]
    /\ ~Exists => row \in {NoRow, [NoRow EXCEPT !.late = TRUE]}
    /\ faults \in 0 .. MaxFaults
    /\ task \in [Handlers -> [sent : Token, ok : BOOLEAN, issue : Token,
           pc : {"none", "get", "hash", "upsert", "reread", "issue",
                 "unregister", "delete", "answered"},
           seen : Age(Max({Recovery, PruneAge})), awaited : BOOLEAN,
           answer : {"none", "ok", "missing", "unauthorized"}]]
    /\ pub \in [up : BOOLEAN, waits : BOOLEAN, held : Token, file : Token,
                due : 0 .. Max({Beat, Retry}), waited : 0 .. Timeout,
                published : BOOLEAN, lost : 0 .. Tolerated + 1, refused : BOOLEAN]
    /\ probe \in [pc : {"idle", "report", "prune", "sleep"},
                  reached : BOOLEAN, dark : BOOLEAN]

\* SqliteServerDirectory::list, for a query without a filter
Listed ==
    /\ Exists /\ row.seen =< Fresh
    /\ row.unreachable => row.observed >= Hide

\* Heartbeats keep a server listed: once it was accepted, a server loses its
\* row or its freshness only after more failures in a row than are tolerated,
\* or to an unregister of its own that came late.
StaysListed ==
    pub.up /\ pub.published /\ pub.lost =< Tolerated
        => row.late \/ (Exists /\ row.seen =< Fresh)

\* A row is hidden as unreachable only after misses in a row, and a miss is
\* not counted in a round in which the prober itself was cut off.
OutageHarmless ==
    [][row'.failures > row.failures => ~probe.dark \/ Others + 1 < MinServers]_vars

\* Unless something fails no publish is refused, also after restarts: the
\* token a server shows is the one it was given last.
NeverRefused == faults = 0 => pub.lost = 0

\* A server that lost its token, or the answer with it, is taken back as soon
\* as its row is stale, and not only once the row was pruned: a publish that
\* was refused met a row younger than Recovery, and the next one is made, and
\* answered or given up, soon after.
LockoutEnds ==
    pub.up /\ pub.refused => row.seen < Recovery + Retry + 2 * Timeout

\* A server that stays reachable comes back to the list.
EventuallyListed == <>[]pub.up => []<>Listed

\* A server that is gone leaves the directory.
EventuallyGone == []<>(pub.up \/ ~Exists)

=============================================================================
