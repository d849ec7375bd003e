------------------------ MODULE MasterDirectoryProofs ------------------------
(***************************************************************************)
(* What holds of the directory for any intervals, timeouts and number of   *)
(* handlers, tokens, servers and faults.                                   *)
(***************************************************************************)
EXTENDS MasterDirectory, WellFoundedInduction, FiniteSetTheorems, Functions, TLAPS

-----------------------------------------------------------------------------
(* The inductive invariant. *)

Registering == {"get", "hash", "upsert", "reread", "issue"}
Unregistering == {"unregister", "delete"}

\* One request at a time is awaited, and the publisher waits for it; a handler
\* that has answered is.
Single ==
    /\ \A h \in Handlers : task[h].pc = "none" => ~task[h].awaited
    /\ \A h \in Handlers : task[h].pc = "answered" => task[h].awaited
    /\ \A g, h \in Handlers : task[g].awaited /\ task[h].awaited => g = h
    /\ \A h \in Handlers : task[h].awaited =>
           /\ pub.waits
           /\ task[h].pc \in Registering => pub.up
           /\ task[h].pc \in Unregistering => ~pub.up

\* A row that an unregister took late is not there.
Late == row.late => ~Exists

\* How long it is until the next request, or, negative, since the last one.
Ahead == IF pub.waits THEN 0 - pub.waited ELSE pub.due

Slack(k) == k * (Retry + Timeout)

Due ==
    /\ pub.due =< IF pub.lost = 0 THEN Beat ELSE Retry
    /\ ~pub.up => pub.lost = 0

\* A request that was accepted has refreshed the row.
Refreshed ==
    pub.up =>
    \A h \in Handlers :
        /\ task[h].awaited
        /\ task[h].pc \in {"reread", "issue"} \/ (task[h].pc = "answered" /\ task[h].answer = "ok")
        => row.late \/ (Exists /\ row.seen =< pub.waited)

\* The age of the row of a server that has lost no more heartbeats than are
\* tolerated.
Kept ==
    pub.up /\ pub.published /\ pub.lost =< Tolerated =>
        row.late \/ (Exists /\ row.seen + Ahead =< Beat + Timeout + Slack(pub.lost))

\* A handler that protects the row has not read it as younger than it is.
ReadRight ==
    \A h \in Handlers :
        task[h].pc = "hash" /\ task[h].seen # -1 /\ task[h].seen < Recovery
            => row.seen =< task[h].seen

\* A refusal met a young row.
RefusedYoung ==
    pub.up =>
    \A h \in Handlers :
        task[h].pc = "answered" /\ task[h].answer # "ok" => row.seen < Recovery + pub.waited

\* The age of the row of a server that was refused.
Locked ==
    pub.up /\ pub.refused =>
        pub.lost > 0 /\ row.seen + Ahead < Recovery + Timeout + Retry

\* A run without faults: the handlers run one after the other, ...
Serial ==
    /\ \A h \in Handlers : task[h].pc = "none" \/ task[h].awaited
    /\ ~row.late /\ pub.lost = 0

Owns == Exists /\ row.token # None /\ row.token = pub.held

\* ... a publisher that is idle owns the row it has published, ...
Idle ==
    ~pub.waits => IF pub.up THEN pub.published /\ Owns ELSE ~Exists

\* ... shows its token when it publishes again, ...
Again(t) ==
    /\ Owns
    /\ t.pc \in {"get", "hash"} => t.sent = pub.held
    /\ t.pc \in {"upsert", "reread"} => t.ok
    /\ t.pc # "issue" /\ t.issue = None
    /\ t.pc = "answered" => t.answer = "ok"

\* ... is given one when it publishes first, ...
First(t) ==
    /\ t.pc \in {"get", "hash"} => ~Exists
    /\ t.pc = "upsert" => ~Exists /\ ~t.ok
    /\ t.pc \in {"reread", "issue"} => Exists /\ row.token = None /\ ~t.ok
    /\ t.pc = "issue" => t.issue # None
    /\ t.pc = "answered" => /\ t.answer = "ok" /\ Exists
                            /\ t.issue # None /\ row.token = t.issue

\* ... and takes the row with it when it stops.
Last(t) ==
    /\ t.pc = "unregister" => (Exists => t.sent = row.token)
    /\ t.pc = "answered" => ~Exists

Quiet ==
    faults = 0 =>
        /\ Serial
        /\ Idle
        /\ pub.up /\ pub.published /\ pub.waits => Owns
        /\ \A h \in Handlers : task[h].awaited =>
               IF ~pub.up THEN Last(task[h])
               ELSE IF pub.published THEN Again(task[h]) ELSE First(task[h])

\* The prober reports what it found in a round without an outage.
Bright == probe.dark => probe.pc = "report" /\ Others + 1 < MinServers

IInv ==
    /\ TypeOK
    /\ Single
    /\ Late
    /\ Due
    /\ Refreshed
    /\ Kept
    /\ ReadRight
    /\ RefusedYoung
    /\ Locked
    /\ Quiet
    /\ Bright

-----------------------------------------------------------------------------
(* The constants and the operators. *)

LEMMA Constants ==
    ASSUME DirectoryAssumption
    PROVE  /\ Beat \in Nat /\ Retry \in Nat /\ Timeout \in Nat /\ Fresh \in Nat
           /\ Recovery \in Nat /\ Hide \in Nat /\ PruneAge \in Nat
           /\ Beat > 0 /\ Retry > 0 /\ Timeout > 0 /\ Fresh > 0 /\ Recovery > 0
           /\ Hide > 0 /\ PruneAge > 0
           /\ Tolerated \in Nat /\ Others \in Nat /\ MaxFaults \in Nat
           /\ Misses \in Nat /\ Misses > 0 /\ MinServers \in Nat /\ MinServers > 0
BY DEF DirectoryAssumption

LEMMA MinOfTwo ==
    ASSUME NEW m \in Int, NEW n \in Int
    PROVE  Min({m, n}) = IF m =< n THEN m ELSE n
BY DEF Min

LEMMA MaxOfTwo ==
    ASSUME NEW m \in Int, NEW n \in Int
    PROVE  Max({m, n}) = IF m >= n THEN m ELSE n
BY DEF Max

LEMMA CappedIs ==
    ASSUME NEW n \in Int, NEW cap \in Int
    PROVE  Capped(n, cap) = IF n =< cap THEN n ELSE cap
BY MinOfTwo DEF Capped

LEMMA OlderIs ==
    ASSUME NEW n \in Int, NEW cap \in Int
    PROVE  Older(n, cap) = IF n = -1 THEN -1 ELSE IF n < cap THEN n + 1 ELSE cap
BY CappedIs DEF Older

Below == {mn \in Nat \X Nat : mn[1] < mn[2]}

LEMMA BelowWellFounded == IsWellFoundedOn(Below, Nat)
<1>1. OpToRel(<, Nat) = Below BY Zenon DEF OpToRel, Below
<1> QED BY <1>1, NatLessThanWellFounded, Zenon

\* A set of numbers that is not empty has a least one.
LEMMA MinIsMember ==
    ASSUME NEW S, S \subseteq Nat, S # {}
    PROVE  Min(S) \in S
<1>1. PICK x \in S : \A y \in S : ~(<<y, x>> \in Below)
    BY BelowWellFounded, WFMin, Zenon
<1>2. ASSUME NEW y \in S PROVE x =< y
    <2>1. x \in Nat /\ y \in Nat OBVIOUS
    <2>2. <<y, x>> \in Nat \X Nat BY <2>1
    <2>3. ~(<<y, x>>[1] < <<y, x>>[2]) BY <1>1, <2>2, Zenon DEF Below
    <2>4. ~(y < x) BY <2>3
    <2> QED BY <2>1, <2>4
<1> QED BY <1>2 DEF Min

\* There is a token that is not in use.
LEMMA NewToken ==
    ASSUME DirectoryAssumption
    PROVE  Min(Tokens \ Used) \in Tokens \ Used
<1> DEFINE Issued == {task[h].issue : h \in Handlers}
           issue == [h \in Handlers |-> task[h].issue]
<1>1. IsFiniteSet(Issued) /\ Cardinality(Issued) =< Cardinality(Handlers)
    <2>1. issue \in Surjection(Handlers, Issued) BY DEF Surjection
    <2>2. IsFiniteSet(Handlers) BY DEF DirectoryAssumption
    <2> QED BY <2>1, <2>2, FS_Surjection
<1>2. Used = Issued \cup {row.token} \cup {pub.held} \cup {pub.file}
    BY DEF Used
<1>3. Cardinality(Issued) \in Nat /\ Cardinality(Handlers) \in Nat
    BY <1>1, FS_CardinalityType DEF DirectoryAssumption
<1> HIDE DEF Issued
<1>4. IsFiniteSet(Used) /\ Cardinality(Used) =< Cardinality(Issued) + 3
    <2>1. ASSUME NEW S, IsFiniteSet(S), NEW x
          PROVE  /\ IsFiniteSet(S \cup {x}) /\ Cardinality(S) \in Nat
                 /\ Cardinality(S \cup {x}) \in Nat
                 /\ Cardinality(S \cup {x}) =< Cardinality(S) + 1
        <3>1. Cardinality(S) \in Nat BY <2>1, FS_CardinalityType
        <3>2. /\ IsFiniteSet(S \cup {x})
              /\ Cardinality(S \cup {x}) = IF x \in S THEN Cardinality(S) ELSE Cardinality(S) + 1
            BY <2>1, FS_AddElement
        <3> QED BY <3>1, <3>2
    <2> DEFINE S1 == Issued \cup {row.token}
               S2 == S1 \cup {pub.held}
               S3 == S2 \cup {pub.file}
    <2>2. /\ IsFiniteSet(S1) /\ Cardinality(S1) \in Nat
          /\ Cardinality(S1) =< Cardinality(Issued) + 1
        BY <1>1, <2>1
    <2> HIDE DEF S1
    <2>3. /\ IsFiniteSet(S2) /\ Cardinality(S2) \in Nat
          /\ Cardinality(S2) =< Cardinality(S1) + 1
        BY <2>1, <2>2
    <2> HIDE DEF S2
    <2>4. /\ IsFiniteSet(S3) /\ Cardinality(S3) \in Nat
          /\ Cardinality(S3) =< Cardinality(S2) + 1
        BY <2>1, <2>3
    <2>5. Used = S3 BY <1>2 DEF S1, S2
    <2> HIDE DEF S3
    <2> QED BY <1>3, <2>2, <2>3, <2>4, <2>5
<1>5. ~(Tokens \subseteq Used)
    <2> SUFFICES ASSUME Tokens \subseteq Used PROVE FALSE OBVIOUS
    <2>1. IsFiniteSet(Tokens) /\ Cardinality(Tokens) =< Cardinality(Used)
        BY <1>4, FS_Subset
    <2>2. Cardinality(Used) \in Nat /\ Cardinality(Tokens) \in Nat
        BY <1>4, <2>1, FS_CardinalityType
    <2>3. Cardinality(Tokens) > Cardinality(Handlers) + 3 BY DEF DirectoryAssumption
    <2> QED BY <1>1, <1>3, <1>4, <2>1, <2>2, <2>3
<1>6. Tokens \ Used \subseteq Nat BY DEF DirectoryAssumption
<1> QED BY <1>5, <1>6, MinIsMember

LEMMA FreeHandler ==
    ASSUME DirectoryAssumption, {h \in Handlers : task[h].pc = "none"} # {}
    PROVE  /\ Min({h \in Handlers : task[h].pc = "none"}) \in Handlers
           /\ task[Min({h \in Handlers : task[h].pc = "none"})].pc = "none"
<1> DEFINE free == {h \in Handlers : task[h].pc = "none"}
<1>1. free \subseteq Nat BY DEF DirectoryAssumption
<1>2. Min(free) \in free BY <1>1, MinIsMember
<1> QED BY <1>2

-----------------------------------------------------------------------------
(* Types. *)

RowType == [token : Token, seen : Age(PruneAge), observed : Age(Hide),
            unreachable : BOOLEAN, failures : 0 .. Misses, late : BOOLEAN]
TaskType == [sent : Token, ok : BOOLEAN, issue : Token,
             pc : {"none", "get", "hash", "upsert", "reread", "issue",
                   "unregister", "delete", "answered"},
             seen : Age(Max({Recovery, PruneAge})), awaited : BOOLEAN,
             answer : {"none", "ok", "missing", "unauthorized"}]
PubType == [up : BOOLEAN, waits : BOOLEAN, held : Token, file : Token,
            due : 0 .. Max({Beat, Retry}), waited : 0 .. Timeout,
            published : BOOLEAN, lost : 0 .. Tolerated + 1, refused : BOOLEAN]
ProbeType == [pc : {"idle", "report", "prune", "sleep"}, reached : BOOLEAN, dark : BOOLEAN]
Emptied == ~Exists => row \in {NoRow, [NoRow EXCEPT !.late = TRUE]}

LEMMA TypeParts ==
    TypeOK <=> /\ row \in RowType /\ Emptied /\ faults \in 0 .. MaxFaults
               /\ task \in [Handlers -> TaskType] /\ pub \in PubType /\ probe \in ProbeType
BY DEF TypeOK, RowType, TaskType, PubType, ProbeType, Emptied

LEMMA TypesOfNone ==
    ASSUME DirectoryAssumption
    PROVE  NoRow \in RowType /\ NoTask \in TaskType
<1>1. -1 \in Age(PruneAge) /\ -1 \in Age(Hide) /\ 0 \in 0 .. Misses
    BY Constants DEF Age
<1>2. -1 \in Age(Max({Recovery, PruneAge}))
    BY Constants, MaxOfTwo DEF Age
<1>3. None \in Token BY DEF Token
<1> QED BY <1>1, <1>2, <1>3 DEF NoRow, NoTask, RowType, TaskType

\* What a handler's step makes of its task: the fields of t, pc apart, are kept
\* unless told otherwise.
Moved(t, u, pc) ==
    /\ u \in TaskType /\ u.pc = pc /\ u.awaited = t.awaited /\ u.answer = t.answer

LEMMA AnswersIs ==
    ASSUME DirectoryAssumption, task \in [Handlers -> TaskType], NEW h \in Handlers,
           NEW a \in {"ok", "missing", "unauthorized"}, Answers(h, a)
    PROVE  /\ task' \in [Handlers -> TaskType]
           /\ \A g \in Handlers \ {h} : task'[g] = task[g]
           /\ ~task[h].awaited => task'[h] = NoTask
           /\ task[h].awaited =>
                  /\ task'[h].pc = "answered" /\ task'[h].answer = a /\ task'[h].awaited
                  /\ task'[h].issue = task[h].issue
<1>1. task[h] \in TaskType OBVIOUS
<1>2. CASE ~task[h].awaited
    <2>1. task' = [task EXCEPT ![h] = NoTask] BY <1>2 DEF Answers
    <2> QED BY <1>2, <2>1, TypesOfNone
<1>3. CASE task[h].awaited
    <2>1. task' = [task EXCEPT ![h] = [task[h] EXCEPT !.pc = "answered", !.answer = a]]
        BY <1>3 DEF Answers
    <2> DEFINE u == [task[h] EXCEPT !.pc = "answered", !.answer = a]
    <2>2. /\ u \in TaskType /\ u.pc = "answered" /\ u.answer = a
          /\ u.awaited = task[h].awaited /\ u.issue = task[h].issue
        BY <1>1 DEF TaskType
    <2> HIDE DEF u
    <2>3. task' = [task EXCEPT ![h] = u] BY <2>1 DEF u
    <2> QED BY <1>3, <2>2, <2>3
<1> QED BY <1>2, <1>3

\* Where a handler that goes on without an answer gets to.
LEMMA GoesIs ==
    ASSUME task \in [Handlers -> TaskType], NEW h \in Handlers,
           NEW pc \in {"reread", "delete"}, Goes(h, pc)
    PROVE  /\ task' \in [Handlers -> TaskType]
           /\ \A g \in Handlers \ {h} : task'[g] = task[g]
           /\ Moved(task[h], task'[h], pc)
           /\ task'[h].sent = task[h].sent /\ task'[h].ok = task[h].ok
           /\ task'[h].issue = task[h].issue
<1>1. task[h] \in TaskType OBVIOUS
<1> DEFINE u == [task[h] EXCEPT !.pc = pc]
<1>2. /\ u \in TaskType /\ Moved(task[h], u, pc)
      /\ u.sent = task[h].sent /\ u.ok = task[h].ok /\ u.issue = task[h].issue
    BY <1>1 DEF TaskType, Moved
<1>3. task' = [task EXCEPT ![h] = u] BY DEF Goes
<1> HIDE DEF u
<1> QED BY <1>2, <1>3

\* The steps of a handler: what it tells its caller, or where it goes on.
Reply(h, a) ==
    IF task[h].awaited
    THEN /\ task'[h].pc = "answered" /\ task'[h].answer = a /\ task'[h].awaited
         /\ task'[h].issue = task[h].issue
    ELSE task'[h].pc = "none" /\ ~task'[h].awaited

Went(h, pc) ==
    /\ Moved(task[h], task'[h], pc)
    /\ task'[h].sent = task[h].sent /\ task'[h].ok = task[h].ok
    /\ task'[h].issue = task[h].issue

ReadRowIs(h) ==
    /\ task[h].pc = "get" /\ row' = row
    /\ Moved(task[h], task'[h], "hash")
    /\ task'[h].seen = row.seen /\ task'[h].sent = task[h].sent
    /\ task'[h].issue = task[h].issue

ReadHashIs(h) ==
    LET ok == task[h].sent # None /\ task[h].sent = row.token
    IN  /\ task[h].pc = "hash" /\ row' = row
        /\ \/ /\ Enforce /\ ~ok /\ Protects(task[h].seen)
              /\ Reply(h, "unauthorized")
           \/ /\ ~(Enforce /\ ~ok /\ Protects(task[h].seen))
              /\ Moved(task[h], task'[h], "upsert")
              /\ task'[h].ok = ok /\ task'[h].issue = task[h].issue

UpsertIs(h) ==
    /\ task[h].pc = "upsert" /\ Went(h, "reread")
    /\ row' \in RowType /\ Exists' /\ row'.seen = 0
    /\ row'.late = IF Exists THEN row.late ELSE FALSE
    /\ row'.token = IF Exists THEN row.token ELSE None
    /\ row'.failures = IF Exists THEN row.failures ELSE 0

RereadIs(h) ==
    /\ task[h].pc = "reread" /\ row' = row
    /\ \/ ~Exists /\ Reply(h, "missing")
       \/ Exists /\ task[h].ok /\ Reply(h, "ok")
       \/ /\ Exists /\ ~task[h].ok
          /\ Moved(task[h], task'[h], "issue")
          /\ task'[h].issue \in Tokens /\ task'[h].ok = task[h].ok

SetTokenIs(h) ==
    /\ task[h].pc = "issue" /\ Reply(h, "ok")
    /\ row' \in RowType /\ row'.seen = row.seen /\ row'.late = row.late
    /\ row'.failures = row.failures
    /\ Exists => row'.token = task[h].issue
    /\ ~Exists => row' = row

UnregisterIs(h) ==
    /\ task[h].pc = "unregister" /\ row' = row
    /\ \/ /\ row.token # None /\ task[h].sent # row.token
          /\ Reply(h, "unauthorized")
       \/ Went(h, "delete")

DeleteIs(h) ==
    /\ task[h].pc = "delete" /\ Reply(h, "ok")
    /\ row' \in {NoRow, [NoRow EXCEPT !.late = TRUE]} /\ row' \in RowType
    /\ ~Exists' /\ row'.late = ~task[h].awaited /\ row'.seen = -1 /\ row'.failures = 0

DropIs(h) ==
    /\ ~task[h].awaited /\ row' = row
    /\ task'[h].pc = "none" /\ ~task'[h].awaited

HandlerIs(h) ==
    \/ ReadRowIs(h) \/ ReadHashIs(h) \/ UpsertIs(h) \/ RereadIs(h)
    \/ SetTokenIs(h) \/ UnregisterIs(h) \/ DeleteIs(h) \/ DropIs(h)

LEMMA HandlerStep ==
    ASSUME DirectoryAssumption, TypeOK, NEW h \in Handlers, Handle(h) \/ Drop(h)
    PROVE  /\ TypeOK'
           /\ \A g \in Handlers \ {h} : task'[g] = task[g]
           /\ pub' = pub /\ probe' = probe /\ faults' = faults
           /\ HandlerIs(h)
<1>1. /\ row \in RowType /\ Emptied /\ task \in [Handlers -> TaskType] /\ task[h] \in TaskType
    BY TypeParts
<1>2. /\ pub' = pub /\ probe' = probe /\ faults' = faults
    BY DEF Handle, Drop, ServiceKeeps, ReadRow, ReadHash, Upsert, Reread, SetTokenHash,
           CheckUnregister, Delete
<1>3. NoRow \in RowType /\ NoTask \in TaskType BY TypesOfNone
<1>4. ASSUME task' \in [Handlers -> TaskType], row' \in RowType, Emptied'
      PROVE  TypeOK'
    <2>1. pub' \in PubType /\ probe' \in ProbeType /\ faults' \in 0 .. MaxFaults
        BY <1>2, TypeParts
    <2>2. TypeOK' <=> (/\ row \in RowType /\ Emptied /\ faults \in 0 .. MaxFaults
                       /\ task \in [Handlers -> TaskType] /\ pub \in PubType /\ probe \in ProbeType)'
        BY TypeParts, PTL
    <2> QED BY <1>4, <2>1, <2>2
<1>5. ASSUME task' \in [Handlers -> TaskType], row' = row PROVE TypeOK'
    BY <1>1, <1>4, <1>5 DEF Emptied, Exists
\* A task that is replaced by a task.
<1>6. ASSUME NEW u \in TaskType, task' = [task EXCEPT ![h] = u]
      PROVE  /\ task' \in [Handlers -> TaskType] /\ task'[h] = u
             /\ \A g \in Handlers \ {h} : task'[g] = task[g]
    BY <1>1, <1>6
<1>a. ASSUME NEW a \in {"ok", "missing", "unauthorized"}, Answers(h, a) PROVE Reply(h, a)
    BY <1>1, <1>a, AnswersIs DEF Reply, NoTask
<1>b. ASSUME NEW pc \in {"reread", "delete"}, Goes(h, pc) PROVE Went(h, pc)
    BY <1>1, <1>b, GoesIs DEF Went
<1>7. CASE ReadRow(h)
    <2> DEFINE u == [task[h] EXCEPT !.pc = "hash", !.seen = row.seen]
    <2>1. row.seen \in Age(Max({Recovery, PruneAge}))
        BY <1>1, Constants, MaxOfTwo DEF RowType, Age
    <2>2. /\ u \in TaskType /\ Moved(task[h], u, "hash") /\ u.seen = row.seen
          /\ u.sent = task[h].sent /\ u.issue = task[h].issue
        BY <1>1, <2>1 DEF TaskType, Moved
    <2>3. task' = [task EXCEPT ![h] = u] BY <1>1, <1>7 DEF ReadRow
    <2> HIDE DEF u
    <2>4. task' \in [Handlers -> TaskType] /\ task'[h] = u
          /\ \A g \in Handlers \ {h} : task'[g] = task[g]
        BY <1>6, <2>2, <2>3
    <2>5. row' = row /\ task[h].pc = "get" BY <1>7 DEF ReadRow
    <2>6. ReadRowIs(h) BY <2>2, <2>4, <2>5 DEF ReadRowIs
    <2> QED BY <1>2, <1>5, <2>4, <2>5, <2>6 DEF HandlerIs
<1>8. CASE ReadHash(h)
    <2> DEFINE ok == task[h].sent # None /\ task[h].sent = row.token
               refuse == Enforce /\ ~ok /\ Protects(task[h].seen)
    <2>1. row' = row /\ task[h].pc = "hash" BY <1>8 DEF ReadHash
    <2>2. CASE refuse
        <3>1. Answers(h, "unauthorized") BY <1>8, <2>2 DEF ReadHash
        <3>2. /\ task' \in [Handlers -> TaskType]
              /\ \A g \in Handlers \ {h} : task'[g] = task[g]
            BY <1>1, <3>1, AnswersIs
        <3>3. ReadHashIs(h) BY <1>a, <1>b, <2>1, <2>2, <3>1 DEF ReadHashIs
        <3> QED BY <1>2, <1>5, <2>1, <3>2, <3>3 DEF HandlerIs
    <2>3. CASE ~refuse
        <3> DEFINE u == [task[h] EXCEPT !.pc = "upsert", !.ok = ok, !.seen = -1, !.sent = None]
        <3>1. task' = [task EXCEPT ![h] = u] BY <1>8, <2>3 DEF ReadHash
        <3>2. -1 \in Age(Max({Recovery, PruneAge})) /\ None \in Token /\ ok \in BOOLEAN
            BY <1>3 DEF TaskType, NoTask
        <3> HIDE DEF ok
        <3>3. u \in TaskType /\ Moved(task[h], u, "upsert") /\ u.ok = ok /\ u.issue = task[h].issue
            BY <1>1, <3>2 DEF TaskType, Moved
        <3> HIDE DEF u
        <3>4. task' \in [Handlers -> TaskType] /\ task'[h] = u
              /\ \A g \in Handlers \ {h} : task'[g] = task[g]
            BY <1>6, <3>1, <3>3
        <3>5. ReadHashIs(h) BY <1>a, <1>b, <2>1, <2>3, <3>3, <3>4 DEF ReadHashIs, ok
        <3> QED BY <1>2, <1>5, <2>1, <3>4, <3>5 DEF HandlerIs
    <2> QED BY <2>2, <2>3
<1>9. CASE Upsert(h)
    <2>1. task[h].pc = "upsert" /\ Goes(h, "reread") BY <1>9 DEF Upsert
    <2>2. row' = IF Exists THEN [row EXCEPT !.seen = 0] ELSE [NoRow EXCEPT !.seen = 0]
        BY <1>9 DEF Upsert, SeenNow
    <2>3. 0 \in Age(PruneAge) BY Constants DEF Age
    <2>4. row' \in RowType /\ row'.seen = 0
          /\ row'.late = (IF Exists THEN row.late ELSE FALSE)
          /\ row'.token = (IF Exists THEN row.token ELSE None)
          /\ row'.failures = (IF Exists THEN row.failures ELSE 0)
        <3>1. CASE Exists BY <1>1, <2>2, <2>3, <3>1 DEF RowType
        <3>2. CASE ~Exists
            <4>1. row' = [NoRow EXCEPT !.seen = 0] BY <2>2, <3>2
            <4>2. row' \in RowType BY <1>3, <2>3, <4>1 DEF RowType
            <4> QED BY <3>2, <4>1, <4>2 DEF NoRow
        <3> QED BY <3>1, <3>2
    <2>5. Exists' BY <2>4 DEF Exists
    <2>6. /\ task' \in [Handlers -> TaskType]
          /\ \A g \in Handlers \ {h} : task'[g] = task[g]
        BY <1>1, <2>1, GoesIs
    <2>7. TypeOK' BY <1>4, <2>4, <2>5, <2>6 DEF Emptied
    <2>8. UpsertIs(h) BY <1>a, <1>b, <2>1, <2>4, <2>5 DEF UpsertIs
    <2> QED BY <1>2, <2>6, <2>7, <2>8 DEF HandlerIs
<1>10. CASE Reread(h)
    <2>1. row' = row /\ task[h].pc = "reread" BY <1>10 DEF Reread
    <2>2. ASSUME NEW a \in {"ok", "missing", "unauthorized"}, Answers(h, a), RereadIs(h)
          PROVE  /\ TypeOK' /\ HandlerIs(h)
                 /\ \A g \in Handlers \ {h} : task'[g] = task[g]
        <3>1. /\ task' \in [Handlers -> TaskType]
              /\ \A g \in Handlers \ {h} : task'[g] = task[g]
            BY <1>1, <2>2, AnswersIs
        <3> QED BY <1>5, <2>1, <2>2, <3>1 DEF HandlerIs
    <2>3. CASE ~Exists
        <3>1. Answers(h, "missing") BY <1>10, <2>3 DEF Reread
        <3>2. RereadIs(h) BY <1>a, <1>b, <2>1, <2>3, <3>1 DEF RereadIs
        <3> QED BY <1>2, <2>2, <3>1, <3>2
    <2>4. CASE Exists /\ task[h].ok
        <3>1. Answers(h, "ok") BY <1>10, <2>4 DEF Reread
        <3>2. RereadIs(h) BY <1>a, <1>b, <2>1, <2>4, <3>1 DEF RereadIs
        <3> QED BY <1>2, <2>2, <3>1, <3>2
    <2>5. CASE Exists /\ ~task[h].ok
        <3> DEFINE new == Min(Tokens \ Used)
                   u == [task[h] EXCEPT !.pc = "issue", !.issue = new]
        <3>1. new \in Tokens /\ new \in Token BY NewToken DEF Token
        <3>2. task' = [task EXCEPT ![h].pc = "issue", ![h].issue = new]
            BY <1>10, <2>5 DEF Reread
        <3> HIDE DEF new
        <3>3. task' = [task EXCEPT ![h] = u] BY <1>1, <3>2
        <3>4. u \in TaskType /\ Moved(task[h], u, "issue") /\ u.issue = new /\ u.ok = task[h].ok
            BY <1>1, <3>1 DEF TaskType, Moved
        <3> HIDE DEF u
        <3>5. task' \in [Handlers -> TaskType] /\ task'[h] = u
              /\ \A g \in Handlers \ {h} : task'[g] = task[g]
            BY <1>6, <3>3, <3>4
        <3>6. RereadIs(h) BY <1>a, <1>b, <2>1, <2>5, <3>1, <3>4, <3>5 DEF RereadIs
        <3> QED BY <1>2, <1>5, <2>1, <3>5, <3>6 DEF HandlerIs
    <2> QED BY <2>3, <2>4, <2>5
<1>11. CASE SetTokenHash(h)
    <2>1. /\ task[h].pc = "issue" /\ Answers(h, "ok")
          /\ row' = IF Exists THEN [row EXCEPT !.token = task[h].issue] ELSE row
        BY <1>11 DEF SetTokenHash, WithToken
    <2>2. task[h].issue \in Token BY <1>1 DEF TaskType
    <2>3. /\ row' \in RowType /\ row'.seen = row.seen /\ row'.late = row.late
          /\ row'.failures = row.failures
          /\ Exists => row'.token = task[h].issue
          /\ ~Exists => row' = row
        BY <1>1, <2>1, <2>2 DEF RowType
    <2>4. Emptied' BY <1>1, <2>3 DEF Emptied, Exists
    <2>5. /\ task' \in [Handlers -> TaskType]
          /\ \A g \in Handlers \ {h} : task'[g] = task[g]
        BY <1>1, <2>1, AnswersIs
    <2>6. TypeOK' BY <1>4, <2>3, <2>4, <2>5
    <2>7. SetTokenIs(h) BY <1>a, <1>b, <2>1, <2>3 DEF SetTokenIs
    <2> QED BY <1>2, <2>5, <2>6, <2>7 DEF HandlerIs
<1>12. CASE CheckUnregister(h)
    <2>1. row' = row /\ task[h].pc = "unregister" BY <1>12 DEF CheckUnregister
    <2>2. CASE Enforce /\ row.token # None /\ task[h].sent # row.token
        <3>1. Answers(h, "unauthorized") BY <1>12, <2>2 DEF CheckUnregister
        <3>2. /\ task' \in [Handlers -> TaskType]
              /\ \A g \in Handlers \ {h} : task'[g] = task[g]
            BY <1>1, <3>1, AnswersIs
        <3>3. UnregisterIs(h) BY <1>a, <1>b, <2>1, <2>2, <3>1 DEF UnregisterIs
        <3> QED BY <1>2, <1>5, <2>1, <3>2, <3>3 DEF HandlerIs
    <2>3. CASE ~(Enforce /\ row.token # None /\ task[h].sent # row.token)
        <3>1. Goes(h, "delete") BY <1>12, <2>3 DEF CheckUnregister
        <3>2. /\ task' \in [Handlers -> TaskType]
              /\ \A g \in Handlers \ {h} : task'[g] = task[g]
            BY <1>1, <3>1, GoesIs
        <3>3. UnregisterIs(h) BY <1>a, <1>b, <2>1, <3>1 DEF UnregisterIs
        <3> QED BY <1>2, <1>5, <2>1, <3>2, <3>3 DEF HandlerIs
    <2> QED BY <2>2, <2>3
<1>13. CASE Delete(h)
    <2>1. task[h].pc = "delete" /\ Answers(h, "ok")
          /\ row' = [NoRow EXCEPT !.late = ~task[h].awaited]
        BY <1>13 DEF Delete
    <2>2. task[h].awaited \in BOOLEAN BY <1>1 DEF TaskType
    <2>3. /\ row' \in {NoRow, [NoRow EXCEPT !.late = TRUE]}
          /\ row'.late = ~task[h].awaited /\ row'.seen = -1 /\ row'.failures = 0
        BY <2>1, <2>2 DEF NoRow
    <2>4. row' \in RowType BY <1>3, <2>3 DEF RowType
    <2>5. ~Exists' BY <2>3 DEF Exists
    <2>6. /\ task' \in [Handlers -> TaskType]
          /\ \A g \in Handlers \ {h} : task'[g] = task[g]
        BY <1>1, <2>1, AnswersIs
    <2>7. TypeOK' BY <1>4, <2>3, <2>4, <2>6 DEF Emptied
    <2>8. DeleteIs(h) BY <1>a, <1>b, <2>1, <2>3, <2>4, <2>5 DEF DeleteIs
    <2> QED BY <1>2, <2>6, <2>7, <2>8 DEF HandlerIs
<1>14. CASE Drop(h)
    <2>1. row' = row /\ task' = [task EXCEPT ![h] = NoTask] /\ ~task[h].awaited
        BY <1>14 DEF Drop
    <2>2. task' \in [Handlers -> TaskType] /\ task'[h] = NoTask
          /\ \A g \in Handlers \ {h} : task'[g] = task[g]
        BY <1>3, <1>6, <2>1
    <2>3. DropIs(h) BY <2>1, <2>2 DEF DropIs, NoTask
    <2> QED BY <1>2, <1>5, <2>1, <2>2, <2>3 DEF HandlerIs
<1> QED BY <1>7, <1>8, <1>9, <1>10, <1>11, <1>12, <1>13, <1>14 DEF Handle

-----------------------------------------------------------------------------
(* The steps of the publisher. *)

\* A request is on its way: its handler was idle before.
Sends(h, pc, token) ==
    /\ task[h].pc = "none"
    /\ \A g \in Handlers \ {h} : task'[g] = task[g]
    /\ task'[h].pc = pc /\ task'[h].sent = token /\ task'[h].awaited
    /\ task'[h].issue = None

LEMMA SendIs ==
    ASSUME DirectoryAssumption, task \in [Handlers -> TaskType],
           NEW pc \in {"get", "unregister"}, NEW token \in Token, Send(pc, token)
    PROVE  task' \in [Handlers -> TaskType] /\ \E h \in Handlers : Sends(h, pc, token)
<1> DEFINE h == Min({g \in Handlers : task[g].pc = "none"})
           u == [NoTask EXCEPT !.pc = pc, !.sent = token, !.awaited = TRUE]
<1>1. {g \in Handlers : task[g].pc = "none"} # {} BY DEF Send
<1>2. task' = [task EXCEPT ![h] = u] BY DEF Send, Sent
<1>3. h \in Handlers /\ task[h].pc = "none" BY <1>1, FreeHandler
<1>4. u \in TaskType /\ u.pc = pc /\ u.sent = token /\ u.awaited /\ u.issue = None
    <2>1. NoTask \in TaskType BY TypesOfNone
    <2>2. u \in TaskType BY <2>1 DEF TaskType
    <2> QED BY <2>2 DEF NoTask
<1> HIDE DEF h, u
<1>5. task' \in [Handlers -> TaskType] /\ task'[h] = u
      /\ \A g \in Handlers \ {h} : task'[g] = task[g]
    BY <1>2, <1>3, <1>4
<1>6. Sends(h, pc, token) BY <1>3, <1>4, <1>5 DEF Sends
<1> QED BY <1>3, <1>5, <1>6

\* What is left of a publisher that goes down.
IsDown ==
    /\ ~pub'.up /\ pub'.waited = 0 /\ pub'.due = 0 /\ pub'.lost = 0
    /\ ~pub'.published /\ ~pub'.refused

LEMMA DownIs ==
    ASSUME DirectoryAssumption, pub \in PubType
    PROVE  /\ Down \in PubType /\ [Down EXCEPT !.waits = TRUE] \in PubType
           /\ pub' = Down => IsDown /\ ~pub'.waits
           /\ pub' = [Down EXCEPT !.waits = TRUE] => IsDown /\ pub'.waits
<1>1. None \in Token /\ 0 \in 0 .. Max({Beat, Retry}) /\ 0 \in 0 .. Timeout /\ 0 \in 0 .. Tolerated + 1
    BY Constants, MaxOfTwo DEF Token
<1>2. Down \in PubType BY <1>1 DEF Down, PubType
<1>3. /\ ~Down.up /\ Down.waited = 0 /\ Down.due = 0 /\ Down.lost = 0
      /\ ~Down.published /\ ~Down.refused /\ ~Down.waits
    BY DEF Down, PubType
<1> QED BY <1>2, <1>3 DEF IsDown, PubType

StartIs ==
    /\ ~pub.up /\ ~pub.waits /\ \E h \in Handlers : Sends(h, "get", pub.file)
    /\ pub'.up /\ pub'.waits /\ pub'.waited = 0 /\ pub'.due = pub.due
    /\ ~pub'.published /\ pub'.lost = 0 /\ ~pub'.refused

PublishIs ==
    /\ pub.up /\ ~pub.waits /\ \E h \in Handlers : Sends(h, "get", pub.held)
    /\ pub'.up /\ pub'.waits /\ pub'.waited = 0 /\ pub'.due = pub.due
    /\ pub'.published = pub.published /\ pub'.lost = pub.lost
    /\ pub'.refused = pub.refused /\ pub'.held = pub.held

StopIs ==
    /\ pub.up /\ ~pub.waits /\ IsDown
    /\ \/ /\ pub.published /\ pub'.waits
          /\ \E h \in Handlers : Sends(h, "unregister", pub.held)
       \/ ~pub.published /\ ~pub'.waits /\ task' = task

\* An answer, or "none".
ToldIs(t, a) ==
    \/ ~pub.up /\ IsDown /\ ~pub'.waits
    \/ /\ pub.up /\ a # "ok" /\ pub'.up /\ ~pub'.waits /\ pub'.due = Retry /\ pub'.waited = 0
       /\ pub'.published = pub.published /\ pub'.refused = (a # "none")
       /\ pub'.lost = IF pub.lost + 1 =< Tolerated + 1 THEN pub.lost + 1 ELSE Tolerated + 1
       /\ pub'.held = pub.held
    \/ /\ pub.up /\ a = "ok" /\ pub'.up /\ ~pub'.waits /\ pub'.due = Beat /\ pub'.waited = 0
       /\ pub'.published /\ ~pub'.refused /\ pub'.lost = 0
       /\ pub'.held = IF t.issue # None THEN t.issue ELSE pub.held

LEMMA ToldTyped ==
    ASSUME DirectoryAssumption, pub \in PubType, NEW t \in TaskType, NEW a,
           NEW stored \in BOOLEAN, pub' = Told(t, a, stored)
    PROVE  pub' \in PubType /\ ToldIs(t, a)
<1>1. CASE ~pub.up
    <2>1. pub' = Down BY <1>1 DEF Told
    <2> QED BY <1>1, <2>1, DownIs DEF ToldIs
<1>2. CASE pub.up /\ a # "ok"
    <2> DEFINE n == Capped(pub.lost + 1, Tolerated + 1)
               r == a # "none"
    <2>1. pub' = [pub EXCEPT !.waits = FALSE, !.waited = 0, !.due = Retry, !.lost = n,
                             !.refused = r]
        BY <1>2 DEF Told
    <2>2. pub.lost \in 0 .. Tolerated + 1 BY DEF PubType
    <2>3. n = IF pub.lost + 1 =< Tolerated + 1 THEN pub.lost + 1 ELSE Tolerated + 1
        BY <2>2, CappedIs, Constants
    <2>4. n \in 0 .. Tolerated + 1 /\ Retry \in 0 .. Max({Beat, Retry}) /\ 0 \in 0 .. Timeout
        BY <2>2, <2>3, Constants, MaxOfTwo
    <2> HIDE DEF n
    <2>5. r \in BOOLEAN OBVIOUS
    <2> HIDE DEF r
    <2>6. pub' \in PubType BY <2>1, <2>4, <2>5 DEF PubType
    <2>7. /\ pub'.up /\ ~pub'.waits /\ pub'.due = Retry /\ pub'.waited = 0
          /\ pub'.published = pub.published /\ pub'.refused = r /\ pub'.lost = n
          /\ pub'.held = pub.held
        BY <1>2, <2>1 DEF PubType
    <2> QED BY <1>2, <2>3, <2>6, <2>7 DEF ToldIs, r
<1>3. CASE pub.up /\ a = "ok"
    <2> DEFINE held == IF t.issue # None THEN t.issue ELSE pub.held
               file == IF t.issue # None /\ stored THEN t.issue ELSE pub.file
    <2>1. pub' = [pub EXCEPT !.waits = FALSE, !.waited = 0, !.due = Beat, !.published = TRUE,
                             !.lost = 0, !.refused = FALSE, !.held = held, !.file = file]
        BY <1>3 DEF Told
    <2>2. held \in Token /\ file \in Token BY DEF PubType, TaskType
    <2>3. 0 \in 0 .. Tolerated + 1 /\ Beat \in 0 .. Max({Beat, Retry}) /\ 0 \in 0 .. Timeout
        BY Constants, MaxOfTwo
    <2> HIDE DEF held, file
    <2>4. pub' \in PubType BY <2>1, <2>2, <2>3 DEF PubType
    <2>5. /\ pub'.up /\ ~pub'.waits /\ pub'.due = Beat /\ pub'.waited = 0
          /\ pub'.published /\ ~pub'.refused /\ pub'.lost = 0 /\ pub'.held = held
        BY <1>3, <2>1 DEF PubType
    <2> QED BY <1>3, <2>4, <2>5 DEF ToldIs, held
<1> QED BY <1>1, <1>2, <1>3

ReceiveIs(h) ==
    /\ task[h].pc = "answered" /\ ToldIs(task[h], task[h].answer) /\ faults' = faults
    /\ task'[h].pc = "none" /\ ~task'[h].awaited
    /\ \A g \in Handlers \ {h} : task'[g] = task[g]

\* A handler whose caller is gone goes on unnoticed, if it has not answered.
Orphaned(t, u) ==
    IF t.pc = "answered" THEN u.pc = "none" /\ ~u.awaited
    ELSE ~u.awaited /\ u.pc = t.pc /\ u.seen = t.seen

GiveUpIs(h) ==
    /\ task[h].awaited /\ ToldIs(task[h], "none") /\ faults' = faults + 1
    /\ Orphaned(task[h], task'[h]) /\ \A g \in Handlers \ {h} : task'[g] = task[g]

CrashIs ==
    /\ pub.up /\ IsDown /\ ~pub'.waits /\ faults' = faults + 1
    /\ \A g \in Handlers : Orphaned(task[g], task'[g])

PublisherIs ==
    \/ faults' = faults /\ (StartIs \/ PublishIs \/ StopIs)
    \/ CrashIs
    \/ \E h \in Handlers : ReceiveIs(h) \/ GiveUpIs(h)

Publishing ==
    \/ Start \/ Publish \/ Stop \/ Crash
    \/ \E h \in Handlers, stored \in BOOLEAN : Receive(h, stored)
    \/ \E h \in Handlers : GiveUp(h)

LEMMA OrphanedIs ==
    ASSUME DirectoryAssumption, NEW t \in TaskType
    PROVE  LET u == IF t.pc = "answered" THEN NoTask ELSE [t EXCEPT !.awaited = FALSE]
           IN  u \in TaskType /\ Orphaned(t, u)
<1>1. CASE t.pc = "answered" BY <1>1, TypesOfNone DEF Orphaned, NoTask
<1>2. CASE t.pc # "answered" BY <1>2 DEF Orphaned, TaskType
<1> QED BY <1>1, <1>2

LEMMA PublisherStep ==
    ASSUME DirectoryAssumption, TypeOK, Publishing
    PROVE  TypeOK' /\ row' = row /\ probe' = probe /\ PublisherIs
<1>1. /\ row \in RowType /\ Emptied /\ task \in [Handlers -> TaskType] /\ pub \in PubType
      /\ faults \in 0 .. MaxFaults /\ probe \in ProbeType
    BY TypeParts
<1>2. row' = row /\ probe' = probe
    BY DEF Publishing, Start, Publish, Stop, Crash, Receive, GiveUp, PublisherKeeps
<1>3. ASSUME task' \in [Handlers -> TaskType], pub' \in PubType, faults' \in 0 .. MaxFaults
      PROVE  TypeOK'
    <2>1. row' \in RowType /\ Emptied' /\ probe' \in ProbeType
        BY <1>1, <1>2 DEF Emptied, Exists
    <2>2. TypeOK' <=> (/\ row \in RowType /\ Emptied /\ faults \in 0 .. MaxFaults
                       /\ task \in [Handlers -> TaskType] /\ pub \in PubType /\ probe \in ProbeType)'
        BY TypeParts, PTL
    <2> QED BY <1>3, <2>1, <2>2
<1>4. Fault => faults' \in 0 .. MaxFaults /\ faults' = faults + 1
    BY <1>1, Constants DEF Fault
<1>5. 0 \in 0 .. Timeout /\ 0 \in 0 .. Tolerated + 1 BY Constants
<1>6. pub.file \in Token /\ pub.held \in Token BY <1>1 DEF PubType
<1>7. CASE Start
    <2>1. task' \in [Handlers -> TaskType] /\ \E h \in Handlers : Sends(h, "get", pub.file)
        BY <1>1, <1>6, <1>7, SendIs DEF Start
    <2>2. pub' = [pub EXCEPT !.up = TRUE, !.waits = TRUE, !.held = pub.file,
                             !.published = FALSE, !.waited = 0, !.lost = 0, !.refused = FALSE]
        BY <1>1, <1>7 DEF Start
    <2>3. pub' \in PubType BY <1>1, <1>5, <1>6, <2>2 DEF PubType
    <2>4. StartIs
        BY <1>1, <1>7, <2>1, <2>2 DEF StartIs, Start, PubType
    <2> QED BY <1>1, <1>2, <1>3, <1>7, <2>1, <2>3, <2>4 DEF PublisherIs, Start
<1>8. CASE Publish
    <2>1. task' \in [Handlers -> TaskType] /\ \E h \in Handlers : Sends(h, "get", pub.held)
        BY <1>1, <1>6, <1>8, SendIs DEF Publish
    <2>2. pub' = [pub EXCEPT !.waits = TRUE, !.waited = 0] BY <1>8 DEF Publish
    <2>3. pub' \in PubType BY <1>1, <1>5, <2>2 DEF PubType
    <2>4. PublishIs BY <1>1, <1>8, <2>1, <2>2 DEF PublishIs, Publish, PubType
    <2> QED BY <1>1, <1>2, <1>3, <1>8, <2>1, <2>3, <2>4 DEF PublisherIs, Publish
<1>9. CASE Stop
    <2>1. CASE pub.published
        <3>1. Send("unregister", pub.held) /\ pub' = [Down EXCEPT !.waits = TRUE]
            BY <1>9, <2>1 DEF Stop
        <3>2. task' \in [Handlers -> TaskType] /\ \E h \in Handlers : Sends(h, "unregister", pub.held)
            BY <1>1, <1>6, <3>1, SendIs
        <3>3. pub' \in PubType /\ IsDown /\ pub'.waits BY <1>1, <3>1, DownIs
        <3>4. StopIs BY <1>9, <2>1, <3>2, <3>3 DEF StopIs, Stop
        <3> QED BY <1>1, <1>2, <1>3, <1>9, <3>2, <3>3, <3>4 DEF PublisherIs, Stop
    <2>2. CASE ~pub.published
        <3>1. task' = task /\ pub' = Down BY <1>9, <2>2 DEF Stop
        <3>2. pub' \in PubType /\ IsDown /\ ~pub'.waits BY <1>1, <3>1, DownIs
        <3>3. StopIs BY <1>9, <2>2, <3>1, <3>2 DEF StopIs, Stop
        <3> QED BY <1>1, <1>2, <1>3, <1>9, <3>1, <3>2, <3>3 DEF PublisherIs, Stop
    <2> QED BY <2>1, <2>2
<1>10. CASE Crash
    <2>1. /\ pub' = Down /\ pub.up /\ Fault
          /\ task' = [h \in Handlers |-> IF task[h].pc = "answered" THEN NoTask
                                         ELSE [task[h] EXCEPT !.awaited = FALSE]]
        BY <1>10 DEF Crash
    <2>2. pub' \in PubType /\ IsDown /\ ~pub'.waits BY <1>1, <2>1, DownIs
    <2>3. \A h \in Handlers : task'[h] \in TaskType /\ Orphaned(task[h], task'[h])
        BY <1>1, <2>1, OrphanedIs
    <2>4. task' \in [Handlers -> TaskType] BY <2>1, <2>3
    <2> QED BY <1>2, <1>3, <1>4, <2>1, <2>2, <2>3, <2>4 DEF PublisherIs, CrashIs
<1>11. ASSUME NEW h \in Handlers, NEW stored \in BOOLEAN, Receive(h, stored)
       PROVE  TypeOK' /\ row' = row /\ probe' = probe /\ PublisherIs
    <2>1. /\ task[h].pc = "answered" /\ pub' = Told(task[h], task[h].answer, stored)
          /\ task' = [task EXCEPT ![h] = NoTask] /\ faults' = faults
        BY <1>11 DEF Receive
    <2>2. pub' \in PubType /\ ToldIs(task[h], task[h].answer) BY <1>1, <2>1, ToldTyped
    <2>3. task' \in [Handlers -> TaskType] /\ task'[h] = NoTask
          /\ \A g \in Handlers \ {h} : task'[g] = task[g]
        BY <1>1, <2>1, TypesOfNone
    <2>4. ReceiveIs(h) BY <2>1, <2>2, <2>3 DEF ReceiveIs, NoTask
    <2> QED BY <1>1, <1>2, <1>3, <2>1, <2>2, <2>3, <2>4 DEF PublisherIs
<1>12. ASSUME NEW h \in Handlers, GiveUp(h)
       PROVE  TypeOK' /\ row' = row /\ probe' = probe /\ PublisherIs
    <2> DEFINE u == IF task[h].pc = "answered" THEN NoTask ELSE [task[h] EXCEPT !.awaited = FALSE]
    <2>1. /\ task[h].awaited /\ pub' = Told(task[h], "none", FALSE) /\ Fault
          /\ task' = [task EXCEPT ![h] = u]
        BY <1>12 DEF GiveUp
    <2>2. pub' \in PubType /\ ToldIs(task[h], "none") BY <1>1, <2>1, ToldTyped
    <2>3. u \in TaskType /\ Orphaned(task[h], u) BY <1>1, OrphanedIs
    <2> HIDE DEF u
    <2>4. task' \in [Handlers -> TaskType] /\ task'[h] = u
          /\ \A g \in Handlers \ {h} : task'[g] = task[g]
        BY <1>1, <2>1, <2>3
    <2>5. GiveUpIs(h) BY <1>4, <2>1, <2>2, <2>3, <2>4 DEF GiveUpIs
    <2> QED BY <1>2, <1>3, <1>4, <2>1, <2>2, <2>4, <2>5 DEF PublisherIs
<1> QED BY <1>7, <1>8, <1>9, <1>10, <1>11, <1>12 DEF Publishing

-----------------------------------------------------------------------------
(* The steps of the prober, and of time. *)

\* The prober changes no more of the row than its verdict, unless it is stale.
ProberIs ==
    \/ row' = row
    \/ Exists /\ Exists' /\ row'.token = row.token /\ row'.seen = row.seen /\ row'.late = row.late
    \/ /\ row.seen >= PruneAge /\ row' = NoRow

Probes == Probing \/ ProbeRound(TRUE, FALSE) \/ ProbeRound(FALSE, TRUE)

LEMMA ProberStep ==
    ASSUME DirectoryAssumption, TypeOK, Bright, Probes
    PROVE  /\ TypeOK' /\ task' = task /\ pub' = pub /\ ProberIs /\ Bright'
           /\ faults' = faults \/ faults' = faults + 1
           /\ row'.failures > row.failures => ~probe.dark \/ Others + 1 < MinServers
<1>1. /\ row \in RowType /\ Emptied /\ task \in [Handlers -> TaskType] /\ pub \in PubType
      /\ faults \in 0 .. MaxFaults /\ probe \in ProbeType
    BY TypeParts
<1>2. ASSUME row' \in RowType, Emptied', probe' \in ProbeType, faults' \in 0 .. MaxFaults,
             task' = task, pub' = pub
      PROVE  TypeOK'
    <2>1. TypeOK' <=> (/\ row \in RowType /\ Emptied /\ faults \in 0 .. MaxFaults
                       /\ task \in [Handlers -> TaskType] /\ pub \in PubType /\ probe \in ProbeType)'
        BY TypeParts, PTL
    <2> QED BY <1>1, <1>2, <2>1
<1>3. row.failures \in 0 .. Misses BY <1>1 DEF RowType
<1>4. ASSUME NEW dark \in BOOLEAN, NEW missed \in BOOLEAN, ProbeRound(dark, missed)
      PROVE  /\ TypeOK' /\ task' = task /\ pub' = pub /\ row' = row /\ Bright'
             /\ faults' = faults \/ faults' = faults + 1
    <2>1. row' = row /\ task' = task /\ pub' = pub BY <1>4 DEF ProbeRound
    <2>2. faults' \in 0 .. MaxFaults /\ (faults' = faults \/ faults' = faults + 1)
        <3>1. CASE dark \/ missed BY <1>1, <1>4, <3>1, Constants DEF ProbeRound, Fault
        <3>2. CASE ~(dark \/ missed) BY <1>1, <1>4, <3>2 DEF ProbeRound
        <3> QED BY <3>1, <3>2
    <2>3. PICK others \in IF dark THEN {0} ELSE 0 .. Others :
              LET reached == pub.up /\ ~dark /\ ~missed
                  n == others + (IF reached THEN 1 ELSE 0)
                  report == Exists /\ ~IsProbeOutage(n, Others + 1)
              IN  probe' = IF report
                           THEN [pc |-> "report", reached |-> reached, dark |-> dark]
                           ELSE [pc |-> "prune", reached |-> FALSE, dark |-> FALSE]
        BY <1>4 DEF ProbeRound
    <2> DEFINE reached == pub.up /\ ~dark /\ ~missed
               n == others + (IF reached THEN 1 ELSE 0)
               report == Exists /\ ~IsProbeOutage(n, Others + 1)
    <2>4. probe' = IF report THEN [pc |-> "report", reached |-> reached, dark |-> dark]
                             ELSE [pc |-> "prune", reached |-> FALSE, dark |-> FALSE]
        BY <2>3
    <2>5. reached \in BOOLEAN OBVIOUS
    <2>6. dark /\ report => Others + 1 < MinServers
        BY Constants DEF IsProbeOutage
    <2> HIDE DEF reached, n, report
    <2>7. probe' \in ProbeType /\ Bright'
        BY <2>4, <2>5, <2>6 DEF ProbeType, Bright
    <2>8. Emptied' BY <1>1, <2>1 DEF Emptied, Exists
    <2> QED BY <1>1, <1>2, <2>1, <2>2, <2>7, <2>8
<1>5. CASE Observe
    <2> DEFINE n == FailuresAfter(probe.reached)
               new == [row EXCEPT !.failures = n, !.unreachable = n >= Misses,
                                  !.observed = IF n >= Misses THEN 0 ELSE -1]
    <2>1. /\ task' = task /\ pub' = pub /\ faults' = faults /\ probe.pc = "report"
          /\ row' = (IF ~Exists THEN row ELSE new)
          /\ probe' = [pc |-> "prune", reached |-> FALSE, dark |-> FALSE]
        BY <1>5 DEF Observe
    <2>2. n \in 0 .. Misses
        BY <1>3, Constants, CappedIs DEF FailuresAfter
    <2>3. (n >= Misses) \in BOOLEAN /\ (IF n >= Misses THEN 0 ELSE -1) \in Age(Hide)
        BY Constants DEF Age
    <2> HIDE DEF n
    <2>4. new \in RowType /\ new.token = row.token /\ new.seen = row.seen /\ new.late = row.late
        BY <1>1, <2>2, <2>3 DEF RowType
    <2> HIDE DEF new
    <2>5. row' \in RowType /\ Emptied' /\ ProberIs
        BY <1>1, <2>1, <2>4 DEF Emptied, Exists, ProberIs
    <2>6. probe' \in ProbeType /\ Bright' BY <2>1 DEF ProbeType, Bright
    <2> QED BY <1>1, <1>2, <2>1, <2>5, <2>6 DEF Bright
<1>6. CASE Prune
    <2>1. /\ task' = task /\ pub' = pub /\ faults' = faults
          /\ row' = (IF Stale THEN NoRow ELSE row)
          /\ probe' = [pc |-> "sleep", reached |-> FALSE, dark |-> FALSE]
        BY <1>6 DEF Prune
    <2>2. row' \in RowType /\ Emptied' /\ ProberIs /\ ~(row'.failures > row.failures)
        <3>1. CASE Stale
            <4>1. row' = NoRow /\ row.seen >= PruneAge BY <2>1, <3>1 DEF Stale
            <4>2. row' \in RowType BY <4>1, TypesOfNone
            <4>3. row'.failures = 0 BY <4>1 DEF NoRow
            <4> QED BY <1>3, <4>1, <4>2, <4>3 DEF Emptied, ProberIs
        <3>2. CASE ~Stale BY <1>1, <1>3, <2>1, <3>2 DEF Emptied, Exists, ProberIs
        <3> QED BY <3>1, <3>2
    <2>3. probe' \in ProbeType /\ Bright' BY <2>1 DEF ProbeType, Bright
    <2> QED BY <1>1, <1>2, <2>1, <2>2, <2>3
<1>7. ASSUME NEW dark \in BOOLEAN, NEW missed \in BOOLEAN, ProbeRound(dark, missed)
      PROVE  /\ TypeOK' /\ task' = task /\ pub' = pub /\ ProberIs /\ Bright'
             /\ faults' = faults \/ faults' = faults + 1
             /\ ~(row'.failures > row.failures)
    BY <1>3, <1>4, <1>7 DEF ProberIs
<1>8. CASE ProbeRound(FALSE, FALSE) BY <1>7, <1>8
<1>9. CASE ProbeRound(TRUE, FALSE) BY <1>7, <1>9
<1>10. CASE ProbeRound(FALSE, TRUE) BY <1>7, <1>10
<1> QED BY <1>5, <1>6, <1>8, <1>9, <1>10 DEF Probes, Probing

\* An age after a tick.
AgeIs(n, m, cap) == m = IF n = -1 THEN -1 ELSE IF n < cap THEN n + 1 ELSE cap

TickIs ==
    /\ pub.up /\ ~pub.waits => pub.due > 0
    /\ AgeIs(row.seen, row'.seen, PruneAge)
    /\ row'.token = row.token /\ row'.late = row.late /\ row'.failures = row.failures
    /\ \A h \in Handlers :
           /\ task'[h].pc = task[h].pc /\ task'[h].awaited = task[h].awaited
           /\ task'[h].answer = task[h].answer /\ task'[h].sent = task[h].sent
           /\ task'[h].ok = task[h].ok /\ task'[h].issue = task[h].issue
           /\ AgeIs(task[h].seen, task'[h].seen, Recovery)
    /\ pub'.up = pub.up /\ pub'.waits = pub.waits /\ pub'.published = pub.published
    /\ pub'.lost = pub.lost /\ pub'.refused = pub.refused /\ pub'.held = pub.held
    /\ pub'.due = IF pub.due > 0 THEN pub.due - 1 ELSE 0
    /\ pub'.waited = IF pub.waits THEN pub.waited + 1 ELSE 0

LEMMA TickStep ==
    ASSUME DirectoryAssumption, TypeOK, Bright, Tick
    PROVE  TypeOK' /\ Bright' /\ faults' = faults /\ TickIs
<1>1. /\ row \in RowType /\ Emptied /\ task \in [Handlers -> TaskType] /\ pub \in PubType
      /\ faults \in 0 .. MaxFaults /\ probe \in ProbeType
    BY TypeParts
<1>2. /\ pub.due \in Nat /\ pub.waited \in 0 .. Timeout /\ row.seen \in Age(PruneAge)
      /\ row.observed \in Age(Hide) /\ pub.due \in 0 .. Max({Beat, Retry})
    BY <1>1 DEF PubType, RowType
<1>3. /\ row' \in RowType /\ Emptied' /\ AgeIs(row.seen, row'.seen, PruneAge)
      /\ row'.token = row.token /\ row'.late = row.late /\ row'.failures = row.failures
    <2> DEFINE a == Older(row.seen, PruneAge)
               b == Older(row.observed, Hide)
    <2>1. row' = [row EXCEPT !.seen = a, !.observed = b] BY DEF Tick
    <2>2. AgeIs(row.seen, a, PruneAge) /\ AgeIs(row.observed, b, Hide)
        BY <1>2, OlderIs, Constants DEF Age, AgeIs
    <2>3. a \in Age(PruneAge) /\ b \in Age(Hide) BY <1>2, <2>2, Constants DEF Age, AgeIs
    <2> HIDE DEF a, b
    <2>4. /\ row' \in RowType /\ row'.seen = a
          /\ row'.token = row.token /\ row'.late = row.late /\ row'.failures = row.failures
        BY <1>1, <2>1, <2>3 DEF RowType
    <2>5. Emptied'
        <3>1. CASE Exists BY <1>2, <2>2, <2>4, <3>1, Constants DEF Exists, AgeIs, Age, Emptied
        <3>2. CASE ~Exists
            <4>1. row \in {NoRow, [NoRow EXCEPT !.late = TRUE]} BY <1>1, <3>2 DEF Emptied
            <4>2. row.seen = -1 /\ row.observed = -1 BY <4>1 DEF NoRow
            <4>3. a = -1 /\ b = -1 BY <2>2, <4>2 DEF AgeIs
            <4>4. row' = row BY <1>1, <2>1, <4>2, <4>3 DEF RowType
            <4> QED BY <4>1, <4>4 DEF Emptied
        <3> QED BY <3>1, <3>2
    <2> QED BY <2>2, <2>4, <2>5
<1>4. ASSUME NEW h \in Handlers
      PROVE  /\ task'[h] \in TaskType
             /\ task'[h].pc = task[h].pc /\ task'[h].awaited = task[h].awaited
             /\ task'[h].answer = task[h].answer /\ task'[h].sent = task[h].sent
             /\ task'[h].ok = task[h].ok /\ task'[h].issue = task[h].issue
             /\ AgeIs(task[h].seen, task'[h].seen, Recovery)
    <2> DEFINE a == Older(task[h].seen, Recovery)
    <2>1. task'[h] = [task[h] EXCEPT !.seen = a] BY DEF Tick
    <2>2. task[h] \in TaskType /\ task[h].seen \in Age(Max({Recovery, PruneAge}))
        BY <1>1 DEF TaskType
    <2>3. AgeIs(task[h].seen, a, Recovery) BY <2>2, OlderIs, Constants DEF Age, AgeIs
    <2>4. a \in Age(Max({Recovery, PruneAge}))
        BY <2>2, <2>3, MaxOfTwo, Constants DEF Age, AgeIs
    <2> HIDE DEF a
    <2> QED BY <2>1, <2>2, <2>3, <2>4 DEF TaskType
<1>5. task' \in [Handlers -> TaskType] BY <1>4 DEF Tick
<1>6. /\ pub' \in PubType
      /\ pub'.up = pub.up /\ pub'.waits = pub.waits /\ pub'.published = pub.published
      /\ pub'.lost = pub.lost /\ pub'.refused = pub.refused /\ pub'.held = pub.held
      /\ pub'.due = IF pub.due > 0 THEN pub.due - 1 ELSE 0
      /\ pub'.waited = IF pub.waits THEN pub.waited + 1 ELSE 0
    <2> DEFINE d == Max({0, pub.due - 1})
               w == IF pub.waits THEN pub.waited + 1 ELSE 0
    <2>1. pub' = [pub EXCEPT !.due = d, !.waited = w] BY DEF Tick
    <2>2. d = (IF pub.due > 0 THEN pub.due - 1 ELSE 0) BY <1>2, MaxOfTwo
    <2>3. d \in 0 .. Max({Beat, Retry}) BY <1>2, <2>2, MaxOfTwo, Constants
    <2>4. w \in 0 .. Timeout BY <1>2, Constants DEF Tick
    <2> HIDE DEF d, w
    <2>5. pub' \in PubType BY <1>1, <2>1, <2>3, <2>4 DEF PubType
    <2>6. /\ pub'.up = pub.up /\ pub'.waits = pub.waits /\ pub'.published = pub.published
          /\ pub'.lost = pub.lost /\ pub'.refused = pub.refused /\ pub'.held = pub.held
          /\ pub'.due = d /\ pub'.waited = w
        BY <1>1, <2>1 DEF PubType
    <2> QED BY <2>2, <2>5, <2>6 DEF w
<1>7. probe' \in ProbeType /\ Bright'
    <2> DEFINE q == IF probe.pc = "sleep" THEN "idle" ELSE probe.pc
    <2>1. probe' = [probe EXCEPT !.pc = q] BY DEF Tick
    <2>2. q \in {"idle", "report", "prune", "sleep"} /\ (probe.pc = "report" => q = "report")
        BY <1>1 DEF ProbeType
    <2> HIDE DEF q
    <2> QED BY <1>1, <2>1, <2>2 DEF ProbeType, Bright
<1>8. faults' = faults /\ (pub.up /\ ~pub.waits => pub.due > 0) BY DEF Tick
<1>9. TypeOK' <=> (/\ row \in RowType /\ Emptied /\ faults \in 0 .. MaxFaults
                   /\ task \in [Handlers -> TaskType] /\ pub \in PubType /\ probe \in ProbeType)'
    BY TypeParts, PTL
<1>10. TypeOK' BY <1>1, <1>3, <1>5, <1>6, <1>7, <1>8, <1>9
<1> QED BY <1>3, <1>4, <1>6, <1>7, <1>8, <1>10 DEF TickIs

-----------------------------------------------------------------------------
(* Ages and times are numbers. *)

Numbers ==
    /\ row.seen \in Int /\ -1 =< row.seen /\ row.seen =< PruneAge /\ row.late \in BOOLEAN
    /\ pub.due \in Nat /\ pub.waited \in Nat /\ pub.waited =< Timeout
    /\ pub.lost \in Nat /\ pub.lost =< Tolerated + 1
    /\ pub.up \in BOOLEAN /\ pub.waits \in BOOLEAN /\ pub.published \in BOOLEAN
    /\ pub.refused \in BOOLEAN
    /\ \A h \in Handlers : /\ task[h].seen \in Int /\ -1 =< task[h].seen
                           /\ task[h].awaited \in BOOLEAN /\ task[h].ok \in BOOLEAN

LEMMA NumbersHold ==
    ASSUME DirectoryAssumption, TypeOK
    PROVE  Numbers
<1>1. row \in RowType /\ task \in [Handlers -> TaskType] /\ pub \in PubType
    BY TypeParts
<1>2. row.seen \in Age(PruneAge) /\ row.late \in BOOLEAN BY <1>1 DEF RowType
<1>3. /\ pub.due \in 0 .. Max({Beat, Retry}) /\ pub.waited \in 0 .. Timeout
      /\ pub.lost \in 0 .. Tolerated + 1 /\ pub.up \in BOOLEAN /\ pub.waits \in BOOLEAN
      /\ pub.published \in BOOLEAN /\ pub.refused \in BOOLEAN
    BY <1>1 DEF PubType
<1>4. \A h \in Handlers : /\ task[h].seen \in Age(Max({Recovery, PruneAge}))
                         /\ task[h].awaited \in BOOLEAN /\ task[h].ok \in BOOLEAN
    BY <1>1 DEF TaskType
<1> QED BY <1>2, <1>3, <1>4, Constants DEF Age, Numbers

LEMMA SlackGrows ==
    ASSUME DirectoryAssumption, NEW k \in Nat
    PROVE  /\ Slack(k) \in Nat /\ Slack(0) = 0
           /\ Slack(k + 1) = Slack(k) + Retry + Timeout
           /\ k =< Tolerated => Slack(k) =< Slack(Tolerated)
<1>1. Retry + Timeout \in Nat BY Constants
<1>2. \A m, n, c \in Nat : m * c \in Nat /\ (m + n) * c = m * c + n * c
    OBVIOUS
<1>3. Slack(k) \in Nat /\ Slack(0) = 0 /\ Slack(k + 1) = Slack(k) + Retry + Timeout
    BY <1>1, <1>2, Constants DEF Slack
<1>4. ASSUME k =< Tolerated PROVE Slack(k) =< Slack(Tolerated)
    <2>1. Tolerated - k \in Nat /\ Tolerated = k + (Tolerated - k) BY <1>4, Constants
    <2>2. (k + (Tolerated - k)) * (Retry + Timeout)
             = k * (Retry + Timeout) + (Tolerated - k) * (Retry + Timeout)
        BY <1>1, <1>2, <2>1
    <2>3. (Tolerated - k) * (Retry + Timeout) \in Nat BY <1>1, <1>2, <2>1
    <2>4. k * (Retry + Timeout) \in Nat BY <1>1, <1>2
    <2>5. Tolerated * (Retry + Timeout)
             = k * (Retry + Timeout) + (Tolerated - k) * (Retry + Timeout)
        BY <2>1, <2>2
    <2> QED BY <2>3, <2>4, <2>5 DEF Slack
<1> QED BY <1>3, <1>4

\* As long as it has lost no more heartbeats than are tolerated, the row of a
\* server is fresh, and not pruned.
LEMMA KeptIsFresh ==
    ASSUME DirectoryAssumption, Numbers, Kept, pub.up, pub.published, pub.lost =< Tolerated
    PROVE  row.late \/ (Exists /\ row.seen =< Fresh /\ row.seen < PruneAge)
<1>1. Slack(pub.lost) \in Nat /\ Slack(pub.lost) =< Slack(Tolerated)
      /\ Slack(Tolerated) \in Nat
    BY SlackGrows, Constants DEF Numbers
<1>2. Beat + 2 * Timeout + Slack(Tolerated) =< Fresh /\ Fresh < PruneAge
    BY DEF DirectoryAssumption, Slack
<1>3. Ahead \in Int /\ Ahead >= -Timeout BY Constants DEF Numbers, Ahead
<1>4. row.late \/ (Exists /\ row.seen + Ahead =< Beat + Timeout + Slack(pub.lost))
    BY DEF Kept
<1>5. ASSUME row.seen + Ahead =< Beat + Timeout + Slack(pub.lost)
      PROVE  row.seen =< Fresh /\ row.seen < PruneAge
    BY <1>1, <1>2, <1>3, <1>5, Constants DEF Numbers
<1> QED BY <1>4, <1>5

LEMMA TimeoutIsFresh ==
    ASSUME DirectoryAssumption
    PROVE  Timeout < PruneAge
<1>1. Slack(Tolerated) \in Nat BY SlackGrows, Constants
<1>2. Beat + 2 * Timeout + Slack(Tolerated) =< Fresh /\ Fresh < PruneAge
    BY DEF DirectoryAssumption, Slack
<1> QED BY <1>1, <1>2, Constants

-----------------------------------------------------------------------------
(* The invariant holds on: steps of the handlers. *)

HandlerMoves(h) ==
    /\ \A g \in Handlers \ {h} : task'[g] = task[g]
    /\ pub' = pub /\ HandlerIs(h)

LEMMA HandlerKeepsTasks ==
    ASSUME DirectoryAssumption, IInv, NEW h \in Handlers, HandlerMoves(h), Numbers
    PROVE  Single' /\ Late' /\ Due'
<1>1. /\ task[h].awaited \in BOOLEAN /\ pub' = pub
      /\ \A g \in Handlers \ {h} : task'[g] = task[g]
    BY DEF Numbers, HandlerMoves
<1>2. /\ task'[h].pc = "none" => ~task'[h].awaited
      /\ task'[h].pc = "answered" => task'[h].awaited
      /\ task'[h].awaited => task[h].awaited
      /\ task'[h].awaited =>
             /\ task'[h].pc \in Registering => task[h].pc \in Registering
             /\ task'[h].pc \in Unregistering => task[h].pc \in Unregistering
    <2>1. CASE ReadRowIs(h) BY <2>1 DEF ReadRowIs, Moved, Registering, Unregistering
    <2>2. CASE ReadHashIs(h) BY <2>2 DEF ReadHashIs, Reply, Moved, Registering, Unregistering
    <2>3. CASE UpsertIs(h) BY <2>3 DEF UpsertIs, Went, Moved, Registering, Unregistering
    <2>4. CASE RereadIs(h) BY <2>4 DEF RereadIs, Reply, Moved, Registering, Unregistering
    <2>5. CASE SetTokenIs(h) BY <2>5 DEF SetTokenIs, Reply, Registering, Unregistering
    <2>6. CASE UnregisterIs(h) BY <2>6 DEF UnregisterIs, Reply, Went, Moved, Registering, Unregistering
    <2>7. CASE DeleteIs(h) BY <2>7 DEF DeleteIs, Reply, Registering, Unregistering
    <2>8. CASE DropIs(h) BY <2>8 DEF DropIs, Registering, Unregistering
    <2> QED BY <2>1, <2>2, <2>3, <2>4, <2>5, <2>6, <2>7, <2>8 DEF HandlerMoves, HandlerIs
<1>3. Single' BY <1>1, <1>2 DEF IInv, Single
<1>4. Late'
    <2>1. CASE row' = row BY <2>1 DEF IInv, Late, Exists
    <2>2. CASE UpsertIs(h) BY <2>2 DEF UpsertIs, IInv, Late
    <2>3. CASE SetTokenIs(h) BY <2>3 DEF SetTokenIs, IInv, Late, Exists
    <2>4. CASE DeleteIs(h) BY <2>4 DEF DeleteIs, Late
    <2> QED BY <2>1, <2>2, <2>3, <2>4 DEF HandlerMoves, HandlerIs, ReadRowIs, ReadHashIs,
               RereadIs, UnregisterIs, DropIs
<1>5. Due' BY <1>1 DEF IInv, Due
<1> QED BY <1>3, <1>4, <1>5

\* A handler that runs for a publisher that is up leaves the row, or makes it
\* anew, or takes it late.
LEMMA HandlerAges ==
    ASSUME DirectoryAssumption, IInv, NEW h \in Handlers, HandlerMoves(h), Numbers, pub.up
    PROVE  \/ row'.seen = row.seen /\ row'.late = row.late
           \/ Exists' /\ row'.seen = 0
           \/ row'.late /\ row'.seen = -1
<1>1. CASE row' = row BY <1>1
<1>2. CASE UpsertIs(h) BY <1>2 DEF UpsertIs
<1>3. CASE SetTokenIs(h) BY <1>3 DEF SetTokenIs
<1>4. CASE DeleteIs(h)
    <2>1. ~task[h].awaited BY <1>4 DEF DeleteIs, IInv, Single, Unregistering
    <2> QED BY <1>4, <2>1 DEF DeleteIs
<1> QED BY <1>1, <1>2, <1>3, <1>4 DEF HandlerMoves, HandlerIs, ReadRowIs, ReadHashIs,
               RereadIs, UnregisterIs, DropIs

LEMMA HandlerKeepsAges ==
    ASSUME DirectoryAssumption, IInv, NEW h \in Handlers, HandlerMoves(h), Numbers
    PROVE  Refreshed' /\ Kept' /\ RefusedYoung' /\ Locked' /\ ReadRight'
<1>1. pub' = pub /\ \A g \in Handlers \ {h} : task'[g] = task[g]
    BY DEF HandlerMoves
<1>2. pub.up => \/ row'.seen = row.seen /\ row'.late = row.late
                \/ Exists' /\ row'.seen = 0
                \/ row'.late /\ row'.seen = -1
    BY HandlerAges
<1>3. Refreshed'
    <2> SUFFICES ASSUME pub.up, NEW g \in Handlers, task'[g].awaited,
                        \/ task'[g].pc \in {"reread", "issue"}
                        \/ task'[g].pc = "answered" /\ task'[g].answer = "ok"
                 PROVE  row'.late \/ (Exists' /\ row'.seen =< pub.waited)
        BY <1>1 DEF Refreshed
    <2>1. CASE g # h
        <3>1. row.late \/ (Exists /\ row.seen =< pub.waited)
            BY <1>1, <2>1 DEF IInv, Refreshed
        <3> QED BY <1>2, <3>1 DEF Exists, Numbers
    <2>2. CASE g = h
        <3>1. CASE UpsertIs(h) BY <3>1 DEF UpsertIs, Numbers
        <3>2. CASE RereadIs(h) \/ SetTokenIs(h)
            <4>1. task[h].awaited /\ task[h].pc \in {"reread", "issue"}
                BY <2>2, <3>2 DEF RereadIs, SetTokenIs, Reply, Moved
            <4>2. row.late \/ (Exists /\ row.seen =< pub.waited)
                BY <4>1 DEF IInv, Refreshed
            <4> QED BY <1>2, <4>2 DEF Exists, Numbers
        <3>3. CASE ReadRowIs(h) \/ ReadHashIs(h) \/ UnregisterIs(h) \/ DropIs(h)
            BY <2>2, <3>3 DEF ReadRowIs, ReadHashIs, UnregisterIs, DropIs, Reply, Went, Moved
        <3>4. CASE DeleteIs(h)
            <4>1. task[h].awaited BY <2>2, <3>4 DEF DeleteIs, Reply
            <4> QED BY <3>4, <4>1 DEF DeleteIs, IInv, Single, Unregistering
        <3> QED BY <3>1, <3>2, <3>3, <3>4 DEF HandlerMoves, HandlerIs
    <2> QED BY <2>1, <2>2
<1>4. Kept'
    <2> SUFFICES ASSUME pub.up, pub.published, pub.lost =< Tolerated
                 PROVE  row'.late \/ (Exists' /\ row'.seen + Ahead =< Beat + Timeout + Slack(pub.lost))
        BY <1>1 DEF Kept, Ahead
    <2>1. Slack(pub.lost) \in Nat /\ (pub.lost # 0 => Slack(pub.lost) >= Retry)
        <3>1. Slack(pub.lost) \in Nat BY SlackGrows DEF Numbers
        <3>2. ASSUME pub.lost # 0 PROVE Slack(pub.lost) >= Retry
            <4>1. pub.lost - 1 \in Nat /\ (pub.lost - 1) + 1 = pub.lost BY <3>2 DEF Numbers
            <4>2. Slack(pub.lost - 1) \in Nat
                  /\ Slack((pub.lost - 1) + 1) = Slack(pub.lost - 1) + Retry + Timeout
                BY <4>1, SlackGrows
            <4> QED BY <4>1, <4>2, Constants
        <3> QED BY <3>1, <3>2
    <2>2. Ahead \in Int /\ Ahead =< Beat + Timeout + Slack(pub.lost)
        BY <2>1, Constants DEF IInv, Due, Ahead, Numbers
    <2>3. row.late \/ (Exists /\ row.seen + Ahead =< Beat + Timeout + Slack(pub.lost))
        BY DEF IInv, Kept
    <2>4. ASSUME row'.seen = 0 PROVE row'.seen + Ahead =< Beat + Timeout + Slack(pub.lost)
        BY <2>2, <2>4
    <2> QED BY <1>2, <2>3, <2>4 DEF Exists
<1>5. RefusedYoung'
    <2> SUFFICES ASSUME pub.up, NEW g \in Handlers, task'[g].pc = "answered", task'[g].answer # "ok"
                 PROVE  row'.seen < Recovery + pub.waited
        BY <1>1 DEF RefusedYoung
    <2>1. 0 < Recovery + pub.waited /\ -1 < Recovery + pub.waited BY Constants DEF Numbers
    <2>2. CASE g # h
        <3>1. row.seen < Recovery + pub.waited
            BY <1>1, <2>2 DEF IInv, RefusedYoung
        <3> QED BY <1>2, <2>1, <3>1
    <2>3. CASE g = h
        <3>1. CASE ReadHashIs(h)
            <4>1. row' = row /\ Protects(task[h].seen) /\ task[h].pc = "hash"
                BY <2>3, <3>1 DEF ReadHashIs, Moved
            <4>2. task[h].seen # -1 /\ task[h].seen < Recovery BY <4>1 DEF Protects
            <4>3. row.seen =< task[h].seen BY <4>1, <4>2 DEF IInv, ReadRight
            <4>4. row.seen < Recovery + pub.waited BY <4>2, <4>3, Constants DEF Numbers
            <4> QED BY <4>1, <4>4
        <3>2. CASE RereadIs(h)
            <4>1. ~Exists /\ row' = row BY <2>3, <3>2 DEF RereadIs, Reply, Moved
            <4> QED BY <2>1, <4>1 DEF Exists
        <3>3. CASE UnregisterIs(h)
            <4>1. task[h].awaited BY <2>3, <3>3 DEF UnregisterIs, Reply, Went, Moved
            <4> QED BY <3>3, <4>1 DEF UnregisterIs, IInv, Single, Unregistering
        <3>4. CASE ReadRowIs(h) \/ UpsertIs(h) \/ SetTokenIs(h) \/ DeleteIs(h) \/ DropIs(h)
            BY <2>3, <3>4 DEF ReadRowIs, UpsertIs, SetTokenIs, DeleteIs, DropIs, Reply, Went, Moved
        <3> QED BY <3>1, <3>2, <3>3, <3>4 DEF HandlerMoves, HandlerIs
    <2> QED BY <2>2, <2>3
<1>6. Locked'
    <2> SUFFICES ASSUME pub.up, pub.refused
                 PROVE  pub.lost > 0 /\ row'.seen + Ahead < Recovery + Timeout + Retry
        BY <1>1 DEF Locked, Ahead
    <2>1. pub.lost > 0 /\ row.seen + Ahead < Recovery + Timeout + Retry
        BY DEF IInv, Locked
    <2>2. Ahead \in Int /\ Ahead =< Retry
        BY <2>1, Constants DEF IInv, Due, Ahead, Numbers
    <2>3. ASSUME row'.seen \in {0, -1} PROVE row'.seen + Ahead < Recovery + Timeout + Retry
        BY <2>2, <2>3, Constants
    <2> QED BY <1>2, <2>1, <2>3
<1>7. ReadRight'
    <2> SUFFICES ASSUME NEW g \in Handlers, task'[g].pc = "hash", task'[g].seen # -1,
                        task'[g].seen < Recovery
                 PROVE  row'.seen =< task'[g].seen
        BY DEF ReadRight
    <2>1. CASE ReadRowIs(h)
        <3>1. CASE g = h BY <2>1, <3>1 DEF ReadRowIs, Numbers
        <3>2. CASE g # h BY <1>1, <2>1, <3>2 DEF ReadRowIs, IInv, ReadRight
        <3> QED BY <3>1, <3>2
    <2>2. CASE ~ReadRowIs(h)
        <3>1. g # h
            BY <2>2 DEF HandlerMoves, HandlerIs, ReadHashIs, UpsertIs, RereadIs, SetTokenIs, UnregisterIs,
                        DeleteIs, DropIs, Reply, Went, Moved
        <3>2. row.seen =< task[g].seen /\ task'[g] = task[g] BY <1>1, <3>1 DEF IInv, ReadRight
        <3>3. row'.seen = row.seen \/ row'.seen \in {0, -1}
            BY <2>2 DEF HandlerMoves, HandlerIs, ReadHashIs, UpsertIs, RereadIs, SetTokenIs, UnregisterIs,
                        DeleteIs, DropIs
        <3>4. task[g].seen >= 0 /\ task[g].seen \in Int BY <3>2 DEF Numbers
        <3> QED BY <3>2, <3>3, <3>4
    <2> QED BY <2>1, <2>2
<1> QED BY <1>3, <1>4, <1>5, <1>6, <1>7

LEMMA NoRowNoToken ==
    ASSUME TypeOK, ~Exists
    PROVE  row.token = None
<1>1. row \in {NoRow, [NoRow EXCEPT !.late = TRUE]} BY TypeParts DEF Emptied
<1> QED BY <1>1 DEF NoRow

\* What a step of the handler that is awaited makes of a run without faults.
QuietStep(h) ==
    /\ task'[h].awaited /\ ~row'.late
    /\ pub.up /\ pub.published => Owns' /\ Again(task[h])'
    /\ pub.up /\ ~pub.published => First(task[h])'
    /\ ~pub.up => Last(task[h])'

LEMMA HandlerIsQuiet ==
    ASSUME DirectoryAssumption, IInv, NEW h \in Handlers, HandlerMoves(h), Numbers,
           faults = 0, task[h].awaited
    PROVE  QuietStep(h)
<1>1. /\ pub.waits /\ ~row.late /\ pub' = pub
      /\ task[h].pc \in Registering => pub.up
      /\ task[h].pc \in Unregistering => ~pub.up
    BY DEF IInv, Single, Quiet, Serial, HandlerMoves
<1>2. /\ pub.up /\ pub.published => Owns /\ Again(task[h])
      /\ pub.up /\ ~pub.published => First(task[h])
      /\ ~pub.up => Last(task[h])
    BY <1>1 DEF IInv, Quiet
<1>3. ~Exists => row.token = None BY NoRowNoToken DEF IInv
<1>4. Owns' <=> Exists' /\ row'.token # None /\ row'.token = pub.held
    BY <1>1 DEF Owns
<1>5. row' = row => (Owns' <=> Owns) /\ (Exists' <=> Exists)
    BY <1>4 DEF Owns, Exists
<1>6. CASE ReadRowIs(h)
    BY <1>1, <1>2, <1>5, <1>6 DEF ReadRowIs, Moved, QuietStep, Again, First, Registering
<1>7. CASE ReadHashIs(h)
    <2>1. task[h].pc = "hash" /\ row' = row /\ pub.up
        BY <1>1, <1>7 DEF ReadHashIs, Registering
    <2>2. /\ pub.published => task[h].sent # None /\ task[h].sent = row.token
          /\ ~pub.published => row.token = None
        BY <1>2, <1>3, <2>1 DEF Again, First, Owns
    <2>3. /\ Moved(task[h], task'[h], "upsert") /\ task'[h].issue = task[h].issue
          /\ task'[h].ok = (task[h].sent # None /\ task[h].sent = row.token)
        BY <1>7, <2>2 DEF ReadHashIs, Protects
    <2> QED BY <1>1, <1>2, <1>5, <2>1, <2>2, <2>3 DEF Moved, QuietStep, Again, First
<1>8. CASE UpsertIs(h)
    <2>1. /\ task[h].pc = "upsert" /\ pub.up /\ Exists' /\ ~row'.late
          /\ row'.token = IF Exists THEN row.token ELSE None
        BY <1>1, <1>8 DEF UpsertIs, Registering
    <2>2. /\ Moved(task[h], task'[h], "reread") /\ task'[h].ok = task[h].ok
          /\ task'[h].issue = task[h].issue
        BY <1>8 DEF UpsertIs, Went
    <2>3. CASE pub.published
        <3>1. Owns' BY <1>2, <1>4, <2>1, <2>3 DEF Owns
        <3> QED BY <1>1, <1>2, <2>1, <2>2, <2>3, <3>1 DEF Moved, QuietStep, Again
    <2>4. CASE ~pub.published
        BY <1>1, <1>2, <2>1, <2>2, <2>4 DEF Moved, QuietStep, First
    <2> QED BY <2>3, <2>4
<1>9. CASE RereadIs(h)
    <2>1. task[h].pc = "reread" /\ row' = row /\ pub.up
        BY <1>1, <1>9 DEF RereadIs, Registering
    <2>2. Exists /\ (pub.published => task[h].ok) /\ (~pub.published => ~task[h].ok)
        BY <1>2, <2>1 DEF Again, First, Owns
    <2>3. CASE pub.published
        <3>1. Reply(h, "ok") BY <1>9, <2>2, <2>3 DEF RereadIs
        <3> QED BY <1>1, <1>2, <1>5, <2>1, <2>3, <3>1 DEF Reply, QuietStep, Again
    <2>4. CASE ~pub.published
        <3>1. Moved(task[h], task'[h], "issue") /\ task'[h].issue \in Tokens
              /\ task'[h].ok = task[h].ok
            BY <1>9, <2>2, <2>4 DEF RereadIs
        <3>2. task'[h].issue # None BY <3>1 DEF DirectoryAssumption, None
        <3> QED BY <1>1, <1>2, <1>5, <2>1, <2>2, <2>4, <3>1, <3>2 DEF Moved, QuietStep, First
    <2> QED BY <2>3, <2>4
<1>10. CASE SetTokenIs(h)
    <2>1. task[h].pc = "issue" /\ pub.up /\ Reply(h, "ok")
        BY <1>1, <1>10 DEF SetTokenIs, Registering
    <2>2. ~pub.published /\ First(task[h]) BY <1>2, <2>1 DEF Again
    <2>3. Exists /\ task[h].issue # None BY <2>1, <2>2 DEF First
    <2>4. Exists' /\ ~row'.late /\ row'.token = task[h].issue
        BY <1>1, <1>10, <2>3 DEF SetTokenIs, Exists
    <2> QED BY <1>1, <2>1, <2>2, <2>3, <2>4 DEF Reply, QuietStep, First
<1>11. CASE UnregisterIs(h)
    <2>1. task[h].pc = "unregister" /\ row' = row /\ ~pub.up
        BY <1>1, <1>11 DEF UnregisterIs, Unregistering
    <2>2. Exists => task[h].sent = row.token BY <1>2, <2>1 DEF Last
    <2>3. Went(h, "delete") BY <1>3, <1>11, <2>2 DEF UnregisterIs
    <2> QED BY <1>1, <2>1, <2>3 DEF Went, Moved, QuietStep, Last
<1>12. CASE DeleteIs(h)
    <2>1. ~pub.up /\ Reply(h, "ok") /\ ~Exists' /\ ~row'.late
        BY <1>1, <1>12 DEF DeleteIs, Unregistering
    <2> QED BY <2>1 DEF Reply, QuietStep, Last
<1>13. CASE DropIs(h) BY <1>13 DEF DropIs
<1> QED BY <1>6, <1>7, <1>8, <1>9, <1>10, <1>11, <1>12, <1>13 DEF HandlerMoves, HandlerIs

LEMMA HandlerKeepsQuiet ==
    ASSUME DirectoryAssumption, IInv, NEW h \in Handlers, HandlerMoves(h), Numbers, faults' = faults
    PROVE  Quiet'
<1> SUFFICES ASSUME faults = 0
             PROVE  /\ Serial' /\ Idle'
                    /\ pub'.up /\ pub'.published /\ pub'.waits => Owns'
                    /\ \A g \in Handlers : task'[g].awaited =>
                           IF ~pub'.up THEN Last(task[g])'
                           ELSE IF pub'.published THEN Again(task[g])' ELSE First(task[g])'
    BY DEF Quiet
<1>1. pub' = pub /\ \A g \in Handlers \ {h} : task'[g] = task[g]
    BY DEF HandlerMoves
<1>2. Serial /\ Idle /\ (pub.up /\ pub.published /\ pub.waits => Owns)
    BY DEF IInv, Quiet
<1>3. CASE task[h].awaited
    <2>1. QuietStep(h) BY <1>3, HandlerIsQuiet
    <2>2. pub.waits BY <1>3 DEF IInv, Single
    <2>3. \A g \in Handlers \ {h} : task[g].pc = "none" /\ ~task[g].awaited
        BY <1>2, <1>3 DEF Serial, IInv, Single
    <2>4. Serial' /\ Idle' BY <1>1, <1>2, <2>1, <2>2, <2>3 DEF Serial, QuietStep, Idle
    <2> QED BY <1>1, <2>1, <2>3, <2>4 DEF QuietStep
<1>4. CASE ~task[h].awaited
    <2>1. task[h].pc = "none" BY <1>2, <1>4 DEF Serial
    <2>2. DropIs(h)
        BY <2>1 DEF HandlerMoves, HandlerIs, ReadRowIs, ReadHashIs, UpsertIs, RereadIs, SetTokenIs, UnregisterIs, DeleteIs
    <2>3. row' = row /\ task'[h].pc = "none" /\ ~task'[h].awaited BY <2>2 DEF DropIs
    <2>4. Serial' /\ Idle' BY <1>1, <1>2, <2>3 DEF Serial, Idle, Owns, Exists
    <2>5. pub'.up /\ pub'.published /\ pub'.waits => Owns'
        BY <1>1, <1>2, <2>3 DEF Owns, Exists
    <2>6. ASSUME NEW g \in Handlers, task'[g].awaited
          PROVE  IF ~pub'.up THEN Last(task[g])'
                 ELSE IF pub'.published THEN Again(task[g])' ELSE First(task[g])'
        <3>1. g # h /\ task'[g] = task[g] /\ task[g].awaited BY <1>1, <2>3, <2>6
        <3>2. IF ~pub.up THEN Last(task[g])
              ELSE IF pub.published THEN Again(task[g]) ELSE First(task[g])
            BY <3>1 DEF IInv, Quiet
        <3> QED BY <1>1, <2>3, <3>1, <3>2 DEF Last, Again, First, Owns, Exists
    <2> QED BY <2>4, <2>5, <2>6
<1> QED BY <1>3, <1>4, <1>1 DEF Numbers
-----------------------------------------------------------------------------
(* ... steps of the publisher, ... *)

\* The publisher leaves no handler awaited but the one it calls.
LEMMA PublisherTasks ==
    ASSUME IInv, PublisherIs, NEW g \in Handlers
    PROVE  \/ task'[g] = task[g] /\ ~task[g].awaited
           \/ Orphaned(task[g], task'[g])
           \/ /\ Sends(g, "get", task'[g].sent) /\ pub'.waits /\ pub'.up
              /\ \A h \in Handlers \ {g} : task'[h] = task[h] /\ ~task[h].awaited
           \/ /\ Sends(g, "unregister", task'[g].sent) /\ pub'.waits /\ ~pub'.up
              /\ \A h \in Handlers \ {g} : task'[h] = task[h] /\ ~task[h].awaited
<1>1. ASSUME ~pub.waits, NEW h \in Handlers PROVE ~task[h].awaited
    BY <1>1 DEF IInv, Single
<1>2. CASE StartIs BY <1>1, <1>2 DEF StartIs, Sends
<1>3. CASE PublishIs BY <1>1, <1>3 DEF PublishIs, Sends
<1>4. CASE StopIs BY <1>1, <1>4 DEF StopIs, Sends, IsDown
<1>5. CASE CrashIs BY <1>5 DEF CrashIs
<1>6. ASSUME NEW h \in Handlers, ReceiveIs(h) \/ GiveUpIs(h)
      PROVE  \/ task'[g] = task[g] /\ ~task[g].awaited
             \/ Orphaned(task[g], task'[g])
    <2>1. task[h].awaited BY <1>6 DEF ReceiveIs, GiveUpIs, IInv, Single
    <2>2. Orphaned(task[h], task'[h]) BY <1>6 DEF ReceiveIs, GiveUpIs, Orphaned
    <2>3. g # h => task'[g] = task[g] /\ ~task[g].awaited
        BY <1>6, <2>1 DEF ReceiveIs, GiveUpIs, IInv, Single
    <2> QED BY <2>2, <2>3
<1> QED BY <1>2, <1>3, <1>4, <1>5, <1>6 DEF PublisherIs

LEMMA PublisherKeepsTasks ==
    ASSUME DirectoryAssumption, IInv, row' = row, PublisherIs, Numbers
    PROVE  /\ Single' /\ Late' /\ Due' /\ ReadRight'
           /\ \A g \in Handlers : pub'.up /\ task'[g].awaited => task'[g].pc = "get"
<1>1. ASSUME NEW g \in Handlers
      PROVE  /\ task'[g].pc = "none" => ~task'[g].awaited
             /\ task'[g].pc = "answered" => task'[g].awaited
             /\ task'[g].pc = "hash" => task[g].pc = "hash" /\ task'[g].seen = task[g].seen
             /\ task'[g].awaited =>
                    /\ pub'.waits
                    /\ task'[g].pc = IF pub'.up THEN "get" ELSE "unregister"
                    /\ \A h \in Handlers \ {g} : ~task'[h].awaited
    <2>1. CASE task'[g] = task[g] /\ ~task[g].awaited BY <2>1 DEF IInv, Single
    <2>2. CASE Orphaned(task[g], task'[g]) BY <2>2 DEF Orphaned
    <2>3. CASE /\ Sends(g, "get", task'[g].sent) /\ pub'.waits /\ pub'.up
               /\ \A h \in Handlers \ {g} : task'[h] = task[h] /\ ~task[h].awaited
        BY <2>3 DEF Sends
    <2>4. CASE /\ Sends(g, "unregister", task'[g].sent) /\ pub'.waits /\ ~pub'.up
               /\ \A h \in Handlers \ {g} : task'[h] = task[h] /\ ~task[h].awaited
        BY <2>4 DEF Sends
    <2> QED BY <2>1, <2>2, <2>3, <2>4, PublisherTasks
<1>2. Single'
    <2>1. \A g, h \in Handlers : task'[g].awaited /\ task'[h].awaited => g = h BY <1>1
    <2> QED BY <1>1, <2>1 DEF Single, Registering, Unregistering
<1>3. Late' BY DEF IInv, Late, Exists
<1>4. Due'
    <2>1. \A t, a : ToldIs(t, a) => Due'
        BY Constants DEF ToldIs, IsDown, Due, Numbers
    <2>2. IsDown => Due' BY Constants DEF IsDown, Due
    <2>3. StartIs \/ PublishIs => Due' BY Constants DEF StartIs, PublishIs, IInv, Due
    <2> QED BY <2>1, <2>2, <2>3 DEF PublisherIs, CrashIs, ReceiveIs, GiveUpIs, StopIs
<1>5. ReadRight' BY <1>1 DEF IInv, ReadRight
<1> QED BY <1>1, <1>2, <1>3, <1>4, <1>5

LEMMA PublisherKeepsAges ==
    ASSUME DirectoryAssumption, IInv, row' = row, PublisherIs, Numbers
    PROVE  Refreshed' /\ Kept' /\ RefusedYoung' /\ Locked'
<1>1. \A g \in Handlers : pub'.up /\ task'[g].awaited => task'[g].pc = "get"
    BY PublisherKeepsTasks
<1>2. Single' BY PublisherKeepsTasks
<1>3. Refreshed' BY <1>1 DEF Refreshed
<1>4. RefusedYoung' BY <1>1, <1>2 DEF RefusedYoung, Single
<1>5. ASSUME NEW h \in Handlers, ReceiveIs(h) \/ GiveUpIs(h), pub.up
      PROVE  pub.waits /\ Ahead = 0 - pub.waited /\ Ahead' = pub'.due
    <2>1. task[h].awaited BY <1>5 DEF ReceiveIs, GiveUpIs, IInv, Single
    <2>2. pub.waits BY <2>1 DEF IInv, Single
    <2>3. ~pub'.waits BY <1>5 DEF ReceiveIs, GiveUpIs, ToldIs
    <2> QED BY <2>2, <2>3 DEF Ahead
<1>6. Kept'
    <2> SUFFICES ASSUME pub'.up, pub'.published, pub'.lost =< Tolerated
                 PROVE  row.late \/ (Exists /\ row.seen + Ahead' =< Beat + Timeout + Slack(pub'.lost))
        BY DEF Kept, Exists
    <2>1. CASE PublishIs
        <3>1. row.late \/ (Exists /\ row.seen + Ahead =< Beat + Timeout + Slack(pub.lost))
            BY <2>1 DEF PublishIs, IInv, Kept
        <3>2. Ahead = pub.due /\ Ahead' = 0 /\ pub'.lost = pub.lost
            <4>1. pub'.waits /\ pub'.waited = 0 /\ ~pub.waits /\ pub'.lost = pub.lost
                BY <2>1 DEF PublishIs
            <4>2. Ahead = pub.due BY <4>1 DEF Ahead
            <4>3. Ahead' = 0 BY <4>1 DEF Ahead
            <4> QED BY <4>1, <4>2, <4>3
        <3>3. Slack(pub.lost) \in Nat BY SlackGrows DEF Numbers
        <3> QED BY <3>1, <3>2, <3>3, Constants DEF Numbers
    <2>2. ASSUME NEW h \in Handlers, ReceiveIs(h) \/ GiveUpIs(h)
          PROVE  row.late \/ (Exists /\ row.seen + Ahead' =< Beat + Timeout + Slack(pub'.lost))
        <3> DEFINE Failed == /\ pub.up /\ pub'.due = Retry /\ pub'.published = pub.published
                             /\ pub'.lost = IF pub.lost + 1 =< Tolerated + 1
                                            THEN pub.lost + 1 ELSE Tolerated + 1
        <3>1. CASE Failed
            <4>1. pub.lost =< Tolerated /\ pub'.lost = pub.lost + 1
                BY <3>1, Constants DEF Numbers
            <4>2. row.late \/ (Exists /\ row.seen + Ahead =< Beat + Timeout + Slack(pub.lost))
                BY <3>1, <4>1 DEF IInv, Kept
            <4>3. Ahead = 0 - pub.waited /\ Ahead' = Retry BY <1>5, <2>2, <3>1
            <4>4. Slack(pub.lost) \in Nat /\ Slack(pub.lost + 1) = Slack(pub.lost) + Retry + Timeout
                BY SlackGrows DEF Numbers
            <4>5. Slack(pub'.lost) = Slack(pub.lost) + Retry + Timeout BY <4>1, <4>4
            <4> QED BY <4>2, <4>3, <4>4, <4>5, Constants DEF Numbers
        <3>2. CASE ~Failed
            <4>1. /\ task[h].pc = "answered" /\ task[h].answer = "ok" /\ pub.up
                  /\ pub'.due = Beat /\ pub'.lost = 0
                BY <2>2, <3>2 DEF ReceiveIs, GiveUpIs, ToldIs, IsDown
            <4>2. task[h].awaited BY <4>1 DEF IInv, Single
            <4>3. row.late \/ (Exists /\ row.seen =< pub.waited)
                BY <4>1, <4>2 DEF IInv, Refreshed
            <4>4. Ahead' = Beat BY <1>5, <2>2, <4>1
            <4>5. Slack(pub'.lost) = 0 BY <4>1, SlackGrows
            <4> QED BY <4>3, <4>4, <4>5, Constants DEF Numbers
        <3> QED BY <3>1, <3>2
    <2>3. ~StartIs /\ ~StopIs /\ ~CrashIs BY DEF StartIs, StopIs, CrashIs, IsDown
    <2> QED BY <2>1, <2>2, <2>3 DEF PublisherIs
<1>7. Locked'
    <2> SUFFICES ASSUME pub'.up, pub'.refused
                 PROVE  pub'.lost > 0 /\ row.seen + Ahead' < Recovery + Timeout + Retry
        BY DEF Locked
    <2>1. CASE PublishIs
        <3>1. pub.lost > 0 /\ row.seen + Ahead < Recovery + Timeout + Retry
            BY <2>1 DEF PublishIs, IInv, Locked
        <3>2. Ahead = pub.due /\ Ahead' = 0 /\ pub'.lost = pub.lost
            <4>1. pub'.waits /\ pub'.waited = 0 /\ ~pub.waits /\ pub'.lost = pub.lost
                BY <2>1 DEF PublishIs
            <4>2. Ahead = pub.due BY <4>1 DEF Ahead
            <4>3. Ahead' = 0 BY <4>1 DEF Ahead
            <4> QED BY <4>1, <4>2, <4>3
        <3> QED BY <3>1, <3>2, Constants DEF Numbers
    <2>2. ASSUME NEW h \in Handlers, ReceiveIs(h) \/ GiveUpIs(h)
          PROVE  pub'.lost > 0 /\ row.seen + Ahead' < Recovery + Timeout + Retry
        <3>1. /\ task[h].pc = "answered" /\ task[h].answer # "ok" /\ pub.up /\ pub'.due = Retry
              /\ pub'.lost = IF pub.lost + 1 =< Tolerated + 1 THEN pub.lost + 1 ELSE Tolerated + 1
            BY <2>2 DEF ReceiveIs, GiveUpIs, ToldIs, IsDown
        <3>2. row.seen < Recovery + pub.waited BY <3>1 DEF IInv, RefusedYoung
        <3>3. Ahead' = Retry BY <1>5, <2>2, <3>1
        <3> QED BY <3>1, <3>2, <3>3, Constants DEF Numbers
    <2>3. ~StartIs /\ ~StopIs /\ ~CrashIs BY DEF StartIs, StopIs, CrashIs, IsDown
    <2> QED BY <2>1, <2>2, <2>3 DEF PublisherIs
<1> QED BY <1>3, <1>4, <1>6, <1>7

LEMMA PublisherKeepsQuiet ==
    ASSUME DirectoryAssumption, IInv, row' = row, PublisherIs, Numbers, faults \in Nat
    PROVE  Quiet'
<1> SUFFICES ASSUME faults' = 0
             PROVE  /\ Serial' /\ Idle'
                    /\ pub'.up /\ pub'.published /\ pub'.waits => Owns'
                    /\ \A g \in Handlers : task'[g].awaited =>
                           IF ~pub'.up THEN Last(task[g])'
                           ELSE IF pub'.published THEN Again(task[g])' ELSE First(task[g])'
    BY DEF Quiet
<1>1. faults = 0 /\ ~CrashIs /\ (\A h \in Handlers : ~GiveUpIs(h))
    <2>1. faults' = faults \/ faults' = faults + 1
        BY DEF PublisherIs, CrashIs, ReceiveIs, GiveUpIs
    <2>2. faults = 0 BY <2>1
    <2> QED BY <2>2 DEF CrashIs, GiveUpIs
<1>2. /\ \A g \in Handlers : task[g].pc = "none" \/ task[g].awaited
      /\ ~row.late /\ pub.lost = 0 /\ Idle
    BY <1>1 DEF IInv, Quiet, Serial
<1>3. (Exists' <=> Exists) /\ (Owns' <=> Exists /\ row.token # None /\ row.token = pub'.held)
    BY DEF Exists, Owns
\* Before it sends a request no handler runs.
<1>4. ASSUME ~pub.waits, NEW h \in Handlers, NEW pc \in {"get", "unregister"}, NEW token,
             Sends(h, pc, token)
      PROVE  /\ \A g \in Handlers : task'[g].pc = "none" \/ task'[g].awaited
             /\ \A g \in Handlers : task'[g].awaited => g = h
    BY <1>2, <1>4 DEF Sends, IInv, Single
<1>5. CASE StartIs
    <2>1. PICK h \in Handlers : Sends(h, "get", pub.file) BY <1>5 DEF StartIs
    <2>2. ~Exists BY <1>2, <1>5 DEF StartIs, Idle
    <2>3. First(task[h])' BY <1>3, <2>1, <2>2 DEF Sends, First
    <2>4. Serial' BY <1>2, <1>4, <1>5, <2>1 DEF StartIs, Serial
    <2>5. \A g \in Handlers : task'[g].awaited => g = h BY <1>4, <1>5, <2>1 DEF StartIs
    <2>6. Idle' BY <1>5 DEF StartIs, Idle
    <2> QED BY <1>5, <2>3, <2>4, <2>5, <2>6 DEF StartIs
<1>6. CASE PublishIs
    <2>1. PICK h \in Handlers : Sends(h, "get", pub.held) BY <1>6 DEF PublishIs
    <2>2. pub.published /\ Owns BY <1>2, <1>6 DEF PublishIs, Idle
    <2>3. Owns' BY <1>3, <1>6, <2>2 DEF PublishIs, Owns
    <2>4. task'[h].pc = "get" /\ task'[h].sent = pub'.held /\ task'[h].issue = None
        BY <1>6, <2>1 DEF Sends, PublishIs
    <2>5. Again(task[h])' BY <2>3, <2>4 DEF Again
    <2>6. Serial' BY <1>2, <1>4, <1>6, <2>1 DEF PublishIs, Serial
    <2>7. \A g \in Handlers : task'[g].awaited => g = h BY <1>4, <1>6, <2>1 DEF PublishIs
    <2>8. Idle' BY <1>6 DEF PublishIs, Idle
    <2> QED BY <1>6, <2>2, <2>3, <2>5, <2>6, <2>7, <2>8 DEF PublishIs
<1>7. CASE StopIs
    <2>1. pub.published /\ Owns BY <1>2, <1>7 DEF StopIs, Idle
    <2>2. PICK h \in Handlers : Sends(h, "unregister", pub.held) BY <1>7, <2>1 DEF StopIs
    <2>3. Last(task[h])' BY <1>3, <2>1, <2>2 DEF Sends, Last, Owns
    <2>4. pub'.waits /\ ~pub'.up /\ pub'.lost = 0 BY <1>7, <2>1 DEF StopIs, IsDown
    <2>5. Serial' BY <1>2, <1>4, <1>7, <2>2, <2>4 DEF StopIs, Serial
    <2>6. \A g \in Handlers : task'[g].awaited => g = h BY <1>4, <1>7, <2>2 DEF StopIs
    <2> QED BY <2>3, <2>4, <2>5, <2>6 DEF Idle
<1>8. ASSUME NEW h \in Handlers, ReceiveIs(h)
      PROVE  /\ Serial' /\ Idle' /\ ~pub'.waits
             /\ \A g \in Handlers : ~task'[g].awaited
    <2>1. /\ task[h].pc = "answered" /\ ToldIs(task[h], task[h].answer)
          /\ task'[h].pc = "none" /\ ~task'[h].awaited
          /\ \A g \in Handlers \ {h} : task'[g] = task[g]
        BY <1>8 DEF ReceiveIs
    <2>2. task[h].awaited /\ pub.waits BY <2>1 DEF IInv, Single
    <2>3. IF ~pub.up THEN Last(task[h])
          ELSE IF pub.published THEN Again(task[h]) ELSE First(task[h])
        BY <1>1, <2>2 DEF IInv, Quiet
    <2>4. \A g \in Handlers \ {h} : ~task[g].awaited BY <2>2 DEF IInv, Single
    <2>5. CASE ~pub.up
        <3>1. ~Exists BY <2>1, <2>3, <2>5 DEF Last
        <3>2. ~pub'.up /\ ~pub'.waits /\ pub'.lost = 0 BY <2>1, <2>5 DEF ToldIs, IsDown
        <3> QED BY <1>2, <1>3, <2>1, <2>4, <3>1, <3>2 DEF Serial, Idle
    <2>6. CASE pub.up
        <3>1. /\ task[h].answer = "ok" /\ Exists /\ row.token # None
              /\ row.token = IF task[h].issue # None THEN task[h].issue ELSE pub.held
            BY <2>1, <2>3, <2>6 DEF Again, First, Owns
        <3>2. /\ pub'.up /\ ~pub'.waits /\ pub'.lost = 0 /\ pub'.published
              /\ pub'.held = IF task[h].issue # None THEN task[h].issue ELSE pub.held
            BY <2>1, <2>6, <3>1 DEF ToldIs
        <3>3. Owns' BY <1>3, <3>1, <3>2
        <3> QED BY <1>2, <2>1, <2>4, <3>2, <3>3 DEF Serial, Idle
    <2> QED BY <2>5, <2>6
<1> QED BY <1>1, <1>5, <1>6, <1>7, <1>8 DEF PublisherIs
-----------------------------------------------------------------------------
(* ... steps of the prober, ... *)

\* A row the prober prunes is not one that is kept.
LEMMA PrunedIsOld ==
    ASSUME DirectoryAssumption, IInv, Numbers, row.seen >= PruneAge
    PROVE  /\ ~row.late
           /\ ~(pub.up /\ pub.published /\ pub.lost =< Tolerated)
           /\ \A h \in Handlers :
                 ~(/\ pub.up /\ task[h].awaited
                   /\ \/ task[h].pc \in {"reread", "issue"}
                      \/ task[h].pc = "answered" /\ task[h].answer = "ok")
<1>1. ~row.late BY Constants DEF IInv, Late, Exists
<1>2. ~(pub.up /\ pub.published /\ pub.lost =< Tolerated)
    BY <1>1, KeptIsFresh, Constants DEF IInv, Numbers
<1>3. ASSUME NEW h \in Handlers, pub.up, task[h].awaited,
             \/ task[h].pc \in {"reread", "issue"}
             \/ task[h].pc = "answered" /\ task[h].answer = "ok"
      PROVE  FALSE
    <2>1. row.seen =< pub.waited BY <1>1, <1>3 DEF IInv, Refreshed
    <2> QED BY <2>1, TimeoutIsFresh, Constants DEF Numbers
<1> QED BY <1>1, <1>2, <1>3

LEMMA ProberKeeps ==
    ASSUME DirectoryAssumption, IInv, Numbers, task' = task, pub' = pub, ProberIs,
           faults \in Nat, faults' = faults \/ faults' = faults + 1
    PROVE  /\ Single' /\ Late' /\ Due' /\ Refreshed' /\ Kept' /\ ReadRight'
           /\ RefusedYoung' /\ Locked' /\ Quiet'
<1>1. Single' /\ Due' BY DEF IInv, Single, Due
<1>2. CASE row'.token = row.token /\ row'.seen = row.seen /\ row'.late = row.late
    <2>1. (Exists' <=> Exists) /\ (Owns' <=> Owns) BY <1>2 DEF Exists, Owns
    <2>2. Late' /\ Refreshed' /\ ReadRight' /\ RefusedYoung'
        BY <1>2, <2>1 DEF IInv, Late, Refreshed, ReadRight, RefusedYoung
    <2>3. Kept' /\ Locked' BY <1>2, <2>1 DEF IInv, Kept, Locked, Ahead
    <2>4. Quiet'
        <3>1. faults' = 0 => faults = 0 OBVIOUS
        <3>2. Serial' <=> Serial BY <1>2 DEF Serial
        <3>3. Idle' <=> Idle BY <2>1 DEF Idle
        <3>4. \A h \in Handlers : /\ Last(task[h])' <=> Last(task[h])
                                  /\ Again(task[h])' <=> Again(task[h])
                                  /\ First(task[h])' <=> First(task[h])
            BY <1>2, <2>1 DEF Last, Again, First
        <3> QED BY <2>1, <3>1, <3>2, <3>3, <3>4 DEF IInv, Quiet
    <2> QED BY <1>1, <2>2, <2>3, <2>4
<1>3. CASE row.seen >= PruneAge /\ row' = NoRow
    <2>1. row'.seen = -1 /\ ~row'.late /\ ~Exists' BY <1>3 DEF NoRow, Exists
    <2>2. Late' BY <2>1 DEF Late
    <2>3. Refreshed' /\ Kept' BY <1>3, PrunedIsOld DEF Refreshed, Kept
    <2>4. ReadRight' BY <2>1 DEF ReadRight, Numbers
    <2>5. RefusedYoung' BY <2>1, Constants DEF RefusedYoung, Numbers
    <2>6. Locked'
        <3>1. Ahead' = Ahead /\ Ahead \in Int BY DEF Ahead, Numbers
        <3> QED BY <2>1, <3>1, Constants DEF IInv, Locked, Numbers
    <2>7. Quiet'
        <3> SUFFICES ASSUME faults' = 0
                     PROVE  /\ Serial' /\ Idle'
                            /\ pub.up /\ pub.published /\ pub.waits => Owns'
                            /\ \A g \in Handlers : task[g].awaited =>
                                   IF ~pub.up THEN Last(task[g])'
                                   ELSE IF pub.published THEN Again(task[g])' ELSE First(task[g])'
            BY DEF Quiet
        <3>1. faults = 0 OBVIOUS
        <3>2. Serial /\ Idle BY <3>1 DEF IInv, Quiet
        <3>3. pub.lost =< Tolerated BY <3>2, Constants DEF Serial
        <3>4. ~(pub.up /\ pub.published) BY <1>3, <3>3, PrunedIsOld
        <3>5. Serial' /\ Idle' BY <2>1, <3>2, <3>4 DEF Serial, Idle
        <3>6. ASSUME NEW g \in Handlers, task[g].awaited
              PROVE  IF ~pub.up THEN Last(task[g])'
                     ELSE IF pub.published THEN Again(task[g])' ELSE First(task[g])'
            <4>1. CASE ~pub.up BY <2>1, <4>1 DEF Last
            <4>2. CASE pub.up
                <5>1. First(task[g]) BY <3>1, <3>4, <3>6, <4>2 DEF IInv, Quiet
                <5>2. ~(\/ task[g].pc \in {"reread", "issue"}
                        \/ task[g].pc = "answered" /\ task[g].answer = "ok")
                    BY <1>3, <3>6, <4>2, PrunedIsOld
                <5> QED BY <2>1, <3>4, <4>2, <5>1, <5>2 DEF First
            <4> QED BY <4>1, <4>2
        <3> QED BY <3>4, <3>5, <3>6
    <2> QED BY <1>1, <2>2, <2>3, <2>4, <2>5, <2>6, <2>7
<1> QED BY <1>2, <1>3 DEF ProberIs

-----------------------------------------------------------------------------
(* ... and time. *)

LEMMA TickKeeps ==
    ASSUME DirectoryAssumption, IInv, Numbers, TickIs, faults' = faults
    PROVE  /\ Single' /\ Late' /\ Due' /\ Refreshed' /\ Kept' /\ ReadRight'
           /\ RefusedYoung' /\ Locked' /\ Quiet'
<1>1. /\ row'.seen \in Int /\ row'.seen =< row.seen + 1 /\ (Exists' <=> Exists)
      /\ row'.late = row.late /\ row'.token = row.token
    BY Constants DEF TickIs, AgeIs, Numbers, Exists
<1>2. /\ pub'.up = pub.up /\ pub'.waits = pub.waits /\ pub'.published = pub.published
      /\ pub'.lost = pub.lost /\ pub'.refused = pub.refused /\ pub'.held = pub.held
      /\ pub.waits => pub'.waited = pub.waited + 1
      /\ pub'.due =< pub.due /\ pub'.due \in Int
    BY DEF TickIs, Numbers
<1>3. \A h \in Handlers :
          /\ task'[h].pc = task[h].pc /\ task'[h].awaited = task[h].awaited
          /\ task'[h].answer = task[h].answer /\ task'[h].sent = task[h].sent
          /\ task'[h].ok = task[h].ok /\ task'[h].issue = task[h].issue
    BY DEF TickIs
<1>4. pub.up => Ahead \in Int /\ Ahead' = Ahead - 1
    BY <1>2 DEF TickIs, Ahead, Numbers
<1>5. Single' BY <1>2, <1>3 DEF IInv, Single
<1>6. Late' BY <1>1 DEF IInv, Late
<1>7. Due' BY <1>2, Constants DEF IInv, Due, Numbers
<1>8. Refreshed'
    <2> SUFFICES ASSUME pub.up, NEW g \in Handlers, task[g].awaited,
                        \/ task[g].pc \in {"reread", "issue"}
                        \/ task[g].pc = "answered" /\ task[g].answer = "ok"
                 PROVE  row.late \/ (Exists /\ row'.seen =< pub'.waited)
        BY <1>1, <1>2, <1>3 DEF Refreshed
    <2>1. row.late \/ (Exists /\ row.seen =< pub.waited) BY DEF IInv, Refreshed
    <2>2. pub'.waited = pub.waited + 1 BY <1>2 DEF IInv, Single
    <2> QED BY <1>1, <2>1, <2>2 DEF Numbers
<1>9. Kept'
    <2> SUFFICES ASSUME pub.up, pub.published, pub.lost =< Tolerated
                 PROVE  row.late \/ (Exists /\ row'.seen + Ahead' =< Beat + Timeout + Slack(pub.lost))
        BY <1>1, <1>2 DEF Kept
    <2>1. row.late \/ (Exists /\ row.seen + Ahead =< Beat + Timeout + Slack(pub.lost))
        BY DEF IInv, Kept
    <2>2. Slack(pub.lost) \in Nat BY SlackGrows DEF Numbers
    <2> QED BY <1>1, <1>4, <2>1, <2>2, Constants DEF Numbers
<1>10. ReadRight'
    <2> SUFFICES ASSUME NEW g \in Handlers, task[g].pc = "hash", task'[g].seen # -1,
                        task'[g].seen < Recovery
                 PROVE  row'.seen =< task'[g].seen
        BY <1>3 DEF ReadRight
    <2>1. AgeIs(task[g].seen, task'[g].seen, Recovery) /\ task[g].seen \in Int
        BY DEF TickIs, Numbers
    <2>2. task[g].seen # -1 /\ task[g].seen < Recovery /\ task'[g].seen = task[g].seen + 1
        BY <2>1, Constants DEF AgeIs
    <2>3. row.seen =< task[g].seen BY <2>2 DEF IInv, ReadRight
    <2> QED BY <1>1, <2>1, <2>2, <2>3 DEF Numbers
<1>11. RefusedYoung'
    <2> SUFFICES ASSUME pub.up, NEW g \in Handlers, task[g].pc = "answered", task[g].answer # "ok"
                 PROVE  row'.seen < Recovery + pub'.waited
        BY <1>2, <1>3 DEF RefusedYoung
    <2>1. row.seen < Recovery + pub.waited BY DEF IInv, RefusedYoung
    <2>2. pub'.waited = pub.waited + 1 BY <1>2 DEF IInv, Single
    <2> QED BY <1>1, <2>1, <2>2, Constants DEF Numbers
<1>12. Locked'
    <2> SUFFICES ASSUME pub.up, pub.refused
                 PROVE  pub.lost > 0 /\ row'.seen + Ahead' < Recovery + Timeout + Retry
        BY <1>2 DEF Locked
    <2>1. pub.lost > 0 /\ row.seen + Ahead < Recovery + Timeout + Retry BY DEF IInv, Locked
    <2> QED BY <1>1, <1>4, <2>1, Constants DEF Numbers
<1>13. Quiet'
    <2>1. Owns' <=> Owns BY <1>1, <1>2 DEF Owns
    <2>2. Serial' <=> Serial BY <1>1, <1>2, <1>3 DEF Serial
    <2>3. Idle' <=> Idle BY <1>1, <1>2, <2>1 DEF Idle
    <2>4. \A h \in Handlers : /\ Last(task[h])' <=> Last(task[h])
                              /\ Again(task[h])' <=> Again(task[h])
                              /\ First(task[h])' <=> First(task[h])
        BY <1>1, <1>2, <1>3, <2>1 DEF Last, Again, First
    <2> QED BY <1>2, <1>3, <2>1, <2>2, <2>3, <2>4 DEF IInv, Quiet
<1> QED BY <1>5, <1>6, <1>7, <1>8, <1>9, <1>10, <1>11, <1>12, <1>13

-----------------------------------------------------------------------------
(* The theorems. *)

LEMMA InitIsQuiet ==
    ASSUME DirectoryAssumption, Init
    PROVE  IInv
<1>1. /\ row = NoRow /\ ~Exists /\ ~row.late /\ faults = 0
      /\ \A h \in Handlers : task[h].pc = "none" /\ ~task[h].awaited
      /\ ~pub.up /\ ~pub.waits /\ pub.due = 0 /\ pub.lost = 0 /\ ~pub.published
      /\ ~pub.refused /\ ~probe.dark
    BY DEF Init, NoRow, NoTask, Exists
<1>2. TypeOK
    <2>1. row \in RowType /\ NoTask \in TaskType BY <1>1, TypesOfNone
    <2>2. task \in [Handlers -> TaskType] BY <2>1 DEF Init
    <2>3. None \in Token /\ 0 \in 0 .. Max({Beat, Retry}) /\ 0 \in 0 .. Timeout
          /\ 0 \in 0 .. Tolerated + 1 /\ 0 \in 0 .. MaxFaults
        BY Constants, MaxOfTwo DEF Token
    <2>4. pub \in PubType /\ probe \in ProbeType BY <2>3 DEF Init, PubType, ProbeType
    <2> QED BY <1>1, <2>1, <2>2, <2>3, <2>4, TypeParts DEF Emptied
<1>3. Single /\ Late /\ Refreshed /\ Kept /\ ReadRight /\ RefusedYoung /\ Locked /\ Bright
    BY <1>1 DEF Single, Late, Refreshed, Kept, ReadRight, RefusedYoung, Locked, Bright
<1>4. Due BY <1>1, Constants DEF Due
<1>5. Quiet BY <1>1 DEF Quiet, Serial, Idle
<1> QED BY <1>2, <1>3, <1>4, <1>5 DEF IInv

LEMMA NextParts ==
    ASSUME Next
    PROVE  \/ \E h \in Handlers : Handle(h) \/ Drop(h)
           \/ Publishing \/ Probes \/ Tick
BY DEF Next, Publishing, Probes

LEMMA InvariantStep ==
    ASSUME DirectoryAssumption, IInv, [Next]_vars
    PROVE  IInv'
<1>1. Numbers /\ faults \in Nat
    <2>1. faults \in 0 .. MaxFaults BY TypeParts DEF IInv
    <2> QED BY <2>1, NumbersHold, Constants DEF IInv
<1>2. ASSUME NEW h \in Handlers, Handle(h) \/ Drop(h) PROVE IInv'
    <2>1. TypeOK' /\ HandlerMoves(h) /\ probe' = probe /\ faults' = faults
        BY <1>2, HandlerStep DEF IInv, HandlerMoves
    <2>2. Bright' BY <2>1 DEF IInv, Bright
    <2> QED BY <1>1, <2>1, <2>2, HandlerKeepsTasks, HandlerKeepsAges, HandlerKeepsQuiet DEF IInv
<1>3. CASE Publishing
    <2>1. TypeOK' /\ row' = row /\ probe' = probe /\ PublisherIs
        BY <1>3, PublisherStep DEF IInv
    <2>2. Bright' BY <2>1 DEF IInv, Bright
    <2> QED BY <1>1, <2>1, <2>2, PublisherKeepsTasks, PublisherKeepsAges, PublisherKeepsQuiet DEF IInv
<1>4. CASE Probes
    <2>1. /\ TypeOK' /\ task' = task /\ pub' = pub /\ ProberIs /\ Bright'
          /\ faults' = faults \/ faults' = faults + 1
        BY <1>4, ProberStep DEF IInv
    <2> QED BY <1>1, <2>1, ProberKeeps DEF IInv
<1>5. CASE Tick
    <2>1. TypeOK' /\ Bright' /\ faults' = faults /\ TickIs BY <1>5, TickStep DEF IInv
    <2> QED BY <1>1, <2>1, TickKeeps DEF IInv
<1>6. CASE UNCHANGED vars
    <2>1. row' = row /\ task' = task /\ pub' = pub /\ probe' = probe /\ faults' = faults
        BY <1>6 DEF vars
    <2>2. ProberIs BY <2>1 DEF ProberIs
    <2>3. TypeOK' /\ Bright'
        <3>1. TypeOK' <=> TypeOK BY <2>1 DEF TypeOK, Exists
        <3> QED BY <2>1, <3>1 DEF IInv, Bright
    <2> QED BY <1>1, <2>1, <2>2, <2>3, ProberKeeps DEF IInv
<1> QED BY <1>2, <1>3, <1>4, <1>5, <1>6, NextParts

\* The invariant above holds of every state the service, a publisher and the
\* prober can reach.
THEOREM DirectoryInvariant == Spec => []IInv
<1>1. Init => IInv BY DirectoryAssumption, InitIsQuiet
<1>2. IInv /\ [Next]_vars => IInv' BY DirectoryAssumption, InvariantStep
<1> QED BY <1>1, <1>2, PTL DEF Spec

\* Types: a row, a handler, the publisher and the prober are what they should be.
THEOREM DirectoryTypes == Spec => []TypeOK
<1>1. IInv => TypeOK BY DEF IInv
<1> QED BY <1>1, DirectoryInvariant, PTL

\* A server that was accepted stays listed, whatever the handlers of earlier
\* requests, the prober and the pruning do, as long as it lost no more
\* heartbeats in a row than its freshness allows for and no unregister of its
\* own came late.
THEOREM AcceptedStaysListed == Spec => []StaysListed
<1>1. ASSUME IInv PROVE StaysListed
    <2>1. Numbers BY <1>1, NumbersHold, DirectoryAssumption DEF IInv
    <2> QED BY <1>1, <2>1, KeptIsFresh, DirectoryAssumption DEF IInv, StaysListed
<1>2. IInv => StaysListed BY <1>1
<1> QED BY <1>2, DirectoryInvariant, PTL

\* Without faults the service refuses no publish: over any number of starts and
\* stops the token that is shown is the token of the row.
THEOREM TokensAgree == Spec => []NeverRefused
<1>1. IInv => NeverRefused BY DEF IInv, Quiet, Serial, NeverRefused
<1> QED BY <1>1, DirectoryInvariant, PTL

\* A publish that was refused met a row younger than Recovery, and until the
\* next one is answered the row is not much older.
THEOREM RecoveryEndsLockout == Spec => []LockoutEnds
<1>1. ASSUME IInv PROVE LockoutEnds
    <2> SUFFICES ASSUME pub.up, pub.refused
                 PROVE  row.seen < Recovery + Retry + 2 * Timeout
        BY DEF LockoutEnds
    <2>1. Numbers BY <1>1, NumbersHold, DirectoryAssumption DEF IInv
    <2>2. row.seen + Ahead < Recovery + Timeout + Retry BY <1>1 DEF IInv, Locked
    <2>3. Ahead \in Int /\ Ahead >= 0 - Timeout
        BY <2>1, Constants, DirectoryAssumption DEF Numbers, Ahead
    <2> QED BY <2>1, <2>2, <2>3, Constants, DirectoryAssumption DEF Numbers
<1>2. IInv => LockoutEnds BY <1>1
<1> QED BY <1>2, DirectoryInvariant, PTL

LEMMA FailuresStep ==
    ASSUME DirectoryAssumption, IInv, [Next]_vars
    PROVE  row'.failures > row.failures => ~probe.dark \/ Others + 1 < MinServers
<1>1. row.failures \in Int
    <2>1. row \in RowType BY TypeParts DEF IInv
    <2> QED BY <2>1, Constants DEF RowType
<1>2. ASSUME NEW h \in Handlers, Handle(h) \/ Drop(h)
      PROVE  row'.failures = row.failures \/ row'.failures = 0
    <2>1. HandlerIs(h) BY <1>2, HandlerStep DEF IInv
    <2> QED BY <2>1 DEF HandlerIs, ReadRowIs, ReadHashIs, UpsertIs, RereadIs, SetTokenIs,
               UnregisterIs, DeleteIs, DropIs
<1>3. CASE Publishing BY <1>1, <1>3, PublisherStep DEF IInv
<1>4. CASE Probes BY <1>4, ProberStep DEF IInv
<1>5. CASE Tick
    <2>1. row'.failures = row.failures BY <1>5, TickStep DEF IInv, TickIs
    <2> QED BY <1>1, <2>1
<1>6. CASE UNCHANGED vars BY <1>1, <1>6 DEF vars
<1>7. row.failures >= 0
    <2>1. row \in RowType BY TypeParts DEF IInv
    <2> QED BY <2>1, Constants DEF RowType
<1>8. ASSUME row'.failures = row.failures \/ row'.failures = 0
      PROVE  ~(row'.failures > row.failures)
    BY <1>1, <1>7, <1>8
<1> QED BY <1>2, <1>3, <1>4, <1>5, <1>6, <1>8, NextParts

\* No step counts a miss against the server when the prober was cut off itself
\* and enough servers are known for it to notice.
THEOREM OutagesAreHarmless == Spec => OutageHarmless
<1>1. IInv /\ [Next]_vars
          => [row'.failures > row.failures => ~probe.dark \/ Others + 1 < MinServers]_vars
    BY FailuresStep, DirectoryAssumption
<1> QED BY <1>1, DirectoryInvariant, PTL DEF Spec, OutageHarmless
=============================================================================
