------------------------- MODULE ResearchRun_proofs -------------------------
(***************************************************************************)
(* Theorems about ResearchRun, for every number of script processes, API   *)
(* threads, slots and run ids, every clock and every budget of faults.     *)
(***************************************************************************)
EXTENDS ResearchRun, TLAPS

RowType == [status : Statuses, slot : Slots \cup {Regular}, covered : BOOLEAN,
            frozen : 0..MaxTick, computed : 0..MaxTick, complete : BOOLEAN]

\* What record_started and the failure recorders write is a registry row.
LEMMA BareRowType ==
    ASSUME TypeOK, NEW w \in Workers, NEW st \in Statuses
    PROVE  BareRow(st, w) \in RowType
BY BoundAssumption, TimeAssumption
   DEF TypeOK, BareRow, RowType, Never

\* So is what record_success writes.
LEMMA SuccessRowType ==
    ASSUME TypeOK, NEW w \in Workers
    PROVE  SuccessRow(w) \in RowType
BY DEF TypeOK, SuccessRow, RowType, Statuses

\* Upserting a row, or failing to, leaves a table of rows.
LEMMA UpsertType ==
    ASSUME TypeOK, NEW r, NEW row \in RowType, rows' = rows \/ Upsert(r, row)
    PROVE  rows' \in [RunIds -> RowType]
BY DEF TypeOK, Upsert, RowType

\* A failed read counts one of the storage failures allowed.
LEMMA FaultType ==
    ASSUME TypeOK, FailedRead PROVE faults' \in 0..MaxFaults
BY BoundAssumption DEF TypeOK, FailedRead

\* Moving a worker on, or finishing its call, keeps the worker's variables
\* typed.
LEMMA FinishType ==
    ASSUME TypeOK, NEW w \in Workers,
           NEW a \in {"none", "created", "existing", "not_ready", "error"},
           Finish(w, a)
    PROVE  /\ pc' \in [Workers -> Stages]
           /\ signals' \in [Workers -> [computed : 0..MaxTick,
                                        complete : BOOLEAN]]
           /\ frozenAt' \in [Workers -> 0..MaxTick]
           /\ verdict' \in [Workers -> {"none", "rejected", "failed",
                                        "unexpected"}]
           /\ reply' \in [Workers -> {"none", "created", "existing",
                                      "not_ready", "error"}]
           /\ \A v \in Workers : pc'[v] # "idle" => pc[v] # "idle"
BY TimeAssumption
   DEF TypeOK, Finish, GoTo, Stages, NoSignals, Never, Ticks

\* Entering an except branch of create_research_run keeps them typed too.
LEMMA CaughtType ==
    ASSUME TypeOK, NEW w \in Workers,
           NEW v \in {"none", "rejected", "failed", "unexpected"},
           Caught(w, v), pc[w] # "idle"
    PROVE  /\ pc' \in [Workers -> Stages]
           /\ signals' \in [Workers -> [computed : 0..MaxTick,
                                        complete : BOOLEAN]]
           /\ frozenAt' \in [Workers -> 0..MaxTick]
           /\ verdict' \in [Workers -> {"none", "rejected", "failed",
                                        "unexpected"}]
           /\ reply' \in [Workers -> {"none", "created", "existing",
                                      "not_ready", "error"}]
           /\ \A x \in Workers : pc'[x] # "idle" => pc[x] # "idle"
BY DEF TypeOK, Caught, GoTo, Stages

\* Every variable stays in its type: no interleaving of script processes, API
\* threads, crashes and storage failures builds a row or a worker the code does
\* not know.
THEOREM TypeCorrect == Spec => []TypeOK
<1>1. Init => TypeOK
  BY TimeAssumption, BoundAssumption
     DEF Init, TypeOK, NoRow, NoSignals, Never, Statuses, Stages, Ticks, RunIds
<1>2. TypeOK /\ [Next]_vars => TypeOK'
  <2> SUFFICES ASSUME TypeOK, [Next]_vars PROVE TypeOK'
    OBVIOUS
  <2> USE DEF table, world, progress, budget
  <2>1. ASSUME NEW w \in Workers, NEW s \in Slots, ScriptInvoke(w, s)
        PROVE TypeOK'
    <3>1. pc[w] = "idle" /\ UNCHANGED <<table, world, crashes>>
      BY <2>1 DEF ScriptInvoke
    <3>2. ASSUME NEW a \in {"existing", "error"}, Finish(w, a),
                 UNCHANGED call, faults' = faults \/ FailedRead
          PROVE TypeOK'
      BY <3>1, <3>2, FinishType, FaultType DEF TypeOK
    <3>3. CASE /\ GoTo(w, "preflight")
               /\ call' = [call EXCEPT ![w] = [runId |-> s, slot |-> s,
                                               snapshot |-> universe,
                                               covered |-> FALSE]]
               /\ reply' = [reply EXCEPT ![w] = "none"]
               /\ UNCHANGED <<progress, faults>>
      BY <3>1, <3>3 DEF TypeOK, GoTo, Stages, RunIds
    <3> QED BY <2>1, <3>2, <3>3 DEF ScriptInvoke
  <2>2. ASSUME NEW w \in Workers, NEW r \in PostIds,
               NEW s \in Slots \cup {Regular}, NEW u \in Universes,
               NEW c \in BOOLEAN, Post(w, r, s, u, c)
        PROVE TypeOK'
    BY <2>2 DEF Post, TypeOK, GoTo, Stages, RunIds
  <2>3. ASSUME NEW w \in Workers, NEW r \in PostIds, PostMalformed(w, r)
        PROVE TypeOK'
    <3> DEFINE row == [status |-> "validation_failed", slot |-> Regular,
                       covered |-> FALSE, frozen |-> Never,
                       computed |-> Never, complete |-> FALSE]
    <3>1. row \in RowType
      BY TimeAssumption DEF RowType, Statuses, Never, Ticks
    <3>2. rows' \in [RunIds -> RowType]
      BY <2>3, <3>1, UpsertType DEF PostMalformed, FailedUpsert
    <3>3. faults' \in 0..MaxFaults
      BY <2>3, BoundAssumption DEF PostMalformed, FailedUpsert, TypeOK
    <3> QED
      BY <2>3, <3>2, <3>3 DEF PostMalformed, TypeOK, RowType, RunIds
  <2>4. ASSUME NEW w \in Workers, Step(w) PROVE TypeOK'
    <3>1. CASE ScriptPreflight(w)
      <4> DEFINE ready == [runId |-> call[w].runId, slot |-> call[w].slot,
                           snapshot |-> universe, covered |-> TRUE]
      <4>1. CASE /\ \E a \in {"not_ready", "error"} : Finish(w, a)
                 /\ UNCHANGED call
        <5>1. UNCHANGED <<table, world, budget>>
          BY <3>1 DEF ScriptPreflight
        <5> QED BY <4>1, <5>1, FinishType DEF TypeOK
      <4>2. CASE /\ GoTo(w, "universe")
                 /\ call' = [call EXCEPT ![w] = ready]
                 /\ UNCHANGED <<progress, reply>>
        <5>1. UNCHANGED <<table, world, budget>> /\ pc[w] = "preflight"
          BY <3>1 DEF ScriptPreflight
        <5>2. /\ ready \in [runId : RunIds, slot : Slots \cup {Regular},
                            snapshot : Universes, covered : BOOLEAN]
              /\ ready.runId \in RunIds
          BY <5>1 DEF TypeOK
        <5> HIDE DEF ready
        <5> QED BY <4>2, <5>1, <5>2 DEF TypeOK, GoTo, Stages
      <4> QED BY <3>1, <4>1, <4>2 DEF ScriptPreflight
    <3>2. CASE CheckUniverse(w)
      <4>1. CASE \E v \in {"rejected", "failed"} : Caught(w, v)
        BY <3>2, <4>1, CaughtType, FaultType DEF CheckUniverse, TypeOK
      <4>2. CASE GoTo(w, "duplicate") /\ UNCHANGED <<progress, reply, faults>>
        BY <3>2, <4>2 DEF CheckUniverse, TypeOK, GoTo, Stages
      <4> QED BY <3>2, <4>1, <4>2 DEF CheckUniverse
    <3>3. CASE CheckDuplicate(w)
      <4>1. CASE \E v \in {"rejected", "failed"} : Caught(w, v)
        BY <3>3, <4>1, CaughtType, FaultType DEF CheckDuplicate, TypeOK
      <4>2. CASE GoTo(w, "start") /\ UNCHANGED <<progress, reply, faults>>
        BY <3>3, <4>2 DEF CheckDuplicate, TypeOK, GoTo, Stages
      <4> QED BY <3>3, <4>1, <4>2 DEF CheckDuplicate
    <3>4. CASE RecordStarted(w)
      <4>1. rows' \in [RunIds -> RowType]
        <5>1. "running" \in Statuses
          BY DEF Statuses
        <5> QED BY <3>4, <5>1, BareRowType, UpsertType
                DEF RecordStarted, FailedUpsert
      <4>2. CASE Caught(w, "failed") /\ faults < MaxFaults /\ faults' = faults + 1
        BY <3>4, <4>1, <4>2, CaughtType, BoundAssumption
           DEF RecordStarted, TypeOK, RowType
      <4>3. CASE GoTo(w, "execute") /\ UNCHANGED <<progress, reply, faults>>
        BY <3>4, <4>1, <4>3 DEF RecordStarted, TypeOK, GoTo, Stages, RowType
      <4> QED BY <3>4, <4>2, <4>3 DEF RecordStarted, FailedUpsert
    <3>5. CASE Execute(w)
      <4>1. CASE \E v \in {"rejected", "unexpected", "failed"} : Caught(w, v)
        BY <3>5, <4>1, CaughtType, FaultType DEF Execute, TypeOK
      <4>2. CASE \E done \in BOOLEAN :
                   /\ signals' = [signals EXCEPT ![w] = [computed |-> now,
                                                         complete |-> done]]
                   /\ GoTo(w, "freeze")
                   /\ UNCHANGED <<frozenAt, verdict, reply, faults>>
        BY <3>5, <4>2, TimeAssumption, SMTT(30)
           DEF Execute, TypeOK, GoTo, Stages, Ticks
      <4> QED BY <3>5, <4>1, <4>2 DEF Execute
    <3>6. CASE Freeze(w)
      <4>1. CASE Caught(w, "failed")
        BY <3>6, <4>1, CaughtType, FaultType DEF Freeze, TypeOK, GoTo
      <4>2. CASE /\ frozenAt' = [frozenAt EXCEPT ![w] =
                                   IF call[w].slot \in Slots THEN FrozenFor(w)
                                   ELSE Never]
                 /\ GoTo(w, "success")
                 /\ UNCHANGED <<signals, verdict, reply, faults>>
        <5>1. FrozenFor(w) \in 0..MaxTick /\ Never \in 0..MaxTick
          BY <3>6, TimeAssumption DEF Freeze, TypeOK, FrozenFor, Ticks, Never
        <5> QED BY <3>6, <4>2, <5>1 DEF Freeze, TypeOK, GoTo, Stages
      <4> QED BY <3>6, <4>1, <4>2 DEF Freeze
    <3>7. CASE RecordSuccess(w)
      <4>1. rows' \in [RunIds -> RowType]
        BY <3>7, SuccessRowType, UpsertType DEF RecordSuccess, SuccessNotStored, FailedUpsert
      <4>2. CASE Caught(w, "failed") /\ faults < MaxFaults /\ faults' = faults + 1
        BY <3>7, <4>1, <4>2, CaughtType, BoundAssumption
           DEF RecordSuccess, TypeOK, RowType
      <4>3. CASE Finish(w, "created") /\ UNCHANGED faults
        BY <3>7, <4>1, <4>3, FinishType DEF RecordSuccess, TypeOK, RowType
      <4> QED BY <3>7, <4>2, <4>3 DEF RecordSuccess, SuccessNotStored, FailedUpsert
    <3>8. CASE RecordOutcome(w)
      <4>1. rows' \in [RunIds -> RowType]
        <5>1. StatusOf(verdict[w]) \in Statuses
          BY DEF Statuses, StatusOf
        <5> QED BY <3>8, <5>1, BareRowType, UpsertType
                DEF RecordOutcome, OutcomeRow, FailedUpsert
      <4>2. faults' \in 0..MaxFaults
        BY <3>8, BoundAssumption DEF RecordOutcome, FailedUpsert, TypeOK
      <4>3. CASE Finish(w, "error")
        BY <3>8, <4>1, <4>2, <4>3, FinishType DEF RecordOutcome, TypeOK, RowType
      <4>4. CASE GoTo(w, "handler") /\ UNCHANGED <<progress, reply>>
        BY <3>8, <4>1, <4>2, <4>4
           DEF RecordOutcome, TypeOK, RowType, GoTo, Stages
      <4> QED BY <3>8, <4>3, <4>4 DEF RecordOutcome
    <3>9. CASE HandleUnexpected(w)
      <4>1. rows' \in [RunIds -> RowType]
        <5>1. "failed" \in Statuses
          BY DEF Statuses
        <5> QED BY <3>9, <5>1, BareRowType, UpsertType
                DEF HandleUnexpected, FailedUpsert
      <4>2. faults' \in 0..MaxFaults
        BY <3>9, BoundAssumption DEF HandleUnexpected, FailedUpsert, TypeOK
      <4> QED
        BY <3>9, <4>1, <4>2, FinishType DEF HandleUnexpected, TypeOK, RowType
    <3> QED
      BY <2>4, <3>1, <3>2, <3>3, <3>4, <3>5, <3>6, <3>7, <3>8, <3>9 DEF Step
  <2>5. CASE Tick
    BY <2>5, TimeAssumption DEF Tick, TypeOK, Ticks
  <2>6. ASSUME NEW u \in Universes, UniverseChanges(u) PROVE TypeOK'
    BY <2>6 DEF UniverseChanges, TypeOK
  <2>7. ASSUME NEW S, Crash(S) PROVE TypeOK'
    BY <2>7, BoundAssumption, TimeAssumption
       DEF Crash, TypeOK, Stages, NoSignals, Never, Ticks
  <2>8. CASE UNCHANGED vars
    BY <2>8 DEF vars, TypeOK
  <2> QED
    BY <2>1, <2>2, <2>3, <2>4, <2>5, <2>6, <2>7, <2>8
       DEF Next, Invoke, CrashScript, CrashServer
<1> QED BY <1>1, <1>2, PTL DEF Spec

----------------------------------------------------------------------------
(* Settled evidence is final, for any number of scripts and threads.       *)

\* A step of create_research_run touches its own worker and its own row only,
\* and takes no new run id.
LEMMA StepIsLocal ==
    ASSUME TypeOK, NEW w \in Workers, Step(w)
    PROVE  /\ pc[w] # "idle"
           /\ issued' = issued /\ now' = now
           /\ \A v \in Workers : call'[v].runId = call[v].runId
                              /\ call'[v].slot = call[v].slot
           /\ \A v \in Workers \ {w} :
                 /\ pc'[v] = pc[v]
                 /\ signals'[v] = signals[v]
                 /\ frozenAt'[v] = frozenAt[v]
           /\ \A r \in RunIds \ {call[w].runId} : rows'[r] = rows[r]
<1> USE DEF table, world, progress, budget
<1>1. CASE ScriptPreflight(w)
  <2> DEFINE ready == [runId |-> call[w].runId, slot |-> call[w].slot,
                       snapshot |-> universe, covered |-> TRUE]
  <2>1. /\ pc[w] = "preflight" /\ UNCHANGED <<table, world, budget>>
        /\ ready.runId = call[w].runId /\ ready.slot = call[w].slot
    BY <1>1 DEF ScriptPreflight
  <2>2. UNCHANGED call \/ call' = [call EXCEPT ![w] = ready]
    BY <1>1 DEF ScriptPreflight
  <2>3. \A v \in Workers \ {w} :
           pc'[v] = pc[v] /\ signals'[v] = signals[v]
                          /\ frozenAt'[v] = frozenAt[v]
    BY <1>1 DEF ScriptPreflight, Finish, GoTo, TypeOK
  <2> HIDE DEF ready
  <2>4. \A v \in Workers : call'[v].runId = call[v].runId
                        /\ call'[v].slot = call[v].slot
    BY <2>1, <2>2 DEF TypeOK
  <2> QED BY <2>1, <2>3, <2>4
<1>2. CASE CheckUniverse(w)
  BY <1>2 DEF CheckUniverse, Caught, GoTo, TypeOK
<1>3. CASE CheckDuplicate(w)
  BY <1>3 DEF CheckDuplicate, Caught, GoTo, TypeOK
<1>4. CASE RecordStarted(w)
  BY <1>4 DEF RecordStarted, Upsert, FailedUpsert, Caught, GoTo, TypeOK
<1>5. CASE Execute(w)
  BY <1>5 DEF Execute, Caught, GoTo, TypeOK
<1>6. CASE Freeze(w)
  BY <1>6 DEF Freeze, Caught, GoTo, TypeOK
<1>7. CASE RecordSuccess(w)
  BY <1>7
     DEF RecordSuccess, SuccessNotStored, Upsert, FailedUpsert, Caught, Finish, GoTo, TypeOK
<1>8. CASE RecordOutcome(w)
  BY <1>8 DEF RecordOutcome, Upsert, FailedUpsert, Finish, GoTo, TypeOK
<1>9. CASE HandleUnexpected(w)
  BY <1>9 DEF HandleUnexpected, Upsert, FailedUpsert, Finish, GoTo, TypeOK
<1> QED
  BY <1>1, <1>2, <1>3, <1>4, <1>5, <1>6, <1>7, <1>8, <1>9 DEF Step

\* A slot's row is written for that slot alone, and only a drawn uuid4 has a
\* row or a caller.
IdsAreKept ==
    /\ \A s \in Slots : rows[s].slot \in {s, Regular}
    /\ \A r \in PostIds : rows[r].status # "absent" => r \in issued
    /\ \A w \in Workers : InCall(w) =>
          /\ call[w].runId \in Slots \cup issued
          /\ call[w].runId \in Slots => call[w].slot = call[w].runId

\* A step of create_research_run leaves its row alone, makes it a row without
\* signals, or stores the success with the stage that is there for it.
LEMMA StepWrites ==
    ASSUME TypeOK, NEW w \in Workers, Step(w)
    PROVE  \/ rows' = rows
           \/ \E st \in {"running", "rejected", "failed"} :
                 rows'[call[w].runId] = BareRow(st, w)
           \/ pc[w] = "success" /\ rows'[call[w].runId] = SuccessRow(w)
<1> USE DEF table
<1>1. call[w].runId \in RunIds
  BY StepIsLocal DEF TypeOK
<1>2. CASE RecordSuccess(w)
  BY <1>1, <1>2 DEF RecordSuccess, Upsert, FailedUpsert, TypeOK
<1>3. CASE RecordStarted(w)
  BY <1>1, <1>3 DEF RecordStarted, Upsert, FailedUpsert, TypeOK
<1>4. CASE RecordOutcome(w)
  BY <1>1, <1>4 DEF RecordOutcome, OutcomeRow, StatusOf, Upsert, FailedUpsert, TypeOK
<1>5. CASE HandleUnexpected(w)
  BY <1>1, <1>5 DEF HandleUnexpected, Upsert, FailedUpsert, TypeOK
<1>6. CASE \/ ScriptPreflight(w) \/ CheckUniverse(w) \/ CheckDuplicate(w)
           \/ Execute(w) \/ Freeze(w)
  BY <1>6 DEF ScriptPreflight, CheckUniverse, CheckDuplicate, Execute, Freeze
<1> QED BY <1>2, <1>3, <1>4, <1>5, <1>6 DEF Step

\* Whoever is not called stays where it is, with the call it had.
LEMMA InvokeIsLocal ==
    ASSUME TypeOK, NEW w \in Workers, Invoke(w)
    PROVE  /\ pc[w] = "idle"
           /\ \A v \in Workers \ {w} : /\ pc'[v] = pc[v] /\ call'[v] = call[v]
                                       /\ reply'[v] = reply[v]
<1>1. CASE \E s \in Slots : ScriptInvoke(w, s)
  BY <1>1 DEF ScriptInvoke, Finish, GoTo, TypeOK
<1>2. CASE \E r \in PostIds, s \in Slots \cup {Regular}, u \in Universes,
              c \in BOOLEAN : Post(w, r, s, u, c)
  BY <1>2 DEF Post, GoTo, TypeOK
<1>3. CASE \E r \in PostIds : PostMalformed(w, r)
  BY <1>3 DEF PostMalformed, TypeOK
<1> QED BY <1>1, <1>2, <1>3 DEF Invoke

\* A call that is taken up is for a slot without valid runs, or for an id
\* nobody had.
LEMMA CallTaken ==
    ASSUME TypeOK, NEW w \in Workers, Invoke(w), pc'[w] # "idle"
    PROVE  \/ /\ w \in Scripts /\ rows' = rows /\ issued' = issued
              /\ \E s \in Slots : /\ ValidRuns(s) = {}
                                  /\ call'[w].runId = s /\ call'[w].slot = s
           \/ /\ w \in Threads /\ rows' = rows
              /\ \E r \in PostIds \ issued : /\ issued' = issued \cup {r}
                                             /\ call'[w].runId = r
<1>1. ASSUME NEW s \in Slots, ScriptInvoke(w, s)
      PROVE  /\ w \in Scripts /\ rows' = rows /\ issued' = issued
             /\ ValidRuns(s) = {} /\ call'[w].runId = s /\ call'[w].slot = s
  BY <1>1 DEF ScriptInvoke, Finish, GoTo, TypeOK, ExistingRuns, table
<1>2. ASSUME NEW r \in PostIds, NEW s \in Slots \cup {Regular},
             NEW u \in Universes, NEW c \in BOOLEAN, Post(w, r, s, u, c)
      PROVE  /\ w \in Threads /\ rows' = rows /\ r \notin issued
             /\ issued' = issued \cup {r} /\ call'[w].runId = r
  BY <1>2 DEF Post, TypeOK
<1>3. ASSUME NEW r \in PostIds, PostMalformed(w, r) PROVE FALSE
  BY <1>3 DEF PostMalformed
<1> QED BY <1>1, <1>2, <1>3 DEF Invoke

\* Every step keeps the ids: a worker writes the row it works for, and a
\* malformed request the row of a uuid4 it has just drawn.
LEMMA KeptPreserved ==
    ASSUME TypeOK, IdsAreKept, [Next]_vars PROVE IdsAreKept'
<1> USE NameAssumption DEF InCall, table
<1>1. ASSUME NEW w \in Workers, Step(w) PROVE IdsAreKept'
  <2> DEFINE r == call[w].runId
  <2>1. /\ pc[w] # "idle" /\ issued' = issued /\ r \in RunIds
        /\ r \in Slots \cup issued
        /\ r \in Slots => call[w].slot = r
    BY <1>1, StepIsLocal DEF IdsAreKept, TypeOK
  <2>2. rows'[r] = rows[r] \/ (rows'[r].slot = call[w].slot)
    <3>1. \A st : BareRow(st, w).slot = call[w].slot
      BY DEF BareRow
    <3>2. SuccessRow(w).slot = call[w].slot
      BY DEF SuccessRow
    <3> QED BY <1>1, <3>1, <3>2, StepWrites
  <2>3. \A q \in RunIds \ {r} : rows'[q] = rows[q]
    BY <1>1, StepIsLocal
  <2>4. \A s \in Slots : rows'[s].slot \in {s, Regular}
    BY <2>1, <2>2, <2>3 DEF IdsAreKept, RunIds
  <2>5. \A q \in PostIds : rows'[q].status # "absent" => q \in issued'
    BY <2>1, <2>3 DEF IdsAreKept, RunIds
  <2>6. \A v \in Workers : pc'[v] # "idle" =>
           /\ call'[v].runId \in Slots \cup issued'
           /\ call'[v].runId \in Slots => call'[v].slot = call'[v].runId
    BY <1>1, <2>1, StepIsLocal DEF IdsAreKept
  <2> QED BY <2>4, <2>5, <2>6 DEF IdsAreKept
<1>2. ASSUME NEW w \in Workers, Invoke(w) PROVE IdsAreKept'
  <2>1. \A v \in Workers \ {w} : pc'[v] = pc[v] /\ call'[v] = call[v]
    BY <1>2, InvokeIsLocal
  <2>2. CASE pc'[w] # "idle"
    <3>1. /\ rows' = rows /\ issued \subseteq issued'
          /\ call'[w].runId \in Slots \cup issued'
          /\ call'[w].runId \in Slots => call'[w].slot = call'[w].runId
      BY <1>2, <2>2, CallTaken
    <3> QED BY <2>1, <3>1 DEF IdsAreKept
  <2>3. CASE pc'[w] = "idle"
    <3>1. CASE \E r \in PostIds : PostMalformed(w, r)
      <4>1. PICK r \in PostIds : PostMalformed(w, r)
        BY <3>1
      <4>2. /\ issued' = issued \cup {r}
            /\ \A q \in RunIds \ {r} : rows'[q] = rows[q]
        BY <4>1 DEF PostMalformed, Upsert, FailedUpsert, TypeOK
      <4>3. \A s \in Slots : rows'[s] = rows[s]
        BY <4>2 DEF RunIds
      <4>4. \A q \in PostIds : rows'[q].status # "absent" => q \in issued'
        BY <4>2 DEF IdsAreKept, RunIds
      <4> QED BY <2>1, <2>3, <4>2, <4>3, <4>4 DEF IdsAreKept
    <3>2. CASE ~\E r \in PostIds : PostMalformed(w, r)
      <4>1. rows' = rows /\ issued \subseteq issued'
        BY <1>2, <3>2 DEF Invoke, ScriptInvoke, Post
      <4> QED BY <2>1, <2>3, <4>1 DEF IdsAreKept
    <3> QED BY <3>1, <3>2
  <2> QED BY <2>2, <2>3
<1>3. CASE Tick \/ (\E u \in Universes : UniverseChanges(u)) \/ UNCHANGED vars
  BY <1>3 DEF Tick, UniverseChanges, vars, IdsAreKept
<1>4. ASSUME NEW S, Crash(S) PROVE IdsAreKept'
  <2>1. /\ rows' = rows /\ issued' = issued /\ call' = call
        /\ \A v \in Workers : pc'[v] # "idle" => pc[v] # "idle"
    BY <1>4 DEF Crash
  <2> QED BY <2>1 DEF IdsAreKept
<1> QED
  BY <1>1, <1>2, <1>3, <1>4 DEF Next, CrashScript, CrashServer

\* It holds of every behaviour.
THEOREM KeptInvariant == Spec => []IdsAreKept
<1>1. Init => IdsAreKept
  BY DEF Init, IdsAreKept, InCall, NoRow, RunIds
<1> QED BY <1>1, KeptPreserved, TypeCorrect, PTL DEF Spec

\* A valid run no worker works for is left alone by every step: the script
\* finds it, and its id has been drawn.
LEMMA SettledStays ==
    ASSUME TypeOK, IdsAreKept, [Next]_vars, NEW r \in RunIds, ValidRun(r),
           ~InFlight(r)
    PROVE  rows'[r] = rows[r] /\ ~InFlight(r)'
<1> USE DEF InFlight
<1>1. /\ rows[r].status = "succeeded" /\ rows[r].slot \in Slots
      /\ r \in ValidRuns(rows[r].slot)
  BY DEF ValidRun, ValidRuns
<1>2. r \in Slots => rows[r].slot = r
  BY <1>1, NameAssumption DEF IdsAreKept
<1>3. r \in PostIds => r \in issued
  BY <1>1 DEF IdsAreKept
<1>4. ASSUME NEW w \in Workers, Step(w)
      PROVE  rows'[r] = rows[r] /\ ~InFlight(r)'
  <2>1. call[w].runId # r
    BY <1>4, StepIsLocal
  <2> QED BY <1>4, <2>1, StepIsLocal
<1>5. ASSUME NEW w \in Workers, Invoke(w)
      PROVE  rows'[r] = rows[r] /\ ~InFlight(r)'
  <2>1. pc'[w] # "idle" => call'[w].runId # r
    <3> SUFFICES ASSUME pc'[w] # "idle" PROVE call'[w].runId # r
      OBVIOUS
    <3>1. CASE \E s \in Slots : ValidRuns(s) = {} /\ call'[w].runId = s
      BY <1>1, <1>2, <3>1
    <3>2. CASE call'[w].runId \in PostIds \ issued
      BY <1>2, <1>3, <3>2, NameAssumption DEF RunIds
    <3> QED BY <1>5, <3>1, <3>2, CallTaken
  <2>2. rows'[r] = rows[r]
    <3>1. ASSUME NEW q \in PostIds, PostMalformed(w, q) PROVE rows'[r] = rows[r]
      <4>1. q # r
        BY <1>3, <3>1 DEF PostMalformed
      <4> QED BY <3>1, <4>1 DEF PostMalformed, Upsert, FailedUpsert, TypeOK
    <3> QED BY <1>5, <3>1 DEF Invoke, ScriptInvoke, Post, table
  <2> QED BY <1>5, <2>1, <2>2, InvokeIsLocal
<1>6. CASE Tick \/ (\E u \in Universes : UniverseChanges(u)) \/ UNCHANGED vars
  BY <1>6 DEF Tick, UniverseChanges, vars, table
<1>7. ASSUME NEW S, Crash(S) PROVE rows'[r] = rows[r] /\ ~InFlight(r)'
  BY <1>7 DEF Crash, table
<1> QED BY <1>4, <1>5, <1>6, <1>7 DEF Next, CrashScript, CrashServer

\* Evidence is final once its call is over: neither a retry of the script, nor
\* another request, nor the failure branches of either reach its row again.
THEOREM SettledIsFinal == Spec => SettledEvidenceIsFinal
<1>1. TypeOK /\ IdsAreKept /\ [Next]_vars =>
        [\A r \in RunIds : ValidRun(r) /\ ~InFlight(r) =>
            rows'[r] = rows[r] /\ ~InFlight(r)']_vars
  BY SettledStays
<1> QED
  BY <1>1, TypeCorrect, KeptInvariant, PTL DEF Spec, SettledEvidenceIsFinal

----------------------------------------------------------------------------
(* The evidence is prospective as long as a slot is worked on by one       *)
(* script process at a time; scripts for other slots and API threads may   *)
(* be as many as you like.                                                 *)

\* No two calls in progress share a run id: uuid4 values are drawn once, and
\* a slot's id belongs to the one script process that works on the slot.
LEMMA OwnedPreserved ==
    ASSUME TypeOK, IdsAreKept, RunIdsAreOwned, OneScriptPerSlot',
           [Next]_vars
    PROVE  RunIdsAreOwned'
<1> USE NameAssumption DEF RunIdsAreOwned, InCall
<1>1. ASSUME NEW w \in Workers, NEW s \in Slots, ScriptInvoke(w, s)
      PROVE RunIdsAreOwned'
  <2>1. w \in Scripts /\ issued' = issued /\ pc[w] = "idle"
    BY <1>1 DEF ScriptInvoke, table
  <2>2. CASE call' = call /\ \A v \in Workers : pc'[v] # "idle" => pc[v] # "idle"
    BY <2>1, <2>2
  <2>3. CASE /\ call' = [call EXCEPT ![w] = [runId |-> s, slot |-> s,
                                             snapshot |-> universe,
                                             covered |-> FALSE]]
             /\ pc' = [pc EXCEPT ![w] = "preflight"]
    <3>1. \A v \in Workers \ {w} : call'[v] = call[v] /\ pc'[v] = pc[v]
      BY <2>3 DEF TypeOK
    <3>2. call'[w].runId = s
      BY <2>3 DEF TypeOK
    <3>3. ASSUME NEW v \in Workers \ {w}, pc[v] # "idle", call[v].runId = s
          PROVE  FALSE
      <4>1. v \in Scripts /\ call[v].slot = s
        BY <3>3 DEF TypeOK, IdsAreKept
      <4>2. /\ pc'[v] # "idle" /\ call'[v].slot = s
            /\ pc'[w] # "idle" /\ call'[w].slot = s
        BY <2>3, <3>1, <3>3, <4>1 DEF TypeOK
      <4> QED BY <2>1, <3>3, <4>1, <4>2 DEF OneScriptPerSlot
    <3> QED BY <2>1, <3>1, <3>2, <3>3
  <2> QED BY <1>1, <2>1, <2>2, <2>3 DEF ScriptInvoke, Finish, GoTo, TypeOK
<1>2. ASSUME NEW w \in Workers, NEW r \in PostIds,
             NEW s \in Slots \cup {Regular}, NEW u \in Universes,
             NEW c \in BOOLEAN, Post(w, r, s, u, c)
      PROVE RunIdsAreOwned'
  <2>1. r \notin issued /\ issued' = issued \cup {r} /\ pc[w] = "idle"
    BY <1>2 DEF Post
  <2>2. /\ \A v \in Workers \ {w} : call'[v] = call[v] /\ pc'[v] = pc[v]
        /\ call'[w].runId = r
    BY <1>2 DEF Post, GoTo, TypeOK
  <2>3. \A v \in Workers \ {w} : pc[v] # "idle" => call[v].runId # r
    BY <2>1
  <2> QED BY <2>1, <2>2, <2>3
<1>3. ASSUME NEW w \in Workers, NEW r \in PostIds, PostMalformed(w, r)
      PROVE RunIdsAreOwned'
  <2>1. pc' = pc /\ issued' = issued \cup {r} /\ pc[w] = "idle"
    BY <1>3 DEF PostMalformed
  <2>2. \A v \in Workers \ {w} : call'[v] = call[v]
    BY <1>3 DEF PostMalformed, TypeOK
  <2> QED BY <2>1, <2>2
<1>4. ASSUME NEW w \in Workers, Step(w) PROVE RunIdsAreOwned'
  BY <1>4, StepIsLocal
<1>5. CASE Tick \/ (\E u \in Universes : UniverseChanges(u)) \/ UNCHANGED vars
  BY <1>5 DEF Tick, UniverseChanges, vars, table
<1>6. ASSUME NEW S, Crash(S) PROVE RunIdsAreOwned'
  BY <1>6 DEF Crash, table
<1> HIDE DEF RunIdsAreOwned, InCall
<1> QED
  BY <1>1, <1>2, <1>3, <1>4, <1>5, <1>6
     DEF Next, Invoke, CrashScript, CrashServer

\* A worker in a call may write its own row, and no other worker's.
LEMMA OthersKeepTheirRows ==
    ASSUME TypeOK, RunIdsAreOwned, NEW w \in Workers, Step(w),
           NEW v \in Workers \ {w}, pc[v] # "idle"
    PROVE  rows'[call[v].runId] = rows[call[v].runId]
<1>1. call[v].runId # call[w].runId /\ call[v].runId \in RunIds
  BY StepIsLocal DEF RunIdsAreOwned, InCall, TypeOK
<1> QED BY <1>1, StepIsLocal

\* record_started clears the timestamp of the row a worker executes for, and
\* nobody else writes that row until the worker is done with it.
LEMMA NotYetFrozenPreserved ==
    ASSUME TypeOK, RunIdsAreOwned, NotYetFrozen, [Next]_vars
    PROVE  NotYetFrozen'
<1> USE DEF NotYetFrozen, table, world, progress
<1>1. ASSUME NEW w \in Workers, Step(w) PROVE NotYetFrozen'
  <2> SUFFICES ASSUME NEW v \in Workers, pc'[v] \in {"execute", "freeze"}
               PROVE  rows'[call'[v].runId].frozen = Never
    OBVIOUS
  <2>1. CASE v # w
    BY <1>1, <2>1, StepIsLocal, OthersKeepTheirRows
  <2>2. CASE v = w
    <3>1. call[w].runId \in RunIds
      BY <1>1, StepIsLocal DEF TypeOK
    <3>2. CASE RecordStarted(w)
      BY <2>2, <3>1, <3>2
         DEF RecordStarted, Upsert, FailedUpsert, BareRow, Caught, GoTo, TypeOK
    <3>3. CASE Execute(w)
      BY <2>2, <3>3 DEF Execute, Caught, GoTo, TypeOK
    <3>4. CASE ~RecordStarted(w) /\ ~Execute(w)
      BY <1>1, <2>2, <3>4
         DEF Step, ScriptPreflight, CheckUniverse, CheckDuplicate, Freeze,
             RecordSuccess, SuccessNotStored, RecordOutcome,
             HandleUnexpected, Caught, Finish,
             GoTo, TypeOK
    <3> QED BY <3>2, <3>3, <3>4
  <2> QED BY <2>1, <2>2
<1>2. ASSUME NEW w \in Workers, NEW s \in Slots, ScriptInvoke(w, s)
      PROVE NotYetFrozen'
  <2>1. /\ \A v \in Workers : pc'[v] \in {"execute", "freeze"} =>
              pc'[v] = pc[v] /\ call'[v] = call[v]
        /\ rows' = rows
    BY <1>2 DEF ScriptInvoke, Finish, GoTo, TypeOK
  <2> QED BY <2>1
<1>3. ASSUME NEW w \in Workers, NEW r \in PostIds,
             NEW s \in Slots \cup {Regular}, NEW u \in Universes,
             NEW c \in BOOLEAN, Post(w, r, s, u, c)
      PROVE NotYetFrozen'
  <2>1. /\ \A v \in Workers : pc'[v] \in {"execute", "freeze"} =>
              pc'[v] = pc[v] /\ call'[v] = call[v]
        /\ rows' = rows
    BY <1>3 DEF Post, GoTo, TypeOK
  <2> QED BY <2>1
<1>4. ASSUME NEW w \in Workers, NEW r \in PostIds, PostMalformed(w, r)
      PROVE NotYetFrozen'
  <2>1. /\ \A v \in Workers : pc[v] \in {"execute", "freeze"} => call'[v] = call[v]
        /\ pc' = pc
    BY <1>4 DEF PostMalformed, TypeOK
  <2>2. /\ r \in RunIds
        /\ \A q \in RunIds : rows'[q] = rows[q] \/ rows'[q].frozen = Never
    BY <1>4 DEF PostMalformed, Upsert, FailedUpsert, TypeOK, RunIds
  <2>3. \A v \in Workers : pc[v] \in {"execute", "freeze"} =>
           call[v].runId \in RunIds
    BY DEF TypeOK
  <2> QED BY <2>1, <2>2, <2>3
<1>5. CASE Tick \/ (\E u \in Universes : UniverseChanges(u)) \/ UNCHANGED vars
  BY <1>5 DEF Tick, UniverseChanges, vars
<1>6. ASSUME NEW S, Crash(S) PROVE NotYetFrozen'
  BY <1>6 DEF Crash
<1> HIDE DEF NotYetFrozen
<1> QED
  BY <1>1, <1>2, <1>3, <1>4, <1>5, <1>6
     DEF Next, Invoke, CrashScript, CrashServer

\* No step turns the clock back.
LEMMA TimeGrows ==
    ASSUME TypeOK, [Next]_vars PROVE now' \in Nat /\ now <= now'
<1>1. now \in Nat
  BY TimeAssumption DEF TypeOK, Ticks
<1>2. ASSUME NEW w \in Workers, Step(w) PROVE now' = now
  BY <1>2, StepIsLocal
<1>3. ASSUME NEW w \in Workers, Invoke(w) PROVE now' = now
  BY <1>3 DEF Invoke, ScriptInvoke, Post, PostMalformed, world
<1>4. CASE Tick
  BY <1>1, <1>4 DEF Tick
<1>5. CASE \/ \E u \in Universes : UniverseChanges(u)
           \/ CrashScript \/ CrashServer \/ UNCHANGED vars
  BY <1>1, <1>5 DEF UniverseChanges, CrashScript, CrashServer, Crash, vars, world
<1> QED BY <1>1, <1>2, <1>3, <1>4, <1>5 DEF Next

\* So what was computed in time stays so.
LEMMA StaysInTime ==
    ASSUME TypeOK, [Next]_vars, NEW computed, NEW complete, NEW s,
           ComputedInTime(computed, complete, s)
    PROVE  /\ ComputedInTime(computed, complete, s)'
           /\ \A t \in computed..now : t \in computed..now'
BY TimeGrows, TimeAssumption, SMTT(30) DEF ComputedInTime, TypeOK, Ticks

\* The signals a worker holds, and the timestamp it will persist, are in time.
LEMMA DraftsPreserved ==
    ASSUME TypeOK, TypeOK', RunIdsAreOwned, NotYetFrozen, DraftsInTime,
           [Next]_vars
    PROVE  DraftsInTime'
<1> USE DEF table, world, progress
<1>1. ASSUME NEW v \in Workers, call'[v].slot \in Slots,
             pc'[v] \in {"freeze", "success"}, pc'[v] = pc[v],
             call'[v].slot = call[v].slot, signals'[v] = signals[v],
             frozenAt'[v] = frozenAt[v]
      PROVE /\ ComputedInTime(signals[v].computed, signals[v].complete,
                              call[v].slot)'
            /\ pc'[v] = "success" => frozenAt'[v] \in signals'[v].computed..now'
  BY <1>1, StaysInTime DEF DraftsInTime, ComputedInTime
<1>2. ASSUME NEW w \in Workers, Step(w), call'[w].slot \in Slots,
             pc'[w] \in {"freeze", "success"}
      PROVE /\ ComputedInTime(signals[w].computed, signals[w].complete,
                              call[w].slot)'
            /\ pc'[w] = "success" => frozenAt'[w] \in signals'[w].computed..now'
  <2>1. CASE Execute(w)
    <3>1. /\ signals'[w].computed = now /\ now' = now
          /\ signals'[w].complete => DayOf[now] >= BasisDay[call[w].slot]
          /\ pc'[w] = "freeze" /\ call' = call
      BY <1>2, <2>1 DEF Execute, Caught, GoTo, TypeOK
    <3> QED BY <3>1, TimeAssumption DEF ComputedInTime, TypeOK, Ticks
  <2>2. CASE Freeze(w)
    <3>1. /\ frozenAt'[w] = FrozenFor(w) /\ now' = now /\ call' = call
          /\ signals' = signals /\ pc[w] = "freeze"
      BY <1>2, <2>2 DEF Freeze, Caught, GoTo, TypeOK
    <3>2. FrozenFor(w) = now
      BY <3>1 DEF NotYetFrozen, FrozenFor
    <3>3. ComputedInTime(signals[w].computed, signals[w].complete,
                         call[w].slot)
      BY <1>2, <3>1 DEF DraftsInTime
    <3> QED BY <3>1, <3>2, <3>3, TimeAssumption DEF ComputedInTime, TypeOK, Ticks
  <2>3. CASE ~Execute(w) /\ ~Freeze(w)
    BY <1>2, <2>3
       DEF Step, ScriptPreflight, CheckUniverse, CheckDuplicate, RecordStarted,
           RecordSuccess, SuccessNotStored, RecordOutcome,
             HandleUnexpected, Caught, Finish,
           GoTo, TypeOK
  <2> QED BY <2>1, <2>2, <2>3
<1>3. ASSUME NEW w \in Workers, Step(w) PROVE DraftsInTime'
  BY <1>1, <1>2, <1>3, StepIsLocal DEF DraftsInTime
<1>4. ASSUME NEW w \in Workers, Invoke(w), NEW v \in Workers,
             pc'[v] \in {"freeze", "success"}
      PROVE /\ pc'[v] = pc[v] /\ call'[v] = call[v]
            /\ signals'[v] = signals[v] /\ frozenAt'[v] = frozenAt[v]
  <2>1. CASE \E s \in Slots : ScriptInvoke(w, s)
    BY <1>4, <2>1 DEF ScriptInvoke, Finish, GoTo, TypeOK
  <2>2. CASE \E r \in PostIds, s \in Slots \cup {Regular}, u \in Universes,
                c \in BOOLEAN : Post(w, r, s, u, c)
    BY <1>4, <2>2 DEF Post, GoTo, TypeOK
  <2>3. CASE \E r \in PostIds : PostMalformed(w, r)
    BY <1>4, <2>3 DEF PostMalformed, TypeOK
  <2> QED BY <1>4, <2>1, <2>2, <2>3 DEF Invoke
<1>5. ASSUME NEW w \in Workers, Invoke(w) PROVE DraftsInTime'
  BY <1>1, <1>4, <1>5 DEF DraftsInTime
<1>6. CASE Tick \/ (\E u \in Universes : UniverseChanges(u)) \/ UNCHANGED vars
  BY <1>1, <1>6 DEF Tick, UniverseChanges, vars, DraftsInTime
<1>7. ASSUME NEW S, Crash(S) PROVE DraftsInTime'
  <2>1. \A v \in Workers : pc'[v] \in {"freeze", "success"} =>
           /\ pc'[v] = pc[v] /\ call'[v] = call[v]
           /\ signals'[v] = signals[v] /\ frozenAt'[v] = frozenAt[v]
    BY <1>7 DEF Crash
  <2> QED BY <1>1, <2>1 DEF DraftsInTime
<1> QED
  BY <1>3, <1>5, <1>6, <1>7 DEF Next, CrashScript, CrashServer

\* What is persisted was in time when it was written, and time only grows.
LEMMA RowsPreserved ==
    ASSUME TypeOK, TypeOK', RunIdsAreOwned, DraftsInTime, RowsInTime,
           [Next]_vars
    PROVE  RowsInTime'
<1> USE DEF table, world, progress
<1>1. ASSUME NEW r \in RunIds, rows'[r] = rows[r],
             rows'[r].status = "succeeded", rows'[r].slot \in Slots
      PROVE /\ ComputedInTime(rows[r].computed, rows[r].complete,
                              rows[r].slot)'
            /\ rows'[r].frozen \in rows'[r].computed..now'
  BY <1>1, StaysInTime DEF RowsInTime, ComputedInTime
<1>2. ASSUME NEW w \in Workers, Step(w) PROVE RowsInTime'
  <2>1. PICK r \in RunIds : r = call[w].runId
    BY <1>2, StepIsLocal DEF TypeOK
  <2>2. rows'[r] = rows[r] \/ rows'[r].status # "succeeded"
           \/ (pc[w] = "success" /\ rows'[r] = SuccessRow(w) /\ now' = now)
    <3>1. CASE RecordSuccess(w)
      BY <2>1, <3>1 DEF RecordSuccess, Upsert, FailedUpsert, TypeOK
    <3>2. CASE RecordStarted(w)
      BY <2>1, <3>2 DEF RecordStarted, BareRow, Upsert, FailedUpsert, TypeOK
    <3>3. CASE RecordOutcome(w)
      BY <2>1, <3>3
         DEF RecordOutcome, OutcomeRow, BareRow, StatusOf, Upsert, FailedUpsert, TypeOK
    <3>4. CASE HandleUnexpected(w)
      BY <2>1, <3>4 DEF HandleUnexpected, BareRow, Upsert, FailedUpsert, TypeOK
    <3>5. CASE \/ ScriptPreflight(w) \/ CheckUniverse(w) \/ CheckDuplicate(w)
               \/ Execute(w) \/ Freeze(w)
      BY <3>5 DEF ScriptPreflight, CheckUniverse, CheckDuplicate, Execute,
                  Freeze
    <3> QED BY <1>2, <3>1, <3>2, <3>3, <3>4, <3>5 DEF Step
  <2>3. ASSUME pc[w] = "success", rows'[r] = SuccessRow(w), now' = now,
               rows'[r].slot \in Slots
        PROVE /\ ComputedInTime(rows[r].computed, rows[r].complete,
                                rows[r].slot)'
              /\ rows'[r].frozen \in rows'[r].computed..now'
    BY <2>1, <2>3 DEF SuccessRow, DraftsInTime, ComputedInTime
  <2>4. \A q \in RunIds \ {r} : rows'[q] = rows[q]
    BY <1>2, <2>1, StepIsLocal
  <2> QED BY <1>1, <2>2, <2>3, <2>4 DEF RowsInTime
<1>3. ASSUME NEW w \in Workers, NEW r \in PostIds, PostMalformed(w, r)
      PROVE RowsInTime'
  <2>1. \A q \in RunIds : rows'[q] = rows[q] \/ rows'[q].status # "succeeded"
    BY <1>3 DEF PostMalformed, Upsert, FailedUpsert, TypeOK
  <2> QED BY <1>1, <2>1 DEF RowsInTime
<1>4. CASE rows' = rows
  BY <1>1, <1>4 DEF RowsInTime
<1> QED
  BY <1>2, <1>3, <1>4
     DEF Next, Invoke, ScriptInvoke, Post, Tick, UniverseChanges, CrashScript,
         CrashServer, Crash, vars

\* As long as script processes for one slot do not overlap, the strengthening
\* is an invariant.
THEOREM ProspectiveInvariant ==
    Spec /\ []OneScriptPerSlot => []ProspectiveInv
<1>1. Init => ProspectiveInv
  <2>1. Init => TypeOK
    BY TimeAssumption, BoundAssumption
       DEF Init, TypeOK, NoRow, NoSignals, Never, Statuses, Stages, Ticks,
           RunIds
  <2> QED
    BY <2>1 DEF Init, ProspectiveInv, RunIdsAreOwned, InCall, NotYetFrozen,
                DraftsInTime, RowsInTime, NoRow
<1>2. /\ ProspectiveInv /\ TypeOK' /\ IdsAreKept /\ OneScriptPerSlot'
      /\ [Next]_vars
      => ProspectiveInv'
  BY OwnedPreserved, NotYetFrozenPreserved, DraftsPreserved, RowsPreserved
     DEF ProspectiveInv
<1> QED BY <1>1, <1>2, TypeCorrect, KeptInvariant, PTL DEF Spec

\* A run the evaluation accepts was computed on its basis date.  Frozen on the
\* basis date and computed no later, it cannot be of a later date; complete,
\* it cannot be of an earlier one.
THEOREM EvidenceTheorem ==
    Spec /\ []OneScriptPerSlot => []EvidenceIsProspective
<1>1. ProspectiveInv => EvidenceIsProspective
  <2> SUFFICES ASSUME ProspectiveInv, NEW r \in RunIds, ValidRun(r)
               PROVE  DayOf[rows[r].computed] = BasisDay[rows[r].slot]
    BY DEF EvidenceIsProspective
  <2>1. /\ rows[r].computed \in 1..now /\ rows[r].frozen \in 1..now
        /\ rows[r].computed <= rows[r].frozen
        /\ DayOf[rows[r].computed] >= BasisDay[rows[r].slot]
    BY TimeAssumption
       DEF ProspectiveInv, RowsInTime, ValidRun, ComputedInTime, TypeOK, Ticks
  <2>2. rows[r].computed \in Ticks /\ rows[r].frozen \in Ticks
    BY <2>1, TimeAssumption DEF ProspectiveInv, TypeOK, Ticks
  <2>3. DayOf[rows[r].computed] <= BasisDay[rows[r].slot]
    BY <2>1, <2>2, TimeAssumption DEF ValidRun
  <2> QED BY <2>1, <2>2, <2>3, TimeAssumption DEF ValidRun
<1> QED BY <1>1, ProspectiveInvariant, PTL

----------------------------------------------------------------------------
(* What an API client was told.                                            *)

\* A uuid4 belongs to one thread, also after it has replied.
IdsAreUnshared ==
    \A w \in Workers : call[w].runId \in PostIds =>
        /\ w \in Threads
        /\ call[w].runId \in issued
        /\ \A v \in Workers \ {w} : call[v].runId # call[w].runId

\* Before a thread records its outcome its row is no success, unless storage
\* has failed already; after that a second failure is needed to keep one.
RowsAwaitAnswers ==
    \A w \in Threads : call[w].runId \in PostIds =>
        LET status == rows[call[w].runId].status
        IN  /\ InCall(w) /\ pc[w] \notin {"record", "handler"}
                  => status # "succeeded"
            /\ pc[w] = "record" /\ status = "succeeded" => faults >= 1
            /\ pc[w] = "handler" /\ status = "succeeded" => faults >= 2
            /\ pc[w] = "idle" /\ reply[w] = "created" => status = "succeeded"
            /\ pc[w] = "idle" /\ reply[w] = "error" /\ status = "succeeded"
                  => faults >= 2

AnswersInv == TypeOK /\ IdsAreKept /\ IdsAreUnshared /\ RowsAwaitAnswers

\* A call keeps its id to the end, and a new one has an id of its own.
LEMMA UnsharedPreserved ==
    ASSUME TypeOK, IdsAreUnshared, [Next]_vars PROVE IdsAreUnshared'
<1> USE NameAssumption DEF table
<1>1. ASSUME NEW w \in Workers, Step(w) PROVE IdsAreUnshared'
  BY <1>1, StepIsLocal DEF IdsAreUnshared
<1>2. ASSUME NEW w \in Workers, Invoke(w) PROVE IdsAreUnshared'
  <2>1. \A v \in Workers \ {w} : call'[v] = call[v]
    BY <1>2, InvokeIsLocal
  <2>2. /\ issued \subseteq issued'
        /\ \/ call'[w] = call[w]
           \/ call'[w].runId \in Slots
           \/ w \in Threads /\ call'[w].runId \in issued' \ issued
    <3>1. CASE \E s \in Slots : ScriptInvoke(w, s)
      BY <3>1 DEF ScriptInvoke, TypeOK
    <3>2. CASE \E r \in PostIds, s \in Slots \cup {Regular}, u \in Universes,
                  c \in BOOLEAN : Post(w, r, s, u, c)
      BY <3>2 DEF Post, TypeOK
    <3>3. CASE \E r \in PostIds : PostMalformed(w, r)
      BY <3>3 DEF PostMalformed, TypeOK
    <3> QED BY <1>2, <3>1, <3>2, <3>3 DEF Invoke
  <2> QED BY <2>1, <2>2 DEF IdsAreUnshared
<1>3. CASE Tick \/ (\E u \in Universes : UniverseChanges(u)) \/ UNCHANGED vars
  BY <1>3 DEF Tick, UniverseChanges, vars, IdsAreUnshared
<1>4. ASSUME NEW S, Crash(S) PROVE IdsAreUnshared'
  BY <1>4 DEF Crash, IdsAreUnshared
<1> QED
  BY <1>1, <1>2, <1>3, <1>4 DEF Next, CrashScript, CrashServer

\* What a step of create_research_run may leave between a thread's stage, its
\* row and its answer.
LEMMA StepAnswers ==
    ASSUME AnswersInv, NEW w \in Threads, Step(w), call[w].runId \in PostIds
    PROVE  LET status == rows'[call[w].runId].status
           IN  /\ pc'[w] \notin {"idle", "record", "handler"}
                     => status # "succeeded"
               /\ pc'[w] = "record" /\ status = "succeeded" => faults' >= 1
               /\ pc'[w] = "handler" /\ status = "succeeded" => faults' >= 2
               /\ pc'[w] = "idle" /\ reply'[w] = "created"
                     => status = "succeeded"
               /\ pc'[w] = "idle" /\ reply'[w] = "error"
                  /\ status = "succeeded" => faults' >= 2
<1> DEFINE r == call[w].runId
<1> USE DEF table
<1>1. /\ w \in Workers /\ r \in RunIds /\ pc[w] # "idle"
      /\ pc[w] \notin {"record", "handler"} => rows[r].status # "succeeded"
      /\ pc[w] = "record" /\ rows[r].status = "succeeded" => faults >= 1
      /\ pc[w] = "handler" /\ rows[r].status = "succeeded" => faults >= 2
  BY StepIsLocal DEF Workers, RunIds, AnswersInv, RowsAwaitAnswers, InCall
<1>2. faults \in Nat
  BY BoundAssumption DEF AnswersInv, TypeOK
<1>3. /\ SuccessRow(w).status = "succeeded"
      /\ \A st : BareRow(st, w).status = st
  BY DEF SuccessRow, BareRow
<1>4. \A row : Upsert(r, row) => rows'[r] = row
  BY <1>1 DEF Upsert, AnswersInv, TypeOK
<1>5. ASSUME NEW v, Caught(w, v) PROVE pc'[w] = "record"
  BY <1>1, <1>5 DEF Caught, GoTo, AnswersInv, TypeOK
<1>6. ASSUME NEW a, Finish(w, a) PROVE pc'[w] = "idle" /\ reply'[w] = a
  BY <1>1, <1>6 DEF Finish, GoTo, AnswersInv, TypeOK
<1>7. ASSUME NEW stage, GoTo(w, stage) PROVE pc'[w] = stage
  BY <1>1, <1>7 DEF GoTo, AnswersInv, TypeOK
<1> HIDE DEF r
<1>8. CASE RecordSuccess(w)
  <2>1. pc[w] = "success" /\ rows[r].status # "succeeded"
    BY <1>1, <1>8 DEF RecordSuccess
  <2>2. CASE Upsert(r, SuccessRow(w)) /\ Finish(w, "created")
    BY <1>3, <1>4, <1>6, <2>2 DEF r
  <2>3. CASE FailedUpsert(r, SuccessRow(w)) /\ Caught(w, "failed")
    BY <1>2, <1>5, <2>3 DEF r, FailedUpsert
  <2> QED BY <1>8, <2>2, <2>3 DEF RecordSuccess, SuccessNotStored, r
<1>9. CASE RecordStarted(w)
  <2>1. rows'[r].status # "succeeded"
    <3>1. rows[r].status # "succeeded"
      BY <1>1, <1>9 DEF RecordStarted
    <3> QED BY <1>3, <1>4, <1>9, <3>1 DEF RecordStarted, FailedUpsert, r
  <2>2. pc'[w] \in {"execute", "record"}
    BY <1>5, <1>7, <1>9 DEF RecordStarted
  <2> QED BY <2>1, <2>2 DEF r
<1>10. CASE RecordOutcome(w)
  <2>1. rows'[r].status = "succeeded" => faults' >= 2
    <3>1. StatusOf(verdict[w]) # "succeeded"
      BY DEF StatusOf
    <3>2. CASE Upsert(r, OutcomeRow(w))
      BY <1>3, <1>4, <3>1, <3>2 DEF OutcomeRow
    <3>3. CASE FailedUpsert(r, OutcomeRow(w))
      <4>1. rows[r].status = "succeeded" => faults >= 1
        BY <1>1, <1>10 DEF RecordOutcome
      <4>2. faults' = faults + 1
        BY <3>3 DEF FailedUpsert
      <4>3. rows'[r].status = "succeeded" => rows[r].status = "succeeded"
        BY <1>3, <1>4, <3>1, <3>3 DEF FailedUpsert, OutcomeRow
      <4> QED BY <1>2, <4>1, <4>2, <4>3
    <3> QED BY <1>10, <3>2, <3>3 DEF RecordOutcome, r
  <2>2. pc'[w] = "handler" \/ (pc'[w] = "idle" /\ reply'[w] = "error")
    BY <1>6, <1>7, <1>10 DEF RecordOutcome
  <2> QED BY <2>1, <2>2 DEF r
<1>11. CASE HandleUnexpected(w)
  <2>1. rows'[r].status = "succeeded" => faults' >= 2
    <3>1. rows[r].status = "succeeded" => faults >= 2
      BY <1>1, <1>11 DEF HandleUnexpected
    <3>2. rows'[r].status = "succeeded" => rows[r].status = "succeeded"
      BY <1>3, <1>4, <1>11 DEF HandleUnexpected, FailedUpsert, r
    <3>3. faults' \in {faults, faults + 1}
      BY <1>11 DEF HandleUnexpected, FailedUpsert
    <3> QED BY <1>2, <3>1, <3>2, <3>3
  <2>2. pc'[w] = "idle" /\ reply'[w] = "error"
    BY <1>6, <1>11 DEF HandleUnexpected
  <2> QED BY <2>1, <2>2 DEF r
<1>12. CASE ScriptPreflight(w) \/ CheckUniverse(w) \/ CheckDuplicate(w)
            \/ Execute(w) \/ Freeze(w)
  <2>1. rows' = rows /\ rows[r].status # "succeeded"
    BY <1>1, <1>12 DEF ScriptPreflight, CheckUniverse, CheckDuplicate, Execute,
                       Freeze
  <2>2. \/ pc'[w] \notin {"idle"}
        \/ pc'[w] = "idle" /\ reply'[w] # "created"
    BY <1>5, <1>6, <1>7, <1>12
       DEF ScriptPreflight, CheckUniverse, CheckDuplicate, Execute, Freeze
  <2> QED BY <2>1, <2>2 DEF r
<1> QED BY <1>8, <1>9, <1>10, <1>11, <1>12 DEF Step

\* Storage failures are only ever added up.
LEMMA FaultsAddUp ==
    ASSUME TypeOK, [Next]_vars
    PROVE  faults \in Nat /\ faults' \in Nat /\ faults <= faults'
<1>1. faults' = faults \/ (faults < MaxFaults /\ faults' = faults + 1)
  BY DEF Next, Invoke, ScriptInvoke, Post, PostMalformed, Step, ScriptPreflight,
         CheckUniverse, CheckDuplicate, RecordStarted, Execute, Freeze,
         RecordSuccess, RecordOutcome, HandleUnexpected, Tick, UniverseChanges,
         CrashScript, CrashServer, Crash, FailedRead, FailedUpsert, budget, vars
<1>2. faults \in 0..MaxFaults
  BY DEF TypeOK
<1> QED BY <1>1, <1>2, BoundAssumption

\* So the rows await their answers after every step.
LEMMA AwaitPreserved ==
    ASSUME AnswersInv, [Next]_vars PROVE RowsAwaitAnswers'
<1> USE NameAssumption DEF InCall, table
<1>1. ASSUME NEW w \in Workers, Step(w) PROVE RowsAwaitAnswers'
  <2> SUFFICES ASSUME NEW v \in Threads, call'[v].runId \in PostIds
               PROVE  LET status == rows'[call'[v].runId].status
                      IN  /\ pc'[v] \notin {"idle", "record", "handler"}
                                => status # "succeeded"
                          /\ pc'[v] = "record" /\ status = "succeeded"
                                => faults' >= 1
                          /\ pc'[v] = "handler" /\ status = "succeeded"
                                => faults' >= 2
                          /\ pc'[v] = "idle" /\ reply'[v] = "created"
                                => status = "succeeded"
                          /\ pc'[v] = "idle" /\ reply'[v] = "error"
                             /\ status = "succeeded" => faults' >= 2
    BY Zenon DEF RowsAwaitAnswers
  <2>1. v \in Workers /\ call'[v].runId = call[v].runId /\ call[v].runId \in RunIds
    BY <1>1, StepIsLocal DEF AnswersInv, Workers, RunIds
  <2>2. CASE v = w
    BY <1>1, <2>1, <2>2, StepAnswers
  <2>3. CASE v # w
    <3>1. rows'[call[v].runId] = rows[call[v].runId] /\ pc'[v] = pc[v]
      BY <1>1, <2>1, <2>3, StepIsLocal DEF AnswersInv, IdsAreUnshared
    <3>2. reply'[v] = reply[v]
      BY <1>1, <2>1, <2>3
         DEF Step, ScriptPreflight, CheckUniverse, CheckDuplicate, RecordStarted,
             Execute, Freeze, RecordSuccess, SuccessNotStored, RecordOutcome,
             HandleUnexpected, Caught, Finish, AnswersInv, TypeOK, progress
    <3> QED BY <2>1, <3>1, <3>2, FaultsAddUp DEF AnswersInv, RowsAwaitAnswers
  <2> QED BY <2>2, <2>3
<1>2. ASSUME NEW w \in Workers, Invoke(w) PROVE RowsAwaitAnswers'
  <2> SUFFICES ASSUME NEW v \in Threads, call'[v].runId \in PostIds
               PROVE  LET status == rows'[call'[v].runId].status
                      IN  /\ pc'[v] \notin {"idle", "record", "handler"}
                                => status # "succeeded"
                          /\ pc'[v] = "record" /\ status = "succeeded"
                                => faults' >= 1
                          /\ pc'[v] = "handler" /\ status = "succeeded"
                                => faults' >= 2
                          /\ pc'[v] = "idle" /\ reply'[v] = "created"
                                => status = "succeeded"
                          /\ pc'[v] = "idle" /\ reply'[v] = "error"
                             /\ status = "succeeded" => faults' >= 2
    BY Zenon DEF RowsAwaitAnswers
  <2>1. v \in Workers /\ pc[w] = "idle"
    BY <1>2, InvokeIsLocal DEF AnswersInv, Workers
  <2>2. CASE v # w
    <3>1. /\ pc'[v] = pc[v] /\ call'[v] = call[v] /\ reply'[v] = reply[v]
          /\ call[v].runId \in issued
      BY <1>2, <2>1, <2>2, InvokeIsLocal DEF AnswersInv, IdsAreUnshared
    <3>2. rows'[call[v].runId] = rows[call[v].runId]
      <4>1. ASSUME NEW r \in PostIds, PostMalformed(w, r)
            PROVE  rows'[call[v].runId] = rows[call[v].runId]
        <5>1. r # call[v].runId /\ call[v].runId \in RunIds
          BY <2>1, <3>1, <4>1 DEF PostMalformed, RunIds
        <5> QED
          BY <4>1, <5>1
             DEF PostMalformed, Upsert, FailedUpsert, AnswersInv, TypeOK
      <4> QED BY <1>2, <4>1 DEF Invoke, ScriptInvoke, Post
    <3> QED BY <2>1, <3>1, <3>2, FaultsAddUp DEF AnswersInv, RowsAwaitAnswers
  <2>3. CASE v = w
    <3>1. ASSUME NEW r \in PostIds, NEW s \in Slots \cup {Regular},
                 NEW u \in Universes, NEW c \in BOOLEAN, Post(w, r, s, u, c)
          PROVE  /\ pc'[w] \notin {"idle", "record", "handler"}
                 /\ rows'[call'[w].runId].status = "absent"
      <4>1. call'[w].runId = r /\ rows' = rows /\ r \notin issued
        BY <3>1 DEF Post, AnswersInv, TypeOK
      <4> QED BY <3>1, <4>1 DEF Post, GoTo, AnswersInv, TypeOK, IdsAreKept
    <3>2. ASSUME NEW r \in PostIds, PostMalformed(w, r)
          PROVE  /\ pc'[w] = "idle" /\ reply'[w] = "error"
                 /\ rows'[call'[w].runId].status # "succeeded"
      <4>1. /\ call'[w].runId = r /\ rows[r].status = "absent" /\ pc' = pc
            /\ reply'[w] = "error" /\ r \in RunIds
        BY <3>2 DEF PostMalformed, AnswersInv, TypeOK, IdsAreKept, RunIds
      <4>2. rows'[r].status \in {"absent", "validation_failed"}
        BY <3>2, <4>1
           DEF PostMalformed, Upsert, FailedUpsert, AnswersInv, TypeOK
      <4> QED BY <2>1, <4>1, <4>2
    <3>3. w \notin Scripts
      BY <2>3, WorkerAssumption
    <3> QED BY <1>2, <2>3, <3>1, <3>2, <3>3 DEF Invoke, ScriptInvoke
  <2> QED BY <2>2, <2>3
<1>3. CASE Tick \/ (\E u \in Universes : UniverseChanges(u)) \/ UNCHANGED vars
  BY <1>3 DEF Tick, UniverseChanges, vars, budget, AnswersInv, RowsAwaitAnswers
<1>4. ASSUME NEW S, Crash(S) PROVE RowsAwaitAnswers'
  <2>1. /\ rows' = rows /\ call' = call /\ faults' = faults
        /\ \A v \in Workers : \/ pc'[v] = pc[v] /\ reply'[v] = reply[v]
                              \/ pc'[v] = "idle" /\ reply'[v] = "none"
    BY <1>4 DEF Crash
  <2> QED BY <2>1 DEF AnswersInv, RowsAwaitAnswers, Workers
<1> HIDE DEF InCall
<1> QED
  BY <1>1, <1>2, <1>3, <1>4 DEF Next, CrashScript, CrashServer

\* Thread w last told its client that the run was created.
ToldCreated(w) ==
    w \in Threads /\ pc[w] = "idle" /\ call[w].runId \in PostIds
                  /\ reply[w] = "created"

\* A client told of a success finds one however often storage fails, and a
\* client told of an error does not until storage has failed twice: that is
\* what it takes to leave a commit that was reported as failed.
THEOREM AnswersAreTrue ==
    Spec => [](/\ \A w \in Threads :
                     ToldCreated(w) => rows[call[w].runId].status = "succeeded"
               /\ faults <= 1 => AnswersMatchRows)
<1>1. Init => IdsAreUnshared /\ RowsAwaitAnswers
  <2> SUFFICES ASSUME Init PROVE \A w \in Workers : call[w].runId \notin PostIds
    BY DEF IdsAreUnshared, RowsAwaitAnswers, Workers
  <2> QED BY NameAssumption DEF Init
<1>2. AnswersInv /\ TypeOK' /\ IdsAreKept' /\ [Next]_vars => AnswersInv'
  BY UnsharedPreserved, AwaitPreserved DEF AnswersInv
<1>3. AnswersInv =>
        /\ \A w \in Threads :
              ToldCreated(w) => rows[call[w].runId].status = "succeeded"
        /\ faults <= 1 => AnswersMatchRows
  <2> SUFFICES ASSUME AnswersInv, NEW w \in Threads, pc[w] = "idle",
                      call[w].runId \in PostIds
               PROVE  LET status == rows[call[w].runId].status
                      IN  /\ reply[w] = "created" => status = "succeeded"
                          /\ faults <= 1 =>
                                /\ reply[w] = "created" => status = "succeeded"
                                /\ reply[w] = "error" => status # "succeeded"
    BY Zenon DEF ToldCreated, AnswersMatchRows
  <2>1. faults \in Nat
    BY BoundAssumption DEF AnswersInv, TypeOK
  <2> QED BY <2>1 DEF AnswersInv, RowsAwaitAnswers
<1> QED
  BY <1>1, <1>2, <1>3, TypeCorrect, KeptInvariant, PTL DEF Spec, AnswersInv

----------------------------------------------------------------------------
(* Calls for a slot that do not overlap: one valid run per slot, and the   *)
(* ledger.                                                                 *)

\* A call that has passed the duplicate check is the only one that can still
\* make a run of its slot valid.
NoRival ==
    \A w \in Workers :
        /\ pc[w] \in {"start", "execute", "freeze", "success"}
        /\ call[w].slot \in Slots
        => OtherValidRuns(w) = {}

SerialInv == NoRival /\ AtMostOneValidRun

\* A run becomes valid when its success is stored, and in no other way.
LEMMA NewlyValid ==
    ASSUME TypeOK, IdsAreKept, [Next]_vars, NEW q \in RunIds, ValidRun(q)'
    PROVE  \/ ValidRun(q) /\ rows'[q] = rows[q]
           \/ \E w \in Workers : /\ Step(w) /\ pc[w] = "success"
                                 /\ call[w].runId = q
                                 /\ rows'[q] = SuccessRow(w)
<1>1. rows'[q] = rows[q] => ValidRun(q)
  BY DEF ValidRun
<1>2. rows'[q].status = "succeeded"
  BY DEF ValidRun
<1>3. ASSUME NEW w \in Workers, Step(w), rows'[q] # rows[q]
      PROVE  /\ pc[w] = "success" /\ call[w].runId = q
             /\ rows'[q] = SuccessRow(w)
  <2>1. call[w].runId = q
    BY <1>3, StepIsLocal
  <2>2. \A st \in {"running", "rejected", "failed"} :
           BareRow(st, w).status # "succeeded"
    BY DEF BareRow
  <2> QED BY <1>2, <1>3, <2>1, <2>2, StepWrites
<1>4. ASSUME NEW w \in Workers, Invoke(w) PROVE rows'[q] = rows[q]
  <2>1. ASSUME NEW r \in PostIds, PostMalformed(w, r) PROVE rows'[q] = rows[q]
    <3>1. CASE q = r
      BY <1>2, <2>1, <3>1 DEF PostMalformed, Upsert, FailedUpsert, TypeOK
    <3>2. CASE q # r
      BY <2>1, <3>2 DEF PostMalformed, Upsert, FailedUpsert, TypeOK
    <3> QED BY <3>1, <3>2
  <2> QED BY <1>4, <2>1 DEF Invoke, ScriptInvoke, Post, table
<1>5. CASE \/ Tick \/ (\E u \in Universes : UniverseChanges(u))
           \/ CrashScript \/ CrashServer \/ UNCHANGED vars
  BY <1>1, <1>5
     DEF Tick, UniverseChanges, CrashScript, CrashServer, Crash, vars, table
<1> QED BY <1>1, <1>3, <1>4, <1>5 DEF Next

\* The duplicate check holds until the success is stored, because no other
\* call for the slot comes between.
LEMMA RivalPreserved ==
    ASSUME SlotCallsApart, TypeOK, IdsAreKept, NoRival, [Next]_vars
    PROVE  NoRival'
<1> USE DEF table
<1> SUFFICES ASSUME NEW w \in Workers, call'[w].slot \in Slots,
                    pc'[w] \in {"start", "execute", "freeze", "success"},
                    NEW q \in RunIds, ValidRun(q)', rows'[q].slot = call'[w].slot
             PROVE  q = call'[w].runId
  BY Zenon DEF NoRival, OtherValidRuns, ValidRuns
<1> DEFINE Checked == {"start", "execute", "freeze", "success"}
<1>1. ASSUME pc[w] \in Checked, call'[w].runId = call[w].runId,
             call'[w].slot = call[w].slot
      PROVE  q = call'[w].runId
  <2>1. ASSUME ValidRun(q), rows'[q] = rows[q] PROVE q = call[w].runId
    BY <1>1, <2>1 DEF NoRival, OtherValidRuns, ValidRuns
  <2>2. ASSUME NEW v \in Workers, pc[v] = "success", call[v].runId = q,
               rows'[q] = SuccessRow(v)
        PROVE  q = call[w].runId
    <3>1. call[v].slot = call[w].slot /\ call[w].slot \in Slots
      BY <1>1, <2>2 DEF SuccessRow
    <3> QED BY <1>1, <2>2, <3>1 DEF SlotCallsApart, InCall
  <2> QED BY <1>1, <2>1, <2>2, NewlyValid
<1>2. ASSUME Step(w), pc[w] \notin Checked PROVE q = call'[w].runId
  <2>1. CheckDuplicate(w)
    BY <1>2
       DEF Step, ScriptPreflight, CheckUniverse, RecordStarted, Execute, Freeze,
           RecordSuccess, RecordOutcome, HandleUnexpected, Caught, Finish, GoTo,
           TypeOK
  <2>2. rows' = rows /\ call' = call /\ OtherValidRuns(w) = {}
    BY <2>1 DEF CheckDuplicate, Caught, GoTo, TypeOK
  <2> QED BY <2>2 DEF OtherValidRuns, ValidRuns, ValidRun
<1>3. ASSUME NEW v \in Workers, Step(v) PROVE q = call'[w].runId
  <2>1. call'[w].runId = call[w].runId /\ call'[w].slot = call[w].slot
    BY <1>3, StepIsLocal
  <2>2. v # w => pc'[w] = pc[w]
    BY <1>3, StepIsLocal
  <2> QED BY <1>1, <1>2, <1>3, <2>1, <2>2
<1>4. ASSUME Invoke(w) PROVE FALSE
  <2>1. CASE \E s \in Slots : ScriptInvoke(w, s)
    BY <2>1 DEF ScriptInvoke, Finish, GoTo, TypeOK
  <2>2. CASE \E r \in PostIds, s \in Slots \cup {Regular}, u \in Universes,
                c \in BOOLEAN : Post(w, r, s, u, c)
    BY <2>2, NameAssumption DEF Post, GoTo, TypeOK
  <2>3. CASE \E r \in PostIds : PostMalformed(w, r)
    BY <2>3 DEF PostMalformed
  <2> QED BY <1>4, <2>1, <2>2, <2>3 DEF Invoke
<1>5. ASSUME NEW v \in Workers, Invoke(v) PROVE q = call'[w].runId
  <2>1. v # w
    BY <1>4, <1>5
  <2>2. pc'[w] = pc[w] /\ call'[w] = call[w]
    BY <1>5, <2>1, InvokeIsLocal
  <2> QED BY <1>1, <2>2
<1>6. CASE \/ Tick \/ (\E u \in Universes : UniverseChanges(u))
           \/ CrashScript \/ CrashServer \/ UNCHANGED vars
  <2>1. call' = call /\ pc'[w] = pc[w]
    BY <1>6
       DEF Tick, UniverseChanges, CrashScript, CrashServer, Crash, vars
  <2> QED BY <1>1, <2>1
<1> QED BY <1>3, <1>5, <1>6 DEF Next

\* So no success makes a slot have two valid runs.
LEMMA SerialPreserved ==
    ASSUME SlotCallsApart, TypeOK, IdsAreKept, SerialInv, [Next]_vars
    PROVE  SerialInv'
<1>1. ASSUME NEW s \in Slots, NEW p \in ValidRuns(s)', NEW q \in ValidRuns(s)',
             NEW w \in Workers, pc[w] = "success", call[w].runId = p,
             rows'[p] = SuccessRow(w), q # p
      PROVE  FALSE
  <2>1. call[w].slot = s
    BY <1>1 DEF SuccessRow, ValidRuns
  <2>2. ASSUME NEW v \in Workers, pc[v] = "success", call[v].runId = q,
               rows'[q] = SuccessRow(v)
        PROVE  FALSE
    <3>1. call[v].slot = s
      BY <1>1, <2>2 DEF SuccessRow, ValidRuns
    <3> QED BY <1>1, <2>1, <2>2, <3>1 DEF SlotCallsApart, InCall
  <2>3. q \in ValidRuns(s)
    BY <1>1, <2>2, NewlyValid DEF ValidRuns
  <2> QED BY <1>1, <2>1, <2>3 DEF SerialInv, NoRival, OtherValidRuns
<1>2. AtMostOneValidRun'
  <2> SUFFICES ASSUME NEW s \in Slots, NEW p \in ValidRuns(s)',
                      NEW q \in ValidRuns(s)', q # p
               PROVE  FALSE
    BY Zenon DEF AtMostOneValidRun
  <2>1. p \in ValidRuns(s) /\ q \in ValidRuns(s)
    BY <1>1, NewlyValid DEF ValidRuns
  <2> QED BY <2>1 DEF SerialInv, AtMostOneValidRun
<1> QED BY <1>2, RivalPreserved DEF SerialInv

\* As long as calls for one slot do not overlap, validate_strict_cohort_start
\* keeps its promise: no slot has two valid runs.
THEOREM OneValidRun ==
    Spec /\ []SlotCallsApart => []AtMostOneValidRun
<1>1. Init => SerialInv
  BY DEF Init, SerialInv, NoRival, AtMostOneValidRun, ValidRuns, ValidRun, NoRow
<1>2. /\ SlotCallsApart /\ TypeOK /\ IdsAreKept /\ SerialInv
      /\ [Next]_vars
      => SerialInv'
  BY SerialPreserved
<1>3. SerialInv => AtMostOneValidRun
  BY DEF SerialInv
<1> QED BY <1>1, <1>2, <1>3, TypeCorrect, KeptInvariant, PTL DEF Spec

----------------------------------------------------------------------------
(* The registry implements the evidence ledger, step by step.              *)

\* Run r is the evidence of slot s, and its call is over.
Settled(s, r) == r \in ValidRuns(s) /\ ~InFlight(r)

Evidence(r) == [computed |-> rows[r].computed, frozen |-> rows[r].frozen]

\* What the mapping shows of a slot.
ShowsSettled ==
    \A s \in Slots :
        /\ \A r \in RunIds : Settled(s, r) => Published[s] = Evidence(r)
        /\ (\A r \in RunIds : ~Settled(s, r)) => Published[s] = Unpublished

\* It shows the one valid run of a slot, once its call is over.
LEMMA PublishedValue == AtMostOneValidRun => ShowsSettled
<1> SUFFICES ASSUME AtMostOneValidRun, NEW s \in Slots
             PROVE  /\ \A r \in RunIds :
                          Settled(s, r) => Published[s] = Evidence(r)
                    /\ (\A r \in RunIds : ~Settled(s, r))
                          => Published[s] = Unpublished
  BY DEF ShowsSettled
<1>1. ASSUME NEW r \in RunIds, Settled(s, r) PROVE Published[s] = Evidence(r)
  <2>1. ValidRuns(s) = {r} /\ Counted(s) = {r} /\ ~InFlight(r)
    BY <1>1 DEF Settled, AtMostOneValidRun, Counted
  <2>2. (CHOOSE q \in Counted(s) : TRUE) = r
    BY <2>1
  <2> QED BY <2>1, <2>2 DEF Published, Evidence
<1>2. ASSUME \A r \in RunIds : ~Settled(s, r) PROVE Published[s] = Unpublished
  <2>1. ~\E r \in Counted(s) : ~InFlight(r)
    BY <1>2 DEF Settled, Counted, ValidRuns
  <2> QED BY <2>1 DEF Published
<1> QED BY <1>1, <1>2

\* What is settled stays settled and shows the same evidence.
LEMMA SettledKept ==
    ASSUME TypeOK, IdsAreKept, [Next]_vars, NEW s \in Slots,
           NEW r \in RunIds, Settled(s, r)
    PROVE  Settled(s, r)' /\ Evidence(r)' = Evidence(r)
<1>1. rows'[r] = rows[r] /\ ~InFlight(r)'
  BY SettledStays DEF Settled, ValidRuns
<1> QED BY <1>1 DEF Settled, ValidRuns, ValidRun, Evidence

\* The evidence a valid run shows was computed and frozen on the basis date.
ShowsProspective ==
    \A s \in Slots : \A r \in ValidRuns(s) :
        /\ Evidence(r) \in [computed : 1..MaxTick, frozen : 1..MaxTick]
        /\ Ledger!Prospective(s, Evidence(r))

\* That follows from the strengthened invariant.
LEMMA ValidIsProspective == ProspectiveInv => ShowsProspective
<1> SUFFICES ASSUME ProspectiveInv, NEW s \in Slots, NEW r \in ValidRuns(s)
             PROVE  /\ Evidence(r) \in [computed : 1..MaxTick,
                                        frozen : 1..MaxTick]
                    /\ Ledger!Prospective(s, Evidence(r))
  BY DEF ShowsProspective
<1>1. ValidRun(r) /\ rows[r].slot = s
  BY DEF ValidRuns
<1>2. /\ rows[r].computed \in 1..now /\ rows[r].frozen \in rows[r].computed..now
      /\ DayOf[rows[r].computed] >= BasisDay[s]
      /\ DayOf[rows[r].frozen] = BasisDay[s]
  BY <1>1 DEF ProspectiveInv, RowsInTime, ValidRun, ComputedInTime, ValidRuns
<1>3. now \in Ticks /\ MaxTick \in Nat
  BY TimeAssumption DEF ProspectiveInv, TypeOK
<1>4. rows[r].computed \in Ticks /\ rows[r].frozen \in Ticks
      /\ rows[r].computed <= rows[r].frozen
  BY <1>2, <1>3 DEF Ticks
<1>5. DayOf[rows[r].computed] = BasisDay[s]
  BY <1>2, <1>4, TimeAssumption
<1> QED BY <1>2, <1>4, <1>5 DEF Evidence, Ledger!Prospective, Ticks

\* A step of the registry leaves what a slot shows, or shows it evidence where
\* there was none.
LEMMA LedgerStep ==
    ASSUME TypeOK, IdsAreKept, [Next]_vars, AtMostOneValidRun', ShowsSettled,
           ShowsSettled', ShowsProspective'
    PROVE  Ledger!Next
<1>1. ASSUME NEW s \in Slots
      PROVE  Published'[s] \in Ledger!Evidence \cup {Unpublished}
  <2>1. CASE \E r \in RunIds : Settled(s, r)'
    BY <2>1 DEF ShowsSettled, ShowsProspective, Settled, Ledger!Evidence
  <2>2. CASE \A r \in RunIds : ~Settled(s, r)'
    BY <2>2 DEF ShowsSettled
  <2> QED BY <2>1, <2>2
<1>2. Published' \in [Slots -> Ledger!Evidence \cup {Unpublished}]
  BY <1>1 DEF Published
<1>3. ASSUME NEW s \in Slots, Published'[s] # Published[s]
      PROVE  Ledger!Publish(s)
  <2>1. PICK r \in RunIds : Settled(s, r)' /\ ~Settled(s, r)
    <3>1. ASSUME \A r \in RunIds : Settled(s, r)' => Settled(s, r)
          PROVE  Published'[s] = Published[s]
      <4>1. CASE \E r \in RunIds : Settled(s, r)
        BY <4>1, SettledKept DEF ShowsSettled
      <4>2. CASE \A r \in RunIds : ~Settled(s, r)
        BY <3>1, <4>2 DEF ShowsSettled
      <4> QED BY <4>1, <4>2
    <3> QED BY <1>3, <3>1
  <2>2. \A q \in RunIds : ~Settled(s, q)
    BY <2>1, SettledKept DEF Settled, AtMostOneValidRun
  <2>3. Published[s] = Unpublished
    BY <2>2 DEF ShowsSettled
  <2>4. Published'[s] = Evidence(r)'
    BY <2>1 DEF ShowsSettled
  <2>5. /\ Evidence(r)' \in Ledger!Evidence
        /\ Ledger!Prospective(s, Evidence(r)')
    BY <2>1 DEF ShowsProspective, Settled, Ledger!Evidence
  <2> QED BY <2>3, <2>4, <2>5 DEF Ledger!Publish
<1> QED BY <1>2, <1>3 DEF Ledger!Next

\* Calls that do not overlap on a slot leave no room for two scripts of it.
LEMMA ScriptsOfASlotApart == SlotCallsApart => OneScriptPerSlot
BY DEF SlotCallsApart, OneScriptPerSlot, Workers

\* For any number of scripts, threads, slots, ids, instants, faults and kills:
\* as long as calls for one slot do not overlap, the evidence of a slot is
\* published at most once, computed and frozen on its basis date, and never
\* lost.
THEOREM RegistryImplementsLedger ==
    Spec /\ []SlotCallsApart => ImplementsLedger
<1>1. Init => Ledger!Init
  <2> SUFFICES ASSUME Init PROVE \A s \in Slots : Counted(s) = {}
    BY DEF Ledger!Init, Published
  <2> QED BY DEF Init, Counted, ValidRuns, ValidRun, NoRow
<1>2. /\ TypeOK /\ IdsAreKept /\ [Next]_vars
      /\ AtMostOneValidRun' /\ ShowsSettled /\ ShowsSettled' /\ ShowsProspective'
      => [Ledger!Next]_Published
  BY LedgerStep
<1> QED
  BY <1>1, <1>2, TypeCorrect, KeptInvariant, OneValidRun, ScriptsOfASlotApart,
     ProspectiveInvariant, PublishedValue, ValidIsProspective, PTL
  DEF Spec, ImplementsLedger, Ledger!Spec

----------------------------------------------------------------------------
(* How a started run settles, fairness apart: somebody works on it, and    *)
(* every step brings that worker nearer to the end of its call.            *)

\* Steps a call may still take, by the stage it has reached.
StepsLeft ==
    [idle |-> 0, handler |-> 1, record |-> 2, success |-> 3, freeze |-> 4,
     execute |-> 5, start |-> 6, duplicate |-> 7, universe |-> 8,
     preflight |-> 9]

\* create_research_run and its callers never go back: each step leaves a call
\* fewer steps, whatever the universe, the registry or storage answer, and
\* nobody else's step adds any.  A call is over after nine steps of its worker.
CallsRunDown ==
    [][\A w \in Workers :
         /\ Step(w) => StepsLeft[pc'[w]] < StepsLeft[pc[w]]
         /\ InCall(w) => StepsLeft[pc'[w]] <= StepsLeft[pc[w]]]_vars

LEMMA StepRunsDown ==
    ASSUME TypeOK, NEW w \in Workers, Step(w)
    PROVE  StepsLeft[pc'[w]] < StepsLeft[pc[w]]
<1> USE DEF TypeOK, GoTo, StepsLeft
<1>1. CASE ScriptPreflight(w) \/ CheckUniverse(w) \/ CheckDuplicate(w)
  BY <1>1 DEF ScriptPreflight, CheckUniverse, CheckDuplicate, Caught, Finish
<1>2. CASE RecordStarted(w) \/ Execute(w) \/ Freeze(w)
  BY <1>2 DEF RecordStarted, Execute, Freeze, Caught
<1>3. CASE RecordSuccess(w) \/ RecordOutcome(w) \/ HandleUnexpected(w)
  BY <1>3
     DEF RecordSuccess, SuccessNotStored, RecordOutcome, HandleUnexpected,
         Caught, Finish
<1> QED BY <1>1, <1>2, <1>3 DEF Step

\* Every call runs down, for any number of callers, faults and kills.
THEOREM EveryCallRunsDown == Spec => CallsRunDown
<1>1. ASSUME TypeOK, TypeOK', [Next]_vars, ~UNCHANGED vars, NEW w \in Workers
      PROVE  /\ Step(w) => StepsLeft[pc'[w]] < StepsLeft[pc[w]]
             /\ InCall(w) => StepsLeft[pc'[w]] <= StepsLeft[pc[w]]
  <2>1. \A stage \in Stages : StepsLeft[stage] \in Nat
    BY DEF Stages, StepsLeft
  <2>2. StepsLeft[pc[w]] \in Nat /\ StepsLeft["idle"] = 0
    <3>1. StepsLeft["idle"] = 0
      BY DEF StepsLeft
    <3> QED BY <1>1, <2>1, <3>1 DEF TypeOK
  <2>3. Step(w) => StepsLeft[pc'[w]] < StepsLeft[pc[w]]
    BY <1>1, StepRunsDown
  <2>4. ASSUME InCall(w), ~Step(w) PROVE pc'[w] \in {pc[w], "idle"}
    <3>1. CASE \E v \in Workers : Step(v)
      BY <1>1, <2>4, <3>1, StepIsLocal
    <3>2. CASE \E v \in Workers : Invoke(v)
      BY <1>1, <2>4, <3>2, InvokeIsLocal DEF InCall
    <3>3. CASE Tick \/ \E u \in Universes : UniverseChanges(u)
      BY <3>3 DEF Tick, UniverseChanges
    <3>4. CASE CrashScript \/ CrashServer
      BY <3>4 DEF CrashScript, CrashServer, Crash
    <3> QED BY <1>1, <3>1, <3>2, <3>3, <3>4 DEF Next
  <2>5. \/ Step(w) \/ ~InCall(w)
        \/ StepsLeft[pc'[w]] \in {StepsLeft[pc[w]], 0}
    BY <2>2, <2>4
  <2>6. Step(w) => StepsLeft[pc'[w]] \in Nat
    BY <1>1, <2>1 DEF TypeOK
  <2> QED BY <2>2, <2>3, <2>5, <2>6
<1>2. TypeOK /\ TypeOK' /\ [Next]_vars =>
        [\A w \in Workers :
            /\ Step(w) => StepsLeft[pc'[w]] < StepsLeft[pc[w]]
            /\ InCall(w) => StepsLeft[pc'[w]] <= StepsLeft[pc[w]]]_vars
  BY <1>1
<1> QED BY <1>2, TypeCorrect, PTL DEF Spec, CallsRunDown

\* A run recorded as started is being worked on, unless storage has failed or a
\* process was killed: no branch of create_research_run ends a call and leaves
\* its row "running".
StartedIsWorkedOn ==
    \A r \in RunIds :
        rows[r].status = "running" =>
            \/ faults > 0 \/ crashes > 0
            \/ \E w \in Workers :
                  /\ call[w].runId = r
                  /\ pc[w] \in {"execute", "freeze", "success", "record"}

LEMMA WorkedOnPreserved ==
    ASSUME TypeOK, TypeOK', StartedIsWorkedOn, [Next]_vars
    PROVE  StartedIsWorkedOn'
<1> DEFINE Executing == {"execute", "freeze", "success", "record"}
<1>1. /\ faults \in Nat /\ faults' \in Nat /\ faults <= faults'
      /\ crashes \in Nat /\ crashes' \in Nat
  BY FaultsAddUp, BoundAssumption DEF TypeOK
<1> SUFFICES ASSUME NEW r \in RunIds, rows'[r].status = "running",
                    faults' = 0, crashes' = 0
             PROVE  \E w \in Workers : /\ call'[w].runId = r
                                       /\ pc'[w] \in Executing
  <2>1. (faults' > 0 <=> faults' # 0) /\ (crashes' > 0 <=> crashes' # 0)
    BY <1>1
  <2> QED BY <2>1, Zenon DEF StartedIsWorkedOn
<1>2. faults = 0 /\ faults' = faults
  BY <1>1
<1>3. ~CrashScript /\ ~CrashServer /\ crashes' = crashes
  <2>1. ASSUME CrashScript \/ CrashServer PROVE FALSE
    BY <1>1, <2>1 DEF CrashScript, CrashServer, Crash
  <2>2. ASSUME ~(CrashScript \/ CrashServer) PROVE crashes' = crashes
    BY <2>2
       DEF Next, Invoke, ScriptInvoke, Post, PostMalformed, Step,
           ScriptPreflight, CheckUniverse, CheckDuplicate, RecordStarted,
           Execute, Freeze, RecordSuccess, RecordOutcome, HandleUnexpected,
           Tick, UniverseChanges, budget, vars
  <2> QED BY <2>1, <2>2
<1>4. ASSUME rows'[r] = rows[r]
      PROVE  \E w \in Workers : call[w].runId = r /\ pc[w] \in Executing
  BY <1>2, <1>3, <1>4 DEF StartedIsWorkedOn
<1>5. ASSUME NEW v \in Workers, Step(v)
      PROVE  \E w \in Workers : call'[w].runId = r /\ pc'[w] \in Executing
  <2>1. \A w \in Workers : call'[w].runId = call[w].runId
    BY <1>5, StepIsLocal
  <2>2. CASE rows'[r] = rows[r] /\ ~(call[v].runId = r /\ pc[v] \in Executing)
    <3>1. PICK w \in Workers : call[w].runId = r /\ pc[w] \in Executing
      BY <1>4, <2>2
    <3> QED BY <1>5, <2>1, <2>2, <3>1, StepIsLocal
  <2>3. CASE r # call[v].runId
    BY <1>5, <2>2, <2>3, StepIsLocal
  <2>4. CASE r = call[v].runId /\ pc'[v] \in Executing
    BY <2>1, <2>4
  <2>5. ASSUME r = call[v].runId, pc'[v] \notin Executing
        PROVE  rows'[r] = rows[r] /\ pc[v] \notin Executing
    <3>1. CASE ScriptPreflight(v) \/ CheckUniverse(v) \/ CheckDuplicate(v)
      BY <3>1 DEF ScriptPreflight, CheckUniverse, CheckDuplicate, table
    <3>2. CASE RecordStarted(v) \/ Execute(v) \/ Freeze(v)
      BY <2>5, <3>2 DEF RecordStarted, Execute, Freeze, Caught, GoTo, TypeOK
    <3>3. CASE RecordSuccess(v)
      <4>1. rows'[r] = SuccessRow(v)
        BY <1>2, <2>5, <3>3, BoundAssumption
           DEF RecordSuccess, Upsert, FailedUpsert, TypeOK
      <4> QED BY <4>1 DEF SuccessRow
    <3>4. CASE RecordOutcome(v)
      <4>1. rows'[r] = BareRow(StatusOf(verdict[v]), v)
        BY <1>2, <2>5, <3>4
           DEF RecordOutcome, OutcomeRow, Upsert, FailedUpsert, TypeOK
      <4> QED BY <4>1 DEF BareRow, StatusOf
    <3>5. CASE HandleUnexpected(v)
      <4>1. rows'[r] = BareRow("failed", v)
        BY <1>2, <2>5, <3>5
           DEF HandleUnexpected, Upsert, FailedUpsert, TypeOK
      <4> QED BY <4>1 DEF BareRow
    <3> QED BY <1>5, <3>1, <3>2, <3>3, <3>4, <3>5 DEF Step
  <2> QED BY <2>2, <2>3, <2>4, <2>5
<1>6. ASSUME NEW v \in Workers, Invoke(v)
      PROVE  \E w \in Workers : call'[w].runId = r /\ pc'[w] \in Executing
  <2>1. rows'[r] = rows[r]
    <3>1. ASSUME NEW q \in PostIds, PostMalformed(v, q)
          PROVE  rows'[r] = rows[r]
      <4>1. \/ rows'[r] = rows[r]
            \/ rows'[r].status = "validation_failed"
        BY <3>1 DEF PostMalformed, Upsert, FailedUpsert, TypeOK
      <4> QED BY <4>1
    <3> QED BY <1>6, <3>1 DEF Invoke, ScriptInvoke, Post, table
  <2>2. PICK w \in Workers : call[w].runId = r /\ pc[w] \in Executing
    BY <1>4, <2>1
  <2>3. w # v
    BY <1>6, <2>2, InvokeIsLocal
  <2> QED BY <1>6, <2>2, <2>3, InvokeIsLocal
<1>7. CASE Tick \/ (\E u \in Universes : UniverseChanges(u)) \/ UNCHANGED vars
  <2>1. rows' = rows /\ call' = call /\ pc' = pc
    BY <1>7 DEF Tick, UniverseChanges, vars, table
  <2> QED BY <1>4, <2>1
<1> QED BY <1>3, <1>5, <1>6, <1>7 DEF Next

\* It holds of every behaviour: with EveryCallRunsDown it is what
\* StartedRunSettles asks of the code, and fairness is all that is left.
THEOREM StartedRunIsWorkedOn == Spec => []StartedIsWorkedOn
<1>1. Init => StartedIsWorkedOn
  BY DEF Init, StartedIsWorkedOn, NoRow
<1> QED BY <1>1, WorkedOnPreserved, TypeCorrect, PTL DEF Spec

=============================================================================
