------------------------- MODULE DataPlane_proofs -------------------------
(***************************************************************************)
(* Proofs about DataPlane, for any number of symbols, slots, attempts and  *)
(* faults, and of dispatchers and operators where a theorem does not say   *)
(* one: types, what a run and its attempts say of each other, what a       *)
(* success leaves to replay, and what a drill leaves of its slot.          *)
(***************************************************************************)
EXTENDS DataPlane, TLAPS

Audit == [Scopes -> [seen : SUBSET Kinds, latest : Kinds \cup {"none"}]]
Bars  == [Scopes -> Replayable \cup {"none"}]

Run     == [status : {"absent", "failed", "succeeded"}, count : 0..MaxAttempts]
Attempt == [status : {"absent", "failed", "succeeded"},
            raw : Replayable \cup {"none"}]
Task    == [entry : Scopes,
            existing : [status : {"absent", "failed"},
                        count : 0..(MaxAttempts - 1)],
            backfill : {"none", "yfinance"}, daily : {"none", "twse"},
            error : BOOLEAN]

Job == [slot : DrillSlots \cup {"drill", "replay"}, scope : Scopes,
        exists : BOOLEAN, raw : Raws, restore : Outcomes, status : Outcomes,
        replay : Replay]

----------------------------------------------------------------------------
(* What the shared operators preserve.                                     *)

\* Recording a payload keeps the audit well typed.
LEMMA RecordedType ==
    ASSUME audit \in Audit, NEW s \in Scopes, NEW kind \in Kinds,
           Recorded(s, kind)
    PROVE  audit' \in Audit
  BY DEF Audit, Recorded

\* So does loading daily bars for the bars.
LEMMA LoadedType ==
    ASSUME bars \in Bars, NEW s \in Scopes, NEW kind \in Replayable,
           Loaded(s, kind)
    PROVE  bars' \in Bars
  BY DEF Bars, Loaded

\* A fault stays within its bound.
LEMMA FaultType ==
    ASSUME faults \in 0..MaxFaults, Fault
    PROVE  faults' \in 0..MaxFaults
  BY FaultAssumption DEF Fault

----------------------------------------------------------------------------
(* Scheduled ingestion.                                                    *)

\* Whatever ends an attempt or a dispatch leaves the dispatcher well typed.
LEMMA DispatchType ==
    ASSUME IngestTypeOK, NEW d \in Dispatchers
    PROVE  /\ task[d].entry \in Scopes
           /\ \A s \in Scopes : NoTask(s) \in Task
           /\ \A there \in IngestStages :
                 To(d, there) => stage' \in [Dispatchers -> IngestStages]
           /\ Aborts(d) => /\ stage' \in [Dispatchers -> IngestStages]
                           /\ todo' \in [Dispatchers -> SUBSET Scopes]
                           /\ task' \in [Dispatchers -> Task]
           /\ Raises(d) => /\ stage' \in [Dispatchers -> IngestStages]
                           /\ task' \in [Dispatchers -> Task]
  <1> USE DEF IngestTypeOK
  <1>0. task \in [Dispatchers -> Task]
    BY DEF Task
  <1>1. task[d].entry \in Scopes
    BY <1>0 DEF Task
  <1>2. \A s \in Scopes : NoTask(s) \in Task
    BY AttemptAssumption DEF NoTask, NoRun, Task
  <1>3. ASSUME NEW there \in IngestStages, To(d, there)
        PROVE  stage' \in [Dispatchers -> IngestStages]
    BY <1>3 DEF To
  <1>4. ASSUME Aborts(d)
        PROVE  /\ stage' \in [Dispatchers -> IngestStages]
               /\ todo' \in [Dispatchers -> SUBSET Scopes]
               /\ task' \in [Dispatchers -> Task]
    BY <1>0, <1>1, <1>2, <1>4 DEF Aborts, To, IngestStages
  <1>5. ASSUME Raises(d)
        PROVE  /\ stage' \in [Dispatchers -> IngestStages]
               /\ task' \in [Dispatchers -> Task]
    BY <1>0, <1>5, ZenonT(60) DEF Raises, To, IngestStages, Task
  <1>6. QED
    BY <1>1, <1>2, <1>3, <1>4, <1>5

\* Every stage of a dispatch keeps the types.
LEMMA IngestStepType ==
    ASSUME RawTypeOK, IngestTypeOK, NEW d \in Dispatchers, IngestStep(d)
    PROVE  RawTypeOK' /\ IngestTypeOK'
  <1> DEFINE s == task[d].entry
             Runs == [Scopes -> Run]
             Attempts == [Scopes -> [1..MaxAttempts -> Attempt]]
             Stages == [Dispatchers -> IngestStages]
             Todos == [Dispatchers -> SUBSET Scopes]
             Tasks == [Dispatchers -> Task]
  <1>1. /\ audit \in Audit /\ bars \in Bars /\ faults \in 0..MaxFaults
        /\ runs \in Runs /\ attempts \in Attempts
        /\ stage \in Stages /\ todo \in Todos /\ task \in Tasks
    BY DEF RawTypeOK, IngestTypeOK, Audit, Bars, Run, Attempt, Task
  <1>2. s \in Scopes /\ task[d] \in Task
    BY <1>1 DEF Task
  <1>3. \A kind \in Kinds, t \in Scopes : Recorded(t, kind) => audit' \in Audit
    BY <1>1, RecordedType
  <1>4. \A kind \in Replayable, t \in Scopes : Loaded(t, kind) => bars' \in Bars
    BY <1>1, LoadedType
  <1>5. Fault => faults' \in 0..MaxFaults
    BY <1>1, FaultType
  <1>6. \A there \in IngestStages : To(d, there) => stage' \in Stages
    BY DispatchType
  <1>7. Aborts(d) => stage' \in Stages /\ todo' \in Todos /\ task' \in Tasks
    BY DispatchType
  <1>8. Raises(d) => stage' \in Stages /\ task' \in Tasks
    BY DispatchType
  <1>9. \A t \in Scopes : NoTask(t) \in Task
    BY DispatchType
  <1>10. /\ {"yfinance", "twse", "twse_rejected", "minute"} \subseteq Kinds
         /\ {"yfinance", "twse"} \subseteq Replayable
         /\ {"idle", "look", "backfill", "load_backfill", "daily", "load_daily",
             "minutes", "save_run", "save_attempt", "reload"} \subseteq IngestStages
    BY DEF Kinds, Replayable, IngestStages
  <1> HIDE DEF s, Runs, Attempts, Stages, Todos, Tasks
  <1> DEFINE Typed == /\ audit' \in Audit /\ bars' \in Bars
                      /\ faults' \in 0..MaxFaults
                      /\ runs' \in Runs /\ attempts' \in Attempts
                      /\ stage' \in Stages /\ todo' \in Todos /\ task' \in Tasks
  <1>11. SUFFICES Typed
    BY DEF RawTypeOK, IngestTypeOK, Audit, Bars, Run, Attempt, Task, Runs,
           Attempts, Stages, Todos, Tasks
  <1> USE DEF scheduling
  <1>12. CASE Dispatch(d)
    BY <1>1, <1>6, <1>10, <1>12 DEF Dispatch, Todos
  <1>13. ASSUME NEW e \in Scopes, Look(d, e)
         PROVE  Typed
    <2>1. (todo' = [todo EXCEPT ![d] = todo[d] \ {e}]) => todo' \in Todos
      BY <1>1 DEF Todos
    <2>2. Due(runs[e]) => [NoTask(e) EXCEPT !.existing = runs[e]] \in Task
      <3>1. runs[e] \in Run
        BY <1>1 DEF Runs
      <3>2. Due(runs[e]) => /\ runs[e].status \in {"absent", "failed"}
                            /\ runs[e].count \in 0..(MaxAttempts - 1)
        BY <3>1, AttemptAssumption DEF Due, Run
      <3>3. runs[e] = [status |-> runs[e].status, count |-> runs[e].count]
        BY <3>1 DEF Run
      <3>4. QED BY <1>9, <3>2, <3>3 DEF Task
    <2>3. Due(runs[e])
          /\ task' = [task EXCEPT ![d] = [NoTask(e) EXCEPT !.existing = runs[e]]]
          => task' \in Tasks
      BY <1>1, <2>2 DEF Tasks
    <2>4. QED BY <1>1, <1>5, <1>6, <1>7, <1>10, <1>13, <2>1, <2>3 DEF Look
  <1>14. CASE Dispatched(d)
    BY <1>1, <1>6, <1>10, <1>14 DEF Dispatched
  <1>15. CASE Backfill(d)
    <2>1. task' = [task EXCEPT ![d] = [task[d] EXCEPT !.backfill = "yfinance"]]
          => task' \in Tasks
      BY <1>1, <1>2 DEF Tasks, Task
    <2>2. QED BY <1>1, <1>2, <1>3, <1>5, <1>6, <1>8, <1>10, <1>15, <2>1
                 DEF Backfill, s
  <1>16. CASE LoadBackfill(d)
    BY <1>1, <1>2, <1>4, <1>5, <1>6, <1>8, <1>10, <1>16 DEF LoadBackfill, s
  <1>17. CASE Daily(d)
    <2>1. task' = [task EXCEPT ![d] = [task[d] EXCEPT !.daily = "twse"]]
          => task' \in Tasks
      BY <1>1, <1>2 DEF Tasks, Task
    <2>2. QED BY <1>1, <1>2, <1>3, <1>5, <1>6, <1>8, <1>10, <1>17, <2>1 DEF Daily, s
  <1>18. CASE LoadDaily(d)
    BY <1>1, <1>2, <1>4, <1>5, <1>6, <1>8, <1>10, <1>18 DEF LoadDaily, s
  <1>19. CASE Minutes(d)
    BY <1>1, <1>2, <1>3, <1>5, <1>6, <1>8, <1>10, <1>19 DEF Minutes, s
  <1>20. /\ StatusFor(d) \in {"failed", "succeeded"}
         /\ RawOf(d) \in Replayable \cup {"none"}
         /\ NumberOf(d) \in 1..MaxAttempts
    BY <1>2, <1>10, AttemptAssumption DEF StatusFor, RawOf, NumberOf, Task
  <1>21. CASE SaveRun(d)
    <2> DEFINE row == [status |-> StatusFor(d), count |-> NumberOf(d)]
    <2>1. row \in Run
      BY <1>20 DEF Run
    <2> HIDE DEF row
    <2>2. runs' = [runs EXCEPT ![s] = row] => runs' \in Runs
      BY <1>1, <2>1 DEF Runs
    <2>3. QED BY <1>1, <1>5, <1>6, <1>7, <1>10, <1>21, <2>2 DEF SaveRun, s, row
  <1>22. CASE SaveAttempt(d)
    <2> DEFINE row == [status |-> StatusFor(d), raw |-> RawOf(d)]
               n == AttemptNumber(d)
    <2>1. row \in Attempt /\ n \in 1..MaxAttempts
      BY <1>20 DEF Attempt, AttemptNumber
    <2> HIDE DEF row, n
    <2>2. attempts' = [attempts EXCEPT ![s] = [attempts[s] EXCEPT ![n] = row]]
          => attempts' \in Attempts
      BY <1>1, <1>2, <2>1 DEF Attempts
    <2>3. QED BY <1>1, <1>5, <1>6, <1>7, <1>10, <1>22, <2>2
                 DEF SaveAttempt, s, row, n
  <1>23. CASE Reload(d)
    <2>1. task' = [task EXCEPT ![d] = NoTask(s)] => task' \in Tasks
      BY <1>1, <1>2, <1>9 DEF Tasks
    <2>2. QED BY <1>1, <1>5, <1>6, <1>7, <1>10, <1>23, <2>1 DEF Reload, s
  <1>24. CASE DispatcherDies(d)
    BY <1>1, <1>5, <1>7, <1>24 DEF DispatcherDies
  <1>25. QED
    BY <1>12, <1>13, <1>14, <1>15, <1>16, <1>17, <1>18, <1>19, <1>21, <1>22,
       <1>23, <1>24 DEF IngestStep

----------------------------------------------------------------------------
(* Drills and replays.                                                     *)

\* Whatever moves a worker or persists a row keeps the types.
LEMMA WorkerType ==
    ASSUME DrillTypeOK, NEW w \in Drillers
    PROVE  /\ job[w] \in Job
           /\ \A there \in DrillStages :
                 Go(w, there) => at' \in [Drillers -> DrillStages]
           /\ \A t \in Scopes : NoJob(t) \in Job
           /\ \A outcome : Ends(w, outcome) =>
                 /\ at' \in [Drillers -> DrillStages]
                 /\ job' \in [Drillers -> Job]
                 /\ due' \in [Drillers -> SUBSET DrillSlots]
                 /\ listed' \in [Drillers -> SUBSET DrillSlots]
           /\ \A aborted \in BOOLEAN : RowOf(w, aborted) \in Drill
           /\ \A row \in Drill : Persisted(w, row) =>
                 drills' \in [DrillSlots -> Drill] /\ manual' \subseteq Drill
           /\ \A aborted \in BOOLEAN : ReplayRow(w, aborted) \in Replay
  <1>1. job \in [Drillers -> Job]
    BY DEF DrillTypeOK, Job
  <1>2. job[w] \in Job
    BY <1>1
  <1>3. \A there \in DrillStages : Go(w, there) => at' \in [Drillers -> DrillStages]
    BY DEF DrillTypeOK, Go
  <1>4. \A t \in Scopes : NoJob(t) \in Job
    BY DEF NoJob, NoReplay, Job, Raws, Outcomes, Replay
  <1>5. ASSUME NEW outcome, Ends(w, outcome)
        PROVE  /\ at' \in [Drillers -> DrillStages]
               /\ job' \in [Drillers -> Job]
               /\ due' \in [Drillers -> SUBSET DrillSlots]
               /\ listed' \in [Drillers -> SUBSET DrillSlots]
    <2>1. {"next", "idle"} \subseteq DrillStages
      BY DEF DrillStages
    <2>2. at' \in [Drillers -> DrillStages]
      BY <1>3, <1>5, <2>1 DEF Ends
    <2>3. NoJob(job[w].scope) \in Job
      BY <1>2, <1>4 DEF Job
    <2>4. job' \in [Drillers -> Job]
      BY <1>1, <1>5, <2>3 DEF Ends
    <2>5. listed' \in [Drillers -> SUBSET DrillSlots]
      BY <1>5 DEF Ends, Scheduled, DrillTypeOK
    <2>6. QED BY <1>5, <2>2, <2>4, <2>5 DEF Ends, DrillTypeOK
  <1>6. \A aborted \in BOOLEAN : RowOf(w, aborted) \in Drill
    BY <1>2 DEF RowOf, Job, Drill
  <1>7. ASSUME NEW row \in Drill, Persisted(w, row)
        PROVE  drills' \in [DrillSlots -> Drill] /\ manual' \subseteq Drill
    <2>1. CASE Duplicate(w)
      BY <1>7, <2>1 DEF Persisted, DrillTypeOK
    <2>2. CASE Scheduled(w) /\ ~Duplicate(w)
      BY <1>7, <2>2 DEF Persisted, DrillTypeOK
    <2>3. CASE ~Scheduled(w) /\ ~Duplicate(w)
      BY <1>7, <2>3 DEF Persisted, DrillTypeOK
    <2>4. QED BY <2>1, <2>2, <2>3
  <1>8. \A aborted \in BOOLEAN : ReplayRow(w, aborted) \in Replay
    BY <1>2 DEF ReplayRow, Job, Replay
  <1>9. QED BY <1>2, <1>3, <1>4, <1>5, <1>6, <1>7, <1>8

\* Every stage of a drill or replay keeps the types.
LEMMA DrillStepType ==
    ASSUME RawTypeOK, DrillTypeOK, NEW w \in Drillers, DrillStep(w)
    PROVE  RawTypeOK' /\ DrillTypeOK'
  <1> DEFINE Drilled == drills \in [DrillSlots -> Drill] /\ manual \subseteq Drill
             Ats == [Drillers -> DrillStages]
             Jobs == [Drillers -> Job]
             Slots == [Drillers -> SUBSET DrillSlots]
             Working == /\ at \in Ats /\ job \in Jobs
                        /\ due \in Slots /\ listed \in Slots
  <1>1. /\ audit \in Audit /\ bars \in Bars /\ faults \in 0..MaxFaults
        /\ Drilled /\ replays \subseteq Replay /\ Working
    BY DEF RawTypeOK, DrillTypeOK, Audit, Bars, Job
  <1>2. job[w] \in Job /\ job[w].scope \in Scopes
    BY WorkerType DEF Job
  <1>3. \A kind \in Replayable, t \in Scopes : Loaded(t, kind) => bars' \in Bars
    BY <1>1, LoadedType
  <1>4. Fault => faults' \in 0..MaxFaults
    BY <1>1, FaultType
  <1>5. \A there \in DrillStages : Go(w, there) => at' \in Ats
    BY WorkerType
  <1>6. \A outcome : Ends(w, outcome) => Working'
    BY WorkerType
  <1>7. \A aborted \in BOOLEAN : Persisted(w, RowOf(w, aborted)) => Drilled'
    BY WorkerType
  <1>8. \A aborted \in BOOLEAN :
           replays' = replays \cup {ReplayRow(w, aborted)} => replays' \subseteq Replay
    BY <1>1, WorkerType
  <1>9. {"idle", "next", "resolve", "file_missing", "replay", "log_replay",
         "log_replay_failure", "measure", "log_drill", "log_failure"}
           \subseteq DrillStages
    BY DEF DrillStages
  <1>10. {TRUE, FALSE} \subseteq BOOLEAN
    OBVIOUS
  <1>11. UNCHANGED <<drills, manual>> => Drilled'
    BY <1>1
  <1>12. \A j \in Job : job' = [job EXCEPT ![w] = j] => job' \in Jobs
    BY <1>1
  <1> DEFINE Typed == /\ audit' \in Audit /\ bars' \in Bars
                      /\ faults' \in 0..MaxFaults
                      /\ Drilled' /\ replays' \subseteq Replay /\ Working'
  <1>13. SUFFICES Typed
    BY DEF RawTypeOK, DrillTypeOK, Audit, Bars, Job
  <1> HIDE DEF Drilled, Ats, Jobs, Slots
  <1> USE DEF drillTables
  <1>14. ASSUME NEW D \in SUBSET DrillSlots, DispatchDrills(w, D)
         PROVE  Typed
    <2>1. due' \in Slots /\ listed' \in Slots
      BY <1>1, <1>14 DEF DispatchDrills, Slots
    <2>2. QED BY <1>1, <1>5, <1>9, <1>11, <1>14, <2>1 DEF DispatchDrills
  <1>15. ASSUME NEW e \in DrillSlots, NextSlot(w, e)
         PROVE  Typed
    <2> DEFINE j == [NoJob(ScopeOf[e]) EXCEPT !.slot = e,
                                              !.exists = drills[e] # NoDrill]
    <2>1. j \in Job
      BY WorkerType, SlotAssumption DEF Job
    <2> HIDE DEF j
    <2>2. due' = [due EXCEPT ![w] = due[w] \ {e}] => due' \in Slots
      BY <1>1 DEF Slots
    <2>3. job' = [job EXCEPT ![w] = j] => job' \in Jobs
      BY <1>12, <2>1
    <2>4. QED BY <1>1, <1>4, <1>5, <1>9, <1>11, <1>15, <2>2, <2>3 DEF NextSlot, j
  <1>16. CASE DrillsDispatched(w)
    BY <1>1, <1>5, <1>9, <1>11, <1>16 DEF DrillsDispatched
  <1>17. ASSUME NEW t \in Scopes, NEW slot \in {"drill", "replay"},
                NEW raw \in Kinds, OperatorCall(w, t, slot, raw)
         PROVE  Typed
    <2> DEFINE j == [NoJob(t) EXCEPT !.slot = slot, !.raw = raw]
    <2>1. j \in Job
      BY WorkerType DEF Job, Raws
    <2> HIDE DEF j
    <2>2. job' = [job EXCEPT ![w] = j] => job' \in Jobs
      BY <1>12, <2>1
    <2>3. QED BY <1>1, <1>5, <1>9, <1>11, <1>17, <2>2 DEF OperatorCall, j
  <1>18. CASE Resolve(w)
    <2> DEFINE raw == audit[job[w].scope].latest
    <2>1. raw \in Raws
      BY <1>1, <1>2 DEF Audit, Raws
    <2> HIDE DEF raw
    <2>2. [job[w] EXCEPT !.raw = raw] \in Job
      BY <1>2, <2>1 DEF Job
    <2>3. job' = [job EXCEPT ![w] = [job[w] EXCEPT !.raw = raw]] => job' \in Jobs
      BY <1>12, <2>2
    <2>4. QED BY <1>1, <1>4, <1>5, <1>6, <1>9, <1>11, <1>18, <2>3 DEF Resolve, raw
  <1>19. CASE FileMissing(w)
    BY <1>1, <1>4, <1>6, <1>7, <1>10, <1>11, <1>19 DEF FileMissing
  <1>20. ReplayRaises(w) => Working'
    BY <1>1, <1>5, <1>6, <1>9 DEF ReplayRaises
  <1>21. CASE ReplayPayload(w)
    <2>1. [job[w] EXCEPT !.restore = "succeeded"] \in Job
      BY <1>2 DEF Job, Outcomes
    <2>2. job' = [job EXCEPT ![w] = [job[w] EXCEPT !.restore = "succeeded"]]
          => job' \in Jobs
      BY <1>12, <2>1
    <2>3. QED BY <1>1, <1>2, <1>3, <1>4, <1>5, <1>9, <1>11, <1>20, <1>21, <2>2
                 DEF ReplayPayload
  <1>22. CASE LogReplay(w)
    <2> DEFINE row == ReplayRow(w, FALSE)
    <2>1. row \in Replay
      BY WorkerType
    <2> HIDE DEF row
    <2>2. [job[w] EXCEPT !.replay = row] \in Job
      BY <1>2, <2>1 DEF Job
    <2>3. job' = [job EXCEPT ![w] = [job[w] EXCEPT !.replay = row]] => job' \in Jobs
      BY <1>12, <2>2
    <2>4. replays' = replays \cup {row} => replays' \subseteq Replay
      BY <1>1, <2>1
    <2>5. QED BY <1>1, <1>4, <1>5, <1>6, <1>9, <1>11, <1>22, <2>3, <2>4
                 DEF LogReplay, row
  <1>23. CASE LogReplayFailure(w)
    BY <1>1, <1>4, <1>8, <1>10, <1>11, <1>20, <1>23
       DEF LogReplayFailure, AfterReplayFailure
  <1>24. CASE Measure(w)
    <2>1. [job[w] EXCEPT !.status = "succeeded"] \in Job
      BY <1>2 DEF Job, Outcomes
    <2>2. job' \in Jobs
      BY <1>12, <1>24, <2>1 DEF Measure
    <2>3. QED BY <1>1, <1>4, <1>5, <1>9, <1>11, <1>24, <2>2 DEF Measure
  <1>25. CASE LogDrill(w)
    BY <1>1, <1>4, <1>5, <1>6, <1>7, <1>9, <1>10, <1>11, <1>25 DEF LogDrill
  <1>26. CASE LogFailure(w)
    BY <1>1, <1>4, <1>6, <1>7, <1>10, <1>11, <1>26 DEF LogFailure
  <1>27. QED
    BY <1>14, <1>15, <1>16, <1>17, <1>18, <1>19, <1>21, <1>22, <1>23, <1>24,
       <1>25, <1>26 DEF DrillStep

----------------------------------------------------------------------------
(* Theorems.                                                               *)

\* Every variable of the data plane keeps its type; in particular the attempt
\* count an entry records never exceeds MaxAttempts.
THEOREM DataPlaneTypes == Spec => []TypeOK
  <1>1. Init => TypeOK
    <2>1. RawInit => RawTypeOK
      BY FaultAssumption DEF RawInit, RawTypeOK, Kinds, Replayable
    <2> DEFINE c == CHOOSE s \in Scopes : TRUE
    <2>2. c \in Scopes
      BY ScopeAssumption
    <2>3. IngestInit =>
              /\ runs = [s \in Scopes |-> NoRun]
              /\ attempts = [s \in Scopes |-> [n \in 1..MaxAttempts |-> NoAttempt]]
              /\ stage = [d \in Dispatchers |-> "idle"]
              /\ todo = [d \in Dispatchers |-> {}]
              /\ task = [d \in Dispatchers |-> NoTask(c)]
      BY DEF IngestInit
    <2>4. DrillInit =>
              /\ drills = [s \in DrillSlots |-> NoDrill]
              /\ manual = {} /\ replays = {}
              /\ at = [w \in Drillers |-> "idle"]
              /\ job = [w \in Drillers |-> NoJob(c)]
              /\ due = [w \in Drillers |-> {}]
              /\ listed = [w \in Drillers |-> {}]
      BY DEF DrillInit
    <2> HIDE DEF c
    <2>5. IngestInit => IngestTypeOK
      <3>1. NoRun \in Run /\ NoAttempt \in Attempt
        BY AttemptAssumption DEF NoRun, NoAttempt, Run, Attempt
      <3>2. NoTask(c) \in Task
        BY <2>2, AttemptAssumption DEF NoTask, NoRun, Task
      <3>3. "idle" \in IngestStages
        BY DEF IngestStages
      <3>4. IngestInit => /\ runs \in [Scopes -> Run]
                          /\ attempts \in [Scopes -> [1..MaxAttempts -> Attempt]]
                          /\ stage \in [Dispatchers -> IngestStages]
                          /\ todo \in [Dispatchers -> SUBSET Scopes]
                          /\ task \in [Dispatchers -> Task]
        BY <2>3, <3>1, <3>2, <3>3
      <3>5. QED BY <3>4 DEF IngestTypeOK, Run, Attempt, Task
    <2>6. DrillInit => DrillTypeOK
      <3>1. NoReplay \in Replay
        BY DEF NoReplay, Replay, Raws, Outcomes
      <3>2. NoDrill \in Drill
        BY <3>1 DEF NoDrill, Drill, Raws, Outcomes
      <3>3. NoJob(c) \in Job
        BY <2>2, <3>1 DEF NoJob, Job, Raws, Outcomes
      <3>4. "idle" \in DrillStages
        BY DEF DrillStages
      <3>5. QED BY <2>4, <3>2, <3>3, <3>4 DEF DrillTypeOK, Job
    <2>7. QED BY <2>1, <2>5, <2>6 DEF Init, TypeOK
  <1>2. TypeOK /\ [Next]_vars => TypeOK'
    <2> SUFFICES ASSUME TypeOK, [Next]_vars
                 PROVE  TypeOK'
      OBVIOUS
    <2>1. CASE UNCHANGED vars
      BY <2>1 DEF vars, ingesting, restoring, scheduling, dispatch, drillTables,
                  drilling, TypeOK, RawTypeOK, IngestTypeOK, DrillTypeOK
    <2>2. ASSUME NEW d \in Dispatchers, Ingest(d)
          PROVE  TypeOK'
      <3>1. RawTypeOK' /\ IngestTypeOK'
        BY <2>2, IngestStepType DEF Ingest, TypeOK
      <3>2. DrillTypeOK'
        BY <2>2 DEF Ingest, TypeOK, DrillTypeOK, restoring, drillTables, drilling
      <3>3. QED BY <3>1, <3>2 DEF TypeOK
    <2>3. ASSUME NEW w \in Drillers, Restore(w)
          PROVE  TypeOK'
      <3>1. RawTypeOK' /\ DrillTypeOK'
        BY <2>3, DrillStepType DEF Restore, TypeOK
      <3>2. IngestTypeOK'
        BY <2>3 DEF Restore, TypeOK, IngestTypeOK, ingesting, scheduling, dispatch
      <3>3. QED BY <3>1, <3>2 DEF TypeOK
    <2>4. QED BY <2>1, <2>2, <2>3 DEF Next
  <1>3. QED BY <1>1, <1>2, PTL DEF Spec

\* Every row that was persisted was held by a worker, so it restored its
\* payload if the worker's drill did.
LEMMA PersistedRestored ==
    ASSUME DrillTypeOK, SucceededDrillRestored, NEW w \in Drillers,
           NEW row, Persisted(w, row), replays \subseteq replays',
           row.status = "succeeded" => Restored(row)
    PROVE  SucceededDrillRestored'
  <1>1. \A r : Restored(r) => Restored(r)'
    BY DEF Restored
  <1>2. /\ \A e \in DrillSlots : drills'[e] = drills[e] \/ drills'[e] = row
        /\ manual' \subseteq manual \cup {row}
    <2>1. CASE Duplicate(w)
      BY <2>1 DEF Persisted
    <2>2. CASE Scheduled(w) /\ ~Duplicate(w)
      BY <2>2 DEF Persisted, DrillTypeOK
    <2>3. CASE ~Scheduled(w) /\ ~Duplicate(w)
      BY <2>3 DEF Persisted
    <2>4. QED BY <2>1, <2>2, <2>3
  <1>3. QED BY <1>1, <1>2 DEF SucceededDrillRestored

\* Every stage of a drill keeps what is held and what is persisted restored.
LEMMA DrillStepRestores ==
    ASSUME DrillTypeOK, RestoredInv, NEW w \in Drillers, DrillStep(w)
    PROVE  RestoredInv'
  <1>1. job[w] \in Job
    BY DEF DrillTypeOK, Job
  <1>2. replays \subseteq replays'
    BY DEF DrillStep, DispatchDrills, NextSlot, DrillsDispatched, OperatorCall,
           Resolve, FileMissing, ReplayPayload, LogReplay, LogReplayFailure,
           Measure, LogDrill, LogFailure, drillTables
  <1>3. \A r : Restored(r) => Restored(r)'
    BY <1>2 DEF Restored
  <1>4. ASSUME NEW v \in Drillers, v # w
        PROVE  HeldRestored(v)'
    <2>1. at'[v] = at[v] /\ job'[v] = job[v]
      BY <1>4 DEF DrillTypeOK, DrillStep, DispatchDrills, NextSlot,
           DrillsDispatched, OperatorCall, Resolve, FileMissing, ReplayPayload,
           LogReplay, LogReplayFailure, Measure, LogDrill, LogFailure,
           ReplayRaises, AfterReplayFailure, Ends, Go
    <2>2. HeldRestored(v)
      BY DEF RestoredInv
    <2>3. QED BY <1>2, <2>1, <2>2 DEF HeldRestored, Restored
  <1>5. SUFFICES HeldRestored(w)' /\ SucceededDrillRestored'
    BY <1>4 DEF RestoredInv
  <1>6. UNCHANGED <<drills, manual>> => SucceededDrillRestored'
    BY <1>3 DEF RestoredInv, SucceededDrillRestored
  <1>7. HeldRestored(w)
    BY DEF RestoredInv
  <1>8. \A aborted \in BOOLEAN :
           Persisted(w, RowOf(w, aborted)) => SucceededDrillRestored'
    <2>1. \A aborted : RowOf(w, aborted).status = "succeeded"
                          => Restored(RowOf(w, aborted))
      BY <1>7 DEF HeldRestored, RowOf, Restored
    <2>2. QED BY <1>2, <2>1, PersistedRestored DEF RestoredInv
  <1>9. \A outcome : Ends(w, outcome) => HeldRestored(w)'
    BY DEF Ends, Go, DrillTypeOK, HeldRestored, NoJob
  <1>10. \A there \in DrillStages \ {"log_replay", "measure"} :
            Go(w, there) /\ job' = job
              /\ (job[w].status = "failed" \/ there \in {"log_drill", "log_failure"})
              => HeldRestored(w)'
    BY <1>1, <1>2, <1>7 DEF Go, DrillTypeOK, HeldRestored, Restored
  <1>11. at[w] \notin {"log_drill", "log_failure"} => job[w].status = "failed"
    BY <1>1, <1>7 DEF HeldRestored, Job, Outcomes
  <1>12. ReplayRaises(w) /\ at[w] \in {"replay", "log_replay_failure"}
           => HeldRestored(w)'
    BY <1>9, <1>10, <1>11 DEF ReplayRaises, DrillStages
  <1> USE DEF drillTables
  <1>13. ASSUME NEW D \in SUBSET DrillSlots, DispatchDrills(w, D)
         PROVE  HeldRestored(w)' /\ SucceededDrillRestored'
    BY <1>6, <1>10, <1>11, <1>13 DEF DispatchDrills, DrillStages
  <1>14. ASSUME NEW e \in DrillSlots, NextSlot(w, e)
         PROVE  HeldRestored(w)' /\ SucceededDrillRestored'
    <2>1. CASE at' = at /\ job' = job
      BY <1>2, <1>6, <1>7, <1>14, <2>1 DEF NextSlot, HeldRestored, Restored
    <2>2. CASE /\ Go(w, "resolve")
               /\ job' = [job EXCEPT ![w] =
                            [NoJob(ScopeOf[e]) EXCEPT
                                !.slot = e, !.exists = drills[e] # NoDrill]]
      <3>1. at'[w] = "resolve" /\ job'[w].status = "failed"
        BY <2>2 DEF Go, DrillTypeOK, NoJob
      <3>2. QED BY <1>6, <1>14, <3>1 DEF NextSlot, HeldRestored
    <2>3. QED BY <1>14, <2>1, <2>2 DEF NextSlot
  <1>15. CASE DrillsDispatched(w)
    BY <1>6, <1>10, <1>11, <1>15 DEF DrillsDispatched, DrillStages
  <1>16. ASSUME NEW t \in Scopes, NEW slot \in {"drill", "replay"},
                NEW raw \in Kinds, OperatorCall(w, t, slot, raw)
         PROVE  HeldRestored(w)' /\ SucceededDrillRestored'
    <2>1. at'[w] = "replay" /\ job'[w].status = "failed"
      BY <1>16 DEF OperatorCall, Go, DrillTypeOK, NoJob
    <2>2. QED BY <1>6, <1>16, <2>1 DEF OperatorCall, HeldRestored
  <1>17. CASE Resolve(w)
    <2> DEFINE raw == audit[job[w].scope].latest
    <2>1. CASE Go(w, "replay") /\ job' = [job EXCEPT ![w] = [job[w] EXCEPT !.raw = raw]]
      <3>1. at'[w] = "replay" /\ job'[w].status = "failed"
        BY <1>1, <1>11, <1>17, <2>1 DEF Resolve, Go, DrillTypeOK, Job
      <3>2. QED BY <1>6, <1>17, <3>1 DEF Resolve, HeldRestored
    <2>2. QED BY <1>6, <1>9, <1>10, <1>11, <1>17, <2>1 DEF Resolve, DrillStages
  <1>18. CASE FileMissing(w)
    BY <1>6, <1>8, <1>9, <1>18 DEF FileMissing
  <1>19. CASE ReplayPayload(w)
    <2>1. CASE /\ job[w].raw \in Replayable
               /\ Go(w, "log_replay")
               /\ job' = [job EXCEPT ![w] = [job[w] EXCEPT !.restore = "succeeded"]]
      <3>1. /\ at'[w] = "log_replay" /\ job'[w].status = "failed"
            /\ job'[w].restore = "succeeded" /\ job'[w].raw \in Replayable
        BY <1>1, <1>11, <1>19, <2>1 DEF ReplayPayload, Go, DrillTypeOK, Job
      <3>2. QED BY <1>6, <1>19, <3>1 DEF ReplayPayload, HeldRestored
    <2>2. QED BY <1>6, <1>10, <1>11, <1>12, <1>19, <2>1 DEF ReplayPayload, DrillStages
  <1>20. CASE LogReplay(w)
    <2> DEFINE row == ReplayRow(w, FALSE)
    <2>1. CASE /\ Go(w, "measure")
               /\ replays' = replays \cup {row}
               /\ job' = [job EXCEPT ![w] = [job[w] EXCEPT !.replay = row]]
      <3>1. /\ at'[w] = "measure" /\ job'[w].status = "failed"
            /\ job'[w].raw = job[w].raw /\ job'[w].replay = row
        BY <1>1, <1>11, <1>20, <2>1 DEF LogReplay, Go, DrillTypeOK, Job
      <3>2. job[w].raw \in Replayable /\ job[w].restore = "succeeded"
        BY <1>7, <1>20 DEF LogReplay, HeldRestored
      <3>3. Restored(job[w])'
        BY <2>1, <3>1, <3>2 DEF Restored, ReplayRow
      <3>4. QED BY <1>6, <1>20, <3>1, <3>3 DEF LogReplay, HeldRestored
    <2>2. QED BY <1>6, <1>9, <1>10, <1>11, <1>20, <2>1 DEF LogReplay, DrillStages
  <1>21. CASE LogReplayFailure(w)
    BY <1>6, <1>12, <1>21 DEF LogReplayFailure, AfterReplayFailure
  <1>22. CASE Measure(w)
    <2>1. /\ at'[w] \in {"log_drill", "log_failure"}
          /\ job'[w].raw = job[w].raw /\ job'[w].replay = job[w].replay
      BY <1>1, <1>22 DEF Measure, Go, DrillTypeOK, Job
    <2>2. Restored(job[w])
      BY <1>7, <1>22 DEF Measure, HeldRestored
    <2>3. Restored(job[w])'
      BY <1>2, <2>1, <2>2 DEF Restored
    <2>4. QED BY <1>6, <1>22, <2>1, <2>3 DEF Measure, HeldRestored
  <1>23. CASE LogDrill(w)
    BY <1>6, <1>8, <1>9, <1>10, <1>23 DEF LogDrill, DrillStages
  <1>24. CASE LogFailure(w)
    BY <1>6, <1>8, <1>9, <1>24 DEF LogFailure
  <1>25. QED
    BY <1>13, <1>14, <1>15, <1>16, <1>17, <1>18, <1>19, <1>20, <1>21, <1>22,
       <1>23, <1>24 DEF DrillStep

\* A drill marked succeeded did restore the payload it names.
THEOREM SucceededDrillsRestored == Spec => []SucceededDrillRestored
  <1>1. Init => RestoredInv
    <2> DEFINE c == CHOOSE s \in Scopes : TRUE
    <2>1. Init => /\ drills = [s \in DrillSlots |-> NoDrill]
                  /\ manual = {}
                  /\ at = [w \in Drillers |-> "idle"]
                  /\ job = [w \in Drillers |-> NoJob(c)]
      BY DEF Init, DrillInit
    <2> HIDE DEF c
    <2>2. QED
      BY <2>1 DEF NoDrill, NoJob, RestoredInv, SucceededDrillRestored,
                  HeldRestored
  <1>2. TypeOK /\ RestoredInv /\ [Next]_vars => RestoredInv'
    <2> SUFFICES ASSUME TypeOK, RestoredInv, [Next]_vars
                 PROVE  RestoredInv'
      OBVIOUS
    <2>1. CASE UNCHANGED restoring
      BY <2>1 DEF restoring, drillTables, drilling, RestoredInv, HeldRestored,
                  SucceededDrillRestored, Restored
    <2>2. ASSUME NEW w \in Drillers, Restore(w)
          PROVE  RestoredInv'
      BY <2>2, DrillStepRestores DEF Restore, TypeOK
    <2>3. QED BY <2>1, <2>2 DEF Next, Ingest, vars
  <1>3. RestoredInv => SucceededDrillRestored
    BY DEF RestoredInv
  <1>4. QED BY <1>1, <1>2, <1>3, DataPlaneTypes, PTL DEF Spec

----------------------------------------------------------------------------
(* The attempts of an entry match its run, as long as no two dispatchers    *)
(* attempt the same entry at the same time.                                 *)

Attempting == {"backfill", "load_backfill", "daily", "load_daily", "minutes",
               "save_run"}

Attempts(d) == stage[d] \in Attempting \cup {"save_attempt"}

\* No entry is attempted by two dispatchers at once.  Any number may dispatch at
\* the same time, and look at the same entries.
AttemptsApart ==
    \A c, d \in Dispatchers :
        Attempts(c) /\ Attempts(d) /\ task[c].entry = task[d].entry => c = d

\* The run a dispatcher has looked up is the one on record, until it has saved
\* its own.
TaskMatchesRun(d) ==
    /\ stage[d] \in Attempting => runs[task[d].entry] = task[d].existing
    /\ stage[d] = "save_attempt" =>
          runs[task[d].entry] = [status |-> StatusFor(d), count |-> NumberOf(d)]

AbsentRunsHaveNoAttempts ==
    \A s \in Scopes : runs[s].status = "absent" => runs[s].count = 0

AttemptsInv ==
    /\ AttemptsMatchRun /\ AbsentRunsHaveNoAttempts
    /\ \A d \in Dispatchers : TaskMatchesRun(d)

\* Every stage of a dispatch keeps run and attempts in step, and saves a run
\* only over one that has not succeeded.
LEMMA IngestStepMatches ==
    ASSUME IngestTypeOK, AttemptsMatchRun, AbsentRunsHaveNoAttempts,
           NEW d \in Dispatchers, TaskMatchesRun(d), IngestStep(d)
    PROVE  /\ AttemptsMatchRun' /\ AbsentRunsHaveNoAttempts'
           /\ TaskMatchesRun(d)'
           /\ \A s \in Scopes :
                 runs[s].status = "succeeded" => runs'[s] = runs[s]
  <1> DEFINE s == task[d].entry
             Goal == /\ AttemptsMatchRun' /\ AbsentRunsHaveNoAttempts'
                     /\ TaskMatchesRun(d)'
                     /\ \A t \in Scopes :
                           runs[t].status = "succeeded" => runs'[t] = runs[t]
  <1> USE DEF scheduling
  <1>1. /\ task[d] \in Task /\ s \in Scopes
        /\ runs \in [Scopes -> Run]
        /\ attempts \in [Scopes -> [1..MaxAttempts -> Attempt]]
        /\ stage \in [Dispatchers -> IngestStages]
        /\ task \in [Dispatchers -> Task]
    BY DEF IngestTypeOK, Task, Run, Attempt
  <1>2. ASSUME NEW there, To(d, there) PROVE stage'[d] = there
    BY <1>1, <1>2 DEF To
  <1>3. ASSUME Aborts(d) PROVE stage'[d] = "idle"
    BY <1>2, <1>3 DEF Aborts
  <1>4. ASSUME Raises(d)
        PROVE  /\ stage'[d] = "save_run" /\ task'[d].entry = s
               /\ task'[d].existing = task[d].existing
    BY <1>1, <1>2, <1>4 DEF Raises, Task
  <1>5. UNCHANGED scheduling => /\ AttemptsMatchRun'
                                /\ AbsentRunsHaveNoAttempts'
                                /\ \A t \in Scopes : runs'[t] = runs[t]
    BY DEF AttemptsMatchRun, AbsentRunsHaveNoAttempts
  <1>6. ASSUME UNCHANGED scheduling,
               stage'[d] \notin Attempting \cup {"save_attempt"}
        PROVE  Goal
    BY <1>5, <1>6 DEF TaskMatchesRun
  <1>7. ASSUME UNCHANGED scheduling, stage[d] \in Attempting,
               stage'[d] \in Attempting, task'[d].entry = s,
               task'[d].existing = task[d].existing
        PROVE  Goal
    BY <1>5, <1>7 DEF TaskMatchesRun, Attempting
  <1>8. CASE Dispatch(d) \/ Dispatched(d) \/ Reload(d) \/ DispatcherDies(d)
    <2>1. UNCHANGED scheduling
      BY <1>8 DEF Dispatch, Dispatched, Reload, DispatcherDies
    <2>2. stage'[d] \in {"idle", "look"}
      BY <1>2, <1>3, <1>8 DEF Dispatch, Dispatched, Reload, DispatcherDies
    <2>3. QED BY <1>6, <2>1, <2>2 DEF Attempting
  <1>9. ASSUME NEW e \in Scopes, Look(d, e) PROVE Goal
    <2>1. UNCHANGED scheduling
      BY <1>9 DEF Look
    <2>2. CASE /\ task' = [task EXCEPT ![d] =
                              [NoTask(e) EXCEPT !.existing = runs[e]]]
               /\ To(d, "backfill")
      <3>1. task'[d].entry = e /\ task'[d].existing = runs[e]
        BY <1>1, <2>2 DEF NoTask
      <3>2. stage'[d] = "backfill"
        BY <1>2, <2>2
      <3>3. QED BY <1>5, <2>1, <3>1, <3>2 DEF TaskMatchesRun
    <2>3. CASE stage'[d] \in {"idle", "look"}
      BY <1>6, <2>1, <2>3 DEF Attempting
    <2>4. QED BY <1>3, <1>9, <2>2, <2>3 DEF Look, At
  <1>10. CASE Backfill(d) \/ LoadBackfill(d) \/ Daily(d) \/ LoadDaily(d)
              \/ Minutes(d)
    <2>1. UNCHANGED scheduling /\ stage[d] \in Attempting
      BY <1>10 DEF Backfill, LoadBackfill, Daily, LoadDaily, Minutes, At,
                   Attempting
    <2>2. /\ stage'[d] \in Attempting /\ task'[d].entry = s
          /\ task'[d].existing = task[d].existing
      <3>1. \/ task' = task
            \/ task' = [task EXCEPT ![d] = [task[d] EXCEPT
                                               !.backfill = "yfinance"]]
            \/ task' = [task EXCEPT ![d] = [task[d] EXCEPT !.daily = "twse"]]
            \/ Raises(d)
        BY <1>10 DEF Backfill, LoadBackfill, Daily, LoadDaily, Minutes
      <3>2. stage'[d] \in Attempting
        BY <1>2, <1>4, <1>10 DEF Backfill, LoadBackfill, Daily, LoadDaily, Minutes,
                                 Attempting
      <3>3. QED BY <1>1, <1>4, <3>1, <3>2 DEF Task
    <2>3. QED BY <1>7, <2>1, <2>2
  <1>11. CASE SaveRun(d)
    <2> DEFINE row == [status |-> StatusFor(d), count |-> NumberOf(d)]
    <2>1. runs[s] = task[d].existing /\ stage[d] = "save_run"
      BY <1>11 DEF SaveRun, At, TaskMatchesRun, Attempting
    <2>2. /\ row.status \in {"failed", "succeeded"}
          /\ row.count = runs[s].count + 1 /\ runs[s].count \in Nat
          /\ runs[s].status \in {"absent", "failed"}
      BY <1>1, <2>1, AttemptAssumption DEF StatusFor, NumberOf, Task
    <2> HIDE DEF row
    <2>3. attempts' = attempts
      BY <1>11 DEF SaveRun
    <2>4. CASE runs' = [runs EXCEPT ![s] = row]
      <3>1. runs'[s] = row /\ \A t \in Scopes \ {s} : runs'[t] = runs[t]
        BY <1>1, <2>4
      <3>2. AttemptsMatchRun'
        <4> SUFFICES ASSUME NEW t \in Scopes, NEW n \in 1..MaxAttempts,
                            attempts'[t][n] # NoAttempt
                     PROVE  /\ n <= runs'[t].count
                            /\ n = runs'[t].count =>
                                  attempts'[t][n].status = runs'[t].status
                            /\ n < runs'[t].count =>
                                  attempts'[t][n].status = "failed"
          BY Zenon DEF AttemptsMatchRun
        <4>1. CASE t # s
          BY <2>3, <3>1, <4>1 DEF AttemptsMatchRun
        <4>2. CASE t = s
          <5>1. n <= runs[s].count
            BY <2>3, <4>2 DEF AttemptsMatchRun
          <5>2. n = runs[s].count => attempts[s][n].status = "failed"
            <6>1. n = runs[s].count => runs[s].status # "absent"
              BY <1>1 DEF AbsentRunsHaveNoAttempts
            <6>2. QED BY <2>2, <2>3, <4>2, <6>1 DEF AttemptsMatchRun
          <5>3. n < runs[s].count => attempts[s][n].status = "failed"
            BY <2>3, <4>2 DEF AttemptsMatchRun
          <5>4. QED BY <2>2, <2>3, <3>1, <4>2, <5>1, <5>2, <5>3
        <4>3. QED BY <4>1, <4>2
      <3>3. AbsentRunsHaveNoAttempts'
        BY <2>2, <3>1 DEF AbsentRunsHaveNoAttempts
      <3>4. TaskMatchesRun(d)'
        <4>1. CASE stage'[d] = "idle"
          BY <4>1 DEF TaskMatchesRun, Attempting
        <4>2. CASE stage'[d] = "save_attempt" /\ task' = task
          BY <3>1, <4>2
             DEF TaskMatchesRun, Attempting, row, StatusFor, RawOf, NumberOf
        <4>3. QED BY <1>2, <1>3, <1>11, <4>1, <4>2 DEF SaveRun
      <3>5. QED BY <2>2, <3>1, <3>2, <3>3, <3>4
    <2>5. CASE runs' = runs /\ stage'[d] = "idle"
      BY <1>6, <2>3, <2>5 DEF Attempting
    <2>6. QED BY <1>3, <1>11, <2>4, <2>5 DEF SaveRun, row
  <1>12. CASE SaveAttempt(d)
    <2> DEFINE n == NumberOf(d)
               row == [status |-> StatusFor(d), raw |-> RawOf(d)]
    <2>1. /\ runs[s].status = row.status /\ runs[s].count = n
          /\ runs' = runs
      BY <1>12 DEF SaveAttempt, At, TaskMatchesRun
    <2>2. stage'[d] \in {"idle", "reload"}
      BY <1>2, <1>3, <1>12 DEF SaveAttempt
    <2>3. n \in 1..MaxAttempts
      BY <1>1, AttemptAssumption DEF NumberOf, Task
    <2> HIDE DEF n, row
    <2>4. AttemptsMatchRun'
      <3>1. CASE attempts' = attempts
        BY <2>1, <3>1 DEF AttemptsMatchRun
      <3>2. CASE attempts' = [attempts EXCEPT ![s] =
                                 [attempts[s] EXCEPT ![n] = row]]
        <4> SUFFICES ASSUME NEW t \in Scopes, NEW m \in 1..MaxAttempts,
                            attempts'[t][m] # NoAttempt
                     PROVE  /\ m <= runs[t].count
                            /\ m = runs[t].count =>
                                  attempts'[t][m].status = runs[t].status
                            /\ m < runs[t].count =>
                                  attempts'[t][m].status = "failed"
          BY <2>1, Zenon DEF AttemptsMatchRun
        <4>1. CASE t = s /\ m = n
          <5>1. attempts'[t][m] = row
            BY <1>1, <2>3, <3>2, <4>1
          <5>2. QED BY <2>1, <2>3, <4>1, <5>1
        <4>2. CASE ~(t = s /\ m = n)
          <5>1. attempts'[t][m] = attempts[t][m]
            BY <1>1, <3>2, <4>2
          <5>2. QED BY <5>1 DEF AttemptsMatchRun
        <4>3. QED BY <4>1, <4>2
      <3>3. QED BY <1>12, <3>1, <3>2 DEF SaveAttempt, AttemptNumber, n, row
    <2>5. AbsentRunsHaveNoAttempts' /\ TaskMatchesRun(d)'
      BY <2>1, <2>2 DEF AbsentRunsHaveNoAttempts, TaskMatchesRun, Attempting
    <2>6. QED BY <2>1, <2>4, <2>5
  <1>13. QED BY <1>8, <1>9, <1>10, <1>11, <1>12 DEF IngestStep

\* A dispatcher changes the run of the entry it attempts, and no other.
LEMMA OnlyOwnRun ==
    ASSUME IngestTypeOK, NEW d \in Dispatchers, IngestStep(d)
    PROVE  /\ \A c \in Dispatchers \ {d} :
                 stage'[c] = stage[c] /\ task'[c] = task[c]
           /\ \A s \in Scopes : runs'[s] # runs[s] =>
                 Attempts(d) /\ s = task[d].entry
  <1>1. \A c \in Dispatchers \ {d} : stage'[c] = stage[c] /\ task'[c] = task[c]
    BY DEF IngestTypeOK, IngestStep, Dispatch, Look, Dispatched, Backfill,
           LoadBackfill, Daily, LoadDaily, Minutes, SaveRun, SaveAttempt, Reload,
           DispatcherDies, Aborts, Raises, To
  <1>2. CASE SaveRun(d)
    BY <1>1, <1>2 DEF SaveRun, IngestTypeOK, At, Attempts, Attempting
  <1>3. CASE ~SaveRun(d)
    BY <1>1, <1>3
       DEF IngestStep, Dispatch, Look, Dispatched, Backfill, LoadBackfill, Daily,
           LoadDaily, Minutes, SaveAttempt, Reload, DispatcherDies, scheduling
  <1>4. QED BY <1>2, <1>3

\* While no two dispatchers attempt the same entry the invariant holds, next to
\* any number of drills, replays, faults and kills.
LEMMA AttemptsPreserved ==
    ASSUME AttemptsApart, TypeOK, AttemptsInv, [Next]_vars
    PROVE  /\ AttemptsInv'
           /\ \A s \in Scopes :
                 runs[s].status = "succeeded" => runs'[s] = runs[s]
  <1>1. CASE UNCHANGED ingesting
    BY <1>1 DEF ingesting, scheduling, dispatch, AttemptsInv, AttemptsMatchRun,
                AbsentRunsHaveNoAttempts, TaskMatchesRun, StatusFor, RawOf,
                NumberOf
  <1>2. ASSUME NEW d \in Dispatchers, Ingest(d)
        PROVE  /\ AttemptsInv'
               /\ \A s \in Scopes :
                     runs[s].status = "succeeded" => runs'[s] = runs[s]
    <2>1. /\ AttemptsMatchRun' /\ AbsentRunsHaveNoAttempts' /\ TaskMatchesRun(d)'
          /\ \A s \in Scopes : runs[s].status = "succeeded" => runs'[s] = runs[s]
      BY <1>2, IngestStepMatches DEF Ingest, TypeOK, AttemptsInv
    <2>2. ASSUME NEW c \in Dispatchers \ {d} PROVE TaskMatchesRun(c)'
      <3>1. stage'[c] = stage[c] /\ task'[c] = task[c]
        BY <1>2, OnlyOwnRun DEF Ingest, TypeOK
      <3>2. Attempts(c) => runs'[task[c].entry] = runs[task[c].entry]
        <4>1. task[c].entry \in Scopes
          BY DispatchType DEF TypeOK
        <4>2. QED BY <1>2, <4>1, OnlyOwnRun DEF Ingest, TypeOK, AttemptsApart
      <3>3. TaskMatchesRun(c)
        BY DEF AttemptsInv
      <3>4. QED
        BY <3>1, <3>2, <3>3
           DEF TaskMatchesRun, Attempts, StatusFor, RawOf, NumberOf
    <2>3. QED BY <2>1, <2>2 DEF AttemptsInv
  <1>3. QED BY <1>1, <1>2 DEF Next, Restore, vars

\* So it does throughout.
THEOREM AttemptsInvariant == Spec /\ []AttemptsApart => []AttemptsInv
  <1>1. Init => AttemptsInv
    <2>1. Init => /\ runs = [s \in Scopes |-> NoRun]
                  /\ attempts = [s \in Scopes |-> [n \in 1..MaxAttempts |-> NoAttempt]]
                  /\ stage = [d \in Dispatchers |-> "idle"]
      BY DEF Init, IngestInit
    <2>2. ASSUME Init, NEW s \in Scopes, NEW n \in 1..MaxAttempts
          PROVE  attempts[s][n] = NoAttempt
      <3>1. attempts[s] = [m \in 1..MaxAttempts |-> NoAttempt]
        BY <2>1, <2>2
      <3>2. QED BY <3>1
    <2>3. Init => AttemptsMatchRun
      BY <2>2, Zenon DEF AttemptsMatchRun
    <2>4. QED
      BY <2>1, <2>3 DEF NoRun, AttemptsInv, AbsentRunsHaveNoAttempts,
                        TaskMatchesRun, Attempting
  <1>2. AttemptsApart /\ TypeOK /\ AttemptsInv /\ [Next]_vars => AttemptsInv'
    BY AttemptsPreserved
  <1>3. QED BY <1>1, <1>2, DataPlaneTypes, PTL DEF Spec

\* The attempts of an entry match its run although the two rows are saved in
\* separate transactions and either may be missing.
THEOREM AttemptsMatch == Spec /\ []AttemptsApart => []AttemptsMatchRun
  <1>1. AttemptsInv => AttemptsMatchRun
    BY DEF AttemptsInv
  <1>2. QED BY <1>1, AttemptsInvariant, PTL

\* An entry that has succeeded is never ingested again: no retry, failed save
\* or kill brings it back.
THEOREM SuccessIsFinal == Spec /\ []AttemptsApart => SucceededRunIsFinal
  <1>1. AttemptsApart /\ TypeOK /\ AttemptsInv /\ [Next]_vars =>
          [\A s \in Scopes :
              runs[s].status = "succeeded" => runs'[s] = runs[s]]_runs
    BY AttemptsPreserved
  <1>2. QED BY <1>1, DataPlaneTypes, AttemptsInvariant, PTL
            DEF Spec, SucceededRunIsFinal

----------------------------------------------------------------------------
(* A succeeded entry left a payload that can be replayed, whoever else     *)
(* dispatches.                                                             *)

\* What a dispatcher holds as fetched is in the audit of its entry.
TaskIsAudited(d) ==
    /\ task[d].backfill = "yfinance" => "yfinance" \in audit[task[d].entry].seen
    /\ task[d].daily = "twse" => "twse" \in audit[task[d].entry].seen

ReplayableInv ==
    SucceededRunIsReplayable /\ \A d \in Dispatchers : TaskIsAudited(d)

\* No operation removes a payload from the audit.
LEMMA AuditGrows ==
    ASSUME RawTypeOK, IngestTypeOK, [Next]_vars, NEW s \in Scopes
    PROVE  audit[s].seen \subseteq audit'[s].seen
  <1>1. ASSUME NEW t \in Scopes, NEW kind, Recorded(t, kind)
        PROVE  audit[s].seen \subseteq audit'[s].seen
    BY <1>1 DEF RawTypeOK, Recorded
  <1>2. ASSUME NEW d \in Dispatchers, IngestStep(d)
        PROVE  audit[s].seen \subseteq audit'[s].seen
    <2>1. task[d].entry \in Scopes
      BY DispatchType
    <2>2. audit' = audit \/ \E kind : Recorded(task[d].entry, kind)
      BY <1>2 DEF IngestStep, Dispatch, Look, Dispatched, Backfill, LoadBackfill,
                  Daily, LoadDaily, Minutes, SaveRun, SaveAttempt, Reload,
                  DispatcherDies
    <2>3. QED BY <1>1, <2>1, <2>2
  <1>3. ASSUME NEW w \in Drillers, DrillStep(w) PROVE audit' = audit
    BY <1>3 DEF DrillStep, DispatchDrills, NextSlot, DrillsDispatched,
                OperatorCall, Resolve, FileMissing, ReplayPayload, LogReplay,
                LogReplayFailure, Measure, LogDrill, LogFailure
  <1>4. QED BY <1>2, <1>3 DEF Next, Ingest, Restore, vars

\* A dispatcher holds a payload as fetched only once it is recorded, and
\* forgets it with the entry.
LEMMA TaskAudited ==
    ASSUME RawTypeOK, IngestTypeOK, NEW d \in Dispatchers, TaskIsAudited(d),
           IngestStep(d)
    PROVE  TaskIsAudited(d)'
  <1> DEFINE s == task[d].entry
  <1>1. /\ task \in [Dispatchers -> Task] /\ task[d] \in Task /\ s \in Scopes
        /\ audit \in Audit
    BY DEF IngestTypeOK, RawTypeOK, Task, Audit
  <1>2. ASSUME NEW kind, Recorded(s, kind)
        PROVE  kind \in audit'[s].seen /\ audit[s].seen \subseteq audit'[s].seen
    BY <1>1, <1>2 DEF Recorded, Audit
  <1>3. audit[s].seen \subseteq audit'[s].seen
    BY <1>2 DEF IngestStep, Dispatch, Look, Dispatched, Backfill, LoadBackfill,
                Daily, LoadDaily, Minutes, SaveRun, SaveAttempt, Reload,
                DispatcherDies
  <1>4. CASE /\ task'[d].entry = s /\ task'[d].backfill = task[d].backfill
             /\ task'[d].daily = task[d].daily
    BY <1>3, <1>4 DEF TaskIsAudited
  <1>5. CASE task'[d].backfill = "none" /\ task'[d].daily = "none"
    BY <1>5 DEF TaskIsAudited
  <1>6. Raises(d) => TaskIsAudited(d)'
    BY <1>1, <1>4 DEF Raises, Task
  <1>7. Aborts(d) => TaskIsAudited(d)'
    BY <1>1, <1>5 DEF Aborts, NoTask
  <1>8. ASSUME NEW e \in Scopes, Look(d, e) PROVE TaskIsAudited(d)'
    <2>1. CASE task' = [task EXCEPT ![d] =
                           [NoTask(e) EXCEPT !.existing = runs[e]]]
      BY <1>1, <1>5, <2>1 DEF NoTask
    <2>2. CASE task' = task
      BY <1>4, <2>2
    <2>3. QED BY <1>7, <1>8, <2>1, <2>2 DEF Look
  <1>9. CASE Backfill(d)
    <2>1. CASE /\ Recorded(s, "yfinance")
               /\ task' = [task EXCEPT ![d] = [task[d] EXCEPT
                                                  !.backfill = "yfinance"]]
      <3>1. /\ task'[d].entry = s /\ task'[d].daily = task[d].daily
        BY <1>1, <2>1 DEF Task
      <3>2. QED BY <1>2, <1>3, <2>1, <3>1 DEF TaskIsAudited
    <2>2. QED BY <1>4, <1>6, <1>9, <2>1 DEF Backfill
  <1>10. CASE Daily(d)
    <2>1. CASE /\ Recorded(s, "twse")
               /\ task' = [task EXCEPT ![d] = [task[d] EXCEPT !.daily = "twse"]]
      <3>1. /\ task'[d].entry = s /\ task'[d].backfill = task[d].backfill
        BY <1>1, <2>1 DEF Task
      <3>2. QED BY <1>2, <1>3, <2>1, <3>1 DEF TaskIsAudited
    <2>2. QED BY <1>4, <1>6, <1>10, <2>1 DEF Daily
  <1>11. CASE LoadBackfill(d) \/ LoadDaily(d) \/ Minutes(d)
    BY <1>4, <1>6, <1>11 DEF LoadBackfill, LoadDaily, Minutes
  <1>12. CASE \/ Dispatch(d) \/ Dispatched(d) \/ SaveRun(d) \/ SaveAttempt(d)
              \/ DispatcherDies(d)
    BY <1>4, <1>7, <1>12
       DEF Dispatch, Dispatched, SaveRun, SaveAttempt, DispatcherDies
  <1>13. CASE Reload(d)
    <2>1. CASE task' = [task EXCEPT ![d] = NoTask(task[d].entry)]
      BY <1>1, <1>5, <2>1 DEF NoTask
    <2>2. QED BY <1>7, <1>13, <2>1 DEF Reload
  <1>14. QED BY <1>8, <1>9, <1>10, <1>11, <1>12, <1>13 DEF IngestStep

\* An attempt that is filed as succeeded had a payload in the audit.
LEMMA ReplayablePreserved ==
    ASSUME TypeOK, ReplayableInv, [Next]_vars PROVE ReplayableInv'
  <1>1. RawTypeOK /\ IngestTypeOK
    BY DEF TypeOK
  <1>2. \A s \in Scopes : audit[s].seen \subseteq audit'[s].seen
    BY <1>1, AuditGrows
  <1>3. CASE UNCHANGED ingesting
    BY <1>1, <1>2, <1>3
       DEF ingesting, scheduling, dispatch, ReplayableInv, TaskIsAudited,
           SucceededRunIsReplayable, IngestTypeOK
  <1>4. ASSUME NEW d \in Dispatchers, Ingest(d) PROVE ReplayableInv'
    <2>1. TaskIsAudited(d)'
      BY <1>1, <1>4, TaskAudited DEF Ingest, ReplayableInv
    <2>2. ASSUME NEW c \in Dispatchers \ {d} PROVE TaskIsAudited(c)'
      <3>1. task'[c] = task[c]
        BY <1>1, <1>4 DEF Ingest, IngestTypeOK, IngestStep, Dispatch, Look,
              Dispatched, Backfill, LoadBackfill, Daily, LoadDaily, Minutes,
              SaveRun, SaveAttempt, Reload, DispatcherDies, Aborts, Raises
      <3>2. task[c].entry \in Scopes
        BY <1>1, DispatchType
      <3>3. QED BY <1>2, <3>1, <3>2 DEF ReplayableInv, TaskIsAudited
    <2>3. SucceededRunIsReplayable'
      <3> SUFFICES ASSUME NEW s \in Scopes, runs'[s].status = "succeeded"
                   PROVE  audit[s].seen \cap Replayable # {}
        BY <1>2 DEF SucceededRunIsReplayable
      <3>1. CASE runs'[s] = runs[s]
        BY <3>1 DEF ReplayableInv, SucceededRunIsReplayable
      <3>2. CASE runs'[s] # runs[s]
        <4>1. /\ SaveRun(d) /\ s = task[d].entry
              /\ runs'[s].status = StatusFor(d)
          BY <1>1, <1>4, <3>2 DEF Ingest, IngestTypeOK, IngestStep, Dispatch,
                Look, Dispatched, Backfill, LoadBackfill, Daily, LoadDaily,
                Minutes, SaveRun, SaveAttempt, Reload, DispatcherDies, scheduling
        <4>2. task[d].backfill = "yfinance" \/ task[d].daily = "twse"
          <5>1. task[d] \in Task
            BY <1>1 DEF IngestTypeOK, Task
          <5>2. QED BY <4>1, <5>1 DEF StatusFor, RawOf, Task
        <4>3. QED BY <4>1, <4>2 DEF ReplayableInv, TaskIsAudited, Replayable
      <3>3. QED BY <3>1, <3>2
    <2>4. QED BY <2>1, <2>2, <2>3 DEF ReplayableInv
  <1>5. QED BY <1>3, <1>4 DEF Next, Restore, vars

\* An entry on record as succeeded left a payload that a recovery drill can
\* replay, for any number of dispatchers.
THEOREM SuccessIsReplayable == Spec => []SucceededRunIsReplayable
  <1>1. Init => ReplayableInv
    <2> DEFINE c == CHOOSE s \in Scopes : TRUE
    <2>1. Init => /\ runs = [s \in Scopes |-> NoRun]
                  /\ task = [d \in Dispatchers |-> NoTask(c)]
      BY DEF Init, IngestInit
    <2> HIDE DEF c
    <2>2. QED
      BY <2>1 DEF NoRun, NoTask, ReplayableInv, SucceededRunIsReplayable,
                  TaskIsAudited
  <1>2. TypeOK /\ ReplayableInv /\ [Next]_vars => ReplayableInv'
    BY ReplayablePreserved
  <1>3. ReplayableInv => SucceededRunIsReplayable
    BY DEF ReplayableInv
  <1>4. QED BY <1>1, <1>2, <1>3, DataPlaneTypes, PTL DEF Spec

----------------------------------------------------------------------------
(* Slots: what is kept while no two dispatchers drill the same slot, and   *)
(* what a dispatch lists; any number of operators work beside them.        *)

\* No slot is drilled by two dispatchers at once.
DrillsApart ==
    \A v, w \in DrillDispatchers :
        Scheduled(v) /\ Scheduled(w) /\ job[v].slot = job[w].slot => v = w

\* No two dispatches of drills are in progress at once.
DispatchesApart ==
    \A v, w \in DrillDispatchers : at[v] # "idle" /\ at[w] # "idle" => v = w

OneDriller == \A v, w \in DrillDispatchers : v = w

\* An operator's drill is for no slot.
Unscheduled(w) == at[w] # "next" /\ ~Scheduled(w)

\* The slot a dispatch works on is on record as succeeded only after it has
\* filed that itself.
WorkKept(w) ==
    /\ at[w] \in {"idle", "next"} => ~Scheduled(w)
    /\ Scheduled(w) /\ drills[job[w].slot].status = "succeeded" =>
          at[w] = "log_failure" /\ job[w].status = "succeeded"

WorkInv ==
    /\ \A w \in Operators : Unscheduled(w)
    /\ \A w \in DrillDispatchers : WorkKept(w)

ListIsTrue(w) == \A s \in listed[w] : drills[s].status # "succeeded"

\* A dispatch takes each slot once, and until it returns what it lists as failed
\* is not on record as succeeded.
SlotsKept(w) ==
    /\ WorkKept(w)
    /\ Scheduled(w) => job[w].slot \notin due[w] \cup listed[w]
    /\ due[w] \cap listed[w] = {}
    /\ at[w] # "idle" => ListIsTrue(w)

SlotsInv ==
    /\ \A w \in Operators : Unscheduled(w)
    /\ \A w \in DrillDispatchers : SlotsKept(w)

\* A step of a drill or replay moves its own worker only.
LEMMA DrillStepIsLocal ==
    ASSUME DrillTypeOK, NEW w \in Drillers, DrillStep(w), NEW v \in Drillers \ {w}
    PROVE  /\ at'[v] = at[v] /\ job'[v] = job[v]
           /\ due'[v] = due[v] /\ listed'[v] = listed[v]
  BY DEF DrillTypeOK, DrillStep, DispatchDrills, NextSlot,
         DrillsDispatched, OperatorCall, Resolve, FileMissing, ReplayPayload,
         LogReplay, LogReplayFailure, Measure, LogDrill, LogFailure,
         ReplayRaises, AfterReplayFailure, Ends, Go

\* A worker that ends its work on a slot, drill or replay holds no slot.
LEMMA EndsWork ==
    ASSUME DrillTypeOK, NEW w \in Drillers, NEW outcome, Ends(w, outcome)
    PROVE  /\ at'[w] = (IF Scheduled(w) THEN "next" ELSE "idle")
           /\ job'[w].slot = "replay" /\ ~Scheduled(w)'
           /\ due'[w] = due[w]
           /\ listed'[w] = IF Scheduled(w) /\ outcome = "failed"
                           THEN listed[w] \cup {job[w].slot} ELSE listed[w]
  <1>1. at \in [Drillers -> DrillStages] /\ job \in [Drillers -> Job]
        /\ listed \in [Drillers -> SUBSET DrillSlots]
    BY DEF DrillTypeOK, Job
  <1>2. job'[w] = NoJob(job[w].scope)
    BY <1>1 DEF Ends
  <1>3. job'[w].slot = "replay"
    BY <1>2 DEF NoJob
  <1>4. ~Scheduled(w)'
    BY <1>3, SlotAssumption DEF Scheduled
  <1>5. at'[w] = (IF Scheduled(w) THEN "next" ELSE "idle")
    BY <1>1 DEF Ends, Go
  <1>6. QED BY <1>1, <1>3, <1>4, <1>5 DEF Ends

\* The work on a slot, drill or replay goes on.
GoesOn(w) ==
    /\ at[w] \notin {"idle", "next"} /\ at'[w] \notin {"idle", "next"}
    /\ job'[w].slot = job[w].slot
    /\ due'[w] = due[w] /\ listed'[w] = listed[w]

\* What a worker at work does next.
LEMMA WorkGoesOn ==
    ASSUME DrillTypeOK, NEW w \in Drillers, DrillStep(w),
           at[w] \notin {"idle", "next"}
    PROVE  (\E outcome : Ends(w, outcome)) \/ GoesOn(w)
  <1>1. w \in Drillers /\ job[w] \in Job /\ job \in [Drillers -> Job]
        /\ at \in [Drillers -> DrillStages]
    BY DEF DrillTypeOK, Job
  <1>2. \A there : Go(w, there) => at'[w] = there
    BY <1>1 DEF Go
  <1>3. ASSUME at'[w] \notin {"idle", "next"}, job'[w].slot = job[w].slot,
               UNCHANGED <<due, listed>>
        PROVE  GoesOn(w)
    BY <1>3 DEF GoesOn
  <1>4. ASSUME NEW there \in DrillStages \ {"idle", "next"}, Go(w, there),
               UNCHANGED <<job, due, listed>>
        PROVE  GoesOn(w)
    BY <1>2, <1>3, <1>4
  <1>5. {"replay", "file_missing", "log_failure", "log_replay", "measure",
         "log_replay_failure", "log_drill"} \subseteq DrillStages \ {"idle", "next"}
    BY DEF DrillStages
  <1>6. ReplayRaises(w) => (\E outcome : Ends(w, outcome)) \/ GoesOn(w)
    BY <1>4, <1>5 DEF ReplayRaises
  <1>7. CASE Resolve(w)
    <2>1. ASSUME NEW raw, Go(w, "replay"), UNCHANGED <<due, listed>>,
                 job' = [job EXCEPT ![w] = [job[w] EXCEPT !.raw = raw]]
          PROVE  GoesOn(w)
      <3>1. job'[w].slot = job[w].slot
        BY <1>1, <2>1 DEF Job
      <3>2. QED BY <1>2, <1>3, <2>1, <3>1
    <2>2. QED BY <1>4, <1>5, <1>7, <2>1 DEF Resolve
  <1>8. CASE FileMissing(w)
    BY <1>8 DEF FileMissing
  <1>9. CASE ReplayPayload(w)
    <2>1. ASSUME Go(w, "log_replay"), UNCHANGED <<due, listed>>,
                 job' = [job EXCEPT ![w] = [job[w] EXCEPT !.restore = "succeeded"]]
          PROVE  GoesOn(w)
      <3>1. job'[w].slot = job[w].slot
        BY <1>1, <2>1 DEF Job
      <3>2. QED BY <1>2, <1>3, <2>1, <3>1
    <2>2. QED BY <1>4, <1>5, <1>6, <1>9, <2>1 DEF ReplayPayload
  <1>10. CASE LogReplay(w)
    <2>1. ASSUME NEW row, Go(w, "measure"), UNCHANGED <<due, listed>>,
                 job' = [job EXCEPT ![w] = [job[w] EXCEPT !.replay = row]]
          PROVE  GoesOn(w)
      <3>1. job'[w].slot = job[w].slot
        BY <1>1, <2>1 DEF Job
      <3>2. QED BY <1>2, <1>3, <2>1, <3>1
    <2>2. QED BY <1>4, <1>5, <1>10, <2>1 DEF LogReplay
  <1>11. CASE LogReplayFailure(w)
    BY <1>6, <1>11 DEF LogReplayFailure, AfterReplayFailure
  <1>12. CASE Measure(w)
    <2>1. job'[w].slot = job[w].slot
      BY <1>1, <1>12 DEF Measure, Job
    <2>2. at'[w] \notin {"idle", "next"}
      BY <1>2, <1>12 DEF Measure
    <2>3. QED BY <1>3, <1>12, <2>1, <2>2 DEF Measure
  <1>13. CASE LogDrill(w)
    BY <1>4, <1>5, <1>13 DEF LogDrill
  <1>14. CASE LogFailure(w)
    BY <1>14 DEF LogFailure
  <1>15. QED
    BY <1>7, <1>8, <1>9, <1>10, <1>11, <1>12, <1>13, <1>14
       DEF DrillStep, DispatchDrills, NextSlot, DrillsDispatched, OperatorCall

\* Nobody files a drill for a slot but the dispatch that works on it, and a
\* call of an operator ends where it began.
LEMMA OperatorStepKeeps ==
    ASSUME DrillTypeOK, NEW w \in Operators, Unscheduled(w), DrillStep(w)
    PROVE  drills' = drills /\ Unscheduled(w)'
  <1>1. w \in Drillers /\ job \in [Drillers -> Job] /\ at \in [Drillers -> DrillStages]
    BY DEF Drillers, DrillTypeOK, Job
  <1>2. \A row : Persisted(w, row) => drills' = drills
    BY DEF Persisted, Unscheduled, Duplicate
  <1>3. drills' = drills
    BY <1>2 DEF DrillStep, DispatchDrills, NextSlot, DrillsDispatched,
           OperatorCall, Resolve, FileMissing, ReplayPayload, LogReplay,
           LogReplayFailure, Measure, LogDrill, LogFailure, drillTables
  <1> SUFFICES Unscheduled(w)'
    BY <1>3
  <1>4. CASE at[w] = "idle"
    <2>1. PICK t \in Scopes, slot \in {"drill", "replay"}, raw \in Kinds :
            OperatorCall(w, t, slot, raw)
      BY <1>4, SlotAssumption
         DEF DrillStep, DispatchDrills, NextSlot, DrillsDispatched, Resolve,
             FileMissing, ReplayPayload, LogReplay, LogReplayFailure, Measure,
             LogDrill, LogFailure
    <2>2. /\ job'[w] = [NoJob(t) EXCEPT !.slot = slot, !.raw = raw]
          /\ at'[w] = "replay"
      BY <1>1, <2>1 DEF OperatorCall, Go
    <2>3. job'[w].slot = slot
      BY <2>2 DEF NoJob
    <2>4. QED BY <2>2, <2>3, SlotAssumption DEF Unscheduled, Scheduled
  <1>5. CASE at[w] # "idle"
    <2>1. at[w] \notin {"idle", "next"}
      BY <1>5 DEF Unscheduled
    <2>2. CASE \E outcome : Ends(w, outcome)
      BY <1>1, <2>2, EndsWork DEF Unscheduled
    <2>3. CASE GoesOn(w)
      BY <2>3 DEF GoesOn, Unscheduled, Scheduled
    <2>4. QED BY <1>1, <2>1, <2>2, <2>3, WorkGoesOn
  <1>6. QED BY <1>4, <1>5

\* A stage of a drill changes the row of its own slot only, to the status it
\* holds in memory.
LEMMA OnlyOwnRow ==
    ASSUME DrillTypeOK, NEW w \in Drillers, DrillStep(w),
           NEW s \in DrillSlots, drills'[s] # drills[s]
    PROVE  /\ Scheduled(w) /\ s = job[w].slot
           /\ at[w] \in {"file_missing", "log_drill", "log_failure"}
           /\ drills'[s].status = job[w].status
  <1>1. PICK row : /\ Persisted(w, row) /\ row.status = job[w].status
                   /\ at[w] \in {"file_missing", "log_drill", "log_failure"}
    BY DEF DrillStep, DispatchDrills, NextSlot, DrillsDispatched,
           OperatorCall, Resolve, FileMissing, ReplayPayload, LogReplay,
           LogReplayFailure, Measure, LogDrill, LogFailure, drillTables, RowOf
  <1>2. Scheduled(w) /\ drills' = [drills EXCEPT ![job[w].slot] = row]
    BY <1>1 DEF Persisted, Duplicate
  <1>3. QED BY <1>1, <1>2 DEF DrillTypeOK

\* What a dispatch lists as failed is not on record as succeeded.
LEMMA ListedIsNotSucceeded ==
    ASSUME DrillTypeOK, NEW w \in Drillers, DrillStep(w), SlotsKept(w),
           Scheduled(w), at[w] # "next", NEW outcome, Ends(w, outcome),
           listed'[w] # listed[w]
    PROVE  drills'[job[w].slot].status # "succeeded"
  <1> DEFINE slot == job[w].slot
  <1>1. /\ slot \in DrillSlots /\ slot # "replay"
        /\ drills \in [DrillSlots -> Drill]
    BY SlotAssumption DEF Scheduled, DrillTypeOK
  <1>2. \A row : Persisted(w, row) => drills'[slot] = Returned(w, row)
    BY <1>1 DEF Persisted, Returned
  <1>3. \A aborted : RowOf(w, aborted).status = job[w].status
    BY DEF RowOf
  <1>4. at'[w] = "next"
    BY EndsWork
  <1>5. \A other : Ends(w, other) => other = "failed"
    BY EndsWork
  <1>6. at \in [Drillers -> DrillStages] /\ \A there : Go(w, there) => at'[w] = there
    BY DEF DrillTypeOK, Go
  <1>7. ASSUME NEW row, Persisted(w, row), Ends(w, Returned(w, row).status)
        PROVE  drills'[slot].status # "succeeded"
    BY <1>2, <1>5, <1>7
  <1>8. CASE FileMissing(w)
    BY <1>5, <1>7, <1>8 DEF FileMissing
  <1>9. CASE LogDrill(w)
    BY <1>4, <1>6, <1>7, <1>9 DEF LogDrill
  <1>10. CASE LogFailure(w)
    <2>1. ASSUME NEW row, row.status = job[w].status,
                 Persisted(w, row) \/ UNCHANGED <<drills, manual>>,
                 Ends(w, job[w].status)
          PROVE  drills'[slot].status # "succeeded"
      <3>1. job[w].status = "failed"
        BY <1>5, <2>1
      <3>2. drills[slot].status # "succeeded"
        BY <3>1 DEF SlotsKept, WorkKept
      <3>3. QED BY <1>2, <2>1, <3>1, <3>2 DEF Returned
    <2>2. QED BY <1>3, <1>7, <1>10, <2>1 DEF LogFailure, Listed
  <1>11. CASE Resolve(w)
    BY <1>4, <1>5, <1>6, <1>11 DEF Resolve
  <1>12. CASE ReplayPayload(w) \/ LogReplay(w) \/ LogReplayFailure(w) \/ Measure(w)
    BY <1>1, <1>4, <1>6, <1>12 DEF ReplayPayload, LogReplay, LogReplayFailure,
       AfterReplayFailure, ReplayRaises, Measure
  <1>13. at[w] # "idle"
    BY DEF SlotsKept, WorkKept
  <1>14. QED
    BY <1>8, <1>9, <1>10, <1>11, <1>12, <1>13
       DEF DrillStep, DispatchDrills, NextSlot, DrillsDispatched, OperatorCall

\* A dispatch files a success over nothing but its own, so no success it finds
\* on record is lost.
LEMMA DispatcherWorkKept ==
    ASSUME DrillTypeOK, NEW w \in DrillDispatchers, WorkKept(w), DrillStep(w)
    PROVE  /\ WorkKept(w)'
           /\ \A s \in DrillSlots : drills[s].status = "succeeded" =>
                                        drills'[s].status = "succeeded"
  <1>1. /\ w \in Drillers /\ at \in [Drillers -> DrillStages]
        /\ job \in [Drillers -> Job] /\ due \in [Drillers -> SUBSET DrillSlots]
        /\ listed \in [Drillers -> SUBSET DrillSlots]
    BY DEF Drillers, DrillTypeOK, Job
  <1>2. \A s \in DrillSlots : drills'[s] # drills[s] =>
            /\ Scheduled(w) /\ s = job[w].slot
            /\ at[w] \in {"file_missing", "log_drill", "log_failure"}
            /\ drills'[s].status = job[w].status
    BY <1>1, OnlyOwnRow
  <1>3. \A s \in DrillSlots : drills[s].status = "succeeded" =>
                                  drills'[s].status = "succeeded"
    BY <1>2 DEF WorkKept
  <1> SUFFICES WorkKept(w)'
    BY <1>3
  <1>4. CASE at[w] = "idle"
    <2>1. PICK D \in SUBSET DrillSlots : DispatchDrills(w, D)
      BY <1>4, SlotAssumption
         DEF DrillStep, DispatchDrills, NextSlot, DrillsDispatched, OperatorCall,
             Resolve, FileMissing, ReplayPayload, LogReplay, LogReplayFailure,
             Measure, LogDrill, LogFailure
    <2>2. job' = job
      BY <2>1 DEF DispatchDrills
    <2>3. QED BY <1>4, <2>2 DEF WorkKept, Scheduled
  <1>5. CASE at[w] = "next"
    <2>1. ~Scheduled(w)
      BY <1>5 DEF WorkKept
    <2>2. CASE job' = job
      BY <2>1, <2>2 DEF WorkKept, Scheduled
    <2>3. CASE \E s \in DrillSlots : NextSlot(w, s) /\ ~Done(s) /\ job' # job
      <3>1. PICK s \in DrillSlots : NextSlot(w, s) /\ ~Done(s) /\ job' # job
        BY <2>3
      <3>2. /\ at'[w] = "resolve" /\ drills' = drills
            /\ job'[w] = [NoJob(ScopeOf[s]) EXCEPT
                             !.slot = s, !.exists = drills[s] # NoDrill]
        BY <1>1, <3>1 DEF NextSlot, Go, drillTables
      <3>3. job'[w].slot = s
        BY <3>2 DEF NoJob
      <3>4. QED BY <3>1, <3>2, <3>3 DEF WorkKept, Scheduled, Done
    <2>4. (\E s \in DrillSlots : NextSlot(w, s)) \/ DrillsDispatched(w)
      BY <1>5 DEF DrillStep, DispatchDrills, OperatorCall, Resolve, FileMissing,
           ReplayPayload, LogReplay, LogReplayFailure, Measure, LogDrill, LogFailure
    <2>5. QED BY <2>2, <2>3, <2>4 DEF NextSlot, DrillsDispatched
  <1>6. CASE at[w] \notin {"idle", "next"}
    <2>1. CASE \E outcome : Ends(w, outcome)
      BY <1>1, <2>1, EndsWork DEF WorkKept
    <2>2. CASE GoesOn(w)
      <3>1. ~FileMissing(w) /\ ~LogFailure(w)
        BY <1>1, <2>2, EndsWork DEF GoesOn, FileMissing, LogFailure
      <3>2. at[w] # "log_failure"
        BY <3>1 DEF DrillStep, DispatchDrills, NextSlot, DrillsDispatched,
             OperatorCall, Resolve, ReplayPayload, LogReplay, LogReplayFailure,
             Measure, LogDrill
      <3>3. at[w] # "file_missing"
        BY <3>1 DEF DrillStep, DispatchDrills, NextSlot, DrillsDispatched,
             OperatorCall, Resolve, ReplayPayload, LogReplay, LogReplayFailure,
             Measure, LogDrill
      <3>4. ASSUME Scheduled(w)', drills'[job'[w].slot].status = "succeeded"
            PROVE  at'[w] = "log_failure" /\ job'[w].status = "succeeded"
        <4>1. Scheduled(w) /\ drills'[job[w].slot].status = "succeeded"
          BY <2>2, <3>4 DEF GoesOn, Scheduled
        <4>2. drills'[job[w].slot] # drills[job[w].slot]
          BY <3>2, <4>1 DEF WorkKept
        <4>3. at[w] = "log_drill" /\ job[w].status = "succeeded"
          BY <1>2, <3>2, <3>3, <4>1, <4>2 DEF Scheduled
        <4>4. LogDrill(w)
          BY <4>3 DEF DrillStep, DispatchDrills, NextSlot, DrillsDispatched,
               OperatorCall, Resolve, FileMissing, ReplayPayload, LogReplay,
               LogReplayFailure, Measure, LogFailure
        <4>5. Go(w, "log_failure") /\ job' = job
          BY <1>1, <2>2, <4>4, EndsWork DEF LogDrill, GoesOn
        <4>6. QED BY <1>1, <4>3, <4>5 DEF Go
      <3>5. QED BY <2>2, <3>4 DEF GoesOn, WorkKept
    <2>3. QED BY <1>1, <1>6, <2>1, <2>2, WorkGoesOn
  <1>7. QED BY <1>4, <1>5, <1>6

\* A dispatch keeps its slots and what it lists.
LEMMA DispatcherStepKeeps ==
    ASSUME DrillTypeOK, NEW w \in DrillDispatchers, SlotsKept(w), DrillStep(w)
    PROVE  SlotsKept(w)' /\ ListIsTrue(w)'
  <1> USE DEF ListIsTrue
  <1>1. /\ w \in Drillers /\ at \in [Drillers -> DrillStages]
        /\ job \in [Drillers -> Job] /\ due \in [Drillers -> SUBSET DrillSlots]
        /\ listed \in [Drillers -> SUBSET DrillSlots]
    BY DEF Drillers, DrillTypeOK, Job
  <1>2. \A s \in DrillSlots : drills'[s] # drills[s] =>
            Scheduled(w) /\ s = job[w].slot
    BY <1>1, OnlyOwnRow
  <1>3. WorkKept(w)'
    BY DispatcherWorkKept DEF SlotsKept
  <1>4. CASE at[w] = "idle"
    <2>1. PICK D \in SUBSET DrillSlots : DispatchDrills(w, D)
      BY <1>4, SlotAssumption
         DEF DrillStep, DispatchDrills, NextSlot, DrillsDispatched, OperatorCall,
             Resolve, FileMissing, ReplayPayload, LogReplay, LogReplayFailure,
             Measure, LogDrill, LogFailure
    <2>2. listed'[w] = {} /\ job' = job
      BY <1>1, <2>1 DEF DispatchDrills
    <2>3. drills' = drills
      BY <2>1 DEF DispatchDrills, drillTables
    <2>4. QED BY <1>3, <1>4, <2>2, <2>3 DEF SlotsKept, WorkKept, Scheduled
  <1>5. CASE at[w] = "next"
    <2>1. ~Scheduled(w) /\ drills' = drills
      BY <1>5 DEF SlotsKept, WorkKept, DrillStep, DispatchDrills, NextSlot,
           DrillsDispatched, OperatorCall, Resolve, FileMissing, ReplayPayload,
           LogReplay, LogReplayFailure, Measure, LogDrill, LogFailure, drillTables
    <2>2. CASE job' = job /\ due'[w] \subseteq due[w] /\ listed' = listed
      BY <1>3, <1>5, <2>1, <2>2 DEF SlotsKept, Scheduled
    <2>3. CASE \E s \in DrillSlots : NextSlot(w, s) /\ ~Done(s) /\ job' # job
      <3>1. PICK s \in DrillSlots : NextSlot(w, s) /\ ~Done(s) /\ job' # job
        BY <2>3
      <3>2. /\ s \in due[w] /\ due'[w] = due[w] \ {s} /\ listed' = listed
            /\ at'[w] = "resolve"
            /\ job'[w] = [NoJob(ScopeOf[s]) EXCEPT
                             !.slot = s, !.exists = drills[s] # NoDrill]
        BY <1>1, <3>1 DEF NextSlot, Go
      <3>3. job'[w].slot = s
        BY <3>2 DEF NoJob
      <3>4. QED BY <1>3, <1>5, <2>1, <3>1, <3>2, <3>3 DEF SlotsKept, Scheduled
    <2>4. (\E s \in DrillSlots : NextSlot(w, s)) \/ DrillsDispatched(w)
      BY <1>5 DEF DrillStep, DispatchDrills, OperatorCall, Resolve, FileMissing,
           ReplayPayload, LogReplay, LogReplayFailure, Measure, LogDrill, LogFailure
    <2>5. QED BY <1>1, <2>2, <2>3, <2>4 DEF NextSlot, DrillsDispatched
  <1>6. CASE at[w] \notin {"idle", "next"}
    <2>1. CASE \E outcome : Ends(w, outcome)
      <3>1. PICK outcome : Ends(w, outcome)
        BY <2>1
      <3>2. /\ ~Scheduled(w)' /\ due'[w] = due[w]
            /\ listed'[w] \subseteq listed[w] \cup {job[w].slot}
            /\ listed'[w] # listed[w] => Scheduled(w)
        BY <1>1, <3>1, EndsWork
      <3>3. due'[w] \cap listed'[w] = {}
        <4>1. CASE Scheduled(w)
          BY <3>2, <4>1 DEF SlotsKept
        <4>2. CASE ~Scheduled(w)
          BY <3>2, <4>2 DEF SlotsKept
        <4>3. QED BY <4>1, <4>2
      <3>4. ASSUME NEW s \in listed'[w] PROVE drills'[s].status # "succeeded"
        <4>1. CASE s \in listed[w]
          BY <1>1, <1>2, <1>6, <4>1 DEF SlotsKept
        <4>2. CASE s \notin listed[w]
          BY <1>1, <1>6, <3>1, <3>2, <3>4, <4>2, ListedIsNotSucceeded
        <4>3. QED BY <4>1, <4>2
      <3>5. QED BY <1>3, <3>2, <3>3, <3>4 DEF SlotsKept
    <2>2. CASE GoesOn(w)
      <3>1. \A s \in listed'[w] : drills'[s].status # "succeeded"
        BY <1>1, <1>2, <2>2 DEF GoesOn, SlotsKept
      <3>2. QED BY <1>3, <2>2, <3>1 DEF GoesOn, SlotsKept, Scheduled
    <2>3. QED BY <1>1, <1>6, <2>1, <2>2, WorkGoesOn
  <1>7. QED BY <1>4, <1>5, <1>6

\* While no two dispatchers drill the same slot, every step keeps what each
\* works on, and the successes on record.
LEMMA WorkPreserved ==
    ASSUME DrillsApart, TypeOK, WorkInv, [Next]_vars
    PROVE  /\ WorkInv'
           /\ \A s \in DrillSlots : drills[s].status = "succeeded" =>
                                        drills'[s].status = "succeeded"
  <1>1. CASE UNCHANGED restoring
    BY <1>1 DEF restoring, drillTables, drilling, WorkInv, Unscheduled,
                WorkKept, Scheduled
  <1>2. ASSUME NEW w \in Drillers, DrillStep(w)
        PROVE  /\ WorkInv'
               /\ \A s \in DrillSlots : drills[s].status = "succeeded" =>
                                            drills'[s].status = "succeeded"
    <2>1. DrillTypeOK
      BY DEF TypeOK
    <2>2. \A v \in Drillers \ {w} : at'[v] = at[v] /\ job'[v] = job[v]
      BY <1>2, <2>1, DrillStepIsLocal
    <2>3. \A v \in Operators \ {w} : Unscheduled(v)'
      BY <2>2 DEF Drillers, WorkInv, Unscheduled, Scheduled
    <2>4. CASE w \in Operators
      <3>1. drills' = drills /\ Unscheduled(w)'
        BY <1>2, <2>1, <2>4, OperatorStepKeeps DEF WorkInv
      <3>2. ASSUME NEW v \in DrillDispatchers PROVE WorkKept(v)'
        <4>1. v \in Drillers \ {w}
          BY <2>4, SlotAssumption DEF Drillers
        <4>2. QED BY <2>2, <3>1, <4>1 DEF WorkInv, WorkKept, Scheduled
      <3>3. QED BY <2>3, <3>1, <3>2 DEF WorkInv
    <2>5. CASE w \in DrillDispatchers
      <3>1. /\ WorkKept(w)'
            /\ \A s \in DrillSlots : drills[s].status = "succeeded" =>
                                         drills'[s].status = "succeeded"
        BY <1>2, <2>1, <2>5, DispatcherWorkKept DEF WorkInv
      <3>2. ASSUME NEW v \in DrillDispatchers \ {w} PROVE WorkKept(v)'
        <4>1. at'[v] = at[v] /\ job'[v] = job[v] /\ WorkKept(v)
          BY <2>2 DEF Drillers, WorkInv
        <4>2. Scheduled(v) => drills'[job[v].slot] = drills[job[v].slot]
          <5>1. ASSUME Scheduled(v), drills'[job[v].slot] # drills[job[v].slot]
                PROVE  FALSE
            <6>1. Scheduled(w) /\ job[v].slot = job[w].slot
              BY <1>2, <2>1, <5>1, OnlyOwnRow DEF Scheduled
            <6>2. QED BY <2>5, <5>1, <6>1 DEF DrillsApart
          <5>2. QED BY <5>1
        <4>3. QED BY <4>1, <4>2 DEF WorkKept, Scheduled
      <3>3. w \notin Operators
        BY <2>5, SlotAssumption
      <3>4. QED BY <2>3, <3>1, <3>2, <3>3 DEF WorkInv
    <2>6. QED BY <2>4, <2>5 DEF Drillers
  <1>3. QED BY <1>1, <1>2 DEF Next, Ingest, Restore, vars

\* So they do throughout.
THEOREM WorkInvariant == Spec /\ []DrillsApart => []WorkInv
  <1>1. Init => WorkInv
    <2>1. Init => /\ at = [w \in Drillers |-> "idle"]
                  /\ \A w \in Drillers : ~Scheduled(w)
      <3> DEFINE c == CHOOSE s \in Scopes : TRUE
      <3>1. Init => job = [w \in Drillers |-> NoJob(c)]
        BY DEF Init, DrillInit
      <3> HIDE DEF c
      <3>2. Init => \A w \in Drillers : ~Scheduled(w)
        BY <3>1, SlotAssumption DEF NoJob, Scheduled
      <3>3. QED BY <3>2 DEF Init, DrillInit
    <2>2. QED BY <2>1 DEF WorkInv, WorkKept, Unscheduled, Drillers
  <1>2. DrillsApart /\ TypeOK /\ WorkInv /\ [Next]_vars => WorkInv'
    BY WorkPreserved
  <1>3. QED BY <1>1, <1>2, DataPlaneTypes, PTL DEF Spec

\* A slot whose drill succeeded stays on record as succeeded, whatever other
\* slots are drilled meanwhile.
THEOREM SucceededSlotsStay == Spec /\ []DrillsApart => SucceededSlotStays
  <1>1. DrillsApart /\ TypeOK /\ WorkInv /\ [Next]_vars =>
          [\A s \in DrillSlots :
              drills[s].status = "succeeded" =>
                  drills'[s].status = "succeeded"]_drills
    BY WorkPreserved
  <1>2. QED BY <1>1, DataPlaneTypes, WorkInvariant, PTL
            DEF Spec, SucceededSlotStays

\* While dispatches do not overlap, every step keeps their slots and what they
\* list.
LEMMA SlotsPreserved ==
    ASSUME DispatchesApart, TypeOK, SlotsInv, [Next]_vars
    PROVE  /\ SlotsInv'
           /\ \A w \in DrillDispatchers :
                 ListIsTrue(w)' \/ (at'[w] = at[w] /\ listed'[w] = listed[w])
           /\ OneDriller => \A w \in DrillDispatchers :
                                ListIsTrue(w) => ListIsTrue(w)'
  <1> USE DEF ListIsTrue
  <1>1. CASE UNCHANGED restoring
    BY <1>1 DEF restoring, drillTables, drilling, SlotsInv, Unscheduled,
                SlotsKept, WorkKept, Scheduled
  <1>2. ASSUME NEW w \in Operators, DrillStep(w), DrillTypeOK
        PROVE  /\ SlotsInv'
               /\ \A v \in DrillDispatchers :
                     /\ at'[v] = at[v] /\ listed'[v] = listed[v]
                     /\ ListIsTrue(v) => ListIsTrue(v)'
    <2>1. w \in Drillers /\ drills' = drills /\ Unscheduled(w)'
      BY <1>2, OperatorStepKeeps DEF SlotsInv, Drillers
    <2>2. \A v \in Drillers \ {w} :
              /\ at'[v] = at[v] /\ job'[v] = job[v]
              /\ due'[v] = due[v] /\ listed'[v] = listed[v]
      BY <1>2, <2>1, DrillStepIsLocal
    <2>3. \A v \in Operators \ {w} : Unscheduled(v)'
      BY <2>2 DEF Drillers, SlotsInv, Unscheduled, Scheduled
    <2>4. ASSUME NEW v \in DrillDispatchers
          PROVE  /\ SlotsKept(v)' /\ at'[v] = at[v] /\ listed'[v] = listed[v]
                 /\ ListIsTrue(v) => ListIsTrue(v)'
      <3>1. v \in Drillers \ {w}
        BY <1>2, SlotAssumption DEF Drillers
      <3>2. QED BY <2>1, <2>2, <3>1 DEF SlotsInv, SlotsKept, WorkKept, Scheduled
    <2>5. QED BY <2>1, <2>3, <2>4 DEF SlotsInv
  <1>3. ASSUME NEW w \in DrillDispatchers, DrillStep(w), DrillTypeOK
        PROVE  /\ SlotsInv' /\ ListIsTrue(w)'
               /\ \A v \in DrillDispatchers \ {w} :
                     at'[v] = at[v] /\ listed'[v] = listed[v]
    <2>1. w \in Drillers /\ SlotsKept(w)' /\ ListIsTrue(w)'
      BY <1>3, DispatcherStepKeeps DEF SlotsInv, Drillers
    <2>2. \A v \in Drillers \ {w} :
              /\ at'[v] = at[v] /\ job'[v] = job[v]
              /\ due'[v] = due[v] /\ listed'[v] = listed[v]
      BY <1>3, <2>1, DrillStepIsLocal
    <2>3. \A v \in Operators : Unscheduled(v)'
      <3>1. \A v \in Operators : v \in Drillers \ {w}
        BY <1>3, SlotAssumption DEF Drillers
      <3>2. QED BY <2>2, <3>1 DEF SlotsInv, Unscheduled, Scheduled
    <2>4. ASSUME NEW v \in DrillDispatchers \ {w} PROVE SlotsKept(v)'
      <3>1. /\ at'[v] = at[v] /\ job'[v] = job[v]
            /\ due'[v] = due[v] /\ listed'[v] = listed[v] /\ SlotsKept(v)
        BY <2>2 DEF Drillers, SlotsInv
      <3>2. CASE at[v] = "idle"
        BY <3>1, <3>2 DEF SlotsKept, WorkKept, Scheduled
      <3>3. CASE at[v] # "idle"
        <4>1. at[w] = "idle"
          BY <1>3, <3>3 DEF DispatchesApart
        <4>2. ~Scheduled(w)
          BY <1>3, <4>1 DEF SlotsInv, SlotsKept, WorkKept
        <4>3. \A s \in DrillSlots : drills'[s] = drills[s]
          BY <1>3, <2>1, <4>2, OnlyOwnRow
        <4>4. listed[v] \subseteq DrillSlots
          BY <1>3 DEF DrillTypeOK, Drillers
        <4>5. QED BY <3>1, <4>3, <4>4 DEF SlotsKept, WorkKept, Scheduled
      <3>4. QED BY <3>2, <3>3
    <2>5. \A v \in DrillDispatchers \ {w} :
              at'[v] = at[v] /\ listed'[v] = listed[v]
      BY <2>2 DEF Drillers
    <2>6. QED BY <2>1, <2>3, <2>4, <2>5 DEF SlotsInv
  <1>4. ASSUME NEW w \in Drillers, DrillStep(w)
        PROVE  /\ SlotsInv'
               /\ \A v \in DrillDispatchers :
                     ListIsTrue(v)' \/ (at'[v] = at[v] /\ listed'[v] = listed[v])
               /\ OneDriller => \A v \in DrillDispatchers :
                                    ListIsTrue(v) => ListIsTrue(v)'
    <2>1. DrillTypeOK
      BY DEF TypeOK
    <2> HIDE DEF ListIsTrue
    <2>2. CASE w \in Operators
      BY <1>2, <1>4, <2>1, <2>2
    <2>3. CASE w \in DrillDispatchers
      <3>1. OneDriller => \A v \in DrillDispatchers : v = w
        BY <2>3 DEF OneDriller
      <3>2. QED BY <1>3, <1>4, <2>1, <2>3, <3>1
    <2>4. QED BY <2>2, <2>3 DEF Drillers
  <1>5. QED BY <1>1, <1>4 DEF Next, Ingest, Restore, vars

\* So they do throughout.
THEOREM SlotsInvariant == Spec /\ []DispatchesApart => []SlotsInv
  <1>1. Init => SlotsInv
    <2>1. Init => /\ at = [w \in Drillers |-> "idle"]
                  /\ \A w \in Drillers : ~Scheduled(w)
                  /\ due = [w \in Drillers |-> {}]
                  /\ listed = [w \in Drillers |-> {}]
      <3> DEFINE c == CHOOSE s \in Scopes : TRUE
      <3>1. Init => job = [w \in Drillers |-> NoJob(c)]
        BY DEF Init, DrillInit
      <3> HIDE DEF c
      <3>2. Init => \A w \in Drillers : ~Scheduled(w)
        BY <3>1, SlotAssumption DEF NoJob, Scheduled
      <3>3. QED BY <3>2 DEF Init, DrillInit
    <2>2. QED BY <2>1 DEF SlotsInv, SlotsKept, WorkKept, Unscheduled, Drillers
  <1>2. DispatchesApart /\ TypeOK /\ SlotsInv /\ [Next]_vars => SlotsInv'
    BY SlotsPreserved
  <1>3. QED BY <1>1, <1>2, DataPlaneTypes, PTL DEF Spec

\* When a dispatch returns, no slot it lists as failed is on record as
\* succeeded.
ReportIsTrue ==
    [][\A w \in DrillDispatchers :
         at[w] # "idle" /\ at'[w] = "idle" =>
             \A s \in listed'[w] : drills'[s].status # "succeeded"]_vars

\* So it is for any number of dispatchers whose dispatches do not overlap,
\* whichever of the saves failed and whatever operators drill meanwhile.
THEOREM ReportsAreTrue == Spec /\ []DispatchesApart => ReportIsTrue
  <1>1. DispatchesApart /\ TypeOK /\ SlotsInv /\ [Next]_vars =>
          [\A w \in DrillDispatchers :
              at[w] # "idle" /\ at'[w] = "idle" =>
                  \A s \in listed'[w] : drills'[s].status # "succeeded"]_vars
    BY SlotsPreserved DEF ListIsTrue
  <1>2. QED BY <1>1, DataPlaneTypes, SlotsInvariant, PTL DEF Spec, ReportIsTrue

\* With one dispatcher the list stays true until its next dispatch: what it
\* reported as failed it will drill again.
THEOREM FailedSlotsAreRetried ==
    ASSUME OneDriller PROVE Spec => []FailedSlotIsRetried
  <1> DEFINE ListsAreTrue == \A w \in DrillDispatchers : ListIsTrue(w)
  <1>1. Init => ListsAreTrue
    BY DEF Init, DrillInit, ListIsTrue, Drillers
  <1>2. DispatchesApart
    BY DEF OneDriller, DispatchesApart
  <1>3. /\ DispatchesApart /\ TypeOK /\ SlotsInv /\ ListsAreTrue /\ [Next]_vars
        => ListsAreTrue'
    BY SlotsPreserved
  <1>4. ListsAreTrue => FailedSlotIsRetried
    BY DEF ListIsTrue, FailedSlotIsRetried
  <1>5. QED
    BY <1>1, <1>2, <1>3, <1>4, DataPlaneTypes, SlotsInvariant, PTL DEF Spec

=============================================================================
