------------------------ MODULE ScheduledIngestion ------------------------
(***************************************************************************)
(* The scheduled ingestion of the watchlist for one date:                  *)
(* dispatch_due_scheduled_ingestions, run by                               *)
(* scripts/dispatch_scheduled_ingestions.py or an API thread, and the      *)
(* ingest_symbol pipeline it calls.  Every dispatch retries the entries    *)
(* that have not succeeded, up to MaxAttempts times each.  Entries are     *)
(* taken in any order.                                                     *)
(*                                                                         *)
(* Every stage is one database transaction.  An exception inside the       *)
(* pipeline fails the attempt; one in the run and attempt tables is not    *)
(* caught and ends the dispatch.                                           *)
(***************************************************************************)
EXTENDS RawIngest

CONSTANTS
    Dispatchers,  \* processes and threads that dispatch
    MaxAttempts   \* MAX_SCHEDULED_INGESTION_ATTEMPTS

ASSUME AttemptAssumption == MaxAttempts \in Nat \ {0}

VARIABLES
    runs,      \* scheduled_ingestion_runs, by watchlist entry
    attempts,  \* scheduled_ingestion_attempts, by entry and attempt number
    stage,     \* where each dispatcher is
    todo,      \* entries its dispatch has still to look at
    task       \* the attempt it is making

scheduling == <<runs, attempts>>
dispatch   == <<stage, todo, task>>

IngestStages == {"idle", "look", "backfill", "load_backfill", "daily",
                 "load_daily", "minutes", "save_run", "save_attempt", "reload"}

NoRun     == [status |-> "absent", count |-> 0]
NoAttempt == [status |-> "absent", raw |-> "none"]
NoTask(s) == [entry |-> s, existing |-> NoRun, backfill |-> "none",
              daily |-> "none", error |-> FALSE]

IngestInit ==
    /\ runs = [s \in Scopes |-> NoRun]
    /\ attempts = [s \in Scopes |-> [n \in 1..MaxAttempts |-> NoAttempt]]
    /\ stage = [d \in Dispatchers |-> "idle"]
    /\ todo = [d \in Dispatchers |-> {}]
    /\ task = [d \in Dispatchers |-> NoTask(CHOOSE s \in Scopes : TRUE)]

IngestTypeOK ==
    /\ runs \in [Scopes -> [status : {"absent", "failed", "succeeded"},
                            count : 0..MaxAttempts]]
    /\ attempts \in [Scopes -> [1..MaxAttempts ->
                        [status : {"absent", "failed", "succeeded"},
                         raw : Replayable \cup {"none"}]]]
    /\ stage \in [Dispatchers -> IngestStages]
    /\ todo \in [Dispatchers -> SUBSET Scopes]
    /\ task \in [Dispatchers ->
                    [entry : Scopes,
                     existing : [status : {"absent", "failed"},
                                 count : 0..(MaxAttempts - 1)],
                     backfill : {"none", "yfinance"}, daily : {"none", "twse"},
                     error : BOOLEAN]]

----------------------------------------------------------------------------
At(d, here) == stage[d] = here

To(d, there) == stage' = [stage EXCEPT ![d] = there]

\* The exception leaves dispatch_due_scheduled_ingestions: the entries not yet
\* looked at wait for the next dispatch.
Aborts(d) ==
    /\ To(d, "idle")
    /\ todo' = [todo EXCEPT ![d] = {}]
    /\ task' = [task EXCEPT ![d] = NoTask(task[d].entry)]

Dispatch(d) ==
    /\ At(d, "idle")
    /\ todo' = [todo EXCEPT ![d] = Scopes]
    /\ To(d, "look")
    /\ UNCHANGED <<audit, bars, faults, scheduling, task>>

\* Fault: an entry that succeeded is ingested again.
BelowCeiling(run) == run.count < MaxAttempts

\* Fault: one attempt too many.
AtCeiling(run) == run.status # "succeeded" /\ run.count <= MaxAttempts

\* What the dispatch loop asks of an existing run.
Due(run) == run.status # "succeeded" /\ run.count < MaxAttempts

\* One turn of the loop: skip the entry, or begin an attempt.
Look(d, s) ==
    /\ At(d, "look") /\ s \in todo[d]
    /\ \/ /\ ~Due(runs[s])
          /\ todo' = [todo EXCEPT ![d] = todo[d] \ {s}]
          /\ UNCHANGED <<faults, stage, task>>
       \/ /\ Due(runs[s])
          /\ todo' = [todo EXCEPT ![d] = todo[d] \ {s}]
          /\ task' = [task EXCEPT ![d] = [NoTask(s) EXCEPT !.existing = runs[s]]]
          /\ To(d, "backfill")
          /\ UNCHANGED faults
       \/ Fault /\ Aborts(d)
    /\ UNCHANGED <<audit, bars, scheduling>>

Dispatched(d) ==
    /\ At(d, "look") /\ todo[d] = {}
    /\ To(d, "idle")
    /\ UNCHANGED <<audit, bars, faults, scheduling, todo, task>>

----------------------------------------------------------------------------
(* ingest_symbol                                                           *)

\* An exception in the pipeline is caught by _run_watchlist_attempt.
Raises(d) ==
    /\ To(d, "save_run")
    /\ task' = [task EXCEPT ![d] = [task[d] EXCEPT !.error = TRUE]]

\* backfill_history: nothing fetched, or a payload recorded and then parsed.
Backfill(d) ==
    /\ At(d, "backfill")
    /\ LET s == task[d].entry
       IN \/ To(d, "daily") /\ UNCHANGED <<audit, faults, task>>
          \/ /\ Recorded(s, "yfinance")
             /\ task' = [task EXCEPT ![d] = [task[d] EXCEPT
                                                !.backfill = "yfinance"]]
             /\ To(d, "load_backfill")
             /\ UNCHANGED faults
          \/ Recorded(s, "yfinance") /\ Raises(d) /\ UNCHANGED faults
          \/ Fault /\ (Recorded(s, "yfinance") \/ UNCHANGED audit) /\ Raises(d)
    /\ UNCHANGED <<bars, scheduling, todo>>

LoadBackfill(d) ==
    /\ At(d, "load_backfill")
    /\ Loaded(task[d].entry, "yfinance")
    /\ \/ To(d, "daily") /\ UNCHANGED <<faults, task>>
       \/ Fault /\ Raises(d)
    /\ UNCHANGED <<audit, scheduling, todo>>

\* scrape_daily_twse: a payload that is rejected is recorded all the same, and
\* yields no metadata.
Daily(d) ==
    /\ At(d, "daily")
    /\ LET s == task[d].entry
       IN \/ /\ Recorded(s, "twse_rejected") \/ UNCHANGED audit
             /\ To(d, "minutes")
             /\ UNCHANGED <<faults, task>>
          \/ /\ Recorded(s, "twse")
             /\ task' = [task EXCEPT ![d] = [task[d] EXCEPT !.daily = "twse"]]
             /\ To(d, "load_daily")
             /\ UNCHANGED faults
          \/ /\ Fault
             /\ Recorded(s, "twse") \/ UNCHANGED audit
             /\ Raises(d)
    /\ UNCHANGED <<bars, scheduling, todo>>

LoadDaily(d) ==
    /\ At(d, "load_daily")
    /\ Loaded(task[d].entry, "twse")
    /\ \/ To(d, "minutes") /\ UNCHANGED <<faults, task>>
       \/ Fault /\ Raises(d)
    /\ UNCHANGED <<audit, scheduling, todo>>

\* supplement_yahoo_minute_history: skipped without a recent daily bar;
\* otherwise minute payloads are recorded under the same symbol.  The minute
\* bars themselves are read by no operation of this module.
Minutes(d) ==
    /\ At(d, "minutes")
    /\ LET s == task[d].entry
           fetched == bars[s] # "none" /\ Recorded(s, "minute")
       IN /\ fetched \/ UNCHANGED audit
          /\ \/ To(d, "save_run") /\ UNCHANGED <<faults, task>>
             \/ Fault /\ Raises(d)
    /\ UNCHANGED <<bars, scheduling, todo>>

----------------------------------------------------------------------------
(* _run_watchlist_attempt, after the pipeline                              *)

\* raw_payload_id: the daily update's, else the backfill's
RawOf(d) ==
    IF task[d].error THEN "none"
    ELSE IF task[d].daily # "none" THEN task[d].daily ELSE task[d].backfill

\* Fault: a pipeline that raised nothing succeeded, payload or not.
NoError(d) == IF task[d].error THEN "failed" ELSE "succeeded"

StatusFor(d) == IF RawOf(d) # "none" THEN "succeeded" ELSE "failed"

NumberOf(d) == task[d].existing.count + 1

\* persist_scheduled_ingestion_run: an update by id or, when the entry had no
\* run, an insert that the unique (watchlist_id, scheduled_for_date) may refuse.
SaveRun(d) ==
    /\ At(d, "save_run")
    /\ LET s == task[d].entry
           row == [status |-> StatusFor(d), count |-> NumberOf(d)]
           refused == task[d].existing = NoRun /\ runs[s] # NoRun
           saved == ~refused /\ runs' = [runs EXCEPT ![s] = row]
       IN \/ saved /\ To(d, "save_attempt") /\ UNCHANGED <<faults, todo, task>>
          \/ refused /\ UNCHANGED <<runs, faults>> /\ Aborts(d)
          \/ Fault /\ (saved \/ UNCHANGED runs) /\ Aborts(d)
    /\ UNCHANGED <<audit, bars, attempts>>

\* Fault: the number is taken from the attempts already recorded.
NextNumber(d) ==
    LET s == task[d].entry
        used == {n \in 1..MaxAttempts : attempts[s][n] # NoAttempt}
    IN CHOOSE n \in 1..MaxAttempts : n \notin used /\ 1..(n - 1) \subseteq used

AttemptNumber(d) == NumberOf(d)

\* persist_scheduled_ingestion_attempt: always an insert, unique in
\* (run_id, attempt_number)
SaveAttempt(d) ==
    /\ At(d, "save_attempt")
    /\ LET s == task[d].entry
           n == AttemptNumber(d)
           refused == attempts[s][n] # NoAttempt
           row == [status |-> StatusFor(d), raw |-> RawOf(d)]
           saved == /\ ~refused
                    /\ attempts' = [attempts EXCEPT ![s] =
                                       [attempts[s] EXCEPT ![n] = row]]
       IN \/ saved /\ To(d, "reload") /\ UNCHANGED <<faults, todo, task>>
          \/ refused /\ UNCHANGED <<attempts, faults>> /\ Aborts(d)
          \/ Fault /\ (saved \/ UNCHANGED attempts) /\ Aborts(d)
    /\ UNCHANGED <<audit, bars, runs>>

\* get_scheduled_ingestion_run, for the report
Reload(d) ==
    /\ At(d, "reload")
    /\ \/ /\ To(d, "look")
          /\ task' = [task EXCEPT ![d] = NoTask(task[d].entry)]
          /\ UNCHANGED <<faults, todo>>
       \/ Fault /\ Aborts(d)
    /\ UNCHANGED <<audit, bars, scheduling>>

\* The process is killed between two transactions.
DispatcherDies(d) ==
    /\ ~At(d, "idle")
    /\ Fault
    /\ Aborts(d)
    /\ UNCHANGED <<audit, bars, scheduling>>

IngestStep(d) ==
    \/ Dispatch(d)
    \/ \E s \in Scopes : Look(d, s)
    \/ Dispatched(d)
    \/ Backfill(d)
    \/ LoadBackfill(d)
    \/ Daily(d)
    \/ LoadDaily(d)
    \/ Minutes(d)
    \/ SaveRun(d)
    \/ SaveAttempt(d)
    \/ Reload(d)
    \/ DispatcherDies(d)

----------------------------------------------------------------------------
(* Properties, for one dispatcher at a time.                               *)

\* The attempts of an entry tell the same story as its run: no attempt is
\* recorded beyond the run's count, only the last can have succeeded, and the
\* last has the run's status - although the two tables are written in separate
\* transactions and an attempt row may be missing.
AttemptsMatchRun ==
    \A s \in Scopes, n \in 1..MaxAttempts :
        attempts[s][n] # NoAttempt =>
            /\ n <= runs[s].count
            /\ n = runs[s].count => attempts[s][n].status = runs[s].status
            /\ n < runs[s].count => attempts[s][n].status = "failed"

\* An entry that succeeded for its date is not ingested again.
SucceededRunIsFinal ==
    [][\A s \in Scopes :
         runs[s].status = "succeeded" => runs'[s] = runs[s]]_runs

\* An entry reported as succeeded left a payload that can be replayed: the
\* recovery drill of its symbol has something to restore.
SucceededRunIsReplayable ==
    \A s \in Scopes :
        runs[s].status = "succeeded" => audit[s].seen \cap Replayable # {}

=============================================================================
