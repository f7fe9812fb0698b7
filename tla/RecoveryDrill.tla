--------------------------- MODULE RecoveryDrill ---------------------------
(***************************************************************************)
(* Replays of raw payloads and recovery drills:                            *)
(*  - dispatch_due_recovery_drills, which works through the due slots      *)
(*    (schedule and slot date) that have no successful drill yet;          *)
(*  - create_recovery_drill, a drill an operator asks for;                 *)
(*  - replay_raw_payload, on its own or as the first half of a drill.      *)
(*                                                                         *)
(* Every stage is one database transaction; a storage failure may hit it   *)
(* before the commit or, in the refresh that follows, after it.  A row is  *)
(* reduced to what its readers decide on.  Which slots are due depends on  *)
(* the reference time a dispatch is given: any subset.  Due slots are      *)
(* taken in any order.                                                     *)
(***************************************************************************)
EXTENDS RawIngest

CONSTANTS
    DrillDispatchers,  \* processes and threads that dispatch due drills
    Operators,         \* threads serving manual drills and replays
    DrillSlots,        \* recovery schedules with a slot date
    ScopeOf            \* the symbol a slot's schedule is for

Drillers == DrillDispatchers \cup Operators

ASSUME SlotAssumption ==
    /\ ScopeOf \in [DrillSlots -> Scopes]
    /\ {"drill", "replay"} \cap DrillSlots = {}
    /\ DrillDispatchers \cap Operators = {}

VARIABLES
    drills,   \* the recovery_drills rows of slots: at most one per slot
    manual,   \* the rows of manual drills, none of which is ever updated
    replays,  \* normalized_replay_runs
    at,       \* where each worker is
    job,      \* the drill or replay it is working on
    due,      \* slots its dispatch has still to look at
    listed    \* slots its dispatch lists as failed

drillTables == <<drills, manual, replays>>
drilling    == <<at, job, due, listed>>

DrillStages == {"idle", "next", "resolve", "file_missing", "replay",
                "log_replay", "log_replay_failure", "measure", "log_drill",
                "log_failure"}

NoReplay == [raw |-> "none", status |-> "absent", aborted |-> FALSE]
NoDrill  == [status |-> "absent", raw |-> "none", replay |-> NoReplay,
             aborted |-> FALSE]

\* What a worker holds: the slot ("drill" for a manual drill, "replay" for a
\* bare replay), whether the slot already has a row, and the payload it builds.
NoJob(scope) == [slot |-> "replay", scope |-> scope, exists |-> FALSE,
                 raw |-> "none", restore |-> "failed", status |-> "failed",
                 replay |-> NoReplay]

DrillInit ==
    /\ drills = [s \in DrillSlots |-> NoDrill]
    /\ manual = {}
    /\ replays = {}
    /\ at = [w \in Drillers |-> "idle"]
    /\ job = [w \in Drillers |-> NoJob(CHOOSE s \in Scopes : TRUE)]
    /\ due = [w \in Drillers |-> {}]
    /\ listed = [w \in Drillers |-> {}]

Raws     == Kinds \cup {"none"}
Outcomes == {"succeeded", "failed"}
Replay   == [raw : Raws, status : Outcomes \cup {"absent"}, aborted : BOOLEAN]
Drill    == [status : Outcomes \cup {"absent"}, raw : Raws, replay : Replay,
             aborted : BOOLEAN]

DrillTypeOK ==
    /\ drills \in [DrillSlots -> Drill]
    /\ manual \subseteq Drill
    /\ replays \subseteq Replay
    /\ at \in [Drillers -> DrillStages]
    /\ job \in [Drillers -> [slot : DrillSlots \cup {"drill", "replay"},
                             scope : Scopes, exists : BOOLEAN, raw : Raws,
                             restore : Outcomes, status : Outcomes,
                             replay : Replay]]
    /\ due \in [Drillers -> SUBSET DrillSlots]
    /\ listed \in [Drillers -> SUBSET DrillSlots]

----------------------------------------------------------------------------
Scheduled(w) == job[w].slot \in DrillSlots

Go(w, there) == at' = [at EXCEPT ![w] = there]

\* The work on one slot, drill or replay is over: a dispatch goes on with its
\* next slot, an operator's call returns or raises.
Ends(w, outcome) ==
    /\ Go(w, IF Scheduled(w) THEN "next" ELSE "idle")
    /\ job' = [job EXCEPT ![w] = NoJob(job[w].scope)]
    /\ listed' = IF Scheduled(w) /\ outcome = "failed"
                 THEN [listed EXCEPT ![w] = listed[w] \cup {job[w].slot}]
                 ELSE listed
    /\ UNCHANGED due

\* The row a drill persists, with an abort_reason or without.
RowOf(w, aborted) ==
    [status |-> job[w].status, raw |-> job[w].raw, replay |-> job[w].replay,
     aborted |-> aborted]

\* An insert the unique (schedule_id, scheduled_for_date) refuses.
Duplicate(w) ==
    /\ Scheduled(w)
    /\ ~job[w].exists
    /\ drills[job[w].slot] # NoDrill

\* persist_recovery_record: an update by id, an insert, or, for a slot that got
\* a row in the meantime, nothing.
Persisted(w, row) ==
    CASE Duplicate(w) -> UNCHANGED <<drills, manual>>
      [] Scheduled(w) /\ ~Duplicate(w) ->
            /\ drills' = [drills EXCEPT ![job[w].slot] = row]
            /\ UNCHANGED manual
      [] OTHER -> manual' = manual \cup {row} /\ UNCHANGED drills

\* The record it returns.
Returned(w, row) == IF Duplicate(w) THEN drills[job[w].slot] ELSE row

----------------------------------------------------------------------------
(* Callers.                                                                *)

DispatchDrills(w, D) ==
    /\ w \in DrillDispatchers /\ at[w] = "idle"
    /\ due' = [due EXCEPT ![w] = D]
    /\ listed' = [listed EXCEPT ![w] = {}]
    /\ Go(w, "next")
    /\ UNCHANGED <<audit, bars, faults, drillTables, job>>

\* Fault: a slot that was drilled is drilled again.
NeverDone(s) == FALSE

Done(s) == drills[s].status = "succeeded"

\* One turn of the loop: skip the slot, or begin its drill.  An exception while
\* it is looked up is noted and the dispatch goes on.
NextSlot(w, s) ==
    /\ at[w] = "next" /\ s \in due[w]
    /\ \/ /\ Done(s)
          /\ due' = [due EXCEPT ![w] = due[w] \ {s}]
          /\ UNCHANGED <<faults, at, job>>
       \/ /\ ~Done(s)
          /\ due' = [due EXCEPT ![w] = due[w] \ {s}]
          /\ job' = [job EXCEPT ![w] =
                       [NoJob(ScopeOf[s]) EXCEPT
                           !.slot = s, !.exists = drills[s] # NoDrill]]
          /\ Go(w, "resolve")
          /\ UNCHANGED faults
       \/ /\ Fault
          /\ due' = [due EXCEPT ![w] = due[w] \ {s}]
          /\ UNCHANGED <<at, job>>
    /\ UNCHANGED <<audit, bars, drillTables, listed>>

DrillsDispatched(w) ==
    /\ at[w] = "next" /\ due[w] = {}
    /\ Go(w, "idle")
    /\ UNCHANGED <<audit, bars, faults, drillTables, job, due, listed>>

\* create_recovery_drill and the replay endpoint: of a given payload, or, for a
\* drill, of the latest one.
OperatorCall(w, s, slot, raw) ==
    /\ w \in Operators /\ at[w] = "idle"
    /\ raw \in audit[s].seen
    /\ job' = [job EXCEPT ![w] = [NoJob(s) EXCEPT !.slot = slot, !.raw = raw]]
    /\ Go(w, "replay")
    /\ UNCHANGED <<audit, bars, faults, drillTables, due, listed>>

\* get_latest_successful_raw_ingest_for_scope
Resolve(w) ==
    /\ at[w] = "resolve"
    /\ LET raw == audit[job[w].scope].latest
       IN \/ /\ raw # "none"
             /\ job' = [job EXCEPT ![w] = [job[w] EXCEPT !.raw = raw]]
             /\ Go(w, "replay")
             /\ UNCHANGED <<faults, due, listed>>
          \/ /\ raw = "none"
             /\ Go(w, "file_missing")
             /\ UNCHANGED <<faults, job, due, listed>>
          \/ Fault /\ Ends(w, "error")
    /\ UNCHANGED <<audit, bars, drillTables>>

\* The DataNotFoundError branch of the dispatch: a failed drill is filed, or
\* the slot drops out of the report.
FileMissing(w) ==
    /\ at[w] = "file_missing"
    /\ LET row == RowOf(w, TRUE)
       IN \/ /\ Persisted(w, row)
             /\ Ends(w, Returned(w, row).status)
             /\ UNCHANGED faults
          \/ /\ Fault
             /\ Persisted(w, row) \/ UNCHANGED <<drills, manual>>
             /\ Ends(w, "dropped")
    /\ UNCHANGED <<audit, bars, replays>>

----------------------------------------------------------------------------
(* replay_raw_payload                                                      *)

\* The replay raised: a drill records its failure, a bare replay ends.
ReplayRaises(w) ==
    IF job[w].slot = "replay" THEN Ends(w, "failed")
    ELSE Go(w, "log_failure") /\ UNCHANGED <<job, due, listed>>

\* The payload is read, parsed and loaded into daily_ohlcv.
ReplayPayload(w) ==
    /\ at[w] = "replay"
    /\ LET raw == job[w].raw
       IN \/ /\ raw \in Replayable
             /\ Loaded(job[w].scope, raw)
             /\ job' = [job EXCEPT ![w] = [job[w] EXCEPT
                                              !.restore = "succeeded"]]
             /\ Go(w, "log_replay")
             /\ UNCHANGED <<faults, due, listed>>
          \/ /\ raw \notin Replayable
             /\ Go(w, "log_replay_failure")
             /\ UNCHANGED <<bars, faults, job, due, listed>>
          \/ /\ Fault
             /\ raw \in Replayable
             /\ Loaded(job[w].scope, raw)
             /\ Go(w, "log_replay_failure")
             /\ UNCHANGED <<job, due, listed>>
          \/ Fault /\ ReplayRaises(w) /\ UNCHANGED bars
    /\ UNCHANGED <<audit, drillTables>>

ReplayRow(w, aborted) ==
    [raw |-> job[w].raw, status |-> job[w].restore, aborted |-> aborted]

LogReplay(w) ==
    /\ at[w] = "log_replay"
    /\ LET row == ReplayRow(w, FALSE)
           logged == replays' = replays \cup {row}
       IN \/ /\ logged
             /\ IF job[w].slot = "replay" THEN Ends(w, "succeeded")
                ELSE /\ job' = [job EXCEPT ![w] = [job[w] EXCEPT !.replay = row]]
                     /\ Go(w, "measure")
                     /\ UNCHANGED <<due, listed>>
             /\ UNCHANGED faults
          \/ /\ Fault
             /\ logged \/ UNCHANGED replays
             /\ Go(w, "log_replay_failure")
             /\ UNCHANGED <<job, due, listed>>
    /\ UNCHANGED <<audit, bars, drills, manual>>

\* Fault: the failed replay is returned to the drill like any other.
ReturnsFailure(w) ==
    IF job[w].slot = "replay" THEN Ends(w, "failed")
    ELSE /\ job' = [job EXCEPT ![w] = [job[w] EXCEPT
                                         !.replay = ReplayRow(w, TRUE)]]
         /\ Go(w, "measure")
         /\ UNCHANGED <<due, listed>>

AfterReplayFailure(w) == ReplayRaises(w)

\* The failed replay is filed if storage lets it, and the exception goes on.
LogReplayFailure(w) ==
    /\ at[w] = "log_replay_failure"
    /\ LET logged == replays' = replays \cup {ReplayRow(w, TRUE)}
       IN \/ logged /\ UNCHANGED faults
          \/ Fault /\ (logged \/ UNCHANGED replays)
    /\ AfterReplayFailure(w)
    /\ UNCHANGED <<audit, bars, drills, manual>>

----------------------------------------------------------------------------
(* _execute_recovery_drill, after the replay                               *)

\* The status is set, then get_completed_trading_day_delta reads the bars; an
\* empty frame has no latest day and skips the read.
Measure(w) ==
    /\ at[w] = "measure"
    /\ job' = [job EXCEPT ![w] = [job[w] EXCEPT !.status = "succeeded"]]
    /\ \/ Go(w, "log_drill") /\ UNCHANGED faults
       \/ Fault /\ Go(w, "log_failure")
    /\ UNCHANGED <<audit, bars, drillTables, due, listed>>

LogDrill(w) ==
    /\ at[w] = "log_drill"
    /\ LET row == RowOf(w, FALSE)
       IN \/ /\ Persisted(w, row)
             /\ Ends(w, Returned(w, row).status)
             /\ UNCHANGED faults
          \/ /\ Fault
             /\ Persisted(w, row) \/ UNCHANGED <<drills, manual>>
             /\ Go(w, "log_failure")
             /\ UNCHANGED <<job, due, listed>>
    /\ UNCHANGED <<audit, bars, replays>>

\* Fault: whatever the table holds, an exception is reported as a failure.
AlwaysFailed(w, row) == "failed"

\* The status of the record the dispatch lists: the persisted one.
Listed(w, row) == Returned(w, row).status

\* _persist_recovery_failure; when that fails too, the dispatch lists the
\* payload as it stands in memory.
LogFailure(w) ==
    /\ at[w] = "log_failure"
    /\ LET row == RowOf(w, TRUE)
       IN \/ /\ Persisted(w, row)
             /\ Ends(w, Listed(w, row))
             /\ UNCHANGED faults
          \/ /\ Fault
             /\ Persisted(w, row) \/ UNCHANGED <<drills, manual>>
             /\ Ends(w, job[w].status)
    /\ UNCHANGED <<audit, bars, replays>>

DrillStep(w) ==
    \/ \E D \in SUBSET DrillSlots : DispatchDrills(w, D)
    \/ \E s \in DrillSlots : NextSlot(w, s)
    \/ DrillsDispatched(w)
    \/ \E s \in Scopes, slot \in {"drill", "replay"}, raw \in Kinds :
          OperatorCall(w, s, slot, raw)
    \/ Resolve(w)
    \/ FileMissing(w)
    \/ ReplayPayload(w)
    \/ LogReplay(w)
    \/ LogReplayFailure(w)
    \/ Measure(w)
    \/ LogDrill(w)
    \/ LogFailure(w)

----------------------------------------------------------------------------
(* Properties.                                                             *)

\* The payload was replayed, and the replay is on record without an abort
\* reason.
Restored(row) ==
    /\ row.raw \in Replayable
    /\ row.replay = [raw |-> row.raw, status |-> "succeeded", aborted |-> FALSE]
    /\ row.replay \in replays

\* A drill marked succeeded did restore the payload it names - whichever of the
\* later steps failed, and however many workers drill at once.
SucceededDrillRestored ==
    \A row \in {drills[s] : s \in DrillSlots} \cup manual :
        row.status = "succeeded" => Restored(row)

\* Why: the status is set only after the replay was logged, and the payload a
\* worker holds does not change from the replay on.
HeldRestored(w) ==
    /\ job[w].status = "succeeded" =>
          at[w] \in {"log_drill", "log_failure"} /\ Restored(job[w])
    /\ at[w] = "log_replay" =>
          job[w].restore = "succeeded" /\ job[w].raw \in Replayable
    /\ at[w] = "measure" => Restored(job[w])

RestoredInv == SucceededDrillRestored /\ \A w \in Drillers : HeldRestored(w)

\* With one dispatcher, a slot whose drill succeeded never loses that status.
SucceededSlotStays ==
    [][\A s \in DrillSlots :
         drills[s].status = "succeeded" =>
             drills'[s].status = "succeeded"]_drills

\* A slot the dispatch lists as failed is not on record as succeeded, so the
\* next dispatch drills it again.
FailedSlotIsRetried ==
    \A w \in DrillDispatchers, s \in DrillSlots :
        at[w] = "idle" /\ s \in listed[w] => drills[s].status # "succeeded"

\* A drill that was aborted is on record as failed: the record a failed drill
\* returns has status "failed".
AbortedDrillIsFailed ==
    \A row \in {drills[s] : s \in DrillSlots} \cup manual :
        row.aborted => row.status = "failed"

\* "No replayable raw payload is available": the lookup looks for a payload that
\* can be replayed, and takes one whenever the scope has one.
ResolvesReplayable ==
    [][\A w \in Drillers :
         at[w] = "resolve" /\ at'[w] = "replay"
           /\ audit[job[w].scope].seen \cap Replayable # {} =>
               job'[w].raw \in Replayable]_<<at, job>>

=============================================================================
