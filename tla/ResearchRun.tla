---------------------------- MODULE ResearchRun ----------------------------
(***************************************************************************)
(* The life of a research run: create_research_run and the registry row it *)
(* upserts, reached by two kinds of caller.                                *)
(*                                                                         *)
(*  - a script process (scripts/run_tw_prospective_cohorts.py) works on    *)
(*    one strict cohort slot and derives the run id from it, so every      *)
(*    invocation for a slot writes the same row;                           *)
(*  - an API thread (POST /api/v1/research/runs) draws a fresh uuid4.      *)
(*                                                                         *)
(* Each repository call opens its own database session, so a call is one   *)
(* atomic step and other workers run between any two of them.  A storage   *)
(* failure may hit any step: before the commit (nothing is written) or     *)
(* after it (session.refresh runs after session.commit), and both look the *)
(* same to the caller.                                                     *)
(***************************************************************************)
EXTENDS Integers

CONSTANTS
    Scripts,     \* processes running the cohort script
    Threads,     \* request threads of the API server
    Slots,       \* strict slots: a cohort id with a basis date
    AllActive,   \* the slots whose universe is the active-profile snapshot
    BasisDay,    \* the Taiwan date each slot is a forecast for
    PostIds,     \* the uuid4 values API requests draw
    Regular,     \* stands for "no prospective_evidence"
    Universes,   \* values of the active-symbol snapshot
    MaxTick,     \* bound on the clock
    DayOf,       \* Taiwan date of each instant
    MaxFaults,   \* bound on storage failures
    MaxCrashes   \* bound on killed processes

Workers == Scripts \cup Threads
Ticks   == 1..MaxTick
Never   == 0

ASSUME TimeAssumption ==
    /\ MaxTick \in Nat \ {0}
    /\ DayOf \in [Ticks -> Nat]
    /\ BasisDay \in [Slots -> Nat]
    /\ \A t, u \in Ticks : t <= u => DayOf[t] <= DayOf[u]

\* prospective_run_id is a uuid5 of the slot: the slot serves as that id, and
\* no uuid4 equals it.
ASSUME NameAssumption ==
    /\ PostIds \cap Slots = {}
    /\ Regular \notin Slots \cup PostIds
    /\ AllActive \subseteq Slots

ASSUME BoundAssumption == MaxFaults \in Nat /\ MaxCrashes \in Nat

\* A process running the script is not a thread of the server.
ASSUME WorkerAssumption == Scripts \cap Threads = {}

RunIds == PostIds \cup Slots

VARIABLES
    rows,      \* the research_runs table
    issued,    \* uuid4 values already drawn
    universe,  \* list_active_tw_research_symbols at this moment
    now,       \* the clock
    pc,        \* where each worker is
    call,      \* run id and request a worker works for, kept after it replies
    signals,   \* forward signals of the run a worker executes
    frozenAt,  \* signal_frozen_at a worker is about to persist
    verdict,   \* which except branch of create_research_run a worker is in
    reply,     \* what the worker's last caller was told
    faults, crashes

table    == <<rows, issued>>
world    == <<universe, now>>
progress == <<signals, frozenAt, verdict>>
budget   == <<faults, crashes>>
vars     == <<table, world, pc, call, progress, reply, budget>>

Statuses == {"absent", "running", "succeeded", "rejected", "failed",
             "validation_failed"}
Stages   == {"idle", "preflight", "universe", "duplicate", "start", "execute",
             "freeze", "success", "record", "handler"}

NoSignals == [computed |-> Never, complete |-> FALSE]
NoRow     == [status |-> "absent", slot |-> Regular, covered |-> FALSE,
              frozen |-> Never, computed |-> Never, complete |-> FALSE]

----------------------------------------------------------------------------
(* The registry and its readers.                                           *)

\* Fault: the row keeps the timestamp of the run it replaces.
KeepsTimestamp(status, w) ==
    [status |-> status, slot |-> call[w].slot, covered |-> call[w].covered,
     frozen |-> rows[call[w].runId].frozen, computed |-> Never,
     complete |-> FALSE]

\* The row record_started and the failure recorders build from the request:
\* no signals, and a request payload that never holds signal_frozen_at.
BareRow(status, w) ==
    [status |-> status, slot |-> call[w].slot, covered |-> call[w].covered,
     frozen |-> Never, computed |-> Never, complete |-> FALSE]

\* The row record_success builds.
SuccessRow(w) ==
    [status |-> "succeeded", slot |-> call[w].slot,
     covered |-> call[w].covered, frozen |-> frozenAt[w],
     computed |-> signals[w].computed, complete |-> signals[w].complete]

\* persist_research_run_record: an upsert that replaces every column.
Upsert(r, row) == rows' = [rows EXCEPT ![r] = row]

\* The same call when storage fails on one side or the other of the commit.
FailedUpsert(r, row) ==
    /\ faults < MaxFaults
    /\ faults' = faults + 1
    /\ rows' = rows \/ Upsert(r, row)

FailedRead == faults < MaxFaults /\ faults' = faults + 1

\* Fault: the date of the freeze is not compared with the basis date.
AnyFreezeDate(r) ==
    /\ rows[r].status = "succeeded"
    /\ rows[r].slot \in Slots
    /\ rows[r].covered
    /\ rows[r].frozen # Never
    /\ rows[r].complete

\* No issue from _strict_run_issues or _forward_signal_issues.
ValidRun(r) ==
    /\ rows[r].status = "succeeded"
    /\ rows[r].slot \in Slots
    /\ rows[r].covered
    /\ rows[r].frozen # Never
    /\ DayOf[rows[r].frozen] = BasisDay[rows[r].slot]
    /\ rows[r].complete

\* valid_successful_cohort_runs
ValidRuns(s) == {r \in RunIds : ValidRun(r) /\ rows[r].slot = s}

\* evaluate_cohort drops every run of a slot that has more than one.
Counted(s) == {r \in ValidRuns(s) : ValidRuns(s) = {r}}

----------------------------------------------------------------------------
Init ==
    /\ rows = [r \in RunIds |-> NoRow]
    /\ issued = {}
    /\ universe \in Universes
    /\ now = 1
    /\ pc = [w \in Workers |-> "idle"]
    /\ call = [w \in Workers |-> [runId |-> Regular, slot |-> Regular,
                                  snapshot |-> universe, covered |-> FALSE]]
    /\ signals = [w \in Workers |-> NoSignals]
    /\ frozenAt = [w \in Workers |-> Never]
    /\ verdict = [w \in Workers |-> "none"]
    /\ reply = [w \in Workers |-> "none"]
    /\ faults = 0 /\ crashes = 0

GoTo(w, stage) == pc' = [pc EXCEPT ![w] = stage]

\* The call ends: what the worker held in memory is gone.
Finish(w, answer) ==
    /\ GoTo(w, "idle")
    /\ reply' = [reply EXCEPT ![w] = answer]
    /\ signals' = [signals EXCEPT ![w] = NoSignals]
    /\ frozenAt' = [frozenAt EXCEPT ![w] = Never]
    /\ verdict' = [verdict EXCEPT ![w] = "none"]

\* create_research_run caught an exception and is about to record it.
Caught(w, v) ==
    /\ GoTo(w, "record")
    /\ verdict' = [verdict EXCEPT ![w] = v]
    /\ UNCHANGED <<signals, frozenAt, reply>>

----------------------------------------------------------------------------
(* Callers.                                                                *)

\* Fault: the script does not look for existing runs.
FindsNothing(s) == {}

\* What _cohort_report finds before the preflight.
ExistingRuns(s) == ValidRuns(s)

\* _cohort_report up to the preflight: a slot with a valid run, or several,
\* is reported and left alone.
ScriptInvoke(w, s) ==
    /\ w \in Scripts /\ pc[w] = "idle"
    /\ \/ /\ ExistingRuns(s) = {}
          /\ GoTo(w, "preflight")
          /\ call' = [call EXCEPT ![w] = [runId |-> s, slot |-> s,
                                          snapshot |-> universe,
                                          covered |-> FALSE]]
          /\ reply' = [reply EXCEPT ![w] = "none"]
          /\ UNCHANGED <<progress, faults>>
       \/ /\ ExistingRuns(s) # {}
          /\ Finish(w, IF Counted(s) # {} THEN "existing" ELSE "error")
          /\ UNCHANGED <<call, faults>>
       \/ FailedRead /\ Finish(w, "error") /\ UNCHANGED call
    /\ UNCHANGED <<table, world, crashes>>

\* preflight_cohort reads the universe, then fits a model per symbol; a slot
\* that is not ready, a dry run or an exception ends the call here.
ScriptPreflight(w) ==
    /\ pc[w] = "preflight"
    /\ \/ /\ GoTo(w, "universe")
          /\ call' = [call EXCEPT ![w] = [runId |-> call[w].runId,
                                          slot |-> call[w].slot,
                                          snapshot |-> universe,
                                          covered |-> TRUE]]
          /\ UNCHANGED <<progress, reply>>
       \/ (\E a \in {"not_ready", "error"} : Finish(w, a)) /\ UNCHANGED call
    /\ UNCHANGED <<table, world, budget>>

\* A POST whose body validates: a regular request, or the canonical strict
\* recipe with whatever universe snapshot and coverage the client claims.
Post(w, r, s, u, c) ==
    /\ w \in Threads /\ pc[w] = "idle"
    /\ r \in PostIds \ issued
    /\ s \notin AllActive => u = universe /\ c
    /\ issued' = issued \cup {r}
    /\ call' = [call EXCEPT ![w] = [runId |-> r, slot |-> s, snapshot |-> u,
                                    covered |-> c]]
    /\ GoTo(w, IF s \in Slots THEN "universe" ELSE "start")
    /\ reply' = [reply EXCEPT ![w] = "none"]
    /\ UNCHANGED <<rows, world, progress, budget>>

\* handle_request_validation_error: the row is written under a fresh id and a
\* storage failure is swallowed.
PostMalformed(w, r) ==
    /\ w \in Threads /\ pc[w] = "idle"
    /\ r \in PostIds \ issued
    /\ issued' = issued \cup {r}
    /\ LET row == [status |-> "validation_failed", slot |-> Regular,
                   covered |-> FALSE, frozen |-> Never, computed |-> Never,
                   complete |-> FALSE]
       IN \/ Upsert(r, row) /\ UNCHANGED faults
          \/ FailedUpsert(r, row)
    /\ reply' = [reply EXCEPT ![w] = "error"]
    /\ call' = [call EXCEPT ![w] = [runId |-> r, slot |-> Regular,
                                    snapshot |-> universe, covered |-> FALSE]]
    /\ UNCHANGED <<world, pc, progress, crashes>>

----------------------------------------------------------------------------
(* create_research_run.                                                    *)

\* validate_strict_cohort_start, first session: the universe snapshot must be
\* current (always so for the 2330 cohort) and the coverage sufficient.
CheckUniverse(w) ==
    /\ pc[w] = "universe"
    /\ LET current == /\ call[w].slot \in AllActive
                            => call[w].snapshot = universe
                      /\ call[w].covered
       IN \/ /\ current
             /\ GoTo(w, "duplicate")
             /\ UNCHANGED <<progress, reply, faults>>
          \/ ~current /\ Caught(w, "rejected") /\ UNCHANGED faults
          \/ FailedRead /\ Caught(w, "failed")
    /\ UNCHANGED <<table, world, call, crashes>>

\* Fault: a second valid run is not looked for.
NoOtherRuns(w) == {}

\* The valid runs of the slot under another run id.
OtherValidRuns(w) == ValidRuns(call[w].slot) \ {call[w].runId}

\* validate_strict_cohort_start, second session.
CheckDuplicate(w) ==
    /\ pc[w] = "duplicate"
    /\ \/ /\ OtherValidRuns(w) = {}
          /\ GoTo(w, "start")
          /\ UNCHANGED <<progress, reply, faults>>
       \/ /\ OtherValidRuns(w) # {}
          /\ Caught(w, "rejected")
          /\ UNCHANGED faults
       \/ FailedRead /\ Caught(w, "failed")
    /\ UNCHANGED <<table, world, call, crashes>>

\* record_started
RecordStarted(w) ==
    /\ pc[w] = "start"
    /\ LET row == BareRow("running", w)
       IN \/ /\ Upsert(call[w].runId, row)
             /\ GoTo(w, "execute")
             /\ UNCHANGED <<progress, reply, faults>>
          \/ FailedUpsert(call[w].runId, row) /\ Caught(w, "failed")
    /\ UNCHANGED <<issued, world, call, crashes>>

\* execute_research_run and project_live_response.  A complete set of forward
\* signals carries the basis date, which needs that date's bar.
Execute(w) ==
    /\ pc[w] = "execute"
    /\ \/ \E done \in BOOLEAN :
             /\ done /\ call[w].slot \in Slots
                  => DayOf[now] >= BasisDay[call[w].slot]
             /\ signals' = [signals EXCEPT ![w] = [computed |-> now,
                                                   complete |-> done]]
             /\ GoTo(w, "freeze")
             /\ UNCHANGED <<frozenAt, verdict, reply, faults>>
       \/ /\ \E v \in {"rejected", "unexpected"} : Caught(w, v)
          /\ UNCHANGED faults
       \/ FailedRead /\ Caught(w, "failed")
    /\ UNCHANGED <<table, world, call, crashes>>

\* The timestamp _success_request_payload settles on for a strict run: the
\* one its row already holds, else the current time.
FrozenFor(w) ==
    IF rows[call[w].runId].frozen # Never THEN rows[call[w].runId].frozen
    ELSE now

\* _success_request_payload, in a session of its own
Freeze(w) ==
    /\ pc[w] = "freeze"
    /\ \/ /\ frozenAt' = [frozenAt EXCEPT ![w] =
                            IF call[w].slot \in Slots THEN FrozenFor(w)
                            ELSE Never]
          /\ GoTo(w, "success")
          /\ UNCHANGED <<signals, verdict, reply, faults>>
       \/ call[w].slot \in Slots /\ FailedRead /\ Caught(w, "failed")
    /\ UNCHANGED <<table, world, call, crashes>>

\* Fault: a failure to store the success is logged and forgotten.
SwallowedSuccess(w) == Finish(w, "created")

\* raise_on_failure: a success that could not be stored is a failure.
SuccessNotStored(w) == Caught(w, "failed")

\* the write of record_success
RecordSuccess(w) ==
    /\ pc[w] = "success"
    /\ \/ /\ Upsert(call[w].runId, SuccessRow(w))
          /\ Finish(w, "created")
          /\ UNCHANGED faults
       \/ FailedUpsert(call[w].runId, SuccessRow(w)) /\ SuccessNotStored(w)
    /\ UNCHANGED <<issued, world, call, crashes>>

\* Fault: the name of the except branch is used as a status.
BranchName(v) == v

StatusOf(v) == IF v = "rejected" THEN "rejected" ELSE "failed"

\* Fault: only rejections are recorded.
RecordsRejections(w) ==
    IF verdict[w] = "rejected" THEN BareRow("rejected", w)
    ELSE rows[call[w].runId]

OutcomeRow(w) == BareRow(StatusOf(verdict[w]), w)

\* The except branches: record_rejection, record_failure or
\* record_unexpected_failure, whose own storage failure is swallowed, then the
\* exception goes on.  An unexpected one that is no ValueError reaches the
\* server's catch-all handler.
RecordOutcome(w) ==
    /\ pc[w] = "record"
    /\ \/ Upsert(call[w].runId, OutcomeRow(w)) /\ UNCHANGED faults
       \/ FailedUpsert(call[w].runId, OutcomeRow(w))
    /\ \/ Finish(w, "error")
       \/ /\ verdict[w] = "unexpected" /\ call[w].runId \in PostIds
          /\ GoTo(w, "handler")
          /\ UNCHANGED <<progress, reply>>
    /\ UNCHANGED <<issued, world, call, crashes>>

\* handle_unexpected_error records the failure once more: nothing in the route
\* marks the request as already persisted.
HandleUnexpected(w) ==
    /\ pc[w] = "handler"
    /\ LET row == BareRow("failed", w)
       IN \/ Upsert(call[w].runId, row) /\ UNCHANGED faults
          \/ FailedUpsert(call[w].runId, row)
    /\ Finish(w, "error")
    /\ UNCHANGED <<issued, world, call, crashes>>

----------------------------------------------------------------------------
(* The environment.                                                        *)

Tick ==
    /\ now < MaxTick
    /\ now' = now + 1
    /\ UNCHANGED <<table, universe, pc, call, progress, reply, budget>>

\* a company profile is listed, or leaves the active set
UniverseChanges(u) ==
    /\ universe' = u /\ u # universe
    /\ UNCHANGED <<table, now, pc, call, progress, reply, budget>>

\* A process is killed: it neither writes nor replies any more.
Crash(S) ==
    /\ crashes < MaxCrashes
    /\ \E w \in S : pc[w] # "idle"
    /\ crashes' = crashes + 1
    /\ pc' = [w \in Workers |-> IF w \in S THEN "idle" ELSE pc[w]]
    /\ signals' = [w \in Workers |-> IF w \in S THEN NoSignals ELSE signals[w]]
    /\ frozenAt' = [w \in Workers |-> IF w \in S THEN Never ELSE frozenAt[w]]
    /\ verdict' = [w \in Workers |-> IF w \in S THEN "none" ELSE verdict[w]]
    /\ reply' = [w \in Workers |-> IF w \in S THEN "none" ELSE reply[w]]
    /\ UNCHANGED <<table, world, call, faults>>

CrashScript == \E w \in Scripts : Crash({w})
CrashServer == Crash(Threads)

Invoke(w) ==
    \/ \E s \in Slots : ScriptInvoke(w, s)
    \/ \E r \in PostIds :
          \/ \E s \in Slots \cup {Regular}, u \in Universes, c \in BOOLEAN :
                Post(w, r, s, u, c)
          \/ PostMalformed(w, r)

Step(w) ==
    \/ ScriptPreflight(w)
    \/ CheckUniverse(w)
    \/ CheckDuplicate(w)
    \/ RecordStarted(w)
    \/ Execute(w)
    \/ Freeze(w)
    \/ RecordSuccess(w)
    \/ RecordOutcome(w)
    \/ HandleUnexpected(w)

Next ==
    \/ \E w \in Workers : Invoke(w) \/ Step(w)
    \/ Tick
    \/ \E u \in Universes : UniverseChanges(u)
    \/ CrashScript
    \/ CrashServer

Spec == Init /\ [][Next]_vars

\* A worker that is inside a call goes on: threads and processes are scheduled
\* and a model fit terminates.  Nothing makes a caller call again.
FairSpec == Spec /\ \A w \in Workers : WF_vars(Step(w))

----------------------------------------------------------------------------
(* Properties.                                                             *)

\* Every variable stays in its type.
TypeOK ==
    /\ rows \in [RunIds -> [status : Statuses, slot : Slots \cup {Regular},
                            covered : BOOLEAN, frozen : 0..MaxTick,
                            computed : 0..MaxTick, complete : BOOLEAN]]
    /\ issued \subseteq PostIds
    /\ universe \in Universes
    /\ now \in Ticks
    /\ pc \in [Workers -> Stages]
    /\ call \in [Workers -> [runId : RunIds \cup {Regular},
                             slot : Slots \cup {Regular},
                             snapshot : Universes, covered : BOOLEAN]]
    /\ signals \in [Workers -> [computed : 0..MaxTick, complete : BOOLEAN]]
    /\ frozenAt \in [Workers -> 0..MaxTick]
    /\ verdict \in [Workers -> {"none", "rejected", "failed", "unexpected"}]
    /\ reply \in [Workers -> {"none", "created", "existing", "not_ready",
                              "error"}]
    /\ faults \in 0..MaxFaults
    /\ crashes \in 0..MaxCrashes
    /\ \A w \in Workers : pc[w] # "idle" => call[w].runId \in RunIds

\* Some worker is between taking a call for run r and answering it.
InFlight(r) == \E w \in Workers : pc[w] # "idle" /\ call[w].runId = r

\* A run the evaluation accepts as prospective evidence holds signals that
\* were computed on its basis date, whatever retries, storage failures and
\* concurrent requests came between the computation, the freeze and the write.
EvidenceIsProspective ==
    \A r \in RunIds :
        ValidRun(r) => DayOf[rows[r].computed] = BasisDay[rows[r].slot]

\* A strict slot never has two valid runs: validate_strict_cohort_start
\* refuses the second ("a valid strict prospective run already exists").
AtMostOneValidRun ==
    \A s \in Slots : \A q, r \in ValidRuns(s) : q = r

\* Evidence is final once the call that produced it is over: no later call takes
\* up its run id again and no step rewrites it.  The script leaves an existing
\* run alone, and no request shares another's run id.
SettledEvidenceIsFinal ==
    [][\A r \in RunIds :
         ValidRun(r) /\ ~InFlight(r) =>
             rows'[r] = rows[r] /\ ~InFlight(r)']_vars

\* An API client that was told a run was created finds it succeeded, and one that
\* was told of an error does not.  A commit that succeeds and is reported as failed
\* is undone by the failure record; it takes a second storage failure to leave the
\* success standing.
AnswersMatchRows ==
    \A w \in Threads :
        pc[w] = "idle" /\ call[w].runId \in PostIds =>
            LET status == rows[call[w].runId].status
            IN  /\ reply[w] = "created" => status = "succeeded"
                /\ reply[w] = "error" => status # "succeeded"

\* A run recorded as started leaves "running" whichever way its execution
\* ends, unless storage fails or a process is killed: every except branch of
\* create_research_run settles the row, and nothing else would.
StartedRunSettles ==
    \A r \in RunIds :
        rows[r].status = "running" ~>
            rows[r].status # "running" \/ faults > 0 \/ crashes > 0

\* "a retry must preserve its original frozen timestamp": a persisted
\* signal_frozen_at is never lost or moved.
RetryKeepsFrozenTimestamp ==
    [][\A r \in RunIds :
         rows[r].frozen # Never => rows'[r].frozen = rows[r].frozen]_vars

----------------------------------------------------------------------------
(* The strengthening of EvidenceIsProspective that every step preserves.   *)

InCall(w) == pc[w] # "idle"

\* No two processes run the script for one slot at the same time.
OneScriptPerSlot ==
    \A v, w \in Scripts :
        /\ InCall(v) /\ InCall(w)
        /\ call[v].slot \in Slots /\ call[v].slot = call[w].slot
        => v = w

\* No two calls of any kind work for one slot at the same time.
SlotCallsApart ==
    \A v, w \in Workers :
        /\ InCall(v) /\ InCall(w)
        /\ call[v].slot \in Slots /\ call[v].slot = call[w].slot
        => v = w

\* A strict call works for a slot: a script process under the slot's id, an
\* API thread under an id it drew.
RunIdsAreOwned ==
    /\ \A w \in Workers : InCall(w) =>
          \/ call[w].runId \in Slots /\ w \in Scripts
          \/ call[w].runId \in issued
    /\ \A v, w \in Workers :
          InCall(v) /\ InCall(w) /\ call[v].runId = call[w].runId => v = w

\* Signals were computed by now, and complete ones not before the basis date.
ComputedInTime(computed, complete, s) ==
    /\ computed \in 1..now
    /\ complete => DayOf[computed] >= BasisDay[s]

\* While a run executes, its row holds no frozen timestamp, so the freeze
\* takes the current time.
NotYetFrozen ==
    \A w \in Workers : pc[w] \in {"execute", "freeze"}
        => rows[call[w].runId].frozen = Never

DraftsInTime ==
    \A w \in Workers : call[w].slot \in Slots =>
        /\ pc[w] \in {"freeze", "success"} =>
              ComputedInTime(signals[w].computed, signals[w].complete,
                             call[w].slot)
        /\ pc[w] = "success" => frozenAt[w] \in signals[w].computed..now

\* The same of what is persisted.
RowsInTime ==
    \A r \in RunIds :
        rows[r].status = "succeeded" /\ rows[r].slot \in Slots =>
            /\ ComputedInTime(rows[r].computed, rows[r].complete, rows[r].slot)
            /\ rows[r].frozen \in rows[r].computed..now

ProspectiveInv ==
    TypeOK /\ RunIdsAreOwned /\ NotYetFrozen /\ DraftsInTime /\ RowsInTime

----------------------------------------------------------------------------
(* What the registry promises the evaluation: see EvidenceLedger.          *)

Unpublished == [computed |-> Never, frozen |-> Never]

\* The evidence a slot offers, once the call that wrote it has ended.
Published == [s \in Slots |->
    IF \E r \in Counted(s) : ~InFlight(r)
    THEN LET r == CHOOSE q \in Counted(s) : TRUE
         IN [computed |-> rows[r].computed, frozen |-> rows[r].frozen]
    ELSE Unpublished]

Ledger == INSTANCE EvidenceLedger WITH evidence <- Published

\* The registry implements the write-once evidence ledger.
ImplementsLedger == Ledger!Spec

=============================================================================
