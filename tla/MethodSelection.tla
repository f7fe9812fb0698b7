-------------------------- MODULE MethodSelection --------------------------
(***************************************************************************)
(* POST /api/v1/research/method-selection: one thread at a time walks a    *)
(* matrix (method_selection.py).  Each outer fold screens feature sets and *)
(* then tunes the winner's parameters on inner folds of its training       *)
(* dates, and tries the choice on its own holdout.  The three best choices *)
(* are shortlisted; one final inner selection freezes a configuration,     *)
(* which is fitted once and run on the final holdout; each shortlist entry *)
(* may promote a research run.  Runs and matrix are saved in one           *)
(* transaction.                                                            *)
(*                                                                         *)
(* A candidate is a feature set with a tuning (model family, capacity and  *)
(* gate); those that differ in top_n alone have one status and are one     *)
(* here.  Scores are not modelled: any candidate with complete evidence    *)
(* may rank first.                                                         *)
(***************************************************************************)
EXTENDS PooledDataset, Sequences

CONSTANTS
    Threads,
    FeatureSets,
    Tunings,
    Recipe,        \* the tuning feature sets are screened with
    Asked,         \* the last dates a request may ask for
    FinalLen,      \* METHOD_SELECTION_FINAL_HOLDOUT_DATES
    OuterSplits, OuterShare, InnerSplits, InnerShare,
    ShortlistLen,
    None,
    MaxCalls,      \* bound: matrices begun
    MaxFaults      \* bound: storage failures and restarts of the server

Catalog == FeatureSets \X Tunings

ASSUME SelectionAssumption ==
    /\ Asked \subseteq Dates
    /\ FinalLen \in Nat \ {0}
    /\ OuterSplits \in Nat \ {0} /\ InnerSplits \in Nat \ {0}
    /\ IsShare(OuterShare) /\ IsShare(InnerShare)
    /\ IsFiniteSet(FeatureSets) /\ IsFiniteSet(Tunings)
    /\ ShortlistLen \in Nat
    /\ None \notin FeatureSets \cup Catalog
    /\ MaxCalls \in Nat /\ MaxFaults \in Nat

VARIABLES
    asked,     \* date_range.end of the requests
    slot,      \* threads that hold _METHOD_SELECTION_ACTIVE
    work,      \* the matrix each thread builds
    matrices,  \* method_selection_matrices: matrix id to promoted run ids
    runs,      \* the rows of research_runs promoted by a matrix
    calls, faults

inputs == <<dataset, asked>>
tables == <<matrices, runs>>
vars   == <<inputs, slot, work, tables, calls, faults>>

-----------------------------------------------------------------------------
(***************************************************************************)
(* The inputs of a matrix.                                                 *)
(***************************************************************************)

\* _load_method_selection_inputs: requested dates end at asked, later ones
\* are the maturity buffer, and the last requested ones the final holdout.
SelectionEnd == asked - FinalLen

FinalDates == (SelectionEnd + 1)..asked

Mature == LastDate - asked >= horizon

\* The two datasets: rows to select on, whose targets are computed without the
\* final holdout, and all rows.
SelectionRows == ReadyRows(SelectionEnd, TRUE)

FullRows == ReadyRows(LastDate, TRUE)

HasOuterFolds(dates) == HasFolds(Cardinality(dates), OuterSplits, OuterShare, horizon)

OuterFolds(dates) ==
    [k \in 1..OuterSplits |-> FoldAt(dates, OuterSplits, OuterShare, horizon, k)]

\* The dates the inner folds of an outer fold are formed of.
InnerDates(fold) == fold.train

\* The inner folds of a set of dates.
HasInnerFolds(dates) == HasFolds(Cardinality(dates), InnerSplits, InnerShare, horizon)

InnerFolds(dates) ==
    [i \in 1..InnerSplits |-> FoldAt(dates, InnerSplits, InnerShare, horizon, i)]

\* _final_holdout_fold: the purge counts market dates here.
FrozenFold == FinalFold(1..SelectionEnd, FinalDates, horizon)

-----------------------------------------------------------------------------
(***************************************************************************)
(* Evaluating candidates.                                                  *)
(***************************************************************************)
Statuses == {"evaluated", "no_opinion", "not_evaluated"}

\* Folds with rows on both sides
Usable(folds, rows) ==
    {i \in DOMAIN folds :
        TrainRows(rows, folds[i]) # {} /\ HoldoutRows(rows, folds[i]) # {}}

\* What _evaluate_group and _summary may make of candidates.  A fold without
\* rows is not evaluated and decides the summary; so does one whose model is
\* unavailable, after which no later fold is tried, for every candidate that
\* shares it.
Evaluations(cands, folds, rows) ==
    IF Usable(folds, rows) = DOMAIN folds
    THEN [cands -> Statuses]
    ELSE [cands -> {"not_evaluated"}]

\* The candidates that may be ranked first: evidence in every fold.
Complete(e) == {c \in DOMAIN e : e[c] = "evaluated"}

\* What is left to say when nobody wins: the status of every final result.
Verdict(e) ==
    IF \E c \in DOMAIN e : e[c] = "no_opinion" THEN "no_opinion" ELSE "not_evaluated"

\* The winner of an evaluation and, if there is none, the verdict.
Outcome(e) ==
    IF Complete(e) = {}
    THEN {[winner |-> None, verdict |-> Verdict(e)]}
    ELSE {[winner |-> c, verdict |-> "none"] : c \in Complete(e)}

Outcomes(cands, folds, rows) ==
    UNION {Outcome(e) : e \in Evaluations(cands, folds, rows)}

\* The last dates whose prices the rows of the folds read.
Read(folds, rows) ==
    UNION {Reach(TrainRows(rows, folds[i]) \cup HoldoutRows(rows, folds[i])) :
              i \in DOMAIN folds}

-----------------------------------------------------------------------------
(***************************************************************************)
(* The threads.                                                            *)
(***************************************************************************)
Stages == {"idle", "load", "screen", "tune", "assess", "rank", "refine",
           "final", "save"}

Replies == {"none", "busy", "insufficient", "failed", "not_saved", "created"}

\* The status of a final holdout result; a promoted one is also evaluated.
Results == Statuses \cup {"promoted"}

NoWork == [pc |-> "idle", id |-> 0,
           selection |-> {}, full |-> {}, outer |-> <<>>, fold |-> 0, set |-> None, choice |-> None,
           assessed |-> {}, shortlist |-> {}, frozen |-> None,
           verdict |-> "none", tried |-> "none", results |-> <<>>,
           executions |-> 0,
           behind |-> {}, read |-> {}, reply |-> "none"]

Become(t, w) == work' = [work EXCEPT ![t] = w]

\* create_method_selection_matrix: acquire(blocking=False)
Accept(t) ==
    /\ work[t].pc = "idle"
    /\ calls < MaxCalls
    /\ slot = {}
    /\ slot' = {t}
    /\ calls' = calls + 1
    /\ Become(t, [NoWork EXCEPT !.pc = "load", !.id = calls + 1])
    /\ UNCHANGED <<inputs, tables, faults>>

\* Mutant: the refused request releases the semaphore as well.
ReleasedByRefusal == {}

SlotAfterRefusal == slot

Refuse(t) ==
    /\ work[t].pc = "idle"
    /\ slot # {}
    /\ slot' = SlotAfterRefusal
    /\ Become(t, [NoWork EXCEPT !.reply = "busy"])
    /\ UNCHANGED <<inputs, tables, calls, faults>>

\* Mutant: only a matrix that was saved releases the semaphore.
ReleasedOnSuccess(t, reply) == IF reply = "created" THEN slot \ {t} ELSE slot

\* finally: _METHOD_SELECTION_ACTIVE.release()
SlotAfter(t, reply) == slot \ {t}

Return(t, reply) ==
    /\ slot' = SlotAfter(t, reply)
    /\ Become(t, [NoWork EXCEPT !.reply = reply])

Fault == faults < MaxFaults /\ faults' = faults + 1

Load(t) ==
    /\ work[t].pc = "load"
    /\ \E rows \in {SelectionRows}, full \in {FullRows} :
         LET dates == ReadyDates(rows)
             enough == /\ Mature /\ asked > FinalLen
                       /\ rows # {} /\ full # {}
                       /\ HasOuterFolds(dates)
         IN  \/ /\ enough
                /\ Become(t, [work[t] EXCEPT
                                !.pc = "screen", !.fold = 1, !.outer = OuterFolds(dates),
                                !.selection = rows, !.full = full])
                /\ UNCHANGED <<slot, faults>>
             \/ /\ ~enough
                /\ Return(t, "insufficient")
                /\ UNCHANGED faults
             \/ /\ Fault
                /\ Return(t, "failed")
    /\ UNCHANGED <<inputs, tables, calls>>

\* The work after an evaluation of folds on the selection rows: what they read
\* is behind the choice made of it.
Evaluated(w, folds) ==
    [w EXCEPT !.behind = @ \cup Read(folds, w.selection),
              !.read = @ \cup Read(folds, w.selection)]

\* The outer fold is recorded; the next one starts from nothing.
NextFold(w) ==
    [w EXCEPT !.pc = IF w.fold = OuterSplits THEN "rank" ELSE "screen",
              !.fold = IF w.fold = OuterSplits THEN 0 ELSE @ + 1,
              !.set = None, !.choice = None, !.behind = {}]

\* An evaluation raises anything but ModelUnavailableError.
Raises(t) ==
    /\ work[t].pc \in {"screen", "tune", "assess"}
    /\ Return(t, "failed")
    /\ UNCHANGED <<inputs, tables, calls, faults>>

\* The outer fold a thread is at
Fold(w) == w.outer[w.fold]

\* Phase A of an outer fold
Screen(t) ==
    /\ work[t].pc = "screen"
    /\ LET dates == InnerDates(Fold(work[t]))
       IN  \/ /\ HasInnerFolds(dates)
              /\ \E folds \in {InnerFolds(dates)} :
                   \E w \in {Evaluated(work[t], folds)} :
                     \E o \in Outcomes(FeatureSets \X {Recipe}, folds, w.selection) :
                       IF o.winner = None
                       THEN Become(t, NextFold(w))
                       ELSE Become(t, [w EXCEPT !.pc = "tune", !.set = o.winner[1]])
              /\ UNCHANGED slot
           \/ /\ ~HasInnerFolds(dates)
              /\ Return(t, "insufficient")
    /\ UNCHANGED <<inputs, tables, calls, faults>>

\* Phase B: the parameters of the feature set that won
Tune(t) ==
    /\ work[t].pc = "tune"
    /\ \E folds \in {InnerFolds(InnerDates(Fold(work[t])))} :
         \E w \in {Evaluated(work[t], folds)} :
           \E o \in Outcomes({w.set} \X Tunings, folds, w.selection) :
             IF o.winner = None
             THEN Become(t, NextFold(w))
             ELSE Become(t, [w EXCEPT !.pc = "assess", !.choice = o.winner])
    /\ UNCHANGED <<inputs, slot, tables, calls, faults>>

\* The choice is tried on the holdout it was made without.
Assess(t) ==
    /\ work[t].pc = "assess"
    /\ LET folds == <<Fold(work[t])>>
           c == work[t].choice
       IN  \E w \in {Evaluated(work[t], folds)} :
             \E e \in Evaluations({c}, folds, w.selection) :
               Become(t, NextFold(
                 [w EXCEPT !.assessed = @ \cup {[candidate |-> c, status |-> e[c]]}]))
    /\ UNCHANGED <<inputs, slot, tables, calls, faults>>

\* The candidates evaluated in every outer fold that chose them
Shortlistable(w) ==
    {r.candidate : r \in w.assessed}
        \ {r.candidate : r \in {x \in w.assessed : x.status # "evaluated"}}

\* The first ShortlistLen of any ranking.
Shortlists(w) ==
    LET best == Shortlistable(w)
        Fits(l) == Cardinality(l) <= ShortlistLen
    IN  {l \in SUBSET best : Fits(l) /\ \A c \in best \ l : ~Fits(l \cup {c})}

Rank(t) ==
    /\ work[t].pc = "rank"
    /\ \E l \in Shortlists(work[t]) :
           Become(t, [work[t] EXCEPT !.shortlist = l, !.assessed = {},
                                     !.pc = IF l = {} THEN "save" ELSE "refine"])
    /\ UNCHANGED <<inputs, slot, tables, calls, faults>>

\* Mutant: the reason of a failure is lost.
NoVerdict == "none"

FailedVerdict == "not_evaluated"

\* _build_final_inner_selection over the whole catalog; an error is kept as the
\* reason of every result instead of being raised.
Refine(t) ==
    /\ work[t].pc = "refine"
    /\ \/ \E folds \in {InnerFolds(ReadyDates(work[t].selection))} :
            \E w \in {Evaluated(work[t], folds)} :
              /\ HasInnerFolds(ReadyDates(w.selection))
              /\ \E o \in Outcomes(Catalog, folds, w.selection) :
                   Become(t, [w EXCEPT !.pc = "final", !.frozen = o.winner,
                                       !.verdict = o.verdict])
       \/ Become(t, [work[t] EXCEPT !.pc = "final", !.verdict = FailedVerdict])
    /\ UNCHANGED <<inputs, slot, tables, calls, faults>>

\* _evaluate_final_candidate, and _failed_final_artifacts when it raises: the
\* status of the artifacts.
Artifacts(folds, rows) ==
    IF Usable(folds, rows) = DOMAIN folds THEN Statuses ELSE {"not_evaluated"}

\* Mutant: failed artifacts are not kept.
KeepsEvaluated(status) == IF status = "evaluated" THEN status ELSE "none"

\* final_holdout_artifacts_cache
Cached(status) == status

\* The artifacts of the frozen candidate, computed for the first entry.
WithArtifacts(w, folds, status) ==
    [w EXCEPT !.tried = Cached(status), !.executions = @ + 1,
              !.read = @ \cup Read(folds, w.full)]

\* An entry whose artifacts are evaluated is promoted, unless its run cannot be
\* prepared.
EntryResults(status) ==
    IF status = "evaluated" THEN {"promoted", "not_evaluated"} ELSE {status}

\* _build_final_holdout_result for the next shortlist entry
Final(t) ==
    /\ work[t].pc = "final"
    /\ Len(work[t].results) < Cardinality(work[t].shortlist)
    /\ \/ /\ work[t].frozen = None
          /\ Become(t, [work[t] EXCEPT !.results = Append(@, work[t].verdict)])
       \/ /\ work[t].frozen # None /\ work[t].tried = "none"
          /\ \E folds \in {<<FrozenFold>>} :
               \E status \in Artifacts(folds, work[t].full) :
                 \E w \in {WithArtifacts(work[t], folds, status)},
                    r \in EntryResults(status) :
                   Become(t, [w EXCEPT !.results = Append(@, r)])
       \/ /\ work[t].frozen # None /\ work[t].tried # "none"
          /\ \E r \in EntryResults(work[t].tried) :
               Become(t, [work[t] EXCEPT !.results = Append(@, r)])
    /\ UNCHANGED <<inputs, slot, tables, calls, faults>>

Report(t) ==
    /\ work[t].pc = "final"
    /\ Len(work[t].results) = Cardinality(work[t].shortlist)
    /\ Become(t, [work[t] EXCEPT !.pc = "save"])
    /\ UNCHANGED <<inputs, slot, tables, calls, faults>>

\* The ids of the runs a matrix promotes, one for each promoted result.
Promoted(w) == {w.id} \X {i \in DOMAIN w.results : w.results[i] = "promoted"}

\* Mutant: every run is committed on its own, before the matrix.
RunsStay(w) == runs' = runs \cup Promoted(w) /\ UNCHANGED matrices

\* The transaction is rolled back.
RolledBack(w) == UNCHANGED tables

\* persist_method_selection_batch
Save(t) ==
    LET w == work[t]
    IN  /\ w.pc = "save"
        /\ \/ /\ runs' = runs \cup Promoted(w)
              /\ matrices' = [id \in DOMAIN matrices \cup {w.id} |->
                                 IF id = w.id THEN Promoted(w) ELSE matrices[id]]
              /\ Return(t, "created")
              /\ UNCHANGED faults
           \/ /\ Fault
              /\ RolledBack(w)
              /\ Return(t, "not_saved")
        /\ UNCHANGED <<inputs, calls>>

\* The server is killed and started again: threads and semaphore are new.
Crash ==
    /\ Fault
    /\ work' = [t \in Threads |-> NoWork]
    /\ slot' = {}
    /\ UNCHANGED <<inputs, tables, calls>>

Step(t) ==
    \/ Load(t) \/ Raises(t) \/ Screen(t) \/ Tune(t) \/ Assess(t) \/ Rank(t)
    \/ Refine(t) \/ Final(t) \/ Report(t) \/ Save(t)

Next ==
    \/ \E t \in Threads : Accept(t) \/ Refuse(t) \/ Step(t)
    \/ Crash

Init ==
    /\ DatasetInit
    /\ asked \in Asked
    /\ slot = {}
    /\ work = [t \in Threads |-> NoWork]
    /\ matrices = [id \in {} |-> {}]
    /\ runs = {}
    /\ calls = 0 /\ faults = 0

Spec == Init /\ [][Next]_vars

-----------------------------------------------------------------------------

(***************************************************************************)
(* Type invariant                                                          *)
(***************************************************************************)
DatasetRow == [symbol : Symbols, date : Int, end : Int]

DateFold == [train : SUBSET Int, purged : SUBSET Int, holdout : SUBSET Int]

Work ==
    [pc : Stages, id : 0..MaxCalls, selection : SUBSET DatasetRow,
     full : SUBSET DatasetRow, outer : Seq(DateFold), fold : 0..OuterSplits,
     set : FeatureSets \cup {None}, choice : Catalog \cup {None},
     assessed : SUBSET [candidate : Catalog, status : Statuses],
     shortlist : SUBSET Catalog, frozen : Catalog \cup {None},
     verdict : Statuses \cup {"none"}, tried : Statuses \cup {"none"},
     results : Seq(Results), executions : Nat,
     behind : SUBSET Int, read : SUBSET Int, reply : Replies]

TypeOK ==
    /\ DatasetTypeOK
    /\ asked \in Asked
    /\ slot \subseteq Threads
    /\ work \in [Threads -> Work]
    /\ DOMAIN matrices \subseteq 1..MaxCalls
    /\ calls \in 0..MaxCalls
    /\ faults \in 0..MaxFaults

(***************************************************************************)
(* The semaphore is held by exactly the threads inside a matrix, at most   *)
(* one, whatever path a call leaves by, a refused one included             *)
(* (create_method_selection_matrix).                                       *)
(***************************************************************************)
OneMatrixAtATime ==
    /\ slot = {t \in Threads : work[t].pc # "idle"}
    /\ \A t, u \in slot : t = u

(***************************************************************************)
(* The candidate of an outer fold is chosen without its holdout: no price  *)
(* behind the choice, those of the labels of inner holdouts included, is   *)
(* of the outer holdout's first date or later.  Inner holdout rows are not *)
(* filtered by the end of their label; only the purge keeps them apart.    *)
(***************************************************************************)
OuterHoldoutUnseen ==
    \A t \in Threads : work[t].pc = "assess" =>
        \A d \in Fold(work[t]).holdout, e \in work[t].behind : e < d

(***************************************************************************)
(* Nothing of the final holdout was read until the configuration to run on *)
(* it is frozen, and what is fitted then is settled before it starts.      *)
(***************************************************************************)
FinalHoldoutUntouched ==
    \A t \in Threads :
        LET w == work[t]
        IN  /\ w.tried = "none" => \A d \in FinalDates, e \in w.read : e < d
            /\ w.pc = "final" => \A r \in RowsOn(w.full, FrozenFold.train) :
                                    r.end < SelectionEnd + 1

(***************************************************************************)
(* The final holdout is run at most once for a matrix, however many        *)
(* entries are shortlisted and whether or not the run succeeds, and only a *)
(* run that was evaluated is promoted.                                     *)
(***************************************************************************)
FinalHoldoutRunOnce ==
    \A t \in Threads :
        LET w == work[t]
        IN  /\ w.executions <= 1
            /\ Promoted(w) # {} => w.tried = "evaluated" /\ w.frozen \in Catalog

(***************************************************************************)
(* A promoted run is stored exactly when the matrix that lists it is:      *)
(* neither a failed save nor a killed server leaves one without the other. *)
(***************************************************************************)
NoOrphanRuns == runs = UNION {matrices[id] : id \in DOMAIN matrices}

=============================================================================
