---------------------------- MODULE Calibration ----------------------------
(***************************************************************************)
(* POST /api/v1/research/calibration: one thread at a time walks a         *)
(* calibration matrix (calibration.py).  Every model family is fitted on   *)
(* every market-date fold; a family found unavailable is not tried on its  *)
(* later folds.  On a fold that was fitted each candidate is judged with a *)
(* direction gate, which candidates of one gate key share; the gate is     *)
(* fitted on the first training dates and calibrated on the last ones.     *)
(* The matrix is saved when all families are through.  Scores and          *)
(* probabilities are not modelled.                                         *)
(***************************************************************************)
EXTENDS PooledDataset, Sequences, Functions

CONSTANTS
    Threads,
    Families,      \* model_families, in the order of the request
    Candidates,    \* the candidate manifest, in order
    KeyOf,         \* gate_key of a candidate
    Returns,       \* volatility_lookback of a gate key
    Splits, Share, \* CALIBRATION_FOLD_COUNT, CALIBRATION_TEST_SIZE
    TailShare,     \* CALIBRATION_DIRECTION_CALIBRATION_TAIL_FRACTION
    MinSamples,
    MaxCalls,      \* bound: matrices begun
    MaxFaults      \* bound: storage failures and restarts of the server

Keys == {KeyOf[c] : c \in Range(Candidates)}

\* What the parameters have to be; the module that instantiates them assumes it.
CalibrationParameters ==
    /\ Families \in Seq(Range(Families)) \ {<<>>}
    /\ Candidates \in Seq(Range(Candidates)) \ {<<>>}
    /\ Range(Candidates) \subseteq DOMAIN KeyOf
    /\ Returns \in [Keys -> Nat]
    /\ Splits \in Nat \ {0}
    /\ IsShare(Share) /\ IsShare(TailShare)
    /\ MinSamples \in Nat \ {0}
    /\ MaxCalls \in Nat /\ MaxFaults \in Nat

VARIABLES
    slot,      \* threads that hold _CALIBRATION_ACTIVE
    work,      \* the matrix each thread builds
    matrices,  \* calibration_matrices: matrix id to result payload
    calls, faults

vars == <<dataset, slot, work, matrices, calls, faults>>

-----------------------------------------------------------------------------
(***************************************************************************)
(* The direction gate of a fold.                                           *)
(***************************************************************************)

\* ceil(n * share)
TailLen(n) == (n * TailShare.num + TailShare.den - 1) \div TailShare.den

\* The last dates of the rows
TailDates(rows) ==
    LET n == Cardinality(ReadyDates(rows))
    IN  Slice(ReadyDates(rows), n - TailLen(n), n)

\* Mutant: rows whose label settles inside the tail are kept.
BaseUnpurged(rows, tail) == {r \in rows : \A d \in tail : r.date < d}

\* The rows the classifier is fitted on, before those it is calibrated on.
BaseRows(rows, tail) == {r \in rows : \A d \in tail : r.date < d /\ r.end < d}

\* The rows that have a threshold
Eligible(rows, key) == {r \in rows : HasWindow(r.symbol, r.date, Returns[key])}

\* A gate can be fitted on the eligible rows of a fold, so split.
CanFit(rows, base, tail) ==
    /\ Cardinality(ReadyDates(rows)) >= 2
    /\ Cardinality(base) >= MinSamples
    /\ Cardinality(tail) >= MinSamples

\* _fit_pooled_direction_classifier and _evaluate_candidate_fold: rows that may
\* be fitted on may still be refused for their labels, and then, as without
\* enough of them, nothing is evaluated.  Otherwise every candidate of the gate
\* acts on the same dates, none or some.
Verdicts(fitted, eligible) ==
    {"not_evaluated"}
      \cup (IF fitted THEN {"no_opinion"} ELSE {})
      \cup (IF fitted /\ eligible # {} THEN {"evaluated"} ELSE {})

-----------------------------------------------------------------------------
(***************************************************************************)
(* The walk over families, folds and candidates.                           *)
(***************************************************************************)
Stages == {"idle", "load", "fit", "judge", "save"}

Replies == {"none", "busy", "not_found", "insufficient", "failed", "not_saved", "created"}

\* What became of a family's fold, told apart by its status_reason.
FoldStatuses == {"evaluated", "unavailable", "skipped", "empty"}

Statuses == {"evaluated", "no_opinion", "not_evaluated"}

NoWork == [pc |-> "idle", id |-> 0, rows |-> {}, folds |-> <<>>,
           family |-> 1, fold |-> 1, next |-> 1, unavailable |-> FALSE,
           gates |-> {}, metrics |-> {}, judged |-> {}, reply |-> "none"]

Become(t, w) == work' = [work EXCEPT ![t] = w]

Fold(w) == w.folds[w.fold]

Train(w) == TrainRows(w.rows, Fold(w))

Holdout(w) == HoldoutRows(w.rows, Fold(w))

\* create_calibration_matrix: acquire(blocking=False)
Accept(t) ==
    /\ work[t].pc = "idle"
    /\ calls < MaxCalls
    /\ slot = {}
    /\ slot' = {t}
    /\ calls' = calls + 1
    /\ Become(t, [NoWork EXCEPT !.pc = "load", !.id = calls + 1])
    /\ UNCHANGED <<dataset, matrices, faults>>

\* Mutant: the semaphore is released on every way out, the refusal included.
AlwaysReleased == {}

SlotAfterRefusal == slot

Refuse(t) ==
    /\ work[t].pc = "idle"
    /\ slot # {}
    /\ slot' = SlotAfterRefusal
    /\ Become(t, [NoWork EXCEPT !.reply = "busy"])
    /\ UNCHANGED <<dataset, matrices, calls, faults>>

\* finally: _CALIBRATION_ACTIVE.release()
SlotAfter(t, reply) == slot \ {t}

Return(t, reply) ==
    /\ slot' = SlotAfter(t, reply)
    /\ Become(t, [NoWork EXCEPT !.reply = reply])

Fault == faults < MaxFaults /\ faults' = faults + 1

\* The folds are formed of all market dates of the requested range.
HasDateFolds == HasFolds(LastDate, Splits, Share, horizon)

DateFolds == [k \in 1..Splits |-> FoldAt(Dates, Splits, Share, horizon, k)]

NoQuotes == \A s \in Symbols, d \in Dates : quotes[s][d] = "none"

Load(t) ==
    /\ work[t].pc = "load"
    /\ \E rows \in {ReadyRows(LastDate, FALSE)} :
         \/ /\ NoQuotes
            /\ Return(t, "not_found")
            /\ UNCHANGED faults
         \/ /\ ~NoQuotes /\ (rows = {} \/ ~HasDateFolds)
            /\ Return(t, "insufficient")
            /\ UNCHANGED faults
         \/ /\ rows # {} /\ HasDateFolds
            /\ Become(t, [work[t] EXCEPT !.pc = "fit", !.rows = rows, !.folds = DateFolds])
            /\ UNCHANGED <<slot, faults>>
         \/ /\ Fault
            /\ Return(t, "failed")
    /\ UNCHANGED <<dataset, matrices, calls>>

\* Mutant: the reason is found out once for all families.
StillUnavailable(w) == w.unavailable

\* A new family starts as available.
UnavailableToStart(w) == FALSE

\* gate_cache of a new fold
NoGates(w) == {}

FirstFold == 1

\* The next fold, of the next family after the last one.
NextFold(w) ==
    [w EXCEPT !.pc = IF w.fold = Splits /\ w.family = Len(Families) THEN "save" ELSE "fit",
              !.fold = IF w.fold = Splits THEN FirstFold ELSE @ + 1,
              !.family = IF w.fold = Splits THEN @ + 1 ELSE @,
              !.unavailable = IF w.fold = Splits THEN UnavailableToStart(w) ELSE @,
              !.next = 1, !.gates = NoGates(w)]

Metric(w, status) == [family |-> w.family, fold |-> w.fold, status |-> status]

Judgement(w, c, status) ==
    [family |-> w.family, fold |-> w.fold, candidate |-> c, status |-> status]

NotJudged(w) == {Judgement(w, c, "not_evaluated") : c \in Range(Candidates)}

\* The fold is recorded as not evaluated, for the family and every candidate.
PassedOver(w, status) ==
    NextFold([w EXCEPT !.metrics = @ \cup {Metric(w, status)},
                       !.judged = @ \cup NotJudged(w)])

\* _evaluate_model_family: the regression of a fold
Fit(t) ==
    /\ work[t].pc = "fit"
    /\ \E w \in {work[t]} :
         \/ /\ w.unavailable
            /\ Become(t, PassedOver(w, "skipped"))
            /\ UNCHANGED slot
         \/ /\ ~w.unavailable /\ (Train(w) = {} \/ Holdout(w) = {})
            /\ Become(t, PassedOver(w, "empty"))
            /\ UNCHANGED slot
         \/ /\ ~w.unavailable /\ Train(w) # {} /\ Holdout(w) # {}
            /\ \/ /\ Become(t, PassedOver([w EXCEPT !.unavailable = TRUE], "unavailable"))
                  /\ UNCHANGED slot
               \/ /\ Become(t, [w EXCEPT !.pc = "judge",
                                         !.metrics = @ \cup {Metric(w, "evaluated")}])
                  /\ UNCHANGED slot
               \/ Return(t, "failed")
    /\ UNCHANGED <<dataset, matrices, calls, faults>>

\* The candidate is judged with the gate, which is kept for the next ones.
Judged(t, w, c, gate) ==
    \E v \in {[w EXCEPT !.judged = @ \cup {Judgement(w, c, gate.verdict)},
                        !.gates = @ \cup {gate}, !.next = @ + 1]} :
        Become(t, IF w.next = Len(Candidates) THEN NextFold(v) ELSE v)

\* A new gate is fitted on the training rows of the fold.
JudgedAnew(t, w, c, key) ==
    \E rows \in {Eligible(Train(w), key)} :
      \E tail \in {TailDates(rows)} :
        \E base \in {BaseRows(rows, tail)}, last \in {RowsOn(rows, tail)} :
          \E verdict \in Verdicts(CanFit(rows, base, last), Eligible(Holdout(w), key)) :
            Judged(t, w, c, [key |-> key, family |-> w.family, fold |-> w.fold,
                             base |-> base, tail |-> last, verdict |-> verdict])

\* _evaluate_model_family: the next candidate on the fold
Judge(t) ==
    /\ work[t].pc = "judge"
    /\ \E w \in {work[t]}, c \in {Candidates[work[t].next]} :
         LET known == {g \in w.gates : g.key = KeyOf[c]}
         IN  \/ /\ \E gate \in known : Judged(t, w, c, gate)
                /\ UNCHANGED slot
             \/ /\ known = {}
                /\ JudgedAnew(t, w, c, KeyOf[c])
                /\ UNCHANGED slot
             \/ Return(t, "failed")
    /\ UNCHANGED <<dataset, matrices, calls, faults>>

Payload(w) == [metrics |-> w.metrics, judged |-> w.judged]

\* persist_calibration_matrix: a failed commit stores nothing, a failed refresh
\* after it leaves the matrix stored.
Save(t) ==
    /\ work[t].pc = "save"
    /\ LET id == work[t].id
           stored == [i \in DOMAIN matrices \cup {id} |->
                         IF i = id THEN Payload(work[t]) ELSE matrices[i]]
       IN  \/ /\ matrices' = stored
              /\ Return(t, "created")
              /\ UNCHANGED faults
           \/ /\ Fault
              /\ matrices' \in {matrices, stored}
              /\ Return(t, "not_saved")
    /\ UNCHANGED <<dataset, calls>>

\* The server is killed and started again: threads and semaphore are new.
Crash ==
    /\ Fault
    /\ work' = [t \in Threads |-> NoWork]
    /\ slot' = {}
    /\ UNCHANGED <<dataset, matrices, calls>>

Step(t) == Load(t) \/ Fit(t) \/ Judge(t) \/ Save(t)

Next ==
    \/ \E t \in Threads : Accept(t) \/ Refuse(t) \/ Step(t)
    \/ Crash

Init ==
    /\ DatasetInit
    /\ slot = {}
    /\ work = [t \in Threads |-> NoWork]
    /\ matrices = <<>>
    /\ calls = 0 /\ faults = 0

Spec == Init /\ [][Next]_vars

-----------------------------------------------------------------------------
(***************************************************************************)
(* Type invariant                                                          *)
(***************************************************************************)
DatasetRow == [symbol : Symbols, date : Int, end : Int]

DateFold == [train : SUBSET Int, purged : SUBSET Int, holdout : SUBSET Int]

Metrics == [family : 1..Len(Families), fold : 1..Splits, status : FoldStatuses]

Judgements == [family : 1..Len(Families), fold : 1..Splits,
               candidate : Range(Candidates), status : Statuses]

GateRecord == [key : Keys, family : 1..Len(Families), fold : 1..Splits,
               base : SUBSET DatasetRow, tail : SUBSET DatasetRow, verdict : Statuses]

Work ==
    [pc : Stages, id : 0..MaxCalls, rows : SUBSET DatasetRow, folds : Seq(DateFold),
     family : 1..(Len(Families) + 1), fold : 1..Splits, next : 1..(Len(Candidates) + 1),
     unavailable : BOOLEAN, gates : SUBSET GateRecord,
     metrics : SUBSET Metrics, judged : SUBSET Judgements, reply : Replies]

TypeOK ==
    /\ DatasetTypeOK
    /\ slot \subseteq Threads
    /\ work \in [Threads -> Work]
    /\ DOMAIN matrices \subseteq 1..MaxCalls
    /\ calls \in 0..MaxCalls
    /\ faults \in 0..MaxFaults

(***************************************************************************)
(* The semaphore is held by exactly the threads inside a calibration, at   *)
(* most one, whatever path a call leaves by, a refused one included        *)
(* (create_calibration_matrix).                                            *)
(***************************************************************************)
OneCalibrationAtATime ==
    /\ slot = {t \in Threads : work[t].pc # "idle"}
    /\ \A t, u \in slot : t = u

(***************************************************************************)
(* A gate judges only the fold and the family it was fitted for, no label  *)
(* it was fitted on settles inside the tail it is calibrated on, and none  *)
(* of its labels settles inside the holdout it judges                      *)
(* (_fit_pooled_direction_classifier, gate_cache).                         *)
(***************************************************************************)
GatesAreBlind ==
    \A t \in Threads : \A g \in work[t].gates :
        LET w == work[t]
        IN  /\ g.family = w.family /\ g.fold = w.fold
            /\ \A r \in g.base, u \in g.tail : r.end < u.date
            /\ \A r \in g.base \cup g.tail : \A d \in Fold(w).holdout : r.end < d

(***************************************************************************)
(* A stored matrix has exactly one result for each family and fold and one *)
(* for each candidate on it, whichever way the fold went; a candidate has  *)
(* an opinion only where the family was evaluated; and a family skipped a  *)
(* fold exactly after one of its own earlier folds found the model         *)
(* unavailable (model_unavailable_reason).                                 *)
(***************************************************************************)
MatrixIsWhole ==
    \A id \in DOMAIN matrices :
        \A f \in 1..Len(Families), k \in 1..Splits :
            LET of == {m \in matrices[id].metrics : m.family = f}
                js == {j \in matrices[id].judged : j.family = f /\ j.fold = k}
                lost == \E m \in of : m.fold < k /\ m.status = "unavailable"
            IN  /\ \E m \in of :
                      /\ {n \in of : n.fold = k} = {m}
                      /\ m.status = "skipped" <=> lost
                      /\ m.status = "evaluated"
                            \/ \A j \in js : j.status = "not_evaluated"
                /\ \A c \in Range(Candidates) :
                      Cardinality({j \in js : j.candidate = c}) = 1

=============================================================================
