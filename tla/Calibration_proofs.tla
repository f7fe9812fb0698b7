-------------------------- MODULE Calibration_proofs --------------------------
(***************************************************************************)
(* Theorems about Calibration, for any threads, market calendar, histories *)
(* of quotes, families, candidates, folds and faults: the type invariant,  *)
(* the semaphore, what a direction gate may have seen, what a stored       *)
(* matrix holds, and that every matrix runs down.                          *)
(***************************************************************************)
EXTENDS Calibration, MarketFolds_proofs

\* Where the walk is: before the save there is a family, a fold and a candidate
\* to go on with.
Placed(w) ==
    w.pc # "save" => w.family \in 1..Len(Families) /\ w.next \in 1..Len(Candidates)

\* A matrix in progress has an id.
Numbered(w) == w.pc # "idle" => w.id \in 1..MaxCalls

\* The gates of a thread have seen nothing they are used on.
Blind(w) ==
    \A g \in w.gates :
        /\ g.family = w.family /\ g.fold = w.fold
        /\ \A r \in g.base, u \in g.tail : r.end < u.date
        /\ \A r \in g.base \cup g.tail : \A d \in Fold(w).holdout : r.end < d

\* A thread has gates only while it judges a fold.
Fresh(w) == w.pc # "judge" => w.gates = {}

Sound(w) == w \in Work /\ Placed(w) /\ Numbered(w) /\ Blind(w) /\ Fresh(w)

IInv ==
    /\ TypeOK
    /\ OneCalibrationAtATime
    /\ \A t \in Threads : Sound(work[t])

-----------------------------------------------------------------------------
(***************************************************************************)
(* The lists of a request (CalibrationRequest, the candidate manifest) are *)
(* not empty, so that a walk begins at a family, a fold and a candidate.   *)
(***************************************************************************)
LEMMA StartExists ==
    ASSUME CalibrationParameters
    PROVE  /\ Len(Families) \in Nat /\ Len(Candidates) \in Nat /\ Splits \in Nat
           /\ MaxCalls \in Nat /\ MaxFaults \in Nat
           /\ 1 \in 1..Len(Families) /\ 1 \in 1..Len(Candidates) /\ 1 \in 1..Splits
           /\ \A i \in 1..Len(Candidates) : Candidates[i] \in Range(Candidates)
  <1>1. /\ Families \in Seq(Range(Families)) /\ Families # <<>>
        /\ Candidates \in Seq(Range(Candidates)) /\ Candidates # <<>>
        /\ Splits \in Nat \ {0} /\ MaxCalls \in Nat /\ MaxFaults \in Nat
    BY DEF CalibrationParameters
  <1>2. /\ Len(Families) \in Nat \ {0} /\ Len(Candidates) \in Nat \ {0}
        /\ DOMAIN Candidates = 1..Len(Candidates)
    BY <1>1
  <1>3. \A i \in 1..Len(Candidates) : Candidates[i] \in Range(Candidates)
    BY <1>2 DEF Range
  <1>4. QED
    BY <1>1, <1>2, <1>3

(***************************************************************************)
(* A thread outside create_calibration_matrix holds nothing of a matrix:   *)
(* not called yet, or returned with a reply.                               *)
(***************************************************************************)
LEMMA IdleSound ==
    ASSUME CalibrationParameters, NEW w \in Work, w.pc = "idle",
           w.gates = {}, w.family = 1, w.next = 1
    PROVE  Sound(w)
  BY StartExists DEF Sound, Placed, Numbered, Blind, Fresh

(***************************************************************************)
(* What create_calibration_matrix leaves in its finally is sound.          *)
(***************************************************************************)
LEMMA RepliedSound ==
    ASSUME CalibrationParameters, NEW reply \in Replies
    PROVE  /\ Sound([NoWork EXCEPT !.reply = reply])
           /\ [NoWork EXCEPT !.reply = reply].pc = "idle"
  <1> DEFINE w == [NoWork EXCEPT !.reply = reply]
  <1>1. w.pc = "idle" /\ w.gates = {} /\ w.family = 1 /\ w.next = 1
    BY DEF NoWork
  <1>2. w \in Work
    <2>1. /\ 0 \in 0..MaxCalls /\ 1 \in 1..(Len(Families) + 1)
          /\ 1 \in 1..(Len(Candidates) + 1) /\ 1 \in 1..Splits /\ <<>> \in Seq(DateFold)
      BY StartExists
    <2>2. QED
      BY <2>1 DEF NoWork, Work, Stages
  <1> HIDE DEF w
  <1>3. Sound(w) /\ w.pc = "idle"
    BY <1>1, <1>2, IdleSound
  <1>4. QED
    BY <1>3 DEF w

(***************************************************************************)
(* So is a thread that has not been called.                                *)
(***************************************************************************)
LEMMA NoWorkSound ==
    ASSUME CalibrationParameters
    PROVE  Sound(NoWork) /\ NoWork.pc = "idle"
  <1>1. /\ NoWork.pc = "idle" /\ NoWork.gates = {}
        /\ NoWork.family = 1 /\ NoWork.next = 1
    BY DEF NoWork
  <1>2. NoWork \in Work
    <2>1. /\ 0 \in 0..MaxCalls /\ 1 \in 1..(Len(Families) + 1)
          /\ 1 \in 1..(Len(Candidates) + 1) /\ 1 \in 1..Splits /\ <<>> \in Seq(DateFold)
      BY StartExists
    <2>2. QED
      BY <2>1 DEF NoWork, Work, Stages, Replies
  <1>3. QED
    BY <1>1, <1>2, IdleSound

-----------------------------------------------------------------------------
(***************************************************************************)
(* Steps of a thread                                                       *)
(***************************************************************************)

\* A thread goes on with its matrix, or leaves it with a reply.
Moves(t) ==
    \/ \E w : Become(t, w) /\ Sound(w) /\ w.pc # "idle" /\ slot' = slot
    \/ \E reply \in Replies : Return(t, reply)

(***************************************************************************)
(* The rows of a calibration are typed (build_pooled_dataset).             *)
(***************************************************************************)
LEMMA RowsTyped ==
    ASSUME DatasetTypeOK
    PROVE  ReadyRows(LastDate, FALSE) \in SUBSET DatasetRow
  <1>1. horizon \in Nat /\ LastDate \in Nat
    BY DatasetAssumption DEF DatasetTypeOK
  <1>2. \A s \in Symbols, d \in 1..LastDate : Row(s, d) \in DatasetRow
    BY <1>1 DEF Row, DatasetRow, TargetEnd
  <1>3. QED
    BY <1>2 DEF ReadyRows

(***************************************************************************)
(* Loading the request takes its rows and folds, or ends the call.         *)
(***************************************************************************)
LEMMA LoadMoves ==
    ASSUME CalibrationParameters, IInv, NEW t \in Threads, Load(t)
    PROVE  Moves(t)
  <1> DEFINE w == [work[t] EXCEPT !.pc = "fit", !.rows = ReadyRows(LastDate, FALSE),
                                  !.folds = DateFolds]
  <1>1. CASE \E reply \in Replies : Return(t, reply)
    BY <1>1 DEF Moves
  <1>2. CASE Become(t, w) /\ slot' = slot
    <2>1. work[t].pc = "load" /\ Sound(work[t]) /\ work[t].gates = {} /\ DatasetTypeOK
      BY DEF Load, IInv, TypeOK, Sound, Fresh
    <2>2. DateFolds \in Seq(DateFold)
      <3>1. \A k \in 1..Splits : FoldAt(Dates, Splits, Share, horizon, k) \in DateFold
        BY DEF FoldAt, DateFold, Slice, Dates
      <3>2. QED
        BY <3>1, StartExists DEF DateFolds
    <2>3. w \in Work
      BY <2>1, <2>2, RowsTyped DEF Sound, Work, Stages
    <2>4. /\ w.pc = "fit" /\ w.family = work[t].family /\ w.next = work[t].next
          /\ w.id = work[t].id /\ w.gates = work[t].gates
      BY <2>1 DEF Sound, Work
    <2> HIDE DEF w
    <2>5. Placed(w) /\ Numbered(w) /\ Blind(w) /\ Fresh(w)
      BY <2>1, <2>4 DEF Sound, Placed, Numbered, Blind, Fresh
    <2>6. QED
      BY <1>2, <2>3, <2>4, <2>5 DEF Moves, Sound
  <1>3. \/ Become(t, w) /\ slot' = slot
        \/ Return(t, "not_found") \/ Return(t, "insufficient") \/ Return(t, "failed")
    BY DEF Load
  <1>4. QED
    BY <1>1, <1>2, <1>3 DEF Replies

(***************************************************************************)
(* The next fold, of the same family or the next one, starts without gates *)
(* (gate_cache of _evaluate_model_family).                                 *)
(***************************************************************************)
LEMMA NextFoldSound ==
    ASSUME CalibrationParameters, NEW w \in Work, w.pc \in {"fit", "judge"},
           w.family \in 1..Len(Families), Numbered(w)
    PROVE  Sound(NextFold(w)) /\ NextFold(w).pc # "idle"
  <1> DEFINE pc == IF w.fold = Splits /\ w.family = Len(Families) THEN "save" ELSE "fit"
             fold == IF w.fold = Splits THEN 1 ELSE w.fold + 1
             family == IF w.fold = Splits THEN w.family + 1 ELSE w.family
             unavailable == IF w.fold = Splits THEN FALSE ELSE w.unavailable
             v == NextFold(w)
  <1>1. /\ w.fold \in 1..Splits /\ Splits \in Nat /\ Len(Families) \in Nat
        /\ 1 \in 1..Splits /\ 1 \in 1..Len(Candidates) /\ Len(Candidates) \in Nat
        /\ w.unavailable \in BOOLEAN
    BY StartExists DEF Work
  <1>2. /\ pc \in Stages /\ fold \in 1..Splits /\ family \in 1..(Len(Families) + 1)
        /\ pc # "idle"
        /\ 1 \in 1..(Len(Candidates) + 1)
    BY <1>1 DEF Stages
  <1>3. unavailable \in BOOLEAN
    BY <1>1
  <1>4. pc # "save" => family \in 1..Len(Families)
    BY <1>1
  <1>5. v = [w EXCEPT !.pc = pc, !.fold = fold, !.family = family,
                      !.unavailable = unavailable, !.next = 1, !.gates = {}]
    BY DEF NextFold, FirstFold, UnavailableToStart, NoGates, Work
  <1> HIDE DEF v, pc, fold, family, unavailable
  <1>6. /\ v \in Work /\ v.pc = pc /\ v.family = family /\ v.next = 1
        /\ v.gates = {} /\ v.id = w.id
    BY <1>2, <1>3, <1>5 DEF Work
  <1>7. Placed(v) /\ Numbered(v) /\ Blind(v) /\ Fresh(v)
    BY <1>1, <1>4, <1>6 DEF Placed, Numbered, Blind, Fresh
  <1>8. Sound(v) /\ v.pc # "idle"
    BY <1>2, <1>6, <1>7 DEF Sound
  <1>9. QED
    BY <1>8 DEF v

(***************************************************************************)
(* What a fold comes to is recorded for the family and its candidates.     *)
(***************************************************************************)
LEMMA RecordsTyped ==
    ASSUME NEW w \in Work, w.family \in 1..Len(Families)
    PROVE  /\ \A status \in FoldStatuses : Metric(w, status) \in Metrics
           /\ \A c \in Range(Candidates), status \in Statuses :
                  Judgement(w, c, status) \in Judgements
           /\ NotJudged(w) \in SUBSET Judgements
  <1>1. w.fold \in 1..Splits
    BY DEF Work
  <1>2. \A c \in Range(Candidates), status \in Statuses :
            Judgement(w, c, status) \in Judgements
    BY <1>1 DEF Judgement, Judgements
  <1>3. "not_evaluated" \in Statuses
    BY DEF Statuses
  <1>4. QED
    BY <1>1, <1>2, <1>3 DEF Metric, Metrics, NotJudged

(***************************************************************************)
(* A fold that is passed over is recorded and left.                        *)
(***************************************************************************)
LEMMA PassedOverSound ==
    ASSUME CalibrationParameters, NEW w \in Work, w.pc = "fit",
           w.family \in 1..Len(Families), Numbered(w), NEW status \in FoldStatuses
    PROVE  Sound(PassedOver(w, status)) /\ PassedOver(w, status).pc # "idle"
  <1> DEFINE v == [w EXCEPT !.metrics = w.metrics \cup {Metric(w, status)},
                            !.judged = w.judged \cup NotJudged(w)]
  <1>1. Metric(w, status) \in Metrics /\ NotJudged(w) \in SUBSET Judgements
    BY RecordsTyped
  <1>2. /\ v \in Work /\ v.pc = "fit" /\ v.family = w.family /\ v.id = w.id
    BY <1>1 DEF Work
  <1>3. PassedOver(w, status) = NextFold(v)
    BY DEF PassedOver, Work
  <1> HIDE DEF v
  <1>4. Numbered(v)
    BY <1>2 DEF Numbered
  <1>5. QED
    BY <1>2, <1>3, <1>4, NextFoldSound

(***************************************************************************)
(* The regression of a fold (_evaluate_model_family).                      *)
(***************************************************************************)
LEMMA FitMoves ==
    ASSUME CalibrationParameters, IInv, NEW t \in Threads, Fit(t)
    PROVE  Moves(t)
  <1> DEFINE w == work[t]
             gone == [w EXCEPT !.unavailable = TRUE]
             judging == [w EXCEPT !.pc = "judge",
                                  !.metrics = w.metrics \cup {Metric(w, "evaluated")}]
  <1>1. w.pc = "fit" /\ Sound(w) /\ w \in Work
    BY DEF Fit, IInv, Sound
  <1>2. w.family \in 1..Len(Families) /\ w.next \in 1..Len(Candidates)
    BY <1>1 DEF Sound, Placed
  <1>3. {"skipped", "empty", "unavailable", "evaluated"} \subseteq FoldStatuses
    BY DEF FoldStatuses
  <1>4. \/ /\ slot' = slot
           /\ \/ Become(t, PassedOver(w, "skipped"))
              \/ Become(t, PassedOver(w, "empty"))
              \/ Become(t, PassedOver(gone, "unavailable"))
              \/ Become(t, judging)
        \/ Return(t, "failed")
    BY <1>1 DEF Fit, Work
  <1>5. ASSUME NEW status \in FoldStatuses
        PROVE  Sound(PassedOver(w, status)) /\ PassedOver(w, status).pc # "idle"
    BY <1>1, <1>2, PassedOverSound DEF Sound
  <1>6. Sound(PassedOver(gone, "unavailable")) /\ PassedOver(gone, "unavailable").pc # "idle"
    <2>1. gone \in Work /\ gone.pc = "fit" /\ gone.family = w.family /\ gone.id = w.id
      BY <1>1 DEF Work
    <2> HIDE DEF gone
    <2>2. Numbered(gone)
      BY <1>1, <2>1 DEF Sound, Numbered
    <2>3. QED
      BY <1>2, <1>3, <2>1, <2>2, PassedOverSound
  <1>7. Sound(judging) /\ judging.pc # "idle"
    <2>1. Metric(w, "evaluated") \in Metrics
      BY <1>1, <1>2, <1>3, RecordsTyped
    <2>2. /\ judging \in Work /\ judging.pc = "judge" /\ judging.family = w.family
          /\ judging.next = w.next /\ judging.id = w.id /\ judging.gates = w.gates
      BY <1>1, <2>1 DEF Work, Stages
    <2> HIDE DEF judging
    <2>3. w.gates = {}
      BY <1>1 DEF Sound, Fresh
    <2>4. QED
      BY <1>1, <1>2, <2>2, <2>3 DEF Sound, Placed, Numbered, Blind, Fresh
  <1> HIDE DEF w, gone, judging
  <1>8. QED
    BY <1>3, <1>4, <1>5, <1>6, <1>7 DEF Moves, Replies

(***************************************************************************)
(* A candidate judged with a gate that is typed and blind leaves the walk  *)
(* sound, on the same fold or on the next one.                             *)
(***************************************************************************)
LEMMA JudgedMoves ==
    ASSUME CalibrationParameters, NEW t \in Threads, Sound(work[t]), work[t].pc = "judge",
           NEW c \in Range(Candidates), NEW gate \in GateRecord,
           gate.family = work[t].family, gate.fold = work[t].fold,
           \A r \in gate.base, u \in gate.tail : r.end < u.date,
           \A r \in gate.base \cup gate.tail : \A d \in Fold(work[t]).holdout : r.end < d,
           Judged(t, work[t], c, gate), slot' = slot
    PROVE  Moves(t)
  <1> DEFINE w == work[t]
             v == [w EXCEPT !.judged = w.judged \cup {Judgement(w, c, gate.verdict)},
                            !.gates = w.gates \cup {gate}, !.next = w.next + 1]
  <1>1. /\ w \in Work /\ w.family \in 1..Len(Families) /\ w.next \in 1..Len(Candidates)
        /\ w.pc = "judge" /\ Numbered(w) /\ Blind(w)
    BY DEF Sound, Placed
  <1>2. Become(t, IF w.next = Len(Candidates) THEN NextFold(v) ELSE v)
    BY <1>1 DEF Judged, Work
  <1>3. Judgement(w, c, gate.verdict) \in Judgements
    BY <1>1, RecordsTyped DEF GateRecord
  <1>4. w.next + 1 \in 1..(Len(Candidates) + 1) /\ Len(Candidates) \in Nat
    BY <1>1, StartExists
  <1>5. /\ v \in Work /\ v.pc = "judge" /\ v.family = w.family /\ v.fold = w.fold
        /\ v.folds = w.folds /\ v.id = w.id /\ v.next = w.next + 1
        /\ v.gates = w.gates \cup {gate}
    BY <1>1, <1>3, <1>4 DEF Work
  <1>6. Fold(v) = Fold(w)
    BY <1>5 DEF Fold
  <1>7. Blind(v)
    <2>1. /\ gate.family = w.family /\ gate.fold = w.fold
          /\ \A r \in gate.base, u \in gate.tail : r.end < u.date
          /\ \A r \in gate.base \cup gate.tail : \A d \in Fold(w).holdout : r.end < d
      OBVIOUS
    <2> HIDE DEF w, v
    <2>2. QED
      BY <1>1, <1>5, <1>6, <2>1, Zenon DEF Blind
  <1> HIDE DEF w, v
  <1>8. Numbered(v)
    BY <1>1, <1>5 DEF Numbered
  <1>9. CASE w.next = Len(Candidates)
    <2>1. Sound(NextFold(v)) /\ NextFold(v).pc # "idle"
      BY <1>1, <1>5, <1>8, NextFoldSound
    <2>2. QED
      BY <1>2, <1>9, <2>1 DEF Moves
  <1>10. CASE w.next # Len(Candidates)
    <2>1. Placed(v) /\ Fresh(v)
      BY <1>1, <1>4, <1>5, <1>10 DEF Placed, Fresh
    <2>2. Sound(v) /\ v.pc # "idle"
      BY <1>5, <1>7, <1>8, <2>1 DEF Sound
    <2>3. QED
      BY <1>2, <1>10, <2>2 DEF Moves
  <1>11. QED
    BY <1>9, <1>10

(***************************************************************************)
(* A gate that is fitted on the training rows of a fold                    *)
(* (_fit_pooled_direction_classifier) is blind: its base rows settle       *)
(* before the tail, and all of them before the holdout.                    *)
(***************************************************************************)
LEMMA NewGateBlind ==
    ASSUME NEW w \in Work, NEW key,
           NEW base, NEW last,
           base = BaseRows(Eligible(Train(w), key), TailDates(Eligible(Train(w), key))),
           last = RowsOn(Eligible(Train(w), key), TailDates(Eligible(Train(w), key)))
    PROVE  /\ base \in SUBSET DatasetRow /\ last \in SUBSET DatasetRow
           /\ \A r \in base, u \in last : r.end < u.date
           /\ \A r \in base \cup last : \A d \in Fold(w).holdout : r.end < d
  <1> DEFINE rows == Eligible(Train(w), key)
             tail == TailDates(rows)
  <1>1. /\ \A r \in rows : r \in w.rows /\ Settled(r, Fold(w))
        /\ w.rows \in SUBSET DatasetRow
    BY DEF Eligible, Train, TrainRows, RowsOn, Work
  <1>2. /\ \A r \in base : r \in rows /\ \A d \in tail : r.end < d
        /\ \A u \in last : u \in rows /\ u.date \in tail
    BY DEF BaseRows, RowsOn
  <1> HIDE DEF rows, tail
  <1>3. QED
    BY <1>1, <1>2, Zenon DEF Settled

(***************************************************************************)
(* Judging the next candidate, with a cached gate or a new one.            *)
(***************************************************************************)
LEMMA JudgeMoves ==
    ASSUME CalibrationParameters, IInv, NEW t \in Threads, Judge(t)
    PROVE  Moves(t)
  <1> DEFINE w == work[t]
             c == Candidates[w.next]
  <1>1. /\ w.pc = "judge" /\ Sound(w) /\ w \in Work /\ Blind(w)
        /\ w.family \in 1..Len(Families) /\ w.next \in 1..Len(Candidates)
        /\ w.fold \in 1..Splits
    BY DEF Judge, IInv, Sound, Placed, Work
  <1>2. c \in Range(Candidates) /\ KeyOf[c] \in Keys
    BY <1>1, StartExists DEF Keys
  <1>3. CASE Return(t, "failed")
    BY <1>3 DEF Moves, Replies
  <1>4. ASSUME NEW gate \in w.gates, Judged(t, w, c, gate), slot' = slot
        PROVE  Moves(t)
    <2>1. gate \in GateRecord
      BY <1>1 DEF Work
    <2>2. QED
      BY <1>1, <1>2, <1>4, <2>1, JudgedMoves DEF Blind
  <1>5. ASSUME JudgedAnew(t, w, c, KeyOf[c]), slot' = slot
        PROVE  Moves(t)
    <2> DEFINE rows == Eligible(Train(w), KeyOf[c])
               tail == TailDates(rows)
               base == BaseRows(rows, tail)
               last == RowsOn(rows, tail)
               gate(verdict) == [key |-> KeyOf[c], family |-> w.family, fold |-> w.fold,
                                 base |-> base, tail |-> last, verdict |-> verdict]
    <2>1. PICK verdict \in Verdicts(CanFit(rows, base, last),
                                    Eligible(Holdout(w), KeyOf[c])) :
              Judged(t, w, c, gate(verdict))
      BY <1>5 DEF JudgedAnew
    <2>2. verdict \in Statuses
      BY <2>1 DEF Verdicts, Statuses
    <2>3. /\ base \in SUBSET DatasetRow /\ last \in SUBSET DatasetRow
          /\ \A r \in base, u \in last : r.end < u.date
          /\ \A r \in base \cup last : \A d \in Fold(w).holdout : r.end < d
      <3>1. /\ base = BaseRows(Eligible(Train(w), KeyOf[c]),
                              TailDates(Eligible(Train(w), KeyOf[c])))
            /\ last = RowsOn(Eligible(Train(w), KeyOf[c]),
                             TailDates(Eligible(Train(w), KeyOf[c])))
        OBVIOUS
      <3> HIDE DEF base, last, c, w
      <3>2. QED
        BY <1>1, <3>1, NewGateBlind
    <2> HIDE DEF base, last, c, w
    <2>4. /\ gate(verdict) \in GateRecord
          /\ gate(verdict).family = w.family /\ gate(verdict).fold = w.fold
          /\ gate(verdict).base = base /\ gate(verdict).tail = last
      BY <1>1, <1>2, <2>2, <2>3 DEF GateRecord
    <2> HIDE DEF gate
    <2>5. QED
      BY <1>1, <1>2, <1>5, <2>1, <2>3, <2>4, JudgedMoves DEF w
  <1>6. \/ Return(t, "failed")
        \/ slot' = slot /\ \E gate \in w.gates : Judged(t, w, c, gate)
        \/ slot' = slot /\ JudgedAnew(t, w, c, KeyOf[c])
    BY DEF Judge
  <1>7. QED
    BY <1>3, <1>4, <1>5, <1>6

-----------------------------------------------------------------------------
(***************************************************************************)
(* The invariant is inductive                                              *)
(***************************************************************************)

(***************************************************************************)
(* A thread that takes on sound work leaves every thread's work sound.     *)
(***************************************************************************)
LEMMA WorkStaysSound ==
    ASSUME IInv, NEW t \in Threads, NEW w, Become(t, w), Sound(w)
    PROVE  /\ work' \in [Threads -> Work]
           /\ work'[t] = w /\ \A u \in Threads \ {t} : work'[u] = work[u]
           /\ \A u \in Threads : Sound(work'[u])
  <1>1. w \in Work /\ work \in [Threads -> Work]
    BY DEF IInv, TypeOK, Sound
  <1>2. QED
    BY <1>1 DEF Become, IInv

(***************************************************************************)
(* A thread inside a matrix is the one that holds the semaphore.           *)
(***************************************************************************)
LEMMA Holder ==
    ASSUME IInv, NEW t \in Threads, work[t].pc # "idle"
    PROVE  slot = {t} /\ \A u \in Threads \ {t} : work[u].pc = "idle"
  BY DEF IInv, OneCalibrationAtATime

(***************************************************************************)
(* A step within a matrix that goes on or returns keeps the invariant,     *)
(* whatever it stores under typed ids.                                     *)
(***************************************************************************)
LEMMA MovesInv ==
    ASSUME CalibrationParameters, IInv, NEW t \in Threads, work[t].pc # "idle", Moves(t),
           UNCHANGED <<dataset, calls>>, DOMAIN matrices' \subseteq 1..MaxCalls,
           faults' \in 0..MaxFaults
    PROVE  IInv'
  <1>1. DatasetTypeOK' /\ calls' \in 0..MaxCalls
    BY DEF IInv, TypeOK, DatasetTypeOK, dataset
  <1>2. slot = {t} /\ \A u \in Threads \ {t} : work[u].pc = "idle"
    BY Holder
  <1>3. CASE \E w : Become(t, w) /\ Sound(w) /\ w.pc # "idle" /\ slot' = slot
    <2>1. PICK w : Become(t, w) /\ Sound(w) /\ w.pc # "idle" /\ slot' = slot
      BY <1>3
    <2>2. /\ work' \in [Threads -> Work]
          /\ work'[t] = w /\ \A u \in Threads \ {t} : work'[u] = work[u]
          /\ \A u \in Threads : Sound(work'[u])
      BY <2>1, WorkStaysSound
    <2>3. {u \in Threads : work'[u].pc # "idle"} = {t}
      BY <1>2, <2>1, <2>2
    <2>4. OneCalibrationAtATime'
      BY <1>2, <2>1, <2>3 DEF OneCalibrationAtATime
    <2>5. TypeOK'
      BY <1>1, <1>2, <2>1, <2>2 DEF TypeOK
    <2>6. QED
      BY <2>2, <2>4, <2>5 DEF IInv
  <1>4. CASE \E reply \in Replies : Return(t, reply)
    <2>1. PICK reply \in Replies : Return(t, reply)
      BY <1>4
    <2> DEFINE w == [NoWork EXCEPT !.reply = reply]
    <2>2. Become(t, w) /\ slot' = slot \ {t} /\ Sound(w) /\ w.pc = "idle"
      BY <2>1, RepliedSound DEF Return, SlotAfter
    <2> HIDE DEF w
    <2>3. /\ work' \in [Threads -> Work]
          /\ work'[t] = w /\ \A u \in Threads \ {t} : work'[u] = work[u]
          /\ \A u \in Threads : Sound(work'[u])
      BY <2>2, WorkStaysSound
    <2>4. slot' = {} /\ \A u \in Threads : work'[u].pc = "idle"
      BY <1>2, <2>2, <2>3
    <2>5. OneCalibrationAtATime'
      BY <2>4 DEF OneCalibrationAtATime
    <2>6. TypeOK'
      BY <1>1, <2>3, <2>4 DEF TypeOK
    <2>7. QED
      BY <2>3, <2>5, <2>6 DEF IInv
  <1>5. QED
    BY <1>3, <1>4 DEF Moves

(***************************************************************************)
(* A fault counts as one.                                                  *)
(***************************************************************************)
LEMMA FaultTyped ==
    ASSUME CalibrationParameters, faults \in 0..MaxFaults, Fault
    PROVE  faults' \in 0..MaxFaults
  BY StartExists DEF Fault

(***************************************************************************)
(* Every stage of a calibration keeps the invariant, the save              *)
(* (persist_calibration_matrix) whether it stores the matrix or not.       *)
(***************************************************************************)
LEMMA StepInv ==
    ASSUME CalibrationParameters, IInv, NEW t \in Threads, Step(t)
    PROVE  IInv'
  <1>1. DOMAIN matrices \subseteq 1..MaxCalls /\ faults \in 0..MaxFaults
    BY DEF IInv, TypeOK
  <1>2. CASE Load(t)
    <2>1. /\ work[t].pc # "idle" /\ UNCHANGED <<dataset, calls>> /\ matrices' = matrices
          /\ Fault \/ UNCHANGED faults
      BY <1>2 DEF Load
    <2>2. faults' \in 0..MaxFaults
      BY <1>1, <2>1, FaultTyped
    <2>3. QED
      BY <1>1, <1>2, <2>1, <2>2, LoadMoves, MovesInv
  <1>3. CASE Fit(t)
    <2>1. /\ work[t].pc # "idle" /\ UNCHANGED <<dataset, calls>> /\ matrices' = matrices
          /\ UNCHANGED faults
      BY <1>3 DEF Fit
    <2>2. QED
      BY <1>1, <1>3, <2>1, FitMoves, MovesInv
  <1>4. CASE Judge(t)
    <2>1. /\ work[t].pc # "idle" /\ UNCHANGED <<dataset, calls>> /\ matrices' = matrices
          /\ UNCHANGED faults
      BY <1>4 DEF Judge
    <2>2. QED
      BY <1>1, <1>4, <2>1, JudgeMoves, MovesInv
  <1>5. CASE Save(t)
    <2> DEFINE id == work[t].id
               stored == [i \in DOMAIN matrices \cup {id} |->
                             IF i = id THEN Payload(work[t]) ELSE matrices[i]]
    <2>1. /\ work[t].pc # "idle" /\ UNCHANGED <<dataset, calls>>
          /\ matrices' \in {matrices, stored}
          /\ Fault \/ UNCHANGED faults
          /\ Return(t, "created") \/ Return(t, "not_saved")
      BY <1>5 DEF Save
    <2>2. id \in 1..MaxCalls
      BY <2>1 DEF IInv, Sound, Numbered
    <2>3. DOMAIN stored = DOMAIN matrices \cup {id}
      BY Zenon
    <2> HIDE DEF id, stored
    <2>4. DOMAIN matrices' \subseteq 1..MaxCalls
      <3>1. CASE matrices' = matrices
        BY <1>1, <3>1
      <3>2. CASE matrices' = stored
        BY <1>1, <2>2, <2>3, <3>2, Zenon
      <3>3. QED
        BY <2>1, <3>1, <3>2
    <2>5. faults' \in 0..MaxFaults
      BY <1>1, <2>1, FaultTyped
    <2>6. Moves(t)
      BY <2>1 DEF Moves, Replies
    <2>7. QED
      BY <2>1, <2>4, <2>5, <2>6, MovesInv
  <1>6. QED
    BY <1>2, <1>3, <1>4, <1>5 DEF Step

(***************************************************************************)
(* A request that gets the semaphore begins with an id; one that does not  *)
(* leaves it to the thread that holds it.                                  *)
(***************************************************************************)
LEMMA CallInv ==
    ASSUME CalibrationParameters, IInv, NEW t \in Threads, Accept(t) \/ Refuse(t)
    PROVE  IInv'
  <1>1. /\ DatasetTypeOK' /\ matrices' = matrices /\ faults' = faults
        /\ DOMAIN matrices \subseteq 1..MaxCalls /\ faults \in 0..MaxFaults
        /\ calls \in 0..MaxCalls /\ slot \subseteq Threads
    BY DEF Accept, Refuse, IInv, TypeOK, DatasetTypeOK, dataset
  <1>2. CASE Accept(t)
    <2> DEFINE w == [NoWork EXCEPT !.pc = "load", !.id = calls + 1]
    <2>1. /\ slot = {} /\ slot' = {t} /\ calls' = calls + 1 /\ calls < MaxCalls
          /\ Become(t, w)
      BY <1>2 DEF Accept
    <2>2. calls + 1 \in 0..MaxCalls /\ calls + 1 \in 1..MaxCalls
      BY <1>1, <2>1, StartExists
    <2>3. /\ w \in Work /\ w.pc = "load" /\ w.id = calls + 1 /\ w.gates = {}
          /\ w.family = 1 /\ w.next = 1
      BY <2>2, NoWorkSound DEF Sound, NoWork, Work, Stages
    <2> HIDE DEF w
    <2>4. Sound(w)
      BY <2>2, <2>3, StartExists DEF Sound, Placed, Numbered, Blind, Fresh
    <2>5. /\ work' \in [Threads -> Work]
          /\ work'[t] = w /\ \A u \in Threads \ {t} : work'[u] = work[u]
          /\ \A u \in Threads : Sound(work'[u])
      BY <2>1, <2>4, WorkStaysSound
    <2>6. \A u \in Threads : work[u].pc = "idle"
      BY <2>1 DEF IInv, OneCalibrationAtATime
    <2>7. {u \in Threads : work'[u].pc # "idle"} = {t}
      BY <2>3, <2>5, <2>6
    <2>8. OneCalibrationAtATime'
      BY <2>1, <2>7 DEF OneCalibrationAtATime
    <2>9. TypeOK'
      BY <1>1, <2>1, <2>2, <2>5 DEF TypeOK
    <2>10. QED
      BY <2>5, <2>8, <2>9 DEF IInv
  <1>3. CASE Refuse(t)
    <2> DEFINE w == [NoWork EXCEPT !.reply = "busy"]
    <2>1. work[t].pc = "idle" /\ slot' = slot /\ calls' = calls /\ Become(t, w)
      BY <1>3 DEF Refuse, SlotAfterRefusal
    <2>2. Sound(w) /\ w.pc = "idle"
      BY RepliedSound DEF Replies
    <2> HIDE DEF w
    <2>3. /\ work' \in [Threads -> Work]
          /\ work'[t] = w /\ \A u \in Threads \ {t} : work'[u] = work[u]
          /\ \A u \in Threads : Sound(work'[u])
      BY <2>1, <2>2, WorkStaysSound
    <2>4. {u \in Threads : work'[u].pc # "idle"} = {u \in Threads : work[u].pc # "idle"}
      BY <2>1, <2>2, <2>3
    <2>5. OneCalibrationAtATime'
      BY <2>1, <2>4 DEF IInv, OneCalibrationAtATime
    <2>6. TypeOK'
      BY <1>1, <2>1, <2>3 DEF TypeOK
    <2>7. QED
      BY <2>3, <2>5, <2>6 DEF IInv
  <1>4. QED
    BY <1>2, <1>3

(***************************************************************************)
(* A killed server leaves no thread and no holder.                         *)
(***************************************************************************)
LEMMA CrashInv ==
    ASSUME CalibrationParameters, IInv, Crash
    PROVE  IInv'
  <1>1. /\ work' = [t \in Threads |-> NoWork] /\ slot' = {} /\ calls' = calls /\ Fault
        /\ matrices' = matrices
    BY DEF Crash
  <1>2. /\ DatasetTypeOK' /\ faults' \in 0..MaxFaults
        /\ DOMAIN matrices \subseteq 1..MaxCalls /\ calls \in 0..MaxCalls
    BY <1>1, FaultTyped DEF Crash, IInv, TypeOK, DatasetTypeOK, dataset
  <1>3. \A u \in Threads : work'[u] = NoWork
    BY <1>1
  <1>4. \A u \in Threads : Sound(work'[u]) /\ work'[u].pc = "idle"
    BY <1>3, NoWorkSound
  <1>5. work' \in [Threads -> Work]
    BY <1>1, NoWorkSound DEF Sound
  <1>6. OneCalibrationAtATime'
    BY <1>1, <1>4 DEF OneCalibrationAtATime
  <1>7. TypeOK'
    BY <1>1, <1>2, <1>5 DEF TypeOK
  <1>8. QED
    BY <1>4, <1>6, <1>7 DEF IInv

(***************************************************************************)
(* The invariant holds throughout.                                         *)
(***************************************************************************)
THEOREM CalibrationInvariant ==
    ASSUME CalibrationParameters PROVE Spec => []IInv
  <1>1. Init => IInv
    <2>1. SUFFICES ASSUME Init PROVE IInv
      OBVIOUS
    <2>2. /\ DatasetTypeOK /\ slot = {} /\ DOMAIN matrices = {} /\ calls = 0 /\ faults = 0
          /\ work = [t \in Threads |-> NoWork]
      BY <2>1 DEF Init, DatasetInit
    <2>3. \A u \in Threads : work[u] = NoWork
      BY <2>2
    <2>4. \A u \in Threads : Sound(work[u]) /\ work[u].pc = "idle"
      BY <2>3, NoWorkSound
    <2>5. work \in [Threads -> Work]
      BY <2>2, NoWorkSound DEF Sound
    <2>6. OneCalibrationAtATime
      BY <2>2, <2>4 DEF OneCalibrationAtATime
    <2>7. TypeOK
      BY <2>2, <2>5, StartExists DEF TypeOK
    <2>8. QED
      BY <2>4, <2>6, <2>7 DEF IInv
  <1>2. IInv /\ [Next]_vars => IInv'
    <2>1. SUFFICES ASSUME IInv, [Next]_vars PROVE IInv'
      OBVIOUS
    <2>2. ASSUME NEW t \in Threads, Accept(t) \/ Refuse(t) PROVE IInv'
      BY <2>1, <2>2, CallInv
    <2>3. ASSUME NEW t \in Threads, Step(t) PROVE IInv'
      BY <2>1, <2>3, StepInv
    <2>4. CASE Crash
      BY <2>1, <2>4, CrashInv
    <2>5. CASE UNCHANGED vars
      BY <2>1, <2>5 DEF vars, dataset, IInv, TypeOK, DatasetTypeOK, OneCalibrationAtATime
    <2>6. QED
      BY <2>1, <2>2, <2>3, <2>4, <2>5, Zenon DEF Next
  <1>3. QED
    BY <1>1, <1>2, PTL DEF Spec

(***************************************************************************)
(* The semaphore of create_calibration_matrix is held by exactly the one   *)
(* thread inside a calibration, for any number of threads.                 *)
(***************************************************************************)
THEOREM Exclusive ==
    ASSUME CalibrationParameters PROVE Spec => []OneCalibrationAtATime
  <1>1. IInv => OneCalibrationAtATime
    BY DEF IInv
  <1>2. QED
    BY <1>1, CalibrationInvariant, PTL

(***************************************************************************)
(* No gate judges what it was fitted on, nor another fold or family than   *)
(* its own, for any histories, folds, tails and order of candidates        *)
(* (gate_cache, _fit_pooled_direction_classifier).                         *)
(***************************************************************************)
THEOREM GatesBlind ==
    ASSUME CalibrationParameters PROVE Spec => []GatesAreBlind
  <1>1. IInv => GatesAreBlind
    BY DEF IInv, Sound, Blind, GatesAreBlind
  <1>2. QED
    BY <1>1, CalibrationInvariant, PTL

-----------------------------------------------------------------------------
(***************************************************************************)
(* The result of a matrix                                                  *)
(***************************************************************************)

\* The walk has left this fold of this family behind.
Before(w, f, k) == f < w.family \/ (f = w.family /\ k < w.fold)

Here(w, r) == r.family = w.family /\ r.fold = w.fold

\* A fold of a family has one result, and one for each candidate.
FoldWhole(metrics, judged, f, k) ==
    LET lost == \E m \in metrics :
                    m.family = f /\ m.fold < k /\ m.status = "unavailable"
    IN  /\ \E m \in metrics :
              /\ {n \in metrics : n.family = f /\ n.fold = k} = {m}
              /\ m.status = "skipped" <=> lost
              /\ \/ m.status = "evaluated"
                 \/ \A j \in judged : j.family = f /\ j.fold = k => j.status = "not_evaluated"
        /\ \A c \in Range(Candidates) : \E j \in judged :
              {i \in judged : i.family = f /\ i.fold = k /\ i.candidate = c} = {j}

\* Every fold behind is whole, and nothing is recorded ahead.
Recorded(w) ==
    /\ \A f \in 1..Len(Families), k \in 1..Splits :
           Before(w, f, k) => FoldWhole(w.metrics, w.judged, f, k)
    /\ \A r \in w.metrics \cup w.judged :
           Before(w, r.family, r.fold) \/ (w.pc = "judge" /\ Here(w, r))

\* The family of the walk is given up exactly when one of its folds found out.
GivenUp(w) ==
    w.unavailable <=> \E m \in w.metrics : m.family = w.family /\ m.status = "unavailable"

\* A fold that is judged was fitted; the candidates before the next one have the
\* verdict of the one gate of their key.
Underway(w) ==
    w.pc = "judge" =>
        /\ ~w.unavailable
        /\ {m \in w.metrics : Here(w, m)} = {Metric(w, "evaluated")}
        /\ \A i \in 1..Len(Candidates) : i < w.next =>
               \E j \in w.judged : Here(w, j) /\ j.candidate = Candidates[i]
        /\ \A j \in w.judged : Here(w, j) =>
               \E g \in w.gates : g.key = KeyOf[j.candidate] /\ j.status = g.verdict

OneGate(w) == \A g, h \in w.gates : g.key = h.key => g = h

Walked(w) ==
    /\ Recorded(w) /\ GivenUp(w) /\ Underway(w) /\ OneGate(w)
    /\ w.pc \in {"load", "fit"} => w.next = 1
    /\ w.pc = "save" => w.family > Len(Families)

\* A stored result has every fold of every family.
ResultWhole(payload) ==
    \A f \in 1..Len(Families), k \in 1..Splits :
        FoldWhole(payload.metrics, payload.judged, f, k)

Results ==
    /\ \A t \in Threads : Walked(work[t])
    /\ \A id \in DOMAIN matrices : ResultWhole(matrices[id])

(***************************************************************************)
(* A whole fold stays whole when what is recorded later is of other folds, *)
(* none of them an earlier fold of its family.                             *)
(***************************************************************************)
LEMMA FoldStays ==
    ASSUME NEW ms, NEW js, NEW metrics, NEW judged, NEW f, NEW k,
           FoldWhole(ms, js, f, k), ms \subseteq metrics, js \subseteq judged,
           \A m \in metrics \ ms : m.family = f => ~(m.fold = k) /\ ~(m.fold < k),
           \A j \in judged \ js : ~(j.family = f /\ j.fold = k)
    PROVE  FoldWhole(metrics, judged, f, k)
  <1> DEFINE lost(of) == \E m \in of : m.family = f /\ m.fold < k /\ m.status = "unavailable"
             other(js2) == \A j \in js2 : j.family = f /\ j.fold = k => j.status = "not_evaluated"
             at(of) == {n \in of : n.family = f /\ n.fold = k}
             of(js2, c) == {i \in js2 : i.family = f /\ i.fold = k /\ i.candidate = c}
  <1>1. lost(metrics) <=> lost(ms)
    OBVIOUS
  <1>2. other(judged) <=> other(js)
    OBVIOUS
  <1>3. at(metrics) = at(ms)
    OBVIOUS
  <1>4. \A c : of(judged, c) = of(js, c)
    OBVIOUS
  <1>5. PICK m \in ms :
            /\ at(ms) = {m}
            /\ m.status = "skipped" <=> lost(ms)
            /\ m.status = "evaluated" \/ other(js)
    BY DEF FoldWhole
  <1>6. \A c \in Range(Candidates) : \E j \in js : of(js, c) = {j}
    BY DEF FoldWhole
  <1>7. m \in metrics /\ at(metrics) = {m}
    BY <1>3, <1>5
  <1>8. \A c \in Range(Candidates) : \E j \in judged : of(judged, c) = {j}
    BY <1>4, <1>6
  <1> HIDE DEF lost, other, at, of
  <1>9. (m.status = "skipped" <=> lost(metrics)) /\ (m.status = "evaluated" \/ other(judged))
    BY <1>1, <1>2, <1>5
  <1>10. QED
    BY <1>7, <1>8, <1>9 DEF FoldWhole, lost, other, at, of

(***************************************************************************)
(* Where the next fold is, and what it starts with.                        *)
(***************************************************************************)
LEMMA NextFoldParts ==
    ASSUME CalibrationParameters, NEW w \in Work, w.family \in 1..Len(Families)
    PROVE  LET v == NextFold(w)
           IN  /\ v.metrics = w.metrics /\ v.judged = w.judged /\ v.gates = {}
               /\ v.next = 1
               /\ v.pc = "save" => w.fold = Splits /\ w.family = Len(Families)
               /\ v.pc \in {"save", "fit"}
               /\ w.fold = Splits =>
                      v.fold = 1 /\ v.family = w.family + 1 /\ v.unavailable = FALSE
               /\ w.fold # Splits =>
                      /\ v.fold = w.fold + 1 /\ v.family = w.family
                      /\ v.unavailable = w.unavailable
  BY DEF NextFold, FirstFold, UnavailableToStart, NoGates, Work

(***************************************************************************)
(* A walk that leaves a whole fold has everything behind it whole.         *)
(***************************************************************************)
LEMMA NextFoldWalked ==
    ASSUME CalibrationParameters, NEW w \in Work, w.family \in 1..Len(Families),
           \A f \in 1..Len(Families), k \in 1..Splits :
               Before(w, f, k) => FoldWhole(w.metrics, w.judged, f, k),
           FoldWhole(w.metrics, w.judged, w.family, w.fold),
           \A r \in w.metrics \cup w.judged : Before(w, r.family, r.fold) \/ Here(w, r),
           GivenUp(w)
    PROVE  Walked(NextFold(w))
  <1> DEFINE v == NextFold(w)
  <1>1. /\ v.metrics = w.metrics /\ v.judged = w.judged /\ v.gates = {} /\ v.next = 1
        /\ v.pc = "save" => w.fold = Splits /\ w.family = Len(Families)
        /\ v.pc \in {"save", "fit"}
        /\ w.fold = Splits => v.fold = 1 /\ v.family = w.family + 1 /\ v.unavailable = FALSE
        /\ w.fold # Splits =>
               v.fold = w.fold + 1 /\ v.family = w.family /\ v.unavailable = w.unavailable
    BY NextFoldParts
  <1> HIDE DEF v
  <1>2. /\ w.fold \in 1..Splits /\ Splits \in Nat /\ Len(Families) \in Nat
        /\ w.metrics \subseteq Metrics /\ w.judged \subseteq Judgements
    BY StartExists DEF Work
  <1>3. \A r \in w.metrics \cup w.judged : r.family \in 1..Len(Families) /\ r.fold \in 1..Splits
    BY <1>2 DEF Metrics, Judgements
  <1>4. \A f \in 1..Len(Families), k \in 1..Splits :
            Before(v, f, k) <=> Before(w, f, k) \/ (f = w.family /\ k = w.fold)
    <2>1. CASE w.fold = Splits
      BY <1>1, <1>2, <2>1 DEF Before
    <2>2. CASE w.fold # Splits
      BY <1>1, <1>2, <2>2 DEF Before
    <2>3. QED
      BY <2>1, <2>2
  <1>5. \A f \in 1..Len(Families), k \in 1..Splits :
            Before(v, f, k) => FoldWhole(v.metrics, v.judged, f, k)
    BY <1>1, <1>4
  <1>6. \A r \in v.metrics \cup v.judged : Before(v, r.family, r.fold)
    BY <1>1, <1>3, <1>4 DEF Here
  <1>7. Recorded(v)
    BY <1>5, <1>6 DEF Recorded
  <1>8. GivenUp(v)
    <2>1. CASE w.fold = Splits
      <3>1. \A r \in w.metrics : r.family # w.family + 1
        <4>1. \A r \in w.metrics : r.family < w.family \/ r.family = w.family
          BY DEF Before, Here
        <4>2. QED
          BY <1>2, <1>3, <4>1
      <3>2. QED
        BY <1>1, <2>1, <3>1 DEF GivenUp
    <2>2. CASE w.fold # Splits
      BY <1>1, <2>2 DEF GivenUp
    <2>3. QED
      BY <2>1, <2>2
  <1>9. Underway(v) /\ OneGate(v)
    BY <1>1 DEF Underway, OneGate
  <1>10. v.pc = "save" => v.family > Len(Families)
    BY <1>1, <1>2
  <1>11. Walked(v)
    BY <1>1, <1>7, <1>8, <1>9, <1>10 DEF Walked
  <1>12. QED
    BY <1>11 DEF v

(***************************************************************************)
(* A call that has not loaded its rows has recorded nothing.               *)
(***************************************************************************)
LEMMA BlankWalked ==
    ASSUME CalibrationParameters, NEW w, w.pc \in {"idle", "load"},
           w.metrics = {}, w.judged = {}, w.gates = {}, ~w.unavailable,
           w.family = 1, w.fold = 1, w.next = 1
    PROVE  Walked(w)
  <1>1. \A f \in 1..Len(Families), k \in 1..Splits : ~Before(w, f, k)
    BY StartExists DEF Before
  <1>2. QED
    BY <1>1 DEF Walked, Recorded, GivenUp, Underway, OneGate

(***************************************************************************)
(* A fold that is passed over is whole: its one result, and every          *)
(* candidate without an opinion.                                           *)
(***************************************************************************)
LEMMA PassedOverWalked ==
    ASSUME CalibrationParameters, NEW w \in Work, w.pc = "fit",
           w.family \in 1..Len(Families), Recorded(w), GivenUp(w),
           NEW u \in BOOLEAN, NEW status \in {"skipped", "empty", "unavailable"},
           status = "skipped" <=> w.unavailable,
           u <=> w.unavailable \/ status = "unavailable"
    PROVE  Walked(PassedOver([w EXCEPT !.unavailable = u], status))
  <1> DEFINE d == [w EXCEPT !.unavailable = u]
             v == [d EXCEPT !.metrics = d.metrics \cup {Metric(d, status)},
                            !.judged = d.judged \cup NotJudged(d)]
             metric == Metric(w, status)
  <1>1. /\ metric \in Metrics /\ NotJudged(w) \in SUBSET Judgements
        /\ w.fold \in 1..Splits /\ Splits \in Nat /\ Len(Families) \in Nat
    BY RecordsTyped, StartExists DEF FoldStatuses, Work
  <1>2. /\ d \in Work /\ d.metrics = w.metrics /\ d.judged = w.judged
        /\ Metric(d, status) = metric /\ NotJudged(d) = NotJudged(w)
        /\ d.family = w.family /\ d.fold = w.fold /\ d.unavailable = u
    BY DEF Work, Metric, NotJudged, Judgement
  <1>3. PassedOver(d, status) = NextFold(v)
    BY <1>2 DEF PassedOver, Work
  <1> HIDE DEF d
  <1>4. /\ v \in Work /\ v.family = w.family /\ v.fold = w.fold
        /\ v.metrics = w.metrics \cup {metric} /\ v.judged = w.judged \cup NotJudged(w)
        /\ v.unavailable = u
    <2> HIDE DEF metric
    <2>1. QED
      BY <1>1, <1>2 DEF Work
  <1> HIDE DEF v
  <1>5. /\ metric.family = w.family /\ metric.fold = w.fold /\ metric.status = status
        /\ NotJudged(w) = {Judgement(w, c, "not_evaluated") : c \in Range(Candidates)}
    BY DEF Metric, NotJudged
  <1>6. \A c : LET j == Judgement(w, c, "not_evaluated")
               IN  /\ j.family = w.family /\ j.fold = w.fold /\ j.candidate = c
                   /\ j.status = "not_evaluated"
    BY DEF Judgement
  <1> HIDE DEF metric
  <1>7. /\ \A r \in w.metrics \cup w.judged : Before(w, r.family, r.fold)
        /\ \A r \in w.metrics \cup w.judged : ~Here(w, r)
        /\ \A r \in w.metrics : r.family = w.family => r.fold < w.fold
    <2>1. \A r \in w.metrics \cup w.judged : Before(w, r.family, r.fold)
      BY DEF Recorded
    <2>2. w.family \in Nat /\ w.fold \in Nat
      BY <1>1
    <2>3. QED
      BY <2>1, <2>2 DEF Before, Here
  <1>8. \A f \in 1..Len(Families), k \in 1..Splits :
            Before(v, f, k) => FoldWhole(v.metrics, v.judged, f, k)
    <2> SUFFICES ASSUME NEW f \in 1..Len(Families), NEW k \in 1..Splits, Before(v, f, k)
                 PROVE  FoldWhole(v.metrics, v.judged, f, k)
      OBVIOUS
    <2>1. Before(w, f, k)
      BY <1>4 DEF Before
    <2>2. FoldWhole(w.metrics, w.judged, f, k)
      BY <2>1 DEF Recorded
    <2>3. f = w.family => ~(w.fold = k) /\ ~(w.fold < k)
      BY <1>1, <2>1 DEF Before
    <2>4. /\ \A m \in v.metrics \ w.metrics : m.family = f => ~(m.fold = k) /\ ~(m.fold < k)
          /\ \A j \in v.judged \ w.judged : ~(j.family = f /\ j.fold = k)
      BY <1>4, <1>5, <1>6, <2>3
    <2>5. QED
      BY <1>4, <2>2, <2>4, FoldStays
  <1>9. FoldWhole(v.metrics, v.judged, w.family, w.fold)
    <2> DEFINE lost == \E m \in v.metrics :
                           /\ m.family = w.family /\ m.fold < w.fold
                           /\ m.status = "unavailable"
    <2>1. {n \in v.metrics : n.family = w.family /\ n.fold = w.fold} = {metric}
      BY <1>4, <1>5, <1>7 DEF Here
    <2>2. lost <=> w.unavailable
      <3>1. ~(metric.fold < w.fold)
        BY <1>1, <1>5
      <3>2. QED
        BY <1>4, <1>7, <3>1 DEF GivenUp
    <2>3. \A j \in v.judged :
              j.family = w.family /\ j.fold = w.fold => j.status = "not_evaluated"
      BY <1>4, <1>5, <1>6, <1>7 DEF Here
    <2>4. ASSUME NEW c \in Range(Candidates)
          PROVE  \E j \in v.judged :
                   {i \in v.judged : i.family = w.family /\ i.fold = w.fold /\ i.candidate = c}
                     = {j}
      <3>1. Judgement(w, c, "not_evaluated") \in v.judged
        BY <1>4, <1>5
      <3>2. {i \in v.judged : i.family = w.family /\ i.fold = w.fold /\ i.candidate = c}
              = {Judgement(w, c, "not_evaluated")}
        BY <1>4, <1>5, <1>6, <1>7, <3>1 DEF Here
      <3>3. QED
        BY <3>1, <3>2
    <2>5. metric \in v.metrics /\ (metric.status = "skipped" <=> lost)
      BY <1>4, <1>5, <2>2
    <2>6. QED
      BY <2>1, <2>3, <2>4, <2>5 DEF FoldWhole
  <1>10. \A r \in v.metrics \cup v.judged : Before(v, r.family, r.fold) \/ Here(v, r)
    BY <1>4, <1>5, <1>6, <1>7 DEF Before, Here
  <1>11. GivenUp(v)
    BY <1>4, <1>5 DEF GivenUp
  <1>12. Walked(NextFold(v))
    BY <1>4, <1>8, <1>9, <1>10, <1>11, NextFoldWalked
  <1>13. QED
    BY <1>3, <1>12 DEF d

(***************************************************************************)
(* A fold whose regression was fitted begins with that result and without  *)
(* gates or verdicts.                                                      *)
(***************************************************************************)
LEMMA JudgingWalked ==
    ASSUME CalibrationParameters, NEW w \in Work, w.pc = "fit",
           w.family \in 1..Len(Families), Walked(w), ~w.unavailable
    PROVE  Walked([w EXCEPT !.pc = "judge",
                            !.metrics = w.metrics \cup {Metric(w, "evaluated")}])
  <1> DEFINE metric == Metric(w, "evaluated")
             v == [w EXCEPT !.pc = "judge", !.metrics = w.metrics \cup {metric}]
  <1>1. /\ w.fold \in 1..Splits /\ Splits \in Nat /\ Len(Families) \in Nat /\ w.next = 1
    BY StartExists DEF Work, Walked
  <1>2. /\ v.pc = "judge" /\ v.family = w.family /\ v.fold = w.fold
        /\ v.metrics = w.metrics \cup {metric} /\ v.judged = w.judged
        /\ v.unavailable = w.unavailable /\ v.gates = w.gates /\ v.next = w.next
    BY DEF Work
  <1>3. Metric(v, "evaluated") = metric
    BY <1>2 DEF Metric
  <1> HIDE DEF v
  <1>4. metric.family = w.family /\ metric.fold = w.fold /\ metric.status = "evaluated"
    BY DEF Metric
  <1> HIDE DEF metric
  <1>5. \A r \in w.metrics \cup w.judged : Before(w, r.family, r.fold) /\ ~Here(w, r)
    <2>1. \A r \in w.metrics \cup w.judged : Before(w, r.family, r.fold)
      BY DEF Walked, Recorded
    <2>2. w.family \in Nat /\ w.fold \in Nat
      BY <1>1
    <2>3. QED
      BY <2>1, <2>2 DEF Before, Here
  <1>6. Recorded(v)
    <2>1. ASSUME NEW f \in 1..Len(Families), NEW k \in 1..Splits, Before(v, f, k)
          PROVE  FoldWhole(v.metrics, v.judged, f, k)
      <3>1. Before(w, f, k)
        BY <1>2, <2>1 DEF Before
      <3>2. FoldWhole(w.metrics, w.judged, f, k)
        BY <3>1 DEF Walked, Recorded
      <3>3. f = w.family => ~(w.fold = k) /\ ~(w.fold < k)
        BY <1>1, <3>1 DEF Before
      <3>4. \A m \in v.metrics \ w.metrics : m.family = f => ~(m.fold = k) /\ ~(m.fold < k)
        BY <1>2, <1>4, <3>3
      <3>5. QED
        BY <1>2, <3>2, <3>4, FoldStays
    <2>2. \A r \in v.metrics \cup v.judged : Before(v, r.family, r.fold) \/ Here(v, r)
      BY <1>2, <1>4, <1>5 DEF Before, Here
    <2>3. QED
      BY <1>2, <2>1, <2>2 DEF Recorded
  <1>7. GivenUp(v)
    BY <1>2, <1>4 DEF GivenUp, Walked
  <1>8. Underway(v)
    <2>1. {m \in v.metrics : Here(v, m)} = {metric}
      BY <1>2, <1>4, <1>5 DEF Here
    <2>2. \A j \in v.judged : ~Here(v, j)
      BY <1>2, <1>5 DEF Here
    <2>3. \A i \in 1..Len(Candidates) : ~(i < v.next)
      BY <1>1, <1>2, StartExists
    <2>4. QED
      BY <1>2, <1>3, <2>1, <2>2, <2>3 DEF Underway
  <1>9. OneGate(v)
    BY <1>2 DEF OneGate, Walked
  <1>10. Walked(v)
    BY <1>2, <1>6, <1>7, <1>8, <1>9 DEF Walked
  <1>11. QED
    BY <1>10 DEF v, metric

(***************************************************************************)
(* A fold whose candidates have all been judged is whole: every candidate  *)
(* has the verdict of the one gate of its key, also one listed twice.      *)
(***************************************************************************)
LEMMA JudgedFoldWhole ==
    ASSUME NEW w \in Work, w.pc = "judge", Recorded(w), GivenUp(w), Underway(w), OneGate(w),
           \A c \in Range(Candidates) : \E j \in w.judged : Here(w, j) /\ j.candidate = c
    PROVE  FoldWhole(w.metrics, w.judged, w.family, w.fold)
  <1> DEFINE metric == Metric(w, "evaluated")
             lost == \E m \in w.metrics :
                         m.family = w.family /\ m.fold < w.fold /\ m.status = "unavailable"
  <1>1. metric \in w.metrics /\ {n \in w.metrics : Here(w, n)} = {metric}
    BY DEF Underway
  <1>2. {n \in w.metrics : n.family = w.family /\ n.fold = w.fold} = {metric}
    BY <1>1 DEF Here
  <1>3. ~lost
    BY DEF Underway, GivenUp
  <1>4. metric.status = "evaluated"
    BY DEF Metric
  <1>5. w.judged \subseteq Judgements
    BY DEF Work
  <1>6. ASSUME NEW i \in w.judged, NEW j \in w.judged, Here(w, i), Here(w, j),
               i.candidate = j.candidate
        PROVE  i = j
    <2>1. PICK g \in w.gates : g.key = KeyOf[i.candidate] /\ i.status = g.verdict
      BY <1>6 DEF Underway
    <2>2. PICK h \in w.gates : h.key = KeyOf[j.candidate] /\ j.status = h.verdict
      BY <1>6 DEF Underway
    <2>3. i.status = j.status
      BY <1>6, <2>1, <2>2 DEF OneGate
    <2>4. QED
      BY <1>5, <1>6, <2>3 DEF Judgements, Here
  <1>7. ASSUME NEW c \in Range(Candidates)
        PROVE  \E j \in w.judged :
                 {i \in w.judged : i.family = w.family /\ i.fold = w.fold /\ i.candidate = c}
                   = {j}
    <2>1. PICK j \in w.judged : Here(w, j) /\ j.candidate = c
      OBVIOUS
    <2>2. {i \in w.judged : i.family = w.family /\ i.fold = w.fold /\ i.candidate = c} = {j}
      BY <1>6, <2>1 DEF Here
    <2>3. QED
      BY <2>2
  <1> HIDE DEF metric
  <1>8. QED
    BY <1>1, <1>2, <1>3, <1>4, <1>7 DEF FoldWhole

(***************************************************************************)
(* A candidate judged with the gate of its key, a cached or a new one,     *)
(* gets its one verdict.                                                   *)
(***************************************************************************)
LEMMA JudgedWalked ==
    ASSUME CalibrationParameters, NEW w \in Work, w.pc = "judge",
           w.family \in 1..Len(Families), w.next \in 1..Len(Candidates), Walked(w),
           NEW gate, gate.key = KeyOf[Candidates[w.next]], gate.verdict \in Statuses,
           gate \in GateRecord,
           gate \in w.gates \/ \A g \in w.gates : g.key # gate.key,
           NEW v, v = [w EXCEPT
                           !.judged =
                               @ \cup {Judgement(w, Candidates[w.next], gate.verdict)},
                           !.gates = @ \cup {gate}, !.next = @ + 1]
    PROVE  Walked(IF w.next = Len(Candidates) THEN NextFold(v) ELSE v)
  <1> DEFINE c == Candidates[w.next]
             verdict == Judgement(w, c, gate.verdict)
  <1>1. /\ w.fold \in 1..Splits /\ Splits \in Nat /\ Len(Families) \in Nat
        /\ Len(Candidates) \in Nat /\ w.next + 1 \in 1..(Len(Candidates) + 1)
        /\ \A i \in 1..Len(Candidates) : Candidates[i] \in Range(Candidates)
    BY StartExists DEF Work
  <1>2. verdict \in Judgements
    BY <1>1, RecordsTyped
  <1>3. /\ verdict.family = w.family /\ verdict.fold = w.fold
        /\ verdict.candidate = c /\ verdict.status = gate.verdict
    BY DEF Judgement
  <1> HIDE DEF verdict
  <1>4. /\ v \in Work /\ v.pc = "judge" /\ v.family = w.family /\ v.fold = w.fold
        /\ v.metrics = w.metrics /\ v.judged = w.judged \cup {verdict}
        /\ v.unavailable = w.unavailable /\ v.gates = w.gates \cup {gate}
        /\ v.next = w.next + 1
    BY <1>1, <1>2 DEF Work, verdict
  <1>5. \A m : Here(v, m) <=> Here(w, m)
    BY <1>4 DEF Here
  <1>6. \A f, k : Before(v, f, k) <=> Before(w, f, k)
    BY <1>4 DEF Before
  <1>7. \A f \in 1..Len(Families), k \in 1..Splits :
            Before(v, f, k) => FoldWhole(v.metrics, v.judged, f, k)
    <2> SUFFICES ASSUME NEW f \in 1..Len(Families), NEW k \in 1..Splits, Before(v, f, k)
                 PROVE  FoldWhole(v.metrics, v.judged, f, k)
      OBVIOUS
    <2>1. FoldWhole(w.metrics, w.judged, f, k)
      BY <1>6 DEF Walked, Recorded
    <2>2. ~(w.family = f /\ w.fold = k)
      BY <1>1, <1>6 DEF Before
    <2>3. \A j \in v.judged \ w.judged : ~(j.family = f /\ j.fold = k)
      BY <1>3, <1>4, <2>2
    <2>4. \A m \in v.metrics \ w.metrics : FALSE
      BY <1>4
    <2>5. QED
      BY <1>4, <2>1, <2>3, <2>4, FoldStays
  <1>8. \A r \in v.metrics \cup v.judged : Before(v, r.family, r.fold) \/ Here(v, r)
    <2>1. \A r \in w.metrics \cup w.judged : Before(w, r.family, r.fold) \/ Here(w, r)
      BY DEF Walked, Recorded
    <2>2. Here(w, verdict)
      BY <1>3 DEF Here
    <2>3. QED
      BY <1>4, <1>5, <1>6, <2>1, <2>2
  <1>9. Recorded(v)
    BY <1>4, <1>7, <1>8 DEF Recorded
  <1>10. GivenUp(v)
    BY <1>4 DEF Walked, GivenUp
  <1>11. Underway(v)
    <2>1. Metric(v, "evaluated") = Metric(w, "evaluated")
      BY <1>4 DEF Metric
    <2>2. {m \in v.metrics : Here(v, m)} = {Metric(v, "evaluated")} /\ ~v.unavailable
      BY <1>4, <1>5, <2>1 DEF Walked, Underway
    <2>3. ASSUME NEW i \in 1..Len(Candidates), i < v.next
          PROVE  \E j \in v.judged : Here(v, j) /\ j.candidate = Candidates[i]
      <3>1. i < w.next \/ i = w.next
        BY <1>1, <1>4, <2>3
      <3>2. CASE i < w.next
        BY <1>4, <1>5, <3>2 DEF Walked, Underway
      <3>3. CASE i = w.next
        BY <1>3, <1>4, <3>3 DEF Here
      <3>4. QED
        BY <3>1, <3>2, <3>3
    <2>4. ASSUME NEW j \in v.judged, Here(v, j)
          PROVE  \E g \in v.gates : g.key = KeyOf[j.candidate] /\ j.status = g.verdict
      <3>1. CASE j = verdict
        BY <1>3, <1>4, <3>1
      <3>2. CASE j \in w.judged
        BY <1>4, <1>5, <2>4, <3>2 DEF Walked, Underway
      <3>3. QED
        BY <1>4, <3>1, <3>2
    <2>5. QED
      BY <2>2, <2>3, <2>4 DEF Underway
  <1>12. OneGate(v)
    BY <1>4 DEF Walked, OneGate
  <1>13. CASE w.next = Len(Candidates)
    <2>1. ASSUME NEW d \in Range(Candidates)
          PROVE  \E j \in v.judged : Here(v, j) /\ j.candidate = d
      <3>1. PICK i \in 1..Len(Candidates) : d = Candidates[i]
        <4>1. Candidates \in Seq(Range(Candidates))
          BY DEF CalibrationParameters
        <4>2. DOMAIN Candidates = 1..Len(Candidates)
          BY <4>1
        <4>3. QED
          BY <4>2 DEF Range
      <3>2. i < v.next
        BY <1>1, <1>4, <1>13
      <3>3. QED
        BY <1>4, <1>11, <3>1, <3>2 DEF Underway
    <2>2. FoldWhole(v.metrics, v.judged, v.family, v.fold)
      BY <1>4, <1>9, <1>10, <1>11, <1>12, <2>1, JudgedFoldWhole
    <2>3. Walked(NextFold(v))
      BY <1>4, <1>7, <1>8, <1>10, <2>2, NextFoldWalked
    <2>4. QED
      BY <1>13, <2>3
  <1>14. CASE w.next # Len(Candidates)
    <2>1. Walked(v)
      BY <1>4, <1>9, <1>10, <1>11, <1>12 DEF Walked
    <2>2. QED
      BY <1>14, <2>1
  <1>15. QED
    BY <1>13, <1>14

-----------------------------------------------------------------------------
(***************************************************************************)
(* The results stay whole                                                  *)
(***************************************************************************)

(***************************************************************************)
(* A thread that goes on with a walk, or leaves it, disturbs no other.     *)
(***************************************************************************)
LEMMA ResultsStay ==
    ASSUME IInv, Results, NEW t \in Threads, NEW w, Become(t, w), Walked(w),
           matrices' = matrices
    PROVE  Results'
  <1>1. \A u \in Threads : work'[u] = IF u = t THEN w ELSE work[u]
    BY DEF IInv, TypeOK, Become
  <1>2. \A u \in Threads : Walked(work'[u])
    BY <1>1 DEF Results
  <1>3. QED
    BY <1>2 DEF Results

(***************************************************************************)
(* A call that ends leaves nothing of its matrix with the thread.          *)
(***************************************************************************)
LEMMA RepliedWalked ==
    ASSUME CalibrationParameters, NEW reply
    PROVE  Walked([NoWork EXCEPT !.reply = reply])
  <1> DEFINE w == [NoWork EXCEPT !.reply = reply]
  <1>1. /\ w.pc = "idle" /\ w.metrics = {} /\ w.judged = {} /\ w.gates = {}
        /\ ~w.unavailable /\ w.family = 1 /\ w.fold = 1 /\ w.next = 1
    BY DEF NoWork
  <1> HIDE DEF w
  <1>2. Walked(w)
    BY <1>1, BlankWalked
  <1>3. QED
    BY <1>2 DEF w

LEMMA ReturnResults ==
    ASSUME CalibrationParameters, IInv, Results, NEW t \in Threads, NEW reply,
           Return(t, reply), matrices' = matrices
    PROVE  Results'
  BY RepliedWalked, ResultsStay DEF Return

(***************************************************************************)
(* A call that begins, or is refused, has recorded nothing.                *)
(***************************************************************************)
LEMMA CallResults ==
    ASSUME CalibrationParameters, IInv, Results, NEW t \in Threads, Accept(t) \/ Refuse(t)
    PROVE  Results'
  <1>1. CASE Accept(t)
    <2> DEFINE w == [NoWork EXCEPT !.pc = "load", !.id = calls + 1]
    <2>1. /\ w.pc = "load" /\ w.metrics = {} /\ w.judged = {} /\ w.gates = {}
          /\ ~w.unavailable /\ w.family = 1 /\ w.fold = 1 /\ w.next = 1
      BY DEF NoWork
    <2>2. Become(t, w) /\ matrices' = matrices
      BY <1>1 DEF Accept
    <2> HIDE DEF w
    <2>3. Walked(w)
      BY <2>1, BlankWalked
    <2>4. QED
      BY <2>2, <2>3, ResultsStay
  <1>2. CASE Refuse(t)
    <2>1. Become(t, [NoWork EXCEPT !.reply = "busy"]) /\ matrices' = matrices
      BY <1>2 DEF Refuse
    <2>2. QED
      BY <2>1, RepliedWalked, ResultsStay
  <1>3. QED
    BY <1>1, <1>2

(***************************************************************************)
(* Loading records nothing.                                                *)
(***************************************************************************)
LEMMA LoadResults ==
    ASSUME CalibrationParameters, IInv, Results, NEW t \in Threads, Load(t)
    PROVE  Results'
  <1> DEFINE w == work[t]
             v == [w EXCEPT !.pc = "fit", !.rows = ReadyRows(LastDate, FALSE),
                            !.folds = DateFolds]
  <1>1. w.pc = "load" /\ w \in Work /\ Walked(w) /\ matrices' = matrices
    BY DEF Load, IInv, TypeOK, Results
  <1>2. \/ Become(t, v)
        \/ Return(t, "not_found") \/ Return(t, "insufficient") \/ Return(t, "failed")
    BY DEF Load
  <1>3. Walked(v)
    <2>1. /\ v.pc = "fit" /\ v.family = w.family /\ v.fold = w.fold
          /\ v.metrics = w.metrics /\ v.judged = w.judged /\ v.gates = w.gates
          /\ v.unavailable = w.unavailable /\ v.next = w.next
      BY <1>1 DEF Work
    <2> HIDE DEF v, w
    <2>2. Recorded(v)
      <3>1. \A f, k : Before(v, f, k) <=> Before(w, f, k)
        BY <2>1 DEF Before
      <3>2. QED
        BY <1>1, <2>1, <3>1 DEF Walked, Recorded
    <2>3. GivenUp(v) /\ Underway(v) /\ OneGate(v)
      BY <1>1, <2>1 DEF Walked, GivenUp, Underway, OneGate
    <2>4. QED
      BY <1>1, <2>1, <2>2, <2>3 DEF Walked
  <1> HIDE DEF v
  <1>4. CASE Become(t, v)
    BY <1>1, <1>3, <1>4, ResultsStay
  <1>5. QED
    BY <1>1, <1>2, <1>4, ReturnResults

(***************************************************************************)
(* A fold is left out for its own reason, or goes on to be judged.         *)
(***************************************************************************)
LEMMA FitResults ==
    ASSUME CalibrationParameters, IInv, Results, NEW t \in Threads, Fit(t)
    PROVE  Results'
  <1> DEFINE w == work[t]
             left(u) == [w EXCEPT !.unavailable = u]
             judging == [w EXCEPT !.pc = "judge",
                                  !.metrics = w.metrics \cup {Metric(w, "evaluated")}]
  <1>1. /\ w.pc = "fit" /\ w \in Work /\ Walked(w) /\ matrices' = matrices
        /\ w.family \in 1..Len(Families)
    BY DEF Fit, IInv, TypeOK, Results, Sound, Placed
  <1>2. Recorded(w) /\ GivenUp(w)
    BY <1>1 DEF Walked
  <1>3. w.unavailable \in BOOLEAN /\ left(w.unavailable) = w
    BY <1>1 DEF Work
  <1>4. \/ w.unavailable /\ Become(t, PassedOver(w, "skipped"))
        \/ ~w.unavailable /\ Become(t, PassedOver(w, "empty"))
        \/ ~w.unavailable /\ Become(t, PassedOver(left(TRUE), "unavailable"))
        \/ ~w.unavailable /\ Become(t, judging)
        \/ Return(t, "failed")
    BY <1>1 DEF Fit, Work
  <1>5. ASSUME w.unavailable PROVE Walked(PassedOver(w, "skipped"))
    <2>1. Walked(PassedOver(left(w.unavailable), "skipped"))
      BY <1>1, <1>2, <1>3, <1>5, PassedOverWalked
    <2>2. QED
      BY <1>3, <2>1
  <1>6. ASSUME ~w.unavailable PROVE Walked(PassedOver(w, "empty"))
    <2>1. Walked(PassedOver(left(w.unavailable), "empty"))
      BY <1>1, <1>2, <1>3, <1>6, PassedOverWalked
    <2>2. QED
      BY <1>3, <2>1
  <1>7. ASSUME ~w.unavailable PROVE Walked(PassedOver(left(TRUE), "unavailable"))
    BY <1>1, <1>2, <1>7, PassedOverWalked
  <1>8. ASSUME ~w.unavailable PROVE Walked(judging)
    BY <1>1, <1>8, JudgingWalked
  <1> HIDE DEF w, left, judging
  <1>9. (\E v : Become(t, v) /\ Walked(v)) \/ Return(t, "failed")
    BY <1>4, <1>5, <1>6, <1>7, <1>8
  <1>10. QED
    BY <1>1, <1>9, ResultsStay, ReturnResults

(***************************************************************************)
(* A candidate is judged with the gate of its key.                         *)
(***************************************************************************)
LEMMA JudgeResults ==
    ASSUME CalibrationParameters, IInv, Results, NEW t \in Threads, Judge(t)
    PROVE  Results'
  <1> DEFINE w == work[t]
             c == Candidates[w.next]
             v(gate) == [w EXCEPT
                            !.judged = @ \cup {Judgement(w, c, gate.verdict)},
                            !.gates = @ \cup {gate}, !.next = @ + 1]
  <1>1. /\ w.pc = "judge" /\ w \in Work /\ Walked(w) /\ matrices' = matrices
        /\ w.family \in 1..Len(Families) /\ w.next \in 1..Len(Candidates)
        /\ w.fold \in 1..Splits
    BY DEF Judge, IInv, TypeOK, Results, Sound, Placed, Work
  <1>2. c \in Range(Candidates) /\ KeyOf[c] \in Keys
    BY <1>1, StartExists DEF Keys
  <1>3. ASSUME NEW gate \in GateRecord, gate.key = KeyOf[c],
               gate \in w.gates \/ \A g \in w.gates : g.key # gate.key,
               Judged(t, w, c, gate)
        PROVE  Results'
    <2>1. Become(t, IF w.next = Len(Candidates) THEN NextFold(v(gate)) ELSE v(gate))
      BY <1>3 DEF Judged
    <2>2. gate.verdict \in Statuses
      BY DEF GateRecord
    <2>3. Walked(IF w.next = Len(Candidates) THEN NextFold(v(gate)) ELSE v(gate))
      BY <1>1, <1>3, <2>2, JudgedWalked
    <2>4. QED
      BY <1>1, <2>1, <2>3, ResultsStay
  <1>4. ASSUME NEW gate \in w.gates, gate.key = KeyOf[c], Judged(t, w, c, gate)
        PROVE  Results'
    <2>1. gate \in GateRecord
      BY <1>1 DEF Work
    <2>2. QED
      BY <1>3, <1>4, <2>1
  <1>5. ASSUME \A g \in w.gates : g.key # KeyOf[c], JudgedAnew(t, w, c, KeyOf[c])
        PROVE  Results'
    <2> DEFINE rows == Eligible(Train(w), KeyOf[c])
               tail == TailDates(rows)
               base == BaseRows(rows, tail)
               last == RowsOn(rows, tail)
               gate(verdict) == [key |-> KeyOf[c], family |-> w.family, fold |-> w.fold,
                                 base |-> base, tail |-> last, verdict |-> verdict]
    <2>1. PICK verdict \in Verdicts(CanFit(rows, base, last),
                                    Eligible(Holdout(w), KeyOf[c])) :
              Judged(t, w, c, gate(verdict))
      BY <1>5 DEF JudgedAnew
    <2>2. verdict \in Statuses
      BY <2>1 DEF Verdicts, Statuses
    <2>3. base \in SUBSET DatasetRow /\ last \in SUBSET DatasetRow
      <3>1. /\ base = BaseRows(Eligible(Train(w), KeyOf[c]),
                              TailDates(Eligible(Train(w), KeyOf[c])))
            /\ last = RowsOn(Eligible(Train(w), KeyOf[c]),
                             TailDates(Eligible(Train(w), KeyOf[c])))
        OBVIOUS
      <3> HIDE DEF base, last, c, w
      <3>2. QED
        BY <1>1, <3>1, NewGateBlind
    <2> HIDE DEF base, last, c, w
    <2>4. gate(verdict) \in GateRecord /\ gate(verdict).key = KeyOf[c]
      BY <1>1, <1>2, <2>2, <2>3 DEF GateRecord
    <2> HIDE DEF gate
    <2>5. QED
      BY <1>3, <1>5, <2>1, <2>4
  <1>6. \/ Return(t, "failed")
        \/ \E gate \in w.gates : gate.key = KeyOf[c] /\ Judged(t, w, c, gate)
        \/ (\A g \in w.gates : g.key # KeyOf[c]) /\ JudgedAnew(t, w, c, KeyOf[c])
    BY DEF Judge
  <1> HIDE DEF w, c
  <1>7. QED
    BY <1>1, <1>4, <1>5, <1>6, ReturnResults

(***************************************************************************)
(* What is saved is the walk over all families (persist_calibration_matrix)*)
(* and replaces no other matrix.                                           *)
(***************************************************************************)
LEMMA SaveResults ==
    ASSUME CalibrationParameters, IInv, Results, NEW t \in Threads, Save(t)
    PROVE  Results'
  <1> DEFINE w == work[t]
             stored == [i \in DOMAIN matrices \cup {w.id} |->
                           IF i = w.id THEN Payload(w) ELSE matrices[i]]
  <1>1. w.pc = "save" /\ w \in Work /\ Walked(w)
    BY DEF Save, IInv, TypeOK, Results
  <1>2. \/ matrices' = stored /\ Return(t, "created")
        \/ matrices' \in {matrices, stored} /\ Return(t, "not_saved")
    BY DEF Save
  <1>3. \A f \in 1..Len(Families), k \in 1..Splits : Before(w, f, k)
    <2>1. w.family > Len(Families) /\ Len(Families) \in Nat /\ w.family \in Nat
      BY <1>1, StartExists DEF Walked, Work
    <2>2. QED
      BY <2>1 DEF Before
  <1>4. ResultWhole(Payload(w))
    BY <1>1, <1>3 DEF ResultWhole, Payload, Walked, Recorded
  <1> HIDE DEF w
  <1>5. \A i \in DOMAIN stored : ResultWhole(stored[i])
    BY <1>4 DEF Results
  <1> HIDE DEF stored
  <1>6. \A i \in DOMAIN matrices' : ResultWhole(matrices'[i])
    BY <1>2, <1>5 DEF Results
  <1>7. PICK reply : Become(t, [NoWork EXCEPT !.reply = reply])
    BY <1>2 DEF Return
  <1>8. \A u \in Threads : Walked(work'[u])
    <2>1. Walked([NoWork EXCEPT !.reply = reply])
      BY RepliedWalked
    <2>2. \A u \in Threads :
              work'[u] = IF u = t THEN [NoWork EXCEPT !.reply = reply] ELSE work[u]
      BY <1>7 DEF IInv, TypeOK, Become
    <2>3. QED
      BY <2>1, <2>2 DEF Results
  <1>9. QED
    BY <1>6, <1>8 DEF Results

(***************************************************************************)
(* Every stored matrix has one result for each family and fold and for     *)
(* each candidate on it, and a fold was skipped exactly after the family   *)
(* was found unavailable, for any families, candidates, folds, failures    *)
(* and restarts (_evaluate_model_family, persist_calibration_matrix).      *)
(***************************************************************************)
THEOREM MatricesAreWhole ==
    ASSUME CalibrationParameters PROVE Spec => []MatrixIsWhole
  <1>1. Init => Results
    <2>1. SUFFICES ASSUME Init PROVE Results
      OBVIOUS
    <2>2. /\ NoWork.pc = "idle" /\ NoWork.metrics = {} /\ NoWork.judged = {}
          /\ NoWork.gates = {} /\ ~NoWork.unavailable
          /\ NoWork.family = 1 /\ NoWork.fold = 1 /\ NoWork.next = 1
      BY DEF NoWork
    <2>3. Walked(NoWork)
      BY <2>2, BlankWalked
    <2>4. DOMAIN matrices = {} /\ work = [t \in Threads |-> NoWork]
      BY <2>1 DEF Init
    <2>5. QED
      BY <2>3, <2>4 DEF Results
  <1>2. IInv /\ Results /\ [Next]_vars => Results'
    <2>1. SUFFICES ASSUME IInv, Results, [Next]_vars PROVE Results'
      OBVIOUS
    <2>2. ASSUME NEW t \in Threads, Accept(t) \/ Refuse(t) PROVE Results'
      BY <2>1, <2>2, CallResults
    <2>3. ASSUME NEW t \in Threads, Step(t) PROVE Results'
      BY <2>1, <2>3, LoadResults, FitResults, JudgeResults, SaveResults DEF Step
    <2>4. CASE Crash
      <3>1. NoWork = [NoWork EXCEPT !.reply = "none"]
        BY DEF NoWork
      <3>2. Walked(NoWork)
        BY <3>1, RepliedWalked
      <3>3. work' = [t \in Threads |-> NoWork] /\ matrices' = matrices
        BY <2>4 DEF Crash
      <3>4. QED
        BY <2>1, <3>2, <3>3 DEF Results
    <2>5. CASE UNCHANGED vars
      BY <2>1, <2>5 DEF vars, Results
    <2>6. QED
      BY <2>1, <2>2, <2>3, <2>4, <2>5, Zenon DEF Next
  <1>3. Results => MatrixIsWhole
    <2>1. SUFFICES ASSUME Results, NEW id \in DOMAIN matrices,
                          NEW f \in 1..Len(Families), NEW k \in 1..Splits
                   PROVE  LET of == {m \in matrices[id].metrics : m.family = f}
                              js == {j \in matrices[id].judged : j.family = f /\ j.fold = k}
                              lost == \E m \in of : m.fold < k /\ m.status = "unavailable"
                          IN  /\ \E m \in of :
                                    /\ {n \in of : n.fold = k} = {m}
                                    /\ m.status = "skipped" <=> lost
                                    /\ m.status = "evaluated"
                                          \/ \A j \in js : j.status = "not_evaluated"
                              /\ \A c \in Range(Candidates) :
                                    Cardinality({j \in js : j.candidate = c}) = 1
      BY DEF MatrixIsWhole
    <2> DEFINE metrics == matrices[id].metrics
               judged == matrices[id].judged
               of == {m \in metrics : m.family = f}
               js == {j \in judged : j.family = f /\ j.fold = k}
               lost == \E m \in of : m.fold < k /\ m.status = "unavailable"
    <2>2. FoldWhole(metrics, judged, f, k)
      BY <2>1 DEF Results, ResultWhole
    <2> HIDE DEF metrics, judged
    <2>3. \E m \in of : /\ {n \in of : n.fold = k} = {m}
                        /\ m.status = "skipped" <=> lost
                        /\ m.status = "evaluated" \/ \A j \in js : j.status = "not_evaluated"
      <3>1. PICK m \in metrics :
                /\ {n \in metrics : n.family = f /\ n.fold = k} = {m}
                /\ m.status = "skipped" <=>
                       \E n \in metrics :
                           n.family = f /\ n.fold < k /\ n.status = "unavailable"
                /\ \/ m.status = "evaluated"
                   \/ \A j \in judged :
                          j.family = f /\ j.fold = k => j.status = "not_evaluated"
        BY <2>2 DEF FoldWhole
      <3>2. {n \in of : n.fold = k} = {n \in metrics : n.family = f /\ n.fold = k}
        OBVIOUS
      <3>3. m \in of
        BY <3>1
      <3>4. QED
        BY <3>1, <3>2, <3>3
    <2>4. ASSUME NEW c \in Range(Candidates)
          PROVE  Cardinality({j \in js : j.candidate = c}) = 1
      <3>1. PICK j \in judged :
                {i \in judged : i.family = f /\ i.fold = k /\ i.candidate = c} = {j}
        BY <2>2 DEF FoldWhole
      <3>2. {i \in js : i.candidate = c} = {j}
        BY <3>1
      <3>3. QED
        BY <3>2, FS_Singleton
    <2>5. QED
      BY <2>3, <2>4 DEF metrics, judged
  <1>4. QED
    BY <1>1, <1>2, <1>3, CalibrationInvariant, PTL DEF Spec

-----------------------------------------------------------------------------
(***************************************************************************)
(* How a calibration ends, fairness apart: each step of its thread brings  *)
(* it nearer to the end, and the steps are bounded.                        *)
(***************************************************************************)

\* Steps for one family on one fold: its fit and a judgement per candidate.
Cell == Len(Candidates) + 1

\* Steps for the folds and families after the one in hand.
Later(family, fold) == ((Len(Families) - family) * Splits + Splits - fold) * Cell

\* Steps a matrix may still take: the cells to come, what is left of the one in
\* hand, and the save.
StepsLeft(w) ==
    CASE w.pc = "load"  -> 2 + Len(Families) * Splits * Cell
      [] w.pc = "fit"   -> 1 + Later(w.family, w.fold) + Cell
      [] w.pc = "judge" -> 1 + Later(w.family, w.fold) + Cell - w.next
      [] w.pc = "save"  -> 1
      [] w.pc = "idle"  -> 0

\* A thread never goes back: each step of its matrix leaves fewer steps,
\* whatever the fits, the gates and storage say, and nobody else's step adds
\* any.
MatrixRunsDown ==
    [][\A t \in Threads :
         /\ Step(t) => StepsLeft(work'[t]) < StepsLeft(work[t])
         /\ t \in slot => StepsLeft(work'[t]) <= StepsLeft(work[t])]_vars

\* A matrix takes no more steps than it has cells, a load and a save.
StepsAreBounded ==
    \A t \in Threads :
        StepsLeft(work[t]) \in 0..(2 + Len(Families) * Splits * Cell)

(***************************************************************************)
(* Going on to the next fold, or family, leaves one cell less to come.     *)
(***************************************************************************)
LEMMA LaterCells ==
    ASSUME CalibrationParameters,
           NEW family \in 1..Len(Families), NEW fold \in 1..Splits
    PROVE  /\ Later(family, fold) \in Nat
           /\ Later(family, fold) + Cell <= Len(Families) * Splits * Cell
           /\ fold # Splits => Later(family, fold + 1) + Cell = Later(family, fold)
           /\ fold = Splits /\ family # Len(Families)
                 => Later(family + 1, 1) + Cell = Later(family, fold)
  <1> DEFINE rest == (Len(Families) - family) * Splits
             ahead == rest + Splits - fold
             behind == (family - 1) * Splits + fold - 1
  <1>1. /\ Cell \in Nat /\ Len(Families) \in Nat /\ Splits \in Nat
        /\ family \in Nat /\ fold \in Nat
    BY StartExists DEF Cell
  <1>2. /\ Len(Families) - family \in Nat /\ Splits - fold \in Nat
        /\ family - 1 \in Nat /\ fold - 1 \in Nat
    BY <1>1
  <1>3. rest \in Nat /\ (family - 1) * Splits \in Nat
    BY <1>1, <1>2
  <1>4. ahead \in Nat /\ behind \in Nat
    BY <1>2, <1>3
  <1>5. ahead + 1 + behind = Len(Families) * Splits
    BY <1>1
  <1>6. Later(family, fold) = ahead * Cell
    BY DEF Later
  <1>7. fold # Splits => Later(family, fold + 1) = (ahead - 1) * Cell
    BY <1>1 DEF Later
  <1>8. fold = Splits => Later(family + 1, 1) = (ahead - 1) * Cell
    <2>1. (Len(Families) - (family + 1)) * Splits + Splits - 1 = rest - 1
      BY <1>1
    <2>2. fold = Splits => ahead = rest
      BY <1>1
    <2>3. QED
      BY <2>1, <2>2 DEF Later
  <1> HIDE DEF ahead, behind
  <1>9. ahead * Cell \in Nat /\ behind * Cell \in Nat
    BY <1>1, <1>4
  <1>10. (ahead - 1) * Cell + Cell = ahead * Cell
    BY <1>1, <1>4
  <1>11. ahead * Cell + Cell + behind * Cell = Len(Families) * Splits * Cell
    <2>1. (ahead + 1 + behind) * Cell = ahead * Cell + Cell + behind * Cell
      BY <1>1, <1>4
    <2>2. QED
      BY <1>5, <2>1
  <1> DEFINE all == Len(Families) * Splits * Cell
             some == ahead * Cell
             others == behind * Cell
  <1>12. some \in Nat /\ others \in Nat /\ some + Cell + others = all
    BY <1>9, <1>11
  <1> HIDE DEF all, some, others
  <1>13. some + Cell <= all
    BY <1>1, <1>12
  <1>14. QED
    BY <1>6, <1>7, <1>8, <1>9, <1>10, <1>13 DEF all, some

(***************************************************************************)
(* The steps left are a number, no more than there were to begin with, and *)
(* none exactly for a thread outside a calibration.                        *)
(***************************************************************************)
LEMMA StepsAt ==
    ASSUME CalibrationParameters, NEW w, Sound(w)
    PROVE  /\ StepsLeft(w) \in 0..(2 + Len(Families) * Splits * Cell)
           /\ w.pc # "idle" => StepsLeft(w) > 0
           /\ w.pc = "idle" => StepsLeft(w) = 0
  <1> DEFINE all == Len(Families) * Splits * Cell
             later == Later(w.family, w.fold)
             next == w.next
  <1>1. /\ w.pc \in {"idle", "load", "fit", "judge", "save"}
        /\ w.pc # "save" =>
              w.family \in 1..Len(Families) /\ w.fold \in 1..Splits /\ next \in 1..Len(Candidates)
    BY DEF Sound, Placed, Work, Stages
  <1>2. Cell = Len(Candidates) + 1 /\ Len(Candidates) \in Nat /\ all \in Nat
    BY StartExists DEF Cell
  <1>3. w.pc # "save" => later \in Nat /\ later + Cell <= all
    BY <1>1, LaterCells
  <1>4. /\ w.pc = "load"  => StepsLeft(w) = 2 + all
        /\ w.pc = "fit"   => StepsLeft(w) = 1 + later + Cell
        /\ w.pc = "judge" => StepsLeft(w) = 1 + later + Cell - next
        /\ w.pc = "save"  => StepsLeft(w) = 1
        /\ w.pc = "idle"  => StepsLeft(w) = 0
    BY DEF StepsLeft
  <1> HIDE DEF all, later, next
  <1>5. /\ StepsLeft(w) \in 0..(2 + all)
        /\ w.pc # "idle" => StepsLeft(w) > 0
        /\ w.pc = "idle" => StepsLeft(w) = 0
    BY <1>1, <1>2, <1>3, <1>4, SMTT(30)
  <1>6. QED
    BY <1>5 DEF all

(***************************************************************************)
(* Each step of a calibration leaves fewer steps: one case per action.     *)
(***************************************************************************)
LEMMA StepRunsDown ==
    ASSUME CalibrationParameters, IInv, IInv', NEW t \in Threads, Step(t)
    PROVE  StepsLeft(work'[t]) < StepsLeft(work[t])
  <1> DEFINE w == work[t]
             all == Len(Families) * Splits * Cell
             later == Later(w.family, w.fold)
             next == w.next
  <1>1. /\ Sound(w) /\ Sound(work'[t]) /\ w \in Work /\ work \in [Threads -> Work]
        /\ w.pc # "idle"
    BY DEF IInv, Sound, Step, Load, Fit, Judge, Save, TypeOK
  <1>2. ASSUME NEW v, Become(t, v) PROVE work'[t] = v
    BY <1>1, <1>2 DEF Become
  <1>3. ASSUME NEW reply, Return(t, reply) PROVE StepsLeft(work'[t]) < StepsLeft(w)
    <2>1. work'[t].pc = "idle"
      BY <1>2, <1>3 DEF Return, NoWork
    <2>2. StepsLeft(work'[t]) = 0 /\ StepsLeft(w) \in Nat /\ StepsLeft(w) > 0
      BY <1>1, <2>1, StepsAt
    <2>3. QED
      BY <2>2
  <1>4. /\ Cell = Len(Candidates) + 1 /\ Len(Candidates) \in Nat
        /\ Len(Families) \in Nat /\ Splits \in Nat /\ all \in Nat
    BY StartExists DEF Cell
  <1>5. w.pc # "save" =>
           /\ w.family \in 1..Len(Families) /\ w.fold \in 1..Splits
           /\ next \in 1..Len(Candidates) /\ later \in Nat /\ later + Cell <= all
    <2>1. w.pc # "save" =>
             w.family \in 1..Len(Families) /\ w.fold \in 1..Splits /\ next \in 1..Len(Candidates)
      BY <1>1 DEF Sound, Placed, Work
    <2>2. QED
      BY <2>1, LaterCells
  <1>6. ASSUME NEW v, v.family = w.family, v.fold = w.fold,
               {"pc", "fold", "family", "unavailable", "next", "gates"} \subseteq DOMAIN v,
               w.pc \in {"fit", "judge"}, Become(t, NextFold(v))
        PROVE  StepsLeft(work'[t]) < StepsLeft(w)
    <2> DEFINE u == NextFold(v)
    <2>1. work'[t] = u
      BY <1>2, <1>6
    <2>2. /\ u.pc = "save" => w.fold = Splits /\ w.family = Len(Families)
          /\ u.pc \in {"save", "fit"}
          /\ u.pc = "fit" => ~(w.fold = Splits /\ w.family = Len(Families))
          /\ w.fold = Splits => u.fold = 1 /\ u.family = w.family + 1
          /\ w.fold # Splits => u.fold = w.fold + 1 /\ u.family = w.family
      BY <1>5, <1>6 DEF NextFold, FirstFold, UnavailableToStart, NoGates
    <2> HIDE DEF u
    <2>3. u.pc = "fit" => Later(u.family, u.fold) + Cell = later
      BY <1>5, <1>6, <2>2, LaterCells
    <2>4. StepsLeft(u) <= 1 + later
      <3>1. /\ u.pc = "fit" => StepsLeft(u) = 1 + Later(u.family, u.fold) + Cell
            /\ u.pc = "save" => StepsLeft(u) = 1
        BY DEF StepsLeft
      <3>2. u.pc = "fit" => Later(u.family, u.fold) \in Nat
        <4>1. u.pc = "fit" => u.family \in 1..Len(Families) /\ u.fold \in 1..Splits
          BY <1>1, <2>1 DEF Sound, Placed, Work
        <4>2. QED
          BY <4>1, LaterCells
      <3> HIDE DEF later, next
      <3>3. QED
        BY <1>4, <1>5, <1>6, <2>2, <2>3, <3>1, <3>2
    <2>5. StepsLeft(w) >= 2 + later
      <3>1. /\ w.pc = "fit"   => StepsLeft(w) = 1 + later + Cell
            /\ w.pc = "judge" => StepsLeft(w) = 1 + later + Cell - next
        BY DEF StepsLeft
      <3> HIDE DEF w, later, next
      <3>2. QED
        BY <1>4, <1>5, <1>6, <3>1
    <2>6. StepsLeft(u) \in Int /\ StepsLeft(w) \in Int /\ later \in Int
      BY <1>1, <1>5, <1>6, <2>1, StepsAt
    <2> HIDE DEF w, later
    <2>7. QED
      BY <2>1, <2>4, <2>5, <2>6
  <1>7. CASE Load(t)
    <2>1. CASE \E reply : Return(t, reply)
      BY <1>3, <2>1
    <2>2. CASE ~\E reply : Return(t, reply)
      <3>1. PICK rows : Become(t, [w EXCEPT !.pc = "fit", !.rows = rows, !.folds = DateFolds])
        BY <1>7, <2>2 DEF Load
      <3>2. /\ work'[t].pc = "fit" /\ work'[t].family = w.family /\ work'[t].fold = w.fold
            /\ w.pc = "load"
        BY <1>1, <1>2, <1>7, <3>1 DEF Work, Load
      <3>3. StepsLeft(work'[t]) = 1 + later + Cell /\ StepsLeft(w) = 2 + all
        BY <3>2 DEF StepsLeft
      <3> HIDE DEF w, all, later, next
      <3>4. QED
        BY <1>4, <1>5, <3>2, <3>3 DEF w
    <2>3. QED
      BY <2>1, <2>2
  <1>8. CASE Fit(t)
    <2>1. w.pc = "fit"
      BY <1>8 DEF Fit
    <2> DEFINE over(v, status) == [v EXCEPT !.metrics = v.metrics \cup {Metric(v, status)},
                                            !.judged = v.judged \cup NotJudged(v)]
               gone == [w EXCEPT !.unavailable = TRUE]
               judging == [w EXCEPT !.pc = "judge",
                                    !.metrics = w.metrics \cup {Metric(w, "evaluated")}]
    <2>2. gone \in Work /\ gone.family = w.family /\ gone.fold = w.fold
      BY <1>1 DEF Work
    <2>3. ASSUME NEW v \in Work, v.family = w.family, v.fold = w.fold,
                 NEW status \in FoldStatuses, Become(t, PassedOver(v, status))
          PROVE  StepsLeft(work'[t]) < StepsLeft(w)
      <3>1. Metric(v, status) \in Metrics /\ NotJudged(v) \in SUBSET Judgements
        BY <1>5, <2>1, <2>3, RecordsTyped
      <3>2. over(v, status) \in Work /\ over(v, status).family = w.family
            /\ over(v, status).fold = w.fold
            /\ {"pc", "fold", "family", "unavailable", "next", "gates"}
                   \subseteq DOMAIN over(v, status)
        BY <2>3, <3>1 DEF Work
      <3>3. PassedOver(v, status) = NextFold(over(v, status))
        BY <2>3 DEF PassedOver, Work
      <3> HIDE DEF over
      <3>4. QED
        BY <1>6, <2>1, <2>3, <3>2, <3>3
    <2>4. CASE Become(t, judging)
      <3>1. /\ work'[t].pc = "judge" /\ work'[t].family = w.family
            /\ work'[t].fold = w.fold /\ work'[t].next = w.next
        BY <1>1, <1>2, <2>4 DEF Work
      <3>2. StepsLeft(work'[t]) = 1 + later + Cell - next /\ StepsLeft(w) = 1 + later + Cell
        BY <2>1, <3>1 DEF StepsLeft
      <3> HIDE DEF w, later, next
      <3>3. QED
        BY <1>4, <1>5, <2>1, <3>2 DEF w
    <2>5. \/ Become(t, PassedOver(w, "skipped"))
          \/ Become(t, PassedOver(w, "empty"))
          \/ Become(t, PassedOver(gone, "unavailable"))
          \/ Become(t, judging)
          \/ Return(t, "failed")
      BY <1>1, <1>8 DEF Fit, Work
    <2>6. {"skipped", "empty", "unavailable"} \subseteq FoldStatuses
      BY DEF FoldStatuses
    <2> HIDE DEF gone, judging
    <2>7. QED
      BY <1>1, <1>3, <2>2, <2>3, <2>4, <2>5, <2>6
  <1>9. CASE Judge(t)
    <2>1. w.pc = "judge"
      BY <1>9 DEF Judge
    <2>2. ASSUME NEW c, NEW gate, Judged(t, w, c, gate)
          PROVE  StepsLeft(work'[t]) < StepsLeft(w)
      <3> DEFINE v == [w EXCEPT !.judged = w.judged \cup {Judgement(w, c, gate.verdict)},
                                !.gates = w.gates \cup {gate}, !.next = w.next + 1]
      <3>1. Become(t, IF next = Len(Candidates) THEN NextFold(v) ELSE v)
        BY <1>1, <2>2 DEF Judged, Work
      <3>2. v.pc = "judge" /\ v.family = w.family /\ v.fold = w.fold /\ v.next = next + 1
        BY <1>1, <2>1 DEF Work
      <3>3. CASE next = Len(Candidates)
        <4>1. {"pc", "fold", "family", "unavailable", "next", "gates"} \subseteq DOMAIN v
          BY <1>1 DEF Work
        <4> HIDE DEF v
        <4>2. QED
          BY <1>6, <2>1, <3>1, <3>2, <3>3, <4>1
      <3>4. CASE next # Len(Candidates)
        <4>1. work'[t] = v
          BY <1>2, <3>1, <3>4
        <4>2. /\ StepsLeft(v) = 1 + later + Cell - (next + 1)
              /\ StepsLeft(w) = 1 + later + Cell - next
          BY <2>1, <3>2 DEF StepsLeft
        <4> HIDE DEF w, v, later, next
        <4>3. QED
          BY <1>4, <1>5, <2>1, <4>1, <4>2 DEF w
      <3>5. QED
        BY <3>3, <3>4
    <2>3. CASE \E reply : Return(t, reply)
      BY <1>3, <2>3
    <2>4. ASSUME NEW c, NEW key, JudgedAnew(t, w, c, key)
          PROVE  \E gate : Judged(t, w, c, gate)
      BY <2>4, Zenon DEF JudgedAnew
    <2>5. \/ \E c, gate : Judged(t, w, c, gate)
          \/ Return(t, "failed")
      <3>1. \/ \E c, gate : Judged(t, w, c, gate)
            \/ \E c, key : JudgedAnew(t, w, c, key)
            \/ Return(t, "failed")
        BY <1>9, Zenon DEF Judge
      <3>2. QED
        BY <2>4, <3>1
    <2>6. QED
      BY <2>2, <2>3, <2>5
  <1>10. CASE Save(t)
    BY <1>3, <1>10 DEF Save
  <1>11. QED
    BY <1>7, <1>8, <1>9, <1>10 DEF Step

(***************************************************************************)
(* A step of a thread is of its own matrix.                                *)
(***************************************************************************)
LEMMA StepIsLocal ==
    ASSUME work \in [Threads -> Work], NEW t \in Threads, Step(t),
           NEW u \in Threads, u # t
    PROVE  work'[u] = work[u]
  <1>1. \A v : Become(t, v) => work'[u] = work[u]
    BY DEF Become
  <1>2. \/ \E v : Become(t, v)
        \/ \E reply : Return(t, reply)
    <2>1. CASE Load(t) \/ Fit(t) \/ Save(t)
      BY <2>1, Zenon DEF Load, Fit, Save
    <2>2. CASE Judge(t)
      <3>1. \A w, c, gate : Judged(t, w, c, gate) => \E v : Become(t, v)
        BY Zenon DEF Judged
      <3>2. \A w, c, key : JudgedAnew(t, w, c, key) => \E v : Become(t, v)
        BY <3>1, ZenonT(60) DEF JudgedAnew
      <3>3. QED
        BY <2>2, <3>1, <3>2, Zenon DEF Judge
    <2>3. QED
      BY <2>1, <2>2 DEF Step
  <1>3. QED
    BY <1>1, <1>2 DEF Return

(***************************************************************************)
(* However its fits, gates and save turn out, a calibration is over after  *)
(* a step for the fit and each candidate of every family and fold, a load  *)
(* and a save (create_calibration_matrix): what fairness has to add for    *)
(* every request to end is only that the thread is scheduled.              *)
(***************************************************************************)
THEOREM EveryMatrixRunsDown ==
    ASSUME CalibrationParameters PROVE Spec => MatrixRunsDown /\ []StepsAreBounded
  <1>1. ASSUME IInv, IInv', [Next]_vars, ~UNCHANGED vars, NEW u \in Threads
        PROVE  /\ Step(u) => StepsLeft(work'[u]) < StepsLeft(work[u])
               /\ u \in slot => StepsLeft(work'[u]) <= StepsLeft(work[u])
    <2>1. Step(u) => StepsLeft(work'[u]) < StepsLeft(work[u])
      BY <1>1, StepRunsDown
    <2>2. /\ work \in [Threads -> Work] /\ Sound(work[u]) /\ Sound(work'[u])
          /\ u \in slot => work[u].pc # "idle"
      BY <1>1 DEF IInv, TypeOK, OneCalibrationAtATime
    <2>3. StepsLeft(work[u]) \in Nat /\ StepsLeft(work'[u]) \in Nat /\ StepsLeft(NoWork) = 0
      <3>1. StepsLeft(NoWork) = 0
        BY NoWorkSound, StepsAt
      <3>2. QED
        BY <2>2, <3>1, StepsAt
    <2>4. ASSUME u \in slot, ~Step(u) PROVE work'[u] \in {work[u], NoWork}
      <3>1. CASE \E t \in Threads : Step(t)
        BY <1>1, <2>2, <2>4, <3>1, StepIsLocal
      <3>2. CASE \E t \in Threads : Accept(t) \/ Refuse(t)
        BY <1>1, <2>2, <2>4, <3>2 DEF Accept, Refuse, Become
      <3>3. CASE Crash
        BY <3>3 DEF Crash
      <3>4. QED
        BY <1>1, <3>1, <3>2, <3>3 DEF Next
    <2>5. QED
      BY <2>1, <2>3, <2>4
  <1>2. IInv => StepsAreBounded
    BY StepsAt DEF IInv, StepsAreBounded
  <1>3. IInv /\ IInv' /\ [Next]_vars
          => [\A t \in Threads :
                /\ Step(t) => StepsLeft(work'[t]) < StepsLeft(work[t])
                /\ t \in slot => StepsLeft(work'[t]) <= StepsLeft(work[t])]_vars
    BY <1>1
  <1>4. Spec => MatrixRunsDown
    BY <1>3, CalibrationInvariant, PTL DEF Spec, MatrixRunsDown
  <1>5. Spec => []StepsAreBounded
    BY <1>2, CalibrationInvariant, PTL
  <1>6. QED
    BY <1>4, <1>5

=============================================================================
