----------------------- MODULE MethodSelection_proofs -----------------------
(***************************************************************************)
(* Theorems about MethodSelection, for any threads, market calendar,       *)
(* histories of quotes, catalog, folds and faults: the type invariant, the *)
(* semaphore, what a choice and a final holdout may have seen, and that    *)
(* every matrix runs down.                                                 *)
(***************************************************************************)
EXTENDS MethodSelection, MarketFolds_proofs

-----------------------------------------------------------------------------
(***************************************************************************)
(* Types                                                                   *)
(***************************************************************************)

(***************************************************************************)
(* The rows of the two datasets (_load_method_selection_datasets) are      *)
(* typed, and those selected on have targets that end before the final     *)
(* holdout.                                                                *)
(***************************************************************************)
LEMMA RowsTyped ==
    ASSUME DatasetTypeOK, NEW last \in Int, NEW v \in BOOLEAN
    PROVE  /\ ReadyRows(last, v) \subseteq DatasetRow
           /\ \A r \in ReadyRows(last, v) :
                  /\ r.date \in Nat /\ 1 <= r.date /\ r.date <= last
                  /\ r.end = r.date + horizon /\ r.end <= last
  <1>1. horizon \in Nat
    BY DatasetAssumption DEF DatasetTypeOK
  <1>2. SUFFICES ASSUME NEW s \in Symbols, NEW d \in 1..last, HasTarget(s, d, last)
                 PROVE  /\ Row(s, d) \in DatasetRow
                        /\ Row(s, d).date = d /\ Row(s, d).end = d + horizon
                        /\ d \in Nat /\ 1 <= d /\ d <= last /\ d + horizon <= last
    BY DEF ReadyRows
  <1>3. QED
    BY <1>1, <1>2 DEF Row, DatasetRow, HasTarget, TargetEnd

(***************************************************************************)
(* Folds of dates are folds, whatever their number and shares              *)
(* (build_market_date_folds).                                              *)
(***************************************************************************)
LEMMA FoldsTyped ==
    ASSUME NEW dates \in SUBSET Int
    PROVE  OuterFolds(dates) \in Seq(DateFold)
  <1>1. \A k \in 1..OuterSplits :
            FoldAt(dates, OuterSplits, OuterShare, horizon, k) \in DateFold
    BY DEF FoldAt, DateFold, Slice
  <1>2. OuterSplits \in Nat
    BY SelectionAssumption
  <1>3. QED
    BY <1>1, <1>2 DEF OuterFolds

(***************************************************************************)
(* What rows read are dates (_evaluate_group).                             *)
(***************************************************************************)
LEMMA ReadTyped ==
    ASSUME NEW rows \in SUBSET DatasetRow, NEW folds
    PROVE  Read(folds, rows) \in SUBSET Int
  <1>1. \A r \in rows : r.end \in Int
    BY DEF DatasetRow
  <1>2. \A some \in SUBSET rows : Reach(some) \in SUBSET Int
    BY <1>1 DEF Reach
  <1>3. \A i \in DOMAIN folds :
            TrainRows(rows, folds[i]) \cup HoldoutRows(rows, folds[i]) \in SUBSET rows
    BY DEF TrainRows, HoldoutRows, RowsOn
  <1>4. QED
    BY <1>2, <1>3, Zenon DEF Read

(***************************************************************************)
(* An evaluation (_summary, _rank) has a candidate of its own for winner,  *)
(* or none.                                                                *)
(***************************************************************************)
LEMMA WinnerOf ==
    ASSUME NEW cands, NEW folds, NEW rows, NEW o \in Outcomes(cands, folds, rows),
           o.winner # None
    PROVE  o.winner \in cands
  <1>1. PICK e \in Evaluations(cands, folds, rows) : o \in Outcome(e)
    BY Zenon DEF Outcomes
  <1>2. DOMAIN e = cands
    BY <1>1 DEF Evaluations
  <1>3. QED
    BY <1>1, <1>2 DEF Outcome, Complete

(***************************************************************************)
(* An evaluation without a winner keeps a status to say why of every       *)
(* result.                                                                 *)
(***************************************************************************)
LEMMA OutcomesTyped ==
    ASSUME NEW cands, None \notin cands, NEW folds, NEW rows,
           NEW o \in Outcomes(cands, folds, rows)
    PROVE  /\ o.winner \in cands \cup {None}
           /\ o.verdict \in Statuses \cup {"none"}
           /\ o.winner = None => o.verdict \in Statuses
  <1>1. PICK e \in Evaluations(cands, folds, rows) : o \in Outcome(e)
    BY Zenon DEF Outcomes
  <1>2. DOMAIN e = cands
    BY <1>1 DEF Evaluations
  <1>3. Complete(e) \in SUBSET cands /\ Verdict(e) \in Statuses
    BY <1>2 DEF Complete, Verdict, Statuses
  <1>4. QED
    BY <1>1, <1>3 DEF Outcome

(***************************************************************************)
(* A thread that has returned with a reply (create_method_selection_matrix *)
(* and its finally) has a typed record.                                    *)
(***************************************************************************)
LEMMA RepliedTyped ==
    ASSUME NEW reply \in Replies
    PROVE  [NoWork EXCEPT !.reply = reply] \in Work
  <1>1. 0 \in 0..MaxCalls /\ 0 \in 0..OuterSplits
    BY SelectionAssumption
  <1>2. <<>> \in Seq(DateFold) /\ <<>> \in Seq(Results)
    OBVIOUS
  <1>3. QED
    BY <1>1, <1>2 DEF NoWork, Work, Stages

(***************************************************************************)
(* A thread outside create_method_selection_matrix has a typed record.     *)
(***************************************************************************)
LEMMA NoWorkTyped == NoWork \in Work
  <1>1. 0 \in 0..MaxCalls /\ 0 \in 0..OuterSplits
    BY SelectionAssumption
  <1>2. <<>> \in Seq(DateFold) /\ <<>> \in Seq(Results)
    OBVIOUS
  <1>3. QED
    BY <1>1, <1>2 DEF NoWork, Work, Stages, Replies

(***************************************************************************)
(* Reading folds (_evaluate_group) keeps the type.                         *)
(***************************************************************************)
LEMMA EvaluatedTyped ==
    ASSUME NEW w \in Work, NEW folds
    PROVE  Evaluated(w, folds) \in Work
  <1>1. w.selection \in SUBSET DatasetRow
    BY DEF Work
  <1>2. Read(folds, w.selection) \in SUBSET Int
    BY <1>1, ReadTyped
  <1>3. QED
    BY <1>2 DEF Evaluated, Work

(***************************************************************************)
(* Going on to the next outer fold keeps the type.                         *)
(***************************************************************************)
LEMMA NextFoldTyped ==
    ASSUME NEW w \in Work
    PROVE  NextFold(w) \in Work
  <1> DEFINE pc == IF w.fold = OuterSplits THEN "rank" ELSE "screen"
             fold == IF w.fold = OuterSplits THEN 0 ELSE w.fold + 1
  <1>1. OuterSplits \in Nat /\ w.fold \in 0..OuterSplits
    BY SelectionAssumption DEF Work
  <1>2. pc \in Stages /\ fold \in 0..OuterSplits
    BY <1>1 DEF Stages
  <1>3. NextFold(w) = [w EXCEPT !.pc = pc, !.fold = fold,
                                !.set = None, !.choice = None, !.behind = {}]
    BY DEF NextFold, Work
  <1> HIDE DEF pc, fold
  <1>4. QED
    BY <1>2, <1>3, ZenonT(60) DEF Work

(***************************************************************************)
(* A thread that goes on, returns or meets a fault leaves the threads, the *)
(* semaphore and the count of faults typed.                                *)
(***************************************************************************)
LEMMA BecomeTyped ==
    ASSUME work \in [Threads -> Work], NEW t \in Threads, NEW w \in Work, Become(t, w)
    PROVE  work' \in [Threads -> Work]
  BY DEF Become

-----------------------------------------------------------------------------
(***************************************************************************)
(* The inductive invariant                                                 *)
(***************************************************************************)

\* A matrix in progress has an id of its own.
Numbered(w, n, taken) == w.pc # "idle" => w.id \in (1..n) \ taken

\* A thread past its load has the rows and folds of the request, and what is
\* behind a choice ends with a label of a row on the training dates.
Loaded(w, sel, full, outer) ==
    /\ w.pc \in {"idle", "load"} => w.behind = {}
    /\ w.pc \notin {"idle", "load"} => w.selection = sel /\ w.full = full
    /\ w.pc \in {"screen", "tune", "assess"} =>
           /\ w.outer = outer /\ w.fold \in 1..OuterSplits
           /\ w.behind \subseteq Reach(RowsOn(sel, outer[w.fold].train))
    /\ w.pc = "tune" => w.set \in FeatureSets
    /\ w.pc = "assess" => w.choice \in Catalog

\* Before the frozen candidate is tried nothing after end was read.
Unread(w, end) ==
    w.tried = "none" => w.executions = 0 /\ \A e \in w.read : e <= end

\* The candidate is tried once, in the last stages.
Once(w) ==
    /\ w.executions <= 1
    /\ w.pc \notin {"final", "save"} => w.tried = "none" /\ w.results = <<>>
    /\ w.pc = "final" /\ w.frozen = None => w.verdict \in Statuses
    /\ (\E i \in DOMAIN w.results : w.results[i] = "promoted") =>
           w.tried = "evaluated" /\ w.frozen \in Catalog

Sound(w, sel, full, outer, end) ==
    /\ w \in Work
    /\ Loaded(w, sel, full, outer)
    /\ Unread(w, end)
    /\ Once(w)

\* The folds of the request
Outer == OuterFolds(ReadyDates(SelectionRows))

IInv ==
    /\ TypeOK
    /\ OneMatrixAtATime
    /\ NoOrphanRuns
    /\ DOMAIN matrices \subseteq 1..calls
    /\ \A t \in Threads :
           /\ Numbered(work[t], calls, DOMAIN matrices)
           /\ Sound(work[t], SelectionRows, FullRows, Outer, SelectionEnd)

-----------------------------------------------------------------------------
(***************************************************************************)
(* Steps of a thread                                                       *)
(***************************************************************************)

(***************************************************************************)
(* The rows, the folds and the end of the selection are those of the       *)
(* request: they change with nothing but the dataset and the dates.        *)
(***************************************************************************)
LEMMA InputsStay ==
    ASSUME UNCHANGED inputs
    PROVE  /\ SelectionRows' = SelectionRows /\ FullRows' = FullRows
           /\ Outer' = Outer /\ SelectionEnd' = SelectionEnd
  <1>1. quotes' = quotes /\ horizon' = horizon /\ asked' = asked
    BY DEF inputs, dataset
  <1>2. SelectionEnd' = SelectionEnd
    BY <1>1 DEF SelectionEnd
  <1>3. SelectionRows' = SelectionRows /\ FullRows' = FullRows
    BY <1>1, <1>2 DEF SelectionRows, FullRows, ReadyRows, HasTarget, HasFeatures,
          HasVolatility, HasWindow, Contiguous, TargetEnd, Row
  <1>4. Outer' = Outer
    BY <1>1, <1>3 DEF Outer, OuterFolds
  <1>5. QED
    BY <1>2, <1>3, <1>4

(***************************************************************************)
(* The requested dates are dates (_load_method_selection_inputs).          *)
(***************************************************************************)
LEMMA EndInt ==
    ASSUME asked \in Asked
    PROVE  SelectionEnd \in Int /\ LastDate \in Int
  BY SelectionAssumption, DatasetAssumption DEF SelectionEnd, Dates

(***************************************************************************)
(* The training and holdout rows of folds within some dates are rows on    *)
(* those dates (_evaluate_group).                                          *)
(***************************************************************************)
LEMMA ReadWithin ==
    ASSUME NEW rows, NEW dates, NEW folds,
           \A i \in DOMAIN folds : folds[i].train \subseteq dates /\ folds[i].holdout \subseteq dates
    PROVE  Read(folds, rows) \subseteq Reach(RowsOn(rows, dates))
  <1>1. \A i \in DOMAIN folds :
            TrainRows(rows, folds[i]) \cup HoldoutRows(rows, folds[i])
                \subseteq RowsOn(rows, dates)
    BY DEF TrainRows, HoldoutRows, RowsOn
  <1>2. \A some \in SUBSET RowsOn(rows, dates) :
            Reach(some) \subseteq Reach(RowsOn(rows, dates))
    BY DEF Reach
  <1>3. QED
    BY <1>1, <1>2, Zenon DEF Read

(***************************************************************************)
(* Inner folds are made of the dates they are given                        *)
(* (build_market_date_folds).                                              *)
(***************************************************************************)
LEMMA InnerWithin ==
    ASSUME NEW dates
    PROVE  \A i \in DOMAIN InnerFolds(dates) :
               /\ InnerFolds(dates)[i].train \subseteq dates
               /\ InnerFolds(dates)[i].holdout \subseteq dates
  <1>1. \A i : /\ FoldAt(dates, InnerSplits, InnerShare, horizon, i).train \subseteq dates
               /\ FoldAt(dates, InnerSplits, InnerShare, horizon, i).holdout \subseteq dates
    BY DEF FoldAt, Slice
  <1>2. QED
    BY <1>1, Zenon DEF InnerFolds

(***************************************************************************)
(* The labels of the rows selected on end before the final holdout.        *)
(***************************************************************************)
LEMMA SelectionReach ==
    ASSUME DatasetTypeOK, asked \in Asked, NEW folds
    PROVE  \A e \in Read(folds, SelectionRows) : e <= SelectionEnd
  <1>1. \A r \in SelectionRows : r.end <= SelectionEnd
    BY RowsTyped, EndInt DEF SelectionRows
  <1>2. \A i \in DOMAIN folds :
            TrainRows(SelectionRows, folds[i]) \cup HoldoutRows(SelectionRows, folds[i])
                \subseteq SelectionRows
    BY DEF TrainRows, HoldoutRows, RowsOn
  <1>3. \A some \in SUBSET SelectionRows : \A e \in Reach(some) : e <= SelectionEnd
    BY <1>1 DEF Reach
  <1>4. QED
    BY <1>2, <1>3, Zenon DEF Read

\* The invariant of one thread's work, with the inputs there are.
SoundNow(w) == Sound(w, SelectionRows, FullRows, Outer, SelectionEnd)

\* Work within an outer fold, whatever is behind its choice.
Midway(w) ==
    /\ w \in Work
    /\ w.pc \in {"screen", "tune", "assess"}
    /\ w.selection = SelectionRows /\ w.full = FullRows
    /\ w.outer = Outer /\ w.fold \in 1..OuterSplits
    /\ Unread(w, SelectionEnd)
    /\ Once(w)

(***************************************************************************)
(* A thread that has returned holds nothing of its matrix.                 *)
(***************************************************************************)
LEMMA RepliedSound ==
    ASSUME NEW reply \in Replies, NEW sel, NEW full, NEW outer, NEW end
    PROVE  Sound([NoWork EXCEPT !.reply = reply], sel, full, outer, end)
  <1> DEFINE w == [NoWork EXCEPT !.reply = reply]
  <1>1. w \in Work
    BY RepliedTyped
  <1>2. /\ w.pc = "idle" /\ w.tried = "none" /\ w.executions = 0
        /\ w.read = {} /\ w.results = <<>> /\ w.behind = {}
    BY DEF NoWork
  <1>3. Once(w)
    BY <1>2 DEF Once
  <1> HIDE DEF w
  <1>4. Loaded(w, sel, full, outer) /\ Unread(w, end)
    BY <1>2 DEF Loaded, Unread
  <1>5. Sound(w, sel, full, outer, end)
    BY <1>1, <1>3, <1>4 DEF Sound
  <1>6. QED
    BY <1>5 DEF w

(***************************************************************************)
(* The same of a thread that has not been called.                          *)
(***************************************************************************)
LEMMA NoWorkSound ==
    ASSUME NEW sel, NEW full, NEW outer, NEW end
    PROVE  Sound(NoWork, sel, full, outer, end)
  <1>1. /\ NoWork.pc = "idle" /\ NoWork.tried = "none" /\ NoWork.executions = 0
        /\ NoWork.read = {} /\ NoWork.results = <<>> /\ NoWork.behind = {}
    BY DEF NoWork
  <1>2. Once(NoWork)
    BY <1>1 DEF Once
  <1>3. Loaded(NoWork, sel, full, outer) /\ Unread(NoWork, end)
    BY <1>1 DEF Loaded, Unread
  <1>4. QED
    BY <1>2, <1>3, NoWorkTyped DEF Sound

(***************************************************************************)
(* Reading folds on the selection rows (_evaluate_group) reads nothing of  *)
(* the final holdout.                                                      *)
(***************************************************************************)
LEMMA MidwayEvaluated ==
    ASSUME DatasetTypeOK, asked \in Asked, NEW folds, NEW w, Midway(w)
    PROVE  /\ Midway(Evaluated(w, folds))
           /\ Evaluated(w, folds).id = w.id /\ Evaluated(w, folds).pc = w.pc
           /\ Evaluated(w, folds).set = w.set /\ Evaluated(w, folds).choice = w.choice
           /\ Evaluated(w, folds).fold = w.fold
           /\ Evaluated(w, folds).behind = w.behind \cup Read(folds, SelectionRows)
  <1> DEFINE v == Evaluated(w, folds)
  <1>1. w \in Work /\ w.selection = SelectionRows
    BY DEF Midway
  <1>2. v = [w EXCEPT !.behind = w.behind \cup Read(folds, SelectionRows),
                      !.read = w.read \cup Read(folds, SelectionRows)]
    BY <1>1 DEF Evaluated, Work
  <1>3. /\ v.pc = w.pc /\ v.id = w.id /\ v.set = w.set /\ v.choice = w.choice
        /\ v.selection = w.selection /\ v.full = w.full /\ v.outer = w.outer
        /\ v.fold = w.fold /\ v.tried = w.tried /\ v.executions = w.executions
        /\ v.results = w.results /\ v.frozen = w.frozen /\ v.verdict = w.verdict
        /\ v.read = w.read \cup Read(folds, SelectionRows)
        /\ v.behind = w.behind \cup Read(folds, SelectionRows)
    BY <1>1, <1>2 DEF Work
  <1>4. v \in Work
    BY <1>1, EvaluatedTyped
  <1> HIDE DEF v
  <1>5. Unread(v, SelectionEnd)
    <2>1. \A e \in Read(folds, SelectionRows) : e <= SelectionEnd
      BY SelectionReach
    <2>2. QED
      BY <1>3, <2>1 DEF Midway, Unread
  <1>6. Once(v)
    BY <1>3 DEF Midway, Once
  <1>7. Midway(v)
    BY <1>3, <1>4, <1>5, <1>6 DEF Midway
  <1>8. QED
    BY <1>3, <1>7 DEF v

(***************************************************************************)
(* The next outer fold starts from nothing but the request.                *)
(***************************************************************************)
LEMMA NextFoldSound ==
    ASSUME NEW w, Midway(w)
    PROVE  SoundNow(NextFold(w)) /\ NextFold(w).id = w.id /\ NextFold(w).pc # "idle"
  <1> DEFINE v == NextFold(w)
  <1>1. w \in Work /\ w.fold \in 1..OuterSplits /\ OuterSplits \in Nat
    BY SelectionAssumption DEF Midway
  <1>2. v \in Work
    BY <1>1, NextFoldTyped
  <1>3. /\ v.id = w.id /\ v.selection = w.selection /\ v.full = w.full
        /\ v.outer = w.outer /\ v.tried = w.tried /\ v.executions = w.executions
        /\ v.results = w.results /\ v.frozen = w.frozen /\ v.verdict = w.verdict
        /\ v.read = w.read /\ v.behind = {}
    BY <1>1 DEF NextFold, Work
  <1>4. /\ v.pc = IF w.fold = OuterSplits THEN "rank" ELSE "screen"
        /\ v.fold = IF w.fold = OuterSplits THEN 0 ELSE w.fold + 1
    BY <1>1 DEF NextFold, Work
  <1> HIDE DEF v
  <1>5. Loaded(v, SelectionRows, FullRows, Outer)
    <2>1. v.pc \in {"rank", "screen"}
      BY <1>4
    <2>2. v.pc = "screen" => v.fold \in 1..OuterSplits
      BY <1>1, <1>4
    <2>3. QED
      BY <1>3, <2>1, <2>2 DEF Midway, Loaded
  <1>6. Unread(v, SelectionEnd)
    BY <1>3 DEF Midway, Unread
  <1>7. Once(v)
    <2>1. w.pc \notin {"final", "save"} /\ v.pc \notin {"final", "save"}
      BY <1>4 DEF Midway
    <2>2. QED
      BY <1>3, <2>1 DEF Midway, Once
  <1>8. SoundNow(v) /\ v.pc # "idle"
    BY <1>2, <1>4, <1>5, <1>6, <1>7 DEF SoundNow, Sound
  <1>9. QED
    BY <1>3, <1>8 DEF v

(***************************************************************************)
(* Sound work within an outer fold reads inner folds of its training dates *)
(* and nothing else.                                                       *)
(***************************************************************************)
LEMMA BehindWithin ==
    ASSUME DatasetTypeOK, asked \in Asked, NEW w, SoundNow(w),
           w.pc \in {"screen", "tune", "assess"}
    PROVE  /\ Midway(w)
           /\ w.behind \cup Read(InnerFolds(InnerDates(Fold(w))), SelectionRows)
                  \subseteq Reach(RowsOn(SelectionRows, Outer[w.fold].train))
  <1>1. /\ w.outer = Outer
        /\ w.behind \subseteq Reach(RowsOn(SelectionRows, Outer[w.fold].train))
    BY DEF SoundNow, Sound, Loaded
  <1>2. InnerDates(Fold(w)) = Outer[w.fold].train
    BY <1>1 DEF InnerDates, Fold
  <1>3. Read(InnerFolds(Outer[w.fold].train), SelectionRows)
            \subseteq Reach(RowsOn(SelectionRows, Outer[w.fold].train))
    BY InnerWithin, ReadWithin, Zenon
  <1>4. Midway(w)
    BY DEF SoundNow, Sound, Loaded, Midway
  <1>5. QED
    BY <1>1, <1>2, <1>3, <1>4

\* A thread goes on with its matrix, or leaves it with a reply.
Goes(t, w) ==
    /\ Become(t, w) /\ SoundNow(w)
    /\ w.id = work[t].id /\ w.pc # "idle"
    /\ slot' = slot

Moves(t) ==
    \/ \E w : Goes(t, w)
    \/ \E reply \in Replies : Return(t, reply)

(***************************************************************************)
(* What the invariant says of the dataset and of one thread's work.        *)
(***************************************************************************)
LEMMA InvOf ==
    ASSUME IInv, NEW t \in Threads
    PROVE  /\ DatasetTypeOK /\ asked \in Asked
           /\ SoundNow(work[t]) /\ work[t] \in Work
  BY DEF IInv, TypeOK, SoundNow, Sound

(***************************************************************************)
(* Loading (_load_method_selection_inputs) takes the rows and folds of the *)
(* request, or ends the call.                                              *)
(***************************************************************************)
LEMMA LoadMoves ==
    ASSUME IInv, NEW t \in Threads, Load(t)
    PROVE  Moves(t)
  <1> DEFINE w == [work[t] EXCEPT
                     !.pc = "screen", !.fold = 1, !.outer = Outer,
                     !.selection = SelectionRows, !.full = FullRows]
  <1>1. CASE Become(t, w) /\ slot' = slot
    <2>1. work[t] \in Work /\ work[t].pc = "load" /\ SoundNow(work[t])
      BY InvOf DEF Load
    <2>2. SelectionRows \in SUBSET DatasetRow /\ FullRows \in SUBSET DatasetRow
      BY InvOf, EndInt, RowsTyped DEF SelectionRows, FullRows
    <2>3. Outer \in Seq(DateFold)
      <3>1. ReadyDates(SelectionRows) \in SUBSET Int
        BY <2>2 DEF ReadyDates, DatasetRow
      <3>2. QED
        BY <3>1, FoldsTyped DEF Outer
    <2>4. 1 \in 0..OuterSplits /\ 1 \in 1..OuterSplits
      BY SelectionAssumption
    <2>5. w \in Work
      BY <2>1, <2>2, <2>3, <2>4 DEF Work, Stages
    <2>6. /\ w.pc = "screen" /\ w.fold = 1 /\ w.outer = Outer
          /\ w.selection = SelectionRows /\ w.full = FullRows
          /\ w.id = work[t].id /\ w.tried = work[t].tried /\ w.behind = work[t].behind
          /\ w.executions = work[t].executions /\ w.results = work[t].results
          /\ w.frozen = work[t].frozen /\ w.read = work[t].read
      BY <2>1 DEF Work
    <2> HIDE DEF w
    <2>7. work[t].behind = {}
      BY <2>1 DEF SoundNow, Sound, Loaded
    <2>8. Loaded(w, SelectionRows, FullRows, Outer)
      BY <2>4, <2>6, <2>7 DEF Loaded
    <2>9. Unread(w, SelectionEnd)
      BY <2>1, <2>6 DEF SoundNow, Sound, Unread
    <2>10. Once(w)
      BY <2>1, <2>6 DEF SoundNow, Sound, Once
    <2>11. SoundNow(w)
      BY <2>5, <2>8, <2>9, <2>10 DEF SoundNow, Sound
    <2>12. Goes(t, w)
      BY <1>1, <2>6, <2>11 DEF Goes
    <2>13. QED
      BY <2>12 DEF Moves
  <1>2. CASE \E reply \in Replies : Return(t, reply)
    BY <1>2 DEF Moves
  <1>3. \/ Become(t, w) /\ slot' = slot
        \/ Return(t, "insufficient")
        \/ Return(t, "failed")
    BY DEF Load, Outer
  <1>4. QED
    BY <1>1, <1>2, <1>3 DEF Replies

(***************************************************************************)
(* A step within an outer fold that finds no candidate goes on to the next *)
(* one.                                                                    *)
(***************************************************************************)
LEMMA NextFoldMoves ==
    ASSUME NEW t \in Threads, NEW w, Midway(w), w.id = work[t].id,
           Become(t, NextFold(w)), slot' = slot
    PROVE  Moves(t)
  BY NextFoldSound, Zenon DEF Goes, Moves

(***************************************************************************)
(* Work that goes on within its outer fold with a choice of its own is     *)
(* sound if what is behind the choice is.                                  *)
(***************************************************************************)
LEMMA StageMoves ==
    ASSUME NEW t \in Threads, NEW w, Midway(w), w.id = work[t].id,
           NEW v, v \in Work, Become(t, v), slot' = slot,
           v.pc \in {"tune", "assess"},
           v.pc = "tune" => v.set \in FeatureSets,
           v.pc = "assess" => v.choice \in Catalog,
           \A field \in DOMAIN w \ {"pc", "set", "choice"} : v[field] = w[field],
           v.behind \subseteq Reach(RowsOn(SelectionRows, Outer[v.fold].train))
    PROVE  Moves(t)
  <1>1. /\ v.id = w.id /\ v.selection = w.selection /\ v.full = w.full
        /\ v.outer = w.outer /\ v.fold = w.fold /\ v.tried = w.tried
        /\ v.executions = w.executions /\ v.results = w.results
        /\ v.frozen = w.frozen /\ v.read = w.read
    BY DEF Midway, Work
  <1>2. Loaded(v, SelectionRows, FullRows, Outer)
    BY <1>1 DEF Midway, Loaded
  <1>3. Unread(v, SelectionEnd)
    BY <1>1 DEF Midway, Unread
  <1>4. Once(v)
    BY <1>1 DEF Midway, Once
  <1>5. Goes(t, v)
    BY <1>1, <1>2, <1>3, <1>4 DEF Goes, SoundNow, Sound
  <1>6. QED
    BY <1>5 DEF Moves

(***************************************************************************)
(* Phase A of an outer fold                                                *)
(* (_build_inner_selection): a feature set is chosen on inner folds.       *)
(***************************************************************************)
LEMMA ScreenMoves ==
    ASSUME IInv, NEW t \in Threads, Screen(t)
    PROVE  Moves(t)
  <1> DEFINE folds == InnerFolds(InnerDates(Fold(work[t])))
             w == Evaluated(work[t], folds)
  <1>1. work[t].pc = "screen" /\ SoundNow(work[t]) /\ DatasetTypeOK /\ asked \in Asked
    BY InvOf DEF Screen
  <1>2. /\ Midway(work[t])
        /\ work[t].behind \cup Read(folds, SelectionRows)
               \subseteq Reach(RowsOn(SelectionRows, Outer[work[t].fold].train))
    BY <1>1, BehindWithin
  <1>3. /\ Midway(w) /\ w.id = work[t].id /\ w.fold = work[t].fold
        /\ w.behind \subseteq Reach(RowsOn(SelectionRows, Outer[w.fold].train))
    BY <1>1, <1>2, MidwayEvaluated
  <1>4. CASE Return(t, "insufficient")
    BY <1>4 DEF Moves, Replies
  <1>5. ASSUME NEW o \in Outcomes(FeatureSets \X {Recipe}, folds, w.selection),
               IF o.winner = None
               THEN Become(t, NextFold(w))
               ELSE Become(t, [w EXCEPT !.pc = "tune", !.set = o.winner[1]]),
               slot' = slot
        PROVE  Moves(t)
    <2> HIDE DEF w
    <2>1. CASE o.winner = None
      BY <1>3, <1>5, <2>1, NextFoldMoves
    <2>2. CASE o.winner # None
      <3> DEFINE v == [w EXCEPT !.pc = "tune", !.set = o.winner[1]]
      <3>1. o.winner[1] \in FeatureSets
        BY <1>5, <2>2, WinnerOf
      <3>2. w \in Work
        BY <1>3 DEF Midway
      <3>3. /\ v \in Work /\ v.pc = "tune" /\ v.set = o.winner[1]
            /\ v.fold = w.fold /\ v.behind = w.behind
        BY <3>1, <3>2 DEF Work, Stages
      <3>4. \A field \in DOMAIN w \ {"pc", "set", "choice"} : v[field] = w[field]
        BY <3>2 DEF Work
      <3>5. Become(t, v)
        BY <1>5, <2>2
      <3> HIDE DEF v
      <3>6. QED
        BY <1>3, <1>5, <3>1, <3>3, <3>4, <3>5, StageMoves
    <2>3. QED
      BY <2>1, <2>2
  <1>6. QED
    BY <1>4, <1>5 DEF Screen

(***************************************************************************)
(* Phase B of an outer fold: the parameters of that feature set are chosen *)
(* on the same inner folds.                                                *)
(***************************************************************************)
LEMMA TuneMoves ==
    ASSUME IInv, NEW t \in Threads, Tune(t)
    PROVE  Moves(t)
  <1> DEFINE folds == InnerFolds(InnerDates(Fold(work[t])))
             w == Evaluated(work[t], folds)
  <1>1. work[t].pc = "tune" /\ SoundNow(work[t]) /\ DatasetTypeOK /\ asked \in Asked
    BY InvOf DEF Tune
  <1>2. /\ Midway(work[t])
        /\ work[t].behind \cup Read(folds, SelectionRows)
               \subseteq Reach(RowsOn(SelectionRows, Outer[work[t].fold].train))
    BY <1>1, BehindWithin
  <1>3. /\ Midway(w) /\ w.id = work[t].id /\ w.fold = work[t].fold
        /\ w.set = work[t].set
        /\ w.behind \subseteq Reach(RowsOn(SelectionRows, Outer[w.fold].train))
    BY <1>1, <1>2, MidwayEvaluated
  <1>4. w.set \in FeatureSets
    BY <1>1, <1>3 DEF SoundNow, Sound, Loaded
  <1>5. ASSUME NEW o \in Outcomes({w.set} \X Tunings, folds, w.selection),
               IF o.winner = None
               THEN Become(t, NextFold(w))
               ELSE Become(t, [w EXCEPT !.pc = "assess", !.choice = o.winner]),
               slot' = slot
        PROVE  Moves(t)
    <2> HIDE DEF w
    <2>1. CASE o.winner = None
      BY <1>3, <1>5, <2>1, NextFoldMoves
    <2>2. CASE o.winner # None
      <3> DEFINE v == [w EXCEPT !.pc = "assess", !.choice = o.winner]
      <3>1. o.winner \in Catalog
        BY <1>4, <1>5, <2>2, WinnerOf DEF Catalog
      <3>2. w \in Work
        BY <1>3 DEF Midway
      <3>3. /\ v \in Work /\ v.pc = "assess" /\ v.choice = o.winner
            /\ v.fold = w.fold /\ v.behind = w.behind
        BY <3>1, <3>2 DEF Work, Stages
      <3>4. \A field \in DOMAIN w \ {"pc", "set", "choice"} : v[field] = w[field]
        BY <3>2 DEF Work
      <3>5. Become(t, v)
        BY <1>5, <2>2
      <3> HIDE DEF v
      <3>6. QED
        BY <1>3, <1>5, <3>1, <3>3, <3>4, <3>5, StageMoves
    <2>3. QED
      BY <2>1, <2>2
  <1>6. QED
    BY <1>5 DEF Tune

(***************************************************************************)
(* The choice of an outer fold is tried on its holdout, recorded, and      *)
(* forgotten.                                                              *)
(***************************************************************************)
LEMMA AssessMoves ==
    ASSUME IInv, NEW t \in Threads, Assess(t)
    PROVE  Moves(t)
  <1> DEFINE folds == <<Fold(work[t])>>
             w == Evaluated(work[t], folds)
             c == work[t].choice
             v(e) == [w EXCEPT !.assessed = @ \cup {[candidate |-> c, status |-> e[c]]}]
  <1>1. /\ work[t].pc = "assess" /\ SoundNow(work[t])
        /\ DatasetTypeOK /\ asked \in Asked /\ slot' = slot
    BY InvOf DEF Assess
  <1>2. Midway(work[t])
    BY <1>1, BehindWithin
  <1>3. Midway(w) /\ w.id = work[t].id
    BY <1>1, <1>2, MidwayEvaluated
  <1>4. c \in Catalog
    BY <1>1 DEF SoundNow, Sound, Loaded
  <1>5. PICK e \in Evaluations({c}, folds, w.selection) : Become(t, NextFold(v(e)))
    BY DEF Assess
  <1>6. e[c] \in Statuses
    BY <1>5 DEF Evaluations, Statuses
  <1> HIDE DEF c, w
  <1>7. w \in Work
    BY <1>3 DEF Midway
  <1>8. w.assessed \cup {[candidate |-> c, status |-> e[c]]}
            \in SUBSET [candidate : Catalog, status : Statuses]
    BY <1>4, <1>6, <1>7 DEF Work
  <1>9. /\ v(e) \in Work
        /\ v(e).pc = w.pc /\ v(e).id = w.id /\ v(e).selection = w.selection
        /\ v(e).full = w.full /\ v(e).outer = w.outer /\ v(e).fold = w.fold
        /\ v(e).tried = w.tried /\ v(e).executions = w.executions
        /\ v(e).results = w.results /\ v(e).frozen = w.frozen /\ v(e).read = w.read
        /\ v(e).verdict = w.verdict
    BY <1>7, <1>8 DEF Work
  <1> HIDE DEF v
  <1>10. Midway(v(e))
    <2>1. Unread(v(e), SelectionEnd)
      BY <1>3, <1>9 DEF Midway, Unread
    <2>2. Once(v(e))
      BY <1>3, <1>9 DEF Midway, Once
    <2>3. QED
      BY <1>3, <1>9, <2>1, <2>2 DEF Midway
  <1>11. QED
    BY <1>1, <1>3, <1>5, <1>9, <1>10, NextFoldMoves

(***************************************************************************)
(* After the outer folds the work is sound if it keeps the rows of the     *)
(* request and tries the frozen candidate once.                            *)
(***************************************************************************)
LEMMA LateMoves ==
    ASSUME NEW t \in Threads, SoundNow(work[t]),
           work[t].pc \in {"rank", "refine", "final"},
           NEW v, v \in Work, Become(t, v), slot' = slot,
           v.pc \in {"refine", "final", "save"},
           v.id = work[t].id, v.selection = work[t].selection, v.full = work[t].full,
           Unread(v, SelectionEnd), Once(v)
    PROVE  Moves(t)
  <1>1. Loaded(v, SelectionRows, FullRows, Outer)
    BY DEF SoundNow, Sound, Loaded
  <1>2. Goes(t, v)
    BY <1>1 DEF Goes, SoundNow, Sound
  <1>3. QED
    BY <1>2 DEF Moves

(***************************************************************************)
(* Ranking the outer results (_build_shortlist) shortlists candidates of   *)
(* the catalog.                                                            *)
(***************************************************************************)
LEMMA RankMoves ==
    ASSUME IInv, NEW t \in Threads, Rank(t)
    PROVE  Moves(t)
  <1>1. /\ work[t].pc = "rank" /\ SoundNow(work[t]) /\ work[t] \in Work /\ slot' = slot
    BY InvOf DEF Rank
  <1>2. PICK l \in Shortlists(work[t]) :
            Become(t, [work[t] EXCEPT !.shortlist = l, !.assessed = {},
                                      !.pc = IF l = {} THEN "save" ELSE "refine"])
    BY DEF Rank
  <1>3. l \in SUBSET Catalog
    <2>1. Shortlistable(work[t]) \in SUBSET Catalog
      BY <1>1 DEF Shortlistable, Work
    <2>2. QED
      BY <1>2, <2>1 DEF Shortlists
  <1> DEFINE pc == IF l = {} THEN "save" ELSE "refine"
             v == [work[t] EXCEPT !.shortlist = l, !.assessed = {}, !.pc = pc]
  <1>4. pc \in {"refine", "save"}
    OBVIOUS
  <1>5. Become(t, v)
    BY <1>2
  <1> HIDE DEF pc
  <1>6. /\ v \in Work /\ v.pc = pc
        /\ v.id = work[t].id /\ v.selection = work[t].selection /\ v.full = work[t].full
        /\ v.tried = work[t].tried /\ v.executions = work[t].executions
        /\ v.results = work[t].results /\ v.read = work[t].read
    BY <1>1, <1>3, <1>4, ZenonT(60) DEF Work, Stages
  <1> HIDE DEF v
  <1>7. Unread(v, SelectionEnd)
    BY <1>1, <1>6 DEF SoundNow, Sound, Unread
  <1>8. Once(v)
    <2>1. work[t].tried = "none" /\ work[t].results = <<>> /\ work[t].executions <= 1
      BY <1>1 DEF SoundNow, Sound, Once
    <2>2. QED
      BY <1>4, <1>6, <2>1 DEF Once
  <1>9. QED
    BY <1>1, <1>4, <1>5, <1>6, <1>7, <1>8, LateMoves

(***************************************************************************)
(* The final inner selection (_build_final_inner_selection) reads the      *)
(* selection rows and freezes one candidate, or keeps why there is none.   *)
(***************************************************************************)
LEMMA RefineMoves ==
    ASSUME IInv, NEW t \in Threads, Refine(t)
    PROVE  Moves(t)
  <1> DEFINE folds == InnerFolds(ReadyDates(work[t].selection))
             w == Evaluated(work[t], folds)
  <1>1. /\ work[t].pc = "refine" /\ SoundNow(work[t]) /\ work[t] \in Work
        /\ DatasetTypeOK /\ asked \in Asked /\ slot' = slot
    BY InvOf DEF Refine
  <1>2. /\ work[t].tried = "none" /\ work[t].results = <<>> /\ work[t].executions = 0
        /\ work[t].selection = SelectionRows
        /\ \A e \in work[t].read : e <= SelectionEnd
    BY <1>1 DEF SoundNow, Sound, Loaded, Unread, Once
  <1>3. CASE Become(t, [work[t] EXCEPT !.pc = "final", !.verdict = FailedVerdict])
    <2> DEFINE v == [work[t] EXCEPT !.pc = "final", !.verdict = FailedVerdict]
    <2>1. FailedVerdict \in Statuses
      BY DEF FailedVerdict, Statuses
    <2>2. /\ v \in Work /\ v.pc = "final" /\ v.verdict = FailedVerdict
          /\ v.id = work[t].id /\ v.selection = work[t].selection
          /\ v.full = work[t].full /\ v.tried = work[t].tried
          /\ v.executions = work[t].executions /\ v.results = work[t].results
          /\ v.read = work[t].read
      BY <1>1, <2>1 DEF Work, Stages
    <2> HIDE DEF v
    <2>3. Unread(v, SelectionEnd) /\ Once(v)
      BY <1>2, <2>1, <2>2 DEF Unread, Once
    <2>4. Become(t, v)
      BY <1>3 DEF v
    <2>5. QED
      BY <1>1, <2>2, <2>3, <2>4, LateMoves
  <1>4. ASSUME NEW o \in Outcomes(Catalog, folds, w.selection),
               Become(t, [w EXCEPT !.pc = "final", !.frozen = o.winner,
                                   !.verdict = o.verdict])
        PROVE  Moves(t)
    <2> DEFINE v == [w EXCEPT !.pc = "final", !.frozen = o.winner, !.verdict = o.verdict]
    <2>1. /\ o.winner \in Catalog \cup {None} /\ o.verdict \in Statuses \cup {"none"}
          /\ o.winner = None => o.verdict \in Statuses
      <3>1. None \notin Catalog
        BY SelectionAssumption
      <3>2. QED
        BY <1>4, <3>1, OutcomesTyped
    <2>2. w \in Work
      BY <1>1, EvaluatedTyped
    <2>3. /\ w.id = work[t].id /\ w.selection = work[t].selection
          /\ w.full = work[t].full /\ w.tried = work[t].tried
          /\ w.executions = work[t].executions /\ w.results = work[t].results
          /\ w.read = work[t].read \cup Read(folds, SelectionRows)
      BY <1>1, <1>2 DEF Evaluated, Work
    <2>4. Become(t, v)
      BY <1>4
    <2> HIDE DEF w, folds
    <2>5. /\ v \in Work /\ v.pc = "final" /\ v.verdict = o.verdict
          /\ v.frozen = o.winner /\ v.id = w.id /\ v.selection = w.selection
          /\ v.full = w.full /\ v.tried = w.tried
          /\ v.executions = w.executions /\ v.results = w.results
          /\ v.read = w.read
      BY <2>1, <2>2, ZenonT(60) DEF Work, Stages
    <2> HIDE DEF v
    <2>6. Unread(v, SelectionEnd)
      BY <1>1, <1>2, <2>3, <2>5, SelectionReach DEF Unread
    <2>7. Once(v)
      BY <1>2, <2>1, <2>3, <2>5 DEF Once
    <2>8. QED
      BY <1>1, <2>3, <2>4, <2>5, <2>6, <2>7, LateMoves
  <1>5. QED
    BY <1>3, <1>4, Zenon DEF Refine

(***************************************************************************)
(* A matrix whose entries all have a result is saved next.                 *)
(***************************************************************************)
LEMMA ReportMoves ==
    ASSUME IInv, NEW t \in Threads, Report(t)
    PROVE  Moves(t)
  <1> DEFINE v == [work[t] EXCEPT !.pc = "save"]
  <1>1. /\ work[t].pc = "final" /\ SoundNow(work[t]) /\ work[t] \in Work
        /\ slot' = slot /\ Become(t, v)
    BY InvOf DEF Report
  <1>2. /\ v \in Work /\ v.pc = "save"
        /\ v.id = work[t].id /\ v.selection = work[t].selection /\ v.full = work[t].full
        /\ v.tried = work[t].tried /\ v.executions = work[t].executions
        /\ v.results = work[t].results /\ v.read = work[t].read
        /\ v.frozen = work[t].frozen
    BY <1>1 DEF Work, Stages
  <1> HIDE DEF v
  <1>3. Unread(v, SelectionEnd)
    BY <1>1, <1>2 DEF SoundNow, Sound, Unread
  <1>4. Once(v)
    BY <1>1, <1>2 DEF SoundNow, Sound, Once
  <1>5. QED
    BY <1>1, <1>2, <1>3, <1>4, LateMoves

(***************************************************************************)
(* A result appended to the list of a matrix keeps it typed, and is the    *)
(* only one that may be a new promotion.                                   *)
(***************************************************************************)
LEMMA ResultAppended ==
    ASSUME NEW list \in Seq(Results), NEW r \in Results
    PROVE  /\ Append(list, r) \in Seq(Results)
           /\ (\E i \in DOMAIN Append(list, r) : Append(list, r)[i] = "promoted")
                  => r = "promoted" \/ \E i \in DOMAIN list : list[i] = "promoted"
  OBVIOUS

(***************************************************************************)
(* One entry of the shortlist (_build_final_holdout_result): the first one *)
(* runs the frozen candidate, later ones use what it made, and without a   *)
(* frozen candidate nothing is run.                                        *)
(***************************************************************************)
LEMMA FinalMoves ==
    ASSUME IInv, NEW t \in Threads, Final(t)
    PROVE  Moves(t)
  <1>1. /\ work[t].pc = "final" /\ SoundNow(work[t]) /\ work[t] \in Work
        /\ slot' = slot
    BY InvOf DEF Final
  <1>2. work[t].results \in Seq(Results)
    BY <1>1 DEF Work
  <1>3. Unread(work[t], SelectionEnd) /\ Once(work[t])
    BY <1>1 DEF SoundNow, Sound
  <1>4. Statuses \subseteq Results /\ \A s \in Statuses : EntryResults(s) \subseteq Results
    BY DEF Statuses, Results, EntryResults
  <1>5. ASSUME NEW r \in Results,
               Become(t, [work[t] EXCEPT !.results = Append(@, r)]),
               r = "promoted" => work[t].tried = "evaluated" /\ work[t].frozen \in Catalog
        PROVE  Moves(t)
    <2> DEFINE v == [work[t] EXCEPT !.results = Append(work[t].results, r)]
    <2>1. Become(t, v)
      BY <1>1, <1>5 DEF Work
    <2>2. /\ v \in Work /\ v.pc = "final"
          /\ v.id = work[t].id /\ v.selection = work[t].selection
          /\ v.full = work[t].full /\ v.tried = work[t].tried
          /\ v.executions = work[t].executions
          /\ v.results = Append(work[t].results, r) /\ v.frozen = work[t].frozen
          /\ v.verdict = work[t].verdict /\ v.read = work[t].read
      BY <1>1, <1>2, ResultAppended DEF Work
    <2> HIDE DEF v
    <2>3. Unread(v, SelectionEnd)
      BY <1>3, <2>2 DEF Unread
    <2>4. (\E i \in DOMAIN v.results : v.results[i] = "promoted") =>
              v.tried = "evaluated" /\ v.frozen \in Catalog
      BY <1>2, <1>3, <1>5, <2>2, ResultAppended DEF Once
    <2>5. Once(v)
      BY <1>1, <1>3, <2>2, <2>4 DEF Once
    <2>6. QED
      BY <1>1, <2>1, <2>2, <2>3, <2>5, LateMoves
  <1>6. CASE /\ work[t].frozen = None
             /\ Become(t, [work[t] EXCEPT !.results = Append(@, work[t].verdict)])
    <2>1. work[t].verdict \in Statuses
      BY <1>1, <1>3, <1>6 DEF Once
    <2>2. work[t].verdict \in Results /\ work[t].verdict # "promoted"
      BY <2>1 DEF Statuses, Results
    <2>3. QED
      BY <1>5, <1>6, <2>2
  <1>7. CASE /\ work[t].frozen # None /\ work[t].tried # "none"
             /\ \E r \in EntryResults(work[t].tried) :
                    Become(t, [work[t] EXCEPT !.results = Append(@, r)])
    <2>1. PICK r \in EntryResults(work[t].tried) :
              Become(t, [work[t] EXCEPT !.results = Append(@, r)])
      BY <1>7
    <2>2. work[t].tried \in Statuses /\ work[t].frozen \in Catalog
      BY <1>1, <1>7 DEF Work
    <2>3. r \in Results
      BY <1>4, <2>1, <2>2
    <2>4. r = "promoted" => work[t].tried = "evaluated"
      BY <2>1, <2>2 DEF EntryResults, Statuses
    <2>5. QED
      BY <1>5, <2>1, <2>2, <2>3, <2>4
  <1>8. ASSUME work[t].frozen # None, work[t].tried = "none",
               NEW folds, NEW status \in Artifacts(folds, work[t].full),
               NEW r \in EntryResults(status),
               Become(t, [WithArtifacts(work[t], folds, status) EXCEPT
                            !.results = Append(@, r)])
        PROVE  Moves(t)
    <2> DEFINE w == WithArtifacts(work[t], folds, status)
               v == [w EXCEPT !.results = Append(w.results, r)]
    <2>1. status \in Statuses /\ r \in Results
      BY <1>4, <1>8 DEF Artifacts, Statuses
    <2>2. work[t].frozen \in Catalog /\ work[t].executions = 0
      BY <1>1, <1>3, <1>8 DEF Work, Unread
    <2>3. Read(folds, work[t].full) \in SUBSET Int
      <3>1. work[t].full \in SUBSET DatasetRow
        BY <1>1 DEF Work
      <3>2. QED
        BY <3>1, ReadTyped
    <2>4. /\ w \in Work /\ w.pc = "final" /\ w.tried = status /\ w.executions = 1
          /\ w.id = work[t].id /\ w.selection = work[t].selection
          /\ w.full = work[t].full /\ w.results = work[t].results
          /\ w.frozen = work[t].frozen
      <3> DEFINE seen == Read(folds, work[t].full)
      <3>1. w = [work[t] EXCEPT !.tried = status, !.executions = 1,
                                !.read = work[t].read \cup seen]
        BY <1>1, <2>2 DEF WithArtifacts, Cached, Work
      <3>2. seen \in SUBSET Int
        BY <2>3
      <3> HIDE DEF w, seen
      <3>3. QED
        BY <1>1, <2>1, <2>2, <3>1, <3>2, ZenonT(60) DEF Work
    <2>5. Become(t, v)
      BY <1>8, <2>4 DEF Work
    <2> HIDE DEF w
    <2>6. /\ v \in Work /\ v.pc = "final" /\ v.tried = status /\ v.executions = 1
          /\ v.id = work[t].id /\ v.selection = work[t].selection
          /\ v.full = work[t].full /\ v.results = Append(work[t].results, r)
          /\ v.frozen = work[t].frozen
      BY <1>2, <2>1, <2>4, ResultAppended DEF Work
    <2> HIDE DEF v
    <2>7. Unread(v, SelectionEnd)
      BY <2>1, <2>6 DEF Unread, Statuses
    <2>8. (\E i \in DOMAIN v.results : v.results[i] = "promoted") =>
              v.tried = "evaluated" /\ v.frozen \in Catalog
      <3>1. ~\E i \in DOMAIN work[t].results : work[t].results[i] = "promoted"
        BY <1>3, <1>8 DEF Once
      <3>2. r = "promoted" => status = "evaluated"
        BY <1>8, <2>1 DEF EntryResults, Statuses
      <3>3. QED
        BY <1>2, <2>1, <2>2, <2>6, <3>1, <3>2, ResultAppended
    <2>9. Once(v)
      BY <2>2, <2>6, <2>8, SelectionAssumption DEF Once
    <2>10. QED
      BY <1>1, <2>5, <2>6, <2>7, <2>9, LateMoves
  <1>9. QED
    BY <1>6, <1>7, <1>8, Zenon DEF Final

-----------------------------------------------------------------------------
(***************************************************************************)
(* The invariant is inductive                                              *)
(***************************************************************************)

(***************************************************************************)
(* A thread that takes on sound work leaves every thread's work sound.     *)
(***************************************************************************)
LEMMA WorkStaysSound ==
    ASSUME IInv, UNCHANGED inputs, NEW t \in Threads, NEW w, Become(t, w), SoundNow(w)
    PROVE  /\ DatasetTypeOK' /\ asked' \in Asked /\ work' \in [Threads -> Work]
           /\ work'[t] = w /\ \A u \in Threads \ {t} : work'[u] = work[u]
           /\ \A u \in Threads :
                  Sound(work'[u], SelectionRows', FullRows', Outer', SelectionEnd')
  <1>1. w \in Work /\ work \in [Threads -> Work] /\ DatasetTypeOK /\ asked \in Asked
    BY DEF IInv, TypeOK, SoundNow, Sound
  <1>2. DatasetTypeOK' /\ asked' \in Asked
    BY <1>1 DEF DatasetTypeOK, inputs, dataset
  <1>3. work'[t] = w /\ \A u \in Threads \ {t} : work'[u] = work[u]
    BY <1>1 DEF Become
  <1>4. \A u \in Threads : Sound(work'[u], SelectionRows, FullRows, Outer, SelectionEnd)
    BY <1>3 DEF IInv, SoundNow
  <1>5. QED
    BY <1>1, <1>2, <1>3, <1>4, BecomeTyped, InputsStay

(***************************************************************************)
(* A thread inside a matrix is the one that holds the semaphore.           *)
(***************************************************************************)
LEMMA Holder ==
    ASSUME IInv, NEW t \in Threads, work[t].pc # "idle"
    PROVE  slot = {t} /\ \A u \in Threads \ {t} : work[u].pc = "idle"
  BY DEF IInv, OneMatrixAtATime

(***************************************************************************)
(* The thread that returns gives its semaphore back, and what it was doing *)
(* is sound to drop.                                                       *)
(***************************************************************************)
LEMMA ReturnSound ==
    ASSUME IInv, UNCHANGED inputs, NEW t \in Threads, work[t].pc # "idle",
           NEW reply \in Replies, Return(t, reply)
    PROVE  /\ DatasetTypeOK' /\ asked' \in Asked /\ work' \in [Threads -> Work]
           /\ slot' = {} /\ \A u \in Threads : work'[u].pc = "idle"
           /\ \A u \in Threads :
                  Sound(work'[u], SelectionRows', FullRows', Outer', SelectionEnd')
  <1> DEFINE w == [NoWork EXCEPT !.reply = reply]
  <1>1. SoundNow(w) /\ w.pc = "idle"
    BY RepliedSound DEF SoundNow, NoWork
  <1>2. Become(t, w) /\ slot' = slot \ {t}
    BY DEF Return, SlotAfter
  <1> HIDE DEF w
  <1>3. /\ DatasetTypeOK' /\ asked' \in Asked /\ work' \in [Threads -> Work]
        /\ work'[t] = w /\ \A u \in Threads \ {t} : work'[u] = work[u]
        /\ \A u \in Threads :
               Sound(work'[u], SelectionRows', FullRows', Outer', SelectionEnd')
    BY <1>1, <1>2, WorkStaysSound
  <1>4. slot' = {}
    BY <1>2, Holder
  <1>5. \A u \in Threads : work'[u].pc = "idle"
    BY <1>1, <1>3, Holder
  <1>6. QED
    BY <1>3, <1>4, <1>5

(***************************************************************************)
(* A step within a matrix that stores nothing keeps the invariant.         *)
(***************************************************************************)
LEMMA MovesInv ==
    ASSUME IInv, NEW t \in Threads, work[t].pc # "idle", Moves(t),
           UNCHANGED <<inputs, tables, calls>>, faults' \in 0..MaxFaults
    PROVE  IInv'
  <1>1. /\ inputs' = inputs /\ matrices' = matrices /\ runs' = runs /\ calls' = calls
    BY DEF tables
  <1>2. /\ DOMAIN matrices \subseteq 1..MaxCalls /\ calls \in 0..MaxCalls
        /\ DOMAIN matrices \subseteq 1..calls /\ NoOrphanRuns
    BY DEF IInv, TypeOK
  <1>3. NoOrphanRuns'
    BY <1>1, <1>2 DEF NoOrphanRuns
  <1>4. CASE \E w : Goes(t, w)
    <2>1. PICK w : Goes(t, w)
      BY <1>4
    <2>2. /\ DatasetTypeOK' /\ asked' \in Asked /\ work' \in [Threads -> Work]
          /\ work'[t] = w /\ \A u \in Threads \ {t} : work'[u] = work[u]
          /\ \A u \in Threads :
                 Sound(work'[u], SelectionRows', FullRows', Outer', SelectionEnd')
      BY <1>1, <2>1, WorkStaysSound DEF Goes
    <2>3. w.id = work[t].id /\ w.pc # "idle" /\ slot' = slot
      BY <2>1 DEF Goes
    <2>4. OneMatrixAtATime'
      <3>1. slot = {t} /\ \A u \in Threads \ {t} : work[u].pc = "idle"
        BY Holder
      <3>2. {u \in Threads : work'[u].pc # "idle"} = {t}
        BY <2>2, <2>3, <3>1
      <3>3. QED
        BY <2>3, <3>1, <3>2 DEF OneMatrixAtATime
    <2>5. \A u \in Threads : Numbered(work'[u], calls', (DOMAIN matrices)')
      BY <1>1, <2>2, <2>3 DEF IInv, Numbered
    <2>6. TypeOK'
      BY <1>1, <1>2, <2>2, <2>3 DEF TypeOK, IInv
    <2>7. QED
      BY <1>1, <1>2, <1>3, <2>2, <2>4, <2>5, <2>6 DEF IInv
  <1>5. CASE \E reply \in Replies : Return(t, reply)
    <2>1. /\ DatasetTypeOK' /\ asked' \in Asked /\ work' \in [Threads -> Work]
          /\ slot' = {} /\ \A u \in Threads : work'[u].pc = "idle"
          /\ \A u \in Threads :
                 Sound(work'[u], SelectionRows', FullRows', Outer', SelectionEnd')
      BY <1>1, <1>5, ReturnSound
    <2>2. OneMatrixAtATime'
      BY <2>1 DEF OneMatrixAtATime
    <2>3. \A u \in Threads : Numbered(work'[u], calls', (DOMAIN matrices)')
      BY <2>1 DEF Numbered
    <2>4. TypeOK'
      BY <1>1, <1>2, <2>1 DEF TypeOK
    <2>5. QED
      BY <1>1, <1>2, <1>3, <2>1, <2>2, <2>3, <2>4 DEF IInv
  <1>6. QED
    BY <1>4, <1>5 DEF Moves

(***************************************************************************)
(* A fault counts as one.                                                  *)
(***************************************************************************)
LEMMA FaultTyped ==
    ASSUME faults \in 0..MaxFaults, Fault
    PROVE  faults' \in 0..MaxFaults
  BY SelectionAssumption DEF Fault

(***************************************************************************)
(* Every stage before the save is such a step.                             *)
(***************************************************************************)
LEMMA StageInv ==
    ASSUME IInv, NEW t \in Threads,
           \/ Load(t) \/ Raises(t) \/ Screen(t) \/ Tune(t) \/ Assess(t)
           \/ Rank(t) \/ Refine(t) \/ Final(t) \/ Report(t)
    PROVE  IInv'
  <1>1. faults \in 0..MaxFaults
    BY DEF IInv, TypeOK
  <1>2. CASE Load(t)
    <2>1. /\ work[t].pc # "idle" /\ UNCHANGED <<inputs, tables, calls>>
          /\ Fault \/ UNCHANGED faults
      BY <1>2 DEF Load
    <2>2. QED
      BY <1>1, <1>2, <2>1, FaultTyped, LoadMoves, MovesInv
  <1>3. CASE Raises(t)
    <2>1. /\ work[t].pc # "idle" /\ UNCHANGED <<inputs, tables, calls>>
          /\ UNCHANGED faults /\ Return(t, "failed")
      BY <1>3 DEF Raises
    <2>2. Moves(t)
      BY <2>1 DEF Moves, Replies
    <2>3. QED
      BY <1>1, <2>1, <2>2, MovesInv
  <1>4. CASE Screen(t)
    <2>1. work[t].pc # "idle" /\ UNCHANGED <<inputs, tables, calls, faults>>
      BY <1>4 DEF Screen
    <2>2. QED
      BY <1>1, <1>4, <2>1, ScreenMoves, MovesInv
  <1>5. CASE Tune(t)
    <2>1. work[t].pc # "idle" /\ UNCHANGED <<inputs, tables, calls, faults>>
      BY <1>5 DEF Tune
    <2>2. QED
      BY <1>1, <1>5, <2>1, TuneMoves, MovesInv
  <1>6. CASE Assess(t)
    <2>1. work[t].pc # "idle" /\ UNCHANGED <<inputs, tables, calls, faults>>
      BY <1>6 DEF Assess
    <2>2. QED
      BY <1>1, <1>6, <2>1, AssessMoves, MovesInv
  <1>7. CASE Rank(t)
    <2>1. work[t].pc # "idle" /\ UNCHANGED <<inputs, tables, calls, faults>>
      BY <1>7 DEF Rank
    <2>2. QED
      BY <1>1, <1>7, <2>1, RankMoves, MovesInv
  <1>8. CASE Refine(t)
    <2>1. work[t].pc # "idle" /\ UNCHANGED <<inputs, tables, calls, faults>>
      BY <1>8 DEF Refine
    <2>2. QED
      BY <1>1, <1>8, <2>1, RefineMoves, MovesInv
  <1>9. CASE Final(t)
    <2>1. work[t].pc # "idle" /\ UNCHANGED <<inputs, tables, calls, faults>>
      BY <1>9 DEF Final
    <2>2. QED
      BY <1>1, <1>9, <2>1, FinalMoves, MovesInv
  <1>10. CASE Report(t)
    <2>1. work[t].pc # "idle" /\ UNCHANGED <<inputs, tables, calls, faults>>
      BY <1>10 DEF Report
    <2>2. QED
      BY <1>1, <1>10, <2>1, ReportMoves, MovesInv
  <1>11. QED
    BY <1>2, <1>3, <1>4, <1>5, <1>6, <1>7, <1>8, <1>9, <1>10

(***************************************************************************)
(* A save (persist_method_selection_batch) stores the matrix and its runs  *)
(* under an id of its own, or neither.                                     *)
(***************************************************************************)
LEMMA SaveInv ==
    ASSUME IInv, NEW t \in Threads, Save(t)
    PROVE  IInv'
  <1> DEFINE id == work[t].id
             promoted == Promoted(work[t])
  <1>1. work[t].pc # "idle" /\ UNCHANGED <<inputs, calls>>
    BY DEF Save
  <1>2. /\ DOMAIN matrices \subseteq 1..MaxCalls /\ calls \in 0..MaxCalls
        /\ DOMAIN matrices \subseteq 1..calls /\ NoOrphanRuns /\ faults \in 0..MaxFaults
        /\ id \in (1..calls) \ DOMAIN matrices
    BY <1>1 DEF IInv, TypeOK, Numbered
  <1>3. ASSUME Fault, RolledBack(work[t]), Return(t, "not_saved")
        PROVE  IInv'
    <2>1. UNCHANGED tables /\ Moves(t)
      BY <1>3 DEF RolledBack, Moves, Replies
    <2>2. faults' \in 0..MaxFaults
      BY <1>2, <1>3, FaultTyped
    <2>3. QED
      BY <1>1, <2>1, <2>2, MovesInv
  <1>4. ASSUME runs' = runs \cup promoted,
               matrices' = [x \in DOMAIN matrices \cup {id} |->
                               IF x = id THEN promoted ELSE matrices[x]],
               Return(t, "created"), UNCHANGED faults
        PROVE  IInv'
    <2>1. "created" \in Replies
      BY DEF Replies
    <2>2. /\ DatasetTypeOK' /\ asked' \in Asked /\ work' \in [Threads -> Work]
          /\ slot' = {} /\ \A u \in Threads : work'[u].pc = "idle"
          /\ \A u \in Threads :
                 Sound(work'[u], SelectionRows', FullRows', Outer', SelectionEnd')
      BY <1>1, <1>4, <2>1, ReturnSound
    <2> HIDE DEF id, promoted
    <2>3. /\ DOMAIN matrices' = DOMAIN matrices \cup {id}
          /\ DOMAIN matrices' \subseteq 1..calls /\ DOMAIN matrices' \subseteq 1..MaxCalls
      <3>1. DOMAIN matrices' = DOMAIN matrices \cup {id}
        BY <1>4, Zenon
      <3>2. id \in 1..calls /\ id \in 1..MaxCalls
        BY <1>2, SelectionAssumption
      <3>3. QED
        BY <1>2, <3>1, <3>2, Zenon
    <2>4. NoOrphanRuns'
      <3>1. /\ matrices'[id] = promoted
            /\ \A x \in DOMAIN matrices : matrices'[x] = matrices[x]
        BY <1>2, <1>4
      <3>2. UNION {matrices'[x] : x \in DOMAIN matrices'} =
                (UNION {matrices[x] : x \in DOMAIN matrices}) \cup promoted
        BY <2>3, <3>1, Zenon
      <3>3. QED
        BY <1>2, <1>4, <3>2 DEF NoOrphanRuns
    <2>5. OneMatrixAtATime'
      BY <2>2 DEF OneMatrixAtATime
    <2>6. \A u \in Threads : Numbered(work'[u], calls', (DOMAIN matrices)')
      BY <2>2 DEF Numbered
    <2>7. calls' = calls /\ faults' = faults
      BY <1>1, <1>4
    <2>8. TypeOK'
      BY <1>2, <2>2, <2>3, <2>7 DEF TypeOK
    <2>9. QED
      BY <2>2, <2>3, <2>4, <2>5, <2>6, <2>7, <2>8 DEF IInv
  <1>5. QED
    BY <1>3, <1>4, Zenon DEF Save

(***************************************************************************)
(* A request that gets the semaphore begins with a new id.                 *)
(***************************************************************************)
LEMMA AcceptInv ==
    ASSUME IInv, NEW t \in Threads, Accept(t)
    PROVE  IInv'
  <1> DEFINE w == [NoWork EXCEPT !.pc = "load", !.id = calls + 1]
  <1>1. /\ slot = {} /\ calls < MaxCalls /\ slot' = {t} /\ calls' = calls + 1
        /\ Become(t, w) /\ UNCHANGED inputs /\ matrices' = matrices /\ runs' = runs
        /\ faults' = faults
    BY DEF Accept, tables
  <1>2. /\ DOMAIN matrices \subseteq 1..MaxCalls /\ calls \in 0..MaxCalls /\ MaxCalls \in Nat
        /\ DOMAIN matrices \subseteq 1..calls /\ NoOrphanRuns /\ faults \in 0..MaxFaults
    BY SelectionAssumption DEF IInv, TypeOK
  <1>3. calls + 1 \in 0..MaxCalls /\ calls + 1 \in (1..(calls + 1)) \ DOMAIN matrices
    BY <1>1, <1>2
  <1>4. /\ w \in Work /\ w.pc = "load" /\ w.id = calls + 1 /\ w.behind = {}
        /\ w.tried = "none" /\ w.executions = 0 /\ w.read = {} /\ w.results = <<>>
    BY <1>3, NoWorkTyped DEF NoWork, Work, Stages
  <1> HIDE DEF w
  <1>5. SoundNow(w)
    <2>1. Loaded(w, SelectionRows, FullRows, Outer)
      BY <1>4 DEF Loaded
    <2>2. Unread(w, SelectionEnd)
      BY <1>4 DEF Unread
    <2>3. Once(w)
      BY <1>4 DEF Once
    <2>4. QED
      BY <1>4, <2>1, <2>2, <2>3 DEF SoundNow, Sound
  <1>6. /\ DatasetTypeOK' /\ asked' \in Asked /\ work' \in [Threads -> Work]
        /\ work'[t] = w /\ \A u \in Threads \ {t} : work'[u] = work[u]
        /\ \A u \in Threads :
               Sound(work'[u], SelectionRows', FullRows', Outer', SelectionEnd')
    BY <1>1, <1>5, WorkStaysSound
  <1>7. \A u \in Threads : work[u].pc = "idle"
    BY <1>1 DEF IInv, OneMatrixAtATime
  <1>8. OneMatrixAtATime'
    <2>1. {u \in Threads : work'[u].pc # "idle"} = {t}
      BY <1>4, <1>6, <1>7
    <2>2. QED
      BY <1>1, <2>1 DEF OneMatrixAtATime
  <1>9. \A u \in Threads : Numbered(work'[u], calls', (DOMAIN matrices)')
    BY <1>1, <1>3, <1>4, <1>6, <1>7 DEF Numbered
  <1>10. NoOrphanRuns'
    BY <1>1, <1>2 DEF NoOrphanRuns
  <1>11. TypeOK'
    BY <1>1, <1>2, <1>3, <1>6 DEF TypeOK
  <1>12. (DOMAIN matrices)' \subseteq 1..calls'
    BY <1>1, <1>2
  <1>13. QED
    BY <1>6, <1>8, <1>9, <1>10, <1>11, <1>12 DEF IInv

(***************************************************************************)
(* A refused request leaves the semaphore to the thread that holds it.     *)
(***************************************************************************)
LEMMA RefuseInv ==
    ASSUME IInv, NEW t \in Threads, Refuse(t)
    PROVE  IInv'
  <1> DEFINE w == [NoWork EXCEPT !.reply = "busy"]
  <1>1. /\ work[t].pc = "idle" /\ slot' = slot /\ calls' = calls
        /\ Become(t, w) /\ UNCHANGED inputs /\ matrices' = matrices /\ runs' = runs
        /\ faults' = faults
    BY DEF Refuse, SlotAfterRefusal, tables
  <1>2. SoundNow(w) /\ w.pc = "idle"
    BY RepliedSound DEF SoundNow, NoWork, Replies
  <1> HIDE DEF w
  <1>3. /\ DatasetTypeOK' /\ asked' \in Asked /\ work' \in [Threads -> Work]
        /\ work'[t] = w /\ \A u \in Threads \ {t} : work'[u] = work[u]
        /\ \A u \in Threads :
               Sound(work'[u], SelectionRows', FullRows', Outer', SelectionEnd')
    BY <1>1, <1>2, WorkStaysSound
  <1>4. OneMatrixAtATime'
    <2>1. {u \in Threads : work'[u].pc # "idle"} = {u \in Threads : work[u].pc # "idle"}
      BY <1>1, <1>2, <1>3
    <2>2. QED
      BY <1>1, <2>1 DEF IInv, OneMatrixAtATime
  <1>5. \A u \in Threads : Numbered(work'[u], calls', (DOMAIN matrices)')
    BY <1>1, <1>2, <1>3 DEF IInv, Numbered
  <1>6. NoOrphanRuns'
    BY <1>1 DEF IInv, NoOrphanRuns
  <1>7. TypeOK'
    BY <1>1, <1>3 DEF IInv, TypeOK
  <1>8. (DOMAIN matrices)' \subseteq 1..calls'
    BY <1>1 DEF IInv
  <1>9. QED
    BY <1>3, <1>4, <1>5, <1>6, <1>7, <1>8 DEF IInv

(***************************************************************************)
(* A killed server leaves no thread, no holder and whole tables.           *)
(***************************************************************************)
LEMMA CrashInv ==
    ASSUME IInv, Crash
    PROVE  IInv'
  <1>1. /\ work' = [t \in Threads |-> NoWork] /\ slot' = {} /\ calls' = calls /\ Fault
        /\ UNCHANGED inputs /\ matrices' = matrices /\ runs' = runs
    BY DEF Crash, tables
  <1>2. \A u \in Threads : work'[u] = NoWork /\ work'[u].pc = "idle"
    BY <1>1 DEF NoWork
  <1>3. /\ DatasetTypeOK' /\ asked' \in Asked
    BY <1>1 DEF IInv, TypeOK, DatasetTypeOK, inputs, dataset
  <1>4. work' \in [Threads -> Work]
    BY <1>1, NoWorkTyped
  <1>5. \A u \in Threads :
            Sound(work'[u], SelectionRows', FullRows', Outer', SelectionEnd')
    BY <1>2, NoWorkSound
  <1>6. OneMatrixAtATime'
    BY <1>1, <1>2 DEF OneMatrixAtATime
  <1>7. \A u \in Threads : Numbered(work'[u], calls', (DOMAIN matrices)')
    BY <1>2 DEF Numbered
  <1>8. NoOrphanRuns' /\ (DOMAIN matrices)' \subseteq 1..calls'
    BY <1>1 DEF IInv, NoOrphanRuns
  <1>9. faults' \in 0..MaxFaults
    BY <1>1, FaultTyped DEF IInv, TypeOK
  <1>10. TypeOK'
    BY <1>1, <1>3, <1>4, <1>9 DEF IInv, TypeOK
  <1>11. QED
    BY <1>3, <1>4, <1>5, <1>6, <1>7, <1>8, <1>10 DEF IInv

(***************************************************************************)
(* Before the first request the invariant holds.                           *)
(***************************************************************************)
LEMMA InitInv == Init => IInv
  <1>1. SUFFICES ASSUME Init PROVE IInv
    OBVIOUS
  <1>2. \A u \in Threads : work[u] = NoWork /\ work[u].pc = "idle"
    BY <1>1 DEF Init, NoWork
  <1>3. /\ slot = {} /\ runs = {} /\ DOMAIN matrices = {} /\ calls = 0 /\ faults = 0
        /\ DatasetTypeOK /\ asked \in Asked
    BY <1>1 DEF Init, DatasetInit
  <1>4. work \in [Threads -> Work]
    BY <1>1, NoWorkTyped DEF Init
  <1>5. TypeOK
    BY <1>3, <1>4, SelectionAssumption DEF TypeOK
  <1>6. OneMatrixAtATime
    BY <1>2, <1>3 DEF OneMatrixAtATime
  <1>7. NoOrphanRuns
    BY <1>3 DEF NoOrphanRuns
  <1>8. \A u \in Threads :
            /\ Numbered(work[u], calls, DOMAIN matrices)
            /\ Sound(work[u], SelectionRows, FullRows, Outer, SelectionEnd)
    BY <1>2, NoWorkSound DEF Numbered
  <1>9. QED
    BY <1>3, <1>5, <1>6, <1>7, <1>8 DEF IInv

(***************************************************************************)
(* Every step keeps the invariant.                                         *)
(***************************************************************************)
LEMMA NextInv == IInv /\ [Next]_vars => IInv'
  <1>1. SUFFICES ASSUME IInv, [Next]_vars PROVE IInv'
    OBVIOUS
  <1>2. ASSUME NEW t \in Threads, Accept(t) PROVE IInv'
    BY <1>1, <1>2, AcceptInv
  <1>3. ASSUME NEW t \in Threads, Refuse(t) PROVE IInv'
    BY <1>1, <1>3, RefuseInv
  <1>4. ASSUME NEW t \in Threads, Step(t) PROVE IInv'
    <2>1. CASE Save(t)
      BY <1>1, <2>1, SaveInv
    <2>2. CASE ~Save(t)
      BY <1>1, <1>4, <2>2, StageInv DEF Step
    <2>3. QED
      BY <2>1, <2>2
  <1>5. CASE Crash
    BY <1>1, <1>5, CrashInv
  <1>6. CASE UNCHANGED vars
    <2>1. /\ UNCHANGED inputs /\ slot' = slot /\ work' = work /\ matrices' = matrices
          /\ runs' = runs /\ calls' = calls /\ faults' = faults
      BY <1>6 DEF vars, tables
    <2>2. /\ SelectionRows' = SelectionRows /\ FullRows' = FullRows
          /\ Outer' = Outer /\ SelectionEnd' = SelectionEnd
      BY <2>1, InputsStay
    <2>3. DatasetTypeOK' /\ asked' \in Asked
      BY <1>1, <2>1 DEF IInv, TypeOK, DatasetTypeOK, inputs, dataset
    <2>4. TypeOK' /\ OneMatrixAtATime' /\ NoOrphanRuns'
      BY <1>1, <2>1, <2>3 DEF IInv, TypeOK, OneMatrixAtATime, NoOrphanRuns
    <2>5. QED
      BY <1>1, <2>1, <2>2, <2>4 DEF IInv
  <1>7. QED
    BY <1>1, <1>2, <1>3, <1>4, <1>5, <1>6, Zenon DEF Next

(***************************************************************************)
(* IInv holds throughout.                                                  *)
(***************************************************************************)
THEOREM SelectionInvariant == Spec => []IInv
  BY InitInv, NextInv, PTL DEF Spec

-----------------------------------------------------------------------------
(***************************************************************************)
(* What the invariant is for                                               *)
(***************************************************************************)

(***************************************************************************)
(* Everything a request, a matrix or a fault leaves is of its type.        *)
(***************************************************************************)
THEOREM TypeCorrect == Spec => []TypeOK
  <1>1. IInv => TypeOK
    BY DEF IInv
  <1>2. QED
    BY <1>1, SelectionInvariant, PTL

(***************************************************************************)
(* The semaphore of create_method_selection_matrix is held by exactly the  *)
(* one thread inside a matrix, for any number of threads.                  *)
(***************************************************************************)
THEOREM Exclusive == Spec => []OneMatrixAtATime
  <1>1. IInv => OneMatrixAtATime
    BY DEF IInv
  <1>2. QED
    BY <1>1, SelectionInvariant, PTL

(***************************************************************************)
(* A promoted run is stored exactly when its matrix is                     *)
(* (persist_method_selection_batch), whatever fails.                       *)
(***************************************************************************)
THEOREM Transactional == Spec => []NoOrphanRuns
  <1>1. IInv => NoOrphanRuns
    BY DEF IInv
  <1>2. QED
    BY <1>1, SelectionInvariant, PTL

(***************************************************************************)
(* The final holdout is run at most once for a matrix, and only what was   *)
(* evaluated on it is promoted (_build_final_holdout_result).              *)
(***************************************************************************)
THEOREM RunOnce == Spec => []FinalHoldoutRunOnce
  <1>1. ASSUME IInv PROVE FinalHoldoutRunOnce
    <2>1. \A t \in Threads : Once(work[t])
      BY <1>1 DEF IInv, Sound
    <2>2. QED
      BY <2>1 DEF FinalHoldoutRunOnce, Promoted, Once
  <1>2. QED
    BY <1>1, SelectionInvariant, PTL

(***************************************************************************)
(* For any histories, horizon and folds: the choice of an outer fold is    *)
(* made without the prices of its holdout, although inner holdout rows are *)
(* kept whatever their labels reach.  The purge of the outer fold is what  *)
(* makes it so, and it is exactly long enough.                             *)
(***************************************************************************)
THEOREM ChoiceIsBlind == Spec => []OuterHoldoutUnseen
  <1>1. ASSUME IInv PROVE OuterHoldoutUnseen
    <2> DEFINE dates == ReadyDates(SelectionRows)
    <2>1. SUFFICES ASSUME NEW t \in Threads, work[t].pc = "assess",
                          NEW d \in Fold(work[t]).holdout, NEW e \in work[t].behind
                   PROVE  e < d
      BY DEF OuterHoldoutUnseen
    <2>2. /\ SoundNow(work[t]) /\ DatasetTypeOK /\ asked \in Asked
          /\ SelectionEnd \in Int
      BY <1>1, InvOf, EndInt
    <2>3. /\ work[t].outer = Outer /\ work[t].fold \in 1..OuterSplits
          /\ work[t].behind \subseteq Reach(RowsOn(SelectionRows, Outer[work[t].fold].train))
      BY <2>1, <2>2 DEF SoundNow, Sound, Loaded
    <2>4. Outer[work[t].fold] = FoldAt(dates, OuterSplits, OuterShare, horizon, work[t].fold)
      BY <2>3 DEF Outer, OuterFolds
    <2>5. PICK r \in SelectionRows : r.date \in Outer[work[t].fold].train /\ e = r.end
      BY <2>1, <2>3 DEF Reach, RowsOn
    <2>6. r.end = r.date + horizon
      BY <2>2, <2>5, RowsTyped DEF SelectionRows
    <2>7. horizon \in Nat
      BY <2>2, DatasetAssumption DEF DatasetTypeOK
    <2>8. dates \in SUBSET Nat /\ IsFiniteSet(dates)
      <3>1. \A x \in SelectionRows : x.date \in 1..SelectionEnd
        <4>1. \A x \in SelectionRows :
                  x.date \in Nat /\ 1 <= x.date /\ x.date <= SelectionEnd
          BY <2>2, RowsTyped, Zenon DEF SelectionRows
        <4>2. QED
          BY <2>2, <4>1
      <3>2. dates \in SUBSET (1..SelectionEnd)
        BY <3>1 DEF ReadyDates
      <3>3. IsFiniteSet(1..SelectionEnd)
        BY <2>2, FS_Interval
      <3> HIDE DEF dates
      <3>4. IsFiniteSet(dates)
        BY <3>2, <3>3, FS_Subset
      <3>5. \A x \in 1..SelectionEnd : x \in Nat
        BY <2>2
      <3>6. QED
        BY <3>2, <3>4, <3>5
    <2> DEFINE n == Cardinality(dates)
               end == TrainEnd(n, OuterSplits, OuterShare, work[t].fold)
               len == TestLen(n, OuterShare)
    <2>9. /\ r.date \in Slice(dates, 0, PurgeStart(end, horizon))
          /\ d \in Slice(dates, end, end + len)
      BY <2>1, <2>3, <2>4, <2>5 DEF FoldAt, Fold
    <2>10. end \in Int
      <3>1. n \in Nat
        BY <2>8, FS_CardinalityType
      <3>2. len \in Int
        BY <3>1, SelectionAssumption DEF TestLen, IsShare
      <3>3. QED
        BY <2>3, <3>1, <3>2, SelectionAssumption DEF TrainEnd
    <2> HIDE DEF end, len, dates
    <2>11. r.date + horizon < d
      BY <2>7, <2>8, <2>9, <2>10, PurgeCoversLabels
    <2>12. QED
      BY <2>5, <2>6, <2>11
  <1>2. QED
    BY <1>1, SelectionInvariant, PTL

(***************************************************************************)
(* Nothing of the final holdout is read before the configuration is frozen *)
(* (_load_method_selection_datasets computes targets without it), and the  *)
(* rows the frozen one is fitted on are settled before it starts: its      *)
(* purge counts market dates (_final_holdout_fold).                        *)
(***************************************************************************)
THEOREM FinalIsBlind == Spec => []FinalHoldoutUntouched
  <1>1. ASSUME IInv PROVE FinalHoldoutUntouched
    <2>1. SUFFICES ASSUME NEW t \in Threads
                   PROVE  /\ work[t].tried = "none" =>
                                 \A d \in FinalDates, e \in work[t].read : e < d
                          /\ work[t].pc = "final" =>
                                 \A r \in RowsOn(work[t].full, FrozenFold.train) :
                                     r.end < SelectionEnd + 1
      BY DEF FinalHoldoutUntouched
    <2>2. /\ SoundNow(work[t]) /\ work[t] \in Work /\ DatasetTypeOK /\ asked \in Asked
          /\ SelectionEnd \in Int /\ LastDate \in Int /\ asked \in Int
      <3>1. /\ SoundNow(work[t]) /\ work[t] \in Work /\ DatasetTypeOK /\ asked \in Asked
        BY <1>1, InvOf
      <3>2. asked \in Int
        BY <3>1, SelectionAssumption DEF Dates
      <3>3. QED
        BY <3>1, <3>2, EndInt
    <2>3. ASSUME work[t].tried = "none", NEW d \in FinalDates, NEW e \in work[t].read
          PROVE  e < d
      <3>1. e <= SelectionEnd /\ e \in Int
        BY <2>2, <2>3 DEF SoundNow, Sound, Unread, Work
      <3>2. d \in Int /\ SelectionEnd + 1 <= d
        BY <2>2 DEF FinalDates
      <3>3. QED
        BY <2>2, <3>1, <3>2
    <2>4. ASSUME work[t].pc = "final", NEW r \in RowsOn(work[t].full, FrozenFold.train)
          PROVE  r.end < SelectionEnd + 1
      <3> DEFINE days == 1..SelectionEnd
                 n == Cardinality(days)
      <3>1. r \in FullRows /\ r.date \in Slice(days, 0, n - horizon)
        BY <2>2, <2>4 DEF SoundNow, Sound, Loaded, RowsOn, FrozenFold, FinalFold
      <3>2. r.end = r.date + horizon /\ r.date \in Nat
        BY <2>2, <3>1, RowsTyped DEF FullRows
      <3>3. horizon \in Nat
        BY <2>2, DatasetAssumption DEF DatasetTypeOK
      <3>4. r.date \in days /\ Place(days, r.date) <= n - horizon
        BY <3>1 DEF Slice
      <3>5. n = SelectionEnd
        <4>1. SelectionEnd \in Nat /\ ~(1 > SelectionEnd)
          BY <2>2, <3>4
        <4>2. 1 \in Int
          OBVIOUS
        <4>3. n = IF 1 > SelectionEnd THEN 0 ELSE SelectionEnd - 1 + 1
          BY <2>2, <4>2, FS_Interval, Zenon
        <4>4. QED
          BY <4>1, <4>3
      <3>6. Place(days, r.date) = r.date
        <4>1. {e \in days : e <= r.date} = 1..r.date
          BY <2>2, <3>2, <3>4
        <4>2. Cardinality(1..r.date) = r.date
          BY <2>2, <3>2, <3>4, FS_Interval
        <4>3. QED
          BY <4>1, <4>2 DEF Place
      <3> HIDE DEF n
      <3>7. QED
        BY <2>2, <3>2, <3>3, <3>4, <3>5, <3>6
    <2>5. QED
      BY <2>3, <2>4
  <1>2. QED
    BY <1>1, SelectionInvariant, PTL

-----------------------------------------------------------------------------
(***************************************************************************)
(* How a matrix ends, fairness apart: each step of its thread brings it    *)
(* nearer to the end, and the steps are bounded.                           *)
(***************************************************************************)

\* Steps a matrix may still take: three for an outer fold, one for each entry
\* of the shortlist, five besides.
StepsLeft(w) ==
    LET listed == Cardinality(w.shortlist)
        later == 3 * (OuterSplits - w.fold)
    IN  CASE w.pc = "load"   -> 5 + ShortlistLen + 3 * OuterSplits
          [] w.pc = "screen" -> 7 + ShortlistLen + later
          [] w.pc = "tune"   -> 6 + ShortlistLen + later
          [] w.pc = "assess" -> 5 + ShortlistLen + later
          [] w.pc = "rank"   -> 4 + ShortlistLen
          [] w.pc = "refine" -> 3 + listed
          [] w.pc = "final"  -> 2 + listed - Len(w.results)
          [] w.pc = "save"   -> 1
          [] w.pc = "idle"   -> 0

\* There is no entry more than asked for, and no result more than entries.
Counted(w) ==
    /\ Cardinality(w.shortlist) <= ShortlistLen
    /\ w.pc = "final" => Len(w.results) <= Cardinality(w.shortlist)

CountsInv == \A t \in Threads : Counted(work[t])

\* A thread never goes back: each step of its matrix leaves fewer steps,
\* whatever the evaluations, the shortlist and storage say, and nobody else's
\* step adds any.
MatrixRunsDown ==
    [][\A t \in Threads :
         /\ Step(t) => StepsLeft(work'[t]) < StepsLeft(work[t])
         /\ t \in slot => StepsLeft(work'[t]) <= StepsLeft(work[t])]_vars

\* A matrix takes no more steps than its folds and its shortlist have.
StepsAreBounded ==
    \A t \in Threads :
        StepsLeft(work[t]) \in 0..(5 + ShortlistLen + 3 * OuterSplits)

(***************************************************************************)
(* A shortlist is finite, and what is left of a matrix that ended is       *)
(* nothing.                                                                *)
(***************************************************************************)
LEMMA ListedIsNat ==
    ASSUME NEW w \in Work
    PROVE  /\ Cardinality(w.shortlist) \in Nat /\ Len(w.results) \in Nat
           /\ w.fold \in 0..OuterSplits /\ w.pc \in Stages
           /\ OuterSplits \in Nat \ {0} /\ ShortlistLen \in Nat
  <1>1. IsFiniteSet(Catalog)
    BY SelectionAssumption, FS_Product DEF Catalog
  <1>2. w.shortlist \subseteq Catalog /\ w.results \in Seq(Results)
        /\ w.fold \in 0..OuterSplits /\ w.pc \in Stages
    BY DEF Work
  <1>3. QED
    BY <1>1, <1>2, FS_Subset, FS_CardinalityType, SelectionAssumption

(***************************************************************************)
(* The steps left at each stage, and that they are a number.               *)
(***************************************************************************)
LEMMA StepsAt ==
    ASSUME NEW w \in Work, Counted(w)
    PROVE  LET listed == Cardinality(w.shortlist)
               later == 3 * (OuterSplits - w.fold)
           IN  /\ w.pc \notin {"screen", "tune", "assess"} \/ w.fold # 0
                      => StepsLeft(w) <= 5 + ShortlistLen + 3 * OuterSplits
               /\ StepsLeft(w) \in Nat
               /\ w.pc # "idle" => StepsLeft(w) > 0
               /\ w.pc = "screen" => StepsLeft(w) = 7 + ShortlistLen + later
               /\ w.pc = "tune"   => StepsLeft(w) = 6 + ShortlistLen + later
               /\ w.pc = "assess" => StepsLeft(w) = 5 + ShortlistLen + later
  <1> DEFINE listed == Cardinality(w.shortlist)
             later == 3 * (OuterSplits - w.fold)
             results == Len(w.results)
             fold == w.fold
             pc == w.pc
  <1>1. /\ listed \in Nat /\ results \in Nat /\ fold \in 0..OuterSplits
        /\ OuterSplits \in Nat \ {0} /\ ShortlistLen \in Nat
        /\ listed <= ShortlistLen /\ (pc = "final" => results <= listed)
        /\ later = 3 * OuterSplits - 3 * fold
    BY ListedIsNat DEF Counted
  <1>2. pc \in {"idle", "load", "screen", "tune", "assess", "rank", "refine", "final", "save"}
    BY ListedIsNat DEF Stages
  <1>3. /\ pc = "load"   => StepsLeft(w) = 5 + ShortlistLen + 3 * OuterSplits
        /\ pc = "screen" => StepsLeft(w) = 7 + ShortlistLen + later
        /\ pc = "tune"   => StepsLeft(w) = 6 + ShortlistLen + later
        /\ pc = "assess" => StepsLeft(w) = 5 + ShortlistLen + later
        /\ pc = "rank"   => StepsLeft(w) = 4 + ShortlistLen
        /\ pc = "refine" => StepsLeft(w) = 3 + listed
        /\ pc = "final"  => StepsLeft(w) = 2 + listed - results
        /\ pc = "save"   => StepsLeft(w) = 1
        /\ pc = "idle"   => StepsLeft(w) = 0
    BY DEF StepsLeft
  <1> HIDE DEF listed, later, results, fold, pc
  <1>4. /\ pc \notin {"screen", "tune", "assess"} \/ fold # 0
               => StepsLeft(w) <= 5 + ShortlistLen + 3 * OuterSplits
        /\ StepsLeft(w) \in Nat
        /\ pc # "idle" => StepsLeft(w) > 0
    <2>1. CASE pc \in {"idle", "load", "rank", "refine", "final", "save"}
      BY <1>1, <1>3, <2>1
    <2>2. CASE pc \in {"screen", "tune", "assess"}
      <3>1. later \in Nat /\ (fold # 0 => later + 3 <= 3 * OuterSplits)
        BY <1>1
      <3>2. /\ StepsLeft(w) \in Nat /\ StepsLeft(w) > 0
            /\ fold # 0 => StepsLeft(w) <= 5 + ShortlistLen + 3 * OuterSplits
        BY <1>1, <1>3, <2>2, <3>1
      <3>3. QED
        BY <1>1, <2>2, <3>2
    <2>3. QED
      BY <1>2, <2>1, <2>2
  <1>5. QED
    BY <1>3, <1>4 DEF listed, later, fold, pc

(***************************************************************************)
(* The next outer fold, or the ranking after the last one, is three steps  *)
(* further than the fold that was left began.                              *)
(***************************************************************************)
LEMMA NextFoldLeaves ==
    ASSUME NEW w \in Work
    PROVE  /\ StepsLeft(NextFold(w)) = 4 + ShortlistLen + 3 * (OuterSplits - w.fold)
           /\ NextFold(w).shortlist = w.shortlist /\ NextFold(w).pc # "final"
  <1>1. /\ NextFold(w).shortlist = w.shortlist
        /\ NextFold(w).pc = IF w.fold = OuterSplits THEN "rank" ELSE "screen"
        /\ NextFold(w).fold = IF w.fold = OuterSplits THEN 0 ELSE w.fold + 1
    BY DEF NextFold, Work
  <1>2. w.fold \in 0..OuterSplits /\ OuterSplits \in Nat /\ ShortlistLen \in Nat
    BY ListedIsNat
  <1>3. CASE w.fold = OuterSplits
    BY <1>1, <1>2, <1>3 DEF StepsLeft
  <1>4. CASE w.fold # OuterSplits
    BY <1>1, <1>2, <1>4 DEF StepsLeft
  <1>5. QED
    BY <1>1, <1>3, <1>4

(***************************************************************************)
(* A reply ends a matrix.                                                  *)
(***************************************************************************)
LEMMA ReplyLeaves ==
    ASSUME NEW reply
    PROVE  /\ StepsLeft([NoWork EXCEPT !.reply = reply]) = 0
           /\ Counted([NoWork EXCEPT !.reply = reply])
  <1> DEFINE w == [NoWork EXCEPT !.reply = reply]
  <1>1. w.pc = "idle" /\ w.shortlist = {}
    BY DEF NoWork
  <1>2. Cardinality(w.shortlist) <= ShortlistLen
    BY <1>1, FS_EmptySet, SelectionAssumption
  <1> HIDE DEF w
  <1>3. StepsLeft(w) = 0 /\ Counted(w)
    BY <1>1, <1>2 DEF StepsLeft, Counted
  <1>4. QED
    BY <1>3 DEF w

(***************************************************************************)
(* A step of a thread is of its own matrix.                                *)
(***************************************************************************)
LEMMA StepIsLocal ==
    ASSUME work \in [Threads -> Work], NEW t \in Threads, Step(t),
           NEW u \in Threads, u # t
    PROVE  work'[u] = work[u]
  <1>1. \A v : Become(t, v) => work'[u] = work[u]
    BY DEF Become
  <1>2. CASE Load(t) \/ Raises(t) \/ Screen(t) \/ Tune(t)
    BY <1>1, <1>2 DEF Load, Raises, Screen, Tune, Return
  <1>3. CASE Assess(t) \/ Rank(t) \/ Refine(t)
    BY <1>1, <1>3 DEF Assess, Rank, Refine
  <1>4. CASE Final(t) \/ Report(t) \/ Save(t)
    BY <1>1, <1>4 DEF Final, Report, Save, Return
  <1>5. QED
    BY <1>2, <1>3, <1>4 DEF Step

(***************************************************************************)
(* Each step of a matrix leaves fewer steps: one case per action.          *)
(***************************************************************************)
LEMMA StepRunsDown ==
    ASSUME IInv, IInv', CountsInv, NEW t \in Threads, Step(t)
    PROVE  Counted(work'[t]) /\ StepsLeft(work'[t]) < StepsLeft(work[t])
  <1> DEFINE w == work[t]
             k == Cardinality(w.shortlist)
             later == 3 * (OuterSplits - w.fold)
  <1>1. /\ w \in Work /\ SoundNow(w) /\ Counted(w) /\ work \in [Threads -> Work]
        /\ work'[t] \in Work
    BY DEF IInv, TypeOK, CountsInv, SoundNow
  <1>2. /\ k \in Nat /\ Len(w.results) \in Nat /\ w.fold \in 0..OuterSplits
        /\ OuterSplits \in Nat \ {0} /\ ShortlistLen \in Nat
    BY <1>1, ListedIsNat
  <1>3. ASSUME NEW v, Become(t, v) PROVE work'[t] = v
    BY <1>1, <1>3 DEF Become
  <1>4. ASSUME NEW reply, Become(t, [NoWork EXCEPT !.reply = reply]), w.pc # "idle"
        PROVE  Counted(work'[t]) /\ StepsLeft(work'[t]) < StepsLeft(work[t])
    <2>1. work'[t] = [NoWork EXCEPT !.reply = reply]
      BY <1>3, <1>4
    <2>2. StepsLeft(w) > 0
      BY <1>1, <1>4, StepsAt
    <2>3. QED
      BY <2>1, <2>2, ReplyLeaves
  <1>5. CASE Load(t)
    <2>1. CASE \E reply \in Replies : Return(t, reply)
      BY <1>4, <1>5, <2>1 DEF Load, Return
    <2>2. CASE ~\E reply \in Replies : Return(t, reply)
      <3>1. PICK rows, full, outer :
               Become(t, [w EXCEPT !.pc = "screen", !.fold = 1, !.outer = outer,
                                   !.selection = rows, !.full = full])
        BY <1>5, <2>2 DEF Load, Replies
      <3>2. /\ work'[t].pc = "screen" /\ work'[t].fold = 1 /\ work'[t].shortlist = w.shortlist
            /\ w.pc = "load"
        BY <1>1, <1>3, <1>5, <3>1 DEF Work, Load
      <3>3. QED
        BY <1>1, <1>2, <3>2 DEF StepsLeft, Counted
    <2>3. QED
      BY <2>1, <2>2
  <1>6. CASE Raises(t)
    BY <1>4, <1>6 DEF Raises, Return
  <1>7. ASSUME NEW v \in Work, w.pc \in {"screen", "tune", "assess"},
               v.fold = w.fold, v.shortlist = w.shortlist, Become(t, NextFold(v))
        PROVE  Counted(work'[t]) /\ StepsLeft(work'[t]) < StepsLeft(work[t])
    <2>1. work'[t] = NextFold(v)
      BY <1>3, <1>7
    <2>2. StepsLeft(work'[t]) = 4 + ShortlistLen + later /\ Counted(work'[t])
      BY <1>1, <1>7, <2>1, NextFoldLeaves DEF Counted
    <2>3. StepsLeft(w) >= 5 + ShortlistLen + later
      <3>1. /\ w.pc = "screen" => StepsLeft(w) = 7 + ShortlistLen + later
            /\ w.pc = "tune"   => StepsLeft(w) = 6 + ShortlistLen + later
            /\ w.pc = "assess" => StepsLeft(w) = 5 + ShortlistLen + later
        BY <1>1, StepsAt
      <3>2. later \in Int
        BY <1>2
      <3> HIDE DEF w, later
      <3>3. QED
        BY <1>2, <1>7, <3>1, <3>2
    <2>4. later \in Int /\ StepsLeft(w) \in Nat
      BY <1>1, <1>2, StepsAt
    <2> HIDE DEF later
    <2>5. QED
      BY <1>2, <2>2, <2>3, <2>4
  <1>8. ASSUME NEW v, v.fold = w.fold, v.shortlist = w.shortlist, Become(t, v),
               \/ w.pc = "screen" /\ v.pc = "tune"
               \/ w.pc = "tune" /\ v.pc = "assess"
        PROVE  Counted(work'[t]) /\ StepsLeft(work'[t]) < StepsLeft(work[t])
    <2>1. work'[t] = v /\ v \in Work
      BY <1>1, <1>3, <1>8
    <2>2. Counted(v)
      BY <1>1, <1>8 DEF Counted
    <2>3. /\ w.pc = "screen" => StepsLeft(w) = 7 + ShortlistLen + later
          /\ w.pc = "tune"   => StepsLeft(w) = 6 + ShortlistLen + later
          /\ v.pc = "tune"   => StepsLeft(v) = 6 + ShortlistLen + later
          /\ v.pc = "assess" => StepsLeft(v) = 5 + ShortlistLen + later
      BY <1>1, <1>8, <2>1, <2>2, StepsAt
    <2>4. later \in Int
      BY <1>2
    <2> HIDE DEF w, later
    <2>5. StepsLeft(v) < StepsLeft(w)
      BY <1>2, <1>8, <2>3, <2>4
    <2>6. QED
      BY <2>1, <2>2, <2>5 DEF w
  <1>9. ASSUME NEW folds
        PROVE  /\ Evaluated(w, folds) \in Work
               /\ Evaluated(w, folds).fold = w.fold
               /\ Evaluated(w, folds).shortlist = w.shortlist
               /\ Evaluated(w, folds).results = w.results
    <2>1. Evaluated(w, folds) \in Work
      BY <1>1, EvaluatedTyped
    <2>2. QED
      BY <1>1, <2>1 DEF Evaluated, Work
  <1>10. CASE Screen(t)
    <2>1. CASE \E reply \in Replies : Return(t, reply)
      BY <1>4, <1>10, <2>1 DEF Screen, Return
    <2>2. CASE ~\E reply \in Replies : Return(t, reply)
      <3>1. PICK folds, o :
               IF o.winner = None
               THEN Become(t, NextFold(Evaluated(w, folds)))
               ELSE Become(t, [Evaluated(w, folds) EXCEPT !.pc = "tune", !.set = o.winner[1]])
        BY <1>10, <2>2 DEF Screen, Replies
      <3> DEFINE u == Evaluated(w, folds)
                 v == [u EXCEPT !.pc = "tune", !.set = o.winner[1]]
      <3>2. u \in Work /\ u.fold = w.fold /\ u.shortlist = w.shortlist
        BY <1>9
      <3> HIDE DEF u
      <3>3. v.pc = "tune" /\ v.fold = w.fold /\ v.shortlist = w.shortlist
        BY <3>2 DEF Work
      <3>4. w.pc = "screen" /\ Become(t, IF o.winner = None THEN NextFold(u) ELSE v)
        BY <1>10, <3>1 DEF Screen, u
      <3> HIDE DEF v
      <3>5. QED
        BY <1>7, <1>8, <3>2, <3>3, <3>4
    <2>3. QED
      BY <2>1, <2>2
  <1>11. CASE Tune(t)
    <2>1. PICK folds, o :
             IF o.winner = None
             THEN Become(t, NextFold(Evaluated(w, folds)))
             ELSE Become(t, [Evaluated(w, folds) EXCEPT !.pc = "assess", !.choice = o.winner])
      BY <1>11 DEF Tune
    <2> DEFINE u == Evaluated(w, folds)
               v == [u EXCEPT !.pc = "assess", !.choice = o.winner]
    <2>2. u \in Work /\ u.fold = w.fold /\ u.shortlist = w.shortlist
      BY <1>9
    <2> HIDE DEF u
    <2>3. v.pc = "assess" /\ v.fold = w.fold /\ v.shortlist = w.shortlist
      BY <2>2 DEF Work
    <2>4. w.pc = "tune" /\ Become(t, IF o.winner = None THEN NextFold(u) ELSE v)
      BY <1>11, <2>1 DEF Tune, u
    <2> HIDE DEF v
    <2>5. QED
      BY <1>7, <1>8, <2>2, <2>3, <2>4
  <1>12. CASE Assess(t)
    <2> DEFINE u == Evaluated(w, <<Fold(w)>>)
               v(some) == [u EXCEPT !.assessed = some]
    <2>1. w.pc = "assess" /\ w.choice \in Catalog
      BY <1>1, <1>12 DEF Assess, SoundNow, Sound, Loaded
    <2>2. u \in Work /\ u.fold = w.fold /\ u.shortlist = w.shortlist
      BY <1>9
    <2>3. PICK e \in Evaluations({w.choice}, <<Fold(w)>>, u.selection) :
             Become(t, NextFold(v(u.assessed \cup {[candidate |-> w.choice,
                                                    status |-> e[w.choice]]})))
      BY <1>12 DEF Assess
    <2>4. e[w.choice] \in Statuses
      BY <2>3 DEF Evaluations, Statuses
    <2> HIDE DEF u
    <2>5. u.assessed \cup {[candidate |-> w.choice, status |-> e[w.choice]]}
              \in SUBSET [candidate : Catalog, status : Statuses]
      BY <2>1, <2>2, <2>4 DEF Work
    <2>6. \A some \in SUBSET [candidate : Catalog, status : Statuses] :
              v(some) \in Work /\ v(some).fold = w.fold /\ v(some).shortlist = w.shortlist
      BY <2>2 DEF Work
    <2> HIDE DEF v
    <2>7. QED
      BY <1>7, <2>1, <2>3, <2>5, <2>6
  <1>13. CASE Rank(t)
    <2>1. PICK l \in Shortlists(w) :
             Become(t, [w EXCEPT !.shortlist = l, !.assessed = {},
                                 !.pc = IF l = {} THEN "save" ELSE "refine"])
      BY <1>13 DEF Rank
    <2>2. Cardinality(l) <= ShortlistLen
      BY <2>1 DEF Shortlists
    <2>3. l \subseteq Catalog
      <3>1. {r.candidate : r \in w.assessed} \subseteq Catalog
        BY <1>1 DEF Work
      <3>2. QED
        BY <2>1, <3>1 DEF Shortlists, Shortlistable
    <2>4. Cardinality(l) \in Nat
      BY <2>3, FS_Product, FS_Subset, FS_CardinalityType, SelectionAssumption DEF Catalog
    <2>5. /\ work'[t].shortlist = l /\ work'[t].pc \in {"save", "refine"} /\ w.pc = "rank"
      BY <1>1, <1>3, <1>13, <2>1, ZenonT(60) DEF Work, Rank
    <2>6. QED
      BY <1>2, <2>2, <2>4, <2>5 DEF StepsLeft, Counted
  <1>14. CASE Refine(t)
    <2>1. w.results = <<>> /\ w.pc = "refine"
      BY <1>1, <1>14 DEF Refine, SoundNow, Sound, Once
    <2>2. work'[t].pc = "final" /\ work'[t].shortlist = w.shortlist /\ work'[t].results = <<>>
      <3>1. CASE Become(t, [w EXCEPT !.pc = "final", !.verdict = FailedVerdict])
        BY <1>1, <1>3, <2>1, <3>1 DEF Work
      <3>2. CASE ~Become(t, [w EXCEPT !.pc = "final", !.verdict = FailedVerdict])
        <4>1. PICK folds, o :
                 Become(t, [Evaluated(w, folds) EXCEPT !.pc = "final", !.frozen = o.winner,
                                                       !.verdict = o.verdict])
          BY <1>14, <3>2 DEF Refine
        <4> DEFINE u == Evaluated(w, folds)
        <4>2. u \in Work /\ u.shortlist = w.shortlist /\ u.results = w.results
          BY <1>9
        <4>3. work'[t] = [u EXCEPT !.pc = "final", !.frozen = o.winner, !.verdict = o.verdict]
          BY <1>3, <4>1
        <4> HIDE DEF u, w
        <4>4. QED
          BY <2>1, <4>2, <4>3 DEF Work
      <3>3. QED
        BY <3>1, <3>2
    <2>3. QED
      BY <1>1, <1>2, <2>1, <2>2 DEF StepsLeft, Counted
  <1>15. CASE Final(t)
    <2>1. w.pc = "final" /\ Len(w.results) < k
      BY <1>15 DEF Final
    <2>2. \E r : /\ work'[t].pc = "final" /\ work'[t].shortlist = w.shortlist
                 /\ work'[t].results = Append(w.results, r)
      <3>1. CASE \E r : Become(t, [w EXCEPT !.results = Append(@, r)])
        <4>1. PICK r : work'[t] = [w EXCEPT !.results = Append(@, r)]
          BY <1>3, <3>1
        <4> HIDE DEF w
        <4>2. QED
          BY <1>1, <2>1, <4>1, SMTT(30) DEF Work
      <3>2. CASE ~\E r : Become(t, [w EXCEPT !.results = Append(@, r)])
        <4>1. PICK folds, status, r :
                 Become(t, [WithArtifacts(w, folds, status) EXCEPT !.results = Append(@, r)])
          BY <1>15, <3>2 DEF Final
        <4> DEFINE u == WithArtifacts(w, folds, status)
        <4>2. /\ u.pc = "final" /\ u.shortlist = w.shortlist /\ u.results = w.results
              /\ DOMAIN u = DOMAIN w
          BY <1>1, <2>1 DEF WithArtifacts, Work
        <4>3. work'[t] = [u EXCEPT !.results = Append(@, r)]
          BY <1>3, <4>1
        <4> HIDE DEF u, w
        <4>4. QED
          BY <1>1, <4>2, <4>3, SMTT(30) DEF Work
      <3>3. QED
        BY <3>1, <3>2
    <2>3. Len(work'[t].results) = Len(w.results) + 1
      BY <1>1, <2>2 DEF Work
    <2>4. QED
      BY <1>1, <1>2, <2>1, <2>2, <2>3 DEF StepsLeft, Counted
  <1>16. CASE Report(t)
    <2>1. w.pc = "final" /\ Len(w.results) = k /\ Become(t, [w EXCEPT !.pc = "save"])
      BY <1>16 DEF Report
    <2>2. work'[t].pc = "save" /\ work'[t].shortlist = w.shortlist
      BY <1>1, <1>3, <2>1 DEF Work
    <2>3. QED
      BY <1>1, <1>2, <2>1, <2>2 DEF StepsLeft, Counted
  <1>17. CASE Save(t)
    BY <1>4, <1>17 DEF Save, Return
  <1>18. QED
    BY <1>5, <1>6, <1>10, <1>11, <1>12, <1>13, <1>14, <1>15, <1>16, <1>17 DEF Step

(***************************************************************************)
(* A call begins with an empty shortlist, and a killed server leaves none. *)
(***************************************************************************)
LEMMA CountsKept == IInv /\ IInv' /\ CountsInv /\ [Next]_vars => CountsInv'
  <1>1. SUFFICES ASSUME IInv, IInv', CountsInv, [Next]_vars, NEW u \in Threads
                 PROVE  Counted(work'[u])
    BY DEF CountsInv
  <1>2. CASE work'[u] = work[u]
    BY <1>1, <1>2 DEF CountsInv
  <1>3. ASSUME work'[u].pc # "final", work'[u].shortlist = {} PROVE Counted(work'[u])
    BY <1>3, FS_EmptySet, SelectionAssumption DEF Counted
  <1>4. ASSUME NEW t \in Threads, Accept(t) \/ Refuse(t) PROVE Counted(work'[u])
    <2>1. PICK v : Become(t, v) /\ v.pc # "final" /\ v.shortlist = {}
      <3>1. /\ [NoWork EXCEPT !.pc = "load", !.id = calls + 1].pc = "load"
            /\ [NoWork EXCEPT !.pc = "load", !.id = calls + 1].shortlist = {}
            /\ [NoWork EXCEPT !.reply = "busy"].pc = "idle"
            /\ [NoWork EXCEPT !.reply = "busy"].shortlist = {}
        BY DEF NoWork
      <3>2. CASE Accept(t)
        BY <3>1, <3>2 DEF Accept
      <3>3. CASE Refuse(t)
        BY <3>1, <3>3 DEF Refuse
      <3>4. QED
        BY <1>4, <3>2, <3>3
    <2>2. CASE u = t
      BY <1>1, <1>3, <2>1, <2>2 DEF Become, IInv, TypeOK
    <2>3. CASE u # t
      BY <1>1, <1>2, <2>1, <2>3 DEF Become, IInv, TypeOK
    <2>4. QED
      BY <2>2, <2>3
  <1>5. ASSUME NEW t \in Threads, Step(t) PROVE Counted(work'[u])
    <2>1. CASE u = t
      BY <1>1, <1>5, <2>1, StepRunsDown
    <2>2. CASE u # t
      BY <1>1, <1>2, <1>5, <2>2, StepIsLocal DEF IInv, TypeOK
    <2>3. QED
      BY <2>1, <2>2
  <1>6. CASE Crash
    BY <1>3, <1>6 DEF Crash, NoWork
  <1>7. CASE UNCHANGED vars
    BY <1>2, <1>7 DEF vars
  <1>8. QED
    BY <1>1, <1>4, <1>5, <1>6, <1>7, Zenon DEF Next

(***************************************************************************)
(* However its folds, evaluations, shortlist and save turn out, a matrix   *)
(* is over after three steps for each outer fold, one for each entry and   *)
(* five more (create_method_selection_matrix): what fairness has to add    *)
(* for every request to end is only that the thread is scheduled.          *)
(***************************************************************************)
THEOREM EveryMatrixRunsDown == Spec => MatrixRunsDown /\ []StepsAreBounded
  <1>1. Init => CountsInv
    <2>1. Counted(NoWork)
      BY FS_EmptySet, SelectionAssumption DEF Counted, NoWork
    <2>2. QED
      BY <2>1 DEF Init, CountsInv
  <1>2. ASSUME IInv, IInv', CountsInv, [Next]_vars, ~UNCHANGED vars, NEW u \in Threads
        PROVE  /\ Step(u) => StepsLeft(work'[u]) < StepsLeft(work[u])
               /\ u \in slot => StepsLeft(work'[u]) <= StepsLeft(work[u])
    <2>1. Step(u) => StepsLeft(work'[u]) < StepsLeft(work[u])
      BY <1>2, StepRunsDown
    <2>2. /\ work[u] \in Work /\ work'[u] \in Work /\ Counted(work[u]) /\ Counted(work'[u])
          /\ u \in slot => work[u].pc # "idle"
      <3>1. CountsInv'
        BY <1>2, CountsKept
      <3>2. QED
        BY <1>2, <3>1 DEF IInv, TypeOK, CountsInv, OneMatrixAtATime
    <2>3. /\ StepsLeft(work[u]) \in Nat /\ StepsLeft(work'[u]) \in Nat
          /\ StepsLeft(NoWork) = 0
      <3>1. NoWork.pc = "idle"
        BY DEF NoWork
      <3>2. StepsLeft(NoWork) = 0
        BY <3>1 DEF StepsLeft
      <3>3. QED
        BY <2>2, <3>2, StepsAt
    <2>4. ASSUME u \in slot, ~Step(u) PROVE work'[u] \in {work[u], NoWork}
      <3>1. CASE \E t \in Threads : Step(t)
        BY <1>2, <2>4, <3>1, StepIsLocal DEF IInv, TypeOK
      <3>2. CASE \E t \in Threads : Accept(t) \/ Refuse(t)
        BY <1>2, <2>2, <2>4, <3>2 DEF Accept, Refuse, Become, IInv, TypeOK
      <3>3. CASE Crash
        BY <3>3 DEF Crash
      <3>4. QED
        BY <1>2, <3>1, <3>2, <3>3 DEF Next
    <2>5. QED
      BY <2>1, <2>3, <2>4
  <1>3. IInv /\ CountsInv => StepsAreBounded
    <2>1. SUFFICES ASSUME IInv, CountsInv, NEW u \in Threads
                   PROVE  StepsLeft(work[u]) \in 0..(5 + ShortlistLen + 3 * OuterSplits)
      BY DEF StepsAreBounded
    <2>2. /\ work[u] \in Work /\ Counted(work[u])
          /\ work[u].pc \in {"screen", "tune", "assess"} => work[u].fold # 0
      BY <2>1 DEF IInv, TypeOK, CountsInv, Sound, Loaded
    <2>3. /\ StepsLeft(work[u]) \in Nat
          /\ StepsLeft(work[u]) <= 5 + ShortlistLen + 3 * OuterSplits
      BY <2>2, StepsAt
    <2>4. ShortlistLen \in Nat /\ OuterSplits \in Nat
      BY SelectionAssumption
    <2>5. QED
      BY <2>3, <2>4
  <1>4. IInv /\ IInv' /\ CountsInv /\ [Next]_vars
          => [\A t \in Threads :
                /\ Step(t) => StepsLeft(work'[t]) < StepsLeft(work[t])
                /\ t \in slot => StepsLeft(work'[t]) <= StepsLeft(work[t])]_vars
    BY <1>2
  <1>5. Spec => []CountsInv
    BY <1>1, CountsKept, SelectionInvariant, PTL DEF Spec
  <1>6. Spec => MatrixRunsDown
    BY <1>4, <1>5, SelectionInvariant, PTL DEF Spec, MatrixRunsDown
  <1>7. Spec => []StepsAreBounded
    BY <1>3, <1>5, SelectionInvariant, PTL
  <1>8. QED
    BY <1>6, <1>7

=============================================================================
