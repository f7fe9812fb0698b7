------------------------ MODULE RunExecution_proofs ------------------------
(***************************************************************************)
(* Theorems about the execution of research runs, for any symbols, frames, *)
(* requests, threads, catalogs and number of events under them.            *)
(***************************************************************************)
EXTENDS RunExecution, MarketFolds_proofs

-----------------------------------------------------------------------------
(***************************************************************************)
(* Rows and labels.                                                        *)
(***************************************************************************)

\* Every set of dates is a finite set of numbers.
LEMMA DateSets ==
    ASSUME NEW dates \in SUBSET Dates
    PROVE  dates \in SUBSET Nat /\ IsFiniteSet(dates)
  <1>1. IsFiniteSet(1..LastDate)
    BY FS_Interval, WalkForwardAssumption
  <1>2. Dates \in SUBSET Nat /\ IsFiniteSet(Dates)
    BY <1>1, WalkForwardAssumption DEF Dates
  <1>3. QED
    BY <1>2, FS_Subset

\* The rows of a symbol are of dates it is observed on.
LEMMA RowSets ==
    ASSUME NEW s, NEW q
    PROVE  /\ Observed(s) \in SUBSET Dates
           /\ Unshifted(s) \in SUBSET Observed(s)
           /\ Shifted(s) \in SUBSET Observed(s)
           /\ ModelRows(s, q) \in SUBSET Observed(s)
  BY DEF Observed, Unshifted, Shifted, ModelRows

LEMMA AheadType == ASSUME NEW q \in RunRequest PROVE Ahead(q) \in Nat
  BY DEF RunRequest, Ahead

\* The label of a model row is settled on an observed row that many rows later.
LEMMA LabelIsObserved ==
    ASSUME NEW s, NEW q \in RunRequest, NEW d \in ModelRows(s, q)
    PROVE  /\ LabelEnd(s, d, q) \in Observed(s)
           /\ Place(Observed(s), LabelEnd(s, d, q)) =
                  Place(Observed(s), d) + Ahead(q)
  <1> DEFINE index == Observed(s)
             n == Cardinality(index)
             k == Place(index, d) + Ahead(q)
  <1>1. index \in SUBSET Nat /\ IsFiniteSet(index) /\ d \in index
    BY RowSets, DateSets
  <1>2. n \in Nat /\ Place(index, d) \in 1..n /\ Ahead(q) \in Nat
    BY <1>1, PlaceOnto, FS_CardinalityType, AheadType
  <1>3. k <= n
    BY DEF ModelRows
  <1> HIDE DEF n
  <1>4. k \in 1..n
    BY <1>2, <1>3
  <1>5. \E e \in index : Place(index, e) = k
    BY <1>1, <1>4, PlaceOnto DEF n
  <1>6. QED
    BY <1>5 DEF LabelEnd, RowAt

\* Of any part of the model rows, a date that is more places after a row than its
\* label reaches is after the label too.
LEMMA LabelSettles ==
    ASSUME NEW s, NEW q \in RunRequest, NEW dates \in SUBSET ModelRows(s, q),
           NEW d \in dates, NEW e \in dates,
           Place(dates, d) + Ahead(q) < Place(dates, e)
    PROVE  LabelEnd(s, d, q) < e
  <1> DEFINE index == Observed(s)
             end == LabelEnd(s, d, q)
  <1>1. /\ index \in SUBSET Nat /\ IsFiniteSet(index) /\ dates \in SUBSET index
        /\ d \in Nat /\ e \in Nat
    BY RowSets, DateSets
  <1>2. /\ Place(dates, d) \in Nat /\ Place(dates, e) \in Nat
        /\ Place(index, d) \in Nat /\ Place(index, e) \in Nat
        /\ Ahead(q) \in Nat
    BY <1>1, PlaceNat, FS_Subset, AheadType
  <1>3. dates \in SUBSET Nat /\ IsFiniteSet(dates)
    BY <1>1, FS_Subset
  <1>4. d < e
    BY <1>1, <1>2, <1>3, PlaceMonotone
  <1>5. Place(dates, e) - Place(dates, d) <= Place(index, e) - Place(index, d)
    BY <1>1, <1>4, PartIsDenser
  <1>6. end \in Nat /\ Place(index, end) = Place(index, d) + Ahead(q)
    BY <1>1, LabelIsObserved
  <1>7. Place(index, end) < Place(index, e)
    BY <1>2, <1>5, <1>6
  <1>8. QED
    BY <1>1, <1>6, <1>7, PlaceMonotone

-----------------------------------------------------------------------------
(***************************************************************************)
(* Fits.                                                                   *)
(***************************************************************************)

\* The labels of the fit are settled before any date it is tested on.
Honest(f) == \A d \in f.settled, e \in f.tested : d < e

HonestFits == {f \in FitRecord : Honest(f)}

\* A fold of some of a symbol's rows that keeps the rows it trains on far enough
\* from those it is tested on
Apart(fold, dates, q) ==
    /\ fold.train \subseteq dates /\ fold.holdout \subseteq dates
    /\ \A d \in fold.train, e \in fold.holdout :
          Place(dates, d) + Ahead(q) < Place(dates, e)

LEMMA FitIsHonest ==
    ASSUME NEW s \in Symbols, NEW q \in RunRequest,
           NEW dates \in SUBSET ModelRows(s, q), NEW fold, Apart(fold, dates, q)
    PROVE  FitOn(s, fold, q) \in HonestFits
  <1>1. \A d \in fold.train : LabelEnd(s, d, q) \in Dates
    BY LabelIsObserved, RowSets DEF Apart
  <1>2. fold.holdout \in SUBSET Dates
    BY RowSets DEF Apart
  <1>3. \A d \in fold.train, e \in fold.holdout : LabelEnd(s, d, q) < e
    BY LabelSettles DEF Apart
  <1>4. QED
    BY <1>1, <1>2, <1>3 DEF FitOn, FitRecord, HonestFits, Honest

\* Two slices of some dates are as far apart as their bounds.
LEMMA SlicesApart ==
    ASSUME NEW dates \in SUBSET Dates, NEW q \in RunRequest,
           NEW from, NEW end \in Int, NEW to,
           NEW train \in SUBSET Slice(dates, from, end - Ahead(q))
    PROVE  LET fold == [train |-> train, holdout |-> Slice(dates, end, to)]
           IN  Apart(fold, dates, q)
  <1>1. \A d \in dates : Place(dates, d) \in Nat
    BY DateSets, PlaceNat
  <1>2. Ahead(q) \in Nat
    BY AheadType
  <1>3. \A d \in train, e \in Slice(dates, end, to) :
            Place(dates, d) + Ahead(q) < Place(dates, e)
    <2> SUFFICES ASSUME NEW d \in train, NEW e \in Slice(dates, end, to)
                 PROVE  Place(dates, d) + Ahead(q) < Place(dates, e)
      OBVIOUS
    <2>1. /\ d \in dates /\ e \in dates
          /\ Place(dates, d) <= end - Ahead(q) /\ end < Place(dates, e)
      BY DEF Slice
    <2>2. QED
      BY <1>1, <1>2, <2>1
  <1>4. train \subseteq dates /\ Slice(dates, end, to) \subseteq dates
    BY DEF Slice
  <1>5. QED
    BY <1>3, <1>4 DEF Apart

\* The number of some dates, and what is computed from it
LEMMA Counts ==
    ASSUME NEW dates \in SUBSET Dates
    PROVE  LET n == Cardinality(dates)
           IN  /\ n \in Nat /\ MainSplit(n) \in Int /\ TailStart(n) \in Int
               /\ TestLen(n, TestShare) \in Int
  <1>1. Cardinality(dates) \in Nat
    BY DateSets, FS_CardinalityType
  <1>2. /\ TestShare.num \in Nat /\ TestShare.den \in Nat \ {0}
        /\ TailShare.num \in Nat /\ TailShare.den \in Nat \ {0}
        /\ MinSamples \in Nat
    BY WalkForwardAssumption DEF IsShare
  <1> DEFINE n == Cardinality(dates)
  <1> HIDE DEF n
  <1>3. n \in Nat
    BY <1>1 DEF n
  <1>4. MainSplit(n) \in Int
    <2>1. n * (TestShare.den - TestShare.num) \in Int
      BY <1>2, <1>3
    <2>2. QED
      BY <1>2, <2>1 DEF MainSplit
  <1>5. (n * TailShare.num) \div TailShare.den \in Int
    <2>1. n * TailShare.num \in Int
      BY <1>2, <1>3
    <2>2. QED
      BY <1>2, <2>1
  <1>6. TailStart(n) \in Int
    BY <1>2, <1>3, <1>5 DEF TailStart
  <1>7. TestLen(n, TestShare) \in Int
    <2>1. n * TestShare.num \in Int
      BY <1>2, <1>3
    <2>2. QED
      BY <1>2, <2>1 DEF TestLen
  <1>8. QED
    BY <1>3, <1>4, <1>6, <1>7 DEF n

\* The main split, and that between a classifier's base and its calibration
LEMMA MainFoldApart ==
    ASSUME NEW dates \in SUBSET Dates, NEW q \in RunRequest
    PROVE  /\ Apart(MainFold(dates, q), dates, q)
           /\ Apart(DirectionFold(dates, q), dates, q)
  <1> DEFINE n == Cardinality(dates)
             main == MainSplit(n)
             tail == TailStart(n)
  <1>1. main \in Int /\ tail \in Int
    BY Counts
  <1> HIDE DEF n, main, tail
  <1>2. \A end \in Int : LET fold == [train |-> Slice(dates, 0, end - Ahead(q)),
                                      holdout |-> Slice(dates, end, n)]
                         IN  Apart(fold, dates, q)
    <2> SUFFICES ASSUME NEW end \in Int
                 PROVE  LET fold == [train |-> Slice(dates, 0, end - Ahead(q)),
                                     holdout |-> Slice(dates, end, n)]
                        IN  Apart(fold, dates, q)
      OBVIOUS
    <2>1. Slice(dates, 0, end - Ahead(q)) \in SUBSET Slice(dates, 0, end - Ahead(q))
      OBVIOUS
    <2>2. QED
      BY <2>1, SlicesApart
  <1>3. MainFold(dates, q) = [train |-> Slice(dates, 0, main - Ahead(q)),
                              holdout |-> Slice(dates, main, n)]
    BY DEF MainFold, TrainLen, main, n
  <1>4. DirectionFold(dates, q) = [train |-> Slice(dates, 0, tail - Ahead(q)),
                                   holdout |-> Slice(dates, tail, n)]
    BY DEF DirectionFold, BaseEnd, tail, n
  <1>5. QED
    BY <1>1, <1>2, <1>3, <1>4

\* The folds of a validation, whether the training window rolls or not
LEMMA ValidationFoldApart ==
    ASSUME NEW dates \in SUBSET Dates, NEW q \in RunRequest, NEW i \in 1..Splits(q)
    PROVE  Apart(ValidationFold(dates, q, i), dates, q)
  <1> DEFINE n == Cardinality(dates)
             len == TestLen(n, TestShare)
             end == TrainEnd(n, Splits(q), TestShare, i)
             cut == PurgeStart(end, Ahead(q))
             train == Slice(dates, 0, cut) \ Passed(dates, q, i)
  <1>1. n \in Int /\ len \in Int /\ Splits(q) \in Int /\ i \in Int
    BY Counts DEF Splits, RunRequest
  <1>2. end \in Int
    <2>1. end = n - len * Splits(q) + (i - 1) * len
      BY DEF TrainEnd
    <2> HIDE DEF n, len
    <2>2. len * Splits(q) \in Int /\ (i - 1) * len \in Int
      BY <1>1
    <2>3. n - len * Splits(q) + (i - 1) * len \in Int
      BY <1>1, <2>2
    <2>4. QED
      BY <2>1, <2>3
  <1> HIDE DEF n, len
  <1>3. ValidationFold(dates, q, i) =
            [train |-> train, holdout |-> Slice(dates, end, end + len)]
    BY DEF ValidationFold, FoldAt, n, len
  <1> HIDE DEF end
  <1>4. train \in SUBSET Slice(dates, 0, end - Ahead(q))
    <2> SUFFICES ASSUME NEW d \in train PROVE d \in Slice(dates, 0, end - Ahead(q))
      OBVIOUS
    <2>1. d \in dates /\ 0 < Place(dates, d) /\ Place(dates, d) <= cut
      BY DEF Slice
    <2>2. Place(dates, d) \in Nat /\ Ahead(q) \in Nat
      BY <2>1, DateSets, PlaceNat, AheadType
    <2>3. cut = end - Ahead(q)
      BY <1>2, <2>1, <2>2 DEF PurgeStart
    <2> HIDE DEF cut
    <2>4. QED
      BY <2>1, <2>3 DEF Slice
  <1> HIDE DEF train
  <1>5. QED
    BY <1>2, <1>3, <1>4, SlicesApart

\* The regressor and the classifier of a fold of model rows
LEMMA FoldFitsHonest ==
    ASSUME NEW s \in Symbols, NEW q \in RunRequest,
           NEW dates \in SUBSET ModelRows(s, q), NEW fold, Apart(fold, dates, q)
    PROVE  Fits(s, fold, q) \subseteq HonestFits
  <1>1. FitOn(s, fold, q) \in HonestFits
    BY FitIsHonest
  <1>2. fold.train \in SUBSET ModelRows(s, q) /\ fold.train \in SUBSET Dates
    BY RowSets DEF Apart
  <1>3. FitOn(s, DirectionFold(fold.train, q), q) \in HonestFits
    BY <1>2, MainFoldApart, FitIsHonest
  <1>4. QED
    BY <1>1, <1>3 DEF Fits

\* So is every model a run fits.
LEMMA RunFitsHonest ==
    ASSUME NEW q \in RunRequest
    PROVE  /\ \A s \in Symbols : MainFits(s, q) \subseteq HonestFits
           /\ ForwardFits(q) \subseteq HonestFits
           /\ Validated(q) \subseteq HonestFits
  <1>1. \A s \in Symbols : ModelRows(s, q) \in SUBSET Dates
    BY RowSets
  <1>2. \A s \in Symbols : MainFits(s, q) \subseteq HonestFits
    <2> SUFFICES ASSUME NEW s \in Symbols PROVE MainFits(s, q) \subseteq HonestFits
      OBVIOUS
    <2>1. ModelRows(s, q) \in SUBSET ModelRows(s, q)
      OBVIOUS
    <2>2. QED
      BY <1>1, <2>1, MainFoldApart, FoldFitsHonest DEF MainFits
  <1>3. ForwardFits(q) \subseteq HonestFits
    <2> SUFFICES ASSUME NEW s \in Symbols
                 PROVE  FitOn(s, DirectionFold(ModelRows(s, q), q), q) \in HonestFits
      BY DEF ForwardFits
    <2>1. ModelRows(s, q) \in SUBSET ModelRows(s, q)
      OBVIOUS
    <2>2. QED
      BY <1>1, <2>1, MainFoldApart, FitIsHonest
  <1>4. Validated(q) \subseteq HonestFits
    <2> DEFINE common == CommonDates(q)
    <2>1. /\ common \in SUBSET Dates
          /\ \A s \in Symbols : common \in SUBSET ModelRows(s, q)
      BY DEF CommonDates
    <2> HIDE DEF common
    <2>2. ASSUME NEW s \in Symbols, NEW i \in 1..Splits(q)
          PROVE  Fits(s, ValidationFold(common, q, i), q) \subseteq HonestFits
      BY <2>1, ValidationFoldApart, FoldFitsHonest
    <2>3. ValidationFits(q) \subseteq HonestFits
      BY <2>2 DEF ValidationFits, ValidationFolds, common
    <2>4. QED
      BY <2>3 DEF Validated
  <1>5. QED
    BY <1>2, <1>3, <1>4

-----------------------------------------------------------------------------
(***************************************************************************)
(* Stages.                                                                 *)
(***************************************************************************)

\* No stage is listed twice, so each has its place.
LEMMA StagePlaces ==
    /\ DOMAIN Stages = 1..17
    /\ \A i \in 1..17 : Stages[i] \in StageSet /\ Index(Stages[i]) = i
    /\ \A stage \in StageSet : Index(stage) \in 1..17 /\ Stages[Index(stage)] = stage
  <1>1. DOMAIN Stages = 1..17
    BY DEF Stages
  <1>2. \A i, j \in 1..17 : Stages[i] = Stages[j] => i = j
    BY DEF Stages
  <1>3. \A i \in 1..17 : Stages[i] \in StageSet /\ Index(Stages[i]) = i
    BY <1>1, <1>2 DEF StageSet, Index
  <1>4. \A stage \in StageSet : Index(stage) \in 1..17 /\ Stages[Index(stage)] = stage
    <2> SUFFICES ASSUME NEW stage \in StageSet
                 PROVE  Index(stage) \in 1..17 /\ Stages[Index(stage)] = stage
      OBVIOUS
    <2>1. PICK i \in 1..17 : stage = Stages[i]
      BY <1>1 DEF StageSet
    <2>2. QED
      BY <1>3, <2>1
  <1>5. QED
    BY <1>1, <1>3, <1>4

LEMMA StageNumbers ==
    /\ Index("idle") = 1 /\ Index("start") = 2 /\ Index("context") = 3
    /\ Index("profile") = 4 /\ Index("adaptive") = 5 /\ Index("peers") = 6
    /\ Index("load") = 7 /\ Index("backtest") = 8 /\ Index("validate") = 9
    /\ Index("materialize") = 10 /\ Index("usability") = 11
    /\ Index("peer_run") = 12 /\ Index("dispatch") = 13 /\ Index("order") = 14
    /\ Index("exclude") = 15 /\ Index("succeed") = 16 /\ Index("settle") = 17
  BY StagePlaces DEF Stages

LEMMA StageNames ==
    StageSet = {"idle", "start", "context", "profile", "adaptive", "peers", "load",
                "backtest", "validate", "materialize", "usability", "peer_run",
                "dispatch", "order", "exclude", "succeed", "settle"}
  <1>1. \A x : x \in StageSet <=> \E i \in 1..17 : x = Stages[i]
    BY StagePlaces DEF StageSet
  <1>2. QED
    BY <1>1 DEF Stages

\* The work goes on with the same stage while symbols are left, and otherwise with
\* the next one that applies: between the two none does.
LEMMA OnwardStage ==
    ASSUME NEW w \in Work, w.pc \in StageSet \ {"succeed", "settle"}
    PROVE  LET v == Onward(w)
           IN  /\ v = [w EXCEPT !.pc = v.pc, !.fits = {}]
               /\ v.pc \in StageSet
               /\ w.pc \in {"load", "order"} /\ w.left # {} => v.pc = w.pc
               /\ ~(w.pc \in {"load", "order"} /\ w.left # {}) =>
                     /\ Index(w.pc) < Index(v.pc) /\ Index(v.pc) <= 16
                     /\ Applies(w, v.pc)
                     /\ \A stage \in StageSet :
                           Index(w.pc) < Index(stage) /\ Index(stage) < Index(v.pc)
                               => ~Applies(w, stage)
  <1> DEFINE again == w.pc \in {"load", "order"} /\ w.left # {}
             later == {i \in DOMAIN Stages : i > Index(w.pc) /\ Applies(w, Stages[i])}
             next  == CHOOSE i \in later : \A j \in later : i <= j
             v == Onward(w)
             pc == IF again THEN w.pc ELSE Stages[next]
  <1>1. Onward(w) = [w EXCEPT !.pc = pc, !.fits = {}]
    BY Zenon DEF Onward
  <1>2. Index(w.pc) \in 1..15
    <2>1. Index(w.pc) \in 1..17 /\ Stages[Index(w.pc)] = w.pc
      BY StagePlaces
    <2>2. Stages[16] = "succeed" /\ Stages[17] = "settle"
      BY DEF Stages
    <2>3. QED
      BY <2>1, <2>2
  <1>3. 16 \in later
    <2>1. Stages[16] = "succeed"
      BY DEF Stages
    <2>2. Applies(w, "succeed")
      BY DEF Applies
    <2>3. QED
      BY <1>2, <2>1, <2>2, StagePlaces
  <1>4. later \in SUBSET (1..17)
    BY StagePlaces
  <1>5. next \in later /\ \A j \in later : next <= j
    <2>1. 1 \in Int /\ 17 \in Int
      OBVIOUS
    <2>2. IsFiniteSet(1..17)
      BY <2>1, FS_Interval
    <2>3. IsFiniteSet(later) /\ later \in SUBSET Nat
      BY <1>4, <2>2, FS_Subset
    <2> HIDE DEF later
    <2>4. \E i \in later : \A j \in later : i <= j
      BY <1>3, <2>3, FirstAndLast
    <2>5. QED
      BY <2>4
  <1> HIDE DEF next
  <1>6. /\ next \in 1..16 /\ next > Index(w.pc) /\ Applies(w, Stages[next])
        /\ \A i \in 1..17 : i > Index(w.pc) /\ i < next => ~Applies(w, Stages[i])
    BY <1>2, <1>3, <1>4, <1>5, StagePlaces
  <1>7. /\ Stages[next] \in StageSet /\ Index(Stages[next]) = next
    BY <1>6, StagePlaces
  <1>8. ASSUME NEW stage \in StageSet, Index(w.pc) < Index(stage), Index(stage) < next
        PROVE  ~Applies(w, stage)
    <2>1. Index(stage) \in 1..17 /\ Stages[Index(stage)] = stage
      BY StagePlaces
    <2>2. QED
      BY <1>6, <1>8, <2>1
  <1>9. v.pc = pc /\ v = [w EXCEPT !.pc = v.pc, !.fits = {}]
    BY <1>1 DEF Work
  <1> HIDE DEF v
  <1>10. QED
    BY <1>6, <1>7, <1>8, <1>9 DEF v

-----------------------------------------------------------------------------
(***************************************************************************)
(* The work of a thread.                                                   *)
(***************************************************************************)

\* An opinion of a strict run is formed on the last date, whose label nobody has.
Prospective(w) ==
    w.latest # 0 /\ w.request.strict => w.latest = LastDate /\ Ahead(w.request) # 0

\* A thread that is not idle works on a run that was begun, of a request it was
\* posted; it loads or orders while there are symbols left; it settles what has not
\* succeeded; it has no fit but an honest one and no opinion that looks back.
Kept(w, begun) ==
    /\ w.pc # "idle" => w.id \in 1..begun /\ w.request \in Requests
    /\ w.pc = "idle" => w.latest = 0
    /\ w.pc \in {"load", "order"} => w.left # {}
    /\ w.pc = "settle" => w.outcome \in {"rejected", "failed"}
    /\ w.fits \subseteq HonestFits
    /\ Prospective(w)

WorkKept == \A t \in Threads : Kept(work[t], calls)

\* The work of a run that was begun
Begun == {w \in Work : w.id \in 1..calls /\ w.request \in Requests /\ Prospective(w)}

\* Whatever the thread does next, it goes on with work of this kind.
Moves(t) == \E v \in Work : Kept(v, calls) /\ work' = [work EXCEPT ![t] = v]

LEMMA RequestTypes == Requests \subseteq RunRequest
  BY ExecutionAssumption DEF Requests

LEMMA HonestTypes == HonestFits \subseteq FitRecord
  BY DEF HonestFits

\* The rows of research_runs are of the requests begun.
RowRecord == [status : (Outcomes \ {"none"}) \cup {"running"}, request : Requests,
              signals : SUBSET Symbols]

\* What a run works with from one stage to the next
LEMMA OnwardType ==
    ASSUME NEW w \in Begun, w.pc \in StageSet \ {"succeed", "settle", "idle"},
           NEW fits \in SUBSET HonestFits
    PROVE  LET v == Onward(w)
           IN  /\ v \in Begun /\ Kept(v, calls)
               /\ WithFits(v, fits) \in Begun /\ Kept(WithFits(v, fits), calls)
  <1> DEFINE v == Onward(w)
             u == WithFits(v, fits)
  <1>1. w \in Work /\ w.id \in 1..calls /\ w.request \in Requests /\ Prospective(w)
    BY DEF Begun
  <1>2. /\ v = [w EXCEPT !.pc = v.pc, !.fits = {}] /\ v.pc \in StageSet
        /\ w.pc \in {"load", "order"} /\ w.left # {} => v.pc = w.pc
        /\ ~(w.pc \in {"load", "order"} /\ w.left # {}) =>
              /\ Index(w.pc) < Index(v.pc) /\ Index(v.pc) <= 16
              /\ Applies(w, v.pc)
    BY <1>1, OnwardStage
  <1>3. v.pc \notin {"idle", "settle"}
    <2>1. Index(w.pc) \in 1..17
      BY StagePlaces
    <2>2. QED
      BY <1>2, <2>1, StageNumbers
  <1>4. v.pc \in {"load", "order"} => w.left # {}
    BY <1>2 DEF Applies
  <1>5. u = [v EXCEPT !.fits = fits]
    BY DEF WithFits
  <1> HIDE DEF v, u
  <1>6. /\ v \in Work /\ v.id = w.id /\ v.request = w.request /\ v.left = w.left
        /\ v.latest = w.latest /\ v.fits = {}
    BY <1>1, <1>2 DEF Work
  <1>7. /\ u \in Work /\ u.id = w.id /\ u.request = w.request /\ u.left = w.left
        /\ u.latest = w.latest /\ u.fits = fits /\ u.pc = v.pc
    BY <1>5, <1>6, HonestTypes DEF Work
  <1>8. Prospective(v) /\ Prospective(u)
    BY <1>1, <1>6, <1>7 DEF Prospective
  <1>9. v \in Begun /\ Kept(v, calls)
    BY <1>1, <1>3, <1>4, <1>6, <1>8 DEF Begun, Kept
  <1>10. u \in Begun /\ Kept(u, calls)
    BY <1>1, <1>3, <1>4, <1>7, <1>8 DEF Begun, Kept
  <1>11. QED
    BY <1>9, <1>10 DEF v, u

\* What a run that is ended works with
LEMMA EndedType ==
    ASSUME NEW w \in Begun, w.fits \subseteq HonestFits,
           NEW outcome \in {"rejected", "failed"}
    PROVE  Ended(w, outcome) \in Work /\ Kept(Ended(w, outcome), calls)
  <1> DEFINE v == Ended(w, outcome)
  <1>1. w \in Work /\ w.id \in 1..calls /\ w.request \in Requests /\ Prospective(w)
    BY DEF Begun
  <1>2. v = [w EXCEPT !.pc = "settle", !.outcome = outcome]
    BY DEF Ended
  <1> HIDE DEF v
  <1>3. /\ v \in Work /\ v.pc = "settle" /\ v.outcome = outcome
        /\ v.id = w.id /\ v.request = w.request /\ v.latest = w.latest
        /\ v.fits = w.fits
    BY <1>1, <1>2, StageNames DEF Work, Outcomes
  <1>4. Kept(v, calls)
    BY <1>1, <1>3 DEF Kept, Prospective
  <1>5. QED
    BY <1>3, <1>4 DEF v

\* A thread at rest
LEMMA IdleType == NoWork \in Work /\ Kept(NoWork, calls)
  <1>1. NoWork \in Work
    BY ExecutionAssumption, WalkForwardAssumption, StageNames
       DEF NoWork, Work, Outcomes
  <1>2. QED
    BY <1>1 DEF NoWork, Kept, Prospective

LEMMA RestType ==
    ASSUME NEW outcome \in Outcomes
    PROVE  LET rest == [NoWork EXCEPT !.outcome = outcome]
           IN  rest \in Work /\ rest.pc = "idle" /\ Kept(rest, calls)
  BY IdleType DEF NoWork, Kept, Work, Prospective

LEMMA EventType ==
    ASSUME events \in 0..MaxEvents, Event PROVE events' \in 0..MaxEvents
  BY ExecutionAssumption DEF Event

\* What the thread works with after it was refused, after reads and after an error
LEMMA StageType ==
    ASSUME NEW t \in Threads, work[t] \in Begun, Kept(work[t], calls)
    PROVE  /\ \A v \in Work : Kept(v, calls) /\ Become(t, v) => Moves(t)
           /\ \A v \in Work : Kept(v, calls) /\ Reads(t, v) => Moves(t)
           /\ Refused(t) => Moves(t)
           /\ \A outcome \in {"rejected", "failed"} :
                  Become(t, Ended(work[t], outcome)) => Moves(t)
  <1>1. \A v \in Work : Kept(v, calls) /\ Become(t, v) => Moves(t)
    BY DEF Become, Moves
  <1>2. work[t].fits \subseteq HonestFits
    BY DEF Kept
  <1>3. \A outcome \in {"rejected", "failed"} :
            Become(t, Ended(work[t], outcome)) => Moves(t)
    BY <1>1, <1>2, EndedType
  <1>4. \A v \in Work : Kept(v, calls) /\ Reads(t, v) => Moves(t)
    BY <1>1, <1>3 DEF Reads
  <1>5. Refused(t) => Moves(t)
    BY <1>3 DEF Refused
  <1>6. QED
    BY <1>1, <1>3, <1>4, <1>5

\* A date an opinion is formed on is a date; a strict one is the last.
LEMMA LatestType ==
    ASSUME NEW q, NEW d \in Latest(q)
    PROVE  d \in Dates /\ Ahead(q) # 0 /\ (q.strict => d = LastDate)
  <1>1. PICK s \in Symbols : ForwardRows(s, q) # {} /\ d = LastOf(ForwardRows(s, q))
    BY DEF Latest
  <1>2. ForwardRows(s, q) \in SUBSET Dates
    BY RowSets DEF ForwardRows
  <1>3. \E e \in ForwardRows(s, q) : \A x \in ForwardRows(s, q) : x <= e
    BY <1>1, <1>2, DateSets, FirstAndLast
  <1>4. d \in Dates
    BY <1>1, <1>2, <1>3 DEF LastOf
  <1>5. QED
    BY <1>4 DEF Latest, OnBasis

\* The symbols of a set are taken one by one.
LEMMA FirstType ==
    ASSUME NEW left, left # {} PROVE First(left) \in left
  BY DEF First

\* What is posted to a thread, and what each stage does with the run
LEMMA PostMoves ==
    ASSUME TypeOK, NEW t \in Threads, NEW q \in Asks[t], Post(t, q)
    PROVE  /\ calls' \in 1..MaxCalls /\ calls' = calls + 1
           /\ \E v \in Work : Kept(v, calls') /\ work' = [work EXCEPT ![t] = v]
  <1> DEFINE v == [NoWork EXCEPT !.pc = "start", !.id = calls + 1, !.request = q]
  <1>1. calls' \in 1..MaxCalls /\ calls' = calls + 1
    BY ExecutionAssumption DEF Post, TypeOK
  <1>2. NoWork \in Work /\ q \in Requests
    BY RestType, ExecutionAssumption, WalkForwardAssumption, StageNames
       DEF NoWork, Work, Outcomes, Requests
  <1>3. /\ v.pc = "start" /\ v.id = calls' /\ v.request = q /\ v.latest = 0
        /\ v.fits = {}
    BY <1>1 DEF NoWork
  <1>4. v \in Work
    <2>1. calls + 1 \in 0..MaxCalls
      BY <1>1
    <2> HIDE DEF v
    <2>2. v = [NoWork EXCEPT !.pc = "start", !.id = calls + 1, !.request = q]
      BY DEF v
    <2>3. QED
      BY <1>2, <2>1, <2>2, StageNames DEF Work
  <1>5. work' = [work EXCEPT ![t] = v]
    BY DEF Post, Become
  <1> HIDE DEF v
  <1>6. Kept(v, calls')
    BY <1>1, <1>2, <1>3 DEF Kept, Prospective
  <1>7. QED
    BY <1>1, <1>4, <1>5, <1>6

LEMMA StepMoves ==
    ASSUME TypeOK, WorkKept, NEW t \in Threads, Step(t)
    PROVE  Moves(t)
  <1> DEFINE w == work[t]
             q == work[t].request
  <1>1. w \in Work /\ Kept(w, calls)
    BY DEF TypeOK, WorkKept
  <1>2. w.pc # "idle"
    BY DEF Step, Start, Context, Profile, Adaptive, Peers, Load, Backtest,
       Validate, Materialize, Usability, PeerRun, Dispatch, Order, Exclude,
       Succeed, Settle
  <1>3. w \in Begun /\ q \in Requests /\ q \in RunRequest
    BY <1>1, <1>2, RequestTypes DEF Kept, Begun
  <1>4. /\ \A v \in Work : Kept(v, calls) /\ Become(t, v) => Moves(t)
        /\ \A v \in Work : Kept(v, calls) /\ Reads(t, v) => Moves(t)
        /\ Refused(t) => Moves(t)
        /\ \A outcome \in {"rejected", "failed"} :
               Become(t, Ended(w, outcome)) => Moves(t)
    BY <1>1, <1>3, StageType
  <1>5. ASSUME NEW x \in Begun, NEW fits \in SUBSET HonestFits,
               x.pc \in {"start", "context", "profile", "adaptive", "peers", "load",
                         "backtest", "validate", "materialize", "usability",
                         "peer_run", "dispatch", "order", "exclude"}
        PROVE  /\ Onward(x) \in Work /\ Kept(Onward(x), calls)
               /\ WithFits(Onward(x), fits) \in Work
               /\ Kept(WithFits(Onward(x), fits), calls)
    <2>1. x.pc \in StageSet \ {"succeed", "settle", "idle"}
      BY <1>5, StageNames
    <2>2. QED
      BY <1>5, <2>1, OnwardType DEF Begun
  <1>6. ASSUME w.pc \in {"start", "profile", "adaptive", "peers", "materialize",
                         "usability", "peer_run", "exclude"}
        PROVE  Onward(w) \in Work /\ Kept(Onward(w), calls)
    <2>1. {} \in SUBSET HonestFits
      OBVIOUS
    <2>2. QED
      BY <1>3, <1>5, <1>6, <2>1
  <1> HIDE DEF w, q
  <1>7. CASE \/ Start(t) \/ Adaptive(t) \/ Peers(t) \/ Materialize(t)
             \/ Usability(t) \/ PeerRun(t) \/ Exclude(t) \/ Profile(t)
    <2>1. w.pc \in {"start", "profile", "adaptive", "peers", "materialize",
                    "usability", "peer_run", "exclude"}
      BY <1>7 DEF Start, Adaptive, Peers, Materialize, Usability, PeerRun,
         Exclude, Profile, w
    <2>2. \/ Reads(t, Onward(w)) \/ Refused(t) \/ Become(t, Ended(w, "failed"))
      <3>1. \A v : (\/ Become(t, v) /\ UNCHANGED events
                    \/ Event /\ Become(t, Ended(work[t], "failed"))) => Reads(t, v)
        BY DEF Reads
      <3>2. CASE Start(t)
        BY <3>1, <3>2 DEF Start, Commits, w
      <3>3. CASE Adaptive(t)
        BY <3>3 DEF Adaptive, w
      <3>4. CASE Peers(t)
        BY <3>4 DEF Peers, w
      <3>5. CASE Materialize(t)
        BY <3>1, <3>5 DEF Materialize, Commits, w
      <3>6. CASE Usability(t)
        BY <3>1, <3>6 DEF Usability, Commits, w
      <3>7. CASE PeerRun(t)
        BY <3>1, <3>7 DEF PeerRun, Commits, w
      <3>8. CASE Exclude(t)
        BY <3>1, <3>8 DEF Exclude, Commits, w
      <3>9. CASE Profile(t)
        BY <3>1, <3>9 DEF Profile, Commits, w
      <3>10. QED
        BY <1>7, <3>2, <3>3, <3>4, <3>5, <3>6, <3>7, <3>8, <3>9
    <2>3. QED
      BY <1>4, <1>6, <2>1, <2>2
  <1>8. CASE Context(t)
    <2> DEFINE seen == q.route \in profiles
               x == [w EXCEPT !.seen = seen, !.left = Symbols]
    <2>1. x \in Begun /\ x.pc = "context"
      <3>1. seen \in BOOLEAN
        OBVIOUS
      <3> HIDE DEF seen
      <3>2. x \in Work /\ x.id = w.id /\ x.request = w.request /\ x.pc = w.pc
            /\ x.latest = w.latest
        BY <1>1, <3>1 DEF Work
      <3>3. QED
        BY <1>3, <1>8, <3>2 DEF Context, Begun, Prospective, w
    <2>2. Reads(t, Onward(x)) \/ Refused(t)
      BY <1>8 DEF Context, w, q
    <2> HIDE DEF x
    <2>3. {} \in SUBSET HonestFits
      OBVIOUS
    <2>4. Onward(x) \in Work /\ Kept(Onward(x), calls)
      BY <1>5, <2>1, <2>3
    <2>5. QED
      BY <1>4, <2>2, <2>4
  <1>9. CASE Load(t)
    <2> DEFINE s == First(w.left)
               x == Loaded(w, s)
    <2>1. s \in w.left /\ s \in Symbols /\ w.pc = "load"
      BY <1>1, <1>9, FirstType DEF Load, Kept, Work, w
    <2>2. \/ CanLoad(s, q) /\ Reads(t, WithFits(Onward(x), MainFits(s, q)))
          \/ Refused(t)
          \/ Become(t, Ended(w, "failed"))
      BY <1>9 DEF Load, w, q
    <2>3. ASSUME CanLoad(s, q), q.catalog PROVE Selected(q) \subseteq Factors
      <3>1. catalog \in CatalogRecord /\ Selected(q) \subseteq catalog.declared
        BY <2>3, ExecutionAssumption DEF CanLoad, TypeOK
      <3>2. QED
        BY <3>1 DEF CatalogRecord
    <2>4. ASSUME CanLoad(s, q) PROVE x \in Begun /\ x.pc = "load"
      <3> DEFINE chosen == IF q.catalog THEN Selected(q) ELSE {}
      <3>1. chosen \subseteq Factors
        BY <2>3, <2>4
      <3>2. x = [w EXCEPT !.left = @ \ {s}, !.factors = @ \cup {s} \X chosen]
        BY DEF Loaded, q, w
      <3> HIDE DEF chosen, x, s
      <3>3. x.left = w.left \ {s} /\ x.factors = w.factors \cup {s} \X chosen
        BY <1>1, <3>2 DEF Work
      <3>4. x.left \in SUBSET Symbols /\ x.factors \in SUBSET (Symbols \X Factors)
        BY <1>1, <2>1, <3>1, <3>3 DEF Work
      <3>5. /\ x = [w EXCEPT !.left = x.left, !.factors = x.factors]
        BY <1>1, <3>2, <3>3
      <3>6. x \in Work /\ x.id = w.id /\ x.request = w.request /\ x.pc = w.pc
            /\ x.latest = w.latest
        BY <1>1, <3>4, <3>5 DEF Work
      <3>7. QED
        BY <1>3, <2>1, <3>6 DEF Begun, Prospective
    <2>5. MainFits(s, q) \in SUBSET HonestFits
      BY <1>3, <2>1, RunFitsHonest
    <2> HIDE DEF x, s
    <2>6. ASSUME CanLoad(s, q)
          PROVE  /\ WithFits(Onward(x), MainFits(s, q)) \in Work
                 /\ Kept(WithFits(Onward(x), MainFits(s, q)), calls)
      BY <1>5, <2>4, <2>5, <2>6
    <2>7. QED
      BY <1>4, <2>2, <2>6
  <1>10. CASE Backtest(t)
    <2>1. ASSUME NEW held \in SignalSets(q)
          PROVE  /\ Onward([w EXCEPT !.signals = held]) \in Work
                 /\ Kept(Onward([w EXCEPT !.signals = held]), calls)
      <3> DEFINE x == [w EXCEPT !.signals = held]
      <3>1. held \in SUBSET Symbols
        BY DEF SignalSets, ScoredLast
      <3>2. x \in Begun /\ x.pc = "backtest"
        BY <1>3, <1>10, <3>1 DEF Backtest, Begun, Work, Prospective, w
      <3>3. {} \in SUBSET HonestFits
        OBVIOUS
      <3> HIDE DEF x
      <3>4. Onward(x) \in Work /\ Kept(Onward(x), calls)
        BY <1>5, <3>2, <3>3
      <3>5. QED
        BY <3>4 DEF x
    <2>2. ASSUME NEW d \in Latest(q)
          PROVE  LET x == [w EXCEPT !.signals = Symbols, !.latest = d]
                 IN  /\ WithFits(Onward(x), ForwardFits(q)) \in Work
                     /\ Kept(WithFits(Onward(x), ForwardFits(q)), calls)
      <3> DEFINE x == [w EXCEPT !.signals = Symbols, !.latest = d]
      <3>1. d \in 0..LastDate /\ Ahead(q) # 0 /\ (q.strict => d = LastDate)
        BY LatestType, WalkForwardAssumption DEF Dates
      <3>2. x \in Work /\ x.pc = "backtest" /\ x.id = w.id /\ x.request = w.request
            /\ x.latest = d
        BY <1>1, <1>10, <3>1 DEF Backtest, Work, w
      <3> HIDE DEF x
      <3>3. x \in Begun
        BY <1>3, <3>1, <3>2 DEF Begun, Prospective, q, w
      <3>4. ForwardFits(q) \in SUBSET HonestFits
        BY <1>3, RunFitsHonest
      <3>5. /\ WithFits(Onward(x), ForwardFits(q)) \in Work
            /\ Kept(WithFits(Onward(x), ForwardFits(q)), calls)
        BY <1>5, <3>2, <3>3, <3>4
      <3>6. QED
        BY <3>5 DEF x
    <2>3. \/ \E held \in SignalSets(q) : Become(t, Onward([w EXCEPT !.signals = held]))
          \/ \E d \in Latest(q) :
                Become(t, WithFits(Onward([w EXCEPT !.signals = Symbols, !.latest = d]),
                                   ForwardFits(q)))
          \/ \E outcome \in {"rejected", "failed"} : Become(t, Ended(w, outcome))
      BY <1>10 DEF Backtest, Unsound, w, q
    <2>4. QED
      BY <1>4, <2>1, <2>2, <2>3
  <1>11. CASE Validate(t)
    <2>1. Validated(q) \in SUBSET HonestFits
      BY <1>3, RunFitsHonest
    <2>2. w.pc = "validate" /\ Become(t, WithFits(Onward(w), Validated(q)))
      BY <1>11 DEF Validate, w, q
    <2>3. /\ WithFits(Onward(w), Validated(q)) \in Work
          /\ Kept(WithFits(Onward(w), Validated(q)), calls)
      BY <1>3, <1>5, <2>1, <2>2
    <2>4. QED
      BY <1>4, <2>2, <2>3
  <1>12. CASE Dispatch(t)
    <2> DEFINE x == [w EXCEPT !.left = w.signals, !.halted = halted]
    <2>1. x \in Begun /\ x.pc = "dispatch"
      BY <1>3, <1>12 DEF Dispatch, Begun, Work, TypeOK, Prospective, w
    <2>2. Reads(t, Onward(x))
      BY <1>12 DEF Dispatch, w
    <2>3. {} \in SUBSET HonestFits
      OBVIOUS
    <2> HIDE DEF x
    <2>4. Onward(x) \in Work /\ Kept(Onward(x), calls)
      BY <1>5, <2>1, <2>3
    <2>5. QED
      BY <1>4, <2>2, <2>4
  <1>13. CASE Order(t)
    <2> DEFINE x == [w EXCEPT !.left = @ \ {First(w.left)}]
    <2>1. x \in Begun /\ x.pc = "order"
      BY <1>3, <1>13 DEF Order, Begun, Work, Prospective, w
    <2>2. Reads(t, Onward(x)) \/ Become(t, Ended(w, "failed"))
      BY <1>13 DEF Order, Commits, Reads, w
    <2>3. {} \in SUBSET HonestFits
      OBVIOUS
    <2> HIDE DEF x
    <2>4. Onward(x) \in Work /\ Kept(Onward(x), calls)
      BY <1>5, <2>1, <2>3
    <2>5. QED
      BY <1>4, <2>2, <2>4
  <1>14. CASE Succeed(t)
    <2> DEFINE rest == [NoWork EXCEPT !.outcome = "succeeded"]
    <2>1. rest \in Work /\ Kept(rest, calls)
      BY RestType DEF Outcomes
    <2>2. Reads(t, rest)
      BY <1>14 DEF Succeed, Commits, Reads
    <2> HIDE DEF rest
    <2>3. QED
      BY <1>4, <2>1, <2>2
  <1>15. CASE Settle(t)
    <2> DEFINE rest == [NoWork EXCEPT !.outcome = w.outcome]
    <2>1. rest \in Work /\ Kept(rest, calls)
      BY <1>1, RestType DEF Work
    <2>2. Become(t, rest)
      BY <1>15 DEF Settle, w
    <2> HIDE DEF rest
    <2>3. QED
      BY <1>4, <2>1, <2>2
  <1>16. QED
    BY <1>7, <1>8, <1>9, <1>10, <1>11, <1>12, <1>13, <1>14, <1>15 DEF Step

-----------------------------------------------------------------------------
(***************************************************************************)
(* The tables.                                                             *)
(***************************************************************************)

\* What a stage leaves as it is
LEMMA StepLeaves ==
    ASSUME NEW t \in Threads, Step(t)
    PROVE  UNCHANGED <<frame, catalog, snapshots, halted, adaptive, calls>>
  <1>1. UNCHANGED <<frame, stock, calls>>
    BY Zenon DEF Step, Start, Context, Profile, Adaptive, Peers, Load, Backtest,
       Validate, Materialize, Usability, PeerRun, Dispatch, Order, Exclude,
       Succeed, Settle
  <1>2. QED
    BY <1>1 DEF stock

LEMMA StepEvents ==
    ASSUME NEW t \in Threads, Step(t) PROVE events' = events \/ Event
  <1>1. \/ \E v : Reads(t, v)
        \/ Refused(t)
        \/ UNCHANGED events
        \/ Event
    BY DEF Step, Start, Context, Profile, Adaptive, Peers, Load, Backtest,
       Validate, Materialize, Usability, PeerRun, Dispatch, Order, Exclude,
       Succeed, Settle, Commits
  <1>2. QED
    BY <1>1 DEF Reads, Refused

\* What a stage writes, if it writes: the work it is written from is the thread's.
LEMMA StepWrites ==
    ASSUME NEW t \in Threads, Step(t)
    PROVE  LET w == work[t]
           IN  /\ \/ rows' = rows
                  \/ WriteRow(w, "running")
                  \/ WriteRow(w, "succeeded")
                  \/ WriteRow([w EXCEPT !.signals = {}], w.outcome) /\ w.pc = "settle"
               /\ \/ profiles' = profiles
                  \/ w.pc = "profile" /\ profiles' = profiles \cup {w.request.route}
               /\ \/ factorRows' = factorRows
                  \/ factorRows' = factorRows \cup ({w.id} \X w.factors)
               /\ usability' = usability \/ usability' = usability \cup Usable(w)
               /\ \/ peerRuns' = peerRuns
                  \/ peerRuns' = peerRuns \cup {<<w.id, snapshots>>}
               /\ \/ orders' = orders
                  \/ /\ w.pc = "order"
                     /\ \E decision \in Decisions(w) :
                            orders' = Append(orders, [run |-> w.id,
                                                      symbol |-> First(w.left),
                                                      decision |-> decision])
               /\ exclusions' = exclusions \/ exclusions' = exclusions \cup {w.id}
  <1> USE DEF outputs
  <1>1. CASE Start(t) \/ Succeed(t) \/ Settle(t)
    BY <1>1 DEF Start, Succeed, Settle, Commits
  <1>2. CASE \/ Context(t) \/ Adaptive(t) \/ Peers(t) \/ Load(t) \/ Backtest(t)
             \/ Validate(t) \/ Dispatch(t)
    BY <1>2 DEF Context, Adaptive, Peers, Load, Backtest, Validate, Dispatch
  <1>3. CASE Profile(t) \/ Materialize(t) \/ Usability(t)
    BY <1>3 DEF Profile, Materialize, Usability, Commits
  <1>4. CASE PeerRun(t) \/ Exclude(t)
    BY <1>4 DEF PeerRun, Exclude, Commits
  <1>5. CASE Order(t)
    BY <1>5 DEF Order, Commits
  <1>6. QED
    BY <1>1, <1>2, <1>3, <1>4, <1>5 DEF Step

LEMMA DecisionType == \A w : Decisions(w) \subseteq OrderStates
  BY DEF Decisions, OrderStates

\* What is written fits the tables.
LEMMA StepTypes ==
    ASSUME TypeOK, WorkKept, NEW t \in Threads, Step(t)
    PROVE  TypeOK' /\ WorkKept'
  <1> DEFINE w == work[t]
             ids == 1..MaxCalls
  <1>1. w \in Work /\ Kept(w, calls) /\ w.pc # "idle"
    BY DEF TypeOK, WorkKept, Step, Start, Context, Profile, Adaptive, Peers, Load,
       Backtest, Validate, Materialize, Usability, PeerRun, Dispatch, Order,
       Exclude, Succeed, Settle
  <1>2. w.id \in ids /\ w.request \in Requests /\ w.request \in RunRequest
    BY <1>1, ExecutionAssumption, RequestTypes DEF Kept, TypeOK
  <1>3. UNCHANGED <<frame, catalog, snapshots, halted, adaptive, calls>>
    BY StepLeaves
  <1>4. work' \in [Threads -> Work] /\ WorkKept'
    <2>1. PICK v \in Work : Kept(v, calls) /\ work' = [work EXCEPT ![t] = v]
      BY StepMoves DEF Moves
    <2>2. work \in [Threads -> Work] /\ \A u \in Threads : Kept(work[u], calls)
      BY DEF TypeOK, WorkKept
    <2>3. work' \in [Threads -> Work]
      BY <2>1, <2>2
    <2>4. \A u \in Threads : Kept(work'[u], calls')
      BY <1>3, <2>1, <2>2
    <2>5. QED
      BY <2>3, <2>4 DEF WorkKept
  <1>5. events' \in 0..MaxEvents
    BY StepEvents, EventType DEF TypeOK
  <1>6. DOMAIN rows' \subseteq ids /\ \A id \in DOMAIN rows' : rows'[id] \in RowRecord
    <2>1. /\ DOMAIN rows \subseteq ids
          /\ \A id \in DOMAIN rows : rows[id] \in RowRecord
      BY DEF TypeOK, RowRecord
    <2>2. ASSUME NEW status \in (Outcomes \ {"none"}) \cup {"running"}, NEW x,
                 x.id = w.id, x.request = w.request, x.signals \in SUBSET Symbols,
                 WriteRow(x, status)
          PROVE  /\ DOMAIN rows' \subseteq ids
                 /\ \A id \in DOMAIN rows' : rows'[id] \in RowRecord
      <3>1. Row(x, status) \in RowRecord
        BY <1>2, <2>2 DEF Row, RowRecord
      <3> HIDE DEF w, ids
      <3>2. rows' = [id \in DOMAIN rows \cup {w.id} |->
                        IF id = w.id THEN Row(x, status) ELSE rows[id]]
        BY <2>2 DEF WriteRow
      <3>3. QED
        BY <1>2, <2>1, <3>1, <3>2
    <2>3. \/ rows' = rows
          \/ WriteRow(w, "running")
          \/ WriteRow(w, "succeeded")
          \/ WriteRow([w EXCEPT !.signals = {}], w.outcome) /\ w.pc = "settle"
      BY StepWrites
    <2>4. CASE WriteRow(w, "running") \/ WriteRow(w, "succeeded")
      BY <1>1, <2>2, <2>4 DEF Work, Outcomes
    <2>5. CASE WriteRow([w EXCEPT !.signals = {}], w.outcome) /\ w.pc = "settle"
      <3> DEFINE x == [w EXCEPT !.signals = {}]
      <3>1. x.id = w.id /\ x.request = w.request /\ x.signals = {}
        BY <1>1 DEF Work
      <3>2. w.outcome \in (Outcomes \ {"none"}) \cup {"running"}
        BY <1>1, <2>5 DEF Kept, Outcomes
      <3> HIDE DEF x
      <3>3. x.signals \in SUBSET Symbols /\ WriteRow(x, w.outcome)
        BY <2>5, <3>1 DEF x
      <3>4. QED
        BY <2>2, <3>1, <3>2, <3>3
    <2>6. QED
      BY <2>1, <2>3, <2>4, <2>5
  <1>7. profiles' \subseteq Routes
    <2>1. profiles \subseteq Routes /\ w.request.route \in Routes
      BY <1>2 DEF TypeOK, RunRequest
    <2>2. QED
      BY <2>1, StepWrites
  <1>8. factorRows' \subseteq ids \X (Symbols \X Factors)
    <2>1. w.factors \subseteq Symbols \X Factors
      BY <1>1 DEF Work
    <2>2. {w.id} \X w.factors \subseteq ids \X (Symbols \X Factors)
      BY <1>2, <2>1
    <2>3. factorRows \subseteq ids \X (Symbols \X Factors)
      BY DEF TypeOK
    <2>4. QED
      BY <2>2, <2>3, StepWrites
  <1>9. usability' \subseteq ids \X Factors
    <2>1. w.factors \subseteq Symbols \X Factors
      BY <1>1 DEF Work
    <2>2. Usable(w) \subseteq ids \X Factors
      BY <1>2, <2>1 DEF Usable
    <2>3. usability \subseteq ids \X Factors
      BY DEF TypeOK
    <2>4. QED
      BY <2>2, <2>3, StepWrites
  <1>10. peerRuns' \subseteq ids \X Nat
    <2>1. peerRuns \subseteq ids \X Nat /\ snapshots \in Nat
      BY DEF TypeOK
    <2>2. <<w.id, snapshots>> \in ids \X Nat
      BY <1>2, <2>1
    <2>3. QED
      BY <2>1, <2>2, StepWrites
  <1>11. orders' \in Seq([run : ids, symbol : Symbols, decision : OrderStates])
    <2>1. orders \in Seq([run : ids, symbol : Symbols, decision : OrderStates])
      BY DEF TypeOK
    <2>2. ASSUME w.pc = "order", NEW decision \in Decisions(w),
                 orders' = Append(orders, [run |-> w.id, symbol |-> First(w.left),
                                           decision |-> decision])
          PROVE  orders' \in Seq([run : ids, symbol : Symbols, decision : OrderStates])
      <3>1. First(w.left) \in Symbols
        BY <1>1, <2>2, FirstType DEF Kept, Work
      <3>2. decision \in OrderStates
        BY DecisionType
      <3>3. [run |-> w.id, symbol |-> First(w.left), decision |-> decision]
                \in [run : ids, symbol : Symbols, decision : OrderStates]
        BY <1>2, <3>1, <3>2
      <3> HIDE DEF w, ids
      <3>4. QED
        BY <2>1, <2>2, <3>3
    <2>3. QED
      BY <2>1, <2>2, StepWrites
  <1>12. exclusions' \subseteq ids
    BY <1>2, StepWrites DEF TypeOK
  <1>13. TypeOK'
    BY <1>3, <1>4, <1>5, <1>6, <1>7, <1>8, <1>9, <1>10, <1>11, <1>12
       DEF TypeOK, RowRecord
  <1>14. QED
    BY <1>4, <1>13

-----------------------------------------------------------------------------
(***************************************************************************)
(* Theorems: types, labels and opinions.                                   *)
(***************************************************************************)

Sound == TypeOK /\ WorkKept

LEMMA SoundFirst == ASSUME Init PROVE Sound
  <1>1. NoWork \in Work /\ Kept(NoWork, calls)
    BY IdleType
  <1>2. WorkKept
    BY <1>1 DEF Init, WorkKept
  <1>3. /\ DOMAIN rows = {} /\ orders = <<>>
        /\ catalog \in Catalogs \cup {NoCatalog} /\ snapshots \in Nat
        /\ adaptive \in BOOLEAN /\ halted \in BOOLEAN
    <2>1. rows = <<>> /\ orders = <<>> /\ halted = FALSE
      BY DEF Init
    <2>2. DOMAIN rows = {}
      BY <2>1
    <2>3. PICK s \in Stocks :
              catalog = s.catalog /\ snapshots = s.snapshots /\ adaptive = s.adaptive
      BY DEF Init
    <2>4. s \in [catalog : Catalogs \cup {NoCatalog}, snapshots : Nat,
                 adaptive : BOOLEAN]
      BY ExecutionAssumption
    <2>5. catalog \in Catalogs \cup {NoCatalog} /\ snapshots \in Nat
      BY <2>3, <2>4
    <2>6. adaptive \in BOOLEAN
      BY <2>3, <2>4
    <2>7. QED
      BY <2>1, <2>2, <2>5, <2>6
  <1>4. TypeOK
    BY <1>1, <1>3, ExecutionAssumption DEF Init, TypeOK
  <1>5. QED
    BY <1>2, <1>4 DEF Sound

LEMMA SoundNext == ASSUME Sound, [Next]_vars PROVE Sound'
  <1> USE DEF Sound
  <1> USE DEF outputs
  <1>1. ASSUME NEW t \in Threads, Step(t) PROVE Sound'
    BY <1>1, StepTypes
  <1>2. ASSUME NEW t \in Threads, NEW q \in Asks[t], Post(t, q) PROVE Sound'
    <2>1. PICK v \in Work : Kept(v, calls') /\ work' = [work EXCEPT ![t] = v]
      BY <1>2, PostMoves
    <2>2. calls' \in 1..MaxCalls /\ calls' = calls + 1 /\ calls \in 0..MaxCalls
      BY <1>2, PostMoves DEF TypeOK
    <2>3. work \in [Threads -> Work] /\ \A u \in Threads : Kept(work[u], calls)
      BY DEF TypeOK, WorkKept
    <2>4. work' \in [Threads -> Work]
      BY <2>1, <2>3
    <2>5. \A u \in Threads : Kept(work[u], calls')
      BY <2>2, <2>3, ExecutionAssumption DEF Kept
    <2>6. \A u \in Threads : Kept(work'[u], calls')
      BY <2>1, <2>3, <2>5
    <2>7. UNCHANGED <<frame, catalog, snapshots, halted, adaptive, profiles, rows,
                      factorRows, usability, peerRuns, orders, exclusions, events>>
      BY <1>2 DEF Post, stock
    <2>8. TypeOK'
      BY <2>2, <2>4, <2>7 DEF TypeOK
    <2>9. QED
      BY <2>6, <2>8 DEF WorkKept
  <1>3. CASE WriteCatalog
    <2>1. TypeOK'
      BY <1>3, EventType DEF WriteCatalog, TypeOK
    <2>2. QED
      BY <1>3, <2>1 DEF WriteCatalog, WorkKept
  <1>4. CASE AddSnapshot
    <2>1. TypeOK'
      BY <1>4, EventType DEF AddSnapshot, TypeOK
    <2>2. QED
      BY <1>4, <2>1 DEF AddSnapshot, WorkKept
  <1>5. CASE Switch
    <2>1. halted' \in BOOLEAN
      BY <1>5 DEF Switch
    <2>2. TypeOK'
      BY <1>5, <2>1, EventType DEF Switch, TypeOK
    <2>3. QED
      BY <1>5, <2>2 DEF Switch, WorkKept
  <1>6. CASE Crash
    <2>1. NoWork \in Work /\ Kept(NoWork, calls)
      BY IdleType
    <2>2. calls' = calls /\ work' = [t \in Threads |-> NoWork]
      BY <1>6 DEF Crash
    <2>3. work' \in [Threads -> Work] /\ WorkKept'
      BY <2>1, <2>2 DEF WorkKept
    <2>4. UNCHANGED <<frame, catalog, snapshots, halted, adaptive, profiles, rows,
                      factorRows, usability, peerRuns, orders, exclusions, calls>>
      BY <1>6 DEF Crash, stock
    <2>5. events' \in 0..MaxEvents
      BY <1>6, EventType DEF Crash, TypeOK
    <2>6. TypeOK'
      BY <2>3, <2>4, <2>5 DEF TypeOK
    <2>7. QED
      BY <2>3, <2>6
  <1>7. CASE UNCHANGED vars
    <2>1. UNCHANGED <<frame, catalog, snapshots, halted, adaptive, profiles, rows,
                      factorRows, usability, peerRuns, orders, exclusions, work, calls,
                      events>>
      BY <1>7 DEF vars, stock
    <2>2. QED
      BY <2>1 DEF TypeOK, WorkKept
  <1>8. QED
    BY <1>1, <1>2, <1>3, <1>4, <1>5, <1>6, <1>7 DEF Next

\* TypeOK, with what a thread's work is at each stage: posts, stages, catalogs,
\* snapshots, switch events and restarts keep the tables and the work well typed.
THEOREM ExecutionTypes == Spec => []TypeOK
  <1>1. Sound => TypeOK
    BY DEF Sound
  <1>2. QED
    BY <1>1, SoundFirst, SoundNext, PTL DEF Spec

\* LabelsSettledFirst: whatever rows each symbol has, and in the main split, every
\* validation fold and every classifier's calibration, no label settles on or after
\* the first date that the model is tested or calibrated on.
THEOREM LabelsAreSettled == Spec => []LabelsSettledFirst
  <1>1. Sound => LabelsSettledFirst
    BY DEF Sound, WorkKept, Kept, HonestFits, Honest, LabelsSettledFirst
  <1>2. QED
    BY <1>1, SoundFirst, SoundNext, PTL DEF Spec

\* The last date has no label that looks ahead.
LEMMA LastDateIsUnlabelled ==
    ASSUME NEW s, NEW q \in RunRequest, Ahead(q) # 0
    PROVE  LastDate \notin ModelRows(s, q)
  <1> DEFINE index == Observed(s)
  <1> SUFFICES ASSUME LastDate \in ModelRows(s, q) PROVE FALSE
    OBVIOUS
  <1>1. /\ index \in SUBSET Nat /\ IsFiniteSet(index) /\ LastDate \in index
        /\ \A d \in index : d <= LastDate
    BY RowSets, DateSets, WalkForwardAssumption DEF Dates
  <1>2. /\ LabelEnd(s, LastDate, q) \in index
        /\ Place(index, LabelEnd(s, LastDate, q)) = Place(index, LastDate) + Ahead(q)
    BY LabelIsObserved
  <1>3. /\ Ahead(q) \in Nat /\ Place(index, LastDate) \in Nat
        /\ Place(index, LabelEnd(s, LastDate, q)) \in Nat
    BY <1>1, <1>2, AheadType, PlaceNat
  <1>4. Place(index, LastDate) < Place(index, LabelEnd(s, LastDate, q))
    BY <1>2, <1>3
  <1> DEFINE end == LabelEnd(s, LastDate, q)
  <1>5. end \in Nat /\ LastDate \in Nat /\ end <= LastDate
    BY <1>1, <1>2
  <1> HIDE DEF end, index
  <1>6. LastDate < end
    BY <1>1, <1>2, <1>4, <1>5, PlaceMonotone DEF end
  <1>7. QED
    BY <1>5, <1>6

\* ForwardIsProspective: the date of a strict run's opinion is none that a model of
\* the run has a label of.
THEOREM OpinionsLookForward == Spec => []ForwardIsProspective
  <1>1. ASSUME Sound PROVE ForwardIsProspective
    <2> SUFFICES ASSUME NEW t \in Threads, work[t].latest # 0, work[t].request.strict,
                        NEW s \in Symbols
                 PROVE  work[t].latest \notin ModelRows(s, work[t].request)
      BY DEF ForwardIsProspective
    <2>1. Kept(work[t], calls)
      BY <1>1 DEF Sound, WorkKept
    <2>2. work[t].latest = LastDate /\ Ahead(work[t].request) # 0
      BY <2>1 DEF Kept, Prospective
    <2>3. work[t].request \in RunRequest
      BY <2>1, RequestTypes DEF Kept
    <2>4. QED
      BY <2>2, <2>3, LastDateIsUnlabelled
  <1>2. QED
    BY <1>1, SoundFirst, SoundNext, PTL DEF Spec

-----------------------------------------------------------------------------
(***************************************************************************)
(* What the tables hold of a run.                                          *)
(***************************************************************************)
Made(id) == {r[2] : r \in {x \in factorRows : x[1] = id}}
Seen(id) == {u[2] : u \in {x \in usability : x[1] = id}}
Ordered(id) == {orders[i].symbol : i \in OrdersOf(id)}
Decided(id) == {orders[i].decision : i \in OrdersOf(id)}
Excluded(id) == exclusions \cap {id}

\* The switch that stops the orders of the run
Stopped(w) == w.request.route = "live_stub_v1" /\ w.halted

\* The symbols whose factors the run has loaded when it comes to the k-th stage
LoadedAt(w, k) ==
    IF k <= 3 THEN {} ELSE IF k <= 7 THEN Symbols \ w.left ELSE Symbols

\* The symbols it has ordered by then
OrderedAt(w, k) ==
    IF k <= 13 \/ w.request.route = "research_only" THEN {}
    ELSE IF k = 14 THEN w.signals \ w.left ELSE w.signals

\* What the run has worked out and written when it comes to the k-th stage
LedgerAt(w, k, made, seen, ordered, decided, excluded) ==
    /\ w.request.catalog /\ w.request.scoring # {} =>
          w.factors = LoadedAt(w, k) \X w.request.scoring
    /\ made = IF k <= 10 THEN {} ELSE w.factors
    /\ seen = IF k <= 11 THEN {} ELSE {f[2] : f \in w.factors}
    /\ k = 14 => w.left \subseteq w.signals
    /\ w.pc = "order" => w.request.route # "research_only"
    /\ w.pc = "exclude" => w.request.adaptive
    /\ ordered = OrderedAt(w, k)
    /\ \A d \in decided : d = "kill_switch_active" <=> Stopped(w)
    /\ excluded = IF k > 15 /\ w.request.adaptive THEN {w.id} ELSE {}

\* What a run owes that is stored with this row
PaidUp(id, row, made, seen, ordered, decided, excluded) ==
    /\ {f[2] : f \in made} = seen
    /\ row.request.catalog /\ row.request.scoring # {} =>
          made = Symbols \X row.request.scoring
    /\ ordered = IF row.request.route = "research_only" THEN {} ELSE row.signals
    /\ \A d, e \in decided : d = "kill_switch_active" => e = "kill_switch_active"
    /\ excluded = IF row.request.adaptive THEN {id} ELSE {}

\* Every table holds runs that were begun.
RunsKnown ==
    /\ \A x \in factorRows \cup usability : x[1] \in 1..calls
    /\ \A i \in DOMAIN orders : orders[i].run \in 1..calls
    /\ exclusions \subseteq 1..calls
    /\ DOMAIN rows \subseteq 1..calls

\* No two threads work on one run.
RunsApart ==
    \A t, u \in Threads :
        t # u /\ work[t].pc # "idle" /\ work[u].pc # "idle" => work[t].id # work[u].id

\* A run has one order for a symbol at most.
OrdersApart ==
    \A i, j \in DOMAIN orders :
        orders[i].run = orders[j].run /\ orders[i].symbol = orders[j].symbol => i = j

\* A thread's run has been accounted for as far as it has come.
Ledger(w, k) ==
    LedgerAt(w, k, Made(w.id), Seen(w.id), Ordered(w.id), Decided(w.id), Excluded(w.id))

LedgersKept ==
    \A t \in Threads : work[t].pc \notin {"idle", "settle"} =>
        Ledger(work[t], Index(work[t].pc))

\* A run stored as succeeded owes nothing, and a thread that is still on it was
\* told that record_success has failed.
DebtsPaid ==
    \A id \in DOMAIN rows : rows[id].status = "succeeded" =>
        /\ PaidUp(id, rows[id], Made(id), Seen(id), Ordered(id), Decided(id), Excluded(id))
        /\ \A t \in Threads : work[t].pc \notin {"idle", "settle"} => work[t].id # id

Accounts == RunsKnown /\ RunsApart /\ OrdersApart /\ LedgersKept /\ DebtsPaid

-----------------------------------------------------------------------------
(***************************************************************************)
(* The ledger from stage to stage.                                         *)
(***************************************************************************)

\* The stage a run has come to when this work is done: the same one while symbols
\* are left, otherwise the next in the list, whether it applies or not.
Reached(w) ==
    IF w.pc \in {"load", "order"} /\ w.left # {} THEN Index(w.pc) ELSE Index(w.pc) + 1

\* The stages that are passed over owe nothing.
LEMMA LedgerOnward ==
    ASSUME NEW w \in Work, w.pc \in StageSet \ {"idle", "succeed", "settle"},
           NEW made, NEW seen, NEW ordered, NEW decided, NEW excluded,
           LedgerAt(w, Reached(w), made, seen, ordered, decided, excluded),
           NEW fits
    PROVE  /\ LedgerAt(Onward(w), Index(Onward(w).pc),
                       made, seen, ordered, decided, excluded)
           /\ LedgerAt(WithFits(Onward(w), fits), Index(WithFits(Onward(w), fits).pc),
                       made, seen, ordered, decided, excluded)
  <1> DEFINE v == Onward(w)
             u == WithFits(v, fits)
             k == Reached(w)
             m == Index(v.pc)
  <1>1. /\ v = [w EXCEPT !.pc = v.pc, !.fits = {}]
        /\ v.pc \in StageSet
        /\ w.pc \in {"load", "order"} /\ w.left # {} => v.pc = w.pc
        /\ ~(w.pc \in {"load", "order"} /\ w.left # {}) =>
              /\ Index(w.pc) < Index(v.pc) /\ Index(v.pc) <= 16
              /\ Applies(w, v.pc)
              /\ \A stage \in StageSet :
                    Index(w.pc) < Index(stage) /\ Index(stage) < Index(v.pc)
                        => ~Applies(w, stage)
    BY OnwardStage
  <1>2. u = [v EXCEPT !.fits = fits]
    BY DEF WithFits
  <1> HIDE DEF v, u
  <1>3. /\ v.id = w.id /\ v.request = w.request /\ v.left = w.left
        /\ v.factors = w.factors /\ v.signals = w.signals /\ v.halted = w.halted
    BY <1>1 DEF Work
  <1>4. /\ u.id = w.id /\ u.request = w.request /\ u.left = w.left
        /\ u.factors = w.factors /\ u.signals = w.signals /\ u.halted = w.halted
        /\ u.pc = v.pc
    BY <1>1, <1>2, <1>3 DEF Work
  <1>5. Index(w.pc) \in 1..17 /\ m \in 1..17
    BY <1>1, StagePlaces
  <1>6. LedgerAt(v, m, made, seen, ordered, decided, excluded)
    <2>1. CASE w.pc \in {"load", "order"} /\ w.left # {}
      <3>1. k = m /\ v.pc = w.pc
        BY <1>1, <2>1 DEF Reached
      <3> HIDE DEF k, m
      <3>2. QED
        BY <1>3, <3>1 DEF LedgerAt, LoadedAt, OrderedAt, Stopped, k
    <2>2. CASE ~(w.pc \in {"load", "order"} /\ w.left # {})
      <3>1. /\ k = Index(w.pc) + 1 /\ k <= m /\ m <= 16 /\ Applies(w, v.pc)
            /\ k \in 2..18
        BY <1>1, <1>5, <2>2 DEF Reached
      <3>2. \A stage \in StageSet :
                k <= Index(stage) /\ Index(stage) < m => ~Applies(w, stage)
        BY <1>1, <1>5, <2>2, <3>1, StagePlaces
      <3> HIDE DEF k, m
      <3>3. /\ k <= 7 /\ 7 < m => w.left = {}
            /\ k <= 10 /\ 10 < m => w.factors = {}
            /\ k <= 11 /\ 11 < m => w.factors = {}
            /\ k <= 13 /\ 13 < m => w.request.route = "research_only"
            /\ k <= 14 /\ 14 < m => w.request.route = "research_only" \/ w.left = {}
            /\ k <= 15 /\ 15 < m => ~w.request.adaptive
        <4>1. {"load", "materialize", "usability", "dispatch", "order", "exclude"}
                \subseteq StageSet
          BY StageNames
        <4>2. QED
          BY <3>2, <4>1, StageNumbers DEF Applies
      <3>4. ~(k <= 3 /\ 3 < m)
        <4>1. "context" \in StageSet /\ Applies(w, "context")
          BY StageNames DEF Applies
        <4>2. QED
          BY <3>2, <4>1, StageNumbers
      <3>5. /\ v.pc = "order" => w.request.route # "research_only"
            /\ v.pc = "exclude" => w.request.adaptive
        BY <3>1 DEF Applies
      <3>6. m = 14 => v.pc = "order"
        <4>1. Stages[14] = "order"
          BY DEF Stages
        <4>2. QED
          BY <1>1, <4>1, StagePlaces DEF m
      <3> DEFINE L(n) == LedgerAt(w, n, made, seen, ordered, decided, excluded)
      <3>7. L(k)
        BY DEF k
      <3>8. /\ w.request.catalog /\ w.request.scoring # {} =>
                  w.factors = LoadedAt(v, m) \X w.request.scoring
        <4>1. /\ w.request.catalog /\ w.request.scoring # {} =>
                  w.factors = LoadedAt(w, k) \X w.request.scoring
          BY <3>7 DEF LedgerAt
        <4>2. LoadedAt(v, m) = LoadedAt(w, k)
          BY <1>3, <1>5, <3>1, <3>3, <3>4 DEF LoadedAt
        <4>3. QED
          BY <4>1, <4>2
      <3>9. made = IF m <= 10 THEN {} ELSE w.factors
        <4>1. made = IF k <= 10 THEN {} ELSE w.factors
          BY <3>7 DEF LedgerAt
        <4>2. QED
          BY <1>5, <3>1, <3>3, <4>1
      <3>10. seen = IF m <= 11 THEN {} ELSE {f[2] : f \in w.factors}
        <4>1. seen = IF k <= 11 THEN {} ELSE {f[2] : f \in w.factors}
          BY <3>7 DEF LedgerAt
        <4>2. w.factors = {} => {f[2] : f \in w.factors} = {}
          OBVIOUS
        <4>3. QED
          BY <1>5, <3>1, <3>3, <4>1, <4>2
      <3>11. m = 14 => w.left \subseteq w.signals
        BY <1>5, <3>1, <3>3, <3>5, <3>6, <3>7 DEF LedgerAt
      <3>12. ordered = OrderedAt(v, m)
        <4>1. ordered = OrderedAt(w, k)
          BY <3>7 DEF LedgerAt
        <4>2. OrderedAt(v, m) = OrderedAt(w, k)
          BY <1>3, <1>5, <3>1, <3>3 DEF OrderedAt
        <4>3. QED
          BY <4>1, <4>2
      <3>13. \A d \in decided : d = "kill_switch_active" <=> Stopped(v)
        BY <1>3, <3>7 DEF LedgerAt, Stopped
      <3>14. excluded = IF m > 15 /\ w.request.adaptive THEN {w.id} ELSE {}
        BY <1>5, <3>1, <3>3, <3>7 DEF LedgerAt
      <3>15. QED
        BY <1>3, <3>5, <3>8, <3>9, <3>10, <3>11, <3>12, <3>13, <3>14 DEF LedgerAt
    <2>3. QED
      BY <2>1, <2>2
  <1>7. LedgerAt(u, m, made, seen, ordered, decided, excluded)
    <2>1. LoadedAt(u, m) = LoadedAt(v, m) /\ OrderedAt(u, m) = OrderedAt(v, m)
      BY <1>3, <1>4 DEF LoadedAt, OrderedAt
    <2>2. Stopped(u) <=> Stopped(v)
      BY <1>3, <1>4 DEF Stopped
    <2>3. /\ u.id = v.id /\ u.request = v.request /\ u.left = v.left
          /\ u.factors = v.factors /\ u.signals = v.signals /\ u.pc = v.pc
      BY <1>3, <1>4
    <2> HIDE DEF m
    <2>4. QED
      BY <1>6, <2>1, <2>2, <2>3 DEF LedgerAt
  <1>8. Index(u.pc) = m
    BY <1>4
  <1>9. QED
    BY <1>6, <1>7, <1>8 DEF v, u

\* A stage that neither writes a table nor loads nor orders
LEMMA LedgerPasses ==
    ASSUME NEW w, NEW x, NEW k \in {2, 4, 5, 6, 8, 9, 12},
           NEW made, NEW seen, NEW ordered, NEW decided, NEW excluded,
           LedgerAt(w, k, made, seen, ordered, decided, excluded),
           x.id = w.id, x.pc = w.pc, x.request = w.request, x.left = w.left,
           x.factors = w.factors, x.halted = w.halted
    PROVE  LedgerAt(x, k + 1, made, seen, ordered, decided, excluded)
  <1>1. /\ k <= 3 <=> k + 1 <= 3
        /\ k <= 7 <=> k + 1 <= 7
        /\ (k <= 10 /\ k + 1 <= 10) \/ k > 11
        /\ k <= 11 <=> k + 1 <= 11
        /\ k <= 13 /\ k + 1 <= 13
        /\ k # 14 /\ k + 1 # 14 /\ ~(k > 15) /\ ~(k + 1 > 15)
    OBVIOUS
  <1>2. LoadedAt(x, k + 1) = LoadedAt(w, k)
    BY <1>1 DEF LoadedAt
  <1>3. OrderedAt(x, k + 1) = {} /\ OrderedAt(w, k) = {}
    BY <1>1 DEF OrderedAt
  <1>4. Stopped(x) <=> Stopped(w)
    BY DEF Stopped
  <1>5. /\ made = IF k + 1 <= 10 THEN {} ELSE x.factors
        /\ seen = IF k + 1 <= 11 THEN {} ELSE {f[2] : f \in x.factors}
    <2>1. /\ made = IF k <= 10 THEN {} ELSE w.factors
          /\ seen = IF k <= 11 THEN {} ELSE {f[2] : f \in w.factors}
      BY DEF LedgerAt
    <2>2. QED
      BY <1>1, <2>1
  <1>6. QED
    BY <1>1, <1>2, <1>3, <1>4, <1>5 DEF LedgerAt

\* The tables hold of a run what they did.
LEMMA TablesKept ==
    /\ UNCHANGED factorRows => \A id : Made(id)' = Made(id)
    /\ UNCHANGED usability => \A id : Seen(id)' = Seen(id)
    /\ UNCHANGED orders =>
          \A id : Ordered(id)' = Ordered(id) /\ Decided(id)' = Decided(id)
    /\ UNCHANGED exclusions => \A id : Excluded(id)' = Excluded(id)
  BY DEF Made, Seen, Ordered, Decided, OrdersOf, Excluded

\* The stage has done this work, and the run's tables hold what is owed by then.
Worked(t, x) ==
    /\ x \in Work /\ x.pc \in StageSet \ {"idle", "succeed", "settle"}
    /\ x.id = work[t].id
    /\ \E fits : work'[t] = Onward(x) \/ work'[t] = WithFits(Onward(x), fits)
    /\ LedgerAt(x, Reached(x), Made(x.id)', Seen(x.id)', Ordered(x.id)', Decided(x.id)',
                Excluded(x.id)')

\* The run has ended, or is to be settled.
Closes(t) ==
    work'[t].pc = "idle" \/ (work'[t].pc = "settle" /\ work'[t].id = work[t].id)

LEMMA Landing ==
    ASSUME NEW t \in Threads, work \in [Threads -> Work]
    PROVE  /\ \A v : Become(t, v) => work'[t] = v
           /\ \A outcome : Become(t, Ended(work[t], outcome)) => Closes(t)
           /\ \A v : Reads(t, v) => work'[t] = v \/ Closes(t)
           /\ Refused(t) => Closes(t)
  <1>1. \A v : Become(t, v) => work'[t] = v
    BY DEF Become
  <1>2. ASSUME NEW outcome, Become(t, Ended(work[t], outcome)) PROVE Closes(t)
    <2>1. /\ Ended(work[t], outcome).pc = "settle"
          /\ Ended(work[t], outcome).id = work[t].id
      BY DEF Ended, Work
    <2>2. QED
      BY <1>1, <1>2, <2>1 DEF Closes
  <1>3. \A v : Reads(t, v) => work'[t] = v \/ Closes(t)
    BY <1>1, <1>2 DEF Reads
  <1>4. Refused(t) => Closes(t)
    BY <1>2 DEF Refused
  <1>5. QED
    BY <1>1, <1>2, <1>3, <1>4

\* The stages that write none of these tables
LEMMA QuietWorks ==
    ASSUME Sound, LedgersKept, NEW t \in Threads,
           \/ Start(t) \/ Profile(t) \/ Adaptive(t) \/ Peers(t) \/ Backtest(t)
           \/ Validate(t) \/ PeerRun(t)
    PROVE  Closes(t) \/ \E x : Worked(t, x)
  <1>0. PICK w : w = work[t]
    OBVIOUS
  <1> USE <1>0
  <1> DEFINE q == w.request
  <1>1. work \in [Threads -> Work] /\ w \in Work
    BY DEF Sound, TypeOK
  <1>2. UNCHANGED <<factorRows, usability, orders, exclusions>>
    BY Zenon DEF outputs, Start, Profile, Adaptive, Peers, Backtest, Validate, PeerRun
  <1>3. \A id : /\ Made(id)' = Made(id) /\ Seen(id)' = Seen(id)
                /\ Ordered(id)' = Ordered(id) /\ Decided(id)' = Decided(id)
                /\ Excluded(id)' = Excluded(id)
    BY <1>2, TablesKept
  <1>4. /\ w.pc \in {"start", "profile", "adaptive", "peers", "backtest", "validate",
                     "peer_run"}
        /\ Index(w.pc) \in {2, 4, 5, 6, 8, 9, 12}
    BY StageNumbers DEF Start, Profile, Adaptive, Peers, Backtest, Validate, PeerRun
  <1>5. Ledger(w, Index(w.pc))
    BY <1>4 DEF LedgersKept
  <1>6. ASSUME NEW x \in Work, x.id = w.id, x.pc = w.pc, x.request = w.request,
               x.left = w.left, x.factors = w.factors, x.halted = w.halted,
               NEW fits, work'[t] = Onward(x) \/ work'[t] = WithFits(Onward(x), fits)
        PROVE  Worked(t, x)
    <2>1. x.pc \in StageSet \ {"idle", "succeed", "settle"}
      BY <1>4, <1>6, StageNames
    <2>2. Reached(x) = Index(w.pc) + 1
      BY <1>4, <1>6 DEF Reached
    <2>3. LedgerAt(x, Index(w.pc) + 1, Made(w.id), Seen(w.id), Ordered(w.id),
                   Decided(w.id), Excluded(w.id))
      BY <1>4, <1>5, <1>6, LedgerPasses DEF Ledger
    <2>4. LedgerAt(x, Reached(x), Made(x.id)', Seen(x.id)', Ordered(x.id)',
                   Decided(x.id)', Excluded(x.id)')
      BY <1>3, <1>6, <2>2, <2>3
    <2>5. QED
      BY <1>6, <2>1, <2>4 DEF Worked
  <1>7. CASE \/ Start(t) \/ Profile(t) \/ Adaptive(t) \/ Peers(t) \/ PeerRun(t)
    <2>1. \/ Reads(t, Onward(w)) \/ Refused(t) \/ Become(t, Ended(w, "failed"))
      <3>1. \A v : (\/ Become(t, v) /\ UNCHANGED events
                    \/ Event /\ Become(t, Ended(work[t], "failed"))) => Reads(t, v)
        BY DEF Reads
      <3>2. CASE Start(t)
        BY <3>1, <3>2 DEF Start, Commits
      <3>3. CASE Adaptive(t) \/ Peers(t)
        BY <3>3 DEF Adaptive, Peers
      <3>4. CASE PeerRun(t)
        BY <3>1, <3>4 DEF PeerRun, Commits
      <3>5. CASE Profile(t)
        BY <3>1, <3>5 DEF Profile, Commits
      <3>6. QED
        BY <1>7, <3>2, <3>3, <3>4, <3>5
    <2>2. Closes(t) \/ work'[t] = Onward(w)
      BY <1>1, <2>1, Landing
    <2>3. work'[t] = Onward(w) => Worked(t, w)
      BY <1>1, <1>6
    <2>4. QED
      BY <2>2, <2>3
  <1>8. CASE Backtest(t)
    <2>1. \A s \in SUBSET Symbols : \A d \in 0..LastDate :
              LET x == [w EXCEPT !.signals = s, !.latest = d]
              IN  /\ x \in Work /\ x.id = w.id /\ x.pc = w.pc
                  /\ x.request = w.request /\ x.left = w.left
                  /\ x.factors = w.factors /\ x.halted = w.halted
      BY <1>1 DEF Work
    <2>2. \A s \in SUBSET Symbols :
              LET x == [w EXCEPT !.signals = s]
              IN  /\ x \in Work /\ x.id = w.id /\ x.pc = w.pc
                  /\ x.request = w.request /\ x.left = w.left
                  /\ x.factors = w.factors /\ x.halted = w.halted
      BY <1>1 DEF Work
    <2>3. ASSUME NEW held \in SignalSets(q),
                 Become(t, Onward([w EXCEPT !.signals = held]))
          PROVE  \E x : Worked(t, x)
      <3> DEFINE x == [w EXCEPT !.signals = held]
      <3>1. held \in SUBSET Symbols
        BY DEF SignalSets, ScoredLast
      <3>2. work'[t] = Onward(x)
        BY <1>1, <2>3, Landing
      <3>3. /\ x \in Work /\ x.id = w.id /\ x.pc = w.pc
            /\ x.request = w.request /\ x.left = w.left
            /\ x.factors = w.factors /\ x.halted = w.halted
        BY <2>2, <3>1
      <3> HIDE DEF x
      <3>4. Worked(t, x)
        BY <1>6, <3>2, <3>3
      <3>5. QED
        BY <3>4
    <2>4. ASSUME NEW d \in Latest(q),
                 Become(t, WithFits(Onward([w EXCEPT !.signals = Symbols, !.latest = d]),
                                    ForwardFits(q)))
          PROVE  \E x : Worked(t, x)
      <3> DEFINE x == [w EXCEPT !.signals = Symbols, !.latest = d]
      <3>1. d \in 0..LastDate /\ Symbols \in SUBSET Symbols
        BY LatestType, WalkForwardAssumption DEF Dates
      <3>2. work'[t] = WithFits(Onward(x), ForwardFits(q))
        BY <1>1, <2>4, Landing
      <3>3. /\ x \in Work /\ x.id = w.id /\ x.pc = w.pc
            /\ x.request = w.request /\ x.left = w.left
            /\ x.factors = w.factors /\ x.halted = w.halted
        BY <2>1, <3>1
      <3> HIDE DEF x
      <3>4. Worked(t, x)
        BY <1>6, <3>2, <3>3
      <3>5. QED
        BY <3>4
    <2>5. \/ \E held \in SignalSets(q) : Become(t, Onward([w EXCEPT !.signals = held]))
          \/ \E d \in Latest(q) :
                Become(t, WithFits(Onward([w EXCEPT !.signals = Symbols, !.latest = d]),
                                   ForwardFits(q)))
          \/ \E outcome : Become(t, Ended(w, outcome))
      BY <1>8 DEF Backtest
    <2>6. QED
      BY <1>1, <2>3, <2>4, <2>5, Landing
  <1>9. CASE Validate(t)
    <2>1. work'[t] = WithFits(Onward(w), Validated(q))
      BY <1>1, <1>9, Landing DEF Validate
    <2>2. Worked(t, w)
      BY <1>1, <1>6, <2>1
    <2>3. QED
      BY <2>2
  <1>10. QED
    BY <1>7, <1>8, <1>9

\* The stages that take the symbols to load or to order, and the one that loads them
LEMMA TakingWorks ==
    ASSUME Sound, LedgersKept, NEW t \in Threads,
           Context(t) \/ Load(t) \/ Dispatch(t)
    PROVE  Closes(t) \/ \E x : Worked(t, x)
  <1>0. PICK w : w = work[t]
    OBVIOUS
  <1> USE <1>0
  <1> DEFINE q == w.request
  <1>1. work \in [Threads -> Work] /\ w \in Work /\ Kept(w, calls) /\ halted \in BOOLEAN
    BY DEF Sound, TypeOK, WorkKept
  <1>2. UNCHANGED <<factorRows, usability, orders, exclusions>>
    BY Zenon DEF outputs, Context, Load, Dispatch
  <1>3. \A id : /\ Made(id)' = Made(id) /\ Seen(id)' = Seen(id)
                /\ Ordered(id)' = Ordered(id) /\ Decided(id)' = Decided(id)
                /\ Excluded(id)' = Excluded(id)
    BY <1>2, TablesKept
  <1>4. w.pc \in {"context", "load", "dispatch"}
    BY DEF Context, Load, Dispatch
  <1>5. LedgerAt(w, Index(w.pc), Made(w.id), Seen(w.id), Ordered(w.id), Decided(w.id),
                 Excluded(w.id))
    BY <1>4 DEF LedgersKept, Ledger
  <1>6. ASSUME NEW x \in Work, x.id = w.id, x.pc = w.pc,
               LedgerAt(x, Reached(x), Made(w.id), Seen(w.id), Ordered(w.id),
                        Decided(w.id), Excluded(w.id)),
               NEW fits, work'[t] = Onward(x) \/ work'[t] = WithFits(Onward(x), fits)
        PROVE  Worked(t, x)
    <2>1. x.pc \in StageSet \ {"idle", "succeed", "settle"}
      BY <1>4, <1>6, StageNames
    <2>2. LedgerAt(x, Reached(x), Made(x.id)', Seen(x.id)', Ordered(x.id)',
                   Decided(x.id)', Excluded(x.id)')
      BY <1>3, <1>6
    <2>3. QED
      BY <1>6, <2>1, <2>2 DEF Worked
  <1>7. CASE Context(t)
    <2> DEFINE seen == q.route \in profiles
               x == [w EXCEPT !.seen = seen, !.left = Symbols]
    <2>1. Closes(t) \/ work'[t] = Onward(x)
      BY <1>1, <1>7, Landing DEF Context
    <2>2. w.pc = "context"
      BY <1>7 DEF Context
    <2>3. seen \in BOOLEAN
      OBVIOUS
    <2> HIDE DEF seen
    <2>4. /\ x \in Work /\ x.id = w.id /\ x.pc = "context" /\ x.request = w.request
          /\ x.left = Symbols /\ x.factors = w.factors /\ x.halted = w.halted
          /\ x.signals = w.signals
      BY <1>1, <2>2, <2>3 DEF Work
    <2> HIDE DEF x
    <2>5. Index(w.pc) = 3 /\ Reached(x) = 4
      BY <2>2, <2>4, StageNumbers DEF Reached
    <2>6. LoadedAt(x, 4) = {} /\ LoadedAt(w, 3) = {}
      BY <2>4 DEF LoadedAt
    <2>7. OrderedAt(x, 4) = {} /\ OrderedAt(w, 3) = {}
      BY DEF OrderedAt
    <2>8. Stopped(x) <=> Stopped(w)
      BY <2>4 DEF Stopped
    <2>9. LedgerAt(x, Reached(x), Made(w.id), Seen(w.id), Ordered(w.id),
                   Decided(w.id), Excluded(w.id))
      <3>1. QED
        BY <1>5, <2>4, <2>5, <2>6, <2>7, <2>8 DEF LedgerAt
    <2>10. work'[t] = Onward(x) => Worked(t, x)
      BY <1>6, <2>2, <2>4, <2>9
    <2>11. QED
      BY <2>1, <2>10
  <1>8. CASE Dispatch(t)
    <2> DEFINE x == [w EXCEPT !.left = w.signals, !.halted = halted]
    <2>1. Closes(t) \/ work'[t] = Onward(x)
      BY <1>1, <1>8, Landing DEF Dispatch
    <2>2. w.pc = "dispatch"
      BY <1>8 DEF Dispatch
    <2>3. /\ x \in Work /\ x.id = w.id /\ x.pc = "dispatch" /\ x.request = w.request
          /\ x.left = w.signals /\ x.factors = w.factors /\ x.signals = w.signals
      BY <1>1, <2>2 DEF Work
    <2> HIDE DEF x
    <2>4. Index(w.pc) = 13 /\ Reached(x) = 14
      BY <2>2, <2>3, StageNumbers DEF Reached
    <2>5. LoadedAt(x, 14) = Symbols /\ LoadedAt(w, 13) = Symbols
      BY DEF LoadedAt
    <2>6. OrderedAt(x, 14) = {} /\ OrderedAt(w, 13) = {}
      BY <2>3 DEF OrderedAt
    <2>7. Ordered(w.id) = {}
      BY <1>5, <2>4, <2>6 DEF LedgerAt
    <2>8. Decided(w.id) = {}
      BY <2>7 DEF Ordered, Decided
    <2>9. LedgerAt(x, Reached(x), Made(w.id), Seen(w.id), Ordered(w.id),
                   Decided(w.id), Excluded(w.id))
      <3> DEFINE made == Made(w.id)
                 seen == Seen(w.id)
                 ordered == Ordered(w.id)
                 decided == Decided(w.id)
                 excluded == Excluded(w.id)
      <3>1. /\ q.catalog /\ q.scoring # {} => w.factors = Symbols \X q.scoring
            /\ made = w.factors /\ seen = {f[2] : f \in w.factors}
            /\ ordered = {} /\ excluded = {} /\ decided = {}
        BY <1>5, <2>4, <2>5, <2>6, <2>8 DEF LedgerAt
      <3> HIDE DEF made, seen, ordered, decided, excluded
      <3>2. LedgerAt(x, 14, made, seen, ordered, decided, excluded)
        BY <2>3, <2>5, <2>6, <3>1 DEF LedgerAt
      <3>3. QED
        BY <2>4, <3>2 DEF made, seen, ordered, decided, excluded
    <2>10. work'[t] = Onward(x) => Worked(t, x)
      BY <1>6, <2>2, <2>3, <2>9
    <2>11. QED
      BY <2>1, <2>10
  <1>9. CASE Load(t)
    <2> DEFINE s == First(w.left)
               chosen == IF q.catalog THEN Selected(q) ELSE {}
               x == Loaded(w, s)
    <2>1. \/ CanLoad(s, q) /\ Reads(t, WithFits(Onward(x), MainFits(s, q)))
          \/ Refused(t)
          \/ Become(t, Ended(w, "failed"))
      BY <1>9 DEF Load
    <2>2. \/ Closes(t)
          \/ CanLoad(s, q) /\ work'[t] = WithFits(Onward(x), MainFits(s, q))
      BY <1>1, <2>1, Landing
    <2>3. w.pc = "load" /\ s \in w.left /\ w.left \subseteq Symbols
      BY <1>1, <1>9, FirstType DEF Load, Kept, Work
    <2>4. ASSUME CanLoad(s, q) PROVE chosen \subseteq Factors
      <3>1. q.catalog => catalog \in CatalogRecord /\ Selected(q) \subseteq catalog.declared
        BY <2>4, ExecutionAssumption DEF CanLoad, Sound, TypeOK
      <3>2. QED
        BY <3>1 DEF CatalogRecord
    <2>5. x = [w EXCEPT !.left = @ \ {s}, !.factors = @ \cup {s} \X chosen]
      BY DEF Loaded
    <2>6. q.catalog /\ q.scoring # {} => chosen = q.scoring
      BY DEF Selected
    <2> HIDE DEF chosen, x, s
    <2>7. x.left = w.left \ {s} /\ x.factors = w.factors \cup {s} \X chosen
      BY <1>1, <2>5 DEF Work
    <2>8. ASSUME CanLoad(s, q)
          PROVE  /\ x \in Work /\ x.id = w.id /\ x.pc = "load" /\ x.request = w.request
                 /\ x.halted = w.halted /\ x.signals = w.signals
      <3>1. x.left \in SUBSET Symbols /\ x.factors \in SUBSET (Symbols \X Factors)
        BY <1>1, <2>3, <2>4, <2>7, <2>8 DEF Work
      <3>2. x = [w EXCEPT !.left = x.left, !.factors = x.factors]
        BY <1>1, <2>5, <2>7
      <3>3. QED
        BY <1>1, <2>3, <3>1, <3>2 DEF Work
    <2>9. Index(w.pc) = 7
      BY <2>3, StageNumbers
    <2>10. ASSUME CanLoad(s, q)
           PROVE  LedgerAt(x, Reached(x), Made(w.id), Seen(w.id), Ordered(w.id),
                           Decided(w.id), Excluded(w.id))
      <3>1. Reached(x) = IF x.left # {} THEN 7 ELSE 8
        BY <2>8, <2>10, StageNumbers DEF Reached
      <3>2. LoadedAt(x, Reached(x)) = LoadedAt(w, 7) \cup {s}
        <4>1. LoadedAt(x, Reached(x)) = Symbols \ x.left
          BY <3>1 DEF LoadedAt
        <4>2. LoadedAt(w, 7) = Symbols \ w.left
          BY DEF LoadedAt
        <4>3. QED
          BY <2>3, <2>7, <4>1, <4>2
      <3>3. OrderedAt(x, Reached(x)) = {} /\ OrderedAt(w, 7) = {}
        BY <3>1 DEF OrderedAt
      <3>4. Stopped(x) <=> Stopped(w)
        BY <2>8, <2>10 DEF Stopped
      <3>5. q.catalog /\ q.scoring # {} =>
                x.factors = LoadedAt(x, Reached(x)) \X q.scoring
        <4>1. q.catalog /\ q.scoring # {} => w.factors = LoadedAt(w, 7) \X q.scoring
          BY <1>5, <2>9 DEF LedgerAt
        <4>2. QED
          BY <2>6, <2>7, <3>2, <4>1
      <3>6. Reached(x) \in {7, 8}
        BY <3>1
      <3> DEFINE made == Made(w.id)
                 seen == Seen(w.id)
                 ordered == Ordered(w.id)
                 decided == Decided(w.id)
                 excluded == Excluded(w.id)
      <3>7. /\ made = {} /\ seen = {} /\ ordered = {} /\ excluded = {}
            /\ \A d \in decided : d = "kill_switch_active" <=> Stopped(w)
        BY <1>5, <2>9, <3>3 DEF LedgerAt
      <3> HIDE DEF made, seen, ordered, decided, excluded
      <3>8. LedgerAt(x, Reached(x), made, seen, ordered, decided, excluded)
        BY <2>8, <2>10, <3>3, <3>4, <3>5, <3>6, <3>7 DEF LedgerAt
      <3>9. QED
        BY <3>8 DEF made, seen, ordered, decided, excluded
    <2>11. ASSUME CanLoad(s, q), work'[t] = WithFits(Onward(x), MainFits(s, q))
           PROVE  Worked(t, x)
      BY <1>6, <2>3, <2>8, <2>10, <2>11
    <2>12. QED
      BY <2>2, <2>11
  <1>10. QED
    BY <1>7, <1>8, <1>9

\* What a table holds of a run after rows of it, or of another, were added
LEMMA MadeGrows ==
    ASSUME NEW i, NEW new, factorRows' = factorRows \cup ({i} \X new)
    PROVE  Made(i)' = Made(i) \cup new /\ \A id : id # i => Made(id)' = Made(id)
  <1>1. \A x \in {i} \X new : x[1] = i /\ x[2] \in new
    OBVIOUS
  <1>2. \A y \in new : <<i, y>> \in {i} \X new
    OBVIOUS
  <1>3. Made(i)' = Made(i) \cup new
    <2>1. \A y : y \in Made(i)' <=> \E x \in factorRows' : x[1] = i /\ y = x[2]
      BY DEF Made
    <2>2. \A y : y \in Made(i) <=> \E x \in factorRows : x[1] = i /\ y = x[2]
      BY DEF Made
    <2>3. ASSUME NEW y \in Made(i)' PROVE y \in Made(i) \cup new
      BY <1>1, <2>1, <2>2, <2>3
    <2>4. ASSUME NEW y \in Made(i) \cup new PROVE y \in Made(i)'
      <3>1. CASE y \in Made(i)
        BY <2>1, <2>2, <3>1
      <3>2. CASE y \in new
        <4>1. <<i, y>> \in factorRows' /\ <<i, y>>[1] = i /\ <<i, y>>[2] = y
          BY <1>2, <3>2
        <4>2. QED
          BY <2>1, <4>1
      <3>3. QED
        BY <2>4, <3>1, <3>2
    <2>5. QED
      BY <2>3, <2>4
  <1>4. ASSUME NEW id, id # i PROVE Made(id)' = Made(id)
    <2>1. {x \in factorRows' : x[1] = id} = {x \in factorRows : x[1] = id}
      BY <1>1, <1>4
    <2>2. QED
      BY <2>1 DEF Made
  <1>5. QED
    BY <1>3, <1>4

LEMMA SeenGrows ==
    ASSUME NEW i, NEW new, usability' = usability \cup ({i} \X new)
    PROVE  Seen(i)' = Seen(i) \cup new /\ \A id : id # i => Seen(id)' = Seen(id)
  <1>1. \A x \in {i} \X new : x[1] = i /\ x[2] \in new
    OBVIOUS
  <1>2. \A y \in new : <<i, y>> \in {i} \X new
    OBVIOUS
  <1>3. Seen(i)' = Seen(i) \cup new
    <2>1. \A y : y \in Seen(i)' <=> \E x \in usability' : x[1] = i /\ y = x[2]
      BY DEF Seen
    <2>2. \A y : y \in Seen(i) <=> \E x \in usability : x[1] = i /\ y = x[2]
      BY DEF Seen
    <2>3. ASSUME NEW y \in Seen(i)' PROVE y \in Seen(i) \cup new
      BY <1>1, <2>1, <2>2, <2>3
    <2>4. ASSUME NEW y \in Seen(i) \cup new PROVE y \in Seen(i)'
      <3>1. CASE y \in Seen(i)
        BY <2>1, <2>2, <3>1
      <3>2. CASE y \in new
        <4>1. <<i, y>> \in usability' /\ <<i, y>>[1] = i /\ <<i, y>>[2] = y
          BY <1>2, <3>2
        <4>2. QED
          BY <2>1, <4>1
      <3>3. QED
        BY <2>4, <3>1, <3>2
    <2>5. QED
      BY <2>3, <2>4
  <1>4. ASSUME NEW id, id # i PROVE Seen(id)' = Seen(id)
    <2>1. {x \in usability' : x[1] = id} = {x \in usability : x[1] = id}
      BY <1>1, <1>4
    <2>2. QED
      BY <2>1 DEF Seen
  <1>5. QED
    BY <1>3, <1>4

LEMMA ExcludedGrows ==
    ASSUME NEW i, exclusions' = exclusions \cup {i}
    PROVE  Excluded(i)' = {i} /\ \A id : id # i => Excluded(id)' = Excluded(id)
  BY DEF Excluded

LEMMA OrderedGrows ==
    ASSUME NEW i, NEW s, NEW decision, NEW S, orders \in Seq(S),
           orders' = Append(orders, [run |-> i, symbol |-> s, decision |-> decision])
    PROVE  /\ DOMAIN orders' = DOMAIN orders \cup {Len(orders) + 1}
           /\ Len(orders) + 1 \notin DOMAIN orders
           /\ \A k \in DOMAIN orders : orders'[k] = orders[k]
           /\ orders'[Len(orders) + 1] = [run |-> i, symbol |-> s, decision |-> decision]
           /\ Ordered(i)' = Ordered(i) \cup {s}
           /\ Decided(i)' = Decided(i) \cup {decision}
           /\ \A id : id # i =>
                 Ordered(id)' = Ordered(id) /\ Decided(id)' = Decided(id)
  <1> DEFINE n == Len(orders) + 1
             o == [run |-> i, symbol |-> s, decision |-> decision]
  <1>1. DOMAIN orders = 1..Len(orders) /\ Len(orders) \in Nat
    OBVIOUS
  <1>2. /\ DOMAIN orders' = 1..n /\ orders'[n] = o
        /\ \A k \in 1..Len(orders) : orders'[k] = orders[k]
    BY <1>1
  <1>3. DOMAIN orders' = DOMAIN orders \cup {n} /\ n \notin DOMAIN orders
    BY <1>1, <1>2
  <1>4. o.run = i /\ o.symbol = s /\ o.decision = decision
    OBVIOUS
  <1> HIDE DEF n, o
  <1>5. \A k \in DOMAIN orders : orders'[k] = orders[k]
    BY <1>1, <1>2
  <1>6. OrdersOf(i)' = OrdersOf(i) \cup {n} /\ n \notin OrdersOf(i)
    BY <1>2, <1>3, <1>4, <1>5 DEF OrdersOf
  <1>7. \A id : id # i => OrdersOf(id)' = OrdersOf(id)
    BY <1>2, <1>3, <1>4, <1>5 DEF OrdersOf
  <1>8. \A id : OrdersOf(id) \subseteq DOMAIN orders
    BY DEF OrdersOf
  <1>9. Ordered(i)' = Ordered(i) \cup {s}
    BY <1>2, <1>4, <1>5, <1>6, <1>8 DEF Ordered
  <1>10. Decided(i)' = Decided(i) \cup {decision}
    BY <1>2, <1>4, <1>5, <1>6, <1>8 DEF Decided
  <1>11. \A id : id # i => Ordered(id)' = Ordered(id) /\ Decided(id)' = Decided(id)
    BY <1>5, <1>7, <1>8 DEF Ordered, Decided
  <1>12. QED
    BY <1>2, <1>3, <1>5, <1>9, <1>10, <1>11 DEF n, o

\* The stages that write one of these tables
LEMMA WritingWorks ==
    ASSUME Sound, LedgersKept, NEW t \in Threads,
           Materialize(t) \/ Usability(t) \/ Order(t) \/ Exclude(t)
    PROVE  Closes(t) \/ \E x : Worked(t, x)
  <1>0. PICK w : w = work[t]
    OBVIOUS
  <1> USE <1>0
  <1> DEFINE q == w.request
             made == Made(w.id)
             seen == Seen(w.id)
             ordered == Ordered(w.id)
             decided == Decided(w.id)
             excluded == Excluded(w.id)
             k == Index(w.pc)
  <1>1. work \in [Threads -> Work] /\ w \in Work /\ Kept(w, calls)
    BY DEF Sound, TypeOK, WorkKept
  <1>2. w.pc \in {"materialize", "usability", "order", "exclude"}
    BY DEF Materialize, Usability, Order, Exclude
  <1>3. LedgerAt(w, k, made, seen, ordered, decided, excluded)
    BY <1>2 DEF LedgersKept, Ledger
  <1>4. w.pc \in StageSet \ {"idle", "succeed", "settle"}
    BY <1>2, StageNames
  <1>5. CASE Materialize(t)
    <2>1. \/ Closes(t)
          \/ /\ work'[t] = Onward(w)
             /\ factorRows' = factorRows \cup ({w.id} \X w.factors)
      BY <1>1, <1>5, Landing DEF Materialize, Commits
    <2>2. k = 10 /\ Reached(w) = 11
      BY <1>5, StageNumbers DEF Materialize, Reached
    <2>3. ASSUME factorRows' = factorRows \cup ({w.id} \X w.factors),
                 work'[t] = Onward(w)
          PROVE  Worked(t, w)
      <3>1. UNCHANGED <<usability, orders, exclusions>>
        BY <1>5 DEF Materialize
      <3>2. /\ Made(w.id)' = made \cup w.factors /\ Seen(w.id)' = seen
            /\ Ordered(w.id)' = ordered /\ Decided(w.id)' = decided
            /\ Excluded(w.id)' = excluded
        BY <2>3, <3>1, MadeGrows, TablesKept
      <3> HIDE DEF made, seen, ordered, decided, excluded, k
      <3>3. LoadedAt(w, 11) = LoadedAt(w, 10) /\ OrderedAt(w, 11) = OrderedAt(w, 10)
        BY DEF LoadedAt, OrderedAt
      <3>4. /\ made = {} /\ seen = {} /\ ordered = OrderedAt(w, 11) /\ excluded = {}
            /\ q.catalog /\ q.scoring # {} =>
                  w.factors = LoadedAt(w, 11) \X q.scoring
            /\ \A d \in decided : d = "kill_switch_active" <=> Stopped(w)
        BY <1>3, <2>2, <3>3 DEF LedgerAt
      <3>5. made \cup w.factors = w.factors
        BY <3>4
      <3>6. w.pc = "materialize"
        BY <1>5 DEF Materialize
      <3>7. LedgerAt(w, 11, w.factors, seen, ordered, decided, excluded)
        BY <3>4, <3>6 DEF LedgerAt
      <3>8. LedgerAt(w, Reached(w), Made(w.id)', Seen(w.id)', Ordered(w.id)',
                     Decided(w.id)', Excluded(w.id)')
        BY <2>2, <3>2, <3>5, <3>7
      <3>9. QED
        BY <1>1, <1>4, <2>3, <3>8 DEF Worked
    <2>4. QED
      BY <2>1, <2>3
  <1>6. CASE Usability(t)
    <2> DEFINE new == {f[2] : f \in w.factors}
    <2>1. \/ Closes(t)
          \/ /\ work'[t] = Onward(w)
             /\ usability' = usability \cup ({w.id} \X new)
      BY <1>1, <1>6, Landing DEF Usability, Commits, Usable
    <2>2. k = 11 /\ Reached(w) = 12
      BY <1>6, StageNumbers DEF Usability, Reached
    <2>3. ASSUME usability' = usability \cup ({w.id} \X new), work'[t] = Onward(w)
          PROVE  Worked(t, w)
      <3>1. UNCHANGED <<factorRows, orders, exclusions>>
        BY <1>6 DEF Usability
      <3>2. /\ Seen(w.id)' = seen \cup new /\ Made(w.id)' = made
            /\ Ordered(w.id)' = ordered /\ Decided(w.id)' = decided
            /\ Excluded(w.id)' = excluded
        <4> HIDE DEF new
        <4>1. QED
          BY <2>3, <3>1, SeenGrows, TablesKept
      <3> HIDE DEF made, seen, ordered, decided, excluded, k
      <3>3. LoadedAt(w, 12) = LoadedAt(w, 11) /\ OrderedAt(w, 12) = OrderedAt(w, 11)
        BY DEF LoadedAt, OrderedAt
      <3>4. /\ made = w.factors /\ seen = {} /\ ordered = OrderedAt(w, 12)
            /\ excluded = {}
            /\ q.catalog /\ q.scoring # {} =>
                  w.factors = LoadedAt(w, 12) \X q.scoring
            /\ \A d \in decided : d = "kill_switch_active" <=> Stopped(w)
        BY <1>3, <2>2, <3>3 DEF LedgerAt
      <3>5. seen \cup new = new
        BY <3>4
      <3>6. w.pc = "usability"
        BY <1>6 DEF Usability
      <3>7. LedgerAt(w, 12, made, new, ordered, decided, excluded)
        BY <3>4, <3>6 DEF LedgerAt
      <3>8. LedgerAt(w, Reached(w), Made(w.id)', Seen(w.id)', Ordered(w.id)',
                     Decided(w.id)', Excluded(w.id)')
        BY <2>2, <3>2, <3>5, <3>7
      <3>9. QED
        BY <1>1, <1>4, <2>3, <3>8 DEF Worked
    <2>4. QED
      BY <2>1, <2>3
  <1>7. CASE Exclude(t)
    <2>1. \/ Closes(t)
          \/ work'[t] = Onward(w) /\ exclusions' = exclusions \cup {w.id}
      BY <1>1, <1>7, Landing DEF Exclude, Commits
    <2>2. k = 15 /\ Reached(w) = 16 /\ w.pc = "exclude"
      BY <1>7, StageNumbers DEF Exclude, Reached
    <2>3. ASSUME exclusions' = exclusions \cup {w.id}, work'[t] = Onward(w),
                 w.request.adaptive
          PROVE  Worked(t, w)
      <3>1. UNCHANGED <<factorRows, usability, orders>>
        BY <1>7 DEF Exclude
      <3>2. /\ Excluded(w.id)' = {w.id} /\ Made(w.id)' = made /\ Seen(w.id)' = seen
            /\ Ordered(w.id)' = ordered /\ Decided(w.id)' = decided
        BY <2>3, <3>1, ExcludedGrows, TablesKept
      <3> HIDE DEF made, seen, ordered, decided, excluded, k
      <3>3. LoadedAt(w, 16) = LoadedAt(w, 15) /\ OrderedAt(w, 16) = OrderedAt(w, 15)
        BY DEF LoadedAt, OrderedAt
      <3>4. /\ made = w.factors /\ seen = {f[2] : f \in w.factors}
            /\ ordered = OrderedAt(w, 16)
            /\ q.catalog /\ q.scoring # {} =>
                  w.factors = LoadedAt(w, 16) \X q.scoring
            /\ \A d \in decided : d = "kill_switch_active" <=> Stopped(w)
        BY <1>3, <2>2, <3>3 DEF LedgerAt
      <3>5. LedgerAt(w, 16, made, seen, ordered, decided, {w.id})
        BY <2>2, <2>3, <3>4 DEF LedgerAt
      <3>6. LedgerAt(w, Reached(w), Made(w.id)', Seen(w.id)', Ordered(w.id)',
                     Decided(w.id)', Excluded(w.id)')
        BY <2>2, <3>2, <3>5
      <3>7. QED
        BY <1>1, <1>4, <2>3, <3>6 DEF Worked
    <2>4. w.request.adaptive
      BY <1>3, <2>2 DEF LedgerAt
    <2>5. QED
      BY <2>1, <2>3, <2>4
  <1>8. CASE Order(t)
    <2> DEFINE s == First(w.left)
               x == [w EXCEPT !.left = @ \ {s}]
    <2>1. \/ Closes(t)
          \/ /\ work'[t] = Onward(x)
             /\ \E decision \in Decisions(w) :
                    orders' = Append(orders, [run |-> w.id, symbol |-> s,
                                              decision |-> decision])
      BY <1>1, <1>8, Landing DEF Order, Commits
    <2>2. w.pc = "order" /\ k = 14 /\ s \in w.left
      BY <1>1, <1>8, StageNumbers, FirstType DEF Order, Kept
    <2> HIDE DEF s
    <2>3. /\ x \in Work /\ x.id = w.id /\ x.pc = "order" /\ x.request = w.request
          /\ x.factors = w.factors /\ x.signals = w.signals /\ x.halted = w.halted
          /\ x.left = w.left \ {s}
      BY <1>1, <2>2 DEF Work
    <2> HIDE DEF x
    <2>4. Reached(x) = IF x.left # {} THEN 14 ELSE 15
      BY <2>3, StageNumbers DEF Reached
    <2>5. ASSUME NEW decision \in Decisions(w), work'[t] = Onward(x),
                 orders' = Append(orders, [run |-> w.id, symbol |-> s,
                                           decision |-> decision])
          PROVE  Worked(t, x)
      <3>1. UNCHANGED <<factorRows, usability, exclusions>>
        BY <1>8 DEF Order
      <3>2. orders \in Seq([run : 1..MaxCalls, symbol : Symbols, decision : OrderStates])
        BY DEF Sound, TypeOK
      <3>3. /\ Ordered(w.id)' = ordered \cup {s} /\ Decided(w.id)' = decided \cup {decision}
            /\ Made(w.id)' = made /\ Seen(w.id)' = seen /\ Excluded(w.id)' = excluded
        BY <2>5, <3>1, <3>2, OrderedGrows, TablesKept
      <3>4. decision = "kill_switch_active" <=> Stopped(w)
        <4>1. w.request.route # "research_only" /\ w.request.route \in Routes
          <5>1. w.request \in RunRequest
            BY <1>1, <2>2, RequestTypes DEF Kept
          <5>2. QED
            BY <1>3, <2>2, <5>1 DEF LedgerAt, RunRequest
        <4>2. QED
          BY <2>5, <4>1 DEF Decisions, Stopped, Halted, Routes
      <3> HIDE DEF made, seen, ordered, decided, excluded, k
      <3>5. Reached(x) \in {14, 15}
        BY <2>4
      <3>6. LoadedAt(x, Reached(x)) = Symbols /\ LoadedAt(w, 14) = Symbols
        BY <3>5 DEF LoadedAt
      <3>7. /\ made = w.factors /\ seen = {f[2] : f \in w.factors}
            /\ w.left \subseteq w.signals /\ w.request.route # "research_only"
            /\ ordered = OrderedAt(w, 14) /\ excluded = {}
            /\ q.catalog /\ q.scoring # {} => w.factors = Symbols \X q.scoring
            /\ \A d \in decided : d = "kill_switch_active" <=> Stopped(w)
        BY <1>3, <2>2, <3>6 DEF LedgerAt
      <3>8. OrderedAt(x, Reached(x)) = ordered \cup {s}
        <4>1. ordered = w.signals \ w.left
          BY <3>7 DEF OrderedAt
        <4>2. OrderedAt(x, Reached(x)) = w.signals \ x.left
          BY <2>3, <2>4, <3>7 DEF OrderedAt
        <4>3. QED
          BY <2>2, <2>3, <3>7, <4>1, <4>2
      <3>9. Stopped(x) <=> Stopped(w)
        BY <2>3 DEF Stopped
      <3>10. LedgerAt(x, Reached(x), made, seen, ordered \cup {s},
                      decided \cup {decision}, excluded)
        BY <2>3, <3>4, <3>5, <3>6, <3>7, <3>8, <3>9 DEF LedgerAt
      <3>11. LedgerAt(x, Reached(x), Made(x.id)', Seen(x.id)', Ordered(x.id)',
                      Decided(x.id)', Excluded(x.id)')
        BY <2>3, <3>3, <3>10
      <3>12. x.pc \in StageSet \ {"idle", "succeed", "settle"}
        BY <1>4, <2>2, <2>3
      <3>13. QED
        BY <2>3, <2>5, <3>11, <3>12 DEF Worked
    <2>6. QED
      BY <2>1, <2>5
  <1>9. QED
    BY <1>5, <1>6, <1>7, <1>8

-----------------------------------------------------------------------------
(***************************************************************************)
(* The accounts from step to step.                                         *)
(***************************************************************************)

LEMMA StepCloses ==
    ASSUME Sound, LedgersKept, NEW t \in Threads, Step(t)
    PROVE  /\ work[t].pc # "idle"
           /\ Closes(t) \/ \E x : Worked(t, x)
           /\ \A u \in Threads \ {t} : work'[u] = work[u]
           /\ work'[t].pc # "idle" => work'[t].id = work[t].id
  <1>1. work[t].pc # "idle"
    BY DEF Step, Start, Context, Profile, Adaptive, Peers, Load, Backtest,
       Validate, Materialize, Usability, PeerRun, Dispatch, Order, Exclude,
       Succeed, Settle
  <1>2. work \in [Threads -> Work]
    BY DEF Sound, TypeOK
  <1>3. Closes(t) \/ \E x : Worked(t, x)
    <2>1. CASE Succeed(t)
      <3>1. Reads(t, [NoWork EXCEPT !.outcome = "succeeded"])
        BY <2>1 DEF Succeed, Commits, Reads
      <3>2. [NoWork EXCEPT !.outcome = "succeeded"].pc = "idle"
        BY DEF NoWork
      <3>3. QED
        BY <1>2, <3>1, <3>2, Landing DEF Closes
    <2>2. CASE Settle(t)
      <3>1. Become(t, [NoWork EXCEPT !.outcome = work[t].outcome])
        BY <2>2 DEF Settle
      <3>2. [NoWork EXCEPT !.outcome = work[t].outcome].pc = "idle"
        BY DEF NoWork
      <3>3. QED
        BY <1>2, <3>1, <3>2, Landing DEF Closes
    <2>3. QED
      BY <2>1, <2>2, QuietWorks, TakingWorks, WritingWorks DEF Step
  <1>4. \A u \in Threads \ {t} : work'[u] = work[u]
    BY <1>2, StepMoves DEF Moves, Sound
  <1>5. ASSUME NEW x, Worked(t, x) PROVE work'[t].id = work[t].id
    <2>1. x \in Work /\ x.pc \in StageSet \ {"succeed", "settle"} /\ x.id = work[t].id
      BY <1>5 DEF Worked
    <2>2. Onward(x).id = x.id
      BY <2>1, OnwardStage DEF Work
    <2>3. \A fits : WithFits(Onward(x), fits).id = x.id
      <3>1. Onward(x) = [x EXCEPT !.pc = Onward(x).pc, !.fits = {}]
        BY <2>1, OnwardStage
      <3>2. QED
        BY <2>1, <2>2, <3>1 DEF WithFits, Work
    <2>4. QED
      BY <1>5, <2>1, <2>2, <2>3 DEF Worked
  <1>6. QED
    BY <1>1, <1>3, <1>4, <1>5 DEF Closes

\* The thread's own run
LEMMA OwnLedger ==
    ASSUME NEW t \in Threads, NEW x, Worked(t, x), work'[t].id = work[t].id
    PROVE  Ledger(work[t], Index(work[t].pc))'
  <1>1. PICK v : v = work'[t]
    OBVIOUS
  <1>2. /\ x \in Work /\ x.pc \in StageSet \ {"idle", "succeed", "settle"}
        /\ x.id = v.id
        /\ \E fits : v = Onward(x) \/ v = WithFits(Onward(x), fits)
    BY <1>1 DEF Worked
  <1>3. PICK made, seen, ordered, decided, excluded :
            /\ made = Made(v.id)' /\ seen = Seen(v.id)' /\ ordered = Ordered(v.id)'
            /\ decided = Decided(v.id)' /\ excluded = Excluded(v.id)'
    OBVIOUS
  <1>4. LedgerAt(x, Reached(x), made, seen, ordered, decided, excluded)
    BY <1>2, <1>3 DEF Worked
  <1>5. LedgerAt(v, Index(v.pc), made, seen, ordered, decided, excluded)
    BY <1>2, <1>4, LedgerOnward
  <1>6. LedgerAt(v, Index(v.pc), Made(v.id)', Seen(v.id)', Ordered(v.id)',
                 Decided(v.id)', Excluded(v.id)')
    BY <1>3, <1>5
  <1>7. QED
    BY <1>1, <1>6 DEF Ledger, Made, Seen, Ordered, Decided, OrdersOf, Excluded

\* A stage leaves alone what other runs have.
LEMMA OtherRuns ==
    ASSUME Sound, NEW t \in Threads, Step(t), NEW id, id # work[t].id
    PROVE  /\ Made(id)' = Made(id) /\ Seen(id)' = Seen(id)
           /\ Ordered(id)' = Ordered(id) /\ Decided(id)' = Decided(id)
           /\ Excluded(id)' = Excluded(id)
           /\ id \in DOMAIN rows' <=> id \in DOMAIN rows
           /\ id \in DOMAIN rows => rows'[id] = rows[id]
  <1>1. PICK w : w = work[t]
    OBVIOUS
  <1> USE <1>1
  <1>2. Made(id)' = Made(id)
    <2>1. UNCHANGED factorRows \/ factorRows' = factorRows \cup ({w.id} \X w.factors)
      BY StepWrites
    <2>2. QED
      BY <2>1, TablesKept, MadeGrows
  <1>3. Seen(id)' = Seen(id)
    <2> DEFINE new == {f[2] : f \in w.factors}
    <2>1. UNCHANGED usability \/ usability' = usability \cup ({w.id} \X new)
      BY StepWrites DEF Usable
    <2> HIDE DEF new
    <2>2. QED
      BY <2>1, TablesKept, SeenGrows
  <1>4. Ordered(id)' = Ordered(id) /\ Decided(id)' = Decided(id)
    <2>1. \/ UNCHANGED orders
          \/ \E decision \in Decisions(w) :
                orders' = Append(orders, [run |-> w.id, symbol |-> First(w.left),
                                          decision |-> decision])
      BY StepWrites
    <2>2. orders \in Seq([run : 1..MaxCalls, symbol : Symbols, decision : OrderStates])
      BY DEF Sound, TypeOK
    <2>3. ASSUME NEW decision,
                 orders' = Append(orders, [run |-> w.id, symbol |-> First(w.left),
                                           decision |-> decision])
          PROVE  Ordered(id)' = Ordered(id) /\ Decided(id)' = Decided(id)
      BY <2>2, <2>3, OrderedGrows
    <2>4. QED
      BY <2>1, <2>3, TablesKept
  <1>5. Excluded(id)' = Excluded(id)
    BY StepWrites, TablesKept, ExcludedGrows
  <1>6. /\ id \in DOMAIN rows' <=> id \in DOMAIN rows
        /\ id \in DOMAIN rows => rows'[id] = rows[id]
    <2>1. \/ rows' = rows
          \/ WriteRow(w, "running")
          \/ WriteRow(w, "succeeded")
          \/ WriteRow([w EXCEPT !.signals = {}], w.outcome)
      BY StepWrites
    <2>2. [w EXCEPT !.signals = {}].id = w.id
      BY DEF Sound, TypeOK, Work
    <2>3. QED
      BY <2>1, <2>2 DEF WriteRow
  <1>7. QED
    BY <1>2, <1>3, <1>4, <1>5, <1>6

\* A run that is about to be stored as succeeded owes nothing.
LEMMA LastLedger ==
    ASSUME NEW w, NEW made, NEW seen, NEW ordered, NEW decided, NEW excluded,
           LedgerAt(w, 16, made, seen, ordered, decided, excluded)
    PROVE  PaidUp(w.id, Row(w, "succeeded"), made, seen, ordered, decided, excluded)
  <1>1. LoadedAt(w, 16) = Symbols
    BY DEF LoadedAt
  <1>2. OrderedAt(w, 16) =
            IF w.request.route = "research_only" THEN {} ELSE w.signals
    BY DEF OrderedAt
  <1>3. /\ made = w.factors /\ seen = {f[2] : f \in w.factors}
        /\ w.request.catalog /\ w.request.scoring # {} =>
              w.factors = Symbols \X w.request.scoring
        /\ ordered = OrderedAt(w, 16)
        /\ \A d \in decided : d = "kill_switch_active" <=> Stopped(w)
        /\ excluded = IF w.request.adaptive THEN {w.id} ELSE {}
    BY <1>1 DEF LedgerAt
  <1>4. Row(w, "succeeded").request = w.request
        /\ Row(w, "succeeded").signals = w.signals
    BY DEF Row
  <1>5. QED
    BY <1>2, <1>3, <1>4 DEF PaidUp

LEMMA StepAccounts ==
    ASSUME Sound, Accounts, NEW t \in Threads, Step(t)
    PROVE  Accounts'
  <1>1. PICK w : w = work[t]
    OBVIOUS
  <1> USE <1>1
  <1>2. RunsKnown /\ RunsApart /\ OrdersApart /\ LedgersKept /\ DebtsPaid
    BY DEF Accounts
  <1>3. /\ w.pc # "idle"
        /\ Closes(t) \/ \E x : Worked(t, x)
        /\ \A u \in Threads \ {t} : work'[u] = work[u]
        /\ work'[t].pc # "idle" => work'[t].id = w.id
    BY <1>2, StepCloses
  <1>4. calls' = calls
    BY StepLeaves
  <1>5. w.id \in 1..calls /\ w \in Work /\ Kept(w, calls)
    <2>1. w \in Work /\ Kept(w, calls)
      BY DEF Sound, TypeOK, WorkKept
    <2>2. QED
      BY <1>3, <2>1 DEF Kept
  <1>6. orders \in Seq([run : 1..MaxCalls, symbol : Symbols, decision : OrderStates])
    BY DEF Sound, TypeOK
  <1>7. RunsKnown'
    <2>1. \A x \in factorRows' : x[1] \in 1..calls
      <3>1. factorRows' = factorRows \/ factorRows' = factorRows \cup ({w.id} \X w.factors)
        BY StepWrites
      <3>2. \A x \in {w.id} \X w.factors : x[1] = w.id
        OBVIOUS
      <3>3. QED
        BY <1>2, <1>5, <3>1, <3>2 DEF RunsKnown
    <2>2. \A x \in usability' : x[1] \in 1..calls
      <3> DEFINE new == {f[2] : f \in w.factors}
      <3>1. usability' = usability \/ usability' = usability \cup ({w.id} \X new)
        BY StepWrites DEF Usable
      <3> HIDE DEF new
      <3>2. \A x \in {w.id} \X new : x[1] = w.id
        OBVIOUS
      <3>3. QED
        BY <1>2, <1>5, <3>1, <3>2 DEF RunsKnown
    <2>3. \A i \in DOMAIN orders' : orders'[i].run \in 1..calls
      <3>1. ASSUME NEW decision,
                   orders' = Append(orders, [run |-> w.id, symbol |-> First(w.left),
                                             decision |-> decision])
            PROVE  \A i \in DOMAIN orders' : orders'[i].run \in 1..calls
        <4>1. /\ DOMAIN orders' = DOMAIN orders \cup {Len(orders) + 1}
              /\ \A k \in DOMAIN orders : orders'[k] = orders[k]
              /\ orders'[Len(orders) + 1].run = w.id
          BY <1>6, <3>1, OrderedGrows
        <4>2. QED
          BY <1>2, <1>5, <4>1 DEF RunsKnown
      <3>2. \/ orders' = orders
            \/ \E decision \in Decisions(w) :
                  orders' = Append(orders, [run |-> w.id, symbol |-> First(w.left),
                                            decision |-> decision])
        BY StepWrites
      <3>3. QED
        BY <1>2, <3>1, <3>2 DEF RunsKnown
    <2>4. exclusions' \subseteq 1..calls
      BY <1>2, <1>5, StepWrites DEF RunsKnown
    <2>5. DOMAIN rows' \subseteq 1..calls
      <3>1. \/ rows' = rows
            \/ WriteRow(w, "running")
            \/ WriteRow(w, "succeeded")
            \/ WriteRow([w EXCEPT !.signals = {}], w.outcome)
        BY StepWrites
      <3>2. [w EXCEPT !.signals = {}].id = w.id
        BY <1>5 DEF Work
      <3>3. rows' = rows \/ DOMAIN rows' = DOMAIN rows \cup {w.id}
        BY <3>1, <3>2 DEF WriteRow
      <3>4. QED
        BY <1>2, <1>5, <3>3 DEF RunsKnown
    <2>6. QED
      BY <1>4, <2>1, <2>2, <2>3, <2>4, <2>5 DEF RunsKnown
  <1>8. RunsApart'
    BY <1>2, <1>3 DEF RunsApart
  <1>9. OrdersApart'
    <2>1. ASSUME w.pc = "order", NEW decision,
                 orders' = Append(orders, [run |-> w.id, symbol |-> First(w.left),
                                           decision |-> decision])
          PROVE  OrdersApart'
      <3>1. /\ DOMAIN orders' = DOMAIN orders \cup {Len(orders) + 1}
            /\ \A k \in DOMAIN orders : orders'[k] = orders[k]
            /\ orders'[Len(orders) + 1].run = w.id
            /\ orders'[Len(orders) + 1].symbol = First(w.left)
        BY <1>6, <2>1, OrderedGrows
      <3>2. First(w.left) \in w.left
        BY <1>5, <2>1, FirstType DEF Kept
      <3>3. Ledger(w, 14)
        BY <1>2, <2>1, StageNumbers DEF LedgersKept
      <3>4. Ordered(w.id) = OrderedAt(w, 14)
        BY <3>3 DEF Ledger, LedgerAt
      <3>5. First(w.left) \notin Ordered(w.id)
        BY <3>2, <3>4 DEF OrderedAt
      <3>6. \A k \in DOMAIN orders : ~(orders[k].run = w.id /\ orders[k].symbol = First(w.left))
        BY <3>5 DEF Ordered, OrdersOf
      <3>7. QED
        BY <1>2, <3>1, <3>6 DEF OrdersApart
    <2>2. \/ orders' = orders
          \/ /\ w.pc = "order"
             /\ \E decision \in Decisions(w) :
                  orders' = Append(orders, [run |-> w.id, symbol |-> First(w.left),
                                            decision |-> decision])
      BY StepWrites
    <2>3. QED
      BY <1>2, <2>1, <2>2 DEF OrdersApart
  <1>10. LedgersKept'
    <2> SUFFICES ASSUME NEW u \in Threads, work'[u].pc \notin {"idle", "settle"}
                 PROVE  Ledger(work[u], Index(work[u].pc))'
      BY DEF LedgersKept
    <2>1. CASE u = t
      BY <1>3, <2>1, OwnLedger DEF Closes
    <2>2. CASE u # t
      <3>1. PICK v : v = work[u]
        OBVIOUS
      <3>2. work'[u] = v /\ v.pc \notin {"idle", "settle"} /\ v.id # w.id
        BY <1>2, <1>3, <2>2, <3>1 DEF RunsApart
      <3>3. /\ Made(v.id)' = Made(v.id) /\ Seen(v.id)' = Seen(v.id)
            /\ Ordered(v.id)' = Ordered(v.id) /\ Decided(v.id)' = Decided(v.id)
            /\ Excluded(v.id)' = Excluded(v.id)
        BY <3>2, OtherRuns
      <3>4. LedgerAt(v, Index(v.pc), Made(v.id), Seen(v.id), Ordered(v.id),
                     Decided(v.id), Excluded(v.id))
        BY <1>2, <3>1, <3>2 DEF LedgersKept, Ledger
      <3>5. LedgerAt(v, Index(v.pc), Made(v.id)', Seen(v.id)', Ordered(v.id)',
                     Decided(v.id)', Excluded(v.id)')
        BY <3>3, <3>4
      <3>6. QED
        BY <3>2, <3>5 DEF Ledger, Made, Seen, Ordered, Decided, OrdersOf, Excluded
    <2>3. QED
      BY <2>1, <2>2
  <1>11. DebtsPaid'
    <2> SUFFICES ASSUME NEW id \in DOMAIN rows', rows'[id].status = "succeeded"
                 PROVE  /\ PaidUp(id, rows'[id], Made(id)', Seen(id)', Ordered(id)',
                                  Decided(id)', Excluded(id)')
                        /\ \A u \in Threads :
                              work'[u].pc \notin {"idle", "settle"} => work'[u].id # id
      BY DEF DebtsPaid
    <2>1. CASE id # w.id
      <3>1. /\ Made(id)' = Made(id) /\ Seen(id)' = Seen(id)
            /\ Ordered(id)' = Ordered(id) /\ Decided(id)' = Decided(id)
            /\ Excluded(id)' = Excluded(id)
            /\ id \in DOMAIN rows /\ rows'[id] = rows[id]
        BY <2>1, OtherRuns
      <3>2. /\ PaidUp(id, rows[id], Made(id), Seen(id), Ordered(id), Decided(id),
                      Excluded(id))
            /\ \A u \in Threads :
                  work[u].pc \notin {"idle", "settle"} => work[u].id # id
        BY <1>2, <3>1 DEF DebtsPaid
      <3>3. QED
        BY <1>3, <2>1, <3>1, <3>2
    <2>2. CASE id = w.id
      <3>1. \A u \in Threads \ {t} : work'[u].pc # "idle" => work'[u].id # id
        BY <1>2, <1>3, <2>2 DEF RunsApart
      <3>2. w.pc \notin {"idle", "settle"} =>
                ~(id \in DOMAIN rows /\ rows[id].status = "succeeded")
        BY <1>2, <2>2 DEF DebtsPaid
      <3>3. CASE Settle(t)
        <4>1. w.pc = "settle" /\ w.outcome \in {"rejected", "failed"}
          BY <1>5, <3>3 DEF Settle, Kept
        <4>2. /\ UNCHANGED <<factorRows, usability, orders, exclusions>>
              /\ work'[t].pc = "idle"
          <5>1. UNCHANGED outputs /\ Become(t, [NoWork EXCEPT !.outcome = w.outcome])
            BY <3>3 DEF Settle
          <5>2. [NoWork EXCEPT !.outcome = w.outcome].pc = "idle"
            BY DEF NoWork
          <5>3. work'[t] = [NoWork EXCEPT !.outcome = w.outcome]
            BY <5>1 DEF Become, Sound, TypeOK
          <5>4. QED
            BY <5>1, <5>2, <5>3 DEF outputs
        <4>3. rows' = rows
          <5>1. rows' = rows \/ WriteRow([w EXCEPT !.signals = {}], w.outcome)
            BY <3>3 DEF Settle
          <5>2. [w EXCEPT !.signals = {}].id = w.id
            BY <1>5 DEF Work
          <5>3. WriteRow([w EXCEPT !.signals = {}], w.outcome) =>
                    rows'[id].status = w.outcome
            BY <2>2, <5>2 DEF WriteRow, Row
          <5>4. QED
            BY <4>1, <5>1, <5>3
        <4>4. PaidUp(id, rows[id], Made(id), Seen(id), Ordered(id), Decided(id),
                     Excluded(id))
          BY <1>2, <4>3 DEF DebtsPaid
        <4>5. QED
          BY <3>1, <4>2, <4>3, <4>4, TablesKept
      <3>4. CASE Succeed(t)
        <4>1. w.pc = "succeed" /\ UNCHANGED <<factorRows, usability, orders, exclusions>>
          BY <3>4 DEF Succeed, outputs
        <4>2. WriteRow(w, "succeeded") /\ work'[t].pc \in {"idle", "settle"}
          <5>1. rows' = rows \/ WriteRow(w, "succeeded")
            BY <3>4 DEF Succeed, Commits
          <5>2. \/ Become(t, [NoWork EXCEPT !.outcome = "succeeded"])
                \/ Become(t, Ended(w, "failed"))
            BY <3>4 DEF Succeed, Commits
          <5>3. /\ [NoWork EXCEPT !.outcome = "succeeded"].pc = "idle"
                /\ Ended(w, "failed").pc = "settle"
            BY <1>5 DEF NoWork, Ended, Work
          <5>4. work'[t].pc \in {"idle", "settle"}
            BY <5>2, <5>3 DEF Become, Sound, TypeOK
          <5>5. QED
            BY <3>2, <4>1, <5>1, <5>4
        <4>3. rows'[id] = Row(w, "succeeded")
          BY <2>2, <4>2 DEF WriteRow
        <4>4. LedgerAt(w, 16, Made(id), Seen(id), Ordered(id), Decided(id), Excluded(id))
          BY <1>2, <2>2, <4>1, StageNumbers DEF LedgersKept, Ledger
        <4>5. PaidUp(id, Row(w, "succeeded"), Made(id), Seen(id), Ordered(id),
                     Decided(id), Excluded(id))
          BY <2>2, <4>4, LastLedger
        <4>6. QED
          BY <3>1, <4>1, <4>2, <4>3, <4>5, TablesKept
      <3>5. CASE ~Settle(t) /\ ~Succeed(t)
        <4>1. w.pc # "settle" /\ (rows' = rows \/ WriteRow(w, "running"))
          BY <3>5 DEF Step, Start, Context, Profile, Adaptive, Peers, Load, Backtest,
             Validate, Materialize, Usability, PeerRun, Dispatch, Order, Exclude,
             Commits
        <4>2. WriteRow(w, "running") => rows'[id].status = "running"
          BY <2>2 DEF WriteRow, Row
        <4>3. QED
          <5>1. w.pc \notin {"idle", "settle"}
            BY <1>3, <4>1
          <5>2. FALSE
            BY <3>2, <4>1, <4>2, <5>1
          <5>3. QED
            BY <5>2
      <3>6. QED
        BY <3>3, <3>4, <3>5
    <2>3. QED
      BY <2>1, <2>2
  <1>12. QED
    BY <1>7, <1>8, <1>9, <1>10, <1>11 DEF Accounts

LEMMA PostAccounts ==
    ASSUME Sound, Accounts, NEW t \in Threads, NEW q \in Asks[t], Post(t, q)
    PROVE  Accounts'
  <1> DEFINE v == [NoWork EXCEPT !.pc = "start", !.id = calls + 1, !.request = q]
  <1>1. RunsKnown /\ RunsApart /\ OrdersApart /\ LedgersKept /\ DebtsPaid
    BY DEF Accounts
  <1>2. UNCHANGED <<rows, factorRows, usability, orders, exclusions>>
    BY DEF Post, outputs
  <1>3. calls' = calls + 1 /\ calls \in Nat /\ work[t] = NoWork
    BY ExecutionAssumption DEF Post, Sound, TypeOK
  <1>4. /\ work'[t] = v
        /\ \A u \in Threads \ {t} : work'[u] = work[u]
    BY DEF Post, Become, Sound, TypeOK
  <1>5. /\ v.pc = "start" /\ v.id = calls + 1 /\ v.request = q /\ v.factors = {}
        /\ v.left = {} /\ v.signals = {}
    BY DEF NoWork
  <1> HIDE DEF v
  <1>6. \A u \in Threads : work[u].pc # "idle" => work[u].id \in 1..calls
    BY DEF Sound, WorkKept, Kept
  <1>7. RunsKnown'
    <2>1. 1..calls \subseteq 1..calls'
      BY <1>3
    <2>2. QED
      BY <1>1, <1>2, <2>1 DEF RunsKnown
  <1>8. RunsApart'
    <2>1. \A u \in Threads \ {t} : work[u].pc # "idle" => work[u].id # calls + 1
      BY <1>3, <1>6
    <2>2. QED
      BY <1>1, <1>4, <1>5, <2>1 DEF RunsApart
  <1>9. OrdersApart'
    BY <1>1, <1>2 DEF OrdersApart
  <1>10. PICK i : i = calls + 1
    OBVIOUS
  <1>11. i \notin 1..calls
    BY <1>3, <1>10
  <1>12. Made(i) = {} /\ Seen(i) = {} /\ Ordered(i) = {} /\ Decided(i) = {}
         /\ Excluded(i) = {} /\ i \notin DOMAIN rows
    BY <1>1, <1>11 DEF RunsKnown, Made, Seen, Ordered, Decided, OrdersOf, Excluded
  <1>13. \A id : /\ Made(id)' = Made(id) /\ Seen(id)' = Seen(id)
                 /\ Ordered(id)' = Ordered(id) /\ Decided(id)' = Decided(id)
                 /\ Excluded(id)' = Excluded(id)
    BY <1>2, TablesKept
  <1>14. LedgersKept'
    <2> SUFFICES ASSUME NEW u \in Threads, work'[u].pc \notin {"idle", "settle"}
                 PROVE  Ledger(work[u], Index(work[u].pc))'
      BY DEF LedgersKept
    <2>1. PICK x : x = work'[u]
      OBVIOUS
    <2>2. LedgerAt(x, Index(x.pc), Made(x.id), Seen(x.id), Ordered(x.id),
                   Decided(x.id), Excluded(x.id))
      <3>1. CASE u # t
        BY <1>1, <1>4, <2>1, <3>1 DEF LedgersKept, Ledger
      <3>2. CASE u = t
        <4>1. x = v
          BY <1>4, <2>1, <3>2
        <4>2. Index(x.pc) = 2 /\ x.id = i /\ x.pc = "start"
          BY <1>5, <1>10, <4>1, StageNumbers
        <4>3. LedgerAt(x, 2, {}, {}, {}, {}, {})
          <5>1. x.factors = {} /\ x.request = q
            BY <1>5, <4>1
          <5>2. LoadedAt(x, 2) = {} /\ OrderedAt(x, 2) = {}
            BY DEF LoadedAt, OrderedAt
          <5>3. QED
            BY <4>2, <5>1, <5>2 DEF LedgerAt
        <4>4. QED
          BY <1>12, <4>2, <4>3
      <3>3. QED
        BY <3>1, <3>2
    <2>3. LedgerAt(x, Index(x.pc), Made(x.id)', Seen(x.id)', Ordered(x.id)',
                   Decided(x.id)', Excluded(x.id)')
      BY <1>13, <2>2
    <2>4. QED
      BY <2>1, <2>3 DEF Ledger, Made, Seen, Ordered, Decided, OrdersOf, Excluded
  <1>15. DebtsPaid'
    <2> SUFFICES ASSUME NEW id \in DOMAIN rows', rows'[id].status = "succeeded"
                 PROVE  /\ PaidUp(id, rows'[id], Made(id)', Seen(id)', Ordered(id)',
                                  Decided(id)', Excluded(id)')
                        /\ \A u \in Threads :
                              work'[u].pc \notin {"idle", "settle"} => work'[u].id # id
      BY DEF DebtsPaid
    <2>1. /\ PaidUp(id, rows[id], Made(id), Seen(id), Ordered(id), Decided(id),
                    Excluded(id))
          /\ \A u \in Threads : work[u].pc \notin {"idle", "settle"} => work[u].id # id
      BY <1>1, <1>2 DEF DebtsPaid
    <2>2. v.id # id
      BY <1>2, <1>5, <1>10, <1>12
    <2>3. \A u \in Threads :
              work'[u].pc \notin {"idle", "settle"} => work'[u].id # id
      BY <1>4, <2>1, <2>2
    <2>4. PaidUp(id, rows'[id], Made(id)', Seen(id)', Ordered(id)', Decided(id)',
                 Excluded(id)')
      BY <1>2, <1>13, <2>1
    <2>5. QED
      BY <2>3, <2>4
  <1>16. QED
    BY <1>7, <1>8, <1>9, <1>14, <1>15 DEF Accounts

\* What is written under the runs, and a restart
LEMMA OtherAccounts ==
    ASSUME Sound, Accounts,
           UNCHANGED <<rows, factorRows, usability, orders, exclusions, calls>>,
           work' = work \/ work' = [t \in Threads |-> NoWork]
    PROVE  Accounts'
  <1>1. RunsKnown /\ RunsApart /\ OrdersApart /\ LedgersKept /\ DebtsPaid
    BY DEF Accounts
  <1>2. NoWork.pc = "idle"
    BY DEF NoWork
  <1>3. RunsKnown' /\ OrdersApart'
    BY <1>1 DEF RunsKnown, OrdersApart
  <1>4. RunsApart'
    BY <1>1, <1>2 DEF RunsApart
  <1>5. LedgersKept'
    BY <1>1, <1>2, ZenonT(60)
       DEF LedgersKept, Ledger, Made, Seen, Ordered, Decided, OrdersOf, Excluded
  <1>6. DebtsPaid'
    BY <1>1, <1>2
       DEF DebtsPaid, Made, Seen, Ordered, Decided, OrdersOf, Excluded
  <1>7. QED
    BY <1>3, <1>4, <1>5, <1>6 DEF Accounts

LEMMA AccountsFirst == ASSUME Init PROVE Accounts
  <1>1. /\ DOMAIN rows = {} /\ DOMAIN orders = {} /\ factorRows = {} /\ usability = {}
        /\ exclusions = {}
    BY DEF Init
  <1>2. \A t \in Threads : work[t].pc = "idle"
    BY DEF Init, NoWork
  <1>3. QED
    BY <1>1, <1>2 DEF Accounts, RunsKnown, RunsApart, OrdersApart, LedgersKept, DebtsPaid

LEMMA AccountsNext == ASSUME Sound, Accounts, [Next]_vars PROVE Accounts'
  <1>1. CASE WriteCatalog \/ AddSnapshot \/ Switch \/ Crash \/ UNCHANGED vars
    <2>1. /\ UNCHANGED <<rows, factorRows, usability, orders, exclusions, calls>>
          /\ work' = work \/ work' = [t \in Threads |-> NoWork]
      BY <1>1 DEF WriteCatalog, AddSnapshot, Switch, Crash, vars, outputs
    <2>2. QED
      BY <2>1, OtherAccounts
  <1>2. QED
    BY <1>1, StepAccounts, PostAccounts DEF Next

\* SucceededRunIsAccountedFor: a run stored as succeeded has the observations of its
\* factors, one order for each of its signals, all stopped by the kill switch or
\* none, and its exclusion if it is adaptive, whatever other threads, operators,
\* failures and restarts do between its transactions.
THEOREM SuccessIsAccountedFor == Spec => []SucceededRunIsAccountedFor
  <1>1. ASSUME Sound, Accounts PROVE SucceededRunIsAccountedFor
    <2> SUFFICES ASSUME NEW id \in DOMAIN rows, rows[id].status = "succeeded"
                 PROVE  /\ FactorsObserved(id) /\ SignalsOrdered(id) /\ DecidedOnce(id)
                        /\ id \in exclusions <=> rows[id].request.adaptive
      BY DEF SucceededRunIsAccountedFor
    <2>1. PaidUp(id, rows[id], Made(id), Seen(id), Ordered(id), Decided(id),
                 Excluded(id))
      BY <1>1 DEF Accounts, DebtsPaid
    <2> DEFINE due == IF rows[id].request.route = "research_only" THEN {}
                      ELSE rows[id].signals
    <2>2. FactorsObserved(id)
      BY <2>1 DEF PaidUp, FactorsObserved, Made, Seen
    <2>3. DecidedOnce(id)
      BY <2>1 DEF PaidUp, DecidedOnce, Decided
    <2>4. id \in exclusions <=> rows[id].request.adaptive
      <3>1. Excluded(id) = IF rows[id].request.adaptive THEN {id} ELSE {}
        BY <2>1 DEF PaidUp
      <3>2. QED
        BY <3>1 DEF Excluded
    <2>5. Ordered(id) = due
      BY <2>1 DEF PaidUp
    <2> HIDE DEF due
    <2>6. Cardinality(OrdersOf(id)) = Cardinality(due)
      <3> DEFINE f == [i \in OrdersOf(id) |-> orders[i].symbol]
      <3>1. IsFiniteSet(OrdersOf(id))
        <4>1. DOMAIN orders = 1..Len(orders) /\ Len(orders) \in Int /\ 1 \in Int
          BY <1>1 DEF Sound, TypeOK
        <4>2. IsFiniteSet(DOMAIN orders)
          BY <4>1, FS_Interval
        <4>3. OrdersOf(id) \in SUBSET DOMAIN orders
          BY DEF OrdersOf
        <4>4. QED
          BY <4>2, <4>3, FS_Subset
      <3>2. f \in [OrdersOf(id) -> due]
        BY <2>5 DEF Ordered
      <3>3. \A i, j \in OrdersOf(id) : f[i] = f[j] => i = j
        BY <1>1 DEF Accounts, OrdersApart, OrdersOf
      <3>4. \A s \in due : \E i \in OrdersOf(id) : f[i] = s
        BY <2>5 DEF Ordered
      <3> HIDE DEF f
      <3>5. f \in Bijection(OrdersOf(id), due)
        BY <3>2, <3>3, <3>4 DEF Bijection, Injection, Surjection, IsInjective
      <3>6. QED
        BY <3>1, <3>5, FS_Bijection DEF ExistsBijection
    <2>7. SignalsOrdered(id)
      BY <2>5, <2>6 DEF SignalsOrdered, Ordered, due
    <2>8. QED
      BY <2>2, <2>3, <2>4, <2>7
  <1>2. QED
    BY <1>1, SoundFirst, SoundNext, AccountsFirst, AccountsNext, PTL DEF Spec

=============================================================================
