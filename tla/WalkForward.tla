---------------------------- MODULE WalkForward ----------------------------
(***************************************************************************)
(* The rows a research run fits and tests its models on, symbol by symbol  *)
(* (execution.py, validation.py, models.py).  Unlike the pooled dataset a  *)
(* symbol's rows are counted on their own: its row before and its row      *)
(* after are observed rows, whatever dates lie between.                    *)
(***************************************************************************)
EXTENDS MarketFolds

CONSTANTS
    Symbols,
    LastDate,   \* date_range.end of the requests
    Frames,     \* the daily rows that may be stored
    Window,     \* the rows the longest feature window takes, its own included
    Shift,      \* the shift of the features
    TestShare,  \* validation.test_size
    TailShare,  \* the share of the training rows a classifier is calibrated on
    MinSamples  \* DIRECTION_CALIBRATION_MIN_SAMPLES

Dates == 1..LastDate

\* No row, one on which a feature is undefined (a division by zero), or a good
\* one.
Marks == {"none", "flat", "good"}

ASSUME WalkForwardAssumption ==
    /\ LastDate \in Nat
    /\ Frames \subseteq [Symbols -> [Dates -> Marks]]
    /\ Window \in Nat \ {0} /\ Shift \in Nat \ {0}
    /\ IsShare(TestShare) /\ IsShare(TailShare)
    /\ MinSamples \in Nat \ {0}

VARIABLE frame

-----------------------------------------------------------------------------
(***************************************************************************)
(* Rows.                                                                   *)
(***************************************************************************)

\* The index of a symbol's frame
Observed(s) == {d \in Dates : frame[s][d] # "none"}

\* The row so many rows after that of d
RowAt(s, d, ahead) ==
    LET index == Observed(s)
        place == Place(index, d) + ahead
    IN  CHOOSE e \in index : Place(index, e) = place

\* add_features: the unshifted features of the row are complete.
Unshifted(s) ==
    LET index == Observed(s)
    IN  {d \in index : frame[s][d] = "good" /\ Place(index, d) >= Window}

\* apply_feature_shifts: a row has the features of an earlier one.
Shifted(s) ==
    LET index    == Observed(s)
        complete == Unshifted(s)
    IN  {d \in index : Place(index, d) > Shift /\ RowAt(s, d, -Shift) \in complete}

\* target_lookahead: how many rows later a label is settled
Ahead(q) == IF q.target = "open_to_close" THEN q.horizon - 1 ELSE q.horizon

\* The row compute_return_target takes the last price of.
LabelEnd(s, d, q) == RowAt(s, d, Ahead(q))

\* prepare_training_data: the index of X
ModelRows(s, q) ==
    LET index == Observed(s)
    IN  {d \in Shifted(s) : Place(index, d) + Ahead(q) <= Cardinality(index)}

-----------------------------------------------------------------------------
(***************************************************************************)
(* Splits.                                                                 *)
(***************************************************************************)

\* time_series_split
MainSplit(n) == (n * (TestShare.den - TestShare.num)) \div TestShare.den

\* Mutant: the last label before the holdout settles on its first row.
TrainsTooLong(n, q) == MainSplit(n) - Ahead(q) + 1

TrainLen(n, q) == MainSplit(n) - Ahead(q)

HasMainFold(dates, q) ==
    LET n == Cardinality(dates)
    IN  TrainLen(n, q) > 0 /\ MainSplit(n) < n

MainFold(dates, q) ==
    LET n == Cardinality(dates)
    IN  [train |-> Slice(dates, 0, TrainLen(n, q)),
         holdout |-> Slice(dates, MainSplit(n), n)]

\* generate_splits: a holdout is one split.
Splits(q) == IF q.validation = "holdout" THEN 1 ELSE q.splits

\* The first dates a rolling window has left behind at fold i
Passed(dates, q, i) ==
    IF q.validation = "rolling_window"
    THEN Slice(dates, 0, (i - 1) * TestLen(Cardinality(dates), TestShare))
    ELSE {}

HasValidationFolds(dates, q) ==
    HasFolds(Cardinality(dates), Splits(q), TestShare, Ahead(q))

ValidationFold(dates, q, i) ==
    LET fold == FoldAt(dates, Splits(q), TestShare, Ahead(q), i)
    IN  [train |-> fold.train \ Passed(dates, q, i), holdout |-> fold.holdout]

ValidationFolds(dates, q) == {ValidationFold(dates, q, i) : i \in 1..Splits(q)}

\* The dates all symbols are model-ready on
CommonDates(q) ==
    LET rows == [s \in Symbols |-> ModelRows(s, q)]
    IN  {d \in Dates : \A s \in Symbols : d \in rows[s]}

\* fit_calibrated_direction_classifier: the last training rows calibrate.
TailStart(n) ==
    LET size == (n * TailShare.num) \div TailShare.den
    IN  n - (IF size > MinSamples THEN size ELSE MinSamples)

BaseEnd(n, q) == TailStart(n) - Ahead(q)

CanCalibrate(dates, q) == BaseEnd(Cardinality(dates), q) >= MinSamples

DirectionFold(dates, q) ==
    LET n == Cardinality(dates)
    IN  [train |-> Slice(dates, 0, BaseEnd(n, q)),
         holdout |-> Slice(dates, TailStart(n), n)]

-----------------------------------------------------------------------------
(***************************************************************************)
(* Fits.                                                                   *)
(***************************************************************************)

\* A model fitted for a symbol: the dates its labels are settled on and those it
\* is then tested or calibrated on.
FitOn(s, fold, q) ==
    [symbol |-> s, settled |-> {LabelEnd(s, d, q) : d \in fold.train},
     tested |-> fold.holdout]

\* The regressor of a fold and, if there are rows for it, its classifier
Fits(s, fold, q) ==
    {FitOn(s, fold, q)}
      \cup IF q.direction /\ CanCalibrate(fold.train, q)
           THEN {FitOn(s, DirectionFold(fold.train, q), q)}
           ELSE {}

\* What a walk of the validation folds fits, unless a fold makes it give up.
ValidationFits(q) ==
    UNION {Fits(s, fold, q) :
              s \in Symbols, fold \in ValidationFolds(CommonDates(q), q)}

=============================================================================
