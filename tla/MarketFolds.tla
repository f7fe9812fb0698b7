---------------------------- MODULE MarketFolds ----------------------------
(***************************************************************************)
(* Walk-forward folds over a set of market dates, and the rows of a pooled *)
(* dataset on either side of them (pooled.py, calibration.py).             *)
(*                                                                         *)
(* A market date is its position in the official calendar, a natural       *)
(* number.  The dates folds are made of may skip some of the calendar, on  *)
(* which no row is model-ready.  A row is of a date and its target ends at *)
(* a later one.                                                            *)
(***************************************************************************)
EXTENDS Integers, FiniteSets

\* The share of the dates one holdout takes, as a fraction.
IsShare(share) ==
    /\ share \in [num : Nat, den : Nat]
    /\ 0 < share.num /\ share.num < share.den

\* The place of a date in sorted(dates), from 1.
Place(dates, d) == Cardinality({e \in dates : e <= d})

\* sorted(dates)[from:to]
Slice(dates, from, to) == {d \in dates : from < Place(dates, d) /\ Place(dates, d) <= to}

TestLen(n, share) == (n * share.num) \div share.den

\* Where fold i stops training and its holdout begins.
TrainEnd(n, splits, share, i) ==
    n - TestLen(n, share) * splits + (i - 1) * TestLen(n, share)

\* Mutant: the purge is one date short.
PurgeOneShort(trainEnd, purge) ==
    IF trainEnd - purge + 1 > 0 THEN trainEnd - purge + 1 ELSE 0

PurgeStart(trainEnd, purge) ==
    IF trainEnd - purge > 0 THEN trainEnd - purge ELSE 0

\* Folds can be formed of n dates, and each keeps a date to train on.
HasFolds(n, splits, share, purge) ==
    /\ TestLen(n, share) > 0
    /\ n > TestLen(n, share) * splits
    /\ \A i \in 1..splits :
           PurgeStart(TrainEnd(n, splits, share, i), purge) > 0

\* Fold i of the dates
FoldAt(dates, splits, share, purge, i) ==
    LET n   == Cardinality(dates)
        end == TrainEnd(n, splits, share, i)
        cut == PurgeStart(end, purge)
    IN  [train |-> Slice(dates, 0, cut),
         purged |-> Slice(dates, cut, end),
         holdout |-> Slice(dates, end, end + TestLen(n, share))]

\* Mutant: the last dates before the final holdout are trained on.
Unpurged(dates, holdout, purge) ==
    [train |-> dates, purged |-> {}, holdout |-> holdout]

\* The fold of a final holdout: the last dates before it are purged.
FinalFold(dates, holdout, purge) ==
    LET n == Cardinality(dates)
    IN  [train |-> Slice(dates, 0, n - purge),
         purged |-> Slice(dates, n - purge, n),
         holdout |-> holdout]

-----------------------------------------------------------------------------

\* The label of a training row is settled before the holdout starts.
Settled(row, fold) == \A d \in fold.holdout : row.end < d

RowsOn(rows, dates) == {r \in rows : r.date \in dates}

TrainRows(rows, fold) == {r \in RowsOn(rows, fold.train) : Settled(r, fold)}

HoldoutRows(rows, fold) == RowsOn(rows, fold.holdout)

=============================================================================
