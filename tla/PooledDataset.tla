--------------------------- MODULE PooledDataset ---------------------------
(***************************************************************************)
(* The model-ready rows pooled over symbols (pooled.py), as far as the     *)
(* dates they read are concerned.  The market dates loaded are 1..LastDate *)
(* and quotes says what each symbol's canonical row of a date is.  Prices  *)
(* are not modelled: a row is kept or dropped for what its features, its   *)
(* volatility and its target have to read.                                 *)
(***************************************************************************)
EXTENDS MarketFolds

CONSTANTS
    Symbols,
    LastDate,
    Histories,  \* the histories of quotes that may be stored
    Horizons,   \* horizon_days a request may ask for
    Warmup,     \* the rows before its own that the longest feature reads
    Lookback    \* the returns the longest volatility window takes

Dates == 1..LastDate

Quotes == {"none", "invalid", "valid"}

ASSUME DatasetAssumption ==
    /\ LastDate \in Nat
    /\ Horizons \subseteq Nat \ {0}
    /\ Warmup \in Nat
    /\ Lookback \in Nat
    /\ Histories \subseteq [Symbols -> [Dates -> Quotes]]

VARIABLES
    quotes,  \* what the loaded frame holds of each symbol and market date
    horizon  \* horizon_days of the requests

dataset == <<quotes, horizon>>

DatasetTypeOK ==
    /\ quotes \in Histories
    /\ horizon \in Horizons

DatasetInit == DatasetTypeOK

-----------------------------------------------------------------------------

\* Market dates from..to lie in one contiguous valid segment.
Contiguous(s, from, to) ==
    /\ 1 <= from
    /\ \A d \in from..to : quotes[s][d] = "valid"

\* target_lookahead of an open-to-open return, on the market-date axis
TargetEnd(d) == d + horizon

\* The target of the row is computed on an axis that ends at last.
HasTarget(s, d, last) == TargetEnd(d) <= last /\ Contiguous(s, d, TargetEnd(d))

\* Features are computed on the observed rows: a date without a row is
\* bridged, an invalid row starts the warm-up anew.
HasFeatures(s, d) ==
    LET observed == {x \in 1..(d - 1) : quotes[s][x] = "valid"}
        unbroken == {x \in observed : \A y \in x..d : quotes[s][y] # "invalid"}
    IN  quotes[s][d] = "valid" /\ Cardinality(unbroken) >= Warmup

\* build_pre_signal_open_to_open_volatility has a full window of returns.
HasWindow(s, d, returns) == Contiguous(s, d - returns, d)

HasVolatility(s, d) == HasWindow(s, d, Lookback)

Row(s, d) == [symbol |-> s, date |-> d, end |-> TargetEnd(d)]

\* The complete cases on the axis 1..last; method selection asks for the
\* volatility columns too.
ReadyRows(last, volatility) ==
    {Row(p[1], p[2]) : p \in
        {p \in Symbols \X (1..last) :
            /\ HasTarget(p[1], p[2], last)
            /\ HasFeatures(p[1], p[2])
            /\ volatility => HasVolatility(p[1], p[2])}}

ReadyDates(rows) == {r.date : r \in rows}

\* The last dates the targets of the rows read.
Reach(rows) == {r.end : r \in rows}

=============================================================================
