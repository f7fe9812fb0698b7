--------------------------- MODULE MCMarketBatch ---------------------------
(***************************************************************************)
(* Instances of MarketBatch for TLC: two securities on TWSE and one on     *)
(* TPEX; the second date is a holiday, on the others all of them trade.     *)
(***************************************************************************)
EXTENDS MarketBatch

MCExchange == [s \in Symbols |-> IF s = 3 THEN "TPEX" ELSE "TWSE"]

MCTraded == [d \in Dates |-> IF d # 2 THEN Symbols ELSE {}]

\* States that differ only in what no step and no property reads have the same
\* behaviours: what a request reports to its client, and of the payload a
\* profile names anything but whether it lists the profile.
MCView ==
    <<faults, batch, bars, steady,
      [s \in Symbols |-> <<profiles[s].status, s \in profiles[s].feed>>],
      [p \in Processes |->
          IF p \in HttpCallers
          THEN [crawl[p] EXCEPT !.feed = @ \cap crawl[p].todo, !.saved = {},
                                !.errs = FALSE, !.failed = FALSE,
                                !.outcome = "none"]
          ELSE crawl[p]]>>

=============================================================================
