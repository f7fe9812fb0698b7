---------------------------- MODULE MarketBatch ----------------------------
(***************************************************************************)
(* The batch ingestion of a range of market dates: crawl_tw_daily_batch    *)
(* calls ingest_tw_market_batch for every weekday, which may refresh the   *)
(* company universe, asks both exchanges for their report of the date,     *)
(* keeps the rows of the universe and loads them.  Company crawls of other *)
(* processes change the universe meanwhile.                                *)
(*                                                                         *)
(* Dates are the weekdays of the range, in order.  Traded says of which    *)
(* securities an exchange's report has a row that validates (the           *)
(* providers' truth, which the program cannot see); a report is reduced to *)
(* what the fetch makes of it.                                             *)
(***************************************************************************)
EXTENDS CompanyUniverse

CONSTANTS
    LastDate,  \* the range is 1..LastDate
    Traded     \* the securities the reports of each date list

Dates == 1..LastDate

ASSUME DateAssumption == LastDate \in Nat
ASSUME TradedAssumption == Traded \in [Dates -> SUBSET Symbols]
ASSUME ScriptAssumption == Script \notin Crawlers

VARIABLES
    batch,  \* the script and the summary it aggregates
    bars,   \* daily_ohlcv
    steady  \* symbols active ever since the script started (auxiliary)

vars == <<universeVars, batch, bars, steady>>

RefreshAttempts == 3

Reports == {"no_data", "error", "rows"}

BatchSteps == {"idle", "next", "crawl", "resolve", "ingest", "over"}

BatchRows == [pc : BatchSteps,
              date : 1..(LastDate + 1),
              left : 0..RefreshAttempts,     \* refresh_attempts_left
              refreshing : BOOLEAN,          \* should_refresh
              mayBootstrap : BOOLEAN,
              refreshErr : BOOLEAN,          \* errors of universe_refresh
              universe : SUBSET Symbols,
              succeeded : SUBSET Dates,
              skipped : SUBSET Dates,
              failed : SUBSET Dates,
              refreshed : BOOLEAN]           \* universe_refresh_succeeded

NoBatch == [pc |-> "idle", date |-> 1, left |-> 0, refreshing |-> FALSE,
            mayBootstrap |-> FALSE, refreshErr |-> FALSE, universe |-> {},
            succeeded |-> {}, skipped |-> {}, failed |-> {},
            refreshed |-> FALSE]

Init ==
    /\ UniverseInit
    /\ batch = NoBatch
    /\ bars = {}
    /\ steady = {}

TypeOK ==
    /\ UniverseTypeOK
    /\ batch \in BatchRows
    /\ bars \subseteq Symbols \X Dates
    /\ steady \subseteq Symbols

\* The script is run over the range, with or without --refresh-universe.
Start ==
    /\ batch.pc = "idle"
    /\ \E left \in {0, RefreshAttempts} :
           batch' = [NoBatch EXCEPT !.pc = "next", !.left = left]
    /\ steady' = Active
    /\ UNCHANGED <<universeVars, bars>>

\* Mutant: one refresh too many.
OnceMore == batch.left >= 0

\* should_refresh
MayRefresh == batch.left > 0

CrawlUniverse == Goto(Script, CrawlStarted(TRUE))

NextDate ==
    /\ batch.pc = "next"
    /\ batch.date \in Dates
    /\ \/ /\ MayRefresh
          /\ CrawlUniverse
          /\ batch' = [batch EXCEPT !.pc = "crawl", !.left = @ - 1,
                                    !.refreshing = TRUE, !.refreshed = FALSE]
       \/ /\ ~MayRefresh
          /\ batch' = [batch EXCEPT !.pc = "resolve", !.refreshing = FALSE,
                                    !.mayBootstrap = TRUE]
          /\ UNCHANGED crawl
    /\ UNCHANGED <<profiles, faults, bars, steady>>

\* The script's own crawl returned or raised.
Crawled ==
    /\ batch.pc = "crawl"
    /\ crawl[Script].pc = "idle"
    /\ batch' = [batch EXCEPT !.pc = "resolve",
                              !.refreshErr = crawl[Script].outcome # "clean"]
    /\ UNCHANGED <<universeVars, bars, steady>>

\* The date is done: main goes on to the next.
Filed(list) ==
    [list EXCEPT !.pc = "next", !.date = @ + 1, !.mayBootstrap = FALSE,
                 !.refreshErr = FALSE, !.universe = {}]

\* ingest_tw_market_batch raised: the except branch of main.
DateFails == batch' = Filed([batch EXCEPT !.failed = @ \cup {batch.date}])

\* resolve_tw_active_universe, and the bootstrap of an empty universe
Resolve ==
    /\ batch.pc = "resolve"
    /\ \/ /\ Active # {}
          /\ batch' = [batch EXCEPT !.pc = "ingest", !.universe = Active]
          /\ UNCHANGED <<crawl, faults>>
       \/ /\ Active = {} /\ batch.mayBootstrap
          /\ CrawlUniverse
          /\ batch' = [batch EXCEPT !.pc = "crawl", !.mayBootstrap = FALSE]
          /\ UNCHANGED faults
       \/ /\ Active = {} /\ ~batch.mayBootstrap
          /\ DateFails
          /\ UNCHANGED <<crawl, faults>>
       \/ /\ Fault
          /\ DateFails
          /\ UNCHANGED crawl
    /\ UNCHANGED <<profiles, bars, steady>>

Rows(d, e) == Traded[d] \cap ListedOn(e)

\* What fetch_twse_market_batch and fetch_tpex_market_batch may return.  An
\* exchange may declare no data for a date it has not published yet; that not
\* both do so for a date that traded is the premise of ADR-0013.
Answers(d) ==
    {r \in [Exchanges -> Reports] :
        /\ \A e \in Exchanges : r[e] = "rows" => Rows(d, e) # {}
        /\ Traded[d] # {} => \E e \in Exchanges : r[e] # "no_data"}

\* Mutant: one exchange's word is enough.
OneDeclaresNoData(r) == \E e \in Exchanges : r[e] = "no_data"

\* skipped_non_trading_day
BothDeclareNoData(r) == \A e \in Exchanges : r[e] = "no_data"

\* Mutant: an exchange without data is not an error.
OnlyReportErrors(r) ==
    batch.refreshErr \/ \E e \in Exchanges : r[e] = "error"

\* The errors of the date's summary are not empty.
HasErrors(r) ==
    \/ batch.refreshErr
    \/ \E e \in Exchanges :
           \/ r[e] = "error"
           \/ r[e] = "no_data" /\ ~BothDeclareNoData(r)

\* The frame that is loaded: the rows of the universe.
Kept(r) == {s \in batch.universe \cap Traded[batch.date] : r[Exchange[s]] = "rows"}

\* The list of the aggregate the date goes to; a partial date is a failed one.
Classified(r) ==
    CASE HasErrors(r) -> [batch EXCEPT !.failed = @ \cup {batch.date}]
      [] ~HasErrors(r) /\ BothDeclareNoData(r)
           -> [batch EXCEPT !.skipped = @ \cup {batch.date}]
      [] OTHER -> [batch EXCEPT !.succeeded = @ \cup {batch.date}]

\* Mutant: an attempt counts as a success.
ConfirmedAnyway(row) ==
    IF row.refreshing THEN [row EXCEPT !.refreshed = TRUE, !.left = 0] ELSE row

\* A refresh without errors is confirmed and not repeated.
Confirmed(row) ==
    IF row.refreshing /\ ~row.refreshErr
    THEN [row EXCEPT !.refreshed = TRUE, !.left = 0]
    ELSE row

\* Both reports are fetched and recorded, and their rows loaded in one
\* transaction.  One step: of what it reads and writes before that commit,
\* other processes touch nothing.
IngestDate ==
    /\ batch.pc = "ingest"
    /\ \/ /\ \E r \in Answers(batch.date) :
                 /\ bars' = bars \cup (Kept(r) \X {batch.date})
                 /\ batch' = Filed(Confirmed(Classified(r)))
          /\ UNCHANGED faults
       \/ /\ Fault  \* a payload cannot be recorded, or the load fails
          /\ DateFails
          /\ UNCHANGED bars
    /\ UNCHANGED <<profiles, crawl, steady>>

Finish ==
    /\ batch.pc = "next"
    /\ batch.date \notin Dates
    /\ batch' = [batch EXCEPT !.pc = "over"]
    /\ UNCHANGED <<universeVars, bars, steady>>

\* Any process's crawl goes on; a symbol that leaves the universe is no longer
\* steady.
Crawling ==
    /\ UniverseStep \/ CrawlStep(Script)
    /\ steady' = steady \cap Active'
    /\ UNCHANGED <<batch, bars>>

Next ==
    \/ Crawling
    \/ Start \/ NextDate \/ Crawled \/ Resolve \/ IngestDate \/ Finish

Spec == Init /\ [][Next]_vars

-----------------------------------------------------------------------------
(***************************************************************************)
(* Data readiness of one symbol over the whole range (readiness.py):       *)
(* coverage is counted over the dates some symbol has a bar of, not over a *)
(* calendar.                                                               *)
(***************************************************************************)
MarketDays == {d \in Dates : \E s \in Symbols : <<s, d>> \in bars}

CoveredDays(s) == {d \in Dates : <<s, d>> \in bars}

\* _stale_trading_days: market days after the symbol's latest bar
StaleDays(s) == {d \in MarketDays : \A c \in CoveredDays(s) : c < d}

Readiness(s) ==
    CASE CoveredDays(s) = {} -> "missing"
      [] CoveredDays(s) # {} /\ (MarketDays \ CoveredDays(s) # {}
                                 \/ StaleDays(s) # {}) -> "warning"
      [] OTHER -> "ready"

-----------------------------------------------------------------------------

(***************************************************************************)
(* No silent hole (ADR-0013, fail closed): when the script files a date as *)
(* succeeded or as a non-trading day, every symbol that was in the         *)
(* universe throughout and that traded that date has its bar, whatever the *)
(* exchanges answered, the crawls of other processes did to the universe   *)
(* and the storage refused (ingest_tw_market_batch, crawl_tw_daily_batch). *)
(***************************************************************************)
NoSilentHole ==
    \A d \in batch.succeeded \cup batch.skipped :
        \A s \in steady \cap Traded[d] : <<s, d>> \in bars

(***************************************************************************)
(* A range that ends without a failed date is ready for research: a symbol *)
(* that stayed in the universe and traded on every date some security did  *)
(* has full coverage by the readiness rule.                                *)
(***************************************************************************)
CleanRangeIsReady ==
    batch.pc = "over" /\ batch.failed = {} =>
        \A s \in steady :
            LET open == {d \in Dates : Traded[d] # {}}
            IN  open # {} /\ (\A d \in open : s \in Traded[d])
                    => Readiness(s) = "ready"

(***************************************************************************)
(* universe_refresh_succeeded is true only after a confirmed refresh       *)
(* (docs/dev.md): it is set when the script's own crawl saved and          *)
(* reconciled both feeds, and no later date takes it back or repeats it.   *)
(***************************************************************************)
RefreshConfirmed ==
    [][batch'.refreshed # batch.refreshed =>
           batch'.refreshed /\ crawl[Script].outcome = "clean"]_batch

=============================================================================
