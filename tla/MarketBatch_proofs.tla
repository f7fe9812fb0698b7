------------------------- MODULE MarketBatch_proofs -------------------------
(***************************************************************************)
(* Theorems about the company universe and the batch ingestion, for any    *)
(* symbols, dates, processes, coverage ratio and number of storage         *)
(* failures.                                                               *)
(***************************************************************************)
EXTENDS MarketBatch, FiniteSetTheorems, TLAPS

-----------------------------------------------------------------------------
(***************************************************************************)
(* Types.                                                                  *)
(***************************************************************************)

\* A storage failure leaves the counter in its bounds.
LEMMA FaultTyped ==
    ASSUME faults \in 0..MaxFaults, Fault PROVE faults' \in 0..MaxFaults
  BY FaultAssumption DEF Fault

\* Replacing one crawl by a row of the type keeps the type.
LEMMA GotoTyped ==
    ASSUME crawl \in [Processes -> CrawlRows], NEW p, NEW row \in CrawlRows,
           Goto(p, row)
    PROVE  crawl' \in [Processes -> CrawlRows]
  BY DEF Goto

\* The rows a crawl starts from and ends in.
LEMMA RestRows ==
    /\ NoCrawl \in CrawlRows
    /\ \A both \in BOOLEAN : CrawlStarted(both) \in CrawlRows
  BY DEF NoCrawl, CrawlStarted, CrawlRows, Steps, Exchanges, Statuses, Outcomes

LEMMA StartTyped ==
    ASSUME crawl \in [Processes -> CrawlRows], NEW p, NEW both \in BOOLEAN,
           Goto(p, CrawlStarted(both))
    PROVE  crawl' \in [Processes -> CrawlRows]
  BY RestRows, GotoTyped

LEMMA RaisedTyped ==
    ASSUME crawl \in [Processes -> CrawlRows], NEW p, Raised(p)
    PROVE  crawl' \in [Processes -> CrawlRows]
  <1>1. [NoCrawl EXCEPT !.outcome = "raised"] \in CrawlRows
    BY RestRows DEF CrawlRows, Outcomes
  <1> QED BY <1>1, GotoTyped DEF Raised

LEMMA SourceDoneTyped ==
    ASSUME crawl \in [Processes -> CrawlRows], NEW p \in Processes,
           NEW errs \in BOOLEAN, SourceDone(p, errs)
    PROVE  crawl' \in [Processes -> CrawlRows]
  <1> DEFINE any == crawl[p].failed \/ errs
             another == [CrawlStarted(TRUE) EXCEPT !.source = "TPEX",
                                                   !.failed = errs]
  <1>1. another \in CrawlRows
    BY RestRows DEF CrawlRows, Exchanges
  <1>2. any \in BOOLEAN
    OBVIOUS
  <1>3. \A f \in BOOLEAN :
            [NoCrawl EXCEPT !.pc = "count", !.failed = f] \in CrawlRows
    BY RestRows DEF CrawlRows, Steps
  <1> HIDE DEF any
  <1>4. [NoCrawl EXCEPT !.pc = "count", !.failed = any] \in CrawlRows
    BY <1>2, <1>3
  <1> QED BY <1>1, <1>4, GotoTyped DEF SourceDone, any

\* What an upsert writes, and what a reconciliation leaves, are profiles.
LEMMA UpsertTyped ==
    ASSUME UniverseTypeOK, NEW p \in Processes, NEW s \in Symbols,
           Upserted(p, s)
    PROVE  profiles' \in [Symbols -> ProfileRows]
  <1>1. Written(p, s) \in ProfileRows
    BY DEF Written, UniverseTypeOK, ProfileRows, CrawlRows, Statuses
  <1> QED BY <1>1 DEF Upserted, UniverseTypeOK

LEMMA MarkedTyped ==
    ASSUME UniverseTypeOK, NEW p \in Processes
    PROVE  Marked(p) \in [Symbols -> ProfileRows]
  BY DEF Marked, UniverseTypeOK, ProfileRows, CrawlRows, Statuses

\* A step of a crawl keeps the types of the universe.
LEMMA CrawlTyped ==
    ASSUME UniverseTypeOK, NEW p \in Processes, CrawlStep(p)
    PROVE  UniverseTypeOK'
  <1> USE DEF UniverseTypeOK
  <1>0. crawl[p] \in CrawlRows
    OBVIOUS
  <1>1. CASE FetchFails(p)
    BY <1>1, RaisedTyped DEF FetchFails
  <1>2. CASE Fetch(p)
    <2> DEFINE crawled(feed, built) ==
                 [crawl[p] EXCEPT
                    !.pc = IF Reconciles(p) THEN "compare" ELSE "save",
                    !.feed = feed, !.todo = built, !.errs = built # feed]
    <2>1. PICK feed \in SUBSET ListedOn(crawl[p].source) \ {{}} :
            \E built \in SUBSET feed :
               \/ Goto(p, crawled(feed, built)) /\ UNCHANGED faults
               \/ BatchRejected(p, crawled(feed, built))
      BY <1>2 DEF Fetch, Built
    <2>2. PICK built \in SUBSET feed :
               \/ Goto(p, crawled(feed, built)) /\ UNCHANGED faults
               \/ BatchRejected(p, crawled(feed, built))
      BY <2>1
    <2>3. feed \subseteq Symbols /\ built \subseteq Symbols
      BY DEF ListedOn
    <2>4. crawled(feed, built) \in CrawlRows
      BY <1>0, <2>3 DEF CrawlRows, Steps
    <2>5. [crawled(feed, built) EXCEPT !.todo = {}, !.errs = TRUE] \in CrawlRows
      BY <2>4 DEF CrawlRows
    <2>6. crawl' \in [Processes -> CrawlRows]
      BY <2>2, <2>4, <2>5, GotoTyped DEF BatchRejected
    <2>7. faults' \in 0..MaxFaults
      BY <2>2, FaultTyped DEF BatchRejected
    <2> QED BY <1>2, <2>6, <2>7 DEF Fetch
  <1>3. CASE Compare(p)
    <2>1. [crawl[p] EXCEPT !.pc = "save",
                           !.snap = Active \cap ListedOn(crawl[p].source)]
            \in CrawlRows
      BY <1>0 DEF CrawlRows, Steps, ListedOn
    <2>2. crawl' \in [Processes -> CrawlRows]
      BY <1>3, <2>1, GotoTyped, RaisedTyped DEF Compare
    <2> QED BY <1>3, <2>2, FaultTyped DEF Compare
  <1>4. CASE Read(p)
    <2>1. PICK s \in crawl[p].todo :
            Goto(p, [crawl[p] EXCEPT !.seen = profiles[s].status])
      BY <1>4 DEF Read
    <2>2. s \in Symbols
      BY <1>0 DEF CrawlRows
    <2>3. [crawl[p] EXCEPT !.seen = profiles[s].status] \in CrawlRows
      BY <1>0, <2>2 DEF CrawlRows, ProfileRows
    <2> QED BY <1>4, <2>1, <2>3, GotoTyped DEF Read
  <1>5. CASE Write(p)
    <2>1. PICK s \in crawl[p].todo :
            /\ \/ profiles' = profiles
               \/ Upserted(p, s)
            /\ \/ Goto(p, [crawl[p] EXCEPT !.todo = @ \ {s}, !.seen = "none",
                                           !.saved = @ \cup {s}])
               \/ NotSaved(p, s)
            /\ faults' = faults \/ Fault
      BY <1>5 DEF Write
    <2>2. s \in Symbols
      BY <1>0 DEF CrawlRows
    <2>3. [crawl[p] EXCEPT !.todo = @ \ {s}, !.seen = "none",
                           !.saved = @ \cup {s}] \in CrawlRows
      BY <1>0, <2>2 DEF CrawlRows
    <2>4. [crawl[p] EXCEPT !.todo = @ \ {s}, !.seen = "none", !.errs = TRUE]
            \in CrawlRows
      BY <1>0 DEF CrawlRows
    <2>5. crawl' \in [Processes -> CrawlRows]
      BY <2>1, <2>3, <2>4, GotoTyped DEF NotSaved
    <2>6. profiles' \in [Symbols -> ProfileRows]
      BY <2>1, <2>2, UpsertTyped
    <2> QED BY <2>1, <2>5, <2>6, FaultTyped
  <1>6. CASE Reconcile(p)
    <2>1. /\ profiles' = profiles \/ profiles' = Marked(p)
          /\ \E errs \in BOOLEAN : SourceDone(p, errs)
          /\ faults' = faults \/ Fault
      BY <1>0, <1>6 DEF Reconcile, CrawlRows
    <2> QED BY <2>1, MarkedTyped, SourceDoneTyped, FaultTyped
  <1>7. CASE Count(p)
    <2>1. [NoCrawl EXCEPT !.outcome = IF crawl[p].failed THEN "errors"
                                                         ELSE "clean"]
            \in CrawlRows
      BY RestRows DEF CrawlRows, Outcomes
    <2> QED BY <1>7, <2>1, GotoTyped, RaisedTyped, FaultTyped DEF Count
  <1> QED
    BY <1>1, <1>2, <1>3, <1>4, <1>5, <1>6, <1>7 DEF CrawlStep

\* A date being ingested is a date of the range.
InRange == batch.pc \in {"crawl", "resolve", "ingest"} => batch.date \in Dates

\* Filing a date yields a row of the type, whatever list it goes to.
LEMMA FiledTyped ==
    ASSUME batch \in BatchRows, batch.date \in Dates
    PROVE  /\ \A row \in BatchRows :
                  row.date = batch.date => Filed(row) \in BatchRows
           /\ \A row \in BatchRows :
                  row.date = batch.date => /\ Confirmed(row) \in BatchRows
                                           /\ Confirmed(row).date = batch.date
           /\ \A r : /\ Classified(r) \in BatchRows
                     /\ Classified(r).date = batch.date
           /\ DateFails => batch' \in BatchRows /\ batch'.pc = "next"
  <1> DEFINE d == batch.date
  <1>0. d \in 1..(LastDate + 1) /\ d + 1 \in 1..(LastDate + 1)
    BY DateAssumption DEF Dates
  <1>1. ASSUME NEW row \in BatchRows, row.date = d
        PROVE  Filed(row) \in BatchRows
    BY <1>0, <1>1 DEF Filed, BatchRows, BatchSteps
  <1>2. ASSUME NEW row \in BatchRows, row.date = d
        PROVE  Confirmed(row) \in BatchRows /\ Confirmed(row).date = d
    <2>1. 0 \in 0..RefreshAttempts
      BY DEF RefreshAttempts
    <2> QED BY <1>2, <2>1 DEF Confirmed, BatchRows
  <1>3. LET rows == {[batch EXCEPT !.failed = @ \cup {d}],
                     [batch EXCEPT !.skipped = @ \cup {d}],
                     [batch EXCEPT !.succeeded = @ \cup {d}]}
        IN  \A row \in rows : row \in BatchRows /\ row.date = d
    BY DEF BatchRows
  <1>4. \A r : Classified(r) \in BatchRows /\ Classified(r).date = d
    BY <1>3 DEF Classified
  <1>5. Filed([batch EXCEPT !.failed = @ \cup {d}]).pc = "next"
    BY DEF Filed, BatchRows
  <1> QED BY <1>1, <1>2, <1>3, <1>4, <1>5 DEF DateFails

\* The actions of the batch script keep every type.
LEMMA BatchTyped ==
    ASSUME TypeOK, InRange,
           Start \/ NextDate \/ Crawled \/ Resolve \/ IngestDate \/ Finish
    PROVE  TypeOK' /\ InRange'
  <1> USE DEF TypeOK, UniverseTypeOK
  <1>0. Active \subseteq Symbols /\ Script \in Processes
    BY DEF Active, Processes
  <1>1. CASE Start
    <2>1. {0, RefreshAttempts} \subseteq 0..RefreshAttempts
      BY DEF RefreshAttempts
    <2>2. NoBatch \in BatchRows
      BY <2>1, DateAssumption DEF NoBatch, BatchRows, BatchSteps
    <2>3. \A left \in {0, RefreshAttempts} :
            [NoBatch EXCEPT !.pc = "next", !.left = left] \in BatchRows
      BY <2>1, <2>2 DEF BatchRows, BatchSteps
    <2>4. batch' \in BatchRows /\ batch'.pc = "next"
      BY <1>1, <2>3 DEF Start, NoBatch
    <2> QED BY <1>0, <1>1, <2>4 DEF Start, universeVars, InRange
  <1>2. CASE NextDate
    <2>1. CASE MayRefresh
      <3>0. batch.left - 1 \in 0..RefreshAttempts
        BY <2>1 DEF MayRefresh, BatchRows, RefreshAttempts
      <3>1. [batch EXCEPT !.pc = "crawl", !.left = @ - 1,
                          !.refreshing = TRUE, !.refreshed = FALSE]
              \in BatchRows
        BY <3>0 DEF BatchRows, BatchSteps
      <3>2. crawl' \in [Processes -> CrawlRows]
        BY <1>2, <2>1, StartTyped DEF NextDate, CrawlUniverse
      <3>3. batch'.date = batch.date
        BY <1>2, <2>1 DEF NextDate, BatchRows
      <3> QED BY <1>2, <2>1, <3>1, <3>2, <3>3 DEF NextDate, InRange
    <2>2. CASE ~MayRefresh
      <3>1. [batch EXCEPT !.pc = "resolve", !.refreshing = FALSE,
                          !.mayBootstrap = TRUE] \in BatchRows
        BY DEF BatchRows, BatchSteps
      <3>2. batch'.date = batch.date
        BY <1>2, <2>2 DEF NextDate, BatchRows
      <3> QED BY <1>2, <2>2, <3>1, <3>2 DEF NextDate, InRange
    <2> QED BY <2>1, <2>2
  <1>3. CASE Crawled
    <2>1. \A e \in BOOLEAN :
            [batch EXCEPT !.pc = "resolve", !.refreshErr = e] \in BatchRows
      BY DEF BatchRows, BatchSteps
    <2>2. batch'.date = batch.date
      BY <1>3 DEF Crawled, BatchRows
    <2> QED BY <1>3, <2>1, <2>2 DEF Crawled, universeVars, InRange
  <1>4. CASE Resolve
    <2>0. batch.date \in Dates
      BY <1>4 DEF Resolve, InRange
    <2>1. [batch EXCEPT !.pc = "ingest", !.universe = Active] \in BatchRows
      BY <1>0 DEF BatchRows, BatchSteps
    <2>2. [batch EXCEPT !.pc = "crawl", !.mayBootstrap = FALSE] \in BatchRows
      BY DEF BatchRows, BatchSteps
    <2>3. CrawlUniverse => crawl' \in [Processes -> CrawlRows]
      BY StartTyped DEF CrawlUniverse
    <2>4. batch' \in BatchRows /\ InRange'
      BY <1>4, <2>0, <2>1, <2>2, FiledTyped DEF Resolve, InRange, BatchRows
    <2> QED BY <1>4, <2>3, <2>4, FaultTyped DEF Resolve
  <1>5. CASE IngestDate
    <2>0. batch.date \in Dates
      BY <1>5 DEF IngestDate, InRange
    <2>1. \A r : Kept(r) \subseteq Symbols
      BY DEF Kept, BatchRows
    <2>2. \A r : /\ Filed(Confirmed(Classified(r))) \in BatchRows
                 /\ Filed(Confirmed(Classified(r))).pc = "next"
      <3>1. \A r : /\ Confirmed(Classified(r)) \in BatchRows
                   /\ Confirmed(Classified(r)).date = batch.date
        BY <2>0, FiledTyped
      <3>2. \A row \in BatchRows : Filed(row).pc = "next"
        BY DEF Filed, BatchRows
      <3> QED BY <2>0, <3>1, <3>2, FiledTyped
    <2>3. batch' \in BatchRows /\ batch'.pc = "next"
      BY <1>5, <2>0, <2>2, FiledTyped DEF IngestDate
    <2>4. bars' \subseteq Symbols \X Dates
      BY <1>5, <2>0, <2>1 DEF IngestDate
    <2> QED BY <1>5, <2>3, <2>4, FaultTyped DEF IngestDate, InRange
  <1>6. CASE Finish
    <2>1. [batch EXCEPT !.pc = "over"] \in BatchRows
      BY DEF BatchRows, BatchSteps
    <2>2. batch'.pc = "over"
      BY <1>6 DEF Finish, BatchRows
    <2> QED BY <1>6, <2>1, <2>2 DEF Finish, universeVars, InRange
  <1> QED BY <1>1, <1>2, <1>3, <1>4, <1>5, <1>6

\* So do the crawls of every process.
LEMMA CrawlingTyped ==
    ASSUME TypeOK, InRange, Crawling
    PROVE  TypeOK' /\ InRange'
  <1>1. Crawlers \subseteq Processes /\ Script \in Processes
    BY DEF Processes
  <1>2. ASSUME NEW p \in Crawlers, Call(p)
        PROVE  UniverseTypeOK'
    <2>1. PICK both \in BOOLEAN : Goto(p, CrawlStarted(both))
      BY <1>2 DEF Call
    <2> QED BY <1>2, <2>1, StartTyped DEF Call, TypeOK, UniverseTypeOK
  <1>3. UniverseTypeOK'
    BY <1>1, <1>2, CrawlTyped DEF Crawling, UniverseStep, TypeOK
  <1> QED BY <1>3 DEF Crawling, TypeOK, InRange

\* Both hold of every behaviour.
LEMMA TypedInRange == Spec => [](TypeOK /\ InRange)
  <1>1. Init => TypeOK /\ InRange
    <2> SUFFICES ASSUME Init PROVE TypeOK /\ InRange
      OBVIOUS
    <2>1. UniverseTypeOK
      BY RestRows, FaultAssumption
      DEF Init, UniverseInit, UniverseTypeOK, ProfileRows, Statuses
    <2>2. 0 \in 0..RefreshAttempts
      BY DEF RefreshAttempts
    <2>3. NoBatch \in BatchRows /\ NoBatch.pc = "idle"
      BY <2>2, DateAssumption DEF NoBatch, BatchRows, BatchSteps
    <2> QED BY <2>1, <2>3 DEF Init, TypeOK, InRange
  <1>2. TypeOK /\ InRange /\ [Next]_vars => TypeOK' /\ InRange'
    <2>1. CASE UNCHANGED vars
      BY <2>1 DEF vars, universeVars, TypeOK, UniverseTypeOK, InRange
    <2> QED BY <2>1, BatchTyped, CrawlingTyped DEF Next
  <1> QED BY <1>1, <1>2, PTL DEF Spec

(***************************************************************************)
(* Every variable keeps its type.  In particular a date is filed once, so  *)
(* the script never runs past its range, and a refresh is attempted at     *)
(* most three times.                                                       *)
(***************************************************************************)
THEOREM MarketTypes == Spec => []TypeOK
  BY TypedInRange, PTL

-----------------------------------------------------------------------------
(***************************************************************************)
(* Provenance of the active universe.  The inductive invariant adds to     *)
(* ActiveAttested that what a crawl has yet to save is in the payload it   *)
(* fetched: an upsert writes that payload next to the status.              *)
(***************************************************************************)

TodoListed == \A p \in Processes : crawl[p].todo \subseteq crawl[p].feed

Attested == ActiveAttested /\ TodoListed

\* Replacing a crawl by one whose records are listed keeps TodoListed.
LEMMA GotoListed ==
    ASSUME crawl \in [Processes -> CrawlRows], TodoListed, NEW p, NEW row,
           row.todo \subseteq row.feed, Goto(p, row)
    PROVE  TodoListed'
  BY DEF Goto, TodoListed

LEMMA RestListed ==
    ASSUME crawl \in [Processes -> CrawlRows], TodoListed, NEW p
    PROVE  /\ Raised(p) => TodoListed'
           /\ \A both : Goto(p, CrawlStarted(both)) => TodoListed'
           /\ \A errs : SourceDone(p, errs) => TodoListed'
  <1>1. ASSUME Raised(p) PROVE TodoListed'
    <2>1. [NoCrawl EXCEPT !.outcome = "raised"].todo = {}
      BY DEF NoCrawl
    <2> QED BY <1>1, <2>1, GotoListed DEF Raised
  <1>2. ASSUME NEW both, Goto(p, CrawlStarted(both)) PROVE TodoListed'
    <2>1. CrawlStarted(both).todo = {}
      BY DEF CrawlStarted, NoCrawl
    <2> QED BY <1>2, <2>1, GotoListed
  <1>3. ASSUME NEW errs, SourceDone(p, errs) PROVE TodoListed'
    <2> DEFINE another == [CrawlStarted(TRUE) EXCEPT !.source = "TPEX",
                                                     !.failed = errs]
               last == [NoCrawl EXCEPT !.pc = "count",
                                       !.failed = crawl[p].failed \/ errs]
    <2>1. another.todo = {} /\ last.todo = {}
      BY DEF CrawlStarted, NoCrawl
    <2>2. Goto(p, another) \/ Goto(p, last)
      BY <1>3 DEF SourceDone
    <2> HIDE DEF another, last
    <2> QED BY <2>1, <2>2, GotoListed
  <1> QED BY <1>1, <1>2, <1>3

LEMMA CrawlAttested ==
    ASSUME UniverseTypeOK, Attested, NEW p \in Processes, CrawlStep(p)
    PROVE  Attested'
  <1> USE DEF Attested
  <1>0. crawl \in [Processes -> CrawlRows] /\ crawl[p] \in CrawlRows
    BY DEF UniverseTypeOK
  <1>a. profiles' = profiles => ActiveAttested'
    BY DEF ActiveAttested, Active
  <1>1. CASE FetchFails(p)
    BY <1>0, <1>a, <1>1, RestListed DEF FetchFails
  <1>2. CASE Fetch(p)
    <2> DEFINE crawled(feed, built) ==
                 [crawl[p] EXCEPT
                    !.pc = IF Reconciles(p) THEN "compare" ELSE "save",
                    !.feed = feed, !.todo = built, !.errs = built # feed]
               Rejected(row) == [row EXCEPT !.todo = {}, !.errs = TRUE]
    <2>0. PICK feed \in SUBSET ListedOn(crawl[p].source) \ {{}} :
            \E built \in SUBSET feed :
               \/ Goto(p, crawled(feed, built))
               \/ Goto(p, Rejected(crawled(feed, built)))
      BY <1>2 DEF Fetch, Built, BatchRejected
    <2>1. PICK built \in SUBSET feed :
               \/ Goto(p, crawled(feed, built))
               \/ Goto(p, Rejected(crawled(feed, built)))
      BY <2>0
    <2> DEFINE row == crawled(feed, built)
               rejected == Rejected(row)
    <2>2. row.todo \subseteq row.feed
      BY <1>0 DEF CrawlRows
    <2>3. CASE Goto(p, row)
      BY <1>0, <1>2, <1>a, <2>2, <2>3, GotoListed DEF Fetch
    <2>4. rejected.todo \subseteq rejected.feed
      BY <1>0 DEF CrawlRows
    <2>5. CASE Goto(p, rejected)
      BY <1>0, <1>2, <1>a, <2>4, <2>5, GotoListed DEF Fetch
    <2> QED BY <2>1, <2>3, <2>5
  <1>3. CASE Compare(p)
    <2>1. LET row == [crawl[p] EXCEPT
                        !.pc = "save",
                        !.snap = Active \cap ListedOn(crawl[p].source)]
          IN  row.todo \subseteq row.feed
      BY <1>0 DEF TodoListed, CrawlRows
    <2> QED BY <1>0, <1>3, <1>a, <2>1, GotoListed, RestListed DEF Compare
  <1>4. CASE Read(p)
    <2>1. PICK s \in crawl[p].todo :
            Goto(p, [crawl[p] EXCEPT !.seen = profiles[s].status])
      BY <1>4 DEF Read
    <2>2. LET row == [crawl[p] EXCEPT !.seen = profiles[s].status]
          IN  row.todo \subseteq row.feed
      BY <1>0 DEF TodoListed, CrawlRows
    <2> QED BY <1>0, <1>4, <1>a, <2>1, <2>2, GotoListed DEF Read
  <1>5. CASE Write(p)
    <2>1. PICK s \in crawl[p].todo :
            /\ \/ profiles' = profiles
               \/ Upserted(p, s)
            /\ \/ Goto(p, [crawl[p] EXCEPT !.todo = @ \ {s}, !.seen = "none",
                                           !.saved = @ \cup {s}])
               \/ NotSaved(p, s)
      BY <1>5 DEF Write
    <2>2. s \in crawl[p].feed
      BY DEF TodoListed
    <2>3. ASSUME Upserted(p, s) PROVE ActiveAttested'
      BY <2>2, <2>3
      DEF Upserted, Written, ActiveAttested, Active, UniverseTypeOK
    <2>4. LET row == [crawl[p] EXCEPT !.todo = @ \ {s}, !.seen = "none",
                                      !.saved = @ \cup {s}]
              other == [crawl[p] EXCEPT !.todo = @ \ {s}, !.seen = "none",
                                        !.errs = TRUE]
          IN  row.todo \subseteq row.feed /\ other.todo \subseteq other.feed
      BY <1>0 DEF TodoListed, CrawlRows
    <2>5. TodoListed'
      BY <1>0, <2>1, <2>4, GotoListed DEF NotSaved
    <2> QED BY <1>a, <2>1, <2>3, <2>5
  <1>6. CASE Reconcile(p)
    <2>1. /\ profiles' = profiles \/ profiles' = Marked(p)
          /\ \E errs : SourceDone(p, errs)
      BY <1>6 DEF Reconcile
    <2>2. ASSUME profiles' = Marked(p) PROVE ActiveAttested'
      BY <2>2 DEF Marked, ActiveAttested, Active
    <2> QED BY <1>0, <1>a, <2>1, <2>2, RestListed
  <1>7. CASE Count(p)
    <2>1. LET row == [NoCrawl EXCEPT
                        !.outcome = IF crawl[p].failed THEN "errors"
                                                       ELSE "clean"]
          IN  row.todo \subseteq row.feed
      BY DEF NoCrawl
    <2> QED BY <1>0, <1>7, <1>a, <2>1, GotoListed, RestListed DEF Count
  <1> QED
    BY <1>1, <1>2, <1>3, <1>4, <1>5, <1>6, <1>7 DEF CrawlStep

(***************************************************************************)
(* ActiveAttested for every feed, interleaving and failure: no crawl makes *)
(* active a symbol that the payload its provenance names does not list     *)
(* (upsert_tw_company_profile, SPEC-DATA-005).                             *)
(***************************************************************************)
THEOREM ActiveProfilesAttested == Spec => []ActiveAttested
  <1>1. Init => Attested
    BY DEF Init, UniverseInit, Attested, ActiveAttested, TodoListed, Active,
           NoCrawl
  <1>2. TypeOK /\ Attested /\ [Next]_vars => Attested'
    <2> SUFFICES ASSUME TypeOK, Attested, [Next]_vars PROVE Attested'
      OBVIOUS
    <2>0. /\ UniverseTypeOK
          /\ crawl \in [Processes -> CrawlRows]
          /\ Crawlers \subseteq Processes /\ Script \in Processes
      BY DEF TypeOK, UniverseTypeOK, Processes
    <2>1. CASE UNCHANGED <<profiles, crawl>>
      BY <2>1 DEF Attested, ActiveAttested, TodoListed, Active
    <2>2. ASSUME NEW p, NEW both, Goto(p, CrawlStarted(both)),
                 UNCHANGED profiles
          PROVE  Attested'
      BY <2>0, <2>2, RestListed DEF Attested, ActiveAttested, Active
    <2>3. CASE Crawling
      <3>1. CASE CrawlStep(Script)
        BY <2>0, <3>1, CrawlAttested
      <3>2. CASE UniverseStep
        BY <2>0, <2>2, <3>2, CrawlAttested DEF UniverseStep, Call
      <3> QED BY <2>3, <3>1, <3>2 DEF Crawling
    <2>4. CASE NextDate
      BY <2>1, <2>2, <2>4 DEF NextDate, CrawlUniverse
    <2>5. CASE Resolve
      BY <2>1, <2>2, <2>5 DEF Resolve, CrawlUniverse
    <2>6. CASE Start \/ Crawled \/ IngestDate \/ Finish \/ UNCHANGED vars
      BY <2>1, <2>6
      DEF Start, Crawled, IngestDate, Finish, vars, universeVars
    <2> QED BY <2>3, <2>4, <2>5, <2>6 DEF Next
  <1>3. Attested => ActiveAttested
    BY DEF Attested
  <1> QED BY <1>1, <1>2, <1>3, MarketTypes, PTL DEF Spec

-----------------------------------------------------------------------------
(***************************************************************************)
(* Completeness of the dates filed.  The inductive invariant: what is      *)
(* steady is active, and is in the universe a date is ingested with.       *)
(***************************************************************************)

Steady ==
    /\ steady \subseteq Active
    /\ batch.pc = "ingest" => steady \subseteq batch.universe

Complete == Steady /\ NoSilentHole

\* Filing a date keeps every date filed so far, and adds this one to a list.
LEMMA FiledLists ==
    ASSUME batch \in BatchRows, NEW r
    PROVE  LET row == Filed(Confirmed(Classified(r)))
           IN  /\ row.pc = "next"
               /\ row.succeeded = batch.succeeded
                    \/ /\ ~HasErrors(r) /\ ~BothDeclareNoData(r)
                       /\ row.succeeded = batch.succeeded \cup {batch.date}
               /\ row.skipped = batch.skipped
                    \/ /\ BothDeclareNoData(r)
                       /\ row.skipped = batch.skipped \cup {batch.date}
  <1> DEFINE row == Confirmed(Classified(r))
  <1>1. /\ Classified(r).succeeded = batch.succeeded
             \/ /\ ~HasErrors(r) /\ ~BothDeclareNoData(r)
                /\ Classified(r).succeeded = batch.succeeded \cup {batch.date}
        /\ Classified(r).skipped = batch.skipped
             \/ /\ BothDeclareNoData(r)
                /\ Classified(r).skipped = batch.skipped \cup {batch.date}
    BY DEF Classified, BatchRows
  <1>2. \/ Classified(r) = [batch EXCEPT !.failed = @ \cup {batch.date}]
        \/ Classified(r) = [batch EXCEPT !.skipped = @ \cup {batch.date}]
        \/ Classified(r) = [batch EXCEPT !.succeeded = @ \cup {batch.date}]
    BY DEF Classified
  <1>3. /\ row.succeeded = Classified(r).succeeded
        /\ row.skipped = Classified(r).skipped
        /\ Filed(row).pc = "next"
        /\ Filed(row).succeeded = row.succeeded
        /\ Filed(row).skipped = row.skipped
    BY <1>2 DEF Confirmed, Filed, BatchRows
  <1> QED BY <1>1, <1>3

\* The date of a report without errors has a bar of every steady symbol.
LEMMA IngestComplete ==
    ASSUME TypeOK, InRange, Complete, IngestDate
    PROVE  NoSilentHole'
  <1> USE DEF Complete, Steady
  <1>0. /\ batch \in BatchRows /\ batch.date \in Dates
        /\ steady \subseteq batch.universe /\ steady' = steady
        /\ Exchange \in [Symbols -> Exchanges] /\ steady \subseteq Symbols
    BY ExchangeAssumption DEF IngestDate, TypeOK, InRange
  <1>1. CASE DateFails /\ UNCHANGED bars
    <2>1. batch'.succeeded = batch.succeeded /\ batch'.skipped = batch.skipped
      BY <1>0, <1>1 DEF DateFails, Filed, BatchRows
    <2> QED BY <1>0, <1>1, <2>1 DEF NoSilentHole
  <1>2. ASSUME NEW r \in Answers(batch.date),
               bars' = bars \cup (Kept(r) \X {batch.date}),
               batch' = Filed(Confirmed(Classified(r)))
        PROVE  NoSilentHole'
    <2>1. ASSUME ~HasErrors(r), ~BothDeclareNoData(r)
          PROVE  steady \cap Traded[batch.date] \subseteq Kept(r)
      <3>1. \A e \in Exchanges : r[e] = "rows"
        BY <1>2, <2>1 DEF HasErrors, BothDeclareNoData, Answers, Reports
      <3> QED BY <1>0, <3>1 DEF Kept
    <2>2. BothDeclareNoData(r) => Traded[batch.date] = {}
      BY <1>2 DEF BothDeclareNoData, Answers
    <2>3. \A s \in Kept(r) : <<s, batch.date>> \in bars'
      BY <1>2
    <2>4. \A d \in batch.succeeded \cup batch.skipped :
              \A s \in steady \cap Traded[d] : <<s, d>> \in bars'
      BY <1>2 DEF NoSilentHole
    <2>5. /\ batch'.succeeded = batch.succeeded
               \/ /\ ~HasErrors(r) /\ ~BothDeclareNoData(r)
                  /\ batch'.succeeded = batch.succeeded \cup {batch.date}
          /\ batch'.skipped = batch.skipped
               \/ /\ BothDeclareNoData(r)
                  /\ batch'.skipped = batch.skipped \cup {batch.date}
      BY <1>0, <1>2, FiledLists
    <2>6. ASSUME NEW d \in batch'.succeeded \cup batch'.skipped,
                 NEW s \in steady \cap Traded[d]
          PROVE  <<s, d>> \in bars'
      <3>1. CASE d \in batch.succeeded \cup batch.skipped
        BY <2>4, <3>1
      <3>2. CASE d \notin batch.succeeded \cup batch.skipped
        <4>1. d = batch.date
          BY <2>5, <2>6, <3>2
        <4>2. ~HasErrors(r) /\ ~BothDeclareNoData(r)
          BY <2>2, <2>5, <2>6, <3>2, <4>1
        <4> QED BY <2>1, <2>3, <2>6, <4>1, <4>2
      <3> QED BY <3>1, <3>2
    <2> QED BY <1>0, <2>6 DEF NoSilentHole
  <1> QED BY <1>1, <1>2 DEF IngestDate

(***************************************************************************)
(* NoSilentHole for any range, universe and providers that keep ADR-0013's *)
(* premise: the script files no date as succeeded or as a holiday while a  *)
(* steady symbol that traded lacks its bar (ingest_tw_market_batch).       *)
(***************************************************************************)
THEOREM DatesHaveNoSilentHole == Spec => []NoSilentHole
  <1>1. Init => Complete
    BY DEF Init, Complete, Steady, NoSilentHole, NoBatch
  <1>2. TypeOK /\ InRange /\ Complete /\ [Next]_vars => Complete'
    <2> SUFFICES ASSUME TypeOK, InRange, Complete, [Next]_vars
                 PROVE  Complete'
      OBVIOUS
    <2> USE DEF Complete, Steady
    <2>0. batch \in BatchRows
      BY DEF TypeOK
    <2>1. CASE UNCHANGED vars
      BY <2>1 DEF vars, universeVars, NoSilentHole, Active
    <2>2. CASE Crawling
      BY <2>2 DEF Crawling, NoSilentHole
    <2>3. CASE Start
      <3>1. /\ batch'.pc = "next"
            /\ batch'.succeeded = {} /\ batch'.skipped = {}
        BY <2>3 DEF Start, NoBatch
      <3> QED BY <2>3, <3>1 DEF Start, universeVars, NoSilentHole, Active
    <2>4. ASSUME UNCHANGED <<profiles, bars, steady>>,
                 batch'.succeeded = batch.succeeded,
                 batch'.skipped = batch.skipped,
                 batch'.pc = "ingest" => batch'.universe = Active
          PROVE  Complete'
      BY <2>4 DEF NoSilentHole, Active
    <2>5. CASE NextDate
      BY <2>0, <2>4, <2>5 DEF NextDate, BatchRows
    <2>6. CASE Crawled
      BY <2>0, <2>4, <2>6 DEF Crawled, universeVars, BatchRows
    <2>7. CASE Resolve
      BY <2>0, <2>4, <2>7 DEF Resolve, DateFails, Filed, BatchRows
    <2>8. CASE IngestDate
      <3>1. /\ profiles' = profiles /\ steady' = steady
            /\ batch'.pc = "next"
        BY <2>0, <2>8, FiledLists
        DEF IngestDate, DateFails, Filed, BatchRows
      <3> QED BY <2>8, <3>1, IngestComplete DEF Active
    <2>9. CASE Finish
      BY <2>0, <2>4, <2>9 DEF Finish, universeVars, BatchRows
    <2> QED
      BY <2>1, <2>2, <2>3, <2>5, <2>6, <2>7, <2>8, <2>9 DEF Next
  <1>3. Complete => NoSilentHole
    BY DEF Complete
  <1> QED BY <1>1, <1>2, <1>3, TypedInRange, PTL DEF Spec

-----------------------------------------------------------------------------
(***************************************************************************)
(* A range without a failed date is ready.  The inductive invariant adds   *)
(* to Complete that every date behind the script is on one of its lists,   *)
(* and that no bar is of a date its symbol did not trade.                  *)
(***************************************************************************)

DatesFiled ==
    /\ \A d \in Dates : d < batch.date =>
           d \in batch.succeeded \cup batch.skipped \cup batch.failed
    /\ batch.pc = "over" => batch.date \notin Dates

BarsTraded == \A s \in Symbols, d \in Dates : <<s, d>> \in bars => s \in Traded[d]

\* Filing a date puts it on a list, and takes none off.
LEMMA FiledOnce ==
    ASSUME batch \in BatchRows, NEW r
    PROVE  LET row == Filed(Confirmed(Classified(r)))
               all == batch.succeeded \cup batch.skipped \cup batch.failed
           IN  /\ row.pc = "next" /\ row.date = batch.date + 1
               /\ row.succeeded \cup row.skipped \cup row.failed
                    = all \cup {batch.date}
  <1> DEFINE all == batch.succeeded \cup batch.skipped \cup batch.failed
             Lists(row) == row.succeeded \cup row.skipped \cup row.failed
             row == Classified(r)
  <1>1. /\ \/ row = [batch EXCEPT !.failed = @ \cup {batch.date}]
           \/ row = [batch EXCEPT !.skipped = @ \cup {batch.date}]
           \/ row = [batch EXCEPT !.succeeded = @ \cup {batch.date}]
    BY DEF Classified
  <1>2. Lists(row) = all \cup {batch.date} /\ row.date = batch.date
    BY <1>1 DEF BatchRows
  <1>3. /\ Filed(Confirmed(row)).pc = "next"
        /\ Filed(Confirmed(row)).date = row.date + 1
        /\ Lists(Filed(Confirmed(row))) = Lists(row)
    BY <1>1 DEF Confirmed, Filed, BatchRows
  <1> QED BY <1>2, <1>3

\* The date that raised is on the list of the failed ones.
LEMMA FailedOnce ==
    ASSUME batch \in BatchRows, DateFails
    PROVE  /\ batch'.pc = "next" /\ batch'.date = batch.date + 1
           /\ batch'.succeeded = batch.succeeded
           /\ batch'.skipped = batch.skipped
           /\ batch'.failed = batch.failed \cup {batch.date}
  BY DEF DateFails, Filed, BatchRows

LEMMA FiledInvariant == Spec => [](DatesFiled /\ BarsTraded)
  <1>1. Init => DatesFiled /\ BarsTraded
    BY DateAssumption DEF Init, DatesFiled, BarsTraded, NoBatch, Dates
  <1>2. TypeOK /\ InRange /\ DatesFiled /\ BarsTraded /\ [Next]_vars
            => DatesFiled' /\ BarsTraded'
    <2> SUFFICES ASSUME TypeOK, InRange, DatesFiled, BarsTraded, [Next]_vars
                 PROVE  DatesFiled' /\ BarsTraded'
      OBVIOUS
    <2>0. batch \in BatchRows /\ \A d \in Dates : d \in Nat
      BY DateAssumption DEF TypeOK, Dates
    <2>1. CASE UNCHANGED <<batch, bars>>
      BY <2>1 DEF DatesFiled, BarsTraded
    <2>2. ASSUME batch'.date = batch.date, batch'.pc # "over",
                 batch'.succeeded = batch.succeeded,
                 batch'.skipped = batch.skipped, batch'.failed = batch.failed,
                 UNCHANGED bars
          PROVE  DatesFiled' /\ BarsTraded'
      BY <2>2 DEF DatesFiled, BarsTraded
    <2>3. ASSUME batch'.date = batch.date + 1, batch'.pc = "next",
                 batch'.succeeded \cup batch'.skipped \cup batch'.failed =
                     batch.succeeded \cup batch.skipped \cup batch.failed
                         \cup {batch.date},
                 batch.date \in Dates
          PROVE  DatesFiled'
      <3>1. ASSUME NEW d \in Dates, d < batch.date + 1
            PROVE  d < batch.date \/ d = batch.date
        BY <2>0, <2>3, <3>1
      <3> QED BY <2>3, <3>1 DEF DatesFiled
    <2>4. CASE Start
      <3>1. batch'.date = 1 /\ batch'.pc = "next" /\ bars' = bars
        BY <2>4 DEF Start, NoBatch
      <3>2. \A d \in Dates : ~(d < 1)
        BY DateAssumption DEF Dates
      <3> QED BY <3>1, <3>2 DEF DatesFiled, BarsTraded
    <2>5. CASE NextDate
      BY <2>0, <2>2, <2>5 DEF NextDate, BatchRows
    <2>6. CASE Crawled
      BY <2>0, <2>2, <2>6 DEF Crawled, BatchRows
    <2>7. CASE Resolve
      <3>1. CASE DateFails
        BY <2>0, <2>3, <2>7, <3>1, FailedOnce DEF Resolve, InRange, BarsTraded
      <3>2. CASE ~DateFails
        BY <2>0, <2>2, <2>7, <3>2 DEF Resolve, BatchRows
      <3> QED BY <3>1, <3>2
    <2>8. CASE IngestDate
      <3>1. batch.date \in Dates
        BY <2>8 DEF IngestDate, InRange
      <3>2. CASE DateFails /\ UNCHANGED bars
        BY <2>0, <2>3, <3>1, <3>2, FailedOnce DEF BarsTraded
      <3>3. ASSUME NEW r, bars' = bars \cup (Kept(r) \X {batch.date}),
                   batch' = Filed(Confirmed(Classified(r)))
            PROVE  DatesFiled' /\ BarsTraded'
        <4>1. DatesFiled'
          BY <2>0, <2>3, <3>1, <3>3, FiledOnce
        <4>2. \A s \in Kept(r) : s \in Traded[batch.date]
          BY DEF Kept
        <4>3. ASSUME NEW s \in Symbols, NEW d \in Dates, <<s, d>> \in bars'
              PROVE  s \in Traded[d]
          BY <3>3, <4>2, <4>3 DEF BarsTraded
        <4> QED BY <4>1, <4>3 DEF BarsTraded
      <3> QED BY <2>8, <3>2, <3>3 DEF IngestDate
    <2>9. CASE Finish
      BY <2>0, <2>9 DEF Finish, DatesFiled, BarsTraded, BatchRows
    <2> QED
      BY <2>1, <2>4, <2>5, <2>6, <2>7, <2>8, <2>9
      DEF Next, Crawling, vars
  <1> QED BY <1>1, <1>2, TypedInRange, PTL DEF Spec

\* Full coverage of the dates that were open is readiness, whatever else the
\* bars hold.
LEMMA CoveredIsReady ==
    ASSUME TypeOK, BarsTraded, NEW s \in Symbols,
           \E d \in Dates : Traded[d] # {},
           \A d \in Dates : Traded[d] # {} => <<s, d>> \in bars
    PROVE  Readiness(s) = "ready"
  <1>1. \A d \in MarketDays : d \in CoveredDays(s)
    BY DEF MarketDays, CoveredDays, BarsTraded
  <1>2. CoveredDays(s) # {}
    BY DEF CoveredDays
  <1>3. MarketDays \ CoveredDays(s) = {}
    BY <1>1
  <1>4. \A d \in CoveredDays(s) : ~(d < d)
    BY DateAssumption DEF CoveredDays, Dates
  <1>5. StaleDays(s) = {}
    BY <1>1, <1>4 DEF StaleDays
  <1> QED BY <1>2, <1>3, <1>5 DEF Readiness

(***************************************************************************)
(* A range that ends without a failed date is ready for research, whatever *)
(* the exchanges answered, the crawls of other processes did to the        *)
(* universe and the storage refused (crawl_tw_daily_batch, readiness.py).  *)
(***************************************************************************)
THEOREM CleanRangesAreReady == Spec => []CleanRangeIsReady
  <1>1. TypeOK /\ DatesFiled /\ BarsTraded /\ NoSilentHole => CleanRangeIsReady
    <2> SUFFICES ASSUME TypeOK, DatesFiled, BarsTraded, NoSilentHole,
                        batch.pc = "over", batch.failed = {},
                        NEW s \in steady,
                        {d \in Dates : Traded[d] # {}} # {},
                        \A d \in {e \in Dates : Traded[e] # {}} : s \in Traded[d]
                 PROVE  Readiness(s) = "ready"
      BY DEF CleanRangeIsReady
    <2>1. s \in Symbols /\ batch \in BatchRows
      BY DEF TypeOK
    <2>2. \A d \in Dates : d < batch.date
      <3>1. batch.date \in 1..(LastDate + 1) /\ batch.date \notin 1..LastDate
        BY <2>1 DEF DatesFiled, BatchRows, Dates
      <3> QED BY <3>1, DateAssumption DEF Dates
    <2>3. \A d \in Dates : d \in batch.succeeded \cup batch.skipped
      BY <2>2 DEF DatesFiled
    <2>4. \A d \in Dates : Traded[d] # {} => <<s, d>> \in bars
      BY <2>3 DEF NoSilentHole
    <2> QED BY <2>1, <2>4, CoveredIsReady
  <1> QED BY <1>1, MarketTypes, FiledInvariant, DatesHaveNoSilentHole, PTL

-----------------------------------------------------------------------------
(***************************************************************************)
(* The confirmed refresh.  The inductive invariant: a refresh that is      *)
(* confirmed leaves no attempt to make; from the end of the script's own   *)
(* crawl until its date is filed the crawl keeps its outcome, as a date    *)
(* that refreshed does not bootstrap.                                      *)
(***************************************************************************)

Confirmable ==
    /\ batch.refreshed => batch.left = 0 /\ batch.pc # "idle"
    /\ batch.pc = "next" \/ batch.refreshing => ~batch.mayBootstrap
    /\ batch.pc \in {"resolve", "ingest"} /\ batch.refreshing
           /\ ~batch.refreshErr =>
               crawl[Script].pc = "idle" /\ crawl[Script].outcome = "clean"

\* The flag is set on a clean outcome, and never taken back.
KeepsConfirmed ==
    batch'.refreshed # batch.refreshed =>
        batch'.refreshed /\ crawl[Script].outcome = "clean"

\* Filing a date leaves no attempt if it confirms the refresh.
LEMMA FiledConfirms ==
    ASSUME batch \in BatchRows, NEW r
    PROVE  LET row == Filed(Confirmed(Classified(r)))
           IN  /\ row.pc = "next" /\ ~row.mayBootstrap
               /\ \/ row.refreshed = batch.refreshed /\ row.left = batch.left
                  \/ /\ batch.refreshing /\ ~batch.refreshErr
                     /\ row.refreshed /\ row.left = 0
  <1> DEFINE row == Classified(r)
  <1>1. /\ \/ row = [batch EXCEPT !.failed = @ \cup {batch.date}]
           \/ row = [batch EXCEPT !.skipped = @ \cup {batch.date}]
           \/ row = [batch EXCEPT !.succeeded = @ \cup {batch.date}]
    BY DEF Classified
  <1> HIDE DEF row
  <1>2. /\ row.refreshed = batch.refreshed /\ row.left = batch.left
        /\ row.refreshing = batch.refreshing
        /\ row.refreshErr = batch.refreshErr
    BY <1>1 DEF BatchRows
  <1>3. /\ Filed(Confirmed(row)).pc = "next"
        /\ ~Filed(Confirmed(row)).mayBootstrap
        /\ Filed(Confirmed(row)).refreshed = Confirmed(row).refreshed
        /\ Filed(Confirmed(row)).left = Confirmed(row).left
    BY <1>1 DEF Confirmed, Filed, BatchRows
  <1>4. \/ Confirmed(row) = row
        \/ /\ row.refreshing /\ ~row.refreshErr
           /\ Confirmed(row).refreshed /\ Confirmed(row).left = 0
    BY <1>1 DEF Confirmed, BatchRows
  <1> QED BY <1>2, <1>3, <1>4 DEF row

\* A crawl changes the row of its own process only, and only the batch script
\* starts the script's.
LEMMA ScriptRests ==
    ASSUME TypeOK, crawl[Script].pc = "idle", Crawling
    PROVE  crawl'[Script] = crawl[Script]
  <1>1. \A p, row : p # Script /\ Goto(p, row) => crawl'[Script] = crawl[Script]
    BY DEF Goto, TypeOK, UniverseTypeOK, Processes
  <1>2. ~CrawlStep(Script)
    BY DEF CrawlStep, FetchFails, Fetch, Compare, Read, Write, Reconcile, Count
  <1>3. PICK p \in Crawlers : Call(p) \/ CrawlStep(p)
    BY <1>2 DEF Crawling, UniverseStep
  <1>4. \E row : Goto(p, row)
    BY <1>3 DEF Call, CrawlStep, FetchFails, Fetch, Compare, Read, Write,
       Reconcile, Count, Raised, BatchRejected, NotSaved, SourceDone
  <1> QED BY <1>1, <1>3, <1>4, ScriptAssumption

LEMMA ConfirmablePreserved ==
    ASSUME TypeOK, Confirmable, [Next]_vars
    PROVE  Confirmable' /\ KeepsConfirmed
  <1> USE DEF Confirmable, KeepsConfirmed
  <1>0. batch \in BatchRows
    BY DEF TypeOK
  <1>1. CASE UNCHANGED vars
    BY <1>1 DEF vars, universeVars
  <1>2. CASE Crawling
    BY <1>2, ScriptRests DEF Crawling
  <1>3. CASE Start
    <2>1. batch'.refreshed = FALSE /\ ~batch'.mayBootstrap /\ batch'.pc = "next"
      BY <1>3 DEF Start, NoBatch
    <2>2. batch.refreshed = FALSE
      BY <1>0, <1>3 DEF Start, BatchRows
    <2> QED BY <2>1, <2>2
  <1>4. CASE NextDate
    <2>1. CASE MayRefresh
      <3>1. /\ batch'.refreshed = FALSE /\ batch'.pc = "crawl"
            /\ batch'.mayBootstrap = batch.mayBootstrap
        BY <1>0, <1>4, <2>1 DEF NextDate, BatchRows
      <3>2. batch.left # 0
        BY <1>0, <2>1 DEF MayRefresh, BatchRows
      <3>3. batch.refreshed = FALSE
        BY <1>0, <3>2 DEF BatchRows
      <3>4. ~batch.mayBootstrap
        BY <1>4 DEF NextDate
      <3> QED BY <3>1, <3>3, <3>4
    <2>2. CASE ~MayRefresh
      <3>1. /\ batch'.refreshed = batch.refreshed /\ batch'.left = batch.left
            /\ ~batch'.refreshing /\ batch'.pc = "resolve"
        BY <1>0, <1>4, <2>2 DEF NextDate, BatchRows
      <3> QED BY <3>1
    <2> QED BY <2>1, <2>2
  <1>5. CASE Crawled
    <2>1. /\ batch'.refreshed = batch.refreshed /\ batch'.left = batch.left
          /\ batch'.refreshing = batch.refreshing
          /\ batch'.mayBootstrap = batch.mayBootstrap
          /\ batch'.pc = "resolve"
          /\ batch'.refreshErr = (crawl[Script].outcome # "clean")
      BY <1>0, <1>5 DEF Crawled, BatchRows
    <2> QED BY <1>5, <2>1 DEF Crawled, universeVars
  <1>6. ASSUME DateFails PROVE Confirmable' /\ KeepsConfirmed
    <2>1. /\ batch'.refreshed = batch.refreshed /\ batch'.left = batch.left
          /\ batch'.pc = "next" /\ ~batch'.mayBootstrap
      BY <1>0, <1>6 DEF DateFails, Filed, BatchRows
    <2> QED BY <2>1
  <1>7. CASE Resolve
    <2>1. CASE batch' = [batch EXCEPT !.pc = "ingest", !.universe = Active]
               /\ UNCHANGED crawl
      BY <1>0, <1>7, <2>1 DEF Resolve, BatchRows
    <2>2. CASE /\ batch.mayBootstrap
               /\ batch' = [batch EXCEPT !.pc = "crawl", !.mayBootstrap = FALSE]
      BY <1>0, <2>2 DEF BatchRows
    <2> QED BY <1>6, <1>7, <2>1, <2>2 DEF Resolve
  <1>8. CASE IngestDate
    <2>1. ASSUME NEW r, batch' = Filed(Confirmed(Classified(r)))
          PROVE  Confirmable' /\ KeepsConfirmed
      <3>1. /\ batch'.pc = "next" /\ ~batch'.mayBootstrap
            /\ \/ batch'.refreshed = batch.refreshed /\ batch'.left = batch.left
               \/ /\ batch.refreshing /\ ~batch.refreshErr
                  /\ batch'.refreshed /\ batch'.left = 0
        BY <1>0, <2>1, FiledConfirms
      <3>2. batch.pc = "ingest"
        BY <1>8 DEF IngestDate
      <3> QED BY <3>1, <3>2
    <2> QED BY <1>6, <1>8, <2>1 DEF IngestDate
  <1>9. CASE Finish
    <2>1. /\ batch'.refreshed = batch.refreshed /\ batch'.left = batch.left
          /\ ~batch'.mayBootstrap /\ batch'.pc = "over"
      BY <1>0, <1>9 DEF Finish, BatchRows
    <2> QED BY <2>1
  <1> QED
    BY <1>1, <1>2, <1>3, <1>4, <1>5, <1>7, <1>8, <1>9 DEF Next

(***************************************************************************)
(* The summary reports a refresh of the universe only after a crawl of the *)
(* script that saved and reconciled both feeds without an error, whoever   *)
(* else crawls meanwhile, and keeps to it (crawl_tw_daily_batch).          *)
(***************************************************************************)
THEOREM RefreshIsConfirmed == Spec => RefreshConfirmed
  <1>1. Init => Confirmable
    BY DEF Init, NoBatch, Confirmable
  <1>2. TypeOK /\ Confirmable /\ [Next]_vars
            => Confirmable' /\ [KeepsConfirmed]_batch
    BY ConfirmablePreserved
  <1>3. TypeOK /\ Confirmable /\ [Next]_vars
            => Confirmable' /\ [batch'.refreshed # batch.refreshed =>
                  batch'.refreshed /\ crawl[Script].outcome = "clean"]_batch
    BY <1>2 DEF KeepsConfirmed
  <1> QED BY <1>1, <1>3, MarketTypes, PTL DEF Spec, RefreshConfirmed

-----------------------------------------------------------------------------
(***************************************************************************)
(* What a reconciliation may take.                                         *)
(***************************************************************************)

\* A feed that confirms Num / Den of what is known loses at most the rest.
LEMMA RestIsBounded ==
    ASSUME NEW lost, NEW kept, NEW known, IsFiniteSet(known),
           lost \subseteq known, kept \subseteq known, lost \cap kept = {},
           NEW num \in Nat, NEW den \in Nat,
           Cardinality(kept) * den >= Cardinality(known) * num
    PROVE  Cardinality(lost) * den <= Cardinality(known) * (den - num)
  <1> DEFINE l == Cardinality(lost)
             k == Cardinality(kept)
             n == Cardinality(known)
  <1>1. IsFiniteSet(lost) /\ IsFiniteSet(kept)
    BY FS_Subset
  <1>2. l \in Nat /\ k \in Nat /\ n \in Nat
    BY <1>1, FS_CardinalityType
  <1>3. Cardinality(lost \cup kept) = l + k
    <2>1. Cardinality(lost \cup kept) = l + k - Cardinality(lost \cap kept)
      BY <1>1, FS_Union
    <2>2. Cardinality(lost \cap kept) = 0
      BY FS_EmptySet
    <2> QED BY <1>2, <2>1, <2>2
  <1>4. l + k <= n
    <2>1. lost \cup kept \subseteq known
      OBVIOUS
    <2> QED BY <1>3, <2>1, FS_Subset
  <1> HIDE DEF l, k, n
  <1>5. l * den + k * den <= n * den
    BY <1>2, <1>4, SMTT(30)
  <1>6. n * (den - num) = n * den - n * num
    BY <1>2
  <1>7. k * den >= n * num
    BY DEF k, n
  <1>8. /\ l * den \in Nat /\ k * den \in Nat /\ n * den \in Nat /\ n * num \in Nat
    BY <1>2
  <1>9. l * den <= n * (den - num)
    BY <1>5, <1>6, <1>7, <1>8
  <1> QED BY <1>9 DEF l, n

\* A step that takes a symbol out of the universe is a reconciliation.
LEMMA LossIsReconciled ==
    ASSUME TypeOK, [Next]_vars, Active \ Active' # {}
    PROVE  \E p \in Processes :
              /\ Reconciles(p) /\ Covered(p)
              /\ profiles' = Marked(p)
              /\ \E row : Goto(p, row)
  <1>1. profiles' # profiles
    BY DEF Active
  <1>2. PICK p \in Processes : CrawlStep(p)
    BY <1>1 DEF Next, Crawling, UniverseStep, Call, Start, NextDate, Crawled,
       Resolve, IngestDate, Finish, vars, universeVars, Processes
  <1>3. \A s \in Symbols : Upserted(p, s) => Active \subseteq Active'
    <2> SUFFICES ASSUME NEW s \in Symbols, Upserted(p, s), NEW t \in Active
                 PROVE  t \in Active'
      OBVIOUS
    <2>1. profiles \in [Symbols -> ProfileRows] /\ t \in Symbols
          /\ profiles[t].status = "active"
      BY DEF TypeOK, UniverseTypeOK, Active
    <2>2. profiles'[t] = IF t = s THEN Written(p, s) ELSE profiles[t]
      BY <2>1 DEF Upserted
    <2>3. Written(p, t).status = "active"
      BY <2>1 DEF Written
    <2> QED BY <2>1, <2>2, <2>3 DEF Active
  <1>4. \A s \in crawl[p].todo : s \in Symbols
    BY DEF TypeOK, UniverseTypeOK, CrawlRows
  <1>5. ~Write(p)
    BY <1>1, <1>3, <1>4 DEF Write
  <1>6. Reconcile(p)
    BY <1>1, <1>2, <1>5 DEF CrawlStep, FetchFails, Fetch, Compare, Read, Count
  <1> QED BY <1>1, <1>6 DEF Reconcile, SourceDone

(***************************************************************************)
(* LossIsBounded for any ratio, universe and number of crawls at a time:   *)
(* no feed, however truncated, takes more of the profiles its crawl found  *)
(* active than the share it was allowed to miss                            *)
(* (_crawl_single_source).                                                 *)
(***************************************************************************)
THEOREM UniverseLossIsBounded == Spec => LossIsBounded
  <1> DEFINE Bound(p) == LET lost == Active \ Active'
                             known == crawl[p].snap
                         IN  crawl[p] # crawl'[p] /\ lost # {} =>
                                /\ Reconciles(p)
                                /\ Cardinality(lost \cap known) * CoverDen
                                     <= Cardinality(known) * (CoverDen - CoverNum)
  <1>1. ASSUME TypeOK, [Next]_vars, NEW q \in Processes PROVE Bound(q)
    <2> SUFFICES ASSUME Active \ Active' # {}, crawl[q] # crawl'[q]
                 PROVE  Bound(q)
      OBVIOUS
    <2> DEFINE known == crawl[q].snap
               lost == (Active \ Active') \cap known
               kept == crawl[q].saved \cap known
    <2>1. /\ Reconciles(q) /\ Covered(q) /\ profiles' = Marked(q)
      <3>1. PICK p \in Processes : /\ Reconciles(p) /\ Covered(p)
                                   /\ profiles' = Marked(p)
                                   /\ \E row : Goto(p, row)
        BY <1>1, LossIsReconciled
      <3>2. p = q
        BY <1>1, <3>1 DEF Goto, TypeOK, UniverseTypeOK
      <3> QED BY <3>1, <3>2
    <2>2. \A s \in crawl[q].saved : s \in Active => s \in Active'
      BY <2>1 DEF Marked, Active
    <2>3. IsFiniteSet(known)
      <3>1. known \subseteq Symbols
        BY <1>1 DEF TypeOK, UniverseTypeOK, CrawlRows
      <3> QED BY <3>1, SymbolAssumption, FS_Subset
    <2>4. lost \cap kept = {} /\ lost \subseteq known /\ kept \subseteq known
      BY <2>2
    <2>5. Cardinality(kept) * CoverDen >= Cardinality(known) * CoverNum
      <3>1. CASE known = {}
        <4>1. kept = {} /\ Cardinality({}) = 0
          BY <3>1, FS_EmptySet
        <4> QED BY <3>1, <4>1, RatioAssumption
      <3> QED BY <2>1, <3>1 DEF Covered
    <2>6. Cardinality(lost) * CoverDen
             <= Cardinality(known) * (CoverDen - CoverNum)
      BY <2>3, <2>4, <2>5, RatioAssumption, RestIsBounded
    <2> QED BY <2>1, <2>6
  <1>2. TypeOK /\ [Next]_vars => [\A p \in Processes : Bound(p)]_universeVars
    BY <1>1
  <1> QED BY <1>2, MarketTypes, PTL DEF Spec, LossIsBounded

=============================================================================
