-------------------------- MODULE CompanyUniverse --------------------------
(***************************************************************************)
(* The current-active universe: the tw_company_profiles table and the      *)
(* crawls that fill and reconcile it from the two exchanges' listing feeds.*)
(*                                                                         *)
(* A crawl walks TWSE and then TPEX.  For each it fetches the feed, reads  *)
(* the active profiles (when it is to reconcile), saves the feed's records *)
(* one transaction each and, if nothing went wrong and the feed covers     *)
(* enough of what was active, marks every other active profile of the      *)
(* exchange inactive.  The HTTP endpoint never reconciles; the script and  *)
(* the batch ingestion do.                                                 *)
(*                                                                         *)
(* A payload is reduced to the set of symbols it lists, a profile to its   *)
(* status and the payload its provenance columns name.                     *)
(***************************************************************************)
EXTENDS Naturals, FiniteSets

CONSTANTS
    Symbols,     \* securities, as numbers: a batch is saved in symbol order
    Exchange,    \* the exchange each is listed on
    HttpCallers, \* threads of the HTTP endpoint
    Operators,   \* processes of the crawl script
    Script,      \* the process of the batch ingestion script
    CoverNum, CoverDen, \* the coverage ratio (0.95 in the source)
    MaxFaults    \* bound on storage failures

Exchanges == {"TWSE", "TPEX"}

ASSUME SymbolAssumption == Symbols \subseteq Nat /\ IsFiniteSet(Symbols)
ASSUME ExchangeAssumption == Exchange \in [Symbols -> Exchanges]
ASSUME RatioAssumption == CoverNum \in Nat /\ CoverDen \in Nat
ASSUME FaultAssumption == MaxFaults \in Nat

VARIABLES
    profiles,  \* tw_company_profiles, by symbol
    crawl,     \* the crawl each process is in, or its last
    faults

universeVars == <<profiles, crawl, faults>>

Crawlers == HttpCallers \cup Operators
Processes == Crawlers \cup {Script}

Statuses == {"absent", "active", "inactive"}
Steps == {"idle", "fetch", "compare", "save", "count"}
Outcomes == {"none", "clean", "errors", "raised"}

ProfileRows == [status : Statuses, feed : SUBSET Symbols]

CrawlRows == [pc : Steps,
              source : Exchanges,
              both : BOOLEAN,          \* include_tpex
              feed : SUBSET Symbols,   \* what the source listed
              todo : SUBSET Symbols,   \* records not yet saved
              seen : Statuses \cup {"none"}, \* the row an upsert has read
              saved : SUBSET Symbols,  \* active_symbols
              snap : SUBSET Symbols,   \* existing_active_symbols
              errs : BOOLEAN,          \* errors of this source
              failed : BOOLEAN,        \* errors of an earlier source
              outcome : Outcomes]

NoCrawl == [pc |-> "idle", source |-> "TWSE", both |-> FALSE, feed |-> {},
            todo |-> {}, seen |-> "none", saved |-> {}, snap |-> {},
            errs |-> FALSE, failed |-> FALSE, outcome |-> "none"]

UniverseInit ==
    /\ profiles = [s \in Symbols |-> [status |-> "absent", feed |-> {}]]
    /\ crawl = [p \in Processes |-> NoCrawl]
    /\ faults = 0

UniverseTypeOK ==
    /\ profiles \in [Symbols -> ProfileRows]
    /\ crawl \in [Processes -> CrawlRows]
    /\ faults \in 0..MaxFaults

Active == {s \in Symbols : profiles[s].status = "active"}

ListedOn(e) == {s \in Symbols : Exchange[s] = e}

\* A storage operation fails.
Fault == faults < MaxFaults /\ faults' = faults + 1

\* The HTTP boundary pins reconcile to FALSE.
Reconciles(p) == p \notin HttpCallers

Goto(p, row) == crawl' = [crawl EXCEPT ![p] = row]

CrawlStarted(both) == [NoCrawl EXCEPT !.pc = "fetch", !.both = both]

\* A request, or a run of the crawl script.  Only a request can leave TPEX out.
Call(p) ==
    /\ p \in Crawlers
    /\ crawl[p].pc = "idle"
    /\ \E both \in IF Reconciles(p) THEN {TRUE} ELSE BOOLEAN :
           Goto(p, CrawlStarted(both))
    /\ UNCHANGED <<profiles, faults>>

Raised(p) == Goto(p, [NoCrawl EXCEPT !.outcome = "raised"])

\* _fetch_company_feed.  A feed that lists no record does not parse.
FetchFails(p) ==
    /\ crawl[p].pc = "fetch"
    /\ Raised(p)
    /\ UNCHANGED <<profiles, faults>>

\* _build_profile_payload: some of the records may not build.
Built(feed) == SUBSET feed

\* _verify_tw_company_profile_batch: what was built is checked against the recorded
\* payload, and nothing is saved if that cannot be read.
BatchRejected(p, crawled) ==
    /\ Fault /\ crawled.todo # {}
    /\ Goto(p, [crawled EXCEPT !.todo = {}, !.errs = TRUE])

\* The feed may be truncated.  The recorded payload does not change, so the check
\* of the batch is part of this step.
Fetch(p) ==
    /\ crawl[p].pc = "fetch"
    /\ \E feed \in SUBSET ListedOn(crawl[p].source) \ {{}} :
       \E built \in Built(feed) :
           LET crawled == [crawl[p] EXCEPT
                             !.pc = IF Reconciles(p) THEN "compare" ELSE "save",
                             !.feed = feed, !.todo = built, !.errs = built # feed]
           IN  \/ Goto(p, crawled) /\ UNCHANGED faults
               \/ BatchRejected(p, crawled)
    /\ UNCHANGED profiles

\* existing_active_symbols, which only a reconciling crawl reads
Compare(p) ==
    /\ crawl[p].pc = "compare"
    /\ \/ /\ Goto(p, [crawl[p] EXCEPT
                        !.pc = "save",
                        !.snap = Active \cap ListedOn(crawl[p].source)])
          /\ UNCHANGED faults
       \/ Fault /\ Raised(p)
    /\ UNCHANGED profiles

\* The records of a batch are saved in symbol order.
IsCurrent(p, s) == \A t \in crawl[p].todo : s <= t

\* upsert_tw_company_profile, its SELECT
Read(p) ==
    /\ crawl[p].pc = "save"
    /\ crawl[p].seen = "none"
    /\ \E s \in crawl[p].todo :
           /\ IsCurrent(p, s)
           /\ Goto(p, [crawl[p] EXCEPT !.seen = profiles[s].status])
    /\ UNCHANGED <<profiles, faults>>

\* Mutant: an update leaves the provenance columns alone.
KeepsProvenance(p, s) == [status |-> "active", feed |-> profiles[s].feed]

\* The flush writes the columns that differ from the row that was read, so a
\* profile read as active keeps the status it has by now.
Written(p, s) ==
    [status |-> IF crawl[p].seen = "active" THEN profiles[s].status
                                            ELSE "active",
     feed |-> crawl[p].feed]

Upserted(p, s) == profiles' = [profiles EXCEPT ![s] = Written(p, s)]

\* The unique constraint refuses the insert of a row another crawl inserted.
Refused(p, s) == crawl[p].seen = "absent" /\ profiles[s].status # "absent"

NotSaved(p, s) ==
    Goto(p, [crawl[p] EXCEPT !.todo = @ \ {s}, !.seen = "none", !.errs = TRUE])

\* upsert_tw_company_profile, its commit and the refresh that follows
Write(p) ==
    /\ crawl[p].pc = "save"
    /\ crawl[p].seen # "none"
    /\ \E s \in crawl[p].todo :
           /\ IsCurrent(p, s)
           /\ \/ /\ ~Refused(p, s)
                 /\ Upserted(p, s)
                 /\ Goto(p, [crawl[p] EXCEPT !.todo = @ \ {s}, !.seen = "none",
                                             !.saved = @ \cup {s}])
                 /\ UNCHANGED faults
              \/ /\ Refused(p, s)
                 /\ NotSaved(p, s)
                 /\ UNCHANGED <<profiles, faults>>
              \/ /\ Fault
                 /\ NotSaved(p, s)
                 /\ UNCHANGED profiles \/ (~Refused(p, s) /\ Upserted(p, s))

\* Mutant: the ratio counts every saved profile, new listings too.
SavedEnough(p) ==
    \/ crawl[p].snap = {}
    \/ Cardinality(crawl[p].saved) * CoverDen
           >= Cardinality(crawl[p].snap) * CoverNum

\* The coverage guard of _crawl_single_source
Covered(p) ==
    \/ crawl[p].snap = {}
    \/ Cardinality(crawl[p].saved \cap crawl[p].snap) * CoverDen
           >= Cardinality(crawl[p].snap) * CoverNum

\* mark_missing_active_tw_company_profiles_inactive: one UPDATE
Marked(p) ==
    [s \in Symbols |->
        IF s \in (Active \cap ListedOn(crawl[p].source)) \ crawl[p].saved
        THEN [status |-> "inactive", feed |-> crawl[p].feed]
        ELSE profiles[s]]

\* On to the next source, or to the count that ends the crawl.
SourceDone(p, errs) ==
    Goto(p, IF crawl[p].source = "TWSE" /\ crawl[p].both
            THEN [CrawlStarted(TRUE) EXCEPT !.source = "TPEX",
                                            !.failed = errs]
            ELSE [NoCrawl EXCEPT !.pc = "count",
                                 !.failed = crawl[p].failed \/ errs])

Reconcile(p) ==
    /\ crawl[p].pc = "save"
    /\ crawl[p].todo = {}
    /\ \/ /\ Reconciles(p) /\ ~crawl[p].errs /\ Covered(p)
          /\ \/ /\ profiles' = Marked(p)
                /\ SourceDone(p, FALSE)
                /\ UNCHANGED faults
             \/ /\ Fault
                /\ SourceDone(p, TRUE)
                /\ UNCHANGED profiles
       \/ /\ Reconciles(p) /\ ~crawl[p].errs /\ ~Covered(p)
          /\ SourceDone(p, TRUE)
          /\ UNCHANGED <<profiles, faults>>
       \/ /\ ~Reconciles(p) \/ crawl[p].errs
          /\ SourceDone(p, crawl[p].errs)
          /\ UNCHANGED <<profiles, faults>>

\* count_active_tw_company_profiles, and the summary
Count(p) ==
    /\ crawl[p].pc = "count"
    /\ \/ /\ Goto(p, [NoCrawl EXCEPT
                        !.outcome = IF crawl[p].failed THEN "errors"
                                                       ELSE "clean"])
          /\ UNCHANGED faults
       \/ Fault /\ Raised(p)
    /\ UNCHANGED profiles

CrawlStep(p) ==
    \/ FetchFails(p) \/ Fetch(p) \/ Compare(p)
    \/ Read(p) \/ Write(p)
    \/ Reconcile(p) \/ Count(p)

UniverseStep == \E p \in Crawlers : Call(p) \/ CrawlStep(p)

-----------------------------------------------------------------------------

(***************************************************************************)
(* A profile in the active universe is listed by the payload its own       *)
(* provenance columns name: whatever crawls overlap, fail or reconcile, no *)
(* symbol becomes active that its evidence does not list                   *)
(* (upsert_tw_company_profile against the reconciling UPDATE).             *)
(***************************************************************************)
ActiveAttested == \A s \in Active : s \in profiles[s].feed

(***************************************************************************)
(* A profile the table holds as inactive is missing from the payload its   *)
(* provenance names: SPEC-DATA-005, membership in an approved feed is the  *)
(* evidence that a profile is active.                                      *)
(***************************************************************************)
InactiveWasMissing ==
    \A s \in Symbols :
        profiles[s].status = "inactive" => s \notin profiles[s].feed

(***************************************************************************)
(* Profiles leave the universe only in a crawl that may reconcile, and of  *)
(* those the crawl found active it takes at most the share its feed was    *)
(* allowed to miss.                                                        *)
(***************************************************************************)
LossIsBounded ==
    [][\A p \in Processes :
           LET lost == Active \ Active'
               known == crawl[p].snap
           IN  crawl[p] # crawl'[p] /\ lost # {} =>
                   /\ Reconciles(p)
                   /\ Cardinality(lost \cap known) * CoverDen
                        <= Cardinality(known) * (CoverDen - CoverNum)
      ]_universeVars

=============================================================================
