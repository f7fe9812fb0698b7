---------------------------- MODULE RunExecution ----------------------------
(***************************************************************************)
(* What POST /api/v1/research/runs does between record_started and         *)
(* record_success (execution.py, _foundation_flow.py), for requests that   *)
(* several threads execute while factor catalogs, cluster snapshots and    *)
(* the kill switch change under them.  ResearchRun has the registry in     *)
(* full and the execution as one step; here the registry is one status and *)
(* the execution has its steps.  Every table is written in a transaction   *)
(* of its own, and a failure keeps what was written before it.             *)
(*                                                                         *)
(* One market, one factor catalog, one snapshot version and one profile of *)
(* each kind are named by all requests.  Scores are not modelled: any      *)
(* metric may be finite and any symbol may be held.                        *)
(***************************************************************************)
EXTENDS WalkForward, Sequences

CONSTANTS
    Threads,
    Asks,       \* the requests that each thread may be posted
    Factors,
    NoCatalog,
    Catalogs,   \* what create_factor_catalog may write
    Stocks,     \* what the tables may hold at first
    MaxCalls,   \* bound: runs begun
    MaxEvents   \* bound: catalogs, snapshots and switch events written under the runs,
                \* storage failures and restarts of the server

Methods == {"none", "holdout", "walk_forward", "rolling_window"}

Routes == {"research_only", "simulation_internal_v1", "live_stub_v1"}

\* ResearchRunCreateRequest, as far as it steers the execution.  Without
\* scoring_factor_ids the eligible factors of the catalog are used.
RunRequest ==
    [target : {"open_to_open", "close_to_close", "open_to_close"}, horizon : Nat \ {0},
     direction : BOOLEAN, strict : BOOLEAN, validation : Methods, splits : Nat \ {0},
     catalog : BOOLEAN, scoring : SUBSET Factors, peers : BOOLEAN,
     route : Routes, confirmed : BOOLEAN, adaptive : BOOLEAN]

\* A catalog lists factors, some of them for scoring.
CatalogRecord == [declared : SUBSET Factors, eligible : SUBSET Factors]

ASSUME ExecutionAssumption ==
    /\ Asks \in [Threads -> SUBSET RunRequest]
    /\ Catalogs \subseteq CatalogRecord
    /\ Stocks \subseteq [catalog : Catalogs \cup {NoCatalog}, snapshots : Nat,
                         adaptive : BOOLEAN]
    /\ MaxCalls \in Nat /\ MaxEvents \in Nat

Requests == UNION {Asks[t] : t \in Threads}

VARIABLES
    catalog,    \* factor_catalogs and their entries
    snapshots,  \* how many cluster snapshots there are; the last one is the newest
    halted,     \* the effective kill switch event of the market is enabled
    profiles,   \* the simulation and live control profiles that have a row
    adaptive,   \* the adaptive profile exists
    rows,       \* research_runs: run id to status, request and signals
    factorRows, \* factor_materializations
    usability,  \* factor_usability_observations
    peerRuns,   \* peer_feature_runs of a run
    orders,     \* execution_orders with their events, in the order of their ids
    exclusions, \* the runs of adaptive_surface_exclusions
    work,       \* the run each thread executes
    calls, events

stock   == <<catalog, snapshots, halted, adaptive>>
outputs == <<factorRows, usability, peerRuns, orders, exclusions>>
vars == <<frame, stock, profiles, rows, outputs, work, calls, events>>

-----------------------------------------------------------------------------
(***************************************************************************)
(* The stages of a run.                                                    *)
(***************************************************************************)
Stages == <<"idle", "start", "context", "profile", "adaptive", "peers", "load", "backtest",
            "validate", "materialize", "usability", "peer_run", "dispatch", "order", "exclude",
            "succeed", "settle">>

StageSet == {Stages[i] : i \in DOMAIN Stages}

Outcomes == {"none", "succeeded", "rejected", "failed"}

NoRequest == [route |-> "none"]

NoWork == [pc |-> "idle", id |-> 0, request |-> NoRequest, seen |-> FALSE,
           left |-> {}, factors |-> {}, fits |-> {}, latest |-> 0,
           signals |-> {}, halted |-> FALSE, outcome |-> "none"]

\* The stages that a run with this work goes through
Applies(w, stage) ==
    CASE stage = "validate" -> w.request.validation # "none"
      [] stage = "profile" -> w.request.route # "research_only"
      [] stage = "adaptive" -> w.request.adaptive
      [] stage = "peers" -> w.request.peers
      [] stage = "load" -> w.left # {}
      [] stage \in {"materialize", "usability"} -> w.factors # {}
      [] stage = "peer_run" -> w.request.peers
      [] stage = "dispatch" -> w.request.route # "research_only"
      [] stage = "order" -> w.request.route # "research_only" /\ w.left # {}
      [] stage = "exclude" -> w.request.adaptive
      [] OTHER -> TRUE

Index(stage) == CHOOSE i \in DOMAIN Stages : Stages[i] = stage

\* The work at the next stage that applies, this one again while symbols are left;
\* the fits of the last stage are done with.
Onward(w) ==
    LET again == w.pc \in {"load", "order"} /\ w.left # {}
        later == {i \in DOMAIN Stages : i > Index(w.pc) /\ Applies(w, Stages[i])}
        next  == CHOOSE i \in later : \A j \in later : i <= j
    IN  [w EXCEPT !.pc = IF again THEN w.pc ELSE Stages[next], !.fits = {}]

WithFits(w, fits) == [w EXCEPT !.fits = fits]

\* Symbols are taken in one order.
First(symbols) == CHOOSE s \in symbols : TRUE

Become(t, w) == work' = [work EXCEPT ![t] = w]

\* create_research_run: what was raised is recorded before it is raised on.
Ended(w, outcome) == [w EXCEPT !.pc = "settle", !.outcome = outcome]

Event == events < MaxEvents /\ events' = events + 1

\* A stage whose reads may fail
Reads(t, next) ==
    \/ Become(t, next) /\ UNCHANGED events
    \/ Event /\ Become(t, Ended(work[t], "failed"))

\* A transaction: it may fail before it is committed, and the reads that follow it
\* in the same function may fail after that.
Commits(t, written, unwritten, next) ==
    \/ written /\ Become(t, next) /\ UNCHANGED events
    \/ Event /\ (written \/ unwritten) /\ Become(t, Ended(work[t], "failed"))

-----------------------------------------------------------------------------
(***************************************************************************)
(* Before anything is fitted.                                              *)
(***************************************************************************)

\* create_research_run; record_started is its first write.
Post(t, q) ==
    /\ work[t] = NoWork
    /\ calls < MaxCalls
    /\ calls' = calls + 1
    /\ Become(t, [NoWork EXCEPT !.pc = "start", !.id = calls + 1, !.request = q])
    /\ UNCHANGED <<frame, stock, profiles, rows, outputs, events>>

\* Mutant: the status is that of the outcome, which a new run has none of.
OutcomeRow(w, status) == [status |-> w.outcome, request |-> w.request, signals |-> w.signals]

Row(w, status) == [status |-> status, request |-> w.request, signals |-> w.signals]

WriteRow(w, status) ==
    rows' = [id \in DOMAIN rows \cup {w.id} |-> IF id = w.id THEN Row(w, status) ELSE rows[id]]

Start(t) ==
    /\ work[t].pc = "start"
    /\ Commits(t, WriteRow(work[t], "running"), UNCHANGED rows, Onward(work[t]))
    /\ UNCHANGED <<frame, stock, profiles, outputs, calls>>

\* The factors a request scores with, of the catalog as it is now
Selected(q) == IF q.scoring # {} THEN q.scoring ELSE catalog.eligible

CatalogServes(q) ==
    q.catalog => catalog # NoCatalog /\ q.scoring \subseteq catalog.declared

\* The request is refused; resolve_runtime_strategy does so before anything is read.
Refused(t) == Become(t, Ended(work[t], "rejected")) /\ UNCHANGED events

\* resolve_runtime_strategy, build_run_foundation_context up to the profile
Context(t) ==
    /\ work[t].pc = "context"
    /\ LET q == work[t].request
       IN  \/ /\ CatalogServes(q)
              /\ Reads(t, Onward([work[t] EXCEPT !.seen = q.route \in profiles,
                                                 !.left = Symbols]))
           \/ Refused(t)
    /\ UNCHANGED <<frame, stock, profiles, rows, outputs, calls>>

\* ensure_simulation_profile, ensure_live_control_profile: a profile that was not
\* there is inserted, which the primary key refuses if another thread has done it.
Profile(t) ==
    LET w == work[t]
    IN  /\ w.pc = "profile"
        /\ IF ~w.seen /\ w.request.route \in profiles
           THEN Become(t, Ended(w, "failed")) /\ UNCHANGED <<profiles, events>>
           ELSE Commits(t, profiles' = profiles \cup {w.request.route},
                        UNCHANGED profiles, Onward(w))
        /\ UNCHANGED <<frame, stock, rows, outputs, calls>>

\* get_adaptive_profile
Adaptive(t) ==
    /\ work[t].pc = "adaptive"
    /\ IF adaptive THEN Reads(t, Onward(work[t])) ELSE Refused(t)
    /\ UNCHANGED <<frame, stock, profiles, rows, outputs, calls>>

\* build_run_peer_feature_map: features for the symbols of any snapshot, filled
\* forward, so that they leave no row incomplete.
Peers(t) ==
    /\ work[t].pc = "peers"
    /\ Reads(t, Onward(work[t]))
    /\ UNCHANGED <<frame, stock, profiles, rows, outputs, calls>>

-----------------------------------------------------------------------------
(***************************************************************************)
(* Models.                                                                 *)
(***************************************************************************)

\* load_symbol_data finds enough rows to fit on and to test on.
CanLoad(s, q) ==
    /\ Observed(s) # {}
    /\ q.catalog => catalog # NoCatalog /\ Selected(q) \subseteq catalog.declared
    /\ HasMainFold(ModelRows(s, q), q)

\* The symbol's materialized factors; a factor without values for the symbol leaves
\* no row to fit on.
Loaded(w, s) ==
    LET chosen == IF w.request.catalog THEN Selected(w.request) ELSE {}
    IN  [w EXCEPT !.left = @ \ {s}, !.factors = @ \cup {s} \X chosen]

MainFits(s, q) == Fits(s, MainFold(ModelRows(s, q), q), q)

\* build_feature_config before the first symbol, and load_symbol_data; each symbol
\* reads the catalog anew.
Load(t) ==
    LET w == work[t]
        q == work[t].request
        s == First(work[t].left)
        can == CanLoad(s, q)
    IN  /\ w.pc = "load"
        /\ \/ /\ can
              /\ Reads(t, WithFits(Onward(Loaded(w, s)), MainFits(s, q)))
           \/ Refused(t)
           \/ /\ can
              /\ Become(t, Ended(w, "failed")) /\ UNCHANGED events
        /\ UNCHANGED <<frame, stock, profiles, rows, outputs, calls>>

\* The rows a forward opinion may be formed on: unshifted ones are prospective.
ForwardRows(s, q) == IF q.strict THEN Unshifted(s) ELSE Shifted(s)

LastOf(dates) == CHOOSE d \in dates : \A e \in dates : e <= d

\* Mutant: the latest row is taken for that of the basis date.
AnyBasis(q, d) == TRUE

OnBasis(q, d) == q.strict => d = LastDate

\* build_forward_opinion_signals: the date all symbols have their latest row on, if
\* the classifiers of all of them can be fitted on all rows; there is one or none.
Latest(q) ==
    LET latest == {LastOf(ForwardRows(s, q)) : s \in {u \in Symbols : ForwardRows(u, q) # {}}}
        can    == /\ q.direction /\ Ahead(q) # 0
                  /\ \A s \in Symbols :
                         ForwardRows(s, q) # {} /\ CanCalibrate(ModelRows(s, q), q)
    IN  {d \in latest : can /\ latest = {d} /\ OnBasis(q, d)}

ForwardFits(q) ==
    {FitOn(s, DirectionFold(ModelRows(s, q), q), q) : s \in Symbols}

\* The symbols that are scored on the last date of the backtest
ScoredLast(q) ==
    LET tests == [s \in Symbols |-> MainFold(ModelRows(s, q), q).holdout]
        last  == LastOf(UNION {tests[s] : s \in Symbols})
    IN  {s \in Symbols : last \in tests[s]}

\* build_signals: whatever was held once, and what is scored on the last date
SignalSets(q) == {ScoredLast(q) \cup x : x \in SUBSET Symbols}

\* The fits of compute_validation_summary, which any fold may put an end to
Validated(q) ==
    IF HasValidationFolds(CommonDates(q), q)
    THEN ValidationFits(q)
    ELSE {}

\* What an unsound backtest ends in: metrics that are not finite, or an error
Unsound == {"rejected", "failed"}

\* The scores are put to a backtest, and an opinion may be formed that replaces the
\* signals of every symbol.
Backtest(t) ==
    LET w == work[t]
        q == work[t].request
    IN  /\ w.pc = "backtest"
        /\ \/ \E held \in SignalSets(q) :
                Become(t, Onward([w EXCEPT !.signals = held]))
           \/ \E d \in Latest(q) :
                Become(t, WithFits(Onward([w EXCEPT !.signals = Symbols, !.latest = d]),
                                   ForwardFits(q)))
           \/ \E outcome \in Unsound : Become(t, Ended(w, outcome))
        /\ UNCHANGED <<frame, stock, profiles, rows, outputs, calls, events>>

\* compute_validation_summary; a fold that cannot be evaluated is a warning.
Validate(t) ==
    LET w == work[t]
    IN  /\ w.pc = "validate"
        /\ Become(t, WithFits(Onward(w), Validated(w.request)))
        /\ UNCHANGED <<frame, stock, profiles, rows, outputs, calls, events>>

-----------------------------------------------------------------------------
(***************************************************************************)
(* Outputs.                                                                *)
(***************************************************************************)

\* persist_factor_materializations
Materialize(t) ==
    /\ work[t].pc = "materialize"
    /\ Commits(t, factorRows' = factorRows \cup ({work[t].id} \X work[t].factors),
               UNCHANGED factorRows, Onward(work[t]))
    /\ UNCHANGED <<frame, stock, profiles, rows, usability, peerRuns, orders, exclusions, calls>>

\* persist_run_factor_observations: one for a factor that has rows
Usable(w) == {w.id} \X {f[2] : f \in w.factors}

\* persist_factor_usability_observations
Usability(t) ==
    LET w == work[t]
    IN  /\ w.pc = "usability"
        /\ Commits(t, usability' = usability \cup Usable(w),
                   UNCHANGED usability, Onward(w))
        /\ UNCHANGED <<frame, stock, profiles, rows, factorRows, peerRuns, orders, exclusions,
                       calls>>

\* persist_run_peer_outputs: the newest snapshot there is by now
PeerRun(t) ==
    /\ work[t].pc = "peer_run"
    /\ IF snapshots = 0
       THEN Reads(t, Onward(work[t])) /\ UNCHANGED peerRuns
       ELSE Commits(t, peerRuns' = peerRuns \cup {<<work[t].id, snapshots>>},
                    UNCHANGED peerRuns, Onward(work[t]))
    /\ UNCHANGED <<frame, stock, profiles, rows, factorRows, usability, orders, exclusions, calls>>

\* dispatch_run_execution_route, up to its loop: the profile has been there since
\* the context was built, and the kill switch is read once.
Dispatch(t) ==
    LET w == work[t]
    IN  /\ w.pc = "dispatch"
        /\ Reads(t, Onward([w EXCEPT !.left = w.signals, !.halted = halted]))
        /\ UNCHANGED <<frame, stock, profiles, rows, outputs, calls>>

\* Mutant: the kill switch is read for every order.
HaltedNow(w) == halted

Halted(w) == w.halted

\* What becomes of an order; the risk check passes or fails.
Decisions(w) ==
    CASE w.request.route = "simulation_internal_v1" -> {"filled"}
      [] w.request.route = "live_stub_v1" /\ Halted(w) -> {"kill_switch_active"}
      [] w.request.route = "live_stub_v1" /\ ~Halted(w) /\ ~w.request.confirmed ->
             {"manual_confirmation_missing"}
      [] OTHER -> {"accepted_for_stub_dispatch", "risk_check_failed"}

\* A symbol may be held on without a score on the last date; its signal then has none.
MayBeUnscored(w, s) == w.latest = 0 /\ s \notin ScoredLast(w.request)

\* persist_execution_order: the order with its events, fills, positions and checks.
\* The price of an order cannot be computed without a score.
Order(t) ==
    LET w == work[t]
        s == First(work[t].left)
    IN  /\ w.pc = "order"
        /\ \/ \E decision \in Decisions(w) :
                Commits(t, orders' = Append(orders, [run |-> w.id, symbol |-> s,
                                                     decision |-> decision]),
                        UNCHANGED orders, Onward([w EXCEPT !.left = @ \ {s}]))
           \/ /\ MayBeUnscored(w, s)
              /\ Become(t, Ended(w, "failed")) /\ UNCHANGED <<orders, events>>
        /\ UNCHANGED <<frame, stock, profiles, rows, factorRows, usability, peerRuns, exclusions,
                       calls>>

\* record_run_adaptive_exclusion
Exclude(t) ==
    /\ work[t].pc = "exclude"
    /\ Commits(t, exclusions' = exclusions \cup {work[t].id}, UNCHANGED exclusions,
               Onward(work[t]))
    /\ UNCHANGED <<frame, stock, profiles, rows, factorRows, usability, peerRuns, orders, calls>>

\* record_success
Succeed(t) ==
    /\ work[t].pc = "succeed"
    /\ Commits(t, WriteRow(work[t], "succeeded"), UNCHANGED rows,
               [NoWork EXCEPT !.outcome = "succeeded"])
    /\ UNCHANGED <<frame, stock, profiles, outputs, calls>>

\* record_rejection, record_failure: as good as it goes
Settle(t) ==
    LET w == work[t]
    IN  /\ w.pc = "settle"
        /\ Become(t, [NoWork EXCEPT !.outcome = w.outcome])
        /\ \/ WriteRow([w EXCEPT !.signals = {}], w.outcome) /\ UNCHANGED events
           \/ Event /\ UNCHANGED rows
        /\ UNCHANGED <<frame, stock, profiles, outputs, calls>>

-----------------------------------------------------------------------------
(***************************************************************************)
(* What changes under a run.                                               *)
(***************************************************************************)
\* create_factor_catalog: the entries are deleted and written anew.
WriteCatalog ==
    /\ Event
    /\ \E c \in Catalogs \ {catalog} : catalog' = c
    /\ UNCHANGED <<frame, snapshots, halted, adaptive, profiles, rows, outputs, work, calls>>

\* create_cluster_snapshot
AddSnapshot ==
    /\ Event
    /\ snapshots' = snapshots + 1
    /\ UNCHANGED <<frame, catalog, halted, adaptive, profiles, rows, outputs, work, calls>>

\* create_kill_switch: the latest event of the market or of all markets counts.
Switch ==
    /\ Event
    /\ halted' = ~halted
    /\ UNCHANGED <<frame, catalog, snapshots, adaptive, profiles, rows, outputs, work, calls>>

\* The server is killed and started again.
Crash ==
    /\ Event
    /\ \E t \in Threads : work[t].pc # "idle"
    /\ work' = [t \in Threads |-> NoWork]
    /\ UNCHANGED <<frame, stock, profiles, rows, outputs, calls>>

Step(t) ==
    \/ Start(t) \/ Context(t) \/ Profile(t) \/ Adaptive(t) \/ Peers(t) \/ Load(t)
    \/ Backtest(t) \/ Validate(t) \/ Materialize(t) \/ Usability(t) \/ PeerRun(t) \/ Dispatch(t) \/ Order(t)
    \/ Exclude(t) \/ Succeed(t) \/ Settle(t)

Next ==
    \/ \E t \in Threads : Step(t) \/ \E q \in Asks[t] : Post(t, q)
    \/ WriteCatalog \/ AddSnapshot \/ Switch
    \/ Crash

Init ==
    /\ frame \in Frames
    /\ \E s \in Stocks : catalog = s.catalog /\ snapshots = s.snapshots /\ adaptive = s.adaptive
    /\ halted = FALSE
    /\ profiles = {}
    /\ rows = <<>>
    /\ factorRows = {} /\ usability = {} /\ peerRuns = {} /\ orders = <<>> /\ exclusions = {}
    /\ work = [t \in Threads |-> NoWork]
    /\ calls = 0 /\ events = 0

Spec == Init /\ [][Next]_vars

-----------------------------------------------------------------------------

(***************************************************************************)
(* Type invariant                                                          *)
(***************************************************************************)
OrderStates == {"filled", "kill_switch_active", "manual_confirmation_missing",
                "accepted_for_stub_dispatch", "risk_check_failed"}

FitRecord == [symbol : Symbols, settled : SUBSET Dates, tested : SUBSET Dates]

Work ==
    [pc : StageSet, id : 0..MaxCalls, request : Requests \cup {NoRequest}, seen : BOOLEAN,
     left : SUBSET Symbols, factors : SUBSET (Symbols \X Factors), fits : SUBSET FitRecord,
     latest : 0..LastDate, signals : SUBSET Symbols, halted : BOOLEAN, outcome : Outcomes]

TypeOK ==
    /\ frame \in Frames
    /\ catalog \in Catalogs \cup {NoCatalog}
    /\ snapshots \in Nat
    /\ halted \in BOOLEAN /\ adaptive \in BOOLEAN
    /\ profiles \subseteq Routes
    /\ DOMAIN rows \subseteq 1..MaxCalls
    /\ \A id \in DOMAIN rows : rows[id] \in
           [status : (Outcomes \ {"none"}) \cup {"running"}, request : Requests, signals : SUBSET Symbols]
    /\ factorRows \subseteq (1..MaxCalls) \X (Symbols \X Factors)
    /\ usability \subseteq (1..MaxCalls) \X Factors
    /\ peerRuns \subseteq (1..MaxCalls) \X Nat
    /\ orders \in Seq([run : 1..MaxCalls, symbol : Symbols, decision : OrderStates])
    /\ exclusions \subseteq 1..MaxCalls
    /\ work \in [Threads -> Work]
    /\ calls \in 0..MaxCalls /\ events \in 0..MaxEvents

(***************************************************************************)
(* No model is fitted on a label that settles on or after the first date   *)
(* it is tested or calibrated on: in the main split, in the folds on the   *)
(* common dates of symbols that miss different dates, and between a        *)
(* classifier's base and its calibration rows (time_series_split,          *)
(* generate_splits, fit_calibrated_direction_classifier).                  *)
(***************************************************************************)
LabelsSettledFirst ==
    \A t \in Threads : \A f \in work[t].fits :
        \A d \in f.settled, e \in f.tested : d < e

(***************************************************************************)
(* The forward opinion of a strict run is formed on a row that no model it *)
(* comes from has a label of; a latest row that undefined features have    *)
(* moved back would have one (build_forward_opinion_signals).              *)
(***************************************************************************)
ForwardIsProspective ==
    \A t \in Threads :
        LET w == work[t]
        IN  w.latest # 0 /\ w.request.strict =>
                \A s \in Symbols : w.latest \notin ModelRows(s, w.request)

\* The orders of a run
OrdersOf(id) == {i \in DOMAIN orders : orders[i].run = id}

\* A run's factors have their observations, and those it asked for are all there.
FactorsObserved(id) ==
    LET asked == rows[id].request.scoring
        made  == {r[2] : r \in {x \in factorRows : x[1] = id}}
    IN  /\ {f[2] : f \in made} = {u[2] : u \in {x \in usability : x[1] = id}}
        /\ rows[id].request.catalog /\ asked # {} => made = Symbols \X asked

\* A routed run has one order for each symbol with a signal, any other run none.
SignalsOrdered(id) ==
    LET row == rows[id]
        due == IF row.request.route = "research_only" THEN {} ELSE row.signals
    IN  /\ {orders[i].symbol : i \in OrdersOf(id)} = due
        /\ Cardinality(OrdersOf(id)) = Cardinality(due)

\* The kill switch stops all orders of a run or none.
DecidedOnce(id) ==
    \A i, j \in OrdersOf(id) :
        orders[i].decision = "kill_switch_active" =>
            orders[j].decision = "kill_switch_active"

(***************************************************************************)
(* A run stored as succeeded has every output it owes, once: observations  *)
(* of its factors, an order for each signal, all decided by one reading of *)
(* the kill switch, and, when it is adaptive, its exclusion from the       *)
(* default surfaces (execute_research_run, whose outputs are separate      *)
(* transactions before record_success).                                    *)
(***************************************************************************)
SucceededRunIsAccountedFor ==
    \A id \in DOMAIN rows : rows[id].status = "succeeded" =>
        /\ FactorsObserved(id)
        /\ SignalsOrdered(id)
        /\ DecidedOnce(id)
        /\ id \in exclusions <=> rows[id].request.adaptive

=============================================================================
