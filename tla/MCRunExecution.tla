--------------------------- MODULE MCRunExecution ---------------------------
(***************************************************************************)
(* The instance of RunExecution for TLC.  One thread has a strict run, one *)
(* with peers or an adaptive one, the other a plain live one that nobody   *)
(* has confirmed.                                                          *)
(***************************************************************************)
EXTENDS RunExecution

CONSTANTS t1, x, y, f1, f2

Fifth == [num |-> 1, den |-> 5]
Quarter == [num |-> 1, den |-> 4]

Stored(none, flat) ==
    [s \in Symbols |-> [d \in Dates |->
        IF <<s, d>> \in none THEN "none" ELSE IF <<s, d>> \in flat THEN "flat" ELSE "good"]]

\* The symbols miss different dates, one of them the last.
Uneven == Stored({<<y, 8>>, <<y, 11>>}, {<<x, 5>>})

\* The latest rows have no features.
FlatTail == Stored({}, Symbols \X {10, 11})

MCFrames == {Stored({}, {}), Uneven, FlatTail, Stored({y} \X Dates, {})}

\* A catalog may be written anew with fewer factors.
Full == [declared |-> {f1, f2}, eligible |-> {f1}]
Less == [declared |-> {f2}, eligible |-> {f2}]

MCStocks ==
    {[catalog |-> Full, snapshots |-> 1, adaptive |-> TRUE],
     [catalog |-> Full, snapshots |-> 0, adaptive |-> TRUE],
     [catalog |-> NoCatalog, snapshots |-> 0, adaptive |-> FALSE]}

Plain ==
    [target |-> "open_to_open", horizon |-> 2, direction |-> FALSE, strict |-> FALSE,
     validation |-> "none", splits |-> 2, catalog |-> FALSE, scoring |-> {},
     peers |-> FALSE, route |-> "live_stub_v1", confirmed |-> FALSE,
     adaptive |-> FALSE]

StrictRun ==
    [Plain EXCEPT !.horizon = 1, !.direction = TRUE, !.strict = TRUE,
                  !.validation = "walk_forward", !.route = "research_only"]

PeersRun ==
    [Plain EXCEPT !.direction = TRUE, !.catalog = TRUE, !.peers = TRUE,
                  !.validation = "holdout", !.route = "simulation_internal_v1"]

AdaptiveRun ==
    [Plain EXCEPT !.target = "open_to_close", !.direction = TRUE, !.catalog = TRUE,
                  !.scoring = {f1}, !.confirmed = TRUE, !.adaptive = TRUE,
                  !.validation = "rolling_window"]

MCCatalogs == {Full, Less}

MCAsks ==
    [t \in Threads |-> IF t = t1 THEN {StrictRun, PeersRun, AdaptiveRun} ELSE {Plain}]

\* Each state of the tables has the frames that its runs get on with.
MCInit ==
    /\ Init
    /\ frame = FlatTail <=> catalog = NoCatalog
    /\ frame = Uneven <=> catalog # NoCatalog /\ snapshots = 0

MCSpec == MCInit /\ [][Next]_vars

=============================================================================
