----------------------------- MODULE MCMatrices -----------------------------
(***************************************************************************)
(* Instances of MethodSelection and Calibration for TLC.  The two          *)
(* endpoints of the server share no state, so a behaviour has requests for *)
(* one of them.                                                            *)
(***************************************************************************)
EXTENDS MethodSelection

CONSTANTS a, b, m1, m2, c1, c2, c3, short, long

VARIABLES endpoint, calQuotes, calHorizon, calSlot, calWork, calMatrices, calCalls, calFaults

calVars == <<calQuotes, calHorizon, calSlot, calWork, calMatrices, calCalls, calFaults>>

Fifth == [num |-> 1, den |-> 5]
Quarter == [num |-> 1, den |-> 4]

Gaps(dates, q) == [s \in Symbols |-> [d \in Dates |-> IF d \in dates THEN q ELSE "valid"]]

\* The last leaves too few dates for inner folds.
MCHistories ==
    {Gaps({}, "none"), Gaps({6}, "none"), Gaps({6, 15}, "invalid")}

\* In the second, some folds have no rows; the third has no data.
CalHistories ==
    {Gaps({}, "none"), Gaps(13..16, "invalid"),
     Gaps(Dates, "none")}

\* The third candidate has a gate of its own, with a window that leaves rows to
\* fit it on in the second fold only.
C == INSTANCE Calibration WITH
         Histories <- CalHistories, Horizons <- {2, 5},
         Families <- <<m1, m2>>, Candidates <- <<c1, c2, c3>>,
         KeyOf <- [c \in {c1, c2, c3} |-> IF c = c3 THEN long ELSE short],
         Returns <- [k \in {short, long} |-> IF k = short THEN 1 ELSE 10],
         Splits <- 2, Share <- Fifth, TailShare <- Fifth, MinSamples <- 1,
         MaxCalls <- 1,
         quotes <- calQuotes, horizon <- calHorizon, slot <- calSlot, work <- calWork,
         matrices <- calMatrices, calls <- calCalls, faults <- calFaults

ASSUME CalibrationAssumption == C!CalibrationParameters

\* The dataset of the endpoint without requests does not matter.
MCInit ==
    /\ Init /\ C!Init
    /\ \/ /\ endpoint = "method-selection"
          /\ calHorizon = 2 /\ calQuotes = Gaps({}, "none")
       \/ /\ endpoint = "calibration"
          /\ horizon = 2 /\ quotes = Gaps({}, "none")

MCNext ==
    /\ \/ endpoint = "method-selection" /\ Next /\ UNCHANGED calVars
       \/ endpoint = "calibration" /\ C!Next /\ UNCHANGED vars
    /\ UNCHANGED endpoint

\* A thread inside a call is scheduled, and a model fit terminates.
MCSpec ==
    /\ MCInit /\ [][MCNext]_<<vars, calVars, endpoint>>
    /\ \A t \in Threads : WF_vars(Step(t)) /\ WF_calVars(C!Step(t))

\* The type invariants of the two modules
MatricesTypeOK == TypeOK /\ C!TypeOK

\* Calibration!OneCalibrationAtATime: its semaphore is held by the one thread
\* inside a calibration.
OneCalibrationAtATime == C!OneCalibrationAtATime

\* Calibration!GatesAreBlind: no gate was fitted on what it judges.
GatesAreBlind == C!GatesAreBlind

\* Calibration!MatrixIsWhole: a stored matrix has one result for everything, and
\* only a family's own earlier fold made it skip one.
MatrixIsWhole == C!MatrixIsWhole

\* Every accepted request, of either endpoint, is answered and gives its semaphore
\* back.
EveryRequestEnds ==
    \A t \in Threads : t \in slot \cup calSlot ~> t \notin slot \cup calSlot

=============================================================================
