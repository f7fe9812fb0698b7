--------------------------- MODULE MCResearchRun ---------------------------
(***************************************************************************)
(* Instances of ResearchRun for TLC.  The clock shows the day before the   *)
(* basis date, the basis date and the day after, so that a call can be     *)
(* computed, frozen, persisted or retried on either side of a midnight.    *)
(***************************************************************************)
EXTENDS ResearchRun

MCDayOf == [t \in 1..MaxTick |-> t]

MCBasisDay == [s \in Slots |-> 2]

\* The behaviours in which no two calls for one slot overlap; calls for no slot
\* come whenever they like.
SerialNext == Next /\ SlotCallsApart'

SerialSpec == Init /\ [][SerialNext]_vars

=============================================================================
