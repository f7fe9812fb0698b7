---------------------------- MODULE MCDataPlane ----------------------------
(***************************************************************************)
(* Instances of DataPlane for TLC: one symbol, whose slots all have it as  *)
(* their scope.  A behaviour has either storage failures and killed        *)
(* processes or operators at work, and then each entry has one attempt.    *)
(***************************************************************************)
EXTENDS DataPlane

VARIABLE staffed

MCScopeOf == [s \in DrillSlots |-> CHOOSE x \in Scopes : TRUE]

MCInit ==
    /\ Init
    /\ staffed \in {FALSE, Operators # {}}

MCNext ==
    /\ Next
    /\ IF staffed
       THEN UNCHANGED faults /\ \A d \in Dispatchers : task'[d].existing.count = 0
       ELSE \A w \in Operators : at'[w] = at[w]
    /\ UNCHANGED staffed

MCSpec == MCInit /\ [][MCNext]_<<vars, staffed>>

=============================================================================
