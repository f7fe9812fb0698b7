--------------------------- MODULE EvidenceLedger ---------------------------
(***************************************************************************)
(* What the strict prospective cohorts promise (docs/dev.md, "Strict       *)
(* Prospective Evidence Cohorts"), with no run, worker or database in      *)
(* sight: each slot - a cohort and a basis date - receives evidence at     *)
(* most once, the evidence was computed on the basis date and frozen no    *)
(* earlier than it was computed and still on that date, and evidence that  *)
(* counts is never replaced or withdrawn.                                  *)
(***************************************************************************)
EXTENDS Integers

CONSTANTS Slots, BasisDay, MaxTick, DayOf, Unpublished

VARIABLE evidence   \* what each slot offers to the evaluation

Evidence == [computed : 1..MaxTick, frozen : 1..MaxTick]

Prospective(s, e) ==
    /\ e.computed <= e.frozen
    /\ DayOf[e.computed] = BasisDay[s]
    /\ DayOf[e.frozen] = BasisDay[s]

Init == evidence = [s \in Slots |-> Unpublished]

Publish(s) ==
    /\ evidence[s] = Unpublished
    /\ evidence'[s] \in Evidence
    /\ Prospective(s, evidence'[s])

\* Slots are independent: when several calls end at once, as they do when the
\* server is killed, each slot they wrote shows its evidence.
Next ==
    /\ evidence' \in [Slots -> Evidence \cup {Unpublished}]
    /\ \A s \in Slots : evidence'[s] # evidence[s] => Publish(s)

Spec == Init /\ [][Next]_evidence

=============================================================================
