----------------------------- MODULE DataPlane -----------------------------
(***************************************************************************)
(* The market-data operations together: scheduled ingestion fills the raw  *)
(* audit and the daily bars that replays and recovery drills read, each in *)
(* its own processes and with no coordination but the database.            *)
(***************************************************************************)
EXTENDS ScheduledIngestion, RecoveryDrill

ingesting == <<scheduling, dispatch>>
restoring == <<drillTables, drilling>>

vars == <<audit, bars, faults, ingesting, restoring>>

Init == RawInit /\ IngestInit /\ DrillInit

Ingest(d) == IngestStep(d) /\ UNCHANGED restoring

Restore(w) == DrillStep(w) /\ UNCHANGED ingesting

Next ==
    \/ \E d \in Dispatchers : Ingest(d)
    \/ \E w \in Drillers : Restore(w)

Spec == Init /\ [][Next]_vars

\* Every variable stays in its type.
TypeOK == RawTypeOK /\ IngestTypeOK /\ DrillTypeOK

=============================================================================
