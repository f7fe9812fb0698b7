--------------------------- MODULE TickGovernance ---------------------------
(***************************************************************************)
(* The phase gate of the tick archive (tick_governance.py), next to the    *)
(* calls that archive and replay: get_tick_phase_gate_summary reads the    *)
(* latest archived object in one session, looks for its file, and reads    *)
(* the object's latest restore in another session.  What it has read may   *)
(* be gone by the time it answers.                                         *)
(***************************************************************************)
EXTENDS TickArchive

VARIABLE gate  \* pc, the object looked up, and whether its file was there

gateVars == <<vars, gate>>

NoGate == [pc |-> "idle", object |-> <<0, 0>>, exists |-> FALSE]

\* Mutant: objects of runs that have not succeeded are looked up as well.
AllObjects == objects

ArchivedObjects == {o \in objects : Succeeded(o[1])}

\* Rows are inserted run after run and part after part.
LatestOf(set) ==
    CHOOSE o \in set :
        \A u \in set : u[1] < o[1] \/ (u[1] = o[1] /\ u[2] <= o[2])

\* The first session; without an object the gate fails.
LookUp ==
    /\ gate.pc = "idle"
    /\ ArchivedObjects # {}
    /\ gate' = [gate EXCEPT !.pc = "file", !.object = LatestOf(ArchivedObjects)]
    /\ UNCHANGED vars

\* archive_object_exists
CheckFile ==
    /\ gate.pc = "file"
    /\ gate' = [gate EXCEPT !.pc = "restore",
                            !.exists = <<gate.object[1], gate.object[2], "raw">> \in files]
    /\ UNCHANGED vars

RestoresOf(object) == {i \in DOMAIN restores : restores[i].object = object}

LatestRestoreSucceeded(object) ==
    /\ RestoresOf(object) # {}
    /\ LET last == CHOOSE i \in RestoresOf(object) : \A k \in RestoresOf(object) : k <= i
       IN  restores[last].status = "succeeded"

\* The artifacts that can fail for an object: raw_tick_archive,
\* normalized_replay_path and restore_telemetry
Artifacts == gate.exists /\ LatestRestoreSucceeded(gate.object) /\ gate.object \in observed

\* The second session and the answer; a replay too short to measure has no
\* throughput, an empty one no observations.
ReadRestore ==
    /\ gate.pc = "restore"
    /\ \/ gate' = NoGate
       \/ Artifacts /\ gate' = [gate EXCEPT !.pc = "passed"]
    /\ UNCHANGED vars

GateNext ==
    \/ Next /\ UNCHANGED gate
    \/ LookUp \/ CheckFile \/ ReadRestore

GateInit == Init /\ gate = NoGate

GateSpec == GateInit /\ [][GateNext]_gateVars

GateTypeOK ==
    /\ TypeOK
    /\ gate \in [pc : {"idle", "file", "restore", "passed"},
                 object : ObjectIds \cup {<<0, 0>>}, exists : BOOLEAN]

(***************************************************************************)
(* Without a failure of storage or a restart, a gate that passed stands:   *)
(* it looked at one part only, and read it in three steps, yet the caller  *)
(* of the whole run was told that it succeeded, all its parts are there,   *)
(* and the part it looked at is restored (get_tick_phase_gate_summary).    *)
(***************************************************************************)
PassedGateStands ==
    faults = 0 /\ gate.pc = "passed" =>
        LET run == gate.object[1]
        IN  run \in returned /\ Whole(run) /\ gate.object \in observed

=============================================================================
