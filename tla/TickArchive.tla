---------------------------- MODULE TickArchive ----------------------------
(***************************************************************************)
(* Tick archives (tick_archives.py, tick_archive_storage.py): a dispatch   *)
(* crawls the symbols of a trading date in parts and an import takes one   *)
(* uploaded file.  A part is a raw file, a normalized file, perhaps a      *)
(* mirror on a mounted drive, and a row of tick_archive_objects.  Nothing  *)
(* spans database and files, so a dispatch that fails takes its rows and   *)
(* files back by hand.  A replay (tick_replay.py) stores the observations  *)
(* of an archived part and records a restore run.                          *)
(*                                                                         *)
(* Runs are of one trading date, and are begun one after the other; a      *)
(* replay may run at any time.  Every part has the same size.              *)
(***************************************************************************)
EXTENDS Integers, Sequences, FiniteSets

CONSTANTS
    MaxParts,    \* bound: chunks of symbols of a dispatch
    Profiles,    \* benchmark profiles, at least one; a replay without one is never counted
    Drives,      \* settings of the mirror: configured?  required?
    DayLimit,    \* the largest day a benchmark counts, in parts
    MaxRuns,     \* bound: archive runs
    MaxReplays,  \* bound: replays
    MaxFaults    \* bound: failures of storage, and restarts

ASSUME ArchiveAssumption ==
    /\ MaxParts \in Nat \ {0} /\ DayLimit \in Nat /\ Profiles # {}
    /\ Drives \subseteq [configured : BOOLEAN, required : BOOLEAN]
    /\ MaxRuns \in Nat /\ MaxReplays \in Nat /\ MaxFaults \in Nat

VARIABLES
    drive,     \* GOOGLE_DRIVE_TICK_ARCHIVE_ROOT, TICK_ARCHIVE_BACKUP_REQUIRED
    runs,      \* tick_archive_runs, by id; parts is 0 until a result is stored
    objects,   \* tick_archive_objects: run and part
    files,     \* the files there are: run, part and kind
    observed,  \* the objects whose tick_observations are stored
    restores,  \* tick_restore_runs, in the order they were inserted
    returned,  \* history: runs whose caller was told that they succeeded
    job,       \* the call that archives
    replay,    \* the call that replays
    replays, faults

tables == <<runs, objects, observed, restores>>
counts == <<replays, faults>>
vars == <<drive, tables, files, returned, job, replay, counts>>

Parts == 1..MaxParts
RunIds == 1..MaxRuns
Kinds == {"dispatch", "import"}

\* What is known of a part to a call: its files, and "row" for its object_id.
FileKinds == {"raw", "normalized", "mirror"}

\* Mutant: parts are counted from zero.
ZeroPart == 0

FirstPart == 1

NoJob == [pc |-> "idle", kind |-> "dispatch", run |-> 0, parts |-> 0, next |-> FirstPart,
          known |-> [p \in Parts |-> {}],
          failed |-> FALSE,   \* failures is not empty
          outer |-> FALSE,    \* in the last except clause
          unclean |-> FALSE,  \* cleanup_failures is not empty
          status |-> "failed"]

NoReplay == [pc |-> "idle", object |-> <<0, 0>>, profile |-> CHOOSE p \in Profiles : TRUE, status |-> "failed"]

-----------------------------------------------------------------------------
(***************************************************************************)
(* The steps of the call that archives.                                    *)
(***************************************************************************)
Fault == faults < MaxFaults /\ faults' = faults + 1

FileOf(j, kind) == <<j.run, j.next, kind>>

\* persist_tick_archive_run of the run at hand
WithRun(j, status, abort) ==
    [runs EXCEPT ![j.run] = [kind |-> j.kind, status |-> status, abort |-> abort,
                             parts |-> j.parts]]

\* _base_run_payload
NewRun(kind) == [kind |-> kind, status |-> "failed", abort |-> "none", parts |-> 0]

\* create_tick_archive_dispatch, create_tick_archive_import: a run is stored as
\* failed until it succeeds.  A refresh that fails leaves the row behind.
Begin ==
    /\ job.pc = "idle"
    /\ Len(runs) < MaxRuns
    /\ \E kind \in Kinds :
         LET stored == Append(runs, NewRun(kind))
             begun == [NoJob EXCEPT !.kind = kind, !.run = Len(stored)]
         IN  \/ /\ runs' = stored
                /\ job' = IF kind = "dispatch"
                          THEN [begun EXCEPT !.pc = "symbols"]
                          ELSE [begun EXCEPT !.pc = "raw", !.parts = 1]
                /\ UNCHANGED faults
             \/ /\ Fault
                /\ runs' \in {runs, stored}
                /\ UNCHANGED job
    /\ UNCHANGED <<drive, objects, files, observed, restores, returned, replay, replays>>

\* resolve_tw_tick_archive_symbols, in chunks; it may be empty or fail.
Symbols ==
    /\ job.pc = "symbols"
    /\ \/ /\ \E n \in Parts : job' = [job EXCEPT !.pc = "raw", !.parts = n]
          /\ UNCHANGED faults
       \/ /\ job' = [job EXCEPT !.pc = "rows", !.outer = TRUE]
          /\ UNCHANGED faults
    /\ UNCHANGED <<drive, tables, files, returned, replay, replays>>

\* Mutant: a dispatch succeeds if its last part does.
LastPartDecides(j, failed) == failed

\* failures
Failures(j, failed) == j.failed \/ failed

\* A part is through.  An import that fails leaves for its except clause.
PartDone(j, failed) ==
    LET some == Failures(j, failed)
        after == [j EXCEPT !.failed = some]
    IN  IF j.kind = "import" /\ failed
        THEN [after EXCEPT !.pc = "flag"]
        ELSE IF j.next < j.parts
             THEN [after EXCEPT !.pc = "raw", !.next = @ + 1]
             ELSE [after EXCEPT !.pc = IF some THEN "rows" ELSE "finish"]

Knows(j, what) == [j EXCEPT !.known[j.next] = @ \cup {what}]

\* A file is written and known from then on.  A write that fails may leave a
\* file behind that is not.
WriteFile(kind, next) ==
    \/ /\ files' = files \cup {FileOf(job, kind)}
       /\ job' = [Knows(job, kind) EXCEPT !.pc = next]
       /\ UNCHANGED faults
    \/ /\ Fault
       /\ files' \in {files, files \cup {FileOf(job, kind)}}
       /\ job' = PartDone(job, TRUE)

\* fetch_twse_public_snapshot, which may fail, and write_archive_part; or
\* write_uploaded_archive.
WriteRaw ==
    /\ job.pc = "raw"
    /\ \/ WriteFile("raw", IF job.kind = "import" THEN "parse" ELSE "normalize")
       \/ /\ job.kind = "dispatch"
          /\ job' = PartDone(job, TRUE)
          /\ UNCHANGED <<files, faults>>
    /\ UNCHANGED <<drive, tables, returned, replay, replays>>

\* An uploaded file is read back, parsed and compared with the request.
Parse ==
    /\ job.pc = "parse"
    /\ \E valid \in BOOLEAN :
           job' = IF valid THEN [job EXCEPT !.pc = "normalize"] ELSE PartDone(job, TRUE)
    /\ UNCHANGED <<drive, tables, files, returned, replay, counts>>

\* write_normalized_archive_part
WriteNormalized ==
    /\ job.pc = "normalize"
    /\ WriteFile("normalized", "mirror")
    /\ UNCHANGED <<drive, tables, returned, replay, replays>>

BackupRequired == drive.required

\* mirror_archive_to_google_drive, and _collect_backup_metadata of what it
\* returns or raises.  The key of a copy that fails is not known.
Mirror ==
    /\ job.pc = "mirror"
    /\ \/ /\ drive.configured
          /\ files' = files \cup {FileOf(job, "mirror")}
          /\ job' = [Knows(job, "mirror") EXCEPT !.pc = "row"]
          /\ UNCHANGED faults
       \/ /\ drive.configured
          /\ Fault
          /\ files' \in {files, files \cup {FileOf(job, "mirror")}}
          /\ job' = IF BackupRequired THEN PartDone(job, TRUE) ELSE [job EXCEPT !.pc = "row"]
       \/ /\ ~drive.configured
          /\ job' = IF BackupRequired THEN PartDone(job, TRUE) ELSE [job EXCEPT !.pc = "row"]
          /\ UNCHANGED <<files, faults>>
    /\ UNCHANGED <<drive, tables, returned, replay, replays>>

\* persist_tick_archive_object: after a refresh that fails the row is stored
\* and its id is not known.
InsertRow ==
    /\ job.pc = "row"
    /\ LET stored == objects \cup {<<job.run, job.next>>}
       IN  \/ /\ objects' = stored
              /\ job' = PartDone(Knows(job, "row"), FALSE)
              /\ UNCHANGED faults
           \/ /\ Fault
              /\ objects' \in {objects, stored}
              /\ job' = PartDone(job, TRUE)
    /\ UNCHANGED <<drive, runs, files, observed, restores, returned, replay, replays>>

\* The run is stored as succeeded, which may fail on either side of the commit.
Finish ==
    /\ job.pc = "finish"
    /\ LET stored == WithRun(job, "succeeded", "none")
       IN  \/ /\ runs' = stored
              /\ returned' = returned \cup {job.run}
              /\ job' = NoJob
              /\ UNCHANGED faults
           \/ /\ Fault
              /\ runs' \in {runs, stored}
              /\ job' = IF job.kind = "import"
                        THEN [job EXCEPT !.pc = "flag", !.status = "succeeded"]
                        ELSE [job EXCEPT !.pc = "rows", !.outer = TRUE]
              /\ UNCHANGED returned
    /\ UNCHANGED <<drive, objects, files, observed, restores, replay, replays>>

-----------------------------------------------------------------------------
(***************************************************************************)
(* Taking a failed archive back.                                           *)
(***************************************************************************)

\* The rows a call knows the ids of
KnownRows(j) == {<<j.run, p>> : p \in {p \in Parts : "row" \in j.known[p]}}

\* Mutant: sidecars are forgotten.
RawOnly(j) ==
    UNION {{<<j.run, p, k>> : k \in j.known[p] \cap {"raw"}} : p \in Parts}

\* The files a call knows of
KnownFiles(j) ==
    UNION {{<<j.run, p, k>> : k \in j.known[p] \cap FileKinds} : p \in Parts}

\* Objects a restore run refers to: ON DELETE RESTRICT
Referenced == {restores[i].object : i \in DOMAIN restores}

\* cleanup_failures, after which files are deleted all the same.
Refused(j) == [j EXCEPT !.pc = "files", !.unclean = TRUE]

\* _cleanup_tick_archive_parts: the rows go in one transaction or stay.
DeleteRows ==
    /\ job.pc = "rows"
    /\ \/ /\ KnownRows(job) \cap Referenced = {}
          /\ objects' = objects \ KnownRows(job)
          /\ job' = [job EXCEPT !.pc = "files"]
          /\ UNCHANGED faults
       \/ /\ KnownRows(job) \cap Referenced # {}
          /\ job' = Refused(job)
          /\ UNCHANGED <<objects, faults>>
       \/ /\ KnownRows(job) # {}
          /\ Fault
          /\ job' = Refused(job)
          /\ UNCHANGED objects
    /\ UNCHANGED <<drive, runs, files, observed, restores, returned, replay, replays>>

\* The order of files, which a dispatch follows and an import reverses
Before(f, g) ==
    LET place(k) == CASE k = "mirror" -> 1 [] k = "normalized" -> 2 [] k = "raw" -> 3
    IN  IF job.kind = "import"
        THEN place(g[3]) < place(f[3])
        ELSE f[2] < g[2] \/ (f[2] = g[2] /\ place(f[3]) < place(g[3]))

\* Files go one by one.  An operating system error ends the cleanup of an
\* import, and of a dispatch in its last except clause; before, it leads there.
DeleteFile ==
    /\ job.pc = "files"
    /\ \/ /\ \E f \in KnownFiles(job) \cap files :
                /\ \A g \in KnownFiles(job) \cap files : ~Before(g, f)
                /\ files' = files \ {f}
          /\ UNCHANGED <<job, faults>>
       \/ /\ KnownFiles(job) \cap files = {}
          /\ job' = IF job.kind = "import" THEN NoJob ELSE [job EXCEPT !.pc = "report"]
          /\ UNCHANGED <<files, faults>>
       \/ /\ KnownFiles(job) \cap files # {}
          /\ Fault
          /\ job' = IF job.kind = "import" \/ job.outer
                    THEN NoJob
                    ELSE [job EXCEPT !.pc = "rows", !.outer = TRUE, !.unclean = FALSE]
          /\ UNCHANGED files
    /\ UNCHANGED <<drive, tables, returned, replay, replays>>

\* Mutant: the row is left as it was.
Unreported(j) == runs

\* The failure as a row
Reported(j) == WithRun(j, "failed", IF j.unclean THEN "unclean" ELSE "failed")

\* _persist_tick_archive_failure, whose own failure is swallowed.
Report ==
    /\ job.pc = "report"
    /\ \/ runs' = Reported(job) /\ UNCHANGED faults
       \/ Fault /\ runs' \in {runs, Reported(job)}
    /\ job' = NoJob
    /\ UNCHANGED <<drive, objects, files, observed, restores, returned, replay, replays>>

\* The except clause of an import stores the run with the status at hand and a
\* reason, before it deletes files; it deletes no row.
Flag ==
    /\ job.pc = "flag"
    /\ LET stored == WithRun(job, job.status, "failed")
       IN  \/ /\ runs' = stored
              /\ job' = [job EXCEPT !.pc = "files"]
              /\ UNCHANGED faults
           \/ /\ Fault
              /\ runs' \in {runs, stored}
              /\ job' = NoJob
    /\ UNCHANGED <<drive, objects, files, observed, restores, returned, replay, replays>>

-----------------------------------------------------------------------------
(***************************************************************************)
(* The call that replays.                                                  *)
(***************************************************************************)

\* create_tick_replay: the row of the object is found; its run is not looked at.
StartReplay ==
    /\ replay.pc = "idle"
    /\ replays < MaxReplays
    /\ replays' = replays + 1
    /\ \E o \in objects, p \in Profiles :
           replay' = [NoReplay EXCEPT !.pc = "read", !.object = o, !.profile = p]
    /\ UNCHANGED <<drive, tables, files, returned, job, faults>>

\* read_archive_entries
ReadArchive ==
    /\ replay.pc = "read"
    /\ LET there == <<replay.object[1], replay.object[2], "raw">> \in files
       IN  replay' = [replay EXCEPT !.pc = IF there THEN "replace" ELSE "abort"]
    /\ UNCHANGED <<drive, tables, files, returned, job, counts>>

StatusBeforeReplace == "failed"

\* replace_tick_observations: old rows go and new ones come in one transaction,
\* which may fail for a duplicate.
Replace ==
    /\ replay.pc = "replace"
    /\ \/ /\ observed' = observed \cup {replay.object}
          /\ replay' = [replay EXCEPT !.pc = "record", !.status = "succeeded"]
       \/ /\ replay' = [replay EXCEPT !.pc = "abort", !.status = StatusBeforeReplace]
          /\ UNCHANGED observed
    /\ UNCHANGED <<drive, runs, objects, restores, files, returned, job, counts>>

\* persist_tick_restore_run; the object must still be there.
Restored(abort) ==
    Append(restores, [object |-> replay.object, profile |-> replay.profile,
                      status |-> replay.status, abort |-> abort])

\* The row of a replay that went well
Record ==
    /\ replay.pc = "record"
    /\ \/ /\ replay.object \in objects
          /\ restores' = Restored(FALSE)
          /\ replay' = NoReplay
          /\ UNCHANGED faults
       \/ /\ replay.object \notin objects
          /\ replay' = [replay EXCEPT !.pc = "abort"]
          /\ UNCHANGED <<restores, faults>>
       \/ /\ replay.object \in objects
          /\ Fault
          /\ restores' \in {restores, Restored(FALSE)}
          /\ replay' = [replay EXCEPT !.pc = "abort"]
    /\ UNCHANGED <<drive, runs, objects, observed, files, returned, job, replays>>

\* The except clause: a row with a reason and the status at hand; if it cannot be
\* stored, none.
Abort ==
    /\ replay.pc = "abort"
    /\ \/ /\ replay.object \in objects
          /\ restores' = Restored(TRUE)
          /\ UNCHANGED faults
       \/ /\ replay.object \notin objects
          /\ UNCHANGED <<restores, faults>>
       \/ /\ replay.object \in objects
          /\ Fault
          /\ restores' \in {restores, Restored(TRUE)}
    /\ replay' = NoReplay
    /\ UNCHANGED <<drive, runs, objects, observed, files, returned, job, replays>>

\* The process that runs both is killed and started again.
Crash ==
    /\ job.pc # "idle" \/ replay.pc # "idle"
    /\ Fault
    /\ job' = NoJob /\ replay' = NoReplay
    /\ UNCHANGED <<drive, tables, files, returned, replays>>

Archiving ==
    \/ Symbols \/ WriteRaw \/ Parse \/ WriteNormalized \/ Mirror \/ InsertRow \/ Finish
    \/ DeleteRows \/ DeleteFile \/ Report \/ Flag

Replaying == ReadArchive \/ Replace \/ Record \/ Abort

Next == Begin \/ Archiving \/ StartReplay \/ Replaying \/ Crash

Init ==
    /\ drive \in Drives
    /\ runs = <<>> /\ objects = {} /\ files = {} /\ observed = {} /\ restores = <<>>
    /\ returned = {}
    /\ job = NoJob /\ replay = NoReplay
    /\ replays = 0 /\ faults = 0

Spec == Init /\ [][Next]_vars

-----------------------------------------------------------------------------
(***************************************************************************)
(* The benchmark windows of get_tick_ops_kpi_summary (tick_ops.py).        *)
(***************************************************************************)
Succeeded(run) == runs[run].status = "succeeded"

\* _select_latest_archive_run_objects: the last run of the date to succeed
LatestObjects ==
    LET counted == {o \in objects : Succeeded(o[1])}
    IN  {o \in counted : \A u \in counted : u[1] <= o[1]}

\* Restores of a profile that the summary reads
BenchmarkRestores(profile) ==
    {i \in DOMAIN restores :
        /\ restores[i].profile = profile
        /\ restores[i].status = "succeeded"
        /\ Succeeded(restores[i].object[1])}

\* Objects of the latest run restored with the profile, each counted once
RestoredWith(profile) ==
    {restores[i].object : i \in BenchmarkRestores(profile)} \cap LatestObjects

\* Mutant: a replay that is repeated counts twice.
RestoredRows(profile) ==
    Cardinality({i \in BenchmarkRestores(profile) : restores[i].object \in LatestObjects})

RestoredSize(profile) == Cardinality(RestoredWith(profile))

\* _build_benchmark_windows: the profiles that have a window on the date
Windows ==
    LET day == Cardinality(LatestObjects)
    IN  {p \in Profiles :
            0 < day /\ day <= DayLimit /\ RestoredSize(p) >= day}

-----------------------------------------------------------------------------
(***************************************************************************)
(* Type invariant                                                          *)
(***************************************************************************)
ObjectIds == RunIds \X Parts

TypeOK ==
    /\ drive \in Drives
    /\ runs \in Seq([kind : Kinds, status : {"failed", "succeeded"},
                     abort : {"none", "failed", "unclean"}, parts : 0..MaxParts])
    /\ objects \subseteq ObjectIds /\ observed \subseteq ObjectIds
    /\ files \subseteq RunIds \X Parts \X FileKinds
    /\ restores \in Seq([object : ObjectIds, profile : Profiles,
                         status : {"failed", "succeeded"}, abort : BOOLEAN])
    /\ returned \subseteq RunIds
    /\ job \in [pc : {"idle", "symbols", "raw", "parse", "normalize", "mirror", "row",
                      "finish", "rows", "files", "report", "flag"},
                kind : Kinds, run : 0..MaxRuns, parts : 0..MaxParts, next : Parts,
                known : [Parts -> SUBSET (FileKinds \cup {"row"})],
                failed : BOOLEAN, outer : BOOLEAN, unclean : BOOLEAN,
                status : {"failed", "succeeded"}]
    /\ replay \in [pc : {"idle", "read", "replace", "record", "abort"},
                   object : ObjectIds \cup {<<0, 0>>}, profile : Profiles,
                   status : {"failed", "succeeded"}]
    /\ replays \in 0..MaxReplays /\ faults \in 0..MaxFaults

\* Every part of the run has its row and its local files, and its mirror if one
\* is required.
Whole(run) ==
    \A p \in 1..runs[run].parts :
        /\ <<run, p>> \in objects
        /\ <<run, p, "raw">> \in files /\ <<run, p, "normalized">> \in files
        /\ drive.required => <<run, p, "mirror">> \in files

(***************************************************************************)
(* A run whose caller was told it succeeded keeps that status and all its  *)
(* parts from then on, whatever happens to other runs, to replays of it    *)
(* and to the process (create_tick_archive_dispatch, _import).             *)
(***************************************************************************)
ReturnedArchiveIsKept ==
    \A run \in returned :
        /\ runs[run] = [runs[run] EXCEPT !.status = "succeeded", !.abort = "none"]
        /\ Whole(run)

(***************************************************************************)
(* Any number of failed fetches and bad uploads and one failure of storage *)
(* or restart never leave a run stored as succeeded, with no reason beside *)
(* it, whose parts are not there, once its call is over.                   *)
(***************************************************************************)
OneFaultHidesNothing ==
    faults <= 1 =>
        \A run \in DOMAIN runs :
            job.run # run /\ Succeeded(run) /\ runs[run].abort = "none" => Whole(run)

(***************************************************************************)
(* Without a failure of storage, a dispatch stored as failed with a reason *)
(* that names no cleanup failure has left neither rows nor files, also of  *)
(* the parts that went well before the failed one.                         *)
(***************************************************************************)
FailedDispatchIsTakenBack ==
    faults = 0 =>
        \A run \in DOMAIN runs :
            runs[run].kind = "dispatch" /\ runs[run].abort = "failed" =>
                /\ \A o \in objects : o[1] # run
                /\ \A f \in files : f[1] # run

(***************************************************************************)
(* A benchmark window stands for a full day: every object of the latest    *)
(* succeeded run of the date was restored with the profile, however often  *)
(* parts of it, or of an earlier run, were replayed.                       *)
(***************************************************************************)
WindowIsFullDay ==
    \A p \in Windows : \A o \in LatestObjects :
        \E i \in DOMAIN restores :
            /\ restores[i].object = o /\ restores[i].profile = p
            /\ restores[i].status = "succeeded" /\ o \in observed

=============================================================================
