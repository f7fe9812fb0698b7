------------------------- MODULE TickArchive_proofs -------------------------
(***************************************************************************)
(* Theorems about tick archives, their replays and the phase gate, for any *)
(* number of parts, runs, replays and failures, any profiles and any       *)
(* setting of the mirror.                                                  *)
(***************************************************************************)
EXTENDS TickGovernance, SequenceTheorems, MarketFolds_proofs

-----------------------------------------------------------------------------
(***************************************************************************)
(* The call that archives.                                                 *)
(***************************************************************************)
RunRow == [kind : Kinds, status : {"failed", "succeeded"},
           abort : {"none", "failed", "unclean"}, parts : 0..MaxParts]

RestoreRow == [object : ObjectIds, profile : Profiles,
               status : {"failed", "succeeded"}, abort : BOOLEAN]

JobType ==
    [pc : {"idle", "symbols", "raw", "parse", "normalize", "mirror", "row",
           "finish", "rows", "files", "report", "flag"},
     kind : Kinds, run : 0..MaxRuns, parts : 0..MaxParts, next : Parts,
     known : [Parts -> SUBSET (FileKinds \cup {"row"})],
     failed : BOOLEAN, outer : BOOLEAN, unclean : BOOLEAN,
     status : {"failed", "succeeded"}]

ReplayType ==
    [pc : {"idle", "read", "replace", "record", "abort"},
     object : ObjectIds \cup {<<0, 0>>}, profile : Profiles,
     status : {"failed", "succeeded"}]

\* A call works on a run that was stored, as the kind of archive it is; every row
\* and every file is of a run that was stored.
Tidy ==
    /\ Len(runs) <= MaxRuns
    /\ job.pc = "idle" => job.run = 0
    /\ job.pc # "idle" => job.run \in DOMAIN runs /\ runs[job.run].kind = job.kind
    /\ \A o \in objects : o[1] \in DOMAIN runs
    /\ \A f \in files : f[1] \in DOMAIN runs
    /\ returned \subseteq DOMAIN runs
    /\ replay.pc # "idle" => replay.object \in ObjectIds

Typed == TypeOK /\ Tidy

LEMMA TypedParts ==
    ASSUME Typed
    PROVE  /\ job \in JobType /\ replay \in ReplayType
           /\ runs \in Seq(RunRow) /\ restores \in Seq(RestoreRow)
           /\ DOMAIN runs = 1..Len(runs) /\ DOMAIN runs \subseteq RunIds
           /\ Len(runs) \in Nat /\ MaxRuns \in Nat /\ MaxParts \in Nat \ {0}
           /\ \A run \in DOMAIN runs : runs[run] \in RunRow
           /\ Fault => faults' \in 0..MaxFaults
           /\ job.pc # "idle" => job.run \in RunIds /\ job.run # 0
  <1>1. job \in JobType /\ replay \in ReplayType
    BY DEF Typed, TypeOK, JobType, ReplayType
  <1>2. runs \in Seq(RunRow) /\ restores \in Seq(RestoreRow)
    BY DEF Typed, TypeOK, RunRow, RestoreRow
  <1>3. /\ DOMAIN runs = 1..Len(runs) /\ Len(runs) \in Nat
        /\ \A run \in DOMAIN runs : runs[run] \in RunRow
    BY <1>2
  <1>4. MaxRuns \in Nat /\ MaxParts \in Nat \ {0} /\ MaxFaults \in Nat
    BY ArchiveAssumption
  <1>5. DOMAIN runs \subseteq RunIds
    BY <1>3, <1>4 DEF Typed, Tidy, RunIds
  <1>6. Fault => faults' \in 0..MaxFaults
    BY <1>4 DEF Typed, TypeOK, Fault
  <1>7. job.pc # "idle" => job.run \in RunIds /\ job.run # 0
    BY <1>5 DEF Typed, Tidy, RunIds
  <1>8. QED
    BY <1>1, <1>2, <1>3, <1>4, <1>5, <1>6, <1>7

LEMMA NoJobType == NoJob \in JobType /\ NoJob.pc = "idle" /\ NoJob.run = 0
  BY ArchiveAssumption DEF NoJob, JobType, Kinds, Parts, FirstPart, FileKinds

LEMMA NoReplayType == NoReplay \in ReplayType /\ NoReplay.pc = "idle"
  <1>1. (CHOOSE p \in Profiles : TRUE) \in Profiles
    BY ArchiveAssumption
  <1>2. QED
    BY <1>1 DEF NoReplay, ReplayType

\* A call that goes on; only at its end does it set the status to store.
OnWith(j, d) ==
    /\ d \in JobType /\ d.pc # "idle" /\ d.run = j.run /\ d.kind = j.kind
    /\ d.status = j.status \/ j.pc = "finish"

\* The work after a part: of the same run, with the same knowledge of its parts
LEMMA PartDoneType ==
    ASSUME NEW j \in JobType, NEW failed \in BOOLEAN, NEW d, d = PartDone(j, failed)
    PROVE  /\ OnWith(j, d)
           /\ d.known = j.known /\ d.parts = j.parts /\ d.status = j.status
           /\ d.unclean = j.unclean
           /\ d.failed = Failures(j, failed)
           /\ d.pc \in {"flag", "raw", "rows", "finish"}
           /\ d.pc = "flag" => j.kind = "import"
           /\ d.pc = "finish" => Failures(j, failed) = FALSE /\ ~(j.next < j.parts)
           /\ d.pc = "raw" => d.next = j.next + 1
           /\ d.pc # "raw" => d.next = j.next
           /\ j.kind = "import" /\ failed => d.pc = "flag"
  <1>1. PICK some \in BOOLEAN : some = Failures(j, failed)
    BY DEF Failures, JobType
  <1>3. PICK after : after = [j EXCEPT !.failed = some]
    OBVIOUS
  <1>4. /\ after \in JobType /\ after.failed = some /\ after.next = j.next
        /\ after.parts = j.parts /\ after.kind = j.kind /\ after.run = j.run
        /\ after.known = j.known /\ after.status = j.status /\ after.unclean = j.unclean
    BY <1>3 DEF JobType
  <1>5. j.next \in Parts /\ (j.next < j.parts => j.next + 1 \in Parts)
    BY ArchiveAssumption DEF JobType, Parts
  <1>6. CASE j.kind = "import" /\ failed
    <2>1. d = [after EXCEPT !.pc = "flag"]
      BY <1>1, <1>3, <1>6 DEF PartDone
    <2>2. QED
      BY <1>1, <1>4, <1>6, <2>1 DEF JobType, OnWith
  <1>7. CASE ~(j.kind = "import" /\ failed) /\ j.next < j.parts
    <2>1. d = [after EXCEPT !.pc = "raw", !.next = j.next + 1]
      <3>1. d = [after EXCEPT !.pc = "raw", !.next = @ + 1]
        BY <1>1, <1>3, <1>7 DEF PartDone
      <3>2. QED
        BY <1>4, <3>1 DEF JobType
    <2>2. QED
      BY <1>1, <1>4, <1>5, <1>7, <2>1 DEF JobType, OnWith
  <1>8. CASE ~(j.kind = "import" /\ failed) /\ ~(j.next < j.parts)
    <2>1. d = [after EXCEPT !.pc = IF some THEN "rows" ELSE "finish"]
      BY <1>1, <1>3, <1>8 DEF PartDone
    <2>2. QED
      BY <1>1, <1>4, <1>8, <2>1 DEF JobType, OnWith
  <1>9. QED
    BY <1>6, <1>7, <1>8

\* A part of the run at hand, and a file of it
LEMMA JobIds ==
    ASSUME Typed, job.pc # "idle"
    PROVE  /\ <<job.run, job.next>> \in ObjectIds
           /\ \A kind \in FileKinds :
                 FileOf(job, kind) = <<job.run, job.next, kind>>
                 /\ FileOf(job, kind) \in RunIds \X Parts \X FileKinds
  BY TypedParts DEF JobType, ObjectIds, FileOf

\* What a call may write when it goes on: only of its own run
Own(j) ==
    /\ runs' = runs \/ \E row \in RunRow :
                           row.kind = j.kind /\ runs' = [runs EXCEPT ![j.run] = row]
    /\ objects' \subseteq objects \cup {<<j.run, j.next>>}
    /\ objects \subseteq objects' \cup {o \in objects : o[1] = j.run}
    /\ \/ files' \subseteq files
       \/ \E kind \in FileKinds : files' = files \cup {FileOf(j, kind)}
    /\ files \subseteq files' \cup {f \in files : f[1] = j.run}
    /\ returned' \subseteq returned \cup {j.run}
    /\ returned \subseteq returned'

LEMMA WithRunType ==
    ASSUME Typed, job.pc # "idle", NEW status \in {"failed", "succeeded"},
           NEW abort \in {"none", "failed", "unclean"}
    PROVE  LET row == [kind |-> job.kind, status |-> status, abort |-> abort,
                       parts |-> job.parts]
           IN  row \in RunRow /\ WithRun(job, status, abort) = [runs EXCEPT ![job.run] = row]
  BY TypedParts DEF WithRun, RunRow, JobType

LEMMA PartsBounded == Parts \subseteq 0..MaxParts
  BY ArchiveAssumption DEF Parts

\* The call is elsewhere, or it learnt something, or it changed what it will store.
JobPcs == {"symbols", "raw", "parse", "normalize", "mirror", "row", "finish", "rows",
           "files", "report", "flag"}

LEMMA JobAt ==
    ASSUME NEW j \in JobType, NEW d, NEW pc \in JobPcs, d = [j EXCEPT !.pc = pc]
    PROVE  /\ d \in JobType /\ d.pc = pc /\ OnWith(j, d) /\ d.parts = j.parts /\ d.next = j.next
           /\ d.known = j.known /\ d.failed = j.failed /\ d.outer = j.outer
           /\ d.unclean = j.unclean /\ d.status = j.status
  BY DEF JobType, JobPcs, OnWith

LEMMA JobParted ==
    ASSUME NEW j \in JobType, NEW d, NEW pc \in JobPcs, NEW n \in Parts,
           d = [j EXCEPT !.pc = pc, !.parts = n]
    PROVE  /\ d \in JobType /\ d.pc = pc /\ OnWith(j, d)
           /\ d.next = j.next /\ d.known = j.known /\ d.failed = j.failed /\ d.outer = j.outer
           /\ d.unclean = j.unclean /\ d.status = j.status /\ d.parts = n
  BY PartsBounded DEF JobType, JobPcs, OnWith

LEMMA JobOuter ==
    ASSUME NEW j \in JobType, NEW d, NEW pc \in JobPcs, d = [j EXCEPT !.pc = pc, !.outer = TRUE]
    PROVE  /\ d \in JobType /\ d.pc = pc /\ OnWith(j, d)
           /\ d.parts = j.parts /\ d.next = j.next /\ d.known = j.known /\ d.failed = j.failed
           /\ d.unclean = j.unclean /\ d.status = j.status /\ d.outer
  BY DEF JobType, JobPcs, OnWith

LEMMA JobRefused ==
    ASSUME NEW j \in JobType, NEW d, NEW pc \in JobPcs, d = [j EXCEPT !.pc = pc, !.unclean = TRUE]
    PROVE  /\ d \in JobType /\ d.pc = pc /\ OnWith(j, d)
           /\ d.parts = j.parts /\ d.next = j.next /\ d.known = j.known /\ d.failed = j.failed
           /\ d.outer = j.outer /\ d.status = j.status /\ d.unclean
  BY DEF JobType, JobPcs, OnWith

LEMMA JobStored ==
    ASSUME NEW j \in JobType, NEW d, NEW pc \in JobPcs, j.pc = "finish",
           d = [j EXCEPT !.pc = pc, !.status = "succeeded"]
    PROVE  /\ d \in JobType /\ d.pc = pc /\ OnWith(j, d)
           /\ d.parts = j.parts /\ d.next = j.next /\ d.known = j.known /\ d.failed = j.failed
           /\ d.outer = j.outer /\ d.unclean = j.unclean /\ d.status = "succeeded"
  BY DEF JobType, JobPcs, OnWith

LEMMA JobAgain ==
    ASSUME NEW j \in JobType, NEW d, NEW pc \in JobPcs,
           d = [j EXCEPT !.pc = pc, !.outer = TRUE, !.unclean = FALSE]
    PROVE  /\ d \in JobType /\ d.pc = pc /\ OnWith(j, d)
           /\ d.parts = j.parts /\ d.next = j.next /\ d.known = j.known /\ d.failed = j.failed
           /\ d.status = j.status /\ d.outer /\ ~d.unclean
  BY DEF JobType, JobPcs, OnWith

LEMMA KnowsGoesOn ==
    ASSUME NEW j \in JobType, NEW what \in FileKinds \cup {"row"}
    PROVE  /\ Knows(j, what) \in JobType
           /\ Knows(j, what).run = j.run /\ Knows(j, what).kind = j.kind
           /\ Knows(j, what).parts = j.parts /\ Knows(j, what).next = j.next
           /\ Knows(j, what).failed = j.failed /\ Knows(j, what).pc = j.pc
           /\ Knows(j, what).status = j.status /\ Knows(j, what).unclean = j.unclean
           /\ Knows(j, what).known = [j.known EXCEPT ![j.next] = @ \cup {what}]
  <1> DEFINE known == [j.known EXCEPT ![j.next] = @ \cup {what}]
  <1>1. known \in [Parts -> SUBSET (FileKinds \cup {"row"})]
    BY DEF JobType
  <1>2. Knows(j, what) = [j EXCEPT !.known = known]
    BY DEF Knows, JobType
  <1> HIDE DEF known
  <1>3. QED
    <2>1. /\ Knows(j, what) \in JobType
          /\ Knows(j, what).run = j.run /\ Knows(j, what).kind = j.kind
          /\ Knows(j, what).parts = j.parts /\ Knows(j, what).next = j.next
          /\ Knows(j, what).failed = j.failed /\ Knows(j, what).pc = j.pc
          /\ Knows(j, what).status = j.status /\ Knows(j, what).unclean = j.unclean
          /\ Knows(j, what).known = known
      BY <1>1, <1>2 DEF JobType
    <2>2. QED
      BY <2>1 DEF known

LEMMA ArchivingOwns ==
    ASSUME Typed, Archiving
    PROVE  /\ job.pc # "idle" /\ Own(job)
           /\ \/ OnWith(job, job')
              \/ job' = NoJob /\ (Finish \/ DeleteFile \/ Report \/ Flag)
           /\ UNCHANGED <<drive, observed, restores, replay, replays>>
           /\ faults' = faults \/ Fault
  <1>1. /\ job.pc # "idle"
        /\ UNCHANGED <<drive, observed, restores, replay, replays>>
        /\ faults' = faults \/ Fault
    BY DEF Archiving, Symbols, WriteRaw, WriteFile, Parse, WriteNormalized, Mirror,
       InsertRow, Finish, DeleteRows, DeleteFile, Report, Flag, tables, counts
  <1>2. PICK j : j = job
    OBVIOUS
  <1>3. j \in JobType
    BY <1>2, TypedParts
  <1> DEFINE Goes(k) == \/ OnWith(j, k)
                        \/ k = NoJob /\ (Finish \/ DeleteFile \/ Report \/ Flag)
  <1>4. ASSUME NEW kind \in FileKinds, NEW next \in {"parse", "normalize", "mirror", "row"},
               job' = [Knows(j, kind) EXCEPT !.pc = next]
        PROVE  OnWith(j, job')
    <2>1. PICK k : k = Knows(j, kind)
      OBVIOUS
    <2>2. k \in JobType /\ k.run = j.run /\ k.kind = j.kind /\ k.status = j.status
      BY <1>3, <2>1, KnowsGoesOn
    <2>3. QED
      BY <1>4, <2>1, <2>2, JobAt DEF JobPcs, OnWith
  <1>5. job' = PartDone(j, TRUE) => OnWith(j, job')
    BY <1>3, PartDoneType
  <1>6. Goes(job')
    <2>1. CASE Symbols
      <3>1. \/ \E n \in Parts : job' = [j EXCEPT !.pc = "raw", !.parts = n]
            \/ job' = [j EXCEPT !.pc = "rows", !.outer = TRUE]
        BY <1>2, <2>1 DEF Symbols
      <3>2. CASE \E n \in Parts : job' = [j EXCEPT !.pc = "raw", !.parts = n]
        <4>1. PICK n \in Parts : job' = [j EXCEPT !.pc = "raw", !.parts = n]
          BY <3>2
        <4>2. "raw" \in JobPcs
          BY DEF JobPcs
        <4>3. OnWith(j, job')
          BY <1>3, <4>1, <4>2, JobParted
        <4>4. QED
          BY <4>3
      <3>3. CASE job' = [j EXCEPT !.pc = "rows", !.outer = TRUE]
        BY <1>3, <3>3, JobOuter DEF JobPcs
      <3>4. QED
        BY <3>1, <3>2, <3>3
    <2>2. ASSUME NEW kind \in FileKinds, NEW next \in {"parse", "normalize", "mirror"},
                 WriteFile(kind, next)
          PROVE  Goes(job')
      BY <1>2, <1>4, <1>5, <2>2 DEF WriteFile
    <2>3. CASE WriteRaw
      <3>1. \/ \E next \in {"parse", "normalize", "mirror"} : WriteFile("raw", next)
            \/ job' = PartDone(j, TRUE)
        BY <1>2, <2>3 DEF WriteRaw
      <3>2. QED
        BY <1>5, <2>2, <3>1 DEF FileKinds
    <2>4. CASE Parse
      <3>1. job' = [j EXCEPT !.pc = "normalize"] \/ job' = PartDone(j, TRUE)
        BY <1>2, <2>4 DEF Parse
      <3>2. CASE job' = [j EXCEPT !.pc = "normalize"]
        BY <1>3, <3>2, JobAt DEF JobPcs
      <3>3. QED
        BY <1>5, <3>1, <3>2
    <2>5. CASE WriteNormalized
      BY <2>2, <2>5 DEF WriteNormalized, FileKinds
    <2>6. CASE Mirror
      <3>1. \/ job' = [Knows(j, "mirror") EXCEPT !.pc = "row"]
            \/ job' = [j EXCEPT !.pc = "row"] \/ job' = PartDone(j, TRUE)
        BY <1>2, <2>6 DEF Mirror
      <3>2. CASE job' = [Knows(j, "mirror") EXCEPT !.pc = "row"]
        BY <1>4, <3>2 DEF FileKinds
      <3>3. CASE job' = [j EXCEPT !.pc = "row"]
        BY <1>3, <3>3, JobAt DEF JobPcs
      <3>4. QED
        BY <1>5, <3>1, <3>2, <3>3
    <2>7. CASE InsertRow
      <3>1. job' = PartDone(Knows(j, "row"), FALSE) \/ job' = PartDone(j, TRUE)
        BY <1>2, <2>7 DEF InsertRow
      <3>2. PICK k : k = Knows(j, "row")
        OBVIOUS
      <3>3. k \in JobType /\ k.run = j.run /\ k.kind = j.kind /\ k.status = j.status
            /\ k.pc = j.pc
        BY <1>3, <3>2, KnowsGoesOn
      <3>4. job' = PartDone(k, FALSE) => OnWith(k, job')
        BY <3>3, PartDoneType
      <3>5. QED
        BY <1>5, <3>1, <3>2, <3>3, <3>4 DEF OnWith
    <2>8. CASE Finish
      <3>1. /\ j.pc = "finish"
            /\ \/ job' = NoJob
               \/ job' = [j EXCEPT !.pc = "flag", !.status = "succeeded"]
               \/ job' = [j EXCEPT !.pc = "rows", !.outer = TRUE]
        BY <1>2, <2>8 DEF Finish
      <3>2. CASE job' = [j EXCEPT !.pc = "flag", !.status = "succeeded"]
        BY <1>3, <3>1, <3>2, JobStored DEF JobPcs
      <3>3. CASE job' = [j EXCEPT !.pc = "rows", !.outer = TRUE]
        BY <1>3, <3>3, JobOuter DEF JobPcs
      <3>4. QED
        BY <2>8, <3>1, <3>2, <3>3
    <2>9. CASE DeleteRows
      <3>1. job' = [j EXCEPT !.pc = "files"]
            \/ job' = [j EXCEPT !.pc = "files", !.unclean = TRUE]
        BY <1>2, <2>9 DEF DeleteRows, Refused
      <3>2. CASE job' = [j EXCEPT !.pc = "files"]
        BY <1>3, <3>2, JobAt DEF JobPcs
      <3>3. CASE job' = [j EXCEPT !.pc = "files", !.unclean = TRUE]
        BY <1>3, <3>3, JobRefused DEF JobPcs
      <3>4. QED
        BY <3>1, <3>2, <3>3
    <2>10. CASE DeleteFile
      <3>1. \/ job' = NoJob \/ (job' = j /\ j.pc = "files")
            \/ job' = [j EXCEPT !.pc = "report"]
            \/ job' = [j EXCEPT !.pc = "rows", !.outer = TRUE, !.unclean = FALSE]
        BY <1>2, <2>10 DEF DeleteFile
      <3>2. CASE job' = [j EXCEPT !.pc = "report"]
        BY <1>3, <3>2, JobAt DEF JobPcs
      <3>3. CASE job' = [j EXCEPT !.pc = "rows", !.outer = TRUE, !.unclean = FALSE]
        BY <1>3, <3>3, JobAgain DEF JobPcs
      <3>4. CASE job' = j /\ j.pc = "files"
        BY <1>3, <3>4 DEF OnWith
      <3>5. QED
        BY <2>10, <3>1, <3>2, <3>3, <3>4
    <2>11. CASE Report
      BY <2>11 DEF Report
    <2>12. CASE Flag
      <3>1. job' = NoJob \/ job' = [j EXCEPT !.pc = "files"]
        BY <1>2, <2>12 DEF Flag
      <3>2. QED
        BY <1>3, <2>12, <3>1, JobAt DEF JobPcs
    <2>13. QED
      BY <2>1, <2>3, <2>4, <2>5, <2>6, <2>7, <2>8, <2>9, <2>10, <2>11, <2>12
         DEF Archiving
  <1>7. Own(job)
    <2>1. CASE Symbols \/ WriteRaw \/ Parse \/ WriteNormalized \/ Mirror
      <3>1. UNCHANGED <<runs, objects, returned>>
        BY <2>1 DEF Symbols, WriteRaw, Parse, WriteNormalized, Mirror, tables
      <3>2. files' = files \/ \E kind \in FileKinds : files' = files \cup {FileOf(job, kind)}
        BY <2>1 DEF Symbols, WriteRaw, Parse, WriteNormalized, Mirror, WriteFile,
           FileKinds
      <3>3. QED
        BY <3>1, <3>2 DEF Own
    <2>2. CASE InsertRow
      BY <2>2 DEF InsertRow, Own
    <2>3. CASE Finish \/ Report \/ Flag
      <3>1. UNCHANGED <<objects, files>> /\ returned' \in {returned, returned \cup {job.run}}
        BY <2>3 DEF Finish, Report, Flag
      <3>2. job.status \in {"failed", "succeeded"}
        BY TypedParts DEF JobType
      <3>3. \/ runs' = runs
            \/ \E status \in {"failed", "succeeded"} :
               \E abort \in {"none", "failed", "unclean"} :
                   runs' = WithRun(job, status, abort)
        BY <2>3, <3>2 DEF Finish, Report, Flag, Reported
      <3>4. \/ runs' = runs
            \/ \E row \in RunRow : row.kind = job.kind /\ runs' = [runs EXCEPT ![job.run] = row]
        BY <1>1, <3>3, WithRunType
      <3>5. QED
        BY <3>1, <3>4 DEF Own
    <2>4. CASE DeleteRows
      <3>1. \A o \in KnownRows(job) : o[1] = job.run
        BY DEF KnownRows
      <3>2. UNCHANGED <<runs, files, returned>>
            /\ (objects' = objects \/ objects' = objects \ KnownRows(job))
        BY <2>4 DEF DeleteRows
      <3>3. QED
        BY <3>1, <3>2 DEF Own
    <2>5. CASE DeleteFile
      <3>1. \A f \in KnownFiles(job) : f[1] = job.run
        BY DEF KnownFiles
      <3>2. /\ UNCHANGED <<runs, objects, returned>>
            /\ files' = files \/ \E f \in KnownFiles(job) : files' = files \ {f}
        BY <2>5 DEF DeleteFile, tables
      <3>3. QED
        BY <3>1, <3>2 DEF Own
    <2>6. QED
      BY <2>1, <2>2, <2>3, <2>4, <2>5 DEF Archiving
  <1>8. QED
    BY <1>1, <1>2, <1>6, <1>7


-----------------------------------------------------------------------------
(***************************************************************************)
(* The other steps.                                                        *)
(***************************************************************************)
LEMMA BeginOwns ==
    ASSUME Typed, Begin
    PROVE  /\ job.pc = "idle" /\ Len(runs) < MaxRuns
           /\ \/ runs' = runs
              \/ \E kind \in Kinds : runs' = Append(runs, NewRun(kind))
           /\ \/ job' = job
              \/ \E kind \in Kinds :
                     /\ runs' = Append(runs, NewRun(kind))
                     /\ job' \in JobType /\ job'.run = Len(runs) + 1 /\ job'.kind = kind
                     /\ job'.pc = (IF kind = "dispatch" THEN "symbols" ELSE "raw")
                     /\ job'.next = 1 /\ ~job'.failed /\ ~job'.unclean
                     /\ job'.parts = (IF kind = "dispatch" THEN 0 ELSE 1)
                     /\ job'.status = "failed"
                     /\ \A p \in Parts : job'.known[p] = {}
           /\ faults' = faults \/ Fault
           /\ UNCHANGED <<drive, objects, files, observed, restores, returned, replay,
                          replays>>
  <1> DEFINE Begun(kind, run) ==
            IF kind = "dispatch"
            THEN [[NoJob EXCEPT !.kind = kind, !.run = run] EXCEPT !.pc = "symbols"]
            ELSE [[NoJob EXCEPT !.kind = kind, !.run = run] EXCEPT !.pc = "raw", !.parts = 1]
  <1>1. ASSUME NEW kind \in Kinds, NEW d,
               d = Begun(kind, Len(runs) + 1),
               Len(runs) < MaxRuns
        PROVE  /\ d \in JobType /\ d.run = Len(runs) + 1 /\ d.kind = kind
               /\ d.pc = (IF kind = "dispatch" THEN "symbols" ELSE "raw")
               /\ d.next = 1 /\ ~d.failed /\ ~d.unclean /\ d.status = "failed"
               /\ d.parts = (IF kind = "dispatch" THEN 0 ELSE 1)
               /\ \A p \in Parts : d.known[p] = {}
    <2>1. PICK k : k = [NoJob EXCEPT !.kind = kind, !.run = Len(runs) + 1]
      OBVIOUS
    <2>2. Len(runs) + 1 \in 0..MaxRuns /\ 1 \in 0..MaxParts
      BY <1>1, TypedParts
    <2>3. NoJob.next = 1 /\ ~NoJob.failed /\ ~NoJob.unclean /\ NoJob.status = "failed"
          /\ NoJob.parts = 0 /\ \A p \in Parts : NoJob.known[p] = {}
      BY DEF NoJob, FirstPart
    <2>4. NoJob \in JobType
      BY NoJobType
    <2>5. k \in JobType /\ k.run = Len(runs) + 1 /\ k.kind = kind
          /\ k.next = NoJob.next /\ k.failed = NoJob.failed /\ k.unclean = NoJob.unclean
          /\ k.status = NoJob.status /\ k.parts = NoJob.parts /\ k.known = NoJob.known
      BY <2>1, <2>2, <2>4 DEF JobType
    <2>6. CASE kind = "dispatch"
      <3>1. d = [k EXCEPT !.pc = "symbols"]
        BY <1>1, <2>1, <2>6
      <3>2. QED
        BY <2>3, <2>5, <2>6, <3>1, JobAt DEF JobPcs, OnWith
    <2>7. CASE kind # "dispatch"
      <3>1. d = [k EXCEPT !.pc = "raw", !.parts = 1] /\ 1 \in Parts
        BY <1>1, <2>1, <2>7, ArchiveAssumption DEF Parts
      <3>2. "raw" \in JobPcs
        BY DEF JobPcs
      <3>3. /\ d \in JobType /\ d.pc = "raw" /\ OnWith(k, d)
            /\ d.next = k.next /\ d.known = k.known /\ d.failed = k.failed
            /\ d.unclean = k.unclean /\ d.status = k.status /\ d.parts = 1
        BY <2>5, <3>1, PartsBounded DEF JobType, OnWith
      <3>4. QED
        BY <2>3, <2>5, <2>7, <3>3 DEF OnWith
    <2>8. QED
      BY <2>6, <2>7
  <1>2. /\ job.pc = "idle" /\ Len(runs) < MaxRuns
        /\ faults' = faults \/ Fault
        /\ UNCHANGED <<drive, objects, files, observed, restores, returned, replay, replays>>
    BY DEF Begin
  <1>3. PICK kind \in Kinds :
            \/ /\ runs' = Append(runs, NewRun(kind))
               /\ job' = Begun(kind, Len(Append(runs, NewRun(kind))))
            \/ runs' \in {runs, Append(runs, NewRun(kind))} /\ UNCHANGED job
    BY DEF Begin
  <1> HIDE DEF Begun
  <1>4. NewRun(kind) \in RunRow
    BY ArchiveAssumption DEF NewRun, RunRow
  <1>5. Len(Append(runs, NewRun(kind))) = Len(runs) + 1
    BY <1>4, TypedParts
  <1>6. CASE runs' \in {runs, Append(runs, NewRun(kind))} /\ UNCHANGED job
    BY <1>2, <1>6
  <1>7. CASE /\ runs' = Append(runs, NewRun(kind))
             /\ job' = Begun(kind, Len(Append(runs, NewRun(kind))))
    <2>1. job' = Begun(kind, Len(runs) + 1)
      BY <1>5, <1>7
    <2>2. /\ job' \in JobType /\ job'.run = Len(runs) + 1 /\ job'.kind = kind
          /\ job'.pc = (IF kind = "dispatch" THEN "symbols" ELSE "raw")
          /\ job'.next = 1 /\ ~job'.failed /\ ~job'.unclean /\ job'.status = "failed"
          /\ job'.parts = (IF kind = "dispatch" THEN 0 ELSE 1)
          /\ \A p \in Parts : job'.known[p] = {}
      BY <1>1, <1>2, <2>1
    <2>3. runs' = Append(runs, NewRun(kind))
      BY <1>7
    <2>4. QED
      BY <1>2, <2>2, <2>3
  <1>8. QED
    BY <1>3, <1>6, <1>7

\* What a replay may write: of its own object
LEMMA ReplayingOwns ==
    ASSUME Typed, StartReplay \/ Replaying
    PROVE  /\ UNCHANGED <<drive, runs, objects, files, returned, job>>
           /\ replays' \in 0..MaxReplays
           /\ faults' = faults \/ Fault
           /\ replay' \in ReplayType
           /\ replay'.pc # "idle" => replay'.object \in ObjectIds
           /\ \/ restores' = restores
              \/ replay.pc # "idle"
                 /\ \E abort \in BOOLEAN : restores' = Restored(abort)
           /\ \/ observed' = observed
              \/ replay.pc # "idle" /\ observed' = observed \cup {replay.object}
  <1>1. /\ UNCHANGED <<drive, runs, objects, files, returned, job>>
        /\ faults' = faults \/ Fault
    BY DEF StartReplay, Replaying, ReadArchive, Replace, Record, Abort, tables, counts
  <1>2. replays' \in 0..MaxReplays
    <2>1. replays \in 0..MaxReplays /\ MaxReplays \in Nat
      BY ArchiveAssumption DEF Typed, TypeOK
    <2>2. CASE StartReplay
      <3>1. replays' = replays + 1 /\ replays < MaxReplays
        BY <2>2 DEF StartReplay
      <3>2. QED
        BY <2>1, <3>1
    <2>3. CASE Replaying
      BY <2>1, <2>3 DEF Replaying, ReadArchive, Replace, Record, Abort, counts
    <2>4. QED
      BY <2>2, <2>3
  <1>3. /\ \/ restores' = restores
           \/ replay.pc # "idle" /\ \E abort \in BOOLEAN : restores' = Restored(abort)
        /\ \/ observed' = observed
           \/ replay.pc # "idle" /\ observed' = observed \cup {replay.object}
    BY DEF StartReplay, Replaying, ReadArchive, Replace, Record, Abort, tables
  <1>4. PICK r : r = replay
    OBVIOUS
  <1>5. r \in ReplayType /\ (r.pc # "idle" => r.object \in ObjectIds)
    BY <1>4, TypedParts DEF Typed, Tidy
  <1>6. NoReplay \in ReplayType /\ NoReplay.pc = "idle"
    BY NoReplayType
  <1> DEFINE Good(q) == q \in ReplayType /\ (q.pc # "idle" => q.object \in ObjectIds)
  <1>7. CASE StartReplay
    <2>1. PICK o \in objects, p \in Profiles :
              replay' = [NoReplay EXCEPT !.pc = "read", !.object = o, !.profile = p]
      BY <1>7 DEF StartReplay
    <2>2. o \in ObjectIds
      BY DEF Typed, TypeOK
    <2>3. Good(replay')
      BY <1>6, <2>1, <2>2 DEF ReplayType
    <2>4. QED
      BY <1>1, <1>2, <1>3, <2>3
  <1>8. ASSUME NEW pc \in {"replace", "abort", "record"}, r.pc # "idle",
               \/ replay' = [r EXCEPT !.pc = pc]
               \/ \E status \in {"failed", "succeeded"} :
                      replay' = [r EXCEPT !.pc = pc, !.status = status]
        PROVE  Good(replay')
    <2>1. CASE replay' = [r EXCEPT !.pc = pc]
      BY <1>5, <1>8, <2>1 DEF ReplayType
    <2>2. ASSUME NEW status \in {"failed", "succeeded"},
                 replay' = [r EXCEPT !.pc = pc, !.status = status]
          PROVE  Good(replay')
      BY <1>5, <1>8, <2>2 DEF ReplayType
    <2>3. QED
      BY <1>8, <2>1, <2>2
  <1>9. CASE Replaying
    <2>1. r.pc # "idle"
      BY <1>4, <1>9 DEF Replaying, ReadArchive, Replace, Record, Abort
    <2>2. \/ replay' = NoReplay
          \/ \E pc \in {"replace", "abort", "record"} : replay' = [r EXCEPT !.pc = pc]
          \/ \E pc \in {"replace", "abort", "record"}, status \in {"failed", "succeeded"} :
                 replay' = [r EXCEPT !.pc = pc, !.status = status]
      <3>1. CASE ReadArchive
        BY <1>4, <3>1 DEF ReadArchive
      <3>2. CASE Replace
        BY <1>4, <3>2 DEF Replace, StatusBeforeReplace
      <3>3. CASE Record
        BY <1>4, <3>3 DEF Record
      <3>4. CASE Abort
        BY <3>4 DEF Abort
      <3>5. QED
        BY <1>9, <3>1, <3>2, <3>3, <3>4 DEF Replaying
    <2>3. Good(replay')
      BY <1>6, <1>8, <2>1, <2>2
    <2>4. QED
      BY <1>1, <1>2, <1>3, <2>3
  <1>10. QED
    BY <1>7, <1>9

-----------------------------------------------------------------------------
(***************************************************************************)
(* Types, and that nothing is of a run that was never stored               *)
(***************************************************************************)
LEMMA TypedInit == Init => Typed
  <1> SUFFICES ASSUME Init PROVE Typed
    OBVIOUS
  <1>1. /\ NoJob \in JobType /\ NoJob.pc = "idle" /\ NoJob.run = 0
        /\ NoReplay \in ReplayType /\ NoReplay.pc = "idle"
    BY NoJobType, NoReplayType
  <1>2. TypeOK
    BY <1>1, ArchiveAssumption DEF Init, TypeOK, JobType, ReplayType
  <1>3. Tidy
    BY <1>1, ArchiveAssumption DEF Init, Tidy
  <1>4. QED
    BY <1>2, <1>3 DEF Typed

\* What types the state after a step
LEMMA TypedFrom ==
    ASSUME Typed, drive' = drive, runs' \in Seq(RunRow), Len(runs') <= MaxRuns,
           DOMAIN runs \subseteq DOMAIN runs',
           objects' \subseteq ObjectIds, files' \subseteq RunIds \X Parts \X FileKinds,
           observed' \subseteq ObjectIds, restores' \in Seq(RestoreRow),
           returned' \subseteq DOMAIN runs', job' \in JobType, replay' \in ReplayType,
           replays' \in 0..MaxReplays, faults' \in 0..MaxFaults,
           job'.pc = "idle" => job'.run = 0,
           job'.pc # "idle" => job'.run \in DOMAIN runs' /\ runs'[job'.run].kind = job'.kind,
           replay'.pc # "idle" => replay'.object \in ObjectIds,
           \A o \in objects' : o[1] \in DOMAIN runs',
           \A f \in files' : f[1] \in DOMAIN runs'
    PROVE  Typed'
  <1>1. runs' \in Seq([kind : Kinds, status : {"failed", "succeeded"},
                       abort : {"none", "failed", "unclean"}, parts : 0..MaxParts])
        /\ restores' \in Seq([object : ObjectIds, profile : Profiles,
                              status : {"failed", "succeeded"}, abort : BOOLEAN])
    BY DEF RunRow, RestoreRow
  <1>2. DOMAIN runs' \subseteq RunIds
    <2>1. DOMAIN runs' = 1..Len(runs') /\ Len(runs') \in Nat
      BY <1>1
    <2>2. QED
      BY <2>1, ArchiveAssumption DEF RunIds
  <1>3. TypeOK'
    BY <1>1, <1>2 DEF TypeOK, Typed, JobType, ReplayType
  <1>4. Tidy'
    BY DEF Tidy
  <1>5. QED
    BY <1>3, <1>4 DEF Typed

LEMMA TypedArchiving == Typed /\ Archiving => Typed'
  <1> SUFFICES ASSUME Typed, Archiving PROVE Typed'
    OBVIOUS
  <1>1. /\ job.pc # "idle" /\ Own(job) /\ (job' = NoJob \/ OnWith(job, job'))
        /\ UNCHANGED <<drive, observed, restores, replay, replays>>
        /\ faults' = faults \/ Fault
    BY ArchivingOwns
  <1>2. job.run \in DOMAIN runs /\ job.run \in RunIds /\ runs[job.run].kind = job.kind
    BY <1>1, TypedParts DEF Typed, Tidy
  <1>3. /\ runs' \in Seq(RunRow) /\ DOMAIN runs' = DOMAIN runs /\ Len(runs') = Len(runs)
        /\ runs'[job.run].kind = job.kind
    <2>1. CASE runs' = runs
      BY <1>2, <2>1, TypedParts
    <2>2. ASSUME NEW row \in RunRow, row.kind = job.kind,
                 runs' = [runs EXCEPT ![job.run] = row]
          PROVE  /\ runs' \in Seq(RunRow) /\ DOMAIN runs' = DOMAIN runs
                 /\ Len(runs') = Len(runs) /\ runs'[job.run].kind = job.kind
      BY <1>2, <2>2, TypedParts
    <2>3. QED
      BY <1>1, <2>1, <2>2 DEF Own
  <1>4. faults' \in 0..MaxFaults /\ replays' \in 0..MaxReplays
    BY <1>1, TypedParts DEF Typed, TypeOK
  <1>5. objects' \subseteq ObjectIds /\ \A o \in objects' : o[1] \in DOMAIN runs
    <2>1. objects' \subseteq objects \cup {<<job.run, job.next>>}
      BY <1>1 DEF Own
    <2>2. objects \subseteq ObjectIds /\ \A o \in objects : o[1] \in DOMAIN runs
      BY DEF Typed, TypeOK, Tidy
    <2>3. <<job.run, job.next>> \in ObjectIds /\ <<job.run, job.next>>[1] \in DOMAIN runs
      BY <1>1, <1>2, JobIds
    <2>4. QED
      BY <2>1, <2>2, <2>3
  <1>6. files' \subseteq RunIds \X Parts \X FileKinds /\ \A f \in files' : f[1] \in DOMAIN runs
    <2>1. \/ files' \subseteq files
          \/ \E kind \in FileKinds : files' = files \cup {FileOf(job, kind)}
      BY <1>1 DEF Own
    <2>2. files \subseteq RunIds \X Parts \X FileKinds /\ \A f \in files : f[1] \in DOMAIN runs
      BY DEF Typed, TypeOK, Tidy
    <2>3. ASSUME NEW kind \in FileKinds
          PROVE  FileOf(job, kind) \in RunIds \X Parts \X FileKinds
                 /\ FileOf(job, kind)[1] \in DOMAIN runs
      BY <1>1, <1>2, JobIds
    <2>4. QED
      BY <2>1, <2>2, <2>3
  <1>7. returned' \subseteq DOMAIN runs
    BY <1>1, <1>2 DEF Own, Typed, Tidy
  <1>8. /\ job' \in JobType /\ (job'.pc = "idle" => job'.run = 0)
        /\ job'.pc # "idle" => job'.run \in DOMAIN runs' /\ runs'[job'.run].kind = job'.kind
    <2>1. CASE job' = NoJob
      BY <2>1, NoJobType
    <2>2. CASE OnWith(job, job')
      BY <1>2, <1>3, <2>2 DEF OnWith
    <2>3. QED
      BY <1>1, <2>1, <2>2
  <1>9. /\ observed' \subseteq ObjectIds /\ restores' \in Seq(RestoreRow) /\ replay' \in ReplayType
        /\ (replay'.pc # "idle" => replay'.object \in ObjectIds) /\ drive' = drive
    BY <1>1, TypedParts DEF Typed, TypeOK, Tidy
  <1>10. Len(runs') <= MaxRuns /\ DOMAIN runs \subseteq DOMAIN runs'
    BY <1>3 DEF Typed, Tidy
  <1>11. QED
    BY <1>3, <1>4, <1>5, <1>6, <1>7, <1>8, <1>9, <1>10, TypedFrom

LEMMA TypedBegin == Typed /\ Begin => Typed'
  <1> SUFFICES ASSUME Typed, Begin PROVE Typed'
    OBVIOUS
  <1>1. /\ job.pc = "idle" /\ Len(runs) < MaxRuns
        /\ runs' = runs \/ \E kind \in Kinds : runs' = Append(runs, NewRun(kind))
        /\ \/ job' = job
           \/ \E kind \in Kinds :
                  /\ runs' = Append(runs, NewRun(kind))
                  /\ job' \in JobType /\ job'.run = Len(runs) + 1 /\ job'.kind = kind
                  /\ job'.pc # "idle"
        /\ faults' = faults \/ Fault
        /\ UNCHANGED <<drive, objects, files, observed, restores, returned, replay, replays>>
    BY BeginOwns
  <1>2. ASSUME NEW kind \in Kinds, runs' = Append(runs, NewRun(kind))
        PROVE  /\ runs' \in Seq(RunRow) /\ Len(runs') = Len(runs) + 1
               /\ DOMAIN runs \subseteq DOMAIN runs' /\ Len(runs) + 1 \in DOMAIN runs'
               /\ runs'[Len(runs) + 1].kind = kind
    <2>1. NewRun(kind) \in RunRow /\ NewRun(kind).kind = kind
      BY ArchiveAssumption DEF NewRun, RunRow
    <2>2. QED
      BY <1>2, <2>1, TypedParts
  <1>3. /\ runs' \in Seq(RunRow) /\ Len(runs') <= MaxRuns /\ DOMAIN runs \subseteq DOMAIN runs'
    BY <1>1, <1>2, TypedParts
  <1>4. /\ job' \in JobType /\ (job'.pc = "idle" => job'.run = 0)
        /\ job'.pc # "idle" => job'.run \in DOMAIN runs' /\ runs'[job'.run].kind = job'.kind
    <2>1. CASE job' = job
      BY <1>1, <2>1, TypedParts DEF Typed, Tidy
    <2>2. CASE job' # job
      BY <1>1, <1>2, <2>2
    <2>3. QED
      BY <2>1, <2>2
  <1>5. faults' \in 0..MaxFaults /\ replays' \in 0..MaxReplays
    BY <1>1, TypedParts DEF Typed, TypeOK
  <1>6. /\ observed' \subseteq ObjectIds /\ restores' \in Seq(RestoreRow) /\ replay' \in ReplayType
        /\ (replay'.pc # "idle" => replay'.object \in ObjectIds) /\ drive' = drive
        /\ objects' \subseteq ObjectIds /\ files' \subseteq RunIds \X Parts \X FileKinds
        /\ returned' \subseteq DOMAIN runs
        /\ \A o \in objects' : o[1] \in DOMAIN runs
        /\ \A f \in files' : f[1] \in DOMAIN runs
    BY <1>1, TypedParts DEF Typed, TypeOK, Tidy
  <1>7. QED
    BY <1>3, <1>4, <1>5, <1>6, TypedFrom

LEMMA TypedReplaying == Typed /\ (StartReplay \/ Replaying) => Typed'
  <1> SUFFICES ASSUME Typed, StartReplay \/ Replaying PROVE Typed'
    OBVIOUS
  <1>1. /\ UNCHANGED <<drive, runs, objects, files, returned, job>>
        /\ replays' \in 0..MaxReplays
        /\ faults' = faults \/ Fault
        /\ replay' \in ReplayType
        /\ replay'.pc # "idle" => replay'.object \in ObjectIds
        /\ \/ restores' = restores
           \/ replay.pc # "idle"
              /\ \E abort \in BOOLEAN : restores' = Restored(abort)
        /\ \/ observed' = observed
           \/ replay.pc # "idle" /\ observed' = observed \cup {replay.object}
    BY ReplayingOwns
  <1>2. replay.pc # "idle" => replay.object \in ObjectIds
    BY DEF Typed, Tidy
  <1>3. restores' \in Seq(RestoreRow)
    <2>1. ASSUME NEW abort \in BOOLEAN, replay.pc # "idle", restores' = Restored(abort)
          PROVE  restores' \in Seq(RestoreRow)
      <3>1. [object |-> replay.object, profile |-> replay.profile,
             status |-> replay.status, abort |-> abort] \in RestoreRow
        BY <1>2, <2>1, TypedParts DEF ReplayType, RestoreRow
      <3>2. QED
        BY <2>1, <3>1, TypedParts DEF Restored
    <2>2. QED
      BY <1>1, <2>1, TypedParts
  <1>4. observed' \subseteq ObjectIds
    BY <1>1, <1>2 DEF Typed, TypeOK
  <1>5. faults' \in 0..MaxFaults
    BY <1>1, TypedParts DEF Typed, TypeOK
  <1>6. /\ drive' = drive /\ runs' \in Seq(RunRow) /\ Len(runs') <= MaxRuns
        /\ objects' \subseteq ObjectIds /\ files' \subseteq RunIds \X Parts \X FileKinds
        /\ returned' \subseteq DOMAIN runs' /\ DOMAIN runs \subseteq DOMAIN runs'
        /\ \A o \in objects' : o[1] \in DOMAIN runs'
        /\ \A f \in files' : f[1] \in DOMAIN runs'
    BY <1>1, TypedParts DEF Typed, TypeOK, Tidy
  <1>7. /\ job' \in JobType /\ (job'.pc = "idle" => job'.run = 0)
        /\ job'.pc # "idle" => job'.run \in DOMAIN runs' /\ runs'[job'.run].kind = job'.kind
    BY <1>1, TypedParts DEF Typed, Tidy
  <1>8. QED
    BY <1>1, <1>3, <1>4, <1>5, <1>6, <1>7, TypedFrom

LEMMA TypedStep == Typed /\ [Next]_vars => Typed'
  <1> SUFFICES ASSUME Typed, [Next]_vars PROVE Typed'
    OBVIOUS
  <1>1. CASE Crash
    <2>1. /\ job' = NoJob /\ replay' = NoReplay /\ Fault
          /\ UNCHANGED <<drive, runs, objects, observed, restores, files, returned, replays>>
      BY <1>1 DEF Crash, tables
    <2>2. /\ job' \in JobType /\ job'.pc = "idle" /\ job'.run = 0
          /\ replay' \in ReplayType /\ replay'.pc = "idle"
      BY <2>1, NoJobType, NoReplayType
    <2>3. faults' \in 0..MaxFaults
      BY <2>1, TypedParts
    <2>4. /\ drive' = drive /\ runs' \in Seq(RunRow) /\ Len(runs') <= MaxRuns
          /\ objects' \subseteq ObjectIds /\ files' \subseteq RunIds \X Parts \X FileKinds
          /\ observed' \subseteq ObjectIds /\ restores' \in Seq(RestoreRow)
          /\ returned' \subseteq DOMAIN runs' /\ DOMAIN runs \subseteq DOMAIN runs'
          /\ replays' \in 0..MaxReplays
          /\ \A o \in objects' : o[1] \in DOMAIN runs'
          /\ \A f \in files' : f[1] \in DOMAIN runs'
      BY <2>1, TypedParts DEF Typed, TypeOK, Tidy
    <2>5. QED
      BY <2>2, <2>3, <2>4, TypedFrom
  <1>2. CASE UNCHANGED vars
    BY <1>2 DEF vars, tables, counts, Typed, TypeOK, Tidy
  <1>3. QED
    BY <1>1, <1>2, TypedBegin, TypedArchiving, TypedReplaying DEF Next

(***************************************************************************)
(* The gate looks at an object that is there: among objects there is one   *)
(* of the latest run with the highest part (get_latest_archive_object).    *)
(***************************************************************************)
LEMMA LatestIsThere ==
    ASSUME NEW set \in SUBSET ObjectIds, set # {}
    PROVE  LatestOf(set) \in set
  <1> DEFINE ids == {o[1] : o \in set}
  <1>1. /\ RunIds \subseteq Nat /\ IsFiniteSet(RunIds)
        /\ Parts \subseteq Nat /\ IsFiniteSet(Parts)
    <2>1. 1 \in Int /\ MaxRuns \in Int /\ MaxParts \in Int
      BY ArchiveAssumption
    <2>2. QED
      BY <2>1, FS_Interval DEF RunIds, Parts
  <1>2. \A o \in set : o = <<o[1], o[2]>> /\ o[1] \in RunIds /\ o[2] \in Parts
    BY DEF ObjectIds
  <1>3. ids \subseteq RunIds /\ ids # {}
    BY <1>2
  <1>4. PICK last \in ids : \A r \in ids : r <= last
    BY <1>1, <1>3, FS_Subset, FirstAndLast
  <1> DEFINE parts == {p \in Parts : <<last, p>> \in set}
  <1>5. parts # {}
    BY <1>2, <1>4
  <1>6. PICK part \in parts : \A p \in parts : p <= part
    <2>1. parts \in SUBSET Nat /\ IsFiniteSet(parts)
      BY <1>1, FS_Subset
    <2>2. QED
      BY <1>5, <2>1, FirstAndLast
  <1>7. /\ <<last, part>> \in set
        /\ \A u \in set : u[1] < last \/ (u[1] = last /\ u[2] <= part)
    <2>1. <<last, part>> \in set
      OBVIOUS
    <2>2. ASSUME NEW u \in set
          PROVE  u[1] < last \/ (u[1] = last /\ u[2] <= part)
      <3>1. u[1] <= last /\ u[1] \in Nat /\ last \in Nat
        BY <1>1, <1>2, <1>3, <1>4
      <3>2. u[1] = last => u[2] \in parts
        BY <1>2
      <3>3. QED
        BY <1>6, <3>1, <3>2
    <2>3. QED
      BY <2>1, <2>2
  <1>8. \E o \in set : \A u \in set : u[1] < o[1] \/ (u[1] = o[1] /\ u[2] <= o[2])
    <2>1. PICK o \in set : o = <<last, part>>
      BY <1>7
    <2>2. o[1] = last /\ o[2] = part
      BY <2>1
    <2>3. QED
      BY <1>7, <2>1, <2>2
  <1>9. QED
    BY <1>8 DEF LatestOf

GateType == [pc : {"idle", "file", "restore", "passed"},
             object : ObjectIds \cup {<<0, 0>>}, exists : BOOLEAN]

\* What a step of the gate does: it reads, and keeps what it read.
LEMMA GateMoves ==
    ASSUME gate \in GateType, Typed, LookUp \/ CheckFile \/ ReadRestore
    PROVE  /\ UNCHANGED vars /\ gate' \in GateType
           /\ \/ gate'.pc = "idle"
              \/ gate'.pc = "file" /\ gate'.object \in ArchivedObjects
              \/ gate.pc = "file" /\ gate'.pc = "restore" /\ gate'.object = gate.object
              \/ /\ gate.pc = "restore" /\ gate'.pc = "passed"
                 /\ gate'.object = gate.object /\ gate.object \in observed
  <1>1. PICK g : g = gate
    OBVIOUS
  <1>2. UNCHANGED vars
    BY DEF LookUp, CheckFile, ReadRestore
  <1>3. CASE LookUp
    <2>1. PICK o : o = LatestOf(ArchivedObjects)
      OBVIOUS
    <2>2. o \in ArchivedObjects /\ o \in ObjectIds
      <3>1. ArchivedObjects \in SUBSET ObjectIds
        BY DEF ArchivedObjects, Typed, TypeOK
      <3>2. ArchivedObjects # {}
        BY <1>3 DEF LookUp
      <3>3. QED
        BY <2>1, <3>1, <3>2, LatestIsThere
    <2>3. gate' = [g EXCEPT !.pc = "file", !.object = o]
      BY <1>1, <1>3, <2>1 DEF LookUp
    <2>4. gate' \in GateType /\ gate'.pc = "file" /\ gate'.object = o
      BY <1>1, <2>2, <2>3 DEF GateType
    <2>5. QED
      BY <1>2, <2>2, <2>4
  <1>4. CASE CheckFile
    <2>1. PICK there \in BOOLEAN : gate' = [g EXCEPT !.pc = "restore", !.exists = there]
      <3> DEFINE there == <<gate.object[1], gate.object[2], "raw">> \in files
      <3>1. there \in BOOLEAN
        OBVIOUS
      <3>2. gate' = [gate EXCEPT !.pc = "restore", !.exists = there]
        BY <1>4 DEF CheckFile
      <3> HIDE DEF there
      <3>3. QED
        BY <1>1, <3>1, <3>2
    <2>2. gate' \in GateType /\ gate'.pc = "restore" /\ gate'.object = g.object
      BY <1>1, <2>1 DEF GateType
    <2>3. QED
      BY <1>1, <1>2, <1>4, <2>2 DEF CheckFile
  <1>5. CASE ReadRestore
    <2>1. CASE gate' = NoGate
      BY <1>2, <2>1 DEF NoGate, GateType
    <2>2. CASE Artifacts /\ gate' = [g EXCEPT !.pc = "passed"]
      <3>1. gate' \in GateType /\ gate'.pc = "passed" /\ gate'.object = g.object
        BY <1>1, <2>2 DEF GateType
      <3>2. QED
        BY <1>1, <1>2, <1>5, <2>2, <3>1 DEF ReadRestore, Artifacts
    <2>3. QED
      BY <1>1, <1>5, <2>1, <2>2 DEF ReadRestore
  <1>6. QED
    BY <1>3, <1>4, <1>5

GateTyped == Typed /\ gate \in GateType

LEMMA GateInvariant == GateSpec => []GateTyped
  <1>1. GateInit => GateTyped
    BY TypedInit DEF GateInit, GateTyped, NoGate, GateType
  <1>2. GateTyped /\ [GateNext]_gateVars => GateTyped'
    <2> SUFFICES ASSUME GateTyped, [GateNext]_gateVars PROVE GateTyped'
      OBVIOUS
    <2>1. CASE Next /\ UNCHANGED gate
      BY <2>1, TypedStep DEF GateTyped, GateType, ObjectIds, RunIds, Parts
    <2>2. CASE LookUp \/ CheckFile \/ ReadRestore
      <3>1. UNCHANGED vars /\ gate' \in GateType
        BY <2>2, GateMoves DEF GateTyped
      <3>2. QED
        BY <3>1, TypedStep DEF GateTyped, GateType, ObjectIds, RunIds, Parts
    <2>3. CASE UNCHANGED gateVars
      BY <2>3, TypedStep DEF gateVars, GateTyped, GateType, ObjectIds, RunIds, Parts
    <2>4. QED
      BY <2>1, <2>2, <2>3 DEF GateNext
  <1>3. QED
    BY <1>1, <1>2, PTL DEF GateSpec

(***************************************************************************)
(* Every state of archives, replays and the gate is well typed.            *)
(***************************************************************************)
THEOREM ArchiveTypes == GateSpec => []GateTypeOK
  <1>1. GateTyped => GateTypeOK
    BY DEF GateTyped, Typed, GateTypeOK, GateType
  <1>2. QED
    BY <1>1, GateInvariant, PTL

-----------------------------------------------------------------------------
(***************************************************************************)
(* What a call that archives has done, by where it is: a part that is      *)
(* through without a failure has its row and its files, and what the call  *)
(* knows of is there until it begins to take it back.                      *)
(***************************************************************************)
Has(j, p, mirrored) ==
    /\ "row" \in j.known[p] /\ "raw" \in j.known[p] /\ "normalized" \in j.known[p]
    /\ mirrored => "mirror" \in j.known[p]

AtPart == {"raw", "parse", "normalize", "mirror", "row"}

Crawling == AtPart \cup {"symbols", "finish"}

Through(j, mirrored) ==
    /\ j.pc = "symbols" => j.next = 1
    /\ j.pc \in AtPart /\ ~j.failed => \A p \in Parts : p < j.next => Has(j, p, mirrored)
    /\ j.pc \in {"parse", "normalize", "mirror", "row"} => "raw" \in j.known[j.next]
    /\ j.pc \in {"mirror", "row"} => "normalized" \in j.known[j.next]
    /\ j.pc = "row" /\ mirrored => "mirror" \in j.known[j.next]
    /\ j.pc = "finish" => \A p \in Parts : p <= j.parts => Has(j, p, mirrored)

Held(j, rows, stored) ==
    \A p \in Parts :
        /\ "row" \in j.known[p] => <<j.run, p>> \in rows
        /\ \A kind \in FileKinds : kind \in j.known[p] => <<j.run, p, kind>> \in stored

Progress(j, mirrored, rows, stored) ==
    j.pc \in Crawling => Through(j, mirrored) /\ Held(j, rows, stored)

\* A call that takes back, or none, has nothing to show.
LEMMA AsideProgress ==
    ASSUME NEW j, NEW mirrored, NEW rows, NEW stored,
           j.pc \in {"idle", "rows", "files", "report", "flag"}
    PROVE  Progress(j, mirrored, rows, stored)
  BY DEF Progress, Crawling, AtPart

\* A part that failed
LEMMA FailedPartProgress ==
    ASSUME NEW j \in JobType, NEW d, d = PartDone(j, TRUE), j.pc \in Crawling,
           NEW mirrored, NEW rows, NEW stored, NEW rows2, NEW stored2,
           Held(j, rows, stored), rows \subseteq rows2, stored \subseteq stored2
    PROVE  Progress(d, mirrored, rows2, stored2)
  <1>1. /\ d.known = j.known /\ d.run = j.run /\ d.failed
        /\ d.pc \in {"flag", "raw", "rows", "finish"} /\ d.pc # "finish"
    <2>1. OnWith(j, d)
      BY PartDoneType
    <2>2. d.known = j.known
      BY PartDoneType
    <2>3. d.failed
      BY PartDoneType DEF Failures
    <2>4. d.pc \in {"flag", "raw", "rows", "finish"}
      BY PartDoneType
    <2>5. d.pc # "finish"
      BY PartDoneType DEF Failures
    <2>6. QED
      BY <2>1, <2>2, <2>3, <2>4, <2>5 DEF OnWith
  <1>2. Through(d, mirrored)
    BY <1>1 DEF Through, AtPart
  <1>3. Held(d, rows2, stored2)
    BY <1>1 DEF Held
  <1>4. QED
    BY <1>2, <1>3 DEF Progress

\* A file that is written, and the call goes on with the part.
LEMMA WrittenProgress ==
    ASSUME NEW j \in JobType, NEW d, NEW kind \in FileKinds, NEW pc \in JobPcs,
           d = [Knows(j, kind) EXCEPT !.pc = pc], j.pc \in AtPart,
           NEW mirrored, NEW rows, NEW stored, Progress(j, mirrored, rows, stored),
           \/ j.pc = "raw" /\ kind = "raw" /\ pc \in {"parse", "normalize"}
           \/ j.pc = "normalize" /\ kind = "normalized" /\ pc = "mirror"
           \/ j.pc = "mirror" /\ kind = "mirror" /\ pc = "row"
    PROVE  Progress(d, mirrored, rows, stored \cup {FileOf(j, kind)})
  <1>1. PICK k : k = Knows(j, kind)
    OBVIOUS
  <1>2. /\ k \in JobType /\ k.run = j.run /\ k.next = j.next /\ k.failed = j.failed
        /\ k.known = [j.known EXCEPT ![j.next] = @ \cup {kind}]
    BY <1>1, KnowsGoesOn
  <1>3. /\ d.pc = pc /\ d.run = j.run /\ d.next = j.next /\ d.failed = j.failed
        /\ d.known = [j.known EXCEPT ![j.next] = @ \cup {kind}]
    BY <1>1, <1>2, JobAt DEF OnWith
  <1>4. j.known \in [Parts -> SUBSET (FileKinds \cup {"row"})] /\ j.next \in Parts
    BY DEF JobType
  <1>5. /\ \A p \in Parts : j.known[p] \subseteq d.known[p]
        /\ \A p \in Parts : p # j.next => d.known[p] = j.known[p]
        /\ d.known[j.next] = j.known[j.next] \cup {kind}
    BY <1>3, <1>4
  <1>6. Through(j, mirrored) /\ Held(j, rows, stored)
    BY DEF Progress, Crawling
  <1>7. Through(d, mirrored)
    BY <1>3, <1>4, <1>5, <1>6 DEF Through, Has, AtPart
  <1>8. Held(d, rows, stored \cup {FileOf(j, kind)})
    <2> SUFFICES ASSUME NEW p \in Parts
                 PROVE  /\ "row" \in d.known[p] => <<j.run, p>> \in rows
                        /\ \A what \in FileKinds :
                               what \in d.known[p] =>
                                   <<j.run, p, what>> \in stored \cup {FileOf(j, kind)}
      BY <1>3 DEF Held
    <2>1. "row" \notin FileKinds
      BY DEF FileKinds
    <2>2. CASE p # j.next
      BY <1>5, <1>6, <2>2 DEF Held
    <2>3. CASE p = j.next
      BY <1>5, <1>6, <2>1, <2>3 DEF Held, FileOf
    <2>4. QED
      BY <2>2, <2>3
  <1>9. QED
    BY <1>7, <1>8 DEF Progress

\* The row of a part is inserted.
LEMMA InsertedProgress ==
    ASSUME NEW j \in JobType, NEW d, d = PartDone(Knows(j, "row"), FALSE), j.pc = "row",
           NEW mirrored, NEW rows, NEW stored, Progress(j, mirrored, rows, stored)
    PROVE  Progress(d, mirrored, rows \cup {<<j.run, j.next>>}, stored)
  <1>1. PICK k : k = Knows(j, "row")
    OBVIOUS
  <1>2. /\ k \in JobType /\ k.run = j.run /\ k.next = j.next /\ k.failed = j.failed
        /\ k.parts = j.parts
        /\ k.known = [j.known EXCEPT ![j.next] = @ \cup {"row"}]
    BY <1>1, KnowsGoesOn
  <1>3. /\ d.known = [j.known EXCEPT ![j.next] = @ \cup {"row"}] /\ d.run = j.run
        /\ (j.failed => d.failed) /\ d.parts = j.parts
        /\ d.pc \in {"flag", "raw", "rows", "finish"}
        /\ d.pc = "finish" => ~j.failed /\ ~(j.next < j.parts)
        /\ d.pc = "raw" => d.next = j.next + 1
    <2>1. d = PartDone(k, FALSE)
      BY <1>1
    <2>2. k \in JobType
      BY <1>2
    <2>3. OnWith(k, d)
      BY <2>1, <2>2, PartDoneType
    <2>4. d.known = k.known
      BY <2>1, <2>2, PartDoneType, ZenonT(60)
    <2>5. d.parts = k.parts
      BY <2>1, <2>2, PartDoneType, ZenonT(60)
    <2>6. k.failed => d.failed
      BY <2>1, <2>2, PartDoneType DEF Failures
    <2>7. d.pc \in {"flag", "raw", "rows", "finish"}
      BY <2>1, <2>2, PartDoneType
    <2>8. d.pc = "finish" => ~k.failed /\ ~(k.next < k.parts)
      BY <2>1, <2>2, PartDoneType DEF Failures
    <2>9. d.pc = "raw" => d.next = k.next + 1
      BY <2>1, <2>2, PartDoneType
    <2>10. QED
      BY <1>2, <2>3, <2>4, <2>5, <2>6, <2>7, <2>8, <2>9 DEF OnWith
  <1>4. j.known \in [Parts -> SUBSET (FileKinds \cup {"row"})] /\ j.next \in Parts
    BY DEF JobType
  <1>5. PICK next \in Nat, parts \in Nat : next = j.next /\ parts = j.parts
    BY ArchiveAssumption DEF JobType, Parts
  <1>6. \A p \in Parts : p \in Nat
    BY ArchiveAssumption DEF Parts
  <1>7. /\ \A p \in Parts : j.known[p] \subseteq d.known[p]
        /\ \A p \in Parts : p # j.next => d.known[p] = j.known[p]
        /\ d.known[j.next] = j.known[j.next] \cup {"row"}
    <2>1. ASSUME NEW kept \in [Parts -> SUBSET (FileKinds \cup {"row"})], NEW at \in Parts,
                 NEW now, now = [kept EXCEPT ![at] = kept[at] \cup {"row"}]
          PROVE  /\ \A p \in Parts : p # at => now[p] = kept[p]
                 /\ now[at] = kept[at] \cup {"row"}
      BY <2>1
    <2>2. /\ \A p \in Parts : p # j.next => d.known[p] = j.known[p]
          /\ d.known[j.next] = j.known[j.next] \cup {"row"}
      <3>1. d.known = [j.known EXCEPT ![j.next] = j.known[j.next] \cup {"row"}]
        BY <1>3, Zenon
      <3>2. QED
        BY <1>4, <2>1, <3>1
    <2>3. \A p \in Parts : j.known[p] \subseteq d.known[p]
      BY <2>2, Zenon
    <2>4. QED
      BY <2>2, <2>3
  <1>8. Through(j, mirrored) /\ Held(j, rows, stored)
    BY DEF Progress, Crawling, AtPart
  <1>9. Has(d, j.next, mirrored)
    BY <1>4, <1>7, <1>8 DEF Through, Has
  <1>10. ~j.failed => \A p \in Parts : p < j.next => Has(d, p, mirrored)
    BY <1>7, <1>8 DEF Through, Has, AtPart
  <1>11. ~j.failed => \A p \in Parts : p <= j.next => Has(d, p, mirrored)
    <2> SUFFICES ASSUME ~j.failed, NEW p \in Parts, p <= j.next
                 PROVE  Has(d, p, mirrored)
      OBVIOUS
    <2>1. p < j.next \/ p = j.next
      <3>1. p \in Nat /\ p <= next
        BY <1>5, <1>6
      <3>2. p < next \/ p = next
        BY <3>1
      <3>3. QED
        BY <1>5, <3>2
    <2>2. QED
      BY <1>9, <1>10, <2>1
  <1>12. Through(d, mirrored)
    <2>1. CASE d.pc = "raw"
      <3>1. d.next = next + 1
        BY <1>3, <1>5, <2>1
      <3>2. \A p \in Parts : p < d.next => p <= j.next
        <4>1. \A p \in Nat : p < next + 1 => p <= next
          OBVIOUS
        <4>2. QED
          BY <1>5, <1>6, <3>1, <4>1
      <3>3. QED
        BY <1>3, <1>11, <2>1, <3>2 DEF Through
    <2>2. CASE d.pc = "finish"
      <3>1. d.parts = j.parts /\ ~(j.next < j.parts) /\ ~j.failed
        BY <1>3, <2>2
      <3>2. \A p \in Parts : p <= d.parts => p <= j.next
        <4>1. ~(next < parts) => \A p \in Nat : p <= parts => p <= next
          OBVIOUS
        <4>2. QED
          BY <1>5, <1>6, <3>1, <4>1
      <3>3. QED
        BY <1>11, <2>2, <3>1, <3>2 DEF Through, AtPart
    <2>3. CASE d.pc \in {"flag", "rows"}
      BY <2>3 DEF Through, AtPart
    <2>4. QED
      BY <1>3, <2>1, <2>2, <2>3
  <1>13. Held(d, rows \cup {<<j.run, j.next>>}, stored)
    <2> SUFFICES ASSUME NEW p \in Parts
                 PROVE  /\ "row" \in d.known[p] =>
                               <<j.run, p>> \in rows \cup {<<j.run, j.next>>}
                        /\ \A what \in FileKinds :
                               what \in d.known[p] => <<j.run, p, what>> \in stored
      BY <1>3 DEF Held
    <2>1. "row" \notin FileKinds
      BY DEF FileKinds
    <2>2. CASE p # j.next
      BY <1>7, <1>8, <2>2 DEF Held
    <2>3. CASE p = j.next
      BY <1>7, <1>8, <2>1, <2>3 DEF Held
    <2>4. QED
      BY <2>2, <2>3
  <1>14. QED
    BY <1>12, <1>13 DEF Progress

-----------------------------------------------------------------------------
(***************************************************************************)
(* A step leaves every run but the one at hand, its rows and its files as  *)
(* they are.                                                               *)
(***************************************************************************)
LEMMA OtherRun ==
    ASSUME Typed, [Next]_vars, NEW run \in DOMAIN runs, run # job.run
    PROVE  /\ run \in DOMAIN runs' /\ runs'[run] = runs[run] /\ job'.run # run
           /\ \A o : o[1] = run => (o \in objects' <=> o \in objects)
           /\ \A f : f[1] = run => (f \in files' <=> f \in files)
           /\ run \in returned' <=> run \in returned
           /\ drive' = drive
           /\ Whole(run) => Whole(run)'
  <1> DEFINE Left ==
        /\ run \in DOMAIN runs' /\ runs'[run] = runs[run] /\ job'.run # run
        /\ \A o : o[1] = run => (o \in objects' <=> o \in objects)
        /\ \A f : f[1] = run => (f \in files' <=> f \in files)
        /\ run \in returned' <=> run \in returned
        /\ drive' = drive
  <1>1. ASSUME Archiving PROVE Left
    <2>1. /\ job.pc # "idle" /\ Own(job) /\ (job' = NoJob \/ OnWith(job, job'))
          /\ UNCHANGED <<drive, observed, restores, replay, replays>>
      BY <1>1, ArchivingOwns
    <2>2. job.run \in DOMAIN runs /\ run # 0 /\ NoJob.run = 0
      BY <2>1, TypedParts, NoJobType DEF Typed, Tidy
    <2>3. job'.run # run
      BY <2>1, <2>2 DEF OnWith
    <2>4. run \in DOMAIN runs' /\ runs'[run] = runs[run]
      BY <2>1, <2>2, TypedParts DEF Own
    <2>5. \A o : o[1] = run => (o \in objects' <=> o \in objects)
      <3>1. <<job.run, job.next>>[1] # run
        OBVIOUS
      <3>2. QED
        BY <2>1, <3>1 DEF Own
    <2>6. \A f : f[1] = run => (f \in files' <=> f \in files)
      <3>1. \A kind \in FileKinds : FileOf(job, kind)[1] # run
        BY DEF FileOf
      <3>2. QED
        BY <2>1, <3>1 DEF Own
    <2>7. run \in returned' <=> run \in returned
      BY <2>1 DEF Own
    <2>8. QED
      BY <2>1, <2>3, <2>4, <2>5, <2>6, <2>7
  <1>2. ASSUME Begin PROVE Left
    <2>1. /\ runs' = runs \/ \E kind \in Kinds : runs' = Append(runs, NewRun(kind))
          /\ job' = job \/ job'.run = Len(runs) + 1
          /\ UNCHANGED <<drive, objects, files, returned>>
      BY <1>2, BeginOwns
    <2>2. run \in DOMAIN runs' /\ runs'[run] = runs[run]
      <3>1. CASE runs' = runs
        BY <3>1
      <3>2. ASSUME NEW kind \in Kinds, runs' = Append(runs, NewRun(kind))
            PROVE  run \in DOMAIN runs' /\ runs'[run] = runs[run]
        BY <3>2, TypedParts
      <3>3. QED
        BY <2>1, <3>1, <3>2
    <2>3. job'.run # run
      BY <2>1, TypedParts
    <2>4. QED
      BY <2>1, <2>2, <2>3
  <1>3. ASSUME StartReplay \/ Replaying PROVE Left
    BY <1>3, ReplayingOwns
  <1>4. ASSUME Crash PROVE Left
    <2>1. run # 0 /\ NoJob.run = 0
      BY TypedParts, NoJobType
    <2>2. QED
      BY <1>4, <2>1 DEF Crash, tables
  <1>5. ASSUME UNCHANGED vars PROVE Left
    BY <1>5 DEF vars, tables
  <1>6. Left
    BY <1>1, <1>2, <1>3, <1>4, <1>5 DEF Next
  <1>7. Whole(run) => Whole(run)'
    <2>1. \A p : /\ <<run, p>> \in objects' <=> <<run, p>> \in objects
                 /\ \A kind : <<run, p, kind>> \in files' <=> <<run, p, kind>> \in files
      <3>1. \A p : <<run, p>>[1] = run /\ \A kind : <<run, p, kind>>[1] = run
        OBVIOUS
      <3>2. QED
        BY <1>6, <3>1
    <2>2. runs'[run] = runs[run] /\ drive' = drive
      BY <1>6
    <2>3. QED
      BY <2>1, <2>2 DEF Whole
  <1>8. QED
    BY <1>6, <1>7

\* The call that archives keeps its record of progress true.
JobProgress == Progress(job, drive.required, objects, files)

LEMMA ProgressArchiving == Typed /\ JobProgress /\ Archiving => JobProgress'
  <1> SUFFICES ASSUME Typed, JobProgress, Archiving PROVE JobProgress'
    OBVIOUS
  <1>1. PICK j, m : j = job /\ m = drive.required
    OBVIOUS
  <1>2. j \in JobType /\ Progress(j, m, objects, files) /\ drive' = drive
    BY <1>1, TypedParts, ArchivingOwns DEF JobProgress
  <1> DEFINE Goal == Progress(job', m, objects', files')
  <1>3. (j.pc \in Crawling => Held(j, objects, files) /\ Through(j, m))
    BY <1>2 DEF Progress
  <1>4. ASSUME job' = PartDone(j, TRUE), j.pc \in Crawling,
               objects \subseteq objects', files \subseteq files'
        PROVE  Goal
    BY <1>2, <1>3, <1>4, FailedPartProgress
  <1>5. ASSUME NEW kind \in FileKinds, NEW pc \in JobPcs, WriteFile(kind, pc),
               UNCHANGED objects,
               \/ j.pc = "raw" /\ kind = "raw" /\ pc \in {"parse", "normalize"}
               \/ j.pc = "normalize" /\ kind = "normalized" /\ pc = "mirror"
        PROVE  Goal
    <2>1. \/ /\ files' = files \cup {FileOf(j, kind)}
             /\ job' = [Knows(j, kind) EXCEPT !.pc = pc]
          \/ files \subseteq files' /\ job' = PartDone(j, TRUE)
      BY <1>1, <1>5 DEF WriteFile
    <2>2. j.pc \in AtPart
      BY <1>5 DEF AtPart
    <2>3. CASE /\ files' = files \cup {FileOf(j, kind)}
               /\ job' = [Knows(j, kind) EXCEPT !.pc = pc]
      <3>1. Progress(job', m, objects, files \cup {FileOf(j, kind)})
        BY <1>2, <1>5, <2>2, <2>3, WrittenProgress
      <3>2. QED
        BY <1>5, <2>3, <3>1
    <2>4. CASE files \subseteq files' /\ job' = PartDone(j, TRUE)
      BY <1>4, <1>5, <2>2, <2>4 DEF Crawling
    <2>5. QED
      BY <2>1, <2>3, <2>4
  <1>6. Goal
    <2>1. CASE Symbols
      <3>1. UNCHANGED <<objects, files>> /\ j.pc = "symbols"
        BY <1>1, <2>1 DEF Symbols, tables
      <3>2. CASE job' = [j EXCEPT !.pc = "rows", !.outer = TRUE]
        <4>1. job'.pc = "rows"
          BY <1>2, <3>2, JobOuter DEF JobPcs
        <4>2. QED
          BY <4>1, AsideProgress
      <3>3. ASSUME NEW n \in Parts, job' = [j EXCEPT !.pc = "raw", !.parts = n]
            PROVE  Goal
        <4>1. "raw" \in JobPcs
          BY DEF JobPcs
        <4>2. job'.pc = "raw" /\ job'.next = j.next /\ job'.known = j.known /\ job'.run = j.run
          <5>1. /\ job'.pc = "raw" /\ OnWith(j, job') /\ job'.next = j.next
                /\ job'.known = j.known
            BY <1>2, <3>3, PartsBounded DEF JobType, OnWith
          <5>2. QED
            BY <5>1 DEF OnWith
        <4>3. j.next = 1 /\ Held(j, objects, files)
          BY <1>3, <3>1 DEF Crawling, Through
        <4>4. \A p \in Parts : ~(p < 1)
          BY ArchiveAssumption DEF Parts
        <4>5. Through(job', m)
          BY <4>2, <4>3, <4>4 DEF Through
        <4>6. Held(job', objects', files')
          BY <3>1, <4>2, <4>3 DEF Held
        <4>7. QED
          BY <4>5, <4>6 DEF Progress
      <3>4. QED
        BY <1>1, <2>1, <3>2, <3>3 DEF Symbols
    <2>2. CASE WriteRaw
      <3>1. j.pc = "raw" /\ UNCHANGED objects
        BY <1>1, <2>2 DEF WriteRaw, tables
      <3>2. \/ WriteFile("raw", IF job.kind = "import" THEN "parse" ELSE "normalize")
            \/ job' = PartDone(j, TRUE) /\ files' = files
        BY <1>1, <2>2 DEF WriteRaw
      <3>3. CASE WriteFile("raw", IF job.kind = "import" THEN "parse" ELSE "normalize")
        <4>1. PICK pc \in {"parse", "normalize"} : WriteFile("raw", pc)
          BY <3>3
        <4>2. QED
          BY <1>5, <3>1, <4>1 DEF FileKinds, JobPcs
      <3>4. CASE job' = PartDone(j, TRUE) /\ files' = files
        BY <1>4, <3>1, <3>4 DEF Crawling, AtPart
      <3>5. QED
        BY <3>2, <3>3, <3>4
    <2>3. CASE Parse
      <3>1. /\ j.pc = "parse" /\ UNCHANGED <<objects, files>>
            /\ job' = [j EXCEPT !.pc = "normalize"] \/ job' = PartDone(j, TRUE)
        BY <1>1, <2>3 DEF Parse, tables
      <3>2. CASE job' = [j EXCEPT !.pc = "normalize"]
        <4>1. /\ job'.pc = "normalize" /\ job'.next = j.next /\ job'.known = j.known
              /\ job'.run = j.run /\ job'.failed = j.failed
          BY <1>2, <3>2, JobAt DEF OnWith, JobPcs
        <4>2. Through(j, m) /\ Held(j, objects, files)
          BY <1>3, <3>1 DEF Crawling, AtPart
        <4>3. Through(job', m)
          BY <3>1, <4>1, <4>2 DEF Through, AtPart, Has
        <4>4. Held(job', objects', files')
          BY <3>1, <4>1, <4>2 DEF Held
        <4>5. QED
          BY <4>3, <4>4 DEF Progress
      <3>3. CASE job' = PartDone(j, TRUE)
        BY <1>4, <3>1, <3>3 DEF Crawling, AtPart
      <3>4. QED
        BY <3>1, <3>2, <3>3
    <2>4. CASE WriteNormalized
      <3>1. j.pc = "normalize" /\ UNCHANGED objects /\ WriteFile("normalized", "mirror")
        BY <1>1, <2>4 DEF WriteNormalized, tables
      <3>2. QED
        BY <1>5, <3>1 DEF FileKinds, JobPcs
    <2>5. CASE Mirror
      <3>1. /\ j.pc = "mirror" /\ UNCHANGED objects /\ files \subseteq files'
            /\ \/ /\ files' = files \cup {FileOf(j, "mirror")}
                  /\ job' = [Knows(j, "mirror") EXCEPT !.pc = "row"]
               \/ ~m /\ job' = [j EXCEPT !.pc = "row"]
               \/ job' = PartDone(j, TRUE)
        BY <1>1, <2>5 DEF Mirror, tables, BackupRequired
      <3>2. CASE /\ files' = files \cup {FileOf(j, "mirror")}
                 /\ job' = [Knows(j, "mirror") EXCEPT !.pc = "row"]
        <4>1. Progress(job', m, objects, files \cup {FileOf(j, "mirror")})
          BY <1>2, <3>1, <3>2, WrittenProgress DEF FileKinds, JobPcs, AtPart
        <4>2. QED
          BY <3>1, <3>2, <4>1
      <3>3. CASE ~m /\ job' = [j EXCEPT !.pc = "row"]
        <4>1. /\ job'.pc = "row" /\ job'.next = j.next /\ job'.known = j.known
              /\ job'.run = j.run /\ job'.failed = j.failed
          BY <1>2, <3>3, JobAt DEF OnWith, JobPcs
        <4>2. Through(j, m) /\ Held(j, objects, files)
          BY <1>3, <3>1 DEF Crawling, AtPart
        <4>3. Through(job', m)
          BY <3>1, <3>3, <4>1, <4>2 DEF Through, AtPart, Has
        <4>4. Held(job', objects', files')
          BY <3>1, <4>1, <4>2 DEF Held
        <4>5. QED
          BY <4>3, <4>4 DEF Progress
      <3>4. CASE job' = PartDone(j, TRUE)
        BY <1>4, <3>1, <3>4 DEF Crawling, AtPart
      <3>5. QED
        BY <3>1, <3>2, <3>3, <3>4
    <2>6. CASE InsertRow
      <3>1. /\ j.pc = "row" /\ UNCHANGED files
            /\ \/ /\ objects' = objects \cup {<<j.run, j.next>>}
                  /\ job' = PartDone(Knows(j, "row"), FALSE)
               \/ objects \subseteq objects' /\ job' = PartDone(j, TRUE)
        BY <1>1, <2>6 DEF InsertRow
      <3>2. CASE /\ objects' = objects \cup {<<j.run, j.next>>}
                 /\ job' = PartDone(Knows(j, "row"), FALSE)
        <4>1. Progress(job', m, objects \cup {<<j.run, j.next>>}, files)
          BY <1>2, <3>1, <3>2, InsertedProgress
        <4>2. QED
          BY <3>1, <3>2, <4>1
      <3>3. CASE objects \subseteq objects' /\ job' = PartDone(j, TRUE)
        BY <1>4, <3>1, <3>3 DEF Crawling, AtPart
      <3>4. QED
        BY <3>1, <3>2, <3>3
    <2>7. CASE Finish \/ DeleteRows \/ DeleteFile \/ Report \/ Flag
      <3>1. job'.pc \in {"idle", "rows", "files", "report", "flag"}
        <4>1. NoJob.pc = "idle"
          BY NoJobType
        <4>2. CASE Finish
          <5>1. CASE job' = [j EXCEPT !.pc = "flag", !.status = "succeeded"]
            <6>1. j.pc = "finish"
              BY <1>1, <4>2 DEF Finish
            <6>2. QED
              BY <1>2, <5>1, <6>1, JobStored DEF JobPcs
          <5>2. CASE job' = [j EXCEPT !.pc = "rows", !.outer = TRUE]
            BY <1>2, <5>2, JobOuter DEF JobPcs
          <5>3. QED
            BY <1>1, <4>1, <4>2, <5>1, <5>2 DEF Finish
        <4>3. CASE DeleteRows
          <5>1. CASE job' = [j EXCEPT !.pc = "files"]
            BY <1>2, <5>1, JobAt DEF JobPcs
          <5>2. CASE job' = [j EXCEPT !.pc = "files", !.unclean = TRUE]
            BY <1>2, <5>2, JobRefused DEF JobPcs
          <5>3. QED
            BY <1>1, <4>3, <5>1, <5>2 DEF DeleteRows, Refused
        <4>4. CASE DeleteFile
          <5>1. CASE job' = [j EXCEPT !.pc = "report"]
            BY <1>2, <5>1, JobAt DEF JobPcs
          <5>2. CASE job' = [j EXCEPT !.pc = "rows", !.outer = TRUE, !.unclean = FALSE]
            BY <1>2, <5>2, JobAgain DEF JobPcs
          <5>3. QED
            BY <1>1, <4>1, <4>4, <5>1, <5>2 DEF DeleteFile
        <4>5. CASE Report
          BY <4>1, <4>5 DEF Report
        <4>6. CASE Flag
          <5>1. CASE job' = [j EXCEPT !.pc = "files"]
            BY <1>2, <5>1, JobAt DEF JobPcs
          <5>2. QED
            BY <1>1, <4>1, <4>6, <5>1 DEF Flag
        <4>7. QED
          BY <2>7, <4>2, <4>3, <4>4, <4>5, <4>6
      <3>2. QED
        BY <3>1, AsideProgress
    <2>8. QED
      BY <2>1, <2>2, <2>3, <2>4, <2>5, <2>6, <2>7 DEF Archiving
  <1>7. QED
    BY <1>1, <1>2, <1>6 DEF JobProgress

LEMMA ProgressStep == Typed /\ JobProgress /\ [Next]_vars => JobProgress'
  <1> SUFFICES ASSUME Typed, JobProgress, [Next]_vars PROVE JobProgress'
    OBVIOUS
  <1>1. CASE Begin
    <2>1. CASE job' = job
      BY <1>1, <2>1, BeginOwns DEF JobProgress
    <2>2. CASE job' # job
      <3>1. /\ job'.pc \in {"symbols", "raw"} /\ job'.next = 1
            /\ \A p \in Parts : job'.known[p] = {}
        BY <1>1, <2>2, BeginOwns
      <3>2. \A p \in Parts : ~(p < 1)
        BY ArchiveAssumption DEF Parts
      <3>3. ASSUME NEW m PROVE Through(job', m)
        BY <3>1, <3>2 DEF Through
      <3>4. ASSUME NEW rows, NEW stored PROVE Held(job', rows, stored)
        BY <3>1 DEF Held
      <3>5. ASSUME NEW m, NEW rows, NEW stored PROVE Progress(job', m, rows, stored)
        BY <3>3, <3>4 DEF Progress
      <3>6. QED
        BY <3>5 DEF JobProgress
    <2>3. QED
      BY <2>1, <2>2
  <1>2. CASE StartReplay \/ Replaying
    BY <1>2, ReplayingOwns DEF JobProgress
  <1>3. CASE Crash
    <2>1. job'.pc = "idle"
      BY <1>3, NoJobType DEF Crash
    <2>2. QED
      BY <2>1 DEF JobProgress, Progress, Crawling, AtPart
  <1>4. CASE UNCHANGED vars
    BY <1>4 DEF vars, tables, JobProgress
  <1>5. QED
    BY <1>1, <1>2, <1>3, <1>4, ProgressArchiving DEF Next

\* When a call ends well all the parts of its run are there.
LEMMA FinishedIsWhole ==
    ASSUME Typed, JobProgress, Finish, returned' # returned, NEW run, run = job.run
    PROVE  /\ job' = NoJob /\ returned' = returned \cup {run}
           /\ runs' = WithRun(job, "succeeded", "none")
           /\ runs'[run].status = "succeeded" /\ runs'[run].abort = "none"
           /\ Whole(run)'
  <1>1. /\ job' = NoJob /\ returned' = returned \cup {run}
        /\ runs' = WithRun(job, "succeeded", "none")
        /\ UNCHANGED <<drive, objects, files>> /\ job.pc = "finish"
    BY DEF Finish
  <1>2. run \in DOMAIN runs
    BY <1>1 DEF Typed, Tidy
  <1>3. runs'[run] = [kind |-> job.kind, status |-> "succeeded", abort |-> "none",
                      parts |-> job.parts]
    BY <1>1, <1>2, TypedParts DEF WithRun
  <1>4. Through(job, drive.required) /\ Held(job, objects, files)
    BY <1>1 DEF JobProgress, Progress, Crawling
  <1>5. PICK parts, mirrored : parts = job.parts /\ mirrored = drive.required
    OBVIOUS
  <1>6. parts \in 0..MaxParts /\ 1..parts \subseteq Parts
    BY <1>5, TypedParts DEF JobType, Parts
  <1>7. ASSUME NEW p \in 1..parts
        PROVE  /\ <<run, p>> \in objects
               /\ <<run, p, "raw">> \in files /\ <<run, p, "normalized">> \in files
               /\ mirrored => <<run, p, "mirror">> \in files
    <2>1. p \in Parts /\ p <= parts
      BY <1>6
    <2>2. Has(job, p, mirrored)
      BY <1>1, <1>4, <1>5, <2>1 DEF Through
    <2>3. QED
      BY <1>4, <1>5, <2>1, <2>2 DEF Held, Has, FileKinds
  <1>8. runs'[run].parts = parts
    BY <1>3, <1>5
  <1>9. drive'.required = mirrored /\ objects' = objects /\ files' = files
    BY <1>1, <1>5
  <1>10. Whole(run)'
    BY <1>7, <1>8, <1>9 DEF Whole
  <1>11. QED
    BY <1>1, <1>3, <1>10

-----------------------------------------------------------------------------
(***************************************************************************)
(* Theorem: a run whose caller was told that it succeeded is kept.         *)
(***************************************************************************)
Kept(run) ==
    /\ run # job.run
    /\ runs[run].status = "succeeded" /\ runs[run].abort = "none"
    /\ Whole(run)

ReturnedKept == JobProgress /\ \A run \in returned : Kept(run)

LEMMA KeptStep == Typed /\ ReturnedKept /\ [Next]_vars => ReturnedKept'
  <1> SUFFICES ASSUME Typed, ReturnedKept, [Next]_vars PROVE ReturnedKept'
    OBVIOUS
  <1>1. JobProgress'
    BY ProgressStep DEF ReturnedKept
  <1>2. \A run \in returned : run \in DOMAIN runs
    BY DEF Typed, Tidy
  <1>3. ASSUME NEW run \in returned PROVE Kept(run)'
    <2>1. Kept(run) /\ run \in DOMAIN runs
      BY <1>2 DEF ReturnedKept
    <2>2. runs'[run] = runs[run] /\ job'.run # run /\ Whole(run)'
      BY <2>1, OtherRun DEF Kept
    <2>3. QED
      BY <2>1, <2>2 DEF Kept
  <1>4. ASSUME NEW run \in returned', run \notin returned PROVE Kept(run)'
    <2>1. /\ Finish /\ run = job.run
      <3>1. UNCHANGED returned \/ Finish
        BY DEF Next, Begin, Archiving, Symbols, WriteRaw, Parse, WriteNormalized, Mirror,
           InsertRow, DeleteRows, DeleteFile, Report, Flag, StartReplay, Replaying,
           ReadArchive, Replace, Record, Abort, Crash, vars
      <3>2. Finish
        BY <1>4, <3>1
      <3>3. QED
        BY <1>4, <3>2 DEF Finish
    <2>2. /\ job' = NoJob
          /\ runs'[run].status = "succeeded" /\ runs'[run].abort = "none"
          /\ Whole(run)'
      BY <1>4, <2>1, FinishedIsWhole DEF ReturnedKept
    <2>3. run # NoJob.run
      <3>1. job.pc # "idle"
        BY <2>1 DEF Finish
      <3>2. QED
        BY <2>1, <3>1, TypedParts, NoJobType
    <2>4. QED
      BY <2>2, <2>3 DEF Kept
  <1>5. QED
    BY <1>1, <1>3, <1>4 DEF ReturnedKept

LEMMA KeptInvariant == GateSpec => []ReturnedKept
  <1>1. GateInit => ReturnedKept
    BY NoJobType DEF GateInit, Init, ReturnedKept, JobProgress, Progress, Crawling, AtPart
  <1>2. GateTyped /\ ReturnedKept /\ [GateNext]_gateVars => ReturnedKept'
    BY KeptStep DEF GateTyped, GateNext, LookUp, CheckFile, ReadRestore, gateVars
  <1>3. QED
    BY <1>1, <1>2, GateInvariant, PTL DEF GateSpec

(***************************************************************************)
(* A run whose caller was told it succeeded stays succeeded and keeps all  *)
(* its parts, whatever happens afterwards, under any number of failures.   *)
(***************************************************************************)
THEOREM ReturnedIsKept == GateSpec => []ReturnedArchiveIsKept
  <1>1. GateTyped /\ ReturnedKept => ReturnedArchiveIsKept
    <2> SUFFICES ASSUME GateTyped, ReturnedKept, NEW run \in returned
                 PROVE  /\ runs[run] = [runs[run] EXCEPT !.status = "succeeded",
                                                         !.abort = "none"]
                        /\ Whole(run)
      BY DEF ReturnedArchiveIsKept
    <2>1. PICK row : row = runs[run]
      OBVIOUS
    <2>2. row \in RunRow /\ row.status = "succeeded" /\ row.abort = "none" /\ Whole(run)
      BY <2>1, TypedParts DEF GateTyped, Typed, Tidy, ReturnedKept, Kept
    <2>3. row = [row EXCEPT !.status = "succeeded", !.abort = "none"]
      BY <2>2 DEF RunRow
    <2>4. QED
      BY <2>1, <2>2, <2>3
  <1>2. QED
    BY <1>1, GateInvariant, KeptInvariant, PTL

-----------------------------------------------------------------------------
(***************************************************************************)
(* Theorem: one failure of storage or restart hides nothing.               *)
(*                                                                         *)
(* An import does not take rows back: it stores its failure, and then      *)
(* deletes its files.                                                      *)
(***************************************************************************)
ImportPath(j) ==
    j.kind = "import" =>
        /\ j.pc \in AtPart \cup {"idle", "finish", "flag", "files"}
        /\ j.pc \in AtPart => ~j.failed

LEMMA ImportPartDone ==
    ASSUME NEW j \in JobType, ImportPath(j), j.pc \in AtPart, NEW d,
           d = PartDone(j, TRUE) \/ d = PartDone(j, FALSE)
    PROVE  ImportPath(d)
  <1>1. OnWith(j, d)
    BY PartDoneType
  <1>2. CASE d = PartDone(j, TRUE)
    <2>1. j.kind = "import" => d.pc = "flag"
      BY <1>2, PartDoneType
    <2>2. QED
      BY <1>1, <2>1 DEF ImportPath, OnWith, AtPart
  <1>3. CASE d = PartDone(j, FALSE)
    <2>1. d.failed = Failures(j, FALSE)
      BY <1>3, PartDoneType
    <2>2. d.pc \in {"flag", "raw", "rows", "finish"}
      BY <1>3, PartDoneType
    <2>3. j.kind = "import" => ~d.failed
      BY <2>1 DEF ImportPath, Failures
    <2>4. j.kind = "import" => d.pc # "rows"
      BY DEF ImportPath, PartDone, Failures, AtPart, JobType
    <2>5. QED
      BY <1>1, <2>2, <2>3, <2>4 DEF ImportPath, OnWith, AtPart
  <1>4. QED
    BY <1>2, <1>3

LEMMA ImportStep == Typed /\ ImportPath(job) /\ Archiving => ImportPath(job')
  <1> SUFFICES ASSUME Typed, ImportPath(job), Archiving PROVE ImportPath(job')
    OBVIOUS
  <1>1. PICK j : j = job
    OBVIOUS
  <1>2. j \in JobType /\ ImportPath(j)
    BY <1>1, TypedParts
  <1>3. job' = NoJob => ImportPath(job')
    BY NoJobType DEF ImportPath, AtPart
  <1>4. CASE j.kind # "import"
    <2>1. job' = NoJob \/ job'.kind = j.kind
      BY <1>1, ArchivingOwns DEF OnWith
    <2>2. QED
      BY <1>3, <1>4, <2>1 DEF ImportPath
  <1>5. ASSUME j.pc \in AtPart, job' = PartDone(j, TRUE) PROVE ImportPath(job')
    BY <1>2, <1>5, ImportPartDone
  <1>6. ASSUME NEW what \in FileKinds, NEW pc \in AtPart, j.pc \in AtPart,
               job' = [Knows(j, what) EXCEPT !.pc = pc]
        PROVE  ImportPath(job')
    <2>1. PICK k : k = Knows(j, what)
      OBVIOUS
    <2>2. k \in JobType /\ k.kind = j.kind /\ k.failed = j.failed
      BY <1>2, <2>1, KnowsGoesOn
    <2>3. pc \in JobPcs /\ job' = [k EXCEPT !.pc = pc]
      BY <1>6, <2>1 DEF AtPart, JobPcs
    <2>4. job'.pc = pc /\ job'.kind = k.kind /\ job'.failed = k.failed
      BY <2>2, <2>3, JobAt DEF OnWith
    <2>5. QED
      BY <1>2, <1>6, <2>2, <2>4 DEF ImportPath
  <1>7. ASSUME NEW pc \in JobPcs, job' = [j EXCEPT !.pc = pc],
               (j.pc \in AtPart /\ pc \in AtPart) \/ pc = "files"
        PROVE  ImportPath(job')
    <2>1. job'.pc = pc /\ job'.kind = j.kind /\ job'.failed = j.failed
      BY <1>2, <1>7, JobAt DEF OnWith
    <2>2. QED
      BY <1>2, <1>7, <2>1 DEF ImportPath, AtPart
  <1>8. ASSUME NEW kind \in FileKinds, NEW pc \in AtPart, WriteFile(kind, pc), j.pc \in AtPart
        PROVE  ImportPath(job')
    <2>1. \/ job' = [Knows(j, kind) EXCEPT !.pc = pc]
          \/ job' = PartDone(j, TRUE)
      BY <1>1, <1>8 DEF WriteFile
    <2>2. QED
      BY <1>5, <1>6, <1>8, <2>1
  <1>9. CASE j.kind = "import" /\ WriteRaw
    <2>1. j.pc \in AtPart /\ WriteFile("raw", "parse")
      BY <1>1, <1>9 DEF WriteRaw, AtPart
    <2>2. QED
      BY <1>8, <2>1 DEF FileKinds, AtPart
  <1>10. CASE Parse
    <2>1. /\ j.pc \in AtPart
          /\ job' = [j EXCEPT !.pc = "normalize"] \/ job' = PartDone(j, TRUE)
      BY <1>1, <1>10 DEF Parse, AtPart
    <2>2. QED
      BY <1>5, <1>7, <2>1 DEF JobPcs, AtPart
  <1>11. CASE WriteNormalized
    <2>1. j.pc \in AtPart /\ WriteFile("normalized", "mirror")
      BY <1>1, <1>11 DEF WriteNormalized, AtPart
    <2>2. QED
      BY <1>8, <2>1 DEF FileKinds, AtPart
  <1>12. CASE Mirror
    <2>1. /\ j.pc \in AtPart
          /\ \/ job' = [Knows(j, "mirror") EXCEPT !.pc = "row"]
             \/ job' = [j EXCEPT !.pc = "row"] \/ job' = PartDone(j, TRUE)
      BY <1>1, <1>12 DEF Mirror, AtPart
    <2>2. CASE job' = [Knows(j, "mirror") EXCEPT !.pc = "row"]
      BY <1>6, <2>1, <2>2 DEF FileKinds, AtPart
    <2>3. CASE job' = [j EXCEPT !.pc = "row"]
      BY <1>7, <2>1, <2>3 DEF JobPcs, AtPart
    <2>4. QED
      BY <1>5, <2>1, <2>2, <2>3
  <1>13. CASE InsertRow
    <2>1. /\ j.pc \in AtPart
          /\ job' = PartDone(Knows(j, "row"), FALSE) \/ job' = PartDone(j, TRUE)
      BY <1>1, <1>13 DEF InsertRow, AtPart
    <2>2. PICK k : k = Knows(j, "row")
      OBVIOUS
    <2>3. k \in JobType /\ k.kind = j.kind /\ k.failed = j.failed /\ k.pc = j.pc
      BY <1>2, <2>2, KnowsGoesOn
    <2>4. ImportPath(k) /\ k.pc \in AtPart
      BY <1>2, <2>1, <2>3 DEF ImportPath
    <2>5. QED
      BY <1>5, <2>1, <2>2, <2>3, <2>4, ImportPartDone
  <1>14. CASE j.kind = "import" /\ Finish
    <2>1. j.pc = "finish"
      BY <1>1, <1>14 DEF Finish
    <2>2. job' = NoJob \/ job' = [j EXCEPT !.pc = "flag", !.status = "succeeded"]
      BY <1>1, <1>14 DEF Finish
    <2>3. CASE job' = [j EXCEPT !.pc = "flag", !.status = "succeeded"]
      <3>1. job'.pc = "flag"
        BY <1>2, <2>1, <2>3, JobStored, ZenonT(60) DEF JobPcs
      <3>2. QED
        BY <3>1 DEF ImportPath, AtPart
    <2>4. QED
      BY <1>3, <2>2, <2>3
  <1>15. CASE j.kind = "import" /\ DeleteFile
    <2>1. job' = NoJob \/ (job' = j /\ j.pc = "files")
      BY <1>1, <1>15 DEF DeleteFile
    <2>2. QED
      BY <1>2, <1>3, <2>1
  <1>16. CASE Flag
    <2>1. job' = NoJob \/ job' = [j EXCEPT !.pc = "files"]
      BY <1>1, <1>16 DEF Flag
    <2>2. QED
      BY <1>3, <1>7, <2>1 DEF JobPcs
  <1>17. j.kind = "import" => ~Symbols /\ ~DeleteRows /\ ~Report
    BY <1>1, <1>2 DEF ImportPath, AtPart, Symbols, DeleteRows, Report
  <1>18. QED
    BY <1>4, <1>9, <1>10, <1>11, <1>12, <1>13, <1>14, <1>15, <1>16, <1>17 DEF Archiving

\* How a call comes to store the failure of an import, and to delete files
LEMMA Destinations ==
    ASSUME Typed, Archiving
    PROVE  /\ job'.pc = "flag" => job.kind = "import"
           /\ job'.pc = "files" => DeleteRows \/ Flag \/ (DeleteFile /\ job' = job)
  <1>1. PICK j : j = job
    OBVIOUS
  <1>2. j \in JobType /\ NoJob.pc = "idle"
    BY <1>1, TypedParts, NoJobType
  <1> DEFINE Elsewhere == job'.pc \notin {"flag", "files"}
             Sound == /\ job'.pc = "flag" => j.kind = "import"
                      /\ job'.pc # "files"
  <1>3. ASSUME job' = PartDone(j, TRUE) PROVE Sound
    <2>1. job'.pc \in {"flag", "raw", "rows", "finish"}
      BY <1>2, <1>3, PartDoneType
    <2>2. job'.pc = "flag" => j.kind = "import"
      BY <1>2, <1>3, PartDoneType
    <2>3. QED
      BY <2>1, <2>2
  <1>4. ASSUME NEW what \in FileKinds, NEW pc \in AtPart,
               job' = [Knows(j, what) EXCEPT !.pc = pc]
        PROVE  Sound
    <2>1. PICK k : k = Knows(j, what)
      OBVIOUS
    <2>2. k \in JobType
      BY <1>2, <2>1, KnowsGoesOn
    <2>3. pc \in JobPcs /\ job' = [k EXCEPT !.pc = pc] /\ pc \notin {"flag", "files"}
      BY <1>4, <2>1 DEF AtPart, JobPcs
    <2>4. job'.pc = pc
      BY <2>2, <2>3, JobAt
    <2>5. QED
      BY <2>3, <2>4
  <1>5. ASSUME NEW pc \in JobPcs, pc \notin {"flag", "files"}, job' = [j EXCEPT !.pc = pc]
        PROVE  Sound
    <2>1. job'.pc = pc
      BY <1>2, <1>5, JobAt
    <2>2. QED
      BY <1>5, <2>1
  <1>6. ASSUME NEW kind \in FileKinds, NEW pc \in AtPart, WriteFile(kind, pc)
        PROVE  Sound
    <2>1. \/ job' = [Knows(j, kind) EXCEPT !.pc = pc]
          \/ job' = PartDone(j, TRUE)
      BY <1>1, <1>6 DEF WriteFile
    <2>2. QED
      BY <1>3, <1>4, <2>1
  <1>7. ASSUME Symbols PROVE Sound
    <2>1. CASE job' = [j EXCEPT !.pc = "rows", !.outer = TRUE]
      <3>1. job'.pc = "rows"
        BY <1>2, <2>1, JobOuter DEF JobPcs
      <3>2. QED
        BY <3>1
    <2>2. ASSUME NEW n \in Parts, job' = [j EXCEPT !.pc = "raw", !.parts = n] PROVE Sound
      <3>1. job'.pc = "raw"
        BY <1>2, <2>2 DEF JobType
      <3>2. QED
        BY <3>1
    <2>3. QED
      BY <1>1, <1>7, <2>1, <2>2 DEF Symbols
  <1>8. ASSUME WriteRaw PROVE Sound
    <2>1. \/ \E pc \in AtPart : WriteFile("raw", pc)
          \/ job' = PartDone(j, TRUE)
      BY <1>1, <1>8 DEF WriteRaw, AtPart
    <2>2. QED
      BY <1>3, <1>6, <2>1 DEF FileKinds
  <1>9. ASSUME Parse PROVE Sound
    <2>1. job' = [j EXCEPT !.pc = "normalize"] \/ job' = PartDone(j, TRUE)
      BY <1>1, <1>9 DEF Parse
    <2>2. QED
      BY <1>3, <1>5, <2>1 DEF JobPcs
  <1>10. ASSUME WriteNormalized PROVE Sound
    <2>1. WriteFile("normalized", "mirror")
      BY <1>10 DEF WriteNormalized
    <2>2. QED
      BY <1>6, <2>1 DEF FileKinds, AtPart
  <1>11. ASSUME Mirror PROVE Sound
    <2>1. \/ job' = [Knows(j, "mirror") EXCEPT !.pc = "row"]
          \/ job' = [j EXCEPT !.pc = "row"] \/ job' = PartDone(j, TRUE)
      BY <1>1, <1>11 DEF Mirror
    <2>2. CASE job' = [Knows(j, "mirror") EXCEPT !.pc = "row"]
      BY <1>4, <2>2 DEF FileKinds, AtPart
    <2>3. CASE job' = [j EXCEPT !.pc = "row"]
      BY <1>5, <2>3 DEF JobPcs
    <2>4. QED
      BY <1>3, <2>1, <2>2, <2>3
  <1>12. ASSUME InsertRow PROVE Sound
    <2>1. job' = PartDone(Knows(j, "row"), FALSE) \/ job' = PartDone(j, TRUE)
      BY <1>1, <1>12 DEF InsertRow
    <2>2. PICK k : k = Knows(j, "row")
      OBVIOUS
    <2>3. k \in JobType /\ k.kind = j.kind
      BY <1>2, <2>2, KnowsGoesOn
    <2>4. CASE job' = PartDone(k, FALSE)
      <3>1. job'.pc \in {"flag", "raw", "rows", "finish"}
        BY <2>3, <2>4, PartDoneType
      <3>2. job'.pc = "flag" => k.kind = "import"
        BY <2>3, <2>4, PartDoneType
      <3>3. QED
        BY <2>3, <3>1, <3>2
    <2>5. QED
      BY <1>3, <2>1, <2>2, <2>4
  <1>13. ASSUME Finish PROVE Sound
    <2>1. j.pc = "finish"
      BY <1>1, <1>13 DEF Finish
    <2>2. CASE j.kind = "import" /\ job' = [j EXCEPT !.pc = "flag", !.status = "succeeded"]
      <3>1. job'.pc = "flag"
        BY <1>2, <2>1, <2>2, JobStored, ZenonT(60) DEF JobPcs
      <3>2. QED
        BY <2>2, <3>1
    <2>3. CASE job' = [j EXCEPT !.pc = "rows", !.outer = TRUE]
      <3>1. job'.pc = "rows"
        BY <1>2, <2>3, JobOuter DEF JobPcs
      <3>2. QED
        BY <3>1
    <2>4. QED
      BY <1>1, <1>2, <1>13, <2>2, <2>3 DEF Finish
  <1>14. ASSUME DeleteRows PROVE job'.pc = "files"
    <2>1. CASE job' = [j EXCEPT !.pc = "files"]
      BY <1>2, <2>1, JobAt DEF JobPcs
    <2>2. CASE job' = [j EXCEPT !.pc = "files", !.unclean = TRUE]
      BY <1>2, <2>2, JobRefused DEF JobPcs
    <2>3. QED
      BY <1>1, <1>14, <2>1, <2>2 DEF DeleteRows, Refused
  <1>15. ASSUME DeleteFile PROVE (job' = job /\ job.pc = "files") \/ Sound
    <2>1. CASE job' = [j EXCEPT !.pc = "report"]
      BY <1>5, <2>1 DEF JobPcs
    <2>2. CASE job' = [j EXCEPT !.pc = "rows", !.outer = TRUE, !.unclean = FALSE]
      <3>1. job'.pc = "rows"
        BY <1>2, <2>2, JobAgain DEF JobPcs
      <3>2. QED
        BY <3>1
    <2>3. CASE job' = NoJob
      BY <1>2, <2>3
    <2>4. QED
      BY <1>1, <1>15, <2>1, <2>2, <2>3 DEF DeleteFile
  <1>16. ASSUME Report PROVE Sound
    BY <1>2, <1>16 DEF Report
  <1>17. ASSUME Flag PROVE job'.pc \in {"idle", "files"}
    <2>1. CASE job' = [j EXCEPT !.pc = "files"]
      BY <1>2, <2>1, JobAt DEF JobPcs
    <2>2. QED
      BY <1>1, <1>2, <1>17, <2>1 DEF Flag
  <1>18. QED
    BY <1>1, <1>7, <1>8, <1>9, <1>10, <1>11, <1>12, <1>13, <1>14, <1>15, <1>16, <1>17
       DEF Archiving

\* How a call stores its run
LEMMA ArchivingStores ==
    ASSUME Typed, Archiving, runs' # runs
    PROVE  \/ Finish /\ runs' = WithRun(job, "succeeded", "none")
           \/ Report /\ runs' = Reported(job)
           \/ Flag /\ runs' = WithRun(job, job.status, "failed")
  BY DEF Archiving, Symbols, WriteRaw, Parse, WriteNormalized, Mirror, InsertRow, Finish,
     DeleteRows, DeleteFile, Report, Flag, tables

LEMMA FaultCounts ==
    ASSUME Typed, faults' = faults \/ Fault
    PROVE  /\ faults \in Nat /\ faults' \in Nat /\ faults <= faults'
           /\ Fault => faults' = faults + 1
  BY ArchiveAssumption DEF Typed, TypeOK, Fault

\* A run is stored as succeeded before its call is over only after a failure; the
\* run of an import that deletes its files has a reason, that of a dispatch none
\* before the failure is reported.
RunAtHand ==
    /\ job.pc # "idle" /\ (runs[job.run].status = "succeeded" \/ job.status = "succeeded") =>
           faults >= 1
    /\ ImportPath(job)
    /\ job.kind = "import" /\ job.pc = "files" => runs[job.run].abort = "failed"
    /\ job.kind = "dispatch" /\ job.pc # "idle" => runs[job.run].abort = "none"
    /\ job.pc = "flag" => job.kind = "import"

LEMMA WithRunRow ==
    ASSUME Typed, job.pc # "idle", NEW run, run = job.run, NEW status, NEW abort,
           runs' = WithRun(job, status, abort)
    PROVE  runs'[run].status = status /\ runs'[run].abort = abort
           /\ runs'[run].kind = job.kind
  <1>1. run \in DOMAIN runs
    BY DEF Typed, Tidy
  <1>2. runs'[run] = [kind |-> job.kind, status |-> status, abort |-> abort,
                      parts |-> job.parts]
    BY <1>1, TypedParts DEF WithRun
  <1>3. QED
    BY <1>2

LEMMA RunAtHandArchiving ==
    ASSUME Typed, RunAtHand, Archiving, OnWith(job, job')
    PROVE  RunAtHand'
  <1>1. PICK run : run = job.run
    OBVIOUS
  <1>2. /\ job.pc # "idle" /\ job'.pc # "idle" /\ job'.run = run /\ job'.kind = job.kind
        /\ job'.status = job.status \/ job.pc = "finish"
        /\ faults \in Nat /\ faults' \in Nat /\ faults <= faults'
        /\ Fault => faults' = faults + 1
    BY <1>1, ArchivingOwns, FaultCounts DEF OnWith
  <1>3. /\ runs[run].status = "succeeded" \/ job.status = "succeeded" => faults >= 1
        /\ job.kind = "import" /\ job.pc = "files" => runs[run].abort = "failed"
        /\ job.kind = "dispatch" => runs[run].abort = "none"
        /\ job.pc = "flag" => job.kind = "import"
        /\ job.kind = "import" => job.pc # "rows"
    BY <1>1, <1>2 DEF RunAtHand, ImportPath, AtPart
  <1>4. ImportPath(job')
    BY ImportStep DEF RunAtHand
  <1>5. job' # NoJob
    BY <1>2, NoJobType
  <1>6. Finish => faults' >= 1
    BY <1>2, <1>5 DEF Finish
  <1>7. job.pc = "finish" => Finish
    BY DEF Archiving, Symbols, WriteRaw, Parse, WriteNormalized, Mirror, InsertRow,
       DeleteRows, DeleteFile, Report, Flag
  <1>8. Flag => /\ job.pc = "flag" /\ runs' = WithRun(job, job.status, "failed")
    BY <1>5 DEF Flag
  <1>9. ~Report
    BY <1>5 DEF Report
  <1>10. runs'[run].status = "succeeded" \/ job'.status = "succeeded" => faults' >= 1
    <2>1. CASE Finish
      BY <1>6, <2>1
    <2>2. CASE ~Finish /\ runs' = runs
      BY <1>2, <1>3, <1>7, <2>2
    <2>3. CASE ~Finish /\ runs' # runs
      <3>1. Flag
        BY <1>9, <2>3, ArchivingStores
      <3>2. runs'[run].status = job.status
        BY <1>1, <1>2, <1>8, <3>1, WithRunRow
      <3>3. QED
        BY <1>2, <1>3, <1>7, <2>3, <3>2
    <2>4. QED
      BY <2>1, <2>2, <2>3
  <1>11. job'.kind = "import" /\ job'.pc = "files" => runs'[run].abort = "failed"
    <2> SUFFICES ASSUME job.kind = "import", job'.pc = "files"
                 PROVE  runs'[run].abort = "failed"
      BY <1>2
    <2>1. ~DeleteRows
      BY <1>3 DEF DeleteRows
    <2>2. CASE Flag
      BY <1>1, <1>2, <1>8, <2>2, WithRunRow
    <2>3. CASE DeleteFile /\ job' = job
      <3>1. runs' = runs /\ job.pc = "files"
        BY <2>3 DEF DeleteFile, tables
      <3>2. QED
        BY <1>3, <3>1
    <2>4. QED
      BY <2>1, <2>2, <2>3, Destinations
  <1>12. job'.kind = "dispatch" => runs'[run].abort = "none"
    <2>1. CASE runs' = runs
      BY <1>2, <1>3, <2>1
    <2>2. CASE Finish /\ runs' = WithRun(job, "succeeded", "none")
      BY <1>1, <1>2, <2>2, WithRunRow
    <2>3. CASE Flag
      BY <1>2, <1>3, <1>8, <2>3
    <2>4. QED
      BY <1>9, <2>1, <2>2, <2>3, ArchivingStores
  <1>13. job'.pc = "flag" => job'.kind = "import"
    BY <1>2, Destinations
  <1>14. QED
    BY <1>2, <1>4, <1>10, <1>11, <1>12, <1>13 DEF RunAtHand

LEMMA RunAtHandStep == Typed /\ RunAtHand /\ [Next]_vars => RunAtHand'
  <1> SUFFICES ASSUME Typed, RunAtHand, [Next]_vars PROVE RunAtHand'
    OBVIOUS
  <1>1. ASSUME job' = NoJob PROVE RunAtHand'
    <2>1. NoJob.pc = "idle" /\ NoJob.kind = "dispatch"
      BY DEF NoJob
    <2>2. QED
      BY <1>1, <2>1 DEF RunAtHand, ImportPath
  <1>2. CASE Archiving
    BY <1>1, <1>2, ArchivingOwns, RunAtHandArchiving
  <1>3. CASE Begin
    <2>1. CASE job' = job
      <3>1. job'.pc = "idle"
        BY <1>3, <2>1, BeginOwns
      <3>2. QED
        BY <2>1, <3>1 DEF RunAtHand, ImportPath
    <2>2. CASE job' # job
      <3>1. PICK kind \in Kinds :
                /\ runs' = Append(runs, NewRun(kind))
                /\ job'.run = Len(runs) + 1 /\ job'.kind = kind
                /\ job'.pc = (IF kind = "dispatch" THEN "symbols" ELSE "raw")
                /\ ~job'.failed /\ job'.status = "failed"
        BY <1>3, <2>2, BeginOwns
      <3>2. runs'[Len(runs) + 1] = NewRun(kind)
        BY <3>1, TypedParts
      <3>3. runs'[job'.run].status = "failed" /\ runs'[job'.run].abort = "none"
        BY <3>1, <3>2 DEF NewRun
      <3>4. QED
        BY <3>1, <3>3 DEF RunAtHand, ImportPath, AtPart, Kinds
    <2>3. QED
      BY <2>1, <2>2
  <1>4. CASE StartReplay \/ Replaying
    <2>1. UNCHANGED <<runs, job>> /\ faults <= faults' /\ faults \in Nat /\ faults' \in Nat
      BY <1>4, ReplayingOwns, FaultCounts
    <2>2. QED
      BY <2>1 DEF RunAtHand, ImportPath
  <1>5. CASE Crash
    BY <1>1, <1>5 DEF Crash
  <1>6. CASE UNCHANGED vars
    BY <1>6 DEF vars, tables, counts, RunAtHand, ImportPath
  <1>7. QED
    BY <1>2, <1>3, <1>4, <1>5, <1>6 DEF Next

LEMMA RunAtHandInvariant == GateSpec => []RunAtHand
  <1>1. GateInit => RunAtHand
    BY DEF GateInit, Init, NoJob, RunAtHand, ImportPath
  <1>2. GateTyped /\ RunAtHand /\ [GateNext]_gateVars => RunAtHand'
    BY RunAtHandStep DEF GateTyped, GateNext, LookUp, CheckFile, ReadRestore, gateVars
  <1>3. QED
    BY <1>1, <1>2, GateInvariant, PTL DEF GateSpec

\* A call that ends with its run stored as succeeded, and one failure at most, has
\* told its caller.
LEMMA EndedIsWhole ==
    ASSUME Typed, ReturnedKept, RunAtHand, [Next]_vars, NEW run, run = job.run,
           run \in DOMAIN runs, job'.run # run, faults' <= 1,
           runs'[run].status = "succeeded", runs'[run].abort = "none"
    PROVE  Whole(run)'
  <1>1. /\ faults' \in Nat /\ faults \in Nat /\ faults <= faults'
        /\ Fault => faults' = faults + 1
    <2>1. faults' = faults \/ Fault
      BY ArchivingOwns, BeginOwns, ReplayingOwns DEF Next, Crash, vars, counts
    <2>2. QED
      BY <2>1, FaultCounts
  <1>2. job.pc # "idle"
    BY TypedParts DEF Typed, Tidy
  <1>3. /\ runs[run].status = "succeeded" => faults >= 1
        /\ job.kind = "import" /\ job.pc = "files" => runs[run].abort = "failed"
    BY <1>2 DEF RunAtHand
  <1>4. ~(Fault /\ runs[run].status = "succeeded")
    <2> SUFFICES ASSUME Fault, runs[run].status = "succeeded" PROVE FALSE
      OBVIOUS
    <2>1. faults >= 1 /\ faults' = faults + 1 /\ faults \in Nat
      BY <1>1, <1>3
    <2>2. ~(faults + 1 <= 1)
      BY <2>1
    <2>3. QED
      BY <2>1, <2>2
  <1>5. ASSUME runs' = runs, Fault PROVE FALSE
    BY <1>4, <1>5
  <1>6. CASE Finish
    <2>1. job' = [job EXCEPT !.pc = "flag", !.status = "succeeded"] => job'.run = run
      BY TypedParts DEF JobType
    <2>2. job' = [job EXCEPT !.pc = "rows", !.outer = TRUE] => job'.run = run
      BY TypedParts DEF JobType
    <2>3. returned' = returned \cup {run}
      BY <1>6, <2>1, <2>2 DEF Finish
    <2>4. run \notin returned
      BY DEF ReturnedKept, Kept
    <2>5. QED
      BY <1>6, <2>3, <2>4, FinishedIsWhole DEF ReturnedKept
  <1>7. CASE DeleteFile
    <2>1. runs' = runs
      BY <1>7 DEF DeleteFile, tables
    <2>2. job' = [job EXCEPT !.pc = "report"] => job'.run = run
      BY TypedParts DEF JobType
    <2>3. job' = [job EXCEPT !.pc = "rows", !.outer = TRUE, !.unclean = FALSE] => job'.run = run
      BY TypedParts DEF JobType
    <2>4. (job.kind = "import" /\ job.pc = "files") \/ Fault
      BY <1>7, <2>2, <2>3 DEF DeleteFile
    <2>5. QED
      BY <1>3, <1>5, <2>1, <2>4
  <1>8. CASE Report
    <2>1. runs' = Reported(job) \/ (runs' = runs /\ Fault)
      BY <1>8 DEF Report
    <2>2. runs' = Reported(job) => runs'[run].status = "failed"
      BY <1>2, WithRunRow DEF Reported
    <2>3. QED
      BY <1>5, <2>1, <2>2
  <1>9. CASE Flag
    <2>1. runs' = WithRun(job, job.status, "failed") \/ (runs' = runs /\ Fault)
      BY <1>9 DEF Flag
    <2>2. runs' = WithRun(job, job.status, "failed") => runs'[run].abort = "failed"
      BY <1>2, WithRunRow
    <2>3. QED
      BY <1>5, <2>1, <2>2
  <1>10. CASE Symbols \/ WriteRaw \/ Parse \/ WriteNormalized \/ Mirror \/ InsertRow
              \/ DeleteRows
    <2>1. ~Finish /\ ~DeleteFile /\ ~Report /\ ~Flag
      BY <1>10 DEF Symbols, WriteRaw, Parse, WriteNormalized, Mirror, InsertRow, DeleteRows,
         Finish, DeleteFile, Report, Flag
    <2>2. OnWith(job, job')
      BY <1>10, <2>1, ArchivingOwns DEF Archiving
    <2>3. QED
      BY <2>2 DEF OnWith
  <1>11. CASE Crash
    BY <1>5, <1>11 DEF Crash, tables
  <1>12. ~Begin
    BY <1>2 DEF Begin
  <1>13. ~(StartReplay \/ Replaying) /\ ~UNCHANGED vars
    BY ReplayingOwns DEF vars
  <1>14. QED
    BY <1>6, <1>7, <1>8, <1>9, <1>10, <1>11, <1>12, <1>13 DEF Next, Archiving

Covered ==
    faults <= 1 =>
        \A run \in DOMAIN runs :
            run # job.run /\ runs[run].status = "succeeded" /\ runs[run].abort = "none" =>
                Whole(run)

LEMMA CoveredStep ==
    Typed /\ ReturnedKept /\ RunAtHand /\ Covered /\ [Next]_vars => Covered'
  <1> SUFFICES ASSUME Typed, ReturnedKept, RunAtHand, Covered, [Next]_vars, faults' <= 1,
                      NEW run \in DOMAIN runs', run # job'.run,
                      runs'[run].status = "succeeded", runs'[run].abort = "none"
               PROVE  Whole(run)'
    BY DEF Covered
  <1>1. faults <= 1
    <2>1. faults' = faults \/ Fault
      BY ArchivingOwns, BeginOwns, ReplayingOwns DEF Next, Crash, vars, counts
    <2>2. QED
      BY <2>1, FaultCounts
  <1>2. CASE run \in DOMAIN runs /\ run # job.run
    <2>1. runs'[run] = runs[run] /\ (Whole(run) => Whole(run)')
      BY <1>2, OtherRun
    <2>2. QED
      BY <1>1, <1>2, <2>1 DEF Covered
  <1>3. CASE run \in DOMAIN runs /\ run = job.run
    BY <1>3, EndedIsWhole
  <1>4. run \in DOMAIN runs
    <2> SUFFICES ASSUME run \notin DOMAIN runs PROVE FALSE
      OBVIOUS
    <2>1. CASE Begin
      <3>1. PICK kind \in Kinds : runs' = Append(runs, NewRun(kind))
        BY <2>1, BeginOwns
      <3>2. run = Len(runs) + 1 /\ runs'[run] = NewRun(kind)
        BY <3>1, TypedParts
      <3>3. QED
        BY <3>2 DEF NewRun
    <2>2. CASE ~Begin
      <3>1. DOMAIN runs' = DOMAIN runs
        <4>1. CASE Archiving
          <5>1. Own(job)
            BY <4>1, ArchivingOwns
          <5>2. QED
            BY <5>1 DEF Own
        <4>2. CASE StartReplay \/ Replaying
          BY <4>2, ReplayingOwns
        <4>3. QED
          BY <2>2, <4>1, <4>2 DEF Next, Crash, vars, tables
      <3>2. QED
        BY <3>1
    <2>3. QED
      BY <2>1, <2>2
  <1>5. QED
    BY <1>2, <1>3, <1>4

(***************************************************************************)
(* With one failure of storage or restart at most, and any number of       *)
(* failed fetches and bad uploads, a run that is over and stored as        *)
(* succeeded, with no reason beside it, has all its parts.                 *)
(***************************************************************************)
THEOREM OneFaultIsSafe == GateSpec => []OneFaultHidesNothing
  <1>1. GateInit => Covered
    BY DEF GateInit, Init, Covered
  <1>2. GateTyped /\ ReturnedKept /\ RunAtHand /\ Covered /\ [GateNext]_gateVars => Covered'
    BY CoveredStep DEF GateTyped, GateNext, LookUp, CheckFile, ReadRestore, gateVars
  <1>3. Covered => OneFaultHidesNothing
    BY DEF Covered, OneFaultHidesNothing, Succeeded
  <1>4. QED
    BY <1>1, <1>2, <1>3, GateInvariant, KeptInvariant, RunAtHandInvariant, PTL DEF GateSpec

-----------------------------------------------------------------------------
(***************************************************************************)
(* Theorem: without a failure of storage a failed dispatch takes back all  *)
(* it has written.  What is there of its run, the call knows of; it has    *)
(* taken the rows back when it turns to the files, and the files when it   *)
(* reports.                                                                *)
(***************************************************************************)
RowsKnown(j, rows) == \A p \in Parts : <<j.run, p>> \in rows => "row" \in j.known[p]

FilesKnown(j, stored) ==
    \A p \in Parts, kind \in FileKinds : <<j.run, p, kind>> \in stored => kind \in j.known[p]

Account(j, rows, stored) ==
    /\ j.pc \in Crawling \cup {"rows"} => RowsKnown(j, rows)
    /\ j.pc \in {"files", "report"} /\ ~j.unclean => \A p \in Parts : <<j.run, p>> \notin rows
    /\ j.pc # "report" => FilesKnown(j, stored)
    /\ j.pc = "report" => \A p \in Parts, kind \in FileKinds : <<j.run, p, kind>> \notin stored

\* The call goes on and has written nothing.
LEMMA AccountSame ==
    ASSUME NEW j, NEW d, NEW rows, NEW stored, Account(j, rows, stored), j.pc \in Crawling,
           d.run = j.run, d.known = j.known, d.pc \in Crawling \cup {"rows"}
    PROVE  Account(d, rows, stored)
  <1>1. d.pc \notin {"files", "report"} /\ j.pc # "report"
    BY DEF Crawling, AtPart
  <1>2. RowsKnown(d, rows) /\ FilesKnown(d, stored)
    BY <1>1 DEF Account, RowsKnown, FilesKnown
  <1>3. QED
    BY <1>1, <1>2 DEF Account

\* A part of a dispatch that did not go well
LEMMA AccountFailed ==
    ASSUME NEW j \in JobType, j.kind # "import", j.pc \in Crawling, NEW d,
           d = PartDone(j, TRUE), NEW rows, NEW stored, Account(j, rows, stored)
    PROVE  Account(d, rows, stored)
  <1>1. OnWith(j, d)
    BY PartDoneType
  <1>2. d.known = j.known
    BY PartDoneType
  <1>3. d.pc \in {"flag", "raw", "rows", "finish"}
    BY PartDoneType
  <1>4. d.pc = "flag" => j.kind = "import"
    BY PartDoneType
  <1>5. d.run = j.run /\ d.pc \in Crawling \cup {"rows"}
    BY <1>1, <1>3, <1>4 DEF OnWith, Crawling, AtPart
  <1>6. QED
    BY <1>2, <1>5, AccountSame

LEMMA AccountWritten ==
    ASSUME NEW j \in JobType, j.pc \in AtPart, NEW d, NEW kind \in FileKinds,
           NEW pc \in AtPart, d = [Knows(j, kind) EXCEPT !.pc = pc],
           NEW rows, NEW stored, Account(j, rows, stored)
    PROVE  Account(d, rows, stored \cup {FileOf(j, kind)})
  <1>1. PICK k : k = Knows(j, kind)
    OBVIOUS
  <1>2. k \in JobType /\ k.run = j.run
        /\ k.known = [j.known EXCEPT ![j.next] = @ \cup {kind}]
    BY <1>1, KnowsGoesOn
  <1>3. pc \in JobPcs
    BY DEF AtPart, JobPcs
  <1>4. d.pc = pc /\ d.run = j.run /\ d.known = [j.known EXCEPT ![j.next] = @ \cup {kind}]
    BY <1>1, <1>2, <1>3, JobAt DEF OnWith
  <1>5. j.known \in [Parts -> SUBSET (FileKinds \cup {"row"})] /\ j.next \in Parts
    BY DEF JobType
  <1>6. /\ \A p \in Parts : j.known[p] \subseteq d.known[p]
        /\ kind \in d.known[j.next]
    BY <1>4, <1>5
  <1>7. RowsKnown(j, rows) /\ FilesKnown(j, stored)
    BY DEF Account, Crawling, AtPart
  <1>8. RowsKnown(d, rows)
    BY <1>4, <1>6, <1>7 DEF RowsKnown
  <1>9. FilesKnown(d, stored \cup {FileOf(j, kind)})
    <2> SUFFICES ASSUME NEW p \in Parts, NEW what \in FileKinds,
                        <<j.run, p, what>> \in stored \cup {FileOf(j, kind)}
                 PROVE  what \in d.known[p]
      BY <1>4 DEF FilesKnown
    <2>1. CASE <<j.run, p, what>> \in stored
      BY <1>6, <1>7, <2>1 DEF FilesKnown
    <2>2. CASE <<j.run, p, what>> = <<j.run, j.next, kind>>
      <3>1. p = j.next /\ what = kind
        BY <2>2
      <3>2. QED
        BY <1>6, <3>1
    <2>3. QED
      BY <2>1, <2>2 DEF FileOf
  <1>10. d.pc \notin {"files", "report"}
    BY <1>4 DEF AtPart
  <1>11. QED
    BY <1>8, <1>9, <1>10 DEF Account

LEMMA AccountInserted ==
    ASSUME NEW j \in JobType, j.kind # "import", j.pc = "row", NEW d,
           d = PartDone(Knows(j, "row"), FALSE),
           NEW rows, NEW stored, Account(j, rows, stored)
    PROVE  Account(d, rows \cup {<<j.run, j.next>>}, stored)
  <1>1. PICK k : k = Knows(j, "row")
    OBVIOUS
  <1>2. k \in JobType /\ k.run = j.run /\ k.kind = j.kind /\ k.pc = j.pc
        /\ k.known = [j.known EXCEPT ![j.next] = @ \cup {"row"}]
    BY <1>1, KnowsGoesOn
  <1>3. j.known \in [Parts -> SUBSET (FileKinds \cup {"row"})] /\ j.next \in Parts
    BY DEF JobType
  <1>4. /\ \A p \in Parts : j.known[p] \subseteq k.known[p]
        /\ "row" \in k.known[j.next]
    BY <1>2, <1>3
  <1>5. RowsKnown(j, rows) /\ FilesKnown(j, stored)
    BY DEF Account, Crawling, AtPart
  <1>6. RowsKnown(k, rows \cup {<<j.run, j.next>>})
    <2> SUFFICES ASSUME NEW p \in Parts, <<j.run, p>> \in rows \cup {<<j.run, j.next>>}
                 PROVE  "row" \in k.known[p]
      BY <1>2 DEF RowsKnown
    <2>1. CASE <<j.run, p>> \in rows
      BY <1>4, <1>5, <2>1 DEF RowsKnown
    <2>2. CASE <<j.run, p>> = <<j.run, j.next>>
      <3>1. p = j.next
        BY <2>2
      <3>2. QED
        BY <1>4, <3>1
    <2>3. QED
      BY <2>1, <2>2
  <1>7. FilesKnown(k, stored)
    BY <1>2, <1>4, <1>5 DEF FilesKnown
  <1>8. Account(k, rows \cup {<<j.run, j.next>>}, stored)
    BY <1>2, <1>6, <1>7 DEF Account
  <1>9. /\ d = PartDone(k, FALSE) /\ k \in JobType /\ k.kind # "import" /\ k.pc \in Crawling
    BY <1>1, <1>2 DEF Crawling, AtPart
  <1>10. OnWith(k, d)
    BY <1>9, PartDoneType
  <1>11. d.known = k.known
    BY <1>9, PartDoneType, ZenonT(60)
  <1>12. d.pc \in {"flag", "raw", "rows", "finish"}
    BY <1>9, PartDoneType
  <1>13. d.pc = "flag" => k.kind = "import"
    BY <1>9, PartDoneType
  <1>14. d.run = k.run /\ d.pc \in Crawling \cup {"rows"}
    BY <1>9, <1>10, <1>12, <1>13 DEF OnWith, Crawling, AtPart
  <1>15. QED
    BY <1>8, <1>9, <1>11, <1>14, AccountSame

LEMMA AccountArchiving ==
    ASSUME Typed, RunAtHand, job.kind = "dispatch", Account(job, objects, files),
           Archiving, ~Fault, OnWith(job, job')
    PROVE  Account(job', objects', files')
  <1>1. PICK j : j = job
    OBVIOUS
  <1>2. /\ j \in JobType /\ Account(j, objects, files) /\ j.kind # "import"
        /\ job' # NoJob
    BY <1>1, TypedParts, NoJobType DEF OnWith
  <1> DEFINE Goal == Account(job', objects', files')
  <1>3. ASSUME UNCHANGED <<objects, files>>, j.pc \in Crawling, job' = PartDone(j, TRUE)
        PROVE  Goal
    <2>1. Account(job', objects, files)
      BY <1>2, <1>3, AccountFailed
    <2>2. QED
      BY <1>3, <2>1
  <1>4. ASSUME UNCHANGED <<objects, files>>, j.pc \in Crawling, job'.run = j.run,
               job'.known = j.known, job'.pc \in Crawling \cup {"rows"}
        PROVE  Goal
    <2>1. Account(job', objects, files)
      BY <1>2, <1>4, AccountSame
    <2>2. QED
      BY <1>4, <2>1
  <1>5. ASSUME NEW kind \in FileKinds, NEW pc \in AtPart, j.pc \in AtPart, UNCHANGED objects,
               files' = files \cup {FileOf(j, kind)},
               job' = [Knows(j, kind) EXCEPT !.pc = pc]
        PROVE  Goal
    <2>1. Account(job', objects, files \cup {FileOf(j, kind)})
      BY <1>2, <1>5, AccountWritten
    <2>2. QED
      BY <1>5, <2>1
  <1>6. CASE Symbols
    <2>1. UNCHANGED <<objects, files>> /\ j.pc \in Crawling
      BY <1>1, <1>6 DEF Symbols, tables, Crawling
    <2>2. CASE job' = [j EXCEPT !.pc = "rows", !.outer = TRUE]
      <3>1. job'.pc = "rows" /\ job'.known = j.known
        BY <1>2, <2>2, JobOuter DEF JobPcs
      <3>2. QED
        BY <1>1, <1>4, <2>1, <3>1 DEF OnWith
    <2>3. ASSUME NEW n \in Parts, job' = [j EXCEPT !.pc = "raw", !.parts = n] PROVE Goal
      <3>1. job'.pc = "raw" /\ job'.known = j.known
        BY <1>2, <2>3 DEF JobType
      <3>2. QED
        BY <1>1, <1>4, <2>1, <3>1 DEF OnWith, Crawling, AtPart
    <2>4. QED
      BY <1>1, <1>6, <2>2, <2>3 DEF Symbols
  <1>7. CASE WriteRaw
    <2>1. UNCHANGED objects /\ j.pc \in AtPart /\ j.pc \in Crawling
      BY <1>1, <1>7 DEF WriteRaw, tables, Crawling, AtPart
    <2>2. \/ /\ files' = files \cup {FileOf(j, "raw")}
             /\ \E pc \in AtPart : job' = [Knows(j, "raw") EXCEPT !.pc = pc]
          \/ job' = PartDone(j, TRUE) /\ UNCHANGED files
      BY <1>1, <1>7 DEF WriteRaw, WriteFile, AtPart
    <2>3. QED
      BY <1>3, <1>5, <2>1, <2>2 DEF FileKinds
  <1>8. CASE Parse
    <2>1. UNCHANGED <<objects, files>> /\ j.pc \in Crawling
      BY <1>1, <1>8 DEF Parse, tables, Crawling, AtPart
    <2>2. CASE job' = [j EXCEPT !.pc = "normalize"]
      <3>1. job'.pc = "normalize" /\ job'.known = j.known
        BY <1>2, <2>2, JobAt DEF JobPcs
      <3>2. QED
        BY <1>1, <1>4, <2>1, <3>1 DEF OnWith, Crawling, AtPart
    <2>3. QED
      BY <1>1, <1>3, <1>8, <2>1, <2>2 DEF Parse
  <1>9. CASE WriteNormalized
    <2>1. UNCHANGED objects /\ j.pc \in AtPart
      BY <1>1, <1>9 DEF WriteNormalized, tables, AtPart
    <2>2. /\ files' = files \cup {FileOf(j, "normalized")}
          /\ job' = [Knows(j, "normalized") EXCEPT !.pc = "mirror"]
      BY <1>1, <1>9 DEF WriteNormalized, WriteFile
    <2>3. QED
      BY <1>5, <2>1, <2>2 DEF FileKinds, AtPart
  <1>10. CASE Mirror
    <2>1. UNCHANGED objects /\ j.pc \in AtPart /\ j.pc \in Crawling
      BY <1>1, <1>10 DEF Mirror, tables, Crawling, AtPart
    <2>2. \/ /\ files' = files \cup {FileOf(j, "mirror")}
             /\ job' = [Knows(j, "mirror") EXCEPT !.pc = "row"]
          \/ /\ UNCHANGED files
             /\ job' = PartDone(j, TRUE) \/ job' = [j EXCEPT !.pc = "row"]
      BY <1>1, <1>10 DEF Mirror
    <2>3. CASE /\ files' = files \cup {FileOf(j, "mirror")}
               /\ job' = [Knows(j, "mirror") EXCEPT !.pc = "row"]
      BY <1>5, <2>1, <2>3 DEF FileKinds, AtPart
    <2>4. CASE UNCHANGED files /\ job' = [j EXCEPT !.pc = "row"]
      <3>1. job'.pc = "row" /\ job'.known = j.known
        BY <1>2, <2>4, JobAt DEF JobPcs
      <3>2. QED
        BY <1>1, <1>4, <2>1, <2>4, <3>1 DEF OnWith, Crawling, AtPart
    <2>5. QED
      BY <1>3, <2>1, <2>2, <2>3, <2>4
  <1>11. CASE InsertRow
    <2>1. /\ UNCHANGED files /\ j.pc = "row" /\ objects' = objects \cup {<<j.run, j.next>>}
          /\ job' = PartDone(Knows(j, "row"), FALSE)
      BY <1>1, <1>11 DEF InsertRow
    <2>2. Account(job', objects \cup {<<j.run, j.next>>}, files)
      BY <1>2, <2>1, AccountInserted
    <2>3. QED
      BY <2>1, <2>2
  <1>12. CASE DeleteRows
    <2>1. /\ j.pc = "rows" /\ files' = files
          /\ \/ objects' = objects \ KnownRows(j) /\ job' = [j EXCEPT !.pc = "files"]
             \/ job' = [j EXCEPT !.pc = "files", !.unclean = TRUE]
      BY <1>1, <1>12 DEF DeleteRows, Refused
    <2>2. RowsKnown(j, objects) /\ FilesKnown(j, files)
      BY <1>2, <2>1 DEF Account
    <2>3. job'.pc = "files" /\ job'.run = j.run /\ job'.known = j.known
      <3>1. CASE job' = [j EXCEPT !.pc = "files"]
        BY <1>2, <3>1, JobAt DEF JobPcs, OnWith
      <3>2. CASE job' = [j EXCEPT !.pc = "files", !.unclean = TRUE]
        <4>1. job'.pc = "files" /\ job'.known = j.known
          BY <1>2, <3>2, JobRefused DEF JobPcs
        <4>2. QED
          BY <1>1, <4>1 DEF OnWith
      <3>3. QED
        BY <2>1, <3>1, <3>2
    <2>4. FilesKnown(job', files')
      BY <2>1, <2>2, <2>3 DEF FilesKnown
    <2>5. ~job'.unclean => \A p \in Parts : <<j.run, p>> \notin objects'
      <3>1. CASE job' = [j EXCEPT !.pc = "files", !.unclean = TRUE]
        BY <1>2, <3>1, JobRefused DEF JobPcs
      <3>2. CASE objects' = objects \ KnownRows(j)
        BY <2>2, <3>2 DEF RowsKnown, KnownRows
      <3>3. QED
        BY <2>1, <3>1, <3>2
    <2>6. QED
      BY <2>3, <2>4, <2>5 DEF Account, Crawling, AtPart
  <1>13. CASE DeleteFile
    <2>1. /\ j.pc = "files" /\ objects' = objects
          /\ \/ files' \subseteq files /\ job' = j
             \/ /\ KnownFiles(j) \cap files = {} /\ files' = files
                /\ job' = [j EXCEPT !.pc = "report"]
      BY <1>1, <1>2, <1>13 DEF DeleteFile, tables
    <2>2. /\ FilesKnown(j, files)
          /\ ~j.unclean => \A p \in Parts : <<j.run, p>> \notin objects
      BY <1>2, <2>1 DEF Account
    <2>3. CASE files' \subseteq files /\ job' = j
      <3>1. FilesKnown(j, files')
        BY <2>2, <2>3 DEF FilesKnown
      <3>2. Account(j, objects, files')
        BY <2>1, <2>2, <3>1 DEF Account, Crawling, AtPart
      <3>3. QED
        BY <2>1, <2>3, <3>2
    <2>4. CASE /\ KnownFiles(j) \cap files = {} /\ files' = files
               /\ job' = [j EXCEPT !.pc = "report"]
      <3>1. job'.pc = "report" /\ job'.run = j.run /\ job'.unclean = j.unclean
        BY <1>2, <2>4, JobAt DEF JobPcs, OnWith
      <3>2. \A p \in Parts, kind \in FileKinds : <<j.run, p, kind>> \notin files
        BY <2>2, <2>4 DEF FilesKnown, KnownFiles
      <3>3. QED
        BY <2>1, <2>2, <2>4, <3>1, <3>2 DEF Account, Crawling, AtPart
    <2>5. QED
      BY <2>1, <2>3, <2>4
  <1>14. ~Finish /\ ~Report /\ ~Flag
    BY <1>2 DEF Finish, Report, Flag, RunAtHand
  <1>15. QED
    BY <1>6, <1>7, <1>8, <1>9, <1>10, <1>11, <1>12, <1>13, <1>14 DEF Archiving

Gone(run) == (\A o \in objects : o[1] # run) /\ (\A f \in files : f[1] # run)

TakenBack ==
    faults = 0 =>
        /\ \A run \in DOMAIN runs :
              run # job.run /\ runs[run].kind = "dispatch" /\ runs[run].abort = "failed" =>
                  Gone(run)
        /\ job.pc # "idle" /\ job.kind = "dispatch" => Account(job, objects, files)

\* A dispatch that reports a failure and no trouble with its cleanup has left nothing.
LEMMA ReportedIsGone ==
    ASSUME Typed, Report, Account(job, objects, files), NEW run, run = job.run,
           runs' = Reported(job), runs'[run].abort = "failed"
    PROVE  Gone(run)'
  <1>1. UNCHANGED <<objects, files>> /\ job.pc = "report"
    BY DEF Report
  <1>2. ~job.unclean
    <2>1. CASE job.unclean
      <3>1. runs'[run].abort = "unclean"
        BY <1>1, <2>1, WithRunRow DEF Reported
      <3>2. QED
        BY <3>1
    <2>2. QED
      BY <2>1
  <1>3. /\ \A p \in Parts : <<run, p>> \notin objects
        /\ \A p \in Parts, kind \in FileKinds : <<run, p, kind>> \notin files
    BY <1>1, <1>2 DEF Account
  <1>4. \A o \in objects : o = <<o[1], o[2]>> /\ o[2] \in Parts
    BY DEF Typed, TypeOK, ObjectIds
  <1>5. \A f \in files : f = <<f[1], f[2], f[3]>> /\ f[2] \in Parts /\ f[3] \in FileKinds
    BY DEF Typed, TypeOK
  <1>6. Gone(run)
    BY <1>3, <1>4, <1>5 DEF Gone
  <1>7. QED
    BY <1>1, <1>6 DEF Gone

\* What a new run finds: nothing is of it.
LEMMA AccountBegun ==
    ASSUME Typed, Begin, job' # job
    PROVE  Account(job', objects', files')
  <1>1. /\ job'.run = Len(runs) + 1 /\ job'.pc \in {"symbols", "raw"}
        /\ UNCHANGED <<objects, files>>
    BY BeginOwns
  <1>2. Len(runs) + 1 \notin DOMAIN runs
    BY TypedParts
  <1>3. /\ \A o \in objects : o[1] # Len(runs) + 1
        /\ \A f \in files : f[1] # Len(runs) + 1
    BY <1>2 DEF Typed, Tidy
  <1>4. PICK run : run = Len(runs) + 1
    OBVIOUS
  <1>5. \A p : <<run, p>>[1] = run /\ \A kind : <<run, p, kind>>[1] = run
    OBVIOUS
  <1>6. \A p : <<run, p>> \notin objects /\ \A kind : <<run, p, kind>> \notin files
    BY <1>3, <1>4, <1>5
  <1>7. RowsKnown(job', objects') /\ FilesKnown(job', files')
    BY <1>1, <1>4, <1>6 DEF RowsKnown, FilesKnown
  <1>8. QED
    BY <1>1, <1>7 DEF Account

LEMMA TakenBackStep == Typed /\ RunAtHand /\ TakenBack /\ [Next]_vars => TakenBack'
  <1> SUFFICES ASSUME Typed, RunAtHand, TakenBack, [Next]_vars, faults' = 0
               PROVE  /\ \A run \in DOMAIN runs' :
                            run # job'.run /\ runs'[run].kind = "dispatch"
                            /\ runs'[run].abort = "failed" => Gone(run)'
                      /\ job'.pc # "idle" /\ job'.kind = "dispatch" =>
                            Account(job', objects', files')
    BY DEF TakenBack
  <1>1. faults = 0 /\ ~Fault
    <2>1. faults' = faults \/ Fault
      BY ArchivingOwns, BeginOwns, ReplayingOwns DEF Next, Crash, vars, counts
    <2>2. /\ faults \in Nat /\ faults <= faults'
          /\ Fault => faults' = faults + 1
      BY <2>1, FaultCounts
    <2>3. QED
      BY <2>2
  <1>2. ~Crash
    BY <1>1 DEF Crash
  <1>3. /\ \A run \in DOMAIN runs :
              run # job.run /\ runs[run].kind = "dispatch" /\ runs[run].abort = "failed" =>
                  Gone(run)
        /\ job.pc # "idle" /\ job.kind = "dispatch" => Account(job, objects, files)
    BY <1>1 DEF TakenBack
  <1>4. ASSUME NEW run \in DOMAIN runs', run # job'.run, runs'[run].kind = "dispatch",
               runs'[run].abort = "failed"
        PROVE  Gone(run)'
    <2>1. CASE run \in DOMAIN runs /\ run # job.run
      <3>1. /\ runs'[run] = runs[run]
            /\ \A o : o[1] = run => (o \in objects' <=> o \in objects)
            /\ \A f : f[1] = run => (f \in files' <=> f \in files)
        BY <2>1, OtherRun
      <3>2. Gone(run)
        BY <1>3, <1>4, <2>1, <3>1
      <3>3. QED
        BY <3>1, <3>2 DEF Gone
    <2>2. CASE run \in DOMAIN runs /\ run = job.run
      <3>1. job.pc # "idle"
        BY <2>2, TypedParts DEF Typed, Tidy
      <3>2. runs[run].kind = job.kind
        BY <2>2, <3>1 DEF Typed, Tidy
      <3>3. CASE Archiving
        <4>1. job' = NoJob
          BY <1>4, <2>2, <3>3, ArchivingOwns DEF OnWith
        <4>2. Finish \/ DeleteFile \/ Report \/ Flag
          BY <1>4, <2>2, <3>3, ArchivingOwns DEF OnWith
        <4>3. job.kind = "dispatch"
          <5>1. CASE runs' = runs
            BY <1>4, <3>2, <5>1
          <5>2. CASE runs' # runs
            BY <1>4, <2>2, <3>1, <3>3, <5>2, ArchivingStores, WithRunRow DEF Reported
          <5>3. QED
            BY <5>1, <5>2
        <4>4. runs[run].abort = "none"
          BY <2>2, <3>1, <4>3 DEF RunAtHand
        <4>5. CASE Finish
          <5>1. runs' = WithRun(job, "succeeded", "none")
            BY <1>1, <4>5 DEF Finish
          <5>2. QED
            BY <1>4, <2>2, <3>1, <5>1, WithRunRow
        <4>6. CASE DeleteFile
          BY <1>4, <4>4, <4>6 DEF DeleteFile, tables
        <4>7. CASE Report
          <5>1. runs' = Reported(job)
            BY <1>1, <4>7 DEF Report
          <5>2. Account(job, objects, files)
            BY <1>3, <3>1, <4>3
          <5>3. QED
            BY <1>4, <2>2, <4>7, <5>1, <5>2, ReportedIsGone
        <4>8. ~Flag
          BY <4>3 DEF Flag, RunAtHand
        <4>9. QED
          BY <4>2, <4>5, <4>6, <4>7, <4>8
      <3>4. ~Archiving => job' = job
        BY <1>2, <3>1, ReplayingOwns DEF Next, Begin, vars
      <3>5. QED
        BY <1>4, <2>2, <3>3, <3>4
    <2>3. run \in DOMAIN runs
      <3> SUFFICES ASSUME run \notin DOMAIN runs PROVE FALSE
        OBVIOUS
      <3>1. CASE Begin
        <4>1. PICK kind \in Kinds : runs' = Append(runs, NewRun(kind))
          BY <3>1, BeginOwns
        <4>2. runs'[run] = NewRun(kind)
          BY <4>1, TypedParts
        <4>3. QED
          BY <1>4, <4>2 DEF NewRun
      <3>2. CASE Archiving
        <4>1. Own(job)
          BY <3>2, ArchivingOwns
        <4>2. QED
          BY <4>1 DEF Own
      <3>3. QED
        BY <1>2, <3>1, <3>2, ReplayingOwns DEF Next, vars, tables
    <2>4. QED
      BY <2>1, <2>2, <2>3
  <1>5. ASSUME job'.pc # "idle", job'.kind = "dispatch"
        PROVE  Account(job', objects', files')
    <2>1. CASE Archiving
      <3>1. OnWith(job, job')
        BY <1>5, <2>1, ArchivingOwns, NoJobType
      <3>2. job.kind = "dispatch" /\ job.pc # "idle"
        BY <1>5, <2>1, <3>1, ArchivingOwns DEF OnWith
      <3>3. QED
        BY <1>1, <1>3, <2>1, <3>1, <3>2, AccountArchiving
    <2>2. CASE Begin
      <3>1. job' # job
        BY <1>5, <2>2, BeginOwns
      <3>2. QED
        BY <2>2, <3>1, AccountBegun
    <2>3. CASE StartReplay \/ Replaying \/ UNCHANGED vars
      <3>1. UNCHANGED <<job, objects, files>>
        BY <2>3, ReplayingOwns DEF vars, tables
      <3>2. QED
        BY <1>3, <1>5, <3>1
    <2>4. QED
      BY <1>2, <2>1, <2>2, <2>3 DEF Next
  <1>6. QED
    BY <1>4, <1>5

(***************************************************************************)
(* Without a failure of storage a dispatch stored as failed, with a reason *)
(* that names no trouble with its cleanup, has left neither rows nor files.*)
(***************************************************************************)
THEOREM FailedDispatchIsGone == GateSpec => []FailedDispatchIsTakenBack
  <1>1. GateInit => TakenBack
    BY DEF GateInit, Init, NoJob, TakenBack
  <1>2. GateTyped /\ RunAtHand /\ TakenBack /\ [GateNext]_gateVars => TakenBack'
    BY TakenBackStep DEF GateTyped, GateNext, LookUp, CheckFile, ReadRestore, gateVars
  <1>3. GateTyped /\ RunAtHand /\ TakenBack => FailedDispatchIsTakenBack
    <2> SUFFICES ASSUME GateTyped, RunAtHand, TakenBack, faults = 0, NEW run \in DOMAIN runs,
                        runs[run].kind = "dispatch", runs[run].abort = "failed"
                 PROVE  (\A o \in objects : o[1] # run) /\ (\A f \in files : f[1] # run)
      BY DEF FailedDispatchIsTakenBack
    <2>1. run # job.run
      <3> SUFFICES ASSUME run = job.run PROVE FALSE
        OBVIOUS
      <3>1. job.pc # "idle"
        BY TypedParts DEF GateTyped, Typed, Tidy
      <3>2. job.kind = "dispatch"
        BY <3>1 DEF GateTyped, Typed, Tidy
      <3>3. QED
        BY <3>1, <3>2 DEF RunAtHand
    <2>2. QED
      BY <2>1 DEF TakenBack, Gone
  <1>4. QED
    BY <1>1, <1>2, <1>3, GateInvariant, RunAtHandInvariant, PTL DEF GateSpec

-----------------------------------------------------------------------------
(***************************************************************************)
(* Theorem: a gate that passed stands.  Without failures the caller of     *)
(* every run stored as succeeded was told so; what the gate looks at is of *)
(* such a run, and neither that nor the observations it saw ever go.       *)
(***************************************************************************)
Told ==
    faults = 0 => \A run \in DOMAIN runs : runs[run].status = "succeeded" => run \in returned

GateStands ==
    /\ faults = 0 /\ gate.pc # "idle" => gate.object[1] \in returned
    /\ gate.pc = "passed" => gate.object \in observed

LEMMA FaultsGrow ==
    ASSUME Typed, [Next]_vars
    PROVE  /\ faults \in Nat /\ faults' \in Nat /\ faults <= faults'
           /\ Fault => faults' = faults + 1
           /\ faults' = 0 => faults = 0 /\ ~Fault /\ ~Crash
  <1>1. faults' = faults \/ Fault
    BY ArchivingOwns, BeginOwns, ReplayingOwns DEF Next, Crash, vars, counts
  <1>2. /\ faults \in Nat /\ faults' \in Nat /\ faults <= faults'
        /\ Fault => faults' = faults + 1
    BY <1>1, FaultCounts
  <1>3. faults' = 0 => faults = 0 /\ ~Fault
    BY <1>2
  <1>4. Crash => Fault
    BY DEF Crash
  <1>5. QED
    BY <1>2, <1>3, <1>4

\* What is told and what is observed stays.
LEMMA OnlyGrow ==
    ASSUME Typed, [Next]_vars
    PROVE  returned \subseteq returned' /\ observed \subseteq observed'
  <1>1. CASE Archiving
    <2>1. Own(job) /\ UNCHANGED observed
      BY <1>1, ArchivingOwns
    <2>2. QED
      BY <2>1 DEF Own
  <1>2. CASE ~Archiving
    BY <1>2, BeginOwns, ReplayingOwns DEF Next, Crash, vars, tables
  <1>3. QED
    BY <1>1, <1>2

LEMMA ToldStep == Typed /\ RunAtHand /\ Told /\ [Next]_vars => Told'
  <1> SUFFICES ASSUME Typed, RunAtHand, Told, [Next]_vars, faults' = 0,
                      NEW run \in DOMAIN runs', runs'[run].status = "succeeded"
               PROVE  run \in returned'
    BY DEF Told
  <1>1. faults = 0 /\ ~Fault /\ ~Crash /\ ~(faults >= 1)
    BY FaultsGrow
  <1>2. CASE run \in DOMAIN runs /\ run # job.run
    <2>1. runs'[run] = runs[run]
      BY <1>2, OtherRun
    <2>2. run \in returned
      BY <1>1, <1>2, <2>1 DEF Told
    <2>3. QED
      BY <2>2, OnlyGrow
  <1>3. CASE run \in DOMAIN runs /\ run = job.run
    <2>1. job.pc # "idle"
      BY <1>3, TypedParts DEF Typed, Tidy
    <2>2. runs[run].status # "succeeded" /\ job.status # "succeeded"
      BY <1>1, <1>3, <2>1 DEF RunAtHand
    <2>3. runs' # runs
      BY <2>2
    <2>4. Archiving
      BY <1>1, <2>1, <2>3, ReplayingOwns DEF Next, Begin, vars, tables
    <2>5. Finish
      BY <1>3, <2>1, <2>2, <2>3, <2>4, ArchivingStores, WithRunRow DEF Reported
    <2>6. QED
      BY <1>1, <1>3, <2>5 DEF Finish
  <1>4. run \in DOMAIN runs
    <2> SUFFICES ASSUME run \notin DOMAIN runs PROVE FALSE
      OBVIOUS
    <2>1. CASE Begin
      <3>1. PICK kind \in Kinds : runs' = Append(runs, NewRun(kind))
        BY <2>1, BeginOwns
      <3>2. runs'[run] = NewRun(kind)
        BY <3>1, TypedParts
      <3>3. QED
        BY <3>2 DEF NewRun
    <2>2. CASE Archiving
      <3>1. Own(job)
        BY <2>2, ArchivingOwns
      <3>2. QED
        BY <3>1 DEF Own
    <2>3. QED
      BY <1>1, <2>1, <2>2, ReplayingOwns DEF Next, vars, tables
  <1>5. QED
    BY <1>2, <1>3, <1>4

LEMMA GateStandsStep ==
    GateTyped /\ Told /\ GateStands /\ [GateNext]_gateVars => GateStands'
  <1> SUFFICES ASSUME GateTyped, Told, GateStands, [GateNext]_gateVars PROVE GateStands'
    OBVIOUS
  <1>1. CASE [Next]_vars /\ UNCHANGED gate
    <2>1. faults' = 0 => faults = 0
      BY <1>1, FaultsGrow DEF GateTyped
    <2>2. returned \subseteq returned' /\ observed \subseteq observed'
      BY <1>1, OnlyGrow DEF GateTyped
    <2>3. QED
      BY <1>1, <2>1, <2>2 DEF GateStands
  <1>2. CASE LookUp \/ CheckFile \/ ReadRestore
    <2>1. /\ UNCHANGED vars
          /\ \/ gate'.pc = "idle"
             \/ gate'.pc = "file" /\ gate'.object \in ArchivedObjects
             \/ gate.pc = "file" /\ gate'.pc = "restore" /\ gate'.object = gate.object
             \/ /\ gate.pc = "restore" /\ gate'.pc = "passed"
                /\ gate'.object = gate.object /\ gate.object \in observed
      BY <1>2, GateMoves DEF GateTyped
    <2>2. UNCHANGED <<faults, returned, observed>>
      BY <2>1 DEF vars, tables, counts
    <2>3. CASE gate'.pc = "file" /\ gate'.object \in ArchivedObjects
      <3>1. gate'.object[1] \in DOMAIN runs /\ runs[gate'.object[1]].status = "succeeded"
        BY <2>3 DEF ArchivedObjects, Succeeded, GateTyped, Typed, Tidy
      <3>2. QED
        BY <2>2, <2>3, <3>1 DEF GateStands, Told
    <2>4. QED
      BY <2>1, <2>2, <2>3 DEF GateStands
  <1>3. QED
    BY <1>1, <1>2 DEF GateNext, gateVars

(***************************************************************************)
(* Without a failure of storage or a restart, a gate that passed looked at *)
(* a run whose caller was told that it succeeded and whose parts are all   *)
(* there still, and at an object whose observations are stored.            *)
(***************************************************************************)
THEOREM PassedGatesStand == GateSpec => []PassedGateStands
  <1>1. GateInit => Told /\ GateStands
    BY DEF GateInit, Init, NoGate, Told, GateStands
  <1>2. GateTyped /\ RunAtHand /\ Told /\ [GateNext]_gateVars => Told'
    BY ToldStep DEF GateTyped, GateNext, LookUp, CheckFile, ReadRestore, gateVars
  <1>3. ReturnedKept /\ GateStands => PassedGateStands
    BY DEF ReturnedKept, Kept, GateStands, PassedGateStands
  <1>4. QED
    BY <1>1, <1>2, <1>3, GateStandsStep, GateInvariant, KeptInvariant, RunAtHandInvariant,
       PTL DEF GateSpec

-----------------------------------------------------------------------------
(***************************************************************************)
(* Theorem: a benchmark window stands for a full day.                      *)
(***************************************************************************)
RestoresObserved ==
    /\ \A i \in DOMAIN restores :
          restores[i].status = "succeeded" => restores[i].object \in observed
    /\ replay.pc # "idle" /\ replay.status = "succeeded" => replay.object \in observed

LEMMA ObservedStep == Typed /\ RestoresObserved /\ [Next]_vars => RestoresObserved'
  <1> SUFFICES ASSUME Typed, RestoresObserved, [Next]_vars PROVE RestoresObserved'
    OBVIOUS
  <1>1. observed \subseteq observed'
    BY OnlyGrow
  <1>2. NoReplay.pc = "idle" /\ NoReplay.status = "failed"
    BY DEF NoReplay
  <1>3. PICK r : r = replay
    OBVIOUS
  <1>4. r \in ReplayType
    BY <1>3, TypedParts
  <1>5. \A i \in DOMAIN restores' :
            restores'[i].status = "succeeded" => restores'[i].object \in observed'
    <2>1. CASE restores' = restores
      BY <1>1, <2>1 DEF RestoresObserved
    <2>2. ASSUME NEW abort \in BOOLEAN, replay.pc # "idle", restores' = Restored(abort)
          PROVE  \A i \in DOMAIN restores' :
                     restores'[i].status = "succeeded" => restores'[i].object \in observed'
      <3>1. PICK row : row = [object |-> r.object, profile |-> r.profile,
                              status |-> r.status, abort |-> abort]
        OBVIOUS
      <3>2. row.status = "succeeded" => row.object \in observed
        BY <1>3, <2>2, <3>1 DEF RestoresObserved
      <3>3. restores' = Append(restores, row)
        BY <1>3, <2>2, <3>1 DEF Restored
      <3>4. \A i \in DOMAIN restores' :
                (i \in DOMAIN restores /\ restores'[i] = restores[i]) \/ restores'[i] = row
        BY <3>3, TypedParts
      <3>5. QED
        BY <1>1, <3>2, <3>4 DEF RestoresObserved
    <2>3. \/ restores' = restores
          \/ replay.pc # "idle" /\ \E abort \in BOOLEAN : restores' = Restored(abort)
      BY ArchivingOwns, BeginOwns, ReplayingOwns DEF Next, Crash, vars, tables
    <2>4. QED
      BY <2>1, <2>2, <2>3
  <1>6. replay'.pc # "idle" /\ replay'.status = "succeeded" => replay'.object \in observed'
    <2>1. CASE replay' = replay \/ replay' = NoReplay
      BY <1>1, <1>2, <2>1 DEF RestoresObserved
    <2>2. CASE StartReplay
      <3>1. PICK o \in objects, p \in Profiles :
                replay' = [NoReplay EXCEPT !.pc = "read", !.object = o, !.profile = p]
        BY <2>2 DEF StartReplay
      <3>2. replay'.status = "failed"
        BY <3>1 DEF NoReplay
      <3>3. QED
        BY <3>2
    <2>3. CASE ReadArchive
      <3>1. PICK pc : replay' = [r EXCEPT !.pc = pc]
        BY <1>3, <2>3 DEF ReadArchive
      <3>2. replay'.status = r.status /\ replay'.object = r.object
        BY <1>4, <3>1 DEF ReplayType
      <3>3. QED
        BY <1>1, <1>3, <2>3, <3>2 DEF RestoresObserved, ReadArchive
    <2>4. CASE Replace
      <3>1. CASE /\ observed' = observed \cup {r.object}
                 /\ replay' = [r EXCEPT !.pc = "record", !.status = "succeeded"]
        <4>1. replay'.object = r.object
          BY <1>4, <3>1 DEF ReplayType
        <4>2. QED
          BY <3>1, <4>1
      <3>2. CASE replay' = [r EXCEPT !.pc = "abort", !.status = "failed"]
        <4>1. replay'.status = "failed"
          BY <1>4, <3>2 DEF ReplayType
        <4>2. QED
          BY <4>1
      <3>3. QED
        BY <1>3, <2>4, <3>1, <3>2 DEF Replace, StatusBeforeReplace
    <2>5. CASE Record /\ replay' = [r EXCEPT !.pc = "abort"]
      <3>1. replay'.status = r.status /\ replay'.object = r.object
        BY <1>4, <2>5 DEF ReplayType
      <3>2. QED
        BY <1>1, <1>3, <2>5, <3>1 DEF RestoresObserved, Record
    <2>6. Record \/ Abort => replay' = NoReplay \/ (Record /\ replay' = [r EXCEPT !.pc = "abort"])
      BY <1>3 DEF Record, Abort
    <2>7. ~StartReplay /\ ~Replaying => replay' = replay \/ replay' = NoReplay
      BY ArchivingOwns, BeginOwns DEF Next, Crash, vars
    <2>8. QED
      BY <2>1, <2>2, <2>3, <2>4, <2>5, <2>6, <2>7 DEF Replaying
  <1>7. QED
    BY <1>5, <1>6 DEF RestoresObserved

\* A profile that has restored as many objects of the day as there are has
\* restored each of them.
LEMMA FullDay ==
    ASSUME Typed, NEW p \in Windows
    PROVE  RestoredWith(p) = LatestObjects
  <1>1. IsFiniteSet(LatestObjects)
    <2>1. 1 \in Int /\ MaxRuns \in Int /\ MaxParts \in Int
      BY ArchiveAssumption
    <2>2. IsFiniteSet(RunIds) /\ IsFiniteSet(Parts)
      BY <2>1, FS_Interval DEF RunIds, Parts
    <2>3. IsFiniteSet(ObjectIds)
      BY <2>2, FS_Product DEF ObjectIds
    <2>4. LatestObjects \subseteq ObjectIds
      BY DEF LatestObjects, Typed, TypeOK
    <2>5. QED
      BY <2>3, <2>4, FS_Subset
  <1>2. RestoredWith(p) \subseteq LatestObjects
    BY DEF RestoredWith
  <1>3. Cardinality(RestoredWith(p)) >= Cardinality(LatestObjects)
    BY DEF Windows, RestoredSize
  <1>4. /\ Cardinality(RestoredWith(p)) \in Nat /\ Cardinality(LatestObjects) \in Nat
        /\ Cardinality(RestoredWith(p)) <= Cardinality(LatestObjects)
    BY <1>1, <1>2, FS_Subset, FS_CardinalityType
  <1>5. Cardinality(RestoredWith(p)) = Cardinality(LatestObjects)
    BY <1>3, <1>4
  <1>6. QED
    BY <1>1, <1>2, <1>5, FS_Subset

(***************************************************************************)
(* A profile has a benchmark window only of a full day: each object of the *)
(* latest succeeded run was restored with it and has its observations.     *)
(***************************************************************************)
THEOREM WindowsAreFullDays == GateSpec => []WindowIsFullDay
  <1>1. GateInit => RestoresObserved
    BY DEF GateInit, Init, NoReplay, RestoresObserved
  <1>2. GateTyped /\ RestoresObserved /\ [GateNext]_gateVars => RestoresObserved'
    BY ObservedStep DEF GateTyped, GateNext, LookUp, CheckFile, ReadRestore, gateVars
  <1>3. GateTyped /\ RestoresObserved => WindowIsFullDay
    <2> SUFFICES ASSUME GateTyped, RestoresObserved, NEW p \in Windows,
                        NEW o \in LatestObjects
                 PROVE  \E i \in DOMAIN restores :
                            /\ restores[i].object = o /\ restores[i].profile = p
                            /\ restores[i].status = "succeeded" /\ o \in observed
      BY DEF WindowIsFullDay
    <2>1. o \in RestoredWith(p)
      BY FullDay DEF GateTyped
    <2>2. PICK i \in BenchmarkRestores(p) : restores[i].object = o
      BY <2>1 DEF RestoredWith
    <2>3. /\ i \in DOMAIN restores /\ restores[i].profile = p
          /\ restores[i].status = "succeeded"
      BY DEF BenchmarkRestores
    <2>4. QED
      BY <2>2, <2>3 DEF RestoresObserved
  <1>4. QED
    BY <1>1, <1>2, <1>3, GateInvariant, PTL DEF GateSpec

=============================================================================
