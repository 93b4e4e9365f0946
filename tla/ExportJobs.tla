----------------------------- MODULE ExportJobs -----------------------------
(***************************************************************************)
(* Exports: the table export_jobs and the files in export_jobs/.  The      *)
(* admin asks for one (_queue_export_job, app.py), a process of its own    *)
(* writes it (tools/run_export_job.py), the admin downloads it and the     *)
(* cleanup worker removes it after some days (cleanup_export_job_files).   *)
(*                                                                         *)
(* Times are kept as ages in units of which Retention make the days files  *)
(* are kept; an age stops growing when it is past all comparisons.  A step *)
(* is one write transaction or one operation on a file.                    *)
(***************************************************************************)
EXTENDS Tables, FiniteSets

CONSTANTS Retention,        \* export.files_retention_days
          CleanupInterval,  \* export.cleanup_interval_hours
          BatchSize,        \* export.cleanup_batch_size
          MaxJobs,          \* bound: rows of export_jobs
          MaxFaults,        \* bound: failed operations and killed processes
          None              \* no file

ASSUME ExportJobsAssumption ==
  /\ Retention \in Nat /\ CleanupInterval \in Nat /\ BatchSize \in Nat \ {0}
  /\ MaxJobs \in Nat /\ MaxFaults \in Nat
  /\ None \notin Nat

VARIABLES
  export_jobs,  \* the table
  run,          \* run[j]: the next step of the process that makes export j
  file,         \* file[j]: is the finished file of j on disk?
  temp,         \* temp[j]: the age of the temporary file of j, or None
  cleaner,      \* the pass of the cleanup worker
  since,        \* the time since export.cleanup_last_run
  downloads,    \* the jobs a download has found done and is about to open
  faults        \* faults so far

vars == <<export_jobs, run, file, temp, cleaner, since, downloads, faults>>

Slots == 1 .. MaxJobs

Age == 0 .. Retention + 1

\* age is the time since finished_at, 0 until then.
Job == [status : {"queued", "running", "done", "failed", "expired"}, age : Age]

\* strays are the temporary files older than the cutoff of the pass.
Cleaner == [pc     : {"idle", "rows", "sweep", "finish"},
            batch  : SUBSET Slots,
            todo   : SUBSET Slots,
            strays : SUBSET Slots]

Resting == [pc |-> "idle", batch |-> {}, todo |-> {}, strays |-> {}]

TypeOK ==
  /\ export_jobs \in Seq(Job) /\ Len(export_jobs) <= MaxJobs
  /\ run \in [Slots -> {"none", "spawn", "start", "write", "replace", "done", "audit",
                        "undo", "fail"}]
  /\ file \in [Slots -> BOOLEAN]
  /\ temp \in [Slots -> Age \cup {None}]
  /\ cleaner \in Cleaner
  /\ since \in 0 .. CleanupInterval
  /\ downloads \in SUBSET Slots
  /\ faults \in 0 .. MaxFaults

\* last_run is empty: a pass is due.
Init ==
  /\ export_jobs = << >>
  /\ run = [j \in Slots |-> "none"]
  /\ file = [j \in Slots |-> FALSE]
  /\ temp = [j \in Slots |-> None]
  /\ cleaner = Resting
  /\ since = CleanupInterval
  /\ downloads = {}
  /\ faults = 0

-----------------------------------------------------------------------------
Status(j) == export_jobs[j].status

SetStatus(j, status) ==
  export_jobs' = [export_jobs EXCEPT ![j] = [status |-> status, age |-> 0]]

Goto(j, step) == run' = [run EXCEPT ![j] = step]

Fault ==
  /\ faults < MaxFaults
  /\ faults' = faults + 1

\* From its first UPDATE to its commit the pass of the worker holds the write
\* lock of the database; other writers wait for it.
Writable == cleaner.pc = "rows" => cleaner.todo = cleaner.batch

-----------------------------------------------------------------------------
(* The request of the admin. *)

\* create_export_job
RequestExport ==
  /\ Len(export_jobs) < MaxJobs /\ Writable
  /\ export_jobs' = Append(export_jobs, [status |-> "queued", age |-> 0])
  /\ Goto(Len(export_jobs) + 1, "spawn")
  /\ UNCHANGED <<file, temp, cleaner, since, downloads, faults>>

\* _start_export_job_process
Spawn(j) ==
  /\ run[j] = "spawn"
  /\ Goto(j, "start")
  /\ UNCHANGED <<export_jobs, file, temp, cleaner, since, downloads, faults>>

\* Mutant: the exception is raised when the process runs already.
SpawnFailsLate(j) ==
  /\ run[j] = "spawn" /\ Fault /\ Writable
  /\ SetStatus(j, "failed")
  /\ Goto(j, "start")
  /\ UNCHANGED <<file, temp, cleaner, since, downloads>>

\* The process could not be started: 500.
SpawnFails(j) ==
  /\ run[j] = "spawn" /\ Fault /\ Writable
  /\ SetStatus(j, "failed")
  /\ Goto(j, "none")
  /\ UNCHANGED <<file, temp, cleaner, since, downloads>>

-----------------------------------------------------------------------------
(* tools/run_export_job.py *)

RunStart(j) ==
  /\ run[j] = "start" /\ Writable
  /\ SetStatus(j, "running")
  /\ Goto(j, "write")
  /\ UNCHANGED <<file, temp, cleaner, since, downloads, faults>>

\* write_export_zip_file or write_single_xlsx_file
RunWrite(j) ==
  /\ run[j] = "write"
  /\ temp' = [temp EXCEPT ![j] = 0]
  /\ Goto(j, "replace")
  /\ UNCHANGED <<export_jobs, file, cleaner, since, downloads, faults>>

\* os.replace; the temporary file may have been swept since it was written.
RunReplace(j) ==
  /\ run[j] = "replace"
  /\ \/ /\ temp[j] # None
        /\ temp' = [temp EXCEPT ![j] = None] /\ file' = [file EXCEPT ![j] = TRUE]
        /\ Goto(j, "done")
     \/ temp[j] = None /\ Goto(j, "undo") /\ UNCHANGED <<file, temp>>
  /\ UNCHANGED <<export_jobs, cleaner, since, downloads, faults>>

\* mark_export_job_done
RunDone(j) ==
  /\ run[j] = "done" /\ Writable
  /\ SetStatus(j, "done")
  /\ Goto(j, "audit")
  /\ UNCHANGED <<file, temp, cleaner, since, downloads, faults>>

\* audit("export_completed"), still under the try
RunAudit(j) ==
  /\ run[j] = "audit" /\ Writable
  /\ Goto(j, "none")
  /\ UNCHANGED <<export_jobs, file, temp, cleaner, since, downloads, faults>>

\* An exception under the try: the disk is full, the database stays locked.
RunRaises(j) ==
  /\ run[j] \in {"write", "replace", "done", "audit"} /\ Fault
  /\ \/ UNCHANGED temp
     \/ run[j] = "write" /\ temp' = [temp EXCEPT ![j] = 0]
  /\ Goto(j, "undo")
  /\ UNCHANGED <<export_jobs, file, cleaner, since, downloads>>

\* except: the temporary file is removed, an OSError passed over.
RunUndo(j) ==
  /\ run[j] = "undo"
  /\ \/ temp' = [temp EXCEPT ![j] = None] /\ UNCHANGED faults
     \/ temp[j] # None /\ Fault /\ UNCHANGED temp
  /\ Goto(j, "fail")
  /\ UNCHANGED <<export_jobs, file, cleaner, since, downloads>>

\* Mutant: a status outside the vocabulary of the table.
RunFailAsError(j) ==
  /\ run[j] = "fail" /\ Writable
  /\ SetStatus(j, "error")
  /\ Goto(j, "none")
  /\ UNCHANGED <<file, temp, cleaner, since, downloads, faults>>

\* fail(): whatever the status is by now; file_path stays.
RunFail(j) ==
  /\ run[j] = "fail" /\ Writable
  /\ SetStatus(j, "failed")
  /\ Goto(j, "none")
  /\ UNCHANGED <<file, temp, cleaner, since, downloads, faults>>

\* The request or the process is killed; nothing takes the job up again.
CrashRun(j) ==
  /\ run[j] # "none" /\ Fault
  /\ Goto(j, "none")
  /\ UNCHANGED <<export_jobs, file, temp, cleaner, since, downloads>>

-----------------------------------------------------------------------------
(* /admin/export/jobs/{job_id}/download *)

DownloadRead(j) ==
  /\ j \in Ids(export_jobs) /\ Status(j) = "done"
  /\ downloads' = downloads \cup {j}
  /\ UNCHANGED <<export_jobs, run, file, temp, cleaner, since, faults>>

\* The file, or 404 when it is no longer there.
DownloadOpen(j) ==
  /\ j \in downloads
  /\ downloads' = downloads \ {j}
  /\ UNCHANGED <<export_jobs, run, file, temp, cleaner, since, faults>>

-----------------------------------------------------------------------------
(* The cleanup worker: run_export_file_cleanup. *)

\* Mutant: a file goes when its days are full, not when they are over.
OldEarly(age) == age >= Retention

\* timestamp < cutoff
Old(age) == age > Retention

\* Mutant: jobs of any status fill the batch.
BatchOfAnyStatus ==
  LET old == {j \in Ids(export_jobs) : Old(export_jobs[j].age)}
  IN {j \in old : Cardinality({i \in old : i < j}) < BatchSize}

\* The first BatchSize jobs that are done and old.
Batch ==
  LET old == {j \in Ids(export_jobs) : Status(j) = "done" /\ Old(export_jobs[j].age)}
  IN {j \in old : Cardinality({i \in old : i < j}) < BatchSize}

\* Mutant: the pattern matches no temporary file.
StraysNone == {}

\* *.tmp
Strays == {j \in Slots : temp[j] # None /\ Old(temp[j])}

\* The pass is due; the SELECT and the cutoff.
CleanSelect ==
  /\ cleaner.pc = "idle" /\ since = CleanupInterval
  /\ cleaner' = [pc |-> "rows", batch |-> Batch, todo |-> Batch, strays |-> Strays]
  /\ UNCHANGED <<export_jobs, run, file, temp, since, downloads, faults>>

\* unlink of one file; an OSError is passed over and the row expires all the same.
CleanRow(j) ==
  /\ cleaner.pc = "rows" /\ j \in cleaner.todo
  /\ \/ file' = [file EXCEPT ![j] = FALSE] /\ UNCHANGED faults
     \/ file[j] /\ Fault /\ UNCHANGED file
  /\ cleaner' = [cleaner EXCEPT !.todo = @ \ {j}]
  /\ UNCHANGED <<export_jobs, run, temp, since, downloads>>

\* The UPDATEs of the batch, by id, are committed together.
CleanCommit ==
  LET Expired(row) == [row EXCEPT !.status = "expired"]
  IN /\ cleaner.pc = "rows" /\ cleaner.todo = {}
     /\ export_jobs' = UpdateWhere(export_jobs, cleaner.batch, Expired)
     /\ cleaner' = [cleaner EXCEPT !.pc = "sweep"]
     /\ UNCHANGED <<run, file, temp, since, downloads, faults>>

\* The temporary files older than the cutoff; those whose unlink fails stay.
CleanSweep ==
  /\ cleaner.pc = "sweep"
  /\ \E stuck \in SUBSET cleaner.strays :
       /\ IF stuck = {} THEN UNCHANGED faults ELSE Fault
       /\ temp' = [j \in Slots |-> IF j \in cleaner.strays \ stuck THEN None ELSE temp[j]]
  /\ cleaner' = [cleaner EXCEPT !.pc = "finish"]
  /\ UNCHANGED <<export_jobs, run, file, since, downloads>>

\* set_setting("export.cleanup_last_run"), however much is left over.
CleanFinish ==
  /\ cleaner.pc = "finish"
  /\ cleaner' = Resting
  /\ since' = 0
  /\ UNCHANGED <<export_jobs, run, file, temp, downloads, faults>>

\* The worker is killed: the files it removed are gone, the transaction rolls back.
CrashCleaner ==
  /\ cleaner.pc # "idle" /\ Fault
  /\ cleaner' = Resting
  /\ UNCHANGED <<export_jobs, run, file, temp, since, downloads>>

-----------------------------------------------------------------------------
Older(age) == IF age <= Retention THEN age + 1 ELSE age

\* The few statements after mark_export_job_done take seconds (a locked database
\* is waited for at most 30), the days files are kept are one at least.
Tick ==
  /\ \A j \in Slots : run[j] \in {"audit", "undo", "fail"} => export_jobs[j].age < Retention
  /\ export_jobs' = [j \in Ids(export_jobs) |->
                       IF Status(j) \in {"done", "failed", "expired"}
                       THEN [export_jobs[j] EXCEPT !.age = Older(@)] ELSE export_jobs[j]]
  /\ temp' = [j \in Slots |-> IF temp[j] = None THEN None ELSE Older(temp[j])]
  /\ since' = IF since < CleanupInterval THEN since + 1 ELSE since
  /\ UNCHANGED <<run, file, cleaner, downloads, faults>>

Run(j) ==
  \/ Spawn(j) \/ SpawnFails(j)
  \/ RunStart(j) \/ RunWrite(j) \/ RunReplace(j) \/ RunDone(j) \/ RunAudit(j)
  \/ RunRaises(j) \/ RunUndo(j) \/ RunFail(j)

Clean == CleanSelect \/ (\E j \in Slots : CleanRow(j)) \/ CleanCommit \/ CleanSweep \/ CleanFinish

Next ==
  \/ RequestExport
  \/ \E j \in Slots : Run(j) \/ CrashRun(j) \/ DownloadRead(j) \/ DownloadOpen(j)
  \/ Clean \/ CrashCleaner
  \/ Tick

Spec == Init /\ [][Next]_vars

\* Processes run until they end, the worker loops for ever and is restarted when
\* it dies (Restart=always), and time passes.  Downloads owe nothing.
Fairness == (\A j \in Slots : WF_vars(Run(j))) /\ WF_vars(Clean) /\ WF_vars(Tick)

FairSpec == Spec /\ Fairness

-----------------------------------------------------------------------------
(* Properties. *)

\* Whoever has read that an export is done finds the file until its days are over,
\* whatever becomes of the job meanwhile: file and row are written and removed by
\* two processes in four different steps, and either may be killed between them.
DownloadFindsFile == \A j \in downloads : export_jobs[j].age <= Retention => file[j]

\* An export that has failed or expired is never offered again: the request and
\* the process both write the status, by id, without looking at it.
NeverOfferedAgain ==
  [][\A j \in Ids(export_jobs) :
       Status(j) \in {"failed", "expired"} => Status(j)' \in {"failed", "expired"}]_vars

IsDone(j) == j \in Ids(export_jobs) /\ Status(j) = "done"

\* No export is offered for ever: the pass takes a bounded number of rows, marks
\* the day as served, and may be killed between files and rows.
DoneJobExpires == \A j \in Slots : IsDone(j) ~> ~IsDone(j)

\* What a killed or failed process has left half-written goes away.
TempIsSwept == \A j \in Slots : temp[j] # None ~> temp[j] = None

\* "export file removed by cleanup" (the note an expired row gets, export_jobs.py:197).
ExpiredFileIsGone == \A j \in Ids(export_jobs) : Status(j) = "expired" => ~file[j]

=============================================================================
