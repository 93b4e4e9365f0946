-------------------------- MODULE ExportJobsProofs --------------------------
(***************************************************************************)
(* ExportJobs keeps its invariants for any number of exports, any          *)
(* retention, batch size and number of faults.                             *)
(***************************************************************************)
EXTENDS ExportJobs, TablesProofs

Exists(j) == j \in Ids(export_jobs)

\* What the process of an export knows of the row without reading it: only the
\* process writes the row until it ends, and it ends before the days are over.
RunOK(j) ==
  /\ run[j] # "none" => Exists(j)
  /\ run[j] \in {"spawn", "start"} => Status(j) = "queued"
  /\ run[j] \in {"write", "replace", "done"} => Status(j) = "running"
  /\ run[j] = "done" => file[j]
  /\ run[j] = "audit" => Status(j) = "done"
  /\ run[j] \in {"undo", "fail"} => Status(j) \in {"running", "done"}
  /\ run[j] \in {"audit", "undo", "fail"} => export_jobs[j].age <= Retention
  /\ Exists(j) /\ Status(j) = "running" => export_jobs[j].age = 0

\* What the pass of the worker read stays true until it commits.
BatchOK(j) ==
  cleaner.pc = "rows" /\ j \in cleaner.batch =>
    Exists(j) /\ Status(j) = "done" /\ run[j] = "none" /\ export_jobs[j].age > Retention

\* The file is there as long as the row offers it.
FileOK(j) == Exists(j) /\ Status(j) = "done" /\ export_jobs[j].age <= Retention => file[j]

DownloadOK(j) ==
  j \in downloads =>
    /\ Exists(j) /\ Status(j) \in {"done", "failed", "expired"}
    /\ export_jobs[j].age <= Retention => file[j]

JobOK(j) == RunOK(j) /\ BatchOK(j) /\ FileOK(j) /\ DownloadOK(j)

\* The inductive invariant.  DownloadFindsFile alone is not: that a file goes only
\* after its days rests on what the worker read before it removes the file, and
\* that a failure after the fact does not make the row young again without the
\* file rests on the step the process is at.
IInv ==
  /\ TypeOK
  /\ cleaner.todo \subseteq cleaner.batch
  /\ \A j \in Slots : JobOK(j)

-----------------------------------------------------------------------------
(* The table. *)

\* The types of a row's columns, and where its id lies.
LEMMA RowsTyped ==
  ASSUME TypeOK
  PROVE  /\ Len(export_jobs) \in Nat /\ Ids(export_jobs) \subseteq Slots
         /\ \A j \in Ids(export_jobs) :
              /\ export_jobs[j] \in Job
              /\ export_jobs[j].status \in {"queued", "running", "done", "failed", "expired"}
              /\ export_jobs[j].age \in Age
<1>1. Len(export_jobs) \in Nat
  BY LenProperties DEF TypeOK
<1>2. Ids(export_jobs) \subseteq Slots
  BY <1>1, ExportJobsAssumption DEF TypeOK, Ids, Slots
<1>3. \A j \in Ids(export_jobs) : export_jobs[j] \in Job
  BY ElementOfSeq DEF TypeOK, Ids
<1>4. QED
  BY <1>1, <1>2, <1>3 DEF Job

\* A write of the status makes the row young and leaves the other rows alone.
LEMMA SetStatusEffect ==
  ASSUME TypeOK, NEW j \in Ids(export_jobs),
         NEW status \in {"queued", "running", "done", "failed", "expired"},
         SetStatus(j, status)
  PROVE  /\ export_jobs' \in Seq(Job) /\ Len(export_jobs') = Len(export_jobs)
         /\ Ids(export_jobs)' = Ids(export_jobs)
         /\ export_jobs'[j].status = status /\ export_jobs'[j].age = 0
         /\ \A i \in Ids(export_jobs) : i # j => export_jobs'[i] = export_jobs[i]
<1> DEFINE row == [status |-> status, age |-> 0]
           new == [export_jobs EXCEPT ![j] = row]
<1>1. row \in Job
  BY ExportJobsAssumption DEF Job, Age
<1>2. Len(export_jobs) \in Nat /\ export_jobs \in [1 .. Len(export_jobs) -> Job]
  BY LenProperties DEF TypeOK
<1>3. new \in [Ids(export_jobs) -> Job] /\ new[j] = row
      /\ \A i \in Ids(export_jobs) : i # j => new[i] = export_jobs[i]
  BY <1>1, <1>2 DEF Ids
<1>4. new \in Seq(Job) /\ Len(new) = Len(export_jobs) /\ Ids(new) = Ids(export_jobs)
  <2> HIDE DEF new
  <2> QED BY <1>3, UpdatedTable DEF TypeOK
<1>5. export_jobs' = new
  BY DEF SetStatus
<1>6. QED
  BY <1>3, <1>4, <1>5

\* The worker's UPDATEs change nothing but the status of the rows of the batch.
LEMMA ExpireEffect ==
  ASSUME TypeOK, CleanCommit
  PROVE  /\ export_jobs' \in Seq(Job) /\ Len(export_jobs') = Len(export_jobs)
         /\ Ids(export_jobs)' = Ids(export_jobs)
         /\ \A i \in Ids(export_jobs) :
              /\ export_jobs'[i].age = export_jobs[i].age
              /\ export_jobs'[i].status =
                   IF i \in cleaner.batch THEN "expired" ELSE export_jobs[i].status
<1> DEFINE new == [i \in Ids(export_jobs) |->
                     IF i \in cleaner.batch THEN [export_jobs[i] EXCEPT !.status = "expired"]
                                            ELSE export_jobs[i]]
<1>1. \A i \in Ids(export_jobs) : export_jobs[i] \in Job
  BY RowsTyped
<1>2. new \in [Ids(export_jobs) -> Job]
  BY <1>1 DEF Job
<1>3. new \in Seq(Job) /\ Len(new) = Len(export_jobs) /\ Ids(new) = Ids(export_jobs)
  <2> HIDE DEF new
  <2> QED BY <1>2, UpdatedTable DEF TypeOK
<1>4. export_jobs' = new
  BY DEF CleanCommit, UpdateWhere
<1>5. QED
  BY <1>1, <1>3, <1>4 DEF Job

\* Time makes rows older by at most one, and leaves those of running exports alone.
LEMMA TickEffect ==
  ASSUME TypeOK, Tick
  PROVE  /\ export_jobs' \in Seq(Job) /\ Len(export_jobs') = Len(export_jobs)
         /\ Ids(export_jobs)' = Ids(export_jobs)
         /\ \A i \in Ids(export_jobs) :
              /\ export_jobs'[i].status = export_jobs[i].status
              /\ export_jobs[i].age <= export_jobs'[i].age
              /\ export_jobs'[i].age <= export_jobs[i].age + 1
              /\ export_jobs[i].status = "running" => export_jobs'[i] = export_jobs[i]
<1> DEFINE ended(i) == Status(i) \in {"done", "failed", "expired"}
           new == [i \in Ids(export_jobs) |->
                     IF ended(i) THEN [export_jobs[i] EXCEPT !.age = Older(@)]
                                 ELSE export_jobs[i]]
<1>1. \A i \in Ids(export_jobs) : export_jobs[i] \in Job /\ export_jobs[i].age \in Age
  BY RowsTyped
<1>2. \A age \in Age : Older(age) \in Age /\ age <= Older(age) /\ Older(age) <= age + 1
  BY ExportJobsAssumption DEF Age, Older
<1>3. new \in [Ids(export_jobs) -> Job]
  BY <1>1, <1>2 DEF Job
<1>4. new \in Seq(Job) /\ Len(new) = Len(export_jobs) /\ Ids(new) = Ids(export_jobs)
  <2> HIDE DEF new
  <2> QED BY <1>3, UpdatedTable DEF TypeOK
<1>5. export_jobs' = new
  BY DEF Tick
<1>6. \A age \in Age : age <= age + 1 /\ age <= age
  BY ExportJobsAssumption DEF Age
<1>7. QED
  BY <1>1, <1>2, <1>4, <1>5, <1>6 DEF Job, Status

-----------------------------------------------------------------------------
(* Types. *)

\* The types at first.
LEMMA TypeInit == Init => TypeOK
<1> SUFFICES ASSUME Init PROVE TypeOK
  OBVIOUS
<1>1. << >> \in Seq(Job) /\ Len(<< >>) = 0
  OBVIOUS
<1>2. QED
  BY <1>1, ExportJobsAssumption DEF Init, TypeOK, Resting, Cleaner, Slots

\* The steps of the request and of the process.
LEMMA RunTypes ==
  ASSUME TypeOK, NEW j \in Slots, run[j] # "none" => Exists(j), Run(j) \/ CrashRun(j)
  PROVE  TypeOK'
<1> USE ExportJobsAssumption
<1>1. CASE Spawn(j)
  BY <1>1 DEF Spawn, Goto, TypeOK
<1>2. CASE SpawnFails(j)
  <2>1. j \in Ids(export_jobs) /\ SetStatus(j, "failed")
    BY <1>2 DEF SpawnFails, Exists
  <2>2. export_jobs' \in Seq(Job) /\ Len(export_jobs') = Len(export_jobs)
    BY <2>1, SetStatusEffect
  <2> QED BY <1>2, <2>2 DEF SpawnFails, Goto, Fault, TypeOK
<1>3. CASE RunStart(j)
  <2>1. j \in Ids(export_jobs) /\ SetStatus(j, "running")
    BY <1>3 DEF RunStart, Exists
  <2>2. export_jobs' \in Seq(Job) /\ Len(export_jobs') = Len(export_jobs)
    BY <2>1, SetStatusEffect
  <2> QED BY <1>3, <2>2 DEF RunStart, Goto, TypeOK
<1>4. CASE RunWrite(j)
  BY <1>4 DEF RunWrite, Goto, TypeOK, Age
<1>5. CASE RunReplace(j)
  BY <1>5 DEF RunReplace, Goto, TypeOK
<1>6. CASE RunDone(j)
  <2>1. j \in Ids(export_jobs) /\ SetStatus(j, "done")
    BY <1>6 DEF RunDone, Exists
  <2>2. export_jobs' \in Seq(Job) /\ Len(export_jobs') = Len(export_jobs)
    BY <2>1, SetStatusEffect
  <2> QED BY <1>6, <2>2 DEF RunDone, Goto, TypeOK
<1>7. CASE RunAudit(j)
  BY <1>7 DEF RunAudit, Goto, TypeOK
<1>8. CASE RunRaises(j)
  BY <1>8 DEF RunRaises, Goto, Fault, TypeOK, Age
<1>9. CASE RunUndo(j)
  BY <1>9 DEF RunUndo, Goto, Fault, TypeOK
<1>10. CASE RunFail(j)
  <2>1. j \in Ids(export_jobs) /\ SetStatus(j, "failed")
    BY <1>10 DEF RunFail, Exists
  <2>2. export_jobs' \in Seq(Job) /\ Len(export_jobs') = Len(export_jobs)
    BY <2>1, SetStatusEffect
  <2> QED BY <1>10, <2>2 DEF RunFail, Goto, TypeOK
<1>11. CASE CrashRun(j)
  BY <1>11 DEF CrashRun, Goto, Fault, TypeOK
<1>12. QED
  BY <1>1, <1>2, <1>3, <1>4, <1>5, <1>6, <1>7, <1>8, <1>9, <1>10, <1>11 DEF Run

\* The steps of the worker.
LEMMA CleanTypes ==
  ASSUME TypeOK, Clean \/ CrashCleaner
  PROVE  TypeOK'
<1> USE ExportJobsAssumption
<1>1. CASE CleanSelect
  <2>1. Batch \subseteq Slots /\ Strays \subseteq Slots
    BY RowsTyped DEF Batch, Strays
  <2> QED BY <1>1, <2>1 DEF CleanSelect, TypeOK, Cleaner
<1>2. CASE \E j \in Slots : CleanRow(j)
  <2> PICK j \in Slots : CleanRow(j)
    BY <1>2
  <2>1. cleaner' \in Cleaner
    BY DEF CleanRow, TypeOK, Cleaner
  <2>2. faults' \in 0 .. MaxFaults
    BY DEF CleanRow, Fault, TypeOK
  <2>3. file' \in [Slots -> BOOLEAN]
    BY DEF CleanRow, TypeOK
  <2> QED BY <2>1, <2>2, <2>3 DEF CleanRow, TypeOK
<1>3. CASE CleanCommit
  <2>1. export_jobs' \in Seq(Job) /\ Len(export_jobs') = Len(export_jobs)
    BY <1>3, ExpireEffect
  <2> QED BY <1>3, <2>1 DEF CleanCommit, TypeOK, Cleaner
<1>4. CASE CleanSweep
  <2>1. faults' \in 0 .. MaxFaults
    BY <1>4 DEF CleanSweep, Fault, TypeOK
  <2>2. temp' \in [Slots -> Age \cup {None}]
    BY <1>4 DEF CleanSweep, TypeOK
  <2> QED BY <1>4, <2>1, <2>2 DEF CleanSweep, TypeOK, Cleaner
<1>5. CASE CleanFinish
  BY <1>5 DEF CleanFinish, Resting, TypeOK, Cleaner
<1>6. CASE CrashCleaner
  BY <1>6 DEF CrashCleaner, Resting, Fault, TypeOK, Cleaner
<1>7. QED
  BY <1>1, <1>2, <1>3, <1>4, <1>5, <1>6 DEF Clean

\* The other steps.
LEMMA OtherTypes ==
  ASSUME TypeOK,
         RequestExport \/ Tick \/ \E j \in Slots : DownloadRead(j) \/ DownloadOpen(j)
  PROVE  TypeOK'
<1> USE ExportJobsAssumption
<1>1. CASE RequestExport
  <2>1. Len(export_jobs) + 1 \in Slots
    BY <1>1, RowsTyped DEF RequestExport, Slots
  <2>2. [status |-> "queued", age |-> 0] \in Job
    BY DEF Job, Age
  <2>3. export_jobs' \in Seq(Job) /\ Len(export_jobs') = Len(export_jobs) + 1
    BY <1>1, <2>2, AppendProperties DEF RequestExport, TypeOK
  <2>4. Len(export_jobs') <= MaxJobs
    BY <1>1, <2>3, RowsTyped DEF RequestExport
  <2> QED BY <1>1, <2>1, <2>3, <2>4 DEF RequestExport, Goto, TypeOK
<1>2. CASE Tick
  <2>1. export_jobs' \in Seq(Job) /\ Len(export_jobs') = Len(export_jobs)
    BY <1>2, TickEffect
  <2>2. \A age \in Age : Older(age) \in Age
    BY DEF Age, Older
  <2>3. temp' \in [Slots -> Age \cup {None}]
    BY <1>2, <2>2 DEF Tick, TypeOK
  <2>4. since' \in 0 .. CleanupInterval
    BY <1>2 DEF Tick, TypeOK
  <2> QED BY <1>2, <2>1, <2>3, <2>4 DEF Tick, TypeOK
<1>3. CASE \E j \in Slots : DownloadRead(j) \/ DownloadOpen(j)
  BY <1>3 DEF DownloadRead, DownloadOpen, TypeOK
<1>4. QED
  BY <1>1, <1>2, <1>3

-----------------------------------------------------------------------------
(* The parts of the invariant about one export. *)

\* What a step does not touch stays as it is.
LEMMA Untouched ==
  ASSUME NEW i \in Slots, JobOK(i), Exists(i)' <=> Exists(i),
         Exists(i) => export_jobs'[i] = export_jobs[i],
         run'[i] = run[i], file'[i] = file[i], UNCHANGED <<cleaner, downloads>>
  PROVE  JobOK(i)'
BY DEF JobOK, RunOK, BatchOK, FileOK, DownloadOK, Status

\* The steps of the request and of the process.  SpawnFails, RunStart, RunDone and
\* RunFail write the row; the others leave the table alone.
LEMMA RunJobs ==
  ASSUME TypeOK, NEW j \in Slots, \A i \in Slots : JobOK(i), Run(j) \/ CrashRun(j)
  PROVE  \A i \in Slots : JobOK(i)'
<1>1. CASE Spawn(j)
  <2>1. JobOK(j)'
    BY <1>1, ExportJobsAssumption
       DEF Spawn, Goto, JobOK, RunOK, BatchOK, FileOK, DownloadOK, Exists, Status, Ids, TypeOK
  <2>2. /\ UNCHANGED <<export_jobs, cleaner, downloads>>
        /\ \A i \in Slots : i # j => run'[i] = run[i] /\ file'[i] = file[i]
    BY <1>1 DEF Spawn, Goto, TypeOK
  <2> QED BY <2>1, <2>2, Untouched DEF Exists, Ids
<1>2. CASE SpawnFails(j)
  <2>1. j \in Ids(export_jobs) /\ SetStatus(j, "failed")
    BY <1>2 DEF SpawnFails, JobOK, RunOK, Exists
  <2>2. /\ Ids(export_jobs)' = Ids(export_jobs)
        /\ export_jobs'[j].status = "failed" /\ export_jobs'[j].age = 0
        /\ \A i \in Ids(export_jobs) : i # j => export_jobs'[i] = export_jobs[i]
    BY <2>1, SetStatusEffect
  <2>3. /\ Goto(j, "none")
        /\ UNCHANGED <<file, cleaner, downloads>>
    BY <1>2 DEF SpawnFails
  <2>4. JobOK(j)'
    BY <1>2, <2>1, <2>2, <2>3, ExportJobsAssumption
       DEF SpawnFails, Goto, JobOK, RunOK, BatchOK, FileOK, DownloadOK, Exists, Status, TypeOK
  <2>5. \A i \in Slots : i # j => run'[i] = run[i]
    BY <2>3 DEF Goto, TypeOK
  <2> QED BY <2>2, <2>3, <2>4, <2>5, Untouched DEF Exists
<1>3. CASE RunStart(j)
  <2>1. j \in Ids(export_jobs) /\ SetStatus(j, "running")
    BY <1>3 DEF RunStart, JobOK, RunOK, Exists
  <2>2. /\ Ids(export_jobs)' = Ids(export_jobs)
        /\ export_jobs'[j].status = "running" /\ export_jobs'[j].age = 0
        /\ \A i \in Ids(export_jobs) : i # j => export_jobs'[i] = export_jobs[i]
    BY <2>1, SetStatusEffect
  <2>3. /\ Goto(j, "write")
        /\ UNCHANGED <<file, cleaner, downloads>>
    BY <1>3 DEF RunStart
  <2>4. JobOK(j)'
    BY <1>3, <2>1, <2>2, <2>3, ExportJobsAssumption
       DEF RunStart, Goto, JobOK, RunOK, BatchOK, FileOK, DownloadOK, Exists, Status, TypeOK
  <2>5. \A i \in Slots : i # j => run'[i] = run[i]
    BY <2>3 DEF Goto, TypeOK
  <2> QED BY <2>2, <2>3, <2>4, <2>5, Untouched DEF Exists
<1>4. CASE RunWrite(j)
  <2>1. JobOK(j)'
    BY <1>4, ExportJobsAssumption
       DEF RunWrite, Goto, JobOK, RunOK, BatchOK, FileOK, DownloadOK, Exists, Status, Ids, TypeOK
  <2>2. /\ UNCHANGED <<export_jobs, cleaner, downloads>>
        /\ \A i \in Slots : i # j => run'[i] = run[i] /\ file'[i] = file[i]
    BY <1>4 DEF RunWrite, Goto, TypeOK
  <2> QED BY <2>1, <2>2, Untouched DEF Exists, Ids
<1>5. CASE RunReplace(j)
  <2>1. JobOK(j)'
    BY <1>5, ExportJobsAssumption
       DEF RunReplace, Goto, JobOK, RunOK, BatchOK, FileOK, DownloadOK, Exists, Status, Ids, TypeOK
  <2>2. /\ UNCHANGED <<export_jobs, cleaner, downloads>>
        /\ \A i \in Slots : i # j => run'[i] = run[i] /\ file'[i] = file[i]
    BY <1>5 DEF RunReplace, Goto, TypeOK
  <2> QED BY <2>1, <2>2, Untouched DEF Exists, Ids
<1>6. CASE RunDone(j)
  <2>1. j \in Ids(export_jobs) /\ SetStatus(j, "done")
    BY <1>6 DEF RunDone, JobOK, RunOK, Exists
  <2>2. /\ Ids(export_jobs)' = Ids(export_jobs)
        /\ export_jobs'[j].status = "done" /\ export_jobs'[j].age = 0
        /\ \A i \in Ids(export_jobs) : i # j => export_jobs'[i] = export_jobs[i]
    BY <2>1, SetStatusEffect
  <2>3. /\ Goto(j, "audit")
        /\ UNCHANGED <<file, cleaner, downloads>>
    BY <1>6 DEF RunDone
  <2>4. JobOK(j)'
    BY <1>6, <2>1, <2>2, <2>3, ExportJobsAssumption
       DEF RunDone, Goto, JobOK, RunOK, BatchOK, FileOK, DownloadOK, Exists, Status, TypeOK
  <2>5. \A i \in Slots : i # j => run'[i] = run[i]
    BY <2>3 DEF Goto, TypeOK
  <2> QED BY <2>2, <2>3, <2>4, <2>5, Untouched DEF Exists
<1>7. CASE RunAudit(j)
  <2>1. JobOK(j)'
    BY <1>7, ExportJobsAssumption
       DEF RunAudit, Goto, JobOK, RunOK, BatchOK, FileOK, DownloadOK, Exists, Status, Ids, TypeOK
  <2>2. /\ UNCHANGED <<export_jobs, cleaner, downloads>>
        /\ \A i \in Slots : i # j => run'[i] = run[i] /\ file'[i] = file[i]
    BY <1>7 DEF RunAudit, Goto, TypeOK
  <2> QED BY <2>1, <2>2, Untouched DEF Exists, Ids
<1>8. CASE RunRaises(j)
  <2>1. JobOK(j)'
    BY <1>8, ExportJobsAssumption
       DEF RunRaises, Goto, JobOK, RunOK, BatchOK, FileOK, DownloadOK, Exists, Status, Ids, TypeOK
  <2>2. /\ UNCHANGED <<export_jobs, cleaner, downloads>>
        /\ \A i \in Slots : i # j => run'[i] = run[i] /\ file'[i] = file[i]
    BY <1>8 DEF RunRaises, Goto, TypeOK
  <2> QED BY <2>1, <2>2, Untouched DEF Exists, Ids
<1>9. CASE RunUndo(j)
  <2>1. JobOK(j)'
    BY <1>9, ExportJobsAssumption
       DEF RunUndo, Goto, JobOK, RunOK, BatchOK, FileOK, DownloadOK, Exists, Status, Ids, TypeOK
  <2>2. /\ UNCHANGED <<export_jobs, cleaner, downloads>>
        /\ \A i \in Slots : i # j => run'[i] = run[i] /\ file'[i] = file[i]
    BY <1>9 DEF RunUndo, Goto, TypeOK
  <2> QED BY <2>1, <2>2, Untouched DEF Exists, Ids
<1>10. CASE RunFail(j)
  <2>1. j \in Ids(export_jobs) /\ SetStatus(j, "failed")
    BY <1>10 DEF RunFail, JobOK, RunOK, Exists
  <2>2. /\ Ids(export_jobs)' = Ids(export_jobs)
        /\ export_jobs'[j].status = "failed" /\ export_jobs'[j].age = 0
        /\ \A i \in Ids(export_jobs) : i # j => export_jobs'[i] = export_jobs[i]
    BY <2>1, SetStatusEffect
  <2>3. /\ Goto(j, "none")
        /\ UNCHANGED <<file, cleaner, downloads>>
    BY <1>10 DEF RunFail
  <2>4. JobOK(j)'
    BY <1>10, <2>1, <2>2, <2>3, ExportJobsAssumption
       DEF RunFail, Goto, JobOK, RunOK, BatchOK, FileOK, DownloadOK, Exists, Status, TypeOK
  <2>5. \A i \in Slots : i # j => run'[i] = run[i]
    BY <2>3 DEF Goto, TypeOK
  <2> QED BY <2>2, <2>3, <2>4, <2>5, Untouched DEF Exists
<1>11. CASE CrashRun(j)
  <2>1. JobOK(j)'
    BY <1>11, ExportJobsAssumption
       DEF CrashRun, Goto, JobOK, RunOK, BatchOK, FileOK, DownloadOK, Exists, Status, Ids, TypeOK
  <2>2. /\ UNCHANGED <<export_jobs, cleaner, downloads>>
        /\ \A i \in Slots : i # j => run'[i] = run[i] /\ file'[i] = file[i]
    BY <1>11 DEF CrashRun, Goto, TypeOK
  <2> QED BY <2>1, <2>2, Untouched DEF Exists, Ids
<1>12. QED
  BY <1>1, <1>2, <1>3, <1>4, <1>5, <1>6, <1>7, <1>8, <1>9, <1>10, <1>11 DEF Run

\* The steps of the worker.
LEMMA CleanJobs ==
  ASSUME TypeOK, cleaner.todo \subseteq cleaner.batch, \A i \in Slots : JobOK(i),
         Clean \/ CrashCleaner
  PROVE  (cleaner.todo \subseteq cleaner.batch)' /\ \A i \in Slots : JobOK(i)'
<1>1. CASE CleanSelect
  <2>1. \A i \in Batch : Exists(i) /\ Status(i) = "done" /\ Old(export_jobs[i].age)
    BY DEF Batch, Exists
  <2>2. \A i \in Slots : BatchOK(i)'
    <3> SUFFICES ASSUME NEW i \in Slots, i \in Batch PROVE run[i] = "none"
      BY <1>1, <2>1 DEF CleanSelect, BatchOK, Exists, Status, Old, Ids
    <3>1. export_jobs[i].age \in Nat /\ export_jobs[i].age > Retention /\ Status(i) = "done"
      BY <2>1, RowsTyped DEF Exists, Old, Age
    <3>2. run[i] \notin {"audit", "undo", "fail"}
      BY <3>1, ExportJobsAssumption DEF JobOK, RunOK
    <3> QED BY <3>1, <3>2 DEF JobOK, RunOK, TypeOK
  <2>3. \A i \in Slots : RunOK(i)' /\ FileOK(i)' /\ DownloadOK(i)'
    BY <1>1 DEF CleanSelect, JobOK, RunOK, FileOK, DownloadOK, Exists, Status, Ids
  <2> QED BY <1>1, <2>2, <2>3 DEF CleanSelect, JobOK
<1>2. CASE \E j \in Slots : CleanRow(j)
  <2> PICK j \in Slots : CleanRow(j)
    BY <1>2
  <2>1. export_jobs[j].age > Retention /\ j \in Ids(export_jobs) /\ run[j] = "none"
    BY DEF CleanRow, JobOK, BatchOK, Exists
  <2>2. ~(export_jobs[j].age <= Retention)
    BY <2>1, RowsTyped, ExportJobsAssumption DEF Age
  <2>3. /\ UNCHANGED <<export_jobs, run, downloads>>
        /\ cleaner'.pc = cleaner.pc /\ cleaner'.batch = cleaner.batch
        /\ cleaner'.todo \subseteq cleaner.todo
    BY DEF CleanRow, TypeOK, Cleaner
  <2>4. \A i \in Slots : i # j => file'[i] = file[i]
    BY DEF CleanRow, TypeOK
  <2>5. \A i \in Slots : RunOK(i)' /\ BatchOK(i)'
    BY <2>1, <2>3, <2>4 DEF JobOK, RunOK, BatchOK, Exists, Status, Ids
  <2>6. \A i \in Slots : FileOK(i)' /\ DownloadOK(i)'
    BY <2>2, <2>3, <2>4 DEF JobOK, FileOK, DownloadOK, Exists, Status, Ids
  <2> QED BY <2>3, <2>5, <2>6 DEF JobOK
<1>3. CASE CleanCommit
  <2>1. /\ Ids(export_jobs)' = Ids(export_jobs)
        /\ \A i \in Ids(export_jobs) :
             /\ export_jobs'[i].age = export_jobs[i].age
             /\ export_jobs'[i].status =
                  IF i \in cleaner.batch THEN "expired" ELSE export_jobs[i].status
    BY <1>3, ExpireEffect
  <2>2. /\ UNCHANGED <<run, file, downloads>> /\ cleaner.pc = "rows"
        /\ cleaner'.pc = "sweep" /\ cleaner'.todo \subseteq cleaner'.batch
    BY <1>3 DEF CleanCommit, TypeOK, Cleaner
  <2>3. \A i \in Slots : i \in cleaner.batch => run[i] = "none" /\ Status(i) = "done"
    BY <2>2 DEF JobOK, BatchOK
  <2>4. \A i \in Slots : RunOK(i)'
    BY <2>1, <2>2, <2>3 DEF JobOK, RunOK, Exists, Status
  <2>5. \A i \in Slots : BatchOK(i)' /\ FileOK(i)' /\ DownloadOK(i)'
    BY <2>1, <2>2, <2>3 DEF JobOK, BatchOK, FileOK, DownloadOK, Exists, Status
  <2> QED BY <2>2, <2>4, <2>5 DEF JobOK
<1>4. CASE CleanSweep
  <2>1. /\ UNCHANGED <<export_jobs, run, file, downloads>>
        /\ cleaner'.pc = "finish" /\ cleaner'.todo \subseteq cleaner'.batch
    BY <1>4 DEF CleanSweep, TypeOK, Cleaner
  <2> QED BY <2>1 DEF JobOK, RunOK, BatchOK, FileOK, DownloadOK, Exists, Status, Ids
<1>5. CASE CleanFinish \/ CrashCleaner
  <2>1. /\ UNCHANGED <<export_jobs, run, file, downloads>>
        /\ cleaner'.pc = "idle" /\ cleaner'.todo \subseteq cleaner'.batch
    BY <1>5 DEF CleanFinish, CrashCleaner, Resting
  <2> QED BY <2>1 DEF JobOK, RunOK, BatchOK, FileOK, DownloadOK, Exists, Status, Ids
<1>6. QED
  BY <1>1, <1>2, <1>3, <1>4, <1>5 DEF Clean

\* The other steps.
LEMMA OtherJobs ==
  ASSUME TypeOK, \A i \in Slots : JobOK(i),
         RequestExport \/ Tick \/ \E j \in Slots : DownloadRead(j) \/ DownloadOpen(j)
  PROVE  \A i \in Slots : JobOK(i)'
<1>1. CASE RequestExport
  <2> PICK new : new = Len(export_jobs) + 1
    OBVIOUS
  <2> DEFINE row == [status |-> "queued", age |-> 0]
  <2>1. row \in Job /\ Len(export_jobs) \in Nat
    BY RowsTyped, ExportJobsAssumption DEF Job, Age
  <2>2. new \notin Ids(export_jobs) /\ new \in Slots
    BY <1>1, <2>1, ExportJobsAssumption DEF RequestExport, Ids, Slots
  <2>3. /\ Ids(export_jobs)' = Ids(export_jobs) \cup {new} /\ export_jobs'[new] = row
        /\ \A i \in Ids(export_jobs) : export_jobs'[i] = export_jobs[i]
    <3>1. export_jobs' = Append(export_jobs, row)
      BY <1>1 DEF RequestExport
    <3>2. export_jobs \in Seq(Job)
      BY DEF TypeOK
    <3>3. Ids(export_jobs') = Ids(export_jobs) \cup {new} /\ export_jobs'[new] = row
      <4> HIDE DEF row
      <4> QED BY <2>1, <3>1, <3>2, InsertedRow
    <3>4. \A i \in Ids(export_jobs) : export_jobs'[i] = export_jobs[i]
      <4> HIDE DEF row
      <4> QED BY <2>1, <3>1, <3>2, OtherRowsKept
    <3> QED BY <3>3, <3>4
  <2>4. /\ UNCHANGED <<file, cleaner, downloads>> /\ Goto(new, "spawn")
    BY <1>1 DEF RequestExport
  <2>5. run'[new] = "spawn" /\ \A i \in Slots : i # new => run'[i] = run[i]
    BY <2>2, <2>4 DEF Goto, TypeOK
  <2>r. row.status = "queued" /\ row.age = 0
    OBVIOUS
  <2> HIDE DEF row
  <2>6. ASSUME NEW i \in Slots, i # new PROVE JobOK(i)'
    BY <2>3, <2>4, <2>5, <2>6, Untouched DEF Exists
  <2>7. JobOK(new)'
    BY <2>r, <2>2, <2>3, <2>4, <2>5 DEF JobOK, RunOK, BatchOK, FileOK, DownloadOK, Exists, Status
  <2> QED BY <2>6, <2>7
<1>2. CASE Tick
  <2>1. /\ Ids(export_jobs)' = Ids(export_jobs)
        /\ \A i \in Ids(export_jobs) :
             /\ export_jobs'[i].status = export_jobs[i].status
             /\ export_jobs[i].age <= export_jobs'[i].age
             /\ export_jobs'[i].age <= export_jobs[i].age + 1
             /\ export_jobs[i].status = "running" => export_jobs'[i] = export_jobs[i]
    BY <1>2, TickEffect
  <2>2. UNCHANGED <<run, file, cleaner, downloads>>
    BY <1>2 DEF Tick
  <2>3. \A i \in Ids(export_jobs) : export_jobs[i].age \in Nat /\ export_jobs'[i].age \in Nat
    <3>1. export_jobs' \in Seq(Job)
      BY <1>2, TickEffect
    <3>2. \A i \in Ids(export_jobs) : export_jobs'[i] \in Job
      BY <2>1, <3>1, ElementOfSeq DEF Ids
    <3> QED BY <3>2, RowsTyped DEF Job, Age
  <2>4. \A i \in Slots : run[i] \in {"audit", "undo", "fail"} => export_jobs[i].age < Retention
    BY <1>2 DEF Tick
  <2>5. \A i \in Slots : RunOK(i)'
    BY <2>1, <2>2, <2>3, <2>4, ExportJobsAssumption DEF JobOK, RunOK, Exists, Status
  <2>6. \A i \in Slots : BatchOK(i)' /\ FileOK(i)' /\ DownloadOK(i)'
    BY <2>1, <2>2, <2>3, ExportJobsAssumption
       DEF JobOK, BatchOK, FileOK, DownloadOK, Exists, Status
  <2> QED BY <2>5, <2>6 DEF JobOK
<1>3. CASE \E j \in Slots : DownloadRead(j) \/ DownloadOpen(j)
  <2>1. /\ UNCHANGED <<export_jobs, run, file, cleaner>>
        /\ \A i \in downloads' : i \in downloads \/ (Exists(i) /\ Status(i) = "done")
    BY <1>3 DEF DownloadRead, DownloadOpen, Exists
  <2> QED BY <2>1 DEF JobOK, RunOK, BatchOK, FileOK, DownloadOK, Exists, Status, Ids
<1>4. QED
  BY <1>1, <1>2, <1>3

-----------------------------------------------------------------------------
(* The theorems. *)

\* The invariant holds at first.
LEMMA InvInit == Init => IInv
<1> SUFFICES ASSUME Init PROVE IInv
  OBVIOUS
<1>1. Ids(export_jobs) = {} /\ Len(export_jobs) = 0
  BY DEF Init, Ids
<1>2. \A j \in Slots : JobOK(j)
  BY <1>1 DEF Init, Resting, JobOK, RunOK, BatchOK, FileOK, DownloadOK, Exists
<1>3. QED
  BY <1>2, TypeInit DEF Init, Resting, IInv

\* Every step keeps the invariant.
LEMMA InvStep == IInv /\ [Next]_vars => IInv'
<1> SUFFICES ASSUME IInv, [Next]_vars PROVE IInv'
  OBVIOUS
<1> USE DEF IInv
<1>1. CASE \E j \in Slots : Run(j) \/ CrashRun(j)
  <2> PICK j \in Slots : Run(j) \/ CrashRun(j)
    BY <1>1
  <2>1. TypeOK' /\ \A i \in Slots : JobOK(i)'
    BY RunTypes, RunJobs DEF JobOK, RunOK
  <2>2. UNCHANGED cleaner
    BY DEF Run, Spawn, SpawnFails, RunStart, RunWrite, RunReplace, RunDone, RunAudit,
           RunRaises, RunUndo, RunFail, CrashRun
  <2> QED BY <2>1, <2>2
<1>2. CASE Clean \/ CrashCleaner
  BY <1>2, CleanTypes, CleanJobs
<1>3. CASE RequestExport \/ Tick \/ \E j \in Slots : DownloadRead(j) \/ DownloadOpen(j)
  <2>1. UNCHANGED cleaner
    BY <1>3 DEF RequestExport, Tick, DownloadRead, DownloadOpen
  <2> QED BY <1>3, <2>1, OtherTypes, OtherJobs
<1>4. CASE UNCHANGED vars
  <2>1. TypeOK'
    BY <1>4 DEF vars, TypeOK
  <2>2. \A i \in Slots : JobOK(i)'
    BY <1>4 DEF vars, JobOK, RunOK, BatchOK, FileOK, DownloadOK, Exists, Status, Ids
  <2> QED BY <1>4, <2>1, <2>2 DEF vars
<1>5. QED
  BY <1>1, <1>2, <1>3, <1>4 DEF Next

\* ExportJobs keeps its inductive invariant.
THEOREM InvHolds == Spec => []IInv
<1>1. IInv /\ [Next]_vars => IInv'
  BY InvStep
<1>2. QED
  BY <1>1, InvInit, PTL DEF Spec

\* Type correctness: the statuses stay within the vocabulary of the table.
THEOREM TypeCorrect == Spec => []TypeOK
<1>1. IInv => TypeOK
  BY DEF IInv
<1>2. QED
  BY <1>1, InvHolds, PTL

\* The download handler reads the row and opens the file later: it finds the file
\* as long as the days of the export are not over.
THEOREM DownloadsFindTheirFiles == Spec => []DownloadFindsFile
<1>1. IInv => DownloadFindsFile
  BY DEF IInv, TypeOK, JobOK, DownloadOK, DownloadFindsFile
<1>2. QED
  BY <1>1, InvHolds, PTL

\* The four UPDATEs of the status do not look at it, and yet a job that failed or
\* expired is not done again.
THEOREM EndedIsEnded == Spec => NeverOfferedAgain
<1> DEFINE Stays == \A j \in Ids(export_jobs) :
                      Status(j) \in {"failed", "expired"} => Status(j)' \in {"failed", "expired"}
<1>1. IInv /\ [Next]_vars => [Stays]_vars
  <2> SUFFICES ASSUME IInv, [Next]_vars, NEW j \in Ids(export_jobs),
                      Status(j) \in {"failed", "expired"}
               PROVE  Status(j)' \in {"failed", "expired"}
    OBVIOUS
  <2>1. j \in Slots /\ run[j] = "none"
    BY RowsTyped DEF IInv, TypeOK, JobOK, RunOK
  <2>2. CASE \E i \in Slots : Run(i) \/ CrashRun(i)
    <3> PICK i \in Slots : Run(i) \/ CrashRun(i)
      BY <2>2
    <3>1. i # j
      BY <2>1 DEF Run, Spawn, SpawnFails, RunStart, RunWrite, RunReplace, RunDone, RunAudit,
                  RunRaises, RunUndo, RunFail, CrashRun
    <3>2. export_jobs'[j] = export_jobs[j]
      <4>1. \/ UNCHANGED export_jobs
            \/ \E status \in {"running", "done", "failed"} : SetStatus(i, status)
        BY DEF Run, Spawn, SpawnFails, RunStart, RunWrite, RunReplace, RunDone, RunAudit,
               RunRaises, RunUndo, RunFail, CrashRun
      <4>2. i \in Ids(export_jobs)
        BY DEF Run, Spawn, SpawnFails, RunStart, RunWrite, RunReplace, RunDone, RunAudit,
               RunRaises, RunUndo, RunFail, CrashRun, IInv, JobOK, RunOK, Exists
      <4> QED BY <3>1, <4>1, <4>2, SetStatusEffect DEF IInv
    <3> QED BY <3>2 DEF Status
  <2>3. CASE CleanCommit
    BY <2>3, ExpireEffect DEF IInv, Status
  <2>4. CASE RequestExport
    <3>1. [status |-> "queued", age |-> 0] \in Job
      BY ExportJobsAssumption DEF Job, Age
    <3>2. export_jobs'[j] = export_jobs[j]
      BY <2>4, <3>1, OtherRowsKept DEF RequestExport, IInv, TypeOK
    <3> QED BY <3>2 DEF Status
  <2>5. CASE Tick
    BY <2>5, TickEffect DEF IInv, Status
  <2>6. CASE UNCHANGED export_jobs
    BY <2>6 DEF Status
  <2>7. QED
    BY <2>2, <2>3, <2>4, <2>5, <2>6
       DEF Next, Clean, CleanSelect, CleanRow, CleanSweep, CleanFinish, CrashCleaner,
           DownloadRead, DownloadOpen, vars
<1>2. QED
  BY <1>1, InvHolds, PTL DEF Spec, NeverOfferedAgain

=============================================================================
