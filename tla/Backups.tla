------------------------------- MODULE Backups -------------------------------
(***************************************************************************)
(* tools/backup_sqlite.py: a copy of the database in a directory named by  *)
(* the time, checked before older directories are removed.  A run may fail *)
(* or be killed at any point and leaves its directory as it is.            *)
(*                                                                         *)
(* One run at a time, as the systemd unit starts it, and a clock that is   *)
(* not set back.                                                           *)
(***************************************************************************)
EXTENDS Integers, FiniteSets

CONSTANTS MaxTime,  \* bound: seconds
          Keeps     \* the values of --keep: 1 or 2 after main() has capped it

\* What the constants must be.
BackupsAssumption == MaxTime \in Nat \ {0} /\ Keeps \subseteq Nat \ {0}

Times == 1 .. MaxTime

VARIABLES
  dirs,      \* dirs[t]: the directory named t
  clock,     \* the time
  backup,    \* the run: where it is, its directory and its --keep
  reported   \* the directory of the last run that ended with "Backup status: ok"

bvars == <<dirs, clock, backup, reported>>

TypeOK ==
  /\ dirs \in [Times -> {"absent", "partial", "good"}]
  /\ clock \in Times /\ reported \in {0} \cup Times
  /\ backup \in [pc : {"idle", "copy", "rotate", "remove"}, at : {0} \cup Times,
                 keep : {0} \cup Keeps]

NoBackup == [pc |-> "idle", at |-> 0, keep |-> 0]

Init ==
  /\ dirs = [t \in Times |-> "absent"] /\ clock = 1
  /\ backup = NoBackup /\ reported = 0

Present == {t \in Times : dirs[t] # "absent"}

\* rotate_backups: all but the newest, whatever is in them.
Stale == {t \in Present : Cardinality({u \in Present : u > t}) >= backup.keep}

Oldest(t) == \A u \in Stale : t <= u

Goto(pc) == backup' = [backup EXCEPT !.pc = pc]

-----------------------------------------------------------------------------
\* A directory of the same second is an error (exist_ok=False).
Begin(keep) ==
  /\ backup.pc = "idle" /\ dirs[clock] = "absent"
  /\ dirs' = [dirs EXCEPT ![clock] = "partial"]
  /\ backup' = [pc |-> "copy", at |-> clock, keep |-> keep]
  /\ UNCHANGED <<clock, reported>>

\* Mutant: the answer of quick_check is not looked at.
CheckLoosely(ok) ==
  /\ backup.pc = "copy"
  /\ dirs' = IF ok THEN [dirs EXCEPT ![backup.at] = "good"] ELSE dirs
  /\ Goto("rotate")
  /\ UNCHANGED <<clock, reported>>

\* source.backup and PRAGMA quick_check, with what else is put in the directory.
Check(ok) ==
  /\ backup.pc = "copy"
  /\ IF ok THEN dirs' = [dirs EXCEPT ![backup.at] = "good"] /\ Goto("rotate")
           ELSE backup' = NoBackup /\ UNCHANGED dirs
  /\ UNCHANGED <<clock, reported>>

\* shutil.rmtree takes the database first or last.
RemoveFiles(t) ==
  /\ backup.pc = "rotate" /\ t \in Stale /\ Oldest(t)
  /\ dirs' = [dirs EXCEPT ![t] = "partial"]
  /\ Goto("remove")
  /\ UNCHANGED <<clock, reported>>

RemoveDir(t) ==
  /\ backup.pc = "remove" /\ t \in Stale /\ Oldest(t)
  /\ dirs' = [dirs EXCEPT ![t] = "absent"]
  /\ Goto("rotate")
  /\ UNCHANGED <<clock, reported>>

Report ==
  /\ backup.pc = "rotate" /\ Stale = {}
  /\ reported' = backup.at /\ backup' = NoBackup
  /\ UNCHANGED <<dirs, clock>>

\* An error, or the run is killed.
Stop ==
  /\ backup.pc # "idle"
  /\ backup' = NoBackup
  /\ UNCHANGED <<dirs, clock, reported>>

Tick == clock < MaxTime /\ clock' = clock + 1 /\ UNCHANGED <<dirs, backup, reported>>

Next ==
  \/ \E keep \in Keeps : Begin(keep)
  \/ \E ok \in BOOLEAN : Check(ok)
  \/ \E t \in Times : RemoveFiles(t) \/ RemoveDir(t)
  \/ Report \/ Stop \/ Tick

Spec == Init /\ [][Next]_bvars

-----------------------------------------------------------------------------
\* A backup once reported is there, or a good one that is newer, however many
\* runs fail or are killed after it.
GoodBackupRemains == reported # 0 => \E t \in Times : t >= reported /\ dirs[t] = "good"

=============================================================================
