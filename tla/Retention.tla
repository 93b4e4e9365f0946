------------------------------ MODULE Retention ------------------------------
(***************************************************************************)
(* The retention of guest_sessions (services.py, run_retention_cleanup),   *)
(* which a worker process calls in a loop: when an interval has passed     *)
(* since the last run, a batch of closed sessions older than the limit is  *)
(* deleted in one transaction; the time of the run is saved in another.    *)
(*                                                                         *)
(* Ages are counted in units of the clock and stop just past the limit.    *)
(***************************************************************************)
EXTENDS Integers, FiniteSets, FiniteSetsExt

CONSTANTS MaxRows,   \* bound: sessions ever
          Limit,     \* retention.days
          Batch,     \* retention.batch_size
          Interval,  \* retention.interval_hours
          None       \* the absent row

\* What the constants must be.
RetentionAssumption ==
  /\ MaxRows \in Nat /\ Limit \in Nat /\ Batch \in Nat \ {0} /\ Interval \in Nat \ {0}
  /\ None \notin Int

Rows == 1 .. MaxRows

Session == [active : BOOLEAN, age : 0 .. Limit + 1]

NoSessionAssumption == None \notin Session

VARIABLES
  sessions,  \* sessions[i]: the row of id i
  last,      \* the last id given
  since,     \* the age of retention.last_run
  enabled,   \* retention.enabled
  pass       \* where the worker is in a pass

tvars == <<sessions, last, since, enabled, pass>>

TypeOK ==
  /\ sessions \in [Rows -> Session \cup {None}]
  /\ last \in 0 .. MaxRows /\ since \in 0 .. Interval
  /\ enabled \in BOOLEAN /\ pass \in {"idle", "delete", "record"}

Init ==
  /\ sessions = [i \in Rows |-> None] /\ last = 0
  /\ since = Interval /\ enabled = TRUE /\ pass = "idle"

\* What the WHERE clause selects: not the active ones.
Old == {i \in Rows : sessions[i] # None /\ ~ sessions[i].active /\ sessions[i].age > Limit}

\* The first Batch ids of a set, ORDER BY id LIMIT.
First(ids) == {i \in ids : Cardinality({j \in ids : j < i}) < Batch}

-----------------------------------------------------------------------------
(* The worker. *)

Due ==
  /\ pass = "idle" /\ enabled /\ since >= Interval
  /\ pass' = "delete"
  /\ UNCHANGED <<sessions, last, since, enabled>>

\* Mutant: the batch is taken first and searched for old rows.
DeleteOldBatchFirst ==
  /\ pass = "delete"
  /\ LET batch == First({i \in Rows : sessions[i] # None}) \cap Old
     IN sessions' = [i \in Rows |-> IF i \in batch THEN None ELSE sessions[i]]
  /\ pass' = "record"
  /\ UNCHANGED <<last, since, enabled>>

\* _delete_old_batch and commit.
DeleteOldBatch ==
  /\ pass = "delete"
  /\ sessions' = [i \in Rows |-> IF i \in First(Old) THEN None ELSE sessions[i]]
  /\ pass' = "record"
  /\ UNCHANGED <<last, since, enabled>>

Record ==
  /\ pass = "record"
  /\ since' = 0 /\ pass' = "idle"
  /\ UNCHANGED <<sessions, last, enabled>>

\* An error ("database is locked") or the end of the process.
Fail ==
  /\ pass # "idle"
  /\ pass' = "idle"
  /\ UNCHANGED <<sessions, last, since, enabled>>

-----------------------------------------------------------------------------
(* The rest of the portal. *)

StartSession ==
  /\ last < MaxRows
  /\ last' = last + 1
  /\ sessions' = [sessions EXCEPT ![last + 1] = [active |-> TRUE, age |-> 0]]
  /\ UNCHANGED <<since, enabled, pass>>

\* An Interim or a Stop; a session that was closed may be active again.
UpdateSession(i, active) ==
  /\ sessions[i] # None
  /\ sessions' = [sessions EXCEPT ![i] = [active |-> active, age |-> 0]]
  /\ UNCHANGED <<last, since, enabled, pass>>

\* cleanup_stale_sessions: ended_at is the time of the last sign of life.
CloseStale(i) ==
  /\ sessions[i] # None /\ sessions[i].active
  /\ sessions' = [sessions EXCEPT ![i].active = FALSE]
  /\ UNCHANGED <<last, since, enabled, pass>>

\* The settings form.
SetEnabled(on) == enabled' = on /\ UNCHANGED <<sessions, last, since, pass>>

Tick ==
  /\ sessions' = [i \in Rows |-> IF sessions[i] = None \/ sessions[i].age > Limit
                                THEN sessions[i] ELSE [sessions[i] EXCEPT !.age = @ + 1]]
  /\ since' = IF since < Interval THEN since + 1 ELSE since
  /\ UNCHANGED <<last, enabled, pass>>

Worker == Due \/ DeleteOldBatch \/ Record

Next ==
  \/ Worker \/ Fail
  \/ StartSession
  \/ \E i \in Rows : CloseStale(i) \/ \E active \in BOOLEAN : UpdateSession(i, active)
  \/ \E on \in BOOLEAN : SetEnabled(on)
  \/ Tick

\* The loop of the worker goes on, time passes, and a transaction that can be
\* tried again and again is committed at last.
Spec ==
  /\ Init /\ [][Next]_tvars
  /\ WF_tvars(Tick) /\ WF_tvars(Due) /\ SF_tvars(DeleteOldBatch) /\ WF_tvars(Record)

-----------------------------------------------------------------------------
\* While retention stays enabled an old session goes (or is active again) in the
\* end, although a pass takes one batch only, fails, or ends before it is recorded,
\* and although sessions that are still active are in its way.
OldRowsGo == \A i \in Rows : (i \in Old /\ [] enabled) ~> i \notin Old

=============================================================================
