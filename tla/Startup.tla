------------------------------- MODULE Startup -------------------------------
(***************************************************************************)
(* The start of the service: several worker processes of uvicorn bring the *)
(* database up to date at once (startup in app.py, db.py).  Looking for a  *)
(* column or row, adding it and filling it are transactions of their own:  *)
(* adding what another worker has added since is an error, which ends the  *)
(* worker; it is started again.  The last step rewrites the terminate      *)
(* causes of all closed sessions, while others close and reopen sessions.  *)
(*                                                                         *)
(* Of the columns of a table that are added together two stand for three;  *)
(* terminate_cause_raw of radius_accounting goes with that of the sessions.*)
(***************************************************************************)
EXTENDS Integers, Sequences, FiniteSets

CONSTANTS Workers,     \* worker processes
          Rows,        \* rows of guest_sessions
          MaxCrashes,  \* bound: workers killed
          None         \* SQL NULL

\* What a worker looks for with one SELECT, in the order of startup().
Groups == << <<"guests.auth_type", "guests.room_number">>, <<"admin">>,
             <<"guests.last_auth_at">>, <<"sessions.device_name">>,
             <<"sessions.auth_method", "sessions.surname">>, <<"sessions.cause_raw">> >>

Items == UNION {{Groups[g][i] : i \in DOMAIN Groups[g]} : g \in DOMAIN Groups}

\* The columns that are filled in a second transaction.
Filled == {"guests.last_auth_at", "sessions.cause_raw"}

\* Causes as a NAS writes them, as services.py writes them, and as neither.
Causes == {"Lost-Carrier", "lost_carrier", "stale_session_cleanup", "unknown"}

\* The causes labels.py has a text for, other than "unknown".
Labelled == {"lost_carrier", "stale_session_cleanup"}

\* What init_db puts into the tables of a new database.  It changes no table that
\* is there, and a second "IF NOT EXISTS" is no error.
Created == {"guests.last_auth_at", "sessions.device_name", "sessions.cause_raw"}

\* A new database, one of an installation before the first item, and one that
\* lacks the last.
Starts == {Created, {}, Items \ {"sessions.cause_raw"}}

\* What the constants must be.
StartupAssumption == MaxCrashes \in Nat /\ IsFiniteSet(Workers)

VARIABLES
  items,    \* the columns and the row that are there
  filled,   \* those of them that have been filled
  cause,    \* terminate_cause of each session; None of an active or future one
  worker,   \* where each worker is in startup()
  crashes   \* workers killed so far

uvars == <<items, filled, cause, worker, crashes>>

Worker == [pc : {"look", "add", "fill", "rewrite", "serving", "down"},
           group : 1 .. Len(Groups), missing : SUBSET Items,
           batch : [Rows -> Causes \cup {None}]]

NoBatch == [r \in Rows |-> None]

Begun == [pc |-> "look", group |-> 1, missing |-> {}, batch |-> NoBatch]

TypeOK ==
  /\ items \in SUBSET Items /\ filled \in SUBSET Filled
  /\ cause \in [Rows -> Causes \cup {None}]
  /\ worker \in [Workers -> Worker]
  /\ crashes \in 0 .. MaxCrashes

Init ==
  /\ items \in Starts /\ filled = Filled \cap items
  /\ cause \in IF items = Created THEN {NoBatch}
               ELSE [Rows -> {"Lost-Carrier", "stale_session_cleanup"}]
  /\ worker = [w \in Workers |-> Begun]
  /\ crashes = 0

\* _normalize_existing_terminate_cause: its table does not have the causes
\* services.py came to write later.
Normalized(c) == CASE c = "Lost-Carrier" -> "lost_carrier"
                   [] c = "lost_carrier" -> "lost_carrier"
                   [] OTHER -> "unknown"

\* The first item of a group that was missing when the worker looked.
FirstMissing(w) ==
  LET group == Groups[worker[w].group]
      i == CHOOSE i \in DOMAIN group : /\ group[i] \in worker[w].missing
                                       /\ \A j \in 1 .. i - 1 : group[j] \notin worker[w].missing
  IN group[i]

\* The causes of the closed sessions that are not as they should be.
Rewritten == [r \in Rows |-> IF cause[r] # None /\ Normalized(cause[r]) # cause[r]
                            THEN Normalized(cause[r]) ELSE None]

\* On to the next group; after the last one the causes are read.
NextGroup(w) ==
  IF worker[w].group < Len(Groups)
  THEN [worker[w] EXCEPT !.pc = "look", !.group = @ + 1, !.missing = {}]
  ELSE [worker[w] EXCEPT !.pc = "rewrite", !.missing = {}, !.batch = Rewritten]

\* terminate_cause of the sessions after an UPDATE by id.
Updated(batch) == [r \in Rows |-> IF batch[r] # None THEN batch[r] ELSE cause[r]]

Become(w, state) == worker' = [worker EXCEPT ![w] = state]

-----------------------------------------------------------------------------
\* Mutant: items are added without a look.
LookBlindly(w) ==
  LET group == Groups[worker[w].group]
  IN /\ worker[w].pc = "look"
     /\ Become(w, [worker[w] EXCEPT !.pc = "add", !.missing = {group[i] : i \in DOMAIN group}])
     /\ UNCHANGED <<items, filled, cause, crashes>>

\* PRAGMA table_info, or the SELECT of the configured administrator.
Look(w) ==
  LET group == Groups[worker[w].group]
      missing == {group[i] : i \in DOMAIN group} \ items
  IN /\ worker[w].pc = "look"
     /\ Become(w, IF missing = {} THEN NextGroup(w)
                  ELSE [worker[w] EXCEPT !.pc = "add", !.missing = missing])
     /\ UNCHANGED <<items, filled, cause, crashes>>

\* Where a worker is after it has added an item.
Added(w, item) ==
  LET left == worker[w].missing \ {item}
  IN IF left # {} THEN [worker[w] EXCEPT !.missing = left]
     ELSE IF item \in Filled THEN [worker[w] EXCEPT !.pc = "fill", !.missing = {}]
     ELSE NextGroup(w)

\* Mutant: "duplicate column" is passed over, with the rest of the group.
AddTolerantly(w) ==
  LET item == FirstMissing(w)
  IN /\ worker[w].pc = "add"
     /\ items' = items \cup {item}
     /\ Become(w, IF item \in items THEN NextGroup(w) ELSE Added(w, item))
     /\ UNCHANGED <<filled, cause, crashes>>

\* ALTER TABLE commits by itself, as does the INSERT; what is there by now is an
\* error that ends the worker.
Add(w) ==
  LET item == FirstMissing(w)
  IN /\ worker[w].pc = "add"
     /\ IF item \in items
        THEN Become(w, [Begun EXCEPT !.pc = "down"]) /\ UNCHANGED items
        ELSE /\ items' = items \cup {item}
             /\ Become(w, Added(w, item))
     /\ UNCHANGED <<filled, cause, crashes>>

\* The UPDATE that follows the ALTER, skipped for ever if the worker dies before.
\* With that of the raw causes begins the transaction that rewrites the causes.
Fill(w) ==
  LET last == worker[w].group = Len(Groups)
  IN /\ worker[w].pc = "fill"
     /\ filled' = filled \cup {Groups[worker[w].group][1]}
     /\ cause' = IF last THEN Updated(Rewritten) ELSE cause
     /\ Become(w, IF last THEN [Begun EXCEPT !.pc = "serving"] ELSE NextGroup(w))
     /\ UNCHANGED <<items, crashes>>

\* Otherwise the causes are written as they were read, by id, in one transaction.
Rewrite(w) ==
  /\ worker[w].pc = "rewrite"
  /\ cause' = Updated(worker[w].batch)
  /\ Become(w, [Begun EXCEPT !.pc = "serving"])
  /\ UNCHANGED <<items, filled, crashes>>

\* uvicorn's parent, or systemd, starts a worker that has ended.
Respawn(w) ==
  /\ worker[w].pc = "down"
  /\ Become(w, Begun)
  /\ UNCHANGED <<items, filled, cause, crashes>>

\* A worker is killed, or the service restarted.
Kill(w) ==
  /\ worker[w].pc # "down" /\ crashes < MaxCrashes
  /\ Become(w, [Begun EXCEPT !.pc = "down"])
  /\ crashes' = crashes + 1
  /\ UNCHANGED <<items, filled, cause>>

-----------------------------------------------------------------------------
(* The sessions meanwhile: the cleanup worker, and accounting and admissions *)
(* at the workers that serve already.                                         *)

\* A Stop, or cleanup_stale_sessions.
CloseSession(r, c) ==
  /\ cause[r] = None
  /\ c = "stale_session_cleanup" \/ \E w \in Workers : worker[w].pc = "serving"
  /\ cause' = [cause EXCEPT ![r] = c]
  /\ UNCHANGED <<items, filled, worker, crashes>>

\* update_session.
Reopen(r) ==
  /\ cause[r] # None /\ \E w \in Workers : worker[w].pc = "serving"
  /\ cause' = [cause EXCEPT ![r] = None]
  /\ UNCHANGED <<items, filled, worker, crashes>>

StartStep(w) == Look(w) \/ Add(w) \/ Fill(w) \/ Rewrite(w) \/ Respawn(w)

Next ==
  \/ \E w \in Workers : StartStep(w) \/ Kill(w)
  \/ \E r \in Rows : Reopen(r) \/ \E c \in Labelled : CloseSession(r, c)

Spec == Init /\ [][Next]_uvars

-----------------------------------------------------------------------------
(* Properties. *)

\* A worker that answers requests finds every column and the administrator,
\* however the starts of the others went.
ServingIsMigrated == \A w \in Workers : worker[w].pc = "serving" => items = Items

\* Every worker comes to serve, although they put each other out of action: what
\* one has added, none adds again.
AllServe == \A w \in Workers : (worker[w].pc # "serving") ~> (worker[w].pc = "serving")

\* A cause that the admin pages have a text for (labels.py) stays with its
\* session until the session is reopened.
CausesSurviveStart == [][\A r \in Rows : cause[r] \in Labelled => cause'[r] \in {cause[r], None}]_uvars
=============================================================================
