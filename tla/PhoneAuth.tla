----------------------------- MODULE PhoneAuth -----------------------------
(***************************************************************************)
(* Confirmation of a phone number by a call: the tables guests,            *)
(* pending_auth and call_events, and the code that reads and writes them:  *)
(* the phone branch of /radius-check, /pbx-call, /auth-status (app.py) and *)
(* cleanup_db (services.py), run by several request threads and by the     *)
(* cleanup worker over one SQLite file.                                    *)
(*                                                                         *)
(* Every SELECT commits by itself and every UPDATE or INSERT opens a       *)
(* transaction that ends at commit(), so a handler is a sequence of atomic *)
(* steps, one per SELECT and one per write transaction; the field pc of a  *)
(* request names the step it is about to take.                             *)
(***************************************************************************)
EXTENDS Tables, FiniteSets

CONSTANTS Phones,        \* phone numbers, normalised
          Macs,          \* device addresses, normalised
          Requests,      \* slots for requests being served at the same time
          PendingTtl,    \* PENDING_MINUTES
          ReauthWindow,  \* auth.reauth_days, in the units of the clock
          MaxNow,        \* bound: the clock stops here
          MaxPending,    \* bound: rows of pending_auth
          MaxCrashes,    \* bound: processes killed between two steps
          None           \* SQL NULL, and the absent row

ASSUME PhoneAuthAssumption ==
  /\ PendingTtl \in Nat /\ ReauthWindow \in Nat /\ MaxNow \in Nat
  /\ MaxPending \in Nat /\ MaxCrashes \in Nat
  /\ None \notin Int /\ None \notin Phones /\ None \notin Macs

VARIABLES
  clock,         \* now()
  guests,        \* guests[p]: last_auth_at of the guest row of p, or None
  pending_auth,  \* the table of requests for a call
  call_events,   \* call_events[p]: the results recorded for calls from p
  req,           \* req[r]: the request served in slot r
  cleanup,       \* ids cleanup_db read as overdue and is about to update
  crashes        \* processes killed so far

vars == <<clock, guests, pending_auth, call_events, req, cleanup, crashes>>

Time == 0 .. MaxNow

CallResult == {"no_pending", "expired_pending", "matched_pending"}

PendingRow == [phone      : Phones,
               mac        : Macs,
               created_at : Time,
               expires_at : Time,
               status     : {"pending", "verified", "expired"}]

Pc == {"idle",
       "check_touch", "check_pending", "check_create", "check_expire",
       "call_expire", "call_guest", "call_update", "call_insert", "call_verify",
       "status_pending", "status_expire"}

\* mac is None for the calls and the status polls; row is the id of the
\* pending row the request has read; at is when a call came in.
Request == [pc    : Pc,
            phone : Phones \cup {None},
            mac   : Macs \cup {None},
            row   : Nat,
            at    : Time]

Idle == [pc |-> "idle", phone |-> None, mac |-> None, row |-> 0, at |-> 0]

TypeOK ==
  /\ clock \in Time
  /\ guests \in [Phones -> Time \cup {None}]
  /\ pending_auth \in Seq(PendingRow)
  /\ call_events \in [Phones -> SUBSET CallResult]
  /\ req \in [Requests -> Request]
  /\ cleanup \in SUBSET Nat
  /\ crashes \in 0 .. MaxCrashes

Init ==
  /\ clock = 0
  /\ guests = [p \in Phones |-> None]
  /\ pending_auth = << >>
  /\ call_events = [p \in Phones |-> {}]
  /\ req = [r \in Requests |-> Idle]
  /\ cleanup = {}
  /\ crashes = 0

-----------------------------------------------------------------------------
(* The queries. *)

\* get_active_guest: the row exists and last_auth_at is inside the window.
ActiveGuest(p) ==
  /\ guests[p] # None
  /\ clock - guests[p] <= ReauthWindow

\* The rows still waiting for a call from p.
PendingOf(p) ==
  {i \in Ids(pending_auth) :
     pending_auth[i].phone = p /\ pending_auth[i].status = "pending"}

\* get_live_pending looks at the rows of one device only.
PendingOfDevice(p, m) == {i \in PendingOf(p) : pending_auth[i].mac = m}

\* Mutant: a row runs out one instant early.
OverdueEarly(i) == clock >= pending_auth[i].expires_at

\* now() > expires_at
Overdue(i) == clock > pending_auth[i].expires_at

\* Mutant: a status outside the vocabulary of the table.
ExpireRowsAsClosed(ids) ==
  LET Closed(row) == [row EXCEPT !.status = "closed"]
  IN pending_auth' = UpdateWhere(pending_auth, ids, Closed)

\* UPDATE pending_auth SET status='expired' WHERE id IN ids: by id only,
\* whatever the status is by now.
ExpireRows(ids) ==
  LET Expired(row) == [row EXCEPT !.status = "expired"]
  IN pending_auth' = UpdateWhere(pending_auth, ids, Expired)

\* INSERT INTO call_events
RecordCall(p, result) ==
  call_events' = [call_events EXCEPT ![p] = @ \cup {result}]

-----------------------------------------------------------------------------
(* Requests. *)

Goto(r, pc) == req' = [req EXCEPT ![r].pc = pc]

GotoRow(r, pc, i) == req' = [req EXCEPT ![r].pc = pc, ![r].row = i]

\* The response is sent: nothing of the request remains.
Reply(r) == req' = [req EXCEPT ![r] = Idle]

\* /radius-check with a phone number: get_active_guest.
RadiusCheck(r, p, m) ==
  /\ req[r].pc = "idle"
  /\ req' = [req EXCEPT ![r] =
               [pc    |-> IF ActiveGuest(p) THEN "check_touch" ELSE "check_pending",
                phone |-> p, mac |-> m, row |-> 0, at |-> 0]]
  /\ UNCHANGED <<clock, guests, pending_auth, call_events, cleanup, crashes>>

\* touch_guest_auth, then the session part of the answer (module Sessions).
CheckTouch(r) ==
  /\ req[r].pc = "check_touch"
  /\ guests' = [guests EXCEPT ![req[r].phone] = IF @ = None THEN None ELSE clock]
  /\ Reply(r)
  /\ UNCHANGED <<clock, pending_auth, call_events, cleanup, crashes>>

\* The MAC branch of /radius-check ends with touch_guest_auth of the guest of
\* the device's last session (module Sessions), whatever last_auth_at is by now.
MacTouch(p) ==
  /\ guests[p] # None
  /\ guests' = [guests EXCEPT ![p] = clock]
  /\ UNCHANGED <<clock, pending_auth, call_events, req, cleanup, crashes>>

\* get_live_pending, and the branch on what it returned.
CheckPending(r) ==
  LET mine == PendingOfDevice(req[r].phone, req[r].mac)
  IN /\ req[r].pc = "check_pending"
     /\ \/ mine = {} /\ Goto(r, "check_create")
        \/ mine # {} /\ Overdue(Newest(mine)) /\ GotoRow(r, "check_expire", Newest(mine))
        \/ mine # {} /\ ~Overdue(Newest(mine)) /\ Reply(r)  \* pending_waiting_call
     /\ UNCHANGED <<clock, guests, pending_auth, call_events, cleanup, crashes>>

\* INSERT INTO pending_auth; answers pending_created.
CheckCreate(r) ==
  /\ req[r].pc = "check_create"
  /\ Len(pending_auth) < MaxPending
  /\ clock + PendingTtl < MaxNow
  /\ pending_auth' = Append(pending_auth,
                            [phone      |-> req[r].phone,
                             mac        |-> req[r].mac,
                             created_at |-> clock,
                             expires_at |-> clock + PendingTtl,
                             status     |-> "pending"])
  /\ Reply(r)
  /\ UNCHANGED <<clock, guests, call_events, cleanup, crashes>>

\* Answers pending_expired.
CheckExpire(r) ==
  /\ req[r].pc = "check_expire"
  /\ ExpireRows({req[r].row})
  /\ Reply(r)
  /\ UNCHANGED <<clock, guests, call_events, cleanup, crashes>>

\* Mutant: the rows are verified before the guest is created.
PbxCallVerifyFirst(r, p) ==
  /\ req[r].pc = "idle"
  /\ PendingOf(p) # {}
  /\ req' = [req EXCEPT ![r] = [pc |-> "call_verify", phone |-> p, mac |-> None,
                                row |-> Newest(PendingOf(p)), at |-> clock]]
  /\ UNCHANGED <<clock, guests, pending_auth, call_events, cleanup, crashes>>

\* Mutant: a call makes a guest of whoever calls.
PbxCallFromAnybody(r, p) ==
  /\ req[r].pc = "idle"
  /\ req' = [req EXCEPT ![r] = [pc |-> "call_guest", phone |-> p, mac |-> None,
                                row |-> 0, at |-> clock]]
  /\ UNCHANGED <<clock, guests, pending_auth, call_events, cleanup, crashes>>

\* /pbx-call: the newest pending row of the phone, whatever the device.
PbxCall(r, p) ==
  LET mine == PendingOf(p)
      Received(pc) == req' = [req EXCEPT ![r] = [pc |-> pc, phone |-> p, mac |-> None,
                                                row |-> Newest(mine), at |-> clock]]
  IN /\ req[r].pc = "idle"
     /\ \/ mine = {} /\ RecordCall(p, "no_pending") /\ UNCHANGED req  \* 404
        \/ mine # {} /\ Overdue(Newest(mine)) /\ Received("call_expire") /\ UNCHANGED call_events
        \/ mine # {} /\ ~Overdue(Newest(mine)) /\ Received("call_guest") /\ UNCHANGED call_events
     /\ UNCHANGED <<clock, guests, pending_auth, cleanup, crashes>>

\* The row the call matched had run out: 410.
CallExpire(r) ==
  /\ req[r].pc = "call_expire"
  /\ ExpireRows({req[r].row})
  /\ RecordCall(req[r].phone, "expired_pending")
  /\ Reply(r)
  /\ UNCHANGED <<clock, guests, cleanup, crashes>>

\* Mutant: a guest that exists is not renewed.
CallGuestNoRenewal(r) ==
  /\ req[r].pc = "call_guest"
  /\ Goto(r, IF guests[req[r].phone] # None THEN "call_verify" ELSE "call_insert")
  /\ UNCHANGED <<clock, guests, pending_auth, call_events, cleanup, crashes>>

\* get_or_create_guest: is there a row for the phone?
CallGuest(r) ==
  /\ req[r].pc = "call_guest"
  /\ Goto(r, IF guests[req[r].phone] # None THEN "call_update" ELSE "call_insert")
  /\ UNCHANGED <<clock, guests, pending_auth, call_events, cleanup, crashes>>

\* get_or_create_guest: renew the row it found.
CallUpdate(r) ==
  /\ req[r].pc = "call_update"
  /\ guests' = [guests EXCEPT ![req[r].phone] = clock]
  /\ Goto(r, "call_verify")
  /\ UNCHANGED <<clock, pending_auth, call_events, cleanup, crashes>>

\* Mutant: the INSERT is never committed.
CallInsertUncommitted(r) ==
  /\ req[r].pc = "call_insert"
  /\ Goto(r, "call_verify")
  /\ UNCHANGED <<clock, guests, pending_auth, call_events, cleanup, crashes>>

\* get_or_create_guest: insert the missing row.  guests.phone is UNIQUE: when
\* another call inserted it first the request fails with a 500.
CallInsert(r) ==
  LET p == req[r].phone
  IN /\ req[r].pc = "call_insert"
     /\ \/ guests[p] = None /\ guests' = [guests EXCEPT ![p] = clock] /\ Goto(r, "call_verify")
        \/ guests[p] # None /\ Reply(r) /\ UNCHANGED guests
     /\ UNCHANGED <<clock, pending_auth, call_events, cleanup, crashes>>

\* The closing transaction of pbx_call: the matched row, and every other row
\* of the phone that is still pending, become verified.
CallVerify(r) ==
  LET p == req[r].phone
      Verified(row) == [row EXCEPT !.status = "verified"]
  IN /\ req[r].pc = "call_verify"
     /\ pending_auth' = UpdateWhere(pending_auth, {req[r].row} \cup PendingOf(p), Verified)
     /\ RecordCall(p, "matched_pending")
     /\ Reply(r)
     /\ UNCHANGED <<clock, guests, cleanup, crashes>>

\* /auth-status: an active guest is answered "verified" at once.
AuthStatus(r, p) ==
  /\ req[r].pc = "idle"
  /\ ~ActiveGuest(p)
  /\ req' = [req EXCEPT ![r] = [pc |-> "status_pending", phone |-> p, mac |-> None,
                                row |-> 0, at |-> 0]]
  /\ UNCHANGED <<clock, guests, pending_auth, call_events, cleanup, crashes>>

\* Answers "pending" or "not_found", or goes on to expire the row.
StatusPending(r) ==
  LET mine == PendingOf(req[r].phone)
  IN /\ req[r].pc = "status_pending"
     /\ IF mine # {} /\ Overdue(Newest(mine))
        THEN GotoRow(r, "status_expire", Newest(mine))
        ELSE Reply(r)
     /\ UNCHANGED <<clock, guests, pending_auth, call_events, cleanup, crashes>>

\* Answers "expired".
StatusExpire(r) ==
  /\ req[r].pc = "status_expire"
  /\ ExpireRows({req[r].row})
  /\ Reply(r)
  /\ UNCHANGED <<clock, guests, call_events, cleanup, crashes>>

-----------------------------------------------------------------------------
(* The cleanup worker. *)

\* Mutant: the worker looks at the rows already marked.
CleanupReadExpired ==
  /\ cleanup = {}
  /\ cleanup' = {i \in Ids(pending_auth) :
                   pending_auth[i].status = "expired" /\ Overdue(i)}
  /\ UNCHANGED <<clock, guests, pending_auth, call_events, req, crashes>>

\* cleanup_db reads the table and keeps the ids of the overdue pending rows.
CleanupRead ==
  /\ cleanup = {}
  /\ cleanup' = {i \in Ids(pending_auth) :
                   pending_auth[i].status = "pending" /\ Overdue(i)}
  /\ UNCHANGED <<clock, guests, pending_auth, call_events, req, crashes>>

\* ... and updates them by id in one transaction.
CleanupExpire ==
  /\ cleanup # {}
  /\ ExpireRows(cleanup)
  /\ cleanup' = {}
  /\ UNCHANGED <<clock, guests, call_events, req, crashes>>

-----------------------------------------------------------------------------
(* The environment. *)

Tick ==
  /\ clock < MaxNow
  /\ clock' = clock + 1
  /\ UNCHANGED <<guests, pending_auth, call_events, req, cleanup, crashes>>

\* A server process is killed: its request takes no further step.
CrashRequest(r) ==
  /\ req[r].pc # "idle"
  /\ crashes < MaxCrashes
  /\ crashes' = crashes + 1
  /\ Reply(r)
  /\ UNCHANGED <<clock, guests, pending_auth, call_events, cleanup>>

\* The cleanup worker is killed and restarted by systemd (Restart=always).
CrashCleanup ==
  /\ cleanup # {}
  /\ crashes < MaxCrashes
  /\ crashes' = crashes + 1
  /\ cleanup' = {}
  /\ UNCHANGED <<clock, guests, pending_auth, call_events, req>>

\* What a request already received does next.
Serve(r) ==
  \/ CheckTouch(r) \/ CheckPending(r) \/ CheckCreate(r) \/ CheckExpire(r)
  \/ CallExpire(r) \/ CallGuest(r) \/ CallUpdate(r) \/ CallInsert(r) \/ CallVerify(r)
  \/ StatusPending(r) \/ StatusExpire(r)

Next ==
  \/ \E r \in Requests, p \in Phones, m \in Macs : RadiusCheck(r, p, m)
  \/ \E r \in Requests, p \in Phones : PbxCall(r, p) \/ AuthStatus(r, p)
  \/ \E p \in Phones : MacTouch(p)
  \/ \E r \in Requests : Serve(r) \/ CrashRequest(r)
  \/ CleanupRead \/ CleanupExpire \/ CrashCleanup
  \/ Tick

Spec == Init /\ [][Next]_vars

\* Threads are scheduled, the worker loops for ever and is restarted, and
\* time passes.  Nothing obliges a guest to ask or to call.
Fairness ==
  /\ \A r \in Requests : WF_vars(Serve(r))
  /\ WF_vars(CleanupRead) /\ WF_vars(CleanupExpire)
  /\ WF_vars(Tick)

FairSpec == Spec /\ Fairness

-----------------------------------------------------------------------------
(* Properties. *)

\* A row is marked expired only after its own deadline.  Four places in the
\* code decide it on a row read earlier (radius_check, pbx_call, auth_status,
\* cleanup_db) and write it later by id, without looking again.
ExpiredAfterDeadline ==
  \A i \in Ids(pending_auth) :
    pending_auth[i].status = "expired" => clock > pending_auth[i].expires_at

\* A row is verified only once the phone has a guest row and a matched call on
\* record: pbx_call commits the guest in a transaction of its own, before the
\* one that marks the rows, and a crash between the two must not leave a row
\* verified with nobody to admit.
VerifiedIsBacked ==
  \A i \in Ids(pending_auth) :
    pending_auth[i].status = "verified" =>
      /\ guests[pending_auth[i].phone] # None
      /\ "matched_pending" \in call_events[pending_auth[i].phone]

\* When pbx_call is about to answer "verified", the guest has been authorised
\* no earlier than the call came in, whatever the other requests for the phone
\* did in between: the next /radius-check admits it (docs/pbx.md, steps 6, 7).
CallRenewsGuest ==
  \A r \in Requests :
    req[r].pc = "call_verify" =>
      /\ guests[req[r].phone] # None
      /\ guests[req[r].phone] >= req[r].at

\* The phone numbers somebody has asked access with.
Asked == {pending_auth[i].phone : i \in Ids(pending_auth)}

Adm == INSTANCE Admission WITH asked <- Asked, authorised <- guests

\* The requests, the threads and the cleanup worker together do no more than
\* Admission allows: a call from a number nobody entered on the portal creates
\* no guest, and every authorisation is stamped with the time it was given.
ImplementsAdmission == Adm!Spec

\* No row waits for ever: somebody expires or verifies it, even if the guest
\* never comes back and the cleanup worker is killed on the way.
PendingIsResolved ==
  \A i \in 1 .. MaxPending :
    (i \in Ids(pending_auth) /\ pending_auth[i].status = "pending")
      ~> (i \in Ids(pending_auth) /\ pending_auth[i].status # "pending")

\* A call that matched a live row ends with a guest row for the phone, also
\* when two calls race to create it and one of them fails with a 500, unless a
\* process is killed.
MatchedCallAdmits ==
  \A r \in Requests, p \in Phones :
    (req[r].pc = "call_guest" /\ req[r].phone = p) ~> (guests[p] # None \/ crashes > 0)

=============================================================================
