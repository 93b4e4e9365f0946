----------------------------- MODULE VoucherAuth -----------------------------
(***************************************************************************)
(* Vouchers: the tables vouchers and voucher_devices, the voucher branch   *)
(* of /radius-check (verify_voucher_radius, vouchers.py) up to the point   *)
(* where it turns to the sessions, and the voucher pages of the admin      *)
(* (app.py): create, revoke, remove a device.                              *)
(*                                                                         *)
(* The steps are those of module PhoneAuth: one per SELECT and one per     *)
(* write transaction.  A voucher is named by its code: vouchers.code_hash  *)
(* is UNIQUE, and no voucher is ever deleted.                              *)
(***************************************************************************)
EXTENDS Integers, FiniteSets

CONSTANTS Vouchers,   \* codes
          Macs,       \* devices
          Requests,   \* slots for /radius-check requests served at once
          Limits,     \* values of max_devices the create form lets through
          Lifetimes,  \* values of valid_days, in the units of the clock
          MaxNow,     \* bound: the clock stops here
          None        \* SQL NULL, and the absent row

ASSUME VoucherAuthAssumption ==
  /\ Limits \subseteq Nat \ {0} /\ Lifetimes \subseteq Nat /\ MaxNow \in Nat
  /\ IsFiniteSet(Requests)
  /\ None \notin Int /\ None \notin Vouchers /\ None \notin Macs

VARIABLES
  clock,            \* now()
  vouchers,         \* vouchers[v]: the row of code v, or None
  voucher_devices,  \* pairs <<code, device>>; UNIQUE(voucher_id, mac)
  voucher_guests,   \* codes with a row "voucher:CODE" in guests
  vreq,             \* vreq[r]: the request served in slot r
  admitted          \* the pairs <<code, device>> handed over to the sessions

vvars == <<clock, vouchers, voucher_devices, voucher_guests, vreq, admitted>>

Time == 0 .. MaxNow

Voucher == [status      : {"active", "revoked", "expired"},
            max_devices : Limits,
            valid_until : Nat,
            revoked_at  : Time \cup {None}]

ASSUME NoVoucherAssumption == None \notin Voucher

\* at is the time the request read the voucher.
Request == [pc      : {"idle", "expire", "device", "count", "insert", "touch",
                       "guest", "guest_insert", "session"},
            voucher : Vouchers \cup {None},
            mac     : Macs \cup {None},
            at      : Time]

Idle == [pc |-> "idle", voucher |-> None, mac |-> None, at |-> 0]

TypeOK ==
  /\ clock \in Time
  /\ vouchers \in [Vouchers -> Voucher \cup {None}]
  /\ voucher_devices \in SUBSET (Vouchers \X Macs)
  /\ voucher_guests \in SUBSET Vouchers
  /\ vreq \in [Requests -> Request]
  /\ admitted \in SUBSET (Vouchers \X Macs)

Init ==
  /\ clock = 0
  /\ vouchers = [v \in Vouchers |-> None]
  /\ voucher_devices = {}
  /\ voucher_guests = {}
  /\ vreq = [r \in Requests |-> Idle]
  /\ admitted = {}

-----------------------------------------------------------------------------
(* The voucher branch of /radius-check. *)

Goto(r, pc) == vreq' = [vreq EXCEPT ![r].pc = pc]

Reply(r) == vreq' = [vreq EXCEPT ![r] = Idle]

Devices(v) == {d \in voucher_devices : d[1] = v}

\* Mutant: a voucher runs out at valid_until, not after it.
OverdueEarly(v) == clock >= vouchers[v].valid_until

\* now() > valid_until
Overdue(v) == clock > vouchers[v].valid_until

\* Mutant: the status is not looked at.
VerifyReadAnyStatus(r, v, m) ==
  LET Read(pc) == vreq' = [vreq EXCEPT ![r] =
                             [pc |-> pc, voucher |-> v, mac |-> m, at |-> clock]]
  IN /\ vreq[r].pc = "idle"
     /\ vouchers[v] # None
     /\ IF Overdue(v) THEN Read("expire") ELSE Read("device")
     /\ UNCHANGED <<clock, vouchers, voucher_devices, voucher_guests, admitted>>

\* The voucher is read once; a code that is unknown, revoked or marked expired
\* is refused at once.
VerifyRead(r, v, m) ==
  LET Read(pc) == vreq' = [vreq EXCEPT ![r] =
                             [pc |-> pc, voucher |-> v, mac |-> m, at |-> clock]]
  IN /\ vreq[r].pc = "idle"
     /\ vouchers[v] # None /\ vouchers[v].status = "active"
     /\ IF Overdue(v) THEN Read("expire") ELSE Read("device")
     /\ UNCHANGED <<clock, vouchers, voucher_devices, voucher_guests, admitted>>

\* By id, whatever the status is by now; answers voucher_expired.
VerifyExpire(r) ==
  /\ vreq[r].pc = "expire"
  /\ vouchers' = [vouchers EXCEPT ![vreq[r].voucher].status = "expired"]
  /\ Reply(r)
  /\ UNCHANGED <<clock, voucher_devices, voucher_guests, admitted>>

\* Is the device registered already?
VerifyDevice(r) ==
  /\ vreq[r].pc = "device"
  /\ Goto(r, IF <<vreq[r].voucher, vreq[r].mac>> \in voucher_devices THEN "touch" ELSE "count")
  /\ UNCHANGED <<clock, vouchers, voucher_devices, voucher_guests, admitted>>

\* Mutant: one device too many.
VerifyCountOff(r) ==
  LET v == vreq[r].voucher
  IN /\ vreq[r].pc = "count"
     /\ IF Cardinality(Devices(v)) > vouchers[v].max_devices THEN Reply(r) ELSE Goto(r, "insert")
     /\ UNCHANGED <<clock, vouchers, voucher_devices, voucher_guests, admitted>>

\* A new device needs a free place: else voucher_device_limit.
VerifyCount(r) ==
  LET v == vreq[r].voucher
  IN /\ vreq[r].pc = "count"
     /\ IF Cardinality(Devices(v)) >= vouchers[v].max_devices THEN Reply(r) ELSE Goto(r, "insert")
     /\ UNCHANGED <<clock, vouchers, voucher_devices, voucher_guests, admitted>>

\* The row may have been inserted by another request of the device since: then
\* the INSERT fails and the request with it (500).
VerifyInsert(r) ==
  LET d == <<vreq[r].voucher, vreq[r].mac>>
  IN /\ vreq[r].pc = "insert"
     /\ \/ d \notin voucher_devices
           /\ voucher_devices' = voucher_devices \cup {d} /\ Goto(r, "guest")
        \/ d \in voucher_devices /\ Reply(r) /\ UNCHANGED voucher_devices
     /\ UNCHANGED <<clock, vouchers, voucher_guests, admitted>>

\* UPDATE by id: a row removed since is not written again.
VerifyTouch(r) ==
  /\ vreq[r].pc = "touch"
  /\ Goto(r, "guest")
  /\ UNCHANGED <<clock, vouchers, voucher_devices, voucher_guests, admitted>>

\* get_or_create_guest("voucher:CODE"), as in PhoneAuth.
VerifyGuest(r) ==
  /\ vreq[r].pc = "guest"
  /\ Goto(r, IF vreq[r].voucher \in voucher_guests THEN "session" ELSE "guest_insert")
  /\ UNCHANGED <<clock, vouchers, voucher_devices, voucher_guests, admitted>>

VerifyGuestInsert(r) ==
  LET v == vreq[r].voucher
  IN /\ vreq[r].pc = "guest_insert"
     /\ \/ v \notin voucher_guests /\ voucher_guests' = voucher_guests \cup {v} /\ Goto(r, "session")
        \/ v \in voucher_guests /\ Reply(r) /\ UNCHANGED voucher_guests
     /\ UNCHANGED <<clock, vouchers, voucher_devices, admitted>>

\* The rest is the session of the device (module Sessions, composed in Portal).
VerifySession(r) ==
  /\ vreq[r].pc = "session"
  /\ admitted' = admitted \cup {<<vreq[r].voucher, vreq[r].mac>>}
  /\ Reply(r)
  /\ UNCHANGED <<clock, vouchers, voucher_devices, voucher_guests>>

-----------------------------------------------------------------------------
(* The voucher pages. *)

CreateVoucher(v, limit, days) ==
  /\ vouchers[v] = None
  /\ vouchers' = [vouchers EXCEPT ![v] = [status |-> "active", max_devices |-> limit,
                                         valid_until |-> clock + days, revoked_at |-> None]]
  /\ UNCHANGED <<clock, voucher_devices, voucher_guests, vreq, admitted>>

\* Mutant: a status outside the vocabulary of the table.
RevokeAsDisabled(v) ==
  /\ vouchers[v] # None
  /\ vouchers' = [vouchers EXCEPT ![v].status = "disabled", ![v].revoked_at = clock]
  /\ UNCHANGED <<clock, voucher_devices, voucher_guests, vreq, admitted>>

\* Whatever the status is.
Revoke(v) ==
  /\ vouchers[v] # None
  /\ vouchers' = [vouchers EXCEPT ![v].status = "revoked", ![v].revoked_at = clock]
  /\ UNCHANGED <<clock, voucher_devices, voucher_guests, vreq, admitted>>

RemoveDevice(v, m) ==
  /\ <<v, m>> \in voucher_devices
  /\ voucher_devices' = voucher_devices \ {<<v, m>>}
  /\ UNCHANGED <<clock, vouchers, voucher_guests, vreq, admitted>>

-----------------------------------------------------------------------------
Tick ==
  /\ clock < MaxNow
  /\ clock' = clock + 1
  /\ UNCHANGED <<vouchers, voucher_devices, voucher_guests, vreq, admitted>>

\* A server process is killed between two steps.
CrashRequest(r) ==
  /\ vreq[r].pc # "idle"
  /\ Reply(r)
  /\ UNCHANGED <<clock, vouchers, voucher_devices, voucher_guests, admitted>>

Verify(r) ==
  \/ \E v \in Vouchers, m \in Macs : VerifyRead(r, v, m)
  \/ VerifyExpire(r) \/ VerifyDevice(r) \/ VerifyCount(r) \/ VerifyInsert(r) \/ VerifyTouch(r)
  \/ VerifyGuest(r) \/ VerifyGuestInsert(r)
  \/ CrashRequest(r)

Manage(v) ==
  \/ \E limit \in Limits, days \in Lifetimes : CreateVoucher(v, limit, days)
  \/ Revoke(v)
  \/ \E m \in Macs : RemoveDevice(v, m)

Next ==
  \/ \E r \in Requests : Verify(r) \/ VerifySession(r)
  \/ \E v \in Vouchers : Manage(v)
  \/ Tick

Spec == Init /\ [][Next]_vvars

-----------------------------------------------------------------------------
(* Properties. *)

\* Requests about to register a device of v.
Inserting(v) == {r \in Requests : vreq[r].pc = "insert" /\ vreq[r].voucher = v}

\* The count and the INSERT are two transactions, so max_devices can be passed,
\* but only by requests served at the same instant and by no more than their
\* number less one; while requests are served one by one it is exact.
OvershootIsBounded ==
  \A v \in Vouchers :
    vouchers[v] # None =>
      Cardinality(Devices(v)) + Cardinality(Inserting(v))
        <= vouchers[v].max_devices + Cardinality(Requests) - 1

\* A voucher is marked expired only once it has run out: the mark is written by
\* id after the voucher was read, and the voucher may have been revoked since.
ExpiredAfterValidity ==
  \A v \in Vouchers :
    vouchers[v] # None /\ vouchers[v].status = "expired" => clock > vouchers[v].valid_until

\* Nobody enters through the voucher branch after the end of the voucher: a
\* request that goes on to register a device or to open a session read the
\* voucher before it ran out, and not after it was revoked - although it looks
\* at the voucher once and the admin may revoke it at any step.
InFlightWasValid ==
  \A r \in Requests :
    vreq[r].pc \notin {"idle", "expire"} =>
      LET row == vouchers[vreq[r].voucher]
      IN /\ row # None
         /\ vreq[r].at <= row.valid_until
         /\ row.revoked_at # None => vreq[r].at <= row.revoked_at

=============================================================================
