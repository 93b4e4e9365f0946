------------------------------ MODULE Sessions ------------------------------
(***************************************************************************)
(* The sessions of devices: the table guest_sessions and everything that   *)
(* writes it.  /radius-check opens or reopens a session before it answers  *)
(* accept (app.py, auth.py, vouchers.py); /radius-accounting follows what  *)
(* the NAS reports (save_radius_accounting); the cleanup worker closes the *)
(* sessions nobody has heard of for six hours (cleanup_stale_sessions).    *)
(*                                                                         *)
(* The steps are those of module PhoneAuth: one per SELECT and one per     *)
(* write transaction.  save_radius_accounting is one step: its first       *)
(* statement writes, so the whole function is one transaction.             *)
(*                                                                         *)
(* The NAS is modelled from what the code receives of it.  It numbers its  *)
(* sessions, reports Start, Interim-Update and Stop with the time of the   *)
(* event, and the reports travel over UDP and an HTTP forwarder: each may  *)
(* be lost, delayed, repeated or overtaken by another.                     *)
(***************************************************************************)
EXTENDS Tables, FiniteSets

CONSTANTS Phones,        \* phone numbers with an active guest row
          Rooms,         \* "room:number|surname", with a guest row
          Vouchers,      \* "voucher:CODE", with a guest row
          Macs,          \* devices
          Accts,         \* Acct-Session-Id values of the NAS
          Requests,      \* slots for /radius-check requests served at once
          DeviceLimit,   \* DEVICE_LIMIT
          InterimGap,    \* 120 seconds
          ReopenWindow,  \* 60 minutes
          StaleAfter,    \* 6 hours
          ReauthWindow,  \* auth.reauth_days
          MaxNow,        \* bound: the clock stops here
          MaxSessions,   \* bound: rows of guest_sessions
          None           \* SQL NULL, and the absent row

ASSUME SessionsAssumption ==
  /\ DeviceLimit \in Nat /\ MaxNow \in Nat /\ MaxSessions \in Nat
  /\ InterimGap \in Nat /\ ReopenWindow \in Nat /\ StaleAfter \in Nat /\ ReauthWindow \in Nat
  /\ None \notin Int
  /\ None \notin Phones \cup Rooms \cup Vouchers /\ None \notin Macs /\ None \notin Accts
  \* 11 digits, "room:...", "voucher:...", six pairs of hex digits
  /\ Rooms \cap (Phones \cup Vouchers) = {} /\ Phones \cap Vouchers = {}
  /\ (Phones \cup Rooms \cup Vouchers) \cap Macs = {}
  /\ \A x \in Rooms : [typed |-> x] \notin Phones \cup Rooms \cup Vouchers

VARIABLES
  clock,           \* now()
  guest_sessions,  \* the table
  req,             \* req[r]: the /radius-check served in slot r
  cleanup,         \* the sessions cleanup_stale_sessions is about to close
  granted,         \* history: the guests given a session in their own name, with the device
  accepted,        \* the accept replies given so far
  nas              \* nas[a]: what the NAS knows of its session a, or None

vars == <<clock, guest_sessions, req, cleanup, granted, accepted, nas>>

Time == 0 .. MaxNow

\* guests.phone: who a guest is.
Identity == Phones \cup Rooms \cup Vouchers

\* User-Name as typed: the phone number or the voucher itself, the MAC for MAC
\* authentication, for a room "number|surname", which is not its identity.
Typed(x) == IF x \in Rooms THEN [typed |-> x] ELSE x

UserName == {Typed(x) : x \in Identity} \cup Macs

Session == [guest_id        : Identity \cup {None},
            phone           : Identity \cup UserName,
            mac             : Macs,
            acct_session_id : Accts \cup {None},
            last_seen_at    : Time,
            ended_at        : Time \cup {None},
            status          : {"active", "closed"}]

\* who is the identity the request is served for, row the session it has read.
Request == [pc   : {"idle", "mac_open", "count", "update", "start", "reply"},
            who  : Identity \cup {None},
            user : UserName \cup {None},
            mac  : Macs \cup {None},
            row  : Nat]

Idle == [pc |-> "idle", who |-> None, user |-> None, mac |-> None, row |-> 0]

Accept == [who : Identity, user : UserName, mac : Macs]

NasSession == [user : UserName, mac : Macs, start : Time, stop : Time \cup {None}]

ASSUME NoSessionAssumption == None \notin NasSession

TypeOK ==
  /\ clock \in Time
  /\ guest_sessions \in Seq(Session)
  /\ req \in [Requests -> Request]
  /\ cleanup \in SUBSET (Nat \X Time)
  /\ granted \in SUBSET (Identity \X Macs) /\ accepted \in SUBSET Accept
  /\ nas \in [Accts -> NasSession \cup {None}]

Init ==
  /\ clock = 0
  /\ guest_sessions = << >>
  /\ req = [r \in Requests |-> Idle]
  /\ cleanup = {}
  /\ granted = {} /\ accepted = {}
  /\ nas = [a \in Accts |-> None]

-----------------------------------------------------------------------------
(* The queries. *)

Active(i) == guest_sessions[i].status = "active"

\* status = 'active' AND ended_at IS NULL
Open(i) == Active(i) /\ guest_sessions[i].ended_at = None

SessionIds == Ids(guest_sessions)

\* One criterion of an ORDER BY: the rows that satisfy it come first.
Prefer(ids, Best(_)) ==
  IF \E i \in ids : Best(i) THEN {i \in ids : Best(i)} ELSE ids

\* ORDER BY last_seen_at DESC, id DESC LIMIT 1
LatestSeen(ids) ==
  Newest({i \in ids : \A j \in ids :
            guest_sessions[j].last_seen_at <= guest_sessions[i].last_seen_at})

\* get_open_session: sessions of the device, of any guest, active or closed
\* within the hour.
OpenSessions(m) ==
  {i \in SessionIds :
     /\ guest_sessions[i].mac = m
     /\ \/ Active(i)
        \/ /\ guest_sessions[i].ended_at # None
           /\ clock - guest_sessions[i].ended_at <= ReopenWindow}

\* ... active first, then those of the phone, then the one last seen.
OpenSession(who, m) ==
  LET OfPhone(i) == guest_sessions[i].phone = who
  IN LatestSeen(Prefer(Prefer(OpenSessions(m), Active), OfPhone))

\* active_sessions_count: distinct devices active under the phone.
ActiveDevices(p) ==
  {guest_sessions[i].mac : i \in {j \in SessionIds : Active(j) /\ guest_sessions[j].phone = p}}

\* Mutant: the query forgets the device.
RecentSessionsOfAnyDevice(m) ==
  {i \in SessionIds :
     /\ guest_sessions[i].guest_id # None
     /\ clock - guest_sessions[i].last_seen_at <= ReauthWindow}

\* get_recent_authorized_session_by_mac
RecentSessions(m) ==
  {i \in SessionIds :
     /\ guest_sessions[i].mac = m
     /\ guest_sessions[i].guest_id # None
     /\ clock - guest_sessions[i].last_seen_at <= ReauthWindow}

-----------------------------------------------------------------------------
(* /radius-check. *)

Begin(r, pc, who, user, m, i) ==
  req' = [req EXCEPT ![r] = [pc |-> pc, who |-> who, user |-> user, mac |-> m, row |-> i]]

\* The phone branch, from get_open_session on: the guest is active and has been
\* touched (PhoneAuth).
PhoneCheck(r, p, m) ==
  /\ req[r].pc = "idle"
  /\ IF OpenSessions(m) # {}
     THEN Begin(r, "update", p, Typed(p), m, OpenSession(p, m))
     ELSE Begin(r, "count", p, Typed(p), m, 0)
  /\ UNCHANGED <<clock, guest_sessions, cleanup, granted, accepted, nas>>

\* The limit is looked up only for a device without an open session.
CountDevices(r) ==
  /\ req[r].pc = "count"
  /\ IF Cardinality(ActiveDevices(req[r].who)) >= DeviceLimit
     THEN req' = [req EXCEPT ![r] = Idle]  \* device_limit
     ELSE req' = [req EXCEPT ![r].pc = "start"]
  /\ UNCHANGED <<clock, guest_sessions, cleanup, granted, accepted, nas>>

\* The room branch and verify_voucher_radius, from get_open_session on.
RoomCheck(r, x, m) ==
  /\ req[r].pc = "idle"
  /\ IF OpenSessions(m) # {}
     THEN Begin(r, "update", x, Typed(x), m, OpenSession(x, m))
     ELSE Begin(r, "start", x, Typed(x), m, 0)
  /\ UNCHANGED <<clock, guest_sessions, cleanup, granted, accepted, nas>>

\* The MAC branch: the device of a session seen within the window is admitted
\* as the guest of that session.
MacCheck(r, m) ==
  /\ req[r].pc = "idle"
  /\ RecentSessions(m) # {}
  /\ Begin(r, "mac_open", guest_sessions[LatestSeen(RecentSessions(m))].guest_id, m, m, 0)
  /\ UNCHANGED <<clock, guest_sessions, cleanup, granted, accepted, nas>>

MacOpen(r) ==
  /\ req[r].pc = "mac_open"
  /\ req' = IF OpenSessions(req[r].mac) # {}
            THEN [req EXCEPT ![r].pc = "update",
                             ![r].row = OpenSession(req[r].who, req[r].mac)]
            ELSE [req EXCEPT ![r].pc = "start"]
  /\ UNCHANGED <<clock, guest_sessions, cleanup, granted, accepted, nas>>

\* The session is committed; the reply is still to come.
Granted(r) ==
  /\ granted' = IF req[r].user = Typed(req[r].who)
                THEN granted \cup {<<req[r].who, req[r].mac>>} ELSE granted
  /\ req' = [req EXCEPT ![r].pc = "reply", ![r].row = 0]
  /\ UNCHANGED <<clock, cleanup, accepted, nas>>

\* Mutant: ended_at is not reset.
UpdateSessionStillEnded(r) ==
  LET Seen(row) == [row EXCEPT !.last_seen_at = clock, !.status = "active"]
  IN /\ req[r].pc = "update"
     /\ guest_sessions' = UpdateWhere(guest_sessions, {req[r].row}, Seen)
     /\ Granted(r)

\* update_session, by id: the session is active again, whatever became of it
\* since it was read; its guest and its phone stay.
UpdateSession(r) ==
  LET Seen(row) == [row EXCEPT !.last_seen_at = clock, !.status = "active", !.ended_at = None]
  IN /\ req[r].pc = "update"
     /\ guest_sessions' = UpdateWhere(guest_sessions, {req[r].row}, Seen)
     /\ Granted(r)

\* start_session: one transaction closes what is open on the device and inserts
\* the new session.
StartSession(r) ==
  LET Closed(row) == [row EXCEPT !.status = "closed", !.ended_at = row.last_seen_at]
      dups == {i \in SessionIds : guest_sessions[i].mac = req[r].mac /\ Open(i)}
  IN /\ req[r].pc = "start"
     /\ Len(guest_sessions) < MaxSessions
     /\ guest_sessions' = Append(UpdateWhere(guest_sessions, dups, Closed),
                                 [guest_id |-> req[r].who, phone |-> req[r].who,
                                  mac |-> req[r].mac, acct_session_id |-> None,
                                  last_seen_at |-> clock, ended_at |-> None,
                                  status |-> "active"])
     /\ Granted(r)

\* The accept reply, after transactions that write what is not modelled here:
\* the method of the session, the time of the guest (PhoneAuth), the audit.  A
\* Stop, the worker or a kill may come in between.
ReplyAccept(r) ==
  /\ req[r].pc = "reply"
  /\ accepted' = accepted \cup {[who |-> req[r].who, user |-> req[r].user, mac |-> req[r].mac]}
  /\ req' = [req EXCEPT ![r] = Idle]
  /\ UNCHANGED <<clock, guest_sessions, cleanup, granted, nas>>

-----------------------------------------------------------------------------
(* /radius-accounting.  ev is the report: acct, user, mac and the event time. *)

\* Mutant: a closed session is not looked up by its number.
StartTargetAmongOpen(table, ev) ==
  LET onMac  == {i \in Ids(table) : /\ table[i].mac = ev.mac
                                    /\ table[i].status = "active" /\ table[i].ended_at = None}
      byAcct == {i \in onMac : table[i].acct_session_id = ev.acct}
  IN CASE byAcct # {} -> {Newest(byAcct)}
       [] byAcct = {} /\ onMac # {} -> {Newest(onMac)}
       [] OTHER -> {}

\* The session a Start is about: by its number, whatever the status, else the
\* open one of the user on the device, else the open one on the device.
StartTarget(table, ev) ==
  LET byAcct == {i \in Ids(table) : table[i].acct_session_id = ev.acct}
      onMac  == {i \in Ids(table) : /\ table[i].mac = ev.mac
                                    /\ table[i].status = "active" /\ table[i].ended_at = None}
      byUser == {i \in onMac : table[i].phone = ev.user}
  IN CASE byAcct # {} -> {Newest(byAcct)}
       [] byAcct = {} /\ byUser # {} -> {Newest(byUser)}
       [] byAcct = {} /\ byUser = {} /\ onMac # {} -> {Newest(onMac)}
       [] OTHER -> {}

\* SELECT id FROM guests WHERE phone = the user name
GuestOf(user) == IF user \in Identity THEN user ELSE None

\* Mutant: the guest of the user name is written into the row that matched, too.
AfterStartOfGuest(table, ev) ==
  LET Started(row) == [row EXCEPT !.guest_id = GuestOf(ev.user), !.phone = ev.user, !.mac = ev.mac,
                                  !.acct_session_id = ev.acct, !.last_seen_at = ev.at,
                                  !.status = "active", !.ended_at = None]
      target == StartTarget(table, ev)
  IN IF target # {}
     THEN UpdateWhere(table, target, Started)
     ELSE Append(table, [guest_id |-> GuestOf(ev.user), phone |-> ev.user, mac |-> ev.mac,
                         acct_session_id |-> ev.acct,
                         last_seen_at |-> ev.at, ended_at |-> None, status |-> "active"])

AfterStart(table, ev) ==
  LET Started(row) == [row EXCEPT !.phone = ev.user, !.mac = ev.mac,
                                  !.acct_session_id = ev.acct, !.last_seen_at = ev.at,
                                  !.status = "active", !.ended_at = None]
      target == StartTarget(table, ev)
  IN IF target # {}
     THEN UpdateWhere(table, target, Started)
     ELSE Append(table, [guest_id |-> GuestOf(ev.user), phone |-> ev.user, mac |-> ev.mac,
                         acct_session_id |-> ev.acct,
                         last_seen_at |-> ev.at, ended_at |-> None, status |-> "active"])

\* An Interim-Update refreshes an open session at most once per InterimGap, and
\* never reopens one.
AfterInterim(table, ev) ==
  LET Seen(row) == [row EXCEPT !.last_seen_at = ev.at]
  IN UpdateWhere(table,
                 {i \in Ids(table) : /\ table[i].acct_session_id = ev.acct
                                     /\ table[i].status = "active" /\ table[i].ended_at = None
                                     /\ table[i].last_seen_at + InterimGap <= ev.at},
                 Seen)

\* Mutant: a status of its own for the sessions the NAS ended.
AfterStopStopped(table, ev) ==
  LET Stopped(row) == [row EXCEPT !.status = "stopped", !.ended_at = ev.at, !.last_seen_at = ev.at]
  IN UpdateWhere(table, {i \in Ids(table) : /\ table[i].acct_session_id = ev.acct
                                            /\ table[i].status = "active"}, Stopped)

\* A Stop closes the active session of that number; when there is none, every
\* active session on the device.
AfterStop(table, ev) ==
  LET Stopped(row) == [row EXCEPT !.status = "closed", !.ended_at = ev.at, !.last_seen_at = ev.at]
      byAcct == {i \in Ids(table) : /\ table[i].acct_session_id = ev.acct
                                    /\ table[i].status = "active"}
      onMac  == {i \in Ids(table) : table[i].mac = ev.mac /\ table[i].status = "active"}
  IN UpdateWhere(table, IF byAcct # {} THEN byAcct ELSE onMac, Stopped)

\* The reports of session a that the NAS has sent by now.
Report(a, t) == [acct |-> a, user |-> nas[a].user, mac |-> nas[a].mac, at |-> t]

StartReports(a) == IF nas[a] = None THEN {} ELSE {Report(a, nas[a].start)}

InterimReports(a) ==
  IF nas[a] = None THEN {}
  ELSE {Report(a, t) : t \in nas[a].start .. (IF nas[a].stop = None THEN clock ELSE nas[a].stop)}

StopReports(a) ==
  IF nas[a] = None \/ nas[a].stop = None THEN {} ELSE {Report(a, nas[a].stop)}

\* Any report ever sent may arrive now, for the first time or again.
AccountingStart(ev) ==
  /\ Len(AfterStart(guest_sessions, ev)) <= MaxSessions
  /\ guest_sessions' = AfterStart(guest_sessions, ev)
  /\ UNCHANGED <<clock, req, cleanup, granted, accepted, nas>>

AccountingInterim(ev) ==
  /\ guest_sessions' = AfterInterim(guest_sessions, ev)
  /\ UNCHANGED <<clock, req, cleanup, granted, accepted, nas>>

AccountingStop(ev) ==
  /\ guest_sessions' = AfterStop(guest_sessions, ev)
  /\ UNCHANGED <<clock, req, cleanup, granted, accepted, nas>>

-----------------------------------------------------------------------------
(* The cleanup worker. *)

\* Mutant: the worker takes the sessions without a number only.
CleanupReadUnnumbered ==
  /\ cleanup = {}
  /\ cleanup' = {<<i, guest_sessions[i].last_seen_at>> :
                   i \in {j \in SessionIds :
                            /\ Open(j) /\ guest_sessions[j].acct_session_id = None
                            /\ clock - guest_sessions[j].last_seen_at > StaleAfter}}
  /\ UNCHANGED <<clock, guest_sessions, req, granted, accepted, nas>>

\* cleanup_stale_sessions reads the open sessions and keeps those it found
\* stale, with the time each was last seen.
CleanupRead ==
  /\ cleanup = {}
  /\ cleanup' = {<<i, guest_sessions[i].last_seen_at>> :
                   i \in {j \in SessionIds :
                            /\ Open(j)
                            /\ clock - guest_sessions[j].last_seen_at > StaleAfter}}
  /\ UNCHANGED <<clock, guest_sessions, req, granted, accepted, nas>>

\* ... and closes them by id, as of the time it read.
CleanupClose ==
  /\ cleanup # {}
  /\ guest_sessions' = [i \in SessionIds |->
                          IF \E t \in Time : <<i, t>> \in cleanup
                          THEN [guest_sessions[i] EXCEPT
                                  !.status = "closed",
                                  !.ended_at = CHOOSE t \in Time : <<i, t>> \in cleanup]
                          ELSE guest_sessions[i]]
  /\ cleanup' = {}
  /\ UNCHANGED <<clock, req, granted, accepted, nas>>

-----------------------------------------------------------------------------
(* The environment. *)

Tick ==
  /\ clock < MaxNow
  /\ clock' = clock + 1
  /\ UNCHANGED <<guest_sessions, req, cleanup, granted, accepted, nas>>

\* An accepted device goes online; one session per device at a time.
NasStart(a) ==
  /\ nas[a] = None
  /\ \E ok \in accepted :
       /\ \A b \in Accts : nas[b] # None /\ nas[b].mac = ok.mac => nas[b].stop # None
       /\ nas' = [nas EXCEPT ![a] = [user |-> ok.user, mac |-> ok.mac,
                                     start |-> clock, stop |-> None]]
  /\ UNCHANGED <<clock, guest_sessions, req, cleanup, granted, accepted>>

NasStop(a) ==
  /\ nas[a] # None /\ nas[a].stop = None
  /\ nas' = [nas EXCEPT ![a].stop = clock]
  /\ UNCHANGED <<clock, guest_sessions, req, cleanup, granted, accepted>>

\* A server process or the cleanup worker is killed between two steps.
CrashRequest(r) ==
  /\ req[r].pc # "idle"
  /\ req' = [req EXCEPT ![r] = Idle]
  /\ UNCHANGED <<clock, guest_sessions, cleanup, granted, accepted, nas>>

CrashCleanup ==
  /\ cleanup # {}
  /\ cleanup' = {}
  /\ UNCHANGED <<clock, guest_sessions, req, granted, accepted, nas>>

Check(r) ==
  \/ \E m \in Macs : \/ MacCheck(r, m)
                     \/ \E p \in Phones : PhoneCheck(r, p, m)
                     \/ \E x \in Rooms \cup Vouchers : RoomCheck(r, x, m)
  \/ CountDevices(r) \/ MacOpen(r) \/ UpdateSession(r) \/ StartSession(r)
  \/ ReplyAccept(r) \/ CrashRequest(r)

Accounting(a) ==
  \/ \E ev \in StartReports(a) : AccountingStart(ev)
  \/ \E ev \in InterimReports(a) : AccountingInterim(ev)
  \/ \E ev \in StopReports(a) : AccountingStop(ev)

Next ==
  \/ \E r \in Requests : Check(r)
  \/ \E a \in Accts : Accounting(a) \/ NasStart(a) \/ NasStop(a)
  \/ CleanupRead \/ CleanupClose \/ CrashCleanup
  \/ Tick

Spec == Init /\ [][Next]_vars

\* The worker loops for ever and systemd restarts it when it dies; that it is
\* not killed for ever between its read and its write is strong fairness.
\* Requests, reports and the NAS owe nothing.
Fairness == WF_vars(CleanupRead) /\ SF_vars(CleanupClose) /\ WF_vars(Tick)

FairSpec == Spec /\ Fairness

-----------------------------------------------------------------------------
(* Properties. *)

\* status and ended_at agree.  Six statements write them and the queries lean
\* on either or on both: a row active with an end would be counted against the
\* device limit and closed by nobody.
ActiveIffNotEnded == \A i \in SessionIds : Active(i) <=> guest_sessions[i].ended_at = None

\* No two rows carry the same session of the NAS, however often and late its
\* Start is reported.
AcctIdsAreUnique ==
  \A i, j \in SessionIds :
    /\ guest_sessions[i].acct_session_id # None
    /\ guest_sessions[i].acct_session_id = guest_sessions[j].acct_session_id
    => i = j

\* The guest a row belongs to has had a session under its own name on the row's
\* own device: the MAC branch, which asks nothing and admits a device as the
\* guest of its last session, never mistakes the guest, although Start reports
\* rewrite the phone, the number and the device of rows.
GuestWasAdmittedOnDevice ==
  \A i \in SessionIds :
    guest_sessions[i].guest_id # None =>
      <<guest_sessions[i].guest_id, guest_sessions[i].mac>> \in granted

\* No device is told "accept" that the portal could not name a guest of, then or
\* ever after.  The session is committed some transactions before the reply, a
\* Stop, a Start, the worker or a kill may come in between, and a Start may take
\* the row over or insert one without a guest (a room or a device as user name).
AcceptedDeviceIsKnown ==
  \A ok \in accepted :
    \E i \in SessionIds : guest_sessions[i].mac = ok.mac /\ guest_sessions[i].guest_id # None

\* A phone has at most DEVICE_LIMIT devices active at a time ("Device limit per
\* phone", setup.sh:479).
WithinDeviceLimit == \A p \in Phones : Cardinality(ActiveDevices(p)) <= DeviceLimit

Stale(i) == i \in SessionIds /\ Open(i) /\ clock - guest_sessions[i].last_seen_at > StaleAfter

\* A session nobody hears of any more is closed: the device does not count
\* against the limit for ever.
StaleSessionIsClosed == \A i \in 1 .. MaxSessions : Stale(i) ~> ~Stale(i)

=============================================================================
