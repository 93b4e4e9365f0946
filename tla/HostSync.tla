------------------------------ MODULE HostSync ------------------------------
(***************************************************************************)
(* The MikroTik sync worker: pass after pass it asks the router for its    *)
(* DHCP leases and writes the devices' names to the sessions (integrations *)
(* /mikrotik/api.py, workers/mikrotik_sync_worker.py).  A pass reads the   *)
(* settings one by one, asks the router, reads the sessions and writes     *)
(* them by id; each of these may fail, and the worker may be killed.       *)
(*                                                                         *)
(* The router is external.  A lease gives an address to a device; the name *)
(* of a device is the device itself, but some send none.  Two settings,    *)
(* good or not, stand for the four.                                        *)
(***************************************************************************)
EXTENDS Integers, FiniteSets

CONSTANTS Devices,  \* devices of guests, by their MAC address
          Named,    \* those that send a host name
          Ips,      \* addresses
          Rows,     \* rows of guest_sessions
          MaxFails, \* bound: passes that fail
          None      \* SQL NULL, no lease, no name

Settings == {"host", "password"}

\* What the constants must be.
HostSyncAssumption ==
  Named \subseteq Devices /\ None \notin Devices \cup Ips /\ MaxFails \in Nat

VARIABLES
  good,    \* the settings that are as the router wants them
  leases,  \* leases[i]: the device that holds address i, or None
  hosts,   \* hosts[r]: what the sync reads and writes of session r
  sync,    \* the pass of the worker
  fails    \* passes that have failed so far

hvars == <<good, leases, hosts, sync, fails>>

\* listed: among the 1000 newest of the sessions that are active or not a day old.
Host == [ip : Ips \cup {None}, mac : Devices, name : Named \cup {None}, listed : BOOLEAN]

\* ips and macs are the names found in the leases, rows what was read of the
\* sessions.
Sync == [pc : {"idle", "password", "fetch", "select", "write"}, read : SUBSET Settings,
         ips : [Ips -> Named \cup {None}], macs : SUBSET Named,
         rows : [Rows -> Named \cup {None}]]

NoSync == [pc |-> "idle", read |-> {}, ips |-> [i \in Ips |-> None], macs |-> {},
           rows |-> [r \in Rows |-> None]]

TypeOK ==
  /\ good \in SUBSET Settings
  /\ leases \in [Ips -> Devices \cup {None}]
  /\ hosts \in [Rows -> Host]
  /\ sync \in Sync
  /\ fails \in 0 .. MaxFails

Init ==
  /\ good = {} /\ leases = [i \in Ips |-> None]
  /\ hosts \in [Rows -> [ip : {None}, mac : Devices, name : {None}, listed : {TRUE}]]
  /\ sync = NoSync /\ fails = 0

-----------------------------------------------------------------------------
(* A pass. *)

\* get_mt_config: a SELECT for the host ...
ReadHost ==
  /\ sync.pc = "idle"
  /\ sync' = [sync EXCEPT !.pc = "password", !.read = good \cap {"host"}]
  /\ UNCHANGED <<good, leases, hosts, fails>>

\* ... and one for the password.
ReadPassword ==
  /\ sync.pc = "password"
  /\ sync' = [sync EXCEPT !.pc = "fetch", !.read = @ \cup (good \cap {"password"})]
  /\ UNCHANGED <<good, leases, hosts, fails>>

\* fetch_dhcp_leases and the two tables of names, with what was read.
Fetch ==
  /\ sync.pc = "fetch" /\ sync.read = Settings
  /\ sync' = [sync EXCEPT !.pc = "select",
                          !.ips = [i \in Ips |-> IF leases[i] \in Named THEN leases[i] ELSE None],
                          !.macs = {leases[i] : i \in Ips} \cap Named]
  /\ UNCHANGED <<good, leases, hosts, fails>>

\* The router refuses other settings.
Refused ==
  /\ sync.pc = "fetch" /\ sync.read # Settings
  /\ sync' = NoSync
  /\ UNCHANGED <<good, leases, hosts, fails>>

\* The name for a session: that of the address comes before that of the device.
NameOf(host) ==
  IF host.ip # None /\ sync.ips[host.ip] # None THEN sync.ips[host.ip]
  ELSE IF host.mac \in sync.macs THEN host.mac ELSE None

\* Mutant: sessions that have a name are left out.
SelectUnnamed ==
  /\ sync.pc = "select"
  /\ sync' = [sync EXCEPT !.pc = "write",
                          !.rows = [r \in Rows |-> IF hosts[r].listed /\ hosts[r].name = None
                                                   THEN NameOf(hosts[r]) ELSE None]]
  /\ UNCHANGED <<good, leases, hosts, fails>>

\* The sessions are read ...
Select ==
  /\ sync.pc = "select"
  /\ sync' = [sync EXCEPT !.pc = "write",
                          !.rows = [r \in Rows |-> IF hosts[r].listed THEN NameOf(hosts[r])
                                                                      ELSE None]]
  /\ UNCHANGED <<good, leases, hosts, fails>>

\* ... and the names written by id, in one transaction.
WriteNames ==
  /\ sync.pc = "write"
  /\ hosts' = [r \in Rows |-> IF sync.rows[r] # None
                              THEN [hosts[r] EXCEPT !.name = sync.rows[r]] ELSE hosts[r]]
  /\ sync' = NoSync
  /\ UNCHANGED <<good, leases, fails>>

\* The router does not answer, the database is locked, or the worker is
\* killed and started again: the next pass is a new one.
Fail ==
  /\ sync.pc # "idle" /\ fails < MaxFails
  /\ sync' = NoSync
  /\ fails' = fails + 1
  /\ UNCHANGED <<good, leases, hosts>>

-----------------------------------------------------------------------------
(* Meanwhile. *)

\* The settings form writes one setting after the other.
SetSetting(s) ==
  /\ good' = IF s \in good THEN good \ {s} ELSE good \cup {s}
  /\ UNCHANGED <<leases, hosts, sync, fails>>

\* The router gives an address, or takes it back.
Lease(i, d) ==
  /\ leases' = [leases EXCEPT ![i] = d]
  /\ UNCHANGED <<good, hosts, sync, fails>>

\* An Interim-Update of the session with an address.
Move(r, i) ==
  /\ hosts[r].listed
  /\ hosts' = [hosts EXCEPT ![r].ip = i]
  /\ UNCHANGED <<good, leases, sync, fails>>

\* The session ends and a day goes by, or a thousand newer ones come; it is opened
\* again.
Unlist(r) ==
  /\ hosts' = [hosts EXCEPT ![r].listed = ~ @]
  /\ UNCHANGED <<good, leases, sync, fails>>

PassStep == ReadHost \/ ReadPassword \/ Fetch \/ Refused \/ Select \/ WriteNames

Next ==
  \/ PassStep \/ Fail
  \/ \E s \in Settings : SetSetting(s)
  \/ \E i \in Ips, d \in Devices \cup {None} : Lease(i, d)
  \/ \E r \in Rows : Unlist(r) \/ \E i \in Ips : Move(r, i)

Spec == Init /\ [][Next]_hvars

-----------------------------------------------------------------------------
(* Properties. *)

\* The worker could name the session after the device that is behind it.
Reachable(r) ==
  LET h == hosts[r]
  IN good = Settings /\ h.listed /\ h.ip # None /\ h.mac \in Named /\ leases[h.ip] = h.mac

\* A session whose device keeps its lease comes to bear the name of the device and
\* keeps it, whatever stale leases and sessions, addresses that changed hands and
\* failed passes have left there.
NamesComeRight == \A r \in Rows : <>[] Reachable(r) => <>[] (hosts[r].name = hosts[r].mac)

=============================================================================
