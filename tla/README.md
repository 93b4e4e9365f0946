# Hotspot Captive Portal in TLA+

A hotel's guest Wi-Fi portal admits devices on the strength of a phone call, a
room number and surname, or a voucher.  This directory models its server: the
FastAPI application (`app.py` and the modules it calls), the cleanup worker and
the export process, which share one SQLite database.  TLC checks the models on
small instances, TLAPS proves the main results for every value of the constants.

## 1. The system

All processes open the same SQLite file (WAL, busy timeout 30 s, `db.py:7-24`).
`uvicorn` runs four worker processes (`deploy/hotspot-captive-portal.service`),
and FastAPI serves the plain `def` handlers in a pool of threads: any two
requests may interleave.  `sqlite3`'s default isolation makes every SELECT a
transaction of its own; the first INSERT, UPDATE or DELETE opens one that ends at
`commit()`.  **A step of the models is therefore one SELECT or one write
transaction**, and everything the code keeps in local variables between two of
them is state of the request.

| Component | State | Operations | Talks to |
|---|---|---|---|
| Phone confirmation | `guests`, `pending_auth`, `call_events` | phone branch of `/radius-check`, `/pbx-call`, `/auth-status`, `cleanup_db` | PBX, portal page, worker |
| Sessions, accounting | `guest_sessions`, `radius_accounting` | MAC branch, session part of every branch, `/radius-accounting` (Start, Interim-Update, Stop), `cleanup_stale_sessions` | NAS through FreeRADIUS and a forwarder |
| Vouchers | `vouchers`, `voucher_devices`, `voucher_guests` | voucher branch, create, revoke, remove device | sessions, admin pages |
| Room and surname (PMS) | `room_auth`, PMS stores, `networks` | room branch, lookup in 1C or Opera | sessions |
| Exports | `export_jobs`, files in `export_jobs/` | request, `run_export_job.py`, download, `cleanup_export_job_files` | worker, admin pages |
| Cleanup worker | `*.last_run` settings | four passes every 60 s | all tables above |
| Retention | all history tables | batched deletes, terminate-cause rewriting | worker |
| Admin accounts | `admin_users`, `admin_login_attempts`, signed cookies | login with lockout, add, toggle, delete, password | every admin page |
| Settings, networks, PMS objects | `app_settings`, `network_map`, store tables | forms of the admin pages, defaults at start-up | PMS branch, worker |
| MikroTik sync | device names in `guest_sessions` | worker that asks the router for leases and writes names by id | router, admin pages |
| Start of the service | columns and first rows of the tables, terminate causes | `startup()` of every worker process | sessions |
| API guards | none | IP allow-lists and keys of one request | |
| Pages, labels, system information | none | HTML, wording, read-only reports | |
| Installer, backup, smoke test | `.env`, FreeRADIUS' files, units, backup directories | `setup.sh`, `backup_sqlite.py`, `smoke_check.py` | portal, FreeRADIUS |

### What is hard about it, and what makes each part correct

* **Phone confirmation.** Four places decide that a pending row is overdue and
  write it later by id.  A call is answered with up to five transactions
  and may be killed between them; two calls, or a call and a check, of one number
  race.  Correct: rows expire only after their deadline, verified rows have a
  guest, a matched call leaves a fresh authorisation, no row waits for ever.
* **Sessions.** The NAS's reports travel over UDP and a forwarder: they are lost,
  repeated, late, out of order.  A Start rewrites rows it matched by number, by
  user and device, or by device alone.  Sessions are reopened by id after having
  been closed by somebody else.  Correct: status and end agree, one row per NAS
  session, the MAC branch never admits a device as somebody who was not admitted
  on it, an accept is on record, sessions that fall silent are closed.
* **Vouchers.** A request reads the voucher once and acts on it through seven
  transactions while administrators revoke it.  Count and insert of a device are
  separate.  Correct: limits passed only by simultaneous requests and by a bounded
  number, nobody goes on without having read a voucher in force.
* **Exports.** Files and rows are written and removed by different processes in
  separate steps, any of which may be killed or fail.  Correct: what is offered
  is there, what has ended stays ended, rows and temporary files go away.
* **Admin accounts.** The lock state is read before and a failure recorded after the
  password check; window and lock have different lengths; forms name rows by ids and
  check in one transaction what they write in another.  Correct: guesses within the
  window are bounded, a lock ends, an id never comes to mean somebody else, a single
  form does not delete the last superadmin.
* **Room and surname.** The PMS object is read, then a remote system is asked, while
  forms change the object and guests come and go.  Correct: errors never admit, and
  a saved key outlives saves that leave its field empty.
* **Start of the service.** Four processes migrate one database at once and put each
  other out of action.  Correct: who serves finds every column, all come to serve,
  values an administrator saved come through.
* **Installer.** `setup.sh` writes four files line by line or in place, and may die at
  any step or be run again.  Correct: no secret is lost, nothing but the original (or
  what a copy cut off has left of it) is ever kept as the original, "Setup complete"
  means that everything runs on what is on disk, but for a FreeRADIUS skipped with a
  warning.
* **Worker passes and backups.** Batches, failures between a write and its record,
  directories half written or half removed.  Correct: old rows go, names come right, a
  good backup remains.

`PROJECT.json` lists every hazard at its line under `hazards`, with the
properties that cover it or the reason why none does.

## 2. The modules

| Module | Models | Proofs |
|---|---|---|
| `Tables` | what is used of SQLite: ids, `ORDER BY id DESC LIMIT 1`, `UPDATE ... WHERE id IN` | `TablesProofs` |
| `Admission` | abstract: a number is authorised only after it was entered, with the time of the authorisation | |
| `PhoneAuth` | phone branch, calls, status polls, `cleanup_db`, crashes; implements `Admission` | `PhoneAuthProofs` |
| `Sessions` | `guest_sessions` and all its writers, the NAS and its reports | `PortalProofs` |
| `VoucherAuth` | voucher branch and voucher pages up to the hand-over to the session | `VoucherAuthProofs` |
| `Portal` | `Sessions` and `VoucherAuth` composed on one clock | `PortalProofs` |
| `ExportJobs` | exports from the request to the cleanup | `ExportJobsProofs` |
| `AdminAccess` | administrators, login and lock-out, cookies, the users page | `AdminAccessProofs` |
| `Setup` | `setup.sh`: `.env`, services, FreeRADIUS' files, machines that restart | `SetupProofs` |
| `Startup` | `startup()` of several worker processes, terminate causes | `OperationsProofs` |
| `RoomAccess` | PMS objects, the choice of the PMS and its answer, rows of room guests | `OperationsProofs` |
| `Networks` | `network_map` and its forms | `OperationsProofs` |
| `Settings` | `app_settings`: defaults at start-up against the settings page | `OperationsProofs` |
| `Retention` | the retention pass over `guest_sessions` | `OperationsProofs` |
| `Backups` | `backup_sqlite.py` and its rotation | `OperationsProofs` |
| `HostSync` | the MikroTik sync worker | `OperationsProofs` |
| `Operations` | the nine modules above side by side, in ten parts | `OperationsProofs` |
| `MC*` | symmetry sets for TLC | |

How state and actions correspond to the code:

* **PhoneAuth.** `guests[p]` is `last_auth_at` of the row of `p`; `pending_auth`
  the table; `call_events[p]` the set of results recorded for the phone; `req[r]`
  the request in slot `r` with its program counter and the row it read; `cleanup`
  the ids `cleanup_db` has selected.  `RadiusCheck` and `Check*` are the steps of
  the phone branch (`app.py:2358-2582`), `PbxCall` and `Call*` of `/pbx-call`
  (`app.py:2005-2080`), `Status*` of `/auth-status`; `MacTouch` is the one write of
  the MAC branch to these tables.
* **Sessions.** `PhoneCheck`, `RoomCheck` and `MacCheck` look the open session up,
  `CountDevices` is the device limit, `UpdateSession` and `StartSession` are the
  write transactions.  `ReplyAccept` is a step of its own: the branches commit more
  between the session and `accept_reply()` (`app.py:2170-2183`, `2402-2475`,
  `vouchers.py:271-292`), where a Stop, a Start, the worker or a kill can fall.  Two
  history variables keep the two apart: `granted` has the guests given a session in
  their own name, `accepted` the replies.  `AccountingStart/Interim/Stop` are one transaction each,
  because the first statement of `save_radius_accounting` writes; `NasStart` and
  `NasStop` are the NAS (external), which may send any report of a session it has
  started, in any order and any number of times, or never.
* **VoucherAuth.** `VerifyRead` to `VerifyGuestInsert` follow
  `verify_voucher_radius` line by line (`vouchers.py:184-263`);
  `VerifySession` hands the pair over to the sessions.  `Revoke`, `RemoveDevice`
  and `CreateVoucher` are the admin pages.
* **Portal.** A voucher request that is let through takes `V!VerifySession` and
  `RoomCheck` in one step (the SELECT of `get_open_session`) and continues in
  `Sessions`.
* **ExportJobs.** `run[j]` is where the process of export `j` is; `file` and
  `temp` are what lies on disk; `cleaner` is the pass of the worker with its batch;
  `downloads` are the requests between reading the row and opening the file.

* **AdminAccess.** `admin_users[i]` is the row of id `i` (AUTOINCREMENT: a deleted row
  leaves `None`), `admin_login_attempts` the failures with their ages.  `LoginCheck`,
  `LoginRead`, `LoginRecord`, `LoginClear`, `LoginCookie` are the transactions of
  `admin_login` (`app.py:1789-1873`); `PostGuard`, `PostAuthor`, `PostRead`,
  `PostCount`, `PostDelete`, `PostToggle` those of the users page.
* **Setup.** `run` is where `setup.sh` is and its options; each file has what the
  properties tell apart.  `EnvOpen` and `EnvLine` are the redirected block that writes
  `.env`; `ClientsOpen` and `Block`, `SiteOpen` and `Section` are the two rewritings in
  place, before and after the write; `Stop` is `set -e`, `die` or a kill at any step.
  `Save` and `Copy`, `SaveSite` and `CopySite` are the two `cp` of originals, `Move`,
  `Moving` and `Moved` the `mv` of the site's older one (a rename, or a copy and an
  unlink across file systems); between two of them the copy is `"cut"`, and stays so if
  the run dies there.  `Save` is also the return without `apt-get` (`setup.sh:731-734`).
* **Startup.** `worker[w]` walks through `Groups`, what `startup()` looks for, in its
  order; `Look`, `Add` and `Fill` are the SELECT, the ALTER TABLE or INSERT and the
  UPDATE after it; `Rewrite` is `ensure_terminate_cause_columns`.
* **RoomAccess.** `sites[k]` are the tables of Opera and 1C objects; `OperaSite`,
  `OperaStays`, `OneCSite`, `OneCCall` follow `pms_room_auth_allowed`; `stays` is what
  the two hotel systems know (external).
* **Networks**, **Settings**, **Retention**, **Backups**, **HostSync**: one variable
  for the table or directory, one for where each form, worker or run is, with
  what it read; the actions are named after the functions or their transactions.

### Abstractions

* Reading the clock and the statement that uses it are the same instant; the
  clock moves between steps, so a value read earlier does get old.
* Audit and application logs, traffic columns, terminate causes, `auth_method`,
  `started_at` of sessions and HTML are left out.  No property is about them.
* PBX results, PMS answers and passwords are oracles: the step is taken or not.
* The early return of `/auth-status` for a verified phone changes nothing and has
  no action.  `PhoneCheck` starts where the guest is known to be active.
* A report without number or device does not occur: the forwarder always sends
  both.  No row of `guest_sessions` is deleted in `Sessions`: rows that retention
  deletes are closed and 180 days old at least (`services.py:21`), the longest window
  of `Sessions` is the reauthorisation's 30 days at most (`auth.py:9`).
* A voucher typed without dashes is its own identity; with dashes it acts
  like the user name of a room, which `Typed` covers.  A MAC address that
  normalises to a phone number (ten decimal digits) is not modelled.
* The admin pages of vouchers read a row and write it by id; rows are never
  deleted and what the write does does not depend on what was read, so that is one step.
* `PendingTtl = 0` or a lifetime of 0 means that a row is in force in the unit of
  time it was created in and over after the next tick.
* ExportJobs keeps ages instead of dates, up to one past the retention.  The few
  statements after `mark_export_job_done` end before the file is a retention old
  (guard of `Tick`): they wait for the database 30 s at most, files are kept a
  day at least.  The cleanup of exports is enabled, its default.
* AdminAccess: a password is right or wrong for an active user; changing it and
  the CSRF token are no state.  Failures older than `Keep` are those the next look
  deletes.  `AdminAccessAssumption` says that the lock is longer than the window, as
  by default (900 and 600 s).
* Setup: one run at a time; a copy cut off is one value, however much of the original
  it has, an empty file included; whether `apt-get` is there may change from run to run;
  of the keys of `.env` four are told apart, `RADIUS_CLIENTS` and the link of the REST module left out.
  Values of secrets are known by the run they come from.
* Startup: two columns stand for three that are added together, four causes for
  the kinds of causes (known to the rewriting, written by a NAS, written by the server
  only, unknown).
* RoomAccess: `base_url` of a 1C object is part of its key, its name its code.
  Transliteration and comparison of surnames belong to the answer of the PMS.
* Settings: four keys stand for the ten with a default.  Retention: the other
  tables are deleted from in the same way.  HostSync: two settings stand for four; a
  device's name is the device.  Backups: one run at a time and a clock that is not
  set back; the unit that makes backups (`setup.sh:572-582`) is of type oneshot.

## 3. What is checked

`operations` takes three to four minutes with two workers, every other run less than two
or three.

| Run | Config | Question |
|---|---|---|
| `phone_auth` | `MCPhoneAuth.cfg` | two phones, two requests at once, the worker, one crash: safety and refinement of `Admission` |
| `phone_auth_live` | `MCPhoneAuthLive.cfg` | one phone, same concurrency, under fairness: rows are resolved, matched calls admit |
| `sessions` | `MCSessions.cfg` | two devices, two NAS sessions, all reports in all orders |
| `sessions_live` | `MCSessionsLive.cfg` | a room guest and a voucher guest on one device: silent sessions are closed |
| `device_limit` | `MCDeviceLimit.cfg` | finding: the device limit is passed |
| `vouchers` | `MCVoucherAuth.cfg` | two requests, three devices, limits 1 and 2, validities 0 and 1 |
| `portal` | `MCPortal.cfg` | a voucher's sessions, whichever way they came about |
| `revoked_voucher` | `MCRevokedVoucher.cfg` | finding: a disabled voucher goes on logging in |
| `exports` | `MCExportJobs.cfg` | two exports, two faults, batches of one |
| `expired_file` | `MCExpiredFile.cfg` | finding: a row says that its file was removed, and it was not |
| `operations` | `MCOperations.cfg` | the nine modules around the guests, in ten parts |
| `terminate_causes` | `MCTerminateCauses.cfg` | finding: a restart turns causes the server wrote into "unknown" |

`Operations` puts modules side by side that share no state.  Its variable `part`
names the one a behaviour is of, and the variables of the others stay `None` (those of
`Setup`, which it extends, as on a new machine), so it has the
sum of their states and not the product, and each property is about one part (`part
= "..." => ...`; those of `Setup` are its own).  `AdminAccess` is in it twice: with two logins and no form (`lockout`),
and with a form and two users (`users`).

### Bounds, and why they are enough

`MaxNow`, `MaxPending`, `MaxSessions`, `MaxCrashes`, `MaxJobs` and `MaxFaults` bound what would
grow; each is a guard of the action that would exceed it.

* Two request slots are what a race needs: every hazard listed is between two
  handlers, or a handler and the worker.  The session runs use one slot, because
  there the other party is the accounting, the worker or another device coming
  later; the proofs cover any number.
* Two devices and two NAS sessions allow a late report of one session to hit the
  row of another.  Three devices and limits 1 and 2 let a voucher be passed by
  one and be full with two.
* Time: every window is one or two units and the clock goes one past the longest
  chain (create, expire, clean; or close, reopen, stale).  In `exports` the
  interval, the retention and the batch are 1, so two jobs compete for a pass, and
  two faults allow a kill in the process and one in the worker.
* A run that stops at `MaxNow` with an open request cannot hide a violation of
  safety; the liveness runs have a clock long enough for each deadline, and the
  properties do not need it to go on.
* Symmetry is used in safety runs only, over sets that are only compared for
  equality.
* In `operations`: two logins at once and a limit of two failures pass the lock-out by
  one; three runs of the installer are one that dies, one that repeats it and an
  upgrade; two workers and one kill let one add what the other has seen missing; two
  room logins, one form and one object of each kind let an object go while a login
  uses it; two networks and two forms make a twin; six seconds and `--keep` 1 and 2 let
  failed backups push out a good one, if anything did; three sessions and batches
  of one make an old session wait for others; one save and two starting workers are
  the race of the defaults; two devices on one address and one failed pass make a
  stale lease.
* `CHECK_DEADLOCK FALSE` in `operations` and in `terminate_causes`: counters and clocks
  that reach their bounds leave some parts without a step, as a server without
  requests is.

### Fairness

* PhoneAuth: weak fairness of each request's steps (threads are scheduled), of
  the worker's and of time.  Requests begin by choice: nothing obliges a guest.
* Sessions: weak fairness of the worker's SELECT and of time, strong fairness of
  its write.  `workers/cleanup_worker.py:24-31` catches every exception
  and loops, systemd restarts it (`Restart=always`); only a worker killed in every
  single pass would never write.  Nothing is owed by requests or the NAS.
* ExportJobs: weak fairness of each export's process, of the worker's pass as a
  whole and of time.  Kills and failures are bounded by `MaxFaults`, as in a
  system where they are exceptions; downloads owe nothing.
* `operations`: weak fairness of time (`lockout`, `retention`), of each starting worker
  (the operating system runs it, uvicorn and systemd start it again), and of the steps
  of the sync worker's pass (its loop catches every exception,
  `workers/mikrotik_sync_worker.py:28-35`); weak fairness of the retention pass and
  strong fairness of its deletion, which can fail again and again but not for ever.
  Failed passes of the sync and kills of workers are bounded (`MaxFails`, `MaxCrashes`),
  those of the retention are not.  Since `part` never changes, a condition on steps of
  several parts is one on each; they are written together to keep the number of
  fairness conditions small.

### Properties

Each is stated with its comment in the module.  PhoneAuth: `ExpiredAfterDeadline`,
`VerifiedIsBacked`, `CallRenewsGuest`, `ImplementsAdmission`, `PendingIsResolved`,
`MatchedCallAdmits`.  Sessions: `ActiveIffNotEnded`, `AcctIdsAreUnique`,
`GuestWasAdmittedOnDevice`, `AcceptedDeviceIsKnown`, `StaleSessionIsClosed`.
VoucherAuth: `OvershootIsBounded`, `ExpiredAfterValidity`, `InFlightWasValid`.
Portal: `VoucherGuestsWereLetThrough`.  ExportJobs: `DownloadFindsFile`,
`NeverOfferedAgain`, `DoneJobExpires`, `TempIsSwept`.  AdminAccess: `GuessesAreBounded`,
`LockEnds`, `IdsAreForGood`, `LastSuperadminIsNotDeleted`.  Setup: `SecretsAreForGood`,
`OriginalsAreKept`, `CompleteIsInForce`.  Startup: `ServingIsMigrated`, `AllServe`.
RoomAccess: `RoomGuestsStayed`, `KeysAreKept`.  Networks: `TwinsAreBounded`.  Backups:
`GoodBackupRemains`.  Retention: `OldRowsGo`.  Settings: `SavedSurvivesStarts`.  HostSync:
`NamesComeRight`.  The operators whose comment
begins with "Mutant" are mutated forms of an action; each makes the property it is
paired with in `PROJECT.json` fail, which shows that the property depends on the code.

### Findings

1. `device_limit` (code bug): `DEVICE_LIMIT` is enforced only for a device without
   an open session, and a session closed within the hour counts as open; a phone
   gets more devices active than the limit.
2. `revoked_voucher` (code against the admin page's text): the MAC branch lets a
   device in as the guest of its last session and asks nothing of vouchers, so a
   device of a disabled voucher goes on logging in for the reauthorisation window.
3. `expired_file` (code bug): when the unlink of an old export fails, the row is
   marked "export file removed by cleanup" and its path erased; no later pass
   knows of the file.
4. `terminate_causes` (code bug): every start of the service rewrites to `unknown` the
   terminate causes that the table of `db.py:246-266` does not have, among them
   `stale_session_cleanup` and `duplicate_active_cleanup`, which the server itself
   writes (`services.py:882`, `auth.py:241`) and for which `labels.py` has texts.

Some races are kept out of the properties because the code makes no promise about
them: a device may be told "accept" when its session has been closed since (by a Stop
whose number matches nothing, or by the worker), but `AcceptedDeviceIsKnown` holds; a
copy of an original that is cut off (`setup.sh:752`, `826`) is never made again, so the
original is lost with the rewriting that follows, and `OriginalsAreKept` says no more
than that nothing else is taken for it; two forms of the users page at once, or one
toggle, can leave no superadmin; forms at once can make twins of a network (their number is bounded) or bring back an
older key of a PMS object; a worker may put a default over a value saved during
its own start.

## 4. What is proved

TLAPS checks every proof down to its leaves.  The only assumptions are those
named in the modules (`...Assumption`): parameters are natural numbers, `None` is
no value, identities of different kinds differ, the sets of request slots of
`VoucherAuth`, of logins of `AdminAccess`, of forms of `Networks` and of workers are finite,
backups keep one directory at least.  TLC evaluates them in the
runs.  In the modules that `Operations` instantiates they are definitions, which their own
theorems assume (`ASSUME SetupAssumption, ... PROVE`) and `OperationsAssumption` asserts
of the instances: an `ASSUME` of an instantiated module would be evaluated by no run.

* **PhoneAuth.** The properties are not inductive because a request
  writes what it concluded some steps ago.  `IInv` adds `RequestOK` (the row a
  request read is still there and belongs to its phone; a row found overdue stays
  overdue; a guest found stays), the same for the worker's batch, and `GuestsOK`
  (no authorisation from the future).  From it: `TypeCorrect`,
  `ExpiredOnlyAfterDeadline`, `VerifiedRowsAreBacked`, `MatchedCallRenewsGuest`
  and, step by step under the mapping `asked <- Asked, authorised <- guests`,
  `PhoneAuthImplementsAdmission`.
* **Sessions** (in `PortalProofs`). `IInv` relates the table to the sessions granted and
  to what the NAS knows (`TableFits`, `NasOK`): each number in the table was issued to
  the row's device, each guest of a row was given a session on it, and some row of
  each device names a guest (`Known`).  A Start may name a guest by its user name alone,
  so `AcceptedOK` says of each accept whose it was, and `RequestOK` of each reply still to
  come that the guest of its device is known; since no statement changes the guest of a
  row, that stays so through whatever comes in between.  From it: `TypeCorrect`,
  `StatusAndEndAgree`, `OneRowPerAcct`, `MacBranchKnowsTheGuest`, `AcceptedDevicesAreKnown`.
* **VoucherAuth.** `Room(v)` counts devices plus inserting requests, with lemmas on
  the cardinality of finite sets; `RequestOK` and `ValidWhenRead` carry what was
  true when the voucher was read.  From it: `TypeCorrect`, `DevicesAreBounded`,
  `ExpiredMeansOver`, `AdmittedWhileValid`.
* **Portal.** Every step is a step (or a stutter) of `Sessions` and of `VoucherAuth`:
  `SessionsHold`, `VoucherAuthHolds`.  With the session invariant carried over, and
  `NamesLetThrough` (whoever is given a session as a voucher's guest was let through),
  `VoucherGuestsPassedTheBranch`.
* **ExportJobs.** `DownloadFindsFile` needs what the worker read (`BatchOK`: a row of
  the batch stays done, old and without a process) and where the process of an
  export stands (`RunOK`): a failure after the fact makes the row young again, and
  is possible only while the file's days last.  From it: `TypeCorrect`,
  `DownloadsFindTheirFiles`, `EndedIsEnded`.

* **Setup.** `EnvOK` (how far the writing of `.env` is), `OriginalsOK` (the copies are
  copies of the originals, whole or cut off, and there before a file is opened; an older
  copy is removed only when it has been copied) and `ForceOK` (what each
  step of a run has left behind for the next) are needed together: a run that dies
  between two steps must leave what the next run relies on.  From them:
  `TypeCorrect`, `SecretsStay`, `OriginalsStay`, `CompleteWorks`.
* **AdminAccess.** `GuessesAreBounded` is inductive with `TypeOK` and `LoginOK` (a login
  past the lock-out has a user and an address): a login enters while fewer than
  `MaxFailures` failures are recent, so the others number at most one less than the
  slots; recording moves a login from one set to the other; a lock is in force as long
  as its failures count, because `Window < Lock`.  For `LastSuperadminStays`, `DeletionOK`
  says what one form has made sure of when it comes to the DELETE: if its target is a
  superadmin who can log in, there is another, because nobody else lowers their number
  between the count and the deletion.  With lemmas on cardinalities: `TypeCorrect`,
  `GuessesStayBounded`, `IdsStay`, `LastSuperadminStays`.
* **Operations.** A behaviour is one of one part: `PartsBegin` and `PartsStep` give each
  part the `Init` and `[Next]` of its module, so that what a module keeps is proved of its
  instance and carried over once (`...InvHolds`).  The two parts of `AdminAccess` take
  theirs from instances of `AdminAccessProofs` (`LockoutIsProved`, `UsersIsProved` show
  that definitions of both instances agree), the installer from `SetupProofs`
  (`SetupAlone`).  Every safety property of the run is a theorem of `PartSpec`; the others
  need invariants of their own:
  * *Startup*, `WorkerOK`: a worker has what it has passed; of the group it is adding,
    what it had not missed is there.  Columns are never dropped, so neither a
    duplicate column nor a kill takes that away.  `ServingStaysMigrated`.
  * *Networks*, `TwinsOK`: forms that have checked a network and not yet written it,
    plus its rows that none of them is about to move, are at most as many as the forms
    (`Weight`); a check enters only while no row, but the one it is about, has the network;
    a write moves from one summand to the other.  By cardinalities of finite sets: `TwinsStayBounded`.
  * *RoomAccess*, `GuestsOK` (who has been let through by a PMS has stayed, also if he
    has left since) and `SavesOK` (the only form knows whether the object it has found
    has a key, unless the object is gone): `RoomGuestsHaveStayed`, `KeysOutliveSaves`.
  * *Backups*, `NewestOK`: the directory of a run is the newest, and good once checked;
    `--keep` is one at least, so it is never among the stale ones (`RunIsNotStale`), and
    whatever part of an older directory a rotation has taken, it stands in for it.
    `GoodBackupStays`.
  * *Settings*, `StartsOK`: what was there when a start began is there still, and a key
    about to be set was not; `PagesOK`: a form has a key to save.  `SavedSettingsStay`.
  * *Retention* and *HostSync*: types only, for `TypesStay`; what is said of them is
    liveness.

These invariants were checked with TLC on the instance of `operations` before they were
proved.

Only model-checked: the liveness properties (`PendingIsResolved`, `MatchedCallAdmits`,
`StaleSessionIsClosed`, `DoneJobExpires`, `TempIsSwept`, `LockEnds`, `AllServe`, `OldRowsGo`,
`NamesComeRight`: fairness and ENABLED are outside the prover's reach) and the four
findings, which are counterexamples.  Every other property of every passing run is a
theorem.

## 5. What is not modelled

* **API guards**: pure functions of one request and the settings (allow-lists, keys).
* **Pages, labels, system information**: HTML, wording and read-only reports; they
  change no state.  Labels are used where a finding quotes them.
* **Configuration and logging**: constants read once at start-up, and logs.
* **Guest sessions**: reports without number or device, which the forwarder does not
  send; `auth_method` and traffic columns.
* **Admin accounts**: hashing and change of passwords, CSRF tokens.
* **Retention**: the tables other than `guest_sessions`, which one loop treats alike;
  export files are in `ExportJobs`.
* **Installer and tools**: packages, virtual environment, `cleanup.sh`, and of
  `smoke_check.py` all but the secrets: a read-only list of checks.
* **MikroTik**: reading active users and disconnecting one, which write nothing here.

What further work could add: `Retention` composed with `Sessions`; two backups at once,
one of them started by hand; what two forms of the users page at once may leave.
