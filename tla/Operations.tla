------------------------------ MODULE Operations ------------------------------
(***************************************************************************)
(* The parts of the portal that an administrator works with and that share *)
(* no state: a behaviour is one of one part, named by the variable part.   *)
(* The variables of the others stay None, those of Setup, which this       *)
(* module extends, as they are on a new machine.  Lock-out and users of    *)
(* AdminAccess are two parts with bounds of their own.                     *)
(***************************************************************************)
EXTENDS Setup, FiniteSets

CONSTANTS
  \* Administrators, in both parts, and in each of them.
  Addresses, Bootstrap, MaxFailures, Window, Lock, Keep,
  LockNames, LockLogins, LockPosts, LockRows, LockUsers,
  PageNames, PageLogins, PagePosts, PageRows, PageUsers,
  \* Startup and Settings.
  Workers, SessionRows, MaxCrashes, SettingForms, MaxSaves,
  \* RoomAccess and Networks.
  Hotels, Guests, Requests, SiteForms, MaxSites, Subnets, NetworkForms, MaxNetworks,
  \* Backups and Retention.
  MaxTime, Keeps, MaxSessions, Limit, Batch, Interval,
  \* HostSync.
  Devices, NamedDevices, Ips, MaxFails

VARIABLES
  part,
  admin_users, admin_login_attempts, cookies, lreq, preq,
  items, filled, cause, worker, crashes,
  sites, guests, stays, stayed, rreq, save,
  networks, used, form,
  dirs, clock, backup, reported,
  sessions, last, since, enabled, pass,
  app_settings, boot, page, saves,
  good, leases, hosts, sync, fails

Lockout == INSTANCE AdminAccess
  WITH Names <- LockNames, Logins <- LockLogins, Posts <- LockPosts, MaxRows <- LockRows,
       MaxUsers <- LockUsers
Users == INSTANCE AdminAccess
  WITH Names <- PageNames, Logins <- PageLogins, Posts <- PagePosts, MaxRows <- PageRows,
       MaxUsers <- PageUsers
Migration == INSTANCE Startup WITH Rows <- SessionRows
Rooms == INSTANCE RoomAccess WITH Saves <- SiteForms
Nets == INSTANCE Networks WITH Nets <- Subnets, Forms <- NetworkForms
Copies == INSTANCE Backups
Old == INSTANCE Retention WITH MaxRows <- MaxSessions
Saved == INSTANCE Settings WITH Forms <- SettingForms
Router == INSTANCE HostSync WITH Named <- NamedDevices, Rows <- SessionRows

\* What the modules ask of their constants.
ASSUME OperationsAssumption ==
  /\ Lockout!AdminAccessAssumption /\ Lockout!NoRowAssumption
  /\ Users!AdminAccessAssumption /\ Users!NoRowAssumption
  /\ SetupAssumption /\ NoFileAssumption
  /\ Migration!StartupAssumption
  /\ Rooms!RoomAccessAssumption /\ Rooms!NoSiteAssumption
  /\ Nets!NetworksAssumption /\ Nets!NoNetworkAssumption
  /\ Copies!BackupsAssumption
  /\ Old!RetentionAssumption /\ Old!NoSessionAssumption
  /\ Saved!SettingsAssumption /\ Router!HostSyncAssumption

adminvars == <<admin_users, admin_login_attempts, cookies, lreq, preq>>
startvars == <<items, filled, cause, worker, crashes>>
roomvars == <<sites, guests, stays, stayed, rreq, save>>
netvars == <<networks, used, form>>
backupvars == <<dirs, clock, backup, reported>>
retentionvars == <<sessions, last, since, enabled, pass>>
settingvars == <<app_settings, boot, page, saves>>
hostvars == <<good, leases, hosts, sync, fails>>

vars == <<part, adminvars, svars, startvars, roomvars, netvars, backupvars, retentionvars,
          settingvars, hostvars>>

NoAdmin ==
  /\ admin_users = None /\ admin_login_attempts = None /\ cookies = None /\ lreq = None
  /\ preq = None
NoSetup == Init /\ env = None
NoStart == items = None /\ filled = None /\ cause = None /\ worker = None /\ crashes = None
NoRooms ==
  /\ sites = None /\ guests = None /\ stays = None /\ stayed = None /\ rreq = None
  /\ save = None
NoNets == networks = None /\ used = None /\ form = None
NoBackup == dirs = None /\ clock = None /\ backup = None /\ reported = None
NoRetention ==
  sessions = None /\ last = None /\ since = None /\ enabled = None /\ pass = None

NoSettings == app_settings = None /\ boot = None /\ page = None /\ saves = None
NoHosts == good = None /\ leases = None /\ hosts = None /\ sync = None /\ fails = None

\* The parts whose variables have their initial values.
PartInit ==
  /\ part \in {"lockout", "users", "setup", "startup", "rooms", "networks", "backups",
               "retention", "settings", "hosts"}
  /\ CASE part = "lockout" -> Lockout!Init
       [] part = "users"   -> Users!Init
       [] OTHER            -> NoAdmin
  /\ IF part = "setup" THEN Init ELSE NoSetup
  /\ IF part = "startup" THEN Migration!Init ELSE NoStart
  /\ IF part = "rooms" THEN Rooms!Init ELSE NoRooms
  /\ IF part = "networks" THEN Nets!Init ELSE NoNets
  /\ IF part = "backups" THEN Copies!Init ELSE NoBackup
  /\ IF part = "retention" THEN Old!Init ELSE NoRetention
  /\ IF part = "settings" THEN Saved!Init ELSE NoSettings
  /\ IF part = "hosts" THEN Router!Init ELSE NoHosts

\* The variables of one part alone change.
NotAdmin ==
  UNCHANGED <<part, svars, startvars, roomvars, netvars, backupvars, retentionvars, settingvars,
              hostvars>>
NotSetup ==
  UNCHANGED <<part, adminvars, startvars, roomvars, netvars, backupvars, retentionvars,
              settingvars, hostvars>>
NotStart ==
  UNCHANGED <<part, adminvars, svars, roomvars, netvars, backupvars, retentionvars, settingvars,
              hostvars>>
NotRooms ==
  UNCHANGED <<part, adminvars, svars, startvars, netvars, backupvars, retentionvars, settingvars,
              hostvars>>
NotNets ==
  UNCHANGED <<part, adminvars, svars, startvars, roomvars, backupvars, retentionvars, settingvars,
              hostvars>>
NotBackup ==
  UNCHANGED <<part, adminvars, svars, startvars, roomvars, netvars, retentionvars, settingvars,
              hostvars>>
NotRetention ==
  UNCHANGED <<part, adminvars, svars, startvars, roomvars, netvars, backupvars, settingvars,
              hostvars>>
NotSettings ==
  UNCHANGED <<part, adminvars, svars, startvars, roomvars, netvars, backupvars, retentionvars,
              hostvars>>
NotHosts ==
  UNCHANGED <<part, adminvars, svars, startvars, roomvars, netvars, backupvars, retentionvars,
              settingvars>>

PartNext ==
  \/ part = "lockout" /\ Lockout!Next /\ NotAdmin
  \/ part = "users" /\ Users!Next /\ NotAdmin
  \/ part = "setup" /\ Next /\ NotSetup
  \/ part = "startup" /\ Migration!Next /\ NotStart
  \/ part = "rooms" /\ Rooms!Next /\ NotRooms
  \/ part = "networks" /\ Nets!Next /\ NotNets
  \/ part = "backups" /\ Copies!Next /\ NotBackup
  \/ part = "retention" /\ Old!Next /\ NotRetention
  \/ part = "settings" /\ Saved!Next /\ NotSettings
  \/ part = "hosts" /\ Router!Next /\ NotHosts

PartSpec == PartInit /\ [][PartNext]_vars

\* Each part with the fairness its module needs.  A behaviour is one of one part, so
\* a condition on steps of several parts is one on each of them.
Fairness ==
  /\ WF_vars(\/ part = "lockout" /\ Lockout!Tick /\ NotAdmin
             \/ part = "retention" /\ Old!Tick /\ NotRetention
             \/ part = "hosts" /\ Router!PassStep /\ NotHosts)
  /\ WF_vars(part = "retention" /\ (Old!Due \/ Old!Record) /\ NotRetention)
  /\ SF_vars(part = "retention" /\ Old!DeleteOldBatch /\ NotRetention)
  /\ \A w \in Workers : WF_vars(part = "startup" /\ Migration!StartStep(w) /\ NotStart)

FairSpec == PartSpec /\ Fairness

-----------------------------------------------------------------------------
(* The properties of the modules, each of its part; those of Setup are its own. *)

\* Every table, file and request has its type.
TypesOK ==
  /\ part = "lockout" => Lockout!TypeOK
  /\ part = "users" => Users!TypeOK
  /\ TypeOK
  /\ part = "startup" => Migration!TypeOK
  /\ part = "rooms" => Rooms!TypeOK
  /\ part = "networks" => Nets!TypeOK
  /\ part = "backups" => Copies!TypeOK
  /\ part = "retention" => Old!TypeOK
  /\ part = "settings" => Saved!TypeOK
  /\ part = "hosts" => Router!TypeOK

\* Logins served at once pass the lock-out by less than their number.
GuessesAreBounded == part = "lockout" => Lockout!GuessesAreBounded

\* A lock ends, even for someone who never stops trying.
LockEnds ==
  \A k \in Lockout!Keys :
    (part = "lockout" /\ Lockout!Locked(k)) ~> (part = "lockout" /\ ~ Lockout!Locked(k))

\* The id in a form of the users page never comes to mean somebody else.
IdsAreForGood == [][part = "users" => Users!KeepsIds]_vars

\* One form alone never deletes the last superadmin who can log in.
LastSuperadminIsNotDeleted == [][part = "users" => Users!KeepsLastSuperadmin]_vars

\* A worker that serves has every column.
ServingIsMigrated == part = "startup" => Migration!ServingIsMigrated

\* Every worker comes to serve.
AllServe ==
  \A w \in Workers :
    (part = "startup" /\ worker[w].pc # "serving")
      ~> (part = "startup" /\ worker[w].pc = "serving")

\* Room guests have stayed in the hotel.
RoomGuestsStayed == part = "rooms" => Rooms!RoomGuestsStayed

\* The keys of PMS objects outlive the saves that do not name them, one at a time.
KeysAreKept ==
  [][part = "rooms" => \A s \in SiteForms : SiteForms = {s} => Rooms!KeysStay]_vars

\* Forms served at once make no more twins of a network than they are.
TwinsAreBounded == part = "networks" => Nets!TwinsAreBounded

\* Of the reported backup or a newer one there is a good copy.
GoodBackupRemains == part = "backups" => Copies!GoodBackupRemains

\* Old sessions go in the end.
OldRowsGo ==
  \A i \in 1 .. MaxSessions :
    (part = "retention" /\ i \in Old!Old /\ [] (enabled = TRUE))
      ~> (part = "retention" /\ i \notin Old!Old)

\* Saved settings come through the starts that follow.
SavedSurvivesStarts == [][part = "settings" => Saved!KeepsSaved]_vars

\* A session comes to bear the name of its device.
NamesComeRight ==
  \A r \in SessionRows :
    <>[] (part = "hosts" /\ Router!Reachable(r))
      => <>[] (part = "hosts" /\ hosts[r].name = hosts[r].mac)

=============================================================================
