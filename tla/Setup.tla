-------------------------------- MODULE Setup --------------------------------
(***************************************************************************)
(* The installer, setup.sh: it writes .env once, starts the services and   *)
(* rewrites two files of FreeRADIUS, and it may be killed, fail or be run  *)
(* again at any point.  A file rewritten in place is empty for a moment,   *)
(* and so is a copy; one whose copying ends in between is "cut".           *)
(*                                                                         *)
(* A secret is known by the run that generated it (or had it typed in).    *)
(***************************************************************************)
EXTENDS Integers, Sequences

CONSTANTS MaxRuns,  \* bound: runs of the installer
          None      \* an absent file, key or process

Secrets == {"APP_SECRET", "ADMIN_PASSWORD", "VOUCHER_SECRET_KEY"}

\* The keys of .env the model tells apart, in the order they are written.
EnvOrder == <<"APP_SECRET", "ADMIN_PASSWORD", "VOUCHER_SECRET_KEY", "RADIUS_SECRET">>

Keys == Secrets \cup {"RADIUS_SECRET"}

\* 0: written by an older installation.
Values == 0 .. MaxRuns

\* What the constants must be.
SetupAssumption ==
  MaxRuns \in Nat /\ None \notin Values /\ None \notin {"stock", "ours", "broken", "changed", "cut"}

VARIABLES
  env,            \* the file .env: a value or None for each key, or no file
  clients,        \* FreeRADIUS' clients.conf
  clients_saved,  \* clients.conf.hotspot-original
  site,           \* FreeRADIUS' default site
  site_old,       \* default.hotspot-original, where older installers kept it
  site_saved,     \* backups/freeradius-default-site.hotspot-original
  forward,        \* where the module of the accounting forwarder points
  portal,         \* the .env the running portal was started with
  radius,         \* what the running FreeRADIUS has loaded
  run,            \* the run of setup.sh: where it is and its options
  runs            \* the runs so far

svars == <<env, clients, clients_saved, site, site_old, site_saved, forward, portal, radius,
           run, runs>>

files == <<clients, clients_saved, site, site_old, site_saved, forward>>

EnvFile == [Keys -> Values \cup {None}]

Configuration == [secret : Values \cup {None}, site : {"stock", "ours", "broken"}]

NoFileAssumption == None \notin EnvFile /\ None \notin Configuration

\* secret is the one in the portal's block, text what is around the block.
Clients == [text : {"stock", "broken"}, secret : Values \cup {None}]

\* skipped: the run has warned that there is no apt-get to install FreeRADIUS with.
Run == [pc : {"idle", "env", "lines", "defaults", "units", "repair", "save", "copy", "clients",
              "block", "modules", "move", "moving", "moved", "save_site", "copy_site", "site",
              "section", "check", "smoke", "complete"},
        with_radius : BOOLEAN, skipped : BOOLEAN, smoke : BOOLEAN, root : BOOLEAN, line : 1 .. 4,
        found : Clients \cup {None}]

TypeOK ==
  /\ env \in EnvFile \cup {None} /\ portal \in EnvFile \cup {None}
  /\ clients \in Clients /\ clients_saved \in {None, "stock", "changed", "cut"}
  /\ site \in {"stock", "ours", "broken"}
  /\ site_old \in {None, "stock"} /\ site_saved \in {None, "stock", "ours", "broken", "cut"}
  /\ forward \in {"nowhere", "elsewhere", "here"}
  /\ radius \in Configuration \cup {None}
  /\ run \in Run /\ runs \in Values

Idle == [pc |-> "idle", with_radius |-> FALSE, skipped |-> FALSE, smoke |-> FALSE, root |-> FALSE,
         line |-> 1, found |-> None]

\* A new machine, or one with an older installation: FreeRADIUS set up with a
\* secret that is not in .env, the forwarder in another directory.
Init ==
  /\ \/ /\ env = None /\ clients = [text |-> "stock", secret |-> None] /\ clients_saved = None
        /\ site = "stock" /\ site_old = None /\ forward = "nowhere" /\ portal = None
        /\ radius = None
     \/ /\ env = [k \in Keys |-> IF k \in Secrets THEN 0 ELSE None]
        /\ clients = [text |-> "stock", secret |-> 0] /\ clients_saved = "stock"
        /\ site = "ours" /\ site_old = "stock" /\ forward = "elsewhere" /\ portal = env
        /\ radius = [secret |-> 0, site |-> "ours"]
  /\ site_saved = None
  /\ run = Idle /\ runs = 0

Goto(pc) == run' = [run EXCEPT !.pc = pc]

-----------------------------------------------------------------------------
(* From the options to .env. *)

\* Mutant: the secrets are generated anew in every run.
StartFresh(upgrade, option, smoke, root) ==
  /\ run.pc \in {"idle", "complete"} /\ runs < MaxRuns
  /\ upgrade => env # None
  /\ run' = [pc |-> "env", with_radius |-> option # "skip", skipped |-> FALSE,
             smoke |-> smoke, root |-> root, line |-> 1, found |-> None]
  /\ runs' = runs + 1
  /\ UNCHANGED <<env, files, portal, radius>>

\* --with-radius and --skip-radius; an upgrade leaves FreeRADIUS out without them.
WithRadius(upgrade, option) == option = "with" \/ (option = "none" /\ ~ upgrade)

\* Options, required files, virtual environment, backup and dependencies.  An
\* upgrade needs .env; an existing .env is kept, whatever is in it.
Start(upgrade, option, smoke, root) ==
  /\ run.pc \in {"idle", "complete"} /\ runs < MaxRuns
  /\ upgrade => env # None
  /\ run' = [pc |-> IF env = None THEN "env" ELSE "defaults",
             with_radius |-> WithRadius(upgrade, option), skipped |-> FALSE,
             smoke |-> smoke, root |-> root, line |-> 1, found |-> None]
  /\ runs' = runs + 1
  /\ UNCHANGED <<env, files, portal, radius>>

\* "> .env" makes the file before a line is written ...
EnvOpen ==
  /\ run.pc = "env"
  /\ env' = [k \in Keys |-> None]
  /\ Goto("lines")
  /\ UNCHANGED <<files, portal, radius, runs>>

\* ... and each echo adds one.
EnvLine ==
  /\ run.pc = "lines"
  /\ env' = [env EXCEPT ![EnvOrder[run.line]] = runs]
  /\ run' = IF run.line < Len(EnvOrder) THEN [run EXCEPT !.line = @ + 1]
                                        ELSE [run EXCEPT !.pc = "defaults"]
  /\ UNCHANGED <<files, portal, radius, runs>>

\* ensure_runtime_env_defaults: a secret for FreeRADIUS, if it is installed and
\* has none.
Defaults ==
  /\ run.pc = "defaults"
  /\ env' = IF run.with_radius /\ env["RADIUS_SECRET"] = None
            THEN [env EXCEPT !["RADIUS_SECRET"] = runs] ELSE env
  /\ Goto(IF run.root THEN "units" ELSE "smoke")
  /\ UNCHANGED <<files, portal, radius, runs>>

\* The units are written and enabled and the services restarted.
Units ==
  /\ run.pc = "units"
  /\ portal' = env
  /\ Goto(IF run.with_radius THEN "save" ELSE "repair")
  /\ UNCHANGED <<env, files, radius, runs>>

-----------------------------------------------------------------------------
(* FreeRADIUS. *)

Loaded == [secret |-> clients.secret, site |-> site]

\* Without FreeRADIUS in the run, only a forwarder that points elsewhere is set
\* right, if the script is there; FreeRADIUS is restarted then, if its check
\* passes.
Repair ==
  /\ run.pc = "repair"
  /\ \/ /\ forward = "elsewhere"
        /\ forward' = "here"
        /\ \/ radius' = Loaded /\ Goto("smoke")
           \/ UNCHANGED radius /\ run' = Idle
     \/ UNCHANGED <<forward, radius>> /\ Goto("smoke")
  /\ UNCHANGED <<env, clients, clients_saved, site, site_old, site_saved, portal, runs>>

ClientsCopy == IF clients = [text |-> "stock", secret |-> None] THEN "stock" ELSE "changed"

\* Mutant: the copy is made in every run.
SaveAlways ==
  /\ run.pc = "save"
  /\ clients_saved' = "cut"
  /\ Goto("copy")
  /\ UNCHANGED <<env, clients, site, site_old, site_saved, forward, portal, radius, runs>>

\* Without apt-get a run warns, leaves FreeRADIUS as it is and goes on.  With it
\* the package is installed, and a copy of clients.conf begun if there is none,
\* whole or cut off ...
Save ==
  /\ run.pc = "save"
  /\ \/ UNCHANGED clients_saved /\ run' = [run EXCEPT !.pc = "smoke", !.skipped = TRUE]
     \/ clients_saved = None /\ clients_saved' = "cut" /\ Goto("copy")
     \/ clients_saved # None /\ UNCHANGED clients_saved /\ Goto("clients")
  /\ UNCHANGED <<env, clients, site, site_old, site_saved, forward, portal, radius, runs>>

\* ... and brought to its end.
Copy ==
  /\ run.pc = "copy"
  /\ clients_saved' = ClientsCopy
  /\ Goto("clients")
  /\ UNCHANGED <<env, clients, site, site_old, site_saved, forward, portal, radius, runs>>

\* write_text opens clients.conf for writing, which empties it ...
ClientsOpen ==
  /\ run.pc = "clients"
  /\ clients' = [text |-> "broken", secret |-> None]
  /\ run' = [run EXCEPT !.pc = "block", !.found = clients]
  /\ UNCHANGED <<env, clients_saved, site, site_old, site_saved, forward, portal, radius, runs>>

\* Mutant: a block that is there is left as it is.
BlockOnce ==
  /\ run.pc = "block"
  /\ clients' = IF run.found.secret # None THEN run.found
                ELSE [run.found EXCEPT !.secret = env["RADIUS_SECRET"]]
  /\ run' = [run EXCEPT !.pc = "modules", !.found = None]
  /\ UNCHANGED <<env, clients_saved, site, site_old, site_saved, forward, portal, radius, runs>>

\* ... and puts back what was around the block, with the block of the secret in
\* .env in place of any other.
Block ==
  /\ run.pc = "block"
  /\ clients' = [run.found EXCEPT !.secret = env["RADIUS_SECRET"]]
  /\ run' = [run EXCEPT !.pc = "modules", !.found = None]
  /\ UNCHANGED <<env, clients_saved, site, site_old, site_saved, forward, portal, radius, runs>>

\* The modules are written.
Modules ==
  /\ run.pc = "modules"
  /\ forward' = "here"
  /\ Goto("move")
  /\ UNCHANGED <<env, clients, clients_saved, site, site_old, site_saved, portal, radius, runs>>

\* The original of the site is moved from where older installers kept it, over a
\* copy that is there: renamed, or copied to another file system ...
Move ==
  /\ run.pc = "move"
  /\ \/ site_old = None /\ UNCHANGED <<site_old, site_saved>> /\ Goto("save_site")
     \/ site_old # None /\ site_saved' = site_old /\ site_old' = None /\ Goto("save_site")
     \/ site_old # None /\ site_saved' = "cut" /\ UNCHANGED site_old /\ Goto("moving")
  /\ UNCHANGED <<env, clients, clients_saved, site, forward, portal, radius, runs>>

Moving ==
  /\ run.pc = "moving"
  /\ site_saved' = site_old
  /\ Goto("moved")
  /\ UNCHANGED <<env, clients, clients_saved, site, site_old, forward, portal, radius, runs>>

\* ... and removed only then.
Moved ==
  /\ run.pc = "moved"
  /\ site_old' = None
  /\ Goto("save_site")
  /\ UNCHANGED <<env, clients, clients_saved, site, site_saved, forward, portal, radius, runs>>

\* Else a copy of the site is begun if there is none, whole or cut off ...
SaveSite ==
  /\ run.pc = "save_site"
  /\ \/ site_saved = None /\ site_saved' = "cut" /\ Goto("copy_site")
     \/ site_saved # None /\ UNCHANGED site_saved /\ Goto("site")
  /\ UNCHANGED <<env, clients, clients_saved, site, site_old, forward, portal, radius, runs>>

\* ... and brought to its end.
CopySite ==
  /\ run.pc = "copy_site"
  /\ site_saved' = site
  /\ Goto("site")
  /\ UNCHANGED <<env, clients, clients_saved, site, site_old, forward, portal, radius, runs>>

\* The sections of the site must be found before it is opened for writing ...
SiteOpen ==
  /\ run.pc = "site" /\ site # "broken"
  /\ site' = "broken"
  /\ Goto("section")
  /\ UNCHANGED <<env, clients, clients_saved, site_old, site_saved, forward, portal, radius, runs>>

\* ... and are written with the portal's two modules in them.
Section ==
  /\ run.pc = "section"
  /\ site' = "ours"
  /\ Goto("check")
  /\ UNCHANGED <<env, clients, clients_saved, site_old, site_saved, forward, portal, radius, runs>>

\* freeradius -XC accepts the configuration, and the service is restarted.
Check ==
  /\ run.pc = "check"
  /\ radius' = Loaded
  /\ Goto("smoke")
  /\ UNCHANGED <<env, files, portal, runs>>

-----------------------------------------------------------------------------
(* The end of a run. *)

\* check_secrets: a secret that is not in .env is the placeholder of config.py.
SecretsAreSet == \A k \in Secrets : env[k] # None

\* The smoke check, with --strict-secrets whether the portal answers or not, and
\* "Setup complete".
Smoke ==
  /\ run.pc = "smoke"
  /\ run.smoke => SecretsAreSet
  /\ Goto("complete")
  /\ UNCHANGED <<env, files, portal, radius, runs>>

\* A command fails ("set -e", die), or the run is killed.
Stop ==
  /\ run.pc \notin {"idle", "complete"}
  /\ run' = Idle
  /\ UNCHANGED <<env, files, portal, radius, runs>>

\* The machine restarts: what was started before is started with the files as
\* they are.
Reboot ==
  /\ run' = IF run.pc = "complete" THEN run ELSE Idle
  /\ portal' = IF portal = None THEN None ELSE env
  /\ radius' = IF radius = None THEN None ELSE Loaded
  /\ UNCHANGED <<env, files, runs>>

Next ==
  \/ \E upgrade, smoke, root \in BOOLEAN, option \in {"none", "with", "skip"} :
       Start(upgrade, option, smoke, root)
  \/ EnvOpen \/ EnvLine \/ Defaults \/ Units
  \/ Repair \/ Save \/ Copy \/ ClientsOpen \/ Block
  \/ Modules \/ Move \/ Moving \/ Moved \/ SaveSite \/ CopySite \/ SiteOpen \/ Section \/ Check
  \/ Smoke \/ Stop \/ Reboot

Spec == Init /\ [][Next]_svars

-----------------------------------------------------------------------------
(* Properties. *)

\* What a run has generated or was given is never written over or lost, however
\* often setup.sh is run and wherever it dies: tokens and voucher codes are stored
\* under these keys, the NAS knows the other.
KeepsSecrets ==
  \A k \in Keys : env # None /\ env[k] # None => env' # None /\ env'[k] = env[k]

SecretsAreForGood == [][KeepsSecrets]_svars

\* A file of FreeRADIUS that is not as the package left it has its original beside
\* it, or the part of it that a run has left which died in the middle of copying
\* it: later runs take that for the copy.  What setup.sh has written itself is
\* never taken for an original, and an original that was moved survives a move cut
\* off, wherever runs die.
OriginalsAreKept ==
  /\ clients # [text |-> "stock", secret |-> None] => clients_saved \in {"stock", "cut"}
  /\ site # "stock" => "stock" \in {site_old, site_saved} \/ (site_saved = "cut" /\ site_old = None)

\* After "Setup complete" everything runs on what is on disk, and FreeRADIUS, if
\* it was part of the run and the run has not warned that it skips it, knows the
\* secret of .env.
CompleteIsInForce ==
  run.pc = "complete" /\ run.root =>
    /\ portal = env
    /\ run.with_radius /\ ~ run.skipped =>
         /\ env["RADIUS_SECRET"] # None
         /\ radius = [secret |-> env["RADIUS_SECRET"], site |-> "ours"]

=============================================================================
