----------------------------- MODULE SetupProofs -----------------------------
(***************************************************************************)
(* What setup.sh keeps, for any number of runs, each of which may end at   *)
(* any of its steps.                                                       *)
(***************************************************************************)
EXTENDS Setup, TLAPS

\* From the block of clients.conf on, and the steps that are about FreeRADIUS.
Blocked == {"modules", "move", "moving", "moved", "save_site", "copy_site", "site", "section",
            "check"}

Radius == {"save", "copy", "clients", "block"} \cup Blocked

FromUnits == {"units", "repair", "smoke", "complete"} \cup Radius

\* Where a run is says what is in .env.
EnvOK ==
  /\ run.pc = "env" => env = None
  /\ run.pc \notin {"idle", "env"} => env # None
  /\ run.pc = "lines" => \A i \in run.line .. 4 : env[EnvOrder[i]] = None
  /\ run.pc \in FromUnits /\ run.with_radius => env["RADIUS_SECRET"] # None

\* The copies are copies of the originals, whole or cut off, and there before a
\* file is opened; the site's older one is removed when it has been copied.
OriginalsOK ==
  /\ OriginalsAreKept
  /\ clients_saved # "changed" /\ site_saved \in {None, "stock", "cut"}
  /\ run.pc = "copy" => clients = [text |-> "stock", secret |-> None]
  /\ run.pc \in {"clients", "block"} => clients_saved \in {"stock", "cut"}
  /\ run.pc = "block" => run.found \in Clients
  /\ run.pc = "moving" => site_old = "stock"
  /\ run.pc = "moved" => site_saved = "stock"
  /\ run.pc \in {"save_site", "copy_site", "site", "section"} => site_old = None
  /\ run.pc = "copy_site" => site = "stock"
  /\ run.pc \in {"site", "section"} => site_saved \in {"stock", "cut"}

\* What has been done of a run.
ForceOK ==
  /\ run.pc \in {"units", "repair"} \cup Radius => run.root
  /\ run.pc \in Radius => run.with_radius
  /\ run.pc = "repair" => ~ run.with_radius
  /\ run.pc \in {"repair", "smoke", "complete"} \cup Radius /\ run.root => portal = env
  /\ run.pc \in Blocked => clients.secret = env["RADIUS_SECRET"]
  /\ run.pc = "check" => site = "ours"
  /\ run.pc \in {"smoke", "complete"} /\ run.root /\ run.with_radius /\ ~ run.skipped =>
       /\ clients.secret = env["RADIUS_SECRET"] /\ site = "ours"
       /\ radius = [secret |-> env["RADIUS_SECRET"], site |-> "ours"]

\* The inductive invariant.  That FreeRADIUS runs with the secret of .env at the
\* end rests on what each of the steps before has left, and that no secret is
\* written over on how far the writing of .env is.
IInv == TypeOK /\ EnvOK /\ OriginalsOK /\ ForceOK

-----------------------------------------------------------------------------
\* None is neither a value nor one of the names used.
LEMMA NoneIsOther ==
  ASSUME SetupAssumption
  PROVE  MaxRuns \in Nat /\ None \notin Values /\ None # "stock" /\ None # "ours"
         /\ None # "broken" /\ None # "changed" /\ None # "cut"
BY DEF SetupAssumption

\* The types of what a run keeps.
LEMMA RunTyped ==
  ASSUME TypeOK
  PROVE  /\ run.pc \in {"idle", "env", "lines", "defaults"} \cup FromUnits
         /\ run.with_radius \in BOOLEAN /\ run.skipped \in BOOLEAN
         /\ run.smoke \in BOOLEAN /\ run.root \in BOOLEAN
         /\ run.line \in 1 .. 4 /\ run.found \in Clients \cup {None}
BY DEF TypeOK, Run, FromUnits, Radius, Blocked

\* The keys of .env in the order they are written are different ones.
LEMMA KeysInOrder ==
  /\ \A i \in 1 .. 4 : EnvOrder[i] \in Keys
  /\ \A i, j \in 1 .. 4 : EnvOrder[i] = EnvOrder[j] => i = j
  /\ Len(EnvOrder) = 4
BY DEF EnvOrder, Keys, Secrets

\* The first state.
LEMMA InitInv == ASSUME SetupAssumption, Init PROVE IInv
<1> USE DEF Init, Idle
<1>1. TypeOK
  BY NoneIsOther DEF TypeOK, EnvFile, Clients, Run, Values, Keys, Configuration
<1>2. EnvOK
  BY DEF EnvOK, FromUnits, Radius, Blocked
<1>3. OriginalsOK
  BY NoneIsOther DEF OriginalsOK, OriginalsAreKept
<1>4. ForceOK
  BY DEF ForceOK, Radius, Blocked
<1> QED BY <1>1, <1>2, <1>3, <1>4 DEF IInv

\* A run that goes on to a step is a run, and so is that which has ended.
LEMMA GotoTyped ==
  ASSUME run \in Run, NEW pc \in {"lines", "defaults"} \cup FromUnits
  PROVE  [run EXCEPT !.pc = pc] \in Run
BY DEF Run, FromUnits, Radius, Blocked

\* No run is under way.
LEMMA IdleTyped == Idle \in Run
BY DEF Idle, Run

\* What FreeRADIUS loads.
LEMMA LoadedTyped ==
  ASSUME TypeOK
  PROVE  Loaded \in Configuration
BY DEF TypeOK, Loaded, Clients, Configuration

\* Every step keeps the types.
LEMMA TypeStep == ASSUME SetupAssumption, NoFileAssumption, IInv, [Next]_svars PROVE TypeOK'
<1> USE NoneIsOther DEF Goto, FromUnits, Radius, Blocked
<1>t. /\ TypeOK /\ EnvOK /\ OriginalsOK
      /\ env \in EnvFile \cup {None} /\ clients \in Clients /\ runs \in Values /\ run \in Run
  BY DEF TypeOK, IInv
<1>1. ASSUME NEW upgrade \in BOOLEAN, NEW option \in {"none", "with", "skip"}, NEW smoke \in BOOLEAN,
             NEW root \in BOOLEAN, Start(upgrade, option, smoke, root)
      PROVE  TypeOK'
  <2>1. run' \in Run
    BY <1>1 DEF Start, WithRadius, Run
  <2>2. runs' \in Values
    BY <1>1, <1>t DEF Start, Values
  <2> QED BY <1>1, <1>t, <2>1, <2>2 DEF Start, TypeOK, files
<1>2. ASSUME EnvOpen PROVE TypeOK'
  <2>1. run' \in Run
    BY <1>2, <1>t, GotoTyped DEF EnvOpen
  <2> QED BY <1>2, <1>t, <2>1 DEF EnvOpen, TypeOK, EnvFile, files
<1>3. ASSUME EnvLine PROVE TypeOK'
  <2>1. run' \in Run
    BY <1>3, <1>t, KeysInOrder DEF EnvLine, Run
  <2>2. env' \in EnvFile
    BY <1>3, <1>t, RunTyped, KeysInOrder DEF EnvLine, EnvOK, EnvFile
  <2> QED BY <1>3, <1>t, <2>1, <2>2 DEF EnvLine, TypeOK, files
<1>4. ASSUME Defaults PROVE TypeOK'
  <2>1. run' \in Run
    BY <1>4, <1>t, GotoTyped DEF Defaults
  <2>2. env' \in EnvFile
    BY <1>4, <1>t DEF Defaults, EnvOK, EnvFile
  <2> QED BY <1>4, <1>t, <2>1, <2>2 DEF Defaults, TypeOK, files
<1>5. ASSUME Units PROVE TypeOK'
  <2>1. run' \in Run
    BY <1>5, <1>t, GotoTyped DEF Units
  <2> QED BY <1>5, <1>t, <2>1 DEF Units, TypeOK, files
<1>6. ASSUME Repair PROVE TypeOK'
  <2>1. run' \in Run
    BY <1>6, <1>t, GotoTyped, IdleTyped DEF Repair
  <2> QED BY <1>6, <1>t, <2>1, LoadedTyped DEF Repair, TypeOK
<1>7. ASSUME Save \/ Copy PROVE TypeOK'
  <2>1. run' \in Run
    <3>1. CASE Copy \/ run' = [run EXCEPT !.pc = "copy"] \/ run' = [run EXCEPT !.pc = "clients"]
      BY <1>t, <3>1, GotoTyped DEF Copy
    <3>2. CASE run' = [run EXCEPT !.pc = "smoke", !.skipped = TRUE]
      BY <1>t, <3>2 DEF Run
    <3> QED BY <1>7, <3>1, <3>2 DEF Save
  <2> QED BY <1>7, <1>t, <2>1 DEF Save, Copy, ClientsCopy, TypeOK
<1>8. ASSUME ClientsOpen PROVE TypeOK'
  <2>1. run' \in Run
    BY <1>8, <1>t DEF ClientsOpen, Run
  <2>2. clients' \in Clients
    BY <1>8 DEF ClientsOpen, Clients
  <2> QED BY <1>8, <1>t, <2>1, <2>2 DEF ClientsOpen, TypeOK
<1>9. ASSUME Block PROVE TypeOK'
  <2>1. run' \in Run
    BY <1>9, <1>t DEF Block, Run
  <2>2. env["RADIUS_SECRET"] \in Values \cup {None}
    BY <1>9, <1>t DEF Block, EnvOK, EnvFile, Keys
  <2>3. clients' \in Clients
    BY <1>9, <1>t, <2>2 DEF Block, OriginalsOK, Clients
  <2> QED BY <1>9, <1>t, <2>1, <2>3 DEF Block, TypeOK
<1>10. ASSUME Modules \/ Move \/ Moving \/ Moved \/ SaveSite \/ CopySite PROVE TypeOK'
  <2>1. run' \in Run
    BY <1>10, <1>t, GotoTyped DEF Modules, Move, Moving, Moved, SaveSite, CopySite
  <2>2. CASE Modules
    BY <1>t, <2>1, <2>2 DEF Modules, TypeOK
  <2>3. CASE Move \/ Moving \/ Moved
    BY <1>t, <2>1, <2>3 DEF Move, Moving, Moved, TypeOK
  <2>4. CASE SaveSite \/ CopySite
    BY <1>t, <2>1, <2>4 DEF SaveSite, CopySite, TypeOK
  <2> QED BY <1>10, <2>2, <2>3, <2>4
<1>11. ASSUME SiteOpen \/ Section PROVE TypeOK'
  <2>1. run' \in Run
    BY <1>11, <1>t, GotoTyped DEF SiteOpen, Section
  <2> QED BY <1>11, <1>t, <2>1 DEF SiteOpen, Section, TypeOK
<1>12. ASSUME Check PROVE TypeOK'
  <2>1. run' \in Run
    BY <1>12, <1>t, GotoTyped DEF Check
  <2> QED BY <1>12, <1>t, <2>1, LoadedTyped DEF Check, TypeOK, files
<1>13. ASSUME Smoke \/ Stop PROVE TypeOK'
  <2>1. run' \in Run
    BY <1>13, <1>t, GotoTyped, IdleTyped DEF Smoke, Stop
  <2> QED BY <1>13, <1>t, <2>1 DEF Smoke, Stop, TypeOK, files
<1>14. ASSUME Reboot PROVE TypeOK'
  <2>1. run' \in Run
    BY <1>14, <1>t, IdleTyped DEF Reboot
  <2> QED BY <1>14, <1>t, <2>1, LoadedTyped DEF Reboot, TypeOK, files
<1>15. ASSUME UNCHANGED svars PROVE TypeOK'
  BY <1>15, <1>t DEF svars, TypeOK
<1> QED
  BY <1>1, <1>2, <1>3, <1>4, <1>5, <1>6, <1>7, <1>8, <1>9, <1>10, <1>11, <1>12, <1>13, <1>14, <1>15
     DEF Next

-----------------------------------------------------------------------------
\* Every step keeps what is known of .env: only the run that finds none writes it,
\* and line after line.
LEMMA EnvStep == ASSUME SetupAssumption, NoFileAssumption, IInv, [Next]_svars PROVE EnvOK'
<1> USE NoneIsOther, RunTyped DEF Goto, FromUnits, Radius, Blocked
<1>t. /\ TypeOK /\ EnvOK /\ OriginalsOK /\ ForceOK
      /\ env \in EnvFile \cup {None} /\ runs \in Values /\ run \in Run
  BY DEF TypeOK, IInv
<1>1. ASSUME NEW upgrade \in BOOLEAN, NEW option \in {"none", "with", "skip"}, NEW smoke \in BOOLEAN,
             NEW root \in BOOLEAN, Start(upgrade, option, smoke, root)
      PROVE  EnvOK'
  BY <1>1 DEF Start, EnvOK
<1>2. ASSUME EnvOpen PROVE EnvOK'
  <2>1. run'.pc = "lines" /\ run'.line = run.line
    BY <1>2, <1>t DEF EnvOpen, Run
  <2>2. env' = [k \in Keys |-> None] /\ env' # None
    BY <1>2 DEF EnvOpen, NoFileAssumption, EnvFile
  <2> QED BY <1>t, <2>1, <2>2, KeysInOrder DEF EnvOK
<1>3. ASSUME EnvLine PROVE EnvOK'
  <2>1. env \in EnvFile /\ run.pc = "lines" /\ run.line \in 1 .. 4
    BY <1>3, <1>t DEF EnvLine, EnvOK
  <2>2. env' # None
    BY <1>3, <1>t, <2>1 DEF EnvLine, EnvFile, NoFileAssumption
  <2>3. CASE run.line < Len(EnvOrder)
    <3>1. run'.pc = "lines" /\ run'.line = run.line + 1
      BY <1>3, <1>t, <2>3 DEF EnvLine, Run
    <3>2. \A i \in run.line + 1 .. 4 : env'[EnvOrder[i]] = None
      BY <1>3, <1>t, <2>1, KeysInOrder DEF EnvLine, EnvOK, EnvFile
    <3> QED BY <2>2, <3>1, <3>2 DEF EnvOK
  <2>4. CASE ~ (run.line < Len(EnvOrder))
    <3>1. run'.pc = "defaults"
      BY <1>3, <1>t, <2>4 DEF EnvLine, Run
    <3> QED BY <2>2, <3>1 DEF EnvOK
  <2> QED BY <2>3, <2>4
<1>4. ASSUME Defaults PROVE EnvOK'
  <2>1. run'.pc \in {"units", "smoke"} /\ run'.with_radius = run.with_radius
    BY <1>4, <1>t DEF Defaults, Run
  <2>2. env \in EnvFile
    BY <1>4, <1>t DEF Defaults, EnvOK
  <2>3. env' # None /\ (run.with_radius => env'["RADIUS_SECRET"] # None)
    BY <1>4, <1>t, <2>2 DEF Defaults, EnvFile, Keys, NoFileAssumption
  <2> QED BY <2>1, <2>3 DEF EnvOK
<1>5. ASSUME \/ Units \/ Repair \/ Save \/ Copy \/ ClientsOpen \/ Block
             \/ Modules \/ Move \/ Moving \/ Moved \/ SaveSite \/ CopySite \/ SiteOpen \/ Section
             \/ Check \/ Smoke \/ Stop
      PROVE  EnvOK'
  <2>1. env' = env
    BY <1>5 DEF Units, Repair, Save, Copy, ClientsOpen, Block, Modules, Move, Moving, Moved,
                SaveSite, CopySite, SiteOpen, Section, Check, Smoke, Stop, files
  <2>2. \/ run'.pc = "idle"
        \/ /\ run.pc \in FromUnits /\ run'.pc \in FromUnits
           /\ run'.with_radius = run.with_radius
    <3>1. CASE Units \/ Repair
      BY <1>t, <3>1 DEF Units, Repair, Idle, Run
    <3>6. CASE Save \/ Copy
      BY <1>t, <3>6 DEF Save, Copy, Run
    <3>2. CASE ClientsOpen \/ Block \/ Modules
      BY <1>t, <3>2 DEF ClientsOpen, Block, Modules, Run
    <3>3. CASE Move \/ Moving \/ Moved \/ SaveSite \/ CopySite
      BY <1>t, <3>3 DEF Move, Moving, Moved, SaveSite, CopySite, Run
    <3>4. CASE SiteOpen \/ Section \/ Check
      BY <1>t, <3>4 DEF SiteOpen, Section, Check, Run
    <3>5. CASE Smoke \/ Stop
      BY <1>t, <3>5 DEF Smoke, Stop, Idle, Run
    <3> QED BY <1>5, <3>1, <3>2, <3>3, <3>4, <3>5, <3>6
  <2> QED BY <1>t, <2>1, <2>2 DEF EnvOK
<1>6. ASSUME Reboot PROVE EnvOK'
  BY <1>6, <1>t DEF Reboot, Idle, EnvOK
<1>7. ASSUME UNCHANGED svars PROVE EnvOK'
  BY <1>7, <1>t DEF svars, EnvOK
<1> QED BY <1>1, <1>2, <1>3, <1>4, <1>5, <1>6, <1>7 DEF Next

\* Every step keeps the originals: they are copied before anything is written, and
\* a copy that is there, whole or cut off, is not made again.
LEMMA OriginalsStep == ASSUME SetupAssumption, NoFileAssumption, IInv, [Next]_svars PROVE OriginalsOK'
<1> USE NoneIsOther, RunTyped DEF Goto, FromUnits, Radius, Blocked, OriginalsOK, OriginalsAreKept
<1>t. /\ TypeOK /\ OriginalsOK /\ run \in Run
  BY DEF TypeOK, IInv
<1>1. ASSUME \/ \E upgrade, smoke, root \in BOOLEAN, option \in {"none", "with", "skip"} :
                   Start(upgrade, option, smoke, root)
             \/ EnvOpen \/ EnvLine \/ Defaults \/ Units \/ Check \/ Smoke \/ Stop \/ Reboot
      PROVE  OriginalsOK'
  <2>1. UNCHANGED files
    BY <1>1 DEF Start, EnvOpen, EnvLine, Defaults, Units, Check, Smoke, Stop, Reboot
  <2>2. run'.pc \notin Radius \/ run'.pc \in {"save", "check"}
    BY <1>1, <1>t DEF Start, EnvOpen, EnvLine, Defaults, Units, Check, Smoke, Stop, Reboot, Idle, Run
  <2> QED BY <1>t, <2>1, <2>2 DEF files
<1>2. ASSUME Repair PROVE OriginalsOK'
  <2>1. run'.pc \notin Radius \/ run'.pc \in {"save", "check"}
    BY <1>2, <1>t DEF Repair, Idle, Run
  <2> QED BY <1>2, <1>t, <2>1 DEF Repair
<1>3. ASSUME Save PROVE OriginalsOK'
  <2>1. CASE run'.pc = "smoke" /\ UNCHANGED clients_saved
    BY <1>3, <1>t, <2>1 DEF Save
  <2>2. CASE clients_saved = None /\ clients_saved' = "cut" /\ run'.pc = "copy"
    BY <1>3, <1>t, <2>2 DEF Save
  <2>3. CASE clients_saved # None /\ UNCHANGED clients_saved /\ run'.pc = "clients"
    BY <1>3, <1>t, <2>3 DEF Save, TypeOK
  <2> QED BY <1>3, <1>t, <2>1, <2>2, <2>3 DEF Save, Run
<1>10. ASSUME Copy PROVE OriginalsOK'
  <2>1. run'.pc = "clients"
    BY <1>10, <1>t DEF Copy, Run
  <2>2. clients_saved' = "stock"
    BY <1>10, <1>t DEF Copy, ClientsCopy
  <2> QED BY <1>10, <1>t, <2>1, <2>2 DEF Copy
<1>4. ASSUME ClientsOpen PROVE OriginalsOK'
  <2>1. run'.pc = "block" /\ run'.found = clients
    BY <1>4, <1>t DEF ClientsOpen, Run
  <2> QED BY <1>4, <1>t, <2>1 DEF ClientsOpen, TypeOK
<1>5. ASSUME Block PROVE OriginalsOK'
  <2>1. run'.pc = "modules"
    BY <1>5, <1>t DEF Block, Run
  <2> QED BY <1>5, <1>t, <2>1 DEF Block
<1>6. ASSUME Modules PROVE OriginalsOK'
  <2>1. run'.pc = "move"
    BY <1>6, <1>t DEF Modules, Run
  <2> QED BY <1>6, <1>t, <2>1 DEF Modules
<1>11. ASSUME Move PROVE OriginalsOK'
  <2>1. CASE site_old = None /\ UNCHANGED <<site_old, site_saved>> /\ run'.pc = "save_site"
    BY <1>11, <1>t, <2>1 DEF Move
  <2>2. CASE site_old # None /\ site_saved' = site_old /\ site_old' = None /\ run'.pc = "save_site"
    BY <1>11, <1>t, <2>2 DEF Move, TypeOK
  <2>3. CASE site_old # None /\ site_saved' = "cut" /\ UNCHANGED site_old /\ run'.pc = "moving"
    BY <1>11, <1>t, <2>3 DEF Move, TypeOK
  <2> QED BY <1>11, <1>t, <2>1, <2>2, <2>3 DEF Move, Run
<1>12. ASSUME Moving PROVE OriginalsOK'
  <2>1. run'.pc = "moved"
    BY <1>12, <1>t DEF Moving, Run
  <2> QED BY <1>12, <1>t, <2>1 DEF Moving
<1>13. ASSUME Moved PROVE OriginalsOK'
  <2>1. run'.pc = "save_site"
    BY <1>13, <1>t DEF Moved, Run
  <2> QED BY <1>13, <1>t, <2>1 DEF Moved
<1>14. ASSUME SaveSite PROVE OriginalsOK'
  <2>1. CASE site_saved = None /\ site_saved' = "cut" /\ run'.pc = "copy_site"
    BY <1>14, <1>t, <2>1 DEF SaveSite
  <2>2. CASE site_saved # None /\ UNCHANGED site_saved /\ run'.pc = "site"
    BY <1>14, <1>t, <2>2 DEF SaveSite
  <2> QED BY <1>14, <1>t, <2>1, <2>2 DEF SaveSite, Run
<1>15. ASSUME CopySite PROVE OriginalsOK'
  <2>1. run'.pc = "site"
    BY <1>15, <1>t DEF CopySite, Run
  <2> QED BY <1>15, <1>t, <2>1 DEF CopySite
<1>7. ASSUME SiteOpen PROVE OriginalsOK'
  <2>1. run'.pc = "section"
    BY <1>7, <1>t DEF SiteOpen, Run
  <2> QED BY <1>7, <1>t, <2>1 DEF SiteOpen
<1>8. ASSUME Section PROVE OriginalsOK'
  <2>1. run'.pc = "check"
    BY <1>8, <1>t DEF Section, Run
  <2> QED BY <1>8, <1>t, <2>1 DEF Section
<1>9. ASSUME UNCHANGED svars PROVE OriginalsOK'
  BY <1>9, <1>t DEF svars
<1> QED
  BY <1>1, <1>2, <1>3, <1>4, <1>5, <1>6, <1>7, <1>8, <1>9, <1>10, <1>11, <1>12, <1>13, <1>14, <1>15
     DEF Next

\* The secret of FreeRADIUS, in a file that is there.
LEMMA SecretTyped ==
  ASSUME TypeOK, env # None
  PROVE  env["RADIUS_SECRET"] \in Values \cup {None}
BY DEF TypeOK, EnvFile, Keys

\* Every step keeps what has been done of a run.
LEMMA ForceStep == ASSUME SetupAssumption, NoFileAssumption, IInv, [Next]_svars PROVE ForceOK'
<1> USE NoneIsOther, RunTyped DEF Goto, ForceOK, FromUnits, Radius, Blocked
<1>t. /\ TypeOK /\ EnvOK /\ ForceOK /\ run \in Run
  BY DEF TypeOK, IInv
<1>1. ASSUME \/ \E upgrade, smoke, root \in BOOLEAN, option \in {"none", "with", "skip"} :
                   Start(upgrade, option, smoke, root)
             \/ EnvOpen \/ EnvLine \/ Stop
      PROVE  ForceOK'
  <2>1. run'.pc \in {"idle", "env", "lines", "defaults"}
    BY <1>1, <1>t DEF Start, EnvOpen, EnvLine, Stop, Idle, Run
  <2> QED BY <2>1
<1>2. ASSUME Defaults PROVE ForceOK'
  <2>1. /\ run'.root = run.root /\ run'.with_radius = run.with_radius
        /\ run'.pc = IF run.root THEN "units" ELSE "smoke"
    BY <1>2, <1>t DEF Defaults, Run
  <2> QED BY <1>2, <1>t, <2>1 DEF Defaults
<1>3. ASSUME Units PROVE ForceOK'
  <2>1. /\ run'.root = run.root /\ run'.with_radius = run.with_radius
        /\ run'.pc = IF run.with_radius THEN "save" ELSE "repair"
    BY <1>3, <1>t DEF Units, Run
  <2> QED BY <1>3, <1>t, <2>1 DEF Units
<1>4. ASSUME Repair PROVE ForceOK'
  <2>1. \/ run'.pc = "idle"
        \/ run'.root = run.root /\ run'.with_radius = run.with_radius /\ run'.pc = "smoke"
    BY <1>4, <1>t DEF Repair, Idle, Run
  <2> QED BY <1>4, <1>t, <2>1 DEF Repair
<1>5. ASSUME Save \/ Copy \/ ClientsOpen PROVE ForceOK'
  <2>1. /\ run'.root = run.root /\ run'.with_radius = run.with_radius
        /\ run'.pc \in {"copy", "clients", "block"} \/ (run'.pc = "smoke" /\ run'.skipped)
        /\ run.pc \in {"save", "copy", "clients"}
    BY <1>5, <1>t DEF Save, Copy, ClientsOpen, Run
  <2> QED BY <1>5, <1>t, <2>1 DEF Save, Copy, ClientsOpen
<1>6. ASSUME Block PROVE ForceOK'
  <2>1. /\ run'.root = run.root /\ run'.with_radius = run.with_radius
        /\ run'.pc = "modules" /\ run.pc = "block"
    BY <1>6, <1>t DEF Block, Run
  <2>2. run.found \in Clients
    BY <2>1 DEF IInv, OriginalsOK
  <2>3. clients'.secret = env["RADIUS_SECRET"]
    BY <1>6, <2>2 DEF Block, Clients
  <2> QED BY <1>6, <1>t, <2>1, <2>3 DEF Block
<1>7. ASSUME Modules \/ Move \/ Moving \/ Moved \/ SaveSite \/ CopySite \/ SiteOpen PROVE ForceOK'
  <2>1. /\ run'.root = run.root /\ run'.with_radius = run.with_radius
        /\ run'.pc \in Blocked \ {"check"} /\ run.pc \in Blocked
    BY <1>7, <1>t DEF Modules, Move, Moving, Moved, SaveSite, CopySite, SiteOpen, Run
  <2>2. UNCHANGED <<env, clients, portal, radius>>
    BY <1>7 DEF Modules, Move, Moving, Moved, SaveSite, CopySite, SiteOpen
  <2> QED BY <1>t, <2>1, <2>2
<1>8. ASSUME Section PROVE ForceOK'
  <2>1. /\ run'.root = run.root /\ run'.with_radius = run.with_radius
        /\ run'.pc = "check" /\ run.pc = "section"
    BY <1>8, <1>t DEF Section, Run
  <2> QED BY <1>8, <1>t, <2>1 DEF Section
<1>9. ASSUME Check PROVE ForceOK'
  <2>1. /\ run'.root = run.root /\ run'.with_radius = run.with_radius
        /\ run'.pc = "smoke" /\ run.pc = "check"
    BY <1>9, <1>t DEF Check, Run
  <2> QED BY <1>9, <1>t, <2>1 DEF Check, files, Loaded
<1>10. ASSUME Smoke PROVE ForceOK'
  <2>1. /\ run'.root = run.root /\ run'.with_radius = run.with_radius
        /\ run'.skipped = run.skipped /\ run'.pc = "complete" /\ run.pc = "smoke"
    BY <1>10, <1>t DEF Smoke, Run
  <2> QED BY <1>10, <1>t, <2>1 DEF Smoke, files
<1>11. ASSUME Reboot PROVE ForceOK'
  <2>1. CASE run.pc = "complete"
    <3>1. run' = run /\ env # None
      BY <1>11, <1>t, <2>1 DEF Reboot, EnvOK
    <3>2. run.root => portal' = env
      BY <1>11, <1>t, <2>1, <3>1 DEF Reboot
    <3>3. run.root /\ run.with_radius /\ ~ run.skipped => radius # None
      BY <1>t, <2>1, <3>1, SecretTyped DEF NoFileAssumption, Configuration
    <3> QED BY <1>11, <1>t, <2>1, <3>1, <3>2, <3>3 DEF Reboot, files, Loaded
  <2>2. CASE run.pc # "complete"
    BY <1>11, <2>2 DEF Reboot, Idle
  <2> QED BY <2>1, <2>2
<1>12. ASSUME UNCHANGED svars PROVE ForceOK'
  BY <1>12, <1>t DEF svars
<1> QED
  BY <1>1, <1>2, <1>3, <1>4, <1>5, <1>6, <1>7, <1>8, <1>9, <1>10, <1>11, <1>12 DEF Next

\* The invariant holds.
LEMMA Invariant == ASSUME SetupAssumption, NoFileAssumption PROVE Spec => []IInv
<1>1. Init => IInv
  BY InitInv
<1>2. IInv /\ [Next]_svars => IInv'
  BY TypeStep, EnvStep, OriginalsStep, ForceStep DEF IInv
<1> QED BY <1>1, <1>2, PTL DEF Spec

\* A step writes no secret over: the run that writes .env line after line has found
\* no file, and the last of the keys is added only where there is none.
LEMMA SecretsKept ==
  ASSUME SetupAssumption, NoFileAssumption, IInv, [Next]_svars PROVE [KeepsSecrets]_svars
<1> USE NoneIsOther, RunTyped DEF FromUnits, Radius, Blocked, KeepsSecrets
<1>t. /\ TypeOK /\ EnvOK /\ run \in Run
      /\ env \in EnvFile \cup {None} /\ runs \in Values
  BY DEF TypeOK, IInv
<1>1. CASE EnvOpen
  BY <1>1, <1>t DEF EnvOpen, EnvOK
<1>2. CASE EnvLine
  <2>1. env \in EnvFile /\ run.line \in 1 .. 4
    BY <1>2, <1>t DEF EnvLine, EnvOK
  <2>2. env[EnvOrder[run.line]] = None
    BY <1>2, <1>t, <2>1 DEF EnvLine, EnvOK
  <2>3. env' # None
    BY <1>2, <1>t, EnvStep, <2>1 DEF EnvLine, EnvFile, NoFileAssumption
  <2> QED BY <1>2, <2>1, <2>2, <2>3 DEF EnvLine, EnvFile
<1>3. CASE Defaults
  <2>1. env \in EnvFile
    BY <1>3, <1>t DEF Defaults, EnvOK
  <2>2. env' # None
    BY <1>3, <1>t, <2>1 DEF Defaults, EnvFile, NoFileAssumption
  <2> QED BY <1>3, <2>1, <2>2 DEF Defaults, EnvFile
<1>4. CASE \/ \E upgrade, smoke, root \in BOOLEAN, option \in {"none", "with", "skip"} :
                Start(upgrade, option, smoke, root)
           \/ Units \/ Repair \/ Save \/ Copy \/ ClientsOpen \/ Block
           \/ Modules \/ Move \/ Moving \/ Moved \/ SaveSite \/ CopySite \/ SiteOpen \/ Section
           \/ Check \/ Smoke \/ Stop \/ Reboot \/ UNCHANGED svars
  <2>1. env' = env
    BY <1>4 DEF Start, Units, Repair, Save, Copy, ClientsOpen, Block, Modules, Move, Moving, Moved,
                SaveSite, CopySite, SiteOpen, Section, Check, Smoke, Stop, Reboot, svars
  <2> QED BY <2>1
<1> QED BY <1>1, <1>2, <1>3, <1>4 DEF Next

-----------------------------------------------------------------------------
\* The installer is type-correct for any number of runs.
THEOREM TypeCorrect == ASSUME SetupAssumption, NoFileAssumption PROVE Spec => []TypeOK
BY Invariant, PTL DEF IInv

\* The tokens of administrators and the stored voucher codes stay readable and the
\* NAS keeps its secret, however often setup.sh is run or killed.
THEOREM SecretsStay == ASSUME SetupAssumption, NoFileAssumption PROVE Spec => SecretsAreForGood
<1>1. IInv /\ [Next]_svars => [KeepsSecrets]_svars
  BY SecretsKept
<1> QED BY <1>1, Invariant, PTL DEF Spec, SecretsAreForGood

\* What the package left of a file is beside the file that was written over it,
\* whole or, if a run died copying it, in part, and nothing else is ever there.
THEOREM OriginalsStay == ASSUME SetupAssumption, NoFileAssumption PROVE Spec => []OriginalsAreKept
BY Invariant, PTL DEF IInv, OriginalsOK

\* "Setup complete": portal and FreeRADIUS run on what is on disk, with one secret,
\* unless the run has warned that it leaves FreeRADIUS out.
THEOREM CompleteWorks == ASSUME SetupAssumption, NoFileAssumption PROVE Spec => []CompleteIsInForce
<1>1. IInv => CompleteIsInForce
  BY DEF IInv, EnvOK, ForceOK, FromUnits, Radius, Blocked, CompleteIsInForce
<1> QED BY <1>1, Invariant, PTL

=============================================================================
