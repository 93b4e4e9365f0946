------------------------------ MODULE Settings ------------------------------
(***************************************************************************)
(* The table app_settings: the worker processes of uvicorn put in the      *)
(* defaults that are missing when they start (ensure_security_default_-    *)
(* settings), the settings page writes what an administrator saves, one    *)
(* transaction per key, and any process may die between two of them.       *)
(*                                                                         *)
(* Of the ten keys with a default four stand for all.  A value is known by *)
(* the save it comes from.                                                 *)
(***************************************************************************)
EXTENDS Integers, Sequences

CONSTANTS Workers,   \* worker processes
          Forms,     \* slots for settings forms served at once
          MaxSaves,  \* bound: forms ever sent
          None       \* an absent key

\* The keys with a default, in the order startup() looks for them.
Defaults == <<"radius.allowed_ips", "retention.enabled", "retention.days", "auth.reauth_days">>

\* The forms that save these, by the keys each saves in turn; those of the PBX and
\* of the PMS save keys that have no default.
Pages == {<<"radius.allowed_ips">>, <<"retention.enabled", "retention.days">>,
          <<"auth.reauth_days">>}

SettingKeys == {Defaults[i] : i \in DOMAIN Defaults}

\* 0: saved in an older installation.
Saves == 0 .. MaxSaves

\* A default of config.py.
Default == -1

\* What the constants must be.
SettingsAssumption == MaxSaves \in Nat /\ None \notin Int

VARIABLES
  app_settings,  \* app_settings[k]: the value of key k, or None
  boot,          \* boot[w]: where worker w is in its start
  page,          \* page[f]: the form served in slot f
  saves          \* forms sent so far

setvars == <<app_settings, boot, page, saves>>

\* there is what the table had when the start began; the worker does not keep it.
Boot == [pc : {"look", "set", "serving"}, key : DOMAIN Defaults, there : SUBSET SettingKeys]

Page == [keys : Pages \cup {<<>>}, worker : Workers \cup {None}, next : 1 .. 3, save : Saves]

NoPage == [keys |-> <<>>, worker |-> None, next |-> 1, save |-> 0]

TypeOK ==
  /\ app_settings \in [SettingKeys -> Saves \cup {None, Default}]
  /\ boot \in [Workers -> Boot]
  /\ page \in [Forms -> Page]
  /\ saves \in Saves

Present == {k \in SettingKeys : app_settings[k] # None}

\* A start of the worker.
Begun == [pc |-> "look", key |-> 1, there |-> Present]

\* A new database, or one of an installation that had not all the keys.
Init ==
  /\ app_settings \in [SettingKeys -> {None, 0}]
  /\ boot = [w \in Workers |-> Begun]
  /\ page = [f \in Forms |-> NoPage]
  /\ saves = 0

-----------------------------------------------------------------------------
(* A start. *)

\* Mutant: one key too many.
NextDefaultPast(w) ==
  IF boot[w].key <= Len(Defaults) THEN [boot[w] EXCEPT !.pc = "look", !.key = @ + 1]
                                  ELSE [boot[w] EXCEPT !.pc = "serving"]

\* On to the next default.
NextDefault(w) ==
  IF boot[w].key < Len(Defaults) THEN [boot[w] EXCEPT !.pc = "look", !.key = @ + 1]
                                 ELSE [boot[w] EXCEPT !.pc = "serving"]

\* Mutant: only the first key is looked for, as if all came together.
DefaultLookOnce(w) ==
  /\ boot[w].pc = "look"
  /\ boot' = [boot EXCEPT ![w] =
       IF app_settings[Defaults[1]] \in {None, Default} THEN [boot[w] EXCEPT !.pc = "set"]
                                                          ELSE NextDefault(w)]
  /\ UNCHANGED <<app_settings, page, saves>>

\* get_setting(key, None) ...
DefaultLook(w) ==
  /\ boot[w].pc = "look"
  /\ boot' = [boot EXCEPT ![w] = IF app_settings[Defaults[boot[w].key]] = None
                                 THEN [boot[w] EXCEPT !.pc = "set"] ELSE NextDefault(w)]
  /\ UNCHANGED <<app_settings, page, saves>>

\* ... and set_setting, an upsert, in another connection.
DefaultSet(w) ==
  /\ boot[w].pc = "set"
  /\ app_settings' = [app_settings EXCEPT ![Defaults[boot[w].key]] = Default]
  /\ boot' = [boot EXCEPT ![w] = NextDefault(w)]
  /\ UNCHANGED <<page, saves>>

\* The worker dies with the forms it serves, and is started again.
Restart(w) ==
  /\ boot' = [boot EXCEPT ![w] = Begun]
  /\ page' = [f \in Forms |-> IF page[f].worker = w THEN NoPage ELSE page[f]]
  /\ UNCHANGED <<app_settings, saves>>

-----------------------------------------------------------------------------
(* The settings page. *)

\* A superadmin saves a form with a worker that serves.
PageSent(f, w, keys) ==
  /\ page[f] = NoPage /\ boot[w].pc = "serving" /\ saves < MaxSaves
  /\ page' = [page EXCEPT ![f] = [keys |-> keys, worker |-> w, next |-> 1, save |-> saves + 1]]
  /\ saves' = saves + 1
  /\ UNCHANGED <<app_settings, boot>>

\* Key by key.
PageSave(f) ==
  /\ page[f] # NoPage
  /\ app_settings' = [app_settings EXCEPT ![page[f].keys[page[f].next]] = page[f].save]
  /\ page' = [page EXCEPT ![f] = IF page[f].next < Len(page[f].keys)
                                 THEN [page[f] EXCEPT !.next = @ + 1] ELSE NoPage]
  /\ UNCHANGED <<boot, saves>>

Next ==
  \/ \E w \in Workers : DefaultLook(w) \/ DefaultSet(w) \/ Restart(w)
  \/ \E f \in Forms : \/ PageSave(f)
                      \/ \E w \in Workers, keys \in Pages : PageSent(f, w, keys)

Spec == Init /\ [][Next]_setvars

-----------------------------------------------------------------------------
(* Properties. *)

\* What an administrator has saved comes through the starts that follow: a default
\* only ever takes the place of a value saved while that worker was on its way
\* through startup() for a key it had not found at its beginning.
KeepsSaved ==
  \A k \in SettingKeys :
    app_settings[k] \in Saves /\ app_settings'[k] = Default
      => \E w \in Workers : boot'[w] # boot[w] /\ k \notin boot[w].there

SavedSurvivesStarts == [][KeepsSaved]_setvars

=============================================================================
