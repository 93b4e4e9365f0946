----------------------------- MODULE AdminAccess -----------------------------
(***************************************************************************)
(* The administrators of the portal: the table admin_users, the login form *)
(* with its lock-out (admin_auth.py, /admin/login in app.py), the session  *)
(* cookies and the pages that add, disable and delete administrators.      *)
(*                                                                         *)
(* A step is one SELECT or one write transaction.  The ids of admin_users  *)
(* are AUTOINCREMENT: an id is never given twice, so a deleted row leaves  *)
(* None in its place.  A recorded failure is known by its age, which Tick  *)
(* counts up; a row older than Keep is one the next look at the lock-out   *)
(* deletes.                                                                *)
(***************************************************************************)
EXTENDS Integers, Sequences, FiniteSets

CONSTANTS Names,        \* usernames
          Addresses,    \* source addresses of logins
          Logins,       \* slots for logins served at once
          Posts,        \* slots for forms of the users page served at once
          MaxRows,      \* bound: failures on record
          MaxUsers,     \* bound: administrators ever added
          MaxFailures,  \* ADMIN_LOGIN_MAX_FAILURES
          Window,       \* ADMIN_LOGIN_WINDOW_SECONDS, in the units of the clock
          Lock,         \* ADMIN_LOGIN_LOCK_SECONDS
          Keep,         \* the age after which a failure is deleted
          Bootstrap,    \* ADMIN_USERNAME of the configuration
          None          \* SQL NULL, and the absent row

Roles == {"superadmin", "it", "reception"}

Keys == Names \X Addresses

Rows == 1 .. MaxRows

\* What the constants must be.  The last line holds of the defaults (600 and
\* 900 s): a lock outlasts the failures it is counted from.
AdminAccessAssumption ==
  /\ MaxUsers \in Nat \ {0} /\ MaxRows \in Nat /\ MaxFailures \in Nat \ {0}
  /\ Window \in Nat \ {0} /\ Lock \in Nat \ {0} /\ Keep \in Nat
  /\ Window <= Keep /\ Lock <= Keep
  /\ IsFiniteSet(Logins)
  /\ Bootstrap \in Names /\ None \notin Names \cup Keys \cup Int
  /\ Window < Lock

User == [name : Names, role : Roles, active : BOOLEAN]

Failure == [key : Keys, age : 0 .. Keep + 1]

NoRowAssumption == None \notin User /\ None \notin Failure

VARIABLES
  admin_users,           \* admin_users[i]: the row of id i, or None once deleted
  admin_login_attempts,  \* admin_login_attempts[i]: a recorded failure, or None
  cookies,               \* cookies handed out: pairs <<username, role>>
  lreq,                  \* lreq[l]: the login served in slot l
  preq                   \* preq[p]: the form served in slot p

avars == <<admin_users, admin_login_attempts, cookies, lreq, preq>>

\* role is what the login has read of the user.
Login == [pc : {"idle", "read", "record", "clear", "cookie"},
          key : Keys \cup {None}, role : Roles \cup {None}]

\* user is the id the form names, self the cookie it came with, active what it
\* has read of the user.
Post == [pc : {"idle", "read", "author", "count", "delete", "toggle"},
         op : {"delete", "toggle"}, user : 0 .. MaxUsers,
         self : (Names \X Roles) \cup {None}, author : Names \cup {None}, active : BOOLEAN]

NoLogin == [pc |-> "idle", key |-> None, role |-> None]

NoPost == [pc |-> "idle", op |-> "toggle", user |-> 0, self |-> None, author |-> None,
           active |-> FALSE]

TypeOK ==
  /\ admin_users \in Seq(User \cup {None}) /\ Len(admin_users) <= MaxUsers
  /\ admin_login_attempts \in [Rows -> Failure \cup {None}]
  /\ cookies \in SUBSET (Names \X Roles)
  /\ lreq \in [Logins -> Login]
  /\ preq \in [Posts -> Post]

-----------------------------------------------------------------------------
(* The table of administrators. *)

Users == {i \in 1 .. Len(admin_users) : admin_users[i] # None}

Named(n) == {i \in Users : admin_users[i].name = n}

Superadmins == {i \in Users : admin_users[i].role = "superadmin" /\ admin_users[i].active}

\* ensure_user: an INSERT unless the username is taken (UNIQUE).
WithUser(n, role) ==
  IF Named(n) = {} THEN Append(admin_users, [name |-> n, role |-> role, active |-> TRUE])
                   ELSE admin_users

\* The service starts with the superadmin of the configuration.
Init ==
  /\ admin_users = <<[name |-> Bootstrap, role |-> "superadmin", active |-> TRUE]>>
  /\ admin_login_attempts = [i \in Rows |-> None]
  /\ cookies = {}
  /\ lreq = [l \in Logins |-> NoLogin]
  /\ preq = [p \in Posts |-> NoPost]

\* A cookie counts while it is signed and fresh and its user is active in the
\* role it names.
Valid(c) == \E i \in Named(c[1]) : admin_users[i].active /\ admin_users[i].role = c[2]

-----------------------------------------------------------------------------
(* The lock-out. *)

\* The failures of a key that a count still sees.
Recent(k) == {i \in Rows : /\ admin_login_attempts[i] # None
                           /\ admin_login_attempts[i].key = k
                           /\ admin_login_attempts[i].age <= Window}

\* Mutant: one failure too many before the lock.
LockedLate(k) ==
  /\ Cardinality(Recent(k)) > MaxFailures
  /\ \E i \in Recent(k) : admin_login_attempts[i].age < Lock

\* Enough failures in the window, and the newest of them not yet Lock old.
Locked(k) ==
  /\ Cardinality(Recent(k)) >= MaxFailures
  /\ \E i \in Recent(k) : admin_login_attempts[i].age < Lock

\* _cleanup_admin_login_attempts, in the transaction of every look and INSERT.
Kept == [i \in Rows |-> IF admin_login_attempts[i] # None /\ admin_login_attempts[i].age > Keep
                        THEN None ELSE admin_login_attempts[i]]

-----------------------------------------------------------------------------
(* A login. *)

EndLogin(l) == lreq' = [lreq EXCEPT ![l] = NoLogin]

\* Mutant: a blocked login is recorded as one more failure.
LoginCheckCounting(l, k) ==
  /\ lreq[l].pc = "idle"
  /\ lreq' = [lreq EXCEPT ![l] = [pc |-> IF Locked(k) THEN "record" ELSE "read", key |-> k,
                                  role |-> None]]
  /\ admin_login_attempts' = Kept
  /\ UNCHANGED <<admin_users, cookies, preq>>

\* The lock-out comes first; a blocked login changes nothing.
LoginCheck(l, k) ==
  /\ lreq[l].pc = "idle"
  /\ admin_login_attempts' = Kept
  /\ IF Locked(k) THEN UNCHANGED lreq
                  ELSE lreq' = [lreq EXCEPT ![l] = [pc |-> "read", key |-> k, role |-> None]]
  /\ UNCHANGED <<admin_users, cookies, preq>>

\* The row is read, and the password verified against what was read: right only
\* for an active user.
LoginRead(l, right) ==
  LET found == {i \in Named(lreq[l].key[1]) : admin_users[i].active}
  IN /\ lreq[l].pc = "read"
     /\ \/ right /\ \E i \in found :
             lreq' = [lreq EXCEPT ![l].pc = "clear", ![l].role = admin_users[i].role]
        \/ (~ right \/ found = {}) /\ lreq' = [lreq EXCEPT ![l].pc = "record"]
     /\ UNCHANGED <<admin_users, admin_login_attempts, cookies, preq>>

\* The look that follows the INSERT only words the answer (and deletes what the
\* next look would delete).
LoginRecord(l) ==
  /\ lreq[l].pc = "record"
  /\ \E i \in Rows :
       /\ Kept[i] = None /\ \A j \in 1 .. i - 1 : Kept[j] # None
       /\ admin_login_attempts' = [Kept EXCEPT ![i] = [key |-> lreq[l].key, age |-> 0]]
  /\ EndLogin(l)
  /\ UNCHANGED <<admin_users, cookies, preq>>

\* A good password forgets the failures of the key.
LoginClear(l) ==
  /\ lreq[l].pc = "clear"
  /\ admin_login_attempts' =
       [i \in Rows |-> IF admin_login_attempts[i] # None
                          /\ admin_login_attempts[i].key = lreq[l].key
                       THEN None ELSE admin_login_attempts[i]]
  /\ lreq' = [lreq EXCEPT ![l].pc = "cookie"]
  /\ UNCHANGED <<admin_users, cookies, preq>>

\* The cookie names the role that was read.
LoginCookie(l) ==
  /\ lreq[l].pc = "cookie"
  /\ cookies' = cookies \cup {<<lreq[l].key[1], lreq[l].role>>}
  /\ EndLogin(l)
  /\ UNCHANGED <<admin_users, admin_login_attempts, preq>>

\* A cookie runs out (8 hours), or its owner logs out.
CookieGone(c) ==
  /\ cookies' = cookies \ {c}
  /\ UNCHANGED <<admin_users, admin_login_attempts, lreq, preq>>

-----------------------------------------------------------------------------
(* The users page.  A form comes with the cookie of a superadmin. *)

EndPost(p) == preq' = [preq EXCEPT ![p] = NoPost]

\* admin_post_guard.
PostGuard(p, c, op, i) ==
  /\ preq[p].pc = "idle"
  /\ c[2] = "superadmin" /\ Valid(c)
  /\ preq' = [preq EXCEPT ![p] = [pc |-> IF op = "delete" THEN "author" ELSE "read", op |-> op,
                                  user |-> i, self |-> c, author |-> None, active |-> FALSE]]
  /\ UNCHANGED <<admin_users, admin_login_attempts, cookies, lreq>>

\* A deletion asks once more whose cookie it is, and goes on without a name when
\* the cookie no longer counts.
PostAuthor(p) ==
  LET c == preq[p].self
  IN /\ preq[p].pc = "author"
     /\ preq' = [preq EXCEPT ![p].pc = "read",
                             ![p].author = IF c \in cookies /\ Valid(c) THEN c[1] ELSE None]
     /\ UNCHANGED <<admin_users, admin_login_attempts, cookies, lreq>>

\* Nobody deletes himself; a superadmin is deleted only after a count.
PostRead(p) ==
  LET i == preq[p].user
      Go(pc) == preq' = [preq EXCEPT ![p].pc = pc, ![p].active = admin_users[i].active]
  IN /\ preq[p].pc = "read"
     /\ IF i \notin Users \/ (preq[p].op = "delete" /\ admin_users[i].name = preq[p].author)
        THEN EndPost(p)
        ELSE Go(IF preq[p].op = "toggle" THEN "toggle"
                ELSE IF admin_users[i].role = "superadmin" THEN "count" ELSE "delete")
     /\ UNCHANGED <<admin_users, admin_login_attempts, cookies, lreq>>

\* Mutant: the disabled superadmins are counted too.
PostCountAll(p) ==
  /\ preq[p].pc = "count"
  /\ IF Cardinality({i \in Users : admin_users[i].role = "superadmin"}) <= 1
     THEN EndPost(p) ELSE preq' = [preq EXCEPT ![p].pc = "delete"]
  /\ UNCHANGED <<admin_users, admin_login_attempts, cookies, lreq>>

\* last_superadmin
PostCount(p) ==
  /\ preq[p].pc = "count"
  /\ IF Cardinality(Superadmins) <= 1 THEN EndPost(p)
                                      ELSE preq' = [preq EXCEPT ![p].pc = "delete"]
  /\ UNCHANGED <<admin_users, admin_login_attempts, cookies, lreq>>

\* By id: nothing, when the row is gone.
PostDelete(p) ==
  LET i == preq[p].user
  IN /\ preq[p].pc = "delete"
     /\ admin_users' = IF i \in Users THEN [admin_users EXCEPT ![i] = None] ELSE admin_users
     /\ EndPost(p)
     /\ UNCHANGED <<admin_login_attempts, cookies, lreq>>

\* The opposite of what was read.
PostToggle(p) ==
  LET i == preq[p].user
  IN /\ preq[p].pc = "toggle"
     /\ admin_users' = IF i \in Users
                       THEN [admin_users EXCEPT ![i].active = ~ preq[p].active]
                       ELSE admin_users
     /\ EndPost(p)
     /\ UNCHANGED <<admin_login_attempts, cookies, lreq>>

\* Mutant: the id of the row deleted last is given again (no AUTOINCREMENT).
AddUserReusing(c, n, role) ==
  LET row == [name |-> n, role |-> role, active |-> TRUE]
      last == Len(admin_users)
  IN /\ c[2] = "superadmin" /\ Valid(c)
     /\ Named(n) = {} /\ last < MaxUsers
     /\ admin_users' = IF last \in Users THEN Append(admin_users, row)
                                         ELSE [admin_users EXCEPT ![last] = row]
     /\ UNCHANGED <<admin_login_attempts, cookies, lreq, preq>>

\* A taken username is answered "exists".
AddUser(c, n, role) ==
  /\ c[2] = "superadmin" /\ Valid(c)
  /\ Named(n) = {} /\ Len(admin_users) < MaxUsers
  /\ admin_users' = WithUser(n, role)
  /\ UNCHANGED <<admin_login_attempts, cookies, lreq, preq>>

-----------------------------------------------------------------------------
\* The service is restarted: what it served is gone, and bootstrap_admin_users
\* adds the superadmin of the configuration when his row is missing.
Restart ==
  /\ Named(Bootstrap) = {} => Len(admin_users) < MaxUsers
  /\ admin_users' = WithUser(Bootstrap, "superadmin")
  /\ lreq' = [l \in Logins |-> NoLogin]
  /\ preq' = [p \in Posts |-> NoPost]
  /\ UNCHANGED <<admin_login_attempts, cookies>>

Tick ==
  /\ admin_login_attempts' =
       [i \in Rows |-> IF admin_login_attempts[i] = None \/ admin_login_attempts[i].age > Keep
                       THEN admin_login_attempts[i]
                       ELSE [admin_login_attempts[i] EXCEPT !.age = @ + 1]]
  /\ UNCHANGED <<admin_users, cookies, lreq, preq>>

LoginStep(l) ==
  \/ \E k \in Keys : LoginCheck(l, k)
  \/ \E right \in BOOLEAN : LoginRead(l, right)
  \/ LoginRecord(l) \/ LoginClear(l) \/ LoginCookie(l)

PostStep(p) ==
  \/ \E c \in cookies, op \in {"delete", "toggle"}, i \in 1 .. Len(admin_users) :
       PostGuard(p, c, op, i)
  \/ PostAuthor(p) \/ PostRead(p) \/ PostCount(p) \/ PostDelete(p) \/ PostToggle(p)

Next ==
  \/ \E l \in Logins : LoginStep(l)
  \/ \E p \in Posts : PostStep(p)
  \/ \E c \in cookies : CookieGone(c) \/ \E n \in Names, role \in Roles : AddUser(c, n, role)
  \/ Restart
  \/ Tick

Spec == Init /\ [][Next]_avars

-----------------------------------------------------------------------------
(* Properties. *)

\* Logins past the lock-out that may still end as a recorded failure.
Guessing(k) == {l \in Logins : lreq[l].pc \in {"read", "record"} /\ lreq[l].key = k}

\* Passwords tried for a user from an address within the window: the lock-out is
\* looked at before the password is verified and the failure recorded after, so
\* MaxFailures can be passed, but by no more than the logins served at once less
\* one.
GuessesAreBounded ==
  \A k \in Keys :
    Cardinality(Recent(k)) + Cardinality(Guessing(k)) <= MaxFailures + Cardinality(Logins) - 1

\* A form acts on the administrator whose line was clicked or on nobody, however
\* late it is served: an id never names another person or another role.
KeepsIds ==
  \A i \in 1 .. Len(admin_users) :
    \/ admin_users'[i] = None
    \/ /\ admin_users[i] # None
       /\ admin_users'[i].name = admin_users[i].name
       /\ admin_users'[i].role = admin_users[i].role

IdsAreForGood == [][KeepsIds]_avars

\* Nobody is locked out for ever, even by someone who never stops trying.  Time
\* passes.
LockEnds == \A k \in Keys : Locked(k) ~> ~ Locked(k)

\* With one form at a time a deletion never takes the last superadmin who can log
\* in, although its author's cookie may run out after the guard and he is then not
\* recognised as the one deleted.  (A toggle does not count; nor do two forms at
\* once see each other.)
KeepsLastSuperadmin ==
  \A p \in Posts : Posts = {p} /\ Superadmins # {} /\ preq[p].pc # "toggle"
                    => Superadmins' # {}

LastSuperadminIsNotDeleted == [][KeepsLastSuperadmin]_avars

=============================================================================
