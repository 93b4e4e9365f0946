-------------------------- MODULE AdminAccessProofs --------------------------
(***************************************************************************)
(* The lock-out and the table of administrators, for any number of users,  *)
(* addresses, logins and forms served at once.                             *)
(***************************************************************************)
EXTENDS AdminAccess, FiniteSetTheorems, SequenceTheorems, TLAPS

\* What a login in progress knows.
LoginOK ==
  \A l \in Logins :
    /\ lreq[l].pc # "idle" => lreq[l].key \in Keys
    /\ lreq[l].pc \in {"clear", "cookie"} => lreq[l].role \in Roles

\* A form names an id that has been given.  The only form, once it is about to
\* delete a superadmin, leaves another one, whom nobody else can take meanwhile.
DeletionOK ==
  \A p \in Posts :
    /\ preq[p].user <= Len(admin_users)
    /\ Posts = {p} /\ preq[p].pc = "delete" /\ preq[p].user \in Superadmins
         => \E j \in Superadmins : j # preq[p].user

\* The inductive invariant.
IInv == TypeOK /\ LoginOK /\ GuessesAreBounded /\ DeletionOK

-----------------------------------------------------------------------------
(* Rows. *)

\* The numbers among the constants.
LEMMA Parameters ==
  ASSUME AdminAccessAssumption
  PROVE  /\ MaxFailures \in Nat /\ MaxFailures > 0 /\ MaxRows \in Nat /\ MaxUsers \in Nat
         /\ MaxUsers > 0 /\ Window \in Nat /\ Lock \in Nat /\ Keep \in Nat
         /\ Window <= Keep /\ Window < Lock
         /\ Bootstrap \in Names /\ IsFiniteSet(Logins)
BY DEF AdminAccessAssumption

\* A row of the table that is there is one of an administrator.
LEMMA RowTyped ==
  ASSUME TypeOK, NEW i \in Users
  PROVE  /\ i \in 1 .. Len(admin_users) /\ admin_users[i] \in User
         /\ admin_users[i].name \in Names /\ admin_users[i].role \in Roles
         /\ admin_users[i].active \in BOOLEAN
<1>1. i \in 1 .. Len(admin_users) /\ admin_users[i] # None
  BY DEF Users
<1>2. admin_users[i] \in User \cup {None}
  BY <1>1, ElementOfSeq DEF TypeOK
<1> QED BY <1>1, <1>2 DEF User

\* A row that is changed leaves a table of administrators of the same length.
LEMMA TableTyped ==
  ASSUME TypeOK, NEW i \in 1 .. Len(admin_users), NEW row \in User \cup {None}
  PROVE  /\ [admin_users EXCEPT ![i] = row] \in Seq(User \cup {None})
         /\ Len([admin_users EXCEPT ![i] = row]) = Len(admin_users)
BY ExceptSeq DEF TypeOK

\* So does a row that is added, but for the length.
LEMMA AddedTyped ==
  ASSUME AdminAccessAssumption, TypeOK, NEW n \in Names, NEW role \in Roles,
         Named(n) = {} => Len(admin_users) < MaxUsers
  PROVE  /\ WithUser(n, role) \in Seq(User \cup {None}) /\ Len(WithUser(n, role)) <= MaxUsers
         /\ Len(WithUser(n, role)) >= Len(admin_users)
         /\ \A i \in 1 .. Len(admin_users) : WithUser(n, role)[i] = admin_users[i]
<1> DEFINE row == [name |-> n, role |-> role, active |-> TRUE]
<1>1. admin_users \in Seq(User \cup {None}) /\ Len(admin_users) \in Nat /\ MaxUsers \in Nat
      /\ Len(admin_users) <= MaxUsers
  BY Parameters DEF TypeOK
<1>2. row \in User \cup {None}
  BY DEF User
<1>3. /\ Append(admin_users, row) \in Seq(User \cup {None})
      /\ Len(Append(admin_users, row)) = Len(admin_users) + 1
      /\ \A i \in 1 .. Len(admin_users) : Append(admin_users, row)[i] = admin_users[i]
  BY <1>1, <1>2, AppendProperties
<1>4. WithUser(n, role) = IF Named(n) = {} THEN Append(admin_users, row) ELSE admin_users
  BY DEF WithUser
<1> HIDE DEF row
<1> QED BY <1>1, <1>3, <1>4

\* A look at the lock-out deletes only failures that no count sees.
LEMMA KeptTyped ==
  ASSUME AdminAccessAssumption, TypeOK
  PROVE  /\ Kept \in [Rows -> Failure \cup {None}]
         /\ \A i \in Rows : Kept[i] # None => Kept[i] = admin_login_attempts[i]
BY DEF TypeOK, Kept

-----------------------------------------------------------------------------
(* Types. *)

\* The invariant holds at first.
LEMMA InitInv == ASSUME AdminAccessAssumption, Init PROVE IInv
<1> USE Parameters DEF Init
<1>1. TypeOK
  <2>1. admin_users \in Seq(User \cup {None}) /\ Len(admin_users) <= MaxUsers
    BY DEF User, Roles
  <2> QED BY <2>1 DEF TypeOK, NoLogin, NoPost, Login, Post
<1>2. LoginOK
  BY DEF LoginOK, NoLogin
<1>3. GuessesAreBounded
  <2> SUFFICES ASSUME NEW k \in Keys
               PROVE  Cardinality(Recent(k)) + Cardinality(Guessing(k))
                        <= MaxFailures + Cardinality(Logins) - 1
    BY DEF GuessesAreBounded
  <2>1. Recent(k) = {} /\ Guessing(k) = {}
    BY DEF Recent, Guessing, NoLogin
  <2>2. Cardinality(Logins) \in Nat /\ Cardinality({}) = 0
    BY FS_CardinalityType, FS_EmptySet
  <2> QED BY <2>1, <2>2
<1>4. DeletionOK
  BY DEF DeletionOK, NoPost
<1> QED BY <1>1, <1>2, <1>3, <1>4 DEF IInv

\* A login keeps the types, and what it knows.
LEMMA LoginStepTyped ==
  ASSUME AdminAccessAssumption, NoRowAssumption, TypeOK, LoginOK, NEW l \in Logins, LoginStep(l)
  PROVE  TypeOK' /\ LoginOK'
<1> USE Parameters, KeptTyped
<1>t. /\ lreq \in [Logins -> Login] /\ admin_login_attempts \in [Rows -> Failure \cup {None}]
      /\ lreq[l] \in Login /\ NoLogin \in Login
  BY DEF TypeOK, Login, NoLogin
<1>1. ASSUME NEW k \in Keys, LoginCheck(l, k) PROVE TypeOK' /\ LoginOK'
  <2>1. [pc |-> "read", key |-> k, role |-> None] \in Login
    BY DEF Login
  <2>2. UNCHANGED <<admin_users, cookies, preq>> /\ admin_login_attempts' = Kept
    BY <1>1 DEF LoginCheck
  <2>3. CASE UNCHANGED lreq
    BY <1>t, <2>2, <2>3 DEF TypeOK, LoginOK
  <2>4. CASE lreq' = [lreq EXCEPT ![l] = [pc |-> "read", key |-> k, role |-> None]]
    BY <1>t, <2>1, <2>2, <2>4 DEF TypeOK, LoginOK
  <2> QED BY <1>1, <2>3, <2>4 DEF LoginCheck
<1>2. ASSUME NEW right \in BOOLEAN, LoginRead(l, right) PROVE TypeOK' /\ LoginOK'
  <2>1. CASE lreq' = [lreq EXCEPT ![l].pc = "record"]
    <3>1. [lreq[l] EXCEPT !.pc = "record"] \in Login
      BY <1>t DEF Login
    <3>2. lreq[l].pc = "read" /\ UNCHANGED <<admin_users, admin_login_attempts, cookies, preq>>
      BY <1>2 DEF LoginRead
    <3> QED BY <1>t, <2>1, <3>1, <3>2 DEF TypeOK, LoginOK, Login
  <2>2. ASSUME NEW i \in Users,
               lreq' = [lreq EXCEPT ![l].pc = "clear", ![l].role = admin_users[i].role]
        PROVE  TypeOK' /\ LoginOK'
    <3>1. admin_users[i].role \in Roles
      BY RowTyped
    <3>2. [lreq[l] EXCEPT !.pc = "clear", !.role = admin_users[i].role] \in Login
      BY <1>t, <3>1 DEF Login
    <3>3. lreq[l].pc = "read" /\ UNCHANGED <<admin_users, admin_login_attempts, cookies, preq>>
      BY <1>2 DEF LoginRead
    <3> QED BY <1>t, <2>2, <3>1, <3>2, <3>3 DEF TypeOK, LoginOK, Login
  <2> QED BY <1>2, <2>1, <2>2 DEF LoginRead, Named
<1>3. ASSUME LoginRecord(l) PROVE TypeOK' /\ LoginOK'
  <2>1. [key |-> lreq[l].key, age |-> 0] \in Failure
    BY <1>3 DEF LoginRecord, LoginOK, Failure
  <2> QED BY <1>3, <1>t, <2>1 DEF LoginRecord, EndLogin, TypeOK, LoginOK, NoLogin
<1>4. ASSUME LoginClear(l) PROVE TypeOK' /\ LoginOK'
  <2>1. [lreq[l] EXCEPT !.pc = "cookie"] \in Login
    BY <1>t DEF Login
  <2>2. admin_login_attempts' \in [Rows -> Failure \cup {None}]
    BY <1>4, <1>t DEF LoginClear
  <2> QED BY <1>4, <1>t, <2>1, <2>2 DEF LoginClear, TypeOK, LoginOK, Login
<1>5. ASSUME LoginCookie(l) PROVE TypeOK' /\ LoginOK'
  <2>1. <<lreq[l].key[1], lreq[l].role>> \in Names \X Roles
    BY <1>5 DEF LoginCookie, LoginOK, Keys
  <2> QED BY <1>5, <1>t, <2>1 DEF LoginCookie, EndLogin, TypeOK, LoginOK, NoLogin
<1> QED BY <1>1, <1>2, <1>3, <1>4, <1>5 DEF LoginStep

\* A form keeps the types.
LEMMA PostStepTyped ==
  ASSUME AdminAccessAssumption, NoRowAssumption, TypeOK, NEW p \in Posts, PostStep(p)
  PROVE  TypeOK'
<1> USE Parameters
<1>t. preq \in [Posts -> Post] /\ preq[p] \in Post /\ NoPost \in Post
  BY DEF TypeOK, Post, NoPost
<1>1. ASSUME NEW c \in cookies, NEW op \in {"delete", "toggle"}, NEW i \in 1 .. Len(admin_users),
             PostGuard(p, c, op, i)
      PROVE  TypeOK'
  <2>1. c \in Names \X Roles /\ i \in 0 .. MaxUsers
    BY DEF TypeOK
  <2>2. [pc |-> IF op = "delete" THEN "author" ELSE "read", op |-> op, user |-> i, self |-> c,
         author |-> None, active |-> FALSE] \in Post
    BY <2>1 DEF Post
  <2> QED BY <1>1, <1>t, <2>2 DEF PostGuard, TypeOK
<1>2. ASSUME PostAuthor(p) PROVE TypeOK'
  <2> DEFINE author == IF preq[p].self \in cookies /\ Valid(preq[p].self)
                       THEN preq[p].self[1] ELSE None
  <2>1. author \in Names \cup {None}
    BY DEF TypeOK
  <2>2. preq' = [preq EXCEPT ![p] = [preq[p] EXCEPT !.pc = "read", !.author = author]]
        /\ UNCHANGED <<admin_users, admin_login_attempts, cookies, lreq>>
    BY <1>2, <1>t DEF PostAuthor
  <2> HIDE DEF author
  <2>3. [preq[p] EXCEPT !.pc = "read", !.author = author] \in Post
    BY <1>t, <2>1 DEF Post
  <2> QED BY <1>t, <2>2, <2>3 DEF TypeOK
<1>3. ASSUME PostRead(p) PROVE TypeOK'
  <2>1. UNCHANGED <<admin_users, admin_login_attempts, cookies, lreq>>
    BY <1>3 DEF PostRead
  <2>2. CASE preq' = [preq EXCEPT ![p] = NoPost]
    BY <1>t, <2>1, <2>2 DEF TypeOK
  <2>3. ASSUME NEW pc \in {"toggle", "count", "delete"}, preq[p].user \in Users,
               preq' = [preq EXCEPT ![p].pc = pc, ![p].active = admin_users[preq[p].user].active]
        PROVE  TypeOK'
    <3>1. admin_users[preq[p].user].active \in BOOLEAN
      BY <2>3, RowTyped
    <3>2. [preq[p] EXCEPT !.pc = pc, !.active = admin_users[preq[p].user].active] \in Post
      BY <1>t, <3>1 DEF Post
    <3> QED BY <1>t, <2>1, <2>3, <3>2 DEF TypeOK
  <2> QED BY <1>3, <2>2, <2>3 DEF PostRead, EndPost
<1>4. ASSUME PostCount(p) PROVE TypeOK'
  <2>1. [preq[p] EXCEPT !.pc = "delete"] \in Post
    BY <1>t DEF Post
  <2> QED BY <1>4, <1>t, <2>1 DEF PostCount, EndPost, TypeOK
<1>5. ASSUME PostDelete(p) PROVE TypeOK'
  <2>1. admin_users' \in Seq(User \cup {None}) /\ Len(admin_users') = Len(admin_users)
    BY <1>5, TableTyped DEF PostDelete, TypeOK, Users
  <2> QED BY <1>5, <1>t, <2>1 DEF PostDelete, EndPost, TypeOK
<1>6. ASSUME PostToggle(p) PROVE TypeOK'
  <2> DEFINE i == preq[p].user
  <2>1. CASE i \in Users
    <3>1. [admin_users[i] EXCEPT !.active = ~ preq[p].active] \in User
      BY <1>t, <2>1, RowTyped DEF User, Post
    <3>2. admin_users' = [admin_users EXCEPT ![i] = [admin_users[i] EXCEPT !.active = ~ preq[p].active]]
      BY <1>6, <2>1 DEF PostToggle
    <3>3. admin_users' \in Seq(User \cup {None}) /\ Len(admin_users') = Len(admin_users)
      BY <2>1, <3>1, <3>2, TableTyped, RowTyped
    <3> QED BY <1>6, <1>t, <3>3 DEF PostToggle, EndPost, TypeOK
  <2>2. CASE i \notin Users
    BY <1>6, <1>t, <2>2 DEF PostToggle, EndPost, TypeOK
  <2> QED BY <2>1, <2>2
<1> QED BY <1>1, <1>2, <1>3, <1>4, <1>5, <1>6 DEF PostStep

\* Every step keeps the types.
LEMMA TypeStep ==
  ASSUME AdminAccessAssumption, NoRowAssumption, TypeOK, LoginOK, [Next]_avars
  PROVE  TypeOK' /\ LoginOK'
<1> USE Parameters
<1>t. /\ lreq \in [Logins -> Login] /\ admin_login_attempts \in [Rows -> Failure \cup {None}]
      /\ NoLogin \in Login /\ NoPost \in Post
  BY DEF TypeOK, Login, NoLogin, Post, NoPost
<1>1. ASSUME NEW l \in Logins, LoginStep(l) PROVE TypeOK' /\ LoginOK'
  BY <1>1, LoginStepTyped
<1>2. ASSUME NEW p \in Posts, PostStep(p) PROVE TypeOK' /\ LoginOK'
  <2>1. lreq' = lreq
    BY <1>2 DEF PostStep, PostGuard, PostAuthor, PostRead, PostCount, PostDelete, PostToggle
  <2> QED BY <1>2, <2>1, PostStepTyped DEF LoginOK
<1>3. ASSUME NEW c \in cookies, CookieGone(c) PROVE TypeOK' /\ LoginOK'
  BY <1>3 DEF CookieGone, TypeOK, LoginOK
<1>4. ASSUME NEW c \in cookies, NEW n \in Names, NEW role \in Roles, AddUser(c, n, role)
      PROVE  TypeOK' /\ LoginOK'
  <2>1. admin_users' \in Seq(User \cup {None}) /\ Len(admin_users') <= MaxUsers
    BY <1>4, AddedTyped DEF AddUser
  <2> QED BY <1>4, <2>1 DEF AddUser, TypeOK, LoginOK
<1>5. ASSUME Restart PROVE TypeOK' /\ LoginOK'
  <2>1. admin_users' \in Seq(User \cup {None}) /\ Len(admin_users') <= MaxUsers
    BY <1>5, AddedTyped DEF Restart, Roles
  <2>2. lreq' \in [Logins -> Login] /\ preq' \in [Posts -> Post]
    BY <1>5, <1>t DEF Restart
  <2>3. LoginOK'
    BY <1>5 DEF Restart, LoginOK, NoLogin
  <2> QED BY <1>5, <2>1, <2>2, <2>3 DEF Restart, TypeOK
<1>6. ASSUME Tick PROVE TypeOK' /\ LoginOK'
  <2>1. \A i \in Rows : admin_login_attempts[i] # None /\ ~ (admin_login_attempts[i].age > Keep)
                         => [admin_login_attempts[i] EXCEPT !.age = @ + 1] \in Failure
    BY <1>t DEF Failure
  <2>2. admin_login_attempts' \in [Rows -> Failure \cup {None}]
    BY <1>6, <1>t, <2>1 DEF Tick
  <2> QED BY <1>6, <2>2 DEF Tick, TypeOK, LoginOK
<1>7. ASSUME UNCHANGED avars PROVE TypeOK' /\ LoginOK'
  BY <1>7 DEF avars, TypeOK, LoginOK
<1> QED BY <1>1, <1>2, <1>3, <1>4, <1>5, <1>6, <1>7 DEF Next

-----------------------------------------------------------------------------
(* The lock-out. *)

\* What is counted is finite, and there are no more guesses than logins.
LEMMA Counted ==
  ASSUME AdminAccessAssumption, NEW k \in Keys
  PROVE  /\ IsFiniteSet(Recent(k)) /\ Cardinality(Recent(k)) \in Nat
         /\ IsFiniteSet(Guessing(k)) /\ Cardinality(Guessing(k)) \in Nat
         /\ Cardinality(Logins) \in Nat
         /\ Cardinality(Guessing(k)) <= Cardinality(Logins)
<1>1. IsFiniteSet(Rows)
  BY Parameters, FS_Interval DEF Rows
<1>2. Recent(k) \subseteq Rows /\ Guessing(k) \subseteq Logins
  BY DEF Recent, Guessing
<1> QED BY <1>1, <1>2, Parameters, FS_Subset, FS_CardinalityType

\* A lock outlasts the window: whoever is not locked out has failures to spare.
LEMMA NotLocked ==
  ASSUME AdminAccessAssumption, TypeOK, NEW k \in Keys, ~ Locked(k)
  PROVE  Cardinality(Recent(k)) < MaxFailures
<1> SUFFICES ASSUME ~ (Cardinality(Recent(k)) < MaxFailures) PROVE FALSE
  OBVIOUS
<1>1. Cardinality(Recent(k)) >= MaxFailures /\ Cardinality(Recent(k)) # 0
  BY Counted, Parameters
<1>2. PICK i \in Recent(k) : TRUE
  BY <1>1, Counted, FS_EmptySet
<1>3. i \in Rows /\ admin_login_attempts[i] \in Failure /\ admin_login_attempts[i].age <= Window
  BY <1>2 DEF Recent, TypeOK
<1>4. admin_login_attempts[i].age < Lock
  BY <1>3, Parameters DEF Failure
<1> QED BY <1>1, <1>2, <1>4 DEF Locked

\* What may follow a step without breaking the bound: nothing more is counted, ...
LEMMA NothingMore ==
  ASSUME AdminAccessAssumption, AdminAccessAssumption', GuessesAreBounded,
         \A k \in Keys : Recent(k)' \subseteq Recent(k) /\ Guessing(k)' \subseteq Guessing(k)
  PROVE  GuessesAreBounded'
<1> SUFFICES ASSUME NEW k \in Keys
             PROVE  Cardinality(Recent(k)') + Cardinality(Guessing(k)')
                      <= MaxFailures + Cardinality(Logins) - 1
  BY DEF GuessesAreBounded
<1>1. /\ Cardinality(Recent(k)') \in Nat /\ Cardinality(Recent(k)') <= Cardinality(Recent(k))
      /\ Cardinality(Guessing(k)') \in Nat /\ Cardinality(Guessing(k)') <= Cardinality(Guessing(k))
  BY Counted, FS_Subset, FS_CardinalityType
<1>2. Cardinality(Recent(k)) + Cardinality(Guessing(k)) <= MaxFailures + Cardinality(Logins) - 1
  BY DEF GuessesAreBounded
<1> QED BY <1>1, <1>2, Counted, Parameters

\* Every step keeps the bound: a login that passes the look finds failures to
\* spare, and a guess that is recorded is one no more.
LEMMA GuessStep ==
  ASSUME AdminAccessAssumption, NoRowAssumption, IInv, [Next]_avars PROVE GuessesAreBounded'
<1> USE Parameters
<1>t. /\ TypeOK /\ LoginOK /\ GuessesAreBounded
      /\ lreq \in [Logins -> Login] /\ admin_login_attempts \in [Rows -> Failure \cup {None}]
  BY DEF IInv, TypeOK
<1>k. ASSUME NEW k \in Keys, admin_login_attempts' = Kept PROVE Recent(k)' \subseteq Recent(k)
  BY <1>k DEF Recent, Kept
<1>1. ASSUME NEW l \in Logins, NEW k \in Keys, LoginCheck(l, k) PROVE GuessesAreBounded'
  <2>1. CASE UNCHANGED lreq
    <3>1. \A j \in Keys : Recent(j)' \subseteq Recent(j) /\ Guessing(j)' \subseteq Guessing(j)
      BY <1>1, <1>k, <2>1 DEF LoginCheck, Guessing
    <3> QED BY <1>t, <3>1, NothingMore
  <2>2. CASE ~ Locked(k) /\ lreq' = [lreq EXCEPT ![l] = [pc |-> "read", key |-> k, role |-> None]]
    <3> SUFFICES ASSUME NEW j \in Keys
                 PROVE  Cardinality(Recent(j)') + Cardinality(Guessing(j)')
                          <= MaxFailures + Cardinality(Logins) - 1
      BY DEF GuessesAreBounded
    <3>1. Recent(j)' \subseteq Recent(j)
      BY <1>1, <1>k DEF LoginCheck
    <3>2. Cardinality(Recent(j)') \in Nat /\ Cardinality(Recent(j)') <= Cardinality(Recent(j))
      BY <3>1, Counted, FS_Subset, FS_CardinalityType
    <3>3. CASE j = k
      <4>1. Cardinality(Recent(j)) < MaxFailures
        BY <1>t, <2>2, <3>3, NotLocked
      <4>2. Guessing(j)' \subseteq Logins
        BY DEF Guessing
      <4>3. Cardinality(Guessing(j)') \in Nat /\ Cardinality(Guessing(j)') <= Cardinality(Logins)
        BY <4>2, FS_Subset, FS_CardinalityType
      <4> QED BY <3>2, <4>1, <4>3, Counted
    <3>4. CASE j # k
      <4>1. Guessing(j)' \subseteq Guessing(j)
        BY <1>t, <2>2, <3>4 DEF Guessing
      <4>2. Cardinality(Guessing(j)') \in Nat /\ Cardinality(Guessing(j)') <= Cardinality(Guessing(j))
        BY <4>1, Counted, FS_Subset, FS_CardinalityType
      <4>3. Cardinality(Recent(j)) + Cardinality(Guessing(j)) <= MaxFailures + Cardinality(Logins) - 1
        BY <1>t DEF GuessesAreBounded
      <4> QED BY <3>2, <4>2, <4>3, Counted
    <3> QED BY <3>3, <3>4
  <2> QED BY <1>1, <2>1, <2>2 DEF LoginCheck
<1>2. ASSUME NEW l \in Logins, NEW right \in BOOLEAN, LoginRead(l, right) PROVE GuessesAreBounded'
  <2>1. /\ admin_login_attempts' = admin_login_attempts
        /\ lreq[l].pc = "read"
        /\ \A m \in Logins : lreq'[m].key = lreq[m].key /\ (m # l => lreq'[m] = lreq[m])
    <3>1. CASE lreq' = [lreq EXCEPT ![l].pc = "record"]
      BY <1>2, <1>t, <3>1 DEF LoginRead, Login
    <3>2. ASSUME NEW role, lreq' = [lreq EXCEPT ![l].pc = "clear", ![l].role = role]
          PROVE  <2>1!2 /\ <2>1!3
      BY <1>2, <1>t, <3>2 DEF LoginRead, Login
    <3> QED BY <1>2, <3>1, <3>2 DEF LoginRead
  <2>2. \A j \in Keys : Recent(j)' \subseteq Recent(j) /\ Guessing(j)' \subseteq Guessing(j)
    BY <2>1 DEF Recent, Guessing
  <2> QED BY <1>t, <2>2, NothingMore
<1>3. ASSUME NEW l \in Logins, LoginRecord(l) PROVE GuessesAreBounded'
  <2> DEFINE k == lreq[l].key
  <2>1. k \in Keys /\ l \in Guessing(k) /\ NoLogin.pc = "idle"
    BY <1>3, <1>t DEF LoginRecord, LoginOK, Guessing, NoLogin
  <2>2. PICK i \in Rows : /\ Kept[i] = None
                          /\ admin_login_attempts' = [Kept EXCEPT ![i] = [key |-> k, age |-> 0]]
    BY <1>3 DEF LoginRecord
  <2>3. lreq' = [lreq EXCEPT ![l] = NoLogin]
    BY <1>3 DEF LoginRecord, EndLogin
  <2> SUFFICES ASSUME NEW j \in Keys
               PROVE  Cardinality(Recent(j)') + Cardinality(Guessing(j)')
                        <= MaxFailures + Cardinality(Logins) - 1
    BY DEF GuessesAreBounded
  <2>4. Cardinality(Recent(j)) + Cardinality(Guessing(j)) <= MaxFailures + Cardinality(Logins) - 1
    BY <1>t DEF GuessesAreBounded
  <2>5. CASE j = k
    <3>1. Recent(j)' \subseteq Recent(j) \cup {i}
      BY <2>2, <1>t DEF Recent, Kept
    <3>2. Guessing(j)' \subseteq Guessing(j) \ {l}
      BY <1>t, <2>1, <2>3 DEF Guessing
    <3>3. /\ IsFiniteSet(Recent(j) \cup {i})
          /\ Cardinality(Recent(j) \cup {i}) <= Cardinality(Recent(j)) + 1
          /\ Cardinality(Recent(j) \cup {i}) \in Nat
      <4>1. IsFiniteSet(Recent(j)) /\ Cardinality(Recent(j)) \in Nat
        BY Counted
      <4>2. /\ IsFiniteSet(Recent(j) \cup {i})
            /\ \/ Cardinality(Recent(j) \cup {i}) = Cardinality(Recent(j))
               \/ Cardinality(Recent(j) \cup {i}) = Cardinality(Recent(j)) + 1
        BY <4>1, FS_AddElement
      <4> QED BY <4>1, <4>2
    <3>4. Cardinality(Recent(j)') \in Nat /\ Cardinality(Recent(j)') <= Cardinality(Recent(j)) + 1
      BY <3>1, <3>3, Counted, FS_Subset, FS_CardinalityType
    <3>5. /\ IsFiniteSet(Guessing(j) \ {l})
          /\ Cardinality(Guessing(j) \ {l}) = Cardinality(Guessing(j)) - 1
      BY <2>1, <2>5, Counted, FS_RemoveElement
    <3>6. /\ Cardinality(Guessing(j)') \in Nat
          /\ Cardinality(Guessing(j)') <= Cardinality(Guessing(j)) - 1
      BY <3>2, <3>5, FS_Subset, FS_CardinalityType
    <3> QED BY <2>4, <3>4, <3>6, Counted
  <2>6. CASE j # k
    <3>1. Recent(j)' \subseteq Recent(j)
      BY <2>2, <2>6, <1>t DEF Recent, Kept
    <3>2. Guessing(j)' \subseteq Guessing(j)
      BY <1>t, <2>1, <2>3 DEF Guessing
    <3>3. /\ Cardinality(Recent(j)') \in Nat /\ Cardinality(Recent(j)') <= Cardinality(Recent(j))
          /\ Cardinality(Guessing(j)') \in Nat /\ Cardinality(Guessing(j)') <= Cardinality(Guessing(j))
      BY <3>1, <3>2, Counted, FS_Subset, FS_CardinalityType
    <3> QED BY <2>4, <3>3, Counted
  <2> QED BY <2>5, <2>6
<1>4. ASSUME NEW l \in Logins, LoginClear(l) \/ LoginCookie(l) PROVE GuessesAreBounded'
  <2>1. \A j \in Keys : Recent(j)' \subseteq Recent(j)
    BY <1>4, <1>t DEF LoginClear, LoginCookie, Recent
  <2>2. \A m \in Logins : \/ lreq'[m] = lreq[m]
                         \/ lreq'[m].pc \in {"idle", "cookie"}
    BY <1>4, <1>t DEF LoginClear, LoginCookie, EndLogin, NoLogin, Login
  <2>3. \A j \in Keys : Guessing(j)' \subseteq Guessing(j)
    BY <2>2 DEF Guessing
  <2> QED BY <1>t, <2>1, <2>3, NothingMore
<1>5. ASSUME Tick PROVE GuessesAreBounded'
  <2>1. \A j \in Keys : Recent(j)' \subseteq Recent(j)
    <3> SUFFICES ASSUME NEW j \in Keys, NEW i \in Recent(j)' PROVE i \in Recent(j)
      OBVIOUS
    <3>1. /\ i \in Rows /\ admin_login_attempts'[i] # None
          /\ admin_login_attempts'[i].key = j /\ admin_login_attempts'[i].age <= Window
      BY DEF Recent
    <3>2. CASE admin_login_attempts'[i] = admin_login_attempts[i]
      BY <3>1, <3>2 DEF Recent
    <3>3. CASE /\ admin_login_attempts[i] # None
               /\ admin_login_attempts'[i] = [admin_login_attempts[i] EXCEPT !.age = @ + 1]
      <4>1. admin_login_attempts[i] \in Failure
        BY <1>t, <3>1, <3>3
      <4> QED BY <3>1, <3>3, <4>1 DEF Failure, Recent
    <3> QED BY <1>5, <3>1, <3>2, <3>3 DEF Tick
  <2>2. \A j \in Keys : Guessing(j)' \subseteq Guessing(j)
    BY <1>5 DEF Tick, Guessing
  <2> QED BY <1>t, <2>1, <2>2, NothingMore
<1>6. ASSUME Restart PROVE GuessesAreBounded'
  <2>1. \A j \in Keys : Recent(j)' \subseteq Recent(j) /\ Guessing(j)' \subseteq Guessing(j)
    BY <1>6 DEF Restart, NoLogin, Recent, Guessing
  <2> QED BY <1>t, <2>1, NothingMore
<1>7. ASSUME UNCHANGED <<admin_login_attempts, lreq>> PROVE GuessesAreBounded'
  <2>1. \A j \in Keys : Recent(j)' \subseteq Recent(j) /\ Guessing(j)' \subseteq Guessing(j)
    BY <1>7 DEF Recent, Guessing
  <2> QED BY <1>t, <2>1, NothingMore
<1>8. ASSUME NEW p \in Posts, PostStep(p) PROVE UNCHANGED <<admin_login_attempts, lreq>>
  BY <1>8 DEF PostStep, PostGuard, PostAuthor, PostRead, PostCount, PostDelete, PostToggle
<1>9. ASSUME NEW c \in cookies,
             CookieGone(c) \/ \E n \in Names, role \in Roles : AddUser(c, n, role)
      PROVE  UNCHANGED <<admin_login_attempts, lreq>>
  BY <1>9 DEF CookieGone, AddUser
<1>10. ASSUME UNCHANGED avars PROVE UNCHANGED <<admin_login_attempts, lreq>>
  BY <1>10 DEF avars
<1>11. ASSUME NEW l \in Logins, LoginStep(l) PROVE GuessesAreBounded'
  BY <1>1, <1>2, <1>3, <1>4, <1>11 DEF LoginStep
<1> QED BY <1>5, <1>6, <1>7, <1>8, <1>9, <1>10, <1>11 DEF Next

-----------------------------------------------------------------------------
(* The table. *)

\* Every step leaves every id with the administrator it was given to, or with none.
LEMMA IdStep ==
  ASSUME AdminAccessAssumption, NoRowAssumption, IInv, [Next]_avars PROVE [KeepsIds]_avars
<1> USE DEF KeepsIds
<1>t. TypeOK /\ preq \in [Posts -> Post] /\ \A i \in Users : i \in 1 .. Len(admin_users)
  BY DEF IInv, TypeOK, Users
<1>1. ASSUME UNCHANGED admin_users PROVE KeepsIds
  <2>1. \A i \in 1 .. Len(admin_users) : admin_users[i] = None \/ i \in Users
    BY DEF Users
  <2> QED BY <1>1, <2>1 DEF Users
<1>2. ASSUME NEW n \in Names, NEW role \in Roles, admin_users' = WithUser(n, role),
             Named(n) = {} => Len(admin_users) < MaxUsers
      PROVE  KeepsIds
  <2>1. \A i \in 1 .. Len(admin_users) : admin_users'[i] = admin_users[i]
    BY <1>2, <1>t, AddedTyped
  <2> QED BY <2>1
<1>3. ASSUME NEW p \in Posts, PostDelete(p) PROVE KeepsIds
  BY <1>3, <1>t DEF PostDelete, Users, TypeOK
<1>4. ASSUME NEW p \in Posts, PostToggle(p) PROVE KeepsIds
  <2> DEFINE i == preq[p].user
  <2>1. CASE i \in Users
    <3>1. admin_users' = [admin_users EXCEPT ![i] = [admin_users[i] EXCEPT !.active = ~ preq[p].active]]
      BY <1>4, <2>1 DEF PostToggle
    <3>2. admin_users[i] \in User
      BY <1>t, <2>1, RowTyped
    <3>3. \A j \in 1 .. Len(admin_users) : j # i => admin_users'[j] = admin_users[j]
      BY <1>t, <2>1, <3>1 DEF TypeOK
    <3>4. /\ admin_users'[i].name = admin_users[i].name
          /\ admin_users'[i].role = admin_users[i].role
      BY <1>t, <2>1, <3>1, <3>2 DEF TypeOK, User
    <3> QED BY <2>1, <3>3, <3>4 DEF Users
  <2>2. CASE i \notin Users
    BY <1>1, <1>4, <2>2 DEF PostToggle
  <2> QED BY <2>1, <2>2
<1>5. ASSUME NEW p \in Posts, PostStep(p), ~ PostDelete(p), ~ PostToggle(p)
      PROVE  UNCHANGED admin_users
  BY <1>5 DEF PostStep, PostGuard, PostAuthor, PostRead, PostCount
<1>6. ASSUME NEW l \in Logins, LoginStep(l) PROVE UNCHANGED admin_users
  BY <1>6 DEF LoginStep, LoginCheck, LoginRead, LoginRecord, LoginClear, LoginCookie
<1>7. ASSUME NEW c \in cookies, CookieGone(c) PROVE UNCHANGED admin_users
  BY <1>7 DEF CookieGone
<1>8. ASSUME NEW c \in cookies, NEW n \in Names, NEW role \in Roles, AddUser(c, n, role)
      PROVE  KeepsIds
  BY <1>8, <1>2 DEF AddUser
<1>9. ASSUME Restart PROVE KeepsIds
  BY <1>9, <1>2, Parameters DEF Restart, Roles
<1>10. ASSUME Tick PROVE UNCHANGED admin_users
  BY <1>10 DEF Tick
<1> QED
  BY <1>1, <1>3, <1>4, <1>5, <1>6, <1>7, <1>8, <1>9, <1>10 DEF Next

-----------------------------------------------------------------------------
(* The last superadmin. *)

\* Rows that are not touched stay those of superadmins, or of others.
LEMMA SameSuperadmins ==
  ASSUME TypeOK, Len(admin_users') \in Nat, Len(admin_users') >= Len(admin_users),
         \A i \in 1 .. Len(admin_users) : admin_users'[i] = admin_users[i]
  PROVE  \A i \in 1 .. Len(admin_users) : i \in Superadmins' <=> i \in Superadmins
BY DEF TypeOK, Superadmins, Users

\* A new user, or the superadmin of the configuration, takes nobody's place.
LEMMA MoreUsers ==
  ASSUME AdminAccessAssumption, TypeOK, NEW n \in Names, NEW role \in Roles,
         Named(n) = {} => Len(admin_users) < MaxUsers, admin_users' = WithUser(n, role)
  PROVE  /\ \A i \in 1 .. Len(admin_users) : i \in Superadmins' <=> i \in Superadmins
         /\ Len(admin_users') >= Len(admin_users)
<1>1. /\ Len(admin_users') \in Nat /\ Len(admin_users') >= Len(admin_users)
      /\ \A i \in 1 .. Len(admin_users) : admin_users'[i] = admin_users[i]
  BY AddedTyped, LenProperties
<1> QED BY <1>1, SameSuperadmins

\* Where more than one is counted there is another.
LEMMA Another ==
  ASSUME TypeOK, NEW i \in Superadmins, ~ (Cardinality(Superadmins) <= 1)
  PROVE  \E j \in Superadmins : j # i
<1> SUFFICES ASSUME \A j \in Superadmins : j = i PROVE FALSE
  OBVIOUS
<1>1. Superadmins = {i}
  OBVIOUS
<1>2. Cardinality({i}) = 1
  BY FS_Singleton
<1> QED BY <1>1, <1>2

\* The table and the forms stay: so does what a form knows of them.
LEMMA DeletionKept ==
  ASSUME TypeOK, DeletionOK, Len(admin_users') \in Nat, Len(admin_users') >= Len(admin_users),
         \A i \in 1 .. Len(admin_users) : i \in Superadmins' <=> i \in Superadmins,
         preq' = preq
  PROVE  DeletionOK'
<1>1. \A p \in Posts : preq[p].user \in Nat /\ preq[p].user <= Len(admin_users)
  BY DEF TypeOK, Post, DeletionOK
<1>2. Superadmins \subseteq 1 .. Len(admin_users) /\ 0 \notin Superadmins'
  BY DEF Superadmins, Users
<1>3. \A p \in Posts : preq[p].user \in Superadmins' => preq[p].user \in Superadmins
  <2> SUFFICES ASSUME NEW p \in Posts, preq[p].user \in Superadmins'
               PROVE  preq[p].user \in Superadmins
    OBVIOUS
  <2>1. preq[p].user \in 1 .. Len(admin_users)
    BY <1>1, <1>2 DEF TypeOK
  <2> QED BY <2>1
<1> QED BY <1>1, <1>2, <1>3 DEF DeletionOK

\* A step of a form.
LEMMA DeletionPost ==
  ASSUME AdminAccessAssumption, TypeOK, DeletionOK, NEW p \in Posts, PostStep(p)
  PROVE  DeletionOK'
<1>t. preq \in [Posts -> Post] /\ preq[p] \in Post /\ Len(admin_users) \in Nat
  BY DEF TypeOK
<1>1. ASSUME admin_users' = admin_users,
             \E x : preq' = [preq EXCEPT ![p] = x] /\ x.user <= Len(admin_users)
                    /\ (x.pc = "delete" /\ x.user \in Superadmins
                         => \E j \in Superadmins : j # x.user)
      PROVE  DeletionOK'
  <2>1. Superadmins' = Superadmins
    BY <1>1 DEF Superadmins, Users
  <2> QED BY <1>1, <1>t, <2>1 DEF DeletionOK
<1>2. ASSUME EndPost(p), Len(admin_users') = Len(admin_users) PROVE DeletionOK'
  <2>1. preq'[p] = NoPost /\ \A q \in Posts : q # p => preq'[q] = preq[q]
    BY <1>2, <1>t DEF EndPost
  <2> QED BY <1>2, <1>t, <2>1 DEF DeletionOK, NoPost
<1>3. ASSUME NEW c \in cookies, NEW op \in {"delete", "toggle"}, NEW i \in 1 .. Len(admin_users),
             PostGuard(p, c, op, i)
      PROVE  DeletionOK'
  <2> DEFINE x == [pc |-> IF op = "delete" THEN "author" ELSE "read", op |-> op, user |-> i,
                   self |-> c, author |-> None, active |-> FALSE]
  <2>1. admin_users' = admin_users /\ preq' = [preq EXCEPT ![p] = x]
    BY <1>3 DEF PostGuard
  <2>2. x.user <= Len(admin_users) /\ x.pc # "delete"
    BY <1>t
  <2> HIDE DEF x
  <2> QED BY <1>1, <2>1, <2>2
<1>4. ASSUME PostAuthor(p) PROVE DeletionOK'
  <2> DEFINE x == [preq[p] EXCEPT !.pc = "read",
                     !.author = IF preq[p].self \in cookies /\ Valid(preq[p].self)
                                THEN preq[p].self[1] ELSE None]
  <2>1. admin_users' = admin_users /\ preq' = [preq EXCEPT ![p] = x]
    BY <1>4, <1>t DEF PostAuthor
  <2>2. x.user = preq[p].user /\ x.pc = "read"
    BY <1>t DEF Post
  <2> HIDE DEF x
  <2> QED BY <1>1, <2>1, <2>2 DEF DeletionOK
<1>5. ASSUME PostRead(p) PROVE DeletionOK'
  <2> DEFINE i == preq[p].user
             x(pc) == [preq[p] EXCEPT !.pc = pc, !.active = admin_users[i].active]
  <2>1. CASE EndPost(p)
    BY <1>2, <1>5, <2>1 DEF PostRead
  <2>2. CASE ~ EndPost(p)
    <3>1. /\ admin_users' = admin_users
          /\ \E pc \in {"toggle", "count", "delete"} :
               /\ preq' = [preq EXCEPT ![p] = x(pc)]
               /\ pc = "delete" => i \notin Superadmins
      BY <1>5, <1>t, <2>2 DEF PostRead, Superadmins
    <3>2. \A pc \in {"toggle", "count", "delete"} : x(pc).user = i /\ x(pc).pc = pc
      BY <1>t DEF Post
    <3>3. i <= Len(admin_users)
      BY DEF DeletionOK
    <3> HIDE DEF x
    <3> QED BY <1>1, <3>1, <3>2, <3>3
  <2> QED BY <2>1, <2>2
<1>6. ASSUME PostCount(p) PROVE DeletionOK'
  <2> DEFINE x == [preq[p] EXCEPT !.pc = "delete"]
  <2>1. CASE EndPost(p)
    BY <1>2, <1>6, <2>1 DEF PostCount
  <2>2. CASE ~ EndPost(p)
    <3>1. /\ admin_users' = admin_users /\ preq' = [preq EXCEPT ![p] = x]
          /\ ~ (Cardinality(Superadmins) <= 1)
      BY <1>6, <1>t, <2>2 DEF PostCount
    <3>2. x.user = preq[p].user
      BY <1>t DEF Post
    <3>3. x.user <= Len(admin_users)
      BY <3>2 DEF DeletionOK
    <3> HIDE DEF x
    <3>4. x.user \in Superadmins => \E j \in Superadmins : j # x.user
      BY <3>1, Another
    <3> QED BY <1>1, <3>1, <3>3, <3>4
  <2> QED BY <2>1, <2>2
<1>7. ASSUME PostDelete(p) \/ PostToggle(p) PROVE DeletionOK'
  <2>1. Len(admin_users') = Len(admin_users)
    BY <1>7, <1>t DEF PostDelete, PostToggle, TypeOK
  <2> QED BY <1>2, <1>7, <2>1 DEF PostDelete, PostToggle
<1> QED BY <1>3, <1>4, <1>5, <1>6, <1>7 DEF PostStep

\* Every step keeps it.
LEMMA DeletionStep ==
  ASSUME AdminAccessAssumption, NoRowAssumption, TypeOK, DeletionOK, [Next]_avars
  PROVE  DeletionOK'
<1>t. Len(admin_users) \in Nat
  BY DEF TypeOK
<1>1. ASSUME UNCHANGED <<admin_users, preq>> PROVE DeletionOK'
  BY <1>1 DEF DeletionOK, Superadmins, Users
<1>2. ASSUME NEW n \in Names, NEW role \in Roles, admin_users' = WithUser(n, role),
             Named(n) = {} => Len(admin_users) < MaxUsers
      PROVE  /\ preq' = preq => DeletionOK'
             /\ Len(admin_users') \in Nat /\ Len(admin_users') >= Len(admin_users)
  <2>1. Len(admin_users') \in Nat
    BY <1>2, AddedTyped, LenProperties
  <2> QED BY <1>2, <2>1, MoreUsers, DeletionKept
<1>3. ASSUME NEW l \in Logins, LoginStep(l) PROVE UNCHANGED <<admin_users, preq>>
  BY <1>3 DEF LoginStep, LoginCheck, LoginRead, LoginRecord, LoginClear, LoginCookie
<1>4. ASSUME NEW c \in cookies, NEW n \in Names, NEW role \in Roles, AddUser(c, n, role)
      PROVE  DeletionOK'
  BY <1>2, <1>4 DEF AddUser
<1>5. ASSUME Restart PROVE DeletionOK'
  <2>1. Len(admin_users') \in Nat
    BY <1>2, <1>5, Parameters DEF Restart, Roles
  <2> QED BY <1>5, <2>1 DEF Restart, DeletionOK, NoPost
<1> QED
  BY <1>1, <1>3, <1>4, <1>5, DeletionPost DEF Next, CookieGone, Tick, avars

\* Only a deletion takes superadmins, and the only form leaves one.
LEMMA LastStep ==
  ASSUME AdminAccessAssumption, NoRowAssumption, IInv, [Next]_avars
  PROVE  [KeepsLastSuperadmin]_avars
<1> SUFFICES ASSUME NEW p \in Posts, Posts = {p}, NEW i \in Superadmins, preq[p].pc # "toggle",
                    ~ UNCHANGED avars
             PROVE  Superadmins' # {}
  BY DEF KeepsLastSuperadmin
<1>t. TypeOK /\ DeletionOK /\ i \in 1 .. Len(admin_users)
  BY DEF IInv, Superadmins, Users
<1>1. CASE UNCHANGED admin_users
  BY <1>1 DEF Superadmins, Users
<1>2. ASSUME NEW n \in Names, NEW role \in Roles, admin_users' = WithUser(n, role),
             Named(n) = {} => Len(admin_users) < MaxUsers
      PROVE  Superadmins' # {}
  BY <1>2, <1>t, MoreUsers
<1>3. CASE PostDelete(p)
  <2>1. PICK j \in Superadmins : j # preq[p].user
    BY <1>3, <1>t DEF PostDelete, DeletionOK
  <2>2. admin_users'[j] = admin_users[j] /\ Len(admin_users') = Len(admin_users)
    BY <1>3, <1>t, <2>1 DEF PostDelete, TypeOK, Superadmins, Users
  <2> QED BY <2>1, <2>2 DEF Superadmins, Users
<1>4. ASSUME NEW l \in Logins, LoginStep(l) PROVE UNCHANGED admin_users
  BY <1>4 DEF LoginStep, LoginCheck, LoginRead, LoginRecord, LoginClear, LoginCookie
<1>5. ASSUME PostStep(p), ~ PostDelete(p) PROVE UNCHANGED admin_users
  BY <1>5 DEF PostStep, PostGuard, PostAuthor, PostRead, PostCount, PostToggle
<1>6. ASSUME NEW c \in cookies, NEW n \in Names, NEW role \in Roles, AddUser(c, n, role)
      PROVE  Superadmins' # {}
  BY <1>2, <1>6 DEF AddUser
<1>7. ASSUME Restart PROVE Superadmins' # {}
  BY <1>2, <1>7, Parameters DEF Restart, Roles
<1> QED
  BY <1>1, <1>3, <1>4, <1>5, <1>6, <1>7 DEF Next, CookieGone, Tick

-----------------------------------------------------------------------------
(* Results. *)

\* The invariant is inductive, and holds.
LEMMA NextInv ==
  ASSUME AdminAccessAssumption, NoRowAssumption, IInv, [Next]_avars PROVE IInv'
BY TypeStep, GuessStep, DeletionStep DEF IInv

\* The invariant of logins, forms and failures.
LEMMA Invariance == ASSUME AdminAccessAssumption, NoRowAssumption PROVE Spec => []IInv
<1>1. Init => IInv
  BY InitInv
<1>2. IInv /\ [Next]_avars => IInv'
  BY NextInv
<1> QED BY <1>1, <1>2, PTL DEF Spec

\* The tables of administrators and failures, the logins and the forms are
\* type-correct.
THEOREM TypeCorrect == ASSUME AdminAccessAssumption, NoRowAssumption PROVE Spec => []TypeOK
BY Invariance, PTL DEF IInv

\* The lock-out of /admin/login, which is looked at before the password and fed
\* after it, is passed by at most one login less than are served at once.
THEOREM GuessesStayBounded ==
  ASSUME AdminAccessAssumption, NoRowAssumption PROVE Spec => []GuessesAreBounded
BY Invariance, PTL DEF IInv

\* A form of the users page never acts on another administrator than the one whose
\* line was clicked.
THEOREM IdsStay == ASSUME AdminAccessAssumption, NoRowAssumption PROVE Spec => IdsAreForGood
<1>1. IInv /\ [Next]_avars => [KeepsIds]_avars
  BY IdStep
<1> QED BY <1>1, Invariance, PTL DEF Spec, IdsAreForGood

\* While one form is served at a time, no deletion takes the last superadmin who can
\* log in, although its author, the target and the count are read one by one.
THEOREM LastSuperadminStays ==
  ASSUME AdminAccessAssumption, NoRowAssumption PROVE Spec => LastSuperadminIsNotDeleted
<1>1. IInv /\ [Next]_avars => [KeepsLastSuperadmin]_avars
  BY LastStep
<1> QED BY <1>1, Invariance, PTL DEF Spec, LastSuperadminIsNotDeleted

=============================================================================
