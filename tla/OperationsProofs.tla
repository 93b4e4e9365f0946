--------------------------- MODULE OperationsProofs ---------------------------
(***************************************************************************)
(* The parts of Operations, for every value of their constants: what each  *)
(* keeps is proved of its instance and carried to the behaviours of the    *)
(* whole.  The parts of AdminAccess have their lemmas from the instances   *)
(* of its proofs, Setup from the proofs this module extends.               *)
(***************************************************************************)
EXTENDS Operations, SetupProofs, FiniteSetTheorems, SequenceTheorems

-----------------------------------------------------------------------------
(* The parts side by side. *)

\* A behaviour begins where its part begins.
LEMMA PartsBegin ==
  ASSUME PartInit
  PROVE  /\ part = "lockout" => Lockout!Init
         /\ part = "users" => Users!Init
         /\ Init
         /\ part = "startup" => Migration!Init
         /\ part = "rooms" => Rooms!Init
         /\ part = "networks" => Nets!Init
         /\ part = "backups" => Copies!Init
         /\ part = "retention" => Old!Init
         /\ part = "settings" => Saved!Init
         /\ part = "hosts" => Router!Init
BY DEF PartInit, NoSetup

\* A step is one of its part, or leaves it alone.
LEMMA PartsStep ==
  ASSUME [PartNext]_vars
  PROVE  /\ part' = part
         /\ part = "lockout" => [Lockout!Next]_(Lockout!avars)
         /\ part = "users" => [Users!Next]_(Users!avars)
         /\ [Next]_svars
         /\ part = "startup" => [Migration!Next]_(Migration!uvars)
         /\ part = "rooms" => [Rooms!Next]_(Rooms!rvars)
         /\ part = "networks" => [Nets!Next]_(Nets!nvars)
         /\ part = "backups" => [Copies!Next]_(Copies!bvars)
         /\ part = "retention" => [Old!Next]_(Old!tvars)
         /\ part = "settings" => [Saved!Next]_(Saved!setvars)
         /\ part = "hosts" => [Router!Next]_(Router!hvars)
<1> USE DEF adminvars, svars, startvars, roomvars, netvars, backupvars, retentionvars, settingvars,
            hostvars
<1>1. CASE part = "lockout" /\ Lockout!Next /\ NotAdmin
  BY <1>1 DEF NotAdmin
<1>2. CASE part = "users" /\ Users!Next /\ NotAdmin
  BY <1>2 DEF NotAdmin
<1>3. CASE part = "setup" /\ Next /\ NotSetup
  BY <1>3 DEF NotSetup
<1>4. CASE part = "startup" /\ Migration!Next /\ NotStart
  BY <1>4 DEF NotStart
<1>5. CASE part = "rooms" /\ Rooms!Next /\ NotRooms
  BY <1>5 DEF NotRooms
<1>6. CASE part = "networks" /\ Nets!Next /\ NotNets
  BY <1>6 DEF NotNets
<1>7. CASE part = "backups" /\ Copies!Next /\ NotBackup
  BY <1>7 DEF NotBackup
<1>8. CASE part = "retention" /\ Old!Next /\ NotRetention
  BY <1>8 DEF NotRetention
<1>9. CASE part = "settings" /\ Saved!Next /\ NotSettings
  BY <1>9 DEF NotSettings
<1>10. CASE part = "hosts" /\ Router!Next /\ NotHosts
  BY <1>10 DEF NotHosts
<1>11. CASE UNCHANGED vars
  BY <1>11 DEF vars, Lockout!avars, Users!avars, Migration!uvars, Rooms!rvars, Nets!nvars,
               Copies!bvars, Old!tvars, Saved!setvars, Router!hvars
<1> QED
  BY <1>1, <1>2, <1>3, <1>4, <1>5, <1>6, <1>7, <1>8, <1>9, <1>10, <1>11 DEF PartNext

\* What leaves the variables of its part alone is no step.
LEMMA PartsRest ==
  ASSUME [PartNext]_vars
  PROVE  /\ part = "users" /\ UNCHANGED (Users!avars) => UNCHANGED vars
         /\ part = "rooms" /\ UNCHANGED (Rooms!rvars) => UNCHANGED vars
         /\ part = "settings" /\ UNCHANGED (Saved!setvars) => UNCHANGED vars
BY DEF PartNext, vars, NotAdmin, NotRooms, NotSettings, Users!avars, Rooms!rvars, Saved!setvars,
       adminvars, roomvars, settingvars

-----------------------------------------------------------------------------
(* Administrators. *)

LockoutProofs == INSTANCE AdminAccessProofs
  WITH Names <- LockNames, Logins <- LockLogins, Posts <- LockPosts, MaxRows <- LockRows,
       MaxUsers <- LockUsers
UsersProofs == INSTANCE AdminAccessProofs
  WITH Names <- PageNames, Logins <- PageLogins, Posts <- PagePosts, MaxRows <- PageRows,
       MaxUsers <- PageUsers

\* The part "lockout" is what the proofs of AdminAccess are about ...
LEMMA LockoutIsProved ==
  /\ Lockout!AdminAccessAssumption <=> LockoutProofs!AdminAccessAssumption
  /\ Lockout!NoRowAssumption <=> LockoutProofs!NoRowAssumption
  /\ Lockout!Init <=> LockoutProofs!Init
  /\ [Lockout!Next]_(Lockout!avars) <=> [LockoutProofs!Next]_(LockoutProofs!avars)
  /\ Lockout!TypeOK <=> LockoutProofs!TypeOK
  /\ Lockout!GuessesAreBounded <=> LockoutProofs!GuessesAreBounded
<1>1. \A S : Lockout!Cardinality(S) = LockoutProofs!Cardinality(S)
  BY DEF Lockout!Cardinality, LockoutProofs!Cardinality
<1>2. \A S : Lockout!IsFiniteSet(S) <=> LockoutProofs!IsFiniteSet(S)
  BY DEF Lockout!IsFiniteSet, LockoutProofs!IsFiniteSet
<1> USE DEF Lockout!Roles, Lockout!Keys, Lockout!Rows, Lockout!AdminAccessAssumption, Lockout!User,
         Lockout!Failure, Lockout!NoRowAssumption, Lockout!Login, Lockout!Post,
         Lockout!NoLogin, Lockout!NoPost, Lockout!TypeOK, Lockout!Users, Lockout!Named,
         Lockout!Superadmins, Lockout!WithUser, Lockout!Init, Lockout!Valid,
         Lockout!Recent, Lockout!Locked, Lockout!Kept, Lockout!EndLogin,
         Lockout!LoginCheck, Lockout!LoginRead, Lockout!LoginRecord, Lockout!LoginClear,
         Lockout!LoginCookie, Lockout!CookieGone, Lockout!EndPost, Lockout!PostGuard,
         Lockout!PostAuthor, Lockout!PostRead, Lockout!PostCount, Lockout!PostDelete,
         Lockout!PostToggle, Lockout!AddUser, Lockout!Restart, Lockout!Tick,
         Lockout!LoginStep, Lockout!PostStep, Lockout!Next, Lockout!Guessing,
         Lockout!GuessesAreBounded, Lockout!KeepsIds, Lockout!KeepsLastSuperadmin,
         Lockout!avars
<1> USE DEF LockoutProofs!Roles, LockoutProofs!Keys, LockoutProofs!Rows,
         LockoutProofs!AdminAccessAssumption, LockoutProofs!User, LockoutProofs!Failure,
         LockoutProofs!NoRowAssumption, LockoutProofs!Login, LockoutProofs!Post,
         LockoutProofs!NoLogin, LockoutProofs!NoPost, LockoutProofs!TypeOK,
         LockoutProofs!Users, LockoutProofs!Named, LockoutProofs!Superadmins,
         LockoutProofs!WithUser, LockoutProofs!Init, LockoutProofs!Valid,
         LockoutProofs!Recent, LockoutProofs!Locked, LockoutProofs!Kept,
         LockoutProofs!EndLogin, LockoutProofs!LoginCheck, LockoutProofs!LoginRead,
         LockoutProofs!LoginRecord, LockoutProofs!LoginClear, LockoutProofs!LoginCookie,
         LockoutProofs!CookieGone, LockoutProofs!EndPost, LockoutProofs!PostGuard,
         LockoutProofs!PostAuthor, LockoutProofs!PostRead, LockoutProofs!PostCount,
         LockoutProofs!PostDelete, LockoutProofs!PostToggle, LockoutProofs!AddUser,
         LockoutProofs!Restart, LockoutProofs!Tick, LockoutProofs!LoginStep,
         LockoutProofs!PostStep, LockoutProofs!Next, LockoutProofs!Guessing,
         LockoutProofs!GuessesAreBounded, LockoutProofs!KeepsIds,
         LockoutProofs!KeepsLastSuperadmin, LockoutProofs!avars
<1>3. Lockout!Next <=> LockoutProofs!Next
  BY <1>1
<1>4. Lockout!GuessesAreBounded <=> LockoutProofs!GuessesAreBounded
  BY <1>1
<1>5. Lockout!AdminAccessAssumption <=> LockoutProofs!AdminAccessAssumption
  BY <1>2
<1> QED BY <1>3, <1>4, <1>5

\* ... and so is the part "users".
LEMMA UsersIsProved ==
  /\ Users!AdminAccessAssumption <=> UsersProofs!AdminAccessAssumption
  /\ Users!NoRowAssumption <=> UsersProofs!NoRowAssumption
  /\ Users!Init <=> UsersProofs!Init
  /\ [Users!Next]_(Users!avars) <=> [UsersProofs!Next]_(UsersProofs!avars)
  /\ Users!TypeOK <=> UsersProofs!TypeOK
  /\ [Users!KeepsIds]_(Users!avars) <=> [UsersProofs!KeepsIds]_(UsersProofs!avars)
  /\ [Users!KeepsLastSuperadmin]_(Users!avars)
       <=> [UsersProofs!KeepsLastSuperadmin]_(UsersProofs!avars)
<1>1. \A S : Users!Cardinality(S) = UsersProofs!Cardinality(S)
  BY DEF Users!Cardinality, UsersProofs!Cardinality
<1>2. \A S : Users!IsFiniteSet(S) <=> UsersProofs!IsFiniteSet(S)
  BY DEF Users!IsFiniteSet, UsersProofs!IsFiniteSet
<1> USE DEF Users!Roles, Users!Keys, Users!Rows, Users!AdminAccessAssumption, Users!User,
         Users!Failure, Users!NoRowAssumption, Users!Login, Users!Post, Users!NoLogin,
         Users!NoPost, Users!TypeOK, Users!Users, Users!Named, Users!Superadmins,
         Users!WithUser, Users!Init, Users!Valid, Users!Recent, Users!Locked, Users!Kept,
         Users!EndLogin, Users!LoginCheck, Users!LoginRead, Users!LoginRecord,
         Users!LoginClear, Users!LoginCookie, Users!CookieGone, Users!EndPost,
         Users!PostGuard, Users!PostAuthor, Users!PostRead, Users!PostCount,
         Users!PostDelete, Users!PostToggle, Users!AddUser, Users!Restart, Users!Tick,
         Users!LoginStep, Users!PostStep, Users!Next, Users!Guessing,
         Users!GuessesAreBounded, Users!KeepsIds, Users!KeepsLastSuperadmin, Users!avars
<1> USE DEF UsersProofs!Roles, UsersProofs!Keys, UsersProofs!Rows, UsersProofs!AdminAccessAssumption,
         UsersProofs!User, UsersProofs!Failure, UsersProofs!NoRowAssumption,
         UsersProofs!Login, UsersProofs!Post, UsersProofs!NoLogin, UsersProofs!NoPost,
         UsersProofs!TypeOK, UsersProofs!Users, UsersProofs!Named,
         UsersProofs!Superadmins, UsersProofs!WithUser, UsersProofs!Init,
         UsersProofs!Valid, UsersProofs!Recent, UsersProofs!Locked, UsersProofs!Kept,
         UsersProofs!EndLogin, UsersProofs!LoginCheck, UsersProofs!LoginRead,
         UsersProofs!LoginRecord, UsersProofs!LoginClear, UsersProofs!LoginCookie,
         UsersProofs!CookieGone, UsersProofs!EndPost, UsersProofs!PostGuard,
         UsersProofs!PostAuthor, UsersProofs!PostRead, UsersProofs!PostCount,
         UsersProofs!PostDelete, UsersProofs!PostToggle, UsersProofs!AddUser,
         UsersProofs!Restart, UsersProofs!Tick, UsersProofs!LoginStep,
         UsersProofs!PostStep, UsersProofs!Next, UsersProofs!Guessing,
         UsersProofs!GuessesAreBounded, UsersProofs!KeepsIds,
         UsersProofs!KeepsLastSuperadmin, UsersProofs!avars
<1>3. Users!Next <=> UsersProofs!Next
  BY <1>1
<1>4. Users!AdminAccessAssumption <=> UsersProofs!AdminAccessAssumption
  BY <1>2
<1> QED BY <1>3, <1>4

\* The invariant of AdminAccessProofs, in both parts.
AdminInv ==
  /\ part = "lockout" => LockoutProofs!IInv
  /\ part = "users" => UsersProofs!IInv

\* The invariant of AdminAccessProofs holds of both parts.
LEMMA AdminInvHolds == PartSpec => []AdminInv
<1> USE OperationsAssumption
<1>1. PartInit => AdminInv
  BY PartsBegin, LockoutIsProved, UsersIsProved, LockoutProofs!InitInv, UsersProofs!InitInv
     DEF AdminInv
<1>2. AdminInv /\ [PartNext]_vars => AdminInv'
  <2>1. /\ LockoutProofs!IInv /\ [Lockout!Next]_(Lockout!avars) => LockoutProofs!IInv'
        /\ UsersProofs!IInv /\ [Users!Next]_(Users!avars) => UsersProofs!IInv'
    BY LockoutIsProved, UsersIsProved, LockoutProofs!NextInv, UsersProofs!NextInv
  <2> QED BY <2>1, PartsStep DEF AdminInv
<1> QED BY <1>1, <1>2, PTL DEF PartSpec

-----------------------------------------------------------------------------
(* Networks. *)

\* Forms that have checked a network, and the rows their updates will give it.
Pending(net) == {f \in NetworkForms : form[f].pc = "checked" /\ form[f].net = net}

Targets(net) == {form[f].row : f \in {g \in Pending(net) : form[g].op = "update"}}

\* The bound of TwinsAreBounded does not carry itself: an update that takes a row
\* away from a network gives the other updates of that row a claim again.  What no
\* step increases counts them from their checks on, and of the rows those which no
\* form will write once more.
Weight(net) == Cardinality(Pending(net)) + Cardinality(Nets!Same(net) \ Targets(net))

TwinsOK == \A net \in Subnets : Weight(net) <= Cardinality(NetworkForms)

CheckedOK == \A f \in NetworkForms : form[f].pc = "checked" => form[f].net \in Subnets

NetworksInv == part = "networks" => Nets!TypeOK /\ CheckedOK /\ TwinsOK

\* What is counted is finite.
LEMMA NetworksCounted ==
  ASSUME Nets!TypeOK, NEW net \in Subnets
  PROVE  /\ IsFiniteSet(NetworkForms) /\ Cardinality(NetworkForms) \in Nat
         /\ IsFiniteSet(Pending(net)) /\ Cardinality(Pending(net)) \in Nat
         /\ Cardinality(Pending(net)) <= Cardinality(NetworkForms)
         /\ IsFiniteSet(Nets!Same(net)) /\ Cardinality(Nets!Same(net)) \in Nat
         /\ IsFiniteSet(Nets!Same(net) \ Targets(net))
         /\ Cardinality(Nets!Same(net) \ Targets(net)) \in Nat
<1>1. IsFiniteSet(NetworkForms)
  BY OperationsAssumption DEF Nets!NetworksAssumption, Nets!IsFiniteSet, IsFiniteSet
<1>2. IsFiniteSet(1 .. Len(networks))
  BY FS_Interval DEF Nets!TypeOK
<1>3. /\ Pending(net) \subseteq NetworkForms
      /\ Nets!Same(net) \subseteq 1 .. Len(networks)
      /\ Nets!Same(net) \ Targets(net) \subseteq Nets!Same(net)
  BY DEF Pending, Nets!Same, Nets!Ids
<1>4. IsFiniteSet(Nets!Same(net))
  BY <1>2, <1>3, FS_Subset
<1> QED BY <1>1, <1>3, <1>4, FS_Subset, FS_CardinalityType

\* The bound follows: every target that is in the table is written by a form that
\* has no claim.
LEMMA TwinsFollow ==
  ASSUME Nets!TypeOK, TwinsOK
  PROVE  Nets!TwinsAreBounded
<1> SUFFICES ASSUME NEW net \in Subnets
             PROVE  Cardinality(Nets!Same(net)) + Cardinality(Nets!Claims(net))
                      <= Cardinality(NetworkForms)
  <2>1. \A S : Nets!Cardinality(S) = Cardinality(S)
    BY DEF Nets!Cardinality, Cardinality
  <2> QED BY <2>1 DEF Nets!TwinsAreBounded
<1> DEFINE S == Nets!Same(net)
           P == Pending(net)
           C == Nets!Claims(net)
           T == S \cap Targets(net)
           U == {f \in P \ C : form[f].row \in T}
           g == [f \in U |-> form[f].row]
<1>1. /\ IsFiniteSet(P) /\ IsFiniteSet(S) /\ Cardinality(P) \in Nat /\ Cardinality(S) \in Nat
      /\ Cardinality(S \ Targets(net)) \in Nat /\ Cardinality(NetworkForms) \in Nat
  BY NetworksCounted
<1>2. C \subseteq P
  BY DEF Nets!Claims, Pending
<1>3. IsFiniteSet(C) /\ IsFiniteSet(P \ C) /\ IsFiniteSet(U) /\ IsFiniteSet(T)
      /\ Cardinality(U) <= Cardinality(P \ C)
  <2>1. IsFiniteSet(C) /\ IsFiniteSet(P \ C) /\ IsFiniteSet(T)
    BY <1>1, <1>2, FS_Subset
  <2>2. U \subseteq P \ C
    OBVIOUS
  <2> QED BY <2>1, <2>2, FS_Subset
<1>4. /\ Cardinality(C) \in Nat /\ Cardinality(P \ C) \in Nat /\ Cardinality(U) \in Nat
      /\ Cardinality(T) \in Nat
  BY <1>3, FS_CardinalityType
<1>5. Cardinality(P \ C) = Cardinality(P) - Cardinality(C)
  <2>1. P \cap C = C
    BY <1>2
  <2> QED BY <1>1, <2>1, FS_Difference
<1>6. Cardinality(S \ Targets(net)) = Cardinality(S) - Cardinality(T)
  BY <1>1, FS_Difference
<1>7. Cardinality(T) <= Cardinality(U)
  <2>1. \A t \in T : \E f \in U : form[f].row = t
    <3> SUFFICES ASSUME NEW t \in T PROVE \E f \in U : form[f].row = t
      OBVIOUS
    <3>1. PICK f \in P : form[f].op = "update" /\ form[f].row = t
      BY DEF Targets
    <3>2. f \notin C
      BY <3>1 DEF Nets!Claims
    <3> QED BY <3>1, <3>2
  <2>2. g \in [U -> T]
    OBVIOUS
  <2>3. g \in Surjection(U, T)
    BY <2>1, <2>2 DEF Surjection
  <2> QED BY <1>3, <2>3, FS_Surjection
<1>8. Cardinality(P) + Cardinality(S \ Targets(net)) <= Cardinality(NetworkForms)
  BY DEF TwinsOK, Weight
<1> HIDE DEF S, P, C, T, U, g
<1>9. Cardinality(S) + Cardinality(C) <= Cardinality(NetworkForms)
  BY <1>1, <1>3, <1>4, <1>5, <1>6, <1>7, <1>8
<1> QED BY <1>9 DEF S, C

\* What lets the weight of a network stay: nothing more is counted, ...
LEMMA WeightKept ==
  ASSUME Nets!TypeOK, TwinsOK, NEW net \in Subnets, Pending(net)' \subseteq Pending(net),
         (Nets!Same(net) \ Targets(net))' \subseteq Nets!Same(net) \ Targets(net)
  PROVE  Weight(net)' <= Cardinality(NetworkForms)
<1>1. /\ Cardinality(Pending(net)') \in Nat
      /\ Cardinality(Pending(net)') <= Cardinality(Pending(net))
      /\ Cardinality((Nets!Same(net) \ Targets(net))') \in Nat
      /\ Cardinality((Nets!Same(net) \ Targets(net))') <= Cardinality(Nets!Same(net) \ Targets(net))
  BY NetworksCounted, FS_Subset, FS_CardinalityType
<1>2. /\ Cardinality(Pending(net)) \in Nat /\ Cardinality(Nets!Same(net) \ Targets(net)) \in Nat
      /\ Cardinality(NetworkForms) \in Nat
  BY NetworksCounted
<1> QED BY <1>1, <1>2 DEF TwinsOK, Weight

\* ... or a form has written one row ...
LEMMA WeightWritten ==
  ASSUME Nets!TypeOK, TwinsOK, NEW net \in Subnets, NEW f \in Pending(net), NEW i,
         Pending(net)' \subseteq Pending(net) \ {f},
         (Nets!Same(net) \ Targets(net))' \subseteq (Nets!Same(net) \ Targets(net)) \cup {i}
  PROVE  Weight(net)' <= Cardinality(NetworkForms)
<1> DEFINE P == Pending(net)
           R == Nets!Same(net) \ Targets(net)
<1>1. /\ IsFiniteSet(P) /\ Cardinality(P) \in Nat /\ IsFiniteSet(R) /\ Cardinality(R) \in Nat
      /\ Cardinality(NetworkForms) \in Nat
  BY NetworksCounted
<1>2. /\ IsFiniteSet(P \ {f}) /\ Cardinality(P \ {f}) = Cardinality(P) - 1
  BY <1>1, FS_RemoveElement
<1>3. /\ IsFiniteSet(R \cup {i}) /\ Cardinality(R \cup {i}) <= Cardinality(R) + 1
  <2> HIDE DEF R
  <2>1. Cardinality(R \cup {i}) = IF i \in R THEN Cardinality(R) ELSE Cardinality(R) + 1
    BY <1>1, FS_AddElement
  <2> QED BY <1>1, <2>1, FS_AddElement
<1>4. /\ Cardinality(P') \in Nat /\ Cardinality(P') <= Cardinality(P \ {f})
      /\ Cardinality(R') \in Nat /\ Cardinality(R') <= Cardinality(R \cup {i})
      /\ Cardinality(R \cup {i}) \in Nat
  BY <1>2, <1>3, FS_Subset, FS_CardinalityType
<1>0. Cardinality(P) + Cardinality(R) <= Cardinality(NetworkForms)
  BY DEF TwinsOK, Weight
<1> HIDE DEF P, R
<1>5. Cardinality(P') + Cardinality(R') <= Cardinality(NetworkForms)
  BY <1>0, <1>1, <1>2, <1>3, <1>4
<1> QED BY <1>5 DEF P, R, Weight

\* ... or has just found all its rows among its targets.
LEMMA WeightChecked ==
  ASSUME Nets!TypeOK, NEW net \in Subnets, Nets!Same(net)' \subseteq Targets(net)'
  PROVE  Weight(net)' <= Cardinality(NetworkForms)
<1>1. (Nets!Same(net) \ Targets(net))' = {}
  OBVIOUS
<1>2. Pending(net)' \subseteq NetworkForms
  BY DEF Pending
<1>3. Cardinality(Pending(net)') \in Nat
      /\ Cardinality(Pending(net)') <= Cardinality(NetworkForms)
  BY <1>2, NetworksCounted, FS_Subset, FS_CardinalityType
<1>4. Cardinality((Nets!Same(net) \ Targets(net))') = 0
  BY <1>1, FS_EmptySet
<1> QED BY <1>3, <1>4 DEF Weight

\* A row that is there is one of a network.
LEMMA NetworkTyped ==
  ASSUME Nets!TypeOK, NEW i \in Nets!Ids
  PROVE  /\ i \in 1 .. Len(networks) /\ networks[i] \in Nets!Network
         /\ networks[i].net \in Subnets /\ networks[i].active \in BOOLEAN
<1>1. i \in 1 .. Len(networks) /\ networks[i] # None
  BY DEF Nets!Ids
<1>2. networks[i] \in Nets!Network \cup {None}
  BY <1>1, ElementOfSeq DEF Nets!TypeOK
<1> QED BY <1>1, <1>2 DEF Nets!Network

\* A row that is written leaves a table of the same length.
LEMMA NetworkWritten ==
  ASSUME Nets!TypeOK, NEW i \in 1 .. Len(networks), NEW row \in Nets!Network \cup {None}
  PROVE  /\ [networks EXCEPT ![i] = row] \in Seq(Nets!Network \cup {None})
         /\ Len([networks EXCEPT ![i] = row]) = Len(networks)
         /\ [networks EXCEPT ![i] = row][i] = row
         /\ \A j \in 1 .. Len(networks) : j # i => [networks EXCEPT ![i] = row][j] = networks[j]
BY ExceptSeq DEF Nets!TypeOK

\* The invariant holds at first.
LEMMA NetworksBegin == ASSUME Nets!Init PROVE Nets!TypeOK /\ CheckedOK /\ TwinsOK
<1>1. Nets!TypeOK
  BY OperationsAssumption
     DEF Nets!NetworksAssumption, Nets!Init, Nets!TypeOK, Nets!NoForm, Nets!Form
<1>2. CheckedOK
  BY DEF Nets!Init, CheckedOK, Nets!NoForm
<1>3. ASSUME NEW net \in Subnets PROVE Weight(net) <= Cardinality(NetworkForms)
  <2>1. Pending(net) = {} /\ Nets!Same(net) \ Targets(net) = {}
    BY DEF Nets!Init, Pending, Nets!NoForm, Nets!Same, Nets!Ids
  <2>2. Cardinality({}) = 0 /\ Cardinality(NetworkForms) \in Nat
    BY <1>1, NetworksCounted, FS_EmptySet
  <2> QED BY <2>1, <2>2 DEF Weight
<1> QED BY <1>1, <1>2, <1>3 DEF TwinsOK

\* Every step keeps the types.
LEMMA NetworksTyped ==
  ASSUME Nets!TypeOK, CheckedOK, [Nets!Next]_(Nets!nvars)
  PROVE  Nets!TypeOK' /\ CheckedOK'
<1>t. /\ form \in [NetworkForms -> Nets!Form] /\ Nets!NoForm \in Nets!Form
      /\ networks \in Seq(Nets!Network \cup {None}) /\ Len(networks) \in Nat
      /\ Len(networks) <= MaxNetworks /\ MaxNetworks \in Nat
  BY OperationsAssumption DEF Nets!NetworksAssumption, Nets!TypeOK, Nets!Form, Nets!NoForm
<1>1. ASSUME NEW f \in NetworkForms, NEW x \in Nets!Form, form' = [form EXCEPT ![f] = x],
             x.pc = "checked" => x.net \in Subnets
      PROVE  form' \in [NetworkForms -> Nets!Form] /\ CheckedOK'
  BY <1>1, <1>t DEF CheckedOK
<1>2. ASSUME NEW f \in NetworkForms, Nets!EndForm(f)
      PROVE  form' \in [NetworkForms -> Nets!Form] /\ CheckedOK'
  BY <1>1, <1>2, <1>t DEF Nets!EndForm, Nets!NoForm
<1>3. ASSUME NEW f \in NetworkForms, NEW net \in Subnets, NEW row \in 0 .. Len(networks),
             NEW active \in BOOLEAN, Nets!Check(f, net, row, active)
      PROVE  Nets!TypeOK' /\ CheckedOK'
  <2> DEFINE x == [pc |-> "checked", op |-> IF row = 0 THEN "add" ELSE "update", row |-> row,
                   net |-> net, active |-> active]
  <2>1. x \in Nets!Form /\ x.net \in Subnets
    BY <1>t DEF Nets!Form
  <2>2. form' = [form EXCEPT ![f] = x] /\ UNCHANGED <<networks, used>>
    BY <1>3 DEF Nets!Check
  <2> HIDE DEF x
  <2> QED BY <1>1, <2>1, <2>2 DEF Nets!TypeOK
<1>4. ASSUME NEW f \in NetworkForms, Nets!Add(f) PROVE Nets!TypeOK' /\ CheckedOK'
  <2>1. [net |-> form[f].net, active |-> form[f].active] \in Nets!Network
    BY <1>4, <1>t DEF Nets!Add, CheckedOK, Nets!Form, Nets!Network
  <2>2. networks' \in Seq(Nets!Network \cup {None}) /\ Len(networks') <= MaxNetworks
    BY <1>4, <1>t, <2>1, AppendProperties DEF Nets!Add
  <2> QED BY <1>2, <1>4, <2>2 DEF Nets!Add, Nets!TypeOK
<1>5. ASSUME NEW f \in NetworkForms, Nets!Update(f) PROVE Nets!TypeOK' /\ CheckedOK'
  <2>1. [net |-> form[f].net, active |-> form[f].active] \in Nets!Network
    BY <1>5, <1>t DEF Nets!Update, CheckedOK, Nets!Form, Nets!Network
  <2>2. networks' \in Seq(Nets!Network \cup {None}) /\ Len(networks') <= MaxNetworks
    BY <1>5, <1>t, <2>1, NetworkWritten DEF Nets!Update, Nets!Ids
  <2> QED BY <1>2, <1>5, <2>2 DEF Nets!Update, Nets!TypeOK
<1>6. ASSUME NEW f \in NetworkForms, NEW op \in {"toggle", "delete"},
             NEW row \in 1 .. Len(networks), Nets!Find(f, op, row)
      PROVE  Nets!TypeOK' /\ CheckedOK'
  <2> DEFINE x == [pc |-> "found", op |-> op, row |-> row, net |-> networks[row].net,
                   active |-> ~ networks[row].active]
  <2>1. networks[row].net \in Subnets
    BY <1>6, NetworkTyped DEF Nets!Find
  <2>2. x \in Nets!Form /\ x.pc # "checked"
    BY <1>t, <2>1 DEF Nets!Form
  <2>3. form' = [form EXCEPT ![f] = x] /\ UNCHANGED <<networks, used>>
    BY <1>6 DEF Nets!Find
  <2> HIDE DEF x
  <2> QED BY <1>1, <2>2, <2>3 DEF Nets!TypeOK
<1>7. ASSUME NEW f \in NetworkForms, Nets!Toggle(f) PROVE Nets!TypeOK' /\ CheckedOK'
  <2> DEFINE i == form[f].row
  <2>1. CASE i \in Nets!Ids
    <3>1. i \in 1 .. Len(networks) /\ networks[i] \in Nets!Network
      BY <2>1, NetworkTyped
    <3>2. [networks[i] EXCEPT !.active = form[f].active] \in Nets!Network \cup {None}
      BY <1>t, <3>1 DEF Nets!Form, Nets!Network
    <3>3. networks' = [networks EXCEPT ![i] = [networks[i] EXCEPT !.active = form[f].active]]
      BY <1>7, <2>1 DEF Nets!Toggle
    <3>4. networks' \in Seq(Nets!Network \cup {None}) /\ Len(networks') <= MaxNetworks
      BY <1>t, <3>1, <3>2, <3>3, NetworkWritten
    <3> QED BY <1>2, <1>7, <3>4 DEF Nets!Toggle, Nets!TypeOK
  <2>2. CASE i \notin Nets!Ids
    BY <1>2, <1>7, <2>2 DEF Nets!Toggle, Nets!TypeOK
  <2> QED BY <2>1, <2>2
<1>8. ASSUME NEW f \in NetworkForms, Nets!CheckUnused(f) PROVE Nets!TypeOK' /\ CheckedOK'
  <2>1. [form[f] EXCEPT !.pc = "unused"] \in Nets!Form
    BY <1>t DEF Nets!Form
  <2>2. form' = [form EXCEPT ![f] = [form[f] EXCEPT !.pc = "unused"]] \/ Nets!EndForm(f)
    BY <1>8 DEF Nets!CheckUnused
  <2>3. form' \in [NetworkForms -> Nets!Form] /\ CheckedOK'
    BY <1>1, <1>2, <1>t, <2>1, <2>2 DEF Nets!Form
  <2> QED BY <1>8, <2>3 DEF Nets!CheckUnused, Nets!TypeOK
<1>9. ASSUME NEW f \in NetworkForms, Nets!Delete(f) PROVE Nets!TypeOK' /\ CheckedOK'
  <2>1. networks' \in Seq(Nets!Network \cup {None}) /\ Len(networks') <= MaxNetworks
    BY <1>9, <1>t, NetworkWritten DEF Nets!Delete, Nets!Ids
  <2> QED BY <1>2, <1>9, <2>1 DEF Nets!Delete, Nets!TypeOK
<1>10. ASSUME NEW net \in Subnets, Nets!Visit(net) \/ Nets!Forget(net)
       PROVE  Nets!TypeOK' /\ CheckedOK'
  BY <1>10 DEF Nets!Visit, Nets!Forget, Nets!TypeOK, CheckedOK
<1>11. ASSUME UNCHANGED (Nets!nvars) PROVE Nets!TypeOK' /\ CheckedOK'
  BY <1>11 DEF Nets!nvars, Nets!TypeOK, CheckedOK
<1> QED
  BY <1>3, <1>4, <1>5, <1>6, <1>7, <1>8, <1>9, <1>10, <1>11 DEF Nets!Next, Nets!FormStep

\* A form that is and becomes none of those pending changes nothing.
LEMMA PendingElsewhere ==
  ASSUME Nets!TypeOK, NEW net \in Subnets, NEW f \in NetworkForms, NEW x, f \notin Pending(net),
         form' = [form EXCEPT ![f] = x], ~ (x.pc = "checked" /\ x.net = net)
  PROVE  Pending(net)' = Pending(net) /\ Targets(net)' = Targets(net)
<1>1. form \in [NetworkForms -> Nets!Form]
  BY DEF Nets!TypeOK
<1>2. Pending(net)' = Pending(net)
  BY <1>1 DEF Pending
<1>3. \A g \in Pending(net) : form'[g] = form[g]
  BY <1>1 DEF Pending
<1> QED BY <1>2, <1>3 DEF Targets

\* A form that ends leaves the targets of the others.
LEMMA PendingEnds ==
  ASSUME Nets!TypeOK, NEW net \in Subnets, NEW f \in NetworkForms, Nets!EndForm(f)
  PROVE  /\ Pending(net)' = Pending(net) \ {f}
         /\ Targets(net) \ {form[f].row} \subseteq Targets(net)'
         /\ form[f].op # "update" \/ f \notin Pending(net) => Targets(net) \subseteq Targets(net)'
<1>1. \A g \in NetworkForms : form'[g] = IF g = f THEN Nets!NoForm ELSE form[g]
  BY DEF Nets!EndForm, Nets!TypeOK
<1>2. Pending(net)' = Pending(net) \ {f}
  BY <1>1 DEF Pending, Nets!NoForm
<1>3. ASSUME NEW g \in Pending(net), g # f, form[g].op = "update"
      PROVE  form[g].row \in Targets(net)'
  <2>1. g \in Pending(net)' /\ form'[g] = form[g]
    BY <1>1, <1>2, <1>3 DEF Pending
  <2> QED BY <1>3, <2>1 DEF Targets
<1> QED BY <1>2, <1>3 DEF Targets

\* Every step keeps the bound.
LEMMA TwinsStep ==
  ASSUME Nets!TypeOK, CheckedOK, TwinsOK, [Nets!Next]_(Nets!nvars)
  PROVE  TwinsOK'
<1> SUFFICES ASSUME NEW net \in Subnets PROVE Weight(net)' <= Cardinality(NetworkForms)
  BY DEF TwinsOK
<1>t. /\ form \in [NetworkForms -> Nets!Form] /\ Len(networks) \in Nat
      /\ networks \in Seq(Nets!Network \cup {None})
  BY DEF Nets!TypeOK
<1>0. networks' = networks => Nets!Same(net)' = Nets!Same(net)
  BY DEF Nets!Same, Nets!Ids
<1>1. ASSUME NEW f \in NetworkForms, NEW n \in Subnets, NEW row \in 0 .. Len(networks),
             NEW active \in BOOLEAN, Nets!Check(f, n, row, active)
      PROVE  Weight(net)' <= Cardinality(NetworkForms)
  <2> DEFINE x == [pc |-> "checked", op |-> IF row = 0 THEN "add" ELSE "update", row |-> row,
                   net |-> n, active |-> active]
  <2>1. /\ form[f].pc = "idle" /\ Nets!Same(n) \ {row} = {}
        /\ form' = [form EXCEPT ![f] = x] /\ networks' = networks
    BY <1>1 DEF Nets!Check
  <2>2. CASE n = net
    <3>1. \A i \in Nets!Same(net)' : i = row /\ row # 0
      BY <1>0, <2>1, <2>2 DEF Nets!Same, Nets!Ids
    <3>2. row # 0 => row \in Targets(net)'
      BY <1>t, <2>1, <2>2 DEF Targets, Pending
    <3>3. Nets!Same(net)' \subseteq Targets(net)'
      BY <3>1, <3>2
    <3> QED BY <3>3, WeightChecked
  <2>3. CASE n # net
    <3>1. f \notin Pending(net) /\ x.net # net
      BY <2>1, <2>3 DEF Pending
    <3> HIDE DEF x
    <3>2. Pending(net)' = Pending(net) /\ Targets(net)' = Targets(net)
      BY <2>1, <3>1, PendingElsewhere
    <3> QED BY <1>0, <2>1, <3>2, WeightKept
  <2> QED BY <2>2, <2>3
<1>2. ASSUME NEW f \in NetworkForms, Nets!Add(f)
      PROVE  Weight(net)' <= Cardinality(NetworkForms)
  <2>1. /\ form[f].pc = "checked" /\ form[f].op = "add" /\ Nets!EndForm(f)
        /\ networks' = Append(networks, [net |-> form[f].net, active |-> form[f].active])
    BY <1>2 DEF Nets!Add
  <2>2. Pending(net)' = Pending(net) \ {f} /\ Targets(net) \subseteq Targets(net)'
    BY <2>1, PendingEnds
  <2>3. /\ Len(networks') = Len(networks) + 1
        /\ \A i \in 1 .. Len(networks) : networks'[i] = networks[i]
        /\ networks'[Len(networks) + 1].net = form[f].net
    BY <1>t, <2>1
  <2>4. CASE form[f].net = net
    <3>1. Nets!Same(net)' \subseteq Nets!Same(net) \cup {Len(networks) + 1}
      BY <1>t, <2>3 DEF Nets!Same, Nets!Ids
    <3>2. f \in Pending(net)
      BY <2>1, <2>4 DEF Pending
    <3>3. Nets!Same(net)' \ Targets(net)' \subseteq
            (Nets!Same(net) \ Targets(net)) \cup {Len(networks) + 1}
      BY <2>2, <3>1
    <3> QED BY <2>2, <3>2, <3>3, WeightWritten
  <2>5. CASE form[f].net # net
    <3>1. Nets!Same(net)' \subseteq Nets!Same(net)
      BY <1>t, <2>3, <2>5 DEF Nets!Same, Nets!Ids
    <3>2. Nets!Same(net)' \ Targets(net)' \subseteq Nets!Same(net) \ Targets(net)
      BY <2>2, <3>1
    <3> QED BY <2>2, <3>2, WeightKept
  <2> QED BY <2>4, <2>5
<1>3. ASSUME NEW f \in NetworkForms, Nets!Update(f)
      PROVE  Weight(net)' <= Cardinality(NetworkForms)
  <2> DEFINE r == form[f].row
             row == [net |-> form[f].net, active |-> form[f].active]
  <2>1. /\ form[f].pc = "checked" /\ Nets!EndForm(f)
        /\ networks' = IF r \in Nets!Ids THEN [networks EXCEPT ![r] = row] ELSE networks
    BY <1>3 DEF Nets!Update
  <2>2. /\ Len(networks') = Len(networks)
        /\ \A i \in 1 .. Len(networks) : i # r => networks'[i] = networks[i]
        /\ r \in Nets!Ids => networks'[r].net = form[f].net
        /\ r \notin Nets!Ids => networks' = networks
    BY <1>t, <2>1 DEF Nets!Ids
  <2>3. CASE form[f].net = net
    <3>1. /\ Pending(net)' = Pending(net) \ {f} /\ Targets(net) \ {r} \subseteq Targets(net)'
      BY <2>1, PendingEnds
    <3>2. Nets!Same(net)' \subseteq Nets!Same(net) \cup {r}
      BY <1>t, <2>2 DEF Nets!Same, Nets!Ids
    <3>3. f \in Pending(net)
      BY <2>1, <2>3 DEF Pending
    <3>4. Nets!Same(net)' \ Targets(net)' \subseteq (Nets!Same(net) \ Targets(net)) \cup {r}
      BY <3>1, <3>2
    <3> QED BY <3>1, <3>3, <3>4, WeightWritten
  <2>4. CASE form[f].net # net
    <3>1. f \notin Pending(net)
      BY <2>4 DEF Pending
    <3>2. Pending(net)' = Pending(net) \ {f} /\ Targets(net) \subseteq Targets(net)'
      BY <2>1, <3>1, PendingEnds
    <3>3. Nets!Same(net)' \subseteq Nets!Same(net)
      BY <1>t, <2>2, <2>4 DEF Nets!Same, Nets!Ids
    <3>4. Nets!Same(net)' \ Targets(net)' \subseteq Nets!Same(net) \ Targets(net)
      BY <3>2, <3>3
    <3> QED BY <3>2, <3>4, WeightKept
  <2> QED BY <2>3, <2>4
<1>4. ASSUME NEW f \in NetworkForms, form[f].pc # "checked", Nets!EndForm(f),
             Nets!Same(net)' \subseteq Nets!Same(net)
      PROVE  Weight(net)' <= Cardinality(NetworkForms)
  <2>1. f \notin Pending(net)
    BY <1>4 DEF Pending
  <2>2. Pending(net)' = Pending(net) \ {f} /\ Targets(net) \subseteq Targets(net)'
    BY <1>4, <2>1, PendingEnds
  <2>3. Nets!Same(net)' \ Targets(net)' \subseteq Nets!Same(net) \ Targets(net)
    BY <1>4, <2>2
  <2> QED BY <2>2, <2>3, WeightKept
<1>5. ASSUME NEW f \in NetworkForms, NEW op \in {"toggle", "delete"},
             NEW row \in 1 .. Len(networks), Nets!Find(f, op, row)
      PROVE  Weight(net)' <= Cardinality(NetworkForms)
  <2> DEFINE x == [pc |-> "found", op |-> op, row |-> row, net |-> networks[row].net,
                   active |-> ~ networks[row].active]
  <2>1. form[f].pc = "idle" /\ form' = [form EXCEPT ![f] = x] /\ networks' = networks
    BY <1>5 DEF Nets!Find
  <2>2. f \notin Pending(net) /\ x.pc # "checked"
    BY <2>1 DEF Pending
  <2> HIDE DEF x
  <2>3. Pending(net)' = Pending(net) /\ Targets(net)' = Targets(net)
    BY <2>1, <2>2, PendingElsewhere
  <2> QED BY <1>0, <2>1, <2>3, WeightKept
<1>6. ASSUME NEW f \in NetworkForms, Nets!Toggle(f)
      PROVE  Weight(net)' <= Cardinality(NetworkForms)
  <2> DEFINE i == form[f].row
  <2>1. form[f].pc # "checked" /\ Nets!EndForm(f)
    BY <1>6 DEF Nets!Toggle
  <2>2. CASE i \in Nets!Ids
    <3>1. i \in 1 .. Len(networks) /\ networks[i] \in Nets!Network
      BY <2>2, NetworkTyped
    <3>2. networks' = [networks EXCEPT ![i] = [networks[i] EXCEPT !.active = form[f].active]]
      BY <1>6, <2>2 DEF Nets!Toggle
    <3>3. /\ Len(networks') = Len(networks)
          /\ \A j \in 1 .. Len(networks) : j # i => networks'[j] = networks[j]
          /\ networks'[i].net = networks[i].net
      BY <1>t, <3>1, <3>2 DEF Nets!Network
    <3>4. Nets!Same(net)' \subseteq Nets!Same(net)
      BY <1>t, <2>2, <3>3 DEF Nets!Same, Nets!Ids
    <3> QED BY <1>4, <2>1, <3>4
  <2>3. CASE i \notin Nets!Ids
    BY <1>0, <1>4, <1>6, <2>1, <2>3 DEF Nets!Toggle
  <2> QED BY <2>2, <2>3
<1>7. ASSUME NEW f \in NetworkForms, Nets!CheckUnused(f)
      PROVE  Weight(net)' <= Cardinality(NetworkForms)
  <2> DEFINE x == [form[f] EXCEPT !.pc = "unused"]
  <2>1. form[f].pc = "found" /\ networks' = networks
        /\ (Nets!EndForm(f) \/ form' = [form EXCEPT ![f] = x])
    BY <1>7 DEF Nets!CheckUnused
  <2>2. f \notin Pending(net) /\ x.pc # "checked"
    BY <1>t, <2>1 DEF Pending, Nets!Form
  <2> HIDE DEF x
  <2>3. CASE form' = [form EXCEPT ![f] = x]
    <3>1. Pending(net)' = Pending(net) /\ Targets(net)' = Targets(net)
      BY <2>2, <2>3, PendingElsewhere
    <3> QED BY <1>0, <2>1, <3>1, WeightKept
  <2> QED BY <1>0, <1>4, <2>1, <2>3
<1>8. ASSUME NEW f \in NetworkForms, Nets!Delete(f)
      PROVE  Weight(net)' <= Cardinality(NetworkForms)
  <2>1. form[f].pc # "checked" /\ Nets!EndForm(f)
    BY <1>8 DEF Nets!Delete
  <2>2. Nets!Same(net)' \subseteq Nets!Same(net)
    BY <1>8, <1>t DEF Nets!Delete, Nets!Same, Nets!Ids
  <2> QED BY <1>4, <2>1, <2>2
<1>9. ASSUME UNCHANGED <<networks, form>> PROVE Weight(net)' <= Cardinality(NetworkForms)
  BY <1>9 DEF TwinsOK, Weight, Pending, Targets, Nets!Same, Nets!Ids
<1>10. ASSUME NEW n \in Subnets, Nets!Visit(n) \/ Nets!Forget(n)
       PROVE  UNCHANGED <<networks, form>>
  BY <1>10 DEF Nets!Visit, Nets!Forget
<1> QED
  BY <1>1, <1>2, <1>3, <1>5, <1>6, <1>7, <1>8, <1>9, <1>10
     DEF Nets!Next, Nets!FormStep, Nets!nvars

\* The invariant of the networks.
LEMMA NetworksInvHolds == PartSpec => []NetworksInv
<1>1. PartInit => NetworksInv
  BY PartsBegin, NetworksBegin DEF NetworksInv
<1>2. NetworksInv /\ [PartNext]_vars => NetworksInv'
  <2>1. Nets!TypeOK /\ CheckedOK /\ TwinsOK /\ [Nets!Next]_(Nets!nvars)
          => (Nets!TypeOK /\ CheckedOK /\ TwinsOK)'
    BY NetworksTyped, TwinsStep
  <2> QED BY <2>1, PartsStep DEF NetworksInv
<1> QED BY <1>1, <1>2, PTL DEF PartSpec

-----------------------------------------------------------------------------
(* Startup. *)

ItemsOf(g) == {Migration!Groups[g][i] : i \in DOMAIN Migration!Groups[g]}

\* A worker in state x finds in its what it has passed; of its group what it has not
\* missed is there, so that a missing item that has come meanwhile, which ends the
\* worker, is all that can surprise it.
WorkerOK(x, its) ==
  /\ \A g \in 1 .. x.group - 1 : ItemsOf(g) \subseteq its
  /\ x.pc = "add" => /\ x.missing # {} /\ x.missing \subseteq ItemsOf(x.group)
                     /\ ItemsOf(x.group) \ x.missing \subseteq its
  /\ x.pc = "fill" => /\ ItemsOf(x.group) \subseteq its
                      /\ Migration!Groups[x.group][1] \in Migration!Filled
  /\ x.pc \in {"rewrite", "serving"} => its = Migration!Items

WorkersOK == \A w \in Workers : WorkerOK(worker[w], items)

StartupInv == part = "startup" => Migration!TypeOK /\ WorkersOK

\* The groups by their numbers.
LEMMA GroupsKnown ==
  /\ Len(Migration!Groups) = 6
  /\ \A g \in 1 .. 6 :
       /\ DOMAIN Migration!Groups[g] \in {1 .. 1, 1 .. 2}
       /\ 1 \in DOMAIN Migration!Groups[g]
       /\ ItemsOf(g) \subseteq Migration!Items
       /\ (\E x \in ItemsOf(g) : x \in Migration!Filled)
            => Migration!Groups[g][1] \in Migration!Filled
  /\ Migration!Items = UNION {ItemsOf(g) : g \in 1 .. 6}
<1> DEFINE G == Migration!Groups
<1>1. /\ Len(G) = 6 /\ DOMAIN G = 1 .. 6
      /\ G[1] = <<"guests.auth_type", "guests.room_number">> /\ G[2] = <<"admin">>
      /\ G[3] = <<"guests.last_auth_at">> /\ G[4] = <<"sessions.device_name">>
      /\ G[5] = <<"sessions.auth_method", "sessions.surname">>
      /\ G[6] = <<"sessions.cause_raw">>
  BY DEF Migration!Groups
<1>2. Migration!Items = UNION {ItemsOf(g) : g \in 1 .. 6}
  BY <1>1 DEF Migration!Items, ItemsOf
<1> HIDE DEF G
<1>3. ASSUME NEW g \in 1 .. 6
      PROVE  /\ DOMAIN G[g] \in {1 .. 1, 1 .. 2}
             /\ 1 \in DOMAIN G[g]
             /\ (\E i \in DOMAIN G[g] : G[g][i] \in Migration!Filled) => G[g][1] \in Migration!Filled
  <2> USE <1>1 DEF Migration!Filled
  <2>1. CASE g = 1
    BY <2>1
  <2>2. CASE g = 2
    BY <2>2
  <2>3. CASE g = 3
    BY <2>3
  <2>4. CASE g = 4
    BY <2>4
  <2>5. CASE g = 5
    BY <2>5
  <2>6. CASE g = 6
    BY <2>6
  <2> QED BY <2>1, <2>2, <2>3, <2>4, <2>5, <2>6
<1> QED BY <1>1, <1>2, <1>3 DEF G, ItemsOf

\* What a worker looked for and did not find is what it adds.
LEMMA MissingIsAdded ==
  ASSUME NEW w \in Workers, worker[w].group \in 1 .. 6, worker[w].missing # {},
         worker[w].missing \subseteq ItemsOf(worker[w].group)
  PROVE  Migration!FirstMissing(w) \in worker[w].missing
<1> DEFINE group == Migration!Groups[worker[w].group]
           First(i) == /\ group[i] \in worker[w].missing
                       /\ \A j \in 1 .. i - 1 : group[j] \notin worker[w].missing
           i == CHOOSE i \in DOMAIN group : First(i)
<1>1. DOMAIN group \in {1 .. 1, 1 .. 2}
  BY GroupsKnown
<1>2. PICK n \in DOMAIN group : group[n] \in worker[w].missing
  BY DEF ItemsOf
<1>3. \E k \in DOMAIN group : First(k)
  <2>1. CASE group[1] \in worker[w].missing
    <3>1. First(1)
      BY <2>1
    <3>2. 1 \in DOMAIN group
      BY <1>1
    <3> QED BY <3>1, <3>2
  <2>2. CASE group[1] \notin worker[w].missing
    <3>1. n = 2
      BY <1>1, <1>2, <2>2
    <3>2. First(2)
      BY <1>2, <2>2, <3>1
    <3> QED BY <1>2, <3>1, <3>2
  <2> QED BY <2>1, <2>2
<1>4. First(i)
  <2> HIDE DEF First
  <2> QED BY <1>3
<1> QED BY <1>4 DEF Migration!FirstMissing

\* Types of what is read.
LEMMA StartupTyped ==
  ASSUME Migration!TypeOK
  PROVE  /\ items \in SUBSET Migration!Items /\ worker \in [Workers -> Migration!Worker]
         /\ \A w \in Workers : worker[w].group \in 1 .. 6
         /\ MaxCrashes \in Nat /\ crashes \in 0 .. MaxCrashes
         /\ filled \in SUBSET Migration!Filled
         /\ cause \in [SessionRows -> Migration!Causes \cup {None}]
BY GroupsKnown, OperationsAssumption DEF Migration!StartupAssumption, Migration!TypeOK, Migration!Worker

\* More items are no harm.
LEMMA MoreItems ==
  ASSUME NEW x, NEW its, NEW more \in SUBSET Migration!Items, WorkerOK(x, its), its \subseteq more
  PROVE  WorkerOK(x, more)
BY DEF WorkerOK

\* Where a worker starts, ends, or serves.
LEMMA BegunTyped ==
  /\ Migration!Begun \in Migration!Worker
  /\ \A pc \in {"serving", "down"} : [Migration!Begun EXCEPT !.pc = pc] \in Migration!Worker
  /\ \A its : /\ WorkerOK(Migration!Begun, its)
              /\ WorkerOK([Migration!Begun EXCEPT !.pc = "down"], its)
              /\ its = Migration!Items => WorkerOK([Migration!Begun EXCEPT !.pc = "serving"], its)
<1>1. Migration!NoBatch \in [SessionRows -> Migration!Causes \cup {None}]
  BY DEF Migration!NoBatch
<1>2. 1 \in 1 .. Len(Migration!Groups)
  BY GroupsKnown
<1>3. /\ Migration!Begun \in Migration!Worker
      /\ \A pc \in {"serving", "down"} : [Migration!Begun EXCEPT !.pc = pc] \in Migration!Worker
  BY <1>1, <1>2 DEF Migration!Begun, Migration!Worker
<1> QED BY <1>3 DEF WorkerOK, Migration!Begun

\* The causes that are read are written as causes.
LEMMA CausesTyped ==
  ASSUME Migration!TypeOK
  PROVE  /\ Migration!Rewritten \in [SessionRows -> Migration!Causes \cup {None}]
         /\ \A batch \in [SessionRows -> Migration!Causes \cup {None}] :
              Migration!Updated(batch) \in [SessionRows -> Migration!Causes \cup {None}]
<1> USE StartupTyped
<1>1. \A c \in Migration!Causes : Migration!Normalized(c) \in Migration!Causes
  BY DEF Migration!Normalized, Migration!Causes
<1>2. Migration!Rewritten \in [SessionRows -> Migration!Causes \cup {None}]
  BY <1>1 DEF Migration!Rewritten
<1> QED BY <1>2 DEF Migration!Updated

\* A worker that has its group goes on to the next.
LEMMA NextGroupTyped ==
  ASSUME Migration!TypeOK, NEW w \in Workers, NEW its \in SUBSET Migration!Items,
         \A g \in 1 .. worker[w].group : ItemsOf(g) \subseteq its
  PROVE  Migration!NextGroup(w) \in Migration!Worker /\ WorkerOK(Migration!NextGroup(w), its)
<1> USE StartupTyped, GroupsKnown
<1>1. worker[w] \in Migration!Worker /\ worker[w].group \in 1 .. 6
  OBVIOUS
<1>2. CASE worker[w].group < Len(Migration!Groups)
  <2> DEFINE x == [worker[w] EXCEPT !.pc = "look", !.group = @ + 1, !.missing = {}]
  <2>1. worker[w].group + 1 \in 1 .. Len(Migration!Groups)
    BY <1>1, <1>2
  <2>2. x \in Migration!Worker /\ x.pc = "look" /\ x.group = worker[w].group + 1
    BY <1>1, <2>1 DEF Migration!Worker
  <2>3. Migration!NextGroup(w) = x
    BY <1>2 DEF Migration!NextGroup
  <2> HIDE DEF x
  <2>4. x.group - 1 = worker[w].group
    BY <1>1, <2>2
  <2> QED BY <2>2, <2>3, <2>4 DEF WorkerOK
<1>3. CASE ~ worker[w].group < Len(Migration!Groups)
  <2> DEFINE x == [worker[w] EXCEPT !.pc = "rewrite", !.missing = {},
                                    !.batch = Migration!Rewritten]
  <2>1. worker[w].group = 6
    BY <1>1, <1>3
  <2>2. x \in Migration!Worker /\ x.pc = "rewrite" /\ x.group = 6
    BY <1>1, <2>1, CausesTyped DEF Migration!Worker
  <2>3. Migration!NextGroup(w) = x
    BY <1>3 DEF Migration!NextGroup
  <2>4. its = Migration!Items
    BY <2>1
  <2> HIDE DEF x
  <2>5. \A g \in 1 .. x.group - 1 : ItemsOf(g) \subseteq its
    BY <2>1, <2>2
  <2> QED BY <2>2, <2>3, <2>4, <2>5 DEF WorkerOK
<1> QED BY <1>2, <1>3

\* One worker comes into a state that fits what is there; the others stay.
LEMMA WorkerBecomes ==
  ASSUME Migration!TypeOK, WorkersOK, NEW w \in Workers, NEW x \in Migration!Worker,
         Migration!Become(w, x), WorkerOK(x, items'), items \subseteq items',
         items' \in SUBSET Migration!Items, filled' \in SUBSET Migration!Filled,
         cause' \in [SessionRows -> Migration!Causes \cup {None}], crashes' \in 0 .. MaxCrashes
  PROVE  Migration!TypeOK' /\ WorkersOK'
<1> USE StartupTyped
<1>1. worker' = [worker EXCEPT ![w] = x]
  BY DEF Migration!Become
<1>2. Migration!TypeOK'
  BY <1>1 DEF Migration!TypeOK
<1>3. ASSUME NEW z \in Workers PROVE WorkerOK(worker'[z], items')
  <2>1. CASE z = w
    BY <1>1, <2>1
  <2>2. CASE z # w
    BY <1>1, <2>2, MoreItems DEF WorkersOK
  <2> QED BY <2>1, <2>2
<1> QED BY <1>2, <1>3 DEF WorkersOK

\* The invariant holds at first.
LEMMA StartupBegin == ASSUME Migration!Init PROVE Migration!TypeOK /\ WorkersOK
<1> USE DEF Migration!Init
<1>1. items \in SUBSET Migration!Items
  <2>1. \A g \in 1 .. 6 : ItemsOf(g) \subseteq Migration!Items
    BY GroupsKnown
  <2>2. ItemsOf(3) \cup ItemsOf(4) \cup ItemsOf(6)
          = {"guests.last_auth_at", "sessions.device_name", "sessions.cause_raw"}
    BY DEF ItemsOf, Migration!Groups
  <2>3. Migration!Created \subseteq Migration!Items
    BY <2>1, <2>2 DEF Migration!Created
  <2> QED BY <2>3 DEF Migration!Starts
<1>2. filled \in SUBSET Migration!Filled
  OBVIOUS
<1>3. cause \in [SessionRows -> Migration!Causes \cup {None}]
  BY DEF Migration!NoBatch, Migration!Causes
<1>4. worker \in [Workers -> Migration!Worker]
  BY BegunTyped
<1>5. crashes \in 0 .. MaxCrashes
  BY OperationsAssumption DEF Migration!StartupAssumption
<1>6. WorkersOK
  BY BegunTyped DEF WorkersOK
<1> QED BY <1>1, <1>2, <1>3, <1>4, <1>5, <1>6 DEF Migration!TypeOK

\* Every step keeps the invariant.
LEMMA StartupStep ==
  ASSUME Migration!TypeOK, WorkersOK, [Migration!Next]_(Migration!uvars)
  PROVE  Migration!TypeOK' /\ WorkersOK'
<1> USE StartupTyped
<1>1. ASSUME NEW w \in Workers, Migration!Look(w) PROVE Migration!TypeOK' /\ WorkersOK'
  <2> DEFINE missing == ItemsOf(worker[w].group) \ items
             y == [worker[w] EXCEPT !.pc = "add", !.missing = missing]
             x == IF missing = {} THEN Migration!NextGroup(w) ELSE y
  <2>1. Migration!Become(w, x) /\ UNCHANGED <<items, filled, cause, crashes>>
    BY <1>1 DEF Migration!Look, ItemsOf
  <2>2. /\ worker[w] \in Migration!Worker /\ worker[w].group \in 1 .. 6
        /\ \A g \in 1 .. worker[w].group - 1 : ItemsOf(g) \subseteq items
    BY DEF WorkersOK, WorkerOK
  <2>3. x \in Migration!Worker /\ WorkerOK(x, items)
    <3>1. CASE missing = {}
      <4>1. \A g \in 1 .. worker[w].group : ItemsOf(g) \subseteq items
        BY <2>2, <3>1
      <4> QED BY <3>1, <4>1, NextGroupTyped
    <3>2. CASE missing # {}
      <4>1. missing \in SUBSET Migration!Items /\ missing \subseteq ItemsOf(worker[w].group)
            /\ ItemsOf(worker[w].group) \ missing \subseteq items
        BY <2>2, GroupsKnown
      <4> HIDE DEF missing
      <4>2. /\ y \in Migration!Worker /\ y.pc = "add" /\ y.group = worker[w].group
            /\ y.missing = missing
        BY <2>2, <4>1 DEF Migration!Worker
      <4> HIDE DEF y
      <4>3. WorkerOK(y, items)
        BY <2>2, <3>2, <4>1, <4>2 DEF WorkerOK
      <4> QED BY <3>2, <4>2, <4>3
    <3> QED BY <3>1, <3>2
  <2> HIDE DEF x
  <2> QED BY <2>1, <2>3, WorkerBecomes
<1>2. ASSUME NEW w \in Workers, Migration!Add(w) PROVE Migration!TypeOK' /\ WorkersOK'
  <2> DEFINE item == Migration!FirstMissing(w)
             left == worker[w].missing \ {item}
  <2>1. worker[w].pc = "add" /\ UNCHANGED <<filled, cause, crashes>>
    BY <1>2 DEF Migration!Add
  <2>2. /\ worker[w] \in Migration!Worker /\ worker[w].group \in 1 .. 6
        /\ \A g \in 1 .. worker[w].group - 1 : ItemsOf(g) \subseteq items
        /\ worker[w].missing # {} /\ worker[w].missing \subseteq ItemsOf(worker[w].group)
        /\ ItemsOf(worker[w].group) \ worker[w].missing \subseteq items
    BY <2>1 DEF WorkersOK, WorkerOK
  <2>3. item \in worker[w].missing /\ item \in ItemsOf(worker[w].group)
    BY <2>2, MissingIsAdded
  <2>4. CASE item \in items
    <3>1. Migration!Become(w, [Migration!Begun EXCEPT !.pc = "down"]) /\ UNCHANGED items
      BY <1>2, <2>4 DEF Migration!Add
    <3> QED BY <2>1, <3>1, BegunTyped, WorkerBecomes
  <2>5. CASE item \notin items
    <3>1. items' = items \cup {item} /\ Migration!Become(w, Migration!Added(w, item))
      BY <1>2, <2>5 DEF Migration!Add
    <3> HIDE DEF item
    <3>2. items' \in SUBSET Migration!Items /\ items \subseteq items'
      BY <2>2, <2>3, <3>1, GroupsKnown
    <3>3. ItemsOf(worker[w].group) \ left \subseteq items'
      BY <2>2, <3>1
    <3>4. \A g \in 1 .. worker[w].group - 1 : ItemsOf(g) \subseteq items'
      BY <2>2, <3>2
    <3>5. Migration!Added(w, item) \in Migration!Worker
          /\ WorkerOK(Migration!Added(w, item), items')
      <4>1. CASE left # {}
        <5> DEFINE y == [worker[w] EXCEPT !.missing = left]
        <5>1. left \in SUBSET Migration!Items /\ left \subseteq ItemsOf(worker[w].group)
          BY <2>2, GroupsKnown
        <5>2. Migration!Added(w, item) = y
          BY <4>1 DEF Migration!Added
        <5> HIDE DEF left
        <5>3. /\ y \in Migration!Worker /\ y.pc = "add" /\ y.group = worker[w].group
              /\ y.missing = left
          BY <2>1, <2>2, <5>1 DEF Migration!Worker
        <5> HIDE DEF y
        <5> QED BY <3>3, <3>4, <4>1, <5>1, <5>2, <5>3 DEF WorkerOK
      <4>2. CASE left = {} /\ item \in Migration!Filled
        <5> DEFINE y == [worker[w] EXCEPT !.pc = "fill", !.missing = {}]
        <5>1. Migration!Added(w, item) = y
          BY <4>2 DEF Migration!Added
        <5>2. Migration!Groups[worker[w].group][1] \in Migration!Filled
          BY <2>2, <2>3, <4>2, GroupsKnown
        <5>3. ItemsOf(worker[w].group) \subseteq items'
          BY <3>3, <4>2
        <5>4. y \in Migration!Worker /\ y.pc = "fill" /\ y.group = worker[w].group
          BY <2>2 DEF Migration!Worker
        <5> HIDE DEF y
        <5> QED BY <3>4, <5>1, <5>2, <5>3, <5>4 DEF WorkerOK
      <4>3. CASE left = {} /\ item \notin Migration!Filled
        <5>1. Migration!Added(w, item) = Migration!NextGroup(w)
          BY <4>3 DEF Migration!Added
        <5>2. \A g \in 1 .. worker[w].group : ItemsOf(g) \subseteq items'
          BY <2>2, <3>3, <3>4, <4>3
        <5> QED BY <3>2, <5>1, <5>2, NextGroupTyped
      <4> QED BY <4>1, <4>2, <4>3
    <3> QED BY <2>1, <3>1, <3>2, <3>5, WorkerBecomes
  <2> QED BY <2>4, <2>5
<1>3. ASSUME NEW w \in Workers, Migration!Fill(w) PROVE Migration!TypeOK' /\ WorkersOK'
  <2> DEFINE final == worker[w].group = Len(Migration!Groups)
             x == IF final THEN [Migration!Begun EXCEPT !.pc = "serving"]
                  ELSE Migration!NextGroup(w)
  <2>1. /\ worker[w].pc = "fill" /\ Migration!Become(w, x) /\ UNCHANGED <<items, crashes>>
        /\ filled' = filled \cup {Migration!Groups[worker[w].group][1]}
        /\ cause' = IF final THEN Migration!Updated(Migration!Rewritten) ELSE cause
    BY <1>3 DEF Migration!Fill
  <2>2. /\ worker[w].group \in 1 .. 6
        /\ \A g \in 1 .. worker[w].group - 1 : ItemsOf(g) \subseteq items
        /\ ItemsOf(worker[w].group) \subseteq items
        /\ Migration!Groups[worker[w].group][1] \in Migration!Filled
    BY <2>1 DEF WorkersOK, WorkerOK
  <2>3. \A g \in 1 .. worker[w].group : ItemsOf(g) \subseteq items
    BY <2>2
  <2>4. filled' \in SUBSET Migration!Filled
    BY <2>1, <2>2
  <2>5. cause' \in [SessionRows -> Migration!Causes \cup {None}]
    BY <2>1, CausesTyped
  <2>6. x \in Migration!Worker /\ WorkerOK(x, items)
    <3>1. CASE final
      <4>1. items = Migration!Items
        BY <2>2, <2>3, <3>1, GroupsKnown
      <4> QED BY <3>1, <4>1, BegunTyped
    <3>2. CASE ~ final
      BY <2>3, <3>2, NextGroupTyped
    <3> QED BY <3>1, <3>2
  <2> HIDE DEF x
  <2> QED BY <2>1, <2>4, <2>5, <2>6, WorkerBecomes
<1>4. ASSUME NEW w \in Workers, Migration!Rewrite(w) PROVE Migration!TypeOK' /\ WorkersOK'
  <2>1. /\ worker[w].pc = "rewrite" /\ UNCHANGED <<items, filled, crashes>>
        /\ Migration!Become(w, [Migration!Begun EXCEPT !.pc = "serving"])
        /\ cause' = Migration!Updated(worker[w].batch)
    BY <1>4 DEF Migration!Rewrite
  <2>2. items = Migration!Items
    BY <2>1 DEF WorkersOK, WorkerOK
  <2>3. worker[w].batch \in [SessionRows -> Migration!Causes \cup {None}]
    BY DEF Migration!Worker
  <2>4. cause' \in [SessionRows -> Migration!Causes \cup {None}]
    BY <2>1, <2>3, CausesTyped
  <2> QED BY <2>1, <2>2, <2>4, BegunTyped, WorkerBecomes
<1>5. ASSUME NEW w \in Workers, Migration!Respawn(w) PROVE Migration!TypeOK' /\ WorkersOK'
  BY <1>5, BegunTyped, WorkerBecomes DEF Migration!Respawn
<1>6. ASSUME NEW w \in Workers, Migration!Kill(w) PROVE Migration!TypeOK' /\ WorkersOK'
  <2>1. crashes' \in 0 .. MaxCrashes
    BY <1>6 DEF Migration!Kill
  <2> QED BY <1>6, <2>1, BegunTyped, WorkerBecomes DEF Migration!Kill
<1>7. ASSUME NEW r \in SessionRows,
             Migration!Reopen(r) \/ \E c \in Migration!Labelled : Migration!CloseSession(r, c)
      PROVE  Migration!TypeOK' /\ WorkersOK'
  <2>1. UNCHANGED <<items, filled, worker, crashes>>
        /\ cause' \in [SessionRows -> Migration!Causes \cup {None}]
    BY <1>7 DEF Migration!Reopen, Migration!CloseSession, Migration!Labelled, Migration!Causes
  <2> QED BY <2>1 DEF Migration!TypeOK, WorkersOK
<1>8. ASSUME UNCHANGED Migration!uvars PROVE Migration!TypeOK' /\ WorkersOK'
  BY <1>8 DEF Migration!uvars, Migration!TypeOK, WorkersOK
<1> QED BY <1>1, <1>2, <1>3, <1>4, <1>5, <1>6, <1>7, <1>8 DEF Migration!Next, Migration!StartStep

\* The invariant of the starts.
LEMMA StartupInvHolds == PartSpec => []StartupInv
<1>1. PartInit => StartupInv
  BY PartsBegin, StartupBegin DEF StartupInv
<1>2. StartupInv /\ [PartNext]_vars => StartupInv'
  <2>1. Migration!TypeOK /\ WorkersOK /\ [Migration!Next]_(Migration!uvars)
        => (Migration!TypeOK /\ WorkersOK)'
    BY StartupStep
  <2> QED BY <2>1, PartsStep DEF StartupInv
<1> QED BY <1>1, <1>2, PTL DEF PartSpec

-----------------------------------------------------------------------------
(* Rooms. *)

\* Who is staying has stayed, and so has whoever a PMS has let through.
GuestsOK ==
  /\ \A k \in Rooms!Kinds : stays[k] \subseteq stayed
  /\ Rooms!RoomGuestsStayed
  /\ \A r \in Requests :
       /\ rreq[r].pc # "idle" => rreq[r].guest \in Guests /\ rreq[r].hotel \in Hotels
       /\ rreq[r].pc \in {"guest", "insert"} => rreq[r].guest \in stayed

\* A form about to write names an object that has been given an id; the only form
\* knows the key of that object as long as it is there.
SavesOK ==
  \A s \in SiteForms : save[s].pc = "write" =>
    LET place == sites[save[s].kind][save[s].row]
    IN /\ save[s].form \in Rooms!Site /\ save[s].row <= Len(sites[save[s].kind])
       /\ SiteForms = {s} /\ save[s].row # 0 /\ place # None => (place.key => save[s].old)

RoomsInv == part = "rooms" => Rooms!TypeOK /\ GuestsOK /\ SavesOK

\* Types of what is read.
LEMMA RoomsTyped ==
  ASSUME Rooms!TypeOK
  PROVE  /\ \A k \in Rooms!Kinds : /\ sites[k] \in Seq(Rooms!Site \cup {None})
                                   /\ Len(sites[k]) \in Nat /\ Len(sites[k]) <= MaxSites
         /\ MaxSites \in Nat
         /\ guests \in [Guests -> {None, "current", "lapsed"}]
         /\ stays \in [Rooms!Kinds -> SUBSET Guests] /\ stayed \in SUBSET Guests
         /\ rreq \in [Requests -> Rooms!Request] /\ save \in [SiteForms -> Rooms!Save]
         /\ None # "current" /\ None # "lapsed"
         /\ "opera" \in Rooms!Kinds /\ "onec" \in Rooms!Kinds
<1>1. MaxSites \in Nat /\ None # "current" /\ None # "lapsed"
  BY OperationsAssumption DEF Rooms!RoomAccessAssumption
<1>2. \A k \in Rooms!Kinds : /\ sites[k] \in Seq(Rooms!Site \cup {None})
                            /\ Len(sites[k]) \in Nat /\ Len(sites[k]) <= MaxSites
  BY DEF Rooms!TypeOK
<1> QED BY <1>1, <1>2 DEF Rooms!TypeOK, Rooms!Kinds

\* An object that is there is one.
LEMMA SiteTyped ==
  ASSUME Rooms!TypeOK, NEW k \in Rooms!Kinds, NEW i \in 1 .. Len(sites[k]), sites[k][i] # None
  PROVE  sites[k][i] \in Rooms!Site /\ sites[k][i].key \in BOOLEAN
<1>1. sites[k][i] \in Rooms!Site \cup {None}
  BY RoomsTyped, ElementOfSeq
<1> QED BY <1>1 DEF Rooms!Site

\* The invariant holds at first.
LEMMA RoomsBegin == ASSUME Rooms!Init PROVE Rooms!TypeOK /\ GuestsOK /\ SavesOK
<1>1. Rooms!TypeOK
  BY OperationsAssumption
     DEF Rooms!RoomAccessAssumption, Rooms!Init, Rooms!TypeOK, Rooms!NoRequest, Rooms!NoSave,
         Rooms!Request, Rooms!Save, Rooms!Kinds
<1>2. GuestsOK
  BY DEF Rooms!Init, GuestsOK, Rooms!RoomGuestsStayed, Rooms!NoRequest
<1>3. SavesOK
  BY DEF Rooms!Init, SavesOK, Rooms!NoSave
<1> QED BY <1>1, <1>2, <1>3

\* A login goes on, with a guest who has stayed where that matters, ...
LEMMA RequestMoved ==
  ASSUME Rooms!TypeOK, GuestsOK, SavesOK, NEW r \in Requests,
         NEW pc \in {"stays", "onec", "call", "guest", "insert"},
         rreq[r].pc # "idle", pc \in {"guest", "insert"} => rreq[r].guest \in stayed,
         Rooms!RequestAt(r, pc), UNCHANGED <<sites, guests, stays, stayed, save>>
  PROVE  Rooms!TypeOK' /\ GuestsOK' /\ SavesOK'
<1> USE RoomsTyped
<1> DEFINE x == [rreq[r] EXCEPT !.pc = pc]
<1>1. rreq' = [rreq EXCEPT ![r] = x]
  BY DEF Rooms!RequestAt
<1>2. x \in Rooms!Request /\ x.pc = pc /\ x.guest = rreq[r].guest /\ x.hotel = rreq[r].hotel
  BY DEF Rooms!Request
<1> HIDE DEF x
<1>3. Rooms!TypeOK'
  BY <1>1, <1>2 DEF Rooms!TypeOK
<1>4. GuestsOK'
  BY <1>1, <1>2 DEF GuestsOK, Rooms!RoomGuestsStayed
<1> QED BY <1>3, <1>4 DEF SavesOK

\* ... or ends, having left a row for such a guest or none.
LEMMA RequestEnded ==
  ASSUME Rooms!TypeOK, GuestsOK, SavesOK, NEW r \in Requests, Rooms!EndRequest(r),
         guests' = guests \/ \E g \in Guests : g \in stayed /\ guests' = [guests EXCEPT ![g] = "current"],
         UNCHANGED <<sites, stays, stayed, save>>
  PROVE  Rooms!TypeOK' /\ GuestsOK' /\ SavesOK'
<1> USE RoomsTyped
<1>1. rreq' = [rreq EXCEPT ![r] = Rooms!NoRequest] /\ Rooms!NoRequest \in Rooms!Request
  BY DEF Rooms!EndRequest, Rooms!NoRequest, Rooms!Request
<1>2. guests' \in [Guests -> {None, "current", "lapsed"}]
  OBVIOUS
<1>3. Rooms!TypeOK'
  BY <1>1, <1>2 DEF Rooms!TypeOK
<1>4. Rooms!RoomGuestsStayed'
  BY DEF GuestsOK, Rooms!RoomGuestsStayed
<1>5. GuestsOK'
  BY <1>1, <1>4 DEF GuestsOK, Rooms!NoRequest
<1> QED BY <1>3, <1>5 DEF SavesOK

\* Every step of a login keeps the invariant.
LEMMA RoomRequestStep ==
  ASSUME Rooms!TypeOK, GuestsOK, SavesOK, NEW r \in Requests, Rooms!RequestStep(r)
  PROVE  Rooms!TypeOK' /\ GuestsOK' /\ SavesOK'
<1> USE RoomsTyped
<1>1. ASSUME NEW g \in Guests, NEW hotel \in Hotels \cup {None}, Rooms!RoomCheck(r, g, hotel)
      PROVE  Rooms!TypeOK' /\ GuestsOK' /\ SavesOK'
  <2>1. UNCHANGED <<sites, guests, stays, stayed, save>>
    BY <1>1 DEF Rooms!RoomCheck
  <2>2. CASE rreq' = rreq
    BY <2>1, <2>2 DEF Rooms!TypeOK, GuestsOK, SavesOK, Rooms!RoomGuestsStayed
  <2>3. CASE rreq' # rreq
    <3> DEFINE x == [pc |-> "opera", guest |-> g, hotel |-> hotel]
    <3>1. rreq' = [rreq EXCEPT ![r] = x] /\ hotel \in Hotels /\ x \in Rooms!Request
      BY <1>1, <2>3 DEF Rooms!RoomCheck, Rooms!Request
    <3>2. Rooms!TypeOK'
      BY <2>1, <3>1 DEF Rooms!TypeOK
    <3>3. GuestsOK'
      BY <2>1, <3>1 DEF GuestsOK, Rooms!RoomGuestsStayed
    <3> QED BY <2>1, <3>2, <3>3 DEF SavesOK
  <2> QED BY <2>2, <2>3
<1>2. ASSUME Rooms!OperaSite(r) PROVE Rooms!TypeOK' /\ GuestsOK' /\ SavesOK'
  BY <1>2, RequestMoved DEF Rooms!OperaSite
<1>3. ASSUME Rooms!OperaStays(r) PROVE Rooms!TypeOK' /\ GuestsOK' /\ SavesOK'
  <2>1. stays["opera"] \subseteq stayed
    BY DEF GuestsOK
  <2> QED BY <1>3, <2>1, RequestMoved, RequestEnded DEF Rooms!OperaStays
<1>4. ASSUME Rooms!OneCSite(r) PROVE Rooms!TypeOK' /\ GuestsOK' /\ SavesOK'
  BY <1>4, RequestMoved, RequestEnded DEF Rooms!OneCSite
<1>5. ASSUME Rooms!OneCCall(r) PROVE Rooms!TypeOK' /\ GuestsOK' /\ SavesOK'
  <2>1. stays["onec"] \subseteq stayed
    BY DEF GuestsOK
  <2> QED BY <1>5, <2>1, RequestMoved, RequestEnded DEF Rooms!OneCCall
<1>6. ASSUME Rooms!GuestUpdate(r) PROVE Rooms!TypeOK' /\ GuestsOK' /\ SavesOK'
  <2>1. rreq[r].guest \in Guests /\ rreq[r].guest \in stayed
    BY <1>6 DEF Rooms!GuestUpdate, GuestsOK
  <2> QED BY <1>6, <2>1, RequestMoved, RequestEnded DEF Rooms!GuestUpdate
<1>7. ASSUME Rooms!GuestInsert(r) PROVE Rooms!TypeOK' /\ GuestsOK' /\ SavesOK'
  <2>1. rreq[r].guest \in Guests /\ rreq[r].guest \in stayed
    BY <1>7 DEF Rooms!GuestInsert, GuestsOK
  <2> QED BY <1>7, <2>1, RequestEnded DEF Rooms!GuestInsert
<1> QED BY <1>1, <1>2, <1>3, <1>4, <1>5, <1>6, <1>7 DEF Rooms!RequestStep

\* An object is written.
Written(k, i, place) == sites' = [sites EXCEPT ![k][i] = place]

\* A form that writes an object leaves a table of objects.
LEMMA SiteWritten ==
  ASSUME Rooms!TypeOK, NEW k \in Rooms!Kinds, NEW i \in 1 .. Len(sites[k]),
         NEW place \in Rooms!Site \cup {None}, Written(k, i, place)
  PROVE  /\ sites' \in [Rooms!Kinds -> Seq(Rooms!Site \cup {None})]
         /\ \A kk \in Rooms!Kinds : Len(sites'[kk]) = Len(sites[kk])
         /\ sites'[k][i] = place
         /\ \A kk \in Rooms!Kinds : \A j \in 1 .. Len(sites[kk]) :
              kk # k \/ j # i => sites'[kk][j] = sites[kk][j]
<1>1. sites \in [Rooms!Kinds -> Seq(Rooms!Site \cup {None})]
  BY DEF Rooms!TypeOK
<1>2. sites' = [sites EXCEPT ![k] = [sites[k] EXCEPT ![i] = place]]
  BY <1>1 DEF Written
<1>3. /\ [sites[k] EXCEPT ![i] = place] \in Seq(Rooms!Site \cup {None})
      /\ Len([sites[k] EXCEPT ![i] = place]) = Len(sites[k])
      /\ [sites[k] EXCEPT ![i] = place][i] = place
      /\ \A j \in 1 .. Len(sites[k]) : j # i => [sites[k] EXCEPT ![i] = place][j] = sites[k][j]
  BY <1>1, ExceptSeq
<1> QED BY <1>1, <1>2, <1>3

\* A form knows the object it has found.
LEMMA SaveReadStep ==
  ASSUME Rooms!TypeOK, GuestsOK, SavesOK, NEW s \in SiteForms, NEW k \in Rooms!Kinds,
         NEW new \in Rooms!Site, Rooms!SaveRead(s, k, new)
  PROVE  Rooms!TypeOK' /\ GuestsOK' /\ SavesOK'
<1> USE RoomsTyped
<1>1. UNCHANGED <<sites, guests, stays, stayed, rreq>>
  BY DEF Rooms!SaveRead
<1>2. ASSUME NEW x \in Rooms!Save, save' = [save EXCEPT ![s] = x], x.form = new, x.kind = k,
             x.row # 0 => /\ x.row \in 1 .. Len(sites[k]) /\ sites[k][x.row] # None
                          /\ x.old = sites[k][x.row].key
      PROVE  Rooms!TypeOK' /\ GuestsOK' /\ SavesOK'
  <2>1. Rooms!TypeOK'
    BY <1>1, <1>2 DEF Rooms!TypeOK
  <2>2. GuestsOK'
    BY <1>1 DEF GuestsOK, Rooms!RoomGuestsStayed
  <2>3. x.row <= Len(sites[k])
    BY <1>2
  <2>4. SavesOK'
    <3> SUFFICES ASSUME NEW z \in SiteForms, save'[z].pc = "write"
                 PROVE  LET place == sites[save'[z].kind][save'[z].row]
                        IN /\ save'[z].form \in Rooms!Site
                           /\ save'[z].row <= Len(sites[save'[z].kind])
                           /\ SiteForms = {z} /\ save'[z].row # 0 /\ place # None
                                => (place.key => save'[z].old)
      BY <1>1 DEF SavesOK
    <3>1. CASE z = s
      <4>1. save'[z] = x
        BY <1>2, <3>1
      <4> QED BY <1>2, <2>3, <4>1
    <3>2. CASE z # s
      <4>1. save'[z] = save[z]
        BY <1>2, <3>2
      <4> QED BY <4>1 DEF SavesOK
    <3> QED BY <3>1, <3>2
  <2> QED BY <2>1, <2>2, <2>4
<1>3. ASSUME save' = [save EXCEPT ![s] = [pc |-> "write", kind |-> k, form |-> new, row |-> 0,
                                          old |-> FALSE]]
      PROVE  Rooms!TypeOK' /\ GuestsOK' /\ SavesOK'
  <2> DEFINE x == [pc |-> "write", kind |-> k, form |-> new, row |-> 0, old |-> FALSE]
  <2>1. x \in Rooms!Save /\ x.form = new /\ x.kind = k /\ x.row = 0
    BY DEF Rooms!Save
  <2>2. save' = [save EXCEPT ![s] = x]
    BY <1>3
  <2> HIDE DEF x
  <2> QED BY <1>2, <2>1, <2>2
<1>4. ASSUME NEW i \in Rooms!Coded(k, new.code),
             save' = [save EXCEPT ![s] = [pc |-> "write", kind |-> k, form |-> new, row |-> i,
                                          old |-> sites[k][i].key]]
      PROVE  Rooms!TypeOK' /\ GuestsOK' /\ SavesOK'
  <2> DEFINE x == [pc |-> "write", kind |-> k, form |-> new, row |-> i, old |-> sites[k][i].key]
  <2>1. i \in 1 .. Len(sites[k]) /\ sites[k][i] # None
    BY DEF Rooms!Coded
  <2>2. sites[k][i].key \in BOOLEAN
    BY <2>1, SiteTyped
  <2>3. i \in 0 .. MaxSites
    BY <2>1
  <2>4. x \in Rooms!Save /\ x.form = new /\ x.kind = k /\ x.row = i /\ x.old = sites[k][i].key
    BY <2>2, <2>3 DEF Rooms!Save
  <2>5. save' = [save EXCEPT ![s] = x]
    BY <1>4
  <2> HIDE DEF x
  <2> QED BY <1>2, <2>1, <2>4, <2>5
<1>5. \/ save' = [save EXCEPT ![s] = [pc |-> "write", kind |-> k, form |-> new, row |-> 0,
                                       old |-> FALSE]]
      \/ \E i \in Rooms!Coded(k, new.code) :
           save' = [save EXCEPT ![s] = [pc |-> "write", kind |-> k, form |-> new, row |-> i,
                                        old |-> sites[k][i].key]]
  BY DEF Rooms!SaveRead
<1> QED BY <1>3, <1>4, <1>5

\* What was found is written, unless it is gone.
LEMMA SaveUpdateStep ==
  ASSUME Rooms!TypeOK, GuestsOK, SavesOK, NEW s \in SiteForms, Rooms!SaveUpdate(s)
  PROVE  /\ Rooms!TypeOK' /\ GuestsOK' /\ SavesOK'
         /\ SiteForms = {s} => Rooms!KeysStay
<1> USE RoomsTyped
<1> DEFINE k == save[s].kind
           i == save[s].row
           new == save[s].form
           place == [new EXCEPT !.key = @ \/ save[s].old]
<1>1. /\ save[s].pc = "write" /\ i # 0 /\ save' = [save EXCEPT ![s] = Rooms!NoSave]
      /\ sites' = IF sites[k][i] = None THEN sites ELSE [sites EXCEPT ![k][i] = place]
      /\ UNCHANGED <<guests, stays, stayed, rreq>>
  BY DEF Rooms!SaveUpdate
<1>2. k \in Rooms!Kinds /\ i \in 1 .. Len(sites[k]) /\ new \in Rooms!Site
      /\ save[s].old \in BOOLEAN
  BY <1>1 DEF SavesOK, Rooms!Save
<1>3. /\ place \in Rooms!Site /\ (save[s].old => place.key)
  BY <1>2 DEF Rooms!Site
<1> HIDE DEF place
<1>4. /\ sites' \in [Rooms!Kinds -> Seq(Rooms!Site \cup {None})]
      /\ \A kk \in Rooms!Kinds : Len(sites'[kk]) = Len(sites[kk])
      /\ \A kk \in Rooms!Kinds : \A j \in 1 .. Len(sites[kk]) :
           \/ kk = k /\ j = i /\ sites[k][i] # None /\ sites'[k][i] = place
           \/ sites'[kk][j] = sites[kk][j]
  <2>1. CASE sites[k][i] = None
    BY <1>1, <2>1 DEF Rooms!TypeOK
  <2>2. CASE sites[k][i] # None
    <3>1. Written(k, i, place) /\ place \in Rooms!Site \cup {None}
      BY <1>1, <1>3, <2>2 DEF Written
    <3>2. /\ sites' \in [Rooms!Kinds -> Seq(Rooms!Site \cup {None})]
          /\ \A kk \in Rooms!Kinds : Len(sites'[kk]) = Len(sites[kk])
          /\ sites'[k][i] = place
          /\ \A kk \in Rooms!Kinds : \A j \in 1 .. Len(sites[kk]) :
               kk # k \/ j # i => sites'[kk][j] = sites[kk][j]
      <4> HIDE DEF k, i, new
      <4> QED BY <1>2, <3>1, SiteWritten
    <3> QED BY <2>2, <3>2
  <2> QED BY <2>1, <2>2
<1>5. save' \in [SiteForms -> Rooms!Save] /\ Rooms!NoSave.pc = "idle"
  BY <1>1 DEF Rooms!NoSave, Rooms!Save, Rooms!Kinds
<1>6. Rooms!TypeOK'
  BY <1>1, <1>4, <1>5 DEF Rooms!TypeOK
<1>7. GuestsOK'
  BY <1>1 DEF GuestsOK, Rooms!RoomGuestsStayed
<1>8. SavesOK'
  <2> SUFFICES ASSUME NEW z \in SiteForms, save'[z].pc = "write"
               PROVE  /\ save'[z].form \in Rooms!Site
                      /\ save'[z].row <= Len(sites'[save'[z].kind])
                      /\ SiteForms # {z}
    BY DEF SavesOK
  <2>1. z # s /\ save'[z] = save[z]
    BY <1>1, <1>5
  <2>2. save[z].kind \in Rooms!Kinds
    BY DEF Rooms!Save
  <2> QED BY <1>4, <2>1, <2>2 DEF SavesOK
<1>9. ASSUME SiteForms = {s} PROVE Rooms!KeysStay
  <2> SUFFICES ASSUME NEW kk \in Rooms!Kinds, NEW j \in 1 .. Len(sites[kk]),
                      sites[kk][j] # None, sites[kk][j].key, sites'[kk][j] # None
               PROVE  sites'[kk][j].key
    BY DEF Rooms!KeysStay
  <2>1. CASE sites'[kk][j] = sites[kk][j]
    BY <2>1
  <2>2. CASE kk = k /\ j = i /\ sites'[k][i] = place
    BY <1>1, <1>2, <1>3, <1>9, <2>2 DEF SavesOK
  <2> QED BY <1>4, <2>1, <2>2
<1> QED BY <1>6, <1>7, <1>8, <1>9

\* What was not found is added.
LEMMA SaveInsertStep ==
  ASSUME Rooms!TypeOK, GuestsOK, SavesOK, NEW s \in SiteForms, Rooms!SaveInsert(s)
  PROVE  Rooms!TypeOK' /\ GuestsOK' /\ SavesOK' /\ Rooms!KeysStay
<1> USE RoomsTyped
<1> DEFINE k == save[s].kind
           new == save[s].form
<1>1. /\ save[s].pc = "write" /\ save' = [save EXCEPT ![s] = Rooms!NoSave]
      /\ \/ sites' = sites
         \/ Len(sites[k]) < MaxSites /\ sites' = [sites EXCEPT ![k] = Append(sites[k], new)]
      /\ UNCHANGED <<guests, stays, stayed, rreq>>
  BY DEF Rooms!SaveInsert
<1>2. k \in Rooms!Kinds /\ new \in Rooms!Site
  BY <1>1 DEF SavesOK, Rooms!Save
<1>3. /\ sites' \in [Rooms!Kinds -> Seq(Rooms!Site \cup {None})]
      /\ \A kk \in Rooms!Kinds :
           /\ Len(sites'[kk]) \in Nat /\ Len(sites'[kk]) <= MaxSites
           /\ Len(sites[kk]) <= Len(sites'[kk])
           /\ \A j \in 1 .. Len(sites[kk]) : sites'[kk][j] = sites[kk][j]
  <2>0. sites \in [Rooms!Kinds -> Seq(Rooms!Site \cup {None})]
    BY DEF Rooms!TypeOK
  <2>1. CASE sites' = sites
    BY <2>0, <2>1
  <2>2. CASE Len(sites[k]) < MaxSites /\ sites' = [sites EXCEPT ![k] = Append(sites[k], new)]
    <3>1. /\ Append(sites[k], new) \in Seq(Rooms!Site \cup {None})
          /\ Len(Append(sites[k], new)) = Len(sites[k]) + 1
          /\ \A j \in 1 .. Len(sites[k]) : Append(sites[k], new)[j] = sites[k][j]
      BY <1>2, AppendProperties
    <3> QED BY <1>2, <2>0, <2>2, <3>1
  <2> QED BY <1>1, <2>1, <2>2
<1>4. save' \in [SiteForms -> Rooms!Save] /\ Rooms!NoSave.pc = "idle"
  BY <1>1 DEF Rooms!NoSave, Rooms!Save, Rooms!Kinds
<1>5. Rooms!TypeOK'
  BY <1>1, <1>3, <1>4 DEF Rooms!TypeOK
<1>6. GuestsOK'
  BY <1>1 DEF GuestsOK, Rooms!RoomGuestsStayed
<1>7. SavesOK'
  <2> SUFFICES ASSUME NEW z \in SiteForms, save'[z].pc = "write"
               PROVE  /\ save'[z].form \in Rooms!Site
                      /\ save'[z].row <= Len(sites'[save'[z].kind])
                      /\ SiteForms # {z}
    BY DEF SavesOK
  <2>1. z # s /\ save'[z] = save[z]
    BY <1>1, <1>4
  <2>2. save[z].kind \in Rooms!Kinds /\ save[z].row \in Int
    BY OperationsAssumption DEF Rooms!RoomAccessAssumption, Rooms!Save
  <2>3. save[z].row <= Len(sites[save[z].kind])
    BY <2>1 DEF SavesOK
  <2> QED BY <1>3, <2>1, <2>2, <2>3 DEF SavesOK
<1>8. Rooms!KeysStay
  BY <1>3 DEF Rooms!KeysStay
<1> QED BY <1>5, <1>6, <1>7, <1>8

\* An object is removed; a form about it has nothing to know any more.
LEMMA SiteDeleted ==
  ASSUME Rooms!TypeOK, GuestsOK, SavesOK, NEW k \in Rooms!Kinds, NEW i \in 1 .. Len(sites[k]),
         Rooms!DeleteSite(k, i)
  PROVE  Rooms!TypeOK' /\ GuestsOK' /\ SavesOK' /\ Rooms!KeysStay
<1> USE RoomsTyped
<1>1. Written(k, i, None) /\ UNCHANGED <<guests, stays, stayed, rreq, save>>
  BY DEF Written, Rooms!DeleteSite
<1>2. /\ sites' \in [Rooms!Kinds -> Seq(Rooms!Site \cup {None})]
      /\ \A kk \in Rooms!Kinds : Len(sites'[kk]) = Len(sites[kk])
      /\ \A kk \in Rooms!Kinds : \A j \in 1 .. Len(sites[kk]) :
           sites'[kk][j] = None \/ sites'[kk][j] = sites[kk][j]
  BY <1>1, SiteWritten
<1>3. Rooms!TypeOK'
  BY <1>1, <1>2 DEF Rooms!TypeOK
<1>4. GuestsOK'
  BY <1>1 DEF GuestsOK, Rooms!RoomGuestsStayed
<1>5. SavesOK'
  <2> SUFFICES ASSUME NEW s \in SiteForms, save[s].pc = "write"
               PROVE  LET place == sites'[save[s].kind][save[s].row]
                      IN /\ save[s].form \in Rooms!Site
                         /\ save[s].row <= Len(sites'[save[s].kind])
                         /\ SiteForms = {s} /\ save[s].row # 0 /\ place # None
                              => (place.key => save[s].old)
    BY <1>1 DEF SavesOK
  <2>1. save[s].kind \in Rooms!Kinds /\ save[s].row \in 0 .. MaxSites
    BY DEF Rooms!Save
  <2>2. /\ save[s].form \in Rooms!Site /\ save[s].row <= Len(sites[save[s].kind])
        /\ SiteForms = {s} /\ save[s].row # 0 /\ sites[save[s].kind][save[s].row] # None
             => (sites[save[s].kind][save[s].row].key => save[s].old)
    BY DEF SavesOK
  <2>3. Len(sites'[save[s].kind]) = Len(sites[save[s].kind])
    BY <1>2, <2>1
  <2>4. save[s].row # 0 => \/ sites'[save[s].kind][save[s].row] = None
                          \/ sites'[save[s].kind][save[s].row] = sites[save[s].kind][save[s].row]
    BY <1>2, <2>1, <2>2
  <2> QED BY <2>2, <2>3, <2>4
<1>6. Rooms!KeysStay
  BY <1>2 DEF Rooms!KeysStay
<1> QED BY <1>3, <1>4, <1>5, <1>6

\* Nothing but a form, or the removal of an object, touches the keys.
LEMMA SitesSame == ASSUME sites' = sites PROVE Rooms!KeysStay
BY DEF Rooms!KeysStay

\* Every step keeps the invariant and, with one form at a time, the keys.
LEMMA RoomsStep ==
  ASSUME Rooms!TypeOK, GuestsOK, SavesOK, [Rooms!Next]_(Rooms!rvars)
  PROVE  /\ Rooms!TypeOK' /\ GuestsOK' /\ SavesOK'
         /\ \A s \in SiteForms : SiteForms = {s} => Rooms!KeysStay
<1> DEFINE Kept == /\ Rooms!TypeOK' /\ GuestsOK' /\ SavesOK'
                   /\ \A s \in SiteForms : SiteForms = {s} => Rooms!KeysStay
<1>1. ASSUME NEW r \in Requests, Rooms!RequestStep(r) PROVE Kept
  <2>1. sites' = sites
    BY <1>1 DEF Rooms!RequestStep, Rooms!RoomCheck, Rooms!OperaSite, Rooms!OperaStays,
                Rooms!OneCSite, Rooms!OneCCall, Rooms!GuestUpdate, Rooms!GuestInsert
  <2> QED BY <1>1, <2>1, SitesSame, RoomRequestStep
<1>2. ASSUME NEW s \in SiteForms, Rooms!SaveStep(s) PROVE Kept
  <2>1. ASSUME NEW k \in Rooms!Kinds, NEW new \in Rooms!Site, Rooms!SaveRead(s, k, new)
        PROVE  Kept
    <3>1. sites' = sites
      BY <2>1 DEF Rooms!SaveRead
    <3> QED BY <2>1, <3>1, SitesSame, SaveReadStep
  <2>2. ASSUME Rooms!SaveUpdate(s) PROVE Kept
    <3>1. ASSUME NEW z \in SiteForms, SiteForms = {z} PROVE SiteForms = {s}
      BY <3>1
    <3> QED BY <2>2, <3>1, SaveUpdateStep
  <2>3. ASSUME Rooms!SaveInsert(s) PROVE Kept
    BY <2>3, SaveInsertStep
  <2> QED BY <1>2, <2>1, <2>2, <2>3 DEF Rooms!SaveStep
<1>3. ASSUME NEW k \in Rooms!Kinds, NEW i \in 1 .. Len(sites[k]), Rooms!DeleteSite(k, i)
      PROVE  Kept
  BY <1>3, SiteDeleted
<1>4. ASSUME NEW k \in Rooms!Kinds, NEW g \in Guests,
             Rooms!CheckIn(k, g) \/ Rooms!CheckOut(k, g)
      PROVE  Kept
  <2>1. UNCHANGED <<sites, guests, rreq, save>> /\ stayed \subseteq stayed'
        /\ stayed' \in SUBSET Guests /\ stays' \in [Rooms!Kinds -> SUBSET Guests]
        /\ \A kk \in Rooms!Kinds : stays[kk] \subseteq stayed => stays'[kk] \subseteq stayed'
    BY <1>4, RoomsTyped DEF Rooms!CheckIn, Rooms!CheckOut
  <2>2. Rooms!TypeOK'
    BY <2>1 DEF Rooms!TypeOK
  <2>3. GuestsOK'
    BY <2>1 DEF GuestsOK, Rooms!RoomGuestsStayed
  <2>4. SavesOK'
    BY <2>1 DEF SavesOK
  <2> QED BY <2>1, <2>2, <2>3, <2>4, SitesSame
<1>5. ASSUME NEW g \in Guests, Rooms!Lapse(g) PROVE Kept
  <2>1. UNCHANGED <<sites, stays, stayed, rreq, save>> /\ guests[g] = "current"
        /\ guests' = [guests EXCEPT ![g] = "lapsed"]
    BY <1>5 DEF Rooms!Lapse
  <2>2. Rooms!TypeOK'
    BY <2>1 DEF Rooms!TypeOK
  <2>3. GuestsOK'
    BY <2>1, RoomsTyped DEF GuestsOK, Rooms!RoomGuestsStayed
  <2>4. SavesOK'
    BY <2>1 DEF SavesOK
  <2> QED BY <2>1, <2>2, <2>3, <2>4, SitesSame
<1>6. ASSUME UNCHANGED (Rooms!rvars) PROVE Kept
  <2>1. UNCHANGED <<sites, guests, stays, stayed, rreq, save>>
    BY <1>6 DEF Rooms!rvars
  <2>2. Rooms!TypeOK'
    BY <2>1 DEF Rooms!TypeOK
  <2>3. GuestsOK' /\ SavesOK'
    BY <2>1 DEF GuestsOK, Rooms!RoomGuestsStayed, SavesOK
  <2> QED BY <2>1, <2>2, <2>3, SitesSame
<1> QED BY <1>1, <1>2, <1>3, <1>4, <1>5, <1>6 DEF Rooms!Next

\* The invariant of the rooms.
LEMMA RoomsInvHolds == PartSpec => []RoomsInv
<1>1. PartInit => RoomsInv
  BY PartsBegin, RoomsBegin DEF RoomsInv
<1>2. RoomsInv /\ [PartNext]_vars => RoomsInv'
  <2>1. /\ Rooms!TypeOK /\ GuestsOK /\ SavesOK /\ [Rooms!Next]_(Rooms!rvars)
        => (Rooms!TypeOK /\ GuestsOK /\ SavesOK)'
    BY RoomsStep
  <2> QED BY <2>1, PartsStep DEF RoomsInv
<1> QED BY <1>1, <1>2, PTL DEF PartSpec

-----------------------------------------------------------------------------
(* Backups. *)

\* The directory of a run is the newest of all, and good once it has been checked:
\* rotation, which keeps one at least, is not for it.
NewestOK ==
  /\ \A t \in Copies!Present : t <= clock
  /\ backup.pc # "idle" => /\ backup.at \in Copies!Present /\ backup.keep \in Keeps
                           /\ \A t \in Copies!Present : t <= backup.at
  /\ backup.pc \in {"rotate", "remove"} => dirs[backup.at] = "good"

BackupsInv == part = "backups" => Copies!TypeOK /\ NewestOK /\ Copies!GoodBackupRemains

\* What is removed is not the directory of the run.
LEMMA RunIsNotStale ==
  ASSUME Copies!TypeOK, NewestOK, backup.pc # "idle"
  PROVE  backup.at \notin Copies!Stale
<1>1. {u \in Copies!Present : u > backup.at} = {}
  <2>1. \A u \in Copies!Present : u \in Int /\ u <= backup.at
    BY DEF NewestOK, Copies!Present, Copies!Times
  <2>2. backup.at \in Int
    BY DEF NewestOK, Copies!Present, Copies!Times
  <2> QED BY <2>1, <2>2
<1>2. Copies!Cardinality({}) = 0
  <2>1. \A S : Copies!Cardinality(S) = Cardinality(S)
    BY DEF Copies!Cardinality, Cardinality
  <2> QED BY <2>1, FS_EmptySet
<1>3. backup.keep \in Nat \ {0}
  BY OperationsAssumption DEF Copies!BackupsAssumption, NewestOK
<1> QED BY <1>1, <1>2, <1>3 DEF Copies!Stale

\* The types of what the properties of a run are about.
LEMMA BackupTyped ==
  ASSUME Copies!TypeOK
  PROVE  /\ clock \in Copies!Times /\ Copies!Times \subseteq Nat \ {0}
         /\ backup.pc \in {"idle", "copy", "rotate", "remove"}
         /\ backup.at \in {0} \cup Copies!Times
         /\ MaxTime \in Nat /\ reported \in {0} \cup Copies!Times
         /\ dirs \in [Copies!Times -> {"absent", "partial", "good"}]
BY OperationsAssumption DEF Copies!TypeOK, Copies!BackupsAssumption, Copies!Times

\* The invariant holds at first.
LEMMA BackupsBegin ==
  ASSUME Copies!Init PROVE Copies!TypeOK /\ NewestOK /\ Copies!GoodBackupRemains
BY OperationsAssumption DEF Copies!BackupsAssumption, Copies!Init, Copies!TypeOK, NewestOK,
   Copies!NoBackup, Copies!Times, Copies!Present, Copies!GoodBackupRemains

\* A rotation takes a directory, or some of it.
LEMMA DirRemoved ==
  ASSUME Copies!TypeOK, NewestOK, Copies!GoodBackupRemains, backup.pc \in {"rotate", "remove"},
         NEW t \in Copies!Stale, NEW left \in {"partial", "absent"}, NEW pc \in {"rotate", "remove"},
         dirs' = [dirs EXCEPT ![t] = left], Copies!Goto(pc), UNCHANGED <<clock, reported>>
  PROVE  Copies!TypeOK' /\ NewestOK' /\ Copies!GoodBackupRemains'
<1> USE BackupTyped
<1>1. /\ t # backup.at /\ t \in Copies!Present
      /\ backup.at \in Copies!Present /\ backup.keep \in Keeps /\ dirs[backup.at] = "good"
  BY RunIsNotStale DEF NewestOK, Copies!Stale
<1>2. t \in Copies!Times /\ backup.at \in Copies!Times
  BY <1>1 DEF Copies!Present
<1>3. backup'.pc = pc /\ backup'.at = backup.at /\ backup'.keep = backup.keep
  BY DEF Copies!Goto, Copies!TypeOK
<1>4. Copies!TypeOK'
  BY DEF Copies!TypeOK, Copies!Goto
<1>5. dirs'[backup.at] = "good" /\ Copies!Present' \subseteq Copies!Present
      /\ backup.at \in Copies!Present'
  BY <1>1, <1>2 DEF Copies!Present
<1>6. NewestOK'
  BY <1>1, <1>3, <1>5 DEF NewestOK
<1>7. Copies!GoodBackupRemains'
  <2> SUFFICES ASSUME reported # 0 PROVE backup.at >= reported
    BY <1>2, <1>5 DEF Copies!GoodBackupRemains
  <2>1. PICK u \in Copies!Times : u >= reported /\ dirs[u] = "good"
    BY DEF Copies!GoodBackupRemains
  <2>2. u <= backup.at
    BY <2>1 DEF NewestOK, Copies!Present
  <2> QED BY <2>1, <2>2, <1>2
<1> QED BY <1>4, <1>6, <1>7

\* Every step keeps the invariant.
LEMMA BackupsStep ==
  ASSUME Copies!TypeOK, NewestOK, Copies!GoodBackupRemains, [Copies!Next]_(Copies!bvars)
  PROVE  Copies!TypeOK' /\ NewestOK' /\ Copies!GoodBackupRemains'
<1> USE BackupTyped
<1>i. Copies!NoBackup \in [pc : {"idle", "copy", "rotate", "remove"}, at : {0} \cup Copies!Times,
                           keep : {0} \cup Keeps]
      /\ Copies!NoBackup.pc = "idle"
  BY DEF Copies!NoBackup
<1>1. ASSUME NEW keep \in Keeps, Copies!Begin(keep)
      PROVE  Copies!TypeOK' /\ NewestOK' /\ Copies!GoodBackupRemains'
  <2>1. Copies!TypeOK'
    BY <1>1 DEF Copies!Begin, Copies!TypeOK
  <2>2. Copies!Present' = Copies!Present \cup {clock}
    BY <1>1 DEF Copies!Begin, Copies!Present
  <2>3. NewestOK'
    BY <1>1, <2>2 DEF Copies!Begin, NewestOK
  <2>4. Copies!GoodBackupRemains'
    BY <1>1 DEF Copies!Begin, Copies!GoodBackupRemains
  <2> QED BY <2>1, <2>3, <2>4
<1>2. ASSUME NEW ok \in BOOLEAN, Copies!Check(ok)
      PROVE  Copies!TypeOK' /\ NewestOK' /\ Copies!GoodBackupRemains'
  <2>0. backup.at \in Copies!Present /\ backup.keep \in Keeps
    BY <1>2 DEF Copies!Check, NewestOK
  <2>1. backup.at \in Copies!Times
    BY <2>0 DEF Copies!Present
  <2>2. CASE ok
    <3>1. /\ dirs' = [dirs EXCEPT ![backup.at] = "good"] /\ UNCHANGED <<clock, reported>>
          /\ backup' = [backup EXCEPT !.pc = "rotate"]
      BY <1>2, <2>2 DEF Copies!Check, Copies!Goto
    <3>2. Copies!TypeOK'
      BY <3>1 DEF Copies!TypeOK
    <3>3. Copies!Present' = Copies!Present
      BY <2>0, <2>1, <3>1 DEF Copies!Present
    <3>4. backup'.pc = "rotate" /\ backup'.at = backup.at /\ backup'.keep = backup.keep
      BY <3>1 DEF Copies!TypeOK
    <3>5. NewestOK'
      BY <1>2, <2>0, <2>1, <3>1, <3>3, <3>4 DEF NewestOK, Copies!Check
    <3>6. Copies!GoodBackupRemains'
      BY <2>1, <3>1 DEF Copies!GoodBackupRemains
    <3> QED BY <3>2, <3>5, <3>6
  <2>3. CASE ~ ok
    BY <1>2, <1>i, <2>3
       DEF Copies!Check, Copies!TypeOK, NewestOK, Copies!Present, Copies!GoodBackupRemains
  <2> QED BY <2>2, <2>3
<1>3. ASSUME NEW t \in Copies!Times, Copies!RemoveFiles(t) \/ Copies!RemoveDir(t)
      PROVE  Copies!TypeOK' /\ NewestOK' /\ Copies!GoodBackupRemains'
  BY <1>3, DirRemoved DEF Copies!RemoveFiles, Copies!RemoveDir
<1>4. ASSUME Copies!Report PROVE Copies!TypeOK' /\ NewestOK' /\ Copies!GoodBackupRemains'
  <2>1. backup.at \in Copies!Times /\ dirs[backup.at] = "good"
    BY <1>4 DEF Copies!Report, NewestOK, Copies!Present
  <2>2. Copies!TypeOK' /\ NewestOK'
    BY <1>4, <1>i, <2>1 DEF Copies!Report, Copies!TypeOK, NewestOK, Copies!Present
  <2>3. Copies!GoodBackupRemains'
    BY <1>4, <2>1 DEF Copies!Report, Copies!GoodBackupRemains
  <2> QED BY <2>2, <2>3
<1>5. ASSUME Copies!Stop PROVE Copies!TypeOK' /\ NewestOK' /\ Copies!GoodBackupRemains'
  BY <1>5, <1>i
     DEF Copies!Stop, Copies!TypeOK, NewestOK, Copies!Present, Copies!GoodBackupRemains
<1>6. ASSUME Copies!Tick PROVE Copies!TypeOK' /\ NewestOK' /\ Copies!GoodBackupRemains'
  <2>1. Copies!TypeOK' /\ Copies!GoodBackupRemains'
    BY <1>6 DEF Copies!Tick, Copies!TypeOK, Copies!Times, Copies!GoodBackupRemains
  <2>2. Copies!Present' = Copies!Present /\ \A t \in Copies!Present : t \in Nat
    BY <1>6 DEF Copies!Tick, Copies!Present
  <2>3. NewestOK'
    BY <1>6, <2>2 DEF Copies!Tick, NewestOK
  <2> QED BY <2>1, <2>3
<1>7. ASSUME UNCHANGED (Copies!bvars)
      PROVE  Copies!TypeOK' /\ NewestOK' /\ Copies!GoodBackupRemains'
  BY <1>7 DEF Copies!bvars, Copies!TypeOK, NewestOK, Copies!Present, Copies!GoodBackupRemains
<1> QED BY <1>1, <1>2, <1>3, <1>4, <1>5, <1>6, <1>7 DEF Copies!Next

\* The invariant of the backups.
LEMMA BackupsInvHolds == PartSpec => []BackupsInv
<1>1. PartInit => BackupsInv
  BY PartsBegin, BackupsBegin DEF BackupsInv
<1>2. BackupsInv /\ [PartNext]_vars => BackupsInv'
  <2>1. /\ Copies!TypeOK /\ NewestOK /\ Copies!GoodBackupRemains /\ [Copies!Next]_(Copies!bvars)
        => (Copies!TypeOK /\ NewestOK /\ Copies!GoodBackupRemains)'
    BY BackupsStep
  <2> QED BY <2>1, PartsStep DEF BackupsInv
<1> QED BY <1>1, <1>2, PTL DEF PartSpec

-----------------------------------------------------------------------------
(* Settings. *)

\* What was there when a start began is there still, and is no key that the start is
\* about to set.
StartsOK ==
  \A w \in Workers : /\ boot[w].there \subseteq Saved!Present
                     /\ boot[w].pc = "set" => Saved!Defaults[boot[w].key] \notin boot[w].there

\* A form has a key to save.
PagesOK ==
  \A f \in SettingForms :
    page[f] # Saved!NoPage => page[f].keys \in Saved!Pages /\ page[f].next <= Len(page[f].keys)

SettingsInv == part = "settings" => Saved!TypeOK /\ StartsOK /\ PagesOK

\* The keys by their places.
LEMMA SettingKeysKnown ==
  /\ Len(Saved!Defaults) = 4 /\ DOMAIN Saved!Defaults = 1 .. 4
  /\ \A i \in 1 .. 4 : Saved!Defaults[i] \in Saved!SettingKeys
  /\ \A keys \in Saved!Pages : /\ Len(keys) \in 1 .. 2
                               /\ \A i \in 1 .. Len(keys) : keys[i] \in Saved!SettingKeys
  /\ << >> \notin Saved!Pages
<1>1. DOMAIN Saved!Defaults = 1 .. 4 /\ Len(Saved!Defaults) = 4
  BY DEF Saved!Defaults
<1>2. Saved!SettingKeys = {Saved!Defaults[1], Saved!Defaults[2], Saved!Defaults[3], Saved!Defaults[4]}
  BY <1>1 DEF Saved!SettingKeys
<1>3. \A i \in 1 .. 4 : Saved!Defaults[i] \in Saved!SettingKeys
  BY <1>1 DEF Saved!SettingKeys
<1>4. Saved!SettingKeys
        = {"radius.allowed_ips", "retention.enabled", "retention.days", "auth.reauth_days"}
  BY <1>2 DEF Saved!Defaults
<1>5. ASSUME NEW keys \in Saved!Pages
      PROVE  Len(keys) \in 1 .. 2 /\ \A i \in 1 .. Len(keys) : keys[i] \in Saved!SettingKeys
  <2>1. CASE keys = <<"radius.allowed_ips">>
    BY <1>4, <2>1
  <2>2. CASE keys = <<"retention.enabled", "retention.days">>
    BY <1>4, <2>2
  <2>3. CASE keys = <<"auth.reauth_days">>
    BY <1>4, <2>3
  <2> QED BY <2>1, <2>2, <2>3 DEF Saved!Pages
<1>6. << >> \notin Saved!Pages
  BY <1>5
<1> QED BY <1>1, <1>3, <1>5, <1>6

\* Types of what is read.
LEMMA SettingsTyped ==
  ASSUME Saved!TypeOK
  PROVE  /\ MaxSaves \in Nat /\ None \notin Int /\ Saved!Default = -1 /\ Saved!Saves = 0 .. MaxSaves
         /\ app_settings \in [Saved!SettingKeys -> Saved!Saves \cup {None, Saved!Default}]
         /\ boot \in [Workers -> Saved!Boot] /\ page \in [SettingForms -> Saved!Page]
         /\ saves \in Saved!Saves
BY OperationsAssumption DEF Saved!SettingsAssumption, Saved!TypeOK, Saved!Default, Saved!Saves

\* A start begins with what is there.
LEMMA StartTyped == Saved!Begun \in Saved!Boot /\ Saved!Begun.pc = "look"
                    /\ Saved!Begun.there = Saved!Present /\ Saved!Begun.key = 1
BY SettingKeysKnown DEF Saved!Begun, Saved!Boot, Saved!Present

\* No form is being served.
LEMMA PageTyped == Saved!NoPage \in Saved!Page
<1>1. 0 \in Saved!Saves
  BY OperationsAssumption DEF Saved!SettingsAssumption, Saved!Saves
<1> QED BY <1>1 DEF Saved!NoPage, Saved!Page

\* The invariant holds at first.
LEMMA SettingsBegin == ASSUME Saved!Init PROVE Saved!TypeOK /\ StartsOK /\ PagesOK
<1> USE StartTyped, PageTyped DEF Saved!Init
<1>1. 0 \in Saved!Saves
  BY OperationsAssumption DEF Saved!SettingsAssumption, Saved!Saves
<1>2. Saved!TypeOK
  BY <1>1 DEF Saved!TypeOK
<1> QED BY <1>2 DEF StartsOK, PagesOK

\* The start goes on with what it knew.
LEMMA DefaultNext ==
  ASSUME Saved!TypeOK, NEW w \in Workers
  PROVE  /\ Saved!NextDefault(w) \in Saved!Boot /\ Saved!NextDefault(w).pc # "set"
         /\ Saved!NextDefault(w).there = boot[w].there
<1> USE SettingsTyped, SettingKeysKnown
<1>1. boot[w] \in Saved!Boot /\ boot[w].key \in 1 .. 4
  BY DEF Saved!Boot
<1>2. CASE boot[w].key < Len(Saved!Defaults)
  <2> DEFINE x == [boot[w] EXCEPT !.pc = "look", !.key = @ + 1]
  <2>1. boot[w].key + 1 \in 1 .. 4
    BY <1>1, <1>2
  <2>2. x \in Saved!Boot /\ x.pc = "look" /\ x.there = boot[w].there
    BY <1>1, <2>1 DEF Saved!Boot
  <2>3. Saved!NextDefault(w) = x
    BY <1>2 DEF Saved!NextDefault
  <2> QED BY <2>2, <2>3
<1>3. CASE ~ boot[w].key < Len(Saved!Defaults)
  <2> DEFINE x == [boot[w] EXCEPT !.pc = "serving"]
  <2>1. x \in Saved!Boot /\ x.pc = "serving" /\ x.there = boot[w].there
    BY <1>1 DEF Saved!Boot
  <2>2. Saved!NextDefault(w) = x
    BY <1>3 DEF Saved!NextDefault
  <2> QED BY <2>1, <2>2
<1> QED BY <1>2, <1>3

\* A key that is there stays: a default or what a form has is written, never None.
LEMMA SettingWritten ==
  ASSUME Saved!TypeOK, NEW k \in Saved!SettingKeys, NEW v \in Saved!Saves \cup {Saved!Default},
         app_settings' = [app_settings EXCEPT ![k] = v]
  PROVE  /\ app_settings' \in [Saved!SettingKeys -> Saved!Saves \cup {None, Saved!Default}]
         /\ Saved!Present \subseteq Saved!Present'
         /\ \A kk \in Saved!SettingKeys : kk # k => app_settings'[kk] = app_settings[kk]
         /\ app_settings'[k] = v
<1> USE SettingsTyped
<1>1. v # None
  OBVIOUS
<1>2. app_settings' \in [Saved!SettingKeys -> Saved!Saves \cup {None, Saved!Default}]
  OBVIOUS
<1>3. Saved!Present \subseteq Saved!Present'
  BY <1>1 DEF Saved!Present
<1> QED BY <1>2, <1>3

\* Every step keeps the invariant, and a default takes the place of a saved value
\* only for a start that had not found the key.
LEMMA SettingsStep ==
  ASSUME Saved!TypeOK, StartsOK, PagesOK, [Saved!Next]_(Saved!setvars)
  PROVE  Saved!TypeOK' /\ StartsOK' /\ PagesOK' /\ (Saved!KeepsSaved \/ UNCHANGED Saved!setvars)
<1> USE SettingsTyped
<1> DEFINE Kept == Saved!TypeOK' /\ StartsOK' /\ PagesOK' /\ (Saved!KeepsSaved \/ UNCHANGED Saved!setvars)
<1>n. -1 \notin Saved!Saves
  OBVIOUS
<1>1. ASSUME NEW w \in Workers, Saved!DefaultLook(w) PROVE Kept
  <2> DEFINE x == IF app_settings[Saved!Defaults[boot[w].key]] = None
                  THEN [boot[w] EXCEPT !.pc = "set"] ELSE Saved!NextDefault(w)
  <2>1. boot' = [boot EXCEPT ![w] = x] /\ UNCHANGED <<app_settings, page, saves>>
    BY <1>1 DEF Saved!DefaultLook
  <2>2. boot[w] \in Saved!Boot /\ boot[w].key \in 1 .. 4
        /\ Saved!Defaults[boot[w].key] \in Saved!SettingKeys
    BY SettingKeysKnown DEF Saved!Boot
  <2>3. /\ x \in Saved!Boot /\ x.there = boot[w].there
        /\ x.pc = "set" => Saved!Defaults[x.key] \notin Saved!Present
    <3>1. CASE app_settings[Saved!Defaults[boot[w].key]] = None
      BY <2>2, <3>1 DEF Saved!Boot, Saved!Present
    <3>2. CASE app_settings[Saved!Defaults[boot[w].key]] # None
      BY <3>2, DefaultNext
    <3> QED BY <3>1, <3>2
  <2> HIDE DEF x
  <2>4. Saved!TypeOK'
    BY <2>1, <2>3 DEF Saved!TypeOK
  <2>5. StartsOK'
    BY <2>1, <2>3 DEF StartsOK, Saved!Present
  <2>6. PagesOK'
    BY <2>1 DEF PagesOK
  <2>7. Saved!KeepsSaved
    BY <1>n, <2>1 DEF Saved!KeepsSaved
  <2> QED BY <2>4, <2>5, <2>6, <2>7
<1>2. ASSUME NEW w \in Workers, Saved!DefaultSet(w) PROVE Kept
  <2> DEFINE k == Saved!Defaults[boot[w].key]
  <2>1. /\ boot[w].pc = "set" /\ app_settings' = [app_settings EXCEPT ![k] = Saved!Default]
        /\ boot' = [boot EXCEPT ![w] = Saved!NextDefault(w)] /\ UNCHANGED <<page, saves>>
    BY <1>2 DEF Saved!DefaultSet
  <2>2. k \in Saved!SettingKeys
    BY SettingKeysKnown DEF Saved!Boot
  <2>3. /\ app_settings' \in [Saved!SettingKeys -> Saved!Saves \cup {None, Saved!Default}]
        /\ Saved!Present \subseteq Saved!Present'
        /\ \A kk \in Saved!SettingKeys : kk # k => app_settings'[kk] = app_settings[kk]
    BY <2>1, <2>2, SettingWritten
  <2>4. Saved!TypeOK'
    BY <2>1, <2>3, DefaultNext DEF Saved!TypeOK
  <2>5. StartsOK'
    BY <2>1, <2>3, DefaultNext DEF StartsOK
  <2>6. PagesOK'
    BY <2>1 DEF PagesOK
  <2>7. k \notin boot[w].there /\ boot'[w] # boot[w]
    BY <2>1, DefaultNext DEF StartsOK
  <2>8. Saved!KeepsSaved
    BY <1>n, <2>3, <2>7 DEF Saved!KeepsSaved
  <2> QED BY <2>4, <2>5, <2>6, <2>8
<1>3. ASSUME NEW w \in Workers, Saved!Restart(w) PROVE Kept
  <2>1. /\ boot' = [boot EXCEPT ![w] = Saved!Begun] /\ UNCHANGED <<app_settings, saves>>
        /\ page' = [f \in SettingForms |-> IF page[f].worker = w THEN Saved!NoPage ELSE page[f]]
    BY <1>3 DEF Saved!Restart
  <2>2. Saved!TypeOK'
    BY <2>1, StartTyped, PageTyped DEF Saved!TypeOK
  <2>3. StartsOK'
    BY <2>1, StartTyped DEF StartsOK, Saved!Present
  <2>4. PagesOK'
    BY <2>1 DEF PagesOK
  <2>5. Saved!KeepsSaved
    BY <1>n, <2>1 DEF Saved!KeepsSaved
  <2> QED BY <2>2, <2>3, <2>4, <2>5
<1>4. ASSUME NEW f \in SettingForms, Saved!PageSave(f) PROVE Kept
  <2> DEFINE k == page[f].keys[page[f].next]
             x == IF page[f].next < Len(page[f].keys) THEN [page[f] EXCEPT !.next = @ + 1]
                  ELSE Saved!NoPage
  <2>1. /\ page[f] # Saved!NoPage /\ app_settings' = [app_settings EXCEPT ![k] = page[f].save]
        /\ page' = [page EXCEPT ![f] = x] /\ UNCHANGED <<boot, saves>>
    BY <1>4 DEF Saved!PageSave
  <2>2. /\ page[f] \in Saved!Page /\ page[f].save \in Saved!Saves /\ page[f].next \in 1 .. 3
        /\ page[f].keys \in Saved!Pages /\ page[f].next <= Len(page[f].keys)
    BY <2>1 DEF PagesOK, Saved!Page
  <2>3. Len(page[f].keys) \in 1 .. 2 /\ k \in Saved!SettingKeys
    BY <2>2, SettingKeysKnown
  <2>4. /\ app_settings' \in [Saved!SettingKeys -> Saved!Saves \cup {None, Saved!Default}]
        /\ Saved!Present \subseteq Saved!Present'
        /\ \A kk \in Saved!SettingKeys : kk # k => app_settings'[kk] = app_settings[kk]
        /\ app_settings'[k] = page[f].save
    BY <2>1, <2>2, <2>3, SettingWritten
  <2>5. /\ x \in Saved!Page
        /\ x # Saved!NoPage => x.keys \in Saved!Pages /\ x.next <= Len(x.keys)
    <3>1. CASE page[f].next < Len(page[f].keys)
      <4>1. page[f].next + 1 \in 1 .. 3 /\ page[f].next + 1 <= Len(page[f].keys)
        BY <2>2, <2>3, <3>1
      <4> QED BY <2>2, <3>1, <4>1 DEF Saved!Page
    <3>2. CASE ~ page[f].next < Len(page[f].keys)
      BY <3>2, PageTyped
    <3> QED BY <3>1, <3>2
  <2> HIDE DEF x, k
  <2>6. Saved!TypeOK'
    BY <2>1, <2>4, <2>5 DEF Saved!TypeOK
  <2>7. StartsOK'
    BY <2>1, <2>4 DEF StartsOK
  <2>8. PagesOK'
    BY <2>1, <2>5 DEF PagesOK
  <2>9. Saved!KeepsSaved
    BY <1>n, <2>2, <2>4 DEF Saved!KeepsSaved
  <2> QED BY <2>6, <2>7, <2>8, <2>9
<1>5. ASSUME NEW f \in SettingForms, NEW w \in Workers, NEW keys \in Saved!Pages,
             Saved!PageSent(f, w, keys)
      PROVE  Kept
  <2> DEFINE x == [keys |-> keys, worker |-> w, next |-> 1, save |-> saves + 1]
  <2>1. /\ page' = [page EXCEPT ![f] = x] /\ saves' = saves + 1 /\ saves < MaxSaves
        /\ UNCHANGED <<app_settings, boot>>
    BY <1>5 DEF Saved!PageSent
  <2>2. saves + 1 \in Saved!Saves
    BY <2>1
  <2>3. x \in Saved!Page /\ x.keys = keys /\ x.next = 1 /\ 1 <= Len(keys)
    BY <2>2, SettingKeysKnown DEF Saved!Page
  <2> HIDE DEF x
  <2>4. Saved!TypeOK'
    BY <2>1, <2>2, <2>3 DEF Saved!TypeOK
  <2>5. StartsOK'
    BY <2>1 DEF StartsOK, Saved!Present
  <2>6. PagesOK'
    BY <2>1, <2>3 DEF PagesOK
  <2>7. Saved!KeepsSaved
    BY <1>n, <2>1 DEF Saved!KeepsSaved
  <2> QED BY <2>4, <2>5, <2>6, <2>7
<1>6. ASSUME UNCHANGED Saved!setvars PROVE Kept
  BY <1>6 DEF Saved!setvars, Saved!TypeOK, StartsOK, PagesOK, Saved!Present
<1> QED BY <1>1, <1>2, <1>3, <1>4, <1>5, <1>6 DEF Saved!Next

\* The invariant of the settings.
LEMMA SettingsInvHolds == PartSpec => []SettingsInv
<1>1. PartInit => SettingsInv
  BY PartsBegin, SettingsBegin DEF SettingsInv
<1>2. SettingsInv /\ [PartNext]_vars => SettingsInv'
  <2>1. /\ Saved!TypeOK /\ StartsOK /\ PagesOK /\ [Saved!Next]_(Saved!setvars)
        => (Saved!TypeOK /\ StartsOK /\ PagesOK)'
    BY SettingsStep
  <2> QED BY <2>1, PartsStep DEF SettingsInv
<1> QED BY <1>1, <1>2, PTL DEF PartSpec

-----------------------------------------------------------------------------
(* Retention, the host names and the installer: their types. *)

\* Every step of the retention and of the sessions around it keeps their types: an age
\* counts no further than just past the limit, an id no further than the last row.
LEMMA RetentionStep == ASSUME Old!TypeOK, [Old!Next]_(Old!tvars) PROVE Old!TypeOK'
<1>t. /\ MaxSessions \in Nat /\ Limit \in Nat /\ Interval \in Nat \ {0} /\ None \notin Int
      /\ sessions \in [Old!Rows -> Old!Session \cup {None}] /\ Old!Rows = 1 .. MaxSessions
      /\ last \in 0 .. MaxSessions /\ since \in 0 .. Interval /\ enabled \in BOOLEAN
      /\ pass \in {"idle", "delete", "record"}
  BY OperationsAssumption DEF Old!RetentionAssumption, Old!TypeOK, Old!Rows
<1>n. \A i \in Old!Rows : sessions[i] # None => sessions[i] \in Old!Session
  BY <1>t
<1>1. CASE Old!Due
  BY <1>1, <1>t DEF Old!Due, Old!TypeOK
<1>2. CASE Old!DeleteOldBatch
  <2>1. sessions' \in [Old!Rows -> Old!Session \cup {None}]
    <3> HIDE DEF Old!First
    <3> QED BY <1>2, <1>t DEF Old!DeleteOldBatch
  <2> QED BY <1>2, <1>t, <2>1 DEF Old!DeleteOldBatch, Old!TypeOK
<1>3. CASE Old!Record
  BY <1>3, <1>t DEF Old!Record, Old!TypeOK
<1>4. CASE Old!Fail
  BY <1>4, <1>t DEF Old!Fail, Old!TypeOK
<1>5. CASE Old!StartSession
  <2> DEFINE x == [active |-> TRUE, age |-> 0]
  <2>1. x \in Old!Session
    BY <1>t DEF Old!Session
  <2>2. last + 1 \in Old!Rows /\ last' = last + 1 /\ sessions' = [sessions EXCEPT ![last + 1] = x]
    BY <1>5, <1>t DEF Old!StartSession
  <2> HIDE DEF x
  <2> QED BY <1>5, <1>t, <2>1, <2>2 DEF Old!StartSession, Old!TypeOK
<1>6. ASSUME NEW i \in Old!Rows, NEW active \in BOOLEAN, Old!UpdateSession(i, active)
      PROVE  Old!TypeOK'
  <2> DEFINE x == [active |-> active, age |-> 0]
  <2>1. x \in Old!Session
    BY <1>t DEF Old!Session
  <2>2. sessions' = [sessions EXCEPT ![i] = x]
    BY <1>6 DEF Old!UpdateSession
  <2> HIDE DEF x
  <2> QED BY <1>6, <1>t, <2>1, <2>2 DEF Old!UpdateSession, Old!TypeOK
<1>7. ASSUME NEW i \in Old!Rows, Old!CloseStale(i) PROVE Old!TypeOK'
  <2> DEFINE x == [sessions[i] EXCEPT !.active = FALSE]
  <2>1. x \in Old!Session
    BY <1>7, <1>n DEF Old!CloseStale, Old!Session
  <2>2. sessions' = [sessions EXCEPT ![i] = x]
    BY <1>7, <1>t DEF Old!CloseStale
  <2> HIDE DEF x
  <2> QED BY <1>7, <1>t, <2>1, <2>2 DEF Old!CloseStale, Old!TypeOK
<1>8. ASSUME NEW on \in BOOLEAN, Old!SetEnabled(on) PROVE Old!TypeOK'
  BY <1>8, <1>t DEF Old!SetEnabled, Old!TypeOK
<1>9. CASE Old!Tick
  <2> DEFINE x(i) == IF sessions[i] = None \/ sessions[i].age > Limit
                     THEN sessions[i] ELSE [sessions[i] EXCEPT !.age = @ + 1]
  <2>1. ASSUME NEW i \in Old!Rows PROVE x(i) \in Old!Session \cup {None}
    <3>1. CASE sessions[i] = None
      BY <3>1
    <3>2. CASE sessions[i] # None
      <4>1. sessions[i] \in Old!Session /\ sessions[i].age \in 0 .. Limit + 1
        BY <1>n, <3>2 DEF Old!Session
      <4>2. ~ sessions[i].age > Limit => sessions[i].age + 1 \in 0 .. Limit + 1
        BY <1>t, <4>1
      <4> QED BY <3>2, <4>1, <4>2 DEF Old!Session
    <3> QED BY <3>1, <3>2
  <2>2. sessions' = [i \in Old!Rows |-> x(i)]
    BY <1>9 DEF Old!Tick
  <2> HIDE DEF x
  <2>3. sessions' \in [Old!Rows -> Old!Session \cup {None}]
    BY <2>1, <2>2
  <2>4. since' \in 0 .. Interval
    BY <1>9, <1>t DEF Old!Tick
  <2> QED BY <1>9, <1>t, <2>3, <2>4 DEF Old!Tick, Old!TypeOK
<1>10. CASE UNCHANGED Old!tvars
  BY <1>10 DEF Old!tvars, Old!TypeOK
<1> QED
  BY <1>1, <1>2, <1>3, <1>4, <1>5, <1>6, <1>7, <1>8, <1>9, <1>10 DEF Old!Next, Old!Worker

RetentionInv == part = "retention" => Old!TypeOK

\* The types of the retention.
LEMMA RetentionInvHolds == PartSpec => []RetentionInv
<1>1. PartInit => RetentionInv
  <2>1. Old!Init => Old!TypeOK
    BY OperationsAssumption DEF Old!RetentionAssumption, Old!Init, Old!TypeOK
  <2> QED BY <2>1, PartsBegin DEF RetentionInv
<1>2. RetentionInv /\ [PartNext]_vars => RetentionInv'
  BY PartsStep, RetentionStep DEF RetentionInv
<1> QED BY <1>1, <1>2, PTL DEF PartSpec

\* Every step of the worker, the router and the sessions keeps their types: a name
\* that is written is one that a device sends.
LEMMA HostsStep == ASSUME Router!TypeOK, [Router!Next]_(Router!hvars) PROVE Router!TypeOK'
<1>t. /\ good \in SUBSET Router!Settings /\ leases \in [Ips -> Devices \cup {None}]
      /\ hosts \in [SessionRows -> Router!Host] /\ sync \in Router!Sync
      /\ MaxFails \in Nat /\ fails \in 0 .. MaxFails
      /\ NamedDevices \subseteq Devices
  BY OperationsAssumption DEF Router!HostSyncAssumption, Router!TypeOK
<1>n. Router!NoSync \in Router!Sync
  BY DEF Router!NoSync, Router!Sync
<1>1. CASE Router!ReadHost
  <2> DEFINE x == [sync EXCEPT !.pc = "password", !.read = good \cap {"host"}]
  <2>1. x \in Router!Sync
    BY <1>t DEF Router!Sync
  <2> QED BY <1>1, <1>t, <2>1 DEF Router!ReadHost, Router!TypeOK
<1>2. CASE Router!ReadPassword
  <2> DEFINE x == [sync EXCEPT !.pc = "fetch", !.read = @ \cup (good \cap {"password"})]
  <2>1. x \in Router!Sync
    BY <1>t DEF Router!Sync
  <2> QED BY <1>2, <1>t, <2>1 DEF Router!ReadPassword, Router!TypeOK
<1>3. CASE Router!Fetch
  <2> DEFINE ips == [i \in Ips |-> IF leases[i] \in NamedDevices THEN leases[i] ELSE None]
             macs == {leases[i] : i \in Ips} \cap NamedDevices
             x == [sync EXCEPT !.pc = "select", !.ips = ips, !.macs = macs]
  <2>1. ips \in [Ips -> NamedDevices \cup {None}] /\ macs \in SUBSET NamedDevices
    OBVIOUS
  <2>2. sync' = x /\ UNCHANGED <<good, leases, hosts, fails>>
    BY <1>3 DEF Router!Fetch
  <2> HIDE DEF ips, macs
  <2>3. x \in Router!Sync
    BY <1>t, <2>1 DEF Router!Sync
  <2> HIDE DEF x
  <2> QED BY <1>t, <2>2, <2>3 DEF Router!TypeOK
<1>4. CASE Router!Refused \/ Router!Fail
  <2>1. fails' \in 0 .. MaxFails
    BY <1>4, <1>t DEF Router!Refused, Router!Fail
  <2> QED BY <1>4, <1>t, <1>n, <2>1 DEF Router!Refused, Router!Fail, Router!TypeOK
<1>5. CASE Router!Select
  <2> DEFINE rows == [r \in SessionRows |-> IF hosts[r].listed THEN Router!NameOf(hosts[r]) ELSE None]
             x == [sync EXCEPT !.pc = "write", !.rows = rows]
  <2>1. \A r \in SessionRows : Router!NameOf(hosts[r]) \in NamedDevices \cup {None}
    BY <1>t DEF Router!NameOf, Router!Sync, Router!Host
  <2>2. rows \in [SessionRows -> NamedDevices \cup {None}]
    BY <2>1
  <2>3. sync' = x /\ UNCHANGED <<good, leases, hosts, fails>>
    BY <1>5 DEF Router!Select
  <2> HIDE DEF rows
  <2>4. x \in Router!Sync
    BY <1>t, <2>2 DEF Router!Sync
  <2> HIDE DEF x
  <2> QED BY <1>t, <2>3, <2>4 DEF Router!TypeOK
<1>6. CASE Router!WriteNames
  <2> DEFINE x(r) == IF sync.rows[r] # None THEN [hosts[r] EXCEPT !.name = sync.rows[r]]
                     ELSE hosts[r]
  <2>1. \A r \in SessionRows : x(r) \in Router!Host
    BY <1>t DEF Router!Sync, Router!Host
  <2>2. hosts' = [r \in SessionRows |-> x(r)]
    BY <1>6 DEF Router!WriteNames
  <2> HIDE DEF x
  <2>3. hosts' \in [SessionRows -> Router!Host]
    BY <2>1, <2>2
  <2> QED BY <1>6, <1>t, <1>n, <2>3 DEF Router!WriteNames, Router!TypeOK
<1>7. ASSUME NEW s \in Router!Settings, Router!SetSetting(s) PROVE Router!TypeOK'
  BY <1>7, <1>t DEF Router!SetSetting, Router!TypeOK
<1>8. ASSUME NEW i \in Ips, NEW d \in Devices \cup {None}, Router!Lease(i, d)
      PROVE  Router!TypeOK'
  BY <1>8, <1>t DEF Router!Lease, Router!TypeOK
<1>9. ASSUME NEW r \in SessionRows, NEW x \in Router!Host, hosts' = [hosts EXCEPT ![r] = x],
             UNCHANGED <<good, leases, sync, fails>>
      PROVE  Router!TypeOK'
  BY <1>9, <1>t DEF Router!TypeOK
<1>10. ASSUME NEW r \in SessionRows, Router!Unlist(r) PROVE Router!TypeOK'
  <2> DEFINE x == [hosts[r] EXCEPT !.listed = ~ @]
  <2>1. x \in Router!Host
    BY <1>t DEF Router!Host
  <2>2. hosts' = [hosts EXCEPT ![r] = x] /\ UNCHANGED <<good, leases, sync, fails>>
    BY <1>10, <1>t DEF Router!Unlist
  <2> HIDE DEF x
  <2> QED BY <1>9, <2>1, <2>2
<1>11. ASSUME NEW r \in SessionRows, NEW i \in Ips, Router!Move(r, i) PROVE Router!TypeOK'
  <2> DEFINE x == [hosts[r] EXCEPT !.ip = i]
  <2>1. x \in Router!Host
    BY <1>t DEF Router!Host
  <2>2. hosts' = [hosts EXCEPT ![r] = x] /\ UNCHANGED <<good, leases, sync, fails>>
    BY <1>11, <1>t DEF Router!Move
  <2> HIDE DEF x
  <2> QED BY <1>9, <2>1, <2>2
<1>12. CASE UNCHANGED Router!hvars
  BY <1>12 DEF Router!hvars, Router!TypeOK
<1> QED
  BY <1>1, <1>2, <1>3, <1>4, <1>5, <1>6, <1>7, <1>8, <1>10, <1>11, <1>12
     DEF Router!Next, Router!PassStep

HostsInv == part = "hosts" => Router!TypeOK

\* The types of the host names.
LEMMA HostsInvHolds == PartSpec => []HostsInv
<1>1. PartInit => HostsInv
  <2>1. ASSUME Router!Init PROVE Router!TypeOK
    <3>1. hosts \in [SessionRows -> Router!Host]
      BY <2>1 DEF Router!Init, Router!Host
    <3>2. Router!NoSync \in Router!Sync
      BY DEF Router!NoSync, Router!Sync
    <3>3. fails \in 0 .. MaxFails
      BY <2>1, OperationsAssumption DEF Router!HostSyncAssumption, Router!Init
    <3> QED BY <2>1, <3>1, <3>2, <3>3 DEF Router!Init, Router!TypeOK
  <2> QED BY <2>1, PartsBegin DEF HostsInv
<1>2. HostsInv /\ [PartNext]_vars => HostsInv'
  BY PartsStep, HostsStep DEF HostsInv
<1> QED BY <1>1, <1>2, PTL DEF PartSpec

\* The installer behaves among the parts as it does alone.
LEMMA SetupAlone == PartSpec => Spec
<1>1. PartInit => Init
  BY PartsBegin
<1>2. [PartNext]_vars => [Next]_svars
  BY PartsStep
<1> QED BY <1>1, <1>2, PTL DEF PartSpec, Spec

-----------------------------------------------------------------------------
(* Results. *)

\* The lock-out of /admin/login, which is looked at before the password and fed
\* after it, is passed by at most one login less than are served at once.
THEOREM GuessesStayBounded == PartSpec => []GuessesAreBounded
<1>1. AdminInv => GuessesAreBounded
  BY LockoutIsProved DEF AdminInv, LockoutProofs!IInv, GuessesAreBounded
<1> QED BY <1>1, AdminInvHolds, PTL

\* A form of the users page never acts on another administrator than the one whose
\* line was clicked.
THEOREM UserIdsStay == PartSpec => IdsAreForGood
<1>1. AdminInv /\ [PartNext]_vars => [part = "users" => Users!KeepsIds]_vars
  <2>1. UsersProofs!IInv /\ [Users!Next]_(Users!avars) => [Users!KeepsIds]_(Users!avars)
    BY OperationsAssumption, UsersIsProved, UsersProofs!IdStep
  <2> QED BY <2>1, PartsStep, PartsRest DEF AdminInv
<1> QED BY <1>1, AdminInvHolds, PTL DEF PartSpec, IdsAreForGood

\* While one form is served at a time, no deletion takes the last superadmin who can
\* log in, although its author, the target and the count are read one by one.
THEOREM LastSuperadminRemains == PartSpec => LastSuperadminIsNotDeleted
<1>1. AdminInv /\ [PartNext]_vars => [part = "users" => Users!KeepsLastSuperadmin]_vars
  <2>1. UsersProofs!IInv /\ [Users!Next]_(Users!avars)
          => [Users!KeepsLastSuperadmin]_(Users!avars)
    BY OperationsAssumption, UsersIsProved, UsersProofs!LastStep
  <2> QED BY <2>1, PartsStep, PartsRest DEF AdminInv
<1> QED BY <1>1, AdminInvHolds, PTL DEF PartSpec, LastSuperadminIsNotDeleted

\* Forms of the networks page served at once make no more twins of a network than
\* they are.
THEOREM TwinsStayBounded == PartSpec => []TwinsAreBounded
<1>1. NetworksInv => TwinsAreBounded
  BY TwinsFollow DEF NetworksInv, TwinsAreBounded
<1> QED BY <1>1, NetworksInvHolds, PTL

\* Of a backup once reported, or of a newer one, there is a good copy, whichever runs
\* fail or are killed after it, between two files that a rotation takes included.
THEOREM GoodBackupStays == PartSpec => []GoodBackupRemains
<1>1. BackupsInv => GoodBackupRemains
  BY DEF BackupsInv, GoodBackupRemains
<1> QED BY <1>1, BackupsInvHolds, PTL

\* Whoever has a row of a room guest has stayed in the hotel, whatever is asked of the
\* two systems and whatever fails in between.
THEOREM RoomGuestsHaveStayed == PartSpec => []RoomGuestsStayed
<1>1. RoomsInv => RoomGuestsStayed
  BY DEF RoomsInv, GuestsOK, RoomGuestsStayed
<1> QED BY <1>1, RoomsInvHolds, PTL

\* With one form at a time, no save of a PMS object loses a key that was typed in,
\* although the form sends the field empty.
THEOREM KeysOutliveSaves == PartSpec => KeysAreKept
<1>1. RoomsInv /\ [PartNext]_vars
        => [part = "rooms" => \A s \in SiteForms : SiteForms = {s} => Rooms!KeysStay]_vars
  BY RoomsStep, PartsStep, PartsRest DEF RoomsInv
<1> QED BY <1>1, RoomsInvHolds, PTL DEF PartSpec, KeysAreKept

\* What an administrator has saved comes through the starts that follow: a default takes
\* its place only if it was saved during the start of that worker.
THEOREM SavedSettingsStay == PartSpec => SavedSurvivesStarts
<1>1. SettingsInv /\ [PartNext]_vars => [part = "settings" => Saved!KeepsSaved]_vars
  BY SettingsStep, PartsStep, PartsRest DEF SettingsInv
<1> QED BY <1>1, SettingsInvHolds, PTL DEF PartSpec, SavedSurvivesStarts

\* A worker that answers requests finds every column and the administrator, whichever
\* of the workers that start with it fail over what another has added, or are killed.
THEOREM ServingStaysMigrated == PartSpec => []ServingIsMigrated
<1>1. StartupInv => ServingIsMigrated
  BY DEF StartupInv, WorkersOK, WorkerOK, ServingIsMigrated, Migration!ServingIsMigrated
<1> QED BY <1>1, StartupInvHolds, PTL

\* Every table, file and request keeps its type, in every part.
THEOREM TypesStay == PartSpec => []TypesOK
<1>1. PartSpec => []TypeOK
  BY OperationsAssumption, SetupAlone, TypeCorrect
<1>2. /\ AdminInv /\ StartupInv /\ RoomsInv /\ NetworksInv /\ BackupsInv /\ RetentionInv
      /\ SettingsInv /\ HostsInv /\ TypeOK
      => TypesOK
  BY LockoutIsProved, UsersIsProved
     DEF AdminInv, StartupInv, RoomsInv, NetworksInv, BackupsInv, RetentionInv, SettingsInv,
         HostsInv, LockoutProofs!IInv, UsersProofs!IInv, TypesOK
<1> QED
  BY <1>1, <1>2, AdminInvHolds, StartupInvHolds, RoomsInvHolds, NetworksInvHolds,
     BackupsInvHolds, RetentionInvHolds, SettingsInvHolds, HostsInvHolds, PTL

\* What the proofs of the installer show of it holds of it among the parts: secrets stay,
\* originals are kept (or what a copy cut off has left of them), and "Setup complete" means
\* that what is on disk is in force, FreeRADIUS included unless it was skipped with a warning.
THEOREM InstallerStays ==
  PartSpec => SecretsAreForGood /\ []OriginalsAreKept /\ []CompleteIsInForce
BY OperationsAssumption, SetupAlone, SecretsStay, OriginalsStay, CompleteWorks

=============================================================================
