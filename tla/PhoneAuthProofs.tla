-------------------------- MODULE PhoneAuthProofs --------------------------
(***************************************************************************)
(* PhoneAuth keeps its invariants and implements Admission for every       *)
(* number of phones, devices, requests, rows and crashes.                  *)
(***************************************************************************)
EXTENDS PhoneAuth, TablesProofs

\* The steps of a request that act on a row it read earlier.
RowPc == {"check_expire", "status_expire", "call_expire",
          "call_guest", "call_update", "call_insert", "call_verify"}

ExpirePc == {"check_expire", "status_expire", "call_expire"}

\* What a request in flight may rely on although the tables move under it: the
\* row it read is still there and belongs to its phone, a row it found overdue
\* stays overdue, a guest it found stays.
RequestOK(r) ==
  /\ req[r].at <= clock
  /\ req[r].pc # "idle" => req[r].phone \in Phones
  /\ req[r].pc \in {"check_pending", "check_create"} => req[r].mac \in Macs
  /\ req[r].pc \in RowPc =>
       /\ req[r].row \in Ids(pending_auth)
       /\ pending_auth[req[r].row].phone = req[r].phone
  /\ req[r].pc \in ExpirePc => clock > pending_auth[req[r].row].expires_at
  /\ req[r].pc \in {"check_touch", "call_update"} => guests[req[r].phone] # None

RequestsOK == \A r \in Requests : RequestOK(r)

CleanupOK ==
  \A i \in cleanup : i \in Ids(pending_auth) /\ clock > pending_auth[i].expires_at

\* No authorisation comes from the future, and none without a pending row.
GuestsOK ==
  \A p \in Phones : guests[p] # None => guests[p] <= clock /\ p \in Asked

\* The inductive invariant.  The properties alone are not inductive: a request
\* writes what it concluded some steps ago, so its conclusion must be carried.
IInv ==
  /\ TypeOK
  /\ RequestsOK
  /\ CleanupOK
  /\ GuestsOK
  /\ ExpiredAfterDeadline
  /\ VerifiedIsBacked
  /\ CallRenewsGuest

-----------------------------------------------------------------------------
(* The effect of the writes on pending_auth. *)

\* The types of a row's columns, as the other steps need them.
LEMMA RowsTyped ==
  ASSUME TypeOK
  PROVE  \A i \in Ids(pending_auth) :
           /\ pending_auth[i] \in PendingRow
           /\ pending_auth[i].phone \in Phones
           /\ pending_auth[i].mac \in Macs
           /\ pending_auth[i].expires_at \in Nat
           /\ pending_auth[i].status \in {"pending", "verified", "expired"}
<1>1. \A i \in Ids(pending_auth) : pending_auth[i] \in PendingRow
  BY ElementOfSeq DEF TypeOK, Ids
<1>2. \A row \in PendingRow :
        /\ row.phone \in Phones /\ row.mac \in Macs /\ row.expires_at \in Nat
        /\ row.status \in {"pending", "verified", "expired"}
  BY PhoneAuthAssumption DEF PendingRow, Time
<1>3. QED
  BY <1>1, <1>2

\* Marking rows overdue leaves everything but their status alone.
LEMMA ExpireRowsEffect ==
  ASSUME TypeOK, NEW ids, ExpireRows(ids)
  PROVE  /\ pending_auth' \in Seq(PendingRow)
         /\ Ids(pending_auth') = Ids(pending_auth)
         /\ \A i \in Ids(pending_auth) :
              /\ pending_auth'[i].phone = pending_auth[i].phone
              /\ pending_auth'[i].expires_at = pending_auth[i].expires_at
              /\ pending_auth'[i].status =
                   IF i \in ids THEN "expired" ELSE pending_auth[i].status
<1>1. \A i \in Ids(pending_auth) : pending_auth[i] \in PendingRow
  BY ElementOfSeq DEF TypeOK, Ids
<1> DEFINE new == [i \in Ids(pending_auth) |->
                     IF i \in ids THEN [pending_auth[i] EXCEPT !.status = "expired"]
                                  ELSE pending_auth[i]]
<1>2. pending_auth' = new
  BY DEF ExpireRows, UpdateWhere
<1>3. new \in [Ids(pending_auth) -> PendingRow]
  BY <1>1 DEF PendingRow
<1>4. pending_auth' \in Seq(PendingRow) /\ Ids(pending_auth') = Ids(pending_auth)
  <2> HIDE DEF new
  <2> QED BY <1>2, <1>3, UpdatedTable DEF TypeOK
<1>5. QED
  BY <1>1, <1>2, <1>4 DEF PendingRow

\* Verifying rows leaves everything but their status alone.
LEMMA VerifyRowsEffect ==
  ASSUME TypeOK, NEW r \in Requests, CallVerify(r)
  PROVE  /\ pending_auth' \in Seq(PendingRow)
         /\ Ids(pending_auth') = Ids(pending_auth)
         /\ \A i \in Ids(pending_auth) :
              /\ pending_auth'[i].phone = pending_auth[i].phone
              /\ pending_auth'[i].expires_at = pending_auth[i].expires_at
              /\ pending_auth'[i].status =
                   IF i = req[r].row \/ i \in PendingOf(req[r].phone)
                   THEN "verified" ELSE pending_auth[i].status
<1>1. \A i \in Ids(pending_auth) : pending_auth[i] \in PendingRow
  BY ElementOfSeq DEF TypeOK, Ids
<1> DEFINE ids == {req[r].row} \cup PendingOf(req[r].phone)
           new == [i \in Ids(pending_auth) |->
                     IF i \in ids THEN [pending_auth[i] EXCEPT !.status = "verified"]
                                  ELSE pending_auth[i]]
<1>2. pending_auth' = new
  BY DEF CallVerify, UpdateWhere
<1>3. new \in [Ids(pending_auth) -> PendingRow]
  BY <1>1 DEF PendingRow
<1>4. pending_auth' \in Seq(PendingRow) /\ Ids(pending_auth') = Ids(pending_auth)
  <2> HIDE DEF new
  <2> QED BY <1>2, <1>3, UpdatedTable DEF TypeOK
<1>5. QED
  BY <1>1, <1>2, <1>4 DEF PendingRow

\* The newest of the rows a query selects is one of them.
LEMMA NewestPending ==
  ASSUME TypeOK, NEW S \in SUBSET Ids(pending_auth), S # {}
  PROVE  Newest(S) \in S
<1>1. Len(pending_auth) \in Nat
  BY LenProperties DEF TypeOK
<1>2. QED
  BY <1>1, NewestIsSelected DEF Ids

-----------------------------------------------------------------------------
(* The steps of a request. *)

\* Going on to the next step of the handler.
LEMMA GotoEffect ==
  ASSUME TypeOK, NEW r \in Requests, NEW pc \in Pc, Goto(r, pc)
  PROVE  /\ req' \in [Requests -> Request]
         /\ \A q \in Requests : q # r => req'[q] = req[q]
         /\ req'[r].pc = pc /\ req'[r].phone = req[r].phone /\ req'[r].mac = req[r].mac
         /\ req'[r].row = req[r].row /\ req'[r].at = req[r].at
<1>1. req[r] \in Request
  BY DEF TypeOK
<1>2. [req[r] EXCEPT !.pc = pc] \in Request
  BY <1>1 DEF Request
<1>3. req' = [req EXCEPT ![r] = [req[r] EXCEPT !.pc = pc]]
  BY DEF Goto
<1>4. QED
  BY <1>1, <1>2, <1>3 DEF TypeOK, Request

\* Going on with the id of the row just read.
LEMMA GotoRowEffect ==
  ASSUME TypeOK, NEW r \in Requests, NEW pc \in Pc, NEW i \in Nat, GotoRow(r, pc, i)
  PROVE  /\ req' \in [Requests -> Request]
         /\ \A q \in Requests : q # r => req'[q] = req[q]
         /\ req'[r].pc = pc /\ req'[r].phone = req[r].phone /\ req'[r].mac = req[r].mac
         /\ req'[r].row = i /\ req'[r].at = req[r].at
<1>1. req[r] \in Request
  BY DEF TypeOK
<1>2. [req[r] EXCEPT !.pc = pc, !.row = i] \in Request
  BY <1>1 DEF Request
<1>3. req' = [req EXCEPT ![r] = [req[r] EXCEPT !.pc = pc, !.row = i]]
  BY DEF GotoRow
<1>4. QED
  BY <1>1, <1>2, <1>3 DEF TypeOK, Request

\* A request that ends relies on nothing any more.
LEMMA ReplyEffect ==
  ASSUME TypeOK, clock' \in Nat, NEW r \in Requests, Reply(r)
  PROVE  /\ req' \in [Requests -> Request]
         /\ \A q \in Requests : q # r => req'[q] = req[q]
         /\ RequestOK(r)' /\ req'[r].pc # "call_verify"
<1>1. Idle \in Request
  BY PhoneAuthAssumption DEF Idle, Request, Pc, Time
<1>2. req' \in [Requests -> Request] /\ req'[r] = Idle
  BY <1>1 DEF TypeOK, Reply
<1>3. RequestOK(r)' /\ req'[r].pc # "call_verify"
  BY <1>2 DEF RequestOK, Idle, RowPc, ExpirePc
<1>4. QED
  BY <1>2, <1>3 DEF TypeOK, Reply

-----------------------------------------------------------------------------
(* What every step keeps. *)

\* Rows are never removed, keep their phone and deadline; guests are never
\* removed and their authorisation never gets older; time goes forward.
Grows ==
  /\ clock <= clock'
  /\ Ids(pending_auth) \subseteq Ids(pending_auth')
  /\ \A i \in Ids(pending_auth) :
       /\ pending_auth'[i].phone = pending_auth[i].phone
       /\ pending_auth'[i].expires_at = pending_auth[i].expires_at
  /\ \A p \in Phones :
       guests[p] # None => guests'[p] # None /\ guests'[p] >= guests[p]

\* A request that is not served in a step keeps what it relies on.
LEMMA RequestKept ==
  ASSUME IInv, TypeOK', Grows, NEW q \in Requests, req'[q] = req[q]
  PROVE  /\ RequestOK(q)'
         /\ req'[q].pc = "call_verify" =>
              /\ guests'[req'[q].phone] # None
              /\ guests'[req'[q].phone] >= req'[q].at
<1> USE DEF IInv, Grows
<1>1. req[q] \in Request /\ clock \in Nat /\ clock' \in Nat
  BY PhoneAuthAssumption DEF TypeOK, Time
<1>2. RequestOK(q)
  BY DEF RequestsOK
<1>3. req[q].pc \in RowPc \cup ExpirePc =>
        /\ req[q].row \in Ids(pending_auth)
        /\ pending_auth'[req[q].row].phone = pending_auth[req[q].row].phone
        /\ pending_auth'[req[q].row].expires_at = pending_auth[req[q].row].expires_at
  BY <1>2 DEF RequestOK, RowPc, ExpirePc
<1>4. \A i \in Ids(pending_auth) : pending_auth[i].expires_at \in Nat
  BY RowsTyped
<1>5. RequestOK(q)'
  <2>1. req'[q].at <= clock'
    BY <1>1, <1>2 DEF RequestOK, Request, Time
  <2>2. req'[q].pc \in ExpirePc => clock' > pending_auth'[req'[q].row].expires_at
    BY <1>1, <1>2, <1>3, <1>4 DEF RequestOK
  <2>3. req'[q].pc \in {"check_touch", "call_update"} => guests'[req'[q].phone] # None
    BY <1>2 DEF RequestOK
  <2> QED
    BY <1>2, <1>3, <2>1, <2>2, <2>3 DEF RequestOK
<1>6. req[q].pc = "call_verify" =>
        guests'[req[q].phone] # None /\ guests'[req[q].phone] >= req[q].at
  <2> SUFFICES ASSUME req[q].pc = "call_verify"
               PROVE  guests'[req[q].phone] # None /\ guests'[req[q].phone] >= req[q].at
    OBVIOUS
  <2>1. req[q].phone \in Phones
    BY <1>2 DEF RequestOK
  <2>2. guests[req[q].phone] # None /\ guests[req[q].phone] >= req[q].at
    BY DEF CallRenewsGuest
  <2>3. guests[req[q].phone] \in Int /\ guests'[req[q].phone] \in Time \cup {None}
    BY <2>1, <2>2 DEF TypeOK, Time
  <2>4. req[q].at \in Int
    BY <1>1 DEF Request, Time
  <2> QED
    BY <2>1, <2>2, <2>3, <2>4 DEF Time
<1>7. QED
  BY <1>5, <1>6

\* The rows the cleanup worker is about to update stay overdue.
LEMMA CleanupKept ==
  ASSUME IInv, TypeOK', Grows, cleanup' \subseteq cleanup
  PROVE  CleanupOK'
<1>1. clock \in Nat /\ clock' \in Nat
  BY PhoneAuthAssumption DEF IInv, TypeOK, Time
<1>2. \A i \in Ids(pending_auth) : pending_auth[i].expires_at \in Nat
  BY RowsTyped DEF IInv
<1>3. QED
  BY <1>1, <1>2 DEF IInv, CleanupOK, Grows

\* A step that neither adds, expires nor verifies a row, and touches no guest,
\* keeps what is said of rows and guests.
LEMMA RowsKept ==
  ASSUME IInv, TypeOK', clock' = clock, guests' = guests, pending_auth' = pending_auth,
         \A p \in Phones : call_events[p] \subseteq call_events'[p]
  PROVE  Grows /\ GuestsOK' /\ ExpiredAfterDeadline' /\ VerifiedIsBacked'
<1>1. \A i \in Ids(pending_auth) : pending_auth[i].phone \in Phones
  BY RowsTyped DEF IInv
<1>2. clock \in Int /\ \A p \in Phones : guests[p] # None => guests[p] \in Int
  BY DEF IInv, TypeOK, Time
<1>3. Grows
  BY <1>2 DEF Grows
<1>4. GuestsOK'
  BY DEF IInv, GuestsOK, Asked
<1>5. ExpiredAfterDeadline' /\ VerifiedIsBacked'
  BY <1>1 DEF IInv, ExpiredAfterDeadline, VerifiedIsBacked
<1>6. QED
  BY <1>3, <1>4, <1>5

\* The invariant after a step that serves at most request r.
LEMMA Assemble ==
  ASSUME IInv, TypeOK', Grows, CleanupOK', GuestsOK', ExpiredAfterDeadline', VerifiedIsBacked',
         NEW r,
         \A q \in Requests : q # r => req'[q] = req[q],
         r \in Requests => /\ RequestOK(r)'
                           /\ req'[r].pc = "call_verify" =>
                                /\ guests'[req'[r].phone] # None
                                /\ guests'[req'[r].phone] >= req'[r].at
  PROVE  IInv'
<1>1. \A q \in Requests :
        /\ RequestOK(q)'
        /\ req'[q].pc = "call_verify" =>
             /\ guests'[req'[q].phone] # None
             /\ guests'[req'[q].phone] >= req'[q].at
  BY RequestKept
<1>2. RequestsOK' /\ CallRenewsGuest'
  BY <1>1 DEF RequestsOK, CallRenewsGuest
<1>3. QED
  BY <1>2 DEF IInv

-----------------------------------------------------------------------------
(* One lemma per action. *)

\* The initial state: empty tables, no request.
LEMMA InitIInv == Init => IInv
<1> SUFFICES ASSUME Init PROVE IInv
  OBVIOUS
<1> USE PhoneAuthAssumption DEF Init
<1>1. Ids(pending_auth) = {}
  BY EmptySeq DEF Ids
<1>2. TypeOK
  BY EmptySeq DEF TypeOK, Time, Request, Idle, Pc
<1>3. RequestsOK /\ CallRenewsGuest
  BY DEF RequestsOK, RequestOK, CallRenewsGuest, Idle, RowPc, ExpirePc
<1>4. CleanupOK /\ GuestsOK /\ ExpiredAfterDeadline /\ VerifiedIsBacked
  BY <1>1 DEF CleanupOK, GuestsOK, ExpiredAfterDeadline, VerifiedIsBacked
<1>5. QED
  BY <1>2, <1>3, <1>4 DEF IInv

\* A request arrives with a number.
LEMMA RadiusCheckStep ==
  ASSUME IInv, NEW r \in Requests, NEW p \in Phones, NEW m \in Macs, RadiusCheck(r, p, m)
  PROVE  IInv'
<1> USE DEF RadiusCheck
<1>1. TypeOK'
  BY PhoneAuthAssumption DEF IInv, TypeOK, Request, Pc, Time
<1>2. Grows /\ GuestsOK' /\ ExpiredAfterDeadline' /\ VerifiedIsBacked'
  BY <1>1, RowsKept
<1>3. CleanupOK'
  BY <1>1, <1>2, CleanupKept
<1>4. req'[r] = [pc    |-> IF ActiveGuest(p) THEN "check_touch" ELSE "check_pending",
                 phone |-> p, mac |-> m, row |-> 0, at |-> 0]
  BY DEF IInv, TypeOK
<1>5. RequestOK(r)' /\ req'[r].pc # "call_verify"
  BY <1>1, <1>4 DEF RequestOK, RowPc, ExpirePc, ActiveGuest, IInv, TypeOK, Time
<1>6. QED
  BY <1>1, <1>2, <1>3, <1>5, Assemble DEF IInv, TypeOK

\* The portal page asks for the state of a number.
LEMMA AuthStatusStep ==
  ASSUME IInv, NEW r \in Requests, NEW p \in Phones, AuthStatus(r, p)
  PROVE  IInv'
<1> USE DEF AuthStatus
<1>1. TypeOK'
  BY PhoneAuthAssumption DEF IInv, TypeOK, Request, Pc, Time
<1>2. Grows /\ GuestsOK' /\ ExpiredAfterDeadline' /\ VerifiedIsBacked'
  BY <1>1, RowsKept
<1>3. CleanupOK'
  BY <1>1, <1>2, CleanupKept
<1>4. req'[r] = [pc |-> "status_pending", phone |-> p, mac |-> None, row |-> 0, at |-> 0]
  BY DEF IInv, TypeOK
<1>5. RequestOK(r)' /\ req'[r].pc # "call_verify"
  BY <1>1, <1>4 DEF RequestOK, RowPc, ExpirePc, IInv, TypeOK, Time
<1>6. QED
  BY <1>1, <1>2, <1>3, <1>5, Assemble DEF IInv, TypeOK

\* What a query on the rows pending for a phone returns.
LEMMA PendingQueries ==
  ASSUME TypeOK, NEW S,
         \/ \E p \in Phones : S = PendingOf(p)
         \/ \E p \in Phones, m \in Macs : S = PendingOfDevice(p, m)
  PROVE  /\ S \in SUBSET Ids(pending_auth)
         /\ S # {} => Newest(S) \in S /\ Newest(S) \in Nat /\ Newest(S) \in Ids(pending_auth)
<1>1. S \in SUBSET Ids(pending_auth)
  BY DEF PendingOf, PendingOfDevice
<1>2. Ids(pending_auth) \subseteq Nat
  BY LenProperties DEF Ids, TypeOK
<1>3. S # {} => Newest(S) \in S
  BY <1>1, NewestPending
<1>4. QED
  BY <1>1, <1>2, <1>3

\* The phone branch reads the newest pending row of the number.
LEMMA CheckPendingStep ==
  ASSUME IInv, NEW r \in Requests, CheckPending(r)
  PROVE  IInv'
<1> DEFINE mine == PendingOfDevice(req[r].phone, req[r].mac)
<1>0. /\ TypeOK /\ RequestOK(r) /\ req[r].pc = "check_pending" /\ clock' = clock /\ clock \in Nat
      /\ pending_auth' = pending_auth
  BY PhoneAuthAssumption DEF IInv, RequestsOK, CheckPending, TypeOK, Time
<1>1. req[r].phone \in Phones /\ req[r].mac \in Macs
  BY <1>0 DEF RequestOK
<1>2. \A i \in mine : pending_auth[i].phone = req[r].phone
  BY DEF PendingOfDevice, PendingOf
<1>3. mine # {} => Newest(mine) \in mine /\ Newest(mine) \in Nat /\ Newest(mine) \in Ids(pending_auth)
  BY <1>0, <1>1, PendingQueries
<1>4. \/ Goto(r, "check_create")
      \/ mine # {} /\ Overdue(Newest(mine)) /\ GotoRow(r, "check_expire", Newest(mine))
      \/ Reply(r)
  BY DEF CheckPending
<1> HIDE DEF mine
<1>5. /\ req' \in [Requests -> Request]
      /\ \A q \in Requests : q # r => req'[q] = req[q]
      /\ RequestOK(r)' /\ req'[r].pc # "call_verify"
  <2>1. CASE Goto(r, "check_create")
    BY <1>0, <2>1, GotoEffect DEF RequestOK, RowPc, ExpirePc, Pc
  <2>2. CASE mine # {} /\ Overdue(Newest(mine)) /\ GotoRow(r, "check_expire", Newest(mine))
    BY <1>0, <1>2, <1>3, <2>2, GotoRowEffect DEF RequestOK, RowPc, ExpirePc, Pc, Overdue
  <2>3. CASE Reply(r)
    BY <1>0, <2>3, ReplyEffect
  <2> QED
    BY <1>4, <2>1, <2>2, <2>3
<1>6. TypeOK'
  BY <1>0, <1>5 DEF CheckPending, TypeOK
<1>7. Grows /\ GuestsOK' /\ ExpiredAfterDeadline' /\ VerifiedIsBacked'
  BY <1>6, RowsKept DEF CheckPending
<1>8. CleanupOK'
  BY <1>6, <1>7, CleanupKept DEF CheckPending
<1>9. QED
  BY <1>5, <1>6, <1>7, <1>8, Assemble

\* So does a status poll.
LEMMA StatusPendingStep ==
  ASSUME IInv, NEW r \in Requests, StatusPending(r)
  PROVE  IInv'
<1> DEFINE mine == PendingOf(req[r].phone)
<1>0. /\ TypeOK /\ RequestOK(r) /\ req[r].pc = "status_pending" /\ clock' = clock /\ clock \in Nat
      /\ pending_auth' = pending_auth
  BY PhoneAuthAssumption DEF IInv, RequestsOK, StatusPending, TypeOK, Time
<1>1. req[r].phone \in Phones
  BY <1>0 DEF RequestOK
<1>2. \A i \in mine : pending_auth[i].phone = req[r].phone
  BY DEF PendingOf
<1>3. mine # {} => Newest(mine) \in mine /\ Newest(mine) \in Nat /\ Newest(mine) \in Ids(pending_auth)
  BY <1>0, <1>1, PendingQueries
<1>4. \/ mine # {} /\ Overdue(Newest(mine)) /\ GotoRow(r, "status_expire", Newest(mine))
      \/ Reply(r)
  BY DEF StatusPending
<1> HIDE DEF mine
<1>5. /\ req' \in [Requests -> Request]
      /\ \A q \in Requests : q # r => req'[q] = req[q]
      /\ RequestOK(r)' /\ req'[r].pc # "call_verify"
  <2>1. CASE mine # {} /\ Overdue(Newest(mine)) /\ GotoRow(r, "status_expire", Newest(mine))
    BY <1>0, <1>2, <1>3, <2>1, GotoRowEffect DEF RequestOK, RowPc, ExpirePc, Pc, Overdue
  <2>2. CASE Reply(r)
    BY <1>0, <2>2, ReplyEffect
  <2> QED
    BY <1>4, <2>1, <2>2
<1>6. TypeOK'
  BY <1>0, <1>5 DEF StatusPending, TypeOK
<1>7. Grows /\ GuestsOK' /\ ExpiredAfterDeadline' /\ VerifiedIsBacked'
  BY <1>6, RowsKept DEF StatusPending
<1>8. CleanupOK'
  BY <1>6, <1>7, CleanupKept DEF StatusPending
<1>9. QED
  BY <1>5, <1>6, <1>7, <1>8, Assemble

\* A call arrives and the newest pending row of its number is read.
LEMMA PbxCallStep ==
  ASSUME IInv, NEW r \in Requests, NEW p \in Phones, PbxCall(r, p)
  PROVE  IInv'
<1> DEFINE mine == PendingOf(p)
           Received(pc) == [pc |-> pc, phone |-> p, mac |-> None, row |-> Newest(mine), at |-> clock]
<1>0. /\ TypeOK /\ req[r].pc = "idle" /\ clock' = clock /\ clock \in Time /\ clock \in Nat
      /\ pending_auth' = pending_auth /\ guests' = guests /\ cleanup' = cleanup
      /\ crashes' = crashes
  BY PhoneAuthAssumption DEF IInv, PbxCall, TypeOK, Time
<1>1. \A i \in mine : pending_auth[i].phone = p
  BY DEF PendingOf
<1>2. mine # {} => Newest(mine) \in mine /\ Newest(mine) \in Nat /\ Newest(mine) \in Ids(pending_auth)
  BY <1>0, PendingQueries
<1>3. /\ \/ req' = req
         \/ /\ mine # {} /\ Overdue(Newest(mine))
            /\ req' = [req EXCEPT ![r] = Received("call_expire")]
         \/ mine # {} /\ req' = [req EXCEPT ![r] = Received("call_guest")]
      /\ \/ RecordCall(p, "no_pending")
         \/ call_events' = call_events
  BY DEF PbxCall
<1>4. /\ call_events' \in [Phones -> SUBSET CallResult]
      /\ \A q \in Phones : call_events[q] \subseteq call_events'[q]
  BY <1>0, <1>3 DEF RecordCall, TypeOK, CallResult
<1> HIDE DEF mine
<1>5. /\ req' \in [Requests -> Request]
      /\ \A q \in Requests : q # r => req'[q] = req[q]
      /\ RequestOK(r)' /\ req'[r].pc # "call_verify"
  <2>1. CASE req' = req
    BY <1>0, <2>1 DEF RequestOK, IInv, RequestsOK, TypeOK
  <2>2. CASE mine # {} /\ Overdue(Newest(mine)) /\ req' = [req EXCEPT ![r] = Received("call_expire")]
    <3>1. Received("call_expire") \in Request
      BY <1>0, <1>2, <2>2 DEF Request, Pc
    <3>2. req'[r] = Received("call_expire")
      BY <1>0, <2>2 DEF TypeOK
    <3>3. RequestOK(r)' /\ req'[r].pc # "call_verify"
      BY <1>0, <1>1, <1>2, <2>2, <3>2 DEF RequestOK, RowPc, ExpirePc, Overdue
    <3> QED
      BY <1>0, <2>2, <3>1, <3>3 DEF TypeOK
  <2>3. CASE mine # {} /\ req' = [req EXCEPT ![r] = Received("call_guest")]
    <3>1. Received("call_guest") \in Request
      BY <1>0, <1>2, <2>3 DEF Request, Pc
    <3>2. req'[r] = Received("call_guest")
      BY <1>0, <2>3 DEF TypeOK
    <3>3. RequestOK(r)' /\ req'[r].pc # "call_verify"
      BY <1>0, <1>1, <1>2, <2>3, <3>2 DEF RequestOK, RowPc, ExpirePc
    <3> QED
      BY <1>0, <2>3, <3>1, <3>3 DEF TypeOK
  <2> QED
    BY <1>3, <2>1, <2>2, <2>3
<1>6. TypeOK'
  BY <1>0, <1>4, <1>5 DEF TypeOK
<1>7. Grows /\ GuestsOK' /\ ExpiredAfterDeadline' /\ VerifiedIsBacked'
  BY <1>0, <1>4, <1>6, RowsKept
<1>8. CleanupOK'
  BY <1>0, <1>6, <1>7, CleanupKept
<1>9. QED
  BY <1>5, <1>6, <1>7, <1>8, Assemble

\* Marking rows that are overdue keeps what is said of rows and guests: also of
\* the rows somebody verified since they were read.
LEMMA ExpireKept ==
  ASSUME IInv, NEW ids, ExpireRows(ids), clock' = clock, guests' = guests,
         \A i \in ids \cap Ids(pending_auth) : clock > pending_auth[i].expires_at,
         \A p \in Phones : call_events[p] \subseteq call_events'[p]
  PROVE  Grows /\ GuestsOK' /\ ExpiredAfterDeadline' /\ VerifiedIsBacked'
<1>1. /\ Ids(pending_auth') = Ids(pending_auth)
      /\ \A i \in Ids(pending_auth) :
           /\ pending_auth'[i].phone = pending_auth[i].phone
           /\ pending_auth'[i].expires_at = pending_auth[i].expires_at
           /\ pending_auth'[i].status =
                IF i \in ids THEN "expired" ELSE pending_auth[i].status
  BY ExpireRowsEffect DEF IInv
<1>2. \A i \in Ids(pending_auth) : pending_auth[i].phone \in Phones
  BY RowsTyped DEF IInv
<1>3. clock \in Int /\ \A p \in Phones : guests[p] # None => guests[p] \in Int
  BY DEF IInv, TypeOK, Time
<1>4. Grows
  BY <1>1, <1>3 DEF Grows
<1>5. GuestsOK'
  <2>1. Asked' = Asked
    BY <1>1 DEF Asked
  <2> QED
    BY <2>1 DEF IInv, GuestsOK
<1>6. ExpiredAfterDeadline'
  BY <1>1 DEF IInv, ExpiredAfterDeadline
<1>7. VerifiedIsBacked'
  BY <1>1, <1>2 DEF IInv, VerifiedIsBacked
<1>8. QED
  BY <1>4, <1>5, <1>6, <1>7

\* A row found overdue by the phone branch is written expired.
LEMMA CheckExpireStep ==
  ASSUME IInv, NEW r \in Requests, CheckExpire(r)
  PROVE  IInv'
<1>0. /\ TypeOK /\ RequestOK(r) /\ req[r].pc \in RowPc \cap ExpirePc /\ clock' = clock /\ clock \in Nat
      /\ guests' = guests /\ cleanup' = cleanup /\ crashes' = crashes
      /\ ExpireRows({req[r].row}) /\ Reply(r)
      /\ call_events' = call_events
  BY PhoneAuthAssumption DEF IInv, RequestsOK, CheckExpire, TypeOK, Time, RowPc, ExpirePc
<1>1. /\ call_events' \in [Phones -> SUBSET CallResult]
      /\ \A p \in Phones : call_events[p] \subseteq call_events'[p]
  BY <1>0 DEF TypeOK, RecordCall, CallResult
<1>2. clock > pending_auth[req[r].row].expires_at
  BY <1>0 DEF RequestOK
<1>3. /\ req' \in [Requests -> Request]
      /\ \A q \in Requests : q # r => req'[q] = req[q]
      /\ RequestOK(r)' /\ req'[r].pc # "call_verify"
  BY <1>0, ReplyEffect
<1>4. TypeOK'
  BY <1>0, <1>1, <1>3, ExpireRowsEffect DEF TypeOK
<1>5. Grows /\ GuestsOK' /\ ExpiredAfterDeadline' /\ VerifiedIsBacked'
  <2>1. \A i \in {req[r].row} \cap Ids(pending_auth) : clock > pending_auth[i].expires_at
    BY <1>2
  <2> QED
    BY <1>0, <1>1, <2>1, ExpireKept
<1>6. CleanupOK'
  BY <1>0, <1>4, <1>5, CleanupKept
<1>7. QED
  BY <1>3, <1>4, <1>5, <1>6, Assemble

\* So is one found overdue by a call.
LEMMA CallExpireStep ==
  ASSUME IInv, NEW r \in Requests, CallExpire(r)
  PROVE  IInv'
<1>0. /\ TypeOK /\ RequestOK(r) /\ req[r].pc \in RowPc \cap ExpirePc /\ clock' = clock /\ clock \in Nat
      /\ guests' = guests /\ cleanup' = cleanup /\ crashes' = crashes
      /\ ExpireRows({req[r].row}) /\ Reply(r)
      /\ RecordCall(req[r].phone, "expired_pending")
  BY PhoneAuthAssumption DEF IInv, RequestsOK, CallExpire, TypeOK, Time, RowPc, ExpirePc
<1>1. /\ call_events' \in [Phones -> SUBSET CallResult]
      /\ \A p \in Phones : call_events[p] \subseteq call_events'[p]
  BY <1>0 DEF TypeOK, RecordCall, CallResult
<1>2. clock > pending_auth[req[r].row].expires_at
  BY <1>0 DEF RequestOK
<1>3. /\ req' \in [Requests -> Request]
      /\ \A q \in Requests : q # r => req'[q] = req[q]
      /\ RequestOK(r)' /\ req'[r].pc # "call_verify"
  BY <1>0, ReplyEffect
<1>4. TypeOK'
  BY <1>0, <1>1, <1>3, ExpireRowsEffect DEF TypeOK
<1>5. Grows /\ GuestsOK' /\ ExpiredAfterDeadline' /\ VerifiedIsBacked'
  <2>1. \A i \in {req[r].row} \cap Ids(pending_auth) : clock > pending_auth[i].expires_at
    BY <1>2
  <2> QED
    BY <1>0, <1>1, <2>1, ExpireKept
<1>6. CleanupOK'
  BY <1>0, <1>4, <1>5, CleanupKept
<1>7. QED
  BY <1>3, <1>4, <1>5, <1>6, Assemble

\* So is one found overdue by a status poll.
LEMMA StatusExpireStep ==
  ASSUME IInv, NEW r \in Requests, StatusExpire(r)
  PROVE  IInv'
<1>0. /\ TypeOK /\ RequestOK(r) /\ req[r].pc \in RowPc \cap ExpirePc /\ clock' = clock /\ clock \in Nat
      /\ guests' = guests /\ cleanup' = cleanup /\ crashes' = crashes
      /\ ExpireRows({req[r].row}) /\ Reply(r)
      /\ call_events' = call_events
  BY PhoneAuthAssumption DEF IInv, RequestsOK, StatusExpire, TypeOK, Time, RowPc, ExpirePc
<1>1. /\ call_events' \in [Phones -> SUBSET CallResult]
      /\ \A p \in Phones : call_events[p] \subseteq call_events'[p]
  BY <1>0 DEF TypeOK, RecordCall, CallResult
<1>2. clock > pending_auth[req[r].row].expires_at
  BY <1>0 DEF RequestOK
<1>3. /\ req' \in [Requests -> Request]
      /\ \A q \in Requests : q # r => req'[q] = req[q]
      /\ RequestOK(r)' /\ req'[r].pc # "call_verify"
  BY <1>0, ReplyEffect
<1>4. TypeOK'
  BY <1>0, <1>1, <1>3, ExpireRowsEffect DEF TypeOK
<1>5. Grows /\ GuestsOK' /\ ExpiredAfterDeadline' /\ VerifiedIsBacked'
  <2>1. \A i \in {req[r].row} \cap Ids(pending_auth) : clock > pending_auth[i].expires_at
    BY <1>2
  <2> QED
    BY <1>0, <1>1, <2>1, ExpireKept
<1>6. CleanupOK'
  BY <1>0, <1>4, <1>5, CleanupKept
<1>7. QED
  BY <1>3, <1>4, <1>5, <1>6, Assemble

\* Renewing or creating the guest row of a phone somebody asked access with.
LEMMA GuestStamped ==
  ASSUME IInv, TypeOK', clock' = clock, pending_auth' = pending_auth, call_events' = call_events,
         NEW p \in Phones, p \in Asked, guests' = [guests EXCEPT ![p] = clock]
  PROVE  Grows /\ GuestsOK' /\ ExpiredAfterDeadline' /\ VerifiedIsBacked'
<1>1. clock \in Int /\ \A q \in Phones : guests[q] # None => guests[q] \in Int
  BY DEF IInv, TypeOK, Time
<1>2. None \notin Int
  BY PhoneAuthAssumption
<1>3. /\ guests'[p] = clock
      /\ \A q \in Phones : q # p => guests'[q] = guests[q]
  BY DEF IInv, TypeOK
<1>4. Grows
  BY <1>1, <1>2, <1>3 DEF Grows, IInv, GuestsOK
<1>5. GuestsOK'
  <2>1. Asked' = Asked
    BY DEF Asked
  <2> QED
    BY <1>1, <1>3, <2>1 DEF IInv, GuestsOK
<1>6. ExpiredAfterDeadline'
  BY DEF IInv, ExpiredAfterDeadline
<1>7. VerifiedIsBacked'
  <2>1. \A i \in Ids(pending_auth) : pending_auth[i].phone \in Phones
    BY RowsTyped DEF IInv
  <2> QED
    BY <1>1, <1>2, <1>3, <2>1 DEF IInv, VerifiedIsBacked
<1>8. QED
  BY <1>4, <1>5, <1>6, <1>7

\* A guest who is still authorised is renewed.
LEMMA CheckTouchStep ==
  ASSUME IInv, NEW r \in Requests, CheckTouch(r)
  PROVE  IInv'
<1>0. /\ TypeOK /\ RequestOK(r) /\ req[r].pc = "check_touch" /\ clock' = clock
      /\ clock \in Nat /\ clock \in Time
      /\ pending_auth' = pending_auth /\ call_events' = call_events /\ cleanup' = cleanup
      /\ crashes' = crashes /\ Reply(r)
  BY PhoneAuthAssumption DEF IInv, RequestsOK, CheckTouch, TypeOK, Time
<1>1. req[r].phone \in Phones /\ guests[req[r].phone] # None /\ req[r].phone \in Asked
  BY <1>0 DEF RequestOK, IInv, GuestsOK
<1>2. guests' = [guests EXCEPT ![req[r].phone] = clock]
  BY <1>1 DEF CheckTouch
<1>3. /\ req' \in [Requests -> Request]
      /\ \A q \in Requests : q # r => req'[q] = req[q]
      /\ RequestOK(r)' /\ req'[r].pc # "call_verify"
  BY <1>0, ReplyEffect
<1>4. TypeOK'
  BY <1>0, <1>2, <1>3 DEF TypeOK
<1>5. Grows /\ GuestsOK' /\ ExpiredAfterDeadline' /\ VerifiedIsBacked'
  BY <1>0, <1>1, <1>2, <1>4, GuestStamped
<1>6. CleanupOK'
  BY <1>0, <1>4, <1>5, CleanupKept
<1>7. QED
  BY <1>3, <1>4, <1>5, <1>6, Assemble

\* The MAC branch renews a guest.
LEMMA MacTouchStep ==
  ASSUME IInv, NEW p \in Phones, MacTouch(p)
  PROVE  IInv'
<1>0. /\ TypeOK /\ clock' = clock /\ clock \in Nat /\ clock \in Time
      /\ pending_auth' = pending_auth /\ call_events' = call_events /\ cleanup' = cleanup
      /\ crashes' = crashes /\ req' = req /\ guests' = [guests EXCEPT ![p] = clock]
  BY PhoneAuthAssumption DEF IInv, MacTouch, TypeOK, Time
<1>1. p \in Asked
  BY DEF MacTouch, IInv, GuestsOK
<1>2. TypeOK'
  BY <1>0 DEF TypeOK
<1>3. Grows /\ GuestsOK' /\ ExpiredAfterDeadline' /\ VerifiedIsBacked'
  BY <1>0, <1>1, <1>2, GuestStamped
<1>4. CleanupOK'
  BY <1>0, <1>2, <1>3, CleanupKept
<1>5. QED
  BY <1>0, <1>2, <1>3, <1>4, Assemble, RequestKept

\* A call renews a guest it has found, by id.
LEMMA CallUpdateStep ==
  ASSUME IInv, NEW r \in Requests, CallUpdate(r)
  PROVE  IInv'
<1>0. /\ TypeOK /\ RequestOK(r) /\ req[r].pc = "call_update" /\ clock' = clock
      /\ clock \in Nat /\ clock \in Time
      /\ pending_auth' = pending_auth /\ call_events' = call_events /\ cleanup' = cleanup
      /\ crashes' = crashes /\ Goto(r, "call_verify")
      /\ guests' = [guests EXCEPT ![req[r].phone] = clock]
  BY PhoneAuthAssumption DEF IInv, RequestsOK, CallUpdate, TypeOK, Time
<1>1. req[r].phone \in Phones /\ req[r].phone \in Asked
  BY <1>0 DEF RequestOK, RowPc, Asked
<1>2. /\ req' \in [Requests -> Request]
      /\ \A q \in Requests : q # r => req'[q] = req[q]
      /\ req'[r].pc = "call_verify" /\ req'[r].phone = req[r].phone
      /\ req'[r].row = req[r].row /\ req'[r].at = req[r].at
  BY <1>0, GotoEffect DEF Pc
<1>3. /\ guests'[req'[r].phone] # None
      /\ guests'[req'[r].phone] >= req'[r].at
  <2>1. guests'[req'[r].phone] = clock
    BY <1>0, <1>1, <1>2 DEF TypeOK
  <2>2. req[r].at \in Nat
    BY PhoneAuthAssumption, <1>0 DEF TypeOK, Request, Time
  <2> QED
    BY <1>0, <1>2, <2>1, <2>2, PhoneAuthAssumption DEF RequestOK
<1>4. RequestOK(r)'
  BY <1>0, <1>2 DEF RequestOK, RowPc, ExpirePc
<1>5. TypeOK'
  BY <1>0, <1>2 DEF TypeOK
<1>6. Grows /\ GuestsOK' /\ ExpiredAfterDeadline' /\ VerifiedIsBacked'
  BY <1>0, <1>1, <1>5, GuestStamped
<1>7. CleanupOK'
  BY <1>0, <1>5, <1>6, CleanupKept
<1>8. QED
  BY <1>2, <1>3, <1>4, <1>5, <1>6, <1>7, Assemble

\* A call looks for the guest of its number.
LEMMA CallGuestStep ==
  ASSUME IInv, NEW r \in Requests, CallGuest(r)
  PROVE  IInv'
<1> DEFINE next == IF guests[req[r].phone] # None THEN "call_update" ELSE "call_insert"
<1>0. /\ TypeOK /\ RequestOK(r) /\ req[r].pc = "call_guest" /\ clock' = clock
      /\ guests' = guests /\ pending_auth' = pending_auth /\ call_events' = call_events
      /\ cleanup' = cleanup /\ crashes' = crashes /\ Goto(r, next)
  BY DEF IInv, RequestsOK, CallGuest
<1>1. /\ req' \in [Requests -> Request]
      /\ \A q \in Requests : q # r => req'[q] = req[q]
      /\ req'[r].pc = next /\ req'[r].phone = req[r].phone
      /\ req'[r].row = req[r].row /\ req'[r].at = req[r].at
  <2>1. next \in Pc
    BY DEF Pc
  <2> HIDE DEF next
  <2> QED
    BY <1>0, <2>1, GotoEffect
<1>2. RequestOK(r)' /\ req'[r].pc # "call_verify"
  BY <1>0, <1>1 DEF RequestOK, RowPc, ExpirePc
<1>3. TypeOK'
  BY <1>0, <1>1 DEF TypeOK
<1>4. Grows /\ GuestsOK' /\ ExpiredAfterDeadline' /\ VerifiedIsBacked'
  BY <1>0, <1>3, RowsKept
<1>5. CleanupOK'
  BY <1>0, <1>3, <1>4, CleanupKept
<1>6. QED
  BY <1>1, <1>2, <1>3, <1>4, <1>5, Assemble

\* A call inserts the guest it has not found.
LEMMA CallInsertStep ==
  ASSUME IInv, NEW r \in Requests, CallInsert(r)
  PROVE  IInv'
<1>0. /\ TypeOK /\ RequestOK(r) /\ req[r].pc = "call_insert" /\ clock' = clock
      /\ clock \in Nat /\ clock \in Time
      /\ pending_auth' = pending_auth /\ call_events' = call_events /\ cleanup' = cleanup
      /\ crashes' = crashes
      /\ \/ guests' = [guests EXCEPT ![req[r].phone] = clock] /\ Goto(r, "call_verify")
         \/ guests' = guests /\ Reply(r)
  BY PhoneAuthAssumption DEF IInv, RequestsOK, CallInsert, TypeOK, Time
<1>1. req[r].phone \in Phones /\ req[r].phone \in Asked
  BY <1>0 DEF RequestOK, RowPc, Asked
<1>2. CASE guests' = guests /\ Reply(r)
  <2>1. /\ req' \in [Requests -> Request]
        /\ \A q \in Requests : q # r => req'[q] = req[q]
        /\ RequestOK(r)' /\ req'[r].pc # "call_verify"
    BY <1>0, <1>2, ReplyEffect
  <2>2. TypeOK'
    BY <1>0, <1>2, <2>1 DEF TypeOK
  <2>3. Grows /\ GuestsOK' /\ ExpiredAfterDeadline' /\ VerifiedIsBacked'
    BY <1>0, <1>2, <2>2, RowsKept
  <2>4. CleanupOK'
    BY <1>0, <2>2, <2>3, CleanupKept
  <2> QED
    BY <2>1, <2>2, <2>3, <2>4, Assemble
<1>3. CASE guests' = [guests EXCEPT ![req[r].phone] = clock] /\ Goto(r, "call_verify")
  <2>1. /\ req' \in [Requests -> Request]
        /\ \A q \in Requests : q # r => req'[q] = req[q]
        /\ req'[r].pc = "call_verify" /\ req'[r].phone = req[r].phone
        /\ req'[r].row = req[r].row /\ req'[r].at = req[r].at
    BY <1>0, <1>3, GotoEffect DEF Pc
  <2>2. guests'[req'[r].phone] = clock
    BY <1>0, <1>1, <1>3, <2>1 DEF TypeOK
  <2>3. guests'[req'[r].phone] # None /\ guests'[req'[r].phone] >= req'[r].at
    BY <1>0, <2>1, <2>2, PhoneAuthAssumption DEF RequestOK, TypeOK, Request, Time
  <2>4. RequestOK(r)'
    BY <1>0, <2>1 DEF RequestOK, RowPc, ExpirePc
  <2>5. TypeOK'
    BY <1>0, <1>3, <2>1 DEF TypeOK
  <2>6. Grows /\ GuestsOK' /\ ExpiredAfterDeadline' /\ VerifiedIsBacked'
    BY <1>0, <1>1, <1>3, <2>5, GuestStamped
  <2>7. CleanupOK'
    BY <1>0, <2>5, <2>6, CleanupKept
  <2> QED
    BY <2>1, <2>3, <2>4, <2>5, <2>6, <2>7, Assemble
<1>4. QED
  BY <1>0, <1>2, <1>3

\* A call writes its row verified, and every other pending row of the number.
LEMMA CallVerifyStep ==
  ASSUME IInv, NEW r \in Requests, CallVerify(r)
  PROVE  IInv'
<1> DEFINE p == req[r].phone
<1>0. /\ TypeOK /\ RequestOK(r) /\ req[r].pc = "call_verify" /\ clock' = clock
      /\ clock \in Nat /\ guests' = guests /\ cleanup' = cleanup /\ crashes' = crashes
      /\ Reply(r) /\ call_events' = [call_events EXCEPT ![p] = @ \cup {"matched_pending"}]
  BY PhoneAuthAssumption DEF IInv, RequestsOK, CallVerify, RecordCall, TypeOK, Time
<1>1. /\ p \in Phones /\ req[r].row \in Ids(pending_auth)
      /\ pending_auth[req[r].row].phone = p /\ guests[p] # None
  BY <1>0 DEF RequestOK, RowPc, CallRenewsGuest, IInv
<1>2. /\ call_events' \in [Phones -> SUBSET CallResult]
      /\ "matched_pending" \in call_events'[p]
      /\ \A q \in Phones : call_events[q] \subseteq call_events'[q]
  BY <1>0, <1>1 DEF TypeOK, CallResult
<1>3. /\ pending_auth' \in Seq(PendingRow)
      /\ Ids(pending_auth') = Ids(pending_auth)
      /\ \A i \in Ids(pending_auth) :
           /\ pending_auth'[i].phone = pending_auth[i].phone
           /\ pending_auth'[i].expires_at = pending_auth[i].expires_at
           /\ pending_auth'[i].status =
                IF i = req[r].row \/ i \in PendingOf(p)
                THEN "verified" ELSE pending_auth[i].status
  BY <1>0, VerifyRowsEffect
<1>4. /\ req' \in [Requests -> Request]
      /\ \A q \in Requests : q # r => req'[q] = req[q]
      /\ RequestOK(r)' /\ req'[r].pc # "call_verify"
  BY <1>0, ReplyEffect
<1>5. TypeOK'
  BY <1>0, <1>2, <1>3, <1>4 DEF TypeOK
<1>6. Grows
  <2>1. clock \in Int /\ \A q \in Phones : guests[q] # None => guests[q] \in Int
    BY <1>0 DEF TypeOK, Time
  <2> QED
    BY <1>0, <1>3, <2>1 DEF Grows
<1>7. GuestsOK'
  <2>1. Asked' = Asked
    BY <1>3 DEF Asked
  <2> QED
    BY <1>0, <2>1 DEF IInv, GuestsOK
<1>8. ExpiredAfterDeadline'
  BY <1>0, <1>3 DEF IInv, ExpiredAfterDeadline
<1>9. VerifiedIsBacked'
  <2> SUFFICES ASSUME NEW i \in Ids(pending_auth), pending_auth'[i].status = "verified"
               PROVE  /\ guests[pending_auth[i].phone] # None
                      /\ "matched_pending" \in call_events'[pending_auth[i].phone]
    BY <1>0, <1>3 DEF VerifiedIsBacked
  <2>1. CASE i = req[r].row \/ i \in PendingOf(p)
    BY <1>1, <1>2, <2>1 DEF PendingOf
  <2>2. CASE ~ (i = req[r].row \/ i \in PendingOf(p))
    <3>1. pending_auth[i].status = "verified" /\ pending_auth[i].phone \in Phones
      BY <1>0, <1>3, <2>2, RowsTyped
    <3> QED
      BY <1>2, <3>1 DEF IInv, VerifiedIsBacked
  <2> QED
    BY <2>1, <2>2
<1>10. CleanupOK'
  BY <1>0, <1>5, <1>6, CleanupKept
<1>11. QED
  BY <1>4, <1>5, <1>6, <1>7, <1>8, <1>9, <1>10, Assemble

\* The phone branch inserts a pending row.
LEMMA CheckCreateStep ==
  ASSUME IInv, NEW r \in Requests, CheckCreate(r)
  PROVE  IInv'
<1> DEFINE added == [phone |-> req[r].phone, mac |-> req[r].mac, created_at |-> clock,
                   expires_at |-> clock + PendingTtl, status |-> "pending"]
<1>0. /\ TypeOK /\ RequestOK(r) /\ req[r].pc = "check_create" /\ clock' = clock
      /\ clock \in Nat /\ guests' = guests /\ call_events' = call_events
      /\ cleanup' = cleanup /\ crashes' = crashes /\ Reply(r)
      /\ pending_auth' = Append(pending_auth, added)
  BY PhoneAuthAssumption DEF IInv, RequestsOK, CheckCreate, TypeOK, Time
<1>1. added \in PendingRow
  <2>1. req[r].phone \in Phones /\ req[r].mac \in Macs
    BY <1>0 DEF RequestOK
  <2>2. clock \in Time /\ clock + PendingTtl \in Time
    BY <1>0, PhoneAuthAssumption DEF CheckCreate, TypeOK, Time
  <2> QED
    BY <2>1, <2>2 DEF PendingRow
<1> HIDE DEF added
<1>2. /\ pending_auth' \in Seq(PendingRow)
      /\ Ids(pending_auth) \subseteq Ids(pending_auth')
      /\ Ids(pending_auth') = Ids(pending_auth) \cup {Len(pending_auth) + 1}
      /\ pending_auth'[Len(pending_auth) + 1] = added
      /\ \A i \in Ids(pending_auth) : pending_auth'[i] = pending_auth[i]
  <2>1. pending_auth \in Seq(PendingRow)
    BY <1>0 DEF TypeOK
  <2>2. /\ Append(pending_auth, added) \in Seq(PendingRow)
        /\ Ids(pending_auth) \subseteq Ids(Append(pending_auth, added))
        /\ Ids(Append(pending_auth, added)) = Ids(pending_auth) \cup {Len(pending_auth) + 1}
        /\ Append(pending_auth, added)[Len(pending_auth) + 1] = added
    BY <1>1, <2>1, InsertedRow
  <2>3. ASSUME NEW i \in Ids(pending_auth)
        PROVE  Append(pending_auth, added)[i] = pending_auth[i]
    BY <1>1, <2>1, OtherRowsKept
  <2>4. pending_auth' = Append(pending_auth, added)
    BY <1>0
  <2> QED
    BY <2>2, <2>3, <2>4, Zenon
<1>3. /\ req' \in [Requests -> Request]
      /\ \A q \in Requests : q # r => req'[q] = req[q]
      /\ RequestOK(r)' /\ req'[r].pc # "call_verify"
  BY <1>0, ReplyEffect
<1>4. TypeOK'
  BY <1>0, <1>2, <1>3 DEF TypeOK
<1>5. Grows
  <2>1. \A q \in Phones : guests[q] # None => guests[q] >= guests[q]
    BY <1>0 DEF TypeOK, Time
  <2>2. clock <= clock'
    BY <1>0
  <2> QED
    BY <1>0, <1>2, <2>1, <2>2, Zenon DEF Grows
<1>6. GuestsOK'
  <2>1. Asked \subseteq Asked'
    BY <1>2 DEF Asked
  <2> QED
    BY <1>0, <2>1 DEF IInv, GuestsOK
<1>7. added.status = "pending"
  BY DEF added
<1>8. ExpiredAfterDeadline'
  BY <1>0, <1>2, <1>7 DEF IInv, ExpiredAfterDeadline
<1>9. VerifiedIsBacked'
  BY <1>0, <1>2, <1>7 DEF IInv, VerifiedIsBacked
<1>10. CleanupOK'
  BY <1>0, <1>4, <1>5, CleanupKept
<1>11. QED
  BY <1>3, <1>4, <1>5, <1>6, <1>8, <1>9, <1>10, Assemble

\* The worker's pass, or its end in the middle.
LEMMA CleanupStep ==
  ASSUME IInv, CleanupRead \/ CleanupExpire \/ CrashCleanup
  PROVE  IInv'
<1>0. /\ TypeOK /\ clock' = clock /\ guests' = guests /\ call_events' = call_events
      /\ req' = req /\ Ids(pending_auth) \subseteq Nat
  BY LenProperties DEF IInv, CleanupRead, CleanupExpire, CrashCleanup, TypeOK, Ids
<1>1. CASE CleanupRead
  <2>1. TypeOK'
    BY <1>0, <1>1 DEF CleanupRead, TypeOK
  <2>2. Grows /\ GuestsOK' /\ ExpiredAfterDeadline' /\ VerifiedIsBacked'
    BY <1>0, <1>1, <2>1, RowsKept DEF CleanupRead
  <2>3. CleanupOK'
    BY <1>0, <1>1 DEF CleanupRead, CleanupOK, Overdue
  <2> QED
    BY <1>0, <2>1, <2>2, <2>3, Assemble, RequestKept
<1>2. CASE CleanupExpire
  <2>1. TypeOK'
    BY <1>0, <1>2, ExpireRowsEffect DEF CleanupExpire, TypeOK
  <2>2. Grows /\ GuestsOK' /\ ExpiredAfterDeadline' /\ VerifiedIsBacked'
    BY <1>0, <1>2, ExpireKept DEF CleanupExpire, IInv, CleanupOK
  <2>3. CleanupOK'
    BY <1>2 DEF CleanupExpire, CleanupOK
  <2> QED
    BY <1>0, <2>1, <2>2, <2>3, Assemble, RequestKept
<1>3. CASE CrashCleanup
  <2>1. TypeOK'
    BY <1>0, <1>3, PhoneAuthAssumption DEF CrashCleanup, TypeOK
  <2>2. Grows /\ GuestsOK' /\ ExpiredAfterDeadline' /\ VerifiedIsBacked'
    BY <1>0, <1>3, <2>1, RowsKept DEF CrashCleanup
  <2>3. CleanupOK'
    BY <1>3 DEF CrashCleanup, CleanupOK
  <2> QED
    BY <1>0, <2>1, <2>2, <2>3, Assemble, RequestKept
<1>4. QED
  BY <1>1, <1>2, <1>3

\* A request that dies leaves what it has written.
LEMMA CrashRequestStep ==
  ASSUME IInv, NEW r \in Requests, CrashRequest(r)
  PROVE  IInv'
<1>0. /\ TypeOK /\ clock' = clock /\ clock \in Nat /\ guests' = guests
      /\ call_events' = call_events /\ pending_auth' = pending_auth /\ cleanup' = cleanup
      /\ crashes' \in 0 .. MaxCrashes /\ Reply(r)
  BY PhoneAuthAssumption DEF IInv, CrashRequest, TypeOK, Time
<1>1. /\ req' \in [Requests -> Request]
      /\ \A q \in Requests : q # r => req'[q] = req[q]
      /\ RequestOK(r)' /\ req'[r].pc # "call_verify"
  BY <1>0, ReplyEffect
<1>2. TypeOK'
  BY <1>0, <1>1 DEF TypeOK
<1>3. Grows /\ GuestsOK' /\ ExpiredAfterDeadline' /\ VerifiedIsBacked'
  BY <1>0, <1>2, RowsKept
<1>4. CleanupOK'
  BY <1>0, <1>2, <1>3, CleanupKept
<1>5. QED
  BY <1>1, <1>2, <1>3, <1>4, Assemble

\* Time passes.
LEMMA TickStep ==
  ASSUME IInv, Tick
  PROVE  IInv'
<1>0. /\ TypeOK /\ clock \in Nat /\ clock' = clock + 1 /\ guests' = guests
      /\ call_events' = call_events /\ pending_auth' = pending_auth /\ cleanup' = cleanup
      /\ crashes' = crashes /\ req' = req
  BY PhoneAuthAssumption DEF IInv, Tick, TypeOK, Time
<1>1. TypeOK'
  BY <1>0, PhoneAuthAssumption DEF Tick, TypeOK, Time
<1>2. \A p \in Phones : guests[p] # None => guests[p] \in Int
  BY <1>0 DEF TypeOK, Time
<1>3. \A i \in Ids(pending_auth) : pending_auth[i].expires_at \in Nat
  BY <1>0, RowsTyped
<1>4. Grows
  BY <1>0, <1>2 DEF Grows
<1>5. GuestsOK'
  <2>1. Asked' = Asked
    BY <1>0 DEF Asked
  <2> QED
    BY <1>0, <1>2, <2>1 DEF IInv, GuestsOK
<1>6. ExpiredAfterDeadline'
  BY <1>0, <1>3 DEF IInv, ExpiredAfterDeadline
<1>7. VerifiedIsBacked'
  BY <1>0 DEF IInv, VerifiedIsBacked
<1>8. CleanupOK'
  BY <1>0, <1>1, <1>4, CleanupKept
<1>9. QED
  BY <1>0, <1>1, <1>4, <1>5, <1>6, <1>7, <1>8, Assemble, RequestKept

-----------------------------------------------------------------------------
(* The theorems. *)

\* Every step keeps the inductive invariant.
LEMMA NextIInv == IInv /\ [Next]_vars => IInv'
<1> SUFFICES ASSUME IInv, [Next]_vars PROVE IInv'
  OBVIOUS
<1>1. CASE \E r \in Requests, p \in Phones, m \in Macs : RadiusCheck(r, p, m)
  BY <1>1, RadiusCheckStep
<1>2. CASE \E r \in Requests, p \in Phones : PbxCall(r, p) \/ AuthStatus(r, p)
  BY <1>2, PbxCallStep, AuthStatusStep
<1>3. CASE \E r \in Requests : Serve(r) \/ CrashRequest(r)
  <2> PICK r \in Requests : Serve(r) \/ CrashRequest(r)
    BY <1>3
  <2>1. CASE Serve(r)
    BY <2>1, CheckTouchStep, CheckPendingStep, CheckCreateStep, CheckExpireStep,
       CallExpireStep, CallGuestStep, CallUpdateStep, CallInsertStep, CallVerifyStep,
       StatusPendingStep, StatusExpireStep DEF Serve
  <2>2. CASE CrashRequest(r)
    BY <2>2, CrashRequestStep
  <2> QED
    BY <2>1, <2>2
<1>4. CASE CleanupRead \/ CleanupExpire \/ CrashCleanup
  BY <1>4, CleanupStep
<1>5. CASE Tick
  BY <1>5, TickStep
<1>6. CASE UNCHANGED vars
  BY <1>6 DEF vars, IInv, TypeOK, RequestsOK, RequestOK, CleanupOK, GuestsOK, Asked,
     ExpiredAfterDeadline, VerifiedIsBacked, CallRenewsGuest
<1>7. CASE \E p \in Phones : MacTouch(p)
  BY <1>7, MacTouchStep
<1>8. QED
  BY <1>1, <1>2, <1>3, <1>4, <1>5, <1>6, <1>7 DEF Next

\* The inductive invariant holds in every reachable state.
THEOREM Invariance == Spec => []IInv
<1>1. Init => IInv
  BY InitIInv
<1>2. IInv /\ [Next]_vars => IInv'
  BY NextIInv
<1>3. QED
  BY <1>1, <1>2, PTL DEF Spec

\* The tables and the requests keep their types.
THEOREM TypeCorrect == Spec => []TypeOK
<1>1. IInv => TypeOK
  BY DEF IInv
<1>2. QED
  BY <1>1, Invariance, PTL

\* No row is marked expired before its deadline (radius_check, pbx_call,
\* auth_status and cleanup_db each decide on a row read earlier).
THEOREM ExpiredOnlyAfterDeadline == Spec => []ExpiredAfterDeadline
<1>1. IInv => ExpiredAfterDeadline
  BY DEF IInv
<1>2. QED
  BY <1>1, Invariance, PTL

\* A verified row has a guest row and a matched call behind it (pbx_call
\* commits the guest first, wherever it is killed).
THEOREM VerifiedRowsAreBacked == Spec => []VerifiedIsBacked
<1>1. IInv => VerifiedIsBacked
  BY DEF IInv
<1>2. QED
  BY <1>1, Invariance, PTL

\* When pbx_call answers "verified", the guest is authorised from the time of
\* the call or later.
THEOREM MatchedCallRenewsGuest == Spec => []CallRenewsGuest
<1>1. IInv => CallRenewsGuest
  BY DEF IInv
<1>2. QED
  BY <1>1, Invariance, PTL

-----------------------------------------------------------------------------
(* PhoneAuth implements Admission. *)

\* Stamping the guest row of a phone that asked is Authorise.
LEMMA AdmAuthorise ==
  ASSUME NEW p \in Phones, p \in Asked, pending_auth' = pending_auth, clock' = clock,
         guests' = [guests EXCEPT ![p] = clock]
  PROVE  Adm!Next
<1>1. Asked' = Asked
  BY DEF Asked
<1>2. Adm!Authorise(p)
  BY <1>1 DEF Adm!Authorise
<1>3. QED
  BY <1>2 DEF Adm!Next

\* Every step of the requests, the worker and the clock is a step of Admission
\* or a stutter.
LEMMA AdmStep == IInv /\ [Next]_vars => [Adm!Next]_<<clock, Asked, guests>>
<1> SUFFICES ASSUME IInv, [Next]_vars
             PROVE  Adm!Next \/ UNCHANGED <<clock, Asked, guests>>
  OBVIOUS
<1>0. TypeOK /\ RequestsOK /\ GuestsOK
  BY DEF IInv
<1>1. ASSUME pending_auth' = pending_auth PROVE Asked' = Asked
  BY <1>1 DEF Asked
<1>2. ASSUME NEW ids, ExpireRows(ids) PROVE Asked' = Asked
  BY <1>0, <1>2, ExpireRowsEffect DEF Asked
<1>3. CASE \E r \in Requests, p \in Phones, m \in Macs : RadiusCheck(r, p, m)
  BY <1>1, <1>3 DEF RadiusCheck
<1>4. CASE \E r \in Requests, p \in Phones : PbxCall(r, p) \/ AuthStatus(r, p)
  BY <1>1, <1>4 DEF PbxCall, AuthStatus
<1>5. ASSUME NEW r \in Requests, Serve(r)
      PROVE  Adm!Next \/ UNCHANGED <<clock, Asked, guests>>
  <2>0. RequestOK(r)
    BY <1>0 DEF RequestsOK
  <2>1. CASE CheckTouch(r)
    <3>1. req[r].phone \in Phones /\ guests[req[r].phone] # None
      BY <2>0, <2>1 DEF CheckTouch, RequestOK
    <3>2. req[r].phone \in Asked /\ guests' = [guests EXCEPT ![req[r].phone] = clock]
      BY <1>0, <2>1, <3>1 DEF CheckTouch, GuestsOK
    <3> QED
      BY <2>1, <3>1, <3>2, AdmAuthorise DEF CheckTouch
  <2>2. CASE CheckPending(r) \/ CallGuest(r) \/ StatusPending(r)
    BY <1>1, <2>2 DEF CheckPending, CallGuest, StatusPending
  <2>3. CASE CheckCreate(r)
    <3> DEFINE added == [phone |-> req[r].phone, mac |-> req[r].mac, created_at |-> clock,
                         expires_at |-> clock + PendingTtl, status |-> "pending"]
    <3>1. req[r].phone \in Phones /\ added \in PendingRow
      BY <1>0, <2>0, <2>3, PhoneAuthAssumption
         DEF CheckCreate, RequestOK, PendingRow, TypeOK, Time
    <3>2. pending_auth' = Append(pending_auth, added) /\ added.phone = req[r].phone
      BY <2>3 DEF CheckCreate
    <3> HIDE DEF added
    <3>3. pending_auth \in Seq(PendingRow)
      BY <1>0 DEF TypeOK
    <3>4. /\ Ids(pending_auth') = Ids(pending_auth) \cup {Len(pending_auth) + 1}
          /\ pending_auth'[Len(pending_auth) + 1] = added
      BY <3>1, <3>2, <3>3, InsertedRow
    <3>5. ASSUME NEW i \in Ids(pending_auth) PROVE pending_auth'[i] = pending_auth[i]
      BY <3>1, <3>2, <3>3, OtherRowsKept
    <3>6. Asked' = Asked \cup {req[r].phone}
      <4>1. Asked' = {pending_auth'[i].phone : i \in Ids(pending_auth')}
        BY DEF Asked
      <4>2. \A x : x \in Asked' <=> x \in Asked \/ x = req[r].phone
        BY <3>2, <3>4, <3>5, <4>1 DEF Asked
      <4> QED
        BY <4>2
    <3>7. Adm!Ask(req[r].phone)
      BY <2>3, <3>6 DEF CheckCreate, Adm!Ask
    <3> QED
      BY <3>1, <3>7 DEF Adm!Next
  <2>4. CASE CheckExpire(r) \/ CallExpire(r) \/ StatusExpire(r)
    BY <1>2, <2>4 DEF CheckExpire, CallExpire, StatusExpire
  <2>5. CASE CallUpdate(r) \/ CallInsert(r)
    <3>1. req[r].phone \in Phones /\ req[r].phone \in Asked
      BY <2>0, <2>5 DEF CallUpdate, CallInsert, RequestOK, RowPc, Asked
    <3>2. \/ guests' = guests
          \/ guests' = [guests EXCEPT ![req[r].phone] = clock]
      BY <2>5 DEF CallUpdate, CallInsert
    <3>3. clock' = clock /\ pending_auth' = pending_auth
      BY <2>5 DEF CallUpdate, CallInsert
    <3> QED
      BY <1>1, <3>1, <3>2, <3>3, AdmAuthorise
  <2>6. CASE CallVerify(r)
    <3>1. Asked' = Asked
      BY <1>0, <2>6, VerifyRowsEffect DEF Asked
    <3> QED
      BY <2>6, <3>1 DEF CallVerify
  <2> QED
    BY <1>5, <2>1, <2>2, <2>3, <2>4, <2>5, <2>6 DEF Serve
<1>6. CASE \E r \in Requests : CrashRequest(r)
  BY <1>1, <1>6 DEF CrashRequest
<1>7. CASE CleanupRead \/ CleanupExpire \/ CrashCleanup
  BY <1>1, <1>2, <1>7 DEF CleanupRead, CleanupExpire, CrashCleanup
<1>8. CASE Tick
  <2>1. Adm!Tick
    BY <1>1, <1>8 DEF Tick, Adm!Tick
  <2> QED
    BY <2>1 DEF Adm!Next
<1>9. CASE UNCHANGED vars
  BY <1>1, <1>9 DEF vars
<1>10. CASE \E p \in Phones : MacTouch(p)
  BY <1>0, <1>10, AdmAuthorise DEF MacTouch, GuestsOK
<1>11. QED
  BY <1>3, <1>4, <1>5, <1>6, <1>7, <1>8, <1>9, <1>10 DEF Next

\* The requests, the threads and the cleanup worker implement Admission: a
\* number is authorised only after somebody asked access with it, and every
\* authorisation carries the time it was given.
THEOREM PhoneAuthImplementsAdmission == Spec => ImplementsAdmission
<1>1. Init => Adm!Init
  <2> SUFFICES ASSUME Init PROVE Adm!Init
    OBVIOUS
  <2>1. Ids(pending_auth) = {}
    BY EmptySeq DEF Init, Ids
  <2> QED
    BY <2>1 DEF Init, Adm!Init, Asked
<1>2. IInv /\ [Next]_vars => [Adm!Next]_(Adm!avars)
  BY AdmStep DEF Adm!avars
<1>3. QED
  BY <1>1, <1>2, Invariance, PTL DEF Spec, ImplementsAdmission, Adm!Spec

=============================================================================
