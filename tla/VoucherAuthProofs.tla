-------------------------- MODULE VoucherAuthProofs --------------------------
(***************************************************************************)
(* VoucherAuth keeps its invariants for every number of vouchers, devices, *)
(* requests served at once, limits and lifetimes.                          *)
(***************************************************************************)
EXTENDS VoucherAuth, FiniteSetTheorems, TLAPS

\* A request in flight is about a voucher that was created, and goes on to
\* expire it only when it has run out.
RequestOK(r) ==
  vreq[r].pc # "idle" =>
    /\ vreq[r].voucher \in Vouchers /\ vreq[r].mac \in Macs
    /\ vouchers[vreq[r].voucher] # None
    /\ vreq[r].at <= clock
    /\ vreq[r].pc = "expire" => clock > vouchers[vreq[r].voucher].valid_until

\* What a request that goes on to admit the device must have read.
ValidWhenRead(r) ==
  vreq[r].pc \notin {"idle", "expire"} =>
    LET row == vouchers[vreq[r].voucher]
    IN /\ vreq[r].at <= row.valid_until
       /\ row.revoked_at # None => vreq[r].at <= row.revoked_at

\* A revoked voucher is never active again, and no devices belong to codes that
\* were not created.
VoucherOK(v) ==
  /\ vouchers[v] # None =>
       /\ vouchers[v].revoked_at # None => vouchers[v].status # "active"
       /\ vouchers[v].status = "expired" => clock > vouchers[v].valid_until
  /\ vouchers[v] = None => Devices(v) = {}

\* The devices of v and the requests about to add one, against the limit.
Room(v) ==
  vouchers[v] # None =>
    Cardinality(Devices(v)) + Cardinality(Inserting(v))
      <= vouchers[v].max_devices + Cardinality(Requests) - 1

\* The inductive invariant.
IInv ==
  /\ TypeOK
  /\ IsFiniteSet(voucher_devices)
  /\ \A r \in Requests : RequestOK(r) /\ ValidWhenRead(r)
  /\ \A v \in Vouchers : VoucherOK(v) /\ Room(v)

-----------------------------------------------------------------------------
(* What several steps have in common. *)

\* Times can be compared with each other, and None is none.
LEMMA TimesAreNumbers == Time \subseteq Nat /\ None \notin Time
BY VoucherAuthAssumption DEF Time

\* Rows of vouchers stay, with their validity and their limit; a revocation is
\* written with the time of the clock.
RowsKept ==
  \A v \in Vouchers : vouchers[v] # None =>
    /\ vouchers'[v] # None
    /\ vouchers'[v].valid_until = vouchers[v].valid_until
    /\ vouchers'[v].max_devices = vouchers[v].max_devices
    /\ vouchers'[v].revoked_at = vouchers[v].revoked_at \/ vouchers'[v].revoked_at = clock

\* The request stands still, is done, or goes on after it has read the voucher.
GoesOn(r) ==
  \/ vreq'[r] = vreq[r]
  \/ vreq'[r].pc = "idle"
  \/ /\ vreq[r].pc \notin {"idle", "expire"} /\ vreq'[r].pc \notin {"idle", "expire"}
     /\ vreq'[r].voucher = vreq[r].voucher /\ vreq'[r].mac = vreq[r].mac
     /\ vreq'[r].at = vreq[r].at

\* What a request knows of its voucher stays true while the request goes on as it
\* was.
LEMMA RequestKept ==
  ASSUME IInv, TypeOK', clock <= clock', RowsKept, NEW r \in Requests, GoesOn(r)
  PROVE  (RequestOK(r) /\ ValidWhenRead(r))'
<1>1. /\ vreq[r] \in Request /\ vreq'[r] \in Request /\ clock \in Nat /\ clock' \in Nat
      /\ RequestOK(r) /\ ValidWhenRead(r)
  BY TimesAreNumbers DEF IInv, TypeOK
<1>2. CASE vreq'[r].pc = "idle"
  BY <1>2 DEF RequestOK, ValidWhenRead
<1>3. CASE vreq'[r].pc # "idle"
  <2> DEFINE v == vreq[r].voucher
  <2>1. /\ vreq[r].pc # "idle" /\ v \in Vouchers /\ vouchers[v] # None
        /\ vreq'[r].voucher = v /\ vreq'[r].mac = vreq[r].mac /\ vreq'[r].at = vreq[r].at
        /\ vreq'[r].pc = "expire" => vreq[r].pc = "expire"
        /\ vreq'[r].pc # "expire" => vreq[r].pc # "expire"
    BY <1>1, <1>3 DEF GoesOn, RequestOK
  <2>2. /\ vouchers'[v] # None /\ vouchers'[v].valid_until = vouchers[v].valid_until
        /\ vouchers'[v].revoked_at = vouchers[v].revoked_at \/ vouchers'[v].revoked_at = clock
    BY <2>1 DEF RowsKept
  <2>3. vouchers[v] \in Voucher
    BY <2>1 DEF IInv, TypeOK
  <2>4. vreq[r].at \in Nat /\ vouchers[v].valid_until \in Nat
    BY <1>1, <2>3, TimesAreNumbers DEF Request, Voucher
  <2>5. RequestOK(r)'
    BY <1>1, <2>1, <2>2, <2>4 DEF RequestOK
  <2>6. ValidWhenRead(r)'
    BY <1>1, <2>1, <2>2, <2>4 DEF RequestOK, ValidWhenRead
  <2> QED
    BY <2>5, <2>6
<1>4. QED
  BY <1>2, <1>3

\* Numbers of devices and of requests are numbers.
LEMMA CountsAreNumbers ==
  ASSUME IsFiniteSet(voucher_devices), NEW v
  PROVE  /\ IsFiniteSet(Devices(v)) /\ Cardinality(Devices(v)) \in Nat
         /\ IsFiniteSet(Inserting(v)) /\ Cardinality(Inserting(v)) \in Nat
         /\ Cardinality(Requests) \in Nat /\ Cardinality(Inserting(v)) <= Cardinality(Requests)
<1>1. Devices(v) \in SUBSET voucher_devices /\ Inserting(v) \in SUBSET Requests
  BY DEF Devices, Inserting
<1>2. IsFiniteSet(Requests)
  BY VoucherAuthAssumption
<1>3. /\ IsFiniteSet(Devices(v)) /\ IsFiniteSet(Inserting(v))
      /\ Cardinality(Inserting(v)) <= Cardinality(Requests)
  BY <1>1, <1>2, FS_Subset
<1>4. QED
  BY <1>2, <1>3, FS_CardinalityType

\* Fewer devices and fewer requests about to register one.
LEMMA RoomKept ==
  ASSUME IInv, IsFiniteSet(voucher_devices'), RowsKept, NEW v \in Vouchers, vouchers[v] # None,
         Devices(v)' \subseteq Devices(v), Inserting(v)' \subseteq Inserting(v)
  PROVE  Room(v)'
<1>1. /\ Cardinality(Devices(v))' <= Cardinality(Devices(v))
      /\ Cardinality(Inserting(v))' <= Cardinality(Inserting(v))
  <2>1. IsFiniteSet(Devices(v)) /\ IsFiniteSet(Inserting(v))
    BY CountsAreNumbers DEF IInv
  <2> QED
    BY <2>1, FS_Subset
<1>2. /\ Cardinality(Devices(v)) \in Nat /\ Cardinality(Devices(v))' \in Nat
      /\ Cardinality(Inserting(v)) \in Nat /\ Cardinality(Inserting(v))' \in Nat
      /\ Cardinality(Requests) \in Nat
  <2>1. Cardinality(Devices(v)) \in Nat /\ Cardinality(Inserting(v)) \in Nat
        /\ Cardinality(Requests) \in Nat
    BY CountsAreNumbers DEF IInv
  <2>2. IsFiniteSet(Devices(v)') /\ IsFiniteSet(Inserting(v)')
    <3>1. IsFiniteSet(Devices(v)) /\ IsFiniteSet(Inserting(v))
      BY CountsAreNumbers DEF IInv
    <3> QED
      BY <3>1, FS_Subset
  <2> QED
    BY <2>1, <2>2, FS_CardinalityType
<1>3. vouchers[v] \in Voucher /\ vouchers'[v].max_devices = vouchers[v].max_devices
  BY DEF IInv, TypeOK, RowsKept
<1>4. vouchers[v].max_devices \in Nat
  BY <1>3, VoucherAuthAssumption DEF Voucher
<1>5. Cardinality(Devices(v)) + Cardinality(Inserting(v))
        <= vouchers[v].max_devices + Cardinality(Requests) - 1
  BY DEF IInv, Room
<1>6. QED
  BY <1>1, <1>2, <1>3, <1>4, <1>5 DEF Room

-----------------------------------------------------------------------------
(* The steps. *)

\* A step that writes neither vouchers nor devices and lets no request decide to
\* register one.
LEMMA QuietStep ==
  ASSUME IInv, TypeOK', clock <= clock', UNCHANGED <<vouchers, voucher_devices>>,
         \A r \in Requests : GoesOn(r) /\ (vreq'[r].pc = "insert" => vreq'[r] = vreq[r])
  PROVE  IInv'
<1>1. RowsKept
  BY DEF RowsKept
<1>2. \A r \in Requests : (RequestOK(r) /\ ValidWhenRead(r))'
  BY <1>1, RequestKept
<1>3. ASSUME NEW v \in Vouchers PROVE VoucherOK(v)' /\ Room(v)'
  <2>1. Devices(v)' = Devices(v) /\ Inserting(v)' \subseteq Inserting(v)
    BY DEF Devices, Inserting
  <2>2. Room(v)'
    <3>1. CASE vouchers[v] # None
      BY <1>1, <2>1, <3>1, RoomKept DEF IInv
    <3>2. CASE vouchers[v] = None
      BY <3>2 DEF Room
    <3> QED
      BY <3>1, <3>2
  <2>3. VoucherOK(v)'
    <3>1. VoucherOK(v) /\ clock \in Nat /\ clock' \in Nat
      BY TimesAreNumbers DEF IInv, TypeOK
    <3>2. vouchers[v] # None => vouchers[v].valid_until \in Nat
      BY DEF IInv, TypeOK, Voucher
    <3> QED
      BY <2>1, <3>1, <3>2 DEF VoucherOK
  <2> QED
    BY <2>2, <2>3
<1>4. QED
  BY <1>2, <1>3 DEF IInv

\* A request moves on, or ends.
LEMMA MoveStep ==
  ASSUME IInv, UNCHANGED <<clock, vouchers, voucher_devices>>, NEW r \in Requests,
         NEW q \in Request, vreq' = [vreq EXCEPT ![r] = q],
         voucher_guests' \in SUBSET Vouchers, admitted' \in SUBSET (Vouchers \X Macs),
         \/ q = Idle
         \/ /\ vreq[r].pc \notin {"idle", "expire"} /\ q.pc \notin {"idle", "expire", "insert"}
            /\ q.voucher = vreq[r].voucher /\ q.mac = vreq[r].mac /\ q.at = vreq[r].at
  PROVE  IInv'
<1>1. vreq \in [Requests -> Request] /\ vreq' \in [Requests -> Request] /\ clock \in Nat
  BY TimesAreNumbers DEF IInv, TypeOK
<1>2. TypeOK'
  BY <1>1 DEF IInv, TypeOK
<1>3. \A s \in Requests : GoesOn(s) /\ (vreq'[s].pc = "insert" => vreq'[s] = vreq[s])
  <2> TAKE s \in Requests
  <2>1. CASE s # r
    BY <1>1, <2>1 DEF GoesOn
  <2>2. CASE s = r
    BY <1>1, <2>2 DEF GoesOn, Idle
  <2> QED
    BY <2>1, <2>2
<1>4. QED
  BY <1>1, <1>2, <1>3, QuietStep

\* The free slot is typed.
LEMMA IdleIsRequest == Idle \in Request
BY VoucherAuthAssumption DEF Idle, Request, Time

\* Goto(r, pc) as an assignment of the whole request.
LEMMA GotoMoves ==
  ASSUME IInv, NEW r \in Requests, NEW pc \in {"device", "count", "insert", "touch", "guest",
                                               "guest_insert", "session"},
         Goto(r, pc)
  PROVE  \E q \in Request :
           /\ vreq' = [vreq EXCEPT ![r] = q]
           /\ q.pc = pc /\ q.voucher = vreq[r].voucher /\ q.mac = vreq[r].mac /\ q.at = vreq[r].at
<1> DEFINE q == [vreq[r] EXCEPT !.pc = pc]
<1>1. vreq \in [Requests -> Request] /\ vreq[r] \in Request
  BY DEF IInv, TypeOK
<1>2. q \in Request /\ q.pc = pc /\ q.voucher = vreq[r].voucher /\ q.mac = vreq[r].mac
      /\ q.at = vreq[r].at
  BY <1>1 DEF Request
<1>3. vreq' = [vreq EXCEPT ![r] = q]
  BY <1>1 DEF Goto
<1>4. QED
  BY <1>2, <1>3

\* The steps that end in Goto.
LEMMA GotoStep ==
  ASSUME IInv, UNCHANGED <<clock, vouchers, voucher_devices>>, NEW r \in Requests,
         vreq[r].pc \notin {"idle", "expire"},
         NEW pc \in {"device", "count", "touch", "guest", "guest_insert", "session"}, Goto(r, pc),
         voucher_guests' \in SUBSET Vouchers, admitted' \in SUBSET (Vouchers \X Macs)
  PROVE  IInv'
<1>1. PICK q \in Request :
        /\ vreq' = [vreq EXCEPT ![r] = q]
        /\ q.pc = pc /\ q.voucher = vreq[r].voucher /\ q.mac = vreq[r].mac /\ q.at = vreq[r].at
  BY GotoMoves
<1>2. QED
  BY <1>1, MoveStep

\* The steps that answer without a write to vouchers or devices.
LEMMA ReplyStep ==
  ASSUME IInv, UNCHANGED <<clock, vouchers, voucher_devices>>, NEW r \in Requests, Reply(r),
         voucher_guests' \in SUBSET Vouchers, admitted' \in SUBSET (Vouchers \X Macs)
  PROVE  IInv'
BY MoveStep, IdleIsRequest DEF Reply

\* What the typing of the state gives for a request in flight.
LEMMA InFlight ==
  ASSUME IInv, NEW r \in Requests, vreq[r].pc # "idle"
  PROVE  /\ vreq[r].voucher \in Vouchers /\ vreq[r].mac \in Macs
         /\ vouchers[vreq[r].voucher] \in Voucher /\ vouchers[vreq[r].voucher] # None
BY DEF IInv, TypeOK, RequestOK

\* Steps that touch neither vouchers nor the number of devices.
LEMMA SmallSteps ==
  ASSUME IInv, NEW r \in Requests,
         \/ VerifyDevice(r) \/ VerifyTouch(r) \/ VerifyGuest(r) \/ VerifyGuestInsert(r)
         \/ VerifySession(r) \/ CrashRequest(r)
  PROVE  IInv'
<1>0. voucher_guests \in SUBSET Vouchers /\ admitted \in SUBSET (Vouchers \X Macs)
  BY DEF IInv, TypeOK
<1>1. CASE VerifyDevice(r)
  <2>1. \E pc \in {"touch", "count"} : Goto(r, pc)
    BY <1>1 DEF VerifyDevice
  <2> QED
    BY <1>0, <1>1, <2>1, GotoStep DEF VerifyDevice
<1>2. CASE VerifyTouch(r)
  BY <1>0, <1>2, GotoStep DEF VerifyTouch
<1>3. CASE VerifyGuest(r)
  <2>1. \E pc \in {"session", "guest_insert"} : Goto(r, pc)
    BY <1>3 DEF VerifyGuest
  <2> QED
    BY <1>0, <1>3, <2>1, GotoStep DEF VerifyGuest
<1>4. CASE VerifyGuestInsert(r)
  <2>1. vreq[r].pc = "guest_insert" /\ vreq[r].voucher \in Vouchers
    BY <1>4, InFlight DEF VerifyGuestInsert
  <2>2. voucher_guests' \in SUBSET Vouchers /\ admitted' \in SUBSET (Vouchers \X Macs)
    BY <1>0, <1>4, <2>1 DEF VerifyGuestInsert
  <2>3. Goto(r, "session") \/ Reply(r)
    BY <1>4 DEF VerifyGuestInsert
  <2>4. UNCHANGED <<clock, vouchers, voucher_devices>>
    BY <1>4 DEF VerifyGuestInsert
  <2> QED
    BY <2>1, <2>2, <2>3, <2>4, GotoStep, ReplyStep
<1>5. CASE VerifySession(r)
  <2>1. vreq[r].voucher \in Vouchers /\ vreq[r].mac \in Macs
    BY <1>5, InFlight DEF VerifySession
  <2> QED
    BY <1>0, <1>5, <2>1, ReplyStep DEF VerifySession
<1>6. CASE CrashRequest(r)
  BY <1>0, <1>6, ReplyStep DEF CrashRequest
<1>7. QED
  BY <1>1, <1>2, <1>3, <1>4, <1>5, <1>6

\* Time passes.
LEMMA TickStep ==
  ASSUME IInv, Tick
  PROVE  IInv'
<1>1. TypeOK' /\ clock <= clock'
  BY VoucherAuthAssumption DEF IInv, TypeOK, Tick, Time
<1>2. QED
  BY <1>1, QuietStep DEF Tick, GoesOn

\* The request that reads the voucher finds it active, so never revoked.
LEMMA VerifyReadStep ==
  ASSUME IInv, NEW r \in Requests, NEW v \in Vouchers, NEW m \in Macs, VerifyRead(r, v, m)
  PROVE  IInv'
<1> DEFINE q == [pc |-> IF Overdue(v) THEN "expire" ELSE "device",
                 voucher |-> v, mac |-> m, at |-> clock]
<1>1. /\ TypeOK /\ RowsKept /\ clock \in Nat /\ vreq \in [Requests -> Request]
      /\ UNCHANGED <<clock, vouchers, voucher_devices, voucher_guests, admitted>>
      /\ vouchers[v] # None /\ vouchers[v] \in Voucher /\ vouchers[v].status = "active"
      /\ VoucherOK(v)
  BY TimesAreNumbers DEF IInv, TypeOK, VerifyRead, RowsKept
<1>2. q \in Request
  BY <1>1 DEF Request, TypeOK
<1>3. vreq' = [vreq EXCEPT ![r] = q]
  BY DEF VerifyRead
<1>4. q.voucher = v /\ q.mac = m /\ q.at = clock /\ q.pc \in {"expire", "device"}
      /\ (q.pc = "expire" <=> Overdue(v))
  OBVIOUS
<1> HIDE DEF q
<1>5. vreq'[r] = q /\ \A s \in Requests : s # r => vreq'[s] = vreq[s]
  BY <1>1, <1>3
<1>6. TypeOK'
  BY <1>1, <1>2, <1>3 DEF TypeOK
<1>7. vouchers[v].valid_until \in Nat /\ vouchers[v].revoked_at = None
  BY <1>1 DEF Voucher, VoucherOK
<1>8. RequestOK(r)' /\ ValidWhenRead(r)'
  <2>1. RequestOK(r)'
    BY <1>1, <1>4, <1>5, <1>7 DEF RequestOK, Overdue
  <2>2. ValidWhenRead(r)'
    BY <1>1, <1>4, <1>5, <1>7 DEF ValidWhenRead, Overdue
  <2> QED
    BY <2>1, <2>2
<1>9. \A s \in Requests : (RequestOK(s) /\ ValidWhenRead(s))'
  <2> TAKE s \in Requests
  <2>1. CASE s = r
    BY <1>8, <2>1
  <2>2. CASE s # r
    BY <1>1, <1>5, <1>6, <2>2, RequestKept DEF GoesOn
  <2> QED
    BY <2>1, <2>2
<1>10. ASSUME NEW w \in Vouchers PROVE VoucherOK(w)' /\ Room(w)'
  <2>1. Devices(w)' = Devices(w) /\ VoucherOK(w)'
    BY <1>1 DEF Devices, VoucherOK, IInv
  <2>2. Inserting(w)' \subseteq Inserting(w)
    BY <1>4, <1>5 DEF Inserting
  <2>3. CASE vouchers[w] # None
    BY <1>1, <2>1, <2>2, <2>3, RoomKept DEF IInv
  <2>4. CASE vouchers[w] = None
    BY <1>1, <2>1, <2>4 DEF Room
  <2> QED
    BY <2>1, <2>3, <2>4
<1>11. QED
  BY <1>1, <1>6, <1>9, <1>10 DEF IInv

\* A write to the row of one voucher that keeps its validity and its limit.
LEMMA RowStep ==
  ASSUME IInv, UNCHANGED <<clock, voucher_devices, voucher_guests, admitted>>,
         vreq' \in [Requests -> Request],
         \A r \in Requests : vreq'[r] = vreq[r] \/ vreq'[r] = Idle,
         NEW v \in Vouchers, vouchers[v] # None, NEW row \in Voucher,
         vouchers' = [vouchers EXCEPT ![v] = row],
         row.valid_until = vouchers[v].valid_until, row.max_devices = vouchers[v].max_devices,
         row.revoked_at = vouchers[v].revoked_at \/ row.revoked_at = clock,
         row.status # "active",
         row.status = "expired" => clock > row.valid_until
  PROVE  IInv'
<1>1. /\ TypeOK /\ clock \in Nat /\ vouchers \in [Vouchers -> Voucher \cup {None}]
      /\ row # None
  BY TimesAreNumbers, NoVoucherAssumption DEF IInv, TypeOK
<1>2. vouchers'[v] = row /\ \A w \in Vouchers : w # v => vouchers'[w] = vouchers[w]
  BY <1>1
<1>3. TypeOK'
  BY <1>1 DEF TypeOK
<1>4. RowsKept
  <2> SUFFICES ASSUME NEW w \in Vouchers, vouchers[w] # None
               PROVE  /\ vouchers'[w] # None
                      /\ vouchers'[w].valid_until = vouchers[w].valid_until
                      /\ vouchers'[w].max_devices = vouchers[w].max_devices
                      /\ vouchers'[w].revoked_at = vouchers[w].revoked_at
                           \/ vouchers'[w].revoked_at = clock
    BY DEF RowsKept
  <2> QED
    BY <1>1, <1>2
<1>5. \A r \in Requests : GoesOn(r)
  BY DEF GoesOn, Idle
<1>6. \A r \in Requests : (RequestOK(r) /\ ValidWhenRead(r))'
  BY <1>1, <1>3, <1>4, <1>5, RequestKept
<1>7. ASSUME NEW w \in Vouchers PROVE VoucherOK(w)' /\ Room(w)'
  <2>1. Devices(w)' = Devices(w) /\ Inserting(w)' \subseteq Inserting(w)
    BY DEF Devices, Inserting, Idle
  <2>2. VoucherOK(w) /\ Room(w)
    BY DEF IInv
  <2>3. VoucherOK(w)'
    <3>1. CASE w = v
      BY <1>1, <1>2, <3>1 DEF VoucherOK
    <3>2. CASE w # v
      BY <1>2, <2>1, <2>2, <3>2 DEF VoucherOK
    <3> QED
      BY <3>1, <3>2
  <2>4. CASE vouchers[w] # None
    BY <1>4, <2>1, <2>3, <2>4, RoomKept DEF IInv
  <2>5. CASE vouchers[w] = None
    BY <1>2, <2>3, <2>5 DEF Room
  <2> QED
    BY <2>3, <2>4, <2>5
<1>8. QED
  BY <1>3, <1>6, <1>7 DEF IInv

\* The mark is written to whatever the row has become, but time only goes on.
LEMMA VerifyExpireStep ==
  ASSUME IInv, NEW r \in Requests, VerifyExpire(r)
  PROVE  IInv'
<1> DEFINE v == vreq[r].voucher
           row == [vouchers[v] EXCEPT !.status = "expired"]
<1>1. /\ v \in Vouchers /\ vouchers[v] \in Voucher /\ vouchers[v] # None
      /\ clock > vouchers[v].valid_until
  BY InFlight DEF VerifyExpire, IInv, RequestOK
<1>2. /\ vouchers \in [Vouchers -> Voucher \cup {None}] /\ vreq \in [Requests -> Request]
  BY DEF IInv, TypeOK
<1>3. /\ row \in Voucher /\ row.valid_until = vouchers[v].valid_until
      /\ row.max_devices = vouchers[v].max_devices /\ row.revoked_at = vouchers[v].revoked_at
      /\ row.status = "expired"
  BY <1>1 DEF Voucher
<1>4. vouchers' = [vouchers EXCEPT ![v] = row]
  BY <1>1, <1>2 DEF VerifyExpire
<1>5. vreq' \in [Requests -> Request] /\ \A s \in Requests : vreq'[s] = vreq[s] \/ vreq'[s] = Idle
  BY <1>2, IdleIsRequest DEF VerifyExpire, Reply
<1>6. UNCHANGED <<clock, voucher_devices, voucher_guests, admitted>>
  BY DEF VerifyExpire
<1> HIDE DEF row, v
<1>7. QED
  BY <1>1, <1>3, <1>4, <1>5, <1>6, RowStep

\* An administrator revokes a voucher.
LEMMA RevokeStep ==
  ASSUME IInv, NEW v \in Vouchers, Revoke(v)
  PROVE  IInv'
<1> DEFINE row == [vouchers[v] EXCEPT !.status = "revoked", !.revoked_at = clock]
<1>1. /\ vouchers \in [Vouchers -> Voucher \cup {None}] /\ vreq \in [Requests -> Request]
      /\ clock \in Time
  BY DEF IInv, TypeOK
<1>2. vouchers[v] # None /\ vouchers[v] \in Voucher
  BY <1>1 DEF Revoke
<1>3. /\ row \in Voucher /\ row.valid_until = vouchers[v].valid_until
      /\ row.max_devices = vouchers[v].max_devices /\ row.revoked_at = clock
      /\ row.status = "revoked"
  BY <1>1, <1>2 DEF Voucher
<1>4. vouchers' = [vouchers EXCEPT ![v] = row]
  BY <1>1, <1>2 DEF Revoke
<1>5. UNCHANGED <<clock, voucher_devices, voucher_guests, vreq, admitted>>
  BY DEF Revoke
<1> HIDE DEF row
<1>6. QED
  BY <1>1, <1>2, <1>3, <1>4, <1>5, RowStep

\* One more request is about to register a device: there was a free place, and
\* it is one of the requests served.
LEMMA VerifyCountStep ==
  ASSUME IInv, NEW r \in Requests, VerifyCount(r)
  PROVE  IInv'
<1>0. PICK v \in Vouchers : v = vreq[r].voucher
  BY InFlight DEF VerifyCount
<1>1. /\ TypeOK /\ vreq[r].pc = "count" /\ RowsKept
      /\ UNCHANGED <<clock, vouchers, voucher_devices, voucher_guests, admitted>>
      /\ voucher_guests \in SUBSET Vouchers /\ admitted \in SUBSET (Vouchers \X Macs)
      /\ vouchers[v] \in Voucher /\ IsFiniteSet(voucher_devices)
  BY <1>0, InFlight DEF VerifyCount, IInv, TypeOK, RowsKept
<1>2. CASE Reply(r)
  BY <1>1, <1>2, ReplyStep
<1>3. CASE ~ Reply(r)
  <2>1. ~ (Cardinality(Devices(v)) >= vouchers[v].max_devices) /\ Goto(r, "insert")
    BY <1>0, <1>3 DEF VerifyCount
  <2>2. PICK q \in Request :
          /\ vreq' = [vreq EXCEPT ![r] = q]
          /\ q.pc = "insert" /\ q.voucher = v /\ q.mac = vreq[r].mac /\ q.at = vreq[r].at
    BY <1>0, <2>1, GotoMoves
  <2>3. vreq'[r] = q /\ \A s \in Requests : s # r => vreq'[s] = vreq[s]
    BY <1>1, <2>2 DEF TypeOK
  <2>4. TypeOK'
    BY <1>1, <2>2 DEF TypeOK
  <2>5. \A s \in Requests : GoesOn(s)
    BY <1>0, <1>1, <2>2, <2>3 DEF GoesOn
  <2>6. \A s \in Requests : (RequestOK(s) /\ ValidWhenRead(s))'
    <3>1. clock <= clock'
      BY <1>1, TimesAreNumbers DEF TypeOK
    <3> QED
      BY <1>1, <2>4, <2>5, <3>1, RequestKept
  <2>7. ASSUME NEW w \in Vouchers PROVE VoucherOK(w)' /\ Room(w)'
    <3>1. Devices(w)' = Devices(w)
      BY <1>1 DEF Devices
    <3>2. VoucherOK(w)'
      BY <1>1, <3>1 DEF VoucherOK, IInv
    <3>3. Room(w)'
      <4>1. CASE w = v
        <5>1. /\ Cardinality(Devices(v)) \in Nat /\ Cardinality(Requests) \in Nat
              /\ Cardinality(Inserting(v))' \in Nat
              /\ Cardinality(Inserting(v))' <= Cardinality(Requests)
          <6>1. Inserting(v)' \in SUBSET Requests /\ IsFiniteSet(Requests)
            BY VoucherAuthAssumption DEF Inserting
          <6>2. IsFiniteSet(Inserting(v)') /\ Cardinality(Inserting(v)') <= Cardinality(Requests)
            BY <6>1, FS_Subset
          <6> QED
            BY <1>1, <6>1, <6>2, CountsAreNumbers, FS_CardinalityType
        <5>2. vouchers[v].max_devices \in Nat
          BY <1>1, VoucherAuthAssumption DEF Voucher
        <5>3. Cardinality(Devices(v))' = Cardinality(Devices(v)) /\ vouchers' = vouchers
          BY <1>1, <3>1, <4>1
        <5>4. Cardinality(Devices(v))' + Cardinality(Inserting(v))'
                <= vouchers'[v].max_devices + Cardinality(Requests) - 1
          BY <2>1, <5>1, <5>2, <5>3
        <5> QED
          BY <4>1, <5>4 DEF Room
      <4>2. CASE w # v
        <5>1. Inserting(w)' \subseteq Inserting(w)
          BY <2>2, <2>3, <4>2 DEF Inserting
        <5>2. CASE vouchers[w] # None
          BY <1>1, <3>1, <5>1, <5>2, RoomKept
        <5>3. CASE vouchers[w] = None
          BY <1>1, <5>3 DEF Room
        <5> QED
          BY <5>2, <5>3
      <4> QED
        BY <4>1, <4>2
    <3> QED
      BY <3>2, <3>3
  <2>8. QED
    BY <1>1, <2>4, <2>6, <2>7 DEF IInv
<1>4. QED
  BY <1>2, <1>3

\* One device more, one request about to register one less.
LEMMA VerifyInsertStep ==
  ASSUME IInv, NEW r \in Requests, VerifyInsert(r)
  PROVE  IInv'
<1>1. PICK v \in Vouchers, m \in Macs : v = vreq[r].voucher /\ m = vreq[r].mac
  BY InFlight DEF VerifyInsert
<1>2. /\ TypeOK /\ vreq[r].pc = "insert" /\ RowsKept /\ clock \in Nat
      /\ UNCHANGED <<clock, vouchers, voucher_guests, admitted>>
      /\ voucher_guests \in SUBSET Vouchers /\ admitted \in SUBSET (Vouchers \X Macs)
      /\ vouchers[v] # None /\ vouchers[v] \in Voucher /\ IsFiniteSet(voucher_devices)
  BY <1>1, InFlight, TimesAreNumbers DEF VerifyInsert, IInv, TypeOK, RowsKept
<1>3. CASE <<v, m>> \in voucher_devices
  BY <1>1, <1>2, <1>3, ReplyStep DEF VerifyInsert
<1>4. CASE <<v, m>> \notin voucher_devices
  <2>1. voucher_devices' = voucher_devices \cup {<<v, m>>} /\ Goto(r, "guest")
    BY <1>1, <1>4 DEF VerifyInsert
  <2>2. PICK q \in Request :
          /\ vreq' = [vreq EXCEPT ![r] = q]
          /\ q.pc = "guest" /\ q.voucher = v /\ q.mac = m /\ q.at = vreq[r].at
    BY <1>1, <2>1, GotoMoves
  <2>3. vreq'[r] = q /\ \A s \in Requests : s # r => vreq'[s] = vreq[s]
    BY <1>2, <2>2 DEF TypeOK
  <2>4. TypeOK' /\ IsFiniteSet(voucher_devices')
    <3>1. IsFiniteSet(voucher_devices')
      BY <1>2, <2>1, FS_AddElement
    <3>2. /\ voucher_devices' \in SUBSET (Vouchers \X Macs)
          /\ vreq' \in [Requests -> Request]
      BY <1>2, <2>1, <2>2 DEF TypeOK
    <3> QED
      BY <1>2, <3>1, <3>2 DEF TypeOK
  <2>5. \A s \in Requests : GoesOn(s)
    BY <1>1, <1>2, <2>2, <2>3 DEF GoesOn
  <2>6. \A s \in Requests : (RequestOK(s) /\ ValidWhenRead(s))'
    BY <1>2, <2>4, <2>5, RequestKept
  <2>7. ASSUME NEW w \in Vouchers PROVE VoucherOK(w)' /\ Room(w)'
    <3>1. CASE w = v
      <4>1. VoucherOK(v)'
        BY <1>2 DEF VoucherOK, IInv
      <4>2. Devices(v)' = Devices(v) \cup {<<v, m>>} /\ <<v, m>> \notin Devices(v)
        BY <1>4, <2>1 DEF Devices
      <4>3. Inserting(v)' = Inserting(v) \ {r} /\ r \in Inserting(v)
        BY <1>1, <1>2, <2>2, <2>3 DEF Inserting
      <4>4. /\ IsFiniteSet(Devices(v)) /\ IsFiniteSet(Inserting(v))
            /\ Cardinality(Devices(v)) \in Nat /\ Cardinality(Inserting(v)) \in Nat
            /\ Cardinality(Requests) \in Nat
        BY <1>2, CountsAreNumbers
      <4>5. Cardinality(Devices(v))' = Cardinality(Devices(v)) + 1
        BY <4>2, <4>4, FS_AddElement
      <4>6. Cardinality(Inserting(v))' = Cardinality(Inserting(v)) - 1
        BY <4>3, <4>4, FS_RemoveElement
      <4>7. Cardinality(Devices(v)) + Cardinality(Inserting(v))
              <= vouchers[v].max_devices + Cardinality(Requests) - 1
        BY <1>2 DEF IInv, Room
      <4>8. vouchers[v].max_devices \in Nat
        BY <1>2, VoucherAuthAssumption DEF Voucher
      <4>9. Cardinality(Devices(v))' + Cardinality(Inserting(v))'
              <= vouchers'[v].max_devices + Cardinality(Requests) - 1
        BY <1>2, <4>4, <4>5, <4>6, <4>7, <4>8
      <4>10. Room(v)'
        BY <4>9 DEF Room
      <4> QED
        BY <3>1, <4>1, <4>10
    <3>2. CASE w # v
      <4>1. Devices(w)' = Devices(w)
        BY <2>1, <3>2 DEF Devices
      <4>2. Inserting(w)' \subseteq Inserting(w)
        BY <2>2, <2>3 DEF Inserting
      <4>3. VoucherOK(w)'
        BY <1>2, <4>1 DEF VoucherOK, IInv
      <4>4. Room(w)'
        <5>1. CASE vouchers[w] # None
          BY <1>2, <2>4, <4>1, <4>2, <5>1, RoomKept
        <5>2. CASE vouchers[w] = None
          BY <1>2, <5>2 DEF Room
        <5> QED
          BY <5>1, <5>2
      <4> QED
        BY <4>3, <4>4
    <3> QED
      BY <3>1, <3>2
  <2>8. QED
    BY <2>4, <2>6, <2>7 DEF IInv
<1>5. QED
  BY <1>3, <1>4

\* An administrator removes a device.
LEMMA RemoveDeviceStep ==
  ASSUME IInv, NEW v \in Vouchers, NEW m \in Macs, RemoveDevice(v, m)
  PROVE  IInv'
<1>1. /\ TypeOK' /\ RowsKept /\ clock <= clock' /\ IsFiniteSet(voucher_devices')
      /\ UNCHANGED <<clock, vouchers, voucher_guests, vreq, admitted>>
  BY TimesAreNumbers, FS_RemoveElement DEF RemoveDevice, IInv, TypeOK, RowsKept
<1>2. \A s \in Requests : (RequestOK(s) /\ ValidWhenRead(s))'
  BY <1>1, RequestKept DEF GoesOn
<1>3. ASSUME NEW w \in Vouchers PROVE VoucherOK(w)' /\ Room(w)'
  <2>1. Devices(w)' \subseteq Devices(w) /\ Inserting(w)' = Inserting(w)
    BY <1>1 DEF RemoveDevice, Devices, Inserting
  <2>2. VoucherOK(w)'
    BY <1>1, <2>1 DEF VoucherOK, IInv
  <2>3. CASE vouchers[w] # None
    BY <1>1, <2>1, <2>2, <2>3, RoomKept
  <2>4. CASE vouchers[w] = None
    BY <1>1, <2>2, <2>4 DEF Room
  <2> QED
    BY <2>3, <2>4
<1>4. QED
  BY <1>1, <1>2, <1>3 DEF IInv

\* A new voucher has no devices, and no request is about it.
LEMMA CreateVoucherStep ==
  ASSUME IInv, NEW v \in Vouchers, NEW limit \in Limits, NEW days \in Lifetimes,
         CreateVoucher(v, limit, days)
  PROVE  IInv'
<1> DEFINE row == [status |-> "active", max_devices |-> limit,
                   valid_until |-> clock + days, revoked_at |-> None]
<1>1. /\ TypeOK /\ clock \in Nat /\ vouchers[v] = None /\ IsFiniteSet(voucher_devices)
      /\ vouchers \in [Vouchers -> Voucher \cup {None}]
      /\ UNCHANGED <<clock, voucher_devices, voucher_guests, vreq, admitted>>
      /\ vouchers' = [vouchers EXCEPT ![v] = row]
  BY TimesAreNumbers DEF IInv, TypeOK, CreateVoucher
<1>2. limit \in Nat /\ limit # 0 /\ days \in Nat
  BY VoucherAuthAssumption
<1>3. /\ row \in Voucher /\ row.max_devices = limit /\ row.status = "active"
      /\ row.revoked_at = None
  BY <1>1, <1>2 DEF Voucher
<1> HIDE DEF row
<1>4. TypeOK' /\ clock <= clock'
  BY <1>1, <1>3 DEF TypeOK
<1>5. vouchers'[v] = row /\ \A w \in Vouchers : w # v => vouchers'[w] = vouchers[w]
  BY <1>1
<1>6. RowsKept
  BY <1>1, <1>5 DEF RowsKept
<1>7. \A s \in Requests : (RequestOK(s) /\ ValidWhenRead(s))'
  BY <1>1, <1>4, <1>6, RequestKept DEF GoesOn
<1>8. ASSUME NEW w \in Vouchers PROVE VoucherOK(w)' /\ Room(w)'
  <2>1. Devices(w)' = Devices(w) /\ Inserting(w)' = Inserting(w)
    BY <1>1 DEF Devices, Inserting
  <2>2. CASE w = v
    <3>1. Devices(v)' = {} /\ Inserting(v)' = {}
      <4>1. Devices(v) = {}
        BY <1>1 DEF IInv, VoucherOK
      <4>2. Inserting(v) = {}
        BY <1>1 DEF IInv, RequestOK, Inserting
      <4> QED
        BY <2>1, <2>2, <4>1, <4>2
    <3>2. VoucherOK(v)'
      BY <1>3, <1>5, <3>1 DEF VoucherOK
    <3>3. Cardinality(Devices(v))' = 0 /\ Cardinality(Inserting(v))' = 0
          /\ Cardinality(Requests) \in Nat
      BY <1>1, <3>1, FS_EmptySet, CountsAreNumbers
    <3>4. Room(v)'
      BY <1>2, <1>3, <1>5, <3>3 DEF Room
    <3> QED
      BY <2>2, <3>2, <3>4
  <2>3. CASE w # v
    <3>1. VoucherOK(w)'
      BY <1>1, <1>5, <2>1, <2>3 DEF VoucherOK, IInv
    <3>2. Room(w)'
      BY <1>1, <1>5, <2>1, <2>3 DEF Room, IInv
    <3> QED
      BY <3>1, <3>2
  <2> QED
    BY <2>2, <2>3
<1>9. QED
  BY <1>1, <1>4, <1>7, <1>8 DEF IInv

-----------------------------------------------------------------------------
(* The theorems. *)

\* The invariant holds at first.
LEMMA InitIInv == Init => IInv
<1> SUFFICES ASSUME Init PROVE IInv
  OBVIOUS
<1>1. TypeOK /\ IsFiniteSet(voucher_devices)
  BY VoucherAuthAssumption, IdleIsRequest, FS_EmptySet DEF Init, TypeOK, Time
<1>2. \A r \in Requests : RequestOK(r) /\ ValidWhenRead(r)
  BY DEF Init, RequestOK, ValidWhenRead, Idle
<1>3. \A v \in Vouchers : VoucherOK(v) /\ Room(v)
  BY DEF Init, VoucherOK, Room, Devices
<1>4. QED
  BY <1>1, <1>2, <1>3 DEF IInv

\* Every step keeps the inductive invariant.
LEMMA NextIInv == IInv /\ [Next]_vvars => IInv'
<1> SUFFICES ASSUME IInv, [Next]_vvars PROVE IInv'
  OBVIOUS
<1>1. CASE \E r \in Requests : Verify(r) \/ VerifySession(r)
  <2> PICK r \in Requests : Verify(r) \/ VerifySession(r)
    BY <1>1
  <2>1. CASE \E v \in Vouchers, m \in Macs : VerifyRead(r, v, m)
    BY <2>1, VerifyReadStep
  <2>2. CASE VerifyExpire(r) \/ VerifyCount(r) \/ VerifyInsert(r)
    BY <2>2, VerifyExpireStep, VerifyCountStep, VerifyInsertStep
  <2>3. CASE VerifyDevice(r) \/ VerifyTouch(r) \/ VerifyGuest(r) \/ VerifyGuestInsert(r)
             \/ VerifySession(r) \/ CrashRequest(r)
    BY <2>3, SmallSteps
  <2> QED
    BY <2>1, <2>2, <2>3 DEF Verify
<1>2. CASE \E v \in Vouchers : Manage(v)
  <2> PICK v \in Vouchers : Manage(v)
    BY <1>2
  <2> QED
    BY CreateVoucherStep, RevokeStep, RemoveDeviceStep DEF Manage
<1>3. CASE Tick
  BY <1>3, TickStep
<1>4. CASE UNCHANGED vvars
  <2>1. TypeOK' /\ clock <= clock'
    BY <1>4, TimesAreNumbers DEF IInv, TypeOK, vvars
  <2> QED
    BY <1>4, <2>1, QuietStep DEF GoesOn, vvars
<1>5. QED
  BY <1>1, <1>2, <1>3, <1>4 DEF Next

\* The inductive invariant holds in every reachable state.
THEOREM Invariance == Spec => []IInv
<1>1. Init => IInv
  BY InitIInv
<1>2. IInv /\ [Next]_vvars => IInv'
  BY NextIInv
<1>3. QED
  BY <1>1, <1>2, PTL DEF Spec

\* The variables keep their types.
THEOREM TypeCorrect == Spec => []TypeOK
<1>1. IInv => TypeOK
  BY DEF IInv
<1>2. QED
  BY <1>1, Invariance, PTL

\* However many requests race for the places of a voucher, they pass max_devices
\* by less than their number.
THEOREM DevicesAreBounded == Spec => []OvershootIsBounded
<1>1. IInv => OvershootIsBounded
  BY DEF IInv, Room, OvershootIsBounded
<1>2. QED
  BY <1>1, Invariance, PTL

\* The mark "expired" is only ever found on a voucher that has run out.
THEOREM ExpiredMeansOver == Spec => []ExpiredAfterValidity
<1>1. IInv => ExpiredAfterValidity
  BY DEF IInv, VoucherOK, ExpiredAfterValidity
<1>2. QED
  BY <1>1, Invariance, PTL

\* Every request that goes on to a device or a session read a voucher in force.
THEOREM AdmittedWhileValid == Spec => []InFlightWasValid
<1>1. IInv => InFlightWasValid
  BY DEF IInv, RequestOK, ValidWhenRead, InFlightWasValid
<1>2. QED
  BY <1>1, Invariance, PTL

=============================================================================
