----------------------------- MODULE PortalProofs -----------------------------
(***************************************************************************)
(* Sessions keeps its invariants for every number of guests, devices,      *)
(* sessions of the NAS and requests served at once, in whatever order and  *)
(* however often the reports of the NAS arrive.  And Portal behaves, on    *)
(* its two halves, as Sessions and as VoucherAuth: what is proved of each  *)
(* of them alone holds of the two together.                                *)
(***************************************************************************)
EXTENDS Portal, TablesProofs


\* x was given a session under its own name on the device m.
Admitted(x, m, gr) == <<x, m>> \in gr

\* The table t names a guest of the device m.
Known(t, m) == \E i \in Ids(t) : t[i].mac = m /\ t[i].guest_id # None

\* What holds of every row, whoever wrote it last, when gr were given sessions
\* and n is what the NAS knows.
RowFits(row, gr, n) ==
  /\ row.status = "active" <=> row.ended_at = None
  /\ row.guest_id # None => Admitted(row.guest_id, row.mac, gr)
  /\ row.acct_session_id # None =>
       /\ n[row.acct_session_id] # None
       /\ n[row.acct_session_id].mac = row.mac

UniqueAccts(t) ==
  \A i, j \in Ids(t) :
    t[i].acct_session_id # None /\ t[i].acct_session_id = t[j].acct_session_id => i = j

TableFits(t, gr, n) ==
  /\ t \in Seq(Session)
  /\ \A i \in Ids(t) : RowFits(t[i], gr, n) /\ Known(t, t[i].mac)
  /\ UniqueAccts(t)

\* A request in flight was made by a guest under its own name, or by the device
\* of a guest admitted on it before; the session it read is of its device, and
\* once the session is committed the portal can name a guest of the device.
RequestOK(r) ==
  req[r].pc # "idle" =>
    /\ req[r].who \in Identity /\ req[r].user \in UserName /\ req[r].mac \in Macs
    /\ \/ req[r].user = Typed(req[r].who)
       \/ req[r].user = req[r].mac /\ Admitted(req[r].who, req[r].mac, granted)
    /\ req[r].pc = "update" =>
         req[r].row \in SessionIds /\ guest_sessions[req[r].row].mac = req[r].mac
    /\ req[r].pc = "reply" =>
         Admitted(req[r].who, req[r].mac, granted) /\ Known(guest_sessions, req[r].mac)

RequestsOK == \A r \in Requests : RequestOK(r)

\* A device is admitted under the name of its guest or under its own, the guest
\* had a session on it, and the portal can name a guest of it.
AcceptedOK ==
  \A ok \in accepted :
    /\ ok.user = Typed(ok.who) \/ ok.user = ok.mac
    /\ Admitted(ok.who, ok.mac, granted)
    /\ Known(guest_sessions, ok.mac)

\* The NAS reports on devices that were admitted.
NasOK ==
  \A a \in Accts : nas[a] # None =>
    \E ok \in accepted : ok.user = nas[a].user /\ ok.mac = nas[a].mac

\* The inductive invariant.  A Start writes the device it names into the row it
\* finds by number, so the properties rest on the number of a row belonging to
\* the row's own device (RowFits), and a request writes to the row it read some
\* steps ago, so that row must stay of its device (RequestOK).  Whom a row names
\* must have been granted a session before the reply, since a Start may take the
\* name from an accept (AcceptedOK).
IInv ==
  /\ TypeOK
  /\ TableFits(guest_sessions, granted, nas)
  /\ RequestsOK
  /\ AcceptedOK
  /\ NasOK

-----------------------------------------------------------------------------
(* The queries. *)

\* The clock and the times of rows are numbers.
LEMMA TimesAreNumbers == Time \subseteq Nat /\ None \notin Time
BY SessionsAssumption DEF Time

\* The rows of a table have the columns of a session.
LEMMA RowsTyped ==
  ASSUME NEW t \in Seq(Session), NEW i \in Ids(t)
  PROVE  t[i] \in Session
BY ElementOfSeq DEF Ids

\* The row an ORDER BY last_seen_at puts first is one of those selected.
LEMMA LatestSeenIsSelected ==
  ASSUME TypeOK, NEW ids \in SUBSET SessionIds, ids # {}
  PROVE  LatestSeen(ids) \in ids
<1> DEFINE seen == [i \in ids |-> guest_sessions[i].last_seen_at]
           first == {i \in ids : \A j \in ids :
                       guest_sessions[j].last_seen_at <= guest_sessions[i].last_seen_at}
<1>1. \A i \in ids : seen[i] \in 0 .. MaxNow
  BY RowsTyped DEF TypeOK, SessionIds, Session, Time
<1>2. \E i \in ids : \A j \in ids : seen[j] <= seen[i]
  <2> HIDE DEF seen
  <2> QED
    BY <1>1, GreatestExists, SessionsAssumption
<1>3. first \in SUBSET ids /\ first # {}
  BY <1>2
<1>4. Len(guest_sessions) \in Nat /\ ids \subseteq 1 .. Len(guest_sessions)
  BY LenProperties DEF TypeOK, SessionIds, Ids
<1>5. Newest(first) \in first
  <2> HIDE DEF first
  <2> QED
    BY <1>3, <1>4, NewestIsSelected
<1>6. QED
  BY <1>3, <1>5 DEF LatestSeen

\* get_open_session answers with an open session of the device, if there is one.
LEMMA OpenSessionIsOpen ==
  ASSUME TypeOK, NEW who, NEW m, OpenSessions(m) # {}
  PROVE  /\ OpenSession(who, m) \in SessionIds
         /\ guest_sessions[OpenSession(who, m)].mac = m
<1> DEFINE open == OpenSessions(m)
           OfPhone(i) == guest_sessions[i].phone = who
           active == IF \E i \in open : Active(i) THEN {i \in open : Active(i)} ELSE open
           best == IF \E i \in active : OfPhone(i) THEN {i \in active : OfPhone(i)} ELSE active
<1>1. open \subseteq SessionIds /\ \A i \in open : guest_sessions[i].mac = m
  BY DEF OpenSessions
<1>2. best \in SUBSET open /\ best # {}
  <2> HIDE DEF open
  <2>1. active \subseteq open /\ active # {}
    <3>1. CASE \E i \in open : Active(i)
      BY <3>1
    <3>2. CASE ~ \E i \in open : Active(i)
      BY <3>2 DEF open
    <3> QED
      BY <3>1, <3>2
  <2> HIDE DEF active
  <2> QED
    BY <2>1
<1>3. OpenSession(who, m) = LatestSeen(best)
  BY DEF OpenSession, Prefer
<1>4. LatestSeen(best) \in best
  <2> HIDE DEF best
  <2> QED
    BY <1>1, <1>2, LatestSeenIsSelected
<1>5. QED
  <2> HIDE DEF best, open
  <2> QED
    BY <1>1, <1>2, <1>3, <1>4

-----------------------------------------------------------------------------
(* The writes, as functions from tables to tables. *)

\* More sessions granted and more sessions of the NAS take nothing from a row.
LEMMA FitsWithMore ==
  ASSUME NEW t, NEW gr, NEW n, NEW gr2, NEW n2, TableFits(t, gr, n), gr \subseteq gr2,
         \A i \in Ids(t) : t[i].acct_session_id \in Accts \cup {None},
         \A a \in Accts : n[a] # None => n2[a] # None /\ n2[a].mac = n[a].mac
  PROVE  TableFits(t, gr2, n2)
<1>1. ASSUME NEW i \in Ids(t) PROVE RowFits(t[i], gr2, n2)
  BY <1>1 DEF TableFits, RowFits, Admitted
<1>2. QED
  BY <1>1 DEF TableFits

\* A device that can be named still can when rows are added, and rows that keep
\* their device and their guest are of devices as well known as before.
LEMMA KnownWithMore ==
  ASSUME NEW t, NEW u, Ids(t) \subseteq Ids(u),
         \A i \in Ids(t) : u[i].mac = t[i].mac /\ u[i].guest_id = t[i].guest_id,
         NEW m, Known(t, m)
  PROVE  Known(u, m)
<1>1. PICK j \in Ids(t) : t[j].mac = m /\ t[j].guest_id # None
  BY DEF Known
<1>2. j \in Ids(u) /\ u[j].mac = m /\ u[j].guest_id # None
  BY <1>1
<1>3. QED
  BY <1>2 DEF Known

\* An UPDATE that leaves guest, device and number alone and keeps status and
\* ended_at in agreement.
LEMMA UpdateFits ==
  ASSUME NEW t, NEW gr, NEW n, TableFits(t, gr, n), NEW u \in [Ids(t) -> Session],
         \A i \in Ids(t) :
           /\ u[i].guest_id = t[i].guest_id /\ u[i].mac = t[i].mac
           /\ u[i].acct_session_id = t[i].acct_session_id
           /\ u[i].status = "active" <=> u[i].ended_at = None
  PROVE  TableFits(u, gr, n) /\ Ids(u) = Ids(t)
<1>1. u \in Seq(Session) /\ Ids(u) = Ids(t)
  BY UpdatedTable DEF TableFits
<1>2. ASSUME NEW i \in Ids(u) PROVE RowFits(u[i], gr, n)
  <2>1. i \in Ids(t) /\ RowFits(t[i], gr, n)
    BY <1>1 DEF TableFits
  <2> QED
    BY <2>1 DEF RowFits
<1>3. UniqueAccts(u)
  BY <1>1 DEF TableFits, UniqueAccts
<1>4. ASSUME NEW i \in Ids(u) PROVE Known(u, u[i].mac)
  <2>1. i \in Ids(t) /\ u[i].mac = t[i].mac /\ Known(t, t[i].mac)
    BY <1>1 DEF TableFits
  <2>2. /\ Ids(t) \subseteq Ids(u)
        /\ \A j \in Ids(t) : u[j].mac = t[j].mac /\ u[j].guest_id = t[j].guest_id
    BY <1>1
  <2> QED
    BY <2>1, <2>2, KnownWithMore
<1>5. QED
  BY <1>1, <1>2, <1>3, <1>4 DEF TableFits

\* An INSERT of a row whose number no other row carries, with its guest or for a
\* device the table can name one of.
LEMMA InsertFits ==
  ASSUME NEW t, NEW gr, NEW n, TableFits(t, gr, n), NEW row \in Session, RowFits(row, gr, n),
         row.guest_id # None \/ Known(t, row.mac),
         row.acct_session_id # None =>
           \A i \in Ids(t) : t[i].acct_session_id # row.acct_session_id
  PROVE  /\ TableFits(Append(t, row), gr, n)
         /\ Ids(t) \subseteq Ids(Append(t, row))
         /\ \A i \in Ids(t) : Append(t, row)[i] = t[i]
         /\ Len(t) + 1 \in Ids(Append(t, row)) /\ Append(t, row)[Len(t) + 1] = row
<1> DEFINE u == Append(t, row)
<1>0. t \in Seq(Session)
  BY DEF TableFits
<1>1. /\ u \in Seq(Session) /\ Ids(t) \subseteq Ids(u)
      /\ Ids(u) = Ids(t) \cup {Len(t) + 1} /\ u[Len(t) + 1] = row
  BY <1>0, InsertedRow
<1>2. \A i \in Ids(t) : u[i] = t[i]
  <2> TAKE i \in Ids(t)
  <2> QED
    BY <1>0, OtherRowsKept
<1>3. TableFits(u, gr, n)
  <2> HIDE DEF u
  <2>1. \A i \in Ids(u) : RowFits(u[i], gr, n)
    BY <1>1, <1>2 DEF TableFits
  <2>2. UniqueAccts(u)
    BY <1>1, <1>2 DEF TableFits, UniqueAccts
  <2>3. ASSUME NEW i \in Ids(u) PROVE Known(u, u[i].mac)
    <3>1. /\ Ids(t) \subseteq Ids(u)
          /\ \A j \in Ids(t) : u[j].mac = t[j].mac /\ u[j].guest_id = t[j].guest_id
      BY <1>1, <1>2
    <3>2. CASE i \in Ids(t)
      BY <1>2, <3>1, <3>2, KnownWithMore DEF TableFits
    <3>3. CASE i = Len(t) + 1 /\ row.guest_id # None
      BY <1>1, <3>3 DEF Known
    <3>4. CASE i = Len(t) + 1 /\ Known(t, row.mac)
      BY <1>1, <3>1, <3>4, KnownWithMore
    <3> QED
      BY <1>1, <3>2, <3>3, <3>4
  <2> QED
    BY <1>1, <2>1, <2>2, <2>3 DEF TableFits
<1>4. QED
  BY <1>1, <1>2, <1>3

\* A report that the NAS has sent.
ReportOK(ev) ==
  /\ ev.acct \in Accts /\ ev.user \in UserName /\ ev.mac \in Macs /\ ev.at \in Time
  /\ nas[ev.acct] # None /\ nas[ev.acct].mac = ev.mac
  /\ \E ok \in accepted : ok.user = ev.user /\ ok.mac = ev.mac

\* Whatever the NAS reports is of a session it was given for an accept.
LEMMA ReportsAreOK ==
  ASSUME IInv, NEW a \in Accts,
         NEW ev \in StartReports(a) \cup InterimReports(a) \cup StopReports(a)
  PROVE  ReportOK(ev)
<1>1. nas[a] # None /\ \E t : ev = Report(a, t)
  BY DEF StartReports, InterimReports, StopReports
<1>2. nas[a] \in NasSession
  BY <1>1 DEF IInv, TypeOK
<1>3. PICK t : ev = Report(a, t)
  BY <1>1
<1>4. t \in Time
  <2>1. CASE ev \in StartReports(a)
    BY <1>2, <1>3, <2>1 DEF StartReports, Report, NasSession
  <2>2. CASE ev \in InterimReports(a)
    <3>1. PICK u \in nas[a].start .. (IF nas[a].stop = None THEN clock ELSE nas[a].stop) :
            ev = Report(a, u)
      BY <1>1, <2>2 DEF InterimReports
    <3>2. u = t
      BY <1>3, <3>1 DEF Report
    <3>3. nas[a].start \in Time /\ clock \in Time /\ nas[a].stop \in Time \cup {None}
      BY <1>2 DEF NasSession, IInv, TypeOK
    <3> QED
      BY <3>1, <3>2, <3>3, SessionsAssumption DEF Time
  <2>3. CASE ev \in StopReports(a)
    BY <1>2, <1>3, <2>3 DEF StopReports, Report, NasSession
  <2> QED
    BY <2>1, <2>2, <2>3
<1>5. QED
  BY <1>1, <1>2, <1>3, <1>4 DEF ReportOK, Report, NasSession, IInv, NasOK

\* Rows are never removed and stay with their device and their guest.
Kept(t, u) ==
  /\ Ids(t) \subseteq Ids(u)
  /\ \A i \in Ids(t) : u[i].mac = t[i].mac /\ u[i].guest_id = t[i].guest_id

\* An Interim-Update leaves a table that fits.
LEMMA InterimFits ==
  ASSUME IInv, NEW ev, ReportOK(ev)
  PROVE  /\ TableFits(AfterInterim(guest_sessions, ev), granted, nas)
         /\ Kept(guest_sessions, AfterInterim(guest_sessions, ev))
<1> DEFINE t == guest_sessions
           u == AfterInterim(t, ev)
           ids == {i \in Ids(t) : /\ t[i].acct_session_id = ev.acct
                                  /\ t[i].status = "active" /\ t[i].ended_at = None
                                  /\ t[i].last_seen_at + InterimGap <= ev.at}
<1>1. TableFits(t, granted, nas) /\ t \in Seq(Session)
  BY DEF IInv, TypeOK
<1>2. \A i \in Ids(t) : t[i] \in Session /\ (t[i].status = "active" <=> t[i].ended_at = None)
  BY <1>1, RowsTyped DEF TableFits, RowFits
<1>3. u = [i \in Ids(t) |-> IF i \in ids THEN [t[i] EXCEPT !.last_seen_at = ev.at] ELSE t[i]]
  BY DEF AfterInterim, UpdateWhere
<1>4. /\ u \in [Ids(t) -> Session]
      /\ \A i \in Ids(t) :
           /\ u[i].guest_id = t[i].guest_id /\ u[i].mac = t[i].mac
           /\ u[i].acct_session_id = t[i].acct_session_id
           /\ u[i].status = "active" <=> u[i].ended_at = None
  <2> HIDE DEF u, ids, t
  <2> QED
    BY <1>2, <1>3 DEF ReportOK, Session
<1>5. TableFits(u, granted, nas) /\ Ids(u) = Ids(t)
  <2> HIDE DEF u, t
  <2> QED
    BY <1>1, <1>4, UpdateFits
<1>6. QED
  BY <1>4, <1>5 DEF Kept

\* A Stop, matched by number or by device, leaves a table that fits.
LEMMA StopFits ==
  ASSUME IInv, NEW ev, ReportOK(ev)
  PROVE  /\ TableFits(AfterStop(guest_sessions, ev), granted, nas)
         /\ Kept(guest_sessions, AfterStop(guest_sessions, ev))
<1> DEFINE t == guest_sessions
           u == AfterStop(t, ev)
           byAcct == {i \in Ids(t) : t[i].acct_session_id = ev.acct /\ t[i].status = "active"}
           onMac == {i \in Ids(t) : t[i].mac = ev.mac /\ t[i].status = "active"}
           ids == IF byAcct # {} THEN byAcct ELSE onMac
<1>1. TableFits(t, granted, nas) /\ t \in Seq(Session)
  BY DEF IInv, TypeOK
<1>2. \A i \in Ids(t) : t[i] \in Session /\ (t[i].status = "active" <=> t[i].ended_at = None)
  BY <1>1, RowsTyped DEF TableFits, RowFits
<1>3. u = [i \in Ids(t) |-> IF i \in ids
                            THEN [t[i] EXCEPT !.status = "closed", !.ended_at = ev.at,
                                              !.last_seen_at = ev.at]
                            ELSE t[i]]
  BY DEF AfterStop, UpdateWhere
<1>4. /\ u \in [Ids(t) -> Session]
      /\ \A i \in Ids(t) :
           /\ u[i].guest_id = t[i].guest_id /\ u[i].mac = t[i].mac
           /\ u[i].acct_session_id = t[i].acct_session_id
           /\ u[i].status = "active" <=> u[i].ended_at = None
  <2> HIDE DEF u, ids, t
  <2> QED
    BY <1>2, <1>3, TimesAreNumbers DEF ReportOK, Session
<1>5. TableFits(u, granted, nas) /\ Ids(u) = Ids(t)
  <2> HIDE DEF u, t
  <2> QED
    BY <1>1, <1>4, UpdateFits
<1>6. QED
  BY <1>4, <1>5 DEF Kept

\* The row a Start updates is of the device the Start names, and when another
\* row carries the number there is no choice.
LEMMA StartTargetFits ==
  ASSUME IInv, NEW ev, ReportOK(ev), NEW i \in StartTarget(guest_sessions, ev)
  PROVE  /\ i \in SessionIds /\ guest_sessions[i].mac = ev.mac
         /\ StartTarget(guest_sessions, ev) = {i}
         /\ \A j \in SessionIds : guest_sessions[j].acct_session_id = ev.acct => j = i
<1> DEFINE t == guest_sessions
           byAcct == {j \in Ids(t) : t[j].acct_session_id = ev.acct}
           onMac == {j \in Ids(t) : /\ t[j].mac = ev.mac
                                    /\ t[j].status = "active" /\ t[j].ended_at = None}
           byUser == {j \in onMac : t[j].phone = ev.user}
<1>1. /\ TypeOK /\ Len(t) \in Nat /\ UniqueAccts(t)
      /\ \A j \in Ids(t) : RowFits(t[j], granted, nas)
  BY LenProperties DEF IInv, TypeOK, TableFits
<1>2. ev.acct \in Accts /\ ev.acct # None /\ nas[ev.acct].mac = ev.mac
  BY SessionsAssumption DEF ReportOK
<1>3. \A ids \in SUBSET Ids(t) : ids # {} => Newest(ids) \in ids
  BY <1>1, NewestIsSelected DEF Ids
<1>4. StartTarget(t, ev) = IF byAcct # {} THEN {Newest(byAcct)}
                           ELSE IF byUser # {} THEN {Newest(byUser)}
                           ELSE IF onMac # {} THEN {Newest(onMac)} ELSE {}
  BY DEF StartTarget
<1>5. CASE byAcct # {}
  <2>1. i = Newest(byAcct) /\ StartTarget(t, ev) = {i}
    BY <1>4, <1>5
  <2>2. i \in byAcct
    BY <1>3, <1>5, <2>1
  <2>3. \A j \in byAcct : j = i
    BY <1>1, <1>2, <2>2 DEF UniqueAccts
  <2>4. t[i].mac = ev.mac
    BY <1>1, <1>2, <2>2 DEF RowFits
  <2> QED
    BY <2>1, <2>2, <2>3, <2>4 DEF SessionIds
<1>6. CASE byAcct = {}
  <2>1. StartTarget(t, ev) = {i} /\ i \in onMac
    <3>1. CASE byUser # {}
      <4>1. Newest(byUser) \in byUser
        BY <1>3, <3>1
      <4>2. StartTarget(t, ev) = {Newest(byUser)}
        BY <1>4, <1>6, <3>1
      <4> QED
        BY <4>1, <4>2
    <3>2. CASE byUser = {} /\ onMac # {}
      BY <1>3, <1>4, <1>6, <3>2
    <3>3. CASE byUser = {} /\ onMac = {}
      BY <1>4, <1>6, <3>3
    <3> HIDE DEF byUser, onMac
    <3> QED
      BY <3>1, <3>2, <3>3
  <2> QED
    BY <1>6, <2>1 DEF SessionIds
<1>7. QED
  BY <1>5, <1>6

\* A Start leaves a table that fits, whichever row it takes over.
LEMMA StartFits ==
  ASSUME IInv, NEW ev, ReportOK(ev)
  PROVE  /\ TableFits(AfterStart(guest_sessions, ev), granted, nas)
         /\ Kept(guest_sessions, AfterStart(guest_sessions, ev))
<1> DEFINE t == guest_sessions
           target == StartTarget(t, ev)
<1>1. TypeOK /\ TableFits(t, granted, nas) /\ t \in Seq(Session) /\ AcceptedOK
  BY DEF IInv, TypeOK
<1>2. \A i \in Ids(t) : t[i] \in Session /\ RowFits(t[i], granted, nas)
  BY <1>1, RowsTyped DEF TableFits
<1>3. /\ ev.acct \in Accts /\ ev.acct # None /\ ev.user \in UserName /\ ev.mac \in Macs
      /\ ev.at \in Time /\ ev.at # None
      /\ nas[ev.acct] # None /\ nas[ev.acct].mac = ev.mac
  BY SessionsAssumption, TimesAreNumbers DEF ReportOK
<1>4. CASE target # {}
  <2> DEFINE u == [j \in Ids(t) |->
                     IF j \in target
                     THEN [t[j] EXCEPT !.phone = ev.user, !.mac = ev.mac,
                                       !.acct_session_id = ev.acct, !.last_seen_at = ev.at,
                                       !.status = "active", !.ended_at = None]
                     ELSE t[j]]
  <2>1. PICK i \in target : TRUE
    BY <1>4
  <2>2. /\ i \in Ids(t) /\ t[i].mac = ev.mac /\ target = {i}
        /\ \A j \in Ids(t) : t[j].acct_session_id = ev.acct => j = i
    BY <1>3, <2>1, StartTargetFits DEF ReportOK, SessionIds
  <2>3. AfterStart(t, ev) = u
    BY <1>4 DEF AfterStart, UpdateWhere
  <2> HIDE DEF target, t
  <2>4. u \in [Ids(t) -> Session]
    BY <1>2, <1>3 DEF Session
  <2>5. u \in Seq(Session) /\ Ids(u) = Ids(t)
    <3> HIDE DEF u
    <3> QED
      BY <1>1, <2>4, UpdatedTable
  <2>6. /\ \A j \in Ids(t) : j # i => u[j] = t[j]
        /\ u[i].guest_id = t[i].guest_id /\ u[i].mac = t[i].mac
        /\ u[i].acct_session_id = ev.acct /\ u[i].status = "active" /\ u[i].ended_at = None
    BY <1>2, <2>2 DEF Session
  <2> HIDE DEF u
  <2>7. \A j \in Ids(u) : RowFits(u[j], granted, nas)
    <3> TAKE j \in Ids(u)
    <3>1. RowFits(t[j], granted, nas)
      BY <1>2, <2>5
    <3>2. CASE j = i
      BY <1>3, <2>2, <2>6, <3>1, <3>2 DEF RowFits
    <3> QED
      BY <2>5, <2>6, <3>1, <3>2
  <2>8. UniqueAccts(u)
    BY <1>1, <2>2, <2>5, <2>6 DEF TableFits, UniqueAccts
  <2>9. \A j \in Ids(t) : u[j].mac = t[j].mac /\ u[j].guest_id = t[j].guest_id
    BY <2>6
  <2>10. ASSUME NEW j \in Ids(u) PROVE Known(u, u[j].mac)
    <3>1. j \in Ids(t) /\ u[j].mac = t[j].mac /\ Known(t, t[j].mac)
      BY <1>1, <2>5, <2>9 DEF TableFits
    <3> QED
      BY <2>5, <2>9, <3>1, KnownWithMore
  <2> QED
    BY <2>3, <2>5, <2>7, <2>8, <2>9, <2>10 DEF TableFits, Kept, t
<1>5. CASE target = {}
  <2> DEFINE row == [guest_id |-> GuestOf(ev.user), phone |-> ev.user, mac |-> ev.mac,
                     acct_session_id |-> ev.acct,
                     last_seen_at |-> ev.at, ended_at |-> None, status |-> "active"]
  <2>1. AfterStart(t, ev) = Append(t, row)
    BY <1>5 DEF AfterStart
  <2>2. GuestOf(ev.user) \in Identity \cup {None}
    BY DEF GuestOf
  <2>3. row \in Session
    BY <1>3, <2>2 DEF Session
  <2>4. GuestOf(ev.user) # None => Admitted(GuestOf(ev.user), ev.mac, granted)
    <3> SUFFICES ASSUME ev.user \in Identity
                 PROVE  Admitted(ev.user, ev.mac, granted)
      BY DEF GuestOf
    <3>1. PICK ok \in accepted : ok.user = ev.user /\ ok.mac = ev.mac
      BY DEF ReportOK
    <3>2. /\ ok \in Accept /\ (ok.user = Typed(ok.who) \/ ok.user = ok.mac)
          /\ Admitted(ok.who, ok.mac, granted)
      BY <1>1, <3>1 DEF TypeOK, AcceptedOK
    <3>3. ev.user # ev.mac
      BY <1>3, SessionsAssumption DEF Identity
    <3>4. ok.who \notin Rooms
      BY <3>1, <3>2, <3>3, SessionsAssumption DEF Typed, Identity
    <3>5. ok.who = ev.user
      BY <3>1, <3>2, <3>3, <3>4 DEF Typed
    <3> QED
      BY <3>1, <3>2, <3>5
  <2>5. RowFits(row, granted, nas)
    BY <1>3, <2>4 DEF RowFits
  <2>6. \A i \in Ids(t) : t[i].acct_session_id # ev.acct
    <3>1. {i \in Ids(t) : t[i].acct_session_id = ev.acct} = {}
      BY <1>5 DEF StartTarget
    <3> QED
      BY <3>1
  <2>7. row.acct_session_id = ev.acct /\ Known(t, row.mac)
    BY <1>1 DEF ReportOK, AcceptedOK
  <2> HIDE DEF row, t, target
  <2>8. TableFits(Append(t, row), granted, nas)
    BY <1>1, <2>3, <2>5, <2>6, <2>7, InsertFits
  <2>9. Kept(t, Append(t, row))
    <3>1. Ids(t) \subseteq Ids(Append(t, row))
      BY <1>1, <2>3, InsertedRow
    <3>2. ASSUME NEW i \in Ids(t) PROVE Append(t, row)[i] = t[i]
      BY <1>1, <2>3, OtherRowsKept
    <3> QED
      BY <3>1, <3>2 DEF Kept
  <2> QED
    BY <2>1, <2>8, <2>9 DEF t
<1>6. QED
  BY <1>4, <1>5

-----------------------------------------------------------------------------
(* One lemma per action. *)

\* A request that is not served in a step keeps what it relies on.
LEMMA RequestKept ==
  ASSUME IInv, Kept(guest_sessions, guest_sessions'), granted \subseteq granted',
         NEW q \in Requests, req'[q] = req[q]
  PROVE  RequestOK(q)'
<1>1. \A m : Known(guest_sessions, m) => Known(guest_sessions', m)
  BY KnownWithMore DEF Kept
<1>2. QED
  BY <1>1 DEF IInv, RequestsOK, RequestOK, Kept, SessionIds, Admitted

\* What was accepted stays so.
LEMMA AcceptedKept ==
  ASSUME IInv, Kept(guest_sessions, guest_sessions'), granted \subseteq granted',
         accepted' = accepted
  PROVE  AcceptedOK'
<1>1. \A m : Known(guest_sessions, m) => Known(guest_sessions', m)
  BY KnownWithMore DEF Kept
<1>2. QED
  BY <1>1 DEF IInv, AcceptedOK, Admitted

\* The invariant after a step that serves at most request r.
LEMMA Assemble ==
  ASSUME IInv, TypeOK', TableFits(guest_sessions, granted, nas)',
         Kept(guest_sessions, guest_sessions'), granted \subseteq granted',
         AcceptedOK', NasOK', NEW r, \A q \in Requests : q # r => req'[q] = req[q],
         r \in Requests => RequestOK(r)'
  PROVE  IInv'
<1>1. \A q \in Requests : RequestOK(q)'
  BY RequestKept
<1>2. QED
  BY <1>1 DEF IInv, RequestsOK

\* The invariant after a step that serves no request.
LEMMA AssembleQuiet ==
  ASSUME IInv, TypeOK', TableFits(guest_sessions, granted, nas)',
         Kept(guest_sessions, guest_sessions'), UNCHANGED <<req, granted, accepted>>, NasOK'
  PROVE  IInv'
<1>1. \A q \in Requests : RequestOK(q)'
  BY RequestKept
<1>2. AcceptedOK'
  BY AcceptedKept
<1>3. QED
  BY <1>1, <1>2 DEF IInv, RequestsOK

\* A step of a request that only reads.
LEMMA ReadStep ==
  ASSUME IInv, UNCHANGED <<clock, guest_sessions, cleanup, granted, accepted, nas>>,
         NEW r \in Requests, req' \in [Requests -> Request],
         \A q \in Requests : q # r => req'[q] = req[q], RequestOK(r)'
  PROVE  IInv'
<1>1. TypeOK'
  BY DEF IInv, TypeOK
<1>2. /\ TableFits(guest_sessions, granted, nas)' /\ Kept(guest_sessions, guest_sessions')
      /\ NasOK' /\ granted \subseteq granted'
  BY DEF IInv, TableFits, Kept, NasOK
<1>3. AcceptedOK'
  BY <1>2, AcceptedKept
<1>4. QED
  BY <1>1, <1>2, <1>3, Assemble

\* Starting to serve a request.
LEMMA BeginEffect ==
  ASSUME TypeOK, NEW r \in Requests, NEW pc \in {"mac_open", "count", "update", "start"},
         NEW who \in Identity, NEW user \in UserName, NEW m \in Macs, NEW i \in Nat,
         Begin(r, pc, who, user, m, i)
  PROVE  /\ req' \in [Requests -> Request]
         /\ \A q \in Requests : q # r => req'[q] = req[q]
         /\ req'[r] = [pc |-> pc, who |-> who, user |-> user, mac |-> m, row |-> i]
BY DEF TypeOK, Begin, Request

\* A request under a guest's own name, of the phone or of the room branch.
LEMMA OwnNameStep ==
  ASSUME IInv, NEW r \in Requests, NEW x \in Identity, NEW m \in Macs, NEW pc \in {"count", "start"},
         IF OpenSessions(m) # {} THEN Begin(r, "update", x, Typed(x), m, OpenSession(x, m))
                                 ELSE Begin(r, pc, x, Typed(x), m, 0),
         UNCHANGED <<clock, guest_sessions, cleanup, granted, accepted, nas>>
  PROVE  IInv'
<1>1. TypeOK /\ SessionIds \subseteq Nat
  BY DEF IInv, SessionIds, Ids
<1>2. Typed(x) \in UserName
  BY DEF UserName
<1>3. CASE OpenSessions(m) # {}
  <2> DEFINE i == OpenSession(x, m)
  <2>1. i \in SessionIds /\ i \in Nat /\ guest_sessions[i].mac = m
    BY <1>1, <1>3, OpenSessionIsOpen
  <2>2. Begin(r, "update", x, Typed(x), m, i)
    BY <1>3
  <2> HIDE DEF i
  <2>3. /\ req' \in [Requests -> Request]
        /\ \A q \in Requests : q # r => req'[q] = req[q]
        /\ req'[r] = [pc |-> "update", who |-> x, user |-> Typed(x), mac |-> m, row |-> i]
    BY <1>1, <1>2, <2>1, <2>2, BeginEffect
  <2>4. RequestOK(r)'
    BY <1>2, <2>1, <2>3 DEF RequestOK, SessionIds
  <2> QED
    BY <2>3, <2>4, ReadStep
<1>4. CASE OpenSessions(m) = {}
  <2>1. /\ req' \in [Requests -> Request]
        /\ \A q \in Requests : q # r => req'[q] = req[q]
        /\ req'[r] = [pc |-> pc, who |-> x, user |-> Typed(x), mac |-> m, row |-> 0]
    BY <1>1, <1>2, <1>4, BeginEffect
  <2>2. RequestOK(r)'
    BY <1>2, <2>1 DEF RequestOK
  <2> QED
    BY <2>1, <2>2, ReadStep
<1>5. QED
  BY <1>3, <1>4

\* The MAC branch looks for the last session of the device ...
LEMMA MacCheckStep ==
  ASSUME IInv, NEW r \in Requests, NEW m \in Macs, MacCheck(r, m)
  PROVE  IInv'
<1> DEFINE i == LatestSeen(RecentSessions(m))
           x == guest_sessions[i].guest_id
<1>1. i \in RecentSessions(m)
  BY LatestSeenIsSelected DEF IInv, MacCheck, RecentSessions
<1>2. i \in SessionIds /\ guest_sessions[i].mac = m /\ x # None
  BY <1>1 DEF RecentSessions
<1>3. Begin(r, "mac_open", x, m, m, 0)
  BY DEF MacCheck
<1> HIDE DEF i
<1>4. x \in Identity /\ Admitted(x, m, granted)
  BY <1>2, RowsTyped DEF IInv, TypeOK, TableFits, RowFits, SessionIds, Session
<1> HIDE DEF x
<1>5. m \in UserName /\ TypeOK
  BY DEF UserName, IInv
<1>6. /\ req' \in [Requests -> Request]
      /\ \A q \in Requests : q # r => req'[q] = req[q]
      /\ req'[r] = [pc |-> "mac_open", who |-> x, user |-> m, mac |-> m, row |-> 0]
  BY <1>3, <1>4, <1>5, BeginEffect
<1>7. RequestOK(r)'
  BY <1>4, <1>5, <1>6 DEF RequestOK, MacCheck, Admitted
<1>8. QED
  BY <1>6, <1>7, ReadStep DEF MacCheck

\* ... and for one that is open.
LEMMA MacOpenStep ==
  ASSUME IInv, NEW r \in Requests, MacOpen(r)
  PROVE  IInv'
<1> DEFINE i == OpenSession(req[r].who, req[r].mac)
<1>1. TypeOK /\ SessionIds \subseteq Nat /\ req[r] \in Request /\ RequestOK(r)
  BY DEF IInv, SessionIds, Ids, TypeOK, RequestsOK
<1>2. CASE OpenSessions(req[r].mac) # {}
  <2>1. i \in SessionIds /\ i \in Nat /\ guest_sessions[i].mac = req[r].mac
    BY <1>1, <1>2, OpenSessionIsOpen
  <2>2. req' = [req EXCEPT ![r].pc = "update", ![r].row = i]
    BY <1>2 DEF MacOpen
  <2> HIDE DEF i
  <2>3. req' = [req EXCEPT ![r] = [req[r] EXCEPT !.pc = "update", !.row = i]]
    BY <1>1, <2>2 DEF TypeOK
  <2>4. /\ req' \in [Requests -> Request]
        /\ \A q \in Requests : q # r => req'[q] = req[q]
        /\ req'[r] = [req[r] EXCEPT !.pc = "update", !.row = i]
    BY <1>1, <2>1, <2>3 DEF TypeOK, Request
  <2>5. RequestOK(r)'
    BY <1>1, <2>1, <2>4 DEF RequestOK, MacOpen, Request, SessionIds, Admitted
  <2> QED
    BY <2>4, <2>5, ReadStep DEF MacOpen
<1>3. CASE OpenSessions(req[r].mac) = {}
  <2>1. req' = [req EXCEPT ![r].pc = "start"]
    BY <1>3 DEF MacOpen
  <2>2. /\ req' \in [Requests -> Request]
        /\ \A q \in Requests : q # r => req'[q] = req[q]
        /\ req'[r] = [req[r] EXCEPT !.pc = "start"]
    BY <1>1, <2>1 DEF TypeOK, Request
  <2>3. RequestOK(r)'
    BY <1>1, <2>2 DEF RequestOK, MacOpen, Request, Admitted
  <2> QED
    BY <2>2, <2>3, ReadStep DEF MacOpen
<1>4. QED
  BY <1>2, <1>3

\* A request that ends relies on nothing.
LEMMA EndedRequest ==
  ASSUME TypeOK, NEW r \in Requests, req' = [req EXCEPT ![r] = Idle]
  PROVE  /\ req' \in [Requests -> Request]
         /\ \A q \in Requests : q # r => req'[q] = req[q]
         /\ RequestOK(r)'
<1>1. Idle \in Request
  BY DEF Idle, Request
<1>2. QED
  BY <1>1 DEF TypeOK, RequestOK, Idle

\* Counting the devices of a user changes no row.
LEMMA CountDevicesStep ==
  ASSUME IInv, NEW r \in Requests, CountDevices(r)
  PROVE  IInv'
<1>1. TypeOK /\ req[r] \in Request /\ RequestOK(r)
  BY DEF IInv, TypeOK, RequestsOK
<1>2. CASE req' = [req EXCEPT ![r] = Idle]
  BY <1>1, <1>2, EndedRequest, ReadStep DEF CountDevices
<1>3. CASE req' = [req EXCEPT ![r].pc = "start"]
  <2>1. /\ req' \in [Requests -> Request]
        /\ \A q \in Requests : q # r => req'[q] = req[q]
        /\ req'[r] = [req[r] EXCEPT !.pc = "start"]
    BY <1>1, <1>3 DEF TypeOK, Request
  <2>2. RequestOK(r)'
    BY <1>1, <2>1 DEF RequestOK, CountDevices, Request, Admitted
  <2> QED
    BY <2>1, <2>2, ReadStep DEF CountDevices
<1>4. QED
  BY <1>2, <1>3 DEF CountDevices

\* A request that dies leaves what it has written.
LEMMA CrashRequestStep ==
  ASSUME IInv, NEW r \in Requests, CrashRequest(r)
  PROVE  IInv'
BY EndedRequest, ReadStep DEF CrashRequest, IInv

\* A committed session is one that the guest of the request was granted.
LEMMA GrantedEffect ==
  ASSUME IInv, NEW r \in Requests, req[r].pc \in {"update", "start"}, Granted(r)
  PROVE  /\ req' = [req EXCEPT ![r] = [req[r] EXCEPT !.pc = "reply", !.row = 0]]
         /\ req' \in [Requests -> Request]
         /\ \A q \in Requests : q # r => req'[q] = req[q]
         /\ granted \subseteq granted' /\ granted' \in SUBSET (Identity \X Macs)
         /\ Admitted(req[r].who, req[r].mac, granted')
         /\ Known(guest_sessions', req[r].mac) => RequestOK(r)'
<1>1. TypeOK /\ RequestOK(r) /\ req[r] \in Request
  BY DEF IInv, RequestsOK, TypeOK
<1>2. /\ req' = [req EXCEPT ![r] = [req[r] EXCEPT !.pc = "reply", !.row = 0]]
      /\ req' \in [Requests -> Request]
      /\ \A q \in Requests : q # r => req'[q] = req[q]
      /\ req'[r] = [req[r] EXCEPT !.pc = "reply", !.row = 0]
  BY <1>1 DEF Granted, TypeOK, Request
<1>3. /\ granted \subseteq granted' /\ granted' \in SUBSET (Identity \X Macs)
      /\ Admitted(req[r].who, req[r].mac, granted')
  BY <1>1 DEF Granted, RequestOK, Admitted, TypeOK
<1>4. ASSUME Known(guest_sessions', req[r].mac) PROVE RequestOK(r)'
  BY <1>1, <1>2, <1>3, <1>4 DEF RequestOK, Request
<1>5. QED
  BY <1>2, <1>3, <1>4

\* The accept reply adds one entry to what was accepted, of a device whose guest
\* is known.
LEMMA ReplyAcceptStep ==
  ASSUME IInv, NEW r \in Requests, ReplyAccept(r)
  PROVE  IInv'
<1> DEFINE new == [who |-> req[r].who, user |-> req[r].user, mac |-> req[r].mac]
<1>1. TypeOK /\ RequestOK(r) /\ NasOK
  BY DEF IInv, RequestsOK
<1>2. /\ req[r].pc = "reply" /\ accepted' = accepted \cup {new}
      /\ req' = [req EXCEPT ![r] = Idle]
      /\ UNCHANGED <<clock, guest_sessions, cleanup, granted, nas>>
  BY DEF ReplyAccept
<1>3. new \in Accept
  BY <1>1, <1>2 DEF RequestOK, Accept
<1>4. /\ new.user = Typed(new.who) \/ new.user = new.mac
      /\ Admitted(new.who, new.mac, granted) /\ Known(guest_sessions, new.mac)
  BY <1>1, <1>2 DEF RequestOK
<1> HIDE DEF new
<1>5. AcceptedOK'
  BY <1>2, <1>4 DEF IInv, AcceptedOK
<1>6. /\ req' \in [Requests -> Request]
      /\ \A q \in Requests : q # r => req'[q] = req[q]
      /\ RequestOK(r)'
  BY <1>1, <1>2, EndedRequest
<1>7. TypeOK'
  BY <1>1, <1>2, <1>3, <1>6 DEF TypeOK
<1>8. NasOK'
  BY <1>1, <1>2 DEF NasOK
<1>9. TableFits(guest_sessions, granted, nas)' /\ Kept(guest_sessions, guest_sessions')
  BY <1>2 DEF IInv, TableFits, Kept
<1>10. granted \subseteq granted'
  BY <1>2
<1>11. QED
  BY <1>5, <1>6, <1>7, <1>8, <1>9, <1>10, Assemble

\* The session that was found is active again, by id.
LEMMA UpdateSessionStep ==
  ASSUME IInv, NEW r \in Requests, UpdateSession(r)
  PROVE  IInv'
<1> DEFINE t == guest_sessions
           k == req[r].row
           u == [i \in Ids(t) |->
                   IF i \in {k}
                   THEN [t[i] EXCEPT !.last_seen_at = clock, !.status = "active",
                                     !.ended_at = None]
                   ELSE t[i]]
<1>1. /\ TypeOK /\ t \in Seq(Session) /\ clock \in Time
      /\ TableFits(t, granted, nas) /\ RequestOK(r) /\ NasOK
  BY DEF IInv, TypeOK, RequestsOK
<1>2. /\ req[r].pc = "update" /\ Granted(r)
      /\ UNCHANGED <<clock, cleanup, accepted, nas>>
  BY DEF UpdateSession, Granted
<1>3. guest_sessions' = u
  BY DEF UpdateSession, UpdateWhere, SessionIds
<1>4. k \in Ids(t) /\ t[k].mac = req[r].mac
  BY <1>1, <1>2 DEF RequestOK, SessionIds
<1>5. \A i \in Ids(t) : t[i] \in Session /\ (t[i].status = "active" <=> t[i].ended_at = None)
  BY <1>1, RowsTyped DEF TableFits, RowFits
<1>6. u \in [Ids(t) -> Session]
  <2> HIDE DEF t, k
  <2> QED
    BY <1>1, <1>5 DEF Session
<1>7. \A i \in Ids(t) :
        /\ u[i].guest_id = t[i].guest_id /\ u[i].mac = t[i].mac
        /\ u[i].acct_session_id = t[i].acct_session_id
        /\ u[i].status = "active" <=> u[i].ended_at = None
  <2> HIDE DEF t, k
  <2> QED
    BY <1>4, <1>5 DEF Session
<1> HIDE DEF u
<1>8. TableFits(u, granted, nas) /\ Ids(u) = Ids(t) /\ u \in Seq(Session)
  <2> HIDE DEF t
  <2>1. TableFits(u, granted, nas) /\ Ids(u) = Ids(t)
    BY <1>1, <1>6, <1>7, UpdateFits
  <2> QED
    BY <2>1 DEF TableFits
<1>9. Known(u, req[r].mac)
  <2>1. u[k].mac = req[r].mac /\ k \in Ids(u)
    BY <1>4, <1>7, <1>8
  <2> QED
    BY <1>8, <2>1 DEF TableFits
<1>10. /\ req' \in [Requests -> Request]
       /\ \A q \in Requests : q # r => req'[q] = req[q]
       /\ RequestOK(r)'
       /\ granted \subseteq granted' /\ granted' \in SUBSET (Identity \X Macs)
  BY <1>2, <1>3, <1>9, GrantedEffect
<1>11. TableFits(guest_sessions, granted, nas)'
  <2>1. \A i \in Ids(u) : u[i].acct_session_id \in Accts \cup {None}
    BY <1>8, RowsTyped DEF Session
  <2>2. TableFits(u, granted', nas)
    BY <1>8, <1>10, <2>1, FitsWithMore
  <2> QED
    BY <1>2, <1>3, <2>2
<1>12. TypeOK'
  BY <1>1, <1>2, <1>10, <1>11 DEF TypeOK, TableFits
<1>13. Kept(guest_sessions, guest_sessions')
  BY <1>3, <1>7, <1>8 DEF Kept
<1>14. AcceptedOK' /\ NasOK'
  BY <1>1, <1>2, <1>10, <1>13, AcceptedKept DEF NasOK
<1>15. QED
  BY <1>10, <1>11, <1>12, <1>13, <1>14, Assemble

\* The device's sessions are closed and a new one is inserted.
LEMMA StartSessionStep ==
  ASSUME IInv, NEW r \in Requests, StartSession(r)
  PROVE  IInv'
<1> DEFINE t == guest_sessions
           dups == {i \in Ids(t) : t[i].mac = req[r].mac /\ Open(i)}
           u == [i \in Ids(t) |->
                   IF i \in dups
                   THEN [t[i] EXCEPT !.status = "closed", !.ended_at = t[i].last_seen_at]
                   ELSE t[i]]
           row == [guest_id |-> req[r].who, phone |-> req[r].who, mac |-> req[r].mac,
                   acct_session_id |-> None, last_seen_at |-> clock,
                   ended_at |-> None, status |-> "active"]
<1>1. /\ TypeOK /\ t \in Seq(Session) /\ clock \in Time
      /\ TableFits(t, granted, nas) /\ RequestOK(r) /\ NasOK
  BY DEF IInv, TypeOK, RequestsOK
<1>2. /\ req[r].pc = "start" /\ Granted(r)
      /\ UNCHANGED <<clock, cleanup, accepted, nas>>
  BY DEF StartSession, Granted
<1>3. guest_sessions' = Append(u, row)
  BY DEF StartSession, UpdateWhere, SessionIds
<1>4. \A i \in Ids(t) : t[i] \in Session /\ (t[i].status = "active" <=> t[i].ended_at = None)
  BY <1>1, RowsTyped DEF TableFits, RowFits
<1>5. u \in [Ids(t) -> Session]
  <2> HIDE DEF t, dups
  <2> QED
    BY <1>4 DEF Session
<1>6. \A i \in Ids(t) :
        /\ u[i].guest_id = t[i].guest_id /\ u[i].mac = t[i].mac
        /\ u[i].acct_session_id = t[i].acct_session_id
        /\ u[i].status = "active" <=> u[i].ended_at = None
  <2> HIDE DEF t, dups
  <2> QED
    BY <1>4, TimesAreNumbers DEF Session
<1> HIDE DEF u
<1>7. TableFits(u, granted, nas) /\ Ids(u) = Ids(t) /\ u \in Seq(Session)
  <2> HIDE DEF t
  <2>1. TableFits(u, granted, nas) /\ Ids(u) = Ids(t)
    BY <1>1, <1>5, <1>6, UpdateFits
  <2> QED
    BY <2>1 DEF TableFits
<1>8. /\ req' \in [Requests -> Request]
      /\ \A q \in Requests : q # r => req'[q] = req[q]
      /\ granted \subseteq granted' /\ granted' \in SUBSET (Identity \X Macs)
      /\ Admitted(req[r].who, req[r].mac, granted')
      /\ Known(guest_sessions', req[r].mac) => RequestOK(r)'
  BY <1>2, GrantedEffect
<1>9. row \in Session /\ req[r].who # None
  BY <1>1, <1>2, SessionsAssumption DEF RequestOK, Session, Identity
<1>10. /\ row.guest_id = req[r].who /\ row.mac = req[r].mac /\ row.acct_session_id = None
       /\ row.status = "active" /\ row.ended_at = None
  OBVIOUS
<1> HIDE DEF row
<1>11. TableFits(u, granted', nas)
  <2>1. \A i \in Ids(u) : u[i].acct_session_id \in Accts \cup {None}
    BY <1>7, RowsTyped DEF Session
  <2> QED
    BY <1>7, <1>8, <2>1, FitsWithMore
<1>12. RowFits(row, granted', nas)
  BY <1>8, <1>10 DEF RowFits
<1>13. TableFits(Append(u, row), granted', nas)
  BY <1>9, <1>10, <1>11, <1>12, InsertFits
<1>14. /\ Ids(u) \subseteq Ids(Append(u, row))
       /\ Len(u) + 1 \in Ids(Append(u, row)) /\ Append(u, row)[Len(u) + 1] = row
  BY <1>7, <1>9, InsertedRow
<1>15. ASSUME NEW i \in Ids(u) PROVE Append(u, row)[i] = u[i]
  BY <1>7, <1>9, OtherRowsKept
<1>16. Kept(guest_sessions, guest_sessions')
  BY <1>3, <1>6, <1>7, <1>14, <1>15 DEF Kept
<1>17. TableFits(guest_sessions, granted, nas)'
  BY <1>2, <1>3, <1>13
<1>18. TypeOK'
  BY <1>1, <1>2, <1>8, <1>17 DEF TypeOK, TableFits
<1>19. Known(guest_sessions', req[r].mac)
  BY <1>3, <1>9, <1>10, <1>14 DEF Known
<1>20. AcceptedOK' /\ NasOK'
  BY <1>1, <1>2, <1>8, <1>16, AcceptedKept DEF NasOK
<1>21. QED
  BY <1>8, <1>16, <1>17, <1>18, <1>19, <1>20, Assemble

\* A report changes the table only.
LEMMA AccountingStep ==
  ASSUME IInv, UNCHANGED <<clock, req, cleanup, granted, accepted, nas>>,
         TableFits(guest_sessions', granted, nas), Kept(guest_sessions, guest_sessions')
  PROVE  IInv'
<1>1. TableFits(guest_sessions, granted, nas)'
  OBVIOUS
<1>2. TypeOK'
  BY DEF IInv, TypeOK, TableFits
<1>3. NasOK'
  BY DEF IInv, NasOK
<1>4. QED
  BY <1>1, <1>2, <1>3, AssembleQuiet

\* What the three reports write, and what the NAS makes of it.
LEMMA AccountingSteps ==
  ASSUME IInv, NEW a \in Accts, Accounting(a)
  PROVE  IInv'
<1>1. CASE \E ev \in StartReports(a) : AccountingStart(ev)
  <2> PICK ev \in StartReports(a) : AccountingStart(ev)
    BY <1>1
  <2>1. ReportOK(ev)
    BY ReportsAreOK
  <2> QED
    BY <2>1, StartFits, AccountingStep DEF AccountingStart
<1>2. CASE \E ev \in InterimReports(a) : AccountingInterim(ev)
  <2> PICK ev \in InterimReports(a) : AccountingInterim(ev)
    BY <1>2
  <2>1. ReportOK(ev)
    BY ReportsAreOK
  <2> QED
    BY <2>1, InterimFits, AccountingStep DEF AccountingInterim
<1>3. CASE \E ev \in StopReports(a) : AccountingStop(ev)
  <2> PICK ev \in StopReports(a) : AccountingStop(ev)
    BY <1>3
  <2>1. ReportOK(ev)
    BY ReportsAreOK
  <2> QED
    BY <2>1, StopFits, AccountingStep DEF AccountingStop
<1>4. QED
  BY <1>1, <1>2, <1>3 DEF Accounting

\* A step that touches neither the table, the requests nor the NAS.
LEMMA ElsewhereStep ==
  ASSUME IInv, TypeOK', UNCHANGED <<guest_sessions, req, granted, accepted, nas>>
  PROVE  IInv'
<1>1. TableFits(guest_sessions, granted, nas)' /\ Kept(guest_sessions, guest_sessions')
  BY DEF IInv, TableFits, Kept
<1>2. NasOK'
  BY DEF IInv, NasOK
<1>3. QED
  BY <1>1, <1>2, AssembleQuiet

\* The worker reads the ids of sessions that have fallen silent ...
LEMMA CleanupReadStep ==
  ASSUME IInv, CleanupRead
  PROVE  IInv'
<1>1. \A i \in SessionIds : i \in Nat /\ guest_sessions[i].last_seen_at \in Time
  <2>1. guest_sessions \in Seq(Session)
    BY DEF IInv, TypeOK
  <2>2. SessionIds = Ids(guest_sessions) /\ SessionIds \subseteq Nat
    BY <2>1, LenProperties DEF SessionIds, Ids
  <2>3. \A i \in SessionIds : guest_sessions[i] \in Session
    BY <2>1, <2>2, RowsTyped
  <2> QED
    BY <2>2, <2>3 DEF Session
<1>2. cleanup' \in SUBSET (Nat \X Time)
  BY <1>1 DEF CleanupRead
<1>3. TypeOK'
  BY <1>2 DEF IInv, TypeOK, CleanupRead
<1>4. QED
  BY <1>3, ElsewhereStep DEF CleanupRead

\* ... and closes those rows, whatever they are by now.
LEMMA CleanupCloseStep ==
  ASSUME IInv, CleanupClose
  PROVE  IInv'
<1> DEFINE t == guest_sessions
           u == guest_sessions'
           Found(i) == \E s \in Time : <<i, s>> \in cleanup
           at(i) == CHOOSE s \in Time : <<i, s>> \in cleanup
<1>1. /\ TypeOK /\ t \in Seq(Session) /\ TableFits(t, granted, nas) /\ NasOK
      /\ UNCHANGED <<clock, req, granted, accepted, nas>> /\ cleanup' = {}
  BY DEF IInv, TypeOK, CleanupClose
<1>2. \A i \in Ids(t) : t[i] \in Session /\ (t[i].status = "active" <=> t[i].ended_at = None)
  BY <1>1, RowsTyped DEF TableFits, RowFits
<1>3. u = [i \in Ids(t) |-> IF Found(i)
                            THEN [t[i] EXCEPT !.status = "closed", !.ended_at = at(i)]
                            ELSE t[i]]
  BY DEF CleanupClose, SessionIds
<1>4. \A i \in Ids(t) : Found(i) => at(i) \in Time /\ at(i) # None
  BY TimesAreNumbers
<1> HIDE DEF Found, at
<1>5. /\ u \in [Ids(t) -> Session]
      /\ \A i \in Ids(t) :
           /\ u[i].guest_id = t[i].guest_id /\ u[i].mac = t[i].mac
           /\ u[i].acct_session_id = t[i].acct_session_id
           /\ u[i].status = "active" <=> u[i].ended_at = None
  <2> HIDE DEF t, u
  <2> QED
    BY <1>2, <1>3, <1>4 DEF Session
<1>6. TableFits(u, granted, nas) /\ Ids(u) = Ids(t)
  <2> HIDE DEF t, u
  <2> QED
    BY <1>1, <1>5, UpdateFits
<1>7. Kept(t, u) /\ TableFits(guest_sessions, granted, nas)'
  BY <1>1, <1>5, <1>6 DEF Kept
<1>8. TypeOK'
  BY <1>1, <1>6 DEF TypeOK, TableFits
<1>9. NasOK'
  BY <1>1 DEF NasOK
<1>10. QED
  BY <1>1, <1>7, <1>8, <1>9, AssembleQuiet

\* A worker that dies forgets what it has read.
LEMMA CrashCleanupStep ==
  ASSUME IInv, CrashCleanup
  PROVE  IInv'
<1>1. TypeOK'
  BY DEF IInv, TypeOK, CrashCleanup
<1>2. QED
  BY <1>1, ElsewhereStep DEF CrashCleanup

\* Time passes.
LEMMA TickStep ==
  ASSUME IInv, Tick
  PROVE  IInv'
<1>1. TypeOK'
  BY SessionsAssumption DEF IInv, TypeOK, Tick, Time
<1>2. QED
  BY <1>1, ElsewhereStep DEF Tick

\* A new session of the NAS, or the end of one: it stays with its device.
LEMMA NasStep ==
  ASSUME IInv, NEW a \in Accts, NasStart(a) \/ NasStop(a)
  PROVE  IInv'
<1>1. /\ TypeOK /\ NasOK /\ TableFits(guest_sessions, granted, nas)
      /\ UNCHANGED <<clock, guest_sessions, req, cleanup, granted, accepted>>
  BY DEF IInv, NasStart, NasStop
<1>2. /\ nas' \in [Accts -> NasSession \cup {None}] /\ NasOK'
      /\ \A b \in Accts : nas[b] # None => nas'[b] # None /\ nas'[b].mac = nas[b].mac
  <2>1. CASE NasStart(a)
    <3>1. PICK ok \in accepted : nas' = [nas EXCEPT ![a] = [user |-> ok.user, mac |-> ok.mac,
                                                            start |-> clock, stop |-> None]]
      BY <2>1 DEF NasStart
    <3> DEFINE s == [user |-> ok.user, mac |-> ok.mac, start |-> clock, stop |-> None]
    <3>2. ok \in Accept
      BY <1>1 DEF TypeOK
    <3>3. s \in NasSession /\ s.user = ok.user /\ s.mac = ok.mac
      BY <1>1, <3>2 DEF TypeOK, Accept, NasSession
    <3>4. nas[a] = None
      BY <2>1 DEF NasStart
    <3> HIDE DEF s
    <3>5. nas' = [nas EXCEPT ![a] = s]
      BY <3>1 DEF s
    <3>6. nas' \in [Accts -> NasSession \cup {None}]
      BY <1>1, <3>3, <3>5 DEF TypeOK
    <3>7. nas'[a] = s /\ \A b \in Accts : b # a => nas'[b] = nas[b]
      BY <1>1, <3>5 DEF TypeOK
    <3> QED
      BY <1>1, <3>3, <3>4, <3>6, <3>7 DEF NasOK
  <2>2. CASE NasStop(a)
    <3> DEFINE s == [nas[a] EXCEPT !.stop = clock]
    <3>1. nas[a] # None /\ nas[a] \in NasSession /\ clock \in Time
      BY <1>1, <2>2 DEF NasStop, TypeOK
    <3>2. nas' = [nas EXCEPT ![a] = s]
      BY <1>1, <2>2 DEF NasStop, TypeOK
    <3>3. s \in NasSession /\ s.user = nas[a].user /\ s.mac = nas[a].mac
      BY <3>1 DEF NasSession
    <3>4. s # None
      BY <3>3, NoSessionAssumption
    <3> HIDE DEF s
    <3>5. nas' \in [Accts -> NasSession \cup {None}]
      BY <1>1, <3>2, <3>3 DEF TypeOK
    <3>6. nas'[a] = s /\ \A b \in Accts : b # a => nas'[b] = nas[b]
      BY <1>1, <3>2 DEF TypeOK
    <3> QED
      BY <1>1, <3>1, <3>3, <3>4, <3>5, <3>6 DEF NasOK
  <2> QED
    BY <2>1, <2>2
<1>3. \A i \in Ids(guest_sessions) : guest_sessions[i].acct_session_id \in Accts \cup {None}
  BY <1>1, RowsTyped DEF TypeOK, Session
<1>4. TableFits(guest_sessions, granted, nas)'
  <2>1. TableFits(guest_sessions, granted, nas')
    BY <1>1, <1>2, <1>3, FitsWithMore
  <2> QED
    BY <1>1, <2>1
<1>5. TypeOK' /\ Kept(guest_sessions, guest_sessions')
  BY <1>1, <1>2 DEF TypeOK, Kept
<1>6. QED
  BY <1>1, <1>2, <1>4, <1>5, AssembleQuiet

-----------------------------------------------------------------------------
(* The theorems. *)

\* The invariant holds at first.
LEMMA InitIInv == Init => IInv
<1> SUFFICES ASSUME Init PROVE IInv
  OBVIOUS
<1>1. guest_sessions \in Seq(Session) /\ Ids(guest_sessions) = {}
  BY EmptySeq DEF Init, Ids
<1>2. TypeOK
  BY <1>1, SessionsAssumption DEF Init, TypeOK, Time, Request, Idle
<1>3. TableFits(guest_sessions, granted, nas)
  BY <1>1 DEF TableFits, UniqueAccts
<1>4. RequestsOK /\ AcceptedOK /\ NasOK
  BY DEF Init, RequestsOK, RequestOK, Idle, AcceptedOK, NasOK
<1>5. QED
  BY <1>2, <1>3, <1>4 DEF IInv

\* Every step keeps the inductive invariant.
LEMMA NextIInv == IInv /\ [Next]_vars => IInv'
<1> SUFFICES ASSUME IInv, [Next]_vars PROVE IInv'
  OBVIOUS
<1>1. CASE \E r \in Requests : Check(r)
  <2> PICK r \in Requests : Check(r)
    BY <1>1
  <2>1. CASE \E m \in Macs : MacCheck(r, m)
    BY <2>1, MacCheckStep
  <2>2. CASE \E m \in Macs : \E p \in Phones : PhoneCheck(r, p, m)
    <3> PICK m \in Macs, p \in Phones : PhoneCheck(r, p, m)
      BY <2>2
    <3> QED
      BY OwnNameStep DEF PhoneCheck, Identity
  <2>3. CASE \E m \in Macs : \E x \in Rooms \cup Vouchers : RoomCheck(r, x, m)
    <3> PICK m \in Macs, x \in Rooms \cup Vouchers : RoomCheck(r, x, m)
      BY <2>3
    <3> QED
      BY OwnNameStep DEF RoomCheck, Identity
  <2>4. CASE \/ CountDevices(r) \/ MacOpen(r) \/ UpdateSession(r) \/ StartSession(r)
             \/ ReplyAccept(r) \/ CrashRequest(r)
    BY <2>4, CountDevicesStep, MacOpenStep, UpdateSessionStep, StartSessionStep,
       ReplyAcceptStep, CrashRequestStep
  <2> QED
    BY <2>1, <2>2, <2>3, <2>4 DEF Check
<1>2. CASE \E a \in Accts : Accounting(a) \/ NasStart(a) \/ NasStop(a)
  BY <1>2, AccountingSteps, NasStep
<1>3. CASE CleanupRead \/ CleanupClose \/ CrashCleanup \/ Tick
  BY <1>3, CleanupReadStep, CleanupCloseStep, CrashCleanupStep, TickStep
<1>4. CASE UNCHANGED vars
  <2>1. TypeOK'
    BY <1>4 DEF IInv, TypeOK, vars
  <2> QED
    BY <1>4, <2>1, ElsewhereStep DEF vars
<1>5. QED
  BY <1>1, <1>2, <1>3, <1>4 DEF Next

\* The inductive invariant holds in every reachable state.
THEOREM Invariance == Spec => []IInv
<1>1. Init => IInv
  BY InitIInv
<1>2. IInv /\ [Next]_vars => IInv'
  BY NextIInv
<1>3. QED
  BY <1>1, <1>2, PTL DEF Spec

\* The variables keep their types.
THEOREM TypeCorrect == Spec => []TypeOK
<1>1. IInv => TypeOK
  BY DEF IInv
<1>2. QED
  BY <1>1, Invariance, PTL

\* The six statements that write status or ended_at keep them in agreement.
THEOREM StatusAndEndAgree == Spec => []ActiveIffNotEnded
<1>1. IInv => ActiveIffNotEnded
  BY DEF IInv, TableFits, RowFits, ActiveIffNotEnded, Active, SessionIds
<1>2. QED
  BY <1>1, Invariance, PTL

\* However often and late the NAS reports a Start, one row carries its session.
THEOREM OneRowPerAcct == Spec => []AcctIdsAreUnique
<1>1. IInv => AcctIdsAreUnique
  BY DEF IInv, TableFits, UniqueAccts, AcctIdsAreUnique, SessionIds
<1>2. QED
  BY <1>1, Invariance, PTL

\* The MAC branch never admits a device as a guest who was not admitted on it
\* under its own name.
THEOREM MacBranchKnowsTheGuest == Spec => []GuestWasAdmittedOnDevice
<1>1. IInv => GuestWasAdmittedOnDevice
  BY DEF IInv, TableFits, RowFits, Admitted, GuestWasAdmittedOnDevice, SessionIds
<1>2. QED
  BY <1>1, Invariance, PTL

\* Whatever comes between the session and the reply, and ever after, the portal
\* can name a guest of a device it told "accept".
THEOREM AcceptedDevicesAreKnown == Spec => []AcceptedDeviceIsKnown
<1>1. IInv => AcceptedDeviceIsKnown
  BY DEF IInv, AcceptedOK, Known, AcceptedDeviceIsKnown, SessionIds
<1>2. QED
  BY <1>1, Invariance, PTL

-----------------------------------------------------------------------------
(* Portal. *)

\* Together they take the steps of VoucherAuth.
THEOREM VoucherAuthHolds == PortalSpec => V!Spec
<1>1. PortalInit => V!Init
  BY DEF PortalInit
<1>2. [PortalNext]_<<vars, voucherVars>> => [V!Next]_(V!vvars)
  <2> SUFFICES ASSUME [PortalNext]_<<vars, voucherVars>> PROVE [V!Next]_(V!vvars)
    OBVIOUS
  <2>1. CASE \E r \in Requests : V!Verify(r)
    BY <2>1 DEF V!Next
  <2>2. CASE \E v \in Vouchers : V!Manage(v)
    BY <2>2 DEF V!Next
  <2>3. CASE \E r, s \in Requests : VoucherSession(r, s)
    BY <2>3 DEF VoucherSession, V!Next
  <2>4. CASE Tick /\ UNCHANGED voucherVars
    BY <2>4 DEF Tick, voucherVars, V!Tick, V!Next
  <2>5. CASE clock' = clock /\ UNCHANGED voucherVars
    BY <2>5 DEF V!vvars, voucherVars
  <2>6. CASE /\ \/ \E r \in Requests : CheckAlone(r)
                \/ \E a \in Accts : Accounting(a) \/ NasStart(a) \/ NasStop(a)
                \/ CleanupRead \/ CleanupClose \/ CrashCleanup
             /\ UNCHANGED voucherVars
    <3>1. clock' = clock
      BY <2>6 DEF CheckAlone, MacCheck, PhoneCheck, RoomCheck, CountDevices, MacOpen,
         UpdateSession, StartSession, Granted, ReplyAccept, CrashRequest, Accounting, AccountingStart,
         AccountingInterim, AccountingStop, NasStart, NasStop, CleanupRead, CleanupClose,
         CrashCleanup
    <3> QED
      BY <2>5, <2>6, <3>1
  <2>7. CASE UNCHANGED <<vars, voucherVars>>
    BY <2>5, <2>7 DEF vars
  <2> QED
    BY <2>1, <2>2, <2>3, <2>4, <2>6, <2>7 DEF PortalNext
<1>3. QED
  BY <1>1, <1>2, PTL DEF PortalSpec, V!Spec

\* A request of VoucherAuth in flight is about a voucher and a device.
Pairs ==
  /\ clock \in V!Time
  /\ vreq \in [Requests -> V!Request]
  /\ \A r \in Requests : vreq[r].pc # "idle" =>
       vreq[r].voucher \in Vouchers /\ vreq[r].mac \in Macs

\* The voucher branch is about vouchers and devices, and lets such pairs through.
LEMMA PairsHold == V!Spec => []Pairs
<1>0. V!Idle \in V!Request
  BY SessionsAssumption DEF V!Idle, V!Request, V!Time
<1>1. V!Init => Pairs
  BY <1>0, SessionsAssumption DEF V!Init, Pairs, V!Idle, V!Time
<1>2. Pairs /\ [V!Next]_(V!vvars) => Pairs'
  <2> SUFFICES ASSUME Pairs, [V!Next]_(V!vvars) PROVE Pairs'
    OBVIOUS
  <2> USE DEF Pairs
  <2>1. ASSUME NEW r \in Requests, NEW v \in Vouchers, NEW m \in Macs, V!VerifyRead(r, v, m)
        PROVE  Pairs'
    <3>1. \A pc \in {"expire", "device"} :
            [pc |-> pc, voucher |-> v, mac |-> m, at |-> clock] \in V!Request
      BY DEF V!Request
    <3>2. \E pc \in {"expire", "device"} :
            vreq' = [vreq EXCEPT ![r] = [pc |-> pc, voucher |-> v, mac |-> m, at |-> clock]]
      BY <2>1 DEF V!VerifyRead
    <3> QED
      BY <2>1, <3>1, <3>2 DEF V!VerifyRead
  <2>2. ASSUME NEW r \in Requests, V!Reply(r), UNCHANGED clock
        PROVE  Pairs'
    BY <1>0, <2>2 DEF V!Reply, V!Idle
  <2>3. ASSUME NEW r \in Requests, vreq[r].pc # "idle", UNCHANGED clock,
               NEW pc \in {"count", "insert", "touch", "guest", "guest_insert", "session"},
               V!Goto(r, pc)
        PROVE  Pairs'
    <3> DEFINE q == [vreq[r] EXCEPT !.pc = pc]
    <3>1. q \in V!Request /\ q.voucher = vreq[r].voucher /\ q.mac = vreq[r].mac
      BY DEF V!Request
    <3>2. vreq' = [vreq EXCEPT ![r] = q]
      BY <2>3 DEF V!Goto
    <3> HIDE DEF q
    <3> QED
      BY <2>3, <3>1, <3>2
  <2>4. ASSUME NEW r \in Requests,
               \/ V!VerifyExpire(r) \/ V!VerifyDevice(r) \/ V!VerifyCount(r) \/ V!VerifyInsert(r)
               \/ V!VerifyTouch(r) \/ V!VerifyGuest(r) \/ V!VerifyGuestInsert(r)
               \/ V!VerifySession(r) \/ V!CrashRequest(r)
        PROVE  Pairs'
    <3>1. /\ vreq[r].pc # "idle" /\ UNCHANGED clock
          /\ \/ V!Reply(r)
             \/ \E pc \in {"count", "insert", "touch", "guest", "guest_insert", "session"} :
                  V!Goto(r, pc)
      <4> HIDE DEF Pairs
      <4> QED
        BY <2>4 DEF V!VerifyExpire, V!VerifyDevice, V!VerifyCount, V!VerifyInsert,
           V!VerifyTouch, V!VerifyGuest, V!VerifyGuestInsert, V!VerifySession, V!CrashRequest
    <3> QED
      BY <2>2, <2>3, <3>1
  <2>5. CASE \E v \in Vouchers : V!Manage(v)
    <3>1. UNCHANGED <<clock, vreq>>
      BY <2>5 DEF V!Manage, V!CreateVoucher, V!Revoke, V!RemoveDevice
    <3> QED
      BY <3>1
  <2>6. CASE V!Tick
    BY <2>6, SessionsAssumption DEF V!Tick, V!Time
  <2>7. CASE UNCHANGED V!vvars
    BY <2>7 DEF V!vvars
  <2> QED
    BY <2>1, <2>4, <2>5, <2>6, <2>7 DEF V!Next, V!Verify
<1>3. QED
  BY <1>1, <1>2, PTL DEF V!Spec

\* Together they take the steps of Sessions.
THEOREM SessionsHold == PortalSpec => Spec
<1>1. PortalInit => Init
  BY DEF PortalInit
<1>2. Pairs /\ [PortalNext]_<<vars, voucherVars>> => [Next]_vars
  <2> SUFFICES ASSUME Pairs, PortalNext, vars' # vars PROVE Next
    BY DEF vars
  <2>1. CASE \E r \in Requests : CheckAlone(r)
    BY <2>1 DEF CheckAlone, Check, Next
  <2>2. CASE \/ \E a \in Accts : Accounting(a) \/ NasStart(a) \/ NasStop(a)
             \/ CleanupRead \/ CleanupClose \/ CrashCleanup \/ Tick
    BY <2>2 DEF Next
  <2>3. CASE \E r, s \in Requests : VoucherSession(r, s)
    <3> PICK r \in Requests, s \in Requests : VoucherSession(r, s)
      BY <2>3
    <3>1. vreq[r].voucher \in Vouchers /\ vreq[r].mac \in Macs
      BY DEF VoucherSession, V!VerifySession, Pairs
    <3>2. Check(s)
      BY <3>1 DEF VoucherSession, Check
    <3> QED
      BY <3>2 DEF Next
  <2>4. (\E r \in Requests : V!Verify(r)) \/ (\E v \in Vouchers : V!Manage(v)) => UNCHANGED clock
    BY DEF V!Verify, V!Manage, V!VerifyRead, V!VerifyExpire, V!VerifyDevice, V!VerifyCount,
       V!VerifyInsert, V!VerifyTouch, V!VerifyGuest, V!VerifyGuestInsert, V!CrashRequest,
       V!CreateVoucher, V!Revoke, V!RemoveDevice
  <2> QED
    BY <2>1, <2>2, <2>3, <2>4 DEF PortalNext, sessionVars, vars
<1>3. QED
  BY <1>1, <1>2, PairsHold, VoucherAuthHolds, PTL DEF PortalSpec, Spec

-----------------------------------------------------------------------------
(* The guests of vouchers. *)

\* x, under its own name, on the device m: let through if x is a voucher.
LetThrough(x, user, m, adm) == x \in Vouchers /\ user = Typed(x) => <<x, m>> \in adm

\* Whoever comes or was given a session under the name of a voucher passed the
\* voucher branch.  MAC authentication names the device instead.
NamesLetThrough ==
  /\ \A x \in Vouchers, m \in Macs : <<x, m>> \in granted => <<x, m>> \in admitted
  /\ \A r \in Requests : req[r].pc # "idle" =>
       LetThrough(req[r].who, req[r].user, req[r].mac, admitted)

\* The request of slot r stands still, is done or keeps who it is about.
KeepsName(r) ==
  \/ req'[r].pc = "idle"
  \/ /\ req[r].pc # "idle"
     /\ req'[r].who = req[r].who /\ req'[r].user = req[r].user /\ req'[r].mac = req[r].mac

\* Sessions of requests already named, and names only of those let through.
LEMMA NamesKept ==
  ASSUME NamesLetThrough, admitted \subseteq admitted',
         \A x, m : <<x, m>> \in granted' \ granted => \E r \in Requests :
           /\ req[r].pc # "idle"
           /\ x = req[r].who /\ Typed(x) = req[r].user /\ m = req[r].mac,
         \A r \in Requests :
           KeepsName(r) \/ LetThrough(req'[r].who, req'[r].user, req'[r].mac, admitted')
  PROVE  NamesLetThrough'
<1>1. ASSUME NEW x \in Vouchers, NEW m \in Macs, <<x, m>> \in granted'
      PROVE  <<x, m>> \in admitted'
  <2>1. CASE <<x, m>> \in granted
    BY <2>1 DEF NamesLetThrough
  <2>2. CASE <<x, m>> \notin granted
    BY <1>1, <2>2 DEF NamesLetThrough, LetThrough
  <2> QED
    BY <2>1, <2>2
<1>2. ASSUME NEW r \in Requests, req'[r].pc # "idle"
      PROVE  LetThrough(req'[r].who, req'[r].user, req'[r].mac, admitted')
  BY <1>2 DEF NamesLetThrough, LetThrough, KeepsName
<1>3. QED
  BY <1>1, <1>2 DEF NamesLetThrough

\* The begin of a request for x, whose name is let through.
LEMMA BeginKeepsNames ==
  ASSUME TypeOK, NamesLetThrough, NEW r \in Requests, NEW pc, NEW x, NEW user, NEW m, NEW i,
         Begin(r, pc, x, user, m, i), granted' = granted, admitted \subseteq admitted',
         LetThrough(x, user, m, admitted')
  PROVE  NamesLetThrough'
<1>1. req'[r].who = x /\ req'[r].user = user /\ req'[r].mac = m
      /\ \A s \in Requests : s # r => req'[s] = req[s]
  BY DEF Begin, TypeOK
<1>2. \A s \in Requests :
        KeepsName(s) \/ LetThrough(req'[s].who, req'[s].user, req'[s].mac, admitted')
  BY <1>1 DEF KeepsName
<1>3. QED
  BY <1>2, NamesKept

\* A request with a number, a room or nothing takes no voucher's name, and the
\* MAC branch one that has a session already.
LEMMA CheckAloneKeepsNames ==
  ASSUME TypeOK, NamesLetThrough, NEW r \in Requests, CheckAlone(r), admitted' = admitted
  PROVE  NamesLetThrough'
<1>1. req \in [Requests -> Request]
  BY DEF TypeOK
<1>2. ASSUME NEW m \in Macs, MacCheck(r, m) PROVE NamesLetThrough'
  <2>1. \A x \in Vouchers : m # Typed(x)
    BY SessionsAssumption DEF Typed
  <2>2. PICK x, i : Begin(r, "mac_open", x, m, m, i)
    BY <1>2 DEF MacCheck
  <2> QED
    BY <1>2, <2>1, <2>2, BeginKeepsNames DEF MacCheck, LetThrough
<1>3. ASSUME NEW x \in Phones \cup Rooms, NEW m \in Macs, PhoneCheck(r, x, m) \/ RoomCheck(r, x, m)
      PROVE  NamesLetThrough'
  <2>1. x \notin Vouchers
    BY SessionsAssumption
  <2>2. PICK pc, i : Begin(r, pc, x, Typed(x), m, i)
    BY <1>3 DEF PhoneCheck, RoomCheck
  <2>3. granted' = granted
    BY <1>3 DEF PhoneCheck, RoomCheck
  <2> QED
    BY <2>1, <2>2, <2>3, BeginKeepsNames DEF LetThrough
<1>4. ASSUME CountDevices(r) \/ MacOpen(r) \/ ReplyAccept(r) \/ CrashRequest(r)
      PROVE  NamesLetThrough'
  <2>1. granted' = granted
    BY <1>4 DEF CountDevices, MacOpen, ReplyAccept, CrashRequest
  <2>2. \A s \in Requests : KeepsName(s) \/ req'[s] = req[s]
    BY <1>1, <1>4 DEF KeepsName, CountDevices, MacOpen, ReplyAccept, CrashRequest, Idle, Request
  <2>3. \A s \in Requests :
          KeepsName(s) \/ LetThrough(req'[s].who, req'[s].user, req'[s].mac, admitted')
    BY <2>2 DEF KeepsName, NamesLetThrough, LetThrough
  <2> QED
    BY <2>1, <2>3, NamesKept
<1>5. ASSUME UpdateSession(r) \/ StartSession(r) PROVE NamesLetThrough'
  <2>1. req[r].pc # "idle" /\ Granted(r)
    BY <1>5 DEF UpdateSession, StartSession
  <2>2. \A s \in Requests : KeepsName(s) \/ req'[s] = req[s]
    BY <1>1, <2>1 DEF KeepsName, Granted, Request
  <2>3. \A s \in Requests :
          KeepsName(s) \/ LetThrough(req'[s].who, req'[s].user, req'[s].mac, admitted')
    BY <2>2 DEF KeepsName, NamesLetThrough, LetThrough
  <2>4. \A x, m : <<x, m>> \in granted' \ granted =>
          x = req[r].who /\ Typed(x) = req[r].user /\ m = req[r].mac
    BY <2>1 DEF Granted
  <2> QED
    BY <2>1, <2>3, <2>4, NamesKept
<1>6. QED
  BY <1>2, <1>3, <1>4, <1>5 DEF CheckAlone

\* The voucher branch hands over a pair it has let through.
LEMMA VoucherSessionKeepsNames ==
  ASSUME TypeOK, NamesLetThrough, NEW r \in Requests, NEW s \in Requests, VoucherSession(r, s)
  PROVE  NamesLetThrough'
<1> DEFINE x == vreq[r].voucher
           m == vreq[r].mac
<1>1. PICK pc, i : Begin(s, pc, x, Typed(x), m, i)
  BY DEF VoucherSession, RoomCheck
<1>2. granted' = granted /\ admitted \subseteq admitted' /\ <<x, m>> \in admitted'
  BY DEF VoucherSession, RoomCheck, V!VerifySession
<1> HIDE DEF x, m
<1>3. QED
  BY <1>1, <1>2, BeginKeepsNames DEF LetThrough

\* Who is given a session as a voucher's guest under its name was let through.
LEMMA NamesHold == PortalSpec => []NamesLetThrough
<1>1. PortalInit => NamesLetThrough
  BY DEF PortalInit, Init, NamesLetThrough, Idle
<1>2. TypeOK /\ NamesLetThrough /\ [PortalNext]_<<vars, voucherVars>> => NamesLetThrough'
  <2> SUFFICES ASSUME TypeOK, NamesLetThrough, [PortalNext]_<<vars, voucherVars>>
               PROVE  NamesLetThrough'
    OBVIOUS
  <2>1. CASE UNCHANGED <<req, granted, admitted>>
    BY <2>1 DEF NamesLetThrough, LetThrough
  <2>2. CASE (\E r \in Requests : CheckAlone(r)) /\ UNCHANGED voucherVars
    BY <2>2, CheckAloneKeepsNames DEF voucherVars
  <2>3. CASE \E r, s \in Requests : VoucherSession(r, s)
    BY <2>3, VoucherSessionKeepsNames
  <2>4. ASSUME \E a \in Accts : Accounting(a) \/ NasStart(a) \/ NasStop(a)
        PROVE  UNCHANGED <<req, granted>>
    BY <2>4 DEF Accounting, AccountingStart, AccountingInterim, AccountingStop, NasStart, NasStop
  <2>5. ASSUME CleanupRead \/ CleanupClose \/ CrashCleanup \/ Tick
        PROVE  UNCHANGED <<req, granted>>
    BY <2>5 DEF CleanupRead, CleanupClose, CrashCleanup, Tick
  <2>6. ASSUME (\E r \in Requests : V!Verify(r)) \/ (\E v \in Vouchers : V!Manage(v))
        PROVE  UNCHANGED admitted
    BY <2>6 DEF V!Verify, V!Manage, V!VerifyRead, V!VerifyExpire, V!VerifyDevice, V!VerifyCount,
       V!VerifyInsert, V!VerifyTouch, V!VerifyGuest, V!VerifyGuestInsert, V!CrashRequest,
       V!CreateVoucher, V!Revoke, V!RemoveDevice
  <2>7. CASE UNCHANGED <<vars, voucherVars>>
    BY <2>1, <2>7 DEF vars, voucherVars
  <2> QED
    BY <2>1, <2>2, <2>3, <2>4, <2>5, <2>6, <2>7 DEF PortalNext, sessionVars, voucherVars
<1>3. Spec => []TypeOK
  BY TypeCorrect
<1>4. QED
  BY <1>1, <1>2, <1>3, SessionsHold, PTL DEF PortalSpec

\* Whatever way a session of a voucher's guest came to its device, the voucher
\* branch let the device through.
THEOREM VoucherGuestsPassedTheBranch == PortalSpec => []VoucherGuestsWereLetThrough
<1>1. TypeOK /\ GuestWasAdmittedOnDevice /\ NamesLetThrough => VoucherGuestsWereLetThrough
  <2> SUFFICES ASSUME TypeOK, GuestWasAdmittedOnDevice, NamesLetThrough, NEW i \in SessionIds,
                      guest_sessions[i].guest_id \in Vouchers
               PROVE  <<guest_sessions[i].guest_id, guest_sessions[i].mac>> \in admitted
    BY DEF VoucherGuestsWereLetThrough
  <2> DEFINE x == guest_sessions[i].guest_id
             m == guest_sessions[i].mac
  <2>1. x # None
    BY SessionsAssumption
  <2>2. <<x, m>> \in granted
    BY <2>1 DEF GuestWasAdmittedOnDevice
  <2>3. m \in Macs
    BY RowsTyped DEF TypeOK, SessionIds, Session
  <2> QED
    BY <2>2, <2>3 DEF NamesLetThrough
<1>2. QED
  BY <1>1, SessionsHold, TypeCorrect, MacBranchKnowsTheGuest, NamesHold, PTL

=============================================================================
