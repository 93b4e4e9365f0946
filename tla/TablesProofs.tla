---------------------------- MODULE TablesProofs ----------------------------
(***************************************************************************)
(* Facts about the helpers of Tables that the proofs of the other modules  *)
(* cite.                                                                   *)
(***************************************************************************)
EXTENDS Tables, SequenceTheorems, WellFoundedInduction, TLAPS

\* Among things with a bounded measure one has the greatest: every ORDER BY has
\* a first row.
LEMMA GreatestExists ==
  ASSUME NEW S, S # {}, NEW n \in Nat, NEW f, \A i \in S : f[i] \in 0 .. n
  PROVE  \E i \in S : \A j \in S : f[j] <= f[i]
<1> DEFINE Distances == {n - f[i] : i \in S}
<1>1. Distances \subseteq Nat /\ Distances # {}
  <2>1. \A i \in S : n - f[i] \in Nat
    OBVIOUS
  <2>2. Distances \subseteq Nat
    BY <2>1
  <2>3. Distances # {}
    BY Zenon
  <2> QED
    BY <2>2, <2>3
<1>2. PICK d \in Distances : \A e \in Distances : ~ (<<e, d>> \in OpToRel(<, Nat))
  <2> HIDE DEF Distances
  <2> QED BY <1>1, NatLessThanWellFounded, WFMin, Zenon
<1>3. \A e \in Distances : ~ (e < d)
  <2> HIDE DEF Distances
  <2> TAKE e \in Distances
  <2>1. e \in Nat /\ d \in Nat
    BY <1>1
  <2>2. e < d => <<e, d>> \in OpToRel(<, Nat)
    BY <2>1 DEF OpToRel
  <2> QED
    BY <1>2, <2>2
<1>4. PICK i \in S : d = n - f[i]
  BY Zenon
<1>5. \A j \in S : f[j] <= f[i]
  <2> TAKE j \in S
  <2>1. n - f[j] \in Distances
    BY Zenon
  <2>2. ~ (n - f[j] < n - f[i])
    BY <1>3, <1>4, <2>1, Zenon
  <2>3. f[i] \in 0 .. n /\ f[j] \in 0 .. n
    OBVIOUS
  <2> HIDE DEF Distances
  <2> QED
    BY <2>2, <2>3
<1>6. QED
  BY <1>5

\* The newest row of a non-empty selection exists and is one of the selection:
\* what LIMIT 1 returns when the query has an answer.
LEMMA NewestIsSelected ==
  ASSUME NEW n \in Nat, NEW ids \in SUBSET (1 .. n), ids # {}
  PROVE  /\ Newest(ids) \in ids
         /\ \A j \in ids : j <= Newest(ids)
<1> DEFINE id == [i \in ids |-> i]
<1>1. \A i \in ids : id[i] = i /\ id[i] \in 0 .. n
  OBVIOUS
<1>2. \E i \in ids : \A j \in ids : j <= i
  <2> HIDE DEF id
  <2>1. \E i \in ids : \A j \in ids : id[j] <= id[i]
    BY <1>1, GreatestExists
  <2> QED
    BY <1>1, <2>1
<1>3. QED
  BY <1>2 DEF Newest

\* A function on the ids of a table with rows as values is a table of the same
\* length: an UPDATE neither adds nor removes rows.
LEMMA UpdatedTable ==
  ASSUME NEW S, NEW t \in Seq(S), NEW u \in [Ids(t) -> S]
  PROVE  u \in Seq(S) /\ Len(u) = Len(t) /\ Ids(u) = Ids(t)
<1>1. Len(t) \in Nat
  BY LenProperties
<1>2. u \in [1 .. Len(t) -> S]
  BY DEF Ids
<1>3. u \in Seq(S)
  BY <1>1, <1>2
<1>4. Len(u) = Len(t)
  BY <1>1, <1>2, <1>3, LenProperties
<1>5. QED
  BY <1>3, <1>4 DEF Ids

\* An INSERT adds a row with the next id.
LEMMA InsertedRow ==
  ASSUME NEW S, NEW t \in Seq(S), NEW row \in S
  PROVE  /\ Append(t, row) \in Seq(S)
         /\ Ids(t) \subseteq Ids(Append(t, row))
         /\ Ids(Append(t, row)) = Ids(t) \cup {Len(t) + 1}
         /\ Append(t, row)[Len(t) + 1] = row
<1>1. Len(t) \in Nat
  BY LenProperties
<1>2. QED
  BY <1>1, AppendProperties DEF Ids

\* An INSERT leaves the rows that were there alone.
LEMMA OtherRowsKept ==
  ASSUME NEW S, NEW t \in Seq(S), NEW row \in S, NEW i \in Ids(t)
  PROVE  Append(t, row)[i] = t[i]
<1>1. Len(t) \in Nat
  BY LenProperties
<1>2. QED
  BY <1>1, AppendProperties DEF Ids

=============================================================================
