------------------------------- MODULE Networks -------------------------------
(***************************************************************************)
(* The table network_map, which tells the hotel of a guest by the address, *)
(* and the forms of its page (app.py).  Every form checks with SELECTs and *)
(* writes in a transaction of its own.  Ids are never given twice; a       *)
(* deleted row leaves None.                                                *)
(***************************************************************************)
EXTENDS Integers, Sequences, FiniteSets

CONSTANTS Nets,         \* hotel, Wi-Fi network and subnet: what may not occur twice
          Forms,        \* slots for forms served at once
          MaxNetworks,  \* bound: rows ever added
          None          \* the absent row

\* What the constants must be.
NetworksAssumption ==
  MaxNetworks \in Nat /\ IsFiniteSet(Forms) /\ None \notin Nets \cup Int

Network == [net : Nets, active : BOOLEAN]

NoNetworkAssumption == None \notin Network

VARIABLES
  networks,  \* networks[i]: the row of id i
  used,      \* the networks that sessions or pending authorisations name
  form       \* form[f]: the form served in slot f

nvars == <<networks, used, form>>

\* row is the id an update, toggle or delete is about, 0 for an addition; net and
\* active are what it is about to write.
Form == [pc : {"idle", "found", "checked", "unused"}, op : {"add", "update", "toggle", "delete"},
         row : 0 .. MaxNetworks, net : Nets \cup {None}, active : BOOLEAN]

TypeOK ==
  /\ networks \in Seq(Network \cup {None}) /\ Len(networks) <= MaxNetworks
  /\ used \in SUBSET Nets
  /\ form \in [Forms -> Form]

NoForm == [pc |-> "idle", op |-> "add", row |-> 0, net |-> None, active |-> FALSE]

Init ==
  /\ networks = << >> /\ used = {}
  /\ form = [f \in Forms |-> NoForm]

Ids == {i \in 1 .. Len(networks) : networks[i] # None}

\* The rows of a network, as the duplicate check looks for them.
Same(net) == {i \in Ids : networks[i].net = net}

EndForm(f) == form' = [form EXCEPT ![f] = NoForm]

-----------------------------------------------------------------------------
\* Mutant: the check of an update is left out.
CheckSkipped(f, net, row, active) ==
  /\ form[f].pc = "idle"
  /\ row = 0 => Same(net) = {}
  /\ row # 0 => row \in Ids
  /\ form' = [form EXCEPT ![f] = [pc |-> "checked", op |-> IF row = 0 THEN "add" ELSE "update",
                                  row |-> row, net |-> net, active |-> active]]
  /\ UNCHANGED <<networks, used>>

\* An addition, or an update of a row that is there: refused when another row
\* has the same network.
Check(f, net, row, active) ==
  /\ form[f].pc = "idle"
  /\ row # 0 => row \in Ids
  /\ Same(net) \ {row} = {}
  /\ form' = [form EXCEPT ![f] = [pc |-> "checked", op |-> IF row = 0 THEN "add" ELSE "update",
                                  row |-> row, net |-> net, active |-> active]]
  /\ UNCHANGED <<networks, used>>

Add(f) ==
  /\ form[f].pc = "checked" /\ form[f].op = "add"
  /\ Len(networks) < MaxNetworks
  /\ networks' = Append(networks, [net |-> form[f].net, active |-> form[f].active])
  /\ EndForm(f) /\ UNCHANGED used

\* By id: nothing, if the row is gone.
Update(f) ==
  /\ form[f].pc = "checked" /\ form[f].op = "update"
  /\ networks' = IF form[f].row \in Ids
                 THEN [networks EXCEPT ![form[f].row] =
                         [net |-> form[f].net, active |-> form[f].active]]
                 ELSE networks
  /\ EndForm(f) /\ UNCHANGED used

\* A toggle reads the row, a deletion its network too.
Find(f, op, row) ==
  /\ form[f].pc = "idle" /\ row \in Ids
  /\ form' = [form EXCEPT ![f] = [pc |-> "found", op |-> op, row |-> row, net |-> networks[row].net,
                                  active |-> ~ networks[row].active]]
  /\ UNCHANGED <<networks, used>>

Toggle(f) ==
  /\ form[f].pc = "found" /\ form[f].op = "toggle"
  /\ networks' = IF form[f].row \in Ids
                 THEN [networks EXCEPT ![form[f].row].active = form[f].active] ELSE networks
  /\ EndForm(f) /\ UNCHANGED used

\* A network that sessions or pending rows name is not deleted.
CheckUnused(f) ==
  /\ form[f].pc = "found" /\ form[f].op = "delete"
  /\ IF form[f].net \in used THEN EndForm(f)
                             ELSE form' = [form EXCEPT ![f].pc = "unused"]
  /\ UNCHANGED <<networks, used>>

Delete(f) ==
  /\ form[f].pc = "unused"
  /\ networks' = IF form[f].row \in Ids THEN [networks EXCEPT ![form[f].row] = None] ELSE networks
  /\ EndForm(f) /\ UNCHANGED used

\* resolve_network_info finds an active network for the address of a guest, who
\* gets a session or a pending row there.
Visit(net) ==
  /\ \E i \in Same(net) : networks[i].active
  /\ used' = used \cup {net}
  /\ UNCHANGED <<networks, form>>

\* Old rows are deleted (retention).
Forget(net) == used' = used \ {net} /\ UNCHANGED <<networks, form>>

FormStep(f) ==
  \/ \E net \in Nets, row \in 0 .. Len(networks), active \in BOOLEAN : Check(f, net, row, active)
  \/ \E op \in {"toggle", "delete"}, row \in 1 .. Len(networks) : Find(f, op, row)
  \/ Add(f) \/ Update(f) \/ Toggle(f) \/ CheckUnused(f) \/ Delete(f)

Next ==
  \/ \E f \in Forms : FormStep(f)
  \/ \E net \in Nets : Visit(net) \/ Forget(net)

Spec == Init /\ [][Next]_nvars

-----------------------------------------------------------------------------
\* Forms that have checked and will make one more row of a network.
Claims(net) ==
  {f \in Forms : /\ form[f].pc = "checked" /\ form[f].net = net
                 /\ form[f].op = "add" \/ form[f].row \in Ids \ Same(net)}

\* A network is in the table once, but for forms served at once, each of which
\* may add a twin: the guest's hotel is then that of the first row.
TwinsAreBounded == \A net \in Nets :
  Cardinality(Same(net)) + Cardinality(Claims(net)) <= Cardinality(Forms)

=============================================================================
