------------------------------- MODULE Tables -------------------------------
(***************************************************************************)
(* What the modules of this project take from SQLite: a table is a         *)
(* sequence of rows whose index is the row's id (INTEGER PRIMARY KEY, in   *)
(* the order of the INSERTs).                                              *)
(***************************************************************************)
EXTENDS Integers, Sequences

\* The ids of a table.
Ids(table) == 1 .. Len(table)

\* ORDER BY id DESC LIMIT 1
Newest(ids) == CHOOSE i \in ids : \A j \in ids : j <= i

\* UPDATE table SET ... WHERE id IN ids
UpdateWhere(table, ids, Set(_)) ==
  [i \in Ids(table) |-> IF i \in ids THEN Set(table[i]) ELSE table[i]]

=============================================================================
