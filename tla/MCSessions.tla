----------------------------- MODULE MCSessions -----------------------------
(***************************************************************************)
(* Sessions on small instances for TLC.                                    *)
(***************************************************************************)
EXTENDS Sessions, TLC

\* Sound for the safety runs: phones, rooms, devices, numbers and slots are
\* only compared for equality.
Symmetry ==
  Permutations(Phones) \cup Permutations(Macs) \cup Permutations(Accts) \cup Permutations(Requests)

=============================================================================
