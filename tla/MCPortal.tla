------------------------------ MODULE MCPortal ------------------------------
(***************************************************************************)
(* Portal on small instances for TLC.                                      *)
(***************************************************************************)
EXTENDS Portal, TLC

\* Sound for the safety run: devices are only compared for equality.
Symmetry == Permutations(Macs)

=============================================================================
