---------------------------- MODULE MCPhoneAuth ----------------------------
(***************************************************************************)
(* PhoneAuth on small instances for TLC.                                   *)
(***************************************************************************)
EXTENDS PhoneAuth, TLC

\* Sound for the safety runs: nothing tells two phones, two devices or two
\* request slots apart.
Symmetry ==
  Permutations(Phones) \cup Permutations(Macs) \cup Permutations(Requests)

=============================================================================
