--------------------------- MODULE MCVoucherAuth ---------------------------
(***************************************************************************)
(* VoucherAuth on small instances for TLC.                                 *)
(***************************************************************************)
EXTENDS VoucherAuth, TLC

\* Sound for the safety runs: codes, devices and slots are only compared for
\* equality.
Symmetry == Permutations(Vouchers) \cup Permutations(Macs) \cup Permutations(Requests)

=============================================================================
