---------------------------- MODULE MCExportJobs ----------------------------
(***************************************************************************)
(* ExportJobs on small instances for TLC.                                  *)
(***************************************************************************)
EXTENDS ExportJobs

=============================================================================
