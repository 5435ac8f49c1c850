------------------------ MODULE MC_ComplianceRecords ------------------------
(* Instances of ComplianceRecords for TLC. *)
EXTENDS ComplianceRecords, TLC

CONSTANTS k1, k2, hitlCase

MCCaseIds == Keys \cup {hitlCase}
=============================================================================
