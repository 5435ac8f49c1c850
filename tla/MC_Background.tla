---------------------------- MODULE MC_Background ----------------------------
(* Workers and stores of the service: reports and their delivery, the DLP     *)
(* stores, the evidence ledger.  No step of one part reads a variable of      *)
(* another, so what a part can do is seen in the behaviours in which it alone *)
(* moves; the others keep their initial states.                               *)
EXTENDS ComplianceReports, DlpStore, EvidenceLedger, TLC

VARIABLE part   \* the part that moves

otherReports == UNCHANGED <<dlpVars, ledgerVars>>
otherDlp == UNCHANGED <<reportsVars, ledgerVars>>
otherLedger == UNCHANGED <<reportsVars, dlpVars>>

backgroundVars == <<reportsVars, dlpVars, ledgerVars, part>>

BackgroundInit ==
  /\ ReportsInit /\ DlpInit /\ LedgerInit
  /\ part \in {"reports", "standards", "scans", "stores", "records", "stream", "batch", "chain"}
  /\ unique => part = "records"

BackgroundNext ==
  /\ UNCHANGED part
  /\ \/ part = "reports" /\ ReportsNext /\ otherReports
     \/ part = "standards" /\ StandardsNext /\ otherReports
     \/ part = "scans" /\ ScansNext /\ otherDlp
     \/ part = "stores" /\ StoresNext /\ otherDlp
     \/ part = "records" /\ RecordsNext /\ otherLedger
     \/ part = "stream" /\ StreamNext /\ otherLedger
     \/ part = "batch" /\ BatchNext /\ otherLedger
     \/ part = "chain" /\ ChainNext /\ otherLedger

Spec == BackgroundInit /\ [][BackgroundNext]_backgroundVars

\* The types of the three modules.
TypeOK == ReportsTypeOK /\ DlpTypeOK /\ LedgerTypeOK

Symmetry == Permutations(Pods) \cup Permutations(Tenants) \cup Permutations(Periods) \cup Permutations(Builds)
=============================================================================
