----------------------------- MODULE MC_Casework -----------------------------
(* Case files, governance and compliance records of one tenant.  No handler   *)
(* of one part reads a table of another, so what a part can do is seen in the *)
(* behaviours in which only its requests come in; the others keep their       *)
(* initial states.                                                            *)
EXTENDS CaseFiles, Governance, ComplianceRecords, TLC

CONSTANTS k1, k2, hitlCase

MCCaseIds == Keys \cup {hitlCase}

VARIABLE part   \* whose requests come in

caseworkVars == <<filesVars, govVars, recordsVars, part>>

CaseworkInit ==
  /\ FilesInit /\ GovInit /\ RecordsInit
  /\ part \in {"cases", "actions", "findings", "proposals", "peers", "policies", "records"}
  /\ hitl \/ ~textual => part = "records"
  /\ \A k \in Keys : table[k].case = hitlCase   \* what an absent row holds is never read

CaseworkNext ==
  /\ UNCHANGED part
  /\ \/ part = "cases" /\ CasesNext /\ UNCHANGED <<govVars, recordsVars>>
     \/ part = "actions" /\ ActionsNext /\ UNCHANGED <<govVars, recordsVars>>
     \/ part = "findings" /\ FindingsNext /\ UNCHANGED <<govVars, recordsVars>>
     \/ part = "proposals" /\ ProposalsNext /\ UNCHANGED <<filesVars, recordsVars>>
     \/ part = "peers" /\ PeersNext /\ UNCHANGED <<filesVars, recordsVars>>
     \/ part = "policies" /\ PoliciesNext /\ UNCHANGED <<filesVars, recordsVars>>
     \/ part = "records" /\ RecordsNext /\ UNCHANGED <<filesVars, govVars>>

Spec == CaseworkInit /\ [][CaseworkNext]_caseworkVars

\* The types of the three modules.
TypeOK == FilesTypeOK /\ GovTypeOK /\ RecordsTypeOK
=============================================================================
