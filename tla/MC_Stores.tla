------------------------------ MODULE MC_Stores ------------------------------
(* Rows that overlapping requests read and write: the evidence vault, the     *)
(* sources of documents, the resource graph, the life of a case.  The graph   *)
(* is read from tables whose rows come in at any time, no other part reads a  *)
(* table of a second one: what a part can do is seen in the behaviours in     *)
(* which it alone moves, and the others keep their initial states.            *)
EXTENDS EvidenceVault, DocumentSources, ResourceGraph, CaseLifecycle, TLC

VARIABLE part   \* the part that moves

otherVault == UNCHANGED <<sourcesVars, graphVars, lifecycleVars>>
otherSources == UNCHANGED <<vars, graphVars, lifecycleVars>>
otherGraph == UNCHANGED <<vars, sourcesVars, lifecycleVars>>
otherLifecycle == UNCHANGED <<vars, sourcesVars, graphVars>>

\* The moves of a case do not depend on another case.
OneOpening == \A c, d \in Openings : openings[c].pc # "idle" /\ openings[d].pc # "idle" => c = d

\* One drive meets the extractions.
OneSync == \A r, s \in Syncs : syncs[r].pc # "idle" /\ syncs[s].pc # "idle" => r = s

\* Enough policy rows for each to differ from one other in each column.
FewRows == Cardinality(policyRows) <= 3

storesVars == <<vars, sourcesVars, graphVars, lifecycleVars, part>>

StoresInit ==
  /\ Init /\ SourcesInit /\ GraphInit /\ LifecycleInit
  /\ part \in {"vault", "drives", "extracts", "graph", "scans", "super", "openings", "moves"}
  /\ part # "vault" => \A r \in Records : ~vault[r].there
  /\ ape => part = "extracts"
  /\ ~floats => part = "moves"
  /\ \A d \in Docs : docs[d].ref = "none" <=> part # "extracts"
  /\ \A a \in GraphAgents : owner[a] # NoTenant <=> part \in {"graph", "scans"}

StoresNext ==
  /\ UNCHANGED part
  /\ \/ part = "vault" /\ Next /\ otherVault
     \/ part = "drives" /\ SyncsNext /\ otherSources
     \/ part = "extracts" /\ SourcesNext /\ OneSync' /\ UNCHANGED drive /\ otherSources
     \/ part = "graph" /\ LiveNext /\ FewRows' /\ otherGraph
     \/ part = "scans" /\ CollectNext /\ otherGraph
     \/ part = "super" /\ SuperNext /\ otherGraph
     \/ part = "openings" /\ OpeningsNext /\ otherLifecycle
     \/ part = "moves" /\ LifecycleNext /\ OneOpening' /\ otherLifecycle

StoresSpec == StoresInit /\ [][StoresNext]_storesVars

\* The types of the four modules.
StoresTypeOK == TypeOK /\ SourcesTypeOK /\ GraphTypeOK /\ LifecycleTypeOK

\* Values stand for members of several sets, so that few permutations do.
Symmetry == Permutations(Records) \cup Permutations(Workers) \cup Permutations(Connectors)
=============================================================================
