------------------------------ MODULE StoresProofs -----------------------------
(* Theorems of DocumentSources, ResourceGraph and CaseLifecycle, for any       *)
(* documents, connectors, tenants, agents, policies, cases and requests.       *)
EXTENDS MC_Stores, EvidenceVaultProofs, FiniteSetTheorems, TLAPS

-----------------------------------------------------------------------------
(* Resource graph: the live graph                                              *)

\* An edge is of a row of its tenant, and the policies that were read after
\* the bindings were read after them.
EdgesOfRows ==
  \A g \in Graphs :
    /\ ~graphs[g].open => graphs[g].edges = {}
    /\ \A e \in graphs[g].edges : \E r \in OfTenant(graphs[g].tenant) : r.policy = e[2]
    /\ "bindings" \in graphs[g].queries["policies"].after => graphs[g].queries["bindings"].state = "read"

LiveInv == policyRows \subseteq PolicyRow /\ graphs \in [Graphs -> LiveGraph] /\ EdgesOfRows /\ EdgeTargetsShown

\* A row and an edge have one field of their own each.
LEMMA RowFields ==
  /\ \A r \in PolicyRow : r.tenant \in GraphTenants /\ r.policy \in GraphPolicies
                            /\ r.agent \in GraphAgents \cup {NoAgent}
  /\ \A a, p : <<a, p>>[2] = p
  BY DEF PolicyRow

\* Before a graph is built its edges and rows agree: there are none.
LEMMA LiveInitInv == GraphInit => LiveInv
  <1>. SUFFICES ASSUME GraphInit PROVE LiveInv
    OBVIOUS
  <1>1. graphs \in [Graphs -> LiveGraph]
    BY DEF GraphInit, LiveGraph, Query, Queries
  <1>2. \A g \in Graphs : /\ graphs[g].edges = {}
                          /\ graphs[g].queries["policies"].state = "open"
                          /\ graphs[g].queries["policies"].after = {}
    BY DEF GraphInit, Queries
  <1>3. EdgesOfRows /\ EdgeTargetsShown
    BY <1>2 DEF EdgesOfRows, EdgeTargetsShown
  <1>. QED BY <1>1, <1>3 DEF GraphInit, LiveInv

\* Rows are added and changed, never without a row of the same tenant and policy.
LEMMA RowsStay ==
  ASSUME LiveInv, NEW rows1, rows1 \subseteq PolicyRow, policyRows' = rows1, graphs' = graphs,
         \A r \in policyRows : \E q \in rows1 : q.tenant = r.tenant /\ q.policy = r.policy
  PROVE  LiveInv'
  <1>1. EdgesOfRows'
    <2>. SUFFICES ASSUME NEW g \in Graphs, NEW e \in graphs[g].edges
                  PROVE  \E r \in OfTenant(graphs[g].tenant)' : r.policy = e[2]
      BY DEF LiveInv, EdgesOfRows
    <2>1. PICK r \in policyRows : r.tenant = graphs[g].tenant /\ r.policy = e[2]
      BY DEF LiveInv, EdgesOfRows, OfTenant
    <2>2. PICK q \in rows1 : q.tenant = r.tenant /\ q.policy = r.policy
      OBVIOUS
    <2>. QED BY <2>1, <2>2 DEF OfTenant
  <1>2. EdgeTargetsShown'
    BY DEF LiveInv, EdgeTargetsShown
  <1>. QED BY <1>1, <1>2 DEF LiveInv

\* A row that appears gives no graph an edge and takes none away.
LEMMA AddPolicyKeeps ==
  ASSUME LiveInv, NEW t \in GraphTenants, NEW a \in GraphAgents \cup {NoAgent}, NEW p \in GraphPolicies,
         policyRows' = policyRows \cup {[tenant |-> t, agent |-> a, policy |-> p, active |-> TRUE]},
         graphs' = graphs
  PROVE  LiveInv'
  <1>. DEFINE row == [tenant |-> t, agent |-> a, policy |-> p, active |-> TRUE]
  <1>1. row \in PolicyRow
    BY DEF PolicyRow
  <1>. HIDE DEF row
  <1>2. policyRows \cup {row} \subseteq PolicyRow
    BY <1>1 DEF LiveInv
  <1>3. policyRows' = policyRows \cup {row}
    BY DEF row
  <1>. QED BY <1>2, <1>3, RowsStay

\* The rows of an agent end; they stay rows of the tenant, and graphs keep their
\* edges.
LEMMA UnbindKeeps ==
  ASSUME LiveInv, NEW t \in GraphTenants, NEW a \in GraphAgents, NEW p \in GraphPolicies,
         HandleUnbindPolicy(t, a, p)
  PROVE  LiveInv'
  <1>. DEFINE ended(r) == IF r.tenant = t /\ r.agent = a THEN [r EXCEPT !.active = FALSE] ELSE r
              rows1 == {ended(r) : r \in policyRows}
  <1>1. \A r \in policyRows : ended(r) \in PolicyRow /\ ended(r).tenant = r.tenant /\ ended(r).policy = r.policy
    BY DEF LiveInv, PolicyRow
  <1>2. policyRows' = rows1 /\ graphs' = graphs
    BY DEF HandleUnbindPolicy
  <1>3. \A r \in policyRows : ended(r) \in rows1
    OBVIOUS
  <1>4. \A q \in rows1 : \E r \in policyRows : q = ended(r)
    OBVIOUS
  <1>. HIDE DEF rows1, ended
  <1>5. rows1 \subseteq PolicyRow
    BY <1>1, <1>4
  <1>6. \A r \in policyRows : \E q \in rows1 : q.tenant = r.tenant /\ q.policy = r.policy
    BY <1>1, <1>3
  <1>. QED BY <1>2, <1>5, <1>6, RowsStay

\* What has become of the other graphs does not change.
LEMMA OneGraphSteps ==
  ASSUME LiveInv, NEW g \in Graphs, NEW row \in LiveGraph, graphs' = [graphs EXCEPT ![g] = row],
         policyRows' = policyRows,
         ~row.open => row.edges = {},
         \A e \in row.edges : \E r \in OfTenant(row.tenant) : r.policy = e[2],
         "bindings" \in row.queries["policies"].after => row.queries["bindings"].state = "read",
         row.queries["policies"].state = "read" /\ "bindings" \in row.queries["policies"].after
           => \A e \in row.edges : e[2] \in row.policies
  PROVE  LiveInv'
  <1>1. graphs' \in [Graphs -> LiveGraph] /\ graphs'[g] = row
          /\ \A h \in Graphs : h # g => graphs'[h] = graphs[h]
    BY DEF LiveInv
  <1>2. \A t : OfTenant(t)' = OfTenant(t)
    BY DEF OfTenant
  <1>3. EdgesOfRows'
    BY <1>1, <1>2 DEF LiveInv, EdgesOfRows
  <1>4. EdgeTargetsShown'
    BY <1>1 DEF LiveInv, EdgeTargetsShown
  <1>. QED BY <1>1, <1>3, <1>4 DEF LiveInv

\* A query that was open: its row, read or failed.
LEMMA QueryRow ==
  ASSUME LiveInv, NEW g \in Graphs, NEW q \in Queries, NEW state \in {"failed", "read"}
  PROVE  /\ graphs[g] \in LiveGraph
         /\ Done(g, state) \in Query
         /\ Done(g, state).state = state
         /\ \A x \in Queries : x \in Done(g, state).after <=> graphs[g].queries[x].state = "read"
         /\ [graphs[g].queries EXCEPT ![q] = Done(g, state)] \in [Queries -> Query]
  <1>1. graphs[g] \in LiveGraph /\ graphs[g].queries \in [Queries -> Query]
    BY DEF LiveInv, LiveGraph
  <1>. DEFINE read == {x \in Queries : graphs[g].queries[x].state = "read"}
  <1>2. Done(g, state) = [state |-> state, after |-> read]
    BY DEF Done
  <1>3. read \in SUBSET {"agents", "policies", "bindings"}
    BY DEF Queries
  <1>4. \A x \in Queries : x \in read <=> graphs[g].queries[x].state = "read"
    OBVIOUS
  <1>. HIDE DEF read
  <1>5. Done(g, state) \in Query /\ Done(g, state).state = state /\ Done(g, state).after = read
    BY <1>2, <1>3 DEF Query
  <1>. QED BY <1>1, <1>4, <1>5

\* Every step of rows and live graphs keeps their agreement.
LEMMA LiveKeeps ==
  ASSUME LiveInv, LiveNext
  PROVE  LiveInv'
  <1>1. ASSUME NEW t \in GraphTenants, NEW p \in GraphPolicies,
               \/ AddPolicy(t, p)
               \/ \E a \in GraphAgents : HandleBindPolicy(t, a, p) \/ HandleUnbindPolicy(t, a, p)
        PROVE  LiveInv'
    BY <1>1, AddPolicyKeeps, UnbindKeeps DEF AddPolicy, HandleBindPolicy
  <1>2. ASSUME NEW g \in Graphs, NEW t \in GraphTenants, HandleGetResourceGraph(g, t) PROVE LiveInv'
    <2>. DEFINE row == [graphs[g] EXCEPT !.open = TRUE, !.tenant = t]
    <2>1. /\ row \in LiveGraph /\ row.open = TRUE /\ row.tenant = t /\ row.queries = graphs[g].queries
          /\ row.agents = graphs[g].agents /\ row.policies = graphs[g].policies /\ row.edges = graphs[g].edges
      BY DEF LiveInv, LiveGraph
    <2>2. row.edges = {} /\ graphs' = [graphs EXCEPT ![g] = row] /\ policyRows' = policyRows
      BY <1>2, <2>1 DEF HandleGetResourceGraph, LiveInv, EdgesOfRows
    <2>. HIDE DEF row
    <2>. QED BY <2>1, <2>2, OneGraphSteps DEF LiveInv, EdgesOfRows
  <1>3. ASSUME NEW g \in Graphs, NEW q \in Queries, FailQuery(g, q) PROVE LiveInv'
    <2>. DEFINE row == [graphs[g] EXCEPT !.queries[q] = Done(g, "failed")]
    <2>1. row \in LiveGraph /\ row.open = graphs[g].open /\ row.tenant = graphs[g].tenant
            /\ row.queries = [graphs[g].queries EXCEPT ![q] = Done(g, "failed")]
            /\ row.policies = graphs[g].policies /\ row.edges = graphs[g].edges
      BY QueryRow DEF LiveGraph
    <2>2. graphs' = [graphs EXCEPT ![g] = row] /\ policyRows' = policyRows /\ Open(g, q)
      BY <1>3 DEF FailQuery
    <2>. HIDE DEF row
    <2>3. \A x \in Queries : row.queries[x] = IF x = q THEN Done(g, "failed") ELSE graphs[g].queries[x]
      BY <2>1 DEF LiveInv, LiveGraph
    <2>4. Done(g, "failed").state = "failed"
            /\ ("bindings" \in Done(g, "failed").after => graphs[g].queries["bindings"].state = "read")
      BY QueryRow DEF Queries
    <2>5. "policies" \in Queries /\ "bindings" \in Queries /\ graphs[g].queries[q].state = "open"
      BY <2>2 DEF Queries, Open
    <2>6. "bindings" \in row.queries["policies"].after => row.queries["bindings"].state = "read"
      BY <2>3, <2>4, <2>5 DEF LiveInv, EdgesOfRows
    <2>7. row.queries["policies"].state = "read" => row.queries["policies"] = graphs[g].queries["policies"]
      BY <2>3, <2>4, <2>5
    <2>8. row.queries["policies"].state = "read" /\ "bindings" \in row.queries["policies"].after
            => \A e \in row.edges : e[2] \in row.policies
      BY <2>1, <2>7 DEF LiveInv, EdgeTargetsShown
    <2>9. /\ ~row.open => row.edges = {}
          /\ \A e \in row.edges : \E r \in OfTenant(row.tenant) : r.policy = e[2]
      BY <2>1 DEF LiveInv, EdgesOfRows
    <2>. QED BY <2>1, <2>2, <2>6, <2>8, <2>9, OneGraphSteps
  <1>4. ASSUME NEW g \in Graphs, ReadAgents(g) PROVE LiveInv'
    <2>. DEFINE seen == {a \in GraphAgents : owner[a] = graphs[g].tenant}
                row == [graphs[g] EXCEPT !.queries["agents"] = Done(g, "read"), !.agents = seen]
    <2>1. row \in LiveGraph /\ row.open = graphs[g].open /\ row.tenant = graphs[g].tenant
            /\ row.queries = [graphs[g].queries EXCEPT !["agents"] = Done(g, "read")]
            /\ row.policies = graphs[g].policies /\ row.edges = graphs[g].edges
      BY QueryRow DEF LiveGraph, Queries
    <2>2. graphs' = [graphs EXCEPT ![g] = row] /\ policyRows' = policyRows
      BY <1>4 DEF ReadAgents
    <2>. HIDE DEF row
    <2>3. row.queries["policies"] = graphs[g].queries["policies"]
            /\ row.queries["bindings"] = graphs[g].queries["bindings"]
      BY <2>1 DEF LiveInv, LiveGraph, Queries
    <2>4. /\ ~row.open => row.edges = {}
          /\ \A e \in row.edges : \E r \in OfTenant(row.tenant) : r.policy = e[2]
          /\ "bindings" \in row.queries["policies"].after => row.queries["bindings"].state = "read"
          /\ row.queries["policies"].state = "read" /\ "bindings" \in row.queries["policies"].after
               => \A e \in row.edges : e[2] \in row.policies
      BY <2>1, <2>3 DEF LiveInv, EdgesOfRows, EdgeTargetsShown
    <2>. QED BY <2>1, <2>2, <2>4, OneGraphSteps
  <1>5. ASSUME NEW g \in Graphs, ReadPolicies(g) PROVE LiveInv'
    <2>. DEFINE read == {r.policy : r \in OfTenant(graphs[g].tenant)}
                row == [graphs[g] EXCEPT !.queries["policies"] = Done(g, "read"), !.policies = read]
    <2>1. read \subseteq GraphPolicies
      BY RowFields DEF OfTenant, LiveInv
    <2>2. \A e \in graphs[g].edges : e[2] \in read
      BY DEF LiveInv, EdgesOfRows
    <2>3. graphs' = [graphs EXCEPT ![g] = row] /\ policyRows' = policyRows
      BY <1>5 DEF ReadPolicies
    <2>. HIDE DEF read
    <2>4. row \in LiveGraph /\ row.open = graphs[g].open /\ row.tenant = graphs[g].tenant
            /\ row.queries = [graphs[g].queries EXCEPT !["policies"] = Done(g, "read")]
            /\ row.policies = read /\ row.edges = graphs[g].edges
      BY <2>1, QueryRow DEF LiveGraph, Queries
    <2>. HIDE DEF row
    <2>5. row.queries["policies"] = Done(g, "read")
            /\ row.queries["bindings"] = graphs[g].queries["bindings"]
      BY <2>4 DEF LiveInv, LiveGraph, Queries
    <2>6. "bindings" \in row.queries["policies"].after => row.queries["bindings"].state = "read"
      BY <2>5, QueryRow DEF Queries
    <2>7. /\ ~row.open => row.edges = {}
          /\ \A e \in row.edges : \E r \in OfTenant(row.tenant) : r.policy = e[2]
          /\ \A e \in row.edges : e[2] \in row.policies
      BY <2>2, <2>4 DEF LiveInv, EdgesOfRows
    <2>. QED BY <2>3, <2>4, <2>6, <2>7, OneGraphSteps
  <1>6. ASSUME NEW g \in Graphs, ReadBindings(g) PROVE LiveInv'
    <2>. DEFINE read == {<<r.agent, r.policy>> : r \in OfTenant(graphs[g].tenant)}
                row == [graphs[g] EXCEPT !.queries["bindings"] = Done(g, "read"), !.edges = read]
    <2>1. read \subseteq (GraphAgents \cup {NoAgent}) \X GraphPolicies
      BY RowFields DEF OfTenant, LiveInv
    <2>2. \A e \in read : \E r \in OfTenant(graphs[g].tenant) : r.policy = e[2]
      OBVIOUS
    <2>3. graphs' = [graphs EXCEPT ![g] = row] /\ policyRows' = policyRows /\ Open(g, "bindings")
      BY <1>6 DEF ReadBindings
    <2>. HIDE DEF read
    <2>4. row \in LiveGraph /\ row.open = graphs[g].open /\ row.tenant = graphs[g].tenant
            /\ row.queries = [graphs[g].queries EXCEPT !["bindings"] = Done(g, "read")]
            /\ row.policies = graphs[g].policies /\ row.edges = read
      BY <2>1, QueryRow DEF LiveGraph, Queries
    <2>. HIDE DEF row
    <2>5. row.queries["policies"] = graphs[g].queries["policies"]
      BY <2>4 DEF LiveInv, LiveGraph, Queries
    <2>6. "bindings" \notin row.queries["policies"].after /\ row.open = TRUE
      BY <2>3, <2>4, <2>5 DEF LiveInv, EdgesOfRows, Open, LiveGraph
    <2>7. \A e \in row.edges : \E r \in OfTenant(row.tenant) : r.policy = e[2]
      BY <2>2, <2>4
    <2>. QED BY <2>3, <2>4, <2>6, <2>7, OneGraphSteps
  <1>. QED BY <1>1, <1>2, <1>3, <1>4, <1>5, <1>6 DEF LiveNext

-----------------------------------------------------------------------------
(* Resource graph: scans                                                       *)

Nodes(table) == \A i \in DOMAIN table : table[i].key \in Key /\ table[i].tenant \in GraphTenants

\* An object_id is the kind of its node, and the source of an edge is the one
\* object_id of all agents.
IdIsKind == \A i \in DOMAIN nodes : nodes[i].key.kind = i
SourceIsAgent == \A i \in DOMAIN edges : edges[i].source = "agent"

AgentWritten == "agent" \in DOMAIN nodes \/ \E s \in Collects : collects[s].excused

\* A scan comes to policies and edges only after a node of an agent.
AgentsFirst ==
  \A s \in Collects :
    /\ collects[s].agents \subseteq Registered
    /\ collects[s].pc = "agentNodes" /\ collects[s].tenants # {} => collects[s].agents # {} \/ AgentWritten
    /\ collects[s].pc \in {"tenants", "policyNodes", "edges"} => AgentWritten
    /\ collects[s].pc \in {"policyNodes", "edges"} => collects[s].tenant \in GraphTenants

ScansInv ==
  /\ owner \in [GraphAgents -> GraphTenants \cup {NoTenant}]
  /\ decisions \subseteq Binding
  /\ collects \in [Collects -> Scan]
  /\ Nodes(nodes) /\ Nodes(edges)
  /\ IdIsKind /\ SourceIsAgent /\ AgentsFirst
  /\ DOMAIN edges # {} => AgentWritten

\* A graph that no scan has written to.
LEMMA ScansInitInv == GraphInit => ScansInv
  <1>. SUFFICES ASSUME GraphInit PROVE ScansInv
    OBVIOUS
  <1>1. collects \in [Collects -> Scan]
    BY DEF GraphInit, Scan, ScanPcs
  <1>2. DOMAIN nodes = {} /\ DOMAIN edges = {}
    BY DEF GraphInit, NoRows
  <1>3. \A s \in Collects : collects[s].pc = "idle" /\ collects[s].agents = {}
    BY DEF GraphInit
  <1>. QED BY <1>1, <1>2, <1>3 DEF GraphInit, ScansInv, Nodes, IdIsKind, SourceIsAgent, AgentsFirst

\* Nodes are only added, and a scan that lost one stays excused: what AgentWritten
\* says is not taken back.
LEMMA ScanSteps ==
  ASSUME ScansInv, NEW s \in Collects, NEW row \in Scan, collects' = [collects EXCEPT ![s] = row],
         owner' = owner, decisions' = decisions, Nodes(nodes)', Nodes(edges)', IdIsKind', SourceIsAgent',
         DOMAIN nodes \subseteq DOMAIN nodes', collects[s].excused => row.excused,
         row.agents \subseteq Registered,
         row.pc = "agentNodes" /\ row.tenants # {} => row.agents # {} \/ AgentWritten',
         row.pc \in {"tenants", "policyNodes", "edges"} => AgentWritten',
         row.pc \in {"policyNodes", "edges"} => row.tenant \in GraphTenants,
         DOMAIN edges' # DOMAIN edges => AgentWritten'
  PROVE  ScansInv'
  <1>1. collects' \in [Collects -> Scan] /\ collects'[s] = row
          /\ \A r \in Collects : r # s => collects'[r] = collects[r]
    BY DEF ScansInv
  <1>2. AgentWritten => AgentWritten'
    BY <1>1 DEF AgentWritten
  <1>3. Registered' = Registered
    BY DEF Registered
  <1>4. AgentsFirst'
    BY <1>1, <1>2, <1>3 DEF ScansInv, AgentsFirst
  <1>. QED BY <1>1, <1>2, <1>4 DEF ScansInv

\* A step of a scan that writes no node and no edge.
LEMMA ScanMoves ==
  ASSUME ScansInv, NEW s \in Collects, NEW row \in Scan, collects' = [collects EXCEPT ![s] = row],
         owner' = owner, decisions' = decisions, nodes' = nodes, edges' = edges,
         collects[s].excused => row.excused,
         row.agents \subseteq Registered,
         row.pc = "agentNodes" /\ row.tenants # {} => row.agents # {} \/ AgentWritten,
         row.pc \in {"tenants", "policyNodes", "edges"} => AgentWritten,
         row.pc \in {"policyNodes", "edges"} => row.tenant \in GraphTenants
  PROVE  ScansInv'
  <1>1. AgentWritten => AgentWritten'
    BY DEF AgentWritten, ScansInv
  <1>2. Nodes(nodes)' /\ Nodes(edges)' /\ IdIsKind' /\ SourceIsAgent'
    BY DEF Nodes, IdIsKind, SourceIsAgent, ScansInv
  <1>. QED BY <1>1, <1>2, ScanSteps

\* The two outcomes of a query.
LEMMA QueryMoves ==
  ASSUME NEW s \in Collects, NEW next, NEW skipped, QueryStep(s, next, skipped)
  PROVE  /\ \E row \in {next, skipped} : collects' = [collects EXCEPT ![s] = row]
         /\ owner' = owner /\ nodes' = nodes /\ edges' = edges /\ decisions' = decisions
  BY DEF QueryStep, tableVars

\* InsertNode adds at most the node whose object_id is its kind.
LEMMA InsertNodeAdds ==
  ASSUME ScansInv, NEW s \in Collects, NEW key \in Key, NEW tenant \in GraphTenants, NEW scan \in Scan,
         InsertNode(s, key, tenant, scan)
  PROVE  /\ Nodes(nodes)' /\ IdIsKind' /\ DOMAIN nodes \subseteq DOMAIN nodes'
         /\ \E row \in Scan : /\ collects' = [collects EXCEPT ![s] = row]
                              /\ row.pc = scan.pc /\ row.agents = scan.agents /\ row.tenants = scan.tenants
                              /\ row.tenant = scan.tenant /\ (scan.excused => row.excused)
                              /\ key.kind \in DOMAIN nodes' \/ row.excused
  <1>. DEFINE id == deterministicNodeID(key)
              excused == [scan EXCEPT !.excused = TRUE]
              added == [i \in DOMAIN nodes \cup {id} |->
                          IF i = id THEN [key |-> key, tenant |-> tenant] ELSE nodes[i]]
  <1>0. id = key.kind
    BY DEF deterministicNodeID
  <1>1. /\ excused \in Scan /\ excused.excused = TRUE /\ excused.pc = scan.pc
        /\ excused.agents = scan.agents /\ excused.tenants = scan.tenants /\ excused.tenant = scan.tenant
    BY DEF Scan
  <1>2. \/ nodes' = (IF id \in DOMAIN nodes THEN nodes ELSE added) /\ collects' = [collects EXCEPT ![s] = scan]
        \/ nodes' = nodes /\ collects' = [collects EXCEPT ![s] = excused]
    BY DEF InsertNode
  <1>3. Nodes(added) /\ (\A i \in DOMAIN added : added[i].key.kind = i)
          /\ DOMAIN added = DOMAIN nodes \cup {id}
    BY <1>0 DEF ScansInv, Nodes, IdIsKind
  <1>. HIDE DEF id, excused, added
  <1>4. CASE nodes' = (IF id \in DOMAIN nodes THEN nodes ELSE added) /\ collects' = [collects EXCEPT ![s] = scan]
    BY <1>0, <1>3, <1>4 DEF ScansInv, Nodes, IdIsKind
  <1>5. CASE nodes' = nodes /\ collects' = [collects EXCEPT ![s] = excused]
    BY <1>1, <1>5 DEF ScansInv, Nodes, IdIsKind
  <1>. QED BY <1>2, <1>4, <1>5

\* The agents a scan has found are registered ones.
LEMMA AgentsKeep ==
  ASSUME ScansInv, NEW s \in Collects, ScanAgents(s)
  PROVE  ScansInv'
  <1>. DEFINE reached == {owner[a] : a \in Registered}
              next == [collects[s] EXCEPT !.pc = "agentNodes", !.agents = Registered, !.tenants = reached]
              skipped == [collects[s] EXCEPT !.pc = "done"]
  <1>1. collects[s] \in Scan /\ collects[s].agents \subseteq Registered
    BY DEF ScansInv, AgentsFirst
  <1>2. reached \subseteq GraphTenants /\ (reached # {} => Registered # {}) /\ Registered \subseteq GraphAgents
    BY DEF ScansInv, Registered
  <1>3. QueryStep(s, next, skipped)
    BY DEF ScanAgents
  <1>. HIDE DEF reached
  <1>4. /\ next \in Scan /\ next.pc = "agentNodes" /\ next.agents = Registered /\ next.tenants = reached
        /\ next.excused = collects[s].excused
        /\ skipped \in Scan /\ skipped.pc = "done" /\ skipped.agents = collects[s].agents
        /\ skipped.excused = collects[s].excused
    BY <1>1, <1>2 DEF Scan, ScanPcs
  <1>. HIDE DEF next, skipped
  <1>. QED BY <1>1, <1>2, <1>3, <1>4, QueryMoves, ScanMoves

\* The upsert of an agent, which is what later steps of the scan rely on.
LEMMA AgentNodeKeeps ==
  ASSUME ScansInv, NEW s \in Collects, NEW a \in GraphAgents, AgentNode(s, a)
  PROVE  ScansInv'
  <1>. DEFINE key == [kind |-> "agent", of |-> a]
              scan == [collects[s] EXCEPT !.agents = @ \ {a}]
  <1>1. /\ collects[s] \in Scan /\ collects[s].agents \subseteq Registered /\ owner[a] \in GraphTenants
        /\ collects[s].pc = "agentNodes"
    BY DEF AgentNode, ScansInv, AgentsFirst, Registered
  <1>2. key \in Key /\ key.kind = "agent"
    BY DEF Key, Kinds
  <1>3. /\ scan \in Scan /\ scan.pc = "agentNodes" /\ scan.agents = collects[s].agents \ {a}
        /\ scan.excused = collects[s].excused
    BY <1>1 DEF Scan
  <1>4. InsertNode(s, key, owner[a], scan) /\ owner' = owner /\ decisions' = decisions /\ edges' = edges
    BY DEF AgentNode
  <1>. HIDE DEF key, scan
  <1>5. PICK row \in Scan : /\ collects' = [collects EXCEPT ![s] = row]
                            /\ row.pc = scan.pc /\ row.agents = scan.agents /\ row.tenants = scan.tenants
                            /\ row.tenant = scan.tenant /\ (scan.excused => row.excused)
                            /\ key.kind \in DOMAIN nodes' \/ row.excused
    BY <1>1, <1>2, <1>3, <1>4, InsertNodeAdds
  <1>6. Nodes(nodes)' /\ IdIsKind' /\ DOMAIN nodes \subseteq DOMAIN nodes'
    BY <1>1, <1>2, <1>3, <1>4, InsertNodeAdds
  <1>7. AgentWritten'
    BY <1>2, <1>5 DEF AgentWritten, ScansInv
  <1>8. Nodes(edges)' /\ SourceIsAgent'
    BY <1>4 DEF ScansInv, Nodes, SourceIsAgent
  <1>. QED BY <1>1, <1>3, <1>4, <1>5, <1>6, <1>7, <1>8, ScanSteps

\* A scan comes to the policies of a tenant after its agents.
LEMMA PoliciesKeep ==
  ASSUME ScansInv, policyRows \subseteq PolicyRow, NEW s \in Collects, NEW t \in GraphTenants, ScanPolicies(s, t)
  PROVE  ScansInv'
  <1>. DEFINE found == {r.policy : r \in OfTenant(t)}
              next == [collects[s] EXCEPT !.pc = "policyNodes", !.tenants = @ \ {t}, !.tenant = t, !.left = found]
              skipped == [collects[s] EXCEPT !.pc = "tenants", !.tenants = @ \ {t}]
  <1>1. collects[s] \in Scan /\ collects[s].agents \subseteq Registered /\ AgentWritten
    BY DEF ScanPolicies, ScansInv, AgentsFirst
  <1>2. found \subseteq GraphPolicies
    BY RowFields DEF OfTenant
  <1>3. QueryStep(s, next, skipped)
    BY DEF ScanPolicies
  <1>. HIDE DEF found
  <1>4. /\ next \in Scan /\ next.pc = "policyNodes" /\ next.agents = collects[s].agents /\ next.tenant = t
        /\ next.excused = collects[s].excused
        /\ skipped \in Scan /\ skipped.pc = "tenants" /\ skipped.agents = collects[s].agents
        /\ skipped.excused = collects[s].excused
    BY <1>1, <1>2 DEF Scan, ScanPcs
  <1>. HIDE DEF next, skipped
  <1>. QED BY <1>1, <1>3, <1>4, QueryMoves, ScanMoves

\* The upsert of a policy goes to the one row of its kind.
LEMMA PolicyNodeKeeps ==
  ASSUME ScansInv, NEW s \in Collects, NEW p \in GraphPolicies, PolicyNode(s, p)
  PROVE  ScansInv'
  <1>. DEFINE key == [kind |-> "policy", of |-> p]
              scan == [collects[s] EXCEPT !.left = @ \ {p}]
  <1>1. /\ collects[s] \in Scan /\ collects[s].agents \subseteq Registered /\ AgentWritten
        /\ collects[s].pc = "policyNodes" /\ collects[s].tenant \in GraphTenants
    BY DEF PolicyNode, ScansInv, AgentsFirst
  <1>2. key \in Key
    BY DEF Key, Kinds
  <1>3. /\ scan \in Scan /\ scan.pc = "policyNodes" /\ scan.agents = collects[s].agents
        /\ scan.excused = collects[s].excused /\ scan.tenant = collects[s].tenant
    BY <1>1 DEF Scan
  <1>4. /\ InsertNode(s, key, collects[s].tenant, scan)
        /\ owner' = owner /\ decisions' = decisions /\ edges' = edges
    BY DEF PolicyNode
  <1>. HIDE DEF key, scan
  <1>5. PICK row \in Scan : /\ collects' = [collects EXCEPT ![s] = row]
                            /\ row.pc = scan.pc /\ row.agents = scan.agents /\ row.tenants = scan.tenants
                            /\ row.tenant = scan.tenant /\ (scan.excused => row.excused)
    BY <1>1, <1>2, <1>3, <1>4, InsertNodeAdds
  <1>6. Nodes(nodes)' /\ IdIsKind' /\ DOMAIN nodes \subseteq DOMAIN nodes'
    BY <1>1, <1>2, <1>3, <1>4, InsertNodeAdds
  <1>7. AgentWritten'
    BY <1>1, <1>3, <1>5, <1>6 DEF AgentWritten, ScansInv
  <1>8. Nodes(edges)' /\ SourceIsAgent'
    BY <1>4 DEF ScansInv, Nodes, SourceIsAgent
  <1>. QED BY <1>1, <1>3, <1>4, <1>5, <1>6, <1>7, <1>8, ScanSteps

\* A scan comes to the edges after the nodes.
LEMMA DecisionsKeep ==
  ASSUME ScansInv, NEW s \in Collects, ScanDecisions(s)
  PROVE  ScansInv'
  <1>. DEFINE found == {d \in decisions : owner[d[1]] = collects[s].tenant}
              next == [collects[s] EXCEPT !.pc = "edges", !.left = found]
              skipped == [collects[s] EXCEPT !.pc = "tenants"]
  <1>1. /\ collects[s] \in Scan /\ collects[s].agents \subseteq Registered /\ AgentWritten
        /\ collects[s].tenant \in GraphTenants
    BY DEF ScanDecisions, ScansInv, AgentsFirst
  <1>2. found \subseteq Binding
    BY DEF ScansInv
  <1>3. QueryStep(s, next, skipped)
    BY DEF ScanDecisions
  <1>. HIDE DEF found
  <1>4. /\ next \in Scan /\ next.pc = "edges" /\ next.agents = collects[s].agents
        /\ next.tenant = collects[s].tenant /\ next.excused = collects[s].excused
        /\ skipped \in Scan /\ skipped.pc = "tenants" /\ skipped.agents = collects[s].agents
        /\ skipped.excused = collects[s].excused
    BY <1>1, <1>2 DEF Scan, ScanPcs
  <1>. HIDE DEF next, skipped
  <1>. QED BY <1>1, <1>3, <1>4, QueryMoves, ScanMoves

\* The upsert of an edge comes after the node of its source.
LEMMA BindingEdgeKeeps ==
  ASSUME ScansInv, NEW s \in Collects, NEW d \in Binding, BindingEdge(s, d)
  PROVE  ScansInv'
  <1>. DEFINE key == [kind |-> "binding", of |-> d]
              id == deterministicNodeID(key)
              scan == [collects[s] EXCEPT !.left = @ \ {d}]
              excused == [scan EXCEPT !.excused = TRUE]
              source == deterministicNodeID([kind |-> "agent", of |-> d[1]])
              edge == [key |-> key, tenant |-> collects[s].tenant, source |-> source,
                       target |-> deterministicNodeID([kind |-> "policy", of |-> d[2]])]
              added == [i \in DOMAIN edges \cup {id} |-> IF i # id THEN edges[i] ELSE edge]
  <1>1. /\ collects[s] \in Scan /\ collects[s].agents \subseteq Registered /\ AgentWritten
        /\ collects[s].pc = "edges" /\ collects[s].tenant \in GraphTenants
    BY DEF BindingEdge, ScansInv, AgentsFirst
  <1>2. key \in Key /\ source = "agent"
    BY DEF Key, Kinds, deterministicNodeID
  <1>3. /\ scan \in Scan /\ scan.pc = "edges" /\ scan.agents = collects[s].agents
        /\ scan.excused = collects[s].excused /\ scan.tenant = collects[s].tenant
    BY <1>1 DEF Scan
  <1>4. /\ excused \in Scan /\ excused.pc = "edges" /\ excused.agents = collects[s].agents
        /\ excused.excused = TRUE /\ excused.tenant = collects[s].tenant
    BY <1>3 DEF Scan
  <1>5. edge.key = key /\ edge.tenant = collects[s].tenant /\ edge.source = source
    OBVIOUS
  <1>6. \/ edges' = (IF id \in DOMAIN edges THEN edges ELSE added) /\ collects' = [collects EXCEPT ![s] = scan]
        \/ edges' = edges /\ collects' = [collects EXCEPT ![s] = excused]
    BY DEF BindingEdge
  <1>7. owner' = owner /\ decisions' = decisions /\ nodes' = nodes
    BY DEF BindingEdge
  <1>. HIDE DEF key, id, scan, excused, source, edge
  <1>8. Nodes(added) /\ (\A i \in DOMAIN added : added[i].source = "agent")
    BY <1>1, <1>2, <1>5 DEF ScansInv, Nodes, SourceIsAgent
  <1>. HIDE DEF added
  <1>9. Nodes(edges)' /\ SourceIsAgent'
    BY <1>6, <1>8 DEF ScansInv, Nodes, SourceIsAgent
  <1>10. Nodes(nodes)' /\ IdIsKind'
    BY <1>7 DEF ScansInv, Nodes, IdIsKind
  <1>11. PICK row \in Scan : /\ collects' = [collects EXCEPT ![s] = row]
                             /\ row.pc = "edges" /\ row.agents = collects[s].agents
                             /\ row.tenant = collects[s].tenant /\ (collects[s].excused => row.excused)
    BY <1>3, <1>4, <1>6
  <1>12. AgentWritten'
    BY <1>1, <1>7, <1>11 DEF AgentWritten, ScansInv
  <1>. QED BY <1>1, <1>7, <1>9, <1>10, <1>11, <1>12, ScanSteps

\* Every step of a scan keeps the order of its writes.
LEMMA ScansKeep ==
  ASSUME ScansInv, policyRows \subseteq PolicyRow, CollectNext
  PROVE  ScansInv'
  <1>1. ASSUME NEW a \in GraphAgents, NEW p \in GraphPolicies, Decide(a, p) PROVE ScansInv'
    BY <1>1 DEF Decide, ScansInv, Binding, Nodes, IdIsKind, SourceIsAgent, AgentsFirst, AgentWritten, Registered
  <1>2. ASSUME NEW t \in GraphTenants, NEW p \in GraphPolicies, AddPolicy(t, p) PROVE ScansInv'
    BY <1>2 DEF AddPolicy, tableVars, ScansInv, Nodes, IdIsKind, SourceIsAgent, AgentsFirst, AgentWritten, Registered
  <1>3. ASSUME NEW s \in Collects, NEW request \in BOOLEAN, StartScan(s, request) PROVE ScansInv'
    <2>. DEFINE row == [collects[s] EXCEPT !.pc = "agents", !.request = request]
    <2>1. collects[s] \in Scan /\ collects[s].agents \subseteq Registered
      BY DEF ScansInv, AgentsFirst
    <2>2. row \in Scan /\ row.pc = "agents" /\ row.agents = collects[s].agents /\ row.excused = collects[s].excused
      BY <2>1 DEF Scan, ScanPcs
    <2>3. collects' = [collects EXCEPT ![s] = row]
      BY <1>3 DEF StartScan
    <2>. HIDE DEF row
    <2>. QED BY <1>3, <2>1, <2>2, <2>3, ScanMoves DEF StartScan, tableVars
  <1>4. ASSUME NEW s \in Collects, AnswerScan(s) PROVE ScansInv'
    <2>. DEFINE row == [collects[s] EXCEPT !.answered = TRUE]
    <2>1. collects[s] \in Scan
      BY DEF ScansInv
    <2>2. row \in Scan /\ row.pc = collects[s].pc /\ row.agents = collects[s].agents
            /\ row.tenants = collects[s].tenants /\ row.tenant = collects[s].tenant /\ row.excused = collects[s].excused
      BY <2>1 DEF Scan
    <2>3. collects' = [collects EXCEPT ![s] = row]
      BY <1>4 DEF AnswerScan
    <2>4. owner' = owner /\ nodes' = nodes /\ edges' = edges /\ decisions' = decisions
      BY <1>4 DEF AnswerScan, tableVars
    <2>. HIDE DEF row
    <2>5. /\ row.agents \subseteq Registered
          /\ row.pc = "agentNodes" /\ row.tenants # {} => row.agents # {} \/ AgentWritten
          /\ row.pc \in {"tenants", "policyNodes", "edges"} => AgentWritten
          /\ row.pc \in {"policyNodes", "edges"} => row.tenant \in GraphTenants
      BY <2>2 DEF ScansInv, AgentsFirst
    <2>. QED BY <2>2, <2>3, <2>4, <2>5, ScanMoves
  <1>5. ASSUME NEW s \in Collects, FinishTenant(s) PROVE ScansInv'
    <2>1. collects[s] \in Scan /\ collects[s].agents \subseteq Registered
            /\ (collects[s].pc = "edges" => AgentWritten)
      BY DEF ScansInv, AgentsFirst
    <2>2. owner' = owner /\ nodes' = nodes /\ edges' = edges /\ decisions' = decisions
      BY <1>5 DEF FinishTenant, tableVars
    <2>3. \A pc \in {"tenants", "done"} :
            LET row == [collects[s] EXCEPT !.pc = pc]
            IN row \in Scan /\ row.pc = pc /\ row.agents = collects[s].agents /\ row.excused = collects[s].excused
      BY <2>1 DEF Scan, ScanPcs
    <2>4. CASE collects[s].pc = "edges" /\ collects' = [collects EXCEPT ![s].pc = "tenants"]
      BY <2>1, <2>2, <2>3, <2>4, ScanMoves
    <2>5. CASE collects' = [collects EXCEPT ![s].pc = "done"]
      BY <2>1, <2>2, <2>3, <2>5, ScanMoves
    <2>. QED BY <1>5, <2>4, <2>5 DEF FinishTenant
  <1>. QED BY <1>1, <1>2, <1>3, <1>4, <1>5, AgentsKeep, AgentNodeKeeps, PoliciesKeep, PolicyNodeKeeps,
              DecisionsKeep, BindingEdgeKeeps DEF CollectNext

-----------------------------------------------------------------------------
(* Resource graph: the supervisor                                              *)

SuperRow == [pc : {"run", "crashed", "stopped"}, backoff : 1..300, crashes : 0..MaxCrashes, waited : Nat]

\* Backoffs waited before the k-th restart, and the next one.
Waited(k) == IF k <= 0 THEN 0 ELSE IF k = 1 THEN 1 ELSE IF k = 2 THEN 3 ELSE IF k = 3 THEN 7
             ELSE IF k = 4 THEN 15 ELSE 31
Backoff(k) == IF k <= 0 THEN 1 ELSE IF k = 1 THEN 2 ELSE IF k = 2 THEN 4 ELSE IF k = 3 THEN 8
              ELSE IF k = 4 THEN 16 ELSE 32

\* The restarts waited for so far: one more is due after a crash.
Restarts == IF super.pc = "crashed" THEN super.crashes - 1 ELSE super.crashes

SuperInv ==
  /\ super \in SuperRow
  /\ super.crashes > 5 => super.waited >= 31
  /\ super.pc # "stopped" => super.waited >= Waited(Restarts) /\ super.backoff >= Backoff(Restarts)

\* A crash, a wait and a stop follow the table of backoffs.
LEMMA SuperKeeps ==
  ASSUME SuperInv, SuperNext
  PROVE  SuperInv'
  <1>. DEFINE k == super.crashes  w == super.waited  b == super.backoff
  <1>1. super \in SuperRow /\ k \in Nat /\ k <= MaxCrashes /\ w \in Nat /\ b \in 1..300 /\ MaxCrashes \in Nat
    BY GraphAssumption DEF SuperInv, SuperRow
  <1>2. ASSUME NEW stable \in BOOLEAN, Panic(stable) PROVE SuperInv'
    <2>. DEFINE b1 == IF stable THEN 1 ELSE b  k1 == IF stable THEN 0 ELSE k + 1  w1 == IF stable THEN 0 ELSE w
    <2>1. super.pc = "run" /\ b1 \in 1..300 /\ k1 \in 0..MaxCrashes /\ w1 \in Nat
      BY <1>1, <1>2 DEF Panic
    <2>2. super' = [super EXCEPT !.pc = "crashed", !.backoff = b1, !.crashes = k1, !.waited = w1]
      BY <1>2 DEF Panic
    <2>. HIDE DEF b1, k1, w1
    <2>3. super' \in SuperRow /\ super'.pc = "crashed" /\ super'.backoff = b1 /\ super'.crashes = k1
            /\ super'.waited = w1
      BY <1>1, <2>1, <2>2 DEF SuperRow
    <2>4. k1 > 5 => w1 >= 31
      BY <1>1, <2>1 DEF SuperInv, Restarts, Waited, k1, w1
    <2>5. w1 >= Waited(k1 - 1) /\ b1 >= Backoff(k1 - 1)
      BY <1>1, <2>1 DEF SuperInv, Restarts, Waited, Backoff, k1, w1, b1
    <2>. QED BY <2>3, <2>4, <2>5 DEF SuperInv, Restarts
  <1>3. CASE Restart
    <2>. DEFINE b1 == IF 2 * b > 300 THEN 300 ELSE 2 * b  w1 == w + b
    <2>1. super.pc = "crashed" /\ b1 \in 1..300 /\ w1 \in Nat
      BY <1>1, <1>3 DEF Restart
    <2>2. super' = [super EXCEPT !.pc = "run", !.backoff = b1, !.waited = w1]
      BY <1>3 DEF Restart
    <2>3. k > 5 => w1 >= 31
      BY <1>1 DEF SuperInv
    <2>4. w >= Waited(k - 1) /\ b >= Backoff(k - 1)
      BY <2>1 DEF SuperInv, Restarts
    <2>5. w1 >= Waited(k) /\ b1 >= Backoff(k)
      <3>1. CASE k <= 0
        BY <1>1, <3>1 DEF Waited, Backoff
      <3>2. CASE k > 0
        <4>1. Waited(k) <= Waited(k - 1) + Backoff(k - 1)
          BY <1>1, <3>2 DEF Waited, Backoff
        <4>2. Waited(k) \in Nat /\ Waited(k - 1) \in Nat /\ Backoff(k - 1) \in Nat
          BY <1>1 DEF Waited, Backoff
        <4>3. Backoff(k) \in Nat /\ Backoff(k) <= 300
          BY <1>1 DEF Backoff
        <4>4. Backoff(k) <= 2 * Backoff(k - 1)
          BY <1>1, <3>2 DEF Backoff
        <4>5. w1 >= Waited(k)
          BY <1>1, <2>4, <4>1, <4>2
        <4>6. 2 * b >= Backoff(k)
          BY <1>1, <2>4, <4>2, <4>3, <4>4
        <4>. QED BY <1>1, <4>3, <4>5, <4>6
      <3>. QED BY <1>1, <3>1, <3>2
    <2>. HIDE DEF b1, w1
    <2>6. super' \in SuperRow /\ super'.pc = "run" /\ super'.backoff = b1 /\ super'.crashes = k
            /\ super'.waited = w1
      BY <1>1, <2>1, <2>2 DEF SuperRow
    <2>. QED BY <2>3, <2>5, <2>6 DEF SuperInv, Restarts
  <1>4. CASE StopWorker
    <2>1. super' \in SuperRow /\ super'.pc = "stopped" /\ super'.crashes = k /\ super'.waited = w
      BY <1>1, <1>4 DEF StopWorker, SuperRow
    <2>. QED BY <2>1 DEF SuperInv
  <1>. QED BY <1>2, <1>3, <1>4 DEF SuperNext

GraphInv == LiveInv /\ ScansInv /\ SuperInv /\ faults \in 0..MaxFaults

\* Collects and decisions leave the worker and, but for a policy row of another
\* part of the service, what the live graphs show.
LEMMA CollectsLeave ==
  ASSUME CollectNext
  PROVE  /\ UNCHANGED super /\ (faults' = faults \/ Fault)
         /\ (UNCHANGED liveVars \/ \E t \in GraphTenants, p \in GraphPolicies : AddPolicy(t, p))
  <1>1. ASSUME NEW a \in GraphAgents, NEW p \in GraphPolicies, Decide(a, p)
        PROVE  UNCHANGED <<liveVars, super, faults>>
    BY <1>1 DEF Decide
  <1>2. ASSUME NEW t \in GraphTenants, NEW p \in GraphPolicies, AddPolicy(t, p)
        PROVE  UNCHANGED <<super, faults>>
    BY <1>2 DEF AddPolicy
  <1>3. ASSUME NEW s \in Collects, (\E request \in BOOLEAN : StartScan(s, request)) \/ AnswerScan(s)
        PROVE  UNCHANGED <<liveVars, super, faults>>
    BY <1>3 DEF StartScan, AnswerScan
  <1>4. ASSUME NEW s \in Collects, NEW next, NEW skipped, QueryStep(s, next, skipped)
        PROVE  UNCHANGED <<liveVars, super>> /\ (faults' = faults \/ Fault)
    BY <1>4 DEF QueryStep
  <1>5. ASSUME NEW s \in Collects,
               ScanAgents(s) \/ (\E t \in GraphTenants : ScanPolicies(s, t)) \/ ScanDecisions(s)
        PROVE  UNCHANGED <<liveVars, super>> /\ (faults' = faults \/ Fault)
    BY <1>4, <1>5 DEF ScanAgents, ScanPolicies, ScanDecisions
  <1>6. ASSUME NEW s \in Collects,
               (\E a \in GraphAgents : AgentNode(s, a)) \/ (\E p \in GraphPolicies : PolicyNode(s, p))
        PROVE  UNCHANGED <<liveVars, super>> /\ (faults' = faults \/ Fault)
    <2>1. ASSUME NEW key, NEW tenant, NEW scan, InsertNode(s, key, tenant, scan)
          PROVE  faults' = faults \/ Fault
      BY <2>1 DEF InsertNode
    <2>. QED BY <1>6, <2>1 DEF AgentNode, PolicyNode
  <1>7. ASSUME NEW s \in Collects, (\E d \in Binding : BindingEdge(s, d)) \/ FinishTenant(s)
        PROVE  UNCHANGED <<liveVars, super>> /\ (faults' = faults \/ Fault)
    BY <1>7 DEF BindingEdge, FinishTenant
  <1>. QED BY <1>1, <1>2, <1>3, <1>5, <1>6, <1>7 DEF CollectNext

\* The three parts keep to their variables.
LEMMA GraphKeeps == GraphInv /\ [GraphNext]_graphVars => GraphInv'
  <1>1. ASSUME LiveInv, UNCHANGED liveVars PROVE LiveInv'
    BY <1>1 DEF liveVars, LiveInv, EdgesOfRows, EdgeTargetsShown, OfTenant
  <1>2. ASSUME ScansInv, UNCHANGED <<owner, tableVars, collects>> PROVE ScansInv'
    BY <1>2 DEF tableVars, ScansInv, Nodes, IdIsKind, SourceIsAgent, AgentsFirst, AgentWritten, Registered
  <1>3. ASSUME SuperInv, UNCHANGED super PROVE SuperInv'
    BY <1>3 DEF SuperInv, Restarts
  <1>. SUFFICES ASSUME GraphInv, [GraphNext]_graphVars PROVE GraphInv'
    OBVIOUS
  <1>4. CASE LiveNext
    <2>1. UNCHANGED <<owner, tableVars, collects, super>> /\ (faults' = faults \/ Fault)
      BY <1>4 DEF LiveNext, AddPolicy, HandleBindPolicy, HandleUnbindPolicy, HandleGetResourceGraph, FailQuery,
                  ReadAgents, ReadPolicies, ReadBindings
    <2>. QED BY <1>2, <1>3, <1>4, <2>1, LiveKeeps, GraphAssumption DEF GraphInv, Fault
  <1>5. CASE CollectNext
    <2>1. UNCHANGED super /\ (faults' = faults \/ Fault)
            /\ (UNCHANGED liveVars \/ \E t \in GraphTenants, p \in GraphPolicies : AddPolicy(t, p))
      BY <1>5, CollectsLeave
    <2>2. LiveInv'
      BY <1>1, <2>1, AddPolicyKeeps DEF GraphInv, AddPolicy
    <2>3. ScansInv'
      BY <1>5, ScansKeep DEF GraphInv, LiveInv
    <2>. QED BY <1>3, <2>1, <2>2, <2>3, GraphAssumption DEF GraphInv, Fault
  <1>6. CASE SuperNext
    <2>1. UNCHANGED <<liveVars, owner, tableVars, collects, faults>>
      BY <1>6 DEF SuperNext, Panic, Restart, StopWorker
    <2>. QED BY <1>1, <1>2, <1>6, <2>1, SuperKeeps DEF GraphInv
  <1>7. CASE UNCHANGED graphVars
    BY <1>1, <1>2, <1>3, <1>7 DEF GraphInv, graphVars, liveVars, tableVars
  <1>. QED BY <1>4, <1>5, <1>6, <1>7 DEF GraphNext

\* Nothing has crashed and nothing was waited for.
LEMMA SuperInitInv == GraphInit => SuperInv
  <1>. SUFFICES ASSUME GraphInit PROVE SuperInv
    OBVIOUS
  <1>1. super \in SuperRow /\ super.pc = "run" /\ super.crashes = 0 /\ super.waited = 0 /\ super.backoff = 1
    BY GraphAssumption DEF GraphInit, SuperRow
  <1>. QED BY <1>1 DEF SuperInv, Restarts, Waited, Backoff

\* The invariant of the resource graph: live requests, scans and supervisor.
THEOREM GraphInvariant == GraphSpec => []GraphInv
  <1>1. GraphInit => GraphInv
    BY LiveInitInv, ScansInitInv, SuperInitInv, GraphAssumption DEF GraphInit, GraphInv
  <1>. QED BY <1>1, GraphKeeps, PTL DEF GraphSpec

\* What is missing from a graph or a snapshot is accounted for: a policy by the
\* order of the reads, an agent by an INSERT that failed or by the object_id
\* that all agents share (EdgeTargetsShown, OneTenantSeesAgents,
\* EdgeHasAgentNode of resource_graph.go and resource_graph_worker.go).
THEOREM GraphIsTraced == GraphSpec => []GraphTraced
  <1>1. GraphInv => GraphTraced
    <2>. SUFFICES ASSUME GraphInv PROVE GraphTraced
      OBVIOUS
    <2>1. OneTenantSeesAgents
      BY DEF GraphInv, ScansInv, IdIsKind, OneTenantSeesAgents, SnapshotNodes
    <2>2. EdgeHasAgentNode
      BY DEF GraphInv, ScansInv, SourceIsAgent, AgentWritten, EdgeHasAgentNode
    <2>. QED BY <2>1, <2>2 DEF GraphInv, LiveInv, GraphTraced
  <1>. QED BY <1>1, GraphInvariant, PTL

\* The supervisor of the worker has waited half a minute before its alarm,
\* whatever panics and stable runs came before.
THEOREM AlarmIsLate == GraphSpec => []AlarmAfterWaits
  <1>1. GraphInv => AlarmAfterWaits
    BY DEF GraphInv, SuperInv, AlarmAfterWaits
  <1>. QED BY <1>1, GraphInvariant, PTL

\* Type correctness of the resource graph.
THEOREM GraphTypeCorrect == GraphSpec => []GraphTypeOK
  <1>1. GraphInv => GraphTypeOK
    BY DEF GraphInv, LiveInv, ScansInv, SuperInv, SuperRow, Nodes, GraphTypeOK
  <1>. QED BY <1>1, GraphInvariant, PTL

-----------------------------------------------------------------------------
(* Document sources: syncs                                                     *)

\* Names come from the drive and are not ahead of it.
NamesOfDrive ==
  \A d \in Docs :
    /\ ~docs[d].stored => docs[d].name = 0
    /\ docs[d].name <= drive[d]
    /\ \A s \in Syncs : syncs[s].names[d] <= drive[d]

\* What is counted is stored, unless an INSERT was lost.
CountedWereStored ==
  /\ \A s \in Syncs :
       syncs[s].excused \/ (/\ \A d \in syncs[s].counted : docs[d].stored
                            /\ syncs[s].pc = "update" => docs[syncs[s].file].stored)
  /\ \A c \in Connectors :
       conns[c].basis = {} \/ (/\ conns[c].count <= Cardinality(conns[c].basis)
                               /\ \A d \in conns[c].basis : docs[d].stored)

SyncsOnRows ==
  \A s \in Syncs :
    /\ syncs[s].pc = "update" => syncs[s].file \in Docs
    /\ syncs[s].pc # "idle" => syncs[s].conn \in Connectors

\* Syncs that overlap have seen each other; one that saw no other has the
\* newest names.
SeenSyncs ==
  /\ \A r, s \in Syncs : r # s /\ Running(r) /\ Running(s) => r \in syncs[s].seen
  /\ \A s \in Syncs : syncs[s].pc \in {"files", "update"} /\ syncs[s].seen = {} =>
       \A d \in Docs : docs[d].name <= syncs[s].names[d]

SyncsInv == NamesOfDrive /\ CountedWereStored /\ SyncsOnRows /\ SeenSyncs

-----------------------------------------------------------------------------
(* Document sources: extractions                                               *)

Extracting(e) == extracts[e].pc \in {"start", "fetch", "ape", "store", "stored", "fallback"}

\* A status has an extraction that accounts for it.
StatusAccounted ==
  \A d \in Docs :
    /\ docs[d].status = "IN_PROGRESS" =>
         \E e \in Extractions : extracts[e].doc = d /\ (Extracting(e) \/ extracts[e].excused)
    /\ docs[d].status = "SYNCED" =>
         \E e \in Extractions : extracts[e].doc = d /\ (\/ extracts[e].pc = "draft" \/ extracts[e].excused
                                                        \/ e \in drafts \cup intents)

\* What an extraction has done at each of its steps.
ExtractSteps ==
  \A e \in Extractions :
    /\ extracts[e].pc = "idle" => ~extracts[e].excused /\ e \notin drafts \cup intents
    /\ extracts[e].pc # "idle" => extracts[e].doc \in Docs
    /\ extracts[e].pc = "stored" => extracts[e].excused \/ e \in intents
    /\ e \in drafts => extracts[e].pc \in {"propose", "done"}
    /\ extracts[e].pc = "propose" => e \in drafts

\* Extractions of a source that overlap have seen each other; one that saw no
\* other has not been declared failed.
SeenExtracts ==
  /\ \A e, f \in Extractions :
       e # f /\ Busy(e) /\ Busy(f) /\ extracts[e].doc = extracts[f].doc => f \in extracts[e].seen
  /\ \A e \in Extractions :
       Extracting(e) /\ ~extracts[e].excused /\ extracts[e].seen = {} =>
         docs[extracts[e].doc].status # "FAILED"

ExtractsInv == StatusAccounted /\ ExtractSteps /\ SeenExtracts /\ UnreviewedOnlyAfterAnswer

SourcesInv == SourcesTypeOK /\ SyncsInv /\ ExtractsInv

\* Rows as the lemmas below name them.
LEMMA SourceRows ==
  ASSUME SourcesTypeOK
  PROVE  /\ \A d \in Docs : /\ docs[d] \in Doc /\ docs[d].name \in Nat /\ docs[d].name <= MaxName
                            /\ drive[d] \in Nat /\ drive[d] <= MaxName
         /\ \A s \in Syncs : /\ syncs[s] \in Sync /\ syncs[s].counted \subseteq Docs
                             /\ \A d \in Docs : syncs[s].names[d] \in Nat /\ syncs[s].names[d] <= MaxName
         /\ \A c \in Connectors : conns[c] \in Conn /\ conns[c].count \in Int /\ conns[c].basis \subseteq Docs
         /\ \A e \in Extractions : extracts[e] \in Extract
         /\ 0..MaxName \subseteq Nat /\ \A n \in 0..MaxName : n <= MaxName
  <1>1. MaxName \in Nat
    BY SourcesAssumption
  <1>2. \A d \in Docs : docs[d] \in Doc /\ docs[d].name \in 0..MaxName /\ drive[d] \in 0..MaxName
    BY DEF SourcesTypeOK, Doc
  <1>3. \A s \in Syncs : syncs[s] \in Sync /\ syncs[s].counted \subseteq Docs /\ syncs[s].names \in [Docs -> 0..MaxName]
    BY DEF SourcesTypeOK, Sync
  <1>4. \A c \in Connectors : conns[c] \in Conn /\ conns[c].count \in Int /\ conns[c].basis \subseteq Docs
    BY DEF SourcesTypeOK, Conn
  <1>5. \A e \in Extractions : extracts[e] \in Extract
    BY DEF SourcesTypeOK
  <1>. QED BY <1>1, <1>2, <1>3, <1>4, <1>5

\* No sync and no extraction has begun.
LEMMA SourcesInitInv == SourcesInit => SourcesInv
  <1>. SUFFICES ASSUME SourcesInit PROVE SourcesInv
    OBVIOUS
  <1>0. MaxName \in Nat /\ MaxLosses \in Nat /\ Cardinality({}) = 0 /\ Cardinality(Docs) \in Nat
    BY SourcesAssumption, FS_EmptySet, FS_CardinalityType
  <1>1. PICK refs \in [Docs -> {"none", "short", "long"}] :
          docs = [d \in Docs |-> [stored |-> refs[d] # "none", ref |-> refs[d],
                                  status |-> "new", name |-> 0, conn |-> NoConnector]]
    BY DEF SourcesInit
  <1>2. docs \in [Docs -> Doc] /\ \A d \in Docs : docs[d].name = 0 /\ docs[d].status = "new"
    BY <1>0, <1>1 DEF Doc, DocStatuses
  <1>3. /\ syncs \in [Syncs -> Sync]
        /\ \A s \in Syncs : /\ syncs[s].pc = "idle" /\ syncs[s].counted = {}
                            /\ \A d \in Docs : syncs[s].names[d] = 0
    BY <1>0 DEF SourcesInit, Sync, SyncPcs
  <1>4. /\ extracts \in [Extractions -> Extract]
        /\ \A e \in Extractions : extracts[e].pc = "idle" /\ extracts[e].excused = FALSE
    BY DEF SourcesInit, Extract, ExtractPcs
  <1>5. /\ conns \in [Connectors -> Conn] /\ \A c \in Connectors : conns[c].basis = {}
        /\ drive \in [Docs -> 0..MaxName] /\ \A d \in Docs : drive[d] = 0
        /\ drafts = {} /\ proposals = {} /\ intents = {} /\ ape \in BOOLEAN /\ losses = 0
    BY <1>0 DEF SourcesInit, Conn
  <1>6. SourcesTypeOK
    BY <1>0, <1>2, <1>3, <1>4, <1>5 DEF SourcesTypeOK
  <1>7. SyncsInv
    BY <1>2, <1>3, <1>5 DEF SyncsInv, NamesOfDrive, CountedWereStored, SyncsOnRows, SeenSyncs, Running
  <1>8. ExtractsInv
    BY <1>2, <1>4, <1>5 DEF ExtractsInv, StatusAccounted, ExtractSteps, SeenExtracts, UnreviewedOnlyAfterAnswer,
                            Extracting, Busy
  <1>. QED BY <1>6, <1>7, <1>8 DEF SourcesInv

\* Extractions do not mind what syncs write.
LEMMA SyncedBySyncs ==
  ASSUME ExtractsInv, UNCHANGED extractVars,
         \A d \in Docs : docs'[d].status = docs[d].status \/ docs'[d].status = "synced"
  PROVE  ExtractsInv'
  <1>. USE DEF extractVars
  <1>1. StatusAccounted'
    BY DEF ExtractsInv, StatusAccounted, Extracting
  <1>2. ExtractSteps' /\ UnreviewedOnlyAfterAnswer'
    BY DEF ExtractsInv, ExtractSteps, UnreviewedOnlyAfterAnswer, Busy
  <1>3. SeenExtracts'
    <2>1. \A e \in Extractions : Extracting(e) => extracts[e].doc \in Docs
      BY DEF ExtractsInv, ExtractSteps, Extracting
    <2>. QED BY <2>1 DEF ExtractsInv, SeenExtracts, Extracting, Busy
  <1>. QED BY <1>1, <1>2, <1>3 DEF ExtractsInv

\* A step of a sync that runs: of the rows it writes, and of its own.
LEMMA SyncMoves ==
  ASSUME SourcesInv, NEW s \in Syncs, Running(s),
         NEW row \in Sync, syncs' = [syncs EXCEPT ![s] = row], row.seen = syncs[s].seen,
         docs' \in [Docs -> Doc], conns' \in [Connectors -> Conn], drive' = drive, ape' = ape,
         losses' \in 0..MaxLosses, UNCHANGED extractVars,
         \A d \in Docs : /\ docs[d].stored => docs'[d].stored
                         /\ ~docs'[d].stored => docs'[d].name = 0
                         /\ docs'[d].name <= drive[d] /\ row.names[d] <= drive[d]
                         /\ docs'[d].status = docs[d].status \/ docs'[d].status = "synced",
         row.excused \/ (/\ \A d \in row.counted : docs'[d].stored
                         /\ row.pc = "update" => docs'[row.file].stored),
         \A c \in Connectors : conns'[c] = conns[c] \/ conns'[c].basis = {}
                                 \/ (/\ conns'[c].count <= Cardinality(conns'[c].basis)
                                     /\ \A d \in conns'[c].basis : docs'[d].stored),
         row.pc = "update" => row.file \in Docs, row.conn \in Connectors,
         row.pc \in {"files", "update"} /\ row.seen = {} => \A d \in Docs : docs'[d].name <= row.names[d]
  PROVE  SourcesInv'
  <1>1. /\ syncs' \in [Syncs -> Sync] /\ syncs'[s] = row
        /\ \A r \in Syncs : r # s => syncs'[r] = syncs[r]
    BY DEF SourcesInv, SourcesTypeOK
  <1>2. SourcesTypeOK'
    BY <1>1 DEF SourcesInv, SourcesTypeOK, extractVars
  <1>3. NamesOfDrive'
    BY <1>1 DEF SourcesInv, SyncsInv, NamesOfDrive
  <1>4. CountedWereStored'
    <2>1. \A r \in Syncs : r # s /\ ~syncs[r].excused =>
            /\ \A d \in syncs[r].counted : docs'[d].stored
            /\ syncs[r].pc = "update" => docs'[syncs[r].file].stored
      BY SourceRows DEF SourcesInv, SyncsInv, CountedWereStored, SyncsOnRows
    <2>2. \A c \in Connectors : conns'[c].basis = {} \/ (/\ conns'[c].count <= Cardinality(conns'[c].basis)
                                                         /\ \A d \in conns'[c].basis : docs'[d].stored)
      BY SourceRows DEF SourcesInv, SyncsInv, CountedWereStored
    <2>. QED BY <1>1, <2>1, <2>2 DEF CountedWereStored
  <1>5. SyncsOnRows'
    BY <1>1 DEF SourcesInv, SyncsInv, SyncsOnRows
  <1>6. SeenSyncs'
    <2>1. \A r \in Syncs : Running(r)' => Running(r)
      BY <1>1 DEF Running
    <2>2. \A q, r \in Syncs : q # r /\ Running(q)' /\ Running(r)' => q \in syncs'[r].seen
      BY <1>1, <2>1 DEF SourcesInv, SyncsInv, SeenSyncs
    <2>3. ASSUME NEW r \in Syncs, syncs'[r].pc \in {"files", "update"}, syncs'[r].seen = {}
          PROVE  \A d \in Docs : docs'[d].name <= syncs'[r].names[d]
      BY <1>1, <2>3 DEF SourcesInv, SyncsInv, SeenSyncs, Running
    <2>. QED BY <2>2, <2>3 DEF SeenSyncs
  <1>7. ExtractsInv'
    BY SyncedBySyncs DEF SourcesInv
  <1>. QED BY <1>2, <1>3, <1>4, <1>5, <1>6, <1>7 DEF SourcesInv, SyncsInv

\* The calls that fail stay within their bound.
LEMMA Losses ==
  ASSUME SourcesTypeOK, losses' = losses \/ Lose
  PROVE  losses' \in 0..MaxLosses
  BY SourcesAssumption DEF SourcesTypeOK, Lose

\* A step of a sync that writes no row and no outcome.
LEMMA SyncAlone ==
  ASSUME SourcesInv, NEW s \in Syncs, Running(s),
         NEW row \in Sync, syncs' = [syncs EXCEPT ![s] = row], row.seen = syncs[s].seen,
         docs' = docs, conns' = conns, drive' = drive, ape' = ape,
         losses' = losses \/ Lose, UNCHANGED extractVars,
         row.counted = syncs[s].counted, row.conn = syncs[s].conn, row.excused = syncs[s].excused,
         row.pc \notin {"idle", "update"}, \A d \in Docs : row.names[d] <= drive[d],
         row.pc = "files" /\ row.seen = {} => \A d \in Docs : docs[d].name <= row.names[d]
  PROVE  SourcesInv'
  <1>1. docs' \in [Docs -> Doc] /\ conns' \in [Connectors -> Conn] /\ losses' \in 0..MaxLosses
    BY Losses DEF SourcesInv, SourcesTypeOK
  <1>2. \A d \in Docs : /\ ~docs[d].stored => docs[d].name = 0
                        /\ docs[d].name <= drive[d]
    BY DEF SourcesInv, SyncsInv, NamesOfDrive
  <1>3. row.excused \/ \A d \in row.counted : docs[d].stored
    BY DEF SourcesInv, SyncsInv, CountedWereStored
  <1>4. row.conn \in Connectors
    BY DEF SourcesInv, SyncsInv, SyncsOnRows, Running
  <1>. QED BY <1>1, <1>2, <1>3, <1>4, SyncMoves

\* A sync begins: it and the syncs under way have seen each other.
LEMMA StartSyncKeeps ==
  ASSUME SourcesInv, NEW s \in Syncs, NEW c \in Connectors, NEW known \in BOOLEAN,
         HandleSyncConnectorDocuments(s, c, known)
  PROVE  SourcesInv'
  <1>. DEFINE pc == IF known THEN "list" ELSE "done"
              running == {q \in Syncs : Running(q)}
              first == [syncs[s] EXCEPT !.pc = pc, !.conn = c, !.seen = running]
              other(r) == [syncs[r] EXCEPT !.seen = @ \cup {s}]
  <1>0. pc \in {"list", "done"} /\ running \in SUBSET Syncs /\ syncs[s] \in Sync /\ \A r \in Syncs : syncs[r] \in Sync
    BY DEF SourcesInv, SourcesTypeOK
  <1>1. /\ syncs[s].pc = "idle"
        /\ syncs' = [r \in Syncs |-> IF r = s THEN first ELSE IF Running(r) THEN other(r) ELSE syncs[r]]
        /\ UNCHANGED <<docs, drive, conns, extractVars, ape, losses>>
    BY DEF HandleSyncConnectorDocuments
  <1>2. \A q \in Syncs : q \in running <=> Running(q)
    OBVIOUS
  <1>. HIDE DEF pc, running
  <1>3. /\ first \in Sync /\ first.pc = pc /\ first.conn = c /\ first.seen = running
        /\ first.names = syncs[s].names /\ first.counted = syncs[s].counted
        /\ first.excused = syncs[s].excused /\ first.file = syncs[s].file
    BY <1>0 DEF Sync, SyncPcs
  <1>4. \A r \in Syncs :
          /\ other(r) \in Sync /\ other(r).pc = syncs[r].pc /\ other(r).conn = syncs[r].conn
          /\ other(r).seen = syncs[r].seen \cup {s} /\ other(r).names = syncs[r].names
          /\ other(r).counted = syncs[r].counted /\ other(r).excused = syncs[r].excused
          /\ other(r).file = syncs[r].file
    BY <1>0 DEF Sync
  <1>. HIDE DEF first, other
  <1>5. \A r \in Syncs :
          /\ syncs'[r] \in Sync /\ syncs'[r].names = syncs[r].names /\ syncs'[r].counted = syncs[r].counted
          /\ syncs'[r].excused = syncs[r].excused /\ syncs'[r].file = syncs[r].file
          /\ syncs'[r].pc = (IF r = s THEN pc ELSE syncs[r].pc)
          /\ syncs'[r].conn = (IF r = s THEN c ELSE syncs[r].conn)
          /\ syncs'[r].seen = (IF r = s THEN running ELSE IF Running(r) THEN syncs[r].seen \cup {s}
                                                          ELSE syncs[r].seen)
    BY <1>0, <1>1, <1>3, <1>4
  <1>6. syncs' \in [Syncs -> Sync]
    BY <1>1, <1>5
  <1>7. SourcesTypeOK'
    BY <1>1, <1>6 DEF SourcesInv, SourcesTypeOK, extractVars
  <1>8. NamesOfDrive' /\ SyncsOnRows'
    BY <1>0, <1>1, <1>5 DEF SourcesInv, SyncsInv, NamesOfDrive, SyncsOnRows
  <1>9. CountedWereStored'
    <2>1. \A r \in Syncs : syncs'[r].pc = "update" => syncs[r].pc = "update"
      BY <1>0, <1>5
    <2>2. \A r \in Syncs :
            syncs'[r].excused \/ (/\ \A d \in syncs'[r].counted : docs[d].stored
                                  /\ syncs'[r].pc = "update" => docs[syncs'[r].file].stored)
      <3>. TAKE r \in Syncs
      <3>1. syncs'[r].counted = syncs[r].counted /\ syncs'[r].excused = syncs[r].excused
              /\ syncs'[r].file = syncs[r].file
        BY <1>5
      <3>. QED BY <2>1, <3>1 DEF SourcesInv, SyncsInv, CountedWereStored
    <2>. QED BY <1>1, <2>2 DEF SourcesInv, SyncsInv, CountedWereStored
  <1>10. SeenSyncs'
    <2>1. \A r \in Syncs : Running(r)' => (r = s \/ Running(r))
      BY <1>5 DEF Running
    <2>2. ASSUME NEW q \in Syncs, NEW r \in Syncs, q # r, Running(q)', Running(r)'
          PROVE  q \in syncs'[r].seen
      <3>1. (q = s \/ Running(q)) /\ (r = s \/ Running(r))
        BY <2>1, <2>2
      <3>2. CASE r = s
        BY <1>2, <1>5, <2>2, <3>1, <3>2
      <3>3. CASE r # s /\ q = s
        BY <1>5, <3>1, <3>3
      <3>4. CASE r # s /\ q # s
        <4>1. q \in syncs[r].seen
          BY <2>2, <3>1, <3>4 DEF SourcesInv, SyncsInv, SeenSyncs
        <4>2. syncs[r].seen \subseteq syncs'[r].seen
          BY <1>5, <3>4
        <4>. QED BY <4>1, <4>2
      <3>. QED BY <3>2, <3>3, <3>4
    <2>3. ASSUME NEW r \in Syncs, syncs'[r].pc \in {"files", "update"}, syncs'[r].seen = {}
          PROVE  \A d \in Docs : docs'[d].name <= syncs'[r].names[d]
      <3>1. r # s /\ syncs[r].pc \in {"files", "update"}
        BY <1>0, <1>5, <2>3
      <3>2. s \in syncs'[r].seen
        BY <1>5, <3>1 DEF Running
      <3>. QED BY <2>3, <3>2
    <2>. QED BY <2>2, <2>3 DEF SeenSyncs
  <1>11. ExtractsInv'
    BY <1>1, SyncedBySyncs DEF SourcesInv
  <1>. QED BY <1>7, <1>8, <1>9, <1>10, <1>11 DEF SourcesInv, SyncsInv

\* A rename takes the drive ahead of every name that was read.
LEMMA RenameKeeps ==
  ASSUME SourcesInv, NEW d \in Docs, Rename(d)
  PROVE  SourcesInv'
  <1>1. drive[d] + 1 \in 0..MaxName /\ drive' = [drive EXCEPT ![d] = drive[d] + 1]
          /\ UNCHANGED <<docs, conns, syncs, extractVars, ape, losses>>
    BY SourceRows, SourcesAssumption DEF SourcesInv, Rename
  <1>2. drive' \in [Docs -> 0..MaxName]
          /\ \A x \in Docs : \A n \in Nat : n <= drive[x] => n <= drive'[x]
    BY <1>1, SourceRows DEF SourcesInv, SourcesTypeOK
  <1>3. SourcesTypeOK'
    BY <1>1, <1>2 DEF SourcesInv, SourcesTypeOK, extractVars
  <1>4. NamesOfDrive'
    BY <1>1, <1>2, SourceRows DEF SourcesInv, SyncsInv, NamesOfDrive
  <1>5. CountedWereStored' /\ SyncsOnRows' /\ SeenSyncs'
    BY <1>1 DEF SourcesInv, SyncsInv, CountedWereStored, SyncsOnRows, SeenSyncs, Running
  <1>6. ExtractsInv'
    BY <1>1, SyncedBySyncs DEF SourcesInv
  <1>. QED BY <1>3, <1>4, <1>5, <1>6 DEF SourcesInv, SyncsInv

\* A listing has the names of the drive.
LEMMA ListKeeps ==
  ASSUME SourcesInv, NEW s \in Syncs, ListDrive(s)
  PROVE  SourcesInv'
  <1>0. syncs[s] \in Sync /\ drive \in [Docs -> 0..MaxName] /\ Running(s)
    BY DEF ListDrive, SourcesInv, SourcesTypeOK, Running
  <1>1. \A d \in Docs : docs[d].name <= drive[d] /\ syncs[s].names[d] <= drive[d] /\ drive[d] <= drive[d]
    BY SourceRows DEF SourcesInv, SyncsInv, NamesOfDrive
  <1>2. UNCHANGED <<docs, drive, conns, extractVars, ape>>
    BY DEF ListDrive
  <1>3. ASSUME NEW listed \in SUBSET Docs,
               syncs' = [syncs EXCEPT ![s] = [@ EXCEPT !.pc = "files", !.left = listed, !.names = drive]],
               UNCHANGED losses
        PROVE  SourcesInv'
    <2>. DEFINE row == [syncs[s] EXCEPT !.pc = "files", !.left = listed, !.names = drive]
    <2>1. /\ row \in Sync /\ row.pc = "files" /\ row.names = drive /\ row.seen = syncs[s].seen
          /\ row.counted = syncs[s].counted /\ row.conn = syncs[s].conn /\ row.excused = syncs[s].excused
      BY <1>0 DEF Sync, SyncPcs
    <2>2. syncs' = [syncs EXCEPT ![s] = row]
      BY <1>3
    <2>. HIDE DEF row
    <2>. QED BY <1>0, <1>1, <1>2, <1>3, <2>1, <2>2, SyncAlone
  <1>4. ASSUME Lose, syncs' = [syncs EXCEPT ![s] = [@ EXCEPT !.pc = "report", !.failed = TRUE]]
        PROVE  SourcesInv'
    <2>. DEFINE row == [syncs[s] EXCEPT !.pc = "report", !.failed = TRUE]
    <2>1. /\ row \in Sync /\ row.pc = "report" /\ row.names = syncs[s].names /\ row.seen = syncs[s].seen
          /\ row.counted = syncs[s].counted /\ row.conn = syncs[s].conn /\ row.excused = syncs[s].excused
      BY <1>0 DEF Sync, SyncPcs
    <2>2. syncs' = [syncs EXCEPT ![s] = row]
      BY <1>4
    <2>. HIDE DEF row
    <2>. QED BY <1>0, <1>1, <1>2, <1>4, <2>1, <2>2, SyncAlone
  <1>. QED BY <1>3, <1>4 DEF ListDrive

\* The INSERT of a document, which may be stored already, or be lost.
LEMMA InsertKeeps ==
  ASSUME SourcesInv, NEW s \in Syncs, NEW d \in Docs, InsertDocument(s, d)
  PROVE  SourcesInv' /\ NameGoesBackOnlyByOverlap
  <1>. DEFINE name == syncs[s].names[d]
              conn == syncs[s].conn
              new == [docs[d] EXCEPT !.stored = TRUE, !.status = "synced", !.name = name, !.conn = conn]
              row == [syncs[s] EXCEPT !.pc = "update", !.file = d]
              excused == [syncs[s] EXCEPT !.pc = "update", !.file = d, !.excused = TRUE]
  <1>0. /\ syncs[s] \in Sync /\ docs[d] \in Doc /\ Running(s) /\ conn \in Connectors /\ syncs[s].pc = "files"
        /\ (syncs[s].seen = {} => \A x \in Docs : docs[x].name <= syncs[s].names[x])
    BY DEF InsertDocument, SourcesInv, SourcesTypeOK, SyncsInv, SyncsOnRows, SeenSyncs, Running
  <1>1. name \in 0..MaxName /\ name <= drive[d]
    BY <1>0 DEF SourcesInv, SyncsInv, NamesOfDrive, Sync
  <1>2. new \in Doc /\ new.stored = TRUE /\ new.status = "synced" /\ new.name = name
    BY <1>0, <1>1 DEF Doc, DocStatuses
  <1>3. /\ row \in Sync /\ row.pc = "update" /\ row.file = d /\ row.names = syncs[s].names
        /\ row.seen = syncs[s].seen /\ row.counted = syncs[s].counted /\ row.conn = conn
        /\ row.excused = syncs[s].excused
    BY <1>0, <1>1 DEF Sync, SyncPcs
  <1>4. /\ excused \in Sync /\ excused.pc = "update" /\ excused.file = d /\ excused.names = syncs[s].names
        /\ excused.seen = syncs[s].seen /\ excused.conn = conn /\ excused.excused = TRUE
    BY <1>0, <1>1 DEF Sync, SyncPcs
  <1>5. UNCHANGED <<drive, conns, extractVars, ape>>
    BY DEF InsertDocument
  <1>6. \/ /\ docs' = IF docs[d].stored THEN docs ELSE [docs EXCEPT ![d] = new]
           /\ syncs' = [syncs EXCEPT ![s] = row] /\ UNCHANGED losses
        \/ Lose /\ syncs' = [syncs EXCEPT ![s] = excused] /\ UNCHANGED docs
    BY DEF InsertDocument
  <1>7. losses' \in 0..MaxLosses /\ conns' \in [Connectors -> Conn] /\ docs \in [Docs -> Doc]
    BY <1>5, <1>6, Losses DEF SourcesInv, SourcesTypeOK
  <1>8. \A x \in Docs : /\ ~docs[x].stored => docs[x].name = 0
                        /\ docs[x].name <= drive[x] /\ syncs[s].names[x] <= drive[x]
    BY DEF SourcesInv, SyncsInv, NamesOfDrive
  <1>. HIDE DEF new, row, excused
  <1>9. CASE /\ docs' = IF docs[d].stored THEN docs ELSE [docs EXCEPT ![d] = new]
             /\ syncs' = [syncs EXCEPT ![s] = row]
    <2>1. docs' \in [Docs -> Doc] /\ docs'[d].stored
            /\ \A x \in Docs : docs'[x] = docs[x] \/ (x = d /\ docs'[x] = new /\ ~docs[x].stored)
      BY <1>2, <1>7, <1>9
    <2>2. name \in Nat /\ name >= 0
      BY <1>0, <1>1, SourcesAssumption
    <2>3. \A x \in Docs : /\ docs[x].stored => docs'[x].stored
                          /\ ~docs'[x].stored => docs'[x].name = 0
                          /\ docs'[x].name <= drive[x] /\ row.names[x] <= drive[x]
                          /\ docs'[x].status = docs[x].status \/ docs'[x].status = "synced"
      BY <1>0, <1>1, <1>2, <1>3, <1>8, <2>1
    <2>4. row.excused \/ (/\ \A x \in row.counted : docs'[x].stored
                          /\ row.pc = "update" => docs'[row.file].stored)
      BY <1>3, <2>1, <2>3, SourceRows DEF SourcesInv, SyncsInv, CountedWereStored
    <2>5. row.seen = {} => \A x \in Docs : docs'[x].name <= row.names[x]
      BY <1>0, <1>1, <1>2, <1>3, <2>1, <2>2
    <2>6. SourcesInv'
      BY <1>0, <1>1, <1>3, <1>5, <1>7, <1>9, <2>1, <2>3, <2>4, <2>5, SyncMoves
    <2>7. NameGoesBackOnlyByOverlap
      BY <1>2, <1>8, <2>1, <2>2, SourceRows DEF SourcesInv, NameGoesBackOnlyByOverlap
    <2>. QED BY <2>6, <2>7
  <1>10. CASE syncs' = [syncs EXCEPT ![s] = excused] /\ UNCHANGED docs
    <2>1. SourcesInv'
      BY <1>0, <1>1, <1>4, <1>5, <1>7, <1>8, <1>10, SyncMoves
    <2>2. NameGoesBackOnlyByOverlap
      BY <1>10, SourceRows DEF SourcesInv, NameGoesBackOnlyByOverlap
    <2>. QED BY <2>1, <2>2
  <1>. QED BY <1>6, <1>9, <1>10

\* The UPDATE of a document: its name goes back only under a sync that has seen
\* another.
LEMMA UpdateKeeps ==
  ASSUME SourcesInv, NEW s \in Syncs, UpdateDocument(s)
  PROVE  SourcesInv' /\ NameGoesBackOnlyByOverlap
  <1>. DEFINE d == syncs[s].file
              name == syncs[s].names[d]
              conn == syncs[s].conn
              new == [docs[d] EXCEPT !.status = "synced", !.name = name, !.conn = conn]
              after(counted) == [syncs[s] EXCEPT !.pc = "files", !.left = @ \ {d}, !.counted = counted]
              more == syncs[s].counted \cup {d}
  <1>1. /\ syncs[s] \in Sync /\ Running(s) /\ d \in Docs /\ docs[d] \in Doc /\ conn \in Connectors
        /\ syncs[s].pc = "update" /\ (syncs[s].seen = {} => \A x \in Docs : docs[x].name <= syncs[s].names[x])
    BY DEF UpdateDocument, SourcesInv, SourcesTypeOK, SyncsInv, SyncsOnRows, SeenSyncs, Running
  <1>2. name \in 0..MaxName /\ name <= drive[d]
    BY <1>1 DEF SourcesInv, SyncsInv, NamesOfDrive, Sync
  <1>3. /\ new \in Doc /\ new.stored = docs[d].stored /\ new.status = "synced" /\ new.name = name
    BY <1>1, <1>2 DEF Doc, DocStatuses
  <1>4. \A counted \in SUBSET Docs :
          /\ after(counted) \in Sync /\ after(counted).pc = "files" /\ after(counted).names = syncs[s].names
          /\ after(counted).seen = syncs[s].seen /\ after(counted).conn = conn
          /\ after(counted).counted = counted /\ after(counted).excused = syncs[s].excused
    BY <1>1 DEF Sync, SyncPcs
  <1>5. UNCHANGED <<drive, conns, extractVars, ape>>
    BY DEF UpdateDocument
  <1>6. \/ /\ docs' = IF docs[d].stored THEN [docs EXCEPT ![d] = new] ELSE docs
           /\ syncs' = [syncs EXCEPT ![s] = after(more)] /\ UNCHANGED losses
        \/ Lose /\ syncs' = [syncs EXCEPT ![s] = after(syncs[s].counted)] /\ UNCHANGED docs
    BY DEF UpdateDocument
  <1>7. losses' \in 0..MaxLosses /\ conns' \in [Connectors -> Conn] /\ docs \in [Docs -> Doc]
    BY <1>5, <1>6, Losses DEF SourcesInv, SourcesTypeOK
  <1>8. \A x \in Docs : /\ ~docs[x].stored => docs[x].name = 0
                        /\ docs[x].name <= drive[x] /\ syncs[s].names[x] <= drive[x]
    BY DEF SourcesInv, SyncsInv, NamesOfDrive
  <1>9. syncs[s].counted \in SUBSET Docs /\ more \in SUBSET Docs
          /\ (syncs[s].excused \/ (docs[d].stored /\ \A x \in syncs[s].counted : docs[x].stored))
    BY <1>1, SourceRows DEF SourcesInv, SyncsInv, CountedWereStored
  <1>. HIDE DEF new, after
  <1>10. CASE /\ docs' = IF docs[d].stored THEN [docs EXCEPT ![d] = new] ELSE docs
              /\ syncs' = [syncs EXCEPT ![s] = after(more)]
    <2>. DEFINE row == after(more)
    <2>1. /\ row \in Sync /\ row.pc = "files" /\ row.names = syncs[s].names /\ row.seen = syncs[s].seen
          /\ row.conn = conn /\ row.counted = more /\ row.excused = syncs[s].excused
          /\ syncs' = [syncs EXCEPT ![s] = row]
      BY <1>4, <1>9, <1>10
    <2>. HIDE DEF row
    <2>2. /\ docs' \in [Docs -> Doc]
          /\ \A x \in Docs : docs'[x].stored = docs[x].stored
          /\ \A x \in Docs : docs'[x] = docs[x] \/ (x = d /\ docs'[x] = new /\ docs[x].stored)
      BY <1>1, <1>3, <1>7, <1>10
    <2>3. \A x \in Docs : /\ docs[x].stored => docs'[x].stored
                          /\ ~docs'[x].stored => docs'[x].name = 0
                          /\ docs'[x].name <= drive[x] /\ row.names[x] <= drive[x]
                          /\ docs'[x].status = docs[x].status \/ docs'[x].status = "synced"
      BY <1>2, <1>3, <1>8, <2>1, <2>2
    <2>4. row.excused \/ \A x \in row.counted : docs'[x].stored
      BY <1>1, <1>9, <2>1, <2>2
    <2>5. row.seen = {} => \A x \in Docs : docs'[x].name <= row.names[x]
      BY <1>1, <1>2, <1>3, <2>1, <2>2, SourcesAssumption
    <2>6. SourcesInv'
      BY <1>1, <1>5, <1>7, <2>1, <2>2, <2>3, <2>4, <2>5, SyncMoves
    <2>7. NameGoesBackOnlyByOverlap
      <3>. SUFFICES ASSUME NEW x \in Docs, docs'[x].name < docs[x].name
                    PROVE  \E r \in Syncs : syncs[r].pc = "update" /\ syncs[r].file = x /\ syncs[r].seen # {}
        BY DEF NameGoesBackOnlyByOverlap
      <3>1. x = d /\ docs'[x].name = name
        BY <1>3, <2>2, SourceRows DEF SourcesInv
      <3>. QED BY <1>1, <1>2, <3>1, SourceRows DEF SourcesInv
    <2>. QED BY <2>6, <2>7
  <1>11. CASE syncs' = [syncs EXCEPT ![s] = after(syncs[s].counted)] /\ UNCHANGED docs
    <2>. DEFINE row == after(syncs[s].counted)
    <2>1. /\ row \in Sync /\ row.pc = "files" /\ row.names = syncs[s].names /\ row.seen = syncs[s].seen
          /\ row.conn = conn /\ row.counted = syncs[s].counted /\ row.excused = syncs[s].excused
          /\ syncs' = [syncs EXCEPT ![s] = row]
      BY <1>4, <1>9, <1>11
    <2>. HIDE DEF row
    <2>2. row.excused \/ \A x \in row.counted : docs'[x].stored
      BY <1>9, <1>11, <2>1
    <2>6. docs' \in [Docs -> Doc] /\ (row.seen = {} => \A x \in Docs : docs'[x].name <= row.names[x])
      BY <1>1, <1>7, <1>11, <2>1
    <2>3. /\ \A x \in Docs : /\ docs[x].stored => docs'[x].stored
                             /\ ~docs'[x].stored => docs'[x].name = 0
                             /\ docs'[x].name <= drive[x] /\ row.names[x] <= drive[x]
                             /\ docs'[x].status = docs[x].status \/ docs'[x].status = "synced"
          /\ \A c \in Connectors : conns'[c] = conns[c]
      BY <1>5, <1>8, <1>11, <2>1
    <2>4. SourcesInv'
      BY <1>1, <1>5, <1>7, <2>1, <2>2, <2>3, <2>6, SyncMoves
    <2>5. NameGoesBackOnlyByOverlap
      BY <1>11, SourceRows DEF SourcesInv, NameGoesBackOnlyByOverlap
    <2>. QED BY <2>4, <2>5
  <1>. QED BY <1>6, <1>10, <1>11

\* The count of a connector is that of the documents it was made of.
LEMMA ReportKeeps ==
  ASSUME SourcesInv, NEW s \in Syncs, ReportSync(s)
  PROVE  SourcesInv'
  <1>. DEFINE row == [syncs[s] EXCEPT !.pc = "done"]
              outcome == [status |-> IF syncs[s].failed THEN "error" ELSE "synced",
                          count |-> IF syncs[s].failed THEN 0 ELSE Cardinality(syncs[s].counted),
                          basis |-> IF syncs[s].excused THEN {} ELSE syncs[s].counted]
  <1>1. /\ syncs[s] \in Sync /\ Running(s) /\ syncs[s].conn \in Connectors /\ syncs[s].counted \subseteq Docs
    BY SourceRows DEF ReportSync, SourcesInv, SyncsInv, SyncsOnRows, Running
  <1>2. /\ row \in Sync /\ row.pc = "done" /\ row.names = syncs[s].names /\ row.seen = syncs[s].seen
        /\ row.conn = syncs[s].conn /\ row.counted = syncs[s].counted /\ row.excused = syncs[s].excused
    BY <1>1 DEF Sync, SyncPcs
  <1>3. Cardinality(syncs[s].counted) \in 0..Cardinality(Docs) /\ 0 \in 0..Cardinality(Docs)
    <2>1. IsFiniteSet(Docs) /\ IsFiniteSet(syncs[s].counted)
      BY <1>1, SourcesAssumption, FS_Subset
    <2>2. Cardinality(syncs[s].counted) <= Cardinality(Docs)
      BY <1>1, SourcesAssumption, FS_Subset
    <2>3. Cardinality(Docs) \in Nat /\ Cardinality(syncs[s].counted) \in Nat
      BY <2>1, FS_CardinalityType
    <2>. QED BY <2>2, <2>3
  <1>4. outcome \in Conn
    BY <1>1, <1>3 DEF Conn
  <1>5. outcome.basis = {} \/ outcome.count <= Cardinality(outcome.basis)
    BY <1>3
  <1>6. \A d \in outcome.basis : docs[d].stored
    BY DEF SourcesInv, SyncsInv, CountedWereStored
  <1>7. /\ conns' = [conns EXCEPT ![syncs[s].conn] = outcome] \/ conns' = conns
        /\ losses' = losses \/ Lose
        /\ syncs' = [syncs EXCEPT ![s] = row]
        /\ UNCHANGED <<docs, drive, extractVars, ape>>
    BY DEF ReportSync
  <1>. HIDE DEF row, outcome
  <1>8. losses' \in 0..MaxLosses /\ conns' \in [Connectors -> Conn] /\ docs' \in [Docs -> Doc]
    BY <1>1, <1>4, <1>7, Losses DEF SourcesInv, SourcesTypeOK
  <1>9. \A c \in Connectors : conns'[c] = conns[c] \/ conns'[c].basis = {}
                                \/ (/\ conns'[c].count <= Cardinality(conns'[c].basis)
                                    /\ \A d \in conns'[c].basis : docs'[d].stored)
    BY <1>5, <1>6, <1>7 DEF SourcesInv, SourcesTypeOK
  <1>10. row.excused \/ \A d \in row.counted : docs'[d].stored
    BY <1>2, <1>7 DEF SourcesInv, SyncsInv, CountedWereStored
  <1>11. \A d \in Docs : /\ ~docs[d].stored => docs[d].name = 0
                         /\ docs[d].name <= drive[d] /\ row.names[d] <= drive[d]
    BY <1>2 DEF SourcesInv, SyncsInv, NamesOfDrive
  <1>. QED BY <1>1, <1>2, <1>7, <1>8, <1>9, <1>10, <1>11, SyncMoves

\* A sync that ends, or stops short, counts nothing more.
LEMMA SyncEndsKeep ==
  ASSUME SourcesInv, NEW s \in Syncs, FinishListing(s) \/ AbandonSync(s)
  PROVE  SourcesInv'
  <1>1. syncs[s] \in Sync /\ Running(s) /\ UNCHANGED <<docs, drive, conns, extractVars, ape>>
          /\ (losses' = losses \/ Lose) /\ \A d \in Docs : syncs[s].names[d] <= drive[d]
    BY DEF FinishListing, AbandonSync, SourcesInv, SourcesTypeOK, SyncsInv, NamesOfDrive, Running
  <1>2. PICK pc \in {"report", "done"} : syncs' = [syncs EXCEPT ![s].pc = pc]
    BY DEF FinishListing, AbandonSync
  <1>. DEFINE row == [syncs[s] EXCEPT !.pc = pc]
  <1>3. /\ row \in Sync /\ row.pc = pc /\ row.names = syncs[s].names /\ row.seen = syncs[s].seen
        /\ row.conn = syncs[s].conn /\ row.counted = syncs[s].counted /\ row.excused = syncs[s].excused
        /\ syncs' = [syncs EXCEPT ![s] = row]
    BY <1>1, <1>2 DEF Sync, SyncPcs
  <1>. HIDE DEF row
  <1>. QED BY <1>1, <1>3, SyncAlone

\* Syncs do not mind the statuses that extractions write.
LEMMA StatusIsFree ==
  ASSUME SourcesTypeOK, SyncsInv, UNCHANGED driveVars,
         \A d \in Docs : docs'[d].stored = docs[d].stored /\ docs'[d].name = docs[d].name
  PROVE  SyncsInv'
  <1>. USE DEF driveVars
  <1>1. NamesOfDrive' /\ SyncsOnRows'
    BY DEF SyncsInv, NamesOfDrive, SyncsOnRows
  <1>2. CountedWereStored'
    <2>1. \A s \in Syncs : syncs[s].pc = "update" => syncs[s].file \in Docs
      BY DEF SyncsInv, SyncsOnRows
    <2>2. UNCHANGED <<syncs, conns>>
      OBVIOUS
    <2>0. (\A s \in Syncs : syncs[s].counted \subseteq Docs) /\ \A c \in Connectors : conns[c].basis \subseteq Docs
      BY SourceRows
    <2>3. \A s \in Syncs : syncs[s].excused \/ (/\ \A d \in syncs[s].counted \cap Docs : docs'[d].stored
                                                /\ syncs[s].pc = "update" => docs'[syncs[s].file].stored)
      BY <2>1 DEF SyncsInv, CountedWereStored
    <2>4. \A c \in Connectors :
            conns[c].basis = {} \/ (/\ conns[c].count <= Cardinality(conns[c].basis)
                                    /\ \A d \in conns[c].basis \cap Docs : docs'[d].stored)
      BY DEF SyncsInv, CountedWereStored
    <2>. QED BY <2>0, <2>2, <2>3, <2>4 DEF CountedWereStored
  <1>3. SeenSyncs'
    BY DEF SyncsInv, SeenSyncs, Running
  <1>. QED BY <1>1, <1>2, <1>3 DEF SyncsInv

\* A step of an extraction that runs: of the status of its source, of its own
\* row and of what it has inserted.
LEMMA ExtractMoves ==
  ASSUME SourcesInv, NEW e \in Extractions, Busy(e),
         NEW row \in Extract, extracts' = [extracts EXCEPT ![e] = row],
         row.doc = extracts[e].doc, row.seen = extracts[e].seen, row.pc # "idle",
         extracts[e].excused => row.excused, extracts[e].answered => row.answered,
         docs' \in [Docs -> Doc], ape' = ape, losses' \in 0..MaxLosses, UNCHANGED driveVars,
         drafts \subseteq drafts', intents \subseteq intents', proposals \subseteq proposals',
         drafts' \subseteq drafts \cup {e}, intents' \subseteq intents \cup {e},
         proposals' \subseteq proposals \cup {e},
         \A d \in Docs : /\ docs'[d].stored = docs[d].stored /\ docs'[d].name = docs[d].name
                         /\ d # row.doc => docs'[d].status = docs[d].status,
         docs'[row.doc].status = "IN_PROGRESS" =>
           \/ row.pc \in {"start", "fetch", "ape", "store", "stored", "fallback"} \/ row.excused
           \/ docs[row.doc].status = "IN_PROGRESS" /\ ~Extracting(e),
         docs'[row.doc].status = "SYNCED" =>
           \/ row.pc = "draft" \/ row.excused \/ e \in drafts' \cup intents'
           \/ docs[row.doc].status = "SYNCED" /\ extracts[e].pc # "draft",
         row.pc = "stored" => row.excused \/ e \in intents',
         e \in drafts' => row.pc \in {"propose", "done"},
         row.pc = "propose" => e \in drafts',
         e \in drafts' /\ e \notin proposals' /\ row.pc = "done" => row.answered \/ row.excused,
         row.pc \in {"start", "fetch", "ape", "store", "stored", "fallback"} /\ ~row.excused /\ row.seen = {}
           => docs'[row.doc].status # "FAILED"
  PROVE  SourcesInv'
  <1>1. /\ extracts' \in [Extractions -> Extract] /\ extracts'[e] = row
        /\ \A f \in Extractions : f # e => extracts'[f] = extracts[f]
        /\ row.doc \in Docs
    BY DEF SourcesInv, SourcesTypeOK, ExtractsInv, ExtractSteps, Busy
  <1>2. SourcesTypeOK'
    BY <1>1 DEF SourcesInv, SourcesTypeOK, driveVars
  <1>3. SyncsInv'
    BY StatusIsFree DEF SourcesInv
  <1>4. StatusAccounted'
    <2>1. ASSUME NEW d \in Docs, docs'[d].status = "IN_PROGRESS"
          PROVE  \E f \in Extractions : extracts'[f].doc = d /\ (Extracting(f)' \/ extracts'[f].excused)
      <3>1. CASE /\ d = row.doc
                 /\ row.pc \in {"start", "fetch", "ape", "store", "stored", "fallback"} \/ row.excused
        BY <1>1, <3>1 DEF Extracting
      <3>2. CASE docs[d].status = "IN_PROGRESS" /\ (d = row.doc => ~Extracting(e))
        <4>1. PICK f \in Extractions : extracts[f].doc = d /\ (Extracting(f) \/ extracts[f].excused)
          BY <3>2 DEF SourcesInv, ExtractsInv, StatusAccounted
        <4>2. CASE f # e
          BY <1>1, <4>1, <4>2 DEF Extracting
        <4>3. CASE f = e
          BY <1>1, <3>2, <4>1, <4>3
        <4>. QED BY <4>2, <4>3
      <3>. QED BY <2>1, <3>1, <3>2
    <2>2. ASSUME NEW d \in Docs, docs'[d].status = "SYNCED"
          PROVE  \E f \in Extractions : extracts'[f].doc = d /\ (\/ extracts'[f].pc = "draft" \/ extracts'[f].excused
                                                                 \/ f \in drafts' \cup intents')
      <3>1. CASE d = row.doc /\ (row.pc = "draft" \/ row.excused \/ e \in drafts' \cup intents')
        BY <1>1, <3>1
      <3>2. CASE docs[d].status = "SYNCED" /\ (d = row.doc => extracts[e].pc # "draft")
        <4>1. PICK f \in Extractions : extracts[f].doc = d /\ (\/ extracts[f].pc = "draft" \/ extracts[f].excused
                                                               \/ f \in drafts \cup intents)
          BY <3>2 DEF SourcesInv, ExtractsInv, StatusAccounted
        <4>2. CASE f # e
          BY <1>1, <4>1, <4>2
        <4>3. CASE f = e
          BY <1>1, <3>2, <4>1, <4>3
        <4>. QED BY <4>2, <4>3
      <3>. QED BY <2>2, <3>1, <3>2
    <2>. QED BY <2>1, <2>2 DEF StatusAccounted
  <1>5. ExtractSteps'
    BY <1>1 DEF SourcesInv, ExtractsInv, ExtractSteps
  <1>6. SeenExtracts'
    <2>1. ASSUME NEW f \in Extractions, NEW g \in Extractions, f # g, Busy(f)', Busy(g)',
                 extracts'[f].doc = extracts'[g].doc
          PROVE  g \in extracts'[f].seen
      BY <1>1, <2>1 DEF SourcesInv, ExtractsInv, SeenExtracts, Busy
    <2>2. ASSUME NEW f \in Extractions, Extracting(f)', ~extracts'[f].excused, extracts'[f].seen = {}
          PROVE  docs'[extracts'[f].doc].status # "FAILED"
      <3>1. CASE f = e
        BY <1>1, <2>2, <3>1 DEF Extracting
      <3>2. CASE f # e
        <4>1. Extracting(f) /\ ~extracts[f].excused /\ extracts[f].seen = {} /\ extracts[f].doc \in Docs
                /\ extracts'[f] = extracts[f]
          BY <1>1, <2>2, <3>2 DEF SourcesInv, ExtractsInv, ExtractSteps, Extracting
        <4>2. extracts[f].doc # row.doc
          BY <3>2, <4>1 DEF SourcesInv, ExtractsInv, SeenExtracts, Extracting, Busy
        <4>. QED BY <4>1, <4>2 DEF SourcesInv, ExtractsInv, SeenExtracts
      <3>. QED BY <3>1, <3>2
    <2>. QED BY <2>1, <2>2 DEF SeenExtracts
  <1>7. UnreviewedOnlyAfterAnswer'
    <2>. SUFFICES ASSUME NEW f \in drafts', f \notin proposals', ~Busy(f)'
                  PROVE  extracts'[f].answered \/ extracts'[f].excused
      BY DEF UnreviewedOnlyAfterAnswer
    <2>1. CASE f = e
      BY <1>1, <2>1 DEF Busy
    <2>2. CASE f # e
      <3>1. f \in drafts /\ f \notin proposals /\ f \in Extractions
        BY <2>2 DEF SourcesInv, SourcesTypeOK
      <3>. QED BY <1>1, <2>2, <3>1 DEF SourcesInv, ExtractsInv, UnreviewedOnlyAfterAnswer, Busy
    <2>. QED BY <2>1, <2>2
  <1>. QED BY <1>2, <1>3, <1>4, <1>5, <1>6, <1>7 DEF SourcesInv, ExtractsInv

\* Writing the status of a source.
LEMMA StatusWritten ==
  ASSUME SourcesTypeOK, NEW d \in Docs, NEW st \in DocStatuses, docs' = [docs EXCEPT ![d].status = st]
  PROVE  /\ docs' \in [Docs -> Doc] /\ docs'[d].status = st
         /\ \A x \in Docs : /\ docs'[x].stored = docs[x].stored /\ docs'[x].name = docs[x].name
                            /\ x # d => docs'[x].status = docs[x].status
  <1>. DEFINE row == [docs[d] EXCEPT !.status = st]
  <1>1. docs[d] \in Doc
    BY DEF SourcesTypeOK
  <1>2. row \in Doc /\ row.status = st /\ row.stored = docs[d].stored /\ row.name = docs[d].name
    BY <1>1 DEF Doc
  <1>3. docs' = [docs EXCEPT ![d] = row]
    OBVIOUS
  <1>. HIDE DEF row
  <1>. QED BY <1>2, <1>3 DEF SourcesTypeOK

\* A step of an extraction to pc that leaves the sources alone.
LEMMA ExtractAlone ==
  ASSUME SourcesInv, NEW e \in Extractions, Busy(e),
         NEW row \in Extract, extracts' = [extracts EXCEPT ![e] = row],
         row.doc = extracts[e].doc, row.seen = extracts[e].seen,
         extracts[e].excused => row.excused, extracts[e].answered => row.answered,
         UNCHANGED <<docs, driveVars, ape>>, losses' = losses \/ Lose,
         drafts \subseteq drafts', intents \subseteq intents', proposals \subseteq proposals',
         drafts' \subseteq drafts \cup {e}, intents' \subseteq intents \cup {e},
         proposals' \subseteq proposals \cup {e},
         Extracting(e) => row.pc \in {"start", "fetch", "ape", "store", "stored", "fallback"} \/ row.excused,
         row.pc \in {"start", "fetch", "ape", "store", "stored", "fallback"} => Extracting(e) \/ row.excused,
         extracts[e].pc = "draft" => row.pc = "draft" \/ row.excused \/ e \in drafts' \cup intents',
         row.pc # "idle",
         row.pc = "stored" => row.excused \/ e \in intents',
         e \in drafts' => row.pc \in {"propose", "done"},
         row.pc = "propose" => e \in drafts',
         e \in drafts' /\ e \notin proposals' /\ row.pc = "done" => row.answered \/ row.excused
  PROVE  SourcesInv'
  <1>1. row.doc \in Docs
    BY DEF SourcesInv, ExtractsInv, ExtractSteps, Busy
  <1>2. docs' = docs /\ docs \in [Docs -> Doc] /\ UNCHANGED driveVars /\ ape' = ape /\ losses' \in 0..MaxLosses
    BY Losses DEF SourcesInv, SourcesTypeOK
  <1>3. docs[row.doc].status = "IN_PROGRESS" =>
          \/ row.pc \in {"start", "fetch", "ape", "store", "stored", "fallback"} \/ row.excused
          \/ docs[row.doc].status = "IN_PROGRESS" /\ ~Extracting(e)
    OBVIOUS
  <1>4. docs[row.doc].status = "SYNCED" =>
          \/ row.pc = "draft" \/ row.excused \/ e \in drafts' \cup intents'
          \/ docs[row.doc].status = "SYNCED" /\ extracts[e].pc # "draft"
    OBVIOUS
  <1>5. row.pc \in {"start", "fetch", "ape", "store", "stored", "fallback"} /\ ~row.excused /\ row.seen = {}
          => docs[row.doc].status # "FAILED"
    BY DEF SourcesInv, ExtractsInv, SeenExtracts
  <1>6. \A d \in Docs : /\ docs'[d].stored = docs[d].stored /\ docs'[d].name = docs[d].name
                        /\ d # row.doc => docs'[d].status = docs[d].status
    BY <1>2
  <1>. QED BY <1>1, <1>2, <1>3, <1>4, <1>5, <1>6, ExtractMoves

\* A step of an extraction that writes a status.
LEMMA ExtractWrites ==
  ASSUME SourcesInv, NEW e \in Extractions, Busy(e), NEW st \in DocStatuses,
         NEW row \in Extract, extracts' = [extracts EXCEPT ![e] = row],
         row.doc = extracts[e].doc, row.seen = extracts[e].seen,
         extracts[e].excused => row.excused, extracts[e].answered => row.answered,
         docs' = [docs EXCEPT ![extracts[e].doc].status = st],
         UNCHANGED <<driveVars, drafts, proposals, intents, ape>>, losses' = losses \/ Lose,
         st = "IN_PROGRESS" => row.pc = "start" \/ row.excused,
         st = "SYNCED" => row.pc = "draft" \/ row.excused \/ e \in intents,
         st = "FAILED" => row.pc = "done",
         row.pc \notin {"idle", "stored", "propose"},
         e \notin drafts
  PROVE  SourcesInv'
  <1>1. row.doc \in Docs
    BY DEF SourcesInv, ExtractsInv, ExtractSteps, Busy
  <1>2. losses' \in 0..MaxLosses
    BY Losses DEF SourcesInv
  <1>3. /\ docs' \in [Docs -> Doc] /\ docs'[row.doc].status = st
        /\ \A x \in Docs : /\ docs'[x].stored = docs[x].stored /\ docs'[x].name = docs[x].name
                           /\ x # row.doc => docs'[x].status = docs[x].status
    BY <1>1, StatusWritten DEF SourcesInv
  <1>4. UNCHANGED driveVars /\ ape' = ape /\ drafts' = drafts /\ proposals' = proposals /\ intents' = intents
    OBVIOUS
  <1>5. /\ docs'[row.doc].status = "IN_PROGRESS" =>
             row.pc \in {"start", "fetch", "ape", "store", "stored", "fallback"} \/ row.excused
        /\ docs'[row.doc].status = "SYNCED" => row.pc = "draft" \/ row.excused \/ e \in drafts' \cup intents'
        /\ row.pc \in {"start", "fetch", "ape", "store", "stored", "fallback"} => docs'[row.doc].status # "FAILED"
    BY <1>3, <1>4
  <1>6. row.pc \notin {"idle", "stored", "propose"} /\ e \notin drafts'
    BY <1>4
  <1>. QED BY <1>2, <1>3, <1>4, <1>5, <1>6, ExtractMoves, ZenonT(40)

\* What an extraction may be at when it has written nothing for good.
LEMMA NotDrafted ==
  ASSUME SourcesInv, NEW e \in Extractions, extracts[e].pc \notin {"propose", "done"}
  PROVE  e \notin drafts
  BY DEF SourcesInv, ExtractsInv, ExtractSteps

\* An extraction begins: it and those under way on its source have seen each
\* other.
LEMMA StartExtractKeeps ==
  ASSUME SourcesInv, NEW e \in Extractions, NEW d \in Docs, HandleImportSourceExtract(e, d)
  PROVE  SourcesInv'
  <1>. DEFINE busy == {g \in Extractions : Busy(g) /\ extracts[g].doc = d}
              first == [extracts[e] EXCEPT !.pc = "mark", !.doc = d, !.seen = busy]
              other(f) == [extracts[f] EXCEPT !.seen = @ \cup {e}]
  <1>0. busy \in SUBSET Extractions /\ extracts[e] \in Extract /\ \A f \in Extractions : extracts[f] \in Extract
    BY DEF SourcesInv, SourcesTypeOK
  <1>1. /\ extracts[e].pc = "idle" /\ UNCHANGED <<docs, driveVars, drafts, proposals, intents, ape, losses>>
        /\ extracts' = [f \in Extractions |-> IF f = e THEN first
                                              ELSE IF Busy(f) /\ extracts[f].doc = d THEN other(f) ELSE extracts[f]]
    BY DEF HandleImportSourceExtract
  <1>2. \A g \in Extractions : g \in busy <=> Busy(g) /\ extracts[g].doc = d
    OBVIOUS
  <1>. HIDE DEF busy
  <1>3. /\ first \in Extract /\ first.pc = "mark" /\ first.doc = d /\ first.seen = busy
        /\ first.answered = extracts[e].answered /\ first.excused = extracts[e].excused
    BY <1>0 DEF Extract, ExtractPcs
  <1>4. \A f \in Extractions :
          /\ other(f) \in Extract /\ other(f).pc = extracts[f].pc /\ other(f).doc = extracts[f].doc
          /\ other(f).seen = extracts[f].seen \cup {e} /\ other(f).answered = extracts[f].answered
          /\ other(f).excused = extracts[f].excused
    BY <1>0 DEF Extract
  <1>. HIDE DEF first, other
  <1>5. \A f \in Extractions :
          /\ extracts'[f] \in Extract /\ extracts'[f].answered = extracts[f].answered
          /\ extracts'[f].excused = extracts[f].excused
          /\ extracts'[f].pc = (IF f = e THEN "mark" ELSE extracts[f].pc)
          /\ extracts'[f].doc = (IF f = e THEN d ELSE extracts[f].doc)
          /\ extracts'[f].seen = (IF f = e THEN busy
                                  ELSE IF Busy(f) /\ extracts[f].doc = d THEN extracts[f].seen \cup {e}
                                  ELSE extracts[f].seen)
    BY <1>0, <1>1, <1>3, <1>4
  <1>6. extracts' \in [Extractions -> Extract]
    BY <1>1, <1>5
  <1>7. SourcesTypeOK'
    BY <1>1, <1>6 DEF SourcesInv, SourcesTypeOK, driveVars
  <1>8. SyncsInv'
    BY <1>1, StatusIsFree DEF SourcesInv
  <1>9. ~extracts[e].excused /\ e \notin drafts \cup intents
    BY <1>1 DEF SourcesInv, ExtractsInv, ExtractSteps
  <1>10. StatusAccounted'
    <2>1. \A f \in Extractions : Extracting(f) => Extracting(f)' /\ extracts'[f].doc = extracts[f].doc
      BY <1>1, <1>5 DEF Extracting
    <2>2. \A f \in Extractions : extracts[f].excused => extracts'[f].excused /\ extracts'[f].doc = extracts[f].doc
      BY <1>5, <1>9
    <2>3. \A f \in Extractions : extracts[f].pc = "draft" \/ f \in drafts \cup intents =>
            extracts'[f].pc = extracts[f].pc /\ extracts'[f].doc = extracts[f].doc
      BY <1>1, <1>5, <1>9
    <2>. QED BY <1>1, <2>1, <2>2, <2>3 DEF SourcesInv, ExtractsInv, StatusAccounted
  <1>11. ExtractSteps'
    <2>1. ASSUME NEW f \in Extractions
          PROVE  /\ extracts'[f].pc = "idle" => ~extracts'[f].excused /\ f \notin drafts \cup intents
                 /\ extracts'[f].pc # "idle" => extracts'[f].doc \in Docs
                 /\ extracts'[f].pc = "stored" => extracts'[f].excused \/ f \in intents
                 /\ f \in drafts => extracts'[f].pc \in {"propose", "done"}
                 /\ extracts'[f].pc = "propose" => f \in drafts
      <3>1. CASE f = e
        <4>1. extracts'[f].pc = "mark" /\ extracts'[f].doc = d
          BY <1>5, <3>1
        <4>. QED BY <1>9, <3>1, <4>1
      <3>2. CASE f # e
        <4>1. /\ extracts'[f].pc = extracts[f].pc /\ extracts'[f].doc = extracts[f].doc
              /\ extracts'[f].excused = extracts[f].excused
          BY <1>5, <3>2
        <4>. QED BY <4>1 DEF SourcesInv, ExtractsInv, ExtractSteps
      <3>. QED BY <3>1, <3>2
    <2>. QED BY <1>1, <2>1 DEF ExtractSteps
  <1>12. SeenExtracts'
    <2>1. ASSUME NEW f \in Extractions, NEW g \in Extractions, f # g, Busy(f)', Busy(g)',
                 extracts'[f].doc = extracts'[g].doc
          PROVE  g \in extracts'[f].seen
      <3>0. \A h \in Extractions : h # e /\ Busy(h)' => Busy(h) /\ extracts'[h].doc = extracts[h].doc
        BY <1>5 DEF Busy
      <3>1. CASE f = e
        <4>1. extracts'[f].doc = d /\ extracts'[f].seen = busy
          BY <1>5, <3>1
        <4>2. Busy(g) /\ extracts[g].doc = d
          BY <2>1, <3>0, <3>1, <4>1
        <4>. QED BY <1>2, <4>1, <4>2
      <3>2. CASE f # e
        <4>1. Busy(f) /\ extracts'[f].doc = extracts[f].doc
          BY <2>1, <3>0, <3>2
        <4>2. extracts'[f].seen = IF extracts[f].doc = d THEN extracts[f].seen \cup {e} ELSE extracts[f].seen
          BY <1>5, <3>2, <4>1
        <4>3. CASE g = e
          <5>1. extracts'[g].doc = d
            BY <1>5, <4>3
          <5>. QED BY <2>1, <4>1, <4>2, <4>3, <5>1
        <4>4. CASE g # e
          <5>1. g \in extracts[f].seen
            BY <2>1, <3>0, <4>1, <4>4 DEF SourcesInv, ExtractsInv, SeenExtracts
          <5>. QED BY <4>2, <5>1
        <4>. QED BY <4>3, <4>4
      <3>. QED BY <3>1, <3>2
    <2>2. ASSUME NEW f \in Extractions, Extracting(f)', ~extracts'[f].excused, extracts'[f].seen = {}
          PROVE  docs'[extracts'[f].doc].status # "FAILED"
      <3>1. Extracting(f) /\ f # e
        BY <1>1, <1>5, <2>2 DEF Extracting
      <3>2. extracts[f].seen = {} /\ ~extracts[f].excused /\ extracts'[f].doc = extracts[f].doc
        BY <1>5, <2>2, <3>1
      <3>. QED BY <1>1, <3>1, <3>2 DEF SourcesInv, ExtractsInv, SeenExtracts
    <2>. QED BY <2>1, <2>2 DEF SeenExtracts
  <1>13. UnreviewedOnlyAfterAnswer'
    <2>1. \A f \in drafts : f # e /\ f \in Extractions
      BY <1>9 DEF SourcesInv, SourcesTypeOK
    <2>2. \A f \in drafts : extracts'[f].pc = extracts[f].pc /\ extracts'[f].answered = extracts[f].answered
                              /\ extracts'[f].excused = extracts[f].excused
      BY <1>5, <2>1
    <2>. QED BY <1>1, <2>2 DEF SourcesInv, ExtractsInv, UnreviewedOnlyAfterAnswer, Busy
  <1>. QED BY <1>7, <1>8, <1>10, <1>11, <1>12, <1>13 DEF SourcesInv, ExtractsInv

\* The two ways in which SetStatus may go.
LEMMA SetStatusKeeps ==
  ASSUME SourcesInv, NEW e \in Extractions, Busy(e), NEW st \in {"IN_PROGRESS", "SYNCED"},
         NEW pc \in {"start", "draft", "done"}, e \notin drafts, SetStatus(e, pc, st),
         UNCHANGED <<driveVars, drafts, proposals, intents, ape>>,
         st = "IN_PROGRESS" => pc = "start",
         st = "SYNCED" => pc = "draft" \/ extracts[e].excused \/ e \in intents
  PROVE  SourcesInv'
  <1>. DEFINE row == [extracts[e] EXCEPT !.pc = pc]
              lost == [extracts[e] EXCEPT !.pc = pc, !.excused = TRUE]
  <1>0. pc \in ExtractPcs /\ st \in DocStatuses /\ extracts[e] \in Extract
    BY DEF ExtractPcs, DocStatuses, SourcesInv, SourcesTypeOK
  <1>1. /\ row \in Extract /\ row.pc = pc /\ row.doc = extracts[e].doc /\ row.seen = extracts[e].seen
        /\ row.answered = extracts[e].answered /\ row.excused = extracts[e].excused
    BY <1>0 DEF Extract
  <1>2. /\ lost \in Extract /\ lost.pc = pc /\ lost.doc = extracts[e].doc /\ lost.seen = extracts[e].seen
        /\ lost.answered = extracts[e].answered /\ lost.excused = TRUE
    BY <1>0 DEF Extract
  <1>3. \/ /\ docs' = [docs EXCEPT ![extracts[e].doc].status = st]
           /\ extracts' = [extracts EXCEPT ![e] = row] /\ UNCHANGED losses
        \/ Lose /\ extracts' = [extracts EXCEPT ![e] = lost] /\ UNCHANGED docs
    BY DEF SetStatus
  <1>. HIDE DEF row, lost
  <1>4. CASE docs' = [docs EXCEPT ![extracts[e].doc].status = st] /\ extracts' = [extracts EXCEPT ![e] = row]
               /\ UNCHANGED losses
    BY <1>0, <1>1, <1>4, ExtractWrites
  <1>5. CASE Lose /\ extracts' = [extracts EXCEPT ![e] = lost] /\ UNCHANGED docs
    BY <1>2, <1>5, ExtractAlone
  <1>. QED BY <1>3, <1>4, <1>5

\* The source is marked in progress by the extraction that accounts for it.
LEMMA MarkKeeps ==
  ASSUME SourcesInv, NEW e \in Extractions, MarkInProgress(e)
  PROVE  SourcesInv'
  <1>1. Busy(e) /\ e \notin drafts /\ UNCHANGED <<driveVars, drafts, proposals, intents, ape>>
    BY NotDrafted DEF MarkInProgress, Busy
  <1>2. CASE SetStatus(e, "start", "IN_PROGRESS")
    BY <1>1, <1>2, SetStatusKeeps
  <1>3. CASE /\ docs' = [docs EXCEPT ![extracts[e].doc].status = "IN_PROGRESS"]
             /\ extracts' = [extracts EXCEPT ![e] = [@ EXCEPT !.pc = "done", !.excused = TRUE]]
             /\ UNCHANGED losses
    <2>. DEFINE lost == [extracts[e] EXCEPT !.pc = "done", !.excused = TRUE]
    <2>0. extracts[e] \in Extract /\ "IN_PROGRESS" \in DocStatuses
      BY DEF DocStatuses, SourcesInv, SourcesTypeOK
    <2>1. /\ lost \in Extract /\ lost.pc = "done" /\ lost.doc = extracts[e].doc /\ lost.seen = extracts[e].seen
          /\ lost.answered = extracts[e].answered /\ lost.excused = TRUE
      BY <2>0 DEF Extract, ExtractPcs
    <2>2. extracts' = [extracts EXCEPT ![e] = lost]
      BY <1>3
    <2>. HIDE DEF lost
    <2>. QED BY <1>1, <1>3, <2>0, <2>1, <2>2, ExtractWrites
  <1>. QED BY <1>2, <1>3 DEF MarkInProgress

\* A source becomes synced on the word of an extraction with intents or a draft
\* to come.
LEMMA SetSyncedKeeps ==
  ASSUME SourcesInv, NEW e \in Extractions, SetSynced(e)
  PROVE  SourcesInv'
  <1>1. Busy(e) /\ e \notin drafts /\ UNCHANGED <<driveVars, drafts, proposals, intents, ape>>
    BY NotDrafted DEF SetSynced, Busy
  <1>2. extracts[e].pc = "stored" => extracts[e].excused \/ e \in intents
    BY DEF SourcesInv, ExtractsInv, ExtractSteps
  <1>3. CASE extracts[e].pc = "stored" /\ SetStatus(e, "done", "SYNCED")
    BY <1>1, <1>2, <1>3, SetStatusKeeps
  <1>4. CASE extracts[e].pc = "fallback" /\ SetStatus(e, "draft", "SYNCED")
    BY <1>1, <1>4, SetStatusKeeps
  <1>. QED BY <1>3, <1>4 DEF SetSynced

\* Steps with no failure, to a step that says no more than that it runs.
LEMMA ProceedKeeps ==
  ASSUME SourcesInv, NEW e \in Extractions, Extracting(e), NEW pc \in {"fetch", "ape", "store", "fallback"},
         extracts' = [extracts EXCEPT ![e].pc = pc],
         UNCHANGED <<docs, driveVars, drafts, proposals, intents, ape, losses>>
  PROVE  SourcesInv'
  <1>. DEFINE row == [extracts[e] EXCEPT !.pc = pc]
  <1>0. pc \in ExtractPcs /\ extracts[e] \in Extract /\ Busy(e)
    BY DEF ExtractPcs, SourcesInv, SourcesTypeOK, Busy, Extracting
  <1>1. /\ row \in Extract /\ row.pc = pc /\ row.doc = extracts[e].doc /\ row.seen = extracts[e].seen
        /\ row.answered = extracts[e].answered /\ row.excused = extracts[e].excused
        /\ extracts' = [extracts EXCEPT ![e] = row]
    BY <1>0 DEF Extract
  <1>2. e \notin drafts
    BY NotDrafted DEF Extracting
  <1>. HIDE DEF row
  <1>. QED BY <1>0, <1>1, <1>2, ExtractAlone DEF Extracting

\* A failure of a remote call declares the source failed and ends the extraction.
LEMMA FailureKeeps ==
  ASSUME SourcesInv, NEW e \in Extractions, Extracting(e), RemoteFailure(e),
         UNCHANGED <<driveVars, drafts, proposals, intents, ape>>
  PROVE  SourcesInv'
  <1>. DEFINE row == [extracts[e] EXCEPT !.pc = "done"]
  <1>0. extracts[e] \in Extract /\ Busy(e) /\ "FAILED" \in DocStatuses
    BY DEF SourcesInv, SourcesTypeOK, Busy, Extracting, DocStatuses
  <1>1. /\ row \in Extract /\ row.pc = "done" /\ row.doc = extracts[e].doc /\ row.seen = extracts[e].seen
        /\ row.answered = extracts[e].answered /\ row.excused = extracts[e].excused
    BY <1>0 DEF Extract, ExtractPcs
  <1>2. e \notin drafts
    BY NotDrafted DEF Extracting
  <1>3. /\ docs' = [docs EXCEPT ![extracts[e].doc].status = "FAILED"]
        /\ extracts' = [extracts EXCEPT ![e] = row] /\ (losses' = losses \/ Lose)
    BY DEF RemoteFailure
  <1>. HIDE DEF row
  <1>. QED BY <1>0, <1>1, <1>2, <1>3, ExtractWrites

\* The handler answers its client while the extraction goes on.
LEMMA AnswerKeeps ==
  ASSUME SourcesInv, NEW e \in Extractions, AnswerAccepted(e)
  PROVE  SourcesInv'
  <1>. DEFINE row == [extracts[e] EXCEPT !.answered = TRUE]
  <1>0. extracts[e] \in Extract /\ Busy(e)
    BY DEF SourcesInv, SourcesTypeOK, Busy, AnswerAccepted
  <1>1. /\ row \in Extract /\ row.pc = extracts[e].pc /\ row.doc = extracts[e].doc /\ row.seen = extracts[e].seen
        /\ row.answered = TRUE /\ row.excused = extracts[e].excused
    BY <1>0 DEF Extract
  <1>2. extracts' = [extracts EXCEPT ![e] = row]
          /\ UNCHANGED <<docs, driveVars, drafts, proposals, intents, ape, losses>>
    BY DEF AnswerAccepted
  <1>3. /\ row.pc = "stored" => row.excused \/ e \in intents
        /\ e \in drafts => row.pc \in {"propose", "done"}
        /\ row.pc = "propose" => e \in drafts
    BY <1>1 DEF SourcesInv, ExtractsInv, ExtractSteps
  <1>. HIDE DEF row
  <1>. QED BY <1>0, <1>1, <1>2, <1>3, ExtractAlone DEF Extracting, Busy

\* Intents are stored, found or lost.
LEMMA StoreKeeps ==
  ASSUME SourcesInv, NEW e \in Extractions, NEW found \in BOOLEAN, StoreIntents(e, found)
  PROVE  SourcesInv'
  <1>0. extracts[e] \in Extract /\ Busy(e) /\ extracts[e].pc = "store" /\ Extracting(e)
          /\ UNCHANGED <<docs, driveVars, drafts, proposals, ape>>
    BY DEF SourcesInv, SourcesTypeOK, Busy, StoreIntents, Extracting
  <1>1. e \notin drafts
    BY <1>0, NotDrafted
  <1>2. ASSUME NEW excused \in BOOLEAN,
               extracts' = [extracts EXCEPT ![e] = [@ EXCEPT !.pc = "stored", !.excused = excused]],
               extracts[e].excused => excused, losses' = losses \/ Lose,
               \/ intents' = intents \cup {e}
               \/ intents' = intents /\ excused
        PROVE  SourcesInv'
    <2>. DEFINE row == [extracts[e] EXCEPT !.pc = "stored", !.excused = excused]
    <2>1. /\ row \in Extract /\ row.pc = "stored" /\ row.doc = extracts[e].doc /\ row.seen = extracts[e].seen
          /\ row.answered = extracts[e].answered /\ row.excused = excused
          /\ extracts' = [extracts EXCEPT ![e] = row]
      BY <1>0, <1>2 DEF Extract, ExtractPcs
    <2>. HIDE DEF row
    <2>2. intents \subseteq intents' /\ intents' \subseteq intents \cup {e} /\ (row.excused \/ e \in intents')
      BY <1>2, <2>1
    <2>. QED BY <1>0, <1>1, <1>2, <2>1, <2>2, ExtractAlone
  <1>3. extracts[e].excused \in BOOLEAN
    BY <1>0 DEF Extract
  <1>4. CASE /\ intents' = IF found THEN intents \cup {e} ELSE intents
             /\ extracts' = [extracts EXCEPT ![e] = [extracts[e] EXCEPT !.pc = "stored", !.excused = @ \/ ~found]]
             /\ UNCHANGED losses
    <2>1. extracts' = [extracts EXCEPT ![e] = [@ EXCEPT !.pc = "stored", !.excused = extracts[e].excused \/ ~found]]
      BY <1>4
    <2>. QED BY <1>2, <1>3, <1>4, <2>1
  <1>5. CASE /\ Lose /\ UNCHANGED intents
             /\ extracts' = [extracts EXCEPT ![e] = [@ EXCEPT !.pc = "stored", !.excused = TRUE]]
    BY <1>2, <1>5
  <1>. QED BY <1>4, <1>5 DEF StoreIntents

\* The fallback draft of an extraction, in place of its intents.
LEMMA DraftKeeps ==
  ASSUME SourcesInv, NEW e \in Extractions, InsertDraft(e)
  PROVE  SourcesInv'
  <1>. DEFINE row == [extracts[e] EXCEPT !.pc = "propose"]
              lost == [extracts[e] EXCEPT !.pc = "done", !.excused = TRUE]
  <1>0. extracts[e] \in Extract /\ Busy(e) /\ extracts[e].pc = "draft"
          /\ UNCHANGED <<docs, driveVars, proposals, intents, ape>>
    BY DEF SourcesInv, SourcesTypeOK, Busy, InsertDraft
  <1>1. /\ row \in Extract /\ row.pc = "propose" /\ row.doc = extracts[e].doc /\ row.seen = extracts[e].seen
        /\ row.answered = extracts[e].answered /\ row.excused = extracts[e].excused
    BY <1>0 DEF Extract, ExtractPcs
  <1>2. /\ lost \in Extract /\ lost.pc = "done" /\ lost.doc = extracts[e].doc /\ lost.seen = extracts[e].seen
        /\ lost.answered = extracts[e].answered /\ lost.excused = TRUE
    BY <1>0 DEF Extract, ExtractPcs
  <1>3. \/ drafts' = drafts \cup {e} /\ extracts' = [extracts EXCEPT ![e] = row] /\ UNCHANGED losses
        \/ Lose /\ extracts' = [extracts EXCEPT ![e] = lost] /\ UNCHANGED drafts
    BY DEF InsertDraft
  <1>4. e \notin drafts
    BY <1>0, NotDrafted
  <1>. HIDE DEF row, lost
  <1>5. CASE drafts' = drafts \cup {e} /\ extracts' = [extracts EXCEPT ![e] = row] /\ UNCHANGED losses
    <2>1. drafts \subseteq drafts' /\ drafts' \subseteq drafts \cup {e} /\ e \in drafts'
      BY <1>5
    <2>. QED BY <1>0, <1>1, <1>5, <2>1, ExtractAlone DEF Extracting
  <1>6. CASE Lose /\ extracts' = [extracts EXCEPT ![e] = lost] /\ UNCHANGED drafts
    BY <1>0, <1>2, <1>4, <1>6, ExtractAlone DEF Extracting
  <1>. QED BY <1>3, <1>5, <1>6

\* A draft goes without a proposal only where a call failed or the client had
\* its answer, which ends the context of the INSERT.
LEMMA ProposeKeeps ==
  ASSUME SourcesInv, NEW e \in Extractions, ProposeReview(e)
  PROVE  SourcesInv'
  <1>. DEFINE unseen == extracts[e].excused \/ ~extracts[e].answered
              row == [extracts[e] EXCEPT !.pc = "done"]
              without == [extracts[e] EXCEPT !.pc = "done", !.excused = unseen]
  <1>0. extracts[e] \in Extract /\ Busy(e) /\ extracts[e].pc = "propose"
          /\ UNCHANGED <<docs, driveVars, drafts, intents, ape>>
    BY DEF SourcesInv, SourcesTypeOK, Busy, ProposeReview
  <1>1. /\ row \in Extract /\ row.pc = "done" /\ row.doc = extracts[e].doc /\ row.seen = extracts[e].seen
        /\ row.answered = extracts[e].answered /\ row.excused = extracts[e].excused
    BY <1>0 DEF Extract, ExtractPcs
  <1>2. unseen \in BOOLEAN /\ (extracts[e].excused => unseen) /\ (unseen \/ extracts[e].answered)
    BY <1>0 DEF Extract
  <1>3. \/ proposals' = proposals \cup {e} /\ extracts' = [extracts EXCEPT ![e] = row] /\ UNCHANGED losses
        \/ (losses' = losses \/ Lose) /\ extracts' = [extracts EXCEPT ![e] = without] /\ UNCHANGED proposals
    BY DEF ProposeReview
  <1>. HIDE DEF unseen
  <1>4. /\ without \in Extract /\ without.pc = "done" /\ without.doc = extracts[e].doc
        /\ without.seen = extracts[e].seen /\ without.answered = extracts[e].answered /\ without.excused = unseen
    BY <1>0, <1>2 DEF Extract, ExtractPcs
  <1>. HIDE DEF row, without
  <1>5. CASE proposals' = proposals \cup {e} /\ extracts' = [extracts EXCEPT ![e] = row] /\ UNCHANGED losses
    <2>1. proposals \subseteq proposals' /\ proposals' \subseteq proposals \cup {e} /\ e \in proposals'
      BY <1>5
    <2>. QED BY <1>0, <1>1, <1>5, <2>1, ExtractAlone DEF Extracting
  <1>6. CASE (losses' = losses \/ Lose) /\ extracts' = [extracts EXCEPT ![e] = without] /\ UNCHANGED proposals
    BY <1>0, <1>2, <1>4, <1>6, ExtractAlone DEF Extracting
  <1>. QED BY <1>3, <1>5, <1>6

\* An extraction that stops short is excused for what it leaves behind.
LEMMA AbandonKeeps ==
  ASSUME SourcesInv, NEW e \in Extractions, AbandonExtraction(e)
  PROVE  SourcesInv'
  <1>. DEFINE lost == [extracts[e] EXCEPT !.pc = "done", !.excused = TRUE]
  <1>0. extracts[e] \in Extract /\ Busy(e) /\ Lose /\ UNCHANGED <<docs, driveVars, drafts, proposals, intents, ape>>
    BY DEF SourcesInv, SourcesTypeOK, AbandonExtraction
  <1>1. /\ lost \in Extract /\ lost.pc = "done" /\ lost.doc = extracts[e].doc /\ lost.seen = extracts[e].seen
        /\ lost.answered = extracts[e].answered /\ lost.excused = TRUE
    BY <1>0 DEF Extract, ExtractPcs
  <1>2. extracts' = [extracts EXCEPT ![e] = lost]
    BY DEF AbandonExtraction
  <1>. HIDE DEF lost
  <1>. QED BY <1>0, <1>1, <1>2, ExtractAlone

\* A step that makes no source SYNCED lets no failure give way.
LEMMA FailureStays ==
  ASSUME \A d \in Docs : docs'[d].status = "SYNCED" => docs[d].status = "SYNCED"
  PROVE  FailureGivesWayToOverlap
  BY DEF FailureGivesWayToOverlap

\* SetSynced is the one step of an extraction after which a source is SYNCED.
LEMMA OnlySetSynced ==
  ASSUME SourcesInv, NEW e \in Extractions,
         \/ \E d \in Docs : HandleImportSourceExtract(e, d)
         \/ \E found \in BOOLEAN : StoreIntents(e, found)
         \/ MarkInProgress(e) \/ AnswerAccepted(e) \/ StartExtraction(e) \/ FetchDocument(e) \/ CallApe(e)
         \/ InsertDraft(e) \/ ProposeReview(e) \/ AbandonExtraction(e)
  PROVE  FailureGivesWayToOverlap
  <1>1. \/ docs' = docs
        \/ /\ \E st \in {"IN_PROGRESS", "FAILED"} : docs' = [docs EXCEPT ![extracts[e].doc].status = st]
           /\ Busy(e)
    BY DEF HandleImportSourceExtract, StoreIntents, MarkInProgress, AnswerAccepted, StartExtraction, FetchDocument,
           CallApe, InsertDraft, ProposeReview, AbandonExtraction, SetStatus, Succeeds, RemoteFailure, Busy
  <1>2. CASE docs' = docs
    BY <1>2, FailureStays
  <1>3. ASSUME NEW st \in {"IN_PROGRESS", "FAILED"}, docs' = [docs EXCEPT ![extracts[e].doc].status = st], Busy(e)
        PROVE  FailureGivesWayToOverlap
    <2>1. extracts[e].doc \in Docs /\ st \in DocStatuses
      BY <1>3 DEF SourcesInv, ExtractsInv, ExtractSteps, Busy, DocStatuses
    <2>. QED BY <1>3, <2>1, StatusWritten, FailureStays DEF SourcesInv
  <1>. QED BY <1>1, <1>2, <1>3

\* And SetSynced does so for a source that has failed only after an overlap.
LEMMA SyncedAfterOverlap ==
  ASSUME SourcesInv, NEW e \in Extractions, SetSynced(e)
  PROVE  FailureGivesWayToOverlap
  <1>1. /\ Extracting(e) /\ Busy(e) /\ extracts[e].doc \in Docs /\ "SYNCED" \in DocStatuses
        /\ docs' = docs \/ docs' = [docs EXCEPT ![extracts[e].doc].status = "SYNCED"]
    BY DEF SetSynced, SetStatus, Extracting, Busy, SourcesInv, ExtractsInv, ExtractSteps, DocStatuses
  <1>2. docs[extracts[e].doc].status = "FAILED" => extracts[e].seen # {} \/ extracts[e].excused
    BY <1>1 DEF SourcesInv, ExtractsInv, SeenExtracts
  <1>3. \A d \in Docs : d # extracts[e].doc => docs'[d].status = docs[d].status
    BY <1>1, StatusWritten DEF SourcesInv
  <1>. QED BY <1>1, <1>2, <1>3 DEF FailureGivesWayToOverlap

\* Every step keeps the invariant and what the two action properties ask of it.
LEMMA SourcesKeep ==
  ASSUME SourcesInv, [SourcesNext]_sourcesVars
  PROVE  SourcesInv' /\ NameGoesBackOnlyByOverlap /\ FailureGivesWayToOverlap
  <1>1. ASSUME \A d \in Docs : docs'[d].name = docs[d].name
        PROVE  NameGoesBackOnlyByOverlap
    BY <1>1, SourceRows DEF SourcesInv, NameGoesBackOnlyByOverlap
  <1>2. CASE SyncsNext
    <2>1. SourcesInv' /\ NameGoesBackOnlyByOverlap
      <3>1. ASSUME NEW d \in Docs, Rename(d) PROVE SourcesInv' /\ docs' = docs
        BY <3>1, RenameKeeps DEF Rename
      <3>2. ASSUME NEW s \in Syncs, NEW c \in Connectors, NEW known \in BOOLEAN,
                   HandleSyncConnectorDocuments(s, c, known)
            PROVE  SourcesInv' /\ docs' = docs
        BY <3>2, StartSyncKeeps DEF HandleSyncConnectorDocuments
      <3>3. ASSUME NEW s \in Syncs, ListDrive(s) \/ FinishListing(s) \/ ReportSync(s) \/ AbandonSync(s)
            PROVE  SourcesInv' /\ docs' = docs
        BY <3>3, ListKeeps, ReportKeeps, SyncEndsKeep DEF ListDrive, FinishListing, ReportSync, AbandonSync
      <3>. QED BY <1>1, <1>2, <3>1, <3>2, <3>3, InsertKeeps, UpdateKeeps DEF SyncsNext
    <2>2. FailureGivesWayToOverlap
      <3>1. docs' = docs \/ \E s \in Syncs : (\E d \in Docs : InsertDocument(s, d)) \/ UpdateDocument(s)
        BY <1>2 DEF SyncsNext, Rename, HandleSyncConnectorDocuments, ListDrive, FinishListing, ReportSync, AbandonSync
      <3>2. ASSUME NEW s \in Syncs, NEW d \in Docs, InsertDocument(s, d) PROVE FailureGivesWayToOverlap
        <4>. DEFINE row == [docs[d] EXCEPT !.stored = TRUE, !.status = "synced",
                                           !.name = syncs[s].names[d], !.conn = syncs[s].conn]
        <4>1. docs \in [Docs -> Doc]
          BY DEF SourcesInv, SourcesTypeOK
        <4>2. row.status = "synced"
          BY <4>1 DEF Doc
        <4>3. docs' = docs \/ docs' = [docs EXCEPT ![d] = row]
          BY <3>2 DEF InsertDocument
        <4>. HIDE DEF row
        <4>4. \A x \in Docs : docs'[x].status = docs[x].status \/ docs'[x].status = "synced"
          BY <4>1, <4>2, <4>3
        <4>. QED BY <4>4, FailureStays
      <3>3. ASSUME NEW s \in Syncs, UpdateDocument(s) PROVE FailureGivesWayToOverlap
        <4>. DEFINE d == syncs[s].file
                    row == [docs[d] EXCEPT !.status = "synced", !.name = syncs[s].names[d], !.conn = syncs[s].conn]
        <4>1. docs \in [Docs -> Doc] /\ d \in Docs
          BY <3>3 DEF UpdateDocument, SourcesInv, SourcesTypeOK, SyncsInv, SyncsOnRows
        <4>2. row.status = "synced"
          BY <4>1 DEF Doc
        <4>3. docs' = docs \/ docs' = [docs EXCEPT ![d] = row]
          BY <3>3 DEF UpdateDocument
        <4>. HIDE DEF row, d
        <4>4. \A x \in Docs : docs'[x].status = docs[x].status \/ docs'[x].status = "synced"
          BY <4>1, <4>2, <4>3
        <4>. QED BY <4>4, FailureStays
      <3>. QED BY <3>1, <3>2, <3>3, FailureStays
    <2>. QED BY <2>1, <2>2
  <1>3. CASE ExtractsNext
    <2>. PICK e \in Extractions :
           \/ \E d \in Docs : HandleImportSourceExtract(e, d)
           \/ \E found \in BOOLEAN : StoreIntents(e, found)
           \/ MarkInProgress(e) \/ AnswerAccepted(e) \/ StartExtraction(e) \/ FetchDocument(e) \/ CallApe(e)
           \/ SetSynced(e) \/ InsertDraft(e) \/ ProposeReview(e) \/ AbandonExtraction(e)
      BY <1>3 DEF ExtractsNext
    <2>1. SourcesInv'
      <3>1. CASE StartExtraction(e)
        BY <3>1, ProceedKeeps DEF StartExtraction, Extracting
      <3>2. CASE FetchDocument(e)
        BY <3>2, ProceedKeeps, FailureKeeps DEF FetchDocument, Succeeds, Extracting
      <3>3. CASE CallApe(e)
        BY <3>3, ProceedKeeps, FailureKeeps DEF CallApe, Succeeds, Extracting
      <3>. QED BY <3>1, <3>2, <3>3, StartExtractKeeps, StoreKeeps, MarkKeeps, AnswerKeeps, SetSyncedKeeps,
                  DraftKeeps, ProposeKeeps, AbandonKeeps
    <2>2. FailureGivesWayToOverlap
      BY OnlySetSynced, SyncedAfterOverlap
    <2>3. \A d \in Docs : docs'[d].name = docs[d].name
      <3>1. \/ docs' = docs
            \/ /\ \E st \in DocStatuses : docs' = [docs EXCEPT ![extracts[e].doc].status = st]
               /\ Busy(e)
        BY DEF HandleImportSourceExtract, StoreIntents, MarkInProgress, AnswerAccepted, StartExtraction, FetchDocument,
               CallApe, SetSynced, InsertDraft, ProposeReview, AbandonExtraction, SetStatus, Succeeds, RemoteFailure,
               Busy, DocStatuses
      <3>2. Busy(e) => extracts[e].doc \in Docs
        BY DEF SourcesInv, ExtractsInv, ExtractSteps, Busy
      <3>. QED BY <3>1, <3>2, StatusWritten DEF SourcesInv
    <2>. QED BY <1>1, <2>1, <2>2, <2>3
  <1>4. CASE UNCHANGED sourcesVars
    <2>1. docs' = docs /\ UNCHANGED driveVars /\ UNCHANGED extractVars /\ ape' = ape /\ losses' = losses
      BY <1>4 DEF sourcesVars, driveVars, extractVars
    <2>2. SourcesTypeOK'
      BY <2>1 DEF SourcesInv, SourcesTypeOK, driveVars, extractVars
    <2>3. SyncsInv' /\ ExtractsInv'
      BY <2>1, StatusIsFree, SyncedBySyncs DEF SourcesInv
    <2>. QED BY <1>1, <2>1, <2>2, <2>3, FailureStays DEF SourcesInv
  <1>. QED BY <1>2, <1>3, <1>4 DEF SourcesNext

\* The invariant of the sources, drives and extractions.
THEOREM SourcesInvariant == SourcesSpec => []SourcesInv
  <1>1. SourcesInv /\ [SourcesNext]_sourcesVars => SourcesInv'
    BY SourcesKeep
  <1>. QED BY <1>1, SourcesInitInv, PTL DEF SourcesSpec

\* A connector shows what it counted, and each counted file has a row.
LEMMA CountsAreOfRows == SourcesInv => CountedAreStored
  <1>. SUFFICES ASSUME SourcesInv, NEW c \in Connectors, conns[c].basis # {},
                       \A d \in conns[c].basis : ~(docs[d].stored /\ docs[d].conn # c)
                PROVE  ~(conns[c].count > Cardinality({d \in Docs : docs[d].stored /\ docs[d].conn = c}))
    BY DEF CountedAreStored
  <1>. DEFINE here == {d \in Docs : docs[d].stored /\ docs[d].conn = c}
  <1>1. conns[c].basis \subseteq Docs /\ conns[c].count \in Int
    BY SourceRows DEF SourcesInv
  <1>2. conns[c].count <= Cardinality(conns[c].basis) /\ \A d \in conns[c].basis : docs[d].stored
    BY DEF SourcesInv, SyncsInv, CountedWereStored
  <1>3. conns[c].basis \subseteq here
    BY <1>1, <1>2
  <1>4. IsFiniteSet(here)
    BY SourcesAssumption, FS_Subset
  <1>. HIDE DEF here
  <1>5. Cardinality(conns[c].basis) <= Cardinality(here) /\ IsFiniteSet(conns[c].basis)
    BY <1>3, <1>4, FS_Subset
  <1>6. Cardinality(conns[c].basis) \in Nat /\ Cardinality(here) \in Nat
    BY <1>4, <1>5, FS_CardinalityType
  <1>. QED BY <1>1, <1>2, <1>5, <1>6 DEF here

\* What overlapping syncs leave behind: an older name only after an overlap
\* (upsertDriveDocument of drive_sync.go), a count without its rows only after a
\* lost write or when another connector took a row over.
THEOREM SyncsAreTraced == SourcesSpec => SyncsTraced
  <1>1. SourcesInv /\ [SourcesNext]_sourcesVars => NameGoesBackOnlyByOverlap /\ SourcesInv'
    BY SourcesKeep
  <1>2. SourcesInv' => CountedAreStored'
    BY CountsAreOfRows, PTL
  <1>3. SourcesInv /\ [SourcesNext]_sourcesVars
          => [NameGoesBackOnlyByOverlap /\ CountedAreStored']_sourcesVars
    BY <1>1, <1>2
  <1>. QED BY <1>3, SourcesInvariant, PTL DEF SourcesSpec, SyncsTraced

\* What extractions leave behind: no source IN_PROGRESS without an extraction,
\* none SYNCED without an extract, no draft without a proposal, no failure that
\* turns into a success, but for the overlaps, answers and losses that the
\* property names (HandleImportSourceExtract of resource_relationships.go).
THEOREM ExtractionsAreTraced == SourcesSpec => ExtractionsTraced
  <1>1. SourcesInv /\ [SourcesNext]_sourcesVars => FailureGivesWayToOverlap /\ SourcesInv'
    BY SourcesKeep
  <1>2. SourcesInv => InProgressIsRunning /\ SyncedHasExtract /\ UnreviewedOnlyAfterAnswer
    <2>. SUFFICES ASSUME SourcesInv PROVE InProgressIsRunning /\ SyncedHasExtract /\ UnreviewedOnlyAfterAnswer
      OBVIOUS
    <2>1. InProgressIsRunning
      BY DEF SourcesInv, ExtractsInv, StatusAccounted, InProgressIsRunning, Extracting, Busy
    <2>2. SyncedHasExtract
      BY DEF SourcesInv, ExtractsInv, StatusAccounted, SyncedHasExtract, Busy
    <2>. QED BY <2>1, <2>2 DEF SourcesInv, ExtractsInv
  <1>3. SourcesInv' => InProgressIsRunning' /\ SyncedHasExtract' /\ UnreviewedOnlyAfterAnswer'
    BY <1>2, PTL
  <1>4. SourcesInv /\ [SourcesNext]_sourcesVars
          => [FailureGivesWayToOverlap /\ InProgressIsRunning' /\ SyncedHasExtract'
                /\ UnreviewedOnlyAfterAnswer']_sourcesVars
    BY <1>1, <1>3
  <1>. QED BY <1>4, SourcesInvariant, PTL DEF SourcesSpec, ExtractionsTraced

\* Type correctness of the sources.
THEOREM SourcesTypeCorrect == SourcesSpec => []SourcesTypeOK
  <1>1. SourcesInv => SourcesTypeOK
    BY DEF SourcesInv
  <1>. QED BY <1>1, SourcesInvariant, PTL

-----------------------------------------------------------------------------
(* Life of a case                                                              *)

\* How a case came to a status: by an event of the stream, by a call that has
\* not yet recorded it or failed to, or silently.
Explained(stream, table, creates, calls, c, s) ==
  \/ \E f \in stream : f[1] = c /\ f[3] = s
  \/ table[c].silent
  \/ s = "PENDING" /\ (creates[c].pc \in {"idle", "insert", "event"} \/ creates[c].failed)
  \/ \E m \in Moves : /\ calls[m].case = c /\ calls[m].to = s /\ calls[m].wrote
                      /\ calls[m].failed \/ calls[m].pc # "done"

\* The status of a case, the one that a call has read and the one that an event
\* of the stream leaves are explained.
Chained(stream, table, creates, calls) ==
  /\ \A c \in Openings : Explained(stream, table, creates, calls, c, table[c].status)
  /\ \A m \in Moves : calls[m].pc \in {"write", "event"} =>
       Explained(stream, table, creates, calls, calls[m].case, calls[m].from)
  /\ \A e \in stream : e[2] # "" => Explained(stream, table, creates, calls, e[1], e[2])

Chains == Chained(events, rows, openings, moves) /\ Chained(timeline, rows, openings, moves)

OpeningSteps ==
  /\ \A c \in Openings :
       /\ openings[c].pc \in {"event", "mark"} => rows[c].stored
       /\ openings[c].pc = "mark" => openings[c].alert # NoAlert
  /\ \A a \in Alerts : marks[a] # NoOpening => openings[marks[a]].pc = "done"

MoveSteps ==
  \A m \in Moves :
    /\ moves[m].pc # "idle" => moves[m].case \in Openings
    /\ moves[m].pc \in {"idle", "read", "write"} => ~moves[m].wrote

Escalations(c) == {m \in Moves : moves[m].case = c /\ moves[m].wrote /\ moves[m].to = "ESCALATED"}

\* Calls that overlap on a case have seen each other; one that read a float64
\* and saw no other writes the count that follows that of the row.
SeenMoves ==
  /\ \A m, n \in Moves :
       m # n /\ Moving(m) /\ Moving(n) /\ moves[m].case = moves[n].case => n \in moves[m].seen
  /\ \A m \in Moves : floats /\ moves[m].pc = "write" /\ moves[m].seen = {} =>
       moves[m].count = rows[moves[m].case].count

\* What is not read as a float64 counts for none: a count is that of one call.
NativeCounts ==
  ~floats => /\ \A m \in Moves : moves[m].pc = "write" => moves[m].count = 0
             /\ \A c \in Openings : rows[c].count = IF Escalations(c) = {} THEN 0 ELSE 1

\* What is read as one lags behind where calls overlapped.
FloatCounts ==
  floats => \A c \in Openings :
              rows[c].count < Cardinality(Escalations(c)) => \E m \in Escalations(c) : moves[m].seen # {}

\* Counts are never ahead of the escalations.
CountsBounded ==
  /\ \A c \in Openings : rows[c].count <= Cardinality(Escalations(c))
  /\ \A m \in Moves : moves[m].pc = "write" => moves[m].count <= Cardinality(Escalations(moves[m].case))

LifecycleInv ==
  /\ LifecycleTypeOK
  /\ OpeningSteps /\ AlertsTiedToCases
  /\ Chains
  /\ MoveSteps /\ SeenMoves /\ CountsBounded /\ NativeCounts /\ FloatCounts

\* A case of the lemmas below.
LEMMA LifecycleRows ==
  ASSUME LifecycleTypeOK
  PROVE  /\ \A c \in Openings : rows[c] \in CaseRow /\ openings[c] \in Opening /\ rows[c].count \in Nat
         /\ \A m \in Moves : moves[m] \in Move /\ moves[m].count \in Nat
  BY DEF LifecycleTypeOK, CaseRow, Opening, Move

\* Escalations of a case are counted among finitely many calls.
LEMMA EscalationsFinite ==
  \A c : /\ IsFiniteSet(Escalations(c)) /\ Cardinality(Escalations(c)) \in Nat
         /\ Cardinality(Escalations(c)) <= Cardinality(Moves) /\ Cardinality(Moves) \in Nat
  <1>. TAKE c
  <1>1. Escalations(c) \subseteq Moves /\ IsFiniteSet(Moves)
    BY LifecycleAssumption DEF Escalations
  <1>2. IsFiniteSet(Escalations(c)) /\ Cardinality(Escalations(c)) <= Cardinality(Moves)
    BY <1>1, FS_Subset
  <1>. QED BY <1>1, <1>2, FS_CardinalityType

\* EscalationsCounted of the escalations as they are named here.
LEMMA CountsAccounted == NativeCounts /\ FloatCounts => EscalationsCounted
  BY DEF NativeCounts, FloatCounts, EscalationsCounted, Escalations

\* Nothing is opened, moved or recorded.
LEMMA LifecycleInitInv == LifecycleInit => LifecycleInv
  <1>. SUFFICES ASSUME LifecycleInit PROVE LifecycleInv
    OBVIOUS
  <1>0. MaxMissed \in Nat /\ Cardinality(Moves) \in Nat
    BY LifecycleAssumption, FS_CardinalityType
  <1>1. /\ rows \in [Openings -> CaseRow]
        /\ \A c \in Openings : rows[c].status = "PENDING" /\ rows[c].count = 0
    BY <1>0 DEF LifecycleInit, CaseRow, Status
  <1>2. openings \in [Openings -> Opening] /\ \A c \in Openings : openings[c].pc = "idle"
    BY DEF LifecycleInit, Opening
  <1>3. /\ moves \in [Moves -> Move]
        /\ \A m \in Moves : moves[m].pc = "idle" /\ moves[m].wrote = FALSE
    BY <1>0 DEF LifecycleInit, Move, Status
  <1>4. /\ marks \in [Alerts -> Openings \cup {NoOpening}] /\ \A a \in Alerts : marks[a] = NoOpening
        /\ events = {} /\ timeline = {} /\ missed = 0 /\ floats \in BOOLEAN
    BY DEF LifecycleInit
  <1>5. LifecycleTypeOK
    BY <1>0, <1>1, <1>2, <1>3, <1>4 DEF LifecycleTypeOK
  <1>6. OpeningSteps /\ AlertsTiedToCases
    BY <1>2, <1>4 DEF OpeningSteps, AlertsTiedToCases
  <1>7. Chains
    BY <1>1, <1>2, <1>3, <1>4 DEF Chains, Chained, Explained
  <1>8. MoveSteps /\ SeenMoves
    BY <1>3 DEF MoveSteps, SeenMoves, Moving
  <1>9. CountsBounded /\ NativeCounts /\ FloatCounts
    <2>1. \A c : Escalations(c) = {}
      BY <1>3 DEF Escalations
    <2>2. \A c : Cardinality(Escalations(c)) = 0
      BY <2>1, FS_EmptySet
    <2>. QED BY <1>1, <1>3, <2>1, <2>2 DEF CountsBounded, NativeCounts, FloatCounts
  <1>. QED BY <1>5, <1>6, <1>7, <1>8, <1>9 DEF LifecycleInv

\* What explains a status goes on explaining it, or is recorded in the stream.
LEMMA ExplainedStays ==
  ASSUME NEW S, NEW T, S \subseteq T, NEW c, NEW s,
         rows[c].silent => rows'[c].silent,
         openings[c].pc \in {"idle", "insert", "event"} \/ openings[c].failed =>
           \/ openings'[c].pc \in {"idle", "insert", "event"} \/ openings'[c].failed
           \/ \E f \in T : f[1] = c /\ f[3] = "PENDING",
         \A m \in Moves : moves[m].case = c /\ moves[m].wrote /\ (moves[m].failed \/ moves[m].pc # "done") =>
           \/ /\ moves'[m].case = c /\ moves'[m].to = moves[m].to /\ moves'[m].wrote
              /\ moves'[m].failed \/ moves'[m].pc # "done"
           \/ \E f \in T : f[1] = c /\ f[3] = moves[m].to,
         Explained(S, rows, openings, moves, c, s)
  PROVE  Explained(T, rows', openings', moves', c, s)
  BY DEF Explained

\* What a step owes a case, of which a stream holds T after it: it stays silent,
\* its opening stays unrecorded or is in T, and its status is explained if it
\* changed.
CaseFollows(T, c) ==
  /\ rows[c].silent => rows'[c].silent
  /\ openings[c].pc \in {"idle", "insert", "event"} \/ openings[c].failed =>
       \/ openings'[c].pc \in {"idle", "insert", "event"} \/ openings'[c].failed
       \/ \E f \in T : f[1] = c /\ f[3] = "PENDING"
  /\ \/ rows'[c].status = rows[c].status
     \/ Explained(T, rows', openings', moves', c, rows'[c].status)

\* And a call of TransitionCase: what it wrote without an event stays so or has
\* its event in T, and it goes on with the status of a case.
MoveFollows(T, m) ==
  /\ moves[m].wrote /\ (moves[m].failed \/ moves[m].pc # "done") =>
       \/ /\ moves'[m].case = moves[m].case /\ moves'[m].to = moves[m].to /\ moves'[m].wrote
          /\ moves'[m].failed \/ moves'[m].pc # "done"
       \/ \E f \in T : f[1] = moves[m].case /\ f[3] = moves[m].to
  /\ moves'[m].pc \in {"write", "event"} =>
       \/ /\ moves[m].pc \in {"write", "event"}
          /\ moves'[m].case = moves[m].case /\ moves'[m].from = moves[m].from
       \/ /\ moves'[m].case \in Openings
          /\ moves'[m].from = rows[moves'[m].case].status

\* And the event e, if it is new: it is an opening or starts where a call began.
EventFollows(S, e) ==
  e \in S \/ e[2] = "" \/ \E m \in Moves : /\ moves[m].pc \in {"write", "event"}
                                            /\ e[1] = moves[m].case /\ e[2] = moves[m].from

\* A stream stays chained by a step whose new statuses, reads and events are
\* explained.
LEMMA ChainedStays ==
  ASSUME NEW S, NEW T, S \subseteq T, S \subseteq Event, MoveSteps, Chained(S, rows, openings, moves),
         \A c \in Openings : CaseFollows(T, c), \A m \in Moves : MoveFollows(T, m),
         \A e \in T : EventFollows(S, e)
  PROVE  Chained(T, rows', openings', moves')
  <1>1. ASSUME NEW c \in Openings, NEW s, Explained(S, rows, openings, moves, c, s)
        PROVE  Explained(T, rows', openings', moves', c, s)
    <2>1. \A m \in Moves : moves[m].case = c /\ moves[m].wrote /\ (moves[m].failed \/ moves[m].pc # "done") =>
            \/ /\ moves'[m].case = c /\ moves'[m].to = moves[m].to /\ moves'[m].wrote
               /\ moves'[m].failed \/ moves'[m].pc # "done"
            \/ \E f \in T : f[1] = c /\ f[3] = moves[m].to
      <3>. TAKE m \in Moves
      <3>. HAVE moves[m].case = c /\ moves[m].wrote /\ (moves[m].failed \/ moves[m].pc # "done")
      <3>. QED BY DEF MoveFollows
    <2>2. /\ rows[c].silent => rows'[c].silent
          /\ openings[c].pc \in {"idle", "insert", "event"} \/ openings[c].failed =>
               \/ openings'[c].pc \in {"idle", "insert", "event"} \/ openings'[c].failed
               \/ \E f \in T : f[1] = c /\ f[3] = "PENDING"
      BY DEF CaseFollows
    <2>. QED BY <1>1, <2>1, <2>2, ExplainedStays
  <1>2. \A c \in Openings : Explained(T, rows', openings', moves', c, rows'[c].status)
    BY <1>1 DEF Chained, CaseFollows
  <1>3. \A m \in Moves : moves[m].pc \in {"write", "event"} =>
          moves[m].case \in Openings /\ Explained(T, rows', openings', moves', moves[m].case, moves[m].from)
    BY <1>1 DEF Chained, MoveSteps
  <1>4. \A c \in Openings : Explained(T, rows', openings', moves', c, rows[c].status)
    BY <1>1 DEF Chained
  <1>5. \A m \in Moves : moves'[m].pc \in {"write", "event"} =>
          Explained(T, rows', openings', moves', moves'[m].case, moves'[m].from)
    BY <1>3, <1>4 DEF MoveFollows
  <1>6. \A e \in S : e[2] # "" => Explained(T, rows', openings', moves', e[1], e[2])
    BY <1>1 DEF Chained, Event
  <1>7. \A e \in T : e[2] # "" => Explained(T, rows', openings', moves', e[1], e[2])
    BY <1>3, <1>6 DEF EventFollows
  <1>. QED BY <1>2, <1>5, <1>7 DEF Chained

\* An event that is written, or not, in either stream.
LEMMA EventWritten ==
  ASSUME NEW event, writeLifecycleEvent(event), LifecycleTypeOK
  PROVE  /\ events \subseteq events' /\ timeline \subseteq timeline'
         /\ events' \subseteq events \cup {event} /\ timeline' \subseteq timeline \cup {event}
         /\ missed' = missed \/ Miss
         /\ missed' = missed => (event \in events' /\ event \in timeline')
  <1>1. CASE events' = events \cup {event} /\ timeline' = timeline \cup {event} /\ missed' = missed
    BY <1>1
  <1>2. CASE /\ Miss
             /\ events' \in {events, events \cup {event}}
             /\ timeline' \in {timeline, timeline \cup {event}}
    <2>1. missed' # missed
      BY <1>2, LifecycleAssumption DEF Miss, LifecycleTypeOK
    <2>. QED BY <1>2, <2>1
  <1>. QED BY <1>1, <1>2 DEF writeLifecycleEvent

\* The calls that fail stay within their bound.
LEMMA Misses ==
  ASSUME LifecycleTypeOK, missed' = missed \/ Miss
  PROVE  missed' \in 0..MaxMissed
  BY LifecycleAssumption DEF LifecycleTypeOK, Miss

\* Calls of TransitionCase do not mind what happens to a case but for its count.
LEMMA MovesUntouched ==
  ASSUME MoveSteps, SeenMoves, CountsBounded, NativeCounts, FloatCounts, moves' = moves, floats' = floats,
         \A c \in Openings : rows'[c].count = rows[c].count
  PROVE  MoveSteps' /\ SeenMoves' /\ CountsBounded' /\ NativeCounts' /\ FloatCounts'
  <1>1. \A c : Escalations(c)' = Escalations(c)
    BY DEF Escalations
  <1>2. MoveSteps'
    BY DEF MoveSteps
  <1>3. SeenMoves'
    BY DEF SeenMoves, MoveSteps, Moving
  <1>4. CountsBounded'
    BY <1>1 DEF CountsBounded
  <1>5. NativeCounts' /\ FloatCounts'
    <2>1. \A c \in Openings : /\ Escalations(c)' = Escalations(c) /\ rows'[c].count = rows[c].count
                              /\ Cardinality(Escalations(c)') = Cardinality(Escalations(c))
      BY <1>1
    <2>. QED BY <2>1 DEF NativeCounts, FloatCounts
  <1>. QED BY <1>2, <1>3, <1>4, <1>5

\* Calls of CreateCase do not mind what TransitionCase does.
LEMMA OpeningsUntouched ==
  ASSUME OpeningSteps, AlertsTiedToCases, UNCHANGED <<openings, marks>>, marks \in [Alerts -> Openings \cup {NoOpening}],
         \A c \in Openings : rows'[c].stored = rows[c].stored
  PROVE  OpeningSteps' /\ AlertsTiedToCases'
  BY DEF OpeningSteps, AlertsTiedToCases

\* A case keeps its type, its status and its count when it is stored or given
\* its cause.
LEMMA RowOpens ==
  ASSUME LifecycleTypeOK, NEW c \in Openings, NEW cause \in Causes \cup {NoCause},
         \/ rows' = [rows EXCEPT ![c].cause = cause]
         \/ rows' = [rows EXCEPT ![c].stored = TRUE]
         \/ rows' = rows
  PROVE  /\ rows' \in [Openings -> CaseRow]
         /\ \A d \in Openings : /\ rows'[d].status = rows[d].status /\ rows'[d].count = rows[d].count
                                /\ rows'[d].silent = rows[d].silent
                                /\ (rows[d].stored => rows'[d].stored)
  <1>. DEFINE named == [rows[c] EXCEPT !.cause = cause]
              stored == [rows[c] EXCEPT !.stored = TRUE]
  <1>1. rows \in [Openings -> CaseRow] /\ rows[c] \in CaseRow
    BY DEF LifecycleTypeOK
  <1>2. /\ named \in CaseRow /\ named.status = rows[c].status /\ named.count = rows[c].count
        /\ named.silent = rows[c].silent /\ named.stored = rows[c].stored
    BY <1>1 DEF CaseRow
  <1>3. /\ stored \in CaseRow /\ stored.status = rows[c].status /\ stored.count = rows[c].count
        /\ stored.silent = rows[c].silent /\ stored.stored = TRUE
    BY <1>1 DEF CaseRow
  <1>4. \/ rows' = [rows EXCEPT ![c] = named] \/ rows' = [rows EXCEPT ![c] = stored] \/ rows' = rows
    BY <1>1
  <1>. HIDE DEF named, stored
  <1>5. CASE rows' = [rows EXCEPT ![c] = named]
    <2>1. \A d \in Openings : rows'[d] = IF d = c THEN named ELSE rows[d]
      BY <1>1, <1>5
    <2>2. rows' \in [Openings -> CaseRow]
      BY <1>1, <1>2, <1>5
    <2>. QED BY <1>2, <2>1, <2>2
  <1>6. CASE rows' = [rows EXCEPT ![c] = stored]
    <2>1. \A d \in Openings : rows'[d] = IF d = c THEN stored ELSE rows[d]
      BY <1>1, <1>6
    <2>2. rows' \in [Openings -> CaseRow]
      BY <1>1, <1>3, <1>6
    <2>. QED BY <1>3, <2>1, <2>2
  <1>7. CASE rows' = rows
    BY <1>1, <1>7
  <1>. QED BY <1>4, <1>5, <1>6, <1>7

\* A step of a call of CreateCase; the cases keep their statuses.
LEMMA OpeningMoves ==
  ASSUME LifecycleInv, NEW c \in Openings, NEW row \in Opening, openings' = [openings EXCEPT ![c] = row],
         rows' \in [Openings -> CaseRow], marks' \in [Alerts -> Openings \cup {NoOpening}],
         events' \subseteq Event, timeline' \subseteq Event, moves' = moves, missed' \in 0..MaxMissed, floats' = floats,
         \A d \in Openings : /\ rows'[d].status = rows[d].status /\ rows'[d].count = rows[d].count
                             /\ rows'[d].silent = rows[d].silent
                             /\ (rows[d].stored => rows'[d].stored),
         events \subseteq events', timeline \subseteq timeline',
         events' \subseteq events \cup {<<c, "", "PENDING">>}, timeline' \subseteq timeline \cup {<<c, "", "PENDING">>},
         openings[c].pc \in {"idle", "insert", "event"} \/ openings[c].failed =>
           \/ row.pc \in {"insert", "event"}
           \/ row.failed
           \/ (<<c, "", "PENDING">> \in events' /\ <<c, "", "PENDING">> \in timeline'),
         openings[c].pc # "done", row.pc # "idle",
         row.alert = openings[c].alert \/ openings[c].pc = "idle",
         row.pc \in {"event", "mark"} => rows'[c].stored,
         row.pc = "mark" => row.alert # NoAlert,
         \A a \in Alerts : \/ marks'[a] = marks[a]
                             \/ (marks'[a] = c /\ row.pc = "done" /\ row.alert = a /\ rows'[c].stored),
         row.pc = "done" /\ row.alert # NoAlert => row.failed \/ marks'[row.alert] # NoOpening
  PROVE  LifecycleInv'
  <1>1. /\ openings' \in [Openings -> Opening] /\ openings'[c] = row
        /\ \A d \in Openings : d # c => openings'[d] = openings[d]
    BY DEF LifecycleInv, LifecycleTypeOK
  <1>2. LifecycleTypeOK'
    BY <1>1 DEF LifecycleInv, LifecycleTypeOK
  <1>3. OpeningSteps'
    <2>1. \A d \in Openings : openings'[d].pc \in {"event", "mark"} => rows'[d].stored
      BY <1>1 DEF LifecycleInv, OpeningSteps
    <2>2. \A d \in Openings : openings'[d].pc = "mark" => openings'[d].alert # NoAlert
      BY <1>1 DEF LifecycleInv, OpeningSteps
    <2>3. \A a \in Alerts : marks[a] # NoOpening => marks[a] # c /\ marks[a] \in Openings
      BY DEF LifecycleInv, LifecycleTypeOK, OpeningSteps
    <2>4. ASSUME NEW a \in Alerts, marks'[a] # NoOpening PROVE openings'[marks'[a]].pc = "done"
      <3>1. CASE marks'[a] = marks[a]
        <4>1. marks[a] \in Openings /\ openings'[marks[a]] = openings[marks[a]]
          BY <1>1, <2>3, <2>4, <3>1
        <4>2. openings[marks[a]].pc = "done"
          BY <2>4, <3>1 DEF LifecycleInv, OpeningSteps
        <4>. QED BY <3>1, <4>1, <4>2
      <3>2. CASE marks'[a] = c /\ row.pc = "done"
        BY <1>1, <3>2
      <3>. QED BY <3>1, <3>2
    <2>. QED BY <2>1, <2>2, <2>4 DEF OpeningSteps
  <1>4. AlertsTiedToCases'
    <2>1. \A a \in Alerts : marks[a] # NoOpening => marks[a] # c /\ marks[a] \in Openings
      BY DEF LifecycleInv, LifecycleTypeOK, OpeningSteps
    <2>2. ASSUME NEW a \in Alerts, marks'[a] # NoOpening
          PROVE  rows'[marks'[a]].stored /\ openings'[marks'[a]].alert = a
      <3>1. CASE marks'[a] = marks[a]
        <4>1. rows[marks[a]].stored /\ openings[marks[a]].alert = a
          BY <2>2, <3>1 DEF LifecycleInv, AlertsTiedToCases
        <4>2. marks[a] \in Openings /\ openings'[marks[a]] = openings[marks[a]]
          BY <1>1, <2>1, <2>2, <3>1
        <4>3. rows'[marks[a]].stored
          BY <4>1, <4>2
        <4>. QED BY <3>1, <4>1, <4>2, <4>3
      <3>2. CASE marks'[a] = c /\ row.alert = a /\ rows'[c].stored
        BY <1>1, <3>2
      <3>. QED BY <3>1, <3>2
    <2>3. ASSUME NEW d \in Openings, openings'[d].pc = "done", openings'[d].alert # NoAlert,
                 marks'[openings'[d].alert] = NoOpening
          PROVE  openings'[d].failed
      <3>1. CASE d = c
        BY <1>1, <2>3, <3>1
      <3>2. CASE d # c
        <4>0. openings'[d] = openings[d] /\ openings[d] \in Opening
          BY <1>1, <3>2 DEF LifecycleInv, LifecycleTypeOK
        <4>1. openings[d].alert \in Alerts
          BY <2>3, <4>0 DEF Opening
        <4>2. marks[openings[d].alert] = NoOpening
          <5>1. c # NoOpening
            BY LifecycleAssumption
          <5>2. marks'[openings[d].alert] = NoOpening
            BY <2>3, <4>0
          <5>3. \A a \in Alerts : marks'[a] = marks[a] \/ marks'[a] = c
            OBVIOUS
          <5>. QED BY <4>1, <5>1, <5>2, <5>3
        <4>. QED BY <2>3, <4>0, <4>2 DEF LifecycleInv, AlertsTiedToCases
      <3>. QED BY <3>1, <3>2
    <2>. QED BY <2>2, <2>3 DEF AlertsTiedToCases
  <1>5. ASSUME NEW S, NEW T, S \subseteq T, S \subseteq Event, T \subseteq S \cup {<<c, "", "PENDING">>},
               Chained(S, rows, openings, moves),
               openings[c].pc \in {"idle", "insert", "event"} \/ openings[c].failed =>
                 row.pc \in {"insert", "event"} \/ row.failed \/ <<c, "", "PENDING">> \in T
        PROVE  Chained(T, rows', openings', moves')
    <2>1. <<c, "", "PENDING">>[1] = c /\ <<c, "", "PENDING">>[2] = "" /\ <<c, "", "PENDING">>[3] = "PENDING"
      OBVIOUS
    <2>2. \A d \in Openings :
            openings[d].pc \in {"idle", "insert", "event"} \/ openings[d].failed =>
              \/ openings'[d].pc \in {"idle", "insert", "event"} \/ openings'[d].failed
              \/ \E f \in T : f[1] = d /\ f[3] = "PENDING"
      BY <1>1, <1>5, <2>1
    <2>3. \A e \in T : e \in S \/ e[2] = ""
      BY <1>5, <2>1
    <2>4. MoveSteps /\ \A d \in Openings : rows[d].silent => rows'[d].silent
      BY DEF LifecycleInv
    <2>5. \A d \in Openings : rows'[d].status = rows[d].status
      OBVIOUS
    <2>6. \A m \in Moves : moves'[m] = moves[m]
      OBVIOUS
    <2>7. \A d \in Openings : CaseFollows(T, d)
      BY <2>2, <2>4, <2>5 DEF CaseFollows
    <2>8. \A m \in Moves : MoveFollows(T, m)
      BY <2>6 DEF MoveFollows
    <2>9. \A e \in T : EventFollows(S, e)
      BY <2>3 DEF EventFollows
    <2>10. S \subseteq T /\ S \subseteq Event /\ Chained(S, rows, openings, moves)
      BY <1>5
    <2>. HIDE DEF Chained
    <2>. QED BY <2>4, <2>7, <2>8, <2>9, <2>10, ChainedStays
  <1>6. Chained(events', rows', openings', moves') /\ Chained(timeline', rows', openings', moves')
    <2>1. Chained(events', rows', openings', moves')
      BY <1>5 DEF LifecycleInv, LifecycleTypeOK, Chains
    <2>2. Chained(timeline', rows', openings', moves')
      BY <1>5 DEF LifecycleInv, LifecycleTypeOK, Chains
    <2>. QED BY <2>1, <2>2
  <1>7. Chains'
    BY <1>6 DEF Chains
  <1>8. MoveSteps' /\ SeenMoves' /\ CountsBounded' /\ NativeCounts' /\ FloatCounts'
    BY MovesUntouched DEF LifecycleInv
  <1>. QED BY <1>2, <1>3, <1>4, <1>7, <1>8 DEF LifecycleInv

\* HandleCreateCase: the id of the case is drawn, nothing is stored.
LEMMA HandleCreateCaseKeeps ==
  ASSUME LifecycleInv, NEW c \in Openings, NEW a \in Alerts \cup {NoAlert}, NEW cause \in Causes,
         HandleCreateCase(c, a, cause)
  PROVE  LifecycleInv'
  <1>. DEFINE row == [openings[c] EXCEPT !.pc = "insert", !.alert = a]
  <1>1. LifecycleTypeOK /\ openings[c] \in Opening
    BY DEF LifecycleInv, LifecycleTypeOK
  <1>2. row \in Opening /\ row.pc = "insert" /\ row.alert = a /\ row.failed = openings[c].failed
    BY <1>1 DEF Opening
  <1>3. openings' = [openings EXCEPT ![c] = row] /\ openings[c].pc = "idle"
    BY <1>1 DEF HandleCreateCase, LifecycleTypeOK
  <1>. HIDE DEF row
  <1>4. rows' = [rows EXCEPT ![c].cause = cause] /\ UNCHANGED <<marks, events, timeline, moves, missed, floats>>
    BY DEF HandleCreateCase
  <1>5. /\ rows' \in [Openings -> CaseRow]
        /\ \A d \in Openings : /\ rows'[d].status = rows[d].status /\ rows'[d].count = rows[d].count
                               /\ rows'[d].silent = rows[d].silent
                               /\ (rows[d].stored => rows'[d].stored)
    BY <1>1, <1>4, RowOpens
  <1>6. /\ marks' \in [Alerts -> Openings \cup {NoOpening}] /\ events' \subseteq Event /\ timeline' \subseteq Event
        /\ missed' \in 0..MaxMissed
    BY <1>1, <1>4 DEF LifecycleTypeOK
  <1>. QED BY <1>2, <1>3, <1>4, <1>5, <1>6, OpeningMoves

\* The INSERT, answered or not.
LEMMA InsertCaseKeeps ==
  ASSUME LifecycleInv, NEW c \in Openings, InsertCase(c)
  PROVE  LifecycleInv'
  <1>. DEFINE next == [openings[c] EXCEPT !.pc = "event"]
              end == [openings[c] EXCEPT !.pc = "done", !.failed = TRUE]
  <1>1. LifecycleTypeOK /\ openings[c] \in Opening /\ openings \in [Openings -> Opening] /\ openings[c].pc = "insert"
    BY DEF LifecycleInv, LifecycleTypeOK, InsertCase
  <1>2. /\ next \in Opening /\ next.pc = "event" /\ next.alert = openings[c].alert
        /\ end \in Opening /\ end.pc = "done" /\ end.alert = openings[c].alert /\ end.failed = TRUE
    BY <1>1 DEF Opening
  <1>3. \/ openings' = [openings EXCEPT ![c] = next] /\ rows' = [rows EXCEPT ![c].stored = TRUE]
        \/ openings' = [openings EXCEPT ![c] = end]
    BY <1>1 DEF InsertCase
  <1>. HIDE DEF next, end
  <1>4. UNCHANGED <<marks, events, timeline, moves, floats>> /\ (missed' = missed \/ Miss)
    BY DEF InsertCase
  <1>5. rows' = [rows EXCEPT ![c].stored = TRUE] \/ rows' = rows
    BY DEF InsertCase
  <1>6. rows[c].cause \in Causes \cup {NoCause}
    BY <1>1 DEF LifecycleTypeOK, CaseRow
  <1>7. /\ rows' \in [Openings -> CaseRow]
        /\ \A d \in Openings : /\ rows'[d].status = rows[d].status /\ rows'[d].count = rows[d].count
                               /\ rows'[d].silent = rows[d].silent
                               /\ (rows[d].stored => rows'[d].stored)
    BY <1>1, <1>5, <1>6, RowOpens
  <1>8. /\ marks' \in [Alerts -> Openings \cup {NoOpening}] /\ events' \subseteq Event /\ timeline' \subseteq Event
        /\ missed' \in 0..MaxMissed
    BY <1>1, <1>4, Misses DEF LifecycleTypeOK
  <1>9. CASE openings' = [openings EXCEPT ![c] = next] /\ rows' = [rows EXCEPT ![c].stored = TRUE]
    <2>1. rows'[c].stored
      BY <1>1, <1>9 DEF LifecycleTypeOK, CaseRow
    <2>. QED BY <1>1, <1>2, <1>4, <1>7, <1>8, <1>9, <2>1, OpeningMoves
  <1>10. CASE openings' = [openings EXCEPT ![c] = end]
    BY <1>1, <1>2, <1>4, <1>7, <1>8, <1>10, OpeningMoves
  <1>. QED BY <1>3, <1>9, <1>10

\* The event of an opening: what is missing in a stream is marked as failed.
LEMMA EventOfOpeningKeeps ==
  ASSUME LifecycleInv, NEW c \in Openings, EventOfOpening(c)
  PROVE  LifecycleInv'
  <1>. DEFINE pc == IF openings[c].alert = NoAlert THEN "done" ELSE "mark"
              lost == missed' # missed
              row == [openings[c] EXCEPT !.pc = pc, !.failed = lost]
  <1>1. LifecycleTypeOK /\ openings[c] \in Opening /\ openings \in [Openings -> Opening] /\ openings[c].pc = "event"
    BY DEF LifecycleInv, LifecycleTypeOK, EventOfOpening
  <1>2. lost \in BOOLEAN /\ pc \in {"done", "mark"} /\ (pc = "done" <=> openings[c].alert = NoAlert)
    OBVIOUS
  <1>3. openings' = [openings EXCEPT ![c] = row]
    BY <1>1 DEF EventOfOpening
  <1>. HIDE DEF pc
  <1>4. lost <=> missed' # missed
    OBVIOUS
  <1>. HIDE DEF lost
  <1>5. row \in Opening /\ row.pc = pc /\ row.alert = openings[c].alert /\ row.failed = lost
    BY <1>1, <1>2 DEF Opening
  <1>. HIDE DEF row
  <1>6. UNCHANGED <<rows, marks, moves, floats>> /\ writeLifecycleEvent(<<c, "", "PENDING">>)
    BY DEF EventOfOpening
  <1>7. /\ events \subseteq events' /\ timeline \subseteq timeline'
        /\ events' \subseteq events \cup {<<c, "", "PENDING">>} /\ timeline' \subseteq timeline \cup {<<c, "", "PENDING">>}
        /\ missed' = missed \/ Miss
        /\ missed' = missed => (<<c, "", "PENDING">> \in events' /\ <<c, "", "PENDING">> \in timeline')
    BY <1>1, <1>6, EventWritten
  <1>8. <<c, "", "PENDING">> \in Event
    BY DEF Event, Status
  <1>9. /\ marks' \in [Alerts -> Openings \cup {NoOpening}] /\ events' \subseteq Event /\ timeline' \subseteq Event
        /\ missed' \in 0..MaxMissed /\ rows' \in [Openings -> CaseRow]
    BY <1>1, <1>6, <1>7, <1>8, Misses DEF LifecycleTypeOK
  <1>10. row.pc \in {"event", "mark"} => rows'[c].stored
    BY <1>1, <1>6 DEF LifecycleInv, OpeningSteps
  <1>11. row.failed \/ (<<c, "", "PENDING">> \in events' /\ <<c, "", "PENDING">> \in timeline')
    BY <1>4, <1>5, <1>7
  <1>12. \A d \in Openings : /\ rows'[d].status = rows[d].status /\ rows'[d].count = rows[d].count
                             /\ rows'[d].silent = rows[d].silent
                             /\ (rows[d].stored => rows'[d].stored)
    BY <1>6
  <1>. QED BY <1>1, <1>2, <1>5, <1>3, <1>6, <1>7, <1>9, <1>10, <1>11, <1>12, OpeningMoves

\* The mark on the alert, or a failed call, with or without it.
LEMMA MarkAlertKeeps ==
  ASSUME LifecycleInv, NEW c \in Openings, markAlertEscalated(c)
  PROVE  LifecycleInv'
  <1>. DEFINE next == [openings[c] EXCEPT !.pc = "done"]
              end == [openings[c] EXCEPT !.pc = "done", !.failed = TRUE]
  <1>1. LifecycleTypeOK /\ openings[c] \in Opening /\ openings \in [Openings -> Opening] /\ openings[c].pc = "mark"
    BY DEF LifecycleInv, LifecycleTypeOK, markAlertEscalated
  <1>2. /\ next \in Opening /\ next.pc = "done" /\ next.alert = openings[c].alert /\ next.failed = openings[c].failed
        /\ end \in Opening /\ end.pc = "done" /\ end.alert = openings[c].alert /\ end.failed = TRUE
    BY <1>1 DEF Opening
  <1>3. \/ /\ openings' = [openings EXCEPT ![c] = next]
           /\ marks' = [marks EXCEPT ![openings[c].alert] = c] /\ missed' = missed
        \/ /\ openings' = [openings EXCEPT ![c] = end] /\ Miss
           /\ marks' = marks \/ marks' = [marks EXCEPT ![openings[c].alert] = c]
    BY <1>1 DEF markAlertEscalated
  <1>. HIDE DEF next, end
  <1>4. UNCHANGED <<rows, events, timeline, moves, floats>> /\ (missed' = missed \/ Miss)
    BY DEF markAlertEscalated
  <1>5. rows[c].stored /\ openings[c].alert \in Alerts
    BY <1>1 DEF LifecycleInv, OpeningSteps, Opening
  <1>6. /\ marks' \in [Alerts -> Openings \cup {NoOpening}] /\ events' \subseteq Event /\ timeline' \subseteq Event
        /\ missed' \in 0..MaxMissed /\ rows' \in [Openings -> CaseRow]
    BY <1>1, <1>3, <1>4, Misses DEF LifecycleTypeOK
  <1>7. \A d \in Openings : /\ rows'[d].status = rows[d].status /\ rows'[d].count = rows[d].count
                            /\ rows'[d].silent = rows[d].silent
                            /\ (rows[d].stored => rows'[d].stored)
    BY <1>4
  <1>8. rows'[c].stored /\ \A a \in Alerts : marks'[a] = marks[a] \/ (marks'[a] = c /\ openings[c].alert = a)
    BY <1>1, <1>3, <1>4, <1>5 DEF LifecycleTypeOK
  <1>9. ASSUME NEW row \in Opening, openings' = [openings EXCEPT ![c] = row], row.pc = "done",
               row.alert = openings[c].alert, openings[c].failed => row.failed,
               row.failed \/ marks'[row.alert] # NoOpening
        PROVE  LifecycleInv'
    <2>1. \A a \in Alerts :
            \/ marks'[a] = marks[a]
            \/ (marks'[a] = c /\ row.pc = "done" /\ row.alert = a /\ rows'[c].stored)
      BY <1>8, <1>9
    <2>2. openings[c].pc \in {"idle", "insert", "event"} \/ openings[c].failed => row.failed
      BY <1>1, <1>9
    <2>3. /\ openings[c].pc # "done" /\ row.pc \notin {"idle", "event", "mark"}
          /\ row.pc = "done" /\ row.alert # NoAlert => row.failed \/ marks'[row.alert] # NoOpening
      BY <1>1, <1>9
    <2>4. /\ events' = events /\ timeline' = timeline /\ moves' = moves /\ floats' = floats
      BY <1>4
    <2>. QED BY <1>6, <1>7, <1>9, <2>1, <2>2, <2>3, <2>4, OpeningMoves, ZenonT(40)
  <1>10. CASE openings' = [openings EXCEPT ![c] = next] /\ marks' = [marks EXCEPT ![openings[c].alert] = c]
    <2>1. marks'[openings[c].alert] # NoOpening
      BY <1>1, <1>5, <1>10, LifecycleAssumption DEF LifecycleTypeOK
    <2>. QED BY <1>2, <1>9, <1>10, <2>1
  <1>11. CASE openings' = [openings EXCEPT ![c] = end]
    BY <1>2, <1>9, <1>11
  <1>. QED BY <1>3, <1>10, <1>11

\* HandleEscalateCase sets the status silently.
LEMMA HandleEscalateCaseKeeps ==
  ASSUME LifecycleInv, NEW c \in Openings, HandleEscalateCase(c)
  PROVE  LifecycleInv'
  <1>. DEFINE row == [rows[c] EXCEPT !.status = "ESCALATED", !.silent = TRUE]
  <1>1. LifecycleTypeOK /\ rows \in [Openings -> CaseRow] /\ rows[c] \in CaseRow
    BY DEF LifecycleInv, LifecycleTypeOK
  <1>2. /\ row \in CaseRow /\ row.status = "ESCALATED" /\ row.silent = TRUE
        /\ row.stored = rows[c].stored /\ row.count = rows[c].count
    BY <1>1 DEF CaseRow, Status
  <1>3. rows' = [rows EXCEPT ![c] = row] /\ UNCHANGED <<openings, marks, events, timeline, moves, missed, floats>>
    BY <1>1 DEF HandleEscalateCase
  <1>. HIDE DEF row
  <1>4. /\ rows' \in [Openings -> CaseRow] /\ rows'[c] = row
        /\ \A d \in Openings : d # c => rows'[d] = rows[d]
    BY <1>1, <1>2, <1>3
  <1>5. \A d \in Openings : rows'[d].count = rows[d].count
    BY <1>2, <1>4
  <1>6. \A d \in Openings : rows'[d].stored = rows[d].stored
    <2>. TAKE d \in Openings
    <2>1. CASE d = c
      BY <1>2, <1>4, <2>1
    <2>2. CASE d # c
      BY <1>4, <2>2
    <2>. QED BY <2>1, <2>2
  <1>7. LifecycleTypeOK'
    BY <1>1, <1>3, <1>4 DEF LifecycleTypeOK
  <1>8. OpeningSteps' /\ AlertsTiedToCases'
    BY <1>1, <1>3, <1>6, OpeningsUntouched DEF LifecycleInv, LifecycleTypeOK
  <1>9. MoveSteps' /\ SeenMoves' /\ CountsBounded' /\ NativeCounts' /\ FloatCounts'
    BY <1>3, <1>5, MovesUntouched DEF LifecycleInv
  <1>10. ASSUME NEW S, S \subseteq Event, Chained(S, rows, openings, moves)
         PROVE  Chained(S, rows', openings', moves')
    <2>1. rows'[c].silent
      BY <1>2, <1>4
    <2>2. Explained(S, rows', openings', moves', c, rows'[c].status)
      BY <2>1 DEF Explained
    <2>3. \A d \in Openings : rows[d].silent => rows'[d].silent
      BY <1>4, <2>1
    <2>4. \A d \in Openings :
            rows'[d].status = rows[d].status \/ Explained(S, rows', openings', moves', d, rows'[d].status)
      BY <1>4, <2>2
    <2>5. \A d \in Openings : CaseFollows(S, d)
      BY <1>3, <2>3, <2>4 DEF CaseFollows
    <2>6. \A m \in Moves : MoveFollows(S, m)
      BY <1>3 DEF MoveFollows
    <2>7. MoveSteps /\ S \subseteq S /\ S \subseteq Event /\ Chained(S, rows, openings, moves)
      BY <1>10 DEF LifecycleInv
    <2>. HIDE DEF Chained
    <2>8. \A e \in S : EventFollows(S, e)
      BY DEF EventFollows
    <2>. QED BY <2>5, <2>6, <2>7, <2>8, ChainedStays
  <1>11. Chained(events, rows', openings', moves') /\ Chained(timeline, rows', openings', moves')
    <2>1. Chained(events, rows', openings', moves')
      BY <1>1, <1>10 DEF LifecycleInv, LifecycleTypeOK, Chains
    <2>2. Chained(timeline, rows', openings', moves')
      BY <1>1, <1>10 DEF LifecycleInv, LifecycleTypeOK, Chains
    <2>. QED BY <2>1, <2>2
  <1>12. Chains'
    BY <1>3, <1>11 DEF Chains
  <1>. QED BY <1>7, <1>8, <1>9, <1>12 DEF LifecycleInv

\* A step of a call of TransitionCase that does not write the case.
LEMMA MoveWithoutWrite ==
  ASSUME LifecycleInv, NEW m \in Moves, UNCHANGED <<rows, openings, marks, floats>>,
         moves' \in [Moves -> Move], missed' \in 0..MaxMissed,
         events' \subseteq Event, timeline' \subseteq Event, events \subseteq events', timeline \subseteq timeline',
         \A e \in (events' \ events) \cup (timeline' \ timeline) :
           moves[m].pc = "event" /\ e[1] = moves[m].case /\ e[2] = moves[m].from,
         \A n \in Moves :
           /\ moves'[n].wrote = moves[n].wrote
           /\ n # m => /\ moves'[n].pc = moves[n].pc /\ moves'[n].case = moves[n].case
                       /\ moves'[n].from = moves[n].from /\ moves'[n].to = moves[n].to
                       /\ moves'[n].failed = moves[n].failed /\ moves'[n].count = moves[n].count
                       /\ moves[n].seen \subseteq moves'[n].seen,
         moves[m].pc # "idle" => /\ moves'[m].case = moves[m].case /\ moves'[m].to = moves[m].to
                                 /\ moves'[m].seen = moves[m].seen,
         moves'[m].case \in Openings, moves'[m].pc \in {"read", "write", "done"},
         moves[m].wrote => /\ moves'[m].pc = "done"
                           /\ moves'[m].failed \/ \A T \in {events', timeline'} :
                                                    \E f \in T : f[1] = moves[m].case /\ f[3] = moves[m].to,
         moves'[m].pc = "write" => /\ moves[m].pc = "read"
                                   /\ moves'[m].from = rows[moves[m].case].status
                                   /\ moves'[m].count = IF floats THEN rows[moves[m].case].count ELSE 0,
         \/ moves'[m].pc = "done"
         \/ Moving(m)
         \/ \A n \in Moves : Moving(n) /\ moves[n].case = moves'[m].case => n \in moves'[m].seen /\ m \in moves'[n].seen
  PROVE  LifecycleInv'
  <1>1. LifecycleTypeOK'
    BY DEF LifecycleInv, LifecycleTypeOK
  <1>2. OpeningSteps' /\ AlertsTiedToCases'
    BY OpeningsUntouched DEF LifecycleInv, LifecycleTypeOK
  <1>3. MoveSteps'
    <2>1. ASSUME NEW n \in Moves
          PROVE  /\ moves'[n].pc # "idle" => moves'[n].case \in Openings
                 /\ moves'[n].pc \in {"idle", "read", "write"} => ~moves'[n].wrote
      BY DEF LifecycleInv, MoveSteps
    <2>. QED BY <2>1 DEF MoveSteps
  <1>4. ~moves[m].wrote \/ moves[m].pc # "idle"
    BY DEF LifecycleInv, MoveSteps
  <1>5. \A c : Escalations(c)' = Escalations(c)
    <2>. TAKE c
    <2>1. \A n \in Moves : (moves'[n].case = c /\ moves'[n].wrote /\ moves'[n].to = "ESCALATED")
                             <=> (moves[n].case = c /\ moves[n].wrote /\ moves[n].to = "ESCALATED")
      BY <1>4
    <2>. QED BY <2>1 DEF Escalations
  <1>6. SeenMoves'
    <2>1. ASSUME NEW k \in Moves, NEW n \in Moves, k # n, Moving(k)', Moving(n)', moves'[k].case = moves'[n].case
          PROVE  n \in moves'[k].seen
      <3>1. \A j \in Moves : j # m => (Moving(j)' => Moving(j))
        BY DEF Moving
      <3>2. CASE Moving(m) \/ (k # m /\ n # m)
        <4>1. Moving(k) /\ Moving(n) /\ moves[k].case = moves[n].case
          BY <2>1, <3>1, <3>2 DEF Moving
        <4>2. n \in moves[k].seen
          BY <2>1, <4>1 DEF LifecycleInv, SeenMoves
        <4>3. moves[k].seen \subseteq moves'[k].seen
          BY <3>2 DEF Moving
        <4>. QED BY <4>2, <4>3
      <3>3. CASE ~Moving(m) /\ (k = m \/ n = m)
        <4>1. moves'[m].pc # "done"
          BY <2>1, <3>3 DEF Moving
        <4>2. \A j \in Moves : Moving(j) /\ moves[j].case = moves'[m].case => j \in moves'[m].seen /\ m \in moves'[j].seen
          BY <3>3, <4>1
        <4>3. CASE k = m
          BY <2>1, <3>1, <4>2, <4>3
        <4>4. CASE n = m
          BY <2>1, <3>1, <4>2, <4>4
        <4>. QED BY <3>3, <4>3, <4>4
      <3>. QED BY <3>2, <3>3
    <2>2. ASSUME NEW n \in Moves, floats, moves'[n].pc = "write", moves'[n].seen = {}
          PROVE  moves'[n].count = rows'[moves'[n].case].count
      <3>1. CASE n = m
        BY <2>2, <3>1
      <3>2. CASE n # m
        <4>1. moves[n].pc = "write" /\ moves[n].seen = {}
          BY <2>2, <3>2
        <4>. QED BY <2>2, <3>2, <4>1 DEF LifecycleInv, SeenMoves
      <3>. QED BY <3>1, <3>2
    <2>. QED BY <2>1, <2>2 DEF SeenMoves
  <1>7. CountsBounded'
    <2>1. \A c \in Openings : rows[c].count <= Cardinality(Escalations(c))
      BY DEF LifecycleInv, CountsBounded
    <2>2. ASSUME NEW n \in Moves, moves'[n].pc = "write"
          PROVE  moves'[n].count <= Cardinality(Escalations(moves'[n].case))
      <3>1. CASE n = m
        <4>1. Cardinality(Escalations(moves'[m].case)) \in Nat
          BY EscalationsFinite
        <4>2. moves'[m].case \in Openings /\ moves'[m].case = moves[m].case
          BY <2>2, <3>1
        <4>3. moves'[m].count = rows[moves'[m].case].count \/ moves'[m].count = 0
          BY <2>2, <3>1, <4>2
        <4>. QED BY <2>1, <3>1, <4>1, <4>2, <4>3
      <3>2. CASE n # m
        BY <2>2, <3>2 DEF LifecycleInv, CountsBounded
      <3>. QED BY <3>1, <3>2
    <2>3. \A n \in Moves : \A c : moves'[n].pc = "write" /\ c = moves'[n].case =>
            moves'[n].count <= Cardinality(Escalations(c)')
      BY <1>5, <2>2
    <2>4. \A c \in Openings : rows'[c].count <= Cardinality(Escalations(c)')
      BY <1>5, <2>1
    <2>. QED BY <2>3, <2>4 DEF CountsBounded, Escalations
  <1>8. NativeCounts' /\ FloatCounts'
    <2>1. \A c, n : n \in Escalations(c) => moves[n].seen \subseteq moves'[n].seen
      BY <1>4 DEF Escalations
    <2>2. ASSUME floats, NEW c \in Openings, rows'[c].count < Cardinality(Escalations(c)')
          PROVE  \E n \in Escalations(c)' : moves'[n].seen # {}
      <3>1. rows[c].count < Cardinality(Escalations(c))
        BY <1>5, <2>2
      <3>2. PICK n \in Escalations(c) : moves[n].seen # {}
        BY <2>2, <3>1 DEF LifecycleInv, FloatCounts
      <3>. QED BY <1>5, <2>1, <3>2
    <2>3. ASSUME ~floats, NEW n \in Moves, moves'[n].pc = "write"
          PROVE  moves'[n].count = 0
      <3>1. CASE n = m
        BY <2>3, <3>1
      <3>2. CASE n # m
        BY <2>3, <3>2 DEF LifecycleInv, NativeCounts
      <3>. QED BY <3>1, <3>2
    <2>4. ASSUME ~floats, NEW c \in Openings
          PROVE  rows'[c].count = IF Escalations(c)' = {} THEN 0 ELSE 1
      BY <1>5, <2>4 DEF LifecycleInv, NativeCounts
    <2>5. floats' = floats
      OBVIOUS
    <2>6. FloatCounts'
      BY <2>2, <2>5 DEF FloatCounts
    <2>7. NativeCounts'
      BY <2>3, <2>4, <2>5 DEF NativeCounts
    <2>. QED BY <2>6, <2>7
  <1>9. ASSUME NEW S, NEW T, S \subseteq T, S \subseteq Event, Chained(S, rows, openings, moves),
               \A e \in T \ S : moves[m].pc = "event" /\ e[1] = moves[m].case /\ e[2] = moves[m].from,
               moves[m].wrote => moves'[m].failed \/ \E f \in T : f[1] = moves[m].case /\ f[3] = moves[m].to
        PROVE  Chained(T, rows', openings', moves')
    <2>1. \A d \in Openings : CaseFollows(T, d)
      BY DEF CaseFollows
    <2>2. ASSUME NEW n \in Moves, moves[n].wrote, moves[n].failed \/ moves[n].pc # "done"
          PROVE  \/ /\ moves'[n].case = moves[n].case /\ moves'[n].to = moves[n].to /\ moves'[n].wrote
                    /\ moves'[n].failed \/ moves'[n].pc # "done"
                 \/ \E f \in T : f[1] = moves[n].case /\ f[3] = moves[n].to
      <3>1. CASE n = m
        <4>1. moves'[m].case = moves[m].case /\ moves'[m].to = moves[m].to /\ moves'[m].wrote
          BY <1>4, <2>2, <3>1
        <4>. QED BY <1>9, <2>2, <3>1, <4>1
      <3>2. CASE n # m
        BY <2>2, <3>2
      <3>. QED BY <3>1, <3>2
    <2>3. ASSUME NEW n \in Moves, moves'[n].pc \in {"write", "event"}
          PROVE  \/ /\ moves[n].pc \in {"write", "event"}
                    /\ moves'[n].case = moves[n].case /\ moves'[n].from = moves[n].from
                 \/ /\ moves'[n].case \in Openings
                    /\ moves'[n].from = rows[moves'[n].case].status
      <3>1. CASE n = m
        BY <2>3, <3>1
      <3>2. CASE n # m
        BY <2>3, <3>2
      <3>. QED BY <3>1, <3>2
    <2>4. \A e \in T : EventFollows(S, e)
      BY <1>9 DEF EventFollows
    <2>5. MoveSteps /\ S \subseteq T /\ S \subseteq Event /\ Chained(S, rows, openings, moves)
      BY <1>9 DEF LifecycleInv
    <2>6. \A n \in Moves : MoveFollows(T, n)
      BY <2>2, <2>3 DEF MoveFollows
    <2>. HIDE DEF Chained
    <2>. QED BY <2>1, <2>4, <2>5, <2>6, ChainedStays
  <1>10. Chained(events', rows', openings', moves') /\ Chained(timeline', rows', openings', moves')
    <2>1. events \subseteq Event /\ timeline \subseteq Event
      BY DEF LifecycleInv, LifecycleTypeOK
    <2>2. Chained(events, rows, openings, moves) /\ Chained(timeline, rows, openings, moves)
      BY DEF LifecycleInv, Chains
    <2>3. Chained(events', rows', openings', moves')
      BY <1>9, <2>1, <2>2
    <2>4. Chained(timeline', rows', openings', moves')
      BY <1>9, <2>1, <2>2
    <2>. QED BY <2>3, <2>4
  <1>11. Chains'
    BY <1>10 DEF Chains
  <1>. QED BY <1>1, <1>2, <1>3, <1>6, <1>7, <1>8, <1>11 DEF LifecycleInv

\* A call begins: it and the calls under way on its case have seen each other.
LEMMA TransitionCaseKeeps ==
  ASSUME LifecycleInv, NEW m \in Moves, NEW c \in Openings, NEW to \in Status, TransitionCase(m, c, to)
  PROVE  LifecycleInv'
  <1>. DEFINE met == {k \in Moves : Moving(k) /\ moves[k].case = c}
              first == [moves[m] EXCEPT !.pc = "read", !.case = c, !.to = to, !.seen = met]
              other(n) == [moves[n] EXCEPT !.seen = @ \cup {m}]
  <1>1. LifecycleTypeOK /\ moves \in [Moves -> Move] /\ moves[m].pc = "idle"
    BY DEF LifecycleInv, LifecycleTypeOK, TransitionCase
  <1>2. met \subseteq Moves /\ \A n \in Moves : n \in met <=> Moving(n) /\ moves[n].case = c
    OBVIOUS
  <1>3. moves' = [n \in Moves |-> IF n = m THEN first ELSE IF n \in met THEN other(n) ELSE moves[n]]
    BY DEF TransitionCase
  <1>. HIDE DEF met
  <1>4. moves[m] \in Move /\ c \in Openings \cup {NoOpening}
    BY <1>1
  <1>5. /\ first \in Move /\ first.pc = "read" /\ first.case = c /\ first.to = to /\ first.seen = met
        /\ first.wrote = moves[m].wrote
    BY <1>2, <1>4 DEF Move
  <1>6. ASSUME NEW n \in Moves
        PROVE  /\ other(n) \in Move /\ other(n).pc = moves[n].pc /\ other(n).case = moves[n].case
               /\ other(n).from = moves[n].from /\ other(n).to = moves[n].to /\ other(n).failed = moves[n].failed
               /\ other(n).count = moves[n].count /\ other(n).wrote = moves[n].wrote
               /\ other(n).seen = moves[n].seen \cup {m}
    <2>1. moves[n] \in Move
      BY <1>1
    <2>. QED BY <2>1 DEF Move
  <1>. HIDE DEF first, other
  <1>7. moves' \in [Moves -> Move]
    BY <1>1, <1>3, <1>5, <1>6
  <1>8. moves'[m] = first /\ \A n \in Moves : n # m => moves'[n] = IF n \in met THEN other(n) ELSE moves[n]
    BY <1>3
  <1>9. ASSUME NEW n \in Moves
        PROVE  /\ moves'[n].wrote = moves[n].wrote
               /\ n # m => /\ moves'[n].pc = moves[n].pc /\ moves'[n].case = moves[n].case
                           /\ moves'[n].from = moves[n].from /\ moves'[n].to = moves[n].to
                           /\ moves'[n].failed = moves[n].failed /\ moves'[n].count = moves[n].count
                           /\ moves[n].seen \subseteq moves'[n].seen
    <2>1. CASE n = m
      BY <1>5, <1>8, <2>1
    <2>2. CASE n # m /\ n \in met
      <3>1. moves'[n] = other(n)
        BY <1>8, <2>2
      <3>. QED BY <1>6, <2>2, <3>1
    <2>3. CASE n # m /\ n \notin met
      <3>1. moves'[n] = moves[n]
        BY <1>8, <2>3
      <3>. QED BY <2>3, <3>1
    <2>. QED BY <2>1, <2>2, <2>3
  <1>10. ASSUME NEW n \in Moves, Moving(n), moves[n].case = moves'[m].case
         PROVE  n \in moves'[m].seen /\ m \in moves'[n].seen
    <2>1. n \in met /\ n # m
      BY <1>1, <1>2, <1>5, <1>8, <1>10 DEF Moving
    <2>2. moves'[n] = other(n) /\ moves'[m].seen = met
      BY <1>5, <1>8, <2>1
    <2>. QED BY <1>6, <2>1, <2>2
  <1>11. UNCHANGED <<rows, openings, marks, events, timeline, missed, floats>>
    BY DEF TransitionCase
  <1>12. /\ events' \subseteq Event /\ timeline' \subseteq Event /\ missed' \in 0..MaxMissed
         /\ events \subseteq events' /\ timeline \subseteq timeline'
         /\ (events' \ events) \cup (timeline' \ timeline) = {}
    BY <1>1, <1>11 DEF LifecycleTypeOK
  <1>13. ~moves[m].wrote
    BY <1>1 DEF LifecycleInv, MoveSteps
  <1>14. moves'[m].case \in Openings /\ moves'[m].pc = "read"
    BY <1>5, <1>8
  <1>. QED BY <1>1, <1>7, <1>9, <1>10, <1>11, <1>12, <1>13, <1>14, MoveWithoutWrite

\* A call reads its case, or ends.
LEMMA ReadCaseKeeps ==
  ASSUME LifecycleInv, NEW m \in Moves, ReadCase(m)
  PROVE  LifecycleInv'
  <1>. DEFINE r == rows[moves[m].case]
              count == IF floats THEN r.count ELSE 0
              next == [moves[m] EXCEPT !.pc = "write", !.from = r.status, !.count = count]
              end == [moves[m] EXCEPT !.pc = "done"]
  <1>1. /\ LifecycleTypeOK /\ moves \in [Moves -> Move] /\ moves[m] \in Move /\ moves[m].pc = "read"
        /\ moves[m].case \in Openings /\ ~moves[m].wrote
    BY DEF LifecycleInv, LifecycleTypeOK, MoveSteps, ReadCase
  <1>2. r \in CaseRow
    BY <1>1 DEF LifecycleTypeOK
  <1>3. moves' = [moves EXCEPT ![m] = next] \/ moves' = [moves EXCEPT ![m] = end]
    BY <1>1 DEF ReadCase
  <1>4. r.status \in Status /\ count \in 0..Cardinality(Moves)
    BY <1>2, EscalationsFinite DEF CaseRow
  <1>5. r = rows[moves[m].case] /\ count = IF floats THEN rows[moves[m].case].count ELSE 0
    OBVIOUS
  <1>. HIDE DEF r, count
  <1>6. /\ next \in Move /\ next.pc = "write" /\ next.from = r.status /\ next.count = count
        /\ next.case = moves[m].case /\ next.to = moves[m].to /\ next.seen = moves[m].seen /\ next.wrote = moves[m].wrote
    BY <1>1, <1>4 DEF Move
  <1>7. /\ end \in Move /\ end.pc = "done" /\ end.case = moves[m].case /\ end.to = moves[m].to
        /\ end.seen = moves[m].seen /\ end.wrote = moves[m].wrote
    BY <1>1 DEF Move
  <1>. HIDE DEF next, end
  <1>8. UNCHANGED <<rows, openings, marks, events, timeline, floats>> /\ (missed' = missed \/ Miss)
    BY DEF ReadCase
  <1>9. /\ events' \subseteq Event /\ timeline' \subseteq Event /\ missed' \in 0..MaxMissed
        /\ events \subseteq events' /\ timeline \subseteq timeline'
        /\ (events' \ events) \cup (timeline' \ timeline) = {}
    BY <1>1, <1>8, Misses DEF LifecycleTypeOK
  <1>10. ASSUME NEW row \in Move, moves' = [moves EXCEPT ![m] = row], row.pc \in {"write", "done"},
                row.case = moves[m].case, row.to = moves[m].to, row.seen = moves[m].seen, row.wrote = moves[m].wrote,
                row.pc = "write" => row.from = r.status /\ row.count = count
         PROVE  LifecycleInv'
    <2>1. moves' \in [Moves -> Move] /\ moves'[m] = row /\ \A n \in Moves : n # m => moves'[n] = moves[n]
      BY <1>1, <1>10
    <2>2. ASSUME NEW n \in Moves
          PROVE  /\ moves'[n].wrote = moves[n].wrote
                 /\ n # m => /\ moves'[n].pc = moves[n].pc /\ moves'[n].case = moves[n].case
                             /\ moves'[n].from = moves[n].from /\ moves'[n].to = moves[n].to
                             /\ moves'[n].failed = moves[n].failed /\ moves'[n].count = moves[n].count
                             /\ moves[n].seen \subseteq moves'[n].seen
      <3>1. CASE n = m
        BY <1>10, <2>1, <3>1
      <3>2. CASE n # m
        BY <2>1, <3>2
      <3>. QED BY <3>1, <3>2
    <2>3. Moving(m)
      BY <1>1 DEF Moving
    <2>. QED BY <1>1, <1>5, <1>8, <1>9, <1>10, <2>1, <2>2, <2>3, MoveWithoutWrite
  <1>11. CASE moves' = [moves EXCEPT ![m] = next]
    BY <1>6, <1>10, <1>11
  <1>12. CASE moves' = [moves EXCEPT ![m] = end]
    BY <1>7, <1>10, <1>12
  <1>. QED BY <1>3, <1>11, <1>12

\* The event of a call: what is missing in a stream is marked as failed.
LEMMA EventOfMoveKeeps ==
  ASSUME LifecycleInv, NEW m \in Moves, EventOfMove(m)
  PROVE  LifecycleInv'
  <1>. DEFINE lost == missed' # missed
              row == [moves[m] EXCEPT !.pc = "done", !.failed = lost]
              event == <<moves[m].case, moves[m].from, moves[m].to>>
  <1>1. /\ LifecycleTypeOK /\ moves \in [Moves -> Move] /\ moves[m] \in Move /\ moves[m].pc = "event"
        /\ moves[m].case \in Openings
    BY DEF LifecycleInv, LifecycleTypeOK, MoveSteps, EventOfMove
  <1>2. moves' = [moves EXCEPT ![m] = row]
    BY <1>1 DEF EventOfMove
  <1>3. lost \in BOOLEAN /\ (lost <=> missed' # missed)
    OBVIOUS
  <1>. HIDE DEF lost
  <1>4. /\ row \in Move /\ row.pc = "done" /\ row.case = moves[m].case /\ row.to = moves[m].to
        /\ row.seen = moves[m].seen /\ row.wrote = moves[m].wrote /\ row.failed = lost
    BY <1>1, <1>3 DEF Move
  <1>. HIDE DEF row
  <1>5. moves[m].from \in Status /\ moves[m].to \in Status
    BY <1>1 DEF Move
  <1>6. event \in Event /\ event[1] = moves[m].case /\ event[2] = moves[m].from /\ event[3] = moves[m].to
    BY <1>1, <1>5 DEF Event
  <1>7. writeLifecycleEvent(event) /\ UNCHANGED <<rows, openings, marks, floats>>
    BY DEF EventOfMove
  <1>. HIDE DEF event
  <1>8. /\ events \subseteq events' /\ timeline \subseteq timeline'
        /\ events' \subseteq events \cup {event} /\ timeline' \subseteq timeline \cup {event}
        /\ missed' = missed \/ Miss
        /\ missed' = missed => (event \in events' /\ event \in timeline')
    BY <1>1, <1>7, EventWritten
  <1>9. events' \subseteq Event /\ timeline' \subseteq Event /\ missed' \in 0..MaxMissed
    BY <1>1, <1>6, <1>8, Misses DEF LifecycleTypeOK
  <1>10. \A e \in (events' \ events) \cup (timeline' \ timeline) :
           moves[m].pc = "event" /\ e[1] = moves[m].case /\ e[2] = moves[m].from
    BY <1>1, <1>6, <1>8
  <1>11. moves' \in [Moves -> Move] /\ moves'[m] = row /\ \A n \in Moves : n # m => moves'[n] = moves[n]
    BY <1>1, <1>2, <1>4
  <1>12. ASSUME NEW n \in Moves
         PROVE  /\ moves'[n].wrote = moves[n].wrote
                /\ n # m => /\ moves'[n].pc = moves[n].pc /\ moves'[n].case = moves[n].case
                            /\ moves'[n].from = moves[n].from /\ moves'[n].to = moves[n].to
                            /\ moves'[n].failed = moves[n].failed /\ moves'[n].count = moves[n].count
                            /\ moves[n].seen \subseteq moves'[n].seen
    <2>1. CASE n = m
      BY <1>4, <1>11, <2>1
    <2>2. CASE n # m
      BY <1>11, <2>2
    <2>. QED BY <2>1, <2>2
  <1>13. moves'[m].failed \/ \A T \in {events', timeline'} : \E f \in T : f[1] = moves[m].case /\ f[3] = moves[m].to
    <2>1. CASE missed' = missed
      BY <1>6, <1>8, <2>1
    <2>2. CASE missed' # missed
      BY <1>3, <1>4, <1>11, <2>2
    <2>. QED BY <2>1, <2>2
  <1>. QED BY <1>1, <1>4, <1>7, <1>8, <1>9, <1>10, <1>11, <1>12, <1>13, MoveWithoutWrite

\* The case written by a call gets its status and, escalated, its count.
LEMMA MovedRow ==
  ASSUME LifecycleInv, NEW m \in Moves, moves[m].pc = "write", rows' = Moved(m),
         moves[m].to = "ESCALATED" => moves[m].count + 1 <= Cardinality(Moves)
  PROVE  /\ rows' \in [Openings -> CaseRow] /\ moves[m].case \in Openings
         /\ \A d \in Openings : d # moves[m].case => rows'[d] = rows[d]
         /\ \A d \in Openings : rows'[d].stored = rows[d].stored /\ rows'[d].silent = rows[d].silent
         /\ rows'[moves[m].case].status = moves[m].to
         /\ rows'[moves[m].case].count =
              IF moves[m].to = "ESCALATED" THEN moves[m].count + 1 ELSE rows[moves[m].case].count
  <1>. DEFINE c == moves[m].case
              count == IF moves[m].to = "ESCALATED" THEN moves[m].count + 1 ELSE rows[c].count
              row == [rows[c] EXCEPT !.status = moves[m].to, !.count = count]
  <1>1. /\ rows \in [Openings -> CaseRow] /\ moves[m] \in Move /\ c \in Openings /\ rows[c] \in CaseRow
    BY DEF LifecycleInv, LifecycleTypeOK, MoveSteps
  <1>2. rows' = [rows EXCEPT ![c] = row]
    BY <1>1 DEF Moved
  <1>3. /\ moves[m].count \in Nat /\ Cardinality(Moves) \in Nat /\ rows[c].count \in 0..Cardinality(Moves)
        /\ moves[m].to \in Status
    BY <1>1, EscalationsFinite DEF Move, CaseRow
  <1>4. count \in 0..Cardinality(Moves)
    BY <1>3
  <1>5. count = IF moves[m].to = "ESCALATED" THEN moves[m].count + 1 ELSE rows[c].count
    OBVIOUS
  <1>. HIDE DEF count
  <1>6. /\ row \in CaseRow /\ row.status = moves[m].to /\ row.count = count
        /\ row.stored = rows[c].stored /\ row.silent = rows[c].silent
    BY <1>1, <1>3, <1>4 DEF CaseRow
  <1>. HIDE DEF row
  <1>7. rows' \in [Openings -> CaseRow] /\ rows'[c] = row /\ \A d \in Openings : d # c => rows'[d] = rows[d]
    BY <1>1, <1>2, <1>6
  <1>8. ASSUME NEW d \in Openings PROVE rows'[d].stored = rows[d].stored /\ rows'[d].silent = rows[d].silent
    <2>1. CASE d = c
      BY <1>6, <1>7, <2>1
    <2>2. CASE d # c
      BY <1>7, <2>2
    <2>. QED BY <2>1, <2>2
  <1>. QED BY <1>1, <1>5, <1>6, <1>7, <1>8

\* A written case: its status is explained by the call; its count is ahead by
\* the escalation of the call, or behind where the call has seen another.
LEMMA CaseMoves ==
  ASSUME LifecycleInv, NEW m \in Moves, moves[m].pc = "write", NEW row \in Move, rows' = Moved(m),
         moves' = [moves EXCEPT ![m] = row],
         UNCHANGED <<openings, marks, events, timeline, floats>>, missed' \in 0..MaxMissed,
         row.pc = "event" \/ (row.pc = "done" /\ row.failed), row.wrote,
         row.case = moves[m].case, row.from = moves[m].from, row.to = moves[m].to, row.seen = moves[m].seen
  PROVE  LifecycleInv'
  <1>. DEFINE c == moves[m].case
              up == moves[m].to = "ESCALATED"
  <1>1. LifecycleTypeOK /\ moves \in [Moves -> Move] /\ moves[m] \in Move /\ c \in Openings /\ ~moves[m].wrote
    BY DEF LifecycleInv, LifecycleTypeOK, MoveSteps
  <1>2. /\ moves' \in [Moves -> Move] /\ moves'[m] = row /\ \A n \in Moves : n # m => moves'[n] = moves[n]
    BY <1>1
  <1>3. m \notin Escalations(c) /\ Escalations(c) \cup {m} \subseteq Moves
    BY <1>1 DEF Escalations
  <1>4. /\ Cardinality(Escalations(c) \cup {m}) = Cardinality(Escalations(c)) + 1
        /\ Cardinality(Escalations(c) \cup {m}) <= Cardinality(Moves)
    <2>1. IsFiniteSet(Escalations(c)) /\ IsFiniteSet(Moves)
      BY EscalationsFinite, LifecycleAssumption
    <2>. QED BY <1>3, <2>1, FS_AddElement, FS_Subset
  <1>5. /\ \A d : Cardinality(Escalations(d)) \in Nat
        /\ Cardinality(Moves) \in Nat /\ moves[m].count \in Nat /\ rows[c].count \in Nat
    BY <1>1, EscalationsFinite, LifecycleRows
  <1>6. moves[m].count <= Cardinality(Escalations(c)) /\ rows[c].count <= Cardinality(Escalations(c))
    BY <1>1 DEF LifecycleInv, CountsBounded
  <1>7. moves[m].count + 1 <= Cardinality(Moves)
    BY <1>4, <1>5, <1>6
  <1>8. /\ rows' \in [Openings -> CaseRow]
        /\ \A d \in Openings : d # c => rows'[d] = rows[d]
        /\ \A d \in Openings : rows'[d].stored = rows[d].stored /\ rows'[d].silent = rows[d].silent
        /\ rows'[c].status = moves[m].to
        /\ rows'[c].count = IF up THEN moves[m].count + 1 ELSE rows[c].count
    BY <1>7, MovedRow
  <1>9. \A d : Escalations(d)' = IF d = c /\ up THEN Escalations(d) \cup {m} ELSE Escalations(d)
    <2>. TAKE d
    <2>1. \A n \in Moves : (moves'[n].case = d /\ moves'[n].wrote /\ moves'[n].to = "ESCALATED")
                             <=> \/ (moves[n].case = d /\ moves[n].wrote /\ moves[n].to = "ESCALATED")
                                 \/ (n = m /\ d = c /\ up)
      <3>. TAKE n \in Moves
      <3>1. CASE n = m
        BY <1>1, <1>2, <3>1
      <3>2. CASE n # m
        BY <1>2, <3>2
      <3>. QED BY <3>1, <3>2
    <2>. QED BY <2>1 DEF Escalations
  <1>. HIDE DEF up
  <1>10. LifecycleTypeOK'
    BY <1>1, <1>2, <1>8 DEF LifecycleTypeOK
  <1>11. OpeningSteps' /\ AlertsTiedToCases'
    BY <1>1, <1>8, OpeningsUntouched DEF LifecycleInv, LifecycleTypeOK
  <1>12. MoveSteps'
    <2>1. ASSUME NEW n \in Moves
          PROVE  /\ moves'[n].pc # "idle" => moves'[n].case \in Openings
                 /\ moves'[n].pc \in {"idle", "read", "write"} => ~moves'[n].wrote
      <3>1. CASE n = m
        BY <1>1, <1>2, <3>1
      <3>2. CASE n # m
        BY <1>2, <3>2 DEF LifecycleInv, MoveSteps
      <3>. QED BY <3>1, <3>2
    <2>. QED BY <2>1 DEF MoveSteps
  <1>13. \A n \in Moves : (Moving(n)' => n # m /\ Moving(n)) /\ (moves'[n].pc = "write" => n # m)
    BY <1>2 DEF Moving
  <1>14. SeenMoves'
    <2>1. ASSUME NEW k \in Moves, NEW n \in Moves, k # n, Moving(k)', Moving(n)', moves'[k].case = moves'[n].case
          PROVE  n \in moves'[k].seen
      <3>1. k # m /\ n # m /\ Moving(k) /\ Moving(n)
        BY <1>13, <2>1
      <3>. QED BY <1>2, <2>1, <3>1 DEF LifecycleInv, SeenMoves
    <2>2. ASSUME NEW n \in Moves, floats, moves'[n].pc = "write", moves'[n].seen = {}
          PROVE  moves'[n].count = rows'[moves'[n].case].count
      <3>1. n # m /\ moves'[n] = moves[n]
        BY <1>2, <1>13, <2>2
      <3>2. moves[n].case # c
        <4>1. CASE moves[n].case = c
          <5>1. m \in moves[n].seen
            BY <2>2, <3>1, <4>1 DEF LifecycleInv, SeenMoves, Moving
          <5>. QED BY <2>2, <3>1, <5>1
        <4>. QED BY <4>1
      <3>3. moves[n].count = rows[moves[n].case].count /\ moves[n].case \in Openings
        BY <2>2, <3>1 DEF LifecycleInv, SeenMoves, MoveSteps
      <3>. QED BY <1>8, <3>1, <3>2, <3>3
    <2>. QED BY <2>1, <2>2 DEF SeenMoves
  <1>15. \A d : Cardinality(Escalations(d)) <= Cardinality(Escalations(d)')
    <2>. TAKE d
    <2>1. CASE d = c /\ up
      BY <1>4, <1>5, <1>9, <2>1
    <2>2. CASE ~(d = c /\ up)
      BY <1>5, <1>9, <2>2
    <2>. QED BY <2>1, <2>2
  <1>16. \A d \in Openings : rows'[d].count <= Cardinality(Escalations(d)')
    <2>. TAKE d \in Openings
    <2>1. CASE d = c /\ up
      <3>1. Escalations(d)' = Escalations(c) \cup {m} /\ rows'[d].count = moves[m].count + 1
        BY <1>8, <1>9, <2>1
      <3>2. moves[m].count <= Cardinality(Escalations(c)) /\ Cardinality(Escalations(c)) \in Nat /\ moves[m].count \in Nat
        BY <1>5, <1>6
      <3>3. moves[m].count + 1 <= Cardinality(Escalations(c)) + 1
        BY <3>2
      <3>. QED BY <1>4, <3>1, <3>3
    <2>2. CASE ~(d = c /\ up)
      <3>1. rows'[d].count = rows[d].count
        BY <1>8, <2>2
      <3>2. rows[d].count <= Cardinality(Escalations(d))
        BY DEF LifecycleInv, CountsBounded
      <3>. QED BY <1>9, <2>2, <3>1, <3>2
    <2>. QED BY <2>1, <2>2
  <1>17. \A n \in Moves : \A d :
           moves'[n].pc = "write" /\ d = moves'[n].case => moves'[n].count <= Cardinality(Escalations(d)')
    <2>. TAKE n \in Moves
    <2>. TAKE d
    <2>. HAVE moves'[n].pc = "write" /\ d = moves'[n].case
    <2>1. n # m /\ moves'[n] = moves[n]
      BY <1>2, <1>13
    <2>2. moves[n].count <= Cardinality(Escalations(d)) /\ moves[n].count \in Nat
      BY <1>1, <2>1, LifecycleRows DEF LifecycleInv, CountsBounded
    <2>3. Cardinality(Escalations(d)') \in Nat /\ Cardinality(Escalations(d)) \in Nat
      <3>1. Cardinality(Escalations(d)) \in Nat /\ Cardinality(Escalations(c)) + 1 \in Nat
        BY <1>5
      <3>2. CASE d = c /\ up
        BY <1>4, <1>9, <3>1, <3>2
      <3>3. CASE ~(d = c /\ up)
        BY <1>9, <3>1, <3>3
      <3>. QED BY <3>2, <3>3
    <2>4. Cardinality(Escalations(d)) <= Cardinality(Escalations(d)')
      BY <1>15
    <2>5. moves'[n].count = moves[n].count
      BY <2>1
    <2>. HIDE DEF c
    <2>. QED BY <2>2, <2>3, <2>4, <2>5
  <1>18. CountsBounded'
    BY <1>16, <1>17 DEF CountsBounded, Escalations
  <1>19. ASSUME floats, NEW d \in Openings, rows'[d].count < Cardinality(Escalations(d)')
         PROVE  \E n \in Escalations(d)' : moves'[n].seen # {}
    <2>1. rows[d].count < Cardinality(Escalations(d)) => \E n \in Escalations(d) : moves[n].seen # {}
      BY <1>19 DEF LifecycleInv, FloatCounts
    <2>2. \A n \in Escalations(d) : moves'[n].seen = moves[n].seen
      BY <1>2 DEF Escalations
    <2>3. CASE ~(d = c /\ up)
      <3>1. rows'[d].count = rows[d].count
        BY <1>8, <2>3
      <3>2. Escalations(d)' = Escalations(d)
        BY <1>9, <2>3
      <3>. QED BY <1>19, <2>1, <2>2, <3>1, <3>2
    <2>4. CASE d = c /\ up
      <3>1. Escalations(d)' = Escalations(d) \cup {m} /\ rows'[d].count = moves[m].count + 1
        BY <1>8, <1>9, <2>4
      <3>2. CASE moves[m].seen # {}
        BY <1>2, <3>1, <3>2
      <3>3. CASE moves[m].seen = {}
        <4>1. moves[m].count = rows[d].count
          BY <1>19, <2>4, <3>3 DEF LifecycleInv, SeenMoves
        <4>2. rows[d].count < Cardinality(Escalations(d))
          BY <1>4, <1>5, <1>19, <2>4, <3>1, <4>1
        <4>. QED BY <2>1, <2>2, <3>1, <4>2
      <3>. QED BY <3>2, <3>3
    <2>. QED BY <2>3, <2>4
  <1>20. NativeCounts' /\ FloatCounts'
    <2>1. floats' = floats
      OBVIOUS
    <2>2. FloatCounts'
      BY <1>19, <2>1 DEF FloatCounts
    <2>3. ASSUME ~floats, NEW n \in Moves, moves'[n].pc = "write"
          PROVE  moves'[n].count = 0
      <3>1. n # m /\ moves'[n] = moves[n]
        BY <1>2, <1>13, <2>3
      <3>. QED BY <2>3, <3>1 DEF LifecycleInv, NativeCounts
    <2>4. ASSUME ~floats, NEW d \in Openings
          PROVE  rows'[d].count = IF Escalations(d)' = {} THEN 0 ELSE 1
      <3>1. CASE d = c /\ up
        <4>1. Escalations(d)' = Escalations(d) \cup {m} /\ rows'[d].count = moves[m].count + 1
          BY <1>8, <1>9, <3>1
        <4>2. moves[m].count = 0
          BY <2>4 DEF LifecycleInv, NativeCounts
        <4>. QED BY <4>1, <4>2
      <3>2. CASE ~(d = c /\ up)
        <4>1. rows'[d].count = rows[d].count /\ Escalations(d)' = Escalations(d)
          BY <1>8, <1>9, <3>2
        <4>. QED BY <2>4, <4>1 DEF LifecycleInv, NativeCounts
      <3>. QED BY <3>1, <3>2
    <2>5. NativeCounts'
      BY <2>1, <2>3, <2>4 DEF NativeCounts
    <2>. QED BY <2>2, <2>5
  <1>21. ASSUME NEW S, S \subseteq Event, Chained(S, rows, openings, moves)
         PROVE  Chained(S, rows', openings', moves')
    <2>1. /\ moves'[m].case = c /\ moves'[m].to = rows'[c].status /\ moves'[m].wrote
          /\ moves'[m].failed \/ moves'[m].pc # "done"
      BY <1>2, <1>8
    <2>2. Explained(S, rows', openings', moves', c, rows'[c].status)
      BY <2>1 DEF Explained
    <2>3. \A d \in Openings :
            rows'[d].status = rows[d].status \/ Explained(S, rows', openings', moves', d, rows'[d].status)
      BY <1>8, <2>2
    <2>4. \A d \in Openings : CaseFollows(S, d)
      BY <1>8, <2>3 DEF CaseFollows
    <2>5. ASSUME NEW n \in Moves
          PROVE  MoveFollows(S, n)
      <3>1. CASE n = m
        BY <1>1, <1>2, <3>1 DEF MoveFollows
      <3>2. CASE n # m
        BY <1>2, <3>2 DEF MoveFollows
      <3>. QED BY <3>1, <3>2
    <2>6. MoveSteps /\ S \subseteq S /\ S \subseteq Event /\ Chained(S, rows, openings, moves)
      BY <1>21 DEF LifecycleInv
    <2>. HIDE DEF Chained, c
    <2>7. \A e \in S : EventFollows(S, e)
      BY DEF EventFollows
    <2>. QED BY <2>4, <2>5, <2>6, <2>7, ChainedStays
  <1>22. Chained(events, rows', openings', moves') /\ Chained(timeline, rows', openings', moves')
    <2>1. events \subseteq Event /\ timeline \subseteq Event
      BY DEF LifecycleInv, LifecycleTypeOK
    <2>2. Chained(events, rows, openings, moves) /\ Chained(timeline, rows, openings, moves)
      BY DEF LifecycleInv, Chains
    <2>. QED BY <1>21, <2>1, <2>2
  <1>23. Chains'
    BY <1>22 DEF Chains
  <1>. QED BY <1>10, <1>11, <1>12, <1>14, <1>18, <1>20, <1>23 DEF LifecycleInv

\* The PATCH of a call, carried out or not.
LEMMA WriteCaseKeeps ==
  ASSUME LifecycleInv, NEW m \in Moves, WriteCase(m)
  PROVE  LifecycleInv'
  <1>. DEFINE next == [moves[m] EXCEPT !.pc = "event", !.wrote = TRUE]
              lost == [moves[m] EXCEPT !.pc = "done", !.wrote = TRUE, !.failed = TRUE]
              end == [moves[m] EXCEPT !.pc = "done", !.failed = TRUE]
  <1>1. /\ LifecycleTypeOK /\ moves \in [Moves -> Move] /\ moves[m] \in Move /\ moves[m].pc = "write"
        /\ moves[m].case \in Openings /\ ~moves[m].wrote
    BY DEF LifecycleInv, LifecycleTypeOK, MoveSteps, WriteCase
  <1>2. \/ rows' = Moved(m) /\ moves' = [moves EXCEPT ![m] = next]
        \/ rows' = Moved(m) /\ moves' = [moves EXCEPT ![m] = lost]
        \/ UNCHANGED rows /\ moves' = [moves EXCEPT ![m] = end]
    BY <1>1 DEF WriteCase
  <1>3. /\ next \in Move /\ next.pc = "event" /\ next.wrote = TRUE /\ next.case = moves[m].case
        /\ next.from = moves[m].from /\ next.to = moves[m].to /\ next.seen = moves[m].seen
    BY <1>1 DEF Move
  <1>4. /\ lost \in Move /\ lost.pc = "done" /\ lost.wrote = TRUE /\ lost.failed = TRUE /\ lost.case = moves[m].case
        /\ lost.from = moves[m].from /\ lost.to = moves[m].to /\ lost.seen = moves[m].seen
    BY <1>1 DEF Move
  <1>5. /\ end \in Move /\ end.pc = "done" /\ end.wrote = moves[m].wrote /\ end.failed = TRUE
        /\ end.case = moves[m].case /\ end.to = moves[m].to /\ end.seen = moves[m].seen
    BY <1>1 DEF Move
  <1>. HIDE DEF next, lost, end
  <1>6. UNCHANGED <<openings, marks, events, timeline, floats>> /\ missed' \in 0..MaxMissed
    <2>1. UNCHANGED <<openings, marks, events, timeline, floats>> /\ (missed' = missed \/ Miss)
      BY DEF WriteCase
    <2>. QED BY <1>1, <2>1, Misses
  <1>7. CASE rows' = Moved(m) /\ moves' = [moves EXCEPT ![m] = next]
    BY <1>1, <1>3, <1>6, <1>7, CaseMoves
  <1>8. CASE rows' = Moved(m) /\ moves' = [moves EXCEPT ![m] = lost]
    BY <1>1, <1>4, <1>6, <1>8, CaseMoves
  <1>9. CASE UNCHANGED rows /\ moves' = [moves EXCEPT ![m] = end]
    <2>1. moves' \in [Moves -> Move] /\ moves'[m] = end /\ \A n \in Moves : n # m => moves'[n] = moves[n]
      BY <1>1, <1>5, <1>9
    <2>2. ASSUME NEW n \in Moves
          PROVE  /\ moves'[n].wrote = moves[n].wrote
                 /\ n # m => /\ moves'[n].pc = moves[n].pc /\ moves'[n].case = moves[n].case
                             /\ moves'[n].from = moves[n].from /\ moves'[n].to = moves[n].to
                             /\ moves'[n].failed = moves[n].failed /\ moves'[n].count = moves[n].count
                             /\ moves[n].seen \subseteq moves'[n].seen
      <3>1. CASE n = m
        BY <1>5, <2>1, <3>1
      <3>2. CASE n # m
        BY <2>1, <3>2
      <3>. QED BY <3>1, <3>2
    <2>3. /\ events' \subseteq Event /\ timeline' \subseteq Event
          /\ events \subseteq events' /\ timeline \subseteq timeline'
          /\ (events' \ events) \cup (timeline' \ timeline) = {}
      BY <1>1, <1>6 DEF LifecycleTypeOK
    <2>. QED BY <1>1, <1>5, <1>6, <1>9, <2>1, <2>2, <2>3, MoveWithoutWrite
  <1>. QED BY <1>2, <1>7, <1>8, <1>9

\* Every step of a case, its calls and its events keeps the invariant.
LEMMA LifecycleKeep ==
  ASSUME LifecycleInv, [LifecycleNext]_lifecycleVars
  PROVE  LifecycleInv'
  <1>1. ASSUME NEW c \in Openings, NEW a \in Alerts \cup {NoAlert}, NEW cause \in Causes, HandleCreateCase(c, a, cause)
        PROVE  LifecycleInv'
    BY <1>1, HandleCreateCaseKeeps
  <1>2. ASSUME NEW c \in Openings,
               InsertCase(c) \/ EventOfOpening(c) \/ markAlertEscalated(c) \/ HandleEscalateCase(c)
        PROVE  LifecycleInv'
    BY <1>2, InsertCaseKeeps, EventOfOpeningKeeps, MarkAlertKeeps, HandleEscalateCaseKeeps
  <1>3. ASSUME NEW m \in Moves, NEW c \in Openings, NEW to \in Status \ {"PENDING"}, TransitionCase(m, c, to)
        PROVE  LifecycleInv'
    BY <1>3, TransitionCaseKeeps
  <1>4. ASSUME NEW m \in Moves, ReadCase(m) \/ WriteCase(m) \/ EventOfMove(m)
        PROVE  LifecycleInv'
    BY <1>4, ReadCaseKeeps, WriteCaseKeeps, EventOfMoveKeeps
  <1>5. CASE UNCHANGED lifecycleVars
    <2>1. /\ rows' = rows /\ openings' = openings /\ marks' = marks /\ events' = events
          /\ timeline' = timeline /\ moves' = moves /\ missed' = missed /\ floats' = floats
      BY <1>5 DEF lifecycleVars
    <2>2. LifecycleTypeOK' /\ Chains'
      BY <2>1 DEF LifecycleInv, LifecycleTypeOK, Chains
    <2>3. OpeningSteps' /\ AlertsTiedToCases'
      BY <2>1 DEF LifecycleInv, OpeningSteps, AlertsTiedToCases
    <2>4. MoveSteps' /\ SeenMoves' /\ CountsBounded' /\ NativeCounts' /\ FloatCounts'
      BY <2>1, MovesUntouched DEF LifecycleInv
    <2>. QED BY <2>2, <2>3, <2>4 DEF LifecycleInv
  <1>. QED BY <1>1, <1>2, <1>3, <1>4, <1>5 DEF LifecycleNext, OpeningsNext, MovesNext

\* What every behaviour of the cases and their calls satisfies: LifecycleTraced
\* with the chains of both streams and the calls that have seen each other.
THEOREM LifecycleInvariant == LifecycleSpec => []LifecycleInv
  BY LifecycleInitInv, LifecycleKeep, PTL DEF LifecycleSpec

\* LifecycleTraced: alerts, events and counts differ from their cases only as
\* far as calls failed, are under way or overlapped, and counts as far as they
\* were not read as a float64 (TransitionCase of case_lifecycle.go).
THEOREM LifecycleIsTraced == LifecycleSpec => []LifecycleTraced
  <1>1. ASSUME NEW S, Chained(S, rows, openings, moves), NEW e \in S
        PROVE  \/ e[2] = ""
               \/ \E f \in S : f[1] = e[1] /\ f[3] = e[2]
               \/ rows[e[1]].silent
               \/ openings[e[1]].pc # "done" \/ openings[e[1]].failed
               \/ \E m \in Moves : /\ moves[m].case = e[1] /\ moves[m].to = e[2] /\ moves[m].wrote
                                   /\ moves[m].failed \/ moves[m].pc # "done"
    BY <1>1 DEF Chained, Explained
  <1>2. LifecycleInv => LifecycleTraced
    <2>. SUFFICES ASSUME LifecycleInv PROVE LifecycleTraced
      OBVIOUS
    <2>1. Chained(events, rows, openings, moves) /\ Chained(timeline, rows, openings, moves)
      BY DEF LifecycleInv, Chains
    <2>2. EventsChain
      BY <1>1, <2>1 DEF EventsChain
    <2>3. EscalationsCounted
      BY CountsAccounted DEF LifecycleInv
    <2>. QED BY <2>2, <2>3 DEF LifecycleInv, LifecycleTraced
  <1>. QED BY <1>2, LifecycleInvariant, PTL

\* The type of the cases, their calls and events.
THEOREM LifecycleTypeCorrect == LifecycleSpec => []LifecycleTypeOK
  <1>1. LifecycleInv => LifecycleTypeOK
    BY DEF LifecycleInv
  <1>. QED BY <1>1, LifecycleInvariant, PTL

-----------------------------------------------------------------------------
(* The parts together                                                          *)

\* Each part goes through its own behaviours whichever of them moves.
LEMMA StoresParts == StoresSpec => Spec /\ SourcesSpec /\ GraphSpec /\ LifecycleSpec
  <1>1. StoresInit => Init /\ SourcesInit /\ GraphInit /\ LifecycleInit
    BY DEF StoresInit
  <1>2. [StoresNext]_storesVars => [Next]_vars
    BY DEF StoresNext, storesVars, otherSources, otherGraph, otherLifecycle
  <1>3. [StoresNext]_storesVars => [SourcesNext]_sourcesVars
    BY DEF StoresNext, storesVars, otherVault, otherGraph, otherLifecycle, SourcesNext
  <1>4. [StoresNext]_storesVars => [GraphNext]_graphVars
    BY DEF StoresNext, storesVars, otherVault, otherSources, otherLifecycle, GraphNext
  <1>5. [StoresNext]_storesVars => [LifecycleNext]_lifecycleVars
    BY DEF StoresNext, storesVars, otherVault, otherSources, otherGraph, LifecycleNext
  <1>. QED BY <1>1, <1>2, <1>3, <1>4, <1>5, PTL DEF StoresSpec, Spec, SourcesSpec, GraphSpec, LifecycleSpec

\* The records of the vault, the documents, the graph and the cases keep their
\* types.
THEOREM StoresTypeCorrect == StoresSpec => []StoresTypeOK
  BY StoresParts, VaultTypeCorrect, SourcesTypeCorrect, GraphTypeCorrect, LifecycleTypeCorrect, PTL
  DEF StoresTypeOK
=============================================================================
