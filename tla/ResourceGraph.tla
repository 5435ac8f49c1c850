--------------------------- MODULE ResourceGraph ---------------------------
(* The resource graph: rows of core_policies bind policies to agents, a       *)
(* request assembles the graph of its tenant from reads that run side by      *)
(* side, and scans copy agents, policies and bindings of all tenants to the   *)
(* node and edge tables that the snapshot shows.                              *)
(* handlers/reports/{resource_graph,resource_graph_worker,                    *)
(* resource_relationships}.go                                                 *)
EXTENDS Integers, FiniteSets

CONSTANTS
  GraphTenants, GraphAgents, GraphPolicies,
  NoAgent,      \* the agent_id of a policy that binds none
  NoTenant,     \* the tenant of an agent that is not registered
  Graphs,       \* requests for the live graph
  Collects,        \* scans: ticks of the workers and requests for one
  MaxFaults,    \* bound on failed queries and writes and on panics
  MaxCrashes    \* bound on the crashes the supervisor counts

ASSUME GraphAssumption ==
  /\ NoAgent \notin GraphAgents /\ NoTenant \notin GraphTenants
  /\ MaxFaults \in Nat /\ MaxCrashes \in Nat

VARIABLES
  owner,     \* tenant of an agent
  policyRows,\* rows of core_policies
  graphs,    \* live graph requests
  decisions, \* agent and policy of the rows of core_hitl
  nodes,     \* resource graph nodes by object_id
  edges,     \* resource graph edges by object_id
  collects,  \* the scans
  super,     \* supervisor of the worker
  faults

graphVars == <<owner, policyRows, graphs, decisions, nodes, edges, collects, super, faults>>
liveVars == <<policyRows, graphs>>
tableVars == <<nodes, edges, decisions>>

PolicyRow == [tenant : GraphTenants, agent : GraphAgents \cup {NoAgent}, policy : GraphPolicies,
              active : BOOLEAN]
Binding == GraphAgents \X GraphPolicies

\* What one of the parallel queries of a live graph has come to.
Query == [state : {"open", "failed", "read"}, after : SUBSET {"agents", "policies", "bindings"}]
Queries == {"agents", "policies", "bindings"}
LiveGraph == [tenant : GraphTenants \cup {NoTenant}, open : BOOLEAN, queries : [Queries -> Query],
              agents : SUBSET GraphAgents, policies : SUBSET GraphPolicies,
              edges : SUBSET ((GraphAgents \cup {NoAgent}) \X GraphPolicies)]

Kinds == {"agent", "policy", "binding"}
Key == [kind : Kinds, of : GraphAgents \cup GraphPolicies \cup Binding]

\* deterministicNodeID: eight characters of the hexadecimal form of the key are
\* its first four bytes, "agen", "poli" or "bind" whatever follows.
deterministicNodeID(key) == key.kind

ScanPcs == {"idle", "agents", "agentNodes", "tenants", "policyNodes", "decisions", "edges", "done"}
Scan == [pc : ScanPcs, request : BOOLEAN, answered : BOOLEAN, agents : SUBSET GraphAgents,
         tenants : SUBSET GraphTenants, tenant : GraphTenants \cup {NoTenant}, left : SUBSET (GraphPolicies \cup Binding),
         excused : BOOLEAN]

GraphTypeOK ==
  /\ owner \in [GraphAgents -> GraphTenants \cup {NoTenant}]
  /\ policyRows \subseteq PolicyRow
  /\ graphs \in [Graphs -> LiveGraph]
  /\ decisions \subseteq Binding
  /\ \A i \in DOMAIN nodes : nodes[i].key \in Key /\ nodes[i].tenant \in GraphTenants
  /\ \A i \in DOMAIN edges : edges[i].key \in Key /\ edges[i].tenant \in GraphTenants
  /\ collects \in [Collects -> Scan]
  /\ super \in [pc : {"run", "crashed", "stopped"}, backoff : 1..300, crashes : 0..MaxCrashes,
                waited : Nat]
  /\ faults \in 0..MaxFaults

NoRows == [i \in {} |-> {}]

GraphInit ==
  /\ owner \in [GraphAgents -> GraphTenants \cup {NoTenant}]
  /\ policyRows = {} /\ decisions = {}
  /\ nodes = NoRows /\ edges = NoRows
  /\ graphs = [g \in Graphs |->
       [tenant |-> NoTenant, open |-> FALSE, agents |-> {}, policies |-> {}, edges |-> {},
        queries |-> [q \in Queries |-> [state |-> "open", after |-> {}]]]]
  /\ collects = [s \in Collects |->
       [pc |-> "idle", request |-> FALSE, answered |-> FALSE, agents |-> {}, tenants |-> {},
        tenant |-> NoTenant, left |-> {}, excused |-> FALSE]]
  /\ super = [pc |-> "run", backoff |-> 1, crashes |-> 0, waited |-> 0]
  /\ faults = 0

Fault == faults < MaxFaults /\ faults' = faults + 1
-----------------------------------------------------------------------------
(* Policy rows and the live graph.                                            *)

\* A policy row of another part of the service, an extracted draft say.
AddPolicy(t, p) ==
  /\ policyRows' = policyRows \cup {[tenant |-> t, agent |-> NoAgent, policy |-> p, active |-> TRUE]}
  /\ UNCHANGED <<owner, graphs, tableVars, collects, super, faults>>

\* The binding goes to the table of the policies; agent and policy are not
\* looked up.
HandleBindPolicy(t, a, p) ==
  /\ policyRows' = policyRows \cup {[tenant |-> t, agent |-> a, policy |-> p, active |-> TRUE]}
  /\ UNCHANGED <<owner, graphs, tableVars, collects, super, faults>>

\* The policy is asked for and not used: all bindings of the agent end.
HandleUnbindPolicy(t, a, p) ==
  /\ policyRows' = {IF r.tenant = t /\ r.agent = a THEN [r EXCEPT !.active = FALSE] ELSE r : r \in policyRows}
  /\ UNCHANGED <<owner, graphs, tableVars, collects, super, faults>>

HandleGetResourceGraph(g, t) ==
  /\ ~graphs[g].open
  /\ graphs' = [graphs EXCEPT ![g] = [@ EXCEPT !.open = TRUE, !.tenant = t]]
  /\ UNCHANGED <<owner, policyRows, tableVars, collects, super, faults>>

Open(g, q) == graphs[g].open /\ graphs[g].queries[q].state = "open"
Done(g, state) == [state |-> state, after |-> {q \in Queries : graphs[g].queries[q].state = "read"}]

\* Any of the queries may fail: the graph is served without its part.
FailQuery(g, q) ==
  /\ Open(g, q) /\ Fault
  /\ graphs' = [graphs EXCEPT ![g].queries[q] = Done(g, "failed")]
  /\ UNCHANGED <<owner, policyRows, tableVars, collects, super>>

\* Query 4; queries 1 to 3, 5 and 6 are alike, of tables no edge here leads to.
ReadAgents(g) ==
  /\ Open(g, "agents")
  /\ graphs' = [graphs EXCEPT ![g] = [@ EXCEPT !.queries["agents"] = Done(g, "read"),
                                               !.agents = {a \in GraphAgents : owner[a] = graphs[g].tenant}]]
  /\ UNCHANGED <<owner, policyRows, tableVars, collects, super, faults>>

OfTenant(t) == {r \in policyRows : r.tenant = t}

\* Query 7: a node for every row of core_policies.
ReadPolicies(g) ==
  /\ Open(g, "policies")
  /\ graphs' = [graphs EXCEPT ![g] = [@ EXCEPT !.queries["policies"] = Done(g, "read"),
                                               !.policies = {r.policy : r \in OfTenant(graphs[g].tenant)}]]
  /\ UNCHANGED <<owner, policyRows, tableVars, collects, super, faults>>

\* Query 8: an edge for every row, read at another time; query 9 is alike.
ReadBindings(g) ==
  /\ Open(g, "bindings")
  /\ graphs' = [graphs EXCEPT ![g] = [@ EXCEPT !.queries["bindings"] = Done(g, "read"),
                                               !.edges = {<<r.agent, r.policy>> : r \in OfTenant(graphs[g].tenant)}]]
  /\ UNCHANGED <<owner, policyRows, tableVars, collects, super, faults>>
-----------------------------------------------------------------------------
(* Scans.                                                                     *)

\* core_hitl gains a decision of an agent about a policy.
Decide(a, p) ==
  /\ owner[a] # NoTenant
  /\ decisions' = decisions \cup {<<a, p>>}
  /\ UNCHANGED <<owner, liveVars, nodes, edges, collects, super, faults>>

\* A tick of a worker, or HandleScanResourceGraph, whose context ends with its
\* answer.
StartScan(s, request) ==
  /\ collects[s].pc = "idle"
  /\ collects' = [collects EXCEPT ![s] = [@ EXCEPT !.pc = "agents", !.request = request]]
  /\ UNCHANGED <<owner, liveVars, tableVars, super, faults>>
AnswerScan(s) ==
  /\ collects[s].request /\ ~collects[s].answered /\ collects[s].pc # "done"
  /\ collects' = [collects EXCEPT ![s].answered = TRUE]
  /\ UNCHANGED <<owner, liveVars, tableVars, super, faults>>

\* A query under the context of the scan: next if it succeeds, else skipped.
QueryStep(s, next, skipped) ==
  /\ \/ ~collects[s].answered /\ collects' = [collects EXCEPT ![s] = next] /\ UNCHANGED faults
     \/ /\ IF collects[s].answered THEN UNCHANGED faults ELSE Fault
        /\ collects' = [collects EXCEPT ![s] = skipped]
  /\ UNCHANGED <<owner, liveVars, tableVars, super>>

\* InsertRowIdempotent: the first row of an object_id stays; an error is logged.
InsertNode(s, key, tenant, scan) ==
  LET id == deterministicNodeID(key)
  IN \/ /\ nodes' = IF id \in DOMAIN nodes THEN nodes
                    ELSE [i \in DOMAIN nodes \cup {id} |->
                            IF i = id THEN [key |-> key, tenant |-> tenant] ELSE nodes[i]]
        /\ collects' = [collects EXCEPT ![s] = scan]
        /\ UNCHANGED faults
     \/ Fault /\ collects' = [collects EXCEPT ![s] = [scan EXCEPT !.excused = TRUE]] /\ UNCHANGED nodes

Registered == {a \in GraphAgents : owner[a] # NoTenant}

\* Mutant: the agents go on without being written as nodes.
ScanAgents_NoType(s) ==
  /\ collects[s].pc = "agents"
  /\ QueryStep(s, [collects[s] EXCEPT !.pc = "agentNodes", !.tenants = {owner[a] : a \in Registered}],
                  [collects[s] EXCEPT !.pc = "done"])

\* Without the agents the scan ends.
ScanAgents(s) ==
  /\ collects[s].pc = "agents"
  /\ QueryStep(s, [collects[s] EXCEPT !.pc = "agentNodes", !.agents = Registered,
                                   !.tenants = {owner[a] : a \in Registered}],
                  [collects[s] EXCEPT !.pc = "done"])

AgentNode(s, a) ==
  /\ collects[s].pc = "agentNodes" /\ a \in collects[s].agents
  /\ InsertNode(s, [kind |-> "agent", of |-> a], owner[a], [collects[s] EXCEPT !.agents = @ \ {a}])
  /\ UNCHANGED <<owner, liveVars, edges, decisions, super>>

\* One tenant after the other: the rows of its policies; without them its
\* bindings are skipped too.
ScanPolicies(s, t) ==
  /\ \/ collects[s].pc = "agentNodes" /\ collects[s].agents = {}
     \/ collects[s].pc = "tenants"
  /\ t \in collects[s].tenants
  /\ QueryStep(s, [collects[s] EXCEPT !.pc = "policyNodes", !.tenants = @ \ {t}, !.tenant = t,
                                   !.left = {r.policy : r \in OfTenant(t)}],
                  [collects[s] EXCEPT !.pc = "tenants", !.tenants = @ \ {t}])

PolicyNode(s, p) ==
  /\ collects[s].pc = "policyNodes" /\ p \in collects[s].left
  /\ InsertNode(s, [kind |-> "policy", of |-> p], collects[s].tenant, [collects[s] EXCEPT !.left = @ \ {p}])
  /\ UNCHANGED <<owner, liveVars, edges, decisions, super>>

ScanDecisions(s) ==
  /\ collects[s].pc = "policyNodes" /\ collects[s].left = {}
  /\ QueryStep(s, [collects[s] EXCEPT !.pc = "edges",
                                   !.left = {d \in decisions : owner[d[1]] = collects[s].tenant}],
                  [collects[s] EXCEPT !.pc = "tenants"])

BindingEdge(s, d) ==
  LET key == [kind |-> "binding", of |-> d]
      id == deterministicNodeID(key)
      next == [collects[s] EXCEPT !.left = @ \ {d}]
  IN /\ collects[s].pc = "edges" /\ d \in collects[s].left
     /\ \/ /\ edges' = IF id \in DOMAIN edges THEN edges
                       ELSE [i \in DOMAIN edges \cup {id} |->
                               IF i # id THEN edges[i]
                               ELSE [key |-> key, tenant |-> collects[s].tenant,
                                     source |-> deterministicNodeID([kind |-> "agent", of |-> d[1]]),
                                     target |-> deterministicNodeID([kind |-> "policy", of |-> d[2]])]]
           /\ collects' = [collects EXCEPT ![s] = next]
           /\ UNCHANGED faults
        \/ Fault /\ collects' = [collects EXCEPT ![s] = [next EXCEPT !.excused = TRUE]] /\ UNCHANGED edges
     /\ UNCHANGED <<owner, liveVars, nodes, decisions, super>>

FinishTenant(s) ==
  /\ collects[s].left = {}
  /\ \/ /\ collects[s].pc = "edges"
        /\ collects' = [collects EXCEPT ![s].pc = "tenants"]
     \/ /\ collects[s].pc = "tenants" /\ collects[s].tenants = {}
        /\ collects' = [collects EXCEPT ![s].pc = "done"]
  /\ UNCHANGED <<owner, liveVars, tableVars, super, faults>>

\* HandleGetResourceGraphSnapshot: the rows of the tenant.
SnapshotNodes(t) == {nodes[i] : i \in {j \in DOMAIN nodes : nodes[j].tenant = t}}
-----------------------------------------------------------------------------
(* The supervisor: a panic of the worker is followed by a restart after a     *)
(* backoff that doubles up to five minutes and starts over after a run of ten *)
(* minutes.  Times in seconds; "waited" adds up the backoffs since then.      *)
\* Mutant: the backoff starts over at every crash.
Panic_Reset(stable) ==
  /\ super.pc = "run" /\ super.crashes < MaxCrashes
  /\ super' = [super EXCEPT !.pc = "crashed", !.backoff = 1,
                            !.crashes = IF stable THEN 0 ELSE @ + 1,
                            !.waited = IF stable THEN 0 ELSE @]
  /\ UNCHANGED <<owner, liveVars, tableVars, collects, faults>>

Panic(stable) ==
  /\ super.pc = "run" /\ super.crashes < MaxCrashes
  /\ super' = [super EXCEPT !.pc = "crashed",
                            !.backoff = IF stable THEN 1 ELSE @,
                            !.crashes = IF stable THEN 0 ELSE @ + 1,
                            !.waited = IF stable THEN 0 ELSE @]
  /\ UNCHANGED <<owner, liveVars, tableVars, collects, faults>>

Restart ==
  /\ super.pc = "crashed"
  /\ super' = [super EXCEPT !.pc = "run", !.backoff = IF 2 * @ > 300 THEN 300 ELSE 2 * @, !.waited = @ + super.backoff]
  /\ UNCHANGED <<owner, liveVars, tableVars, collects, faults>>

StopWorker ==
  /\ super.pc # "stopped"
  /\ super' = [super EXCEPT !.pc = "stopped"]
  /\ UNCHANGED <<owner, liveVars, tableVars, collects, faults>>
-----------------------------------------------------------------------------
LiveNext ==
  \/ \E t \in GraphTenants, p \in GraphPolicies :
       \/ AddPolicy(t, p)
       \/ \E a \in GraphAgents : HandleBindPolicy(t, a, p) \/ HandleUnbindPolicy(t, a, p)
  \/ \E g \in Graphs :
       \/ \E t \in GraphTenants : HandleGetResourceGraph(g, t)
       \/ \E q \in Queries : FailQuery(g, q)
       \/ ReadAgents(g) \/ ReadPolicies(g) \/ ReadBindings(g)

CollectNext ==
  \/ \E a \in GraphAgents, p \in GraphPolicies : Decide(a, p)
  \/ \E t \in GraphTenants, p \in GraphPolicies : AddPolicy(t, p)
  \/ \E s \in Collects :
       \/ \E request \in BOOLEAN : StartScan(s, request)
       \/ \E a \in GraphAgents : AgentNode(s, a)
       \/ \E t \in GraphTenants : ScanPolicies(s, t)
       \/ \E p \in GraphPolicies : PolicyNode(s, p)
       \/ \E d \in Binding : BindingEdge(s, d)
       \/ AnswerScan(s) \/ ScanAgents(s) \/ ScanDecisions(s) \/ FinishTenant(s)

SuperNext == (\E stable \in BOOLEAN : Panic(stable)) \/ Restart \/ StopWorker

GraphNext == LiveNext \/ CollectNext \/ SuperNext
GraphSpec == GraphInit /\ [][GraphNext]_graphVars
-----------------------------------------------------------------------------
(* The queries of a live graph see the tables at different times.  An edge to *)
(* a policy that is not among the nodes is shown only if the policies were    *)
(* read before the bindings, or their query failed: rows are never removed.   *)
EdgeTargetsShown ==
  \A g \in Graphs :
    graphs[g].queries["policies"].state = "read"
      /\ "bindings" \in graphs[g].queries["policies"].after
      => \A e \in graphs[g].edges : e[2] \in graphs[g].policies

(* All agents of all tenants have one object_id, so at most one tenant ever   *)
(* sees an agent in its snapshot.                                             *)
OneTenantSeesAgents ==
  \A t, u \in GraphTenants :
    (\E n \in SnapshotNodes(t) : n.key.kind = "agent") /\ (\E n \in SnapshotNodes(u) : n.key.kind = "agent")
      => t = u

(* No edge is without the node of its agent, unless the INSERT of a node      *)
(* failed, however scans overlap and wherever the answer to a request cuts    *)
(* them off.                                                                  *)
EdgeHasAgentNode ==
  \A i \in DOMAIN edges :
    edges[i].source \in DOMAIN nodes \/ \E s \in Collects : collects[s].excused

(* Nodes and edges come from reads and writes at different times: what is     *)
(* missing from a graph is missing as the three above say.                    *)
GraphTraced == EdgeTargetsShown /\ OneTenantSeesAgents /\ EdgeHasAgentNode

(* The alarm of more than five crashes is raised only when the restarts of    *)
(* the worker have waited half a minute in all: it never spins.               *)
AlarmAfterWaits == super.crashes > 5 => super.waited >= 31
=============================================================================
