--------------------------- MODULE MC_Propagation ---------------------------
(* Instances of Propagation for TLC: one tenant with one agent. *)
EXTENDS Propagation, TLC

CONSTANTS t1, a1, m1, m2, m3

MCTenantOf == [a \in Agents |-> t1]

MCEvent == [m \in Messages |-> CASE m = m1 -> [kind |-> "provisioned", tenant |-> t1]
                                 [] m = m2 -> [kind |-> "registered", agent |-> a1]
                                 [] m = m3 -> [kind |-> "deleted", tenant |-> t1]]
=============================================================================
