----------------------------- MODULE Propagation -----------------------------
(***************************************************************************)
(* The events of other rings that seed and tombstone the compliance rows   *)
(* of tenants and agents (propagation/*.go): handlers guarded by an        *)
(* idempotency log, fed by a poller of the outbox of Ring 0 and by Pub/Sub *)
(* subscriptions, in every replica.                                        *)
(*                                                                         *)
(* A message is an event on one of the two paths: the same event has       *)
(* another message id on the other.  Delivery is at least once: a message  *)
(* that is not acknowledged may be handed to any worker at any time, also  *)
(* while another one is handling it.                                       *)
(***************************************************************************)
EXTENDS Naturals

CONSTANTS Tenants,
          Agents,
          TenantOf,   \* the tenant of an agent
          Messages,   \* message ids
          Event,      \* what a message says: kind, and tenant or agent
          Workers,    \* handlers in flight, over all replicas
          Faults      \* whether calls fail, acknowledgements get lost, replicas stop

Events == [kind : {"provisioned", "deleted"}, tenant : Tenants]
            \cup [kind : {"registered"}, agent : Agents]

ASSUME TenantOfAgents == TenantOf \in [Agents -> Tenants]
ASSUME EventOfMessages == Event \in [Messages -> Events]
ASSUME PropagationFaultsBoolean == Faults \in BOOLEAN

VARIABLES source,     \* the tenant, as Ring 0 has it
          known,      \* agents registered in Ring 2
          unacked,    \* messages to be delivered, or delivered again
          run,        \* what each worker is doing
          baseline,   \* compl_tenant_baselines.enforcement_mode, by tenant
          cases,      \* compl_cases.status of a case of the tenant
          vault,      \* vault_status of the evidence vault of an agent
          log         \* compl_idempotency_log

vars == <<source, known, unacked, run, baseline, cases, vault, log>>
rows == <<baseline, cases, vault>>
outside == <<source, known>>

Steps == {"check", "apply", "cases", "vaults", "mark", "ack"}
Idle == [step |-> "idle"]

TypeOK == /\ source \in [Tenants -> {"none", "live", "deleted"}]
          /\ known \subseteq Agents
          /\ unacked \subseteq Messages
          /\ run \in [Workers -> {Idle} \cup [step : Steps, msg : Messages]]
          /\ baseline \in [Tenants -> {"none", "OBSERVE", "AUDIT"}]
          /\ cases \in [Tenants -> {"none", "OPEN", "CLOSED"}]
          /\ vault \in [Agents -> {"none", "ACTIVE", "RETIRED"}]
          /\ log \subseteq Messages

Init == /\ source = [t \in Tenants |-> "none"]
        /\ known = {}
        /\ unacked = {}
        /\ run = [w \in Workers |-> Idle]
        /\ baseline = [t \in Tenants |-> "none"]
        /\ cases = [t \in Tenants |-> "none"]
        /\ vault = [a \in Agents |-> "none"]
        /\ log = {}

(***************************************************************************)
(* The other rings, and the compliance officer                             *)
(***************************************************************************)
MessagesOf(e) == {m \in Messages : Event[m] = e}

Provision(t) ==
    /\ source[t] = "none"
    /\ source' = [source EXCEPT ![t] = "live"]
    /\ unacked' = unacked \cup MessagesOf([kind |-> "provisioned", tenant |-> t])
    /\ UNCHANGED <<known, run, rows, log>>

Register(a) ==
    /\ a \notin known /\ source[TenantOf[a]] = "live"
    /\ known' = known \cup {a}
    /\ unacked' = unacked \cup MessagesOf([kind |-> "registered", agent |-> a])
    /\ UNCHANGED <<source, run, rows, log>>

Delete(t) ==
    /\ source[t] = "live"
    /\ source' = [source EXCEPT ![t] = "deleted"]
    /\ unacked' = unacked \cup MessagesOf([kind |-> "deleted", tenant |-> t])
    /\ UNCHANGED <<known, run, rows, log>>

\* HandleCreateComplianceCase; a tenant that is deleted has no sessions left.
OpenCase(t) ==
    /\ source[t] = "live" /\ cases[t] = "none"
    /\ cases' = [cases EXCEPT ![t] = "OPEN"]
    /\ UNCHANGED <<outside, unacked, run, baseline, vault, log>>

(***************************************************************************)
(* The handlers                                                            *)
(***************************************************************************)
At(w, step) == run[w].step = step
Goto(w, step) == run' = [run EXCEPT ![w].step = step]
Stop(w) == run' = [run EXCEPT ![w] = Idle]
Handles(w, kind) == At(w, "apply") /\ Event[run[w].msg].kind = kind

Deliver(w, m) ==
    /\ At(w, "idle") /\ m \in unacked
    /\ run' = [run EXCEPT ![w] = [step |-> "check", msg |-> m]]
    /\ UNCHANGED <<outside, unacked, rows, log>>

\* The error of the query is dropped: a processed message then looks new.
Check(w) ==
    /\ At(w, "check")
    /\ \/ run[w].msg \in log /\ Goto(w, "ack")
       \/ (run[w].msg \notin log \/ Faults) /\ Goto(w, "apply")
    /\ UNCHANGED <<outside, unacked, rows, log>>

\* Mutant: the message is marked before its rows are written.
SeedBaseline_MarkFirst(w) ==
    /\ Handles(w, "provisioned")
    /\ IF run[w].msg \in log
       THEN /\ baseline' = [baseline EXCEPT ![Event[run[w].msg].tenant] = "OBSERVE"]
            /\ Goto(w, "mark") /\ UNCHANGED log
       ELSE log' = log \cup {run[w].msg} /\ UNCHANGED <<baseline, run>>
    /\ UNCHANGED <<outside, unacked, cases, vault>>

\* The upsert of handleComplianceTenantProvisioned: it overwrites.
SeedBaseline(w) ==
    /\ Handles(w, "provisioned")
    /\ baseline' = [baseline EXCEPT ![Event[run[w].msg].tenant] = "OBSERVE"]
    /\ Goto(w, "mark")
    /\ UNCHANGED <<outside, unacked, cases, vault, log>>

\* Mutant: the registration of an agent sees to the baseline of its tenant too.
SeedVault_Both(w) ==
    /\ Handles(w, "registered")
    /\ vault' = [vault EXCEPT ![Event[run[w].msg].agent] = "ACTIVE"]
    /\ baseline' = [baseline EXCEPT ![TenantOf[Event[run[w].msg].agent]] = "OBSERVE"]
    /\ Goto(w, "mark")
    /\ UNCHANGED <<outside, unacked, cases, log>>

SeedVault(w) ==
    /\ Handles(w, "registered")
    /\ vault' = [vault EXCEPT ![Event[run[w].msg].agent] = "ACTIVE"]
    /\ Goto(w, "mark")
    /\ UNCHANGED <<outside, unacked, baseline, cases, log>>

\* Mutant: a failed upsert is acknowledged, as a failed update of a tombstone is.
SeedFails_Acked(w) ==
    /\ Faults
    /\ Handles(w, "provisioned") \/ Handles(w, "registered")
    /\ Goto(w, "ack")
    /\ UNCHANGED <<outside, unacked, rows, log>>

\* The upsert fails: the handler returns the error and the message is nacked.
SeedFails(w) ==
    /\ Faults
    /\ Handles(w, "provisioned") \/ Handles(w, "registered")
    /\ Stop(w)
    /\ UNCHANGED <<outside, unacked, rows, log>>

\* The mode, status or vault status of the rows that exist, or the same when
\* the update failed, which handleComplianceTenantDeleted only logs.
Updated(old, new) == {IF old = "none" THEN old ELSE new} \cup (IF Faults THEN {old} ELSE {})

\* Mutant: a mode the table does not have.
TombstoneMode_Deleted == "DELETED"
TombstoneMode == "AUDIT"

TombstoneBaseline(w) ==
    /\ Handles(w, "deleted")
    /\ LET t == Event[run[w].msg].tenant
       IN  \E mode \in Updated(baseline[t], TombstoneMode) :
             baseline' = [baseline EXCEPT ![t] = mode]
    /\ Goto(w, "cases")
    /\ UNCHANGED <<outside, unacked, cases, vault, log>>

CloseCases(w) ==
    /\ At(w, "cases")
    /\ LET t == Event[run[w].msg].tenant
       IN  \E status \in Updated(cases[t], "CLOSED") : cases' = [cases EXCEPT ![t] = status]
    /\ Goto(w, "vaults")
    /\ UNCHANGED <<outside, unacked, baseline, vault, log>>

\* One UPDATE of all vaults of the tenant.
RetireVaults(w) ==
    /\ At(w, "vaults")
    /\ LET mine == {a \in Agents : TenantOf[a] = Event[run[w].msg].tenant}
       IN  \/ vault' = [a \in Agents |-> IF a \in mine /\ vault[a] # "none"
                                         THEN "RETIRED" ELSE vault[a]]
           \/ Faults /\ UNCHANGED vault
    /\ Goto(w, "mark")
    /\ UNCHANGED <<outside, unacked, baseline, cases, log>>

\* The error of the insertion is dropped.
Mark(w) ==
    /\ At(w, "mark")
    /\ log' = log \cup {run[w].msg} \/ (Faults /\ UNCHANGED log)
    /\ Goto(w, "ack")
    /\ UNCHANGED <<outside, unacked, rows>>

\* The acknowledgement may not arrive.
Ack(w) ==
    /\ At(w, "ack")
    /\ unacked' = unacked \ {run[w].msg} \/ (Faults /\ UNCHANGED unacked)
    /\ Stop(w)
    /\ UNCHANGED <<outside, rows, log>>

\* The replica stops.
Crash(w) == Faults /\ run[w] # Idle /\ Stop(w) /\ UNCHANGED <<outside, unacked, rows, log>>

Handle(w) == \/ Check(w) \/ SeedBaseline(w) \/ SeedVault(w) \/ SeedFails(w)
             \/ TombstoneBaseline(w) \/ CloseCases(w) \/ RetireVaults(w)
             \/ Mark(w) \/ Ack(w)

Next == \/ \E t \in Tenants : Provision(t) \/ Delete(t) \/ OpenCase(t)
        \/ \E a \in Agents : Register(a)
        \/ \E w \in Workers : Handle(w) \/ Crash(w) \/ \E m \in Messages : Deliver(w, m)

Spec == Init /\ [][Next]_vars

\* Handlers run; a message that stays unacknowledged is delivered again and
\* again; replicas do not stop, and writes do not fail, every time that a
\* message is handled.
For(m, step(_)) == \E w \in Workers : run[w] # Idle /\ run[w].msg = m /\ step(w)
Seed(w) == SeedBaseline(w) \/ SeedVault(w)

Seeds(m) == Event[m].kind # "deleted"

Fairness == /\ \A w \in Workers : WF_vars(Handle(w))
            /\ \A m \in Messages : Seeds(m) => /\ SF_vars(\E w \in Workers : Deliver(w, m))
                                               /\ SF_vars(For(m, Check))
                                               /\ SF_vars(For(m, Seed))

FairSpec == Spec /\ Fairness

(***************************************************************************)
(* Properties                                                              *)
(***************************************************************************)
Sent(m) == IF Event[m].kind = "registered" THEN Event[m].agent \in known
           ELSE source[Event[m].tenant] \in (IF Event[m].kind = "deleted" THEN {"deleted"}
                                             ELSE {"live", "deleted"})
Seeded(m) == CASE Event[m].kind = "provisioned" -> baseline[Event[m].tenant] # "none"
               [] Event[m].kind = "registered"  -> vault[Event[m].agent] # "none"
               [] OTHER                         -> TRUE

\* "Write compl_idempotency_log after success": a message that seeds a row is
\* neither marked as processed nor acknowledged before the row is there,
\* whichever calls failed and whoever else handled it.
HandledWasSeeded ==
    \A m \in Messages : Sent(m) /\ (m \in log \/ m \notin unacked) => Seeded(m)

\* Nothing that could seed the tenant's baseline is left.
Drained(t) == /\ source[t] = "deleted"
              /\ LET seeds == MessagesOf([kind |-> "provisioned", tenant |-> t])
                 IN  /\ seeds \cap unacked = {}
                     /\ \A w \in Workers : run[w] # Idle => run[w].msg \notin seeds

\* The tombstone stands once the events that precede it are acknowledged and
\* no handler of one is left: the log has no part in it.
TombstoneStands ==
    [][\A t \in Tenants : Drained(t) /\ baseline[t] = "AUDIT"
                            => Drained(t)' /\ baseline'[t] = "AUDIT"]_vars

\* Every event that seeds a row is followed by the row, in spite of failing
\* calls, lost acknowledgements and replicas that stop.
EventuallySeeded == \A m \in Messages : Sent(m) ~> Seeded(m)
=============================================================================
