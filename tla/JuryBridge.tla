----------------------------- MODULE JuryBridge -----------------------------
(***************************************************************************)
(* The consumer of aocs.cases.escalated: every message of a held decision  *)
(* is to be put to the Python jury.  Messages are delivered at least once; *)
(* a circuit breaker stands between the consumer and the client, and the   *)
(* client answers DENY by itself when the call fails.                      *)
(***************************************************************************)
EXTENDS Naturals, FiniteSets

CONSTANTS Messages,
          Threshold,     \* failures that open the breaker
          Attempts,      \* MaxDeliveryAttempts of the dead-letter policy
          MaxRestarts,   \* bound on the restarts of the pod
          Outstanding    \* MaxOutstandingMessages

ASSUME BridgeBounds == {Threshold, Attempts, Outstanding} \subseteq Nat \ {0} /\ MaxRestarts \in Nat

VARIABLES msgs,
          breaker,    \* circuitbreaker.CircuitBreaker of the consumer
          deadLetter, \* the subscription has a dead-letter policy
          restarts

bridgeVars == <<msgs, breaker, deadLetter, restarts>>

Forms == {"valid", "malformed", "incomplete"}

BridgeTypeOK ==
  /\ msgs \in [Messages -> [form : Forms \cup {"none"},
                            state : {"queued", "handling", "acked", "dead"},
                            attempts : 0..Attempts, calls : 0..Attempts, heard : BOOLEAN]]
  /\ breaker \in [state : {"closed", "open", "half"}, failures : 0..Threshold]
  /\ deadLetter \in BOOLEAN
  /\ restarts \in 0..MaxRestarts

Closed == [state |-> "closed", failures |-> 0]

BridgeInit ==
  /\ msgs = [m \in Messages |-> [form |-> "none", state |-> "queued", attempts |-> 0,
                                 calls |-> 0, heard |-> FALSE]]
  /\ breaker = Closed
  /\ deadLetter \in BOOLEAN
  /\ restarts = 0

Publish(m) == /\ msgs[m].form = "none"
              /\ \E f \in Forms : msgs' = [msgs EXCEPT ![m].form = f]
              /\ UNCHANGED <<breaker, deadLetter, restarts>>

Handling == {m \in Messages : msgs[m].state = "handling"}

\* One more delivery than the policy counts takes the message away instead.
Receive(m) ==
  /\ msgs[m].form # "none" /\ msgs[m].state = "queued"
  /\ Cardinality(Handling) < Outstanding
  /\ msgs' = [msgs EXCEPT ![m] = [msgs[m] EXCEPT !.state = "handling",
                                                 !.attempts = IF @ < Attempts THEN @ + 1 ELSE @]]
  /\ UNCHANGED <<breaker, deadLetter, restarts>>

Acked(row) == [row EXCEPT !.state = "acked"]
\* Mutant: the last attempt is followed by another.
Nacked_Forever(row) == [row EXCEPT !.state = "queued"]
Nacked(row) == [row EXCEPT !.state = IF deadLetter /\ row.attempts = Attempts
                                     THEN "dead" ELSE "queued"]

Settle(m, row) == msgs' = [msgs EXCEPT ![m] = row] /\ UNCHANGED <<deadLetter, restarts>>

DropMalformed(m) ==
  /\ msgs[m].state = "handling" /\ msgs[m].form = "malformed"
  /\ Settle(m, Nacked(msgs[m])) /\ UNCHANGED breaker

DropIncomplete(m) ==
  /\ msgs[m].state = "handling" /\ msgs[m].form = "incomplete"
  /\ Settle(m, Acked(msgs[m])) /\ UNCHANGED breaker

Forwarding(m) == msgs[m].state = "handling" /\ msgs[m].form = "valid"

\* Mutant: a call that the breaker refuses counts as done.
BreakerRefuses_Acks(m) ==
  /\ Forwarding(m) /\ breaker.state = "open"
  /\ Settle(m, Acked(msgs[m])) /\ UNCHANGED breaker

BreakerRefuses(m) ==
  /\ Forwarding(m) /\ breaker.state = "open"
  /\ Settle(m, Nacked(msgs[m])) /\ UNCHANGED breaker

\* What becomes of the call, and what AuditIntent makes of it: without an
\* answer it returns the verdict DENY and no error.
AuditIntent(call) == CASE call = "answered" -> "verdict"
                       [] call \in {"unreachable", "answer lost"} -> "fallback"
                       [] call = "unreadable" -> "error"

Called(m, call) == [msgs[m] EXCEPT !.calls = IF @ < Attempts THEN @ + 1 ELSE @,
                                   !.heard = @ \/ call # "unreachable"]

Forwarded(m) ==
  /\ Forwarding(m) /\ breaker.state # "open"
  /\ \E call \in {"answered", "unreachable", "answer lost"} :
       AuditIntent(call) # "error" /\ Settle(m, Acked(Called(m, call)))
  /\ breaker' = Closed

Failed(m) ==
  /\ Forwarding(m) /\ breaker.state # "open" /\ AuditIntent("unreadable") = "error"
  /\ Settle(m, Nacked(Called(m, "unreadable")))
  /\ breaker' = IF breaker.state = "half" \/ breaker.failures + 1 >= Threshold
                THEN [state |-> "open", failures |-> Threshold]
                ELSE [breaker EXCEPT !.failures = @ + 1]

ResetTimeout == /\ breaker.state = "open"
                /\ breaker' = [breaker EXCEPT !.state = "half"]
                /\ UNCHANGED <<msgs, deadLetter, restarts>>

\* The pod stops; what it was handling is delivered again, also what it had
\* acknowledged when the acknowledgement is lost.
PodRestarts ==
  /\ restarts < MaxRestarts /\ restarts' = restarts + 1
  /\ breaker' = Closed
  /\ \E lost \in SUBSET {m \in Messages : msgs[m].state = "acked"} :
       msgs' = [m \in Messages |-> IF m \in lost \cup Handling
                                   THEN [msgs[m] EXCEPT !.state = "queued"] ELSE msgs[m]]
  /\ UNCHANGED deadLetter

Handle(m) == DropMalformed(m) \/ DropIncomplete(m) \/ BreakerRefuses(m) \/ Forwarded(m) \/ Failed(m)

BridgeNext == \/ ResetTimeout \/ PodRestarts
              \/ \E m \in Messages : Publish(m) \/ Receive(m) \/ Handle(m)

BridgeSpec == BridgeInit /\ [][BridgeNext]_bridgeVars

\* The subscription goes on delivering and the consumer's callback returns.
BridgeFairness == \A m \in Messages : WF_bridgeVars(Receive(m)) /\ WF_bridgeVars(Handle(m))

-----------------------------------------------------------------------------
(* Properties *)

Tried(m) == msgs[m].calls > 0

\* A message with tenant and agent is acknowledged only after a call to the
\* jury was made for it, through every opening of the breaker and restart.
AckedWasTried == \A m \in Messages :
  msgs[m].form = "valid" /\ msgs[m].state = "acked" => Tried(m)

\* The breaker opens only if the jury was reached and answered: one that cannot
\* be reached never opens it.
OpenAfterAnswers == breaker.state # "closed" => \E m \in Messages : msgs[m].heard

\* Through openings of the breaker and restarts, both hold.
JuryIsTried == AckedWasTried /\ OpenAfterAnswers

\* With a dead-letter policy no message goes round for ever.
EveryMessageSettles ==
  \A m \in Messages : deadLetter /\ msgs[m].form # "none" ~> msgs[m].state \in {"acked", "dead"}

\* "forwards each escalation event to the Python Jury gRPC service" and
\* "Nack-on-failure allows the Pub/Sub retry policy to redeliver".
AckedWasForwarded == \A m \in Messages :
  msgs[m].form = "valid" /\ msgs[m].state = "acked" => msgs[m].heard
=============================================================================
