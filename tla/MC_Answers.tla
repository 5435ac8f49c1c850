----------------------------- MODULE MC_Answers -----------------------------
(* Two parts of the service whose callers wait for an answer: the zero-       *)
(* knowledge verifier, and the consumer that puts held decisions to the jury. *)
(* They share nothing; each behaviour is one of the verifier or one of the    *)
(* consumer, and the other keeps its initial state.                           *)
EXTENDS ZkpVerifier, JuryBridge, TLC

CONSTANTS p1, p2, c1

\* Two pods without Redis, as main.go starts them, and one pod with it.
MCDeployments == {[redis |-> FALSE, pods |-> {p1, p2}, delFails |-> FALSE],
                  [redis |-> TRUE, pods |-> {p1}, delFails |-> FALSE]}

VARIABLE part   \* the part that moves

answersVars == <<vars, bridgeVars, part>>

AnswersInit == Init /\ BridgeInit /\ part \in {"zkp", "jury"}

AnswersNext ==
  /\ UNCHANGED part
  /\ \/ part = "zkp" /\ Next /\ UNCHANGED bridgeVars
     \/ part = "jury" /\ BridgeNext /\ UNCHANGED vars

AnswersSpec ==
  /\ AnswersInit
  /\ [][AnswersNext]_answersVars
  /\ part = "zkp" => Fairness
  /\ part = "jury" => BridgeFairness
=============================================================================
