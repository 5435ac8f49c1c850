---------------------------- MODULE ZkpVerifier ----------------------------
(***************************************************************************)
(* Challenges of the zero-knowledge verifier and the requests that answer  *)
(* them (POST /zkp/verify), over the pods of the service.                  *)
(*                                                                         *)
(* VerifyProof runs under the mutex of its pod.  With a Redis client the   *)
(* challenges are shared by the pods and the map of a pod is what is left  *)
(* when a call of Redis fails; without one, which is how main.go builds    *)
(* the verifier, every pod knows the challenges it issued.  A verdict is   *)
(* recorded twice: by a goroutine of the verifier and by the handler.      *)
(*                                                                         *)
(* A proof is named by the challenge whose nonce its Ed25519 signature     *)
(* covers.  The handler sends no score range, so a TRUST_RANGE proof is    *)
(* decided by its signature like the others.                               *)
(***************************************************************************)
EXTENDS Naturals

CONSTANTS Pods, Challenges, Requests,
          NoChallenge,   \* no challenge_id: the structural check
          BadProof,      \* a response that is no signature of the prover
          Unsupported,   \* challenges of a proof type VerifyProof rejects
          Deployments,   \* how the service may be deployed
          Faults         \* whether calls of the database and of Redis fail

Deployment == [redis : BOOLEAN,       \* WithRedis was called
               pods : SUBSET Pods,    \* pods that serve
               delFails : BOOLEAN]    \* a Del of Redis may be lost

ASSUME DeploymentsKnown == Deployments \subseteq Deployment
ASSUME NamesDistinct == /\ NoChallenge \notin Challenges
                        /\ BadProof \notin Challenges
                        /\ Unsupported \subseteq Challenges
ASSUME FaultsBoolean == Faults \in BOOLEAN

VARIABLES deploy,       \* the deployment
          issued, lapsed,
          memory,       \* v.challenges, by pod
          redis,        \* keys zkp:challenge:*
          req,          \* requests
          persisting,   \* persistVerification goroutines, by request
          rows          \* shar_zkp_verify

vars == <<deploy, issued, lapsed, memory, redis, req, persisting, rows>>

Used == {"accepted", "rejected"}
Verdicts == Used \cup {"none", "unknown", "expired", "plausible", "implausible"}
Places == {"new", "lookup", "consume", "check", "insert", "done"}

Request == [pc : Places, pod : Pods, challenge : Challenges \cup {NoChallenge},
            proof : Challenges \cup {BadProof}, verdict : Verdicts,
            answer : {"none", "ok", "conflict", "error"}]

VerifyRow == [req : Requests, by : {"handler", "verifier"},
              challenge : Challenges \cup {NoChallenge}, valid : BOOLEAN]

TypeOK == /\ deploy \in Deployments
          /\ issued \subseteq Challenges
          /\ lapsed \subseteq issued
          /\ memory \in [Pods -> SUBSET Challenges]
          /\ redis \subseteq Challenges
          /\ req \in [Requests -> Request]
          /\ persisting \subseteq Requests
          /\ rows \subseteq VerifyRow

Init == /\ deploy \in Deployments
        /\ issued = {} /\ lapsed = {}
        /\ memory = [p \in Pods |-> {}]
        /\ redis = {}
        /\ \E p \in Pods :
             req = [r \in Requests |-> [pc |-> "new", pod |-> p,
                      challenge |-> NoChallenge, proof |-> BadProof,
                      verdict |-> "none", answer |-> "none"]]
        /\ persisting = {} /\ rows = {}

At(r, pc) == req[r].pc = pc

\* A request holds the mutex of its pod from its look-up to the end of
\* VerifyProof.
MutexFree(p) == \A r \in Requests : ~(At(r, "consume") /\ req[r].pod = p)

-----------------------------------------------------------------------------
(* Challenges *)

\* A Set that returns an error may have been stored all the same.
GenerateChallenge(p, c) ==
  /\ p \in deploy.pods /\ MutexFree(p)
  /\ c \notin issued
  /\ issued' = issued \cup {c}
  /\ \/ /\ deploy.redis
        /\ redis' = redis \cup {c}
        /\ UNCHANGED memory
     \/ /\ deploy.redis /\ Faults
        /\ redis' \in {redis, redis \cup {c}}
        /\ memory' = [memory EXCEPT ![p] = @ \cup {c}]
     \/ /\ ~deploy.redis
        /\ memory' = [memory EXCEPT ![p] = @ \cup {c}]
        /\ UNCHANGED redis
  /\ UNCHANGED <<deploy, lapsed, req, persisting, rows>>

\* Mutant: the TTL of a key is counted from before the challenge is issued.
Expire_Early(c) ==
  /\ lapsed' = lapsed \cup {c}
  /\ redis' \in {redis, redis \ {c}}
  /\ UNCHANGED <<deploy, issued, memory, req, persisting, rows>>

\* ExpiresAt passes; Redis drops the key when its TTL ends, not before.
Expire(c) ==
  /\ c \in issued
  /\ lapsed' = lapsed \cup {c}
  /\ redis' \in {redis, redis \ {c}}
  /\ UNCHANGED <<deploy, issued, memory, req, persisting, rows>>

\* The challenge is deleted from both stores; an error of Del is dropped.
Forget(p, c) ==
  /\ memory' = [memory EXCEPT ![p] = @ \ {c}]
  /\ redis' \in {redis \ {c}} \cup (IF deploy.delFails THEN {redis} ELSE {})

-----------------------------------------------------------------------------
(* HandleVerifyZKP *)

Submit(r) ==
  /\ At(r, "new")
  /\ \E p \in deploy.pods, c \in Challenges \cup {NoChallenge},
        proof \in Challenges \cup {BadProof} :
       req' = [req EXCEPT ![r] = [@ EXCEPT !.pc = "lookup", !.pod = p,
                                           !.challenge = c, !.proof = proof]]
  /\ UNCHANGED <<deploy, issued, lapsed, memory, redis, persisting, rows>>

\* No challenge_id: a proof of more than ten characters passes.
StructuralCheck(r) ==
  /\ At(r, "lookup")
  /\ req[r].challenge = NoChallenge
  /\ req' = [req EXCEPT ![r] = [@ EXCEPT !.pc = "insert",
                                         !.verdict = IF req[r].proof = BadProof THEN "implausible"
                                                     ELSE "plausible"]]
  /\ UNCHANGED <<deploy, issued, lapsed, memory, redis, persisting, rows>>

\* A Get that fails is a Get that finds nothing.
Readable(p) == IF ~deploy.redis THEN {memory[p]}
               ELSE {redis \cup memory[p]} \cup (IF Faults THEN {memory[p]} ELSE {})

verifyEd25519Proof(c, proof) == proof = c
Verdict(c, proof) ==
  IF c \notin Unsupported /\ verifyEd25519Proof(c, proof) THEN "accepted"
                                                          ELSE "rejected"

LookupUnknown(r) ==
  /\ At(r, "lookup")
  /\ MutexFree(req[r].pod)
  /\ req[r].challenge # NoChallenge
  /\ \E found \in Readable(req[r].pod) : req[r].challenge \notin found
  /\ req' = [req EXCEPT ![r] = [@ EXCEPT !.pc = "check", !.verdict = "unknown"]]
  /\ UNCHANGED <<deploy, issued, lapsed, memory, redis, persisting, rows>>

LookupExpired(r) ==
  /\ At(r, "lookup")
  /\ MutexFree(req[r].pod)
  /\ \E found \in Readable(req[r].pod) : req[r].challenge \in found \cap lapsed
  /\ Forget(req[r].pod, req[r].challenge)
  /\ req' = [req EXCEPT ![r] = [@ EXCEPT !.pc = "check", !.verdict = "expired"]]
  /\ UNCHANGED <<deploy, issued, lapsed, persisting, rows>>

\* Mutant: VerifyProof reads the challenge before it takes the mutex.
LookupFound_Unlocked(r) ==
  /\ At(r, "lookup")
  /\ \E found \in Readable(req[r].pod) :
       req[r].challenge \in found \ lapsed
  /\ req' = [req EXCEPT ![r] = [@ EXCEPT !.pc = "consume",
                                         !.verdict = Verdict(req[r].challenge, req[r].proof)]]
  /\ UNCHANGED <<deploy, issued, lapsed, memory, redis, persisting, rows>>

LookupFound(r) ==
  /\ At(r, "lookup")
  /\ MutexFree(req[r].pod)
  /\ \E found \in Readable(req[r].pod) :
       req[r].challenge \in found \ lapsed
  /\ req' = [req EXCEPT ![r] = [@ EXCEPT !.pc = "consume",
                                         !.verdict = Verdict(req[r].challenge, req[r].proof)]]
  /\ UNCHANGED <<deploy, issued, lapsed, memory, redis, persisting, rows>>

\* Mutant: a rejected proof leaves its challenge in the map, for another try.
Consume_AcceptedOnly(r) ==
  /\ At(r, "consume")
  /\ IF req[r].verdict = "accepted" THEN Forget(req[r].pod, req[r].challenge)
                                    ELSE UNCHANGED <<memory, redis>>
  /\ req' = [req EXCEPT ![r].pc = "check"]
  /\ persisting' = persisting \cup {r}
  /\ UNCHANGED <<deploy, issued, lapsed, rows>>

\* Mutant: a request that is refused returns without releasing the mutex.
Consume_KeepsMutex(r) ==
  /\ At(r, "consume")
  /\ req[r].verdict = "accepted"
  /\ Forget(req[r].pod, req[r].challenge)
  /\ req' = [req EXCEPT ![r].pc = "check"]
  /\ persisting' = persisting \cup {r}
  /\ UNCHANGED <<deploy, issued, lapsed, rows>>

\* The end of VerifyProof: the challenge is consumed whatever the verdict, and
\* the verdict is handed to persistVerification.
Consume(r) ==
  /\ At(r, "consume")
  /\ Forget(req[r].pod, req[r].challenge)
  /\ req' = [req EXCEPT ![r].pc = "check"]
  /\ persisting' = persisting \cup {r}
  /\ UNCHANGED <<deploy, issued, lapsed, rows>>

persistVerification(r) ==
  /\ r \in persisting
  /\ persisting' = persisting \ {r}
  /\ \/ rows' = rows \cup {[req |-> r, by |-> "verifier",
                            challenge |-> req[r].challenge,
                            valid |-> req[r].verdict = "accepted"]}
     \/ Faults /\ UNCHANGED rows
  /\ UNCHANGED <<deploy, issued, lapsed, memory, redis, req>>

\* 409 for a challenge that has a row; a query that fails finds none.
Recorded(c) == \E row \in rows : row.challenge = c

CheckDuplicate(r) ==
  /\ At(r, "check")
  /\ \/ /\ Recorded(req[r].challenge)
        /\ req' = [req EXCEPT ![r] = [@ EXCEPT !.pc = "done", !.answer = "conflict"]]
     \/ /\ Faults \/ ~Recorded(req[r].challenge)
        /\ req' = [req EXCEPT ![r].pc = "insert"]
  /\ UNCHANGED <<deploy, issued, lapsed, memory, redis, persisting, rows>>

InsertVerification(r) ==
  /\ At(r, "insert")
  /\ \/ /\ rows' = rows \cup {[req |-> r, by |-> "handler",
                               challenge |-> req[r].challenge,
                               valid |-> req[r].verdict \in {"accepted", "plausible"}]}
        /\ req' = [req EXCEPT ![r] = [@ EXCEPT !.pc = "done", !.answer = "ok"]]
     \/ /\ Faults
        /\ req' = [req EXCEPT ![r] = [@ EXCEPT !.pc = "done", !.answer = "error"]]
        /\ UNCHANGED rows
  /\ UNCHANGED <<deploy, issued, lapsed, memory, redis, persisting>>

\* A pod stops: its map, its requests and its goroutines are lost; the next
\* one starts with an empty map.
Running(r) == ~At(r, "new") /\ ~At(r, "done")
PodRestart(p) ==
  /\ Faults /\ p \in deploy.pods
  /\ memory' = [memory EXCEPT ![p] = {}]
  /\ persisting' = {r \in persisting : req[r].pod # p}
  /\ req' = [r \in Requests |->
              IF Running(r) /\ req[r].pod = p
              THEN [req[r] EXCEPT !.pc = "done", !.answer = "error",
                                  !.verdict = IF At(r, "consume") THEN "none" ELSE @]
              ELSE req[r]]
  /\ UNCHANGED <<deploy, issued, lapsed, redis, rows>>

-----------------------------------------------------------------------------

Step(r) == \/ StructuralCheck(r) \/ LookupUnknown(r) \/ LookupExpired(r)
           \/ LookupFound(r) \/ Consume(r)
           \/ CheckDuplicate(r) \/ InsertVerification(r)

Next == \/ \E c \in Challenges : Expire(c) \/ \E p \in Pods : GenerateChallenge(p, c)
        \/ \E r \in Requests : Submit(r) \/ Step(r) \/ persistVerification(r)
        \/ \E p \in Pods : PodRestart(p)

Spec == Init /\ [][Next]_vars

\* A handler that can go on does, and Go hands a mutex to a waiting goroutine
\* that others keep overtaking (its starvation mode).
Fairness == \A r \in Requests : SF_vars(Step(r))
FairSpec == Spec /\ Fairness

-----------------------------------------------------------------------------
(* Properties *)

\* Deployments that keep the promise below: a shared store of which every Del
\* arrives and which one pod uses, or no shared store.
KeepsPromise(d) == d.redis => ~d.delFails /\ \A p, q \in d.pods : p = q

\* A challenge, once used, is found by no later request of any pod: neither
\* store keeps it, though a Set may have failed and left it in one of them.
ConsumedIsGone ==
  \A r \in Requests :
    req[r].verdict \in Used /\ ~At(r, "consume") =>
      /\ req[r].challenge \notin redis
      /\ \A p \in Pods : req[r].challenge \notin memory[p]

\* A request is answered, whoever holds the mutex of its pod.
RequestsAnswered == \A r \in Requests : At(r, "lookup") ~> At(r, "done")

\* "each challenge is single-use" (proofs.go): the detailed verifier keeps the
\* promise of ChallengeUse.
claims == [c \in Challenges |-> {r \in Requests : At(r, "consume") /\ req[r].challenge = c}]
usedBy == [c \in Challenges |->
            {r \in Requests : /\ req[r].verdict \in Used /\ ~At(r, "consume")
                              /\ req[r].challenge = c}]
Promise == INSTANCE ChallengeUse WITH issued <- issued, lapsed <- lapsed,
                                     claims <- claims, usedBy <- usedBy
ChallengesUsedOnce == Promise!UseSpec
=============================================================================
