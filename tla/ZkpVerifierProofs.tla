------------------------- MODULE ZkpVerifierProofs -------------------------
(* Theorems of ZkpVerifier, for any pods, challenges and requests: where a     *)
(* challenge has one keeper, as it does in the deployment main.go builds, the  *)
(* verifier keeps the promise of ChallengeUse.                                 *)
EXTENDS ZkpVerifier, TLAPS

\* The deployments that the theorems are about.
GoodDeployments == \A d \in Deployments : KeepsPromise(d)

\* A stored challenge was issued, and the map of a pod that does not serve is
\* empty, like Redis where there is none.
StoresKnown ==
  /\ redis \subseteq issued /\ (~deploy.redis => redis = {})
  /\ \A p \in Pods : memory[p] \subseteq issued /\ (p \notin deploy.pods => memory[p] = {})

\* One pod knows a challenge.
OneKeeper == \A p, q \in Pods : memory[p] \cap memory[q] # {} => p = q

\* A verdict on a challenge is reached in VerifyProof, on a pod that serves.
VerdictsReached ==
  \A r \in Requests :
    /\ ~At(r, "new") => req[r].pod \in deploy.pods
    /\ At(r, "new") \/ At(r, "lookup") => req[r].verdict = "none"
    /\ At(r, "consume") => req[r].verdict \in Used
    /\ At(r, "consume") \/ req[r].verdict \in Used => req[r].challenge \in issued

\* The mutex of a pod has one holder.
OneHolder ==
  \A r, s \in Requests : At(r, "consume") /\ At(s, "consume") /\ req[r].pod = req[s].pod => r = s

\* A challenge in use is known to no other pod.
ClaimedElsewhereUnknown ==
  \A r \in Requests : At(r, "consume") =>
    \A p \in Pods \ {req[r].pod} : req[r].challenge \notin memory[p]

\* Two requests never use one challenge, at once or one after the other.
UsedOnce ==
  \A r, s \in Requests : req[r].verdict \in Used /\ req[s].verdict \in Used
                           /\ req[r].challenge = req[s].challenge => r = s

ZkpInv == /\ TypeOK /\ StoresKnown /\ OneKeeper /\ VerdictsReached /\ OneHolder
          /\ ClaimedElsewhereUnknown /\ UsedOnce /\ ConsumedIsGone

-----------------------------------------------------------------------------
(* Steps that neither issue, claim nor use a challenge                         *)

\* No store gains a challenge, and what a request had claimed or used it has
\* claimed or used already.
Calm ==
  /\ deploy' = deploy /\ issued' = issued
  /\ redis' \subseteq redis
  /\ \A p \in Pods : memory'[p] \subseteq memory[p]
  /\ \A r \in Requests :
       /\ At(r, "consume")' => At(r, "consume") /\ req'[r] = req[r]
       /\ req'[r].verdict \in Used => /\ req'[r].verdict = req[r].verdict
                                      /\ req'[r].challenge = req[r].challenge
                                      /\ At(r, "consume") => At(r, "consume")'
       /\ ~At(r, "new")' => req'[r].pod \in deploy.pods
       /\ At(r, "new")' \/ At(r, "lookup")' => req'[r].verdict = "none"

\* Such a step keeps the invariant.
LEMMA CalmKeeps == ASSUME ZkpInv, TypeOK', Calm PROVE ZkpInv'
  <1>1. StoresKnown' /\ OneKeeper'
    BY DEF ZkpInv, StoresKnown, OneKeeper, Calm
  <1>2. VerdictsReached'
    BY DEF ZkpInv, VerdictsReached, Calm, At
  <1>3. OneHolder' /\ ClaimedElsewhereUnknown'
    BY DEF ZkpInv, OneHolder, ClaimedElsewhereUnknown, Calm
  <1>4. UsedOnce' /\ ConsumedIsGone'
    BY DEF ZkpInv, UsedOnce, ConsumedIsGone, Calm
  <1>. QED BY <1>1, <1>2, <1>3, <1>4 DEF ZkpInv

\* The records of requests have the fields they are given.
LEMMA RequestFields ==
  ASSUME TypeOK, NEW r \in Requests
  PROVE  /\ req[r] \in Request /\ req[r].pod \in Pods
         /\ req[r].challenge \in Challenges \cup {NoChallenge}
  BY DEF TypeOK, Request

\* A request that reaches a verdict stays a request.
LEMMA VerdictType ==
  ASSUME TypeOK, NEW r \in Requests, NEW pc \in Places, NEW verdict \in Verdicts
  PROVE  [req EXCEPT ![r] = [@ EXCEPT !.pc = pc, !.verdict = verdict]] \in [Requests -> Request]
  <1>1. req[r] \in Request
    BY RequestFields
  <1>2. [req[r] EXCEPT !.pc = pc, !.verdict = verdict] \in Request
    BY <1>1 DEF Request
  <1>. QED BY <1>2 DEF TypeOK

\* A row states a verdict.
LEMMA RowType ==
  ASSUME NEW r \in Requests, NEW by \in {"handler", "verifier"},
         NEW c \in Challenges \cup {NoChallenge}, NEW valid
  PROVE  /\ [req |-> r, by |-> by, challenge |-> c, valid |-> valid = "accepted"] \in VerifyRow
         /\ [req |-> r, by |-> by, challenge |-> c,
             valid |-> valid \in {"accepted", "plausible"}] \in VerifyRow
  <1>1. ASSUME NEW b \in BOOLEAN
        PROVE  [req |-> r, by |-> by, challenge |-> c, valid |-> b] \in VerifyRow
    BY DEF VerifyRow
  <1>2. (valid = "accepted") \in BOOLEAN /\ (valid \in {"accepted", "plausible"}) \in BOOLEAN
    OBVIOUS
  <1>. QED BY <1>1, <1>2, Zenon

\* Every step keeps the types.
LEMMA TypeStep == ASSUME TypeOK, [Next]_vars PROVE TypeOK'
  <1>. USE DEF TypeOK
  <1>1. CASE UNCHANGED vars
    BY <1>1 DEF vars
  <1>2. ASSUME NEW p \in Pods, NEW c \in Challenges, GenerateChallenge(p, c) PROVE TypeOK'
    BY <1>2 DEF GenerateChallenge
  <1>3. ASSUME NEW c \in Challenges, Expire(c) PROVE TypeOK'
    BY <1>3 DEF Expire
  <1>4. ASSUME NEW r \in Requests, Submit(r) PROVE TypeOK'
    <2>1. PICK p \in deploy.pods, c \in Challenges \cup {NoChallenge},
               proof \in Challenges \cup {BadProof} :
            req' = [req EXCEPT ![r] = [@ EXCEPT !.pc = "lookup", !.pod = p,
                                                !.challenge = c, !.proof = proof]]
      BY <1>4 DEF Submit
    <2>2. p \in Pods
      BY DeploymentsKnown DEF Deployment
    <2>3. [req[r] EXCEPT !.pc = "lookup", !.pod = p, !.challenge = c, !.proof = proof] \in Request
      BY <2>2, RequestFields DEF Request, Places
    <2>4. req' \in [Requests -> Request]
      BY <2>1, <2>3
    <2>. QED BY <1>4, <2>4 DEF Submit
  <1>5. ASSUME NEW r \in Requests, StructuralCheck(r) PROVE TypeOK'
    <2>1. "insert" \in Places /\ (IF req[r].proof = BadProof THEN "implausible" ELSE "plausible") \in Verdicts
      BY DEF Places, Verdicts
    <2>2. req' \in [Requests -> Request]
      BY <1>5, <2>1, VerdictType DEF StructuralCheck
    <2>. QED BY <1>5, <2>2 DEF StructuralCheck
  <1>6. ASSUME NEW r \in Requests, LookupUnknown(r) PROVE TypeOK'
    <2>1. "check" \in Places /\ "unknown" \in Verdicts
      BY DEF Places, Verdicts
    <2>2. req' \in [Requests -> Request]
      BY <1>6, <2>1, VerdictType DEF LookupUnknown
    <2>. QED BY <1>6, <2>2 DEF LookupUnknown
  <1>7. ASSUME NEW r \in Requests, LookupExpired(r) PROVE TypeOK'
    <2>1. "check" \in Places /\ "expired" \in Verdicts
      BY DEF Places, Verdicts
    <2>2. req' \in [Requests -> Request]
      BY <1>7, <2>1, VerdictType DEF LookupExpired
    <2>. QED BY <1>7, <2>2 DEF LookupExpired, Forget
  <1>8. ASSUME NEW r \in Requests, LookupFound(r) PROVE TypeOK'
    <2>1. Verdict(req[r].challenge, req[r].proof) \in Verdicts
      BY DEF Verdict, Verdicts, Used
    <2>2. "consume" \in Places
      BY DEF Places
    <2>3. req' \in [Requests -> Request]
      BY <1>8, <2>1, <2>2, VerdictType DEF LookupFound
    <2>. QED BY <1>8, <2>3 DEF LookupFound
  <1>9. ASSUME NEW r \in Requests, Consume(r) PROVE TypeOK'
    <2>1. [req[r] EXCEPT !.pc = "check"] \in Request
      BY RequestFields DEF Request, Places
    <2>2. req' \in [Requests -> Request]
      BY <1>9, <2>1 DEF Consume
    <2>. QED BY <1>9, <2>2 DEF Consume, Forget
  <1>10. ASSUME NEW r \in Requests, persistVerification(r) PROVE TypeOK'
    <2>1. rows' \subseteq VerifyRow
      <3>1. [req |-> r, by |-> "verifier", challenge |-> req[r].challenge,
             valid |-> req[r].verdict = "accepted"] \in VerifyRow
        BY RequestFields, RowType
      <3>. QED BY <1>10, <3>1 DEF persistVerification
    <2>. QED BY <1>10, <2>1 DEF persistVerification
  <1>11. ASSUME NEW r \in Requests, CheckDuplicate(r) PROVE TypeOK'
    <2>1. req' \in [Requests -> Request]
      <3>1. /\ [req[r] EXCEPT !.pc = "done", !.answer = "conflict"] \in Request
            /\ [req[r] EXCEPT !.pc = "insert"] \in Request
        BY RequestFields DEF Request, Places
      <3>2. \/ req' = [req EXCEPT ![r] = [req[r] EXCEPT !.pc = "done", !.answer = "conflict"]]
            \/ req' = [req EXCEPT ![r] = [req[r] EXCEPT !.pc = "insert"]]
        BY <1>11 DEF CheckDuplicate
      <3>. QED BY <3>1, <3>2
    <2>. QED BY <1>11, <2>1 DEF CheckDuplicate
  <1>12. ASSUME NEW r \in Requests, InsertVerification(r) PROVE TypeOK'
    <2>1. rows' \subseteq VerifyRow
      <3>1. [req |-> r, by |-> "handler", challenge |-> req[r].challenge,
             valid |-> req[r].verdict \in {"accepted", "plausible"}] \in VerifyRow
        BY RequestFields, RowType
      <3>. QED BY <1>12, <3>1 DEF InsertVerification
    <2>2. req' \in [Requests -> Request]
      <3>1. \A answer \in {"ok", "error"} : [req[r] EXCEPT !.pc = "done", !.answer = answer] \in Request
        BY RequestFields DEF Request, Places
      <3>2. PICK answer \in {"ok", "error"} :
              req' = [req EXCEPT ![r] = [req[r] EXCEPT !.pc = "done", !.answer = answer]]
        BY <1>12 DEF InsertVerification
      <3>. QED BY <3>1, <3>2
    <2>. QED BY <1>12, <2>1, <2>2 DEF InsertVerification
  <1>13. ASSUME NEW p \in Pods, PodRestart(p) PROVE TypeOK'
    <2>1. ASSUME NEW r \in Requests
          PROVE  [req[r] EXCEPT !.pc = "done", !.answer = "error",
                                !.verdict = IF At(r, "consume") THEN "none" ELSE @] \in Request
      <3>1. req[r] \in Request
        BY RequestFields
      <3>. QED BY <3>1 DEF Request, Places, Verdicts
    <2>2. req' \in [Requests -> Request]
      BY <1>13, <2>1 DEF PodRestart
    <2>. QED BY <1>13, <2>2 DEF PodRestart
  <1>. QED BY <1>1, <1>2, <1>3, <1>4, <1>5, <1>6, <1>7, <1>8, <1>9, <1>10, <1>11, <1>12, <1>13
             DEF Next, Step

\* What a step that is no claim or use leaves as it is.
SameUse == claims' = claims /\ usedBy' = usedBy

\* A request that goes on without a verdict on a challenge changes no use.
LEMMA SameFields ==
  ASSUME \A r \in Requests : /\ At(r, "consume")' <=> At(r, "consume")
                             /\ req'[r].verdict \in Used <=> req[r].verdict \in Used
                             /\ At(r, "consume") \/ req[r].verdict \in Used =>
                                  req'[r].challenge = req[r].challenge
  PROVE  SameUse
  BY DEF SameUse, claims, usedBy

\* The steps of a handler around VerifyProof, and the goroutine it leaves.
LEMMA HandlerCalm ==
  ASSUME ZkpInv, NEW r \in Requests,
         \/ StructuralCheck(r) \/ LookupUnknown(r) \/ LookupExpired(r)
         \/ CheckDuplicate(r) \/ InsertVerification(r) \/ persistVerification(r)
  PROVE  Calm /\ SameUse
  <1>. USE DEF ZkpInv, TypeOK, VerdictsReached, Calm, At, Used
  <1>1. CASE StructuralCheck(r)
    BY <1>1, SameFields DEF StructuralCheck
  <1>2. CASE LookupUnknown(r)
    BY <1>2, SameFields DEF LookupUnknown
  <1>3. CASE LookupExpired(r)
    BY <1>3, SameFields DEF LookupExpired, Forget, StoresKnown
  <1>4. CASE CheckDuplicate(r) \/ InsertVerification(r)
    <2>1. /\ \A s \in Requests \ {r} : req'[s] = req[s]
          /\ req'[r].pc \in {"done", "insert"} /\ ~At(r, "new") /\ ~At(r, "consume")
          /\ req'[r].verdict = req[r].verdict /\ req'[r].challenge = req[r].challenge
          /\ req'[r].pod = req[r].pod
      <3>1. req[r] \in Request
        BY RequestFields
      <3>2. \E pc \in {"done", "insert"}, answer \in {req[r].answer, "ok", "conflict", "error"} :
              req' = [req EXCEPT ![r] = [@ EXCEPT !.pc = pc, !.answer = answer]]
        BY <1>4, <3>1 DEF CheckDuplicate, InsertVerification, Request
      <3>3. At(r, "check") \/ At(r, "insert")
        BY <1>4 DEF CheckDuplicate, InsertVerification
      <3>. QED BY <3>1, <3>2, <3>3 DEF Request
    <2>2. UNCHANGED <<deploy, issued, memory, redis>>
      BY <1>4 DEF CheckDuplicate, InsertVerification
    <2>. QED BY <2>1, <2>2, SameFields
  <1>5. CASE persistVerification(r)
    BY <1>5, SameFields DEF persistVerification
  <1>. QED BY <1>1, <1>2, <1>3, <1>4, <1>5

\* A request that comes in.
LEMMA SubmitCalm == ASSUME ZkpInv, NEW r \in Requests, Submit(r) PROVE Calm /\ SameUse
  <1>. USE DEF ZkpInv, TypeOK, VerdictsReached, Calm, At, Used
  <1>1. Calm
    BY DEF Submit, Request
  <1>2. SameUse
    BY SameFields DEF Submit, Request
  <1>. QED BY <1>1, <1>2

\* The end of the time of a challenge.
LEMMA ExpireCalm == ASSUME ZkpInv, NEW c \in Challenges, Expire(c) PROVE Calm /\ SameUse
  BY SameFields DEF ZkpInv, VerdictsReached, Calm, At, Expire

\* The stop of a pod: what it was using is given up, nothing else changes.
LEMMA RestartCalm == ASSUME ZkpInv, NEW p \in Pods, PodRestart(p) PROVE Calm
  <1>1. ASSUME NEW r \in Requests
        PROVE  \/ req'[r] = req[r] /\ (At(r, "consume") => req[r].pod # p)
               \/ /\ ~At(r, "new") /\ req'[r].pc = "done" /\ req'[r].pod = req[r].pod
                  /\ IF At(r, "consume") THEN req'[r].verdict = "none"
                     ELSE req'[r].verdict = req[r].verdict /\ req'[r].challenge = req[r].challenge
    <2>1. req[r] \in Request
      BY RequestFields DEF ZkpInv
    <2>. QED BY <2>1 DEF PodRestart, Running, At, Request
  <1>2. ASSUME NEW r \in Requests
        PROVE  /\ At(r, "consume")' => At(r, "consume") /\ req'[r] = req[r]
               /\ req'[r].verdict \in Used => /\ req'[r].verdict = req[r].verdict
                                              /\ req'[r].challenge = req[r].challenge
                                              /\ At(r, "consume") => At(r, "consume")'
               /\ ~At(r, "new")' => req'[r].pod \in deploy.pods
               /\ At(r, "new")' \/ At(r, "lookup")' => req'[r].verdict = "none"
    BY <1>1 DEF ZkpInv, VerdictsReached, At, Used
  <1>3. /\ deploy' = deploy /\ issued' = issued /\ redis' = redis
        /\ \A q \in Pods : memory'[q] \subseteq memory[q]
    BY DEF PodRestart, ZkpInv, TypeOK
  <1>. QED BY <1>2, <1>3 DEF Calm

\* A step that changes nothing.
LEMMA StutterCalm == ASSUME ZkpInv, UNCHANGED vars PROVE Calm /\ SameUse
  BY SameFields DEF ZkpInv, VerdictsReached, Calm, At, vars

-----------------------------------------------------------------------------
(* Issue, claim and use                                                        *)

\* A new challenge goes to the shared store or to the pod that issued it.
LEMMA IssueKeeps ==
  ASSUME GoodDeployments, ZkpInv, TypeOK', NEW p \in Pods, NEW c \in Challenges, GenerateChallenge(p, c)
  PROVE  ZkpInv' /\ SameUse
  <1>. USE DEF ZkpInv, TypeOK, GenerateChallenge
  <1>1. StoresKnown'
    BY DEF StoresKnown
  <1>2. OneKeeper'
    BY DEF StoresKnown, OneKeeper
  <1>3. VerdictsReached' /\ OneHolder' /\ UsedOnce'
    BY DEF VerdictsReached, OneHolder, UsedOnce, At
  <1>4. ClaimedElsewhereUnknown' /\ ConsumedIsGone'
    BY DEF VerdictsReached, ClaimedElsewhereUnknown, ConsumedIsGone, At
  <1>5. SameUse
    BY SameFields DEF At
  <1>. QED BY <1>1, <1>2, <1>3, <1>4, <1>5

\* What a claim finds: nobody has claimed or used the challenge.
LEMMA ClaimFinds ==
  ASSUME GoodDeployments, ZkpInv, NEW r \in Requests, LookupFound(r)
  PROVE  /\ req[r].challenge \in issued \ lapsed
         /\ \A s \in Requests : At(s, "consume") \/ req[s].verdict \in Used =>
              req[s].challenge # req[r].challenge
         /\ \A q \in Pods \ {req[r].pod} : req[r].challenge \notin memory[q]
         /\ \A s \in Requests : At(s, "consume") => req[s].pod # req[r].pod
         /\ req[r].pod \in deploy.pods
  <1>. DEFINE c == req[r].challenge
              p == req[r].pod
  <1>1. p \in Pods /\ p \in deploy.pods /\ ~At(r, "consume") /\ req[r].verdict = "none"
    BY RequestFields DEF ZkpInv, VerdictsReached, LookupFound, At
  <1>2. c \in (redis \cup memory[p]) \ lapsed
    BY DEF LookupFound, Readable, ZkpInv, StoresKnown
  <1>3. \A s \in Requests : At(s, "consume") => req[s].pod # p
    BY DEF LookupFound, MutexFree
  <1>4. \A s \in Requests : At(s, "consume") => req[s].challenge # c
    <2>. SUFFICES ASSUME NEW s \in Requests, At(s, "consume"), req[s].challenge = c PROVE FALSE
      OBVIOUS
    <2>1. req[s].pod # p /\ req[s].pod \in deploy.pods
      BY <1>3 DEF ZkpInv, VerdictsReached, At
    <2>2. c \notin memory[p]
      BY <1>1, <2>1 DEF ZkpInv, ClaimedElsewhereUnknown
    <2>3. deploy.redis
      BY <1>2, <2>2 DEF ZkpInv, StoresKnown
    <2>. QED BY <1>1, <2>1, <2>3 DEF ZkpInv, TypeOK, GoodDeployments, KeepsPromise
  <1>5. \A s \in Requests : req[s].verdict \in Used => req[s].challenge # c
    BY <1>1, <1>2, <1>4 DEF ZkpInv, ConsumedIsGone
  <1>6. \A q \in Pods \ {p} : c \notin memory[q]
    <2>1. CASE c \in memory[p]
      BY <1>1, <2>1 DEF ZkpInv, OneKeeper
    <2>2. CASE c \in redis
      <3>1. deploy.redis
        BY <2>2 DEF ZkpInv, StoresKnown
      <3>. QED BY <1>1, <3>1 DEF ZkpInv, TypeOK, StoresKnown, GoodDeployments, KeepsPromise
    <2>. QED BY <1>2, <2>1, <2>2
  <1>7. c \in issued
    BY <1>1, <1>2 DEF ZkpInv, StoresKnown
  <1>. QED BY <1>1, <1>2, <1>3, <1>4, <1>5, <1>6, <1>7

\* Claiming a challenge keeps the invariant and is a claim of ChallengeUse.
LEMMA ClaimKeeps ==
  ASSUME GoodDeployments, ZkpInv, TypeOK', NEW r \in Requests, LookupFound(r)
  PROVE  ZkpInv' /\ Promise!Claim(req[r].challenge, r)
  <1>. DEFINE c == req[r].challenge
  <1>1. /\ \A s \in Requests \ {r} : req'[s] = req[s]
        /\ req'[r].pc = "consume" /\ req'[r].verdict \in Used
        /\ req'[r].challenge = c /\ req'[r].pod = req[r].pod
        /\ At(r, "lookup")
    <2>1. req[r] \in Request /\ Verdict(c, req[r].proof) \in Used
      BY RequestFields DEF ZkpInv, Verdict, Used
    <2>. QED BY <2>1 DEF LookupFound, Request, ZkpInv, TypeOK
  <1>2. UNCHANGED <<deploy, issued, lapsed, memory, redis>>
    BY DEF LookupFound
  <1>3. StoresKnown' /\ OneKeeper'
    BY <1>2 DEF ZkpInv, StoresKnown, OneKeeper
  <1>4. VerdictsReached'
    BY <1>1, <1>2, ClaimFinds DEF ZkpInv, VerdictsReached, At
  <1>5. OneHolder' /\ ClaimedElsewhereUnknown'
    BY <1>1, <1>2, ClaimFinds DEF ZkpInv, OneHolder, ClaimedElsewhereUnknown, At
  <1>6. UsedOnce' /\ ConsumedIsGone'
    BY <1>1, <1>2, ClaimFinds DEF ZkpInv, UsedOnce, ConsumedIsGone, At
  <1>7. c \in issued \ lapsed /\ c \in Challenges
    BY ClaimFinds DEF ZkpInv, TypeOK
  <1>8. claims[c] = {} /\ usedBy[c] = {}
    BY <1>7, ClaimFinds DEF claims, usedBy
  <1>9. claims' = [claims EXCEPT ![c] = {r}]
    <2>1. ASSUME NEW d \in Challenges
          PROVE  {s \in Requests : At(s, "consume")' /\ req'[s].challenge = d} =
                   IF d = c THEN {r} ELSE {s \in Requests : At(s, "consume") /\ req[s].challenge = d}
      BY <1>1, ClaimFinds DEF At
    <2>. QED BY <2>1 DEF claims
  <1>10. usedBy' = usedBy
    <2>1. ASSUME NEW s \in Requests, NEW d \in Challenges
          PROVE  (req'[s].verdict \in Used /\ ~At(s, "consume")' /\ req'[s].challenge = d) <=>
                 (req[s].verdict \in Used /\ ~At(s, "consume") /\ req[s].challenge = d)
      BY <1>1 DEF At, ZkpInv, VerdictsReached, Used
    <2>. QED BY <2>1 DEF usedBy
  <1>11. Promise!Claim(c, r)
    BY <1>2, <1>7, <1>8, <1>9, <1>10 DEF Promise!Claim
  <1>. QED BY <1>3, <1>4, <1>5, <1>6, <1>11 DEF ZkpInv

\* The end of VerifyProof is the use of ChallengeUse.
LEMMA ConsumeKeeps ==
  ASSUME GoodDeployments, ZkpInv, TypeOK', NEW r \in Requests, Consume(r)
  PROVE  ZkpInv' /\ Promise!Use(req[r].challenge, r)
  <1>. DEFINE c == req[r].challenge
              p == req[r].pod
  <1>1. /\ \A s \in Requests \ {r} : req'[s] = req[s]
        /\ req'[r].pc = "check" /\ req'[r].verdict = req[r].verdict
        /\ req'[r].challenge = c /\ req'[r].pod = p
        /\ At(r, "consume") /\ req[r].verdict \in Used /\ c \in issued /\ c \in Challenges
        /\ p \in deploy.pods /\ p \in Pods
    <2>1. req[r] \in Request
      BY RequestFields DEF ZkpInv
    <2>. QED BY <2>1 DEF Consume, Request, ZkpInv, TypeOK, VerdictsReached, At
  <1>2. /\ UNCHANGED <<deploy, issued, lapsed>>
        /\ redis' = redis \ {c}
        /\ \A q \in Pods : memory'[q] = IF q = p THEN memory[q] \ {c} ELSE memory[q]
    <2>1. redis' = redis \ {c}
      BY DEF Consume, Forget, ZkpInv, TypeOK, StoresKnown, GoodDeployments, KeepsPromise
    <2>. QED BY <2>1 DEF Consume, Forget, ZkpInv, TypeOK
  <1>3. StoresKnown' /\ OneKeeper'
    BY <1>2 DEF ZkpInv, StoresKnown, OneKeeper
  <1>4. VerdictsReached'
    BY <1>1, <1>2 DEF ZkpInv, VerdictsReached, At
  <1>5. OneHolder' /\ ClaimedElsewhereUnknown'
    <2>1. \A s \in Requests : At(s, "consume")' => At(s, "consume") /\ req'[s] = req[s]
      BY <1>1 DEF At
    <2>2. \A q \in Pods : memory'[q] \subseteq memory[q]
      BY <1>2
    <2>. QED BY <2>1, <2>2 DEF ZkpInv, OneHolder, ClaimedElsewhereUnknown
  <1>6. UsedOnce'
    BY <1>1 DEF ZkpInv, UsedOnce
  <1>7. ConsumedIsGone'
    <2>1. c \notin redis' /\ \A q \in Pods : c \notin memory'[q]
      BY <1>1, <1>2 DEF ZkpInv, ClaimedElsewhereUnknown
    <2>2. ASSUME NEW s \in Requests, req'[s].verdict \in Used, ~At(s, "consume")', s # r
          PROVE  /\ req'[s].challenge \notin redis'
                 /\ \A q \in Pods : req'[s].challenge \notin memory'[q]
      <3>1. req'[s] = req[s] /\ ~At(s, "consume")
        BY <1>1, <2>2 DEF At
      <3>2. req[s].challenge \notin redis /\ \A q \in Pods : req[s].challenge \notin memory[q]
        BY <2>2, <3>1 DEF ZkpInv, ConsumedIsGone
      <3>. QED BY <1>2, <3>1, <3>2
    <2>. QED BY <1>1, <2>1, <2>2 DEF ConsumedIsGone
  <1>8. \A s \in Requests : req[s].verdict \in Used /\ req[s].challenge = c => s = r
    BY <1>1 DEF ZkpInv, UsedOnce
  <1>9. claims[c] = {r}
    BY <1>1, <1>8 DEF claims, At, ZkpInv, VerdictsReached
  <1>10. claims' = [claims EXCEPT ![c] = {}]
    <2>1. ASSUME NEW d \in Challenges
          PROVE  {s \in Requests : At(s, "consume")' /\ req'[s].challenge = d} =
                   IF d = c THEN {} ELSE {s \in Requests : At(s, "consume") /\ req[s].challenge = d}
      BY <1>1, <1>8 DEF At, ZkpInv, VerdictsReached
    <2>. QED BY <2>1 DEF claims
  <1>11. usedBy' = [usedBy EXCEPT ![c] = {r}]
    <2>1. ASSUME NEW d \in Challenges
          PROVE  {s \in Requests : /\ req'[s].verdict \in Used /\ ~At(s, "consume")'
                                   /\ req'[s].challenge = d} =
                   IF d = c THEN {r}
                   ELSE {s \in Requests : /\ req[s].verdict \in Used /\ ~At(s, "consume")
                                          /\ req[s].challenge = d}
      BY <1>1, <1>8 DEF At
    <2>. QED BY <2>1 DEF usedBy
  <1>12. Promise!Use(c, r)
    BY <1>2, <1>9, <1>10, <1>11 DEF Promise!Use
  <1>. QED BY <1>3, <1>4, <1>5, <1>6, <1>7, <1>12 DEF ZkpInv

-----------------------------------------------------------------------------
(* The theorems                                                                *)

\* The initial states.
LEMMA InitKeeps == Init => ZkpInv /\ Promise!UseInit
  <1>. SUFFICES ASSUME Init PROVE ZkpInv /\ Promise!UseInit
    OBVIOUS
  <1>1. PICK p \in Pods : req = [r \in Requests |-> [pc |-> "new", pod |-> p,
                             challenge |-> NoChallenge, proof |-> BadProof,
                             verdict |-> "none", answer |-> "none"]]
    BY DEF Init
  <1>2. TypeOK
    BY <1>1 DEF Init, TypeOK, Request, Places, Verdicts
  <1>3. \A r \in Requests : At(r, "new") /\ req[r].verdict = "none"
    BY <1>1 DEF At
  <1>4. ZkpInv
    BY <1>2, <1>3 DEF Init, ZkpInv, StoresKnown, OneKeeper, VerdictsReached, OneHolder,
                      ClaimedElsewhereUnknown, UsedOnce, ConsumedIsGone, At, Used
  <1>5. Promise!UseInit
    BY <1>3 DEF Init, Promise!UseInit, claims, usedBy, At, Used
  <1>. QED BY <1>4, <1>5

\* The stop of a pod gives up what it was using, at most one challenge.
LEMMA RestartUse ==
  ASSUME ZkpInv, NEW p \in Pods, PodRestart(p)
  PROVE  SameUse \/ \E c \in Challenges, r \in Requests : Promise!GiveUp(c, r)
  <1>1. ASSUME NEW s \in Requests
        PROVE  \/ req'[s] = req[s] /\ (At(s, "consume") => req[s].pod # p)
               \/ /\ req'[s].pc = "done" /\ req[s].pod = p
                  /\ IF At(s, "consume") THEN req'[s].verdict = "none"
                     ELSE req'[s].verdict = req[s].verdict /\ req'[s].challenge = req[s].challenge
    <2>1. req[s] \in Request
      BY RequestFields DEF ZkpInv
    <2>. QED BY <2>1 DEF PodRestart, Running, At, Request
  <1>2. usedBy' = usedBy
    <2>1. ASSUME NEW s \in Requests, NEW d \in Challenges
          PROVE  (req'[s].verdict \in Used /\ ~At(s, "consume")' /\ req'[s].challenge = d) <=>
                 (req[s].verdict \in Used /\ ~At(s, "consume") /\ req[s].challenge = d)
      BY <1>1 DEF At, Used
    <2>. QED BY <2>1 DEF usedBy
  <1>3. CASE \A r \in Requests : ~(At(r, "consume") /\ req[r].pod = p)
    <2>1. ASSUME NEW s \in Requests, NEW d \in Challenges
          PROVE  (At(s, "consume")' /\ req'[s].challenge = d) <=>
                 (At(s, "consume") /\ req[s].challenge = d)
      BY <1>1, <1>3 DEF At
    <2>. QED BY <1>2, <2>1 DEF SameUse, claims
  <1>4. ASSUME NEW r \in Requests, At(r, "consume"), req[r].pod = p
        PROVE  Promise!GiveUp(req[r].challenge, r) /\ req[r].challenge \in Challenges
    <2>. DEFINE c == req[r].challenge
    <2>1. c \in Challenges
      BY <1>4 DEF ZkpInv, TypeOK, VerdictsReached
    <2>2. \A s \in Requests : /\ At(s, "consume") /\ req[s].challenge = c => s = r
                              /\ At(s, "consume") /\ req[s].pod = p => s = r
      BY <1>4 DEF ZkpInv, VerdictsReached, UsedOnce, OneHolder
    <2>3. claims[c] = {r}
      BY <1>4, <2>1, <2>2 DEF claims
    <2>4. claims' = [claims EXCEPT ![c] = {}]
      <3>1. ASSUME NEW d \in Challenges
            PROVE  {s \in Requests : At(s, "consume")' /\ req'[s].challenge = d} =
                     IF d = c THEN {}
                     ELSE {s \in Requests : At(s, "consume") /\ req[s].challenge = d}
        BY <1>1, <1>4, <2>2 DEF At
      <3>. QED BY <3>1 DEF claims
    <2>. QED BY <1>2, <2>1, <2>3, <2>4 DEF Promise!GiveUp, PodRestart
  <1>. QED BY <1>3, <1>4

\* Every step keeps the invariant, and is a step of ChallengeUse or none.
LEMMA ZkpStep ==
  ASSUME GoodDeployments, ZkpInv, [Next]_vars
  PROVE  ZkpInv' /\ [Promise!UseNext]_(Promise!useVars)
  <1>1. TypeOK'
    BY TypeStep DEF ZkpInv
  <1>2. CASE UNCHANGED vars
    <2>1. UNCHANGED <<issued, lapsed>> /\ Calm /\ SameUse
      BY <1>2, StutterCalm DEF vars
    <2>. QED BY <1>1, <2>1, CalmKeeps DEF SameUse, Promise!useVars
  <1>3. ASSUME NEW p \in Pods, NEW c \in Challenges, GenerateChallenge(p, c)
        PROVE  ZkpInv' /\ Promise!Issue(c)
    BY <1>1, <1>3, IssueKeeps DEF SameUse, GenerateChallenge, Promise!Issue
  <1>4. ASSUME NEW c \in Challenges, Expire(c) PROVE ZkpInv' /\ Promise!Lapse(c)
    BY <1>1, <1>4, ExpireCalm, CalmKeeps DEF SameUse, Expire, Promise!Lapse
  <1>5. ASSUME NEW r \in Requests, Submit(r) PROVE ZkpInv' /\ UNCHANGED Promise!useVars
    <2>1. UNCHANGED <<issued, lapsed>>
      BY <1>5 DEF Submit
    <2>. QED BY <1>1, <1>5, <2>1, SubmitCalm, CalmKeeps DEF SameUse, Promise!useVars
  <1>6. ASSUME NEW r \in Requests,
               \/ StructuralCheck(r) \/ LookupUnknown(r) \/ LookupExpired(r)
               \/ CheckDuplicate(r) \/ InsertVerification(r) \/ persistVerification(r)
        PROVE  ZkpInv' /\ UNCHANGED Promise!useVars
    <2>1. UNCHANGED <<issued, lapsed>>
      BY <1>6 DEF StructuralCheck, LookupUnknown, LookupExpired, CheckDuplicate,
                  InsertVerification, persistVerification
    <2>. QED BY <1>1, <1>6, <2>1, HandlerCalm, CalmKeeps DEF SameUse, Promise!useVars
  <1>7. ASSUME NEW r \in Requests, LookupFound(r)
        PROVE  ZkpInv' /\ \E c \in Challenges : Promise!Claim(c, r)
    BY <1>1, <1>7, ClaimKeeps, ClaimFinds DEF ZkpInv, TypeOK
  <1>8. ASSUME NEW r \in Requests, Consume(r)
        PROVE  ZkpInv' /\ \E c \in Challenges : Promise!Use(c, r)
    <2>1. req[r].challenge \in Challenges
      BY <1>8 DEF ZkpInv, TypeOK, VerdictsReached, Consume
    <2>. QED BY <1>1, <1>8, <2>1, ConsumeKeeps
  <1>9. ASSUME NEW p \in Pods, PodRestart(p)
        PROVE  ZkpInv' /\ [Promise!UseNext]_(Promise!useVars)
    <2>1. ZkpInv'
      BY <1>1, <1>9, RestartCalm, CalmKeeps
    <2>2. CASE SameUse
      <3>1. UNCHANGED <<issued, lapsed>>
        BY <1>9 DEF PodRestart
      <3>2. UNCHANGED Promise!useVars
        BY <2>2, <3>1 DEF SameUse, Promise!useVars
      <3>. QED BY <2>1, <3>2
    <2>3. CASE \E c \in Challenges, r \in Requests : Promise!GiveUp(c, r)
      <3>1. Promise!UseNext
        BY <2>3 DEF Promise!UseNext
      <3>. QED BY <2>1, <3>1
    <2>. QED BY <1>9, <2>2, <2>3, RestartUse
  <1>. QED BY <1>2, <1>3, <1>4, <1>5, <1>6, <1>7, <1>8, <1>9 DEF Next, Step, Promise!UseNext

\* The invariant of all behaviours.
LEMMA ZkpInvariant == ASSUME GoodDeployments PROVE Spec => []ZkpInv
  <1>1. Init => ZkpInv
    BY InitKeeps
  <1>2. ZkpInv /\ [Next]_vars => ZkpInv'
    BY ZkpStep
  <1>. QED BY <1>1, <1>2, PTL DEF Spec

\* The types of the verifier, for every deployment that keeps the promise.
THEOREM VerifierTypeCorrect == ASSUME GoodDeployments PROVE Spec => []TypeOK
  BY ZkpInvariant, PTL DEF ZkpInv

\* A challenge that was used is in no store (verifier.go deletes it from both):
\* no later request of any pod finds it.
THEOREM ConsumedStaysGone == ASSUME GoodDeployments PROVE Spec => []ConsumedIsGone
  BY ZkpInvariant, PTL DEF ZkpInv

\* "each challenge is single-use": every behaviour of the verifier is one of
\* ChallengeUse, through restarts, failing calls and a Set that fails halfway.
THEOREM ChallengeSingleUse == ASSUME GoodDeployments PROVE Spec => ChallengesUsedOnce
  <1>1. Init => Promise!UseInit
    BY InitKeeps
  <1>2. ZkpInv /\ [Next]_vars => [Promise!UseNext]_(Promise!useVars)
    BY ZkpStep
  <1>. QED BY <1>1, <1>2, ZkpInvariant, PTL DEF Spec, ChallengesUsedOnce, Promise!UseSpec
=============================================================================
