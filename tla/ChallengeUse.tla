---------------------------- MODULE ChallengeUse ----------------------------
(***************************************************************************)
(* What the zero-knowledge verifier promises of its challenges: one that   *)
(* was issued is used at most once, by one request, which has claimed it   *)
(* alone and before it lapsed.                                             *)
(***************************************************************************)
CONSTANTS Challenges, Requests

VARIABLES issued,   \* challenges handed out
          lapsed,   \* those whose time is over
          claims,   \* the requests that are using a challenge
          usedBy    \* the requests a challenge was used by

useVars == <<issued, lapsed, claims, usedBy>>

UseInit == /\ issued = {} /\ lapsed = {}
           /\ claims = [c \in Challenges |-> {}]
           /\ usedBy = [c \in Challenges |-> {}]

Issue(c) == /\ c \notin issued
            /\ issued' = issued \cup {c}
            /\ UNCHANGED <<lapsed, claims, usedBy>>

Lapse(c) == /\ c \in issued
            /\ lapsed' = lapsed \cup {c}
            /\ UNCHANGED <<issued, claims, usedBy>>

Claim(c, r) == /\ c \in issued \ lapsed
               /\ claims[c] = {} /\ usedBy[c] = {}
               /\ claims' = [claims EXCEPT ![c] = {r}]
               /\ UNCHANGED <<issued, lapsed, usedBy>>

Use(c, r) == /\ claims[c] = {r}
             /\ claims' = [claims EXCEPT ![c] = {}]
             /\ usedBy' = [usedBy EXCEPT ![c] = {r}]
             /\ UNCHANGED <<issued, lapsed>>

\* The pod of the request stops before it has used the challenge.
GiveUp(c, r) == /\ claims[c] = {r}
                /\ claims' = [claims EXCEPT ![c] = {}]
                /\ UNCHANGED <<issued, lapsed, usedBy>>

UseNext == \E c \in Challenges :
             \/ Issue(c) \/ Lapse(c)
             \/ \E r \in Requests : Claim(c, r) \/ Use(c, r) \/ GiveUp(c, r)

UseSpec == UseInit /\ [][UseNext]_useVars
=============================================================================
