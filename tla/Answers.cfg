\* Two requests on one challenge, pods that restart, any call may fail; two
\* messages, a breaker of two failures, a pod that restarts once.
SPECIFICATION AnswersSpec
CONSTANTS
  p1 = p1
  p2 = p2
  c1 = c1
  Pods = {p1, p2}
  Challenges = {c1}
  Requests = {r1, r2}
  NoChallenge = NoChallenge
  BadProof = BadProof
  Unsupported = {}
  Deployments <- MCDeployments
  Faults = TRUE
  Messages = {m1, m2}
  Threshold = 2
  Attempts = 3
  MaxRestarts = 1
  Outstanding = 2
CHECK_DEADLOCK FALSE
INVARIANTS
  TypeOK
  ConsumedIsGone
  JuryIsTried
PROPERTIES
  ChallengesUsedOnce
  RequestsAnswered
  EveryMessageSettles
