\* The consumer with a jury that may not be reached.
SPECIFICATION AnswersSpec
CONSTANTS
  p1 = p1
  p2 = p2
  c1 = c1
  Pods = {p1, p2}
  Challenges = {c1}
  Requests = {r1, r2}
  NoChallenge = NoChallenge
  BadProof = BadProof
  Unsupported = {}
  Deployments <- MCDeployments
  Faults = FALSE
  Messages = {m1, m2}
  Threshold = 2
  Attempts = 3
  MaxRestarts = 0
  Outstanding = 2
CHECK_DEADLOCK FALSE
INVARIANTS
  AckedWasForwarded
