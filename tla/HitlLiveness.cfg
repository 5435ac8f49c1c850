\* Progress of the handlers that lock a row, and of their rivals, when no call
\* fails.
SPECIFICATION FairSpec
CONSTANTS
  d1 = d1
  d2 = d2
  d3 = d3
  NoDept = NoDept
  Cases = {c1}
  Workers = {w1, w2}
  Voters = {r1}
  MinQuorumFloor = 1
  DeptNames = {d1}
  Departments = {d1}
  HitlDepts = {d1}
  OverflowDept <- MCNoOverflow
  MaxCases = 1
  MaxMoves = 1
  QuorumSettings = {0}
  Endpoints = {"create", "arbitrate", "vote", "bulk"}
  Faults = FALSE
PROPERTIES
  RequestsAnswered
