\* Jury votes alone, with panels of three and of five reviewers and late ballots.
SPECIFICATION Spec
CONSTANTS
  d1 = d1
  d2 = d2
  d3 = d3
  NoDept = NoDept
  Cases = {c1}
  Workers = {w1, w2}
  Voters = {r1, r2, r3, r4, r5}
  MinQuorumFloor = 3
  DeptNames = {d1}
  Departments = {d1}
  HitlDepts = {d1}
  OverflowDept <- MCNoOverflow
  MaxCases = 0
  MaxMoves = 1
  QuorumSettings = {0, 4}
  Endpoints = {"create", "vote"}
  Faults = TRUE
SYMMETRY Interchangeable
INVARIANTS
  JuryStatusIsOutcome
PROPERTIES
  JuryNeverFlips
