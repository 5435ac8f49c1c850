\* Arbitration among everything that moves a case between departments.
SPECIFICATION Spec
CONSTANTS
  d1 = d1
  d2 = d2
  d3 = d3
  NoDept = NoDept
  Cases = {c1, c2}
  Workers = {w1, w2}
  Voters = {r1}
  MinQuorumFloor = 1
  DeptNames = {d1, d3}
  Departments = {d1, d3}
  HitlDepts = {d1}
  OverflowDept <- MCOverflow
  MaxCases = 0
  MaxMoves = 1
  QuorumSettings = {0}
  Endpoints = {"create", "arbitrate", "reassign", "overflow", "guard"}
  Faults = TRUE
SYMMETRY CaseSymmetry
INVARIANTS
  TypeOK
  AuditMatchesRow
PROPERTIES
  DecidedIsFinal
