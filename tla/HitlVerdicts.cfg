\* Everything that decides a case, two concurrent requests on one case, any call
\* may fail.
SPECIFICATION Spec
CONSTANTS
  d1 = d1
  d2 = d2
  d3 = d3
  NoDept = NoDept
  Cases = {c1}
  Workers = {w1, w2}
  Voters = {r1}
  MinQuorumFloor = 1
  DeptNames = {d1}
  Departments = {d1}
  HitlDepts = {d1}
  OverflowDept <- MCNoOverflow
  MaxCases = 1
  MaxMoves = 1
  QuorumSettings = {0}
  Endpoints = {"create", "arbitrate", "vote", "bulk", "merge", "assign"}
  Faults = TRUE
SYMMETRY Interchangeable
INVARIANTS
  CountedBallotsWereCast
  LockDiscipline
PROPERTIES
  ArbitrationRespectsDecision
  BallotIsFinal
