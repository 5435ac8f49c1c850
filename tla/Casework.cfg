\* One case, one enforcement action, one audit row, three overlapping writers.
SPECIFICATION Spec
CONSTANTS
  Cases = {case1}
  Actions = {action1}
  AuditRows = {row1}
  Writers = {w1, w2, w3}
  Proposals = {prop1}
  Voters = {v1}
  Peers = {peer1}
  Policies = {pol1, pol2}
  Creations = {cr1, cr2}
  Agents = {agent1, agent2}
  Frameworks = {fw1}
  Countries = {DE, FR}
  NoCountry = NoCountry
  NoPolicy = NoPolicy
  MaxRounds = 2
  k1 = k1
  k2 = k2
  hitlCase = hitlCase
  Keys = {k1, k2}
  CaseIds <- MCCaseIds
  Requests = {r1, r2}
  Refs = {ref1}
  NoRef = NoRef
CHECK_DEADLOCK FALSE
INVARIANTS
  TypeOK
  RowsApartAgree
PROPERTIES
  LostOnlyToOverlap
  StatusesStand
  RecordsStand
