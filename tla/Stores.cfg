\* Pairs of everything; v1 and v2 are records, documents, agents and cases,
\* w1 and w2 are requests of all kinds, x1 and x2 are what they name.
SPECIFICATION StoresSpec
CONSTANTS
  Records = {v1, v2}
  Workers = {w1, w2}
  Payloads = {p1, p2}
  Attestations = {"APPROVED", "REJECTED"}
  Faults = TRUE
  Docs = {v1, v2}
  Connectors = {x1, x2}
  Syncs = {w1, w2}
  Extractions = {w1, w2}
  NoConnector = NoConnector
  NoDoc = NoDoc
  MaxName = 1
  MaxLosses = 1
  GraphTenants = {x1, x2}
  GraphAgents = {v1, v2}
  GraphPolicies = {gp1}
  NoAgent = NoAgent
  NoTenant = NoTenant
  Graphs = {g1}
  Collects = {w1, w2}
  MaxFaults = 1
  MaxCrashes = 8
  Openings = {v1, v2}
  Causes = {x1, x2}
  Alerts = {alert1}
  NoOpening = NoOpening
  NoCause = NoCause
  NoAlert = NoAlert
  Moves = {w1, w2}
  MaxMissed = 2
CHECK_DEADLOCK FALSE
INVARIANTS
  StoresTypeOK
  LinkedBackwards
  ChangedIsFlagged
  GraphTraced
  AlarmAfterWaits
  LifecycleTraced
PROPERTIES
  SealedForever
  SyncsTraced
  ExtractionsTraced
SYMMETRY Symmetry
