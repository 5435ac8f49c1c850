\* Two pods, one report, two tenants, overlapping proofs of one agent.
SPECIFICATION Spec
CONSTANTS
  Reports = {rep1}
  Pods = {pod1, pod2}
  Hours = {1}
  Default = 2
  MaxHour = 2
  MaxExcuses = 2
  Scans = {s1}
  Tenants = {t1, t2}
  Pids = {0, 1}
  Unreadable = Unreadable
  Integrations = {i1}
  Stores = {d1, d2}
  Decisions = {dec1}
  Hashes = {h1, h2}
  NoHash = NoHash
  Records = {rec1, rec2}
  Jobs = {j1, j2}
  Periods = {q1, q2}
  Workers = {w1, w2}
  Proofs = {pf1, pf2, pf3}
  Builds = {b1, b2}
  NoProof = NoProof
  Cap = 2
  MaxSecond = 1
  MaxMishaps = 2
CHECK_DEADLOCK FALSE
INVARIANTS
  TypeOK
  DlpTraced
  EvidenceKept
  StuckOnlyWhenAbandoned
PROPERTIES
  ReportsAreEarned
  ChainsTraced
SYMMETRY Symmetry
