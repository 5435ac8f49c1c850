\* Two handlers at a time, failures anywhere.  Once every message is
\* acknowledged and the tenant is gone, nothing is left to do.
SPECIFICATION FairSpec
CHECK_DEADLOCK FALSE
CONSTANTS
  t1 = t1
  a1 = a1
  m1 = m1
  m2 = m2
  m3 = m3
  Tenants = {t1}
  Agents = {a1}
  TenantOf <- MCTenantOf
  Messages = {m1, m2, m3}
  Event <- MCEvent
  Workers = {w1, w2}
  Faults = TRUE
INVARIANTS
  TypeOK
  HandledWasSeeded
PROPERTIES
  TombstoneStands
  EventuallySeeded
