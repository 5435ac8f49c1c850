\* Two submissions of one report, with different references.
SPECIFICATION RecordsSpec
CONSTANTS
  k1 = k1
  k2 = k2
  hitlCase = hitlCase
  Keys = {k1}
  CaseIds <- MCCaseIds
  Requests = {r1, r2}
  Refs = {ref1, ref2}
  NoRef = NoRef
CHECK_DEADLOCK FALSE
PROPERTIES
  FiledIsImmutable
