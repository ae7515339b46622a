SPECIFICATION Spec
CONSTANTS
  t1 = t1
  t2 = t2
  t3 = t3
  d1 = d1
  d2 = d2
  d3 = d3
  None = None
  Calls = {c1, c2, c3}
  Tenants = {t1, t2, t3}
  Databases = {d1, d2, d3}
  DbOf <- MCDbOf
  CsOf <- MCCsOf
  MaxFaults = 2
CHECK_DEADLOCK FALSE
INVARIANTS
  TypeOK
  OpenPoolsAreKnown
  AnswersAreRight
