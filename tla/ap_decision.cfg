SPECIFICATION Spec
CONSTANTS
  j1 = j1
  j2 = j2
  i1 = i1
  i2 = i2
  None = None
  Jobs = {j1, j2}
  Items = {i1, i2}
  DocumentsOf <- MCDocumentsOf
  WorldsOf <- MCWorldsOf
  DefaultOrder <- MCDefaultOrder
  ExplicitPlans <- MCExplicitPlans
  Proposals <- MCProposals
  Approved = 0
  Partial = 0
  Tolerance = 0
  EzofisLive = TRUE
  MaxFaults = 1
CHECK_DEADLOCK FALSE
INVARIANTS
  TypeOK
  ApprovalIsBacked
  DuplicateIsCaught
PROPERTIES
  DecisionIsGraded
