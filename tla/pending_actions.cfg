SPECIFICATION FairSpec
CONSTANTS
  a1 = a1
  c1 = c1
  c2 = c2
  c3 = c3
  s1 = s1
  s2 = s2
  None = None
  Actions = {a1}
  Confirms = {c1, c2, c3}
  Sessions = {s1, s2}
  MaxRequests = 2
  FaultKinds <- AllFaults
  MaxFaults = 1
CHECK_DEADLOCK FALSE
INVARIANTS
  TypeOK
  ConfirmedIsConsumed
  RunIsOwners
  NoSilentLoss
PROPERTIES
  EveryConfirmAnswered
