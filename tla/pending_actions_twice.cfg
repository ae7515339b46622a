SPECIFICATION FairSpec
CONSTANTS
  a1 = a1
  c1 = c1
  c2 = c2
  c3 = c3
  s1 = s1
  s2 = s2
  None = None
  Actions = {a1}
  Confirms = {c1, c2, c3}
  Sessions = {s1, s2}
  MaxRequests = 2
  FaultKinds <- NoFaults
  MaxFaults = 0
CHECK_DEADLOCK FALSE
INVARIANT ConfirmedOnce
