SPECIFICATION Spec
CONSTANTS
  q1 = q1
  q2 = q2
  s1 = s1
  None = None
  Requests = {q1, q2}
  Sessions = {s1}
  MaxRequests = 2
  Window = 4
  Second = 2
  FaultKinds = {}
  MaxFaults = 0
  StartClock = 2
  MaxClock = 7
CHECK_DEADLOCK FALSE
INVARIANT NeverSilentlyDropped
