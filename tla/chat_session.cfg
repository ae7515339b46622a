SPECIFICATION FairSpec
CONSTANTS
  q1 = q1
  q2 = q2
  s1 = s1
  None = None
  Requests = {q1, q2}
  Sessions = {s1}
  MaxRequests = 1
  Window = 4
  Second = 2
  FaultKinds <- AllFaults
  MaxFaults = 1
  StartClock = 2
  MaxClock = 7
CHECK_DEADLOCK FALSE
INVARIANTS
  TypeOK
  StoredTurnsStay
  HalfTurnIsTold
  QuotaPerWindow
  RefusedOverQuota
PROPERTIES
  RetryHintReachesNextWindow
  EveryRequestAnswered
  KeysGoAway
