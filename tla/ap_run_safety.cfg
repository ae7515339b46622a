SPECIFICATION FairSpec
CONSTANTS
  r1 = r1
  r2 = r2
  r3 = r3
  i1 = i1
  finalize = finalize
  move_next = move_next
  progress = progress
  None = None
  Requests = {r1, r2}
  Items = {i1}
  Finalize = finalize
  MoveNext = move_next
  Progress = progress
  Live = TRUE
  DefaultPlans <- MCDefaultPlans
  ExplicitPlans <- MCExplicitPlans
  Window = 1
  FaultKinds <- AllFaults
  MaxFaults = 1
  MaxClock = 2
CHECK_DEADLOCK FALSE
PROPERTIES
  FinalRowIsFinal
  RunsAreLeases
  EveryJobAnswered
INVARIANTS
  TypeOK
  SkillExclusion
  CompletedRunIsWhole
  BillingNeverUnderReported
  LedgerIsHonest
  LedgerGapsAreFaults
  AnswerMatchesRow
  DuplicateGetsCompletedRun
  DefaultRunPostsOwnDecision
  NoFakeCompleted
