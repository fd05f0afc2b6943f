SPECIFICATION FairSpec
CONSTANTS
  k1 = k1
  k2 = k2
  k3 = k3
  b1 = b1
  Key <- MCKey
  NoKey = NoKey
  Body <- MCBody
  MaxDepth = 2
  MaxQueue = 5
INVARIANTS
  QueueConsistent
  CallbacksUnlocked
  NoBodyInLimbo
  KeyOnce
PROPERTIES
  RunsOnce
  ScheduledRuns
