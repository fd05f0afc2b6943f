SPECIFICATION Spec
CONSTANTS
  ground = ground
  d1 = d1
  d2 = d2
  s0 = s0
  s1 = s1
  t1 = t1
  s2 = s2
  j1 = j1
  NoBody = NoBody
  Body <- MCBody
  Shape = {s0, s1, s2}
  Pair <- StackPair
  Joint = {}
  Ends <- NoEnds
  JointA <- NoEnds
  Sensor = {}
  BodyOf <- MCBodyOf
  InitType <- MCInitType
  CollisionPersistence = 2
  SleepTimeThreshold = 1
  Ops = {}
  WakeFrom = {"narrow"}
  Careless = {}
INVARIANTS
  NoDanglingThreads
