SPECIFICATION PartSpec
CONSTANTS
  Part = {"buffers", "set", "handlers", "mass", "joints", "zig", "march", "hull", "each"}
  a1 = a1
  a2 = a2
  Arbiter <- TwoArbiters
  Size = 3
  MaxContacts = 2
  StampRange = 10
  Persistences = {1, 2}
  Started = 1
  MaxBuffers = 3
  Key = {1, 2, 6, 7, 11, 13}
  Prime <- TwoPrimes
  BinsPerBuffer = 2
  Type = {1, 2}
  Persistence = 2
  HandlersKept = TRUE
  MaxPiece = 3
  Movable = {1}
  MaxMass = 1
  Unit = 6
  MaxLength = 6
  JointKind = {"pin", "slide", "pivot", "groove", "rotaryLimit", "ratchet", "gear",
               "motor", "dampedSpring", "dampedRotarySpring"}
  MaxForce = {1, 2}
  MaxBias = 1
  Iterations = 2
  Dt = {1, 2}
  Far = 2
  Limits <- SomeLimits
  Goal = {1}
  ZBody = {1, 2, 3}
  Owner <- OwnBodies
  Link <- FirstTwo
  ZPersistence = 2
  ZThreshold = 1
  ZMaxOps = 2
  ZCareful = TRUE
  XSamples = 3
  YSamples = 3
  Level = {0, 1, 2}
  Spot <- Spots
  MaxVerts = 5
  Sleeper = {1, 2, 3}
  Ground = {7}
SYMMETRY AlikeArbiters
INVARIANTS
  ContactsSafe
  SetFaithful
  HandlersTold
  MassOfShapes
  ImpulseIsWhatWasPushed
  ZigListsAgree
  ZigSleepTogether
  ZigSeparateOwed
  OutlinesWhole
  HullRight
  EachCalledOnce
PROPERTIES
  PlaceKept
CHECK_DEADLOCK FALSE
