SPECIFICATION PortSpec
CONSTANTS
  MaxThreads = 4
  ULong = 8
  MaxWorkers = 3
  MaxItems = 5
INVARIANTS
  WorkersQuiet
  EachRunsOnce
  NoThreadLeft
  ZigJobsOnce
PROPERTIES
  CallsReturn
  ZigCallsReturn
