SPECIFICATION PartSpec
CONSTANTS
  Shape = {1, 2, 3, 4}
  Width = 10
  Position = {0, 1, 14}
  Velocity = {2}
  MaxOps = 5
  Careful = TRUE
  Segment <- Segs
  Point <- Pts
  Sensor = {2}
  Filter = {{1, 2, 3, 4}, {2, 3}}
  CellDim = 8
  Cells = 3
  Margin = 2
  ZigCell = 8
INVARIANTS
  ReportsOnce
  HashExact
  QueriesFind
  SweepReportsOnce
CHECK_DEADLOCK FALSE
