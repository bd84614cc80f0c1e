SPECIFICATION Spec
CONSTANTS
  N = 4
  Areas <- OneArea
  Programs <- HanoiPrograms
  Floor <- AreaFloor
  Capacity <- Roomy
  Cells = 8
  MaxGap <- NoGap
  MaxDepth = 5
INVARIANTS
  Intact
CHECK_DEADLOCK FALSE
