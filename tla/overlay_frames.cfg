SPECIFICATION LayoutAndRunSpec
CONSTANTS
  N = 4
  Areas <- TwoAreas
  Programs <- LaidOutPrograms
  Floor <- AreaFloor
  Capacity <- Roomy
  Cells = 9
  MaxGap <- Gap
  MaxDepth = 5
INVARIANTS
  TypeOK
  CallersFirst
  Intact
  OrderComplete
  ContextsApart
PROPERTIES
  LayoutEnds
CHECK_DEADLOCK FALSE
