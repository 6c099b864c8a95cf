CONSTANTS
  NumSlots = 2
  Widths <- MCWidths
  MaxEdits = 1
  MaxGeneration = 2
  MaxSurfaces = 2
SPECIFICATION FairSpec
CHECK_DEADLOCK FALSE
INVARIANTS TypeOK DrawnAsBuilt RasterWithinSurface NoChangeForgotten
PROPERTIES UiReachesScreen
