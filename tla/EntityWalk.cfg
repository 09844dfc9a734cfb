SPECIFICATION WalkSpec
CONSTANTS
  handle = handle
  a = a
  b = b
  c = c
  order = order
  line = line
  Methods <- MCMethods
  HandlerMethods <- MCHandler
  Entities <- MCEntities
  Programs <- MCPrograms
  MaxCalleeDepth = 2
INVARIANTS
  WalkTypeOK
  ReportIsReal
  CutAtDepth
  CompleteUnlessCut
PROPERTY WalkEnds
CHECK_DEADLOCK FALSE
