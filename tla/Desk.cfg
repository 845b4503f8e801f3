SPECIFICATION Spec
CONSTANTS
  p1 = p1
  p2 = p2
  None = None
  Procs <- MCProcs
  Comments <- MCComments
  Attempts = 3
  MaxLost = 3
  Products = 3
  Bought = 2
  PageSize = 1
  MaxPages = 2
  MaxMoves = 2
  MaxDeals = 2
  Chunk = 6
SYMMETRY MCSymmetry
INVARIANTS TypeOK SyncHoldsAccount ThreeAttempts SavesAreWhole DossierSealsArchive PushesStayWhole
CHECK_DEADLOCK FALSE
