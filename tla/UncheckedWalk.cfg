SPECIFICATION Spec
CONSTANTS
  a = a
  b = b
  v1 = v1
  v2 = v2
  s1 = s1
  s2 = s2
  f1 = f1
  Slugs <- MCSlugs
  Versions <- MCVersions
  Syncers <- MCSyncers
  Differs <- MCDiffers
  Keep = 2
  MaxSyncs = 3
  MaxMoves = 1
  NoOne = NoOne
INVARIANT GoneMeansDelisted
CHECK_DEADLOCK FALSE
SYMMETRY Interchangeable
