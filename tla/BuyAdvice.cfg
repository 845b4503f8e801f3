SPECIFICATION Spec
CONSTANTS
  Lexicon <- MCLexicon
  Tools <- MCTools
  Competitors <- MCCompetitors
  Saturated <- MCSaturated
  Capabilities <- MCCapabilities
  CoveredSubs <- MCCoveredSubs
  NonSoftware <- MCNonSoftware
  Strategic <- MCStrategic
  Listings <- MCListings
  Notes <- MCNotes
  Placeholders <- MCPlaceholders
  ZoneWindow = 1
  Hits = 1
  MaxMoves = 1
INVARIANTS TypeOK DirectivesAreHeeded  MissMeansAbsent
CHECK_DEADLOCK FALSE
