SPECIFICATION Spec
CONSTANTS
  Lexicon <- MCLexicon
  Tools <- MCTools
  Competitors <- MCCompetitors
  Saturated <- MCSaturated
  Capabilities <- MCCapabilities
  CoveredSubs <- MCCoveredSubs
  NonSoftware <- MCNonSoftware
  Strategic <- MCStrategic
  Listings <- MCListings
  Notes <- MCAssetNotes
  Placeholders <- MCPlaceholders
  ZoneWindow = 1
  Hits = 1
  MaxMoves = 1
INVARIANT DeclaredAssetsCount
CHECK_DEADLOCK FALSE
