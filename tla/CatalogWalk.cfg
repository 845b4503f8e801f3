SPECIFICATION Spec
CONSTANTS
  d1 = d1
  d2 = d2
  d3 = d3
  d4 = d4
  Deals <- MCDeals
  Rank <- MCRank
  Queries <- MCQueries
  DefaultPerPage = 3
  MaxRequests = 4
  MaxChurn = 2
  Unknown = Unknown
INVARIANTS
  TypeOK
  CertifiedMeansServed
  QuietWalkIsComplete
  NoWastedRequest
  UncertifiedIsAnnounced
  FilteredLimitTakesTheBest
PROPERTIES
  KeepsPromise
  Terminates
CHECK_DEADLOCK FALSE
