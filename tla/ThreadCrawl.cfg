SPECIFICATION Spec
CONSTANTS
  c1 = c1
  c2 = c2
  c3 = c3
  c4 = c4
  c5 = c5
  Comments <- MCComments
  Queries <- MCQueries
  DefaultPageSize = 3
  MaxRequests = 4
  ServerWindow = 2
  MaxChurn = 2
  Unknown = Unknown
INVARIANTS
  TypeOK
  CertifiedMeansServed
  PostsHideNothing
  LimitTakesTheOldest
  NoWastedRequest
  UncertifiedIsAnnounced
PROPERTIES
  KeepsPromise
  Terminates
CHECK_DEADLOCK FALSE
