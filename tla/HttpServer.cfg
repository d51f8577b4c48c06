CONSTANTS
  N = 2
  W = 3
  MaxNow = 6
  Clients = {first, second}
  Arrivals <- MCArrivals
  MaxBody = 2
  MaxRequests = 2
SYMMETRY MCSymmetry
SPECIFICATION HttpSpec
CHECK_DEADLOCK FALSE
INVARIANTS
  GrantsAreSpaced
  RefusedOnlyWhenFull
  ActsOnWhatWasDecided
  BodiesAreBounded
  PreviewsAreAuthorized
