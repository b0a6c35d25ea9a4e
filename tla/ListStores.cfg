SPECIFICATION PagedSpec
CONSTANTS
  NoQuery = 0
  FirstQuery = 1
  Query = {1, 2, 3}
  PageSize = 2
  MaxLoads = 4
  MaxWrites = 2
INVARIANTS
  PagedTypeOK
  OwnWritesShown
  ShowsWhatPageAsks
  WalkShowsAll
PROPERTIES
  PageSpec
  LoadingEnds
CHECK_DEADLOCK FALSE
