\* All eight steps on a field of three by three tiles.
CONSTANTS
  Width = 3
  Height = 3
  Floors = 2
  maxWalkCacheWidth = 1
  maxWalkCacheHeight = 1
  Steps <- AllSteps
  MaxBlocked = 1
  Nowhere = Nowhere
SPECIFICATION CacheSpec
INVARIANT CacheIsTrue
