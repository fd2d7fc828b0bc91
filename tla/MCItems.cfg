CONSTANTS
  b1 = b1
  b2 = b2
  b3 = b3
  s1 = s1
  s2 = s2
  s3 = s3
  a1 = a1
  a2 = a2
  a3 = a3
  pack = pack
  bag = bag
  gem = gem
  Tile = Tile
  None = None
  Players = {a1, a2, a3}
  Items = {pack, bag, gem}
  Containers = {pack, bag}
  Capacity = 2
  MaxObjects = 2
  Ground = Ground
  Nowhere = Nowhere
  NoItem = NoItem
  NoPlayer = NoPlayer
  InitialParent <- MCInitialParent
SYMMETRY Symmetry
SPECIFICATION SuiteSpec
\* after a crash in a trade the process has ended
CHECK_DEADLOCK FALSE
INVARIANTS TradeAgrees ItemsAgree
PROPERTIES OffersStand ExchangeIsAtomic
