CONSTANTS
  ann = ann
  bob = bob
  cid = cid
  hut = hut
  inn = inn
  i1 = i1
  i2 = i2
  Street = Street
  None = None
  Guids = {ann, bob, cid}
  Houses = {hut, inn}
  BedHouses = {inn}
  Editors = {cid}
  Texts = {{}, {ann, bob, cid}}
  Things = {i1, i2}
  ItemIds <- MCItemIds
  DecayTime <- MCDecayTime
  DecayTo <- MCDecayTo
  StopTime <- MCStopTime
  EquipTo <- MCEquipTo
  NoType = None
  Buckets = 4
  Durations = {1, 6}
  NoGuid = None
  NoBed = None
  NoWindow = None
SPECIFICATION SuiteSpec
INVARIANTS HousesArePrivate SleepersAgree DecayAgrees InventoryAgrees GrowthAgrees
