CONSTANTS
  e1 = e1
  e2 = e2
  e3 = e3
  q1 = q1
  q2 = q2
  q3 = q3
  dispatcher = dispatcher
  io = io
  main = main
  db = db
  i1 = i1
  i2 = i2
  i3 = i3
  c1 = c1
  p1 = p1
  b1 = b1
  b2 = b2
  n1 = n1
  n2 = n2
  None = None
  Queries = {q1, q2, q3}
  WithCallback = {q1}
  Dispatcher = dispatcher
  Main = main
  DbThread = db
  NoQuery = None
  Tasks = {e1, e2, e3}
  Callers = {dispatcher, io}
  DispatcherThread = dispatcher
  NoTask = None
  IdSpace = 3
  Players = {"p1"}
  Accounts = {"a1"}
  PlayerTables <- SavedTables
  MaxVersion = 2
  MaxFaults = 2
  MaxPackets = 2
  MaxMessages = 2
  Items = {i1, i2, i3}
  Creatures = {c1}
  Lasting = {i1}
  Envs = 2
  MaxDepth = 2
  MaxTimers = 2
  MaxResults = 1
  Customers = {b1, b2}
  Npcs = {n1, n2}
  NoNpc = None
  Home <- Homes
  WalkRadius <- Radii
  StreetEnd = 2
  View = 0
  Hearing = 1
  MaxRefs = 2
  MaxNpcReloads = 1
SYMMETRY Symmetry
SPECIFICATION SuiteSpec
\* as in MCServer.cfg
CHECK_DEADLOCK FALSE
INVARIANT OnTimeAtItsTime
