CONSTANTS
  p1 = p1
  p2 = p2
  p3 = p3
  p4 = p4
  u1 = u1
  u2 = u2
  u3 = u3
  g1 = g1
  g2 = g2
  None = None
  Clients = {p1, p2, p3}
  NoClient = None
  MaxLives = 2
  Guids = {p1, p2, p3, p4}
  Privileged = {p4}
  NoGuid = None
  MaxPlayers = 2
  TickSeconds = 10
  MaxEntries = 4
  Players = {p1, p2, p3, p4}
  Parties = {g1, g2}
  Levels = {8, 13}
  Zones = {"a", "b"}
  NoPlayer = None
  NoParty = None
  Speakers = {u1, u2, u3}
  Normal = {"help"}
  Companies = {"a"}
  Guilds = {g1}
  PrivateIds = {100}
  Premium = {u1}
  CannotBeMuted = {u1, u2}
  Membership <- GuildOf
  Ranked = {g1}
  MAX_MESSAGEBUFFER = 4
  MuteUnit = 5
  MaxMutes = 3
SYMMETRY Symmetry
SPECIFICATION SuiteSpec
\* a session may end with every client gone
CHECK_DEADLOCK FALSE
INVARIANTS SessionAgrees PartiesAgree 
PROPERTIES  PartyOutlivesLeader
