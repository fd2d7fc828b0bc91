CONSTANTS
  p1 = p1
  p2 = p2
  p3 = p3
  m1 = m1
  None = None
  Players = {p1, p2, p3}
  Monsters = {m1}
  Zones = {"normal", "protection", "nopvp", "pvp"}
  NoOne = None
  WorldType = "pvp"
  PzLockSkullAttacker = FALSE
  MaxHealth <- MCMaxHealth
  MaxDeaths = 2
  XmlSpells <- FileSpells
  Scripts <- LuaSpells
  Reserved = {"fire"}
  Utterances <- Said
  Modes = {"normal", "ignores", "cannot", "tireless"}
  Level = 1
  Vocation = "mage"
  MaxMana = 2
  MaxSoul = 1
  Charges = 2
  NoGroup = "none"
  Groups = {"attack", "focus"}
  Ids = {0, 1, 2}
  MaxCooldown = 2
  MaxReloads = 2
SYMMETRY Symmetry
SPECIFICATION FightSpec
\* a creature may die for good, and bounds of reloads and deaths are used up
CHECK_DEADLOCK FALSE
INVARIANTS  SpellsAgree 
