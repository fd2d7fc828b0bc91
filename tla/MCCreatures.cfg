CONSTANTS
  p1 = p1
  m1 = m1
  m2 = m2
  t1 = t1
  t2 = t2
  Tasks = {t1, t2}
  NoTask = NoTask
  Ids = {e1, e2, e3, e4, e5, e6, e7, e8}
  NoId = NoId
  MaxSteps = 2
  MaxCommands = 5
  None = None
  Width = 3
  Height = 2
  Floors = 2
  maxWalkCacheWidth = 1
  maxWalkCacheHeight = 1
  Steps <- OtherSteps
  MaxBlocked = 1
  Nowhere = Nowhere
  Targets = {t1, t2}
  NoTarget = NoTarget
  Interval = 2
  Attacks <- AttackSpeeds
  Defenses <- DefenseSpeeds
  SummonBlocks <- Helpers
  maxSummons = 1
  changeTargetSpeed = 3
  ChallengeTime = 5
  RemoveOnDespawn = FALSE
SPECIFICATION Spec
\* all commands have been given and the walk is over; a search has ended
CHECK_DEADLOCK FALSE
INVARIANTS CreaturesAgree ConditionsAgree WalkAgrees PathsAgree MindAgrees CacheAgrees
 
