\* Queue(1); every thread starts, no life_time
SPECIFICATION FairSpec
CONSTANTS
  t1 = t1
  t2 = t2
  t3 = t3
  Tasks = {t1, t2}
  Workers = {w1, w2}
  Kills = {k1}
  Stoppers = {s1}
  External = External
  Parent <- FlatParent
  Prio <- NoPrio
  NoItem = NoItem
  IsQPriority = FALSE
  QueueMax = 1
  InitialMax = 2
  MaxChoices = {1, 2}
  MaxTasks = 1
  LifeTime = FALSE
  StartMayFail = FALSE
INVARIANTS
  Attended
PROPERTIES
  KeepsContract
  AcceptedSettles
  SubmitReturns
  KillAllReturns
  Shrinks
