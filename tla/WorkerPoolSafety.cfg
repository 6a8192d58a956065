\* PriorityQueue(2), nested submission; Thread.start() may fail, workers may expire
SPECIFICATION Spec
SYMMETRY Symmetry
CONSTANTS
  t1 = t1
  t2 = t2
  t3 = t3
  Tasks = {t1, t2, t3}
  Workers = {w1, w2}
  Kills = {k1, k2}
  Stoppers = {s1}
  External = External
  Parent <- NestedParent
  Prio <- TwoPrio
  NoItem = NoItem
  IsQPriority = TRUE
  QueueMax = 2
  InitialMax = 2
  MaxChoices = {1, 2}
  MaxTasks = 1
  LifeTime = TRUE
  StartMayFail = TRUE
INVARIANTS
  Accounting
  KillableIsIdle
  StoppedIsQuiet
  ShrinkCovered
PROPERTIES
  StopIsFinal
  SubmissionOrder
