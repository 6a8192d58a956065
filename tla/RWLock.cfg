\* Three threads, each nesting two acquisitions
SPECIFICATION FairSpec
CONSTANTS
  Threads = {a, b, c}
  NoThread = NoThread
  MaxDepth = 2
INVARIANTS
  NoLostWakeup
  PendingAreWaiting
PROPERTIES
  KeepsContract
  WriterServed
