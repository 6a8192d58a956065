\* One section, nested acquisitions
SPECIFICATION FairSpec
CONSTANTS
  Threads = {a, b, c}
  NoThread = NoThread
  Names = {n}
  Kinds = {"delete"}
  Locks = {l1, l2}
  NoLock = NoLock
  MaxDepth = 2
PROPERTY
  GlobalServed
