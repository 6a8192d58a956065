\* Two sections; owners may cross and stop there, hence no deadlock check
SPECIFICATION Spec
SYMMETRY Symmetry
CONSTANTS
  Threads = {a, b, c}
  NoThread = NoThread
  Names = {m, n}
  Kinds = {"create", "use", "remove", "delete"}
  Locks = {l1, l2, l3}
  NoLock = NoLock
  MaxDepth = 1
INVARIANTS
  Exclusion
  NoResidue
  NoLostWakeup
  OnlyCrossingsBlock
CHECK_DEADLOCK FALSE
