\* A stale file found by two processes
SPECIFICATION Spec
CONSTANTS
  Procs = {p1, p2, p3}
  NoFile = NoFile
INVARIANT
  OneOwner
