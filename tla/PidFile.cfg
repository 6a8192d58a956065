\* Three processes claim, release, fail, die and come back
SPECIFICATION Spec
CONSTANTS
  Procs = {p1, p2, p3}
  NoFile = NoFile
INVARIANT
  OwnerKeepsFile
PROPERTY
  NoTemporaryLeft
