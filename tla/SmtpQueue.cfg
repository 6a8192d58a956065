\* Four records on two levels, one malformed; two concurrent purges
SPECIFICATION Spec
CONSTANTS
  r1 = r1
  r2 = r2
  r3 = r3
  r4 = r4
  Records = {r1, r2, r3, r4}
  Levels = {warning, error}
  warning = warning
  error = error
  Level <- MCLevel
  Purgers = {p1, p2}
  Malformed = {r4}
INVARIANTS
  NoneForgotten
  NoneTwice
