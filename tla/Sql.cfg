\* A domain that failed refuses everything, hence no deadlock check
SPECIFICATION SqlSpec
CONSTANTS
  Statements = {s1, s2}
  Cursors = {c1, c2}
  MaxConnections = 3
  Threads = {t1, t2}
  NoThread = NoThread
  Writes = {w1, w2, w3}
  MaxDepth = 2
INVARIANTS
  CommitsAsReported
  OutcomeIsTrue
PROPERTY
  CommitsItsOwn
CHECK_DEADLOCK FALSE
