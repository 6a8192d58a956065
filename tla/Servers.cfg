SPECIFICATION ServersSpec
CONSTANTS
  Requests = {q, r, s}
  FixedRequests = {p, q, r, s}
  NoRequest = NoRequest
  Workers = {v, w}
  MaxRequests = 2
  LifeTime = TRUE
  MayLose = TRUE
  Killers = {k, l}
INVARIANT
  Acknowledged
PROPERTIES
  KeepsContract
  EveryRequestEnds
  FixedKeepsContract
  FixedServerEnds
\* A server that was killed stops, hence no deadlock check
CHECK_DEADLOCK FALSE
