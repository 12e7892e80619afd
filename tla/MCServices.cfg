\* Three callers of the breaker, one of which sends requests that cannot be
\* built; three of the limiters; three users of the cache; three entries of the
\* logger, with a buffer and a batch of two.
SPECIFICATION ServicesSpec
CONSTANTS
  r1 = r1
  r2 = r2
  r3 = r3
  c1 = c1
  c2 = c2
  c3 = c3
  e1 = e1
  e2 = e2
  e3 = e3
  Requests = {r1, r2, r3}
  Malformed = {r3}
  FailureThreshold = 2
  SuccessThreshold = 2
  Minute = 1
  Day = 2
  Limit <- MCLimit
  Tokens = {1, 2}
  MaxClock = 2
  Callers = {c1, c2, c3}
  Clients = {c1, c2}
  Handlers = {c1, c2, c3}
  Workers = {1, 2}
  Closers = {c1, c2}
  QueueDepth = 1
  Entries = {e1, e2, e3}
  BufferSize = 2
  Threshold = 2
INVARIANTS
  TypeOK
  HerdBound
  ProbeTokenHeld
  NoOverdraw
  ReplicasNeverOverdraw
  NeverSendsOnClosed
  FlushedBeforeClosed
  LoggerTypeOK
  NothingLeftBehind
  BatchBounded
PROPERTIES
  WholeBudget
  OpenNeverClosesDirectly
  BreakerRecovers
  RefusedForCause
  CacheCloseReturns
  ImplementsSink
  CloseReturns
  TakenIsHanded
\* The cache or the logger is closed and every handler done: these components
\* really stop.
CHECK_DEADLOCK FALSE
