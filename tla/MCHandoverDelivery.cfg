\* Two handovers that both close one session or do without it, a query; two uploaders, one foreign row.
CONSTANTS
  h1 = h1  h2 = h2  q1 = q1  memo = memo  direct = direct  repair = repair
  again = again  s1 = s1  u1 = u1  u2 = u2
  HandoverIds = {h1, h2}
  QueryIds = {q1}
  Plain = {memo}
  Direct = {direct}
  InSession = {repair, again}
  SessionOf <- MCSessionOf
  Held = {direct, repair, again}
  QueryLog = QueryLog
  Sessions = {s1}
  Uploaders = {u1, u2}
  Requests <- MixedRequests
  None = None
  Foreign = Foreign
  MaxSends = 5
  MaxForeign = 1
SPECIFICATION Spec
SYMMETRY Symmetry
CHECK_DEADLOCK FALSE
INVARIANTS TypeOK StatusTellsTheCloud AppliedAtMostOnce SessionClosedByItsHandover
PROPERTIES KeepsPromise
