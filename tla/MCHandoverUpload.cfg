\* A note and a query against an uploader whose every statement may fail, and a foreign row.
CONSTANTS
  h1 = h1  h2 = h2  q1 = q1  memo = memo  direct = direct  repair = repair
  again = again  s1 = s1  u1 = u1  u2 = u2
  HandoverIds = {h1}
  QueryIds = {q1}
  Plain = {memo}
  Direct = {}
  InSession = {}
  SessionOf <- MCSessionOf
  Held = {}
  QueryLog = QueryLog
  Sessions = {}
  Uploaders = {u1, u2}
  Requests <- NoteRequests
  None = None
  Foreign = Foreign
  MaxSends = 2
  MaxForeign = 1
SPECIFICATION FairSpec

CHECK_DEADLOCK FALSE

PROPERTIES PendingIsDelivered
