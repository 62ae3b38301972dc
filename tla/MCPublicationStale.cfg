\* A decision on a text that a merge has replaced since the screen was loaded.
CONSTANTS
  a1 = a1  a2 = a2  q1 = q1  c1 = c1  c2 = c2  x = x  y = y  u1 = u1  u2 = u2  u3 = u3  u4 = u4
  Drafts = {1}
  WorkReportDrafts = {}
  SlowDrafts = {}
  Contents = {c1, c2}
  ValidContents = {c1, c2}
  Assets = {x, y}
  IncidentAsset <- MCIncidentAsset
  Admins = {a1}
  Queries = {q1}
  AttemptIds = {u1, u2, u3}
  NoAttempt = NoAttempt
  NoContent = NoContent
  LeaseTime = 1
  HealDelay = 1
  RetryStep = 1
  RetryCap = 1
  MaxExponent = 1
  EmbedTimeout = 2
  MaxRevision = 2
  MaxFaults = 1
SPECIFICATION Spec


PROPERTIES DecisionsSeeLatestText
