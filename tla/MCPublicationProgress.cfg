\* Two candidates that always time out before a third, and one fault - crash, lost job, outside edit or damaged row; units of 60 s.
CONSTANTS
  a1 = a1  a2 = a2  q1 = q1  c1 = c1  c2 = c2  x = x  y = y  u1 = u1  u2 = u2  u3 = u3  u4 = u4
  Drafts = {1, 2, 3}
  WorkReportDrafts = {1, 2, 3}
  SlowDrafts = {1, 2}
  Contents = {c1, c2}
  ValidContents = {c1}
  Assets = {x}
  IncidentAsset <- MCIncidentAsset
  Admins = {}
  Queries = {q1}
  AttemptIds = {u1, u2, u3, u4}
  NoAttempt = NoAttempt
  NoContent = NoContent
  LeaseTime = 3
  HealDelay = 1
  RetryStep = 1
  RetryCap = 5
  MaxExponent = 3
  EmbedTimeout = 2
  MaxRevision = 3
  MaxFaults = 1
SPECIFICATION PassedSpec
PROPERTIES PassedBecomesSearchable
