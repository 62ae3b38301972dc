\* One session of two steps over two machines and two runs of a tick, from an answer or not; nobody pauses the line.
CONSTANTS
  A = A  B = B  overheat = overheat  lowpress = lowpress  precharge = precharge
  hot = hot  anomaly = anomaly  temp = temp  press = press  s1 = s1
  Faults = {overheat, lowpress}
  Authored = {overheat}
  Holding = {}
  Planless = {}
  Equipment = {A, B}
  Codes = {hot, anomaly}
  Signals = {temp, press}
  Cause <- MCCause
  Code <- MCCode
  Signal <- MCSignal
  NoCode = NoCode
  NoSignal = NoSignal
  RecoveryTicks = 1
  Pausing = FALSE
  MaxRun = 2
  MaxSeq = 1
  MaxPending = 1
  MaxSaveFailures = 0
  Sessions = {s1}
  MaxSteps = 2
  MaxQueries = 1
SPECIFICATION SessionSpec
CHECK_DEADLOCK FALSE

INVARIANTS VerdictCoversSteps LineChangesStayOnRecord
PROPERTIES RecoveredMeansRecovered
