\* Two questions at the same simulated time.
CONSTANTS
  A = A  B = B  overheat = overheat  lowpress = lowpress  precharge = precharge
  hot = hot  anomaly = anomaly  temp = temp  press = press  s1 = s1
  Faults = {overheat, lowpress}
  Authored = {overheat}
  Holding = {}
  Planless = {}
  Equipment = {A}
  Codes = {hot, anomaly}
  Signals = {temp, press}
  Cause <- OneCause
  Code <- MCCode
  Signal <- MCSignal
  NoCode = NoCode
  NoSignal = NoSignal
  RecoveryTicks = 1
  Pausing = FALSE
  MaxRun = 2
  MaxSeq = 2
  MaxPending = 1
  MaxSaveFailures = 0
  Sessions = {s1}
  MaxSteps = 1
  MaxQueries = 2
SPECIFICATION SessionSpec
CHECK_DEADLOCK FALSE

PROPERTIES SessionJudgesWhatAnswerShowed
