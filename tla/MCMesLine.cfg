\* Five scenarios on two machines, two runs of three ticks, one tick the database refuses.
CONSTANTS
  A = A  B = B  overheat = overheat  trip = trip  lowpress = lowpress  precharge = precharge
  qhold = qhold  scrap = scrap  hot = hot  anomaly = anomaly  temp = temp  press = press
  Faults = {overheat, trip, lowpress, qhold, scrap}
  Authored = {overheat, qhold}
  Holding = {qhold}
  Planless = {scrap}
  Equipment = {A, B}
  Codes = {hot, anomaly}
  Signals = {temp, press}
  Cause <- MCCause
  Code <- MCCode
  Signal <- MCSignal
  NoCode = NoCode
  NoSignal = NoSignal
  RecoveryTicks = 2
  Pausing = TRUE
  MaxRun = 2
  MaxSeq = 3
  MaxPending = 1
  MaxSaveFailures = 1
SPECIFICATION Spec
CHECK_DEADLOCK FALSE
INVARIANTS AlarmsMatchLog StoredMatchesLog ShownStoppedMeansStopped
PROPERTIES AuthoredFaultNeedsRepair HoldsEndWithScenario
