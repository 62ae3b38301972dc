\* Two records opened one after the other while the first start is being answered.
CONSTANTS
  Stations = {m1, m2}
  Chips = {c1}
  Linked = {c1}
  Typed = {t1}
  MaxOpened = 2
  MaxLost = 1
  MaxDone = 2
  MaxSent = 4
  MaxBehind = 0
  MaxStrays = 0
SPECIFICATION ResolveSpec
INVARIANT ReportsNameTheirOwnSession
CHECK_DEADLOCK FALSE
