SPECIFICATION System
CONSTANTS
  Main = main
  Ids = {main, i1, i2}
  Recs = {r1, r2}
  Values = {zero, one}
  Zero = zero
  NULL = NULL
  Sems = {s1}
  Handles = {h1, h2}
  MaxCount = 1
  InitValues <- InitValuesValue
INVARIANTS SystemSound NoUseAfterFree OnlyDetachedLeak
PROPERTIES ImplementsThreadContract ImplementsPosixSemaphore
SYMMETRY Interchangeable
CHECK_DEADLOCK FALSE
