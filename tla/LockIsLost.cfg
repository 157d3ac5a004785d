SPECIFICATION Spec
CONSTANTS
  m = m
  p1 = p1
  t1 = t1
  Pilots <- OnePilot
  Tuners <- None
  Models <- MCModels
  ModelOf <- MCModelOf
  HardwareBaselines <- MCHardwareBaselines
  BenchResults <- MCBenchResults
  Interval = 1
  Window = 1
  MaxAdjustmentsPerDay = 2
  MaxIterations = 2
  MaxRuns = 1
  MaxTime = 0
  Faults = {}
PROPERTIES LockSticks
CHECK_DEADLOCK FALSE
