SPECIFICATION Spec
CONSTANTS
  m = m
  p1 = p1
  t1 = t1
  Pilots <- OnePilot
  Tuners <- None
  Models <- MCModels
  ModelOf <- MCModelOf
  HardwareBaselines <- MCHardwareBaselines
  BenchResults <- MCBenchResults
  Interval = 1
  Window = 1
  MaxAdjustmentsPerDay = 2
  MaxIterations = 3
  MaxRuns = 1
  MaxTime = 0
  Faults = {"runtime"}
PROPERTIES RollbackOnlyWhileUp
CHECK_DEADLOCK FALSE
