SPECIFICATION Spec
CONSTANTS
  m = m
  p1 = p1
  t1 = t1
  Pilots <- OnePilot
  Tuners <- None
  Models <- MCModels
  ModelOf <- MCModelOf
  HardwareBaselines <- FloorBaseline
  BenchResults <- MCBenchResults
  Interval = 1
  Window = 1
  MaxAdjustmentsPerDay = 1
  MaxIterations = 3
  MaxRuns = 2
  MaxTime = 1
  Faults = {"crash"}
INVARIANTS TypeOK AcceptsWithinCap
PROPERTIES QuietLockSticks
CHECK_DEADLOCK FALSE
