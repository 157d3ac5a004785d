SPECIFICATION FairSpec
CONSTANTS
  m = m
  p1 = p1
  t1 = t1
  Pilots <- OnePilot
  Tuners <- OneTuner
  Models <- MCModels
  ModelOf <- MCModelOf
  HardwareBaselines <- FloorBaseline
  BenchResults <- MCBenchResults
  Interval = 1
  Window = 1
  MaxAdjustmentsPerDay = 2
  MaxIterations = 3
  MaxRuns = 1
  MaxTime = 0
  Faults = {"crash", "log", "storage", "runtime"}
INVARIANTS SavedWasMeasured AuditNeverLies OnlyOthersAreOverwritten
PROPERTIES RunEnds
CHECK_DEADLOCK FALSE
