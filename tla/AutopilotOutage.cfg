SPECIFICATION OutageSpec
CONSTANTS
  m = m
  p1 = p1
  t1 = t1
  Pilots <- OnePilot
  Tuners <- OneTuner
  Models <- MCModels
  ModelOf <- MCModelOf
  HardwareBaselines <- FloorBaseline
  BenchResults <- MCBenchResults
  Interval = 1
  Window = 1
  MaxAdjustmentsPerDay = 2
  MaxIterations = 2
  MaxRuns = 1
  MaxTime = 0
  Faults = {}
  MaxOutages = 2
INVARIANTS AuditCompleteTogether ComparedSomewhere
PROPERTIES LockedInBothSticks
CHECK_DEADLOCK FALSE
