SPECIFICATION Spec
CONSTANTS
  GivenBaselines <- MCGivenBaselines
  HardwareBaselines <- MCHardwareBaselines
  BenchResults <- MCBenchResults
INVARIANTS ScanIsPickBest AcceptedBeatsAllMeasured BrokenBaselineIsReplaced PassIsOneStep
CHECK_DEADLOCK FALSE
