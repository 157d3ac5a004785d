SPECIFICATION FairSpec
CONSTANTS
  p1 = p1
  p2 = p2
  nvidia = nvidia
  Procs = {p1, p2}
  Providers = {nvidia}
  GpuStates <- MCGpuStates
  RamStates <- MCRamStates
  Catalog <- MCCatalog
  TTL = 1
  MaxBusy = 1
  MaxClock = 3
  MaxChanges = 1
INVARIANTS ShownWasTrue AdviceMatchesRun StaleAdviceIsOneSided
PROPERTIES StatusIsShown
