SPECIFICATION Spec
CONSTANTS
  Machines <- MCMachines
  Used <- MCUsed
INVARIANTS TunedIsRun
