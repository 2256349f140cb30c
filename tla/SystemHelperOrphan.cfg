SPECIFICATION Spec
CONSTANTS
  case1 = case1
  case2 = case2
  Procs <- McProcs
  MaxStarts = 1
  Faults = {"orphan"}
INVARIANT MachineRestored
