SPECIFICATION Spec
CONSTANTS
  case1 = case1
  case2 = case2
  Procs <- McProcs
  MaxStarts = 2
  Faults = {"crash", "orphan"}
INVARIANTS TypeOK  PolicyKept CaseClean
SYMMETRY Symmetry
