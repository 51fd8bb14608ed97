CONSTANTS
  Procs = {p1, p2, p3, p4}
  None = none
SPECIFICATION Spec
INVARIANTS
  MutualExclusion
  FreeLockHasSuccessor
