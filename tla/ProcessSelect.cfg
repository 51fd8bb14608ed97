CONSTANTS
  Procs = {i, a, b}
  InitProc = i
  Idle = idle
  None = none
  BlockQs = {}
  SelectQs = {s1, s2}
  Signals = {9, 17}
  SigActs = {}
  MaxSleep = 1
SPECIFICATION Spec
SYMMETRY Symmetry
INVARIANTS
  ReadyQueueExact
  BlocksAgree
  SleepersAreBlocked
  SelectAnswersTheQuestion
