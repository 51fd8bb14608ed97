CONSTANTS
  Procs = {i, a}
  InitProc = i
  Idle = idle
  None = none
  BlockQs = {q}
  SelectQs = {}
  Signals = {9, 17}
  SigActs = {}
  MaxSleep = 0
SPECIFICATION YieldSpec
INVARIANT YieldNeverReturns
