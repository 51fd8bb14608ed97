CONSTANTS
  Procs = {i, a, b}
  InitProc = i
  Idle = idle
  None = none
  BlockQs = {q}
  SelectQs = {}
  Signals = {2, 17}
  SigActs <- CatchChild
  MaxSleep = 0
SPECIFICATION Spec
SYMMETRY Symmetry
INVARIANTS
  WaitpidMissesNoChild
  ParentsAreAlive
PROPERTIES
  FinishedIsFinal
  InterruptedBySignalOnly
