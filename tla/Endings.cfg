CONSTANTS
  None = None
  p1 = p1
  p2 = p2
  idle = idle
  que = que
  sel = sel
  a1 = a1
  a2 = a2
  d1 = d1
  d2 = d2
  f1 = f1
  f2 = f2
  ld = ld
SPECIFICATION Spec
PROPERTIES
  ReadyEventuallyRuns
  KilledEventuallyExits
  ZombieIsReaped
  RequestsEnd
  ResizeEnds
  StartsEnd
CHECK_DEADLOCK FALSE
