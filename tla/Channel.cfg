CONSTANTS
  Size = 3
  Bytes = {0, 1}
  Procs = {p1, p2, p3}
  None = none
  MaxBytes = 3   \* of RingBuffer; the transfers of Pipe are bounded by Size
SPECIFICATION Spec
INVARIANTS
  NobodyForgotten
PROPERTIES
  ImplementsChannel
