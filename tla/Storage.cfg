CONSTANTS
  None = None
  proc1 = proc1
  proc2 = proc2
  h1 = h1
  h2 = h2
SPECIFICATION Spec
INVARIANTS
  LookupsAreRight
  ListingsAreComplete
  ReadsAreExact
PROPERTIES
  StepsAreSound
CHECK_DEADLOCK FALSE
