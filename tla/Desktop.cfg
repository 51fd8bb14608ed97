CONSTANTS
  Nil = Nil
SPECIFICATION Spec
INVARIANTS
  TypedIsExact

  
CHECK_DEADLOCK FALSE
