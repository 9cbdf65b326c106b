SPECIFICATION Spec
CONSTANT
  Debug = FALSE
INVARIANT
  ReducedFormIsOfMatrix
CHECK_DEADLOCK FALSE
