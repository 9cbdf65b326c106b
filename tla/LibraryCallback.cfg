SPECIFICATION Spec
CONSTANTS
  NoLead = NoLead
  Threads = {1, 2}
INVARIANT
  NullIsNotCalled
CHECK_DEADLOCK FALSE
