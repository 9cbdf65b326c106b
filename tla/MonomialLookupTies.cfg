SPECIFICATION Spec
CONSTANTS
  NoLead = NoLead
  Threads = {1, 2}
INVARIANT
  SparserIsSelected
CHECK_DEADLOCK FALSE
