SPECIFICATION Spec
CONSTANTS
  NoLead = NoLead
  Threads = {1, 2}
INVARIANT
  EntriesAreCounted
CHECK_DEADLOCK FALSE
