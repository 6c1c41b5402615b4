SPECIFICATION Spec
CONSTANTS
  Event = {e1, e2, e3}
  Scheduled = {e1, e2}
  Dispatcher = {d1, d2}
  Batch = 2
  MaxCrashes = 1
  MaxFailures = 1
INVARIANTS
  TypeOK
  NoPhantoms
  CausalOrder
  FewDuplicates
PROPERTY Drained
CHECK_DEADLOCK FALSE
