SPECIFICATION XSpec
CONSTANTS
  Null = Null
  Loan = {f1, f2}
  Exc = {x1}
  Reviewer = {u1, u2}
  Demand = {TRUE}
  MaxDecisions = 2
  MaxEvents = 4
SYMMETRY Sym
INVARIANTS
  XTypeOK
  LogAccounts
  VerdictStands
PROPERTY DecidedStays

CHECK_DEADLOCK FALSE
