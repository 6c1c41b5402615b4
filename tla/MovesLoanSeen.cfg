SPECIFICATION Spec
CONSTANTS
  Loan = {a, b}
  NoLoan = none
  Limits <- StatusLimits
INVARIANT MovesLoanSeen
CHECK_DEADLOCK FALSE
