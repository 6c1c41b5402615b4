SPECIFICATION Spec
CONSTANTS
  Loan = {a, b}
  NoLoan = none
  Limits <- MCLimits
INVARIANTS TypeOK RowOfItsLoan SavedIsStored OneRecord ListIsServer NumbersDistinct
PROPERTIES VerdictStays ComesToRest
CHECK_DEADLOCK FALSE
