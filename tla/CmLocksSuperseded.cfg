SPECIFICATION Spec
CONSTANTS
  low = low
  high = high
  nofico = nofico
  Null = Null
  Loan = {l1}
  Shopped = {l1}
  User = {ann, bob}
  Worker = {w1, w2}
  LoanData <- LowOrNone
  Priceable <- OneInput
  Material <- BandCrossings
  MaxLocks = 3
  MaxLog = 6
  MaxChanges = 1
SYMMETRY Sym
PROPERTY SupersededStaysFinal
