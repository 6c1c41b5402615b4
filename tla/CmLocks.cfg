SPECIFICATION Spec
CONSTANTS
  low = low
  high = high
  nofico = nofico
  Null = Null
  Loan = {l1}
  Shopped = {l1}
  User = {ann, bob}
  Worker = {w1, w2}
  LoanData <- LowOrNone
  Priceable <- OneInput
  Material <- BandCrossings
  MaxLocks = 2
  MaxLog = 5
  MaxChanges = 1
SYMMETRY Sym
INVARIANTS
  TypeOK
  LogAccounts
  FourEyes
  RelockChain
  UnconfirmedLocks
  Announced
PROPERTIES
  TermsImmutable
  ImplementsSlot
