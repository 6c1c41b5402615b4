SPECIFICATION Spec
CONSTANTS
  Null = Null
  Loan = {f1}
  Session = {s1, s2}
  Overrides = {"cancelled"}
  MaxStarts = 5
SYMMETRY Sym
INVARIANTS
  TypeOK
  HistoryConnected
  ThroughFunding
  Announced

