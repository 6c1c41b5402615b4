SPECIFICATION USpec
CONSTANTS
  Null = Null
  Loan = {f1}
  Exc = {x1}
  Session = {s1}
  Reviewer = {u1}
  Overrides = {}
  Demand = {TRUE, FALSE}
  MaxStarts = 4
  MaxEvents = 3
  MaxDecisions = 1
PROPERTY FundedUnblocked
CHECK_DEADLOCK FALSE
