SPECIFICATION Spec
CONSTANTS
  Null = Null
  Loan = {f1, f2}
  Session = {s1}
  Overrides = {}
  MaxStarts = 4
SYMMETRY Sym
INVARIANT DraftsSubmittable
