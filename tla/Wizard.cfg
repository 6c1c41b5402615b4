SPECIFICATION Spec
CONSTANTS
  dscr = dscr
  bank = bank
  MaxLoans = 2
  MaxCos = 2
  NoProduct = none
  Products <- MCProducts
  Imported = bank
  Required <- MCRequired
  Bursts <- MCBursts
  Savers = {1, 2}
  Limits <- MCLimits
INVARIANTS TypeOK OneRowPerBorrower PropertyOfItsLoan SavedIsStored EditsLoanShown DocumentsBeforeSubmission
PROPERTIES TypingKept TypedIsSaved
CHECK_DEADLOCK FALSE
