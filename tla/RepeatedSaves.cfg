SPECIFICATION Spec
CONSTANTS
  dscr = dscr
  bank = bank
  MaxLoans = 2
  MaxCos = 2
  NoProduct = none
  Products <- MCProducts
  Imported = bank
  Required <- MCRequired
  Bursts <- MCBursts
  Savers = {1, 2}
  Limits <- MCRaces
INVARIANT RepeatedSavesPatch
CHECK_DEADLOCK FALSE
