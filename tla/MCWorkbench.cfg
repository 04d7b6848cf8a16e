SPECIFICATION PagesSpec
CONSTANTS
  Starts <- MCStarts
  Others = {"CancelSale", "PayInstallment", "ApprovePayment", "ReactivateItem"}
  MaxTurns = 3
  MaxBefore = 2
  MaxWrites = 1
INVARIANTS PageShowsItsWrites
 
CHECK_DEADLOCK FALSE
