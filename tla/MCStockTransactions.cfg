CONSTANTS
  i1 = i1
  i2 = i2
  s1 = s1
  s2 = s2
  c1 = c1
  c2 = c2
  c3 = c3
  e1 = e1
  NoTx = NoTx
  Items = {i1, i2}
  Sales = {s1, s2}
  Cancels = {c1, c2, c3}
  Edits = {e1}
  Lines <- MCLines
  Want <- MCWant
  CancelOf <- MCCancelOf
  EditOf <- MCEditOf
  InitialQty <- MCInitialQty
  InitialStatus <- MCInitialStatus
  Skew = 0
SPECIFICATION FairSpec
INVARIANT NoLockLeaks
INVARIANT NumbersNeverCollide
PROPERTY LedgerImplemented
PROPERTY SaleTakesOnlyStockOnOffer
PROPERTY EveryRequestAnswered
