CONSTANTS
  s1 = s1
  p1 = p1
  p2 = p2
  p3 = p3
  c1 = c1
  c2 = c2
  Sales = {s1}
  N = 2
  Payers = {p1, p2, p3}
  Pays <- MCPays
  Cancels = {c1, c2}
  CancelOf <- MCCancelOf
  MaxCrashes = 1
SPECIFICATION Spec
SYMMETRY Interchangeable
INVARIANT CollectedOnce
INVARIANT CompletedIsPaid
INVARIANT ReturnedOnceUnlessPaid
INVARIANT NotifiedOncePerCrash
