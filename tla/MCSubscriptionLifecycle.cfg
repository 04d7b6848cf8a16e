CONSTANTS
  r1 = r1
  r2 = r2
  v1 = v1
  v2 = v2
  v3 = v3
  k1 = k1
  n1 = n1
  NoTx = NoTx
  StaleScan = StaleScan
  Claims = {r1, r2}
  IsRenewal <- MCIsRenewal
  Reviews = {v1, v2}
  ReviewOf <- MCReviewOf
  Approves <- MCApproves
  Withdrawals = {k1}
  Renewals = {n1}
  Months <- MCMonths
  Dates = {1}
  MaxNow = 1
SPECIFICATION FairSpec
INVARIANT PaidIsActive
PROPERTY ContractImplemented
PROPERTY EveryRequestAnswered
PROPERTY StaleClaimsEnd
