SPECIFICATION FairSpec
CONSTANTS
  t1 = t1
  q1 = q1
  q2 = q2
  root = root
  o1 = o1
  Tabs = {t1}
  Slots = {q1, q2}
  Users = {root, o1}
  Root = root
  MaxTokens = 3
INVARIANT GateAgreesWithStore
INVARIANT LogoutLeavesRefreshed
PROPERTY RefreshSentOnce
PROPERTY PartedByLateAnswer
PROPERTY EveryRequestEnds
CHECK_DEADLOCK FALSE
