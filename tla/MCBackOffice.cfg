SPECIFICATION OfficeSpec
CONSTANTS
  o1 = o1
  o2 = o2
  t1 = t1
  s1 = s1
  s2 = s2
  s9 = s9
  c1 = c1
  c2 = c2
  g1 = g1
  e1 = e1
  None = None
  Users = {o1, o2, t1}
  Owners = {o1, o2}
  Suppliers = {s1, s2}
  Customers = {c1, c2}
  Goods = {g1}
  Expenses = {e1}
  Foreign = s9
  Seeded = {s1}
  Due = 2
  SupplierTyped <- MCSupplierTyped
  CustomerTyped <- MCCustomerTyped
  ItemTyped <- MCItemTyped
  ExpenseTyped <- MCExpenseTyped
  CustomerBodies <- MCCustomerBodies
  ItemBodies <- MCItemBodies
  Amounts = {0, 1, 2}
  Blank = ""
  MaxRequests = 3
INVARIANT PaymentsMatchPaid
INVARIANT TrailTellsExpenses
PROPERTY DuplicatesByRaceOrReactivation
PROPERTY EditKeepsTheRest
PROPERTY SoldEditedOnlyByRace
SYMMETRY SameUsersAndCustomers
CHECK_DEADLOCK FALSE
