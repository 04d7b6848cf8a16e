------------------------------ MODULE BackOffice ------------------------------
(***************************************************************************)
(* Suppliers, customers, inventory rows and expenses of one showroom, as   *)
(* the services keep them, and the edit forms of the pages, which send back *)
(* the whole row as it was when they were opened.  Every request reads      *)
(* before it writes, with other requests in between; only a supplier's      *)
(* payment is one transaction.  A name that is Blank is '' or null.         *)
(*                                                                         *)
(* Out of this module: pages and searches, the columns no rule looks at,    *)
(* the trail of the rows other than expenses, statuses (StockTransactions). *)
(***************************************************************************)
EXTENDS Integers, Sequences

CONSTANTS
  Users, Owners,              \* the showroom's users; the others are STAFF
  Suppliers, Customers, Goods, Expenses,  \* the ids of rows
  Foreign,                    \* a supplier of another showroom
  Seeded,                     \* suppliers there at the start, each with Due owed
  Due,
  SupplierTyped, CustomerTyped, ItemTyped, ExpenseTyped, \* what a user types
  CustomerBodies, ItemBodies, \* what a create sends
  Amounts,                    \* amounts of payments and expenses
  Blank, None,
  MaxRequests                 \* bound: writes asked for

SupplierFields == {"name"}
CustomerFields == {"phone", "nid"}
ItemFields     == {"cost", "sell", "quantity", "color", "supplier"}

SupplierRows == [active : BOOLEAN, name : {typed.name : typed \in SupplierTyped} \cup {Blank},
                 due : Nat, paid : Nat]
ExpenseRows  == [amount : Int] \cup {None}

ASSUME BackOfficeAssumption ==
  /\ Owners \subseteq Users /\ Seeded \subseteq Suppliers /\ Foreign \notin Suppliers
  /\ \A x \in Suppliers : x \notin Customers \cup Goods \cup Expenses
  /\ \A x \in Customers : x \notin Goods \cup Expenses
  /\ Goods \cap Expenses = {}
  /\ None \notin Users \cup Suppliers \cup Customers \cup Goods \cup Expenses
  /\ Due \in Nat /\ Amounts \subseteq Int /\ MaxRequests \in Nat

\* What is typed and sent has the fields of its form; None is no row.
ASSUME FieldsAssumption ==
  /\ \A typed \in SupplierTyped : DOMAIN typed = SupplierFields
  /\ \A typed \in CustomerTyped : DOMAIN typed \subseteq CustomerFields
  /\ \A typed \in ItemTyped     : DOMAIN typed \subseteq ItemFields
  /\ \A typed \in ExpenseTyped  : DOMAIN typed = {"amount"} /\ typed.amount \in Int
  /\ \A body \in CustomerBodies : DOMAIN body = CustomerFields
  /\ \A body \in ItemBodies     : DOMAIN body = ItemFields
  /\ None \notin SupplierRows

VARIABLES
  row,        \* row[x]: the row with id x, or None
  payments,   \* the rows of supplier_payments, in order
  lock,       \* lock[s]: the user whose payment transaction holds supplier s, or None
  form,       \* form[u]: the edit form u has open
  req,        \* req[u]: the request of u under way
  untold,     \* auditLog calls on expenses whose insert has not come
  trail,      \* trail[e]: the audit rows about expense e
  asked,      \* writes asked for
  moved,      \* users whose form's row was written since they opened it
  crossed,    \* users with a request under way that another write came across
  bulk,       \* items that came by bulk import
  tangled     \* expenses whose audit row was lost, or whose writes crossed

rows       == <<row, payments, lock>>
ghosts     == <<moved, crossed, bulk, tangled>>
officeVars == <<rows, form, req, untold, trail, asked, ghosts>>

NoForm == [x |-> None, copy |-> None]
NoReq  == [op |-> "none", x |-> None, at |-> "none", body |-> None, read |-> None, typed |-> {}]
Rows   == Suppliers \cup Customers \cup Goods \cup Expenses

OfficeInit ==
  /\ row = [x \in Rows |-> IF x \in Seeded
              THEN [active |-> TRUE, name |-> Blank, due |-> Due, paid |-> 0] ELSE None]
  /\ payments = <<>> /\ lock = [s \in Suppliers |-> None]
  /\ form = [u \in Users |-> NoForm] /\ req = [u \in Users |-> NoReq]
  /\ untold = {} /\ trail = [e \in Expenses |-> <<>>] /\ asked = 0
  /\ moved = {} /\ crossed = {} /\ bulk = {} /\ tangled = {}

There(x)  == row[x] # None
Active(x) == There(x) /\ row[x].active
\* An id not given out: of no row, and of no expense that ever was.
Fresh(x) ==
  /\ ~There(x) /\ \A u \in Users : req[u].x # x
  /\ x \in Expenses => trail[x] = <<>> /\ x \notin tangled /\ \A a \in untold : a.x # x
Peers(x) == CHOOSE kind \in {Suppliers, Customers, Goods, Expenses} : x \in kind

-----------------------------------------------------------------------------
(* A request: what it asks for, its reads, its write.  A ghost of it is what *)
(* its user touched in the form: the fields typed in, and the type select.   *)

Ask(u, op, x, at, body, typed) ==
  /\ req[u] = NoReq /\ asked < MaxRequests
  /\ asked'   = asked + 1
  /\ req'     = [req EXCEPT ![u] = [op |-> op, x |-> x, at |-> at, body |-> body,
                                   read |-> row[x], typed |-> typed]]
  /\ crossed' = crossed \ {u}
  /\ UNCHANGED <<rows, form, untold, trail, moved, bulk, tangled>>

Proceed(u, at) ==
  /\ req' = [req EXCEPT ![u].at = at]
  /\ UNCHANGED <<rows, form, untold, trail, asked, ghosts>>

\* An answer of 404, 409, 422 or 500 after the first read.
Refuse(u) ==
  /\ req' = [req EXCEPT ![u] = NoReq]
  /\ UNCHANGED <<rows, form, untold, trail, asked, ghosts>>

\* u's UPDATE or INSERT of x, which waits for the transaction that holds the row.
Write(u, x, image) ==
  /\ x \in Suppliers => lock[x] \in {None, u}
  /\ row'     = [row EXCEPT ![x] = image]
  /\ req'     = [req EXCEPT ![u] = NoReq]
  /\ form'    = [form EXCEPT ![u] = IF req[u].op = "edit" THEN NoForm ELSE @]
  /\ moved'   = (moved \ (IF req[u].op = "edit" THEN {u} ELSE {}))
                  \cup {v \in Users : form'[v].x = x /\ (v # u \/ req[u].op # "edit")}
  /\ crossed' = (crossed \ {u})
                  \cup {v \in Users \ {u} : req[v].x \in Peers(x)}

\* A create that is one statement.
Insert(u, x, image) ==
  /\ req[u] = NoReq /\ asked < MaxRequests /\ Fresh(x)
  /\ asked' = asked + 1
  /\ Write(u, x, image)

-----------------------------------------------------------------------------
(* Lists and the forms they fill.                                           *)

ListSuppliers(all) == {s \in Suppliers : There(s) /\ (all \/ row[s].active)}
ListCustomers(all) == {c \in Customers : There(c) /\ (all \/ row[c].active)}
ListInventory(all) == {g \in Goods : There(g) /\ (all \/ row[g].active)}
ListExpenses       == {e \in Expenses : There(e)}

SupplierForm(s) == [name |-> row[s].name]
\* The list leaves the national id out for STAFF, and the form shows ''.
CustomerForm(u, c) ==
  [phone |-> row[c].phone, nid |-> IF u \in Owners THEN row[c].nid ELSE Blank]
\* Mutant: a field of the form not filled from the row.
ItemFormReset(g) == [cost |-> 0, sell |-> row[g].sell, quantity |-> row[g].quantity,
                     color |-> row[g].color, supplier |-> row[g].supplier]

ItemForm(g) == [cost |-> row[g].cost, sell |-> row[g].sell, quantity |-> row[g].quantity,
                color |-> row[g].color, supplier |-> row[g].supplier]
\* What a touch of the type select leaves of the form: the prices are to be typed again.
RetypedForm == [quantity |-> 1, color |-> Blank, supplier |-> Blank]
ExpenseForm(e) == [amount |-> row[e].amount]

OpenForm(u, x, copy) ==
  /\ req[u] = NoReq /\ asked < MaxRequests
  /\ form'  = [form EXCEPT ![u] = [x |-> x, copy |-> copy]]
  /\ moved' = moved \ {u}
  /\ UNCHANGED <<rows, req, untold, trail, asked, crossed, bulk, tangled>>

OpenEdit(u) ==
  \/ \E s \in ListSuppliers(FALSE) : OpenForm(u, s, SupplierForm(s))
  \/ \E c \in ListCustomers(FALSE) : OpenForm(u, c, CustomerForm(u, c))
  \/ \E g \in ListInventory(FALSE) : OpenForm(u, g, ItemForm(g))
  \/ \E e \in ListExpenses : u \in Owners /\ OpenForm(u, e, ExpenseForm(e))

Over(new, old) == [f \in DOMAIN new \cup DOMAIN old |-> IF f \in DOMAIN new THEN new[f] ELSE old[f]]

-----------------------------------------------------------------------------
(* Rows that are archived and reactivated: read, then written by id.        *)

AskActive(u, x, on) ==
  /\ u \in Owners /\ There(x) /\ row[x].active # on
  /\ Ask(u, "active", x, "write", [active |-> on], {})

DeleteSupplier(u)     == \E s \in Suppliers : AskActive(u, s, FALSE)
ReactivateSupplier(u) == \E s \in Suppliers : AskActive(u, s, TRUE)
DeleteCustomer(u)     == \E c \in Customers : AskActive(u, c, FALSE)
ReactivateCustomer(u) == \E c \in Customers : AskActive(u, c, TRUE)
DeleteItem(u)         == \E g \in Goods : AskActive(u, g, FALSE)
ReactivateItem(u)     == \E g \in Goods : AskActive(u, g, TRUE)

WriteActive(u) ==
  /\ req[u].op = "active"
  /\ Write(u, req[u].x, [row[req[u].x] EXCEPT !.active = req[u].body.active])
  /\ UNCHANGED <<payments, lock, untold, trail, asked, bulk, tangled>>

-----------------------------------------------------------------------------
(* Suppliers.                                                               *)

CreateSupplier(u) ==
  \E s \in Suppliers, typed \in SupplierTyped :
    /\ typed.name # Blank
    /\ Insert(u, s, [active |-> TRUE, name |-> typed.name, due |-> 0, paid |-> 0])
    /\ UNCHANGED <<payments, lock, untold, trail, bulk, tangled>>

UpdateSupplier(u) ==
  \E typed \in SupplierTyped :
    /\ form[u].x \in Suppliers /\ There(form[u].x)
    /\ LET body == Over(typed, form[u].copy)
       IN  body.name # Blank /\ Ask(u, "edit", form[u].x, "write", body, DOMAIN typed)

WriteSupplier(u) ==
  /\ req[u].op = "edit" /\ req[u].x \in Suppliers
  /\ Write(u, req[u].x, Over(req[u].body, row[req[u].x]))
  /\ UNCHANGED <<payments, lock, untold, trail, asked, bulk, tangled>>

Balance(s) == row[s].due - row[s].paid
\* The running sums of the payment history of s.
Sums(history, s) ==
  LET sum[i \in 0..Len(history)] ==
        IF i = 0 THEN 0
        ELSE sum[i - 1] + IF history[i].supplier = s THEN history[i].amount ELSE 0
  IN  sum
PaidTo(s) == Sums(payments, s)[Len(payments)]

\* Mutant: the balance as it was read, nothing claimed.
AddPaymentUnclaimed(u) ==
  \E s \in Suppliers, a \in Amounts :
    /\ u \in Owners /\ a > 0 /\ There(s) /\ a <= Balance(s)
    /\ lock' = lock
    /\ req[u] = NoReq /\ asked < MaxRequests
    /\ asked' = asked + 1 /\ crossed' = crossed \ {u}
    /\ req' = [req EXCEPT ![u] = [op |-> "pay", x |-> s, at |-> "insert", body |-> [amount |-> a],
                                 read |-> row[s], typed |-> {}]]
    /\ UNCHANGED <<row, payments, form, untold, trail, moved, bulk, tangled>>

\* The transaction's claim: total_paid goes up where it leaves something owed.
AddPayment(u) ==
  \E s \in Suppliers, a \in Amounts :
    /\ u \in Owners /\ a > 0 /\ There(s)
    /\ lock[s] = None /\ row[s].paid <= row[s].due - a
    /\ lock' = [lock EXCEPT ![s] = u]
    /\ req[u] = NoReq /\ asked < MaxRequests
    /\ asked' = asked + 1 /\ crossed' = crossed \ {u}
    /\ req' = [req EXCEPT ![u] = [op |-> "pay", x |-> s, at |-> "insert", body |-> [amount |-> a],
                                 read |-> row[s], typed |-> {}]]
    /\ UNCHANGED <<row, payments, form, untold, trail, moved, bulk, tangled>>

Unlocked(u) == [s \in Suppliers |-> IF lock[s] = u THEN None ELSE lock[s]]

InsertPayment(u) ==
  /\ req[u].op = "pay"
  /\ Write(u, req[u].x, [row[req[u].x] EXCEPT !.paid = @ + req[u].body.amount])
  /\ payments' = Append(payments, [supplier |-> req[u].x, amount |-> req[u].body.amount])
  /\ lock' = Unlocked(u)
  /\ UNCHANGED <<untold, trail, asked, bulk, tangled>>

\* The insert fails, and the claim is undone with it.
PaymentFails(u) ==
  /\ req[u].op = "pay"
  /\ lock' = Unlocked(u) /\ req' = [req EXCEPT ![u] = NoReq]
  /\ UNCHANGED <<row, payments, form, untold, trail, asked, ghosts>>

-----------------------------------------------------------------------------
(* Customers: the two lookups for a duplicate, then the write.              *)

CreateCustomer(u) ==
  \E c \in Customers, body \in CustomerBodies : Fresh(c) /\ Ask(u, "create", c, "nid", body, {})

UpdateCustomer(u) ==
  \E typed \in CustomerTyped :
    /\ form[u].x \in Customers /\ There(form[u].x)
    /\ Ask(u, "edit", form[u].x, "nid", Over(typed, form[u].copy), DOMAIN typed)

\* An active customer other than x with that value in that field.
Taken(x, f, value) ==
  value # Blank /\ \E d \in Customers \ {x} : Active(d) /\ row[d][f] = value

\* Mutant: only a create looks for the phone.
LookupSkipsEdits(u, field, next) ==
  /\ req[u].at = field
  /\ IF req[u].op = "create" /\ Taken(req[u].x, field, req[u].body[field]) THEN Refuse(u) ELSE Proceed(u, next)

Lookup(u, field, next) ==
  /\ req[u].at = field
  /\ IF Taken(req[u].x, field, req[u].body[field]) THEN Refuse(u) ELSE Proceed(u, next)

WriteCustomer(u) ==
  /\ req[u].x \in Customers /\ req[u].op \in {"create", "edit"} /\ req[u].at = "write"
  /\ Write(u, req[u].x, IF req[u].op = "create" THEN Over([active |-> TRUE], req[u].body)
                        ELSE Over(req[u].body, row[req[u].x]))
  /\ UNCHANGED <<payments, lock, untold, trail, asked, bulk, tangled>>

-----------------------------------------------------------------------------
(* Inventory rows.                                                          *)

ItemRow(body) == Over([active |-> TRUE, sold |-> FALSE], body)

CreateItem(u) ==
  \E g \in Goods, body \in ItemBodies :
    /\ body.supplier = Blank \/ (body.supplier \in Suppliers /\ There(body.supplier))
    /\ body.sell >= body.cost
    /\ Insert(u, g, ItemRow(body))
    /\ UNCHANGED <<payments, lock, untold, trail, bulk, tangled>>

\* The import checks neither the supplier's showroom nor the two prices.
BulkCreateItems(u) ==
  \E g \in Goods, body \in ItemBodies :
    /\ body.supplier \in Suppliers => There(body.supplier)
    /\ Insert(u, g, ItemRow(body))
    /\ bulk' = bulk \cup {g}
    /\ UNCHANGED <<payments, lock, untold, trail, tangled>>

\* What handleUpdate sends: no field for an empty supplier, and one unit for none.
ItemPayload(f) ==
  [k \in DOMAIN f \ (IF f.supplier = Blank THEN {"supplier"} ELSE {}) |->
     IF k = "quantity" /\ f.quantity = 0 THEN 1 ELSE f[k]]

\* What the edit sends once the user is done with the form; both prices are required.
SendItem(u) ==
  \E typed \in ItemTyped, retyped \in BOOLEAN :
    LET filled == Over(typed, IF retyped THEN RetypedForm ELSE form[u].copy)
        body   == ItemPayload(filled)
    IN  /\ {"cost", "sell"} \subseteq DOMAIN filled /\ body.sell >= body.cost
        /\ Ask(u, "edit", form[u].x, "write", body,
               DOMAIN typed \cup IF retyped THEN {"type"} ELSE {})

\* Mutant: a sold row is not looked for.
UpdateItemSold(u) == form[u].x \in Goods /\ There(form[u].x) /\ SendItem(u)

UpdateItem(u) == form[u].x \in Goods /\ There(form[u].x) /\ ~row[form[u].x].sold /\ SendItem(u)

WriteItem(u) ==
  /\ req[u].op = "edit" /\ req[u].x \in Goods
  /\ Write(u, req[u].x, Over(req[u].body, row[req[u].x]))
  /\ UNCHANGED <<payments, lock, untold, trail, asked, bulk, tangled>>

\* createSale takes one unit, and the last one sells the row (StockTransactions).
Sell(g) ==
  /\ Active(g) /\ ~row[g].sold /\ row[g].quantity > 0
  /\ row'     = [row EXCEPT ![g] = [row[g] EXCEPT !.quantity = @ - 1, !.sold = row[g].quantity = 1]]
  /\ moved'   = moved \cup {v \in Users : form[v].x = g}
  /\ crossed' = crossed \cup {v \in Users : req[v].x \in Goods}
  /\ UNCHANGED <<payments, lock, form, req, untold, trail, asked, bulk, tangled>>

-----------------------------------------------------------------------------
(* Expenses, and their trail: an insert nobody waits for.                   *)

\* The auditLog call of u's write of e.
Audit(u, e, old, new) ==
  /\ untold'  = untold \cup {[x |-> e, by |-> asked, old |-> old, new |-> new]}
  /\ tangled' = IF u \in crossed \/ \E a \in untold : a.x = e THEN tangled \cup {e} ELSE tangled

ValidAmount(a) == a > 0

CreateExpense(u) ==
  \E e \in Expenses, a \in Amounts :
    /\ u \in Owners /\ ValidAmount(a)
    /\ Insert(u, e, [amount |-> a])
    /\ untold' = untold \cup {[x |-> e, by |-> asked, old |-> None, new |-> [amount |-> a]]}
    /\ UNCHANGED <<payments, lock, trail, bulk, tangled>>

UpdateExpense(u) ==
  \E typed \in ExpenseTyped :
    /\ u \in Owners /\ form[u].x \in Expenses /\ There(form[u].x) /\ ValidAmount(typed.amount)
    /\ Ask(u, "edit", form[u].x, "write", Over(typed, form[u].copy), DOMAIN typed)

DeleteExpense(u) ==
  \E e \in ListExpenses : u \in Owners /\ Ask(u, "remove", e, "write", None, {})

\* The write by id of either, which fails where the row has gone.
WriteExpense(u, op, image) ==
  /\ req[u].op = op /\ req[u].x \in Expenses
  /\ IF There(req[u].x)
     THEN /\ Write(u, req[u].x, image)
          /\ Audit(u, req[u].x, req[u].read, image)
          /\ UNCHANGED <<payments, lock, trail, asked, bulk>>
     ELSE Refuse(u)

\* Mutant: a deletion leaves no trail.
RemoveExpenseUntold(u) ==
  /\ req[u].op = "remove" /\ There(req[u].x)
  /\ Write(u, req[u].x, None)
  /\ UNCHANGED <<payments, lock, untold, trail, asked, bulk, tangled>>

SaveExpense(u)   == WriteExpense(u, "edit", req[u].body)
RemoveExpense(u) == WriteExpense(u, "remove", None)

\* The insert of the audit row; a failure is only logged.
WriteExpenseAudit ==
  \E a \in untold :
    /\ untold' = untold \ {a}
    /\ \/ trail' = [trail EXCEPT ![a.x] = Append(@, [old |-> a.old, new |-> a.new])]
          /\ UNCHANGED tangled
       \/ tangled' = tangled \cup {a.x} /\ UNCHANGED trail
    /\ UNCHANGED <<rows, form, req, asked, moved, crossed, bulk>>

-----------------------------------------------------------------------------
OfficeNext ==
  \/ \E u \in Users :
       \/ OpenEdit(u)
       \/ CreateSupplier(u) \/ UpdateSupplier(u) \/ WriteSupplier(u)
       \/ DeleteSupplier(u) \/ ReactivateSupplier(u)
       \/ AddPayment(u) \/ InsertPayment(u) \/ PaymentFails(u)
       \/ CreateCustomer(u) \/ UpdateCustomer(u) \/ WriteCustomer(u)
       \/ Lookup(u, "nid", "phone") \/ Lookup(u, "phone", "write")
       \/ DeleteCustomer(u) \/ ReactivateCustomer(u)
       \/ CreateItem(u) \/ BulkCreateItems(u) \/ UpdateItem(u) \/ WriteItem(u)
       \/ DeleteItem(u) \/ ReactivateItem(u) \/ WriteActive(u)
       \/ CreateExpense(u) \/ UpdateExpense(u) \/ SaveExpense(u)
       \/ DeleteExpense(u) \/ RemoveExpense(u)
  \/ \E g \in Goods : Sell(g)
  \/ WriteExpenseAudit

OfficeSpec == OfficeInit /\ [][OfficeNext]_officeVars

-----------------------------------------------------------------------------
\* The fields of x's form.
Fields(x) == IF x \in Suppliers THEN SupplierFields
             ELSE IF x \in Customers THEN CustomerFields
             ELSE IF x \in Goods THEN ItemFields ELSE {"amount"}

\* The row with id x has the columns of its table, and no supplier is paid more than its due.
Shaped(x) ==
  \/ x \in Suppliers /\ row[x] \in SupplierRows /\ row[x].paid <= row[x].due
  \/ x \in Customers /\ DOMAIN row[x] = {"active"} \cup CustomerFields
  \/ x \in Goods /\ DOMAIN row[x] = {"active", "sold"} \cup ItemFields
  \/ x \in Expenses /\ row[x] \in [amount : Int] /\ row[x].amount > 0

\* The state stays in its domain.
OfficeTypeOK ==
  /\ DOMAIN row = Rows /\ \A x \in Rows : There(x) => Shaped(x)
  /\ payments \in Seq([supplier : Suppliers, amount : Nat])
  /\ lock \in [Suppliers -> Users \cup {None}]
  /\ DOMAIN form = Users /\ DOMAIN req = Users
  /\ untold \subseteq [x : Expenses, by : Nat, old : ExpenseRows, new : ExpenseRows]
  /\ trail \in [Expenses -> Seq([old : ExpenseRows, new : ExpenseRows])]
  /\ asked \in 0..MaxRequests
  /\ moved \cup crossed \subseteq Users /\ bulk \subseteq Goods /\ tangled \subseteq Expenses

\* What a supplier was paid is the sum of its payment rows and never more than is
\* owed, however payments, edits and archivings of it cross (addPayment).
PaymentsMatchPaid ==
  \A s \in ListSuppliers(TRUE) : row[s].paid = PaidTo(s) /\ Balance(s) >= 0

\* Two active customers come to share a phone or a national id only by a write that
\* another write came across, or by a reactivation, which looks for no duplicate
\* (createCustomer, updateCustomer, reactivateCustomer).
DuplicatesByRaceOrReactivation ==
  [][\A u \in Users, c \in Customers :
       req[u].x = c /\ row'[c] # row[c] /\ req'[u] # req[u] /\ req[u].op # "active" /\ u \notin crossed =>
         \A f \in {"phone", "nid"} : row'[c][f] # Blank =>
           \A d \in Customers \ {c} : ~(Active(d) /\ row[d][f] = row'[c][f])]_officeVars

\* What the forms change that nobody typed in: the national id STAFF are not shown, the
\* units and the colour of a retyped form, and no unit, which goes out as one.
Unbidden(u, f, typed) ==
  \/ f = "nid" /\ u \notin Owners
  \/ f \in {"quantity", "color"} /\ "type" \in typed
  \/ f = "quantity" /\ form[u].copy[f] = 0

\* An edit of a row nobody wrote since the form was opened changes only the fields its
\* user typed in, for all that the form sends the whole row back, and beyond them only
\* what Unbidden names (openEdit, FormBody and handleUpdate of the pages, update*).
EditKeepsTheRest ==
  [][\A u \in Users : req[u].op = "edit" /\ req'[u] = NoReq /\ There(req[u].x) /\ u \notin moved =>
       LET x == req[u].x
       IN  \A f \in DOMAIN form[u].copy :
             row'[x] # None /\ row'[x][f] # row[x][f] => f \in req[u].typed \/ Unbidden(u, f, req[u].typed)]_officeVars

\* A row sold under cost, or of another showroom's supplier, came by bulk import: an
\* edit never makes one, whatever it crosses (createItem, updateItem, bulkCreateItems).
OddItemsCameInBulk ==
  \A g \in ListInventory(TRUE) :
    row[g].sell < row[g].cost \/ row[g].supplier = Foreign => g \in bulk

\* A sold row is edited only where the sale came between the read and the write.
SoldEditedOnlyByRace ==
  [][\A u \in Users : req[u].op = "edit" /\ req[u].x \in Goods /\ row'[req[u].x] # row[req[u].x]
        /\ row[req[u].x].sold => u \in crossed]_officeVars

\* The audit rows of an expense are a chain of before and after that ends in the row,
\* unless a row of it was lost, is yet to come, or belongs to writes that crossed.
TrailTellsExpenses ==
  \A e \in Expenses \ tangled :
    (\A a \in untold : a.x # e) =>
      LET t == trail[e]
      IN  /\ row[e] = IF t = <<>> THEN None ELSE t[Len(t)].new
          /\ \A k \in 1..Len(t) : t[k].old = IF k = 1 THEN None ELSE t[k - 1].new

-----------------------------------------------------------------------------
(* The inductive invariant.                                                 *)

\* What a request under way asks for fits its row, and a payment has its supplier locked.
Asked(u) ==
  LET r == req[u]
  IN  /\ DOMAIN r = DOMAIN NoReq
      /\ \/ r = NoReq
         \/ /\ r.op = "active" /\ r.x \in Suppliers \cup Customers \cup Goods
            /\ Shaped(r.x) /\ r.body.active \in BOOLEAN
         \/ /\ r.op = "pay" /\ r.x \in Suppliers /\ Shaped(r.x) /\ lock[r.x] = u
            /\ r.body.amount \in Nat /\ r.body.amount <= Balance(r.x)
         \/ r.op = "create" /\ r.x \in Customers /\ DOMAIN r.body = CustomerFields
         \/ /\ r.op = "edit" /\ r.x \in Suppliers \cup Customers \cup Goods /\ Shaped(r.x)
            /\ form[u].x = r.x /\ DOMAIN r.body \subseteq Fields(r.x)
            /\ r.x \in Suppliers => \E typed \in SupplierTyped : r.body.name = typed.name
            /\ r.x \in Customers => DOMAIN r.body = CustomerFields
         \/ /\ r.op = "edit" /\ r.x \in Expenses /\ form[u].x = r.x
            /\ r.body \in [amount : Int] /\ r.body.amount > 0 /\ r.read \in ExpenseRows
         \/ r.op = "remove" /\ r.x \in Expenses /\ r.read \in ExpenseRows

LockInv == \A s \in Suppliers : lock[s] # None => req[lock[s]].op = "pay" /\ req[lock[s]].x = s

\* A form whose row was not written since shows it, but for the national id.
Shows(u) ==
  LET x == form[u].x
  IN  There(x) /\ \A f \in Fields(x) :
        form[u].copy[f] = row[x][f] \/ (u \notin Owners /\ f = "nid")

Filled(u) ==
  form[u] # NoForm =>
    /\ form[u].x \in Rows /\ DOMAIN form[u].copy = Fields(form[u].x)
    /\ form[u].x \notin Expenses => Shaped(form[u].x)
    /\ u \notin moved => Shows(u)

\* A request no write came across has read the row as it is; nobody edits a sold one.
HasRead(u) ==
  req[u] # NoReq =>
    /\ u \notin crossed => req[u].read = row[req[u].x]
    /\ req[u].op = "edit" /\ req[u].x \in Goods => ~req[u].read.sold

\* Nor has anybody else the number or the id it has looked for.
LookedUp(u) ==
  /\ req[u].at \in {"nid", "phone"} => req[u].x \in Customers /\ req[u].op \in {"create", "edit"}
  /\ req[u].op \in {"create", "edit"} /\ req[u].x \in Customers /\ u \notin crossed =>
       /\ req[u].at # "nid" => ~Taken(req[u].x, "nid", req[u].body["nid"])
       /\ req[u].at = "write" => ~Taken(req[u].x, "phone", req[u].body["phone"])

\* An edit under way sends the form as it was filled, but for what was typed in.
AsFilled(u, body, typed) ==
  \A f \in DOMAIN body : f \in typed \/ Unbidden(u, f, typed) \/ body[f] = form[u].copy[f]

Untouched(u) == req[u].op = "edit" => AsFilled(u, req[u].body, req[u].typed)

UserInv(u) == Asked(u) /\ Filled(u) /\ HasRead(u) /\ LookedUp(u) /\ Untouched(u)

\* The sums of the history exist, and a supplier that is not there was paid nothing.
Adds(run, history, s) ==
  /\ run \in [0..Len(history) -> Nat] /\ run[0] = 0
  /\ \A i \in 1..Len(history) :
       run[i] = run[i - 1] + IF history[i].supplier = s THEN history[i].amount ELSE 0

SumsInv ==
  \A s \in Suppliers :
    /\ Adds(Sums(payments, s), payments, s)
    /\ PaidTo(s) = IF There(s) THEN row[s].paid ELSE 0

LastOf(t) == IF t = <<>> THEN None ELSE t[Len(t)].new
Chained(t) == \A k \in 1..Len(t) : t[k].old = IF k = 1 THEN None ELSE t[k - 1].new

\* The one audit row that is yet to come goes on where the trail ends.
TrailInv ==
  \A e \in Expenses \ tangled :
    /\ Chained(trail[e])
    /\ \/ (\A a \in untold : a.x # e) /\ row[e] = LastOf(trail[e])
       \/ \E a \in untold : /\ a.x = e /\ a.old = LastOf(trail[e]) /\ a.new = row[e]
                            /\ \A b \in untold : b.x = e => b = a

OfficeInv == OfficeTypeOK /\ (\A u \in Users : UserInv(u)) /\ LockInv /\ SumsInv /\ TrailInv
=============================================================================
