------------------------------- MODULE Workbench -------------------------------
(***************************************************************************)
(* The pages of the browser over one showroom's rows: what each page shows *)
(* from the query cache, what it offers by what it shows and by the user's *)
(* role, what the server takes, and which keys each write marks.           *)
(*                                                                         *)
(* A row of each kind stands for the list: `more' is a list with one row   *)
(* more, or with a row that was edited.  Queries of one page are answered  *)
(* together; their parameters, what a row shows of rows of another kind (a *)
(* customer's name on a sale), what a form has in its fields, and what is  *)
(* offered before they are answered are out of this module.  There is one  *)
(* SUPER_ADMIN, and no scan puts a sale to OVERDUE.                        *)
(***************************************************************************)
EXTENDS Naturals

CONSTANTS
  Starts,      \* the rows there are when the user comes, and the role: STAFF, OWNER or ROOT
  Others,      \* the writes that other users make
  MaxTurns,    \* bound: pages the user opens and writes of others
  MaxBefore,   \* bound: those of them before the user's first write
  MaxWrites    \* bound: writes of the user

Everyone == {"STAFF", "OWNER"}
Plus == {"OWNER"}        \* isOwnerPlus, and ownerOnly, of a showroom's users
Platform == {"ROOT"}

VARIABLES
  world,     \* world[x]: the status of the row of kind x
  role,
  page,      \* the page the user is on
  cache,     \* cache[k]: the query cache, with why it may be behind
  resp,      \* resp[k]: the server's response cache
  write,       \* the write under way
  turns, writes

pageVars == <<world, role, page, cache, resp, write, turns, writes>>
counts == <<turns, writes>>

NoRequest == [op |-> "none", on |-> "none", page |-> "none", row |-> <<>>, stage |-> "none"]

Roles == {"STAFF", "OWNER", "ROOT"}
\* The statuses of a row of each kind.  Of a sale's installments `some' are paid, and one is
\* not; with the staff `full' every seat of the plan is taken and one member is disabled; a
\* profile `carried' has administrators.
Statuses ==
  [sale |-> {"none", "ACTIVE", "more", "COMPLETED", "CANCELLED"},
   item |-> {"none", "IN_STOCK", "more", "SOLD", "archived"},
   installment |-> {"none", "due", "some", "paid"}, customer |-> {"active", "archived", "more"},
   supplier |-> {"active", "archived", "more"}, debt |-> {"owed", "settled"},
   expense |-> {"there", "more", "gone"}, staff |-> {"active", "inactive", "more", "full"},
   plan |-> {"trial", "running"}, claim |-> {"none", "PENDING", "closed"},
   onboarded |-> {"no", "yes"}, bell |-> {"unread", "read"},
   showroom |-> {"active", "inactive", "more"}, profile |-> {"carried", "more", "gone"},
   administrator |-> {"active", "inactive", "more"}, wish |-> {"asked", "answered"},
   trail |-> {"some", "more"}]
IsWorld(w) == DOMAIN w = DOMAIN Statuses /\ \A x \in DOMAIN Statuses : w[x] \in Statuses[x]

\* The functions of the module TLC of these names.
k :> v == [x \in {k} |-> v]
f @@ g == [x \in DOMAIN f \cup DOMAIN g |-> IF x \in DOMAIN f THEN f[x] ELSE g[x]]

-----------------------------------------------------------------------------
(* What the queries read, by key.                                           *)

SaleReads == "sales" :> {"sale", "installment"}
DueReads ==
     "sales-summary"       :> {"sale"}
  @@ "sales-overdue-count" :> {"installment", "sale"}
  @@ "overdue"             :> {"installment", "sale"}
  @@ "upcoming"            :> {"installment", "sale"}
InvoiceReads == "invoice" :> {"sale", "installment"}
StockReads ==
     "inventory"     :> {"item"}
  @@ "inv-stats"     :> {"item"}
  @@ "inv-low-stock" :> {"item"}
  @@ "low-stock"     :> {"item"}
PickerReads == "inventory-picker" :> {"item"} @@ "customers-picker" :> {"customer"}
SupplierReads ==
     "suppliers"      :> {"supplier", "debt", "item"}
  @@ "supplier-stats" :> {"supplier", "debt"}
  @@ "sup-payments"   :> {"debt"}
  @@ "suppliers-list" :> {"supplier"}
CustomerReads == "customers" :> {"customer", "sale"}
SearchReads == "search" :> {"customer", "supplier", "item", "sale"}
FigureReads ==
     "kpis"    :> {"sale", "item", "customer", "installment", "debt"}
  @@ "chart"   :> {"sale"}
  @@ "revenue" :> {"sale"}
BestSellers == "top-items" :> {"sale"}
ProfitReads ==
     "monthly"    :> {"sale"}
  @@ "profit-bd"  :> {"sale"}
  @@ "net-profit" :> {"sale", "expense"}
ExpenseReads == "expenses" :> {"expense"}
AccountReads ==
     "home-account-status" :> {"plan", "claim", "onboarded", "staff"}
  @@ "billing-status"      :> {"plan", "claim", "onboarded", "staff"}
ClaimReads == "billing-payments" :> {"claim"} @@ "billing-current" :> {"plan"}
StaffReads == "tenant-users" :> {"staff"}
BellReads == "notifications" :> {"bell"}
TrailReads == "activity" :> {"trail"} @@ "recent-activity" :> {"trail"}
ProfileOfShowroom == "showroom-profile" :> {"onboarded"}
PaymentReads ==
     "admin-payments"   :> {"claim"}
  @@ "admin-payment"    :> {"claim"}
  @@ "admin-sub-health" :> {"plan", "claim"}
  @@ "admin-platform-subscriptions" :> {"plan", "claim"}
PlatformReads ==
     "admin-showrooms" :> {"showroom"}
  @@ "admin-users"     :> {"staff"}
  @@ "admin-audit"     :> {"trail"}
AuthorityReads ==
     "admin-prof"      :> {"profile"}
  @@ "admin-profiles"  :> {"profile", "administrator"}
  @@ "profiles-select" :> {"profile"}
  @@ "admin-admins"    :> {"administrator", "profile"}
PeopleReads ==
     "superadmin-users"          :> {"staff", "administrator"}
  @@ "superadmin-reset-requests" :> {"wish"}
LicenceReads == "subscriptions" :> {"plan", "showroom"} @@ "subscriptions-summary" :> {"plan"}
ShowroomReads == "showrooms" :> {"showroom"} @@ "showroom-stats" :> {"sale", "item", "staff"}

TradeReads    == SaleReads @@ DueReads @@ StockReads @@ PickerReads
PartnerReads  == SupplierReads @@ CustomerReads @@ SearchReads @@ ExpenseReads
CachedReads   == FigureReads @@ BestSellers @@ ProfitReads
BusinessReads == TradeReads @@ PartnerReads @@ CachedReads
PaperReads    == InvoiceReads @@ TrailReads
OfficeReads   == AccountReads @@ ClaimReads @@ StaffReads @@ BellReads @@ ProfileOfShowroom
OperatorReads == PaymentReads @@ PlatformReads @@ AuthorityReads @@ PeopleReads @@ LicenceReads
                 @@ ShowroomReads
Reads == BusinessReads @@ PaperReads @@ OfficeReads @@ OperatorReads
Keys == DOMAIN Reads
\* The GETs behind cacheResponse: kept for a minute, and dropped by no write.
Cached == DOMAIN CachedReads

-----------------------------------------------------------------------------
(* The writes: who may, on what, with what effect, and the keys they mark.  *)

Op(may, needs, sets, marks) ==
  [may |-> may, needs |-> needs, sets |-> sets @@ [trail |-> "more"], marks |-> marks]
Anyway == <<>>   \* no row is asked for

SaleKeys == {"sales", "sales-summary", "sales-overdue-count"}
StockKeys == {"inventory", "inv-stats", "inv-low-stock"}
InStock == {"IN_STOCK", "more"}
Live == {"ACTIVE", "more"}   \* the sales that may be cancelled

\* Mutant: a sale's page marks the sales alone.
CreateSaleAlone ==
  Op(Everyone, [item |-> InStock],
     [item |-> "SOLD", sale |-> "more", installment |-> "due"], SaleKeys \ {"sales-summary"})

CreateSale ==
  Op(Everyone, [item |-> InStock],
     [item |-> "SOLD", sale |-> "more", installment |-> "due"], SaleKeys \cup StockKeys)
\* A sale is not cancelled once an installment is paid; the unpaid ones stay, with a note.
CancelSale ==
  Op(Plus, [sale |-> Live, installment |-> {"none", "due"}],
     [sale |-> "CANCELLED", item |-> "IN_STOCK"], SaleKeys \cup StockKeys)
\* A payment, and the one that leaves nothing unpaid: it completes the sale.
PayKeys == SaleKeys \cup {"overdue", "upcoming", "kpis"}
NotCancelled == {"none", "ACTIVE", "more", "COMPLETED"}
PayInstallment ==
  Op(Everyone, [installment |-> {"due"}, sale |-> NotCancelled], [installment |-> "some"], PayKeys)
PayLast ==
  Op(Everyone, [installment |-> {"some"}, sale |-> NotCancelled],
     [installment |-> "paid", sale |-> "COMPLETED"], PayKeys)

CustomerKeys == {"customers", "customers-picker"}
CreateCustomer == Op(Everyone, Anyway, [customer |-> "more"], CustomerKeys)
UpdateCustomer == Op(Everyone, Anyway, [customer |-> "more"], CustomerKeys)
DeactivateCustomer == Op(Plus, [customer |-> {"active", "more"}], [customer |-> "archived"],
                         CustomerKeys)
ReactivateCustomer == Op(Plus, [customer |-> {"archived"}], [customer |-> "active"], CustomerKeys)

SupplierKeys == {"suppliers", "supplier-stats", "sup-payments"}
CreateSupplier == Op(Everyone, Anyway, [supplier |-> "more"], SupplierKeys)
UpdateSupplier == Op(Everyone, Anyway, [supplier |-> "more"], SupplierKeys)
DeactivateSupplier == Op(Plus, [supplier |-> {"active", "more"}], [supplier |-> "archived"],
                         SupplierKeys)
ReactivateSupplier == Op(Plus, [supplier |-> {"archived"}], [supplier |-> "active"],
                         {"suppliers", "supplier-stats"})
PaySupplier == Op(Plus, [debt |-> {"owed"}], [debt |-> "settled"], SupplierKeys)

CreateItem == Op(Everyone, Anyway, [item |-> "more"], StockKeys)
UpdateItem == Op(Everyone, [item |-> InStock \cup {"archived"}], [item |-> "more"], StockKeys)
RemoveItem == Op(Plus, [item |-> InStock \cup {"SOLD"}], [item |-> "archived"], StockKeys)
BulkCreate == Op(Everyone, Anyway, [item |-> "more"], StockKeys)
ReactivateItem == Op(Plus, [item |-> {"archived"}], [item |-> "IN_STOCK"], StockKeys)

\* 'expense-stats' is the key of no query.
ExpenseKeys == {"expenses", "expense-stats"}
CreateExpense == Op(Plus, Anyway, [expense |-> "more"], ExpenseKeys)
UpdateExpense == Op(Plus, [expense |-> {"there", "more"}], [expense |-> "more"], ExpenseKeys)
RemoveExpense == Op(Plus, [expense |-> {"there", "more"}], [expense |-> "gone"], ExpenseKeys)

\* enforceUserLimit: no member more than the plan has seats for.
Seats == {"active", "inactive", "more"}
StaffKeys == {"tenant-users", "home-account-status"}
CreateStaff == Op(Plus, [staff |-> Seats], [staff |-> "more"], StaffKeys)
DisableStaff == Op(Plus, Anyway, [staff |-> "inactive"], StaffKeys \cup {"billing-status"})
EnableStaff == Op(Plus, [staff |-> Seats], [staff |-> "active"], StaffKeys \cup {"billing-status"})

BillingKeys == {"billing-status", "billing-payments", "billing-current", "home-account-status",
                "notifications"}
RequestPlan == Op(Plus, [plan |-> {"trial"}, claim |-> {"none", "closed"}], [claim |-> "PENDING"],
                  BillingKeys)
RenewPlan == Op(Plus, [claim |-> {"none", "closed"}], [claim |-> "PENDING"], BillingKeys)
AttachProof == Op(Plus, [claim |-> {"PENDING"}], [claim |-> "PENDING"], BillingKeys)
CancelClaim == Op(Plus, [claim |-> {"PENDING"}], [claim |-> "closed"], BillingKeys)

\* The one write that leaves no trail.
ReadBell == [may |-> Everyone \cup Platform, needs |-> Anyway, sets |-> [bell |-> "read"],
             marks |-> {"notifications"}]
Onboard == Op(Plus, Anyway, [onboarded |-> "yes"], {})
SaveBusiness == Op(Plus, Anyway, [onboarded |-> "yes"], {"showroom-profile"})

PaymentKeys == {"admin-payments", "admin-sub-health"}
ApprovePayment == Op(Platform, [claim |-> {"PENDING"}], [claim |-> "closed", plan |-> "running"],
                     PaymentKeys)
RejectPayment == Op(Platform, [claim |-> {"PENDING"}], [claim |-> "closed"], PaymentKeys)
\* One key, ['admin-profiles', ...], for the table and for the administrators' choice.
ProfileKeys == {"admin-profiles", "profiles-select"}
SaveProfile == Op(Platform, Anyway, [profile |-> "more"], ProfileKeys)
DeleteProfile == Op(Platform, [profile |-> {"more"}], [profile |-> "gone"], ProfileKeys)
SaveAdministrator == Op(Platform, Anyway, [administrator |-> "more"], {"admin-admins"})
ToggleAdministrator == Op(Platform, Anyway, [administrator |-> "inactive"], {"admin-admins"})
SaveUser == Op(Platform, Anyway, [staff |-> "more"], {"superadmin-users"})
ResetPassword == Op(Platform, Anyway, [wish |-> "answered"], {})
RenewLicense == Op(Platform, Anyway, [plan |-> "running"],
                   {"subscriptions", "subscriptions-summary"})
CreateShowroom == Op(Platform, Anyway, [showroom |-> "more"], {"showrooms"})
ToggleShowroom == Op(Platform, Anyway, [showroom |-> "inactive"], {"showrooms"})

BusinessWrites ==
  [CreateSale |-> CreateSale, CancelSale |-> CancelSale, PayInstallment |-> PayInstallment,
   PayLast |-> PayLast,
   CreateCustomer |-> CreateCustomer, UpdateCustomer |-> UpdateCustomer,
   DeactivateCustomer |-> DeactivateCustomer, ReactivateCustomer |-> ReactivateCustomer,
   CreateSupplier |-> CreateSupplier, UpdateSupplier |-> UpdateSupplier,
   DeactivateSupplier |-> DeactivateSupplier, ReactivateSupplier |-> ReactivateSupplier,
   PaySupplier |-> PaySupplier, CreateItem |-> CreateItem, UpdateItem |-> UpdateItem,
   RemoveItem |-> RemoveItem, BulkCreate |-> BulkCreate, ReactivateItem |-> ReactivateItem,
   CreateExpense |-> CreateExpense, UpdateExpense |-> UpdateExpense,
   RemoveExpense |-> RemoveExpense]
AccountWrites ==
  [CreateStaff |-> CreateStaff, DisableStaff |-> DisableStaff, EnableStaff |-> EnableStaff,
   RequestPlan |-> RequestPlan,
   RenewPlan |-> RenewPlan, AttachProof |-> AttachProof, CancelClaim |-> CancelClaim,
   ReadBell |-> ReadBell, Onboard |-> Onboard, SaveBusiness |-> SaveBusiness]
PlatformWrites ==
  [ApprovePayment |-> ApprovePayment, RejectPayment |-> RejectPayment,
   SaveProfile |-> SaveProfile, DeleteProfile |-> DeleteProfile,
   SaveAdministrator |-> SaveAdministrator, ToggleAdministrator |-> ToggleAdministrator,
   SaveUser |-> SaveUser, ResetPassword |-> ResetPassword, RenewLicense |-> RenewLicense,
   CreateShowroom |-> CreateShowroom, ToggleShowroom |-> ToggleShowroom]
Ops == BusinessWrites @@ AccountWrites @@ PlatformWrites
\* The writes that leave an archived row archived, and a full staff full.
Edits == {"UpdateItem", "UpdateCustomer", "UpdateSupplier", "CancelSale", "SaveUser"}

\* requireAccountActive looks at the latest subscription alone: a claim covers the trial.
AccountOpen == ~(world["plan"] = "trial" /\ world["claim"] = "none")
\* ensureOnboarded is asked on the routes of the business, of their reads and writes.
BusinessOpen == AccountOpen /\ world["onboarded"] = "yes"
Open(k) ==
  /\ k \in DOMAIN BusinessReads => BusinessOpen
  /\ k \in DOMAIN PaperReads => AccountOpen

ASSUME WorkbenchAssumption ==
  /\ \A start \in Starts : IsWorld(start.world) /\ start.role \in Roles
  /\ Others \subseteq DOMAIN Ops /\ MaxTurns \in Nat /\ MaxBefore \in Nat /\ MaxWrites \in Nat

Accepts(op, who) ==
  /\ op \in DOMAIN BusinessWrites => BusinessOpen
  /\ who \in Ops[op].may
  /\ \A x \in DOMAIN Ops[op].needs : world[x] \in Ops[op].needs[x]

-----------------------------------------------------------------------------
(* The panels: the keys each shows and the buttons it offers.               *)

Panel(shows, offers) == [shows |-> shows, offers |-> offers]
Button(op, by, on, when) == [op |-> op, by |-> by, on |-> on, when |-> when]
Form(op, by) == Button(op, by, "none", Anyway)   \* offered whatever is shown

Frame == Panel({"notifications"}, {Button("ReadBell", Everyone \cup Platform,
                                                 "notifications", [bell |-> {"unread"}])})
Inbox == Panel({"notifications"}, {Button("ReadBell", Everyone \cup Platform,
                                                 "notifications", [bell |-> {"unread"}])})
Search == Panel({"search"}, {})
Home == Panel({"home-account-status"}, {})
HomeFigures == Panel({"kpis", "chart"}, {})
HomeLists == Panel({"overdue", "upcoming", "low-stock"}, {})
HomeTrail == Panel({"recent-activity"}, {})
Welcome == Panel({}, {Form("Onboard", Plus)})
Settings == Panel({"showroom-profile"}, {Form("SaveBusiness", Plus)})

\* Mutant: the sales' rows offer to cancel whatever their status.
SalesTableOfAll == Panel(SaleKeys, {Button("CancelSale", Plus, "sales", Anyway)})
SalesTable == Panel(SaleKeys, {Button("CancelSale", Plus, "sales", [sale |-> Live])})
SaleForm == Panel({"inventory-picker", "customers-picker"},
                      {Button("CreateSale", Everyone, "inventory-picker", [item |-> InStock]),
                       Form("CreateCustomer", Everyone)})
\* The installment's own state says which payment its button makes.
PayButtons(k, when) ==
  {Button("PayInstallment", Everyone, k, [installment |-> {"due"}] @@ when),
   Button("PayLast", Everyone, k, [installment |-> {"some"}] @@ when)}
\* The drawer looks neither at the user's role nor, for a payment, at the sale's status.
SaleDrawer == Panel({"sales"}, {Button("CancelSale", Everyone, "sales", [sale |-> Live])}
                               \cup PayButtons("sales", Anyway))
\* The lists of the server hold the unpaid installments of sales that run.
DueTables == Panel({"overdue", "upcoming"},
                   UNION {PayButtons(k, [sale |-> Live]) : k \in {"overdue", "upcoming"}})
InvoicePaper == Panel({"invoice"}, {})
Charts == Panel(Cached \ {"chart"}, {})

StockTable == Panel(StockKeys \cup {"suppliers-list"},
                      {Button("UpdateItem", Everyone, "inventory", [item |-> InStock \cup {"SOLD"}]),
                       Button("RemoveItem", Plus, "inventory", [item |-> InStock])})
StockForms == Panel({}, {Form("CreateItem", Everyone), Form("BulkCreate", Everyone)})
StockArchive == Panel({"inventory"},
                      {Button("ReactivateItem", Plus, "inventory", [item |-> {"archived"}])})

\* hasInventory: whatever there is of the supplier's, archived or sold as well.
SupplierTable == Panel({"suppliers", "supplier-stats"},
                       {Button("DeactivateSupplier", Plus, "suppliers",
                               [supplier |-> {"active", "more"}, item |-> {"none"}])})
SupplierForms == Panel({}, {Form("CreateSupplier", Everyone)})
SupplierSheet == Panel({"suppliers", "sup-payments"},
                       {Button("UpdateSupplier", Everyone, "suppliers",
                               [supplier |-> {"active", "more"}]),
                        Button("PaySupplier", Plus, "suppliers",
                               [supplier |-> {"active", "more"}])})
SupplierArchive == Panel({"suppliers"}, {Button("ReactivateSupplier", Plus, "suppliers",
                                                [supplier |-> {"archived"}])})

CustomerTable == Panel({"customers"},
                       {Button("DeactivateCustomer", Plus, "customers",
                               [customer |-> {"active", "more"}, sale |-> {"none"}])})
CustomerForms == Panel({"customers"},
                       {Form("CreateCustomer", Everyone),
                        Button("UpdateCustomer", Everyone, "customers",
                               [customer |-> {"active", "more"}])})
CustomerArchive == Panel({"customers"}, {Button("ReactivateCustomer", Plus, "customers",
                                                [customer |-> {"archived"}])})

ExpenseTable == Panel({"expenses"},
                      {Button("RemoveExpense", Plus, "expenses", [expense |-> {"there", "more"}])})
ExpenseForms == Panel({"expenses"},
                      {Form("CreateExpense", Plus),
                       Button("UpdateExpense", Plus, "expenses", [expense |-> {"there", "more"}])})
StaffTable == Panel({"tenant-users", "home-account-status"},
                      {Button("CreateStaff", Plus, "home-account-status", [staff |-> Seats]),
                       Button("DisableStaff", Plus, "tenant-users", [staff |-> {"active", "more"}]),
                       Button("EnableStaff", Plus, "tenant-users",
                              [staff |-> {"inactive", "full"}])})
TrailTable == Panel({"activity"}, {})

BillingState == Panel({"billing-status", "billing-payments"}, {})
PlanCards == Panel({"billing-status"},
                      {Button("RequestPlan", Plus, "billing-status",
                              [plan |-> {"trial"}, claim |-> {"none", "closed"}])})
ActivePlan == Panel({"billing-status"},
                      {Button("RenewPlan", Plus, "billing-status",
                              [plan |-> {"running"}, claim |-> {"none", "closed"}])})
RenewCards == Panel({"billing-status"},   \* renewMode stays set
                      {Button("RenewPlan", Plus, "billing-status", [plan |-> {"running"}])})
PastClaims == Panel({"billing-payments"}, {})
PendingClaim == Panel({"billing-payments", "billing-current"},
                      {Button(op, Plus, "billing-payments", [claim |-> {"PENDING"}]) :
                         op \in {"AttachProof", "CancelClaim"}})

PlatformHome == Panel({"admin-prof", "admin-admins", "admin-users", "admin-showrooms",
                        "admin-sub-health", "admin-payments"}, {})
PaymentTable == Panel({"admin-payments"}, {})
PaymentModal == Panel({"admin-payment"},
                       {Button(op, Platform, "admin-payment", [claim |-> {"PENDING"}]) :
                          op \in {"ApprovePayment", "RejectPayment"}})
PlatformUsers == Panel({"admin-users"}, {})
PlatformShowrooms == Panel({"admin-showrooms"}, {})
PlatformPlans == Panel({"admin-platform-subscriptions"}, {})
ProfileTable == Panel({"admin-profiles"},
                       {Form("SaveProfile", Platform),
                        Button("DeleteProfile", Platform, "admin-profiles",
                               [profile |-> {"carried", "more"}])})
AdministratorTable == Panel({"admin-admins", "profiles-select"},
                            {Form("SaveAdministrator", Platform),
                             Button("ToggleAdministrator", Platform, "admin-admins",
                                    [administrator |-> {"active", "inactive", "more"}])})
AuditTable == Panel({"admin-audit"}, {})
PeopleTable == Panel({"superadmin-users", "superadmin-reset-requests"},
                       {Form("SaveUser", Platform), Form("ResetPassword", Platform)})
LicenseTable == Panel({"subscriptions", "subscriptions-summary"}, {Form("RenewLicense", Platform)})
ShowroomTable == Panel({"showrooms", "showroom-stats"},
                       {Form("CreateShowroom", Platform), Form("ToggleShowroom", Platform)})

-----------------------------------------------------------------------------
(* The pages, and what the user may open: modals open over their page.      *)

Pages == [dashboard    |-> {Home, HomeFigures, HomeLists},
          ownDashboard |-> {Home, HomeFigures, HomeLists, HomeTrail},
          onboarding   |-> {Welcome},
          settings     |-> {Settings},
          sales        |-> {SalesTable},
          saleForm     |-> {SalesTable, SaleForm},
          saleDrawer   |-> {SalesTable, SaleDrawer},
          installments |-> {DueTables},
          invoices     |-> {InvoicePaper},
          analytics    |-> {Charts},
          inventory    |-> {StockTable, StockForms},
          oldInventory |-> {StockArchive},
          suppliers    |-> {SupplierTable, SupplierForms, SupplierSheet},
          oldSuppliers |-> {SupplierArchive},
          customers    |-> {CustomerTable, CustomerForms},
          oldCustomers |-> {CustomerArchive},
          expenses     |-> {ExpenseTable, ExpenseForms},
          users        |-> {StaffTable},
          activity     |-> {TrailTable},
          billing      |-> {BillingState, PlanCards, ActivePlan, PendingClaim, PastClaims},
          renewing     |-> {BillingState, RenewCards, PendingClaim, PastClaims},
          admin        |-> {PlatformHome},
          payments     |-> {PaymentTable, PaymentModal},
          inbox        |-> {Inbox},
          search       |-> {Search},
          adminUsers   |-> {PlatformUsers},
          adminShowrooms |-> {PlatformShowrooms},
          plans        |-> {PlatformPlans},
          profiles     |-> {ProfileTable},
          administrators |-> {AdministratorTable},
          audit        |-> {AuditTable},
          superUsers   |-> {PeopleTable},
          licences     |-> {LicenseTable},
          showrooms    |-> {ShowroomTable}]

StaffPages == {"dashboard", "settings", "sales", "saleForm", "saleDrawer", "installments",
                  "invoices", "inventory", "suppliers", "customers", "billing", "inbox", "search",
                  "analytics", "expenses"}
OwnerPages == (StaffPages \ {"dashboard"}) \cup
                 {"ownDashboard", "onboarding", "oldInventory", "oldSuppliers", "oldCustomers",
                  "users", "activity", "renewing"}
PlatformPages == {"admin", "payments", "adminUsers", "adminShowrooms", "inbox", "plans",
                  "profiles", "administrators", "audit", "superUsers", "licences", "showrooms"}
PagesOf(r) == CASE r = "STAFF" -> StaffPages [] r = "OWNER" -> OwnerPages [] OTHER -> PlatformPages

Panels(p) == Pages[p] \cup {Frame}
Shows == [p \in DOMAIN Pages |-> UNION {panel.shows : panel \in Panels(p)}]
Offers == [p \in DOMAIN Pages |-> UNION {panel.offers : panel \in Panels(p)}]

-----------------------------------------------------------------------------
(* The cache of the browser and the server's.                               *)

NoData == <<>>
Empty == [due |-> TRUE, shown |-> NoData, why |-> {}]
Now(k) == [x \in Reads[k] |-> world[x]]
Has(k) == cache[k].shown # NoData
Behind(k) == Has(k) /\ cache[k].shown # Now(k)

PagesInit ==
  /\ \E start \in Starts : world = start.world /\ role = start.role
  /\ page = "none"
  /\ cache = [k \in Keys |-> Empty]
  /\ resp = [k \in Cached |-> NoData]
  /\ write = NoRequest
  /\ turns = 0 /\ writes = 0

\* The queries of a page still to be answered; a refused one keeps what it had.
Due(p) == {k \in Shows[p] : cache[k].due /\ Open(k)}

MoreTurns == turns < IF writes = 0 THEN MaxBefore ELSE MaxTurns

\* A page is mounted, once the one before has its answers and the server is not at a
\* write; what it shows is asked again if five minutes have passed (staleTime).
Visit(p, aged) ==
  /\ MoreTurns
  /\ write.stage # "sent"
  /\ p # page
  /\ page # "none" => Due(page) = {}
  /\ page' = p
  /\ cache' = [k \in Keys |-> IF aged /\ k \in Shows[p] THEN [cache[k] EXCEPT !.due = TRUE]
                              ELSE cache[k]]
  /\ turns' = turns + 1
  /\ UNCHANGED <<world, role, resp, write, writes>>

\* The due queries of the page are answered: those behind cacheResponse from what the server
\* kept, the others from the rows.
Reply(k) == IF k \in Cached /\ resp[k] # NoData THEN resp[k] ELSE Now(k)
Load ==
  LET asked == Due(page)
  IN  /\ asked # {}
      /\ cache' = [k \in Keys |->
           IF k \notin asked THEN cache[k]
           ELSE [due |-> FALSE, shown |-> Reply(k),
                 why |-> IF Reply(k) = Now(k) THEN {} ELSE {"kept"}]]
      /\ resp' = [k \in Cached |-> IF k \in asked THEN Reply(k) ELSE resp[k]]
      /\ UNCHANGED <<world, role, page, write, counts>>

\* The minute of cacheResponse is over.
Forget ==
  /\ \E k \in Cached : resp[k] \notin {NoData, Now(k)}
  /\ resp' = [k \in Cached |-> NoData]
  /\ UNCHANGED <<world, role, page, cache, write, counts>>

\* The bell asks again every minute.
Poll ==
  /\ Behind("notifications")
  /\ cache' = [cache EXCEPT !["notifications"] =
                 [due |-> FALSE, shown |-> Now("notifications"), why |-> {}]]
  /\ UNCHANGED <<world, role, page, resp, write, counts>>

\* A wider world: rows are written, and what shows them is behind because of it.
Change(op, because) ==
  LET stays(x) == \/ x \notin DOMAIN Ops[op].sets
                  \/ op \in Edits /\ world[x] \in {"archived", "full"}
      becomes == [x \in DOMAIN world |-> IF stays(x) THEN world[x] ELSE Ops[op].sets[x]]
      touched == {x \in DOMAIN world : becomes[x] # world[x]}
  IN  /\ world' = becomes
      /\ cache' = [k \in Keys |-> IF Has(k) /\ Reads[k] \cap touched # {}
                                  THEN [cache[k] EXCEPT !.why = @ \cup {because}] ELSE cache[k]]

Visible(offer) ==
  /\ role \in offer.by
  /\ offer.on # "none" =>
       /\ Has(offer.on)
       /\ \A x \in DOMAIN offer.when : cache[offer.on].shown[x] \in offer.when[x]

Click(offer) ==
  /\ write = NoRequest
  /\ writes < MaxWrites
  /\ Visible(offer)
  /\ write' = [op |-> offer.op, on |-> offer.on, page |-> page, stage |-> "sent",
              row |-> IF offer.on = "none" THEN NoData ELSE cache[offer.on].shown]
  /\ writes' = writes + 1
  /\ UNCHANGED <<world, role, page, cache, resp, turns>>

Apply ==
  /\ write.stage = "sent"
  /\ Accepts(write.op, role)
  /\ Change(write.op, write.op)
  /\ write' = [write EXCEPT !.stage = "written"]
  /\ UNCHANGED <<role, page, resp, counts>>

Refuse ==
  /\ write.stage = "sent"
  /\ ~Accepts(write.op, role)
  /\ write' = NoRequest
  /\ UNCHANGED <<world, role, page, cache, resp, counts>>

\* onSuccess: the keys are marked, and the page it leads to is mounted.
Done ==
  LET marked == [k \in Keys |-> IF k \in Ops[write.op].marks THEN [cache[k] EXCEPT !.due = TRUE]
                                ELSE cache[k]]
  IN  /\ write.stage = "written"
      /\ write' = NoRequest
      /\ cache' = marked
      /\ page' = IF write.op = "Onboard" THEN "ownDashboard" ELSE page
      /\ UNCHANGED <<world, role, resp, counts>>

\* The answer is lost after the write: onError, and nothing is marked.
Lose ==
  /\ write.stage = "written"
  /\ write' = NoRequest
  /\ cache' = [k \in Keys |-> IF write.op \in cache[k].why
                              THEN [cache[k] EXCEPT !.why = @ \cup {"lost"}] ELSE cache[k]]
  /\ UNCHANGED <<world, role, page, resp, counts>>

\* Somebody else, at another browser; before the page has its answers it would be in them.
Elsewhere(op) ==
  /\ MoreTurns
  /\ page # "none" /\ Due(page) = {}
  /\ \E who \in Ops[op].may : Accepts(op, who)
  /\ Change(op, "elsewhere")
  /\ turns' = turns + 1
  /\ UNCHANGED <<role, page, resp, write, writes>>

\* The dashboard sends the user on by the account status it has.
Leads ==
  LET status == cache["home-account-status"].shown
  IN  IF status["plan"] = "trial" \/ status["claim"] = "PENDING" THEN "billing" ELSE "onboarding"
Redirect ==
  LET status == cache["home-account-status"].shown
  IN  /\ page \in {"dashboard", "ownDashboard"}
      /\ Has("home-account-status")
      /\ \/ status["plan"] = "trial" \/ status["claim"] = "PENDING"
         \/ status["onboarded"] = "no"
      /\ page' = Leads
      /\ UNCHANGED <<world, role, cache, resp, write, counts>>

PagesNext ==
  \/ \E p \in PagesOf(role), aged \in BOOLEAN : Visit(p, aged)
  \/ page # "none" /\ Load
  \/ Forget \/ Poll \/ Redirect
  \/ page # "none" /\ \E offer \in Offers[page] : Click(offer)
  \/ Apply \/ Refuse \/ Done \/ Lose
  \/ \E op \in Others : Elsewhere(op)

PagesSpec == PagesInit /\ [][PagesNext]_pageVars

-----------------------------------------------------------------------------
(* Properties.                                                              *)

NotTheirs == {"kept", "lost", "elsewhere"}
Reasons == DOMAIN Ops \cup NotTheirs

PagesTypeOK ==
  /\ IsWorld(world) /\ role \in Roles
  /\ page \in DOMAIN Pages \cup {"none"}
  /\ DOMAIN cache = Keys
  /\ \A k \in Keys : /\ DOMAIN cache[k] = DOMAIN Empty
                     /\ cache[k].due \in BOOLEAN /\ cache[k].why \subseteq Reasons
                     /\ Has(k) => DOMAIN cache[k].shown = Reads[k]
  /\ DOMAIN resp = Cached
  /\ \A k \in Cached : resp[k] # NoData => DOMAIN resp[k] = Reads[k]
  /\ DOMAIN write = DOMAIN NoRequest
  /\ \/ write = NoRequest
     \/ write.op \in DOMAIN Ops /\ write.stage \in {"sent", "written"}
  /\ turns \in 0..(MaxTurns + MaxBefore) /\ writes \in 0..MaxWrites

AtRest == write = NoRequest /\ page # "none" /\ Due(page) = {}
OfferedOn(p) == {offer.op : offer \in Offers[p]}

\* A page that has its answers, with nothing under way, shows what its own buttons wrote; if
\* it does not, another user wrote, the answer was lost, the server answered with a figure
\* it kept, or the write was made on another page.  But for the picker of the sale's form, the
\* open payment, and the wishes for a new password: those are marked by none of their buttons.
LeftByTheirButtons == {"inventory-picker", "admin-payment", "superadmin-reset-requests"}
PageShowsItsWrites ==
  AtRest => \A k \in Shows[page] \ LeftByTheirButtons :
              Behind(k) => \/ cache[k].why \cap NotTheirs # {}
                           \/ cache[k].why # {} /\ cache[k].why \cap OfferedOn(page) = {}

\* What is offered on a status with which the server refuses it: the edit of a sold item, the
\* payment of a supplier who is owed nothing, a renewal while its claim waits, the cancellation
\* of a sale with a paid installment, a payment for a cancelled sale, a member enabled beyond
\* the plan's seats, and the removal of a profile that administrators carry.
RefusedAnyway ==
  {<<"UpdateItem", "item", "SOLD">>, <<"PaySupplier", "debt", "settled">>,
   <<"RenewPlan", "claim", "PENDING">>, <<"CancelSale", "installment", "some">>,
   <<"CancelSale", "installment", "paid">>, <<"PayInstallment", "sale", "CANCELLED">>,
   <<"PayLast", "sale", "CANCELLED">>, <<"EnableStaff", "staff", "full">>,
   <<"DeleteProfile", "profile", "carried">>}
\* A write is refused only if the row it was offered on has changed since, but for those, the
\* forms of a business that is not open, and the cancellation the drawer offers to STAFF.
RefusedOnlyIfBehind ==
  [][Refuse => \/ write.on # "none" /\ write.row # Now(write.on)
               \/ \E x \in DOMAIN world : <<write.op, x, world[x]>> \in RefusedAnyway
               \/ write.on = "none" /\ write.op \in DOMAIN BusinessWrites /\ ~BusinessOpen
               \/ write.op = "CancelSale" /\ role = "STAFF" /\ write.page = "saleDrawer"]_pageVars

\* "Every screen that reads installment/sale data refreshes correctly after a payment"
\* (useSales.ts:148-151): no page at rest is behind by the user's own payment.
EveryScreenRefreshes ==
  AtRest => \A k \in Shows[page] :
              Behind(k) => \/ cache[k].why \cap NotTheirs # {}
                           \/ cache[k].why \cap {"PayInstallment", "PayLast"} = {}
\* "This card never drifts from what the owner sees on the billing page" (users/page.tsx:57-61):
\* the card of users and the billing page, neither due, count the same people after the
\* owner's own writes.
CardNeverDrifts ==
  (/\ write = NoRequest
   /\ \A k \in {"home-account-status", "billing-status"} :
        Has(k) /\ ~cache[k].due /\ cache[k].why \cap NotTheirs = {})
  => cache["home-account-status"].shown["staff"] = cache["billing-status"].shown["staff"]

-----------------------------------------------------------------------------
(* The inductive invariant.                                                 *)

\* What is behind is so for a reason; a row of the business is shown of an open one.
Explained(k) == Behind(k) => cache[k].why # {}
Opened(k) == Has(k) /\ k \in DOMAIN BusinessReads => BusinessOpen

\* Of a key behind by a write of the user: the write reached its rows, and has marked it
\* if ever it does, unless its answer is yet to come or was lost.
Marked(k) ==
  \A op \in cache[k].why \cap DOMAIN Ops :
    /\ Reads[k] \cap DOMAIN Ops[op].sets # {}
    /\ op \in DOMAIN BusinessWrites => BusinessOpen
    /\ k \in Ops[op].marks => \/ cache[k].due \/ "lost" \in cache[k].why
                              \/ write.stage = "written" /\ write.op = op

\* A write under way was offered, by its page and on the row it holds.
Offered ==
  write.stage = "sent" =>
    \E offer \in IF write.page \in DOMAIN Pages THEN Offers[write.page] ELSE {} :
      /\ write.op = offer.op /\ write.on = offer.on /\ role \in offer.by
      /\ offer.on # "none" =>
           /\ offer.on \in DOMAIN BusinessReads => BusinessOpen
           /\ \A x \in DOMAIN offer.when : write.row[x] \in offer.when[x]

PagesInv == PagesTypeOK /\ (\A k \in Keys : Explained(k) /\ Opened(k) /\ Marked(k)) /\ Offered

==============================================================================
