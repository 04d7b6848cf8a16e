# YS-MATRIX in TLA+

YS-MATRIX is a multi-tenant ERP for showrooms: an Express API over PostgreSQL
through Prisma, several instances of it side by side, a daily job, and a Next.js
frontend. Its logic is in the statements it sends to the database and in what the
browser keeps between them. Every request is a short sequential program; what is
hard about them is what happens between two statements: another request, another
instance, the daily job, a deadlock, a timeout, a crash, a late answer. That is
what these modules are about.

Everything is translated from `src/backend` and `src/frontend`. Comments of the
code that state what must hold are used as properties, and where the code does not
do what its comment says, this file names the property and how to see it violated
(*Where code and comments disagree*).

## The system

| part | state | operations | hard about it | correct when |
|---|---|---|---|---|
| Sales and stock (`sales.service.js`) | `inventory.quantity/status`, `sale.status`, sale items | createSale, cancelSale | sales, cancellations and edits of the same rows; lock order; lost transactions | units are taken all-or-nothing and returned once; only stock on offer is sold |
| Invoice numbers (`invoice.js`) | `sale.invoice_number`, `created_at`, an advisory lock | generateInvoiceNumber | read, insert and commit by concurrent sales; clocks | no sale fails on the unique index |
| Inventory (`inventory.service.js`) | the same rows | createItem, bulkCreate, updateItem, deleteItem, reactivateItem | checks on a stale read, absolute writes, the form's old copy | a sold row is not edited, an edit changes what was typed |
| Installments (`sales.service.js`, `notification.service.js`) | `installment.is_paid/overdue_notified_at`, `sale.status/next_due_date` | payInstallment, cancelSale, runOverdueInstallmentScan | payments of one or of different installments, a payment racing a cancellation, the scan racing both | money taken once, COMPLETED exactly when paid, CANCELLED only when unpaid, one notice |
| Subscription claims (`subscription.lifecycle.service.js`) | `subscription.status/expires_at`, `payment.status`, `showroom.license_expiry` | requestSubscription, requestRenewal, attachPaymentProof, approvePayment, rejectPayment, cancelPendingRequest, runStaleRequestExpiryScan | the owner, two reviewers and the scan deciding one claim; opposite lock orders | one open claim, decided once, approved in one step, nothing left open for ever |
| Licence renewal (`subscription.service.js`) | a new subscription row, `license_expiry`, `license_warning_sent_days` | renewSubscription | racing an approval or a scan | no paid month is lost, warnings start over |
| Daily job (`scheduledNotifications.job.js`, `notification.service.js`) | `scheduled_job_runs`, warning levels | claimRun, four scans | several instances, crashes, missed days, failed notifications | each warning once, no lapse without one, EXPIRED after its notice |
| Registration, users, gates (`auth.controller.js`, `users.service.js`, `superadmin.controller.js`, `account/license/onboarding.middleware.js`) | `showroom`, `user`, latest subscription row | registerAccount, createShowroom, createUserForShowroom, setUserActive, updateUser, enforceUserLimit, requireAccountActive, checkLicense | check-then-insert; count-then-create; two readings of one account | no showroom without an owner, limit kept, nobody does business before a plan |
| Sessions, second factor (`auth.controller.js`, `mfa.service.js`, `mfa.controller.js`) | refresh tokens, login counter and lock, reset links, backup codes | login, refreshToken, logout, changePassword, resetPasswordWithToken, resetUserPassword, consumeBackupCode, confirmEnrollment | overlapping requests of one user; slow hashing between read and write | a token or code has one successor or one use; a revocation leaves nothing behind |
| Authorization and profiles (`authorization.service.js`, `admin.controller.js`, `permissionCatalog.js`) | profiles with grants, administrators | effectiveAuthorization, createProfile, updateProfile, deleteProfile, createAdministrator, updateAdministrator | gates that read before the transaction, and through another connection inside it | no grant beyond what Root gave; a profile in use is not deleted |
| Suppliers, customers, expenses (`supplier/customer/expense.service.js`) | `total_due/total_paid`, phones and ids, audit rows | create, update, archive, addPayment | two payments against one balance; look-ups before inserts; audit rows nobody waits for | never overpaid; no two customers with one phone; a trail that tells what happened |
| Tenant isolation (`database.js`, `tenant.middleware.js`) | the showroom of the context | every query | queries outside a request | no query without a showroom |
| Plans, pricing, reports, search, audit views, PDF, response cache, HTTP shell, seeds | single rows, or none | single statements and reads | answers kept too long | - |
| Browser session (`api.ts`, `auth.ts`, `useAuth.ts`, `proxy.ts`) | tokens in localStorage, cookie, store, refresh queue | login, refresh, logout, impersonate | 401s in parallel, reloads, late answers, several tabs | one refresh per token, nobody waits for ever, cookie, store and tokens agree |
| Pages (`app/dashboard/**`, `hooks/**`) | query cache, edit forms | visit, click, poll | what a write marks; what is offered by old rows | a page shows its own writes; what is offered is taken |

How they meet: createSale, cancelSale and updateItem share the inventory rows;
payInstallment, cancelSale and the overdue scan share the invoice; claims, renewals
and the expiry scans share the licence and the subscription rows; the gates read
what the claims write; the daily job calls a scan of each; a change of password
deletes what logins and refreshes insert; the browser's queue spends the tokens the
server rotates, and its cache is behind whatever anybody wrote.
`PROJECT.json` lists each part with what is modelled of it, and each hazard with its
line and its properties.

## The modules

| module | what it is |
|---|---|
| `StockLedger` | abstract: an invoice takes or returns all its units in one step |
| `StockTransactions` | createSale, cancelSale, updateItem as statements at READ COMMITTED; implements `StockLedger` |
| `InstallmentSales` | payInstallment, cancelSale and the overdue scan, statement by statement |
| `ClaimContract` | abstract: what a claim's rows may do, each change in one step |
| `SubscriptionLifecycle` | the transactions on claims and the licence; implements `ClaimContract` |
| `DailyScans` | the claim of the day, the licence scan and the subscription scan, day by day |
| `Accounts` | showrooms from their registration on: users, limits, claims as one-step transitions, and the gates |
| `AuthSessions` | one account: login, lock, refresh tokens, password changes, reset links, second factor |
| `Administration` | profiles, administrators, and the amplification gate before and inside its transaction |
| `BackOffice` | suppliers, customers, inventory rows and expenses with the services' checks, the edit forms and the audit trail |
| `ClientSession` | the browser: localStorage, cookie, store, refresh queue, impersonation |
| `Workbench` | the pages over one showroom: what each shows, offers, marks and polls, by role |
| `*Proofs` | theorems: `StockProofs`, `ShowroomProofs` (of `InstallmentSales` and of `BackOffice`, whose specification is named `OfficeSpec` so that one module can extend both), `SubscriptionProofs`, `DailyProofs`, `SessionProofs`, `AdministrationProofs`, `AccountProofs`, `BrowserProofs` (of `ClientSession` and of `Workbench`, whose specification is named `PagesSpec`) |
| `MC*` | an instance of each for TLC |

### How the database is modelled

By what it promises at READ COMMITTED. An UPDATE waits for the transaction that
holds a row it matched and then tests its WHERE clause on the committed row; what a
transaction wrote is invisible before its commit and gone after a rollback.
`rowLock`/`draft` (stock), `subLock`/`payLock` (claims), `saleLock`, `advisory`, the
`rotating` and `revoking` stages of `AuthSessions` and `lock` (supplier payments) are
those locks; `WaitsFor` and `DeadlockVictim` the waiting and the deadlock detector;
`TransactionLost` a timeout of Prisma's interactive transaction or a lost connection,
at any statement. `pc` says which statement of the source a request is at.

Reductions, each sound because nothing can happen in between that another request
could tell:

- A statement that waits for nothing and the commit behind it are one step. The
  fresh read and the status update after a decrement in createSale are part of it:
  the row is held.
- The claim and the restoration of stock in cancelSale are one step in
  `InstallmentSales`, where nobody sees the stock, and separate in
  `StockTransactions`, where nobody sees installments.
- activateSubscription reads payment and subscription by two queries; they are one
  step, since either being decided refuses the request.
- A statement on an installment in payInstallment and in the scans is its own
  transaction, as in the code (a batch of one).
- A request that only reads before its one write is two steps: the check and the
  write (`Accounts`, `Administration`, `BackOffice`). What it read is kept in `req`.
- In `Accounts` a transition of a claim is one step: `SubscriptionLifecycle`, shown
  to implement `ClaimContract`, justifies that.

### What is abstracted

Money and names; time is months in `SubscriptionLifecycle`, days in `DailyScans`,
due dates in order in `InstallmentSales`, and single events (a lock lapses, a token,
a link, a period ends) in `AuthSessions`, `ClientSession` and `Accounts`. An
inventory row occurs once per request; invoice numbers are of one year. ACTIVE stands
for ACTIVE or EXPIRED in `SubscriptionLifecycle` (whether a period runs is decided by
its date). TRIAL rows behave as ACTIVE ones in the scan that flips them. In
`DailyScans` a run ends before the next day's: they are 24 hours apart. A renewal
there takes months or any date (`renewSubscription` tests none, and `updateShowroom`
passes one on), and the SuperAdmin switches the showroom off and on, which the licence
scan looks at. `created_at`
is Prisma's, stamped when the insert runs, by the clock of the server that runs it:
`Skew` is how far those clocks can differ.

`AuthSessions` is of one account; a password is its version, and whether a TOTP code
is right is a choice. In `Administration` a grant stands for a permission at the one
scope validation allows. In `ClientSession` a pair of tokens is a number; what the
server answers is taken from `AuthSessions`, and that the time of an access token is up
shows when a request is sent with it. In `Workbench` one row of each kind
stands for its list, and refusals that depend on other rows (limits, duplicates) are
left to `Accounts` and `BackOffice`, but for the plan's seats and the profile's carriers,
which are statuses of the staff and of the profile; what it keeps is each page's queries,
the buttons it offers by role and row, the server's status checks, and the keys each
mutation marks. `trial` stands for a plan that has run out as well: both
are shown the plan cards (`billing/page.tsx:948`) and kept off the business pages. What a
row shows of rows of another kind (a customer's name on a sale) is left out. The item form of `BackOffice` holds
prices, units, colour and supplier; the type it selects is touched or not, without a value.

A definition marked *Mutant* beside another one is that code with a plausible mistake
in it. It is used by nothing in the specification; it is there to show that the
property in question fails when the code is wrong. History variables (`granted`,
`edits`, `raced`, `met`, `crossed`, `excused`, ...) record what happened and are read by
no guard, except where a bound is named.

## The runs

`tlc -workers 2 -config X.cfg M`; each ends within about three minutes.

| run | module, cfg | bounds | checks |
|---|---|---|---|
| `stock` | `MCStockTransactions` | 2 rows of 2 units, 2 sales in opposite row orders wanting 3 of one row, 3 cancellations (two of one invoice), 1 edit that recounts the contended row to 3, clocks agree | `NoLockLeaks`, `NumbersNeverCollide`, `LedgerImplemented`, `SaleTakesOnlyStockOnOffer`, `EveryRequestAnswered` (liveness) |
| `installments` | `MCInstallmentSales` | 1 invoice of 2 installments, 3 payers (two of one installment), 2 cancellations, any number of scans, 1 crash | `CollectedOnce`, `CompletedIsPaid`, `ReturnedOnceUnlessPaid`, `NotifiedOncePerCrash` |
| `subscription` | `MCSubscriptionLifecycle` | a purchase and a renewal, an approval and a rejection of one claim, 1 withdrawal, the scan, 1 renewal by months or to a date, 1 month | `PaidIsActive`, `ContractImplemented`, `EveryRequestAnswered`, `StaleClaimsEnd` (liveness) |
| `daily` | `MCDailyScans` | 2 instances, 2 periods, a renewal by months, to a date inside the window or to a past one, levels 3 and 1, 1 missed day, 1 crash, 1 failed notification | `LicenseWarnedOnce`, `LapseIsWarned`, `ExpiryIsAnnounced`, `PeriodsExpire` (liveness) |
| `accounts` | `MCAccounts` | 1 showroom and a second that competes for e-mails, 3 users, a limit of 2, 2 claims, 1 edit by the SuperAdmin, 2 requests at a time | `ShowroomHasOwner`, `NoBusinessBeforePlan`, `GateFollowsStatus`, `LimitPassedOnlyByRace` |
| `sessions` | `MCAuthSessions` | 3 requests of any kind, an open session, a threshold of 2, 2 backup codes, both kinds of account | `TokenSpentOnce`, `SurvivorsWereUnderWay`, `LockNeedsFailures`, `OpenLinksMet`, `UsedCodesAreGone` |
| `administration` | `MCAdministration` | 2 profiles, 1 delegate beside Root, 2 requests at a time, any number in turn | `PowersComeFromRoot`, `ProfileLostOnlyToRace` |
| `backoffice` | `MCBackOffice` | 2 owners and a member of staff, 2 suppliers, 2 customers, 1 item, 1 expense, 3 writes | `PaymentsMatchPaid`, `TrailTellsExpenses`, `DuplicatesByRaceOrReactivation`, `EditKeepsTheRest`, `SoldEditedOnlyByRace` |
| `client` | `MCClientSession` | 1 tab, 2 requests at a time, the SuperAdmin and an owner, 3 pairs of tokens | `GateAgreesWithStore`, `LogoutLeavesRefreshed`, `RefreshSentOnce`, `PartedByLateAnswer`, `EveryRequestEnds` (liveness) |
| `workbench` | `MCWorkbench` | each role; showrooms at work, partly paid, with a cancelled sale, with archived rows, new, on trial with its seats taken, and with a claim and nothing sold; 3 pages or writes of others, 1 write of the user (1.1 million states) | `PageShowsItsWrites`, `RefusedOnlyIfBehind` |
| `installments_cancel`, `second_factor` | the modules of `installments` and `sessions` | as there, without crashes | one violation each, below |

Why the bounds are enough to be interesting: every conditional write can be lost,
every pair of operations on shared rows meets in both orders, both deadlocks occur,
the second of two identical requests exists wherever the code promises one winner,
and a third where a rollback has to leave something usable for the next. In `daily` a
period outlasts the window, and the window (four days) the days that can be lost
(three), which is what `LapseIsWarned` needs; the levels are 3 and 1 instead of 30,
7, 1 and 7, 3, 1 with a day in between that has no level of its own. In `sessions`
three requests are a change, a rotation across it and a login that began before it,
or two links and a reset by one of them. In `accounts` two requests pass the count of
one place that is left. The bounds `MaxCrashes`, `MaxMissed`, `MaxFailures`,
`MaxPeriods`, `MaxNow`, `MaxClaims`, `MaxEdits`, `MaxTokens`, `MaxRequests`,
`MaxTurns`, `MaxBefore` and `MaxWrites` are guards of the actions they bound.

`RefreshSentOnce` was also checked with two tabs of one request each (`Tabs = {t1, t2}`,
`Slots = {q1}`): one user with three pairs of tokens (435,442 states up to exchanging
the tabs), and two users with two pairs. `GateAgreesWithStore` is
about a browser with one tab: the store of a second tab is read only when it loads.

Symmetry is used where the values are interchangeable and the run has no liveness
property. Deadlock checking is on except in `client`, `backoffice` and
`workbench`, whose bounds end what a user does; where all requests are answered the other
specifications step without a change (`AllAnswered`), or start over.

`TypeOK` of every component is proved (`OfficeTypeOK` is that of `BackOffice`,
`PagesTypeOK` that of `Workbench`); `OddItemsCameInBulk` of `BackOffice` holds in the
instance above: add it to the cfg with `INVARIANT`.

### Fairness

- A request the server accepted goes on. Its statements that wait for a lock have
  strong fairness, for the lock may be free and taken again while others pass:
  PostgreSQL queues waiters, so whoever waits gets it in the end. A request need not
  arrive: reading the first row has no fairness.
- PostgreSQL resolves a deadlock after its timeout: weak fairness, since a deadlock
  lasts until then. Which transaction it aborts is open.
- The daily job is triggered each day by some instance (weak fairness of `ClaimRun`,
  of days passing, and of the steps of a run). In `SubscriptionLifecycle` this is the
  fairness of `StartScan`; and of the scan's withdrawals, strong, because a
  withdrawal may be the victim of deadlocks or be lost, but not for ever.
- A request of the browser's `api` instance is answered by the server or by its timeout
  of 15 seconds (`api.ts:16`), and what waits for an answer runs when it comes: weak
  fairness of the steps of each request. The refresh is a bare `axios.post`
  (`api.ts:199`) without a timeout: that `Refresh` is fair says only that it is answered,
  fails, or is lost for good, and `EveryRequestEnds` holds for those that do not wait
  for a lost one. A login page that was asked for is loaded (`Unload`).
- Nothing is fair about crashes, failures, lost transactions and missed days, and
  nothing about a user.

## Where code and comments disagree

Two of these are runs, and findings in `PROJECT.json`:

- `CancelledIsUnpaid` (run `installments_cancel`). cancelSale counts paid installments
  inside its transaction (`sales.service.js:513`), and its comment (483-490) says
  READ COMMITTED is sufficient because the rows are re-read there. A payment that
  commits after the count and before the claim leaves a cancelled invoice with a paid
  installment: the count locks nothing.
- `RightCodeConfirms` (run `second_factor`). `/mfa/confirm-enrollment` is documented
  with the body `{ code }` (`mfa.controller.js:97`, `mfa.routes.js:43`), and the
  validator knows `code` only, but the handler refuses a request without `secret`
  (`mfa.controller.js:132`): the documented request with the right code is refused.

Others are definitions in the modules that no run lists. To see each violated, add
the line to the cfg in place of its other properties:

| property | line to add | the code | the comment |
|---|---|---|---|
| `FullyPaidIsCompleted` | `INVARIANT`, `MCInstallmentSales.cfg` | the conditional update completes a sale, but a payer that did not complete it writes ACTIVE or OVERDUE by primary key afterwards (`sales.service.js:709`), over a completion by another payer meanwhile | 665-671: decided atomically, the race that left it ACTIVE is removed |
| `FailedNoticeIsRetried` | `PROPERTY`, `MCInstallmentSales.cfg` | a run selects installments of ACTIVE invoices only (`notification.service.js:391`), and another installment's success makes the invoice OVERDUE (469) | 423-424: the next scheduled run picks it up |
| `ScanClosesOnlyStale` | `PROPERTY`, `MCSubscriptionLifecycle.cfg` | the claim found stale is withdrawn by showroom: if it was decided and another made meanwhile, the new one goes (`subscription.lifecycle.service.js:869`) | 847-852: an already cancelled or approved claim matches nothing |
| `RenewalLosesNoDays` | the same, `Reviews = {v1, v3}` | the latest running period is read by a statement of its own (447), and one that commits after that is not extended | 308-311: no lost days |
| `PeriodWarnedOnce` | `INVARIANT`, `MCDailyScans.cfg`, `PeriodLevels = {4, 3, 1}` | the update asks for a stored level below the new one (`notification.service.js:700`), and levels fall: after the first warning the mark never moves, and the second is sent every day of its level | 596-598: never replays |
| `RenewalRestartsWarnings` | `INVARIANT`, `MCDailyScans.cfg`, `MaxMissed`, `MaxCrashes`, `MaxFailures` = 0 | a run that has warned about the old period stores its level without a condition (574), over a renewal's reset | 516-519: a stale value would suppress every future warning |
| `BlockedUntilPurchase` | `INVARIANT`, `MCAccounts.cfg` | the gate looks for TRIAL on the latest row of any status (`account.middleware.js:45`), and a cancelled request is such a row; the status shown skips cancelled rows. Asking for a plan and withdrawing opens the business routes. `GateFollowsStatus` is what does hold of gate and status | `account.middleware.js:12-15`: a PENDING account is blocked until it purchases |
| `TrialHasAccess` | `INVARIANT`, `MCAccounts.cfg` | the status of a trial is PENDING (`subscription.lifecycle.service.js:39-60`) and the gate refuses every trial, as its own comment says; `NoBusinessBeforePlan` says what that makes true | `auth.controller.js:409-411`, 435-438: ACTIVE while the trial has time left, with full access, governed by the licence alone |
| `CreationsAreCovered` | `PROPERTY`, `MCAdministration.cfg` | the gate inside the transaction reads through another connection and locks nothing, so the delegate's powers may shrink before the write | `admin.controller.js:169-170`: check-then-write is race-free |
| `LogoutRevokes` | `INVARIANT`, `MCClientSession.cfg` | the logout sends the token of the store (`Sidebar.tsx:100-112`), which a refresh may have replaced. Logouts the server did not carry out are excepted here already: the page clears itself when the call fails (`Sidebar.tsx:102-111`), and the handler answers success when its delete does (`auth.controller.js:696`) | `docs/YS_MATRIX_DISCOVERY_REPORT.md:29`: logout revokes refresh |
| `EveryScreenRefreshes` | `INVARIANT`, `MCWorkbench.cfg` | a payment marks six keys (`usePayInstallment`), and pages show it under others | `useSales.ts:148-151`: every screen refreshes |
| `CardNeverDrifts` | `INVARIANT`, `MCWorkbench.cfg` | the two pages read the status under two keys, and adding a user marks the card's only | `users/page.tsx:57-61`: the same key, never drifts |

With `SPECIFICATION Spec` in the cfgs that have `FairSpec`: these are all safety
properties.

The properties the passing runs check are stated to be true beside these:
`ReturnedOnceUnlessPaid` excludes invoices somebody paid, `LapseIsWarned` excludes a
period begun while a run was at the licence, `LogoutLeavesRefreshed` names the only
tokens a logout leaves behind that the server carried out, `EditKeepsTheRest` the fields a
form changes untyped, `RefusedOnlyIfBehind` the nine offers that are refused on a row that
is what it was, `LimitPassedOnlyByRace`, `ProfileLostOnlyToRace`,
`DuplicatesByRaceOrReactivation`, `SoldEditedOnlyByRace` and `SurvivorsWereUnderWay`
say exactly when the check that is not repeated in the write is passed.
`PartedByLateAnswer` counts the session that is set aside during an impersonation as
well as the one in use: a late re-sync leaves a user beside another one's tokens, and
the pair can be set aside as it is and come back with the end of the impersonation.
`DuplicatesByRaceOrReactivation` is about the request whose own step writes the row: a
second request for the same customer may be under way meanwhile, and is not to blame.

Met while modelling, in the model as the code has them:

- A refresh answered after a logout puts live tokens back; leaving an impersonation
  restores the tokens that were set aside, spent or not (`auth.ts:43-50`); a logout
  while impersonating leaves Root's own tokens valid; two tabs may refresh one token,
  and the second is logged out.
- A changed quantity or status is overwritten by an edit form that was opened before
  (`inventory/page.tsx`), and updateItem tests SOLD on the row it read earlier; an
  edit of a customer by STAFF, who are not shown `national_id`, clears it
  (`customers/page.tsx:124`).
- The onboarding page sends a user back by a cached status, and the dashboard sends
  them to onboarding by another one. The server's 60-second cache is dropped by no
  write, nor are some of the client's queries.
- The sale drawer offers the cancellation to STAFF (`SaleDetailDrawer.tsx:240`), whom
  the page's own button leaves out and the server refuses; what must be settled before
  an archive is tested by the client only. The supplier's button is shut by
  `_count.inventory`, which counts archived rows (`supplier.service.js:65`), where its
  comment and tooltip speak of active ones (`suppliers/page.tsx:307`, 313).
- Other offers the server refuses on a row that is as it was shown: the cancellation of a
  sale with a paid installment (`sales/page.tsx:178`, `sales.service.js:518`), the payment
  of an installment of a cancelled sale in its drawer (`SaleDetailDrawer.tsx:98`,
  `sales.service.js:632`), a member enabled where the plan's seats are taken
  (`users.service.js:73`), the deletion of a profile that administrators carry
  (`admin.controller.js:424`).
- A refresh whose answer never comes keeps `isRefreshing` and its queue: no request of the
  page that meets a 401 ends before the page is loaded again. A 401 without a refresh token
  leaves `isRefreshing` set too (`api.ts:186-193`), until the login page is there.
- A touch of the item form's type select resets all of the form but the type
  (`inventory/page.tsx:454`): units and colour change untyped, and the prices, which are
  required, have to be typed again.
- deleteProfile answers success when the gate inside its transaction refused;
  updateAdministrator passes no gate when the form sends the profile the row was read
  with; a password set by somebody else does not clear the lock, though
  `schema.prisma` says a reset does; an approval writes `license_expiry` too, beside the one place
  `showroom.controller.js:249` names; the trial `auth.routes.js:80` calls ten days
  long is of five (`commercial.js:113`).

## What is proved

Each theorem is for every value of the constants, from the named assumptions of the
modules, which TLC evaluates: `OrderAssumption`, `RequestAssumption`,
`InstallmentAssumption`, `LifecycleAssumption`, `ScanAssumption`, `SessionAssumption`,
`CodesAssumption` (no backup code is the empty string that stands for none),
`AccountsAssumption` (among others that the e-mails are finitely many, so that users can
be counted), `AdministrationAssumption`, `ClientAssumption`, `BackOfficeAssumption` (the
ids of different tables differ) and `FieldsAssumption` (what is typed and sent has the
fields of its form) and `WorkbenchAssumption` (the rows and the role a user starts with
are some that exist, what others write is a write of the code). `NoSilentLapse` alone has a hypothesis more, `WindowCovers`: the
days that can be lost fit into the largest level; without it the claim is false, since
the licence can lapse within the lost days.

They all follow one scheme: an inductive invariant `IInv` (`OfficeInv` for `BackOffice`, `PagesInv`
for `Workbench`),
a conjunction of named parts, is true initially (`InitIInv`), preserved by every action
(one lemma each, or a few), hence always true (`Invariance`), and each property follows
from it or from it and a step. `IInv` was checked by TLC before it was proved. Why it
needs more than the property:

| module | properties | what the invariant adds |
|---|---|---|
| `StockProofs` | `NoLockLeaks`, `LedgerImplemented` (refinement), `SaleTakesOnlyStockOnOffer`, `NumbersNeverCollide` | a transaction holds exactly the rows of the lines behind it, and its drafts differ from the committed rows by what it took or gives back, so that a rollback changes nothing and a commit everything at once. For the numbers (`NumberInv`, clocks that agree: `Skew = 0`): whoever is between a number and its commit holds the advisory lock, and numbers grow with the timestamps |
| `ShowroomProofs`, of `InstallmentSales` | `CollectedOnce`, `CompletedIsPaid`, `ReturnedOnceUnlessPaid`, `NotifiedOncePerCrash`, `AuditsMatchFlips` | what is paid is what the successful requests paid; an invoice nobody paid has its stock back at most once and stays cancelled; an installment not marked was reported at most once per crash |
| `SubscriptionProofs` | `PaidIsActive`, `ContractImplemented` (refinement) | who has updated a row is in the middle of its transaction and the row still has the status the update asked for; one claim is open at a time, and its payment waits or was withdrawn alone |
| `ShowroomProofs`, of `BackOffice` | `PaymentsMatchPaid`, `TrailTellsExpenses`, `DuplicatesByRaceOrReactivation`, `EditKeepsTheRest`, `SoldEditedOnlyByRace` | a request that no other write came across has read the row as it still is, and found its number and id free; a form whose row was not written since shows it, and an edit under way sends that form as it was filled in; a payment has its supplier's row locked from the claim on, and fits into the balance; what each supplier was paid is where the running sums of the payments end; the one audit row that is yet to come goes on where the trail ends |
| `DailyProofs` | `LicenseWarnedOnce`, `ExpiryIsAnnounced`, `LapseIsWarned` | one instance runs at a time; a warning the stored level does not tell of is one a run was cut off behind, or is about to store. For the lapse (`LapseInv`): as long as nobody was warned of a period that is owed a warning (`owed`), the days left and the days already lost are together no fewer than the days that can be lost, which it began with. A period that began with fewer, one passed over while the showroom was off, and one that began in the middle of a run are owed none: the code lets them lapse unwarned |
| `SessionProofs` | `TokenSpentOnce`, `LockNeedsFailures`, `SurvivorsWereUnderWay`, `OpenLinksMet`, `UsedCodesAreGone` | a rotation has its token for itself until it commits, and a spent token stays gone; no count, stored or read, is ahead of the failures; a revocation on its way misses no token but those stored meanwhile; who is between the two statements of a reset link has met everyone else there; a list of codes that was read is the stored one, but for lists that two verifications read at once |
| `AdministrationProofs` | `PowersComeFromRoot`, `ProfileLostOnlyToRace` | what a delegate's request was admitted for is within what Root ever gave; whoever has a profile whose deletion is on its way took it meanwhile |
| `AccountProofs` | `ShowroomHasOwner`, `NoBusinessBeforePlan`, `GateFollowsStatus`, `LimitPassedOnlyByRace` | a request about to toggle a user toggles STAFF of its showroom, unless the SuperAdmin edited it; the only row of a showroom nobody gave time is its trial, running or expired; a claim is EXPIRED only after its end; a request let through by a count that nobody overtook still has its place |
| `BrowserProofs`, of `ClientSession` | `GateAgreesWithStore`, `LogoutLeavesRefreshed`, `RefreshSentOnce`, `PartedByLateAnswer` | one request of a tab refreshes at a time, behind `isRefreshing`, and its end wakes the others; the refresh token that would be sent is stored by the server, or its end was not told to this browser; the store's token is that of its login until a refresh, and a login whose logout was carried out has no token of its own stored; with one tab the store, what is saved of it and the cookie change together |
| `BrowserProofs`, of `Workbench` | `PageShowsItsWrites`, `RefusedOnlyIfBehind` | a cached key that is behind has a reason, the writes since its answer (`Explained`); if one of them set a row the key reads and marks the key, the key is due or nothing of it is shown (`Marked`); a query is shown only while its route is open (`Opened`); a write that is on its way was offered by a button of its page, to this role, on the row it holds (`Offered`) |

`TypeCorrect` of each is a theorem too. Conditional writes are what most of these
proofs rest on: the test is repeated on the committed row under its lock, and the
invariant says what the earlier, unlocked read still guarantees (usually nothing).

Sums over the payments are a recursive function of the length, and that it exists
and what a payment adds to it (`SumsAre`, `SumsGrow`) is shown by a least number where
two such functions would differ (`LeastOf`), which needs no induction over an operator.

The proofs about `Workbench` join its tables, which are the code's, and the invariant.
Each table is first stated row by row (which rows a query reads: `TradeRows` to
`OperatorRows`; what a write sets, needs, marks and whom it takes: `OpsAre`; what a panel
shows and offers: `PanelRows`, `PagesAre`), and two facts about them are what the
properties come down to. `PagesTell`: every button of a page marks each key of that page
that reads what it sets, but for the keys `LeftByTheirButtons` names. `OffersFit`: what
the server asks of a row, a button asks of it as well, but for `RefusedAnyway`. The run goes
through the tables for the worlds of its instance; these lemmas are for every role, every
combination of statuses and any number of writes. It is there that the payment of a
supplier who is owed nothing was met, which the sheet offers (`suppliers/page.tsx:693`)
and the server refuses: it is one of the nine offers `RefusedAnyway` names, and the run
has showrooms in which TLC meets each of them.

`Workbench` builds its tables with `:>` and `@@` of its own, since those of the module
TLC cannot be expanded in a proof.

Only model-checked: liveness under fairness (`EveryRequestAnswered`, `StaleClaimsEnd`,
`PeriodsExpire`, `EveryRequestEnds`) and anything with ENABLED, which are out of the
prover's reach, and so is induction over data where the induction is not over numbers
(no module a proof uses has a RECURSIVE operator). Every safety property of the passing
runs is a theorem.

## Not modelled

- Tenant isolation: a Prisma extension that adds the showroom to every query. It is
  one function without a state of its own, and every module is of the showrooms whose
  rows it names.
- Plans and market pricing: a look-up; a claim keeps the snapshot it was made with.
- The arithmetic of reports, the PDFs and the search: reads. Their queries and the
  audit pages are in `Workbench` as far as what they show may be behind.
- attachPaymentProof checks and writes without a transaction; the button is in
  `Workbench`, the statement is not in `SubscriptionLifecycle`.
- Of the HTTP shell: CORS, validation, error pages, logging; rate limits are timers
  over counters of one process. Of the response cache: all but what a page is shown.
- Seeds, scripts, migrations, tests; layout and wording of the frontend.
