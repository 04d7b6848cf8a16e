-------------------------- MODULE StockTransactions --------------------------
(***************************************************************************)
(* createSale, cancelSale and updateItem of one showroom as PostgreSQL     *)
(* runs them at READ COMMITTED: a request is a sequence of statements, the *)
(* statements of different requests interleave, an UPDATE of a row waits   *)
(* for the transaction that holds the row and then re-evaluates its WHERE  *)
(* clause on the committed row, nothing a transaction wrote is visible     *)
(* before its commit, and a rollback undoes all of it.                     *)
(*                                                                         *)
(* Out of this module: the money on the invoice, the customer, and the     *)
(* installments of the sale (InstallmentSales).  One line per inventory    *)
(* row: a request that names a row twice is not modelled.                  *)
(***************************************************************************)
EXTENDS Integers, Sequences

CONSTANTS
  Items,          \* inventory rows
  Sales,          \* createSale requests, each the invoice it would create
  Cancels,        \* cancelSale requests
  Edits,          \* updateItem requests
  Lines,          \* Lines[s]: the rows invoice s sells, in request order
  Want,           \* Want[s][i]: units of row i that invoice s sells
  CancelOf,       \* CancelOf[c]: the invoice cancelSale request c is about
  EditOf,         \* EditOf[e]: what updateItem request e sends
  InitialQty,     \* units of each row at the start
  InitialStatus,  \* status of each row at the start
  Skew,           \* how far apart the clocks of two server instances can be
  NoTx            \* no transaction

StockStatus == {"IN_STOCK", "RESERVED", "SOLD", "RETURNED"}
SaleStatus  == {"NONE", "ACTIVE", "CANCELLED"}
NotSent     == -1   \* a quantity the PATCH body leaves out
Tx          == Sales \cup Cancels
Requests    == Tx \cup Edits
Row         == [qty : Nat, status : StockStatus]
EditRequest == [item : Items, quantity : Nat \cup {NotSent},
                status : StockStatus \cup {"not sent"}, release : BOOLEAN]

ASSUME OrderAssumption ==
  /\ Lines \in [Sales -> Seq(Items)]
  /\ Want \in [Sales -> [Items -> Nat]]
  /\ \A s \in Sales : \A j, k \in 1..Len(Lines[s]) :
        Lines[s][j] = Lines[s][k] => j = k
  /\ \A s \in Sales, i \in Items :
        Want[s][i] > 0 <=> \E k \in 1..Len(Lines[s]) : Lines[s][k] = i

ASSUME RequestAssumption ==
  /\ CancelOf \in [Cancels -> Sales]
  /\ EditOf \in [Edits -> EditRequest]
  /\ InitialQty \in [Items -> Nat]
  /\ InitialStatus \in [Items -> StockStatus]
  /\ Skew \in Nat
  /\ NoTx \notin Requests
  /\ Sales \cap Cancels = {} /\ Sales \cap Edits = {} /\ Cancels \cap Edits = {}

VARIABLES
  row,        \* row[i]: the committed inventory row
  rowLock,    \* rowLock[i]: the transaction that has updated row i, or NoTx
  draft,      \* draft[i]: the row as that transaction wrote it
  advisory,   \* holder of the showroom's advisory lock, or NoTx
  pc,         \* pc[r]: where each request is
  line,       \* line[t]: the line a transaction updates next
  saleStatus, \* saleStatus[s]: the committed invoice, "NONE" before its commit
  saleLock,   \* saleLock[s]: the cancellation that has updated invoice s, or NoTx
  invoice,    \* invoice[s]: the sequence number drawn for invoice s, 0 before
  createdAt,  \* createdAt[s]: the timestamp of the invoice row
  clock       \* time, advanced by every invoice insert

stockVars == <<row, rowLock, draft>>
saleVars  == <<saleStatus, saleLock>>
numVars   == <<advisory, invoice, createdAt, clock>>
vars      == <<row, rowLock, draft, advisory, pc, line, saleStatus, saleLock,
               invoice, createdAt, clock>>

NoDraft == [qty |-> 0, status |-> "IN_STOCK"]

Init ==
  /\ row = [i \in Items |-> [qty |-> InitialQty[i], status |-> InitialStatus[i]]]
  /\ rowLock    = [i \in Items |-> NoTx]
  /\ draft      = [i \in Items |-> NoDraft]
  /\ advisory   = NoTx
  /\ pc         = [r \in Requests |-> "new"]
  /\ line       = [t \in Tx |-> 1]
  /\ saleStatus = [s \in Sales |-> "NONE"]
  /\ saleLock   = [s \in Sales |-> NoTx]
  /\ invoice    = [s \in Sales |-> 0]
  /\ createdAt  = [s \in Sales |-> 0]
  /\ clock      = 0

Goto(r, label) == pc' = [pc EXCEPT ![r] = label]

-----------------------------------------------------------------------------
(* The database: what an UPDATE, a COMMIT and a ROLLBACK do to the rows.    *)

\* An UPDATE by transaction t that matched row i: t holds the row from here on.
WriteRow(t, i, image) ==
  /\ rowLock[i] = NoTx
  /\ rowLock' = [rowLock EXCEPT ![i] = t]
  /\ draft'   = [draft EXCEPT ![i] = image]
  /\ UNCHANGED row

ReleaseRows(t) ==
  /\ rowLock' = [i \in Items |-> IF rowLock[i] = t THEN NoTx ELSE rowLock[i]]
  /\ draft'   = [i \in Items |-> IF rowLock[i] = t THEN NoDraft ELSE draft[i]]

PublishRows(t) ==
  /\ row' = [i \in Items |-> IF rowLock[i] = t THEN draft[i] ELSE row[i]]
  /\ ReleaseRows(t)

\* Mutant: the advisory lock is the session's (pg_advisory_lock), so a rollback
\* leaves it behind.
RollbackKeepsAdvisory(t) ==
  /\ ReleaseRows(t)
  /\ saleLock' = [s \in Sales |-> IF saleLock[s] = t THEN NoTx ELSE saleLock[s]]
  /\ Goto(t, "failed")
  /\ UNCHANGED <<row, advisory, line, saleStatus, invoice, createdAt, clock>>

\* Mutant: the statements run outside a transaction, so a failure keeps the
\* units the earlier lines took.
RollbackKeepsRows(t) ==
  /\ PublishRows(t)
  /\ advisory' = IF advisory = t THEN NoTx ELSE advisory
  /\ saleLock' = [s \in Sales |-> IF saleLock[s] = t THEN NoTx ELSE saleLock[s]]
  /\ Goto(t, "failed")
  /\ UNCHANGED <<line, saleStatus, invoice, createdAt, clock>>

\* The rollback of t: every lock it holds goes, with what it wrote.
Rollback(t) ==
  /\ ReleaseRows(t)
  /\ advisory' = IF advisory = t THEN NoTx ELSE advisory
  /\ saleLock' = [s \in Sales |-> IF saleLock[s] = t THEN NoTx ELSE saleLock[s]]
  /\ Goto(t, "failed")
  /\ UNCHANGED <<row, line, saleStatus, invoice, createdAt, clock>>

-----------------------------------------------------------------------------
(* createSale.                                                              *)

\* The availability check that runs before the transaction, on one snapshot.
PreCheckPasses(s) ==
  \A k \in 1..Len(Lines[s]) :
     LET i == Lines[s][k]
     IN  row[i].status = "IN_STOCK" /\ Want[s][i] <= row[i].qty

CheckAvailability(s) ==
  /\ pc[s] = "new"
  /\ Goto(s, IF PreCheckPasses(s) THEN "checked" ELSE "rejected")
  /\ UNCHANGED <<stockVars, numVars, line, saleVars>>

Invoiced == {s \in Sales : saleStatus[s] # "NONE"}

\* The rows findFirst may return: any of the latest by created_at.
LastSales == {s \in Invoiced : \A u \in Invoiced : createdAt[u] <= createdAt[s]}

\* seq = 1 for the first invoice, the last one's number plus one afterwards.
NextNumbers ==
  IF Invoiced = {} THEN {1} ELSE {invoice[s] + 1 : s \in LastSales}

\* Mutant: the lock covers the counter read alone, as before v1.3 of invoice.js.
TakeNumberUnlocked(s) ==
  /\ pc[s] = "checked"
  /\ advisory = NoTx
  /\ \E n \in NextNumbers : invoice' = [invoice EXCEPT ![s] = n]
  /\ Goto(s, "numbered")
  /\ UNCHANGED <<stockVars, advisory, line, saleVars, createdAt, clock>>

\* generateInvoiceNumber inside the transaction: the advisory lock, held to
\* the end of the transaction, and the number after the last invoice's.
TakeNumber(s) ==
  /\ pc[s] = "checked"
  /\ advisory = NoTx
  /\ advisory' = s
  /\ \E n \in NextNumbers : invoice' = [invoice EXCEPT ![s] = n]
  /\ Goto(s, "numbered")
  /\ UNCHANGED <<stockVars, line, saleVars, createdAt, clock>>

\* The insert of the invoice, stamped with the clock of the server.  It waits
\* for an uncommitted invoice of the same number, and fails on the unique
\* (showroom_id, invoice_number) index when a committed one has it.
InsertSale(s) ==
  /\ pc[s] = "numbered"
  /\ ~\E u \in Sales : pc[u] = "claiming" /\ invoice[u] = invoice[s]
  /\ IF \E u \in Invoiced : invoice[u] = invoice[s]
       THEN /\ advisory' = NoTx
            /\ Goto(s, "duplicate")
            /\ UNCHANGED <<createdAt, clock>>
       ELSE /\ \E d \in 0..Skew : createdAt' = [createdAt EXCEPT ![s] = clock + d]
            /\ clock' = clock + 1
            /\ Goto(s, "claiming")
            /\ UNCHANGED advisory
  /\ UNCHANGED <<stockVars, line, saleVars, invoice>>

\* Mutant: the claim tests the quantity alone.
ClaimableByQuantity(s, i) == Want[s][i] <= row[i].qty

\* The units of the next line are free to be claimed.
Claimable(s, i) == row[i].status = "IN_STOCK" /\ Want[s][i] <= row[i].qty

\* The conditional decrement of one line, the fresh read and the status it
\* decides; nothing runs between the three, for the row is held.
ClaimLine(s) ==
  /\ pc[s] = "claiming" /\ line[s] <= Len(Lines[s])
  /\ LET i    == Lines[s][line[s]]
         left == row[i].qty - Want[s][i]
     IN  /\ Claimable(s, i)
         /\ WriteRow(s, i, [qty    |-> left,
                            status |-> IF left = 0 THEN "SOLD" ELSE "IN_STOCK"])
  /\ line' = [line EXCEPT ![s] = @ + 1]
  /\ UNCHANGED <<numVars, pc, saleVars>>

\* The decrement matched no row (it waits only for a row that matches): the
\* answer is CONFLICT, and the whole sale rolls back.
LoseClaim(s) ==
  /\ pc[s] = "claiming" /\ line[s] <= Len(Lines[s])
  /\ ~Claimable(s, Lines[s][line[s]])
  /\ Rollback(s)

CommitSale(s) ==
  /\ pc[s] = "claiming" /\ line[s] > Len(Lines[s])
  /\ PublishRows(s)
  /\ saleStatus' = [saleStatus EXCEPT ![s] = "ACTIVE"]
  /\ advisory'   = NoTx
  /\ Goto(s, "done")
  /\ UNCHANGED <<line, saleLock, invoice, createdAt, clock>>

-----------------------------------------------------------------------------
(* cancelSale.                                                              *)

\* The read before the transaction: a missing or cancelled invoice is refused.
ReadSale(c) ==
  /\ pc[c] = "new"
  /\ Goto(c, IF saleStatus[CancelOf[c]] = "ACTIVE" THEN "checked" ELSE "rejected")
  /\ UNCHANGED <<stockVars, numVars, line, saleVars>>

\* The conditional flip ACTIVE -> CANCELLED: the claim that picks one winner.
ClaimCancel(c) ==
  LET s == CancelOf[c]
  IN  /\ pc[c] = "checked"
      /\ saleLock[s] = NoTx
      /\ IF saleStatus[s] = "ACTIVE"
           THEN Goto(c, "restoring") /\ saleLock' = [saleLock EXCEPT ![s] = c]
           ELSE Goto(c, "failed") /\ UNCHANGED saleLock
      /\ UNCHANGED <<stockVars, numVars, line, saleStatus>>

RestoreLine(c) ==
  LET s == CancelOf[c]
  IN  /\ pc[c] = "restoring" /\ line[c] <= Len(Lines[s])
      /\ LET i == Lines[s][line[c]]
         IN  WriteRow(c, i, [qty |-> row[i].qty + Want[s][i], status |-> "IN_STOCK"])
      /\ line' = [line EXCEPT ![c] = @ + 1]
      /\ UNCHANGED <<numVars, pc, saleVars>>

CommitCancel(c) ==
  LET s == CancelOf[c]
  IN  /\ pc[c] = "restoring" /\ line[c] > Len(Lines[s])
      /\ PublishRows(c)
      /\ saleStatus' = [saleStatus EXCEPT ![s] = "CANCELLED"]
      /\ saleLock'   = [saleLock EXCEPT ![s] = NoTx]
      /\ Goto(c, "done")
      /\ UNCHANGED <<numVars, line>>

-----------------------------------------------------------------------------
(* What ends a transaction from outside.                                    *)

InTransaction(t) == pc[t] \in {"numbered", "claiming", "restoring"}

LinesOf(t) == IF t \in Sales THEN Lines[t] ELSE Lines[CancelOf[t]]

\* t waits for the row of its next line, which u holds.
WaitsFor(t, u) ==
  /\ pc[t] \in {"claiming", "restoring"} /\ line[t] <= Len(LinesOf(t))
  /\ rowLock[LinesOf(t)[line[t]]] = u
  /\ t \in Sales => Claimable(t, Lines[t][line[t]])

\* t is on a cycle of waiting transactions: each waits for one of the set,
\* and each is waited for by one of the set.
Deadlocked(t) ==
  \E S \in SUBSET Tx :
    /\ t \in S
    /\ \A u \in S : (\E v \in S : WaitsFor(u, v)) /\ (\E v \in S : WaitsFor(v, u))

\* PostgreSQL's deadlock detector aborts one transaction of the cycle.
DeadlockVictim(t) == Deadlocked(t) /\ Rollback(t)

\* The interactive transaction times out, or the instance or its connection
\* is gone: the database rolls it back.
TransactionLost(t) == InTransaction(t) /\ Rollback(t)

-----------------------------------------------------------------------------
(* updateItem: a read, checks on what was read, and an unconditional write. *)

EditAllowed(e) ==
  LET r == row[EditOf[e].item]
  IN  /\ r.status # "SOLD"
      /\ ~(/\ r.status = "RESERVED" /\ EditOf[e].status = "IN_STOCK"
           /\ ~EditOf[e].release)

ReadItem(e) ==
  /\ pc[e] = "new"
  /\ Goto(e, IF EditAllowed(e) THEN "checked" ELSE "rejected")
  /\ UNCHANGED <<stockVars, numVars, line, saleVars>>

WriteItem(e) ==
  LET r    == EditOf[e]
      old  == row[r.item]
  IN  /\ pc[e] = "checked"
      /\ rowLock[r.item] = NoTx
      /\ row' = [row EXCEPT ![r.item] =
           [qty    |-> IF r.quantity = NotSent THEN old.qty ELSE r.quantity,
            status |-> IF r.status = "not sent" THEN old.status ELSE r.status]]
      /\ Goto(e, "done")
      /\ UNCHANGED <<rowLock, draft, numVars, line, saleVars>>

-----------------------------------------------------------------------------
Finished == {"done", "rejected", "failed", "duplicate"}

\* Every request has been answered: nothing is left to do.
AllAnswered == (\A r \in Requests : pc[r] \in Finished) /\ UNCHANGED vars

SaleStep(s) ==
  \/ CheckAvailability(s) \/ TakeNumber(s) \/ InsertSale(s)
  \/ ClaimLine(s) \/ LoseClaim(s) \/ CommitSale(s)

CancelStep(c) == ReadSale(c) \/ ClaimCancel(c) \/ RestoreLine(c) \/ CommitCancel(c)

EditStep(e) == ReadItem(e) \/ WriteItem(e)

Next ==
  \/ \E s \in Sales : SaleStep(s)
  \/ \E c \in Cancels : CancelStep(c)
  \/ \E e \in Edits : EditStep(e)
  \/ \E t \in Tx : DeadlockVictim(t) \/ TransactionLost(t)
  \/ AllAnswered

Spec == Init /\ [][Next]_vars

\* The steps of a request the server has accepted.
Progress(r) ==
  \/ r \in Sales /\ ( \/ TakeNumber(r) \/ InsertSale(r)
                     \/ ClaimLine(r) \/ LoseClaim(r) \/ CommitSale(r))
  \/ r \in Cancels /\ (ClaimCancel(r) \/ RestoreLine(r) \/ CommitCancel(r))
  \/ r \in Edits /\ WriteItem(r)

\* A server keeps executing a request it accepted; PostgreSQL hands a lock to
\* its waiters in turn, so a request that waits again and again gets it (SF),
\* and it resolves a deadlock, which lasts until then (WF).  A request need not
\* arrive, and a transaction need not be lost.
Fairness ==
  /\ \A r \in Requests : SF_vars(Progress(r))
  /\ WF_vars(\E t \in Tx : DeadlockVictim(t))

FairSpec == Spec /\ Fairness

-----------------------------------------------------------------------------
(* Properties.                                                              *)

\* Every variable has its type, and a draft exists only while its row is held.
TypeOK ==
  /\ row \in [Items -> Row]
  /\ rowLock \in [Items -> Tx \cup {NoTx}]
  /\ draft \in [Items -> Row]
  /\ advisory \in Sales \cup {NoTx}
  /\ pc \in [Requests -> {"new", "checked", "numbered", "claiming", "restoring"} \cup Finished]
  /\ line \in [Tx -> Nat \ {0}]
  /\ saleStatus \in [Sales -> SaleStatus]
  /\ saleLock \in [Sales -> Cancels \cup {NoTx}]
  /\ invoice \in [Sales -> Nat]
  /\ createdAt \in [Sales -> Nat]
  /\ clock \in Nat

\* The ledger the committed rows and invoices make up.
Ledger == INSTANCE StockLedger WITH
  Demand <- Want,
  qty    <- [i \in Items |-> row[i].qty],
  sale   <- saleStatus

\* createSale and cancelSale move stock all-or-nothing: the committed state
\* changes only as the ledger's Sell, Return and Recount allow, whatever the
\* interleaving, the lost claims, the deadlocks and the lost transactions.
LedgerImplemented == Ledger!LedgerSpec

\* A row is held only by a transaction that is running and has updated it: no
\* rollback or commit leaves a lock behind, and the advisory lock is held only
\* by a sale between its number and its end.
NoLockLeaks ==
  /\ \A i \in Items : rowLock[i] # NoTx =>
       /\ InTransaction(rowLock[i])
       /\ \E k \in 1..(line[rowLock[i]] - 1) :
            k <= Len(LinesOf(rowLock[i])) /\ LinesOf(rowLock[i])[k] = i
  /\ \A s \in Sales : pc[s] \in {"numbered", "claiming"} <=> advisory = s
  /\ \A s \in Sales : saleLock[s] # NoTx => pc[saleLock[s]] = "restoring"

\* When the instances' clocks agree, the number drawn under the advisory lock
\* is never taken: no sale fails on the unique invoice-number index.
NumbersNeverCollide == \A s \in Sales : pc[s] # "duplicate"

\* A sale takes units only from a row on offer: when its commit changes a row,
\* the row was IN_STOCK with enough units, and is SOLD just when none is left.
SaleTakesOnlyStockOnOffer ==
  [][\A s \in Sales, i \in Items :
       (saleStatus[s] = "NONE" /\ saleStatus'[s] = "ACTIVE" /\ row'[i] # row[i]) =>
          /\ row[i].status = "IN_STOCK"
          /\ row'[i].qty = row[i].qty - Want[s][i]
          /\ row'[i].status = IF row'[i].qty = 0 THEN "SOLD" ELSE "IN_STOCK"]_vars

\* Every request the server accepted is answered: waiting for a row, for the
\* advisory lock or for another cancellation ends, deadlocks included.
EveryRequestAnswered ==
  \A r \in Requests : (pc[r] # "new") ~> (pc[r] \in Finished)

-----------------------------------------------------------------------------
(* The inductive invariant the proofs of StockProofs rest on.               *)

Busy(t) == pc[t] \in {"claiming", "restoring"}
Held(t) == {LinesOf(t)[k] : k \in 1..(line[t] - 1)}

\* Each kind of request stays in its own part of the protocol.
PhaseInv ==
  /\ \A s \in Sales : pc[s] # "restoring"
  /\ \A c \in Cancels : pc[c] \notin {"numbered", "claiming"}
  /\ \A e \in Edits : pc[e] \notin {"numbered", "claiming", "restoring"}

\* A transaction starts at its first line and stops after its last.
LineInv ==
  \A t \in Tx :
    /\ line[t] <= Len(LinesOf(t)) + 1
    /\ ~Busy(t) /\ pc[t] \notin Finished => line[t] = 1

\* A transaction holds exactly the rows of the lines behind it.
LockInv == \A t \in Tx, i \in Items : rowLock[i] = t <=> Busy(t) /\ i \in Held(t)

\* The image a sale wrote takes its units from a row on offer.
SaleDraftInv ==
  \A s \in Sales, i \in Items : rowLock[i] = s =>
    /\ row[i].status = "IN_STOCK"
    /\ Want[s][i] <= row[i].qty
    /\ draft[i].qty = row[i].qty - Want[s][i]
    /\ draft[i].status = IF draft[i].qty = 0 THEN "SOLD" ELSE "IN_STOCK"

\* The image a cancellation wrote returns the units of its invoice.
CancelDraftInv ==
  \A c \in Cancels, i \in Items : rowLock[i] = c =>
    draft[i] = [qty |-> row[i].qty + Want[CancelOf[c]][i], status |-> "IN_STOCK"]

\* An invoice exists from its commit on, and the advisory lock is a sale's
\* from its number to its end.
InvoiceInv ==
  \A s \in Sales :
    /\ saleStatus[s] # "NONE" => pc[s] = "done"
    /\ advisory = s <=> pc[s] \in {"numbered", "claiming"}

\* The cancellation that restores is the one that holds the live invoice.
CancelInv ==
  \A c \in Cancels, s \in Sales :
    saleLock[s] = c <=> pc[c] = "restoring" /\ CancelOf[c] = s

LiveInv == \A s \in Sales : saleLock[s] # NoTx => saleStatus[s] = "ACTIVE"

IInv ==
  /\ TypeOK /\ PhaseInv /\ LineInv /\ LockInv /\ SaleDraftInv
  /\ CancelDraftInv /\ InvoiceInv /\ CancelInv /\ LiveInv

\* Numbers grow with the timestamps, and a number drawn under the lock is above
\* every number in use (for clocks that agree).
NumberInv ==
  /\ \A s \in Invoiced : createdAt[s] < clock
  /\ \A s, u \in Invoiced : createdAt[s] <= createdAt[u] => invoice[s] <= invoice[u]
  /\ \A s \in Sales, u \in Invoiced :
       pc[s] \in {"numbered", "claiming"} => invoice[u] < invoice[s]
  /\ \A s \in Sales : pc[s] = "claiming" =>
       /\ createdAt[s] < clock
       /\ \A u \in Invoiced : createdAt[u] < createdAt[s]
  /\ NumbersNeverCollide
=============================================================================
