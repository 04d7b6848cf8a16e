--------------------------- MODULE InstallmentSales ---------------------------
(***************************************************************************)
(* The life of installment invoices: payInstallment and cancelSale         *)
(* requests and the nightly runOverdueInstallmentScan, interleaved         *)
(* statement by statement.  payInstallment runs its statements one by one, *)
(* each its own transaction; so does the scan, per row it selected;        *)
(* cancelSale counts the paid installments and then claims the invoice     *)
(* inside one READ COMMITTED transaction, whose count no lock protects.    *)
(*                                                                         *)
(* The claim of cancelSale and the return of the stock are one step here:  *)
(* the claim holds the invoice row until the commit, and StockTransactions *)
(* is the module about what the rows of the stock see meanwhile.           *)
(***************************************************************************)
EXTENDS Integers, FiniteSets

CONSTANTS
  Sales,      \* installment invoices
  N,          \* installments of an invoice, numbered in the order they fall due
  Payers,     \* payInstallment requests
  Pays,       \* Pays[p]: the installment request p pays, [sale, n]
  Cancels,    \* cancelSale requests
  CancelOf,   \* CancelOf[c]: the invoice request c cancels
  MaxCrashes  \* bound on how often the scan is cut off

Insts       == 1..N
Installment == [sale : Sales, n : Insts]
SaleStatus  == {"ACTIVE", "OVERDUE", "COMPLETED", "CANCELLED"}
NoDate      == 0  \* next_due_date is null; otherwise the installment it dates from

ASSUME InstallmentAssumption ==
  /\ Sales # {} /\ N \in Nat \ {0}
  /\ Pays \in [Payers -> Installment]
  /\ CancelOf \in [Cancels -> Sales]
  /\ Payers \cap Cancels = {}
  /\ MaxCrashes \in Nat

VARIABLES
  status,    \* status[s]: sale.status
  nextDue,   \* nextDue[s]: sale.next_due_date, as the installment it belongs to
  paid,      \* the installments with is_paid
  due,       \* due[s]: how many installments of s have passed their due_date
  notified,  \* the installments with overdue_notified_at
  pc,        \* pc[r]: where request r is
  nextSeen,  \* nextSeen[p]: the first unpaid installment p read
  lateSeen,  \* lateSeen[p]: whether p counted an overdue installment
  collected, \* the payment requests whose flip of is_paid succeeded
  returned,  \* returned[s]: how often cancelSale gave the stock of s back
  scan,      \* where the scan is
  queue,     \* the installments it has selected and not begun
  current,   \* the installment it is at (when it is at one)
  sent,      \* sent[i]: overdue notifications delivered about installment i
  unsent,    \* the installments whose latest notification failed
  flips,     \* flips[s]: ACTIVE -> OVERDUE flips by the scan
  audits,    \* audits[s]: SALE_MARKED_OVERDUE audit rows
  crashes    \* how often the scan was cut off

saleVars == <<status, nextDue>>
reqVars  == <<pc, nextSeen, lateSeen, collected, returned>>
scanVars == <<scan, queue, current, sent, unsent, flips, audits, crashes>>
vars     == <<status, nextDue, paid, due, notified, pc, nextSeen, lateSeen, collected,
              returned, scan, queue, current, sent, unsent, flips, audits, crashes>>

Of(s)     == {i \in Installment : i.sale = s}
Unpaid(s) == Of(s) \ paid
Overdue(i) == i \notin paid /\ i.n <= due[i.sale]

\* The installment findFirst orders to the front: the one that falls due first
\* among those unpaid.
FirstUnpaid(s) ==
  IF Unpaid(s) = {} THEN {NoDate}
  ELSE {i.n : i \in {j \in Unpaid(s) : \A k \in Unpaid(s) : j.n <= k.n}}

\* createSale has committed: every installment is unpaid and still to come.
Init ==
  /\ status   = [s \in Sales |-> "ACTIVE"]
  /\ nextDue  = [s \in Sales |-> 1]
  /\ paid     = {}
  /\ due      = [s \in Sales |-> 0]
  /\ notified = {}
  /\ pc       = [r \in Payers \cup Cancels |-> "new"]
  /\ nextSeen = [p \in Payers |-> NoDate]
  /\ lateSeen = [p \in Payers |-> FALSE]
  /\ collected = {}
  /\ returned = [s \in Sales |-> 0]
  /\ scan     = "idle"
  /\ queue    = {}
  /\ current  = CHOOSE i \in Installment : TRUE
  /\ sent     = [i \in Installment |-> 0]
  /\ unsent   = {}
  /\ flips    = [s \in Sales |-> 0]
  /\ audits   = [s \in Sales |-> 0]
  /\ crashes  = 0

Goto(r, label) == pc' = [pc EXCEPT ![r] = label]

\* Time: the next installment of s passes its due date.
DueDatePasses(s) ==
  /\ due[s] < N
  /\ due' = [due EXCEPT ![s] = @ + 1]
  /\ UNCHANGED <<saleVars, paid, notified, reqVars, scanVars>>

-----------------------------------------------------------------------------
(* payInstallment.                                                          *)

\* The first read: a paid installment or a cancelled invoice is refused.
ReadInstallment(p) ==
  /\ pc[p] = "new"
  /\ Goto(p, IF Pays[p] \in paid \/ status[Pays[p].sale] = "CANCELLED"
               THEN "rejected" ELSE "read")
  /\ UNCHANGED <<saleVars, paid, due, notified, nextSeen, lateSeen, collected, returned,
                 scanVars>>

\* Mutant: the flip by primary key, without is_paid in its WHERE clause.
FlipPaidAlways(p) ==
  /\ pc[p] = "read"
  /\ paid' = paid \cup {Pays[p]}
  /\ collected' = collected \cup {p}
  /\ Goto(p, "flipped")
  /\ UNCHANGED <<saleVars, due, notified, nextSeen, lateSeen, returned, scanVars>>

\* The conditional flip of is_paid: its row count picks the one winner.
FlipPaid(p) ==
  /\ pc[p] = "read"
  /\ IF Pays[p] \in paid
       THEN Goto(p, "rejected") /\ UNCHANGED <<paid, collected>>
       ELSE /\ paid' = paid \cup {Pays[p]}
            /\ collected' = collected \cup {p}
            /\ Goto(p, "flipped")
  /\ UNCHANGED <<saleVars, due, notified, nextSeen, lateSeen, returned, scanVars>>

\* Mutant: completed when what is left is this payment's own installment at the
\* time it was read, not when nothing is left.
CompleteIfPaidStale(p) ==
  LET s == Pays[p].sale
  IN  /\ pc[p] = "flipped"
      /\ IF Cardinality(Unpaid(s)) <= 1
           THEN /\ status' = [status EXCEPT ![s] = "COMPLETED"]
                /\ nextDue' = [nextDue EXCEPT ![s] = NoDate]
                /\ Goto(p, "done")
           ELSE Goto(p, "open") /\ UNCHANGED saleVars
      /\ UNCHANGED <<paid, due, notified, nextSeen, lateSeen, collected, returned, scanVars>>

\* COMPLETED, decided by the database: no unpaid installment is left.  The
\* invoice's status is not part of the condition.
CompleteIfPaid(p) ==
  LET s == Pays[p].sale
  IN  /\ pc[p] = "flipped"
      /\ IF Unpaid(s) = {}
           THEN /\ status' = [status EXCEPT ![s] = "COMPLETED"]
                /\ nextDue' = [nextDue EXCEPT ![s] = NoDate]
                /\ Goto(p, "done")
           ELSE Goto(p, "open") /\ UNCHANGED saleVars
      /\ UNCHANGED <<paid, due, notified, nextSeen, lateSeen, collected, returned, scanVars>>

\* Installments are left: read the next one,
ReadNextDue(p) ==
  /\ pc[p] = "open"
  /\ \E n \in FirstUnpaid(Pays[p].sale) : nextSeen' = [nextSeen EXCEPT ![p] = n]
  /\ Goto(p, "next read")
  /\ UNCHANGED <<saleVars, paid, due, notified, lateSeen, collected, returned, scanVars>>

\* count the overdue ones,
CountOverdue(p) ==
  /\ pc[p] = "next read"
  /\ lateSeen' = [lateSeen EXCEPT ![p] = \E i \in Of(Pays[p].sale) : Overdue(i)]
  /\ Goto(p, "counted")
  /\ UNCHANGED <<saleVars, paid, due, notified, nextSeen, collected, returned, scanVars>>

\* and write both, by primary key: whatever the status is by now.
SettleSale(p) ==
  LET s == Pays[p].sale
  IN  /\ pc[p] = "counted"
      /\ status' = [status EXCEPT ![s] = IF lateSeen[p] THEN "OVERDUE" ELSE "ACTIVE"]
      /\ nextDue' = [nextDue EXCEPT ![s] = nextSeen[p]]
      /\ Goto(p, "done")
      /\ UNCHANGED <<paid, due, notified, nextSeen, lateSeen, collected, returned, scanVars>>

-----------------------------------------------------------------------------
(* cancelSale of an installment invoice.                                    *)

ReadSale(c) ==
  /\ pc[c] = "new"
  /\ Goto(c, IF status[CancelOf[c]] \in {"CANCELLED", "COMPLETED"} THEN "rejected" ELSE "read")
  /\ UNCHANGED <<saleVars, paid, due, notified, nextSeen, lateSeen, collected, returned,
                 scanVars>>

\* The count inside the transaction; no row is locked by it.
CountPaid(c) ==
  /\ pc[c] = "read"
  /\ Goto(c, IF Of(CancelOf[c]) \cap paid = {} THEN "counted" ELSE "rejected")
  /\ UNCHANGED <<saleVars, paid, due, notified, nextSeen, lateSeen, collected, returned,
                 scanVars>>

\* Mutant: the unconditional update that two cancellations used to race to.
ClaimCancelAlways(c) ==
  LET s == CancelOf[c]
  IN  /\ pc[c] = "counted"
      /\ status' = [status EXCEPT ![s] = "CANCELLED"]
      /\ returned' = [returned EXCEPT ![s] = @ + 1]
      /\ Goto(c, "done")
      /\ UNCHANGED <<nextDue, paid, due, notified, nextSeen, lateSeen, collected, scanVars>>

\* The claim ACTIVE -> CANCELLED and, behind it, the return of the stock.  An
\* OVERDUE invoice passed the first read and loses here.
ClaimCancel(c) ==
  LET s == CancelOf[c]
  IN  /\ pc[c] = "counted"
      /\ IF status[s] = "ACTIVE"
           THEN /\ status' = [status EXCEPT ![s] = "CANCELLED"]
                /\ returned' = [returned EXCEPT ![s] = @ + 1]
                /\ Goto(c, "done")
           ELSE Goto(c, "rejected") /\ UNCHANGED <<status, returned>>
      /\ UNCHANGED <<nextDue, paid, due, notified, nextSeen, lateSeen, collected, scanVars>>

\* The transaction is lost before its commit.
CancelLost(c) ==
  /\ pc[c] \in {"read", "counted"}
  /\ Goto(c, "rejected")
  /\ UNCHANGED <<saleVars, paid, due, notified, nextSeen, lateSeen, collected, returned,
                 scanVars>>

-----------------------------------------------------------------------------
(* runOverdueInstallmentScan.                                               *)

\* Mutant: the selection without the overdue_notified_at condition.
ToNotifyAgain == {i \in Installment : Overdue(i) /\ status[i.sale] = "ACTIVE"}

\* Unpaid, past its due date, not yet notified, of an ACTIVE invoice.
ToNotify == {i \in Installment : /\ Overdue(i) /\ i \notin notified
                                 /\ status[i.sale] = "ACTIVE"}

StartScan ==
  /\ scan = "idle"
  /\ queue' = ToNotify
  /\ scan' = "next"
  /\ UNCHANGED <<saleVars, paid, due, notified, reqVars, current, sent, unsent, flips,
                 audits, crashes>>

\* notifyInstallmentOverdue of the next row: it may fail, and says so.
Notify(i) ==
  /\ scan = "next" /\ i \in queue
  /\ queue' = queue \ {i}
  /\ current' = i
  /\ \/ /\ sent' = [sent EXCEPT ![i] = @ + 1]
        /\ unsent' = unsent \ {i}
        /\ scan' = "stamp"
     \/ /\ unsent' = unsent \cup {i}
        /\ scan' = "flip"
        /\ UNCHANGED sent
  /\ UNCHANGED <<saleVars, paid, due, notified, reqVars, flips, audits, crashes>>

\* overdue_notified_at, only after a delivered notification.
StampNotified ==
  /\ scan = "stamp"
  /\ notified' = notified \cup {current}
  /\ scan' = "flip"
  /\ UNCHANGED <<saleVars, paid, due, reqVars, queue, current, sent, unsent, flips, audits,
                 crashes>>

\* The conditional flip ACTIVE -> OVERDUE, whether or not the notice went out.
MarkOverdue ==
  /\ scan = "flip"
  /\ IF status[current.sale] = "ACTIVE"
       THEN /\ status' = [status EXCEPT ![current.sale] = "OVERDUE"]
            /\ flips' = [flips EXCEPT ![current.sale] = @ + 1]
            /\ scan' = "audit"
       ELSE scan' = "next" /\ UNCHANGED <<status, flips>>
  /\ UNCHANGED <<nextDue, paid, due, notified, reqVars, queue, current, sent, unsent, audits,
                 crashes>>

WriteAudit ==
  /\ scan = "audit"
  /\ audits' = [audits EXCEPT ![current.sale] = @ + 1]
  /\ scan' = "next"
  /\ UNCHANGED <<saleVars, paid, due, notified, reqVars, queue, current, sent, unsent, flips,
                 crashes>>

\* The selection is done: the run is over.
EndScan ==
  /\ scan = "next" /\ queue = {}
  /\ scan' = "idle"
  /\ UNCHANGED <<saleVars, paid, due, notified, reqVars, queue, current, sent, unsent, flips,
                 audits, crashes>>

\* A statement throws, or the process stops: the rest of the run is gone.
ScanCrash ==
  /\ scan # "idle"
  /\ crashes < MaxCrashes
  /\ crashes' = crashes + 1
  /\ scan' = "idle"
  /\ queue' = {}
  /\ UNCHANGED <<saleVars, paid, due, notified, reqVars, current, sent, unsent, flips, audits>>

-----------------------------------------------------------------------------
Finished == {"done", "rejected"}

PayStep(p) ==
  \/ ReadInstallment(p) \/ FlipPaid(p) \/ CompleteIfPaid(p)
  \/ ReadNextDue(p) \/ CountOverdue(p) \/ SettleSale(p)

CancelStep(c) == ReadSale(c) \/ CountPaid(c) \/ ClaimCancel(c) \/ CancelLost(c)

ScanStep ==
  \/ StartScan \/ (\E i \in Installment : Notify(i))
  \/ StampNotified \/ MarkOverdue \/ WriteAudit \/ EndScan \/ ScanCrash

Next ==
  \/ \E s \in Sales : DueDatePasses(s)
  \/ \E p \in Payers : PayStep(p)
  \/ \E c \in Cancels : CancelStep(c)
  \/ ScanStep

Spec == Init /\ [][Next]_vars

-----------------------------------------------------------------------------
(* Properties.                                                              *)

\* Every variable has its type.
TypeOK ==
  /\ status \in [Sales -> SaleStatus]
  /\ nextDue \in [Sales -> Insts \cup {NoDate}]
  /\ paid \subseteq Installment
  /\ due \in [Sales -> 0..N]
  /\ notified \subseteq Installment
  /\ pc \in [Payers \cup Cancels ->
               {"new", "read", "flipped", "open", "next read", "counted"} \cup Finished]
  /\ nextSeen \in [Payers -> Insts \cup {NoDate}]
  /\ lateSeen \in [Payers -> BOOLEAN]
  /\ collected \subseteq Payers
  /\ returned \in [Sales -> Nat]
  /\ scan \in {"idle", "next", "stamp", "flip", "audit"}
  /\ queue \subseteq Installment
  /\ current \in Installment
  /\ sent \in [Installment -> Nat]
  /\ unsent \subseteq Installment
  /\ flips \in [Sales -> Nat]
  /\ audits \in [Sales -> Nat]
  /\ crashes \in 0..MaxCrashes

\* The money of an installment is taken once: of the requests that pay one
\* installment at most one is told that it succeeded.
CollectedOnce == \A p, q \in collected : Pays[p] = Pays[q] => p = q

\* An invoice is COMPLETED only when every installment has been collected by a
\* request that succeeded.
CompletedIsPaid ==
  \A s \in Sales : status[s] = "COMPLETED" =>
    \A i \in Of(s) : \E p \in collected : Pays[p] = i

\* The stock of a cancelled invoice comes back once, as long as nobody pays it:
\* of two cancellations that both read a live invoice one loses.
ReturnedOnceUnlessPaid ==
  \A s \in Sales : returned[s] > 1 => Of(s) \cap paid # {}

\* An installment is reported overdue a second time only when the scan was cut
\* off between the notification and its stamp.
NotifiedOncePerCrash == \A i \in Installment : sent[i] <= 1 + crashes

\* Every flip to OVERDUE by the scan gets exactly one audit row, unless the scan
\* is cut off between the two.
AuditsMatchFlips ==
  \A s \in Sales :
    /\ audits[s] <= flips[s]
    /\ flips[s] <= audits[s] + crashes + (IF scan = "audit" /\ current.sale = s THEN 1 ELSE 0)

\* payInstallment on two payments of different installments: "the sale ended
\* ACTIVE despite every installment being paid" is the race it removed.
FullyPaidIsCompleted ==
  \A s \in Sales :
    (Unpaid(s) = {} /\ \A p \in Payers : Pays[p].sale = s => pc[p] \in Finished \cup {"new"})
      => status[s] = "COMPLETED"

\* cancelSale "closes the race window where a payInstallment() call could land
\* between an outside check and the cancellation": cancelled means unpaid.
CancelledIsUnpaid ==
  [][\A s \in Sales :
       (status[s] # "CANCELLED" /\ status'[s] = "CANCELLED") => Of(s) \cap paid = {}]_vars

\* The scan: "a failed attempt leaves the guard untouched, so the next scheduled
\* run picks it up naturally".
FailedNoticeIsRetried ==
  [][(scan = "idle" /\ scan' = "next") =>
       \A i \in unsent : Overdue(i) /\ status[i.sale] \in {"ACTIVE", "OVERDUE"} => i \in queue']_vars

-----------------------------------------------------------------------------
(* The inductive invariant the proofs of ShowroomProofs rest on.            *)

\* What is paid is what the successful requests paid; a request that goes on to
\* the invoice has paid its installment.
PaidInv ==
  /\ paid = {Pays[p] : p \in collected}
  /\ \A p \in Payers :
       pc[p] \in {"flipped", "open", "next read", "counted"} => Pays[p] \in paid

CompletedInv == \A s \in Sales : status[s] = "COMPLETED" => Of(s) \subseteq paid

\* An invoice nobody paid has its stock back at most once, and stays cancelled.
ReturnInv ==
  \A s \in Sales : Of(s) \cap paid = {} =>
    returned[s] = 0 \/ (returned[s] = 1 /\ status[s] = "CANCELLED")

\* An installment that is neither stamped nor about to be was reported once for
\* each crash at most.
NoticeInv ==
  /\ queue \cap notified = {}
  /\ scan = "stamp" => current \notin queue
  /\ \A i \in Installment :
       /\ sent[i] <= 1 + crashes
       /\ i \notin notified /\ ~(scan = "stamp" /\ current = i) => sent[i] <= crashes

AuditInv ==
  /\ AuditsMatchFlips
  /\ scan = "audit" => audits[current.sale] < flips[current.sale]

IInv ==
  /\ TypeOK /\ PaidInv /\ CollectedOnce /\ CompletedInv /\ ReturnInv /\ NoticeInv /\ AuditInv
=============================================================================
