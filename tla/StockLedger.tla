----------------------------- MODULE StockLedger -----------------------------
(***************************************************************************)
(* What the warehouse of one showroom promises its invoices: a sale takes  *)
(* all of its units or none of them, in one indivisible step; a            *)
(* cancellation gives exactly those units back, once; and the only other   *)
(* way a quantity changes is a member of staff writing the counted number. *)
(* StockTransactions shows that the row locks, conditional updates and     *)
(* rollbacks of createSale and cancelSale implement this.                  *)
(***************************************************************************)
EXTENDS Integers

CONSTANTS
  Items,       \* inventory rows of the showroom
  Sales,       \* invoices
  Demand,      \* Demand[s][i]: units of row i that invoice s sells
  InitialQty   \* InitialQty[i]: units of row i at the start

VARIABLES
  qty,         \* qty[i]: units of row i on the shelf
  sale         \* sale[s]: "NONE" (no invoice), "ACTIVE" or "CANCELLED"

ledgerVars == <<qty, sale>>

LedgerInit ==
  /\ qty  = InitialQty
  /\ sale = [s \in Sales |-> "NONE"]

\* Every line of the invoice is available, and every line is taken.
Sell(s) ==
  /\ sale[s] = "NONE"
  /\ \A i \in Items : Demand[s][i] <= qty[i]
  /\ qty'  = [i \in Items |-> qty[i] - Demand[s][i]]
  /\ sale' = [sale EXCEPT ![s] = "ACTIVE"]

\* A cancelled invoice is never live again, so it returns its units once.
Return(s) ==
  /\ sale[s] = "ACTIVE"
  /\ qty'  = [i \in Items |-> qty[i] + Demand[s][i]]
  /\ sale' = [sale EXCEPT ![s] = "CANCELLED"]

\* A member of staff writes the number of units counted on the shelf.
Recount(i) ==
  /\ qty' = [qty EXCEPT ![i] = qty'[i]]
  /\ qty'[i] \in Nat
  /\ sale' = sale

LedgerNext ==
  \/ \E s \in Sales : Sell(s) \/ Return(s)
  \/ \E i \in Items : Recount(i)

LedgerSpec == LedgerInit /\ [][LedgerNext]_ledgerVars
=============================================================================
