------------------------- MODULE MCStockTransactions -------------------------
(***************************************************************************)
(* Two units of each of two rows; two invoices that list the rows in       *)
(* opposite orders and together want more of the first than there is, so   *)
(* that claims are lost and a sale and a cancellation can deadlock; two    *)
(* cancellations of the first invoice that race each other and one of the  *)
(* second; an edit that recounts the first row to three, enough for both.  *)
(***************************************************************************)
EXTENDS StockTransactions, TLC

CONSTANTS i1, i2, s1, s2, c1, c2, c3, e1

MCLines == (s1 :> <<i1, i2>>) @@ (s2 :> <<i2, i1>>)
MCWant == (s1 :> [i \in Items |-> 1]) @@ (s2 :> [i \in Items |-> IF i = i1 THEN 2 ELSE 1])
MCCancelOf == (c1 :> s1) @@ (c2 :> s1) @@ (c3 :> s2)
MCEditOf == e1 :> [item |-> i1, quantity |-> 3, status |-> "not sent", release |-> FALSE]
MCInitialQty == (i1 :> 2) @@ (i2 :> 2)
MCInitialStatus == [i \in Items |-> "IN_STOCK"]
=============================================================================
