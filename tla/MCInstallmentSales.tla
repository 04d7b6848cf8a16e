-------------------------- MODULE MCInstallmentSales --------------------------
(***************************************************************************)
(* One invoice of two installments: two requests pay the first and one the *)
(* second, two cancellations race them, and the scan runs again and again  *)
(* and is cut off at most MaxCrashes times.                                *)
(***************************************************************************)
EXTENDS InstallmentSales, TLC

CONSTANTS s1, p1, p2, p3, c1, c2

MCPays == (p1 :> [sale |-> s1, n |-> 1]) @@ (p2 :> [sale |-> s1, n |-> 1])
            @@ (p3 :> [sale |-> s1, n |-> 2])
MCCancelOf == [c \in Cancels |-> s1]

\* The two payers of the first installment are interchangeable, and so are the
\* two cancellations.
Interchangeable == Permutations({p1, p2}) \cup Permutations({c1, c2})
=============================================================================
