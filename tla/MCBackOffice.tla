---------------------------- MODULE MCBackOffice ----------------------------
(* Two owners and a member of staff; one item, one expense, two of the others. *)
EXTENDS BackOffice, TLC

CONSTANTS o1, o2, t1, s1, s2, s9, c1, c2, g1, e1

MCSupplierTyped == {[name |-> "acme"]}
MCCustomerTyped == {[phone |-> "p"]}
MCItemTyped     == {[sell |-> 1], [quantity |-> 2], [cost |-> 1, sell |-> 2]}
MCExpenseTyped  == {[amount |-> 2]}
MCCustomerBodies == {[phone |-> "p", nid |-> "n"], [phone |-> "", nid |-> "n"]}
MCItemBodies == {[cost |-> 1, sell |-> 2, quantity |-> 1, color |-> "red", supplier |-> s1],
                 [cost |-> 2, sell |-> 2, quantity |-> 1, color |-> "red", supplier |-> ""],
                 [cost |-> 2, sell |-> 1, quantity |-> 1, color |-> "red", supplier |-> s9]}

SameUsersAndCustomers == Permutations({o1, o2}) \cup Permutations({c1, c2})
=============================================================================
