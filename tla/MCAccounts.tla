----------------------------- MODULE MCAccounts -----------------------------
(* One showroom and a second one that competes with it for e-mails.  Three  *)
(* users pass a limit of two, two requests at a time.                       *)
EXTENDS Accounts, TLC

CONSTANTS s1, s2, e1, e2, e3, r1, r2

Symmetry == Permutations({e1, e2, e3}) \cup Permutations({r1, r2})
=============================================================================
