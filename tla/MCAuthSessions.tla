--------------------------- MODULE MCAuthSessions ---------------------------
(***************************************************************************)
(* Three requests on one account: enough for a login and a rotation across *)
(* a password change, two reset links with the reset of one of them, two   *)
(* failures at a threshold of two, and a login with two second factors.    *)
(***************************************************************************)
EXTENDS AuthSessions, TLC

CONSTANTS r1, r2, r3, device

Codes    == <<"a", "b">>
Symmetry == Permutations(Requests)
=============================================================================
