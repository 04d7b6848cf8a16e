--------------------------- MODULE MCClientSession ---------------------------
(* One tab; the SuperAdmin and an owner. *)
EXTENDS ClientSession

CONSTANTS t1, q1, q2, root, o1
=============================================================================
