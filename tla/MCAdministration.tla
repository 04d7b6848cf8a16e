-------------------------- MODULE MCAdministration --------------------------
(***************************************************************************)
(* Two profiles, one administrator beside Root and two requests at a time, *)
(* any number in turn: enough for Root to delegate, a delegate to create   *)
(* and to change, and for every pair of requests to overlap.               *)
(***************************************************************************)
EXTENDS Administration, TLC

CONSTANTS p1, p2, a1, r1, r2, owner

Keys   == [k \in Kinds |-> "platform"]
Platform == {"platform"}
Sales    == {"sales"}
NewRow(scope, grants) == [exists |-> TRUE, scope |-> scope, grants |-> grants]
FewDrafts == {NewRow("GLOBAL", Platform), NewRow("GLOBAL", Platform \cup Sales), NewRow("SHOWROOM", Sales)}
Change(scope, granted, revoked) == [scope |-> scope, granted |-> granted, revoked |-> revoked]
FewDeltas == {Change("same", Sales, {}), Change("same", Platform, {}), Change("same", {}, Platform),
              Change("SHOWROOM", {}, Sales)}
Symmetry == Permutations(Profiles) \cup Permutations(Admins) \cup Permutations(Requests)
=============================================================================
