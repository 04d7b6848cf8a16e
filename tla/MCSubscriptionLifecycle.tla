----------------------- MODULE MCSubscriptionLifecycle -----------------------
(***************************************************************************)
(* Two claims, a purchase and a renewal; an approval and a rejection race  *)
(* for the first; the owner withdraws once, the scan as often as a claim   *)
(* is stale; one renewal by the administrator, longer than what a claim    *)
(* buys or to an earlier date.  v3 is an approval of the second claim, for *)
(* the instances with three reviews that README.md names.                  *)
(***************************************************************************)
EXTENDS SubscriptionLifecycle, TLC

CONSTANTS r1, r2, v1, v2, v3, k1, n1

MCIsRenewal == (r1 :> FALSE) @@ (r2 :> TRUE)
MCReviewOf == [v \in Reviews |-> IF v = v3 THEN r2 ELSE r1]
MCApproves == [v \in Reviews |-> v # v2]
MCMonths == [x \in Claims \cup Renewals |-> IF x = n1 THEN 3 ELSE 1]
=============================================================================
