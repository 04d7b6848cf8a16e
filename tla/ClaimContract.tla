----------------------------- MODULE ClaimContract -----------------------------
(***************************************************************************)
(* What the subscription service of one showroom promises about a purchase *)
(* or renewal claim, a subscription row with the payment that is to buy    *)
(* it: one claim is open at a time, a claim is decided once, and approval  *)
(* moves the payment, the subscription and the showroom's licence in one   *)
(* step or not at all.  It does not promise that the two rows of a claim   *)
(* that is withdrawn close together (StrayExpiry, StrayCancel).            *)
(* SubscriptionLifecycle shows that its transactions implement this.       *)
(***************************************************************************)
EXTENDS Integers

CONSTANT Claims

VARIABLES
  sub,      \* sub[r]: the status of the claim's subscription
  pay,      \* pay[r]: the status of the claim's payment
  license   \* the showroom's license_expiry

contractVars == <<sub, pay, license>>

ContractInit ==
  /\ sub = [r \in Claims |-> "NONE"]
  /\ pay = [r \in Claims |-> "NONE"]
  /\ license \in Nat

Move(r, s, p) == sub' = [sub EXCEPT ![r] = s] /\ pay' = [pay EXCEPT ![r] = p]

Open(r) == sub[r] = "PENDING_PAYMENT" /\ pay[r] = "PENDING"

Request(r) ==
  /\ sub[r] = "NONE" /\ \A q \in Claims : sub[q] # "PENDING_PAYMENT"
  /\ Move(r, "PENDING_PAYMENT", "PENDING") /\ UNCHANGED license

Approve(r) == Open(r) /\ Move(r, "ACTIVE", "PAID") /\ license' \in Nat

Reject(r) == Open(r) /\ Move(r, "CANCELLED", "REJECTED") /\ UNCHANGED license

Withdraw(r) == Open(r) /\ Move(r, "CANCELLED", "EXPIRED") /\ UNCHANGED license

\* A withdrawal that found no open subscription and then the payment of a claim
\* that opened behind its back.
StrayExpiry(r) == Open(r) /\ Move(r, "PENDING_PAYMENT", "EXPIRED") /\ UNCHANGED license

\* The end of a claim whose payment is closed already.
StrayCancel(r) ==
  /\ sub[r] = "PENDING_PAYMENT" /\ pay[r] = "EXPIRED"
  /\ Move(r, "CANCELLED", "EXPIRED") /\ UNCHANGED license

\* A renewal by the platform's administrator.
Renew == license' \in Nat /\ UNCHANGED <<sub, pay>>

ContractNext ==
  \/ \E r \in Claims : \/ Request(r) \/ Approve(r) \/ Reject(r)
                       \/ Withdraw(r) \/ StrayExpiry(r) \/ StrayCancel(r)
  \/ Renew

ContractSpec == ContractInit /\ [][ContractNext]_contractVars
=============================================================================
