------------------------- MODULE SubscriptionLifecycle -------------------------
(***************************************************************************)
(* The claims of one showroom: requestSubscription and requestRenewal open *)
(* one, approvePayment and rejectPayment decide it, cancelPendingRequest   *)
(* withdraws it (for the owner, or for the daily scan of claims older than *)
(* 72 hours), and renewSubscription extends the licence past all of them.  *)
(* Statements interleave at READ COMMITTED: an UPDATE waits for the        *)
(* transaction that holds a row it matched and then tests the row again.   *)
(*                                                                         *)
(* A transaction's last statement and its commit are one step, because it  *)
(* waits for nothing in between: so are a renewal's two, and the creation  *)
(* of a claim, which the partial unique index serializes.                  *)
(***************************************************************************)
EXTENDS Integers

CONSTANTS
  Claims,     \* requestSubscription and requestRenewal requests, each its claim
  IsRenewal,  \* IsRenewal[r]: an active subscription does not refuse request r
  Reviews,    \* approvePayment and rejectPayment requests
  ReviewOf,   \* ReviewOf[v]: the claim request v decides
  Approves,   \* Approves[v]: request v is an approval
  Withdrawals, \* cancelPendingRequest requests by the owner
  Renewals,   \* renewSubscription requests
  Months,     \* Months[x]: months that claim x or renewal x buys
  Dates,      \* expiry dates an administrator may give instead of months
  MaxNow,     \* bound on the clock, in months
  StaleScan,  \* the scan, as the transaction of its withdrawals
  NoTx        \* no transaction

Cancellers == Withdrawals \cup {StaleScan}
Tx         == Reviews \cup Cancellers
Requests   == Claims \cup Tx \cup Renewals
SubStatus  == {"NONE", "PENDING_PAYMENT", "ACTIVE", "CANCELLED"}
PayStatus  == {"NONE", "PENDING", "PAID", "REJECTED", "EXPIRED"}

ASSUME LifecycleAssumption ==
  /\ IsRenewal \in [Claims -> BOOLEAN]
  /\ ReviewOf \in [Reviews -> Claims]
  /\ Approves \in [Reviews -> BOOLEAN]
  /\ Months \in [Claims \cup Renewals -> Nat \ {0}]
  /\ Dates \subseteq Nat \ {0}
  /\ MaxNow \in Nat
  /\ NoTx \notin Requests /\ StaleScan \notin Withdrawals
  /\ Claims \cap (Tx \cup Renewals) = {} /\ Reviews \cap (Cancellers \cup Renewals) = {}
  /\ Cancellers \cap Renewals = {}

VARIABLES
  sub,       \* sub[r]: the committed status of claim r's subscription
  pay,       \* pay[r]: the committed status of its payment
  expires,   \* expires[x]: expires_at of the subscription of claim or renewal x, 0 before
  license,   \* showroom.license_expiry
  subLock,   \* subLock[r]: the transaction that has updated the subscription, or NoTx
  payLock,   \* payLock[r]: the transaction that has updated the payment, or NoTx
  pc,        \* pc[x]: where each request is
  until,     \* until[x]: the expiry a review or renewal computed
  now,       \* the month it is
  stale,     \* the claims older than 72 hours
  queue      \* the claims the scan has selected and not begun

rowVars == <<sub, pay, expires, license>>
vars    == <<sub, pay, expires, license, subLock, payLock, pc, until, now, stale, queue>>

Init ==
  /\ sub     = [r \in Claims |-> "NONE"]
  /\ pay     = [r \in Claims |-> "NONE"]
  /\ expires = [x \in Claims \cup Renewals |-> 0]
  /\ license = 1
  /\ subLock = [r \in Claims |-> NoTx]
  /\ payLock = [r \in Claims |-> NoTx]
  /\ pc      = [x \in Requests |-> "new"]
  /\ until   = [x \in Reviews \cup Renewals |-> 0]
  /\ now     = 0
  /\ stale   = {}
  /\ queue   = {}

Goto(x, label) == pc' = [pc EXCEPT ![x] = label]

\* A month passes.
Tick ==
  /\ now < MaxNow
  /\ now' = now + 1
  /\ UNCHANGED <<rowVars, subLock, payLock, pc, until, stale, queue>>

\* Claim r is 72 hours old.
Age(r) ==
  /\ sub[r] = "PENDING_PAYMENT" /\ r \notin stale
  /\ stale' = stale \cup {r}
  /\ UNCHANGED <<rowVars, subLock, payLock, pc, until, now, queue>>

Release(t) ==
  /\ subLock' = [r \in Claims |-> IF subLock[r] = t THEN NoTx ELSE subLock[r]]
  /\ payLock' = [r \in Claims |-> IF payLock[r] = t THEN NoTx ELSE payLock[r]]

\* Where a transaction goes when it is over: the scan takes up its next claim.
End(t, label) ==
  Goto(t, IF t = StaleScan THEN "next" ELSE label)

\* Mutant: locks survive the failure of the transaction.
RollbackKeepsLocks(t) ==
  /\ End(t, "failed")
  /\ UNCHANGED <<rowVars, subLock, payLock, until, now, stale, queue>>

Rollback(t) ==
  /\ Release(t)
  /\ End(t, "failed")
  /\ UNCHANGED <<rowVars, until, now, stale, queue>>

-----------------------------------------------------------------------------
(* requestSubscription and requestRenewal.                                  *)

Pending == {r \in Claims : sub[r] = "PENDING_PAYMENT"}

\* The subscriptions that are ACTIVE and not over.
Running == {x \in Claims \cup Renewals : expires[x] > now}

\* The checks inside the transaction.
CheckClaim(r) ==
  /\ pc[r] = "new"
  /\ Goto(r, IF Pending # {} \/ (~IsRenewal[r] /\ Running # {}) THEN "rejected" ELSE "checked")
  /\ UNCHANGED <<rowVars, subLock, payLock, until, now, stale, queue>>

\* The insert.  The unique index makes it wait while a transaction is closing
\* the open claim, and refuses it (P2002) while one is open.
CreateClaim(r) ==
  /\ pc[r] = "checked"
  /\ \A q \in Pending : subLock[q] = NoTx
  /\ IF Pending # {}
       THEN Goto(r, "rejected") /\ UNCHANGED <<sub, pay>>
       ELSE /\ sub' = [sub EXCEPT ![r] = "PENDING_PAYMENT"]
            /\ pay' = [pay EXCEPT ![r] = "PENDING"]
            /\ Goto(r, "done")
  /\ UNCHANGED <<expires, license, subLock, payLock, until, now, stale, queue>>

-----------------------------------------------------------------------------
(* approvePayment -> activateSubscription, and rejectPayment.               *)

\* The reads before the transaction, and the refusal of a decided claim.
ReadClaim(v) ==
  LET r == ReviewOf[v]
  IN  /\ pc[v] = "new" /\ sub[r] # "NONE"
      /\ Goto(v, IF /\ pay[r] = "PENDING"
                    /\ Approves[v] => sub[r] = "PENDING_PAYMENT"
                   THEN (IF Approves[v] THEN "read" ELSE "pay") ELSE "rejected")
      /\ UNCHANGED <<rowVars, subLock, payLock, until, now, stale, queue>>

\* The latest active period, still before the transaction: its end, if that is
\* to come, is where the new period starts.
ReadPeriod(v) ==
  /\ pc[v] = "read"
  /\ \E base \in {now} \cup {expires[x] : x \in Running} :
       /\ \A x \in Running : expires[x] <= base
       /\ until' = [until EXCEPT ![v] = base + Months[ReviewOf[v]]]
  /\ Goto(v, "pay")
  /\ UNCHANGED <<rowVars, subLock, payLock, now, stale, queue>>

\* Mutant: the payment is flipped by its id, whatever its status.
ClaimPaymentAlways(v) ==
  LET r == ReviewOf[v]
  IN  /\ pc[v] = "pay"
      /\ payLock[r] = NoTx /\ payLock' = [payLock EXCEPT ![r] = v] /\ Goto(v, "sub")
      /\ UNCHANGED <<rowVars, subLock, until, now, stale, queue>>

\* The conditional flip of the payment.  An approval that finds it decided
\* rolls back; a rejection, which is a batch, goes on to its next statement.
ClaimPayment(v) ==
  LET r == ReviewOf[v]
  IN  /\ pc[v] = "pay"
      /\ \/ /\ pay[r] = "PENDING" /\ payLock[r] = NoTx
            /\ payLock' = [payLock EXCEPT ![r] = v]
            /\ Goto(v, "sub")
         \/ /\ pay[r] # "PENDING" /\ UNCHANGED payLock
            /\ Goto(v, IF Approves[v] THEN "failed" ELSE "sub")
      /\ UNCHANGED <<rowVars, subLock, until, now, stale, queue>>

\* The conditional flip of the subscription, the licence and the commit.
Activate(v) ==
  LET r == ReviewOf[v]
  IN  /\ pc[v] = "sub" /\ Approves[v]
      /\ IF sub[r] = "PENDING_PAYMENT"
           THEN /\ subLock[r] = NoTx
                /\ sub' = [sub EXCEPT ![r] = "ACTIVE"]
                /\ pay' = [pay EXCEPT ![r] = "PAID"]
                /\ expires' = [expires EXCEPT ![r] = until[v]]
                /\ license' = until[v]
                /\ Goto(v, "done")
           ELSE Goto(v, "failed") /\ UNCHANGED rowVars
      /\ Release(v)
      /\ UNCHANGED <<until, now, stale, queue>>

\* The second statement of a rejection and the commit of both; whether the
\* payment was decided already is looked at after the commit.
Reject(v) ==
  LET r     == ReviewOf[v]
      mine  == payLock[r] = v
  IN  /\ pc[v] = "sub" /\ ~Approves[v]
      /\ IF sub[r] = "PENDING_PAYMENT"
           THEN subLock[r] = NoTx /\ sub' = [sub EXCEPT ![r] = "CANCELLED"]
           ELSE UNCHANGED sub
      /\ pay' = [pay EXCEPT ![r] = IF mine THEN "REJECTED" ELSE @]
      /\ Release(v)
      /\ Goto(v, IF mine THEN "done" ELSE "failed")
      /\ UNCHANGED <<expires, license, until, now, stale, queue>>

-----------------------------------------------------------------------------
(* cancelPendingRequest, by showroom: whatever claim is open now.           *)

WithdrawSub(k) ==
  /\ pc[k] = IF k = StaleScan THEN "cancel" ELSE "new"
  /\ IF Pending = {} THEN UNCHANGED subLock
     ELSE \E r \in Pending : subLock[r] = NoTx /\ subLock' = [subLock EXCEPT ![r] = k]
  /\ Goto(k, "payments")
  /\ UNCHANGED <<rowVars, payLock, until, now, stale, queue>>

\* Mutant: the payments are updated without the status in the WHERE clause.
WithdrawPayAlways(k) ==
  /\ pc[k] = "payments"
  /\ pay' = [r \in Claims |-> IF pay[r] # "NONE" THEN "EXPIRED" ELSE pay[r]]
  /\ sub' = [r \in Claims |-> IF subLock[r] = k THEN "CANCELLED" ELSE sub[r]]
  /\ Release(k)
  /\ End(k, IF \E r \in Claims : subLock[r] = k THEN "done" ELSE "failed")
  /\ UNCHANGED <<expires, license, until, now, stale, queue>>

\* The pending payments of the showroom and the commit; that no subscription
\* was open is looked at after the commit.
WithdrawPay(k) ==
  /\ pc[k] = "payments"
  /\ \A r \in Claims : pay[r] = "PENDING" => payLock[r] = NoTx
  /\ pay' = [r \in Claims |-> IF pay[r] = "PENDING" THEN "EXPIRED" ELSE pay[r]]
  /\ sub' = [r \in Claims |-> IF subLock[r] = k THEN "CANCELLED" ELSE sub[r]]
  /\ Release(k)
  /\ End(k, IF \E r \in Claims : subLock[r] = k THEN "done" ELSE "failed")
  /\ UNCHANGED <<expires, license, until, now, stale, queue>>

-----------------------------------------------------------------------------
(* runStaleRequestExpiryScan: select, then withdraw by showroom one by one. *)

\* Mutant: the scan does not come back to what it could not withdraw.
StartScanOnce ==
  /\ pc[StaleScan] = "new"
  /\ Pending \cap stale # {}
  /\ queue' = Pending \cap stale
  /\ Goto(StaleScan, "next")
  /\ UNCHANGED <<rowVars, subLock, payLock, until, now, stale>>

StartScan ==
  /\ pc[StaleScan] \in {"new", "done"}
  /\ Pending \cap stale # {}
  /\ queue' = Pending \cap stale
  /\ Goto(StaleScan, "next")
  /\ UNCHANGED <<rowVars, subLock, payLock, until, now, stale>>

NextStale ==
  /\ pc[StaleScan] = "next"
  /\ IF queue = {} THEN Goto(StaleScan, "done") /\ UNCHANGED queue
     ELSE /\ \E r \in queue : queue' = queue \ {r}
          /\ Goto(StaleScan, "cancel")
  /\ UNCHANGED <<rowVars, subLock, payLock, until, now, stale>>

-----------------------------------------------------------------------------
(* renewSubscription by the platform's administrator: so many months more, or *)
(* until a given date.                                                       *)

ReadLicense(n) ==
  /\ pc[n] = "new"
  /\ \E end \in {(IF license > now THEN license ELSE now) + Months[n]} \cup Dates :
       until' = [until EXCEPT ![n] = end]
  /\ Goto(n, "read")
  /\ UNCHANGED <<rowVars, subLock, payLock, now, stale, queue>>

Renew(n) ==
  /\ pc[n] = "read"
  /\ expires' = [expires EXCEPT ![n] = until[n]]
  /\ license' = until[n]
  /\ Goto(n, "done")
  /\ UNCHANGED <<sub, pay, subLock, payLock, until, now, stale, queue>>

-----------------------------------------------------------------------------
(* What ends a transaction from outside.                                    *)

InTransaction(t) == pc[t] \in {"sub", "payments"}

\* A review holds its payment and waits for the subscription, a withdrawal
\* holds the subscription and waits for the payment: t waits for u.
WaitsFor(t, u) ==
  \/ /\ t \in Reviews /\ pc[t] = "sub"
     /\ sub[ReviewOf[t]] = "PENDING_PAYMENT" /\ subLock[ReviewOf[t]] = u
  \/ /\ t \in Cancellers /\ pc[t] = "payments"
     /\ \E r \in Claims : pay[r] = "PENDING" /\ payLock[r] = u

DeadlockVictim(t) ==
  /\ \E u \in Tx : WaitsFor(t, u) /\ WaitsFor(u, t)
  /\ Rollback(t)

TransactionLost(t) == InTransaction(t) /\ Rollback(t)

Finished == {"done", "rejected", "failed"}

ClaimStep(r)  == CheckClaim(r) \/ CreateClaim(r)
ReviewStep(v) == ReadPeriod(v) \/ ClaimPayment(v) \/ Activate(v) \/ Reject(v)
CancelStep(k) == WithdrawSub(k) \/ WithdrawPay(k)
RenewStep(n)  == ReadLicense(n) \/ Renew(n)

\* Nothing but time is left to pass.
AllAnswered ==
  /\ \A x \in Requests \ {StaleScan} : pc[x] \in Finished \cup {"new"}
  /\ pc[StaleScan] \in {"new", "done"}
  /\ UNCHANGED vars

Next ==
  \/ Tick \/ (\E r \in Claims : Age(r) \/ ClaimStep(r))
  \/ \E v \in Reviews : ReadClaim(v) \/ ReviewStep(v)
  \/ \E k \in Cancellers : CancelStep(k)
  \/ StartScan \/ NextStale
  \/ \E n \in Renewals : RenewStep(n)
  \/ \E t \in Tx : DeadlockVictim(t) \/ TransactionLost(t)
  \/ AllAnswered

Spec == Init /\ [][Next]_vars

\* A server goes on with a request it accepted, the database hands a row to its
\* waiters and resolves deadlocks, and the daily job starts the scan again.
Fairness ==
  /\ \A v \in Reviews : SF_vars(ReviewStep(v))
  /\ \A k \in Cancellers : SF_vars(WithdrawPay(k)) /\ SF_vars(k = StaleScan /\ WithdrawSub(k))
  /\ WF_vars(StartScan) /\ WF_vars(NextStale)
  /\ WF_vars(\E t \in Tx : DeadlockVictim(t))

FairSpec == Spec /\ Fairness

-----------------------------------------------------------------------------
(* Properties.                                                              *)

\* Every variable has its type.
TypeOK ==
  /\ sub \in [Claims -> SubStatus]
  /\ pay \in [Claims -> PayStatus]
  /\ expires \in [Claims \cup Renewals -> Nat]
  /\ license \in Nat
  /\ subLock \in [Claims -> Tx \cup {NoTx}]
  /\ payLock \in [Claims -> Reviews \cup {NoTx}]
  /\ pc \in [Requests -> {"new", "checked", "read", "pay", "sub", "payments", "next", "cancel"}
                           \cup Finished]
  /\ until \in [Reviews \cup Renewals -> Nat]
  /\ now \in 0..MaxNow
  /\ stale \subseteq Claims
  /\ queue \subseteq Claims

\* A payment is PAID exactly when its subscription is active with a period of
\* its own: neither leg of an approval commits without the other.
PaidIsActive ==
  \A r \in Claims :
    /\ pay[r] = "PAID" <=> sub[r] = "ACTIVE"
    /\ sub[r] = "ACTIVE" <=> expires[r] > 0

-----------------------------------------------------------------------------
(* The inductive invariant.                                                 *)

\* Who has updated a row is in the middle of its transaction, and the row has
\* still the status the update asked for.
LockInv ==
  \A r \in Claims :
    /\ payLock[r] # NoTx => /\ ReviewOf[payLock[r]] = r /\ pc[payLock[r]] = "sub"
                            /\ pay[r] = "PENDING"
    /\ subLock[r] # NoTx => /\ subLock[r] \in Cancellers /\ pc[subLock[r]] = "payments"
                            /\ sub[r] = "PENDING_PAYMENT"

\* A review that is at the subscription has updated the payment, or rejects one that
\* was decided; an approval brings a period that ends after it starts.
ReviewInv ==
  \A v \in Reviews :
    /\ pc[v] \in {"read", "pay"} => pay[ReviewOf[v]] # "NONE"
    /\ pc[v] = "sub" => \/ payLock[ReviewOf[v]] = v
                        \/ ~Approves[v] /\ pay[ReviewOf[v]] \notin {"NONE", "PENDING"}
    /\ Approves[v] /\ pc[v] \in {"pay", "sub"} => until[v] > 0

\* A claim has no rows before its insert.
NoRowsInv ==
  \A r \in Claims : pc[r] \in {"new", "checked"} => sub[r] = "NONE" /\ pay[r] = "NONE"

\* One claim is open at a time, and its payment waits or was withdrawn alone.
OpenInv ==
  /\ \A q, r \in Claims : sub[q] = "PENDING_PAYMENT" /\ sub[r] = "PENDING_PAYMENT" => q = r
  /\ \A r \in Claims :
       /\ pay[r] = "NONE" => sub[r] = "NONE"
       /\ pay[r] = "PENDING" => sub[r] = "PENDING_PAYMENT"
       /\ sub[r] = "PENDING_PAYMENT" => pay[r] \in {"PENDING", "EXPIRED"}

IInv == TypeOK /\ LockInv /\ ReviewInv /\ NoRowsInv /\ OpenInv /\ PaidIsActive

-----------------------------------------------------------------------------
(* What it implements, and what is answered.                                *)

Contract == INSTANCE ClaimContract

\* Approvals, rejections, withdrawals and requests, racing each other, move the
\* rows of a claim as ClaimContract allows: one claim at a time, decided once,
\* approved in one step.
ContractImplemented == Contract!ContractSpec

\* Every review and withdrawal that is taken up is answered, although reviews lock
\* the payment first and withdrawals the subscription first: a day comes from
\* which none is under way.
EveryRequestAnswered ==
  <>[](\A t \in Reviews \cup Withdrawals : pc[t] \in {"new"} \cup Finished)

\* A claim older than 72 hours does not stay open: the scan comes back until it
\* is withdrawn or decided, and no claim opens twice.
StaleClaimsEnd == <>[](\A r \in stale : sub[r] # "PENDING_PAYMENT")

\* "PENDING_PAYMENT claims older than the window are cancelled": the scan closes
\* no younger claim.
ScanClosesOnlyStale ==
  [][\A r \in Claims :
       (subLock[r] = StaleScan /\ sub'[r] = "CANCELLED") => r \in stale]_vars

\* "A renewal approved mid-cycle extends from the current expiry (no lost days)":
\* its period ends its months after every period that is running.
RenewalLosesNoDays ==
  [][\A r \in Claims :
       (IsRenewal[r] /\ sub[r] # "ACTIVE" /\ sub'[r] = "ACTIVE") =>
         \A x \in Running : expires[x] + Months[r] <= expires'[r]]_vars
=============================================================================
