--------------------------- MODULE SubscriptionProofs ---------------------------
(***************************************************************************)
(* Theorems about SubscriptionLifecycle for any number of claims, reviews, *)
(* withdrawals and renewals.  The argument: the status of a row changes in *)
(* few ways (RowStep), and whoever changes it holds the row or has found   *)
(* it unheld; what a request holds it holds where IInv says it is.         *)
(***************************************************************************)
EXTENDS SubscriptionLifecycle, TLAPS

LEMMA Apart ==
  /\ \A r \in Claims : r \notin Tx /\ r \notin Renewals
  /\ \A v \in Reviews : v \notin Cancellers /\ v \notin Renewals /\ v # NoTx /\ ReviewOf[v] \in Claims
  /\ \A k \in Cancellers : k \notin Renewals /\ k \in Tx
  /\ NoTx \notin Tx /\ StaleScan \in Cancellers /\ StaleScan \in Requests
  BY LifecycleAssumption DEF Requests, Tx, Cancellers

LEMMA PeriodIsNat ==
  ASSUME TypeOK, NEW base \in {now} \cup {expires[x] : x \in Running}, NEW x \in Claims \cup Renewals
  PROVE  base + Months[x] \in Nat /\ base + Months[x] > 0
  <1>1. now \in Nat
    <2>1. now \in 0..MaxNow /\ MaxNow \in Nat
      BY LifecycleAssumption DEF TypeOK
    <2>2. QED
      BY <2>1
  <1>2. \A y \in Claims \cup Renewals : expires[y] \in Nat
    BY DEF TypeOK
  <1>3. base \in Nat
    BY <1>1, <1>2 DEF Running
  <1>4. Months[x] \in Nat /\ Months[x] > 0
    BY LifecycleAssumption
  <1>5. QED
    BY <1>3, <1>4

-----------------------------------------------------------------------------
LEMMA InitIInv == Init => IInv
  <1> SUFFICES ASSUME Init PROVE IInv
    OBVIOUS
  <1> USE DEF Init
  <1>1. TypeOK
    <2>1. now \in 0..MaxNow
      BY LifecycleAssumption
    <2>2. QED
      BY <2>1 DEF TypeOK, SubStatus, PayStatus
  <1>2. LockInv /\ NoRowsInv /\ OpenInv
    BY DEF LockInv, NoRowsInv, OpenInv
  <1>3. ReviewInv
    BY Apart DEF ReviewInv, Requests, Tx
  <1>4. PaidIsActive
    <2> SUFFICES ASSUME NEW r \in Claims
                 PROVE  /\ pay[r] = "PAID" <=> sub[r] = "ACTIVE"
                        /\ sub[r] = "ACTIVE" <=> expires[r] > 0
      BY DEF PaidIsActive
    <2>1. pay[r] # "PAID" /\ sub[r] # "ACTIVE"
      OBVIOUS
    <2>2. expires[r] = 0
      OBVIOUS
    <2>3. ~(expires[r] > 0)
      BY <2>2
    <2>4. QED
      BY <2>1, <2>3
  <1>5. QED
    BY <1>1, <1>2, <1>3, <1>4 DEF IInv

-----------------------------------------------------------------------------

LEMMA ReleaseType ==
  ASSUME TypeOK, NEW t, Release(t)
  PROVE  /\ subLock' \in [Claims -> Tx \cup {NoTx}]
         /\ payLock' \in [Claims -> Reviews \cup {NoTx}]
  BY DEF Release, TypeOK

LEMMA TypeStep ==
  ASSUME IInv, [Next]_vars
  PROVE  TypeOK'
  <1> TypeOK
    BY DEF IInv
  <1> USE DEF rowVars
  <1>1. CASE Tick
    <2>1. now \in 0..MaxNow /\ now < MaxNow /\ now' = now + 1 /\ MaxNow \in Nat
      BY <1>1, LifecycleAssumption DEF Tick, TypeOK
    <2>2. now' \in 0..MaxNow
      BY <2>1
    <2>3. QED
      BY <1>1, <2>2 DEF Tick, TypeOK
  <1>2. ASSUME NEW r \in Claims, Age(r) \/ ClaimStep(r) PROVE TypeOK'
    <2>1. CASE Age(r)
      BY <2>1 DEF Age, TypeOK
    <2>2. CASE CheckClaim(r)
      BY <2>2 DEF CheckClaim, Goto, TypeOK, Finished
    <2>3. CASE CreateClaim(r)
      BY <2>3 DEF CreateClaim, Goto, TypeOK, Finished, SubStatus, PayStatus
    <2>4. QED
      BY <1>2, <2>1, <2>2, <2>3 DEF ClaimStep
  <1>3. ASSUME NEW v \in Reviews, ReadClaim(v) \/ ReviewStep(v) PROVE TypeOK'
    <2>1. ReviewOf[v] \in Claims /\ v \in Requests /\ v \in Tx
      BY LifecycleAssumption DEF Requests, Tx
    <2>2. CASE ReadClaim(v)
      BY <2>2 DEF ReadClaim, Goto, TypeOK, Finished
    <2>3. CASE ReadPeriod(v)
      <3>1. PICK base \in {now} \cup {expires[x] : x \in Running} :
              until' = [until EXCEPT ![v] = base + Months[ReviewOf[v]]]
        BY <2>3 DEF ReadPeriod
      <3>2. until' \in [Reviews \cup Renewals -> Nat]
        BY <2>1, <3>1, PeriodIsNat DEF TypeOK
      <3>3. QED
        BY <2>3, <3>2 DEF ReadPeriod, Goto, TypeOK
    <2>4. CASE ClaimPayment(v)
      BY <2>1, <2>4 DEF ClaimPayment, Goto, TypeOK, Finished
    <2>5. CASE Activate(v)
      <3>1. until[v] \in Nat
        BY DEF TypeOK
      <3>2. sub' \in [Claims -> SubStatus] /\ pay' \in [Claims -> PayStatus]
        BY <2>1, <2>5 DEF Activate, TypeOK, SubStatus, PayStatus
      <3>3. expires' \in [Claims \cup Renewals -> Nat] /\ license' \in Nat
        BY <2>1, <2>5, <3>1 DEF Activate, TypeOK
      <3>4. Release(v) /\ UNCHANGED <<until, now, stale, queue>>
        BY <2>5 DEF Activate
      <3>5. pc' \in [Requests -> {"new", "checked", "read", "pay", "sub", "payments", "next", "cancel"}
                                   \cup Finished]
        BY <2>1, <2>5 DEF Activate, Goto, TypeOK, Finished
      <3>6. QED
        BY <3>2, <3>3, <3>4, <3>5, ReleaseType DEF TypeOK
    <2>6. CASE Reject(v)
      <3>1. sub' \in [Claims -> SubStatus] /\ pay' \in [Claims -> PayStatus]
        BY <2>1, <2>6 DEF Reject, TypeOK, SubStatus, PayStatus
      <3>2. Release(v) /\ UNCHANGED <<expires, license, until, now, stale, queue>>
        BY <2>6 DEF Reject
      <3>3. pc' \in [Requests -> {"new", "checked", "read", "pay", "sub", "payments", "next", "cancel"}
                                   \cup Finished]
        BY <2>1, <2>6 DEF Reject, Goto, TypeOK, Finished
      <3>4. QED
        BY <3>1, <3>2, <3>3, ReleaseType DEF TypeOK
    <2>7. QED
      BY <1>3, <2>2, <2>3, <2>4, <2>5, <2>6 DEF ReviewStep
  <1>4. ASSUME NEW k \in Cancellers, CancelStep(k) PROVE TypeOK'
    <2>1. k \in Requests /\ k \in Tx
      BY DEF Requests, Tx
    <2>2. CASE WithdrawSub(k)
      BY <2>1, <2>2 DEF WithdrawSub, Goto, TypeOK, Pending
    <2>3. CASE WithdrawPay(k)
      <3>1. sub' \in [Claims -> SubStatus] /\ pay' \in [Claims -> PayStatus]
        BY <2>3 DEF WithdrawPay, TypeOK, SubStatus, PayStatus
      <3>2. Release(k) /\ UNCHANGED <<expires, license, until, now, stale, queue>>
        BY <2>3 DEF WithdrawPay
      <3>3. pc' \in [Requests -> {"new", "checked", "read", "pay", "sub", "payments", "next", "cancel"}
                                   \cup Finished]
        BY <2>1, <2>3 DEF WithdrawPay, End, Goto, TypeOK, Finished
      <3>4. QED
        BY <3>1, <3>2, <3>3, ReleaseType DEF TypeOK
    <2>4. QED
      BY <1>4, <2>2, <2>3 DEF CancelStep
  <1>5. CASE StartScan \/ NextStale
    BY <1>5, Apart DEF StartScan, NextStale, Goto, TypeOK, Pending, Finished
  <1>6. ASSUME NEW n \in Renewals, RenewStep(n) PROVE TypeOK'
    <2>1. CASE ReadLicense(n)
      <3>1. now \in Nat /\ license \in Nat /\ Months[n] \in Nat
        <4>1. now \in 0..MaxNow /\ MaxNow \in Nat
          BY LifecycleAssumption DEF TypeOK
        <4>2. now \in Nat
          BY <4>1
        <4>3. QED
          BY <4>2, LifecycleAssumption DEF TypeOK
      <3>2. PICK end \in {(IF license > now THEN license ELSE now) + Months[n]} \cup Dates :
              until' = [until EXCEPT ![n] = end]
        BY <2>1 DEF ReadLicense
      <3>3. end \in Nat
        BY <3>1, LifecycleAssumption
      <3>4. until' \in [Reviews \cup Renewals -> Nat]
        BY <3>2, <3>3 DEF TypeOK
      <3>5. QED
        BY <2>1, <3>4 DEF ReadLicense, Goto, TypeOK, Requests
    <2>2. CASE Renew(n)
      BY <2>2 DEF Renew, Goto, TypeOK, Finished
    <2>3. QED
      BY <1>6, <2>1, <2>2 DEF RenewStep
  <1>7. ASSUME NEW t \in Tx, Rollback(t) PROVE TypeOK'
    <2>1. t \in Requests
      BY DEF Requests
    <2>2. pc' \in [Requests -> {"new", "checked", "read", "pay", "sub", "payments", "next", "cancel"}
                                 \cup Finished]
      BY <1>7, <2>1 DEF Rollback, End, Goto, TypeOK, Finished
    <2>3. QED
      BY <1>7, <2>2, ReleaseType DEF Rollback, TypeOK
  <1>8. CASE AllAnswered \/ UNCHANGED vars
    BY <1>8 DEF AllAnswered, vars, TypeOK
  <1>9. QED
    BY <1>1, <1>2, <1>3, <1>4, <1>5, <1>6, <1>7, <1>8 DEF Next, DeadlockVictim, TransactionLost

-----------------------------------------------------------------------------
(* The rest of the invariant, step by step.                                 *)

Rows == LockInv /\ ReviewInv /\ NoRowsInv /\ OpenInv /\ PaidIsActive

\* Who holds a row is where LockInv has it.
LEMMA Holders ==
  ASSUME IInv
  PROVE  /\ \A r \in Claims : payLock[r] # NoTx => payLock[r] \in Reviews
         /\ \A r \in Claims : subLock[r] # NoTx => subLock[r] \in Cancellers
         /\ \A r \in Claims : sub[r] \in SubStatus /\ pay[r] \in PayStatus /\ expires[r] \in Nat
  BY DEF IInv, TypeOK, LockInv

\* Steps that leave the rows and their locks alone, and move one request that
\* holds nothing.
LEMMA MoveAside ==
  ASSUME IInv, NEW x \in Requests, UNCHANGED <<sub, pay, expires, subLock, payLock>>,
         \A y \in Requests : y # x => pc'[y] = pc[y],
         pc[x] \notin {"sub", "payments"},
         \A v \in Reviews : v # x => until'[v] = until[v],
         x \in Reviews => /\ pc'[x] # "sub"
                          /\ pc'[x] \in {"read", "pay"} => pay[ReviewOf[x]] # "NONE"
                          /\ Approves[x] /\ pc'[x] = "pay" => until'[x] > 0,
         x \in Claims /\ pc'[x] \in {"new", "checked"} => pc[x] \in {"new", "checked"}
  PROVE  Rows'
  <1> USE Apart, Holders
  <1>1. LockInv'
    BY DEF IInv, LockInv, Requests, Tx
  <1>2. ReviewInv'
    BY DEF IInv, ReviewInv, Requests, Tx
  <1>3. NoRowsInv'
    BY DEF IInv, NoRowsInv, Requests
  <1>4. OpenInv' /\ PaidIsActive'
    BY DEF IInv, OpenInv, PaidIsActive
  <1>5. QED
    BY <1>1, <1>2, <1>3, <1>4 DEF Rows

LEMMA AsideStep ==
  ASSUME IInv, Tick \/ (\E r \in Claims : Age(r)) \/ AllAnswered \/ UNCHANGED vars
  PROVE  Rows'
  <1>1. UNCHANGED <<sub, pay, expires, subLock, payLock, pc, until>>
    BY DEF Tick, Age, AllAnswered, vars, rowVars
  <1>2. LockInv' /\ ReviewInv' /\ NoRowsInv'
    BY <1>1 DEF IInv, LockInv, ReviewInv, NoRowsInv
  <1>3. OpenInv' /\ PaidIsActive'
    BY <1>1 DEF IInv, OpenInv, PaidIsActive
  <1>4. QED
    BY <1>2, <1>3 DEF Rows

LEMMA ScanStep ==
  ASSUME IInv, StartScan \/ NextStale
  PROVE  Rows'
  <1>1. /\ UNCHANGED <<sub, pay, expires, subLock, payLock, until>>
        /\ \A y \in Requests : y # StaleScan => pc'[y] = pc[y]
        /\ pc[StaleScan] \notin {"sub", "payments"}
    BY DEF StartScan, NextStale, Goto, rowVars, IInv, TypeOK
  <1>2. StaleScan \in Requests /\ StaleScan \notin Claims /\ StaleScan \notin Reviews
    BY Apart
  <1>3. QED
    BY <1>1, <1>2, MoveAside

LEMMA ClaimChecks ==
  ASSUME IInv, NEW r \in Claims, CheckClaim(r)
  PROVE  Rows'
  <1>1. /\ UNCHANGED <<sub, pay, expires, subLock, payLock, until>>
        /\ \A y \in Requests : y # r => pc'[y] = pc[y]
        /\ pc[r] = "new"
    BY DEF CheckClaim, Goto, rowVars, IInv, TypeOK
  <1>2. r \in Requests /\ r \notin Reviews
    BY Apart DEF Requests, Tx
  <1>3. QED
    BY <1>1, <1>2, MoveAside

LEMMA ReviewReads ==
  ASSUME IInv, NEW v \in Reviews, ReadClaim(v) \/ ReadPeriod(v)
  PROVE  Rows'
  <1> USE DEF IInv, TypeOK
  <1>1. v \in Requests /\ v \notin Claims
    BY Apart DEF Requests, Tx
  <1>2. /\ UNCHANGED <<sub, pay, expires, subLock, payLock>>
        /\ \A y \in Requests : y # v => pc'[y] = pc[y]
        /\ pc[v] \in {"new", "read"}
        /\ \A w \in Reviews : w # v => until'[w] = until[w]
    BY DEF ReadClaim, ReadPeriod, Goto, rowVars
  <1>3. CASE ReadClaim(v)
    <2>1. pc'[v] # "sub" /\ (Approves[v] => pc'[v] # "pay") /\ pay[ReviewOf[v]] # "NONE"
      BY <1>1, <1>3, Apart DEF ReadClaim, Goto, OpenInv
    <2>2. QED
      BY <1>1, <1>2, <2>1, MoveAside
  <1>4. CASE ReadPeriod(v)
    <2>1. PICK base \in {now} \cup {expires[x] : x \in Running} :
            until' = [until EXCEPT ![v] = base + Months[ReviewOf[v]]]
      BY <1>4 DEF ReadPeriod
    <2>2. until'[v] > 0
      BY <2>1, PeriodIsNat, Apart
    <2>3. pc'[v] = "pay" /\ pay[ReviewOf[v]] # "NONE"
      BY <1>1, <1>4 DEF ReadPeriod, Goto, ReviewInv
    <2>4. QED
      BY <1>1, <1>2, <2>2, <2>3, MoveAside
  <1>5. QED
    BY <1>3, <1>4

LEMMA LicenseReads ==
  ASSUME IInv, NEW n \in Renewals, RenewStep(n)
  PROVE  Rows'
  <1> USE DEF IInv, TypeOK
  <1>1. n \in Requests /\ n \notin Claims /\ n \notin Reviews
    BY Apart DEF Requests
  <1>2. /\ UNCHANGED <<sub, pay, subLock, payLock>>
        /\ \A y \in Requests : y # n => pc'[y] = pc[y]
        /\ pc[n] \in {"new", "read"}
        /\ \A w \in Reviews : until'[w] = until[w]
        /\ \A r \in Claims : expires'[r] = expires[r]
    BY <1>1 DEF RenewStep, ReadLicense, Renew, Goto, rowVars
  <1>3. LockInv' /\ ReviewInv' /\ NoRowsInv'
    <2> USE <1>1, <1>2, Apart, Holders
    <2>1. LockInv'
      BY DEF LockInv, Requests, Tx
    <2>2. ReviewInv'
      BY DEF ReviewInv, Requests, Tx
    <2>3. NoRowsInv'
      BY DEF NoRowsInv, Requests
    <2>4. QED
      BY <2>1, <2>2, <2>3
  <1>4. OpenInv' /\ PaidIsActive'
    BY <1>2 DEF OpenInv, PaidIsActive
  <1>5. QED
    BY <1>3, <1>4 DEF Rows

-----------------------------------------------------------------------------
(* The steps that write rows or locks.                                      *)

LEMMA Inserts ==
  ASSUME IInv, NEW r \in Claims, CreateClaim(r)
  PROVE  Rows'
  <1> USE Apart, Holders
  <1>1. r \in Requests /\ r \notin Tx /\ sub[r] = "NONE" /\ pay[r] = "NONE" /\ pc[r] = "checked"
    BY DEF CreateClaim, IInv, NoRowsInv, Requests
  <1>2. /\ UNCHANGED <<expires, subLock, payLock, until>>
        /\ \A y \in Requests : y # r => pc'[y] = pc[y]
        /\ pc'[r] \in {"done", "rejected"}
    BY <1>1 DEF CreateClaim, Goto, IInv, TypeOK
  <1>3. \/ UNCHANGED <<sub, pay>>
        \/ /\ Pending = {}
           /\ \A q \in Claims : q # r => sub'[q] = sub[q] /\ pay'[q] = pay[q]
           /\ sub'[r] = "PENDING_PAYMENT" /\ pay'[r] = "PENDING"
    BY DEF CreateClaim, IInv, TypeOK
  <1>4. payLock[r] = NoTx /\ subLock[r] = NoTx
    BY <1>1 DEF IInv, LockInv
  <1>5. LockInv'
    BY <1>1, <1>2, <1>3, <1>4 DEF IInv, LockInv, Requests, Tx
  <1>6. ReviewInv'
    BY <1>1, <1>2, <1>3, <1>4 DEF IInv, ReviewInv, Requests, Tx
  <1>7. NoRowsInv'
    BY <1>2, <1>3 DEF IInv, NoRowsInv, Requests
  <1>8. OpenInv'
    BY <1>3 DEF IInv, OpenInv, Pending
  <1>9. PaidIsActive'
    BY <1>1, <1>2, <1>3 DEF IInv, PaidIsActive
  <1>10. QED
    BY <1>5, <1>6, <1>7, <1>8, <1>9 DEF Rows

LEMMA PaymentClaims ==
  ASSUME IInv, NEW v \in Reviews, ClaimPayment(v)
  PROVE  Rows'
  <1> USE Apart, Holders
  <1> DEFINE r == ReviewOf[v]
  <1>1. v \in Requests /\ v \notin Claims /\ r \in Claims /\ pc[v] = "pay"
    BY DEF ClaimPayment, Requests, Tx
  <1>2. /\ UNCHANGED <<sub, pay, expires, subLock, until>>
        /\ \A y \in Requests : y # v => pc'[y] = pc[y]
    BY <1>1 DEF ClaimPayment, Goto, rowVars, IInv, TypeOK
  <1>3. \/ /\ pay[r] = "PENDING" /\ payLock[r] = NoTx /\ pc'[v] = "sub"
           /\ payLock' = [payLock EXCEPT ![r] = v]
        \/ /\ payLock' = payLock /\ pay[r] # "PENDING"
           /\ pc'[v] = IF Approves[v] THEN "failed" ELSE "sub"
    BY <1>1 DEF ClaimPayment, Goto, IInv, TypeOK
  <1>4. LockInv'
    BY <1>1, <1>2, <1>3 DEF IInv, TypeOK, LockInv, Requests, Tx
  <1>5. ReviewInv'
    BY <1>1, <1>2, <1>3 DEF IInv, TypeOK, ReviewInv, LockInv, Requests, Tx
  <1>6. NoRowsInv'
    BY <1>1, <1>2 DEF IInv, NoRowsInv, Requests
  <1>7. OpenInv' /\ PaidIsActive'
    BY <1>2 DEF IInv, OpenInv, PaidIsActive
  <1>8. QED
    BY <1>4, <1>5, <1>6, <1>7 DEF Rows

\* A transaction that ends lets go of its rows and of no others.
LEMMA Ends ==
  ASSUME IInv, NEW t \in Tx, Release(t), \A y \in Requests : y # t => pc'[y] = pc[y],
         pc'[t] \notin {"read", "pay", "sub"}, UNCHANGED until,
         \A r \in Claims : payLock[r] \notin {t, NoTx} => pay'[r] = pay[r],
         \A r \in Claims : pay'[r] # pay[r] => pay'[r] \notin {"NONE", "PENDING"},
         \A r \in Claims : subLock[r] \notin {t, NoTx} => sub'[r] = sub[r]
  PROVE  LockInv' /\ ReviewInv'
  <1> USE Apart, Holders
  <1>1. \A r \in Claims : payLock'[r] = (IF payLock[r] = t THEN NoTx ELSE payLock[r])
                       /\ subLock'[r] = (IF subLock[r] = t THEN NoTx ELSE subLock[r])
    BY DEF Release
  <1>2. LockInv'
    BY <1>1 DEF IInv, LockInv, Requests, Tx
  <1>3. ReviewInv'
    BY <1>1 DEF IInv, ReviewInv, Requests, Tx
  <1>4. QED
    BY <1>2, <1>3

LEMMA Rollbacks ==
  ASSUME IInv, NEW t \in Tx, Rollback(t)
  PROVE  Rows'
  <1>1. t \in Requests /\ t \notin Claims
    BY Apart DEF Requests
  <1>2. /\ Release(t) /\ UNCHANGED <<sub, pay, expires, until>>
        /\ \A y \in Requests : y # t => pc'[y] = pc[y]
        /\ pc'[t] \in {"next", "failed"}
    BY <1>1 DEF Rollback, End, Goto, rowVars, IInv, TypeOK
  <1>3. LockInv' /\ ReviewInv'
    BY <1>2, Ends
  <1>4. NoRowsInv'
    BY <1>1, <1>2 DEF IInv, NoRowsInv, Requests
  <1>5. OpenInv' /\ PaidIsActive'
    BY <1>2 DEF IInv, OpenInv, PaidIsActive
  <1>6. QED
    BY <1>3, <1>4, <1>5 DEF Rows

LEMMA WithdrawalClaims ==
  ASSUME IInv, NEW k \in Cancellers, WithdrawSub(k)
  PROVE  Rows'
  <1> USE Apart, Holders
  <1>1. k \in Requests /\ k \notin Claims /\ k \notin Reviews /\ k # NoTx
        /\ pc[k] \in {"new", "cancel"}
    BY DEF WithdrawSub, Requests, Tx
  <1>2. /\ UNCHANGED <<sub, pay, expires, payLock, until>>
        /\ \A y \in Requests : y # k => pc'[y] = pc[y]
        /\ pc'[k] = "payments"
    BY <1>1 DEF WithdrawSub, Goto, rowVars, IInv, TypeOK
  <1>3. \/ subLock' = subLock
        \/ \E r \in Claims : /\ sub[r] = "PENDING_PAYMENT" /\ subLock[r] = NoTx
                             /\ subLock' = [subLock EXCEPT ![r] = k]
    BY DEF WithdrawSub, Pending
  <1>4. LockInv'
    BY <1>1, <1>2, <1>3 DEF IInv, TypeOK, LockInv, Requests, Tx
  <1>5. ReviewInv'
    BY <1>1, <1>2 DEF IInv, ReviewInv, Requests, Tx
  <1>6. NoRowsInv'
    BY <1>1, <1>2 DEF IInv, NoRowsInv, Requests
  <1>7. OpenInv' /\ PaidIsActive'
    BY <1>2 DEF IInv, OpenInv, PaidIsActive
  <1>8. QED
    BY <1>4, <1>5, <1>6, <1>7 DEF Rows

\* An approval that goes through: its claim is PAID, ACTIVE and has its period.
LEMMA Approvals ==
  ASSUME IInv, NEW v \in Reviews, Activate(v)
  PROVE  Rows'
  <1> USE Apart, Holders
  <1> DEFINE r == ReviewOf[v]
  <1>1. /\ v \in Requests /\ v \in Tx /\ v \notin Claims /\ r \in Claims
        /\ pay[r] = "PENDING" /\ payLock[r] = v
    BY DEF Activate, IInv, LockInv, ReviewInv, Requests, Tx
  <1>2. /\ Release(v) /\ UNCHANGED until
        /\ \A y \in Requests : y # v => pc'[y] = pc[y]
        /\ pc'[v] \in {"done", "failed"}
    BY <1>1 DEF Activate, Goto, IInv, TypeOK
  <1>3. \/ UNCHANGED <<sub, pay, expires>>
        \/ /\ sub[r] = "PENDING_PAYMENT" /\ subLock[r] = NoTx
           /\ sub' = [sub EXCEPT ![r] = "ACTIVE"]
           /\ pay' = [pay EXCEPT ![r] = "PAID"]
           /\ expires' = [expires EXCEPT ![r] = until[v]]
    BY DEF Activate, rowVars
  <1>4. until[v] \in Nat /\ until[v] > 0
    BY DEF Activate, IInv, TypeOK, ReviewInv
  <1>5. /\ \A q \in Claims : payLock[q] \notin {v, NoTx} => pay'[q] = pay[q]
        /\ \A q \in Claims : pay'[q] # pay[q] => pay'[q] \notin {"NONE", "PENDING"}
        /\ \A q \in Claims : subLock[q] \notin {v, NoTx} => sub'[q] = sub[q]
    BY <1>1, <1>3 DEF IInv, TypeOK
  <1>6. LockInv' /\ ReviewInv'
    BY <1>1, <1>2, <1>5, Ends
  <1>7. NoRowsInv'
    BY <1>1, <1>2, <1>3 DEF IInv, TypeOK, NoRowsInv, Requests
  <1>8. OpenInv'
    BY <1>1, <1>3 DEF IInv, TypeOK, OpenInv
  <1>9. PaidIsActive'
    <2> SUFFICES ASSUME NEW q \in Claims
                 PROVE  /\ pay'[q] = "PAID" <=> sub'[q] = "ACTIVE"
                        /\ sub'[q] = "ACTIVE" <=> expires'[q] > 0
      BY DEF PaidIsActive
    <2>1. /\ pay[q] = "PAID" <=> sub[q] = "ACTIVE"
          /\ sub[q] = "ACTIVE" <=> expires[q] > 0
      BY DEF IInv, PaidIsActive
    <2>2. CASE pay'[q] = pay[q] /\ sub'[q] = sub[q] /\ expires'[q] = expires[q]
      BY <2>1, <2>2
    <2>3. CASE pay'[q] = "PAID" /\ sub'[q] = "ACTIVE" /\ expires'[q] > 0
      BY <2>3
    <2>4. QED
      BY <1>1, <1>3, <1>4, <2>2, <2>3 DEF IInv, TypeOK
  <1>10. QED
    BY <1>6, <1>7, <1>8, <1>9 DEF Rows

\* A rejection closes what it finds open, and marks the payment if it holds it.
LEMMA Rejections ==
  ASSUME IInv, NEW v \in Reviews, Reject(v)
  PROVE  Rows'
  <1> USE Apart, Holders
  <1> DEFINE r == ReviewOf[v]
  <1>1. /\ v \in Requests /\ v \in Tx /\ v \notin Claims /\ r \in Claims /\ v # NoTx
        /\ payLock[r] = v => pay[r] = "PENDING" /\ sub[r] = "PENDING_PAYMENT"
        /\ payLock[r] # v => pay[r] \notin {"NONE", "PENDING"}
    BY DEF Reject, IInv, LockInv, ReviewInv, OpenInv, Requests, Tx
  <1>2. /\ Release(v) /\ UNCHANGED <<until, expires>>
        /\ \A y \in Requests : y # v => pc'[y] = pc[y]
        /\ pc'[v] \in {"done", "failed"}
    BY <1>1 DEF Reject, Goto, IInv, TypeOK
  <1>3. /\ pay' = [pay EXCEPT ![r] = IF payLock[r] = v THEN "REJECTED" ELSE pay[r]]
        /\ \/ sub[r] = "PENDING_PAYMENT" /\ subLock[r] = NoTx
              /\ sub' = [sub EXCEPT ![r] = "CANCELLED"]
           \/ sub[r] # "PENDING_PAYMENT" /\ sub' = sub
    BY DEF Reject
  <1>4. /\ \A q \in Claims : payLock[q] \notin {v, NoTx} => pay'[q] = pay[q]
        /\ \A q \in Claims : pay'[q] # pay[q] => pay'[q] \notin {"NONE", "PENDING"}
        /\ \A q \in Claims : subLock[q] \notin {v, NoTx} => sub'[q] = sub[q]
    BY <1>1, <1>3 DEF IInv, TypeOK
  <1>5. LockInv' /\ ReviewInv'
    BY <1>1, <1>2, <1>4, Ends
  <1>6. NoRowsInv'
    BY <1>1, <1>2, <1>3 DEF IInv, TypeOK, NoRowsInv, Requests
  <1>7. OpenInv'
    BY <1>1, <1>3 DEF IInv, TypeOK, OpenInv
  <1>8. PaidIsActive'
    <2> SUFFICES ASSUME NEW q \in Claims
                 PROVE  /\ pay'[q] = "PAID" <=> sub'[q] = "ACTIVE"
                        /\ sub'[q] = "ACTIVE" <=> expires'[q] > 0
      BY DEF PaidIsActive
    <2>1. /\ pay[q] = "PAID" <=> sub[q] = "ACTIVE"
          /\ sub[q] = "ACTIVE" <=> expires[q] > 0
      BY DEF IInv, PaidIsActive
    <2>2. /\ expires'[q] = expires[q]
          /\ pay'[q] = "PAID" <=> pay[q] = "PAID"
          /\ sub'[q] = "ACTIVE" <=> sub[q] = "ACTIVE"
      BY <1>1, <1>2, <1>3 DEF IInv, TypeOK
    <2>3. QED
      BY <2>1, <2>2
  <1>9. QED
    BY <1>5, <1>6, <1>7, <1>8 DEF Rows

\* A withdrawal closes what it holds, and every payment that waits.
LEMMA Withdrawn ==
  ASSUME IInv, NEW k \in Cancellers, WithdrawPay(k)
  PROVE  Rows'
  <1> USE Apart, Holders
  <1>1. /\ k \in Requests /\ k \in Tx /\ k \notin Claims /\ k \notin Reviews /\ k # NoTx
        /\ \A q \in Claims : subLock[q] = k => sub[q] = "PENDING_PAYMENT"
        /\ \A q \in Claims : payLock[q] # k
        /\ \A q \in Claims : pay[q] = "PENDING" => payLock[q] = NoTx
    BY DEF WithdrawPay, IInv, LockInv, Requests, Tx
  <1>2. /\ Release(k) /\ UNCHANGED <<until, expires>>
        /\ \A y \in Requests : y # k => pc'[y] = pc[y]
        /\ pc'[k] \in {"next", "done", "failed"}
    BY <1>1 DEF WithdrawPay, End, Goto, IInv, TypeOK
  <1>3. \A q \in Claims : /\ pay'[q] = (IF pay[q] = "PENDING" THEN "EXPIRED" ELSE pay[q])
                         /\ sub'[q] = (IF subLock[q] = k THEN "CANCELLED" ELSE sub[q])
    BY DEF WithdrawPay
  <1>4. /\ \A q \in Claims : payLock[q] \notin {k, NoTx} => pay'[q] = pay[q]
        /\ \A q \in Claims : pay'[q] # pay[q] => pay'[q] \notin {"NONE", "PENDING"}
        /\ \A q \in Claims : subLock[q] \notin {k, NoTx} => sub'[q] = sub[q]
    BY <1>1, <1>3
  <1>5. LockInv' /\ ReviewInv'
    BY <1>1, <1>2, <1>4, Ends
  <1>6. NoRowsInv'
    BY <1>1, <1>2, <1>3 DEF IInv, NoRowsInv, Requests
  <1>7. OpenInv'
    BY <1>1, <1>3 DEF IInv, OpenInv
  <1>8. PaidIsActive'
    <2> SUFFICES ASSUME NEW q \in Claims
                 PROVE  /\ pay'[q] = "PAID" <=> sub'[q] = "ACTIVE"
                        /\ sub'[q] = "ACTIVE" <=> expires'[q] > 0
      BY DEF PaidIsActive
    <2>1. /\ pay[q] = "PAID" <=> sub[q] = "ACTIVE"
          /\ sub[q] = "ACTIVE" <=> expires[q] > 0
      BY DEF IInv, PaidIsActive
    <2>2. /\ expires'[q] = expires[q]
          /\ pay'[q] = "PAID" <=> pay[q] = "PAID"
          /\ sub'[q] = "ACTIVE" <=> sub[q] = "ACTIVE"
      BY <1>1, <1>2, <1>3
    <2>3. QED
      BY <2>1, <2>2
  <1>9. QED
    BY <1>5, <1>6, <1>7, <1>8 DEF Rows

LEMMA InvStep == ASSUME IInv, [Next]_vars PROVE IInv'
  <1>1. TypeOK'
    BY TypeStep
  <1>2. Rows'
    <2>1. CASE Tick \/ (\E r \in Claims : Age(r)) \/ AllAnswered \/ UNCHANGED vars
      BY <2>1, AsideStep
    <2>2. CASE \E r \in Claims : ClaimStep(r)
      BY <2>2, ClaimChecks, Inserts DEF ClaimStep
    <2>3. CASE \E v \in Reviews : ReadClaim(v) \/ ReviewStep(v)
      BY <2>3, ReviewReads, PaymentClaims, Approvals, Rejections DEF ReviewStep
    <2>4. CASE \E k \in Cancellers : CancelStep(k)
      BY <2>4, WithdrawalClaims, Withdrawn DEF CancelStep
    <2>5. CASE StartScan \/ NextStale
      BY <2>5, ScanStep
    <2>6. CASE \E n \in Renewals : RenewStep(n)
      BY <2>6, LicenseReads
    <2>7. CASE \E t \in Tx : DeadlockVictim(t) \/ TransactionLost(t)
      BY <2>7, Rollbacks DEF DeadlockVictim, TransactionLost
    <2>8. QED
      BY <2>1, <2>2, <2>3, <2>4, <2>5, <2>6, <2>7 DEF Next
  <1>3. QED
    BY <1>1, <1>2 DEF IInv, Rows

-----------------------------------------------------------------------------
\* Whatever the requests and their order, IInv holds.
THEOREM Invariance == Spec => []IInv
  BY InitIInv, InvStep, PTL DEF Spec

\* Every variable keeps its type.
THEOREM TypeCorrect == Spec => []TypeOK
  <1>1. IInv => TypeOK
    BY DEF IInv
  <1>2. QED
    BY <1>1, Invariance, PTL

\* No interleaving of approvals, rejections and withdrawals leaves a payment PAID
\* without an active subscription with its period, or the other way round.
THEOREM NeitherLegAlone == Spec => []PaidIsActive
  <1>1. IInv => PaidIsActive
    BY DEF IInv
  <1>2. QED
    BY <1>1, Invariance, PTL

-----------------------------------------------------------------------------
(* The refinement of ClaimContract.                                         *)

\* What a step does to the rows, when it is not one of the deciding ones.
LEMMA Quiet ==
  ASSUME IInv, [Next]_vars
  PROVE  \/ UNCHANGED <<sub, pay, license>>
         \/ \E r \in Claims : CreateClaim(r)
         \/ \E v \in Reviews : Activate(v) \/ Reject(v)
         \/ \E k \in Cancellers : WithdrawPay(k)
         \/ \E n \in Renewals : Renew(n)
  <1> USE DEF rowVars
  <1>1. CASE \/ Tick \/ (\E r \in Claims : Age(r) \/ CheckClaim(r))
             \/ AllAnswered \/ StartScan \/ NextStale \/ UNCHANGED vars
    BY <1>1 DEF Tick, Age, CheckClaim, AllAnswered, StartScan, NextStale, vars
  <1>2. CASE \E v \in Reviews : ReadClaim(v) \/ ReadPeriod(v) \/ ClaimPayment(v)
    BY <1>2 DEF ReadClaim, ReadPeriod, ClaimPayment
  <1>3. CASE \E k \in Cancellers : WithdrawSub(k)
    BY <1>3 DEF WithdrawSub
  <1>4. CASE \E n \in Renewals : ReadLicense(n)
    BY <1>4 DEF ReadLicense
  <1>5. CASE \E t \in Tx : DeadlockVictim(t) \/ TransactionLost(t)
    BY <1>5 DEF DeadlockVictim, TransactionLost, Rollback
  <1>6. QED
    BY <1>1, <1>2, <1>3, <1>4, <1>5 DEF Next, ClaimStep, ReviewStep, CancelStep, RenewStep

\* A withdrawal, at its commit, withdraws the open claim whole, or only its payment,
\* or only what is left of a claim whose payment was closed before.
LEMMA Withdraws ==
  ASSUME IInv, NEW k \in Cancellers, WithdrawPay(k)
  PROVE  \/ UNCHANGED <<sub, pay, license>>
         \/ \E r \in Claims : \/ Contract!Withdraw(r)
                              \/ Contract!StrayExpiry(r)
                              \/ Contract!StrayCancel(r)
  <1> USE Holders
  <1>1. /\ UNCHANGED license
        /\ pay' = [r \in Claims |-> IF pay[r] = "PENDING" THEN "EXPIRED" ELSE pay[r]]
        /\ sub' = [r \in Claims |-> IF subLock[r] = k THEN "CANCELLED" ELSE sub[r]]
    BY DEF WithdrawPay
  <1>2. sub = [r \in Claims |-> sub[r]] /\ pay = [r \in Claims |-> pay[r]]
    BY DEF IInv, TypeOK
  <1>3. CASE \A r \in Claims : sub[r] # "PENDING_PAYMENT"
    <2>1. \A r \in Claims : pay[r] # "PENDING" /\ subLock[r] # k
      <3>1. k # NoTx
        BY Apart
      <3>2. QED
        BY <1>3, <3>1 DEF IInv, OpenInv, LockInv
    <2>2. sub' = sub /\ pay' = pay
      BY <1>1, <1>2, <2>1
    <2>3. QED
      BY <1>1, <2>2
  <1>4. ASSUME NEW r \in Claims, sub[r] = "PENDING_PAYMENT"
        PROVE  \/ UNCHANGED <<sub, pay, license>>
               \/ Contract!Withdraw(r) \/ Contract!StrayExpiry(r) \/ Contract!StrayCancel(r)
    <2> DEFINE s == IF subLock[r] = k THEN "CANCELLED" ELSE "PENDING_PAYMENT"
    <2>1. \A q \in Claims : q # r => pay[q] # "PENDING" /\ subLock[q] # k
      BY <1>4, Apart DEF IInv, OpenInv, LockInv, Tx
    <2>2. pay[r] \in {"PENDING", "EXPIRED"}
      BY <1>4 DEF IInv, OpenInv
    <2>3. sub' = [sub EXCEPT ![r] = s] /\ pay' = [pay EXCEPT ![r] = "EXPIRED"]
      BY <1>1, <1>2, <1>4, <2>1, <2>2
    <2>4. CASE pay[r] = "PENDING"
      BY <1>1, <1>4, <2>3, <2>4
      DEF Contract!Withdraw, Contract!StrayExpiry, Contract!Open, Contract!Move
    <2>5. CASE pay[r] = "EXPIRED" /\ subLock[r] = k
      BY <1>1, <1>4, <2>3, <2>5 DEF Contract!StrayCancel, Contract!Move
    <2>6. CASE pay[r] = "EXPIRED" /\ subLock[r] # k
      BY <1>1, <1>2, <1>4, <2>3, <2>6
    <2>7. QED
      BY <2>2, <2>4, <2>5, <2>6
  <1>5. QED
    BY <1>3, <1>4

LEMMA Decides ==
  ASSUME IInv, TypeOK', NEW v \in Reviews, Activate(v) \/ Reject(v)
  PROVE  [Contract!ContractNext]_<<sub, pay, license>>
  <1> USE Apart DEF Contract!ContractNext
  <1> DEFINE r == ReviewOf[v]
  <1>1. r \in Claims /\ license' \in Nat
    BY DEF TypeOK
  <1>2. CASE Activate(v)
    <2>1. pay[r] = "PENDING"
      BY <1>1, <1>2 DEF Activate, IInv, LockInv, ReviewInv
    <2>2. CASE sub[r] = "PENDING_PAYMENT"
      <3>1. Contract!Approve(r)
        BY <1>1, <1>2, <2>1, <2>2 DEF Activate, Contract!Approve, Contract!Open, Contract!Move
      <3>2. QED
        BY <1>1, <3>1
    <2>3. CASE sub[r] # "PENDING_PAYMENT"
      BY <1>2, <2>3 DEF Activate, rowVars
    <2>4. QED
      BY <2>2, <2>3
  <1>3. CASE Reject(v)
    <2>1. /\ UNCHANGED license
          /\ pay' = [pay EXCEPT ![r] = IF payLock[r] = v THEN "REJECTED" ELSE pay[r]]
          /\ IF sub[r] = "PENDING_PAYMENT"
               THEN sub' = [sub EXCEPT ![r] = "CANCELLED"] ELSE sub' = sub
      BY <1>3 DEF Reject
    <2>2. CASE payLock[r] = v
      <3>1. pay[r] = "PENDING" /\ sub[r] = "PENDING_PAYMENT"
        BY <1>1, <2>2 DEF IInv, LockInv, OpenInv
      <3>2. Contract!Reject(r)
        BY <2>1, <2>2, <3>1 DEF Contract!Reject, Contract!Open, Contract!Move
      <3>3. QED
        BY <1>1, <3>2
    <2>3. CASE payLock[r] # v /\ sub[r] = "PENDING_PAYMENT"
      <3>1. pay[r] = "EXPIRED"
        BY <1>1, <1>3, <2>3 DEF Reject, IInv, OpenInv, ReviewInv
      <3>2. Contract!StrayCancel(r)
        BY <2>1, <2>3, <3>1 DEF Contract!StrayCancel, Contract!Move
      <3>3. QED
        BY <1>1, <3>2
    <2>4. CASE payLock[r] # v /\ sub[r] # "PENDING_PAYMENT"
      BY <2>1, <2>4 DEF IInv, TypeOK
    <2>5. QED
      BY <2>2, <2>3, <2>4
  <1>4. QED
    BY <1>2, <1>3

\* Every step is a step of the contract or leaves the rows alone.
LEMMA ContractStep ==
  ASSUME IInv, TypeOK', [Next]_vars
  PROVE  [Contract!ContractNext]_<<sub, pay, license>>
  <1> USE DEF Contract!ContractNext
  <1>1. ASSUME NEW r \in Claims, CreateClaim(r)
        PROVE  [Contract!ContractNext]_<<sub, pay, license>>
    <2>1. sub[r] = "NONE"
      BY <1>1 DEF CreateClaim, IInv, NoRowsInv
    <2>2. UNCHANGED <<sub, pay, license>> \/ Contract!Request(r)
      BY <1>1, <2>1 DEF CreateClaim, Pending, Contract!Request, Contract!Move
    <2>3. QED
      BY <2>2
  <1>2. ASSUME NEW n \in Renewals, Renew(n) PROVE Contract!Renew
    BY <1>2 DEF Renew, Contract!Renew, TypeOK
  <1>3. QED
    BY <1>1, <1>2, Quiet, Withdraws, Decides

\* The transactions implement the contract, whoever races whom.
THEOREM Refinement == Spec => ContractImplemented
  <1>1. Init => Contract!ContractInit
    BY DEF Init, Contract!ContractInit
  <1>2. IInv /\ IInv' /\ [Next]_vars => [Contract!ContractNext]_(Contract!contractVars)
    BY ContractStep DEF IInv, Contract!contractVars
  <1>3. QED
    BY <1>1, <1>2, Invariance, PTL DEF Spec, ContractImplemented, Contract!ContractSpec
=============================================================================
