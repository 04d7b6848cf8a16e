---------------------------- MODULE ShowroomProofs ----------------------------
(***************************************************************************)
(* Theorems about the books of a showroom: InstallmentSales, for any       *)
(* number of invoices, installments and requests, and BackOffice, for any  *)
(* number of users, rows and writes.  Neither reads the other's state; the *)
(* names of BackOffice's specification begin with Office.                  *)
(*                                                                         *)
(* InstallmentSales: what is paid is what the successful requests paid,    *)
(* payments are never taken back, and every step that could undo a         *)
(* conjunct of IInv has passed a conditional update.  One lemma per        *)
(* conjunct, one step per group of actions that disturb it.                *)
(*                                                                         *)
(* BackOffice: a request that no other write came across has read its row  *)
(* as it still is, and so has its form; a payment holds its supplier's row *)
(* from the claim on.  One lemma per action; WriteKeeps and AskKeeps carry *)
(* what all writes and all requests have in common.                        *)
(***************************************************************************)
EXTENDS InstallmentSales, BackOffice, WellFoundedInduction, TLAPS

LEMMA InstallmentFacts ==
  /\ \A p \in Payers : Pays[p] \in Installment /\ Pays[p].sale \in Sales /\ Pays[p].n \in Insts
  /\ \A i \in Installment : i.sale \in Sales /\ i.n \in Insts
  /\ \A s \in Sales : Of(s) \subseteq Installment
  /\ \A i \in Installment : i \in Of(i.sale)
  /\ 1 \in Insts
  <1>1. \A i \in Installment : i.sale \in Sales /\ i.n \in Insts
    BY DEF Installment
  <1>2. \A p \in Payers : Pays[p] \in Installment
    BY InstallmentAssumption
  <1>3. QED
    BY <1>1, <1>2, InstallmentAssumption DEF Of, Insts

LEMMA FirstUnpaidType ==
  ASSUME NEW s \in Sales
  PROVE  FirstUnpaid(s) \subseteq Insts \cup {NoDate}
  BY InstallmentFacts DEF FirstUnpaid, Unpaid

LEMMA InitIInv == Init => IInv
  <1> SUFFICES ASSUME Init PROVE IInv
    OBVIOUS
  <1> USE InstallmentAssumption, InstallmentFacts DEF Init
  <1>1. current \in Installment
    <2>1. PICK s \in Sales : TRUE
      OBVIOUS
    <2>2. [sale |-> s, n |-> 1] \in Installment
      BY DEF Installment
    <2>3. QED
      BY <2>2
  <1>2. TypeOK
    BY <1>1 DEF TypeOK, SaleStatus, NoDate, Finished
  <1>3. PaidInv /\ CollectedOnce /\ CompletedInv /\ ReturnInv
    BY DEF PaidInv, CollectedOnce, CompletedInv, ReturnInv
  <1>4. NoticeInv /\ AuditInv
    BY DEF NoticeInv, AuditInv, AuditsMatchFlips
  <1>5. QED
    BY <1>2, <1>3, <1>4 DEF IInv

-----------------------------------------------------------------------------
\* A counter that goes up stays a natural number.
LEMMA CountUp ==
  ASSUME NEW S, NEW f \in [S -> Nat], NEW x \in S
  PROVE  [f EXCEPT ![x] = f[x] + 1] \in [S -> Nat]
  <1>1. f[x] + 1 \in Nat
    OBVIOUS
  <1>2. QED
    BY <1>1

LEMMA TypeStep ==
  ASSUME IInv, [Next]_vars
  PROVE  TypeOK'
  <1> TypeOK
    BY DEF IInv
  <1>1. ASSUME NEW s \in Sales, DueDatePasses(s) PROVE TypeOK'
    <2>1. due[s] \in 0..N /\ due[s] < N /\ N \in Nat
      BY <1>1, InstallmentAssumption DEF DueDatePasses, TypeOK
    <2>2. due[s] + 1 \in 0..N
      BY <2>1
    <2>3. due' \in [Sales -> 0..N]
      BY <1>1, <2>2 DEF DueDatePasses, TypeOK
    <2>4. QED
      BY <1>1, <2>3 DEF DueDatePasses, TypeOK, saleVars, reqVars, scanVars
  <1>2. ASSUME NEW p \in Payers, PayStep(p) PROVE TypeOK'
    <2> USE DEF TypeOK, scanVars, saleVars, Goto, Finished
    <2>1. CASE ReadInstallment(p)
      BY <2>1 DEF ReadInstallment
    <2>2. CASE FlipPaid(p)
      <3>1. paid' \subseteq paid \cup {Pays[p]} /\ collected' \subseteq collected \cup {p}
        BY <2>2 DEF FlipPaid
      <3>2. Pays[p] \in Installment
        BY InstallmentAssumption
      <3>3. paid' \subseteq Installment /\ collected' \subseteq Payers
        BY <3>1, <3>2
      <3>4. QED
        BY <2>2, <3>3 DEF FlipPaid
    <2>3. CASE CompleteIfPaid(p)
      BY <2>3, InstallmentFacts DEF CompleteIfPaid, SaleStatus
    <2>4. CASE ReadNextDue(p)
      <3>1. PICK n \in FirstUnpaid(Pays[p].sale) : nextSeen' = [nextSeen EXCEPT ![p] = n]
        BY <2>4 DEF ReadNextDue
      <3>2. n \in Insts \cup {NoDate}
        BY FirstUnpaidType, InstallmentFacts
      <3>3. nextSeen' \in [Payers -> Insts \cup {NoDate}]
        BY <3>1, <3>2
      <3>4. QED
        BY <2>4, <3>3 DEF ReadNextDue
    <2>5. CASE CountOverdue(p)
      BY <2>5 DEF CountOverdue
    <2>6. CASE SettleSale(p)
      BY <2>6, InstallmentFacts DEF SettleSale, SaleStatus
    <2>7. QED
      BY <1>2, <2>1, <2>2, <2>3, <2>4, <2>5, <2>6 DEF PayStep
  <1>3. ASSUME NEW c \in Cancels, CancelStep(c) PROVE TypeOK'
    <2> USE DEF TypeOK, scanVars, saleVars, Goto, Finished
    <2>1. CASE ReadSale(c) \/ CountPaid(c) \/ CancelLost(c)
      BY <2>1 DEF ReadSale, CountPaid, CancelLost
    <2>2. CASE ClaimCancel(c)
      <3> DEFINE up == [returned EXCEPT ![CancelOf[c]] = returned[CancelOf[c]] + 1]
                 gone == [status EXCEPT ![CancelOf[c]] = "CANCELLED"]
      <3>1. CancelOf[c] \in Sales
        BY InstallmentAssumption
      <3>2. up \in [Sales -> Nat]
        BY <3>1, CountUp
      <3>3. gone \in [Sales -> SaleStatus]
        BY <3>1 DEF SaleStatus
      <3>4. returned' = up \/ returned' = returned
        BY <2>2 DEF ClaimCancel
      <3>5. status' = gone \/ status' = status
        BY <2>2 DEF ClaimCancel
      <3>6. returned' \in [Sales -> Nat] /\ status' \in [Sales -> SaleStatus]
        BY <3>2, <3>3, <3>4, <3>5
      <3>7. QED
        BY <2>2, <3>6 DEF ClaimCancel
    <2>3. QED
      BY <1>3, <2>1, <2>2 DEF CancelStep
  <1>4. ASSUME NEW i \in Installment, Notify(i) PROVE TypeOK'
    <2> DEFINE up == [sent EXCEPT ![i] = sent[i] + 1]
    <2>1. up \in [Installment -> Nat]
      BY CountUp DEF TypeOK
    <2>2. sent' = up \/ sent' = sent
      BY <1>4 DEF Notify
    <2>3. sent' \in [Installment -> Nat]
      BY <2>1, <2>2 DEF TypeOK
    <2>4. QED
      BY <1>4, <2>3 DEF Notify, TypeOK, saleVars, reqVars
  <1>5. CASE StartScan \/ StampNotified \/ EndScan
    BY <1>5 DEF StartScan, ToNotify, StampNotified, EndScan, TypeOK, saleVars, reqVars
  <1>6. CASE MarkOverdue
    <2>1. current.sale \in Sales
      BY InstallmentFacts DEF TypeOK
    <2> DEFINE up == [flips EXCEPT ![current.sale] = flips[current.sale] + 1]
    <2>2. up \in [Sales -> Nat]
      BY <2>1, CountUp DEF TypeOK
    <2>3. flips' = up \/ flips' = flips
      BY <1>6 DEF MarkOverdue
    <2>4. flips' \in [Sales -> Nat]
      BY <2>2, <2>3 DEF TypeOK
    <2>5. status' \in [Sales -> SaleStatus]
      BY <1>6, <2>1 DEF MarkOverdue, TypeOK, SaleStatus
    <2>6. QED
      BY <1>6, <2>4, <2>5 DEF MarkOverdue, TypeOK, reqVars
  <1>7. CASE WriteAudit
    <2>1. audits' \in [Sales -> Nat]
      BY <1>7, InstallmentFacts, CountUp DEF WriteAudit, TypeOK
    <2>2. QED
      BY <1>7, <2>1 DEF WriteAudit, TypeOK, saleVars, reqVars
  <1>8. CASE ScanCrash
    <2>1. crashes' \in 0..MaxCrashes
      <3>1. crashes \in 0..MaxCrashes /\ crashes < MaxCrashes /\ crashes' = crashes + 1
        BY <1>8 DEF ScanCrash, TypeOK
      <3>2. MaxCrashes \in Nat
        BY InstallmentAssumption
      <3>3. QED
        BY <3>1, <3>2
    <2>2. QED
      BY <1>8, <2>1 DEF ScanCrash, TypeOK, saleVars, reqVars
  <1>9. CASE UNCHANGED vars
    BY <1>9 DEF vars, TypeOK
  <1>10. QED
    BY <1>1, <1>2, <1>3, <1>4, <1>5, <1>6, <1>7, <1>8, <1>9 DEF Next, ScanStep

-----------------------------------------------------------------------------
\* The steps that leave payments and payers alone.
LEMMA OtherSteps ==
  ASSUME IInv, [Next]_vars, \A p \in Payers : ~PayStep(p)
  PROVE  UNCHANGED <<paid, collected>> /\ \A p \in Payers : pc'[p] = pc[p]
  <1>1. ASSUME NEW c \in Cancels, CancelStep(c)
        PROVE  UNCHANGED <<paid, collected>> /\ \A p \in Payers : pc'[p] = pc[p]
    <2>1. \A p \in Payers : p # c
      BY InstallmentAssumption
    <2>2. QED
      BY <1>1, <2>1
         DEF CancelStep, ReadSale, CountPaid, ClaimCancel, CancelLost, Goto, IInv, TypeOK
  <1>2. CASE \E s \in Sales : DueDatePasses(s)
    BY <1>2 DEF DueDatePasses, reqVars
  <1>3. CASE ScanStep
    BY <1>3 DEF ScanStep, StartScan, Notify, StampNotified, MarkOverdue, WriteAudit, EndScan,
                ScanCrash, reqVars
  <1>4. CASE UNCHANGED vars
    BY <1>4 DEF vars
  <1>5. QED
    BY <1>1, <1>2, <1>3, <1>4 DEF Next

LEMMA PaidStep ==
  ASSUME IInv, [Next]_vars
  PROVE  PaidInv' /\ CollectedOnce' /\ paid \subseteq paid'
  <1>1. ASSUME NEW p \in Payers, FlipPaid(p), Pays[p] \notin paid
        PROVE  PaidInv' /\ CollectedOnce' /\ paid \subseteq paid'
    <2>1. /\ paid' = paid \cup {Pays[p]} /\ collected' = collected \cup {p}
          /\ \A q \in Payers : q # p => pc'[q] = pc[q]
      BY <1>1 DEF FlipPaid, Goto, IInv, TypeOK
    <2>2. CollectedOnce'
      <3>1. \A q \in collected : Pays[q] \in paid
        BY DEF IInv, PaidInv
      <3>2. \A q \in collected : Pays[q] # Pays[p]
        BY <1>1, <3>1
      <3>3. QED
        BY <2>1, <3>2 DEF IInv, CollectedOnce
    <2>3. PaidInv'
      BY <1>1, <2>1 DEF IInv, PaidInv
    <2>4. QED
      BY <2>1, <2>2, <2>3
  <1>2. ASSUME NEW p \in Payers, UNCHANGED <<paid, collected>>,
               \A q \in Payers : q # p => pc'[q] = pc[q],
               \/ pc[p] \in {"flipped", "open", "next read", "counted"}
               \/ pc'[p] \notin {"flipped", "open", "next read", "counted"}
        PROVE  PaidInv' /\ CollectedOnce' /\ paid \subseteq paid'
    BY <1>2 DEF IInv, PaidInv, CollectedOnce
  <1>3. ASSUME NEW p \in Payers, PayStep(p), ~(FlipPaid(p) /\ Pays[p] \notin paid)
        PROVE  PaidInv' /\ CollectedOnce' /\ paid \subseteq paid'
    <2>1. UNCHANGED <<paid, collected>> /\ \A q \in Payers : q # p => pc'[q] = pc[q]
      BY <1>3 DEF PayStep, ReadInstallment, FlipPaid, CompleteIfPaid, ReadNextDue, CountOverdue,
                  SettleSale, Goto, IInv, TypeOK
    <2>2. \/ pc[p] \in {"flipped", "open", "next read", "counted"}
          \/ pc'[p] \notin {"flipped", "open", "next read", "counted"}
      BY <1>3 DEF PayStep, ReadInstallment, FlipPaid, CompleteIfPaid, ReadNextDue, CountOverdue,
                  SettleSale, Goto, IInv, TypeOK
    <2>3. QED
      BY <1>2, <2>1, <2>2
  <1>4. CASE \A p \in Payers : ~PayStep(p)
    BY <1>4, OtherSteps DEF IInv, PaidInv, CollectedOnce
  <1>5. QED
    BY <1>1, <1>3, <1>4 DEF PayStep

\* What the steps do to the invoice's status and its stock.
LEMMA StatusStep ==
  ASSUME IInv, [Next]_vars, NEW s \in Sales
  PROVE  \/ status'[s] = status[s] /\ returned'[s] = returned[s]
         \/ Of(s) \cap paid # {} /\ returned'[s] = returned[s]
              /\ (status'[s] = "COMPLETED" => Of(s) \subseteq paid)
         \/ status[s] = "ACTIVE" /\ status'[s] = "OVERDUE" /\ returned'[s] = returned[s]
         \/ status[s] = "ACTIVE" /\ status'[s] = "CANCELLED" /\ returned'[s] = returned[s] + 1
  <1> USE DEF IInv, TypeOK
  <1>1. ASSUME NEW p \in Payers, CompleteIfPaid(p) \/ SettleSale(p)
        PROVE  \/ status'[s] = status[s] /\ returned'[s] = returned[s]
               \/ Of(s) \cap paid # {} /\ returned'[s] = returned[s]
                    /\ (status'[s] = "COMPLETED" => Of(s) \subseteq paid)
    <2>1. Pays[p] \in paid /\ Pays[p] \in Of(Pays[p].sale)
      BY <1>1, InstallmentFacts DEF CompleteIfPaid, SettleSale, PaidInv
    <2>2. returned' = returned
      BY <1>1 DEF CompleteIfPaid, SettleSale
    <2>3. CASE s # Pays[p].sale
      BY <1>1, <2>2, <2>3 DEF CompleteIfPaid, SettleSale, saleVars
    <2>4. CASE s = Pays[p].sale
      <3>1. CASE CompleteIfPaid(p)
        BY <2>1, <2>2, <2>4, <3>1 DEF CompleteIfPaid, saleVars, Unpaid
      <3>2. CASE SettleSale(p)
        BY <2>1, <2>2, <2>4, <3>2 DEF SettleSale
      <3>3. QED
        BY <1>1, <3>1, <3>2
    <2>5. QED
      BY <2>3, <2>4
  <1>2. ASSUME NEW p \in Payers, ReadInstallment(p) \/ FlipPaid(p) \/ ReadNextDue(p) \/ CountOverdue(p)
        PROVE  status'[s] = status[s] /\ returned'[s] = returned[s]
    BY <1>2 DEF ReadInstallment, FlipPaid, ReadNextDue, CountOverdue, saleVars
  <1>3. ASSUME NEW c \in Cancels, ClaimCancel(c)
        PROVE  \/ status'[s] = status[s] /\ returned'[s] = returned[s]
               \/ status[s] = "ACTIVE" /\ status'[s] = "CANCELLED" /\ returned'[s] = returned[s] + 1
    BY ZenonT(60), <1>3 DEF ClaimCancel
  <1>4. ASSUME NEW c \in Cancels, ReadSale(c) \/ CountPaid(c) \/ CancelLost(c)
        PROVE  status'[s] = status[s] /\ returned'[s] = returned[s]
    BY <1>4 DEF ReadSale, CountPaid, CancelLost, saleVars
  <1>5. CASE MarkOverdue
    BY <1>5 DEF MarkOverdue, reqVars
  <1>6. CASE StartScan \/ (\E i \in Installment : Notify(i)) \/ StampNotified \/ WriteAudit
               \/ EndScan \/ ScanCrash \/ UNCHANGED vars
    BY <1>6 DEF StartScan, Notify, StampNotified, WriteAudit, EndScan, ScanCrash, vars,
                saleVars, reqVars
  <1>7. CASE \E u \in Sales : DueDatePasses(u)
    BY <1>7 DEF DueDatePasses, saleVars, reqVars
  <1>8. QED
    BY <1>1, <1>2, <1>3, <1>4, <1>5, <1>6, <1>7 DEF Next, PayStep, CancelStep, ScanStep

LEMMA CompletedStep ==
  ASSUME IInv, [Next]_vars
  PROVE  CompletedInv'
  <1>1. paid \subseteq paid'
    BY PaidStep
  <1>2. \A s \in Sales : status'[s] = "COMPLETED" => Of(s) \subseteq paid
    BY StatusStep DEF IInv, CompletedInv
  <1>3. QED
    BY <1>1, <1>2 DEF CompletedInv, Of

LEMMA ReturnStep ==
  ASSUME IInv, [Next]_vars
  PROVE  ReturnInv'
  <1>1. paid \subseteq paid'
    BY PaidStep
  <1>2. ASSUME NEW s \in Sales, Of(s) \cap paid = {}
        PROVE  returned'[s] = 0 \/ (returned'[s] = 1 /\ status'[s] = "CANCELLED")
    BY <1>2, StatusStep DEF IInv, ReturnInv
  <1>3. QED
    BY <1>1, <1>2 DEF ReturnInv, Of

-----------------------------------------------------------------------------
LEMMA CountersAreNats ==
  ASSUME IInv
  PROVE  /\ crashes \in Nat /\ current \in Installment /\ current.sale \in Sales
         /\ \A i \in Installment : sent[i] \in Nat
         /\ \A s \in Sales : flips[s] \in Nat /\ audits[s] \in Nat /\ returned[s] \in Nat
  <1>1. crashes \in 0..MaxCrashes /\ MaxCrashes \in Nat
    BY InstallmentAssumption DEF IInv, TypeOK
  <1>2. crashes \in Nat
    BY <1>1
  <1>3. current \in Installment /\ current.sale \in Sales
    BY InstallmentFacts DEF IInv, TypeOK
  <1>4. \A i \in Installment : sent[i] \in Nat
    BY DEF IInv, TypeOK
  <1>5. \A s \in Sales : flips[s] \in Nat /\ audits[s] \in Nat /\ returned[s] \in Nat
    BY DEF IInv, TypeOK
  <1>6. QED
    BY <1>2, <1>3, <1>4, <1>5

\* The steps that leave the scan and its records alone.
LEMMA RequestSteps ==
  ASSUME NEW r, PayStep(r) \/ CancelStep(r) \/ DueDatePasses(r)
  PROVE  UNCHANGED <<scan, queue, current, sent, flips, audits, crashes, notified>>
  BY DEF PayStep, ReadInstallment, FlipPaid, CompleteIfPaid, ReadNextDue, CountOverdue,
         SettleSale, CancelStep, ReadSale, CountPaid, ClaimCancel, CancelLost, DueDatePasses,
         scanVars

LEMMA NoticeStep ==
  ASSUME IInv, [Next]_vars
  PROVE  NoticeInv'
  <1> NoticeInv
    BY DEF IInv
  <1>1. ASSUME NEW i \in Installment, Notify(i) PROVE NoticeInv'
    <2>1. /\ queue' = queue \ {i} /\ current' = i /\ i \in queue
          /\ i \notin notified /\ scan = "next"
          /\ UNCHANGED <<notified, crashes>>
      BY <1>1 DEF Notify, NoticeInv
    <2>2. sent[i] <= crashes /\ sent[i] \in Nat /\ crashes \in Nat
      BY <2>1, CountersAreNats DEF NoticeInv
    <2>3. CASE sent' = [sent EXCEPT ![i] = sent[i] + 1] /\ scan' = "stamp"
      <3>1. \A j \in Installment : j # i => sent'[j] = sent[j]
        BY <2>3
      <3>2. sent'[i] = sent[i] + 1
        BY <2>3 DEF IInv, TypeOK
      <3>3. sent'[i] <= 1 + crashes
        BY <2>2, <3>2
      <3>4. QED
        BY <2>1, <2>3, <3>1, <3>3 DEF NoticeInv
    <2>4. CASE sent' = sent /\ scan' = "flip"
      BY <2>1, <2>4 DEF NoticeInv
    <2>5. QED
      BY <1>1, <2>3, <2>4 DEF Notify
  <1>2. CASE StartScan
    BY <1>2 DEF StartScan, ToNotify, NoticeInv
  <1>3. CASE StampNotified
    BY <1>3 DEF StampNotified, NoticeInv
  <1>4. CASE MarkOverdue \/ WriteAudit \/ EndScan
    BY <1>4 DEF MarkOverdue, WriteAudit, EndScan, NoticeInv
  <1>5. CASE ScanCrash
    <2>1. /\ crashes' = crashes + 1 /\ scan' = "idle" /\ queue' = {}
          /\ UNCHANGED <<notified, sent, current>>
      BY <1>5 DEF ScanCrash
    <2>2. ASSUME NEW i \in Installment
          PROVE  sent'[i] <= crashes' /\ sent'[i] <= 1 + crashes'
      <3>1. sent[i] <= 1 + crashes /\ sent[i] \in Nat /\ crashes \in Nat
        BY CountersAreNats DEF NoticeInv
      <3>2. sent'[i] = sent[i] /\ crashes' = crashes + 1
        BY <2>1
      <3>3. QED
        BY <3>1, <3>2
    <2>3. QED
      BY <2>1, <2>2 DEF NoticeInv
  <1>6. ASSUME NEW r, PayStep(r) \/ CancelStep(r) \/ DueDatePasses(r) PROVE NoticeInv'
    BY <1>6, RequestSteps DEF NoticeInv
  <1>7. CASE UNCHANGED vars
    BY <1>7 DEF vars, NoticeInv
  <1>8. QED
    BY <1>1, <1>2, <1>3, <1>4, <1>5, <1>6, <1>7 DEF Next, ScanStep

LEMMA AuditStep ==
  ASSUME IInv, [Next]_vars
  PROVE  AuditInv'
  <1> DEFINE Pending(s) == IF scan = "audit" /\ current.sale = s THEN 1 ELSE 0
  <1>1. /\ \A s \in Sales : audits[s] <= flips[s] /\ flips[s] <= audits[s] + crashes + Pending(s)
        /\ scan = "audit" => audits[current.sale] < flips[current.sale]
    BY DEF IInv, AuditInv, AuditsMatchFlips
  <1>2. ASSUME \A s \in Sales :
                 /\ audits'[s] <= flips'[s]
                 /\ flips'[s] <= audits'[s] + crashes' + Pending(s)',
               scan' = "audit" => audits'[current'.sale] < flips'[current'.sale]
        PROVE  AuditInv'
    BY <1>2 DEF AuditInv, AuditsMatchFlips
  <1>3. CASE MarkOverdue /\ status[current.sale] = "ACTIVE"
    <2>1. /\ flips' = [flips EXCEPT ![current.sale] = flips[current.sale] + 1]
          /\ scan = "flip" /\ scan' = "audit" /\ UNCHANGED <<audits, current, crashes>>
      BY <1>3 DEF MarkOverdue
    <2>2. flips'[current.sale] = flips[current.sale] + 1
      BY <2>1, CountersAreNats DEF IInv, TypeOK
    <2>3. \A s \in Sales : s # current.sale => flips'[s] = flips[s]
      BY <2>1
    <2>4. \A s \in Sales : Pending(s) = 0 /\ Pending(s)' = IF s = current.sale THEN 1 ELSE 0
      BY <2>1
    <2> HIDE DEF Pending
    <2>5. ASSUME NEW s \in Sales
          PROVE  audits'[s] <= flips'[s] /\ flips'[s] <= audits'[s] + crashes' + Pending(s)'
      BY <1>1, <2>1, <2>2, <2>3, <2>4, CountersAreNats
    <2>6. audits'[current'.sale] < flips'[current'.sale]
      BY <1>1, <2>1, <2>2, CountersAreNats
    <2>7. QED
      BY <1>2, <2>5, <2>6
  <1>4. CASE WriteAudit
    <2>1. /\ audits' = [audits EXCEPT ![current.sale] = audits[current.sale] + 1]
          /\ scan = "audit" /\ scan' = "next" /\ UNCHANGED <<flips, current, crashes>>
      BY <1>4 DEF WriteAudit
    <2>2. audits'[current.sale] = audits[current.sale] + 1
      BY <2>1, CountersAreNats DEF IInv, TypeOK
    <2>3. \A s \in Sales : s # current.sale => audits'[s] = audits[s]
      BY <2>1
    <2>4. \A s \in Sales : Pending(s)' = 0 /\ Pending(s) = IF s = current.sale THEN 1 ELSE 0
      BY <2>1
    <2> HIDE DEF Pending
    <2>5. ASSUME NEW s \in Sales
          PROVE  audits'[s] <= flips'[s] /\ flips'[s] <= audits'[s] + crashes' + Pending(s)'
      BY <1>1, <2>1, <2>2, <2>3, <2>4, CountersAreNats
    <2>6. QED
      BY <1>2, <2>1, <2>5
  <1>5. CASE ScanCrash
    <2>1. crashes' = crashes + 1 /\ scan' = "idle" /\ UNCHANGED <<flips, audits>>
      BY <1>5 DEF ScanCrash
    <2>2. \A s \in Sales : Pending(s) \in {0, 1} /\ Pending(s)' = 0
      BY <2>1
    <2> HIDE DEF Pending
    <2>3. ASSUME NEW s \in Sales
          PROVE  audits'[s] <= flips'[s] /\ flips'[s] <= audits'[s] + crashes' + Pending(s)'
      BY <1>1, <2>1, <2>2, CountersAreNats
    <2>4. QED
      BY <1>2, <2>1, <2>3
  <1>6. ASSUME UNCHANGED <<flips, audits, crashes>>, scan # "audit", scan' # "audit"
        PROVE  AuditInv'
    BY <1>1, <1>2, <1>6
  <1>7. CASE \/ StartScan \/ StampNotified \/ EndScan \/ (\E i \in Installment : Notify(i))
             \/ (MarkOverdue /\ status[current.sale] # "ACTIVE")
    BY <1>6, <1>7 DEF StartScan, StampNotified, EndScan, Notify, MarkOverdue
  <1>8. ASSUME NEW r, PayStep(r) \/ CancelStep(r) \/ DueDatePasses(r) PROVE AuditInv'
    BY <1>1, <1>2, <1>8, RequestSteps
  <1>9. CASE UNCHANGED vars
    BY <1>1, <1>2, <1>9 DEF vars
  <1>10. QED
    BY <1>3, <1>4, <1>5, <1>7, <1>8, <1>9 DEF Next, ScanStep

-----------------------------------------------------------------------------
\* Every reachable state satisfies the inductive invariant.
THEOREM Invariance == Spec => []IInv
  <1>1. Init => IInv
    BY InitIInv
  <1>2. IInv /\ [Next]_vars => IInv'
    BY TypeStep, PaidStep, CompletedStep, ReturnStep, NoticeStep, AuditStep DEF IInv
  <1>3. QED
    BY <1>1, <1>2, PTL DEF Spec

\* Every variable keeps its type.
THEOREM TypeCorrect == Spec => []TypeOK
  <1>1. IInv => TypeOK
    BY DEF IInv
  <1>2. QED
    BY <1>1, Invariance, PTL

\* Of the requests that pay one installment at most one is told it succeeded.
THEOREM MoneyIsTakenOnce == Spec => []CollectedOnce
  <1>1. IInv => CollectedOnce
    BY DEF IInv
  <1>2. QED
    BY <1>1, Invariance, PTL

\* No interleaving of payments, cancellations and scans completes an invoice
\* that still has an installment to collect.
THEOREM CompletionIsEarned == Spec => []CompletedIsPaid
  <1>1. IInv => CompletedIsPaid
    BY DEF IInv, CompletedInv, CompletedIsPaid, PaidInv
  <1>2. QED
    BY <1>1, Invariance, PTL

\* However many cancellations race, the stock of an invoice nobody paid comes
\* back once.
THEOREM StockComesBackOnce == Spec => []ReturnedOnceUnlessPaid
  <1>1. IInv => ReturnedOnceUnlessPaid
    BY CountersAreNats DEF IInv, ReturnInv, ReturnedOnceUnlessPaid
  <1>2. QED
    BY <1>1, Invariance, PTL

\* The scan repeats a notification only for a crash between it and its stamp.
THEOREM NoticesRepeatOnlyAfterCrashes == Spec => []NotifiedOncePerCrash
  <1>1. IInv => NotifiedOncePerCrash
    BY DEF IInv, NoticeInv, NotifiedOncePerCrash
  <1>2. QED
    BY <1>1, Invariance, PTL

\* Every flip to OVERDUE by the scan has its audit row, crashes aside.
THEOREM FlipsAreAudited == Spec => []AuditsMatchFlips
  <1>1. IInv => AuditsMatchFlips
    BY DEF IInv, AuditInv
  <1>2. QED
    BY <1>1, Invariance, PTL
-----------------------------------------------------------------------------
(* BackOffice.                                                              *)

LEMMA OverIs ==
  ASSUME NEW new, NEW old
  PROVE  /\ DOMAIN Over(new, old) = DOMAIN new \cup DOMAIN old
         /\ \A f \in DOMAIN new \cup DOMAIN old :
              Over(new, old)[f] = IF f \in DOMAIN new THEN new[f] ELSE old[f]
  BY DEF Over

LEMMA FieldsAre ==
  ASSUME NEW x \in Rows
  PROVE  /\ x \in Suppliers => Fields(x) = SupplierFields /\ Peers(x) = Suppliers
         /\ x \in Customers => Fields(x) = CustomerFields /\ Peers(x) = Customers
         /\ x \in Goods => Fields(x) = ItemFields /\ Peers(x) = Goods
         /\ x \in Expenses => Fields(x) = {"amount"} /\ Peers(x) = Expenses
  <1>1. /\ x \in Suppliers \/ x \in Customers \/ x \in Goods \/ x \in Expenses
        /\ x \in Suppliers => x \notin Customers \cup Goods \cup Expenses
        /\ x \in Customers => x \notin Goods \cup Expenses
        /\ ~(x \in Goods /\ x \in Expenses)
    BY BackOfficeAssumption DEF Rows
  <1>2. Peers(x) \in {Suppliers, Customers, Goods, Expenses} /\ x \in Peers(x)
    <2>1. \E kind \in {Suppliers, Customers, Goods, Expenses} : x \in kind
      BY <1>1
    <2>2. QED
      BY <2>1 DEF Peers
  <1>3. QED
    BY <1>1, <1>2 DEF Fields

LEMMA NoneIsNone ==
  /\ None \notin Users /\ None \notin Rows /\ NoReq.x = None /\ NoReq.op = "none" /\ NoReq.at = "none"
  /\ NoForm.x = None
  BY BackOfficeAssumption DEF Rows, NoReq, NoForm

LEMMA LeastOf ==
  ASSUME NEW S \in SUBSET Nat, S # {}
  PROVE  \E m \in S : \A k \in S : m <= k
  <1> DEFINE R == OpToRel(<, Nat)
  <1>1. IsWellFoundedOn(R, Nat)
    BY NatLessThanWellFounded
  <1>2. \A x, y \in Nat : x < y => <<x, y>> \in R
    BY DEF OpToRel
  <1> HIDE DEF R
  <1>3. \E x \in S : \A y \in S : ~(<<y, x>> \in R)
    BY <1>1, WFMin
  <1>4. \A x, y \in Nat : ~(y < x) => x <= y
    OBVIOUS
  <1>5. QED
    BY <1>2, <1>3, <1>4

\* What adds the payments up is the function of the recursion.
LEMMA SumsAre ==
  ASSUME NEW history, NEW s, NEW run, Len(history) \in Nat, Adds(run, history, s)
  PROVE  Sums(history, s) = run
  <1> DEFINE n == Len(history)
             step(f) == [i \in 0..n |-> IF i = 0 THEN 0
                           ELSE f[i - 1] + IF history[i].supplier = s THEN history[i].amount ELSE 0]
             sum == CHOOSE f : f = step(f)
  <1>1. Sums(history, s) = sum
    BY DEF Sums
  <1>2. /\ n \in Nat /\ run \in [0..n -> Nat] /\ run[0] = 0
        /\ \A i \in 1..n : run[i] = run[i - 1] + IF history[i].supplier = s THEN history[i].amount ELSE 0
    BY DEF Adds
  <1>3. run = step(run)
    BY <1>2
  <1>4. sum = step(sum)
    BY <1>3
  <1>5. \A i \in 0..n : sum[i] = IF i = 0 THEN 0
                           ELSE sum[i - 1] + IF history[i].supplier = s THEN history[i].amount ELSE 0
    BY <1>4
  <1>6. DOMAIN sum = 0..n /\ sum = [i \in 0..n |-> sum[i]]
    BY <1>4
  <1> HIDE DEF sum, step, n
  <1>7. \A i \in 0..n : sum[i] = run[i]
    <2> DEFINE S == {i \in 0..n : sum[i] # run[i]}
    <2> SUFFICES ASSUME S # {} PROVE FALSE
      OBVIOUS
    <2>1. S \in SUBSET Nat
      BY <1>2
    <2>2. PICK m \in S : \A k \in S : m <= k
      <3> HIDE DEF S
      <3>1. QED
        BY <2>1, LeastOf
    <2>3. m # 0
      BY <1>2, <1>5
    <2>4. m - 1 \in 0..n /\ m \in 1..n /\ ~(m <= m - 1)
      BY <1>2, <2>3
    <2>5. sum[m - 1] = run[m - 1]
      BY <2>2, <2>4
    <2>6. sum[m] = run[m]
      BY <1>2, <1>5, <2>4, <2>5
    <2>7. QED
      BY <2>6
  <1>8. QED
    BY <1>1, <1>2, <1>6, <1>7

\* A payment is appended: the sums go on.
LEMMA SumsGrow ==
  ASSUME NEW history \in Seq([supplier : Suppliers, amount : Nat]), NEW p \in [supplier : Suppliers, amount : Nat],
         NEW s, Adds(Sums(history, s), history, s)
  PROVE  LET more == Append(history, p)
             old  == Sums(history, s)
         IN  /\ Adds(Sums(more, s), more, s)
             /\ Sums(more, s)[Len(more)] = old[Len(history)] + IF p.supplier = s THEN p.amount ELSE 0
  <1> DEFINE n == Len(history)
             more == Append(history, p)
             old == Sums(history, s)
             last == IF p.supplier = s THEN p.amount ELSE 0
             run == [i \in 0..n + 1 |-> IF i <= n THEN old[i] ELSE old[n] + last]
  <1>1. /\ n \in Nat /\ Len(more) = n + 1 /\ more[n + 1] = p
        /\ \A i \in 1..n : more[i] = history[i]
    <2> DEFINE P == [supplier : Suppliers, amount : Nat]
    <2>1. history \in Seq(P) /\ p \in P
      OBVIOUS
    <2> HIDE DEF P
    <2>2. QED
      BY <2>1
  <1>2. /\ old \in [0..n -> Nat] /\ old[0] = 0
        /\ \A i \in 1..n : old[i] = old[i - 1] + IF history[i].supplier = s THEN history[i].amount ELSE 0
    BY DEF Adds
  <1>3. last \in Nat
    OBVIOUS
  <1> HIDE DEF n, more, old, last
  <1>4. /\ run \in [0..n + 1 -> Nat] /\ run[0] = 0 /\ run[n + 1] = old[n] + last
        /\ \A i \in 1..n : run[i] = old[i] /\ run[i - 1] = old[i - 1]
        /\ run[n] = old[n]
    <2>1. \A i \in 0..n + 1 : (IF i <= n THEN old[i] ELSE old[n] + last) \in Nat
      <3> SUFFICES ASSUME NEW i \in 0..n + 1 PROVE (IF i <= n THEN old[i] ELSE old[n] + last) \in Nat
        OBVIOUS
      <3>1. CASE i <= n
        <4>1. i \in 0..n
          BY <1>1, <3>1
        <4>2. QED
          BY <1>2, <3>1, <4>1
      <3>2. CASE ~(i <= n)
        <4>1. n \in 0..n
          BY <1>1
        <4>2. old[n] + last \in Nat
          BY <1>2, <1>3, <4>1
        <4>3. QED
          BY <3>2, <4>2
      <3>3. QED
        BY <3>1, <3>2
    <2>2. /\ 0 \in 0..n + 1 /\ 0 <= n /\ n + 1 \in 0..n + 1 /\ ~(n + 1 <= n) /\ n \in 0..n + 1 /\ n <= n
          /\ \A i \in 1..n : i \in 0..n + 1 /\ i <= n /\ i - 1 \in 0..n + 1 /\ i - 1 <= n
      BY <1>1
    <2>3. QED
      BY <1>2, <2>1, <2>2
  <1>5. \A i \in 1..n + 1 : run[i] = run[i - 1] + IF more[i].supplier = s THEN more[i].amount ELSE 0
    <2> HIDE DEF run
    <2> SUFFICES ASSUME NEW i \in 1..n + 1
                 PROVE  run[i] = run[i - 1] + IF more[i].supplier = s THEN more[i].amount ELSE 0
      OBVIOUS
    <2>1. CASE i \in 1..n
      BY <1>1, <1>2, <1>4, <2>1
    <2>2. CASE i = n + 1
      <3>1. i - 1 = n
        BY <1>1, <2>2
      <3>2. QED
        BY <1>1, <1>4, <2>2, <3>1 DEF last
    <2>3. QED
      BY <1>1, <2>1, <2>2
  <1>6. Adds(run, more, s)
    BY <1>1, <1>4, <1>5 DEF Adds
  <1>7. Sums(more, s) = run
    BY <1>1, <1>6, SumsAre
  <1>8. QED
    BY <1>1, <1>4, <1>6, <1>7 DEF more, old, n, last

LEMMA OfficeInitInv == OfficeInit => OfficeInv
  <1> SUFFICES ASSUME OfficeInit PROVE OfficeInv
    OBVIOUS
  <1>1. /\ row = [x \in Rows |-> IF x \in Seeded
              THEN [active |-> TRUE, name |-> Blank, due |-> Due, paid |-> 0] ELSE None]
        /\ payments = <<>> /\ lock = [s \in Suppliers |-> None]
        /\ form = [u \in Users |-> NoForm] /\ req = [u \in Users |-> NoReq]
        /\ untold = {} /\ trail = [e \in Expenses |-> <<>>] /\ asked = 0
        /\ moved = {} /\ crossed = {} /\ bulk = {} /\ tangled = {}
    BY DEF OfficeInit
  <1>2. Suppliers \subseteq Rows /\ Expenses \subseteq Rows /\ Seeded \subseteq Suppliers
    BY BackOfficeAssumption DEF Rows
  <1>3. ASSUME NEW x \in Rows
        PROVE  /\ There(x) => Shaped(x) /\ row[x].paid = 0
               /\ x \in Expenses => row[x] = None
    <2>1. CASE x \in Seeded
      <3> DEFINE r == [active |-> TRUE, name |-> Blank, due |-> Due, paid |-> 0]
      <3>1. r \in SupplierRows /\ r.paid = 0 /\ r.due = Due
        BY BackOfficeAssumption DEF SupplierRows
      <3>2. row[x] = r
        BY <1>1, <2>1
      <3> HIDE DEF r
      <3>3. row[x] \in SupplierRows /\ row[x].paid <= row[x].due /\ row[x].paid = 0
        BY <3>1, <3>2, BackOfficeAssumption
      <3>4. QED
        BY <1>2, <2>1, <3>3, BackOfficeAssumption DEF Shaped
    <2>2. CASE x \notin Seeded
      BY <1>1, <2>2 DEF There
    <2>3. QED
      BY <2>1, <2>2
  <1>4. OfficeTypeOK
    BY <1>1, <1>3, BackOfficeAssumption DEF OfficeTypeOK
  <1>5. \A u \in Users : UserInv(u)
    BY <1>1, NoneIsNone DEF UserInv, Asked, Filled, HasRead, LookedUp, Untouched
  <1>6. LockInv
    BY <1>1 DEF LockInv
  <1>7. SumsInv
    <2> SUFFICES ASSUME NEW s \in Suppliers
                 PROVE  /\ Adds(Sums(payments, s), payments, s)
                        /\ PaidTo(s) = IF There(s) THEN row[s].paid ELSE 0
      BY DEF SumsInv
    <2>1. PICK run : run = [i \in 0..0 |-> 0]
      OBVIOUS
    <2>2. Len(payments) = 0
      BY <1>1
    <2>3. Adds(run, payments, s)
      BY <2>1, <2>2 DEF Adds
    <2>4. Sums(payments, s) = run
      BY <2>2, <2>3, SumsAre
    <2>5. QED
      BY <1>2, <1>3, <2>1, <2>2, <2>3, <2>4 DEF PaidTo
  <1>8. TrailInv
    BY <1>1, <1>2, <1>3 DEF TrailInv, LastOf, Chained
  <1>9. QED
    BY <1>4, <1>5, <1>6, <1>7, <1>8 DEF OfficeInv

-----------------------------------------------------------------------------
(* What the parts of a step do to the invariant.                            *)

LEMMA SumsFrame ==
  ASSUME OfficeInv, UNCHANGED payments,
         \A s \in Suppliers : \/ There(s)' = There(s) /\ (There(s) => row'[s].paid = row[s].paid)
                              \/ ~There(s) /\ row'[s].paid = 0
  PROVE  SumsInv'
  <1> SUFFICES ASSUME NEW s \in Suppliers
               PROVE  /\ Adds(Sums(payments, s), payments, s)'
                      /\ PaidTo(s)' = IF There(s)' THEN row'[s].paid ELSE 0
    BY DEF SumsInv
  <1>1. /\ Adds(Sums(payments, s), payments, s) /\ payments' = payments
        /\ PaidTo(s) = IF There(s) THEN row[s].paid ELSE 0
    BY DEF OfficeInv, SumsInv
  <1>2. PaidTo(s)' = PaidTo(s)
    BY <1>1 DEF PaidTo
  <1>3. QED
    BY <1>1, <1>2

LEMMA TrailFrame ==
  ASSUME OfficeInv, UNCHANGED <<untold, trail>>, tangled \subseteq tangled',
         \A e \in Expenses : row'[e] = row[e]
  PROVE  TrailInv'
  BY DEF OfficeInv, TrailInv

\* What a user sends stays what its form was filled with.
LEMMA UntouchedKept ==
  ASSUME NEW v \in Users, Untouched(v), req'[v] = req[v], form'[v] = form[v]
  PROVE  Untouched(v)'
  BY DEF Untouched, AsFilled, Unbidden

\* A row may have been written, of a user with nothing to do with it or told of it.
LEMMA BystanderKept ==
  ASSUME OfficeInv, NEW v \in Users, NEW x \in Rows, \A y \in Rows \ {x} : row'[y] = row[y],
         x \notin Expenses => Shaped(x)', req'[v] = req[v], form'[v] = form[v],
         \A s \in Suppliers : lock[s] = v => lock'[s] = v,
         x \in Suppliers => lock[x] # v,
         req[v].x \in Peers(x) => v \in crossed', form[v].x = x => v \in moved',
         v \in crossed => v \in crossed', v \in moved => v \in moved'
  PROVE  UserInv(v)'
  <1>1. Asked(v) /\ Filled(v) /\ HasRead(v) /\ LookedUp(v) /\ Untouched(v)
    BY DEF OfficeInv, UserInv
  <1>2. \A y \in Rows : y # x => (Shaped(y)' <=> Shaped(y)) /\ (There(y)' <=> There(y)) /\ Balance(y)' = Balance(y)
    BY DEF Shaped, There, Balance
  <1>3. \A y \in Rows : y \notin Expenses /\ Shaped(y) => Shaped(y)'
    BY <1>2
  <1>4. Suppliers \cup Customers \cup Goods \cup Expenses = Rows /\ \A y \in Suppliers \cup Customers \cup Goods : y \notin Expenses
    BY BackOfficeAssumption DEF Rows
  <1>5. Asked(v)'
    <2>1. \A y \in Rows : Fields(y)' = Fields(y)
      BY DEF Fields
    <2>2. QED
      BY <1>1, <1>2, <1>3, <1>4, <2>1 DEF Asked
  <1>6. Filled(v)'
    <2>1. form[v].x # x => (Shows(v)' <=> Shows(v)) \/ form[v] = NoForm
      BY <1>1, <1>2 DEF Shows, Filled, Fields
    <2>2. QED
      BY <1>1, <1>3, <2>1 DEF Filled, Fields
  <1>7. HasRead(v)'
    <2>1. req[v] # NoReq => req[v].x \in Rows
      BY <1>1, <1>4 DEF Asked
    <2>2. x \in Peers(x)
      BY FieldsAre, <1>4
    <2>3. QED
      BY <1>1, <2>1, <2>2 DEF HasRead
  <1>8. LookedUp(v)'
    <2>1. CASE x \in Customers
      BY <1>1, <2>1, FieldsAre DEF LookedUp
    <2>2. CASE x \notin Customers
      <3>1. \A d \in Customers : row'[d] = row[d]
        BY <1>4, <2>2
      <3>2. \A c, f, value : Taken(c, f, value)' <=> Taken(c, f, value)
        BY <3>1 DEF Taken, Active, There
      <3>3. QED
        BY <1>1, <3>2 DEF LookedUp
    <2>3. QED
      BY <2>1, <2>2
  <1>9. QED
    BY <1>1, <1>5, <1>6, <1>7, <1>8, UntouchedKept DEF UserInv

\* No row is written.
LEMMA UserKept ==
  ASSUME OfficeInv, NEW v \in Users, UNCHANGED row, req'[v] = req[v], form'[v] = form[v],
         \A s \in Suppliers : lock[s] = v => lock'[s] = v,
         v \in crossed => v \in crossed', v \in moved => v \in moved'
  PROVE  UserInv(v)'
  <1>1. Asked(v) /\ Filled(v) /\ HasRead(v) /\ LookedUp(v) /\ Untouched(v)
    BY DEF OfficeInv, UserInv
  <1>2. \A y : (Shaped(y)' <=> Shaped(y)) /\ (There(y)' <=> There(y)) /\ Balance(y)' = Balance(y) /\ Fields(y)' = Fields(y)
    BY DEF Shaped, There, Balance, Fields
  <1>3. Asked(v)'
    BY <1>1, <1>2 DEF Asked
  <1>4. Filled(v)'
    BY <1>1, <1>2 DEF Filled, Shows
  <1>5. HasRead(v)'
    BY <1>1 DEF HasRead
  <1>6. LookedUp(v)'
    <2>1. \A c, f, value : Taken(c, f, value)' <=> Taken(c, f, value)
      BY DEF Taken, Active, There
    <2>2. QED
      BY <1>1, <2>1 DEF LookedUp
  <1>7. QED
    BY <1>1, <1>3, <1>4, <1>5, <1>6, UntouchedKept DEF UserInv

\* A request begins or ends and no row is written.
LEMMA OneUser ==
  ASSUME OfficeInv, NEW u \in Users, UNCHANGED <<row, payments, untold, trail, bulk>>,
         \A v \in Users \ {u} : req'[v] = req[v] /\ form'[v] = form[v] /\ (v \in crossed => v \in crossed')
                                /\ (v \in moved => v \in moved'),
         DOMAIN req' = Users, DOMAIN form' = Users, asked' \in 0..MaxRequests,
         moved' \cup crossed' \subseteq Users, tangled \subseteq tangled', tangled' \subseteq Expenses,
         lock' \in [Suppliers -> Users \cup {None}],
         \A s \in Suppliers : lock'[s] = lock[s] \/ (lock[s] \in {None, u} /\ lock'[s] \in {None, u}),
         UserInv(u)', LockInv'
  PROVE  OfficeInv'
  <1>1. \A v \in Users \ {u} : UserInv(v)'
    <2> SUFFICES ASSUME NEW v \in Users \ {u} PROVE UserInv(v)'
      OBVIOUS
    <2>1. \A s \in Suppliers : lock[s] = v => lock'[s] = v
      BY NoneIsNone
    <2>2. QED
      BY <2>1, UserKept
  <1>2. OfficeTypeOK'
    BY DEF OfficeInv, OfficeTypeOK, There, Shaped
  <1>3. SumsInv' /\ TrailInv'
    BY SumsFrame, TrailFrame DEF There
  <1>4. QED
    BY <1>1, <1>2, <1>3 DEF OfficeInv

LEMMA LockFrame ==
  ASSUME OfficeInv, UNCHANGED lock, NEW u \in Users, req[u].op # "pay",
         \A v \in Users \ {u} : req'[v] = req[v]
  PROVE  LockInv'
  BY DEF OfficeInv, OfficeTypeOK, LockInv

\* What a user may ask for of a row.
MayAsk(u, op, x, at, body) ==
  \/ /\ op = "active" /\ x \in Suppliers \cup Customers \cup Goods /\ Shaped(x)
     /\ body.active \in BOOLEAN /\ at = "write"
  \/ op = "create" /\ x \in Customers /\ DOMAIN body = CustomerFields /\ at = "nid"
  \/ /\ op = "edit" /\ x \in Suppliers /\ Shaped(x) /\ form[u].x = x /\ DOMAIN body \subseteq Fields(x)
     /\ at = "write" /\ \E typed \in SupplierTyped : body.name = typed.name
  \/ /\ op = "edit" /\ x \in Customers /\ Shaped(x) /\ form[u].x = x /\ DOMAIN body = CustomerFields
     /\ at = "nid"
  \/ /\ op = "edit" /\ x \in Goods /\ Shaped(x) /\ form[u].x = x /\ DOMAIN body \subseteq Fields(x)
     /\ at = "write" /\ ~row[x].sold
  \/ /\ op = "edit" /\ x \in Expenses /\ form[u].x = x /\ body \in [amount : Int] /\ at = "write"
     /\ body.amount > 0
  \/ op = "remove" /\ x \in Expenses /\ at = "write"

LEMMA AskKeeps ==
  ASSUME OfficeInv, NEW u \in Users, NEW op, NEW x \in Rows, NEW at, NEW body, NEW typed,
         Ask(u, op, x, at, body, typed), MayAsk(u, op, x, at, body),
         op = "edit" => AsFilled(u, body, typed)
  PROVE  OfficeInv'
  <1>1. PICK r : /\ r = [op |-> op, x |-> x, at |-> at, body |-> body, read |-> row[x], typed |-> typed]
                 /\ req' = [req EXCEPT ![u] = r]
    BY DEF Ask
  <1>2. /\ req[u] = NoReq /\ asked < MaxRequests /\ asked' = asked + 1 /\ crossed' = crossed \ {u}
        /\ UNCHANGED <<row, payments, lock, form, untold, trail, moved, bulk, tangled>>
    BY DEF Ask, rows
  <1>3. r.op = op /\ r.x = x /\ r.at = at /\ r.body = body /\ r.read = row[x] /\ r.typed = typed
    BY <1>1
  <1>4. /\ DOMAIN req' = Users /\ req'[u] = r /\ \A v \in Users \ {u} : req'[v] = req[v]
        /\ asked' \in 0..MaxRequests /\ req[u].op # "pay"
    BY <1>1, <1>2, NoneIsNone, BackOfficeAssumption DEF OfficeInv, OfficeTypeOK
  <1>5. /\ x \in Suppliers => x \notin Customers \cup Goods \cup Expenses
        /\ x \in Customers => x \notin Goods \cup Expenses
        /\ ~(x \in Goods /\ x \in Expenses)
        /\ x \in Suppliers => Fields(x) = SupplierFields
        /\ x \in Customers => Fields(x) = CustomerFields
    BY FieldsAre, BackOfficeAssumption
  <1>6. Shaped(x)' <=> Shaped(x)
    BY <1>2 DEF Shaped
  <1>7. Asked(u)'
    <2>1. DOMAIN r = DOMAIN NoReq
      BY <1>1 DEF NoReq
    <2>2. x \in Expenses => row[x] \in ExpenseRows /\ x \notin Suppliers \cup Customers \cup Goods
      BY BackOfficeAssumption DEF OfficeInv, OfficeTypeOK, There, Shaped, ExpenseRows
    <2>3. CASE x \in Expenses
      BY <1>2, <1>3, <1>4, <2>1, <2>2, <2>3 DEF MayAsk, Asked
    <2>4. CASE x \notin Expenses
      BY <1>2, <1>3, <1>4, <1>5, <1>6, <2>1, <2>4 DEF MayAsk, Asked, Fields
    <2>5. QED
      BY <2>3, <2>4
  <1>8. Filled(u)'
    <2>1. UserInv(u)
      BY DEF OfficeInv
    <2>2. /\ form'[u] = form[u] /\ moved' = moved /\ \A y : (Shaped(y)' <=> Shaped(y)) /\ Fields(y)' = Fields(y)
          /\ Shows(u)' <=> Shows(u)
      BY <1>2 DEF Shaped, Fields, Shows, There
    <2>3. QED
      BY <2>1, <2>2 DEF UserInv, Filled
  <1>9. HasRead(u)'
    BY <1>2, <1>3, <1>4, <1>5 DEF MayAsk, HasRead
  <1>10. LookedUp(u)'
    BY <1>2, <1>3, <1>4, <1>5 DEF MayAsk, LookedUp
  <1>11. UserInv(u)'
    <2>1. Untouched(u)'
      BY <1>2, <1>3, <1>4 DEF Untouched, AsFilled, Unbidden
    <2>2. QED
      BY <1>7, <1>8, <1>9, <1>10, <2>1 DEF UserInv
  <1>12. LockInv'
    BY <1>2, <1>4, LockFrame
  <1>13. QED
    BY <1>2, <1>4, <1>11, <1>12, OneUser DEF OfficeInv, OfficeTypeOK

\* An answer that writes nothing.
LEMMA RefuseKeeps ==
  ASSUME OfficeInv, NEW u \in Users, Refuse(u), req[u].op # "pay"
  PROVE  OfficeInv'
  <1>1. /\ req' = [req EXCEPT ![u] = NoReq]
        /\ UNCHANGED <<row, payments, lock, form, untold, trail, asked, moved, crossed, bulk, tangled>>
    BY DEF Refuse, rows, ghosts
  <1>2. DOMAIN req' = Users /\ req'[u] = NoReq /\ \A v \in Users \ {u} : req'[v] = req[v]
    BY <1>1 DEF OfficeInv, OfficeTypeOK
  <1>3. Filled(u)'
    <2>1. UserInv(u)
      BY DEF OfficeInv
    <2>2. /\ form'[u] = form[u] /\ moved' = moved /\ \A y : (Shaped(y)' <=> Shaped(y)) /\ Fields(y)' = Fields(y)
          /\ Shows(u)' <=> Shows(u)
      BY <1>1 DEF Shaped, Fields, Shows, There
    <2>3. QED
      BY <2>1, <2>2 DEF UserInv, Filled
  <1>4. UserInv(u)'
    BY <1>2, <1>3, NoneIsNone DEF UserInv, Asked, HasRead, LookedUp, Untouched
  <1>5. LockInv'
    BY <1>1, <1>2, LockFrame
  <1>6. QED
    BY <1>1, <1>2, <1>4, <1>5, OneUser DEF OfficeInv, OfficeTypeOK

LEMMA LookupKeeps ==
  ASSUME OfficeInv, NEW u \in Users,
         Lookup(u, "nid", "phone") \/ Lookup(u, "phone", "write")
  PROVE  OfficeInv'
  <1>1. /\ UserInv(u) /\ req[u].at \in {"nid", "phone"} /\ req[u].op \in {"create", "edit"}
        /\ req[u].x \in Customers /\ req[u].op # "pay"
    BY DEF Lookup, OfficeInv, UserInv, LookedUp
  <1>2. CASE Refuse(u)
    BY <1>1, <1>2, RefuseKeeps
  <1>3. ASSUME NEW next, Proceed(u, next),
               \/ /\ req[u].at = "nid" /\ next = "phone"
                  /\ ~Taken(req[u].x, "nid", req[u].body["nid"])
               \/ /\ req[u].at = "phone" /\ next = "write"
                  /\ ~Taken(req[u].x, "phone", req[u].body["phone"])
        PROVE  OfficeInv'
    <2>1. PICK r : r = [req[u] EXCEPT !.at = next] /\ req' = [req EXCEPT ![u] = r]
      BY <1>3 DEF Proceed, OfficeInv, OfficeTypeOK
    <2>2. UNCHANGED <<row, payments, lock, form, untold, trail, asked, moved, crossed, bulk, tangled>>
      BY <1>3 DEF Proceed, rows, ghosts
    <2>3. DOMAIN req' = Users /\ req'[u] = r /\ \A v \in Users \ {u} : req'[v] = req[v]
      BY <2>1 DEF OfficeInv, OfficeTypeOK
    <2>4. /\ DOMAIN r = DOMAIN req[u] /\ r.op = req[u].op /\ r.x = req[u].x /\ r.body = req[u].body
          /\ r.read = req[u].read /\ r.at = next /\ r.typed = req[u].typed
      BY <1>1, <2>1 DEF UserInv, Asked, NoReq
    <2>5. \A y : (Shaped(y)' <=> Shaped(y)) /\ Balance(y)' = Balance(y) /\ Fields(y)' = Fields(y)
      BY <2>2 DEF Shaped, Balance, Fields
    <2>6. Asked(u)'
      BY <1>1, <2>2, <2>3, <2>4, <2>5, NoneIsNone DEF UserInv, Asked
    <2>7. Filled(u)'
      BY <1>1, <2>2, <2>5 DEF UserInv, Filled, Shows, There
    <2>8. HasRead(u)'
      BY <1>1, <2>2, <2>3, <2>4, NoneIsNone DEF UserInv, HasRead
    <2>9. LookedUp(u)'
      <3>1. \A c, f, value : Taken(c, f, value)' <=> Taken(c, f, value)
        BY <2>2 DEF Taken, Active, There
      <3>2. QED
        BY <1>1, <1>3, <2>2, <2>3, <2>4, <3>1 DEF UserInv, LookedUp
    <2>10. UserInv(u)' /\ LockInv'
      <3>1. Untouched(u)'
        BY <1>1, <2>2, <2>3, <2>4 DEF UserInv, Untouched, AsFilled, Unbidden
      <3>2. QED
        BY <1>1, <2>2, <2>3, <2>6, <2>7, <2>8, <2>9, <3>1, LockFrame DEF UserInv
    <2>11. QED
      BY <2>2, <2>3, <2>10, OneUser DEF OfficeInv, OfficeTypeOK
  <1>4. QED
    BY <1>2, <1>3 DEF Lookup

-----------------------------------------------------------------------------
(* The write that ends a request.                                           *)

LEMMA WriteKeeps ==
  ASSUME OfficeInv, NEW u \in Users, NEW x \in Rows, NEW image, Write(u, x, image),
         IF x \in Expenses THEN There(x)' => Shaped(x)' ELSE Shaped(x)',
         asked' \in 0..MaxRequests, payments' \in Seq([supplier : Suppliers, amount : Nat]),
         bulk' \subseteq Goods, tangled' \subseteq Expenses, UNCHANGED trail,
         untold' \subseteq [x : Expenses, by : Nat, old : ExpenseRows, new : ExpenseRows],
         \/ lock' = lock /\ req[u].op # "pay"
         \/ lock' = Unlocked(u),
         SumsInv', TrailInv'
  PROVE  OfficeInv'
  <1>1. /\ row' = [row EXCEPT ![x] = image] /\ req' = [req EXCEPT ![u] = NoReq]
        /\ form' = [form EXCEPT ![u] = IF req[u].op = "edit" THEN NoForm ELSE @]
        /\ x \in Suppliers => lock[x] \in {None, u}
        /\ moved' = (moved \ (IF req[u].op = "edit" THEN {u} ELSE {}))
                      \cup {v \in Users : form'[v].x = x /\ (v # u \/ req[u].op # "edit")}
        /\ crossed' = (crossed \ {u}) \cup {v \in Users \ {u} : req[v].x \in Peers(x)}
    BY DEF Write
  <1>2. /\ DOMAIN row' = Rows /\ row'[x] = image /\ \A y \in Rows \ {x} : row'[y] = row[y]
        /\ DOMAIN req' = Users /\ req'[u] = NoReq /\ \A v \in Users \ {u} : req'[v] = req[v]
        /\ DOMAIN form' = Users /\ \A v \in Users \ {u} : form'[v] = form[v]
        /\ form'[u] = IF req[u].op = "edit" THEN NoForm ELSE form[u]
    BY <1>1 DEF OfficeInv, OfficeTypeOK
  <1>3. /\ lock' \in [Suppliers -> Users \cup {None}]
        /\ \A s \in Suppliers : lock'[s] = lock[s] \/ (lock[s] = u /\ lock'[s] = None)
        /\ \A s \in Suppliers : lock'[s] = u => lock'[s] = lock[s] /\ req[u].op # "pay"
    BY NoneIsNone DEF OfficeInv, OfficeTypeOK, Unlocked
  <1>4. \A v \in Users \ {u} : UserInv(v)'
    <2> SUFFICES ASSUME NEW v \in Users \ {u} PROVE UserInv(v)'
      OBVIOUS
    <2>1. /\ \A s \in Suppliers : lock[s] = v => lock'[s] = v
          /\ x \in Suppliers => lock[x] # v
      BY <1>1, <1>3, NoneIsNone
    <2>2. /\ req[v].x \in Peers(x) => v \in crossed'
          /\ form[v].x = x => v \in moved'
          /\ v \in crossed => v \in crossed'
          /\ v \in moved => v \in moved'
      BY <1>1, <1>2
    <2>3. x \notin Expenses => Shaped(x)'
      OBVIOUS
    <2>4. QED
      BY <1>2, <2>1, <2>2, <2>3, BystanderKept
  <1>5. \A y \in Rows : There(y)' => Shaped(y)'
    BY <1>2 DEF OfficeInv, OfficeTypeOK, There, Shaped
  <1>6. UserInv(u)'
    <2>1. Asked(u)' /\ HasRead(u)' /\ LookedUp(u)' /\ Untouched(u)'
      BY <1>2, NoneIsNone DEF Asked, HasRead, LookedUp, Untouched
    <2>2. Filled(u)'
      <3>1. CASE form'[u] = NoForm
        BY <3>1 DEF Filled
      <3>2. CASE form'[u] = form[u] /\ form[u] # NoForm /\ req[u].op # "edit"
        <4>1. /\ form[u].x \in Rows /\ DOMAIN form[u].copy = Fields(form[u].x)
              /\ form[u].x \notin Expenses => Shaped(form[u].x)
              /\ u \notin moved => Shows(u)
          BY <3>2 DEF OfficeInv, UserInv, Filled
        <4>2. form[u].x = x => u \in moved'
          BY <1>1, <3>2
        <4>3. u \in moved => u \in moved'
          BY <1>1, <3>2
        <4>4. form[u].x # x => (Shaped(form[u].x)' <=> Shaped(form[u].x)) /\ (Shows(u)' <=> Shows(u))
          <5>1. form[u].x # x => row'[form[u].x] = row[form[u].x] /\ form'[u].x = form[u].x
            BY <1>2, <3>2, <4>1
          <5>2. QED
            BY <3>2, <5>1 DEF Shaped, Shows, There, Fields
        <4>5. QED
          BY <3>2, <4>1, <4>2, <4>3, <4>4 DEF Filled, Fields
      <3>3. QED
        BY <1>2, <3>1, <3>2
    <2>3. QED
      BY <2>1, <2>2 DEF UserInv
  <1>7. OfficeTypeOK'
    BY <1>1, <1>2, <1>3, <1>5 DEF OfficeInv, OfficeTypeOK
  <1>8. LockInv'
    <2> SUFFICES ASSUME NEW s \in Suppliers, lock'[s] # None
                 PROVE  req'[lock'[s]].op = "pay" /\ req'[lock'[s]].x = s
      BY DEF LockInv
    <2>1. lock'[s] = lock[s] /\ lock[s] \in Users /\ req[lock[s]].op = "pay" /\ req[lock[s]].x = s
      BY <1>3 DEF OfficeInv, OfficeTypeOK, LockInv
    <2>2. lock[s] # u
      BY <1>3, <2>1
    <2>3. QED
      BY <1>2, <2>1, <2>2
  <1>9. QED
    BY <1>4, <1>6, <1>7, <1>8 DEF OfficeInv

-----------------------------------------------------------------------------
(* The steps.                                                               *)

\* A form is opened with what its row shows.
LEMMA OpenFormKeeps ==
  ASSUME OfficeInv, NEW u \in Users, NEW x \in Rows, NEW copy, OpenForm(u, x, copy), There(x),
         DOMAIN copy = Fields(x), \A f \in Fields(x) : copy[f] = row[x][f] \/ (u \notin Owners /\ f = "nid")
  PROVE  OfficeInv'
  <1>1. PICK r : r = [x |-> x, copy |-> copy] /\ form' = [form EXCEPT ![u] = r]
    BY DEF OpenForm
  <1>2. /\ req[u] = NoReq /\ moved' = moved \ {u}
        /\ UNCHANGED <<row, payments, lock, req, untold, trail, asked, crossed, bulk, tangled>>
    BY DEF OpenForm, rows
  <1>3. /\ DOMAIN form' = Users /\ form'[u] = r /\ \A v \in Users \ {u} : form'[v] = form[v]
        /\ r.x = x /\ r.copy = copy
    BY <1>1 DEF OfficeInv, OfficeTypeOK
  <1>4. /\ Shaped(x)' /\ There(x)' /\ Fields(x)' = Fields(x)
    BY <1>2 DEF OfficeInv, OfficeTypeOK, Shaped, There, Fields
  <1>5. Filled(u)'
    BY <1>2, <1>3, <1>4 DEF Filled, Shows
  <1>6. UserInv(u)'
    BY <1>2, <1>5, NoneIsNone DEF UserInv, Asked, HasRead, LookedUp, Untouched
  <1>7. LockInv'
    BY <1>2, NoneIsNone, LockFrame
  <1>8. QED
    BY <1>2, <1>3, <1>6, <1>7, OneUser DEF OfficeInv, OfficeTypeOK

LEMMA OpenEditKeeps == ASSUME OfficeInv, NEW u \in Users, OpenEdit(u) PROVE OfficeInv'
  <1>1. ASSUME NEW s \in ListSuppliers(FALSE), OpenForm(u, s, SupplierForm(s)) PROVE OfficeInv'
    <2>1. PICK copy : copy = SupplierForm(s)
      OBVIOUS
    <2>2. s \in Rows /\ There(s) /\ Fields(s) = {"name"}
      BY <1>1, FieldsAre DEF ListSuppliers, Rows, SupplierFields
    <2>3. DOMAIN copy = {"name"} /\ copy["name"] = row[s]["name"]
      BY <2>1 DEF SupplierForm
    <2>4. OpenForm(u, s, copy)
      BY <1>1, <2>1
    <2>5. QED
      BY <2>2, <2>3, <2>4, OpenFormKeeps
  <1>2. ASSUME NEW c \in ListCustomers(FALSE), OpenForm(u, c, CustomerForm(u, c)) PROVE OfficeInv'
    <2>1. PICK copy : copy = CustomerForm(u, c)
      OBVIOUS
    <2>2. c \in Rows /\ There(c) /\ Fields(c) = {"phone", "nid"}
      BY <1>2, FieldsAre DEF ListCustomers, Rows, CustomerFields
    <2>3. DOMAIN copy = {"phone", "nid"} /\ copy["phone"] = row[c]["phone"]
          /\ (u \in Owners => copy["nid"] = row[c]["nid"])
      BY <2>1 DEF CustomerForm
    <2>4. OpenForm(u, c, copy)
      BY <1>2, <2>1
    <2>5. QED
      BY <2>2, <2>3, <2>4, OpenFormKeeps
  <1>3. ASSUME NEW g \in ListInventory(FALSE), OpenForm(u, g, ItemForm(g)) PROVE OfficeInv'
    <2>1. PICK copy : copy = ItemForm(g)
      OBVIOUS
    <2>2. g \in Rows /\ There(g) /\ Fields(g) = {"cost", "sell", "quantity", "color", "supplier"}
      BY <1>3, FieldsAre DEF ListInventory, Rows, ItemFields
    <2>3. DOMAIN copy = {"cost", "sell", "quantity", "color", "supplier"}
          /\ copy["cost"] = row[g]["cost"] /\ copy["sell"] = row[g]["sell"]
          /\ copy["quantity"] = row[g]["quantity"] /\ copy["color"] = row[g]["color"] /\ copy["supplier"] = row[g]["supplier"]
      BY <2>1 DEF ItemForm
    <2>4. OpenForm(u, g, copy)
      BY <1>3, <2>1
    <2>5. QED
      BY <2>2, <2>3, <2>4, OpenFormKeeps
  <1>4. ASSUME NEW e \in ListExpenses, OpenForm(u, e, ExpenseForm(e)) PROVE OfficeInv'
    <2>1. PICK copy : copy = ExpenseForm(e)
      OBVIOUS
    <2>2. e \in Rows /\ There(e) /\ Fields(e) = {"amount"}
      BY <1>4, FieldsAre DEF ListExpenses, Rows
    <2>3. DOMAIN copy = {"amount"} /\ copy["amount"] = row[e]["amount"]
      BY <2>1 DEF ExpenseForm
    <2>4. OpenForm(u, e, copy)
      BY <1>4, <2>1
    <2>5. QED
      BY <2>2, <2>3, <2>4, OpenFormKeeps
  <1>5. QED
    BY <1>1, <1>2, <1>3, <1>4 DEF OpenEdit

LEMMA RowsThere ==
  ASSUME OfficeInv, NEW x \in Rows, There(x)
  PROVE  Shaped(x)
  BY DEF OfficeInv, OfficeTypeOK

LEMMA AskActiveKeeps ==
  ASSUME OfficeInv, NEW u \in Users, NEW x \in Suppliers \cup Customers \cup Goods, NEW on \in BOOLEAN,
         AskActive(u, x, on)
  PROVE  OfficeInv'
  <1>1. PICK body : body = [active |-> on] /\ Ask(u, "active", x, "write", body, {})
    BY DEF AskActive
  <1>2. x \in Rows /\ There(x) /\ body.active \in BOOLEAN
    BY <1>1 DEF AskActive, Rows
  <1>3. MayAsk(u, "active", x, "write", body)
    BY <1>2, RowsThere DEF MayAsk
  <1>4. QED
    BY <1>1, <1>2, <1>3, AskKeeps

LEMMA ArchiveKeeps ==
  ASSUME OfficeInv, NEW u \in Users,
         \/ DeleteSupplier(u) \/ ReactivateSupplier(u) \/ DeleteCustomer(u) \/ ReactivateCustomer(u)
         \/ DeleteItem(u) \/ ReactivateItem(u)
  PROVE  OfficeInv'
  <1>1. PICK x \in Suppliers \cup Customers \cup Goods, on \in BOOLEAN : AskActive(u, x, on)
    BY DEF DeleteSupplier, ReactivateSupplier, DeleteCustomer, ReactivateCustomer, DeleteItem, ReactivateItem
  <1>2. QED
    BY <1>1, AskActiveKeeps

\* The form that is sent was filled from its row.
LEMMA FormOf ==
  ASSUME OfficeInv, NEW u \in Users, form[u].x \in Rows
  PROVE  /\ DOMAIN form[u].copy = Fields(form[u].x)
         /\ form[u].x \notin Expenses => Shaped(form[u].x)
  BY NoneIsNone DEF OfficeInv, UserInv, Filled

\* What was typed over a form that shows the row's fields.
LEMMA TypedOver ==
  ASSUME NEW u, NEW typed
  PROVE  AsFilled(u, Over(typed, form[u].copy), DOMAIN typed)
  BY DEF AsFilled, Over

LEMMA UpdateSupplierKeeps == ASSUME OfficeInv, NEW u \in Users, UpdateSupplier(u) PROVE OfficeInv'
  <1>0. PICK typed \in SupplierTyped :
          /\ form[u].x \in Suppliers /\ There(form[u].x)
          /\ Ask(u, "edit", form[u].x, "write", Over(typed, form[u].copy), DOMAIN typed)
    BY DEF UpdateSupplier
  <1>a. PICK x : x = form[u].x
    OBVIOUS
  <1>b. PICK touched : touched = DOMAIN typed
    OBVIOUS
  <1>c. PICK body : body = Over(typed, form[u].copy)
    OBVIOUS
  <1>1. /\ body = Over(typed, form[u].copy) /\ x \in Suppliers /\ x = form[u].x /\ There(x)
          /\ Ask(u, "edit", x, "write", body, touched)
    BY <1>0, <1>a, <1>b, <1>c
  <1>2. x \in Rows /\ Shaped(x) /\ Fields(x) = SupplierFields /\ DOMAIN form[u].copy = SupplierFields
    BY <1>1, FormOf, FieldsAre, RowsThere DEF Rows
  <1>3. DOMAIN typed = SupplierFields
    BY FieldsAssumption
  <1>4. DOMAIN body = SupplierFields /\ body.name = typed.name
    BY <1>1, <1>2, <1>3, OverIs DEF SupplierFields
  <1>5. MayAsk(u, "edit", x, "write", body) /\ AsFilled(u, body, touched)
    BY <1>1, <1>2, <1>4, <1>b, TypedOver DEF MayAsk
  <1>6. QED
    BY <1>1, <1>2, <1>5, AskKeeps

LEMMA CustomerAsksKeep ==
  ASSUME OfficeInv, NEW u \in Users, CreateCustomer(u) \/ UpdateCustomer(u) PROVE OfficeInv'
  <1>1. CASE CreateCustomer(u)
    <2>1. PICK c \in Customers, body \in CustomerBodies : Ask(u, "create", c, "nid", body, {})
      BY <1>1 DEF CreateCustomer
    <2>2. c \in Rows /\ DOMAIN body = CustomerFields
      BY FieldsAssumption DEF Rows
    <2>3. MayAsk(u, "create", c, "nid", body)
      BY <2>2 DEF MayAsk
    <2>4. QED
      BY <2>1, <2>2, <2>3, AskKeeps
  <1>2. CASE UpdateCustomer(u)
    <2>0. PICK typed \in CustomerTyped :
            /\ form[u].x \in Customers /\ There(form[u].x)
            /\ Ask(u, "edit", form[u].x, "nid", Over(typed, form[u].copy), DOMAIN typed)
      BY <1>2 DEF UpdateCustomer
    <2>a. PICK x : x = form[u].x
      OBVIOUS
    <2>b. PICK touched : touched = DOMAIN typed
      OBVIOUS
    <2>c. PICK body : body = Over(typed, form[u].copy)
      OBVIOUS
    <2>1. /\ body = Over(typed, form[u].copy) /\ x \in Customers /\ x = form[u].x /\ There(x)
            /\ Ask(u, "edit", x, "nid", body, touched)
      BY <2>0, <2>a, <2>b, <2>c
    <2>2. x \in Rows /\ Shaped(x) /\ Fields(x) = CustomerFields /\ DOMAIN form[u].copy = CustomerFields
      BY <2>1, FormOf, FieldsAre, RowsThere DEF Rows
    <2>3. DOMAIN typed \subseteq CustomerFields
      BY FieldsAssumption
    <2>4. DOMAIN body = CustomerFields
      <3>1. DOMAIN body = DOMAIN typed \cup DOMAIN form[u].copy
        BY <2>1, OverIs
      <3>2. form[u].x = x
        BY <2>1
      <3>3. QED
        BY <2>2, <2>3, <3>1
    <2>5. MayAsk(u, "edit", x, "nid", body) /\ AsFilled(u, body, touched)
      BY <2>1, <2>2, <2>4, <2>b, TypedOver DEF MayAsk
    <2>6. QED
      BY <2>1, <2>2, <2>5, AskKeeps
  <1>3. QED
    BY <1>1, <1>2

\* The form is the row's, or one with its type chosen again; either way what is sent is
\* what was typed, what the form showed, or what Unbidden names.
LEMMA UpdateItemKeeps == ASSUME OfficeInv, NEW u \in Users, UpdateItem(u) PROVE OfficeInv'
  <1>0. PICK typed \in ItemTyped, retyped \in BOOLEAN :
          /\ form[u].x \in Goods /\ There(form[u].x) /\ ~row[form[u].x].sold
          /\ Ask(u, "edit", form[u].x, "write",
                 ItemPayload(Over(typed, IF retyped THEN RetypedForm ELSE form[u].copy)),
                 DOMAIN typed \cup IF retyped THEN {"type"} ELSE {})
    BY DEF UpdateItem, SendItem
  <1>a. PICK x : x = form[u].x
    OBVIOUS
  <1>b. PICK shown : shown = IF retyped THEN RetypedForm ELSE form[u].copy
    OBVIOUS
  <1>c. PICK filled : filled = Over(typed, shown)
    OBVIOUS
  <1>d. PICK body : body = ItemPayload(filled)
    OBVIOUS
  <1>e. PICK touched : touched = DOMAIN typed \cup IF retyped THEN {"type"} ELSE {}
    OBVIOUS
  <1>1. /\ x \in Goods /\ x = form[u].x /\ There(x) /\ ~row[x].sold
        /\ Ask(u, "edit", x, "write", body, touched)
    BY <1>0, <1>a, <1>b, <1>c, <1>d, <1>e
  <1>2. x \in Rows /\ Shaped(x) /\ Fields(x) = ItemFields /\ DOMAIN form[u].copy = ItemFields
    BY <1>1, FormOf, FieldsAre, RowsThere DEF Rows
  <1>3. DOMAIN typed \subseteq ItemFields
    BY FieldsAssumption
  <1>4. DOMAIN shown \subseteq ItemFields
    BY <1>2, <1>b DEF RetypedForm, ItemFields
  <1>5. /\ DOMAIN filled = DOMAIN typed \cup DOMAIN shown
        /\ \A f \in DOMAIN shown \ DOMAIN typed : filled[f] = shown[f]
    BY <1>c DEF Over
  <1>6. /\ DOMAIN body \subseteq DOMAIN filled
        /\ filled.supplier = Blank => "supplier" \notin DOMAIN body
        /\ \A f \in DOMAIN body : body[f] = filled[f] \/ (f = "quantity" /\ filled[f] = 0)
    BY <1>d DEF ItemPayload
  <1>7. MayAsk(u, "edit", x, "write", body)
    <2>1. DOMAIN body \subseteq ItemFields
      BY <1>3, <1>4, <1>5, <1>6
    <2>2. QED
      BY <1>1, <1>2, <2>1 DEF MayAsk
  <1>8. AsFilled(u, body, touched)
    <2> SUFFICES ASSUME NEW f \in DOMAIN body, f \notin touched
                 PROVE  Unbidden(u, f, touched) \/ body[f] = form[u].copy[f]
      BY DEF AsFilled
    <2>1. f \in DOMAIN shown \ DOMAIN typed /\ filled[f] = shown[f]
      BY <1>5, <1>6, <1>e
    <2>2. CASE retyped
      <3>1. shown = RetypedForm /\ "type" \in touched
        BY <1>b, <1>e, <2>2
      <3>2. f \in {"quantity", "color", "supplier"} /\ RetypedForm["supplier"] = Blank
        BY <2>1, <3>1 DEF RetypedForm
      <3>3. f # "supplier"
        BY <1>6, <2>1, <3>1, <3>2
      <3>4. QED
        BY <3>1, <3>2, <3>3 DEF Unbidden
    <2>3. CASE ~retyped
      <3>1. shown = form[u].copy
        BY <1>b, <2>3
      <3>2. QED
        BY <1>6, <2>1, <3>1 DEF Unbidden
    <2>4. QED
      BY <2>2, <2>3
  <1>9. QED
    BY <1>1, <1>2, <1>7, <1>8, AskKeeps

LEMMA ExpenseAsksKeep ==
  ASSUME OfficeInv, NEW u \in Users, UpdateExpense(u) \/ DeleteExpense(u) PROVE OfficeInv'
  <1>1. CASE UpdateExpense(u)
    <2>0. PICK typed \in ExpenseTyped :
            /\ form[u].x \in Expenses /\ There(form[u].x) /\ ValidAmount(typed.amount)
            /\ Ask(u, "edit", form[u].x, "write", Over(typed, form[u].copy), DOMAIN typed)
      BY <1>1 DEF UpdateExpense
    <2>a. PICK x : x = form[u].x
      OBVIOUS
    <2>b. PICK touched : touched = DOMAIN typed
      OBVIOUS
    <2>c. PICK body : body = Over(typed, form[u].copy)
      OBVIOUS
    <2>1. /\ body = Over(typed, form[u].copy) /\ x \in Expenses /\ x = form[u].x /\ There(x) /\ ValidAmount(typed.amount)
            /\ Ask(u, "edit", x, "write", body, touched)
      BY <2>0, <2>a, <2>b, <2>c
    <2>2. x \in Rows /\ DOMAIN form[u].copy = {"amount"}
      BY <2>1, FormOf, FieldsAre DEF Rows
    <2>3. DOMAIN typed = {"amount"} /\ typed.amount \in Int /\ typed.amount > 0
      BY <2>1, FieldsAssumption DEF ValidAmount
    <2>4. body \in [amount : Int] /\ body.amount = typed.amount
      BY <2>1, <2>2, <2>3 DEF Over
    <2>5. MayAsk(u, "edit", x, "write", body) /\ AsFilled(u, body, touched)
      BY <2>1, <2>3, <2>4, <2>b, TypedOver DEF MayAsk
    <2>6. QED
      BY <2>1, <2>2, <2>5, AskKeeps
  <1>2. CASE DeleteExpense(u)
    <2>1. PICK e \in Expenses : Ask(u, "remove", e, "write", None, {})
      BY <1>2 DEF DeleteExpense, ListExpenses
    <2>2. e \in Rows /\ MayAsk(u, "remove", e, "write", None)
      BY DEF Rows, MayAsk
    <2>3. QED
      BY <2>1, <2>2, AskKeeps
  <1>3. QED
    BY <1>1, <1>2

LEMMA SupplierRowIs ==
  ASSUME NEW r, NEW D, D = {"active", "name", "due", "paid"}, r = [f \in D |-> r[f]], r.active \in BOOLEAN,
         r.name \in {typed.name : typed \in SupplierTyped} \cup {Blank}, r.due \in Nat, r.paid \in Nat
  PROVE  r \in SupplierRows
  BY DEF SupplierRows

LEMMA SupplierRowHas ==
  ASSUME NEW r \in SupplierRows
  PROVE  /\ DOMAIN r = {"active", "name", "due", "paid"} /\ r.active \in BOOLEAN
         /\ r.name \in {typed.name : typed \in SupplierTyped} \cup {Blank} /\ r.due \in Nat /\ r.paid \in Nat
  BY DEF SupplierRows

\* The columns that an edit writes, and the others as they were.
LEMMA OverShaped ==
  ASSUME OfficeInv, NEW x \in Suppliers \cup Customers \cup Goods, NEW body, Shaped(x),
         DOMAIN body \subseteq Fields(x), row'[x] = Over(body, row[x]),
         x \in Suppliers => \E typed \in SupplierTyped : body.name = typed.name
  PROVE  /\ Shaped(x)'
         /\ x \in Suppliers => row'[x].due = row[x].due /\ row'[x].paid = row[x].paid
  <1>1. /\ x \in Rows
        /\ x \in Suppliers => x \notin Customers \cup Goods \cup Expenses
        /\ x \in Customers => x \notin Goods \cup Expenses
        /\ ~(x \in Goods /\ x \in Expenses)
        /\ x \in Suppliers => Fields(x) = SupplierFields
        /\ x \in Customers => Fields(x) = CustomerFields
        /\ x \in Goods => Fields(x) = ItemFields
    BY FieldsAre, BackOfficeAssumption DEF Rows
  <1>2. DOMAIN row'[x] = DOMAIN body \cup DOMAIN row[x]
    BY DEF Over
  <1>3. \A f \in DOMAIN body \cup DOMAIN row[x] : row'[x][f] = IF f \in DOMAIN body THEN body[f] ELSE row[x][f]
    BY DEF Over
  <1>4. CASE x \in Suppliers
    <2>1. row[x] \in SupplierRows /\ row[x].paid <= row[x].due /\ DOMAIN body \subseteq {"name"}
      BY <1>1, <1>4 DEF Shaped, SupplierFields
    <2>2. DOMAIN row[x] = {"active", "name", "due", "paid"}
      BY <2>1, SupplierRowHas
    <2>3. DOMAIN row'[x] = {"active", "name", "due", "paid"}
      BY <1>2, <2>1, <2>2
    <2>4. row'[x].active = row[x].active /\ row'[x].due = row[x].due /\ row'[x].paid = row[x].paid
          /\ row'[x].name \in {row[x].name, body.name}
      BY <1>3, <2>1, <2>2
    <2>5. row'[x].name \in {typed.name : typed \in SupplierTyped} \cup {Blank}
      BY <1>4, <2>1, <2>4, SupplierRowHas
    <2>6. row'[x] = [f \in DOMAIN row'[x] |-> row'[x][f]]
      BY DEF Over
    <2>7. row'[x] \in SupplierRows
      BY <2>1, <2>3, <2>4, <2>5, <2>6, SupplierRowHas, SupplierRowIs
    <2>8. QED
      BY <1>4, <2>1, <2>4, <2>7 DEF Shaped
  <1>5. CASE x \in Customers
    BY <1>1, <1>2, <1>5 DEF Shaped
  <1>6. CASE x \in Goods
    BY <1>1, <1>2, <1>6 DEF Shaped
  <1>7. QED
    BY <1>4, <1>5, <1>6

LEMMA EditWriteKeeps ==
  ASSUME OfficeInv, NEW u \in Users, NEW x \in Suppliers \cup Customers \cup Goods, x = req[u].x, req[u].op = "edit",
         Write(u, x, Over(req[u].body, row[x])),
         UNCHANGED <<payments, lock, untold, trail, asked, bulk, tangled>>
  PROVE  OfficeInv'
  <1>1. PICK image : image = Over(req[u].body, row[x]) /\ Write(u, x, image)
    OBVIOUS
  <1>2. /\ x \in Rows /\ x \notin Expenses
        /\ x \in Suppliers => x \notin Customers \cup Goods \cup Expenses
    BY BackOfficeAssumption DEF Rows
  <1>3. /\ Shaped(x) /\ DOMAIN req[u].body \subseteq Fields(x)
        /\ x \in Suppliers => \E typed \in SupplierTyped : req[u].body.name = typed.name
    BY <1>2, NoneIsNone DEF OfficeInv, UserInv, Asked
  <1>4. row'[x] = image /\ \A y \in Rows \ {x} : row'[y] = row[y]
    BY <1>1, <1>2 DEF Write, OfficeInv, OfficeTypeOK
  <1>5. Shaped(x)' /\ (x \in Suppliers => row'[x].paid = row[x].paid)
    <2>1. PICK body : body = req[u].body
      OBVIOUS
    <2>2. /\ DOMAIN body \subseteq Fields(x) /\ row'[x] = Over(body, row[x])
          /\ x \in Suppliers => \E typed \in SupplierTyped : body.name = typed.name
      BY <1>1, <1>3, <1>4, <2>1
    <2>3. QED
      BY <1>3, <2>2, OverShaped
  <1>6. SumsInv'
    <2>1. x \in Suppliers => There(x) /\ There(x)'
      BY <1>2, <1>3, <1>5, FieldsAssumption DEF Shaped, There
    <2>2. Suppliers \subseteq Rows
      BY DEF Rows
    <2>3. QED
      BY <1>4, <1>5, <2>1, <2>2, SumsFrame DEF There
  <1>7. TrailInv'
    <2>1. \A e \in Expenses : row'[e] = row[e]
      BY <1>2, <1>4 DEF Rows
    <2>2. QED
      BY <2>1, TrailFrame
  <1>8. QED
    BY <1>1, <1>2, <1>5, <1>6, <1>7, WriteKeeps DEF OfficeInv, OfficeTypeOK

LEMMA EditsKeep ==
  ASSUME OfficeInv, NEW u \in Users, WriteSupplier(u) \/ WriteItem(u) \/ (WriteCustomer(u) /\ req[u].op = "edit")
  PROVE  OfficeInv'
  <1>1. PICK x : x = req[u].x
    OBVIOUS
  <1>2. /\ x \in Suppliers \cup Customers \cup Goods /\ req[u].op = "edit"
        /\ Write(u, x, Over(req[u].body, row[x]))
        /\ UNCHANGED <<payments, lock, untold, trail, asked, bulk, tangled>>
    BY <1>1 DEF WriteSupplier, WriteItem, WriteCustomer
  <1>3. QED
    BY <1>1, <1>2, EditWriteKeeps

LEMMA WriteActiveKeeps == ASSUME OfficeInv, NEW u \in Users, WriteActive(u) PROVE OfficeInv'
  <1>1. PICK x, image :
          /\ x = req[u].x /\ image = [row[x] EXCEPT !.active = req[u].body.active] /\ Write(u, x, image)
    BY DEF WriteActive
  <1>2. /\ req[u].op = "active" /\ UNCHANGED <<payments, lock, untold, trail, asked, bulk, tangled>>
    BY DEF WriteActive
  <1>3. x \in Suppliers \cup Customers \cup Goods /\ Shaped(x) /\ req[u].body.active \in BOOLEAN
    BY <1>1, <1>2, NoneIsNone DEF OfficeInv, UserInv, Asked
  <1>4. /\ x \in Rows /\ x \notin Expenses
        /\ x \in Suppliers => x \notin Customers \cup Goods \cup Expenses
        /\ x \in Customers => x \notin Goods
    BY <1>3, BackOfficeAssumption DEF Rows
  <1>5. row'[x] = image /\ \A y \in Rows \ {x} : row'[y] = row[y]
    BY <1>1, <1>4 DEF Write, OfficeInv, OfficeTypeOK
  <1>6. DOMAIN image = DOMAIN row[x] /\ \A f \in DOMAIN row[x] \ {"active"} : image[f] = row[x][f]
    BY <1>1
  <1>7. Shaped(x)' /\ (x \in Suppliers => row'[x].paid = row[x].paid)
    <2>1. CASE x \in Suppliers
      <3>1. row[x] \in SupplierRows /\ row[x].paid <= row[x].due
        BY <1>3, <1>4, <2>1 DEF Shaped
      <3>2. image \in SupplierRows /\ image.paid = row[x].paid /\ image.due = row[x].due
        BY <1>1, <1>3, <3>1 DEF SupplierRows
      <3>3. QED
        BY <1>5, <2>1, <3>1, <3>2 DEF Shaped
    <2>2. CASE x \notin Suppliers
      BY <1>3, <1>4, <1>5, <1>6, <2>2 DEF Shaped
    <2>3. QED
      BY <2>1, <2>2
  <1>8. SumsInv'
    <2>1. x \in Suppliers => There(x) /\ There(x)'
      BY <1>3, <1>4, <1>7, FieldsAssumption DEF Shaped, There
    <2>2. Suppliers \subseteq Rows
      BY DEF Rows
    <2>3. QED
      BY <1>2, <1>5, <1>7, <2>1, <2>2, SumsFrame DEF There
  <1>9. TrailInv'
    <2>1. \A e \in Expenses : row'[e] = row[e]
      BY <1>4, <1>5 DEF Rows
    <2>2. QED
      BY <1>2, <2>1, TrailFrame
  <1>10. QED
    BY <1>1, <1>2, <1>4, <1>7, <1>8, <1>9, WriteKeeps DEF OfficeInv, OfficeTypeOK

\* A row that is new.
LEMMA InsertKeeps ==
  ASSUME OfficeInv, NEW u \in Users, NEW x \in Suppliers \cup Customers \cup Goods, NEW image,
         Write(u, x, image), ~There(x), req[u].op # "pay", asked' \in 0..MaxRequests,
         bulk' \subseteq Goods, UNCHANGED <<payments, lock, untold, trail, tangled>>,
         x \in Suppliers => image \in SupplierRows /\ image.paid = 0,
         x \in Customers => DOMAIN image = {"active"} \cup CustomerFields,
         x \in Goods => DOMAIN image = {"active", "sold"} \cup ItemFields
  PROVE  OfficeInv'
  <1>1. /\ x \in Rows /\ x \notin Expenses /\ Suppliers \subseteq Rows
    BY BackOfficeAssumption DEF Rows
  <1>2. row'[x] = image /\ \A y \in Rows \ {x} : row'[y] = row[y]
    BY <1>1 DEF Write, OfficeInv, OfficeTypeOK
  <1>3. Shaped(x)'
    <2>1. CASE x \in Suppliers
      <3>1. image \in SupplierRows /\ image.paid = 0 /\ image.due \in Nat
        BY <2>1, SupplierRowHas
      <3>2. QED
        BY <1>2, <2>1, <3>1 DEF Shaped
    <2>2. CASE x \notin Suppliers
      BY <1>2, <2>2 DEF Shaped
    <2>3. QED
      BY <2>1, <2>2
  <1>4. SumsInv'
    <2>1. x \in Suppliers => row'[x].paid = 0
      BY <1>2
    <2>2. QED
      BY <1>1, <1>2, <2>1, SumsFrame DEF There
  <1>5. TrailInv'
    <2>1. \A e \in Expenses : row'[e] = row[e]
      BY <1>1, <1>2 DEF Rows
    <2>2. QED
      BY <2>1, TrailFrame
  <1>6. QED
    BY <1>1, <1>3, <1>4, <1>5, WriteKeeps DEF OfficeInv, OfficeTypeOK

LEMMA InsertAsked ==
  ASSUME OfficeInv, NEW u \in Users, NEW x, NEW image, Insert(u, x, image)
  PROVE  /\ Write(u, x, image) /\ ~There(x) /\ req[u] = NoReq /\ req[u].op # "pay" /\ asked' \in 0..MaxRequests
         /\ Fresh(x) /\ asked' = asked + 1
  BY NoneIsNone, BackOfficeAssumption DEF Insert, Fresh, OfficeInv, OfficeTypeOK

LEMMA CreateSupplierKeeps == ASSUME OfficeInv, NEW u \in Users, CreateSupplier(u) PROVE OfficeInv'
  <1>a. PICK s \in Suppliers, typed \in SupplierTyped :
          /\ Insert(u, s, [active |-> TRUE, name |-> typed.name, due |-> 0, paid |-> 0])
          /\ UNCHANGED <<payments, lock, untold, trail, bulk, tangled>>
    BY DEF CreateSupplier
  <1>1. PICK image :
          /\ image = [active |-> TRUE, name |-> typed.name, due |-> 0, paid |-> 0]
          /\ Insert(u, s, image) /\ UNCHANGED <<payments, lock, untold, trail, bulk, tangled>>
    BY <1>a
  <1>2. image \in SupplierRows /\ image.paid = 0
    BY <1>1 DEF SupplierRows
  <1>3. s \notin Customers \cup Goods
    BY BackOfficeAssumption
  <1>4. bulk' \subseteq Goods
    BY <1>1 DEF OfficeInv, OfficeTypeOK
  <1>5. QED
    BY <1>1, <1>2, <1>3, <1>4, InsertAsked, InsertKeeps

LEMMA CreateItemKeeps == ASSUME OfficeInv, NEW u \in Users, CreateItem(u) \/ BulkCreateItems(u) PROVE OfficeInv'
  <1>a. PICK g \in Goods, body \in ItemBodies :
          /\ Insert(u, g, ItemRow(body)) /\ UNCHANGED <<payments, lock, untold, trail, tangled>>
          /\ bulk' \in {bulk, bulk \cup {g}}
    BY DEF CreateItem, BulkCreateItems
  <1>1. PICK image :
          /\ image = ItemRow(body)
          /\ Insert(u, g, image) /\ UNCHANGED <<payments, lock, untold, trail, tangled>>
          /\ bulk' \in {bulk, bulk \cup {g}}
    BY <1>a
  <1>2. DOMAIN image = {"active", "sold"} \cup ItemFields
    BY <1>1, FieldsAssumption DEF ItemRow, Over
  <1>3. g \notin Suppliers \cup Customers
    BY BackOfficeAssumption
  <1>4. bulk' \subseteq Goods
    BY <1>1 DEF OfficeInv, OfficeTypeOK
  <1>5. QED
    BY <1>1, <1>2, <1>3, <1>4, InsertAsked, InsertKeeps

LEMMA CreateCustomerWrites ==
  ASSUME OfficeInv, NEW u \in Users, WriteCustomer(u), req[u].op = "create"
  PROVE  OfficeInv'
  <1>1. PICK x, image :
          /\ x = req[u].x /\ image = Over([active |-> TRUE], req[u].body) /\ Write(u, x, image)
          /\ x \in Customers /\ UNCHANGED <<payments, lock, untold, trail, asked, bulk, tangled>>
    BY DEF WriteCustomer
  <1>2. /\ x \in Rows /\ x \notin Expenses /\ x \notin Suppliers
        /\ Suppliers \subseteq Rows /\ Expenses \subseteq Rows
    BY <1>1, BackOfficeAssumption DEF Rows
  <1>3. DOMAIN req[u].body = CustomerFields
    BY <1>1, NoneIsNone DEF OfficeInv, UserInv, Asked
  <1>4. DOMAIN image = {"active"} \cup CustomerFields
    BY <1>1, <1>3 DEF Over
  <1>5. row'[x] = image /\ \A y \in Rows \ {x} : row'[y] = row[y]
    BY <1>1, <1>2 DEF Write, OfficeInv, OfficeTypeOK
  <1>6. Shaped(x)'
    BY <1>1, <1>4, <1>5 DEF Shaped
  <1>7. SumsInv'
    <2>1. \A s \in Suppliers : row'[s] = row[s]
      BY <1>2, <1>5
    <2>2. QED
      BY <1>1, <2>1, SumsFrame DEF There
  <1>8. TrailInv'
    <2>1. \A e \in Expenses : row'[e] = row[e]
      BY <1>2, <1>5
    <2>2. QED
      BY <1>1, <2>1, TrailFrame
  <1>9. QED
    BY <1>1, <1>2, <1>6, <1>7, <1>8, WriteKeeps DEF OfficeInv, OfficeTypeOK

\* createSale takes a unit: its row is no user's request.
LEMMA SellKeeps == ASSUME OfficeInv, NEW g \in Goods, Sell(g) PROVE OfficeInv'
  <1>1. PICK image :
          /\ image = [row[g] EXCEPT !.quantity = @ - 1, !.sold = row[g].quantity = 1]
          /\ row' = [row EXCEPT ![g] = image]
    BY DEF Sell
  <1>2. /\ There(g) /\ moved' = moved \cup {v \in Users : form[v].x = g}
        /\ crossed' = crossed \cup {v \in Users : req[v].x \in Goods}
        /\ UNCHANGED <<payments, lock, form, req, untold, trail, asked, bulk, tangled>>
    BY DEF Sell, Active
  <1>3. /\ g \in Rows /\ g \notin Expenses /\ g \notin Suppliers /\ Peers(g) = Goods
        /\ Suppliers \subseteq Rows /\ Expenses \subseteq Rows /\ g \notin Customers
    BY FieldsAre, BackOfficeAssumption DEF Rows
  <1>4. DOMAIN row' = Rows /\ row'[g] = image /\ \A y \in Rows \ {g} : row'[y] = row[y]
    BY <1>1, <1>3 DEF OfficeInv, OfficeTypeOK
  <1>5. Shaped(g)
    BY <1>2, <1>3, RowsThere
  <1>6. DOMAIN row[g] = {"active", "sold"} \cup ItemFields
    BY <1>3, <1>5 DEF Shaped
  <1>7. DOMAIN image = {"active", "sold"} \cup ItemFields
    BY <1>1, <1>6
  <1>8. Shaped(g)'
    BY <1>4, <1>7 DEF Shaped
  <1>9. \A v \in Users : UserInv(v)'
    <2> SUFFICES ASSUME NEW v \in Users PROVE UserInv(v)'
      OBVIOUS
    <2>1. /\ req'[v] = req[v] /\ form'[v] = form[v] /\ \A s \in Suppliers : lock[s] = v => lock'[s] = v
          /\ req[v].x \in Peers(g) => v \in crossed'
          /\ form[v].x = g => v \in moved'
          /\ v \in crossed => v \in crossed'
          /\ v \in moved => v \in moved'
      BY <1>2, <1>3
    <2>2. QED
      BY <1>3, <1>4, <1>8, <2>1, BystanderKept
  <1>10. OfficeTypeOK'
    <2>1. \A y \in Rows : There(y)' => Shaped(y)'
      BY <1>4, <1>8 DEF OfficeInv, OfficeTypeOK, There, Shaped
    <2>2. QED
      BY <1>2, <1>4, <2>1 DEF OfficeInv, OfficeTypeOK
  <1>11. LockInv'
    BY <1>2 DEF OfficeInv, LockInv
  <1>12. SumsInv'
    <2>1. \A s \in Suppliers : row'[s] = row[s]
      BY <1>3, <1>4
    <2>2. QED
      BY <1>2, <2>1, SumsFrame DEF There
  <1>13. TrailInv'
    <2>1. \A e \in Expenses : row'[e] = row[e]
      BY <1>3, <1>4
    <2>2. QED
      BY <1>2, <2>1, TrailFrame
  <1>14. QED
    BY <1>9, <1>10, <1>11, <1>12, <1>13 DEF OfficeInv

LEMMA AddPaymentKeeps == ASSUME OfficeInv, NEW u \in Users, AddPayment(u) PROVE OfficeInv'
  <1>a. PICK s \in Suppliers, a \in Amounts :
          /\ a > 0 /\ There(s) /\ lock[s] = None /\ row[s].paid <= row[s].due - a
          /\ lock' = [lock EXCEPT ![s] = u] /\ req[u] = NoReq /\ asked < MaxRequests
          /\ asked' = asked + 1 /\ crossed' = crossed \ {u}
          /\ req' = [req EXCEPT ![u] = [op |-> "pay", x |-> s, at |-> "insert", body |-> [amount |-> a],
                                        read |-> row[s], typed |-> {}]]
          /\ UNCHANGED <<row, payments, form, untold, trail, moved, bulk, tangled>>
    BY DEF AddPayment
  <1>1. PICK r :
          /\ a > 0 /\ There(s) /\ lock[s] = None /\ row[s].paid <= row[s].due - a
          /\ lock' = [lock EXCEPT ![s] = u] /\ req[u] = NoReq /\ asked < MaxRequests
          /\ asked' = asked + 1 /\ crossed' = crossed \ {u}
          /\ r = [op |-> "pay", x |-> s, at |-> "insert", body |-> [amount |-> a],
                                        read |-> row[s], typed |-> {}]
          /\ req' = [req EXCEPT ![u] = r]
          /\ UNCHANGED <<row, payments, form, untold, trail, moved, bulk, tangled>>
    BY <1>a
  <1>2. /\ DOMAIN r = DOMAIN NoReq /\ r.op = "pay" /\ r.x = s /\ r.at = "insert" /\ r.body.amount = a
        /\ r.read = row[s]
    BY <1>1 DEF NoReq
  <1>3. /\ DOMAIN req' = Users /\ req'[u] = r /\ \A v \in Users \ {u} : req'[v] = req[v]
        /\ lock' \in [Suppliers -> Users \cup {None}] /\ lock'[s] = u
        /\ \A q \in Suppliers \ {s} : lock'[q] = lock[q]
        /\ asked' \in 0..MaxRequests
    BY <1>1, BackOfficeAssumption DEF OfficeInv, OfficeTypeOK
  <1>4. s \in Rows /\ s \notin Customers \cup Goods \cup Expenses /\ Shaped(s) /\ a \in Nat
    BY <1>1, RowsThere, BackOfficeAssumption DEF Rows
  <1>5. row[s].paid \in Nat /\ row[s].due \in Nat
    BY <1>4, SupplierRowHas DEF Shaped
  <1>6. \A y : (Shaped(y)' <=> Shaped(y)) /\ Balance(y)' = Balance(y) /\ Fields(y)' = Fields(y)
    BY <1>1 DEF Shaped, Balance, Fields
  <1>7. Asked(u)'
    <2>1. a <= Balance(s)
      BY <1>1, <1>4, <1>5 DEF Balance
    <2>2. QED
      BY <1>1, <1>2, <1>3, <1>4, <1>6, <2>1 DEF Asked
  <1>8. Filled(u)'
    BY <1>1, <1>6 DEF OfficeInv, UserInv, Filled, Shows, There
  <1>9. HasRead(u)' /\ LookedUp(u)' /\ Untouched(u)'
    BY <1>1, <1>2, <1>3 DEF HasRead, LookedUp, Untouched
  <1>10. LockInv'
    BY <1>1, <1>2, <1>3, NoneIsNone DEF OfficeInv, LockInv, OfficeTypeOK
  <1>11. UserInv(u)'
    BY <1>7, <1>8, <1>9 DEF UserInv
  <1>12. QED
    BY <1>1, <1>3, <1>10, <1>11, OneUser DEF OfficeInv, OfficeTypeOK

LEMMA PaymentFailsKeeps == ASSUME OfficeInv, NEW u \in Users, PaymentFails(u) PROVE OfficeInv'
  <1>1. /\ lock' = Unlocked(u) /\ req' = [req EXCEPT ![u] = NoReq]
        /\ UNCHANGED <<row, payments, form, untold, trail, asked, moved, crossed, bulk, tangled>>
    BY DEF PaymentFails, ghosts
  <1>2. /\ DOMAIN req' = Users /\ req'[u] = NoReq /\ \A v \in Users \ {u} : req'[v] = req[v]
        /\ lock' \in [Suppliers -> Users \cup {None}]
        /\ \A s \in Suppliers : lock'[s] = IF lock[s] = u THEN None ELSE lock[s]
    BY <1>1 DEF OfficeInv, OfficeTypeOK, Unlocked
  <1>3. Filled(u)'
    BY <1>1 DEF OfficeInv, UserInv, Filled, Shows, There, Shaped, Fields
  <1>4. UserInv(u)'
    BY <1>2, <1>3, NoneIsNone DEF UserInv, Asked, HasRead, LookedUp, Untouched
  <1>5. LockInv'
    BY <1>2, NoneIsNone DEF OfficeInv, LockInv, OfficeTypeOK
  <1>6. QED
    BY <1>1, <1>2, <1>4, <1>5, OneUser DEF OfficeInv, OfficeTypeOK

LEMMA InsertPaymentKeeps == ASSUME OfficeInv, NEW u \in Users, InsertPayment(u) PROVE OfficeInv'
  <1>1. PICK x, a, image :
          /\ x = req[u].x /\ a = req[u].body.amount /\ image = [row[x] EXCEPT !.paid = @ + a]
          /\ Write(u, x, image) /\ payments' = Append(payments, [supplier |-> x, amount |-> a])
    BY DEF InsertPayment
  <1>2. /\ req[u].op = "pay" /\ lock' = Unlocked(u)
        /\ UNCHANGED <<untold, trail, asked, bulk, tangled>>
    BY DEF InsertPayment
  <1>3. x \in Suppliers /\ Shaped(x) /\ a \in Nat /\ a <= Balance(x)
    BY <1>1, <1>2, NoneIsNone DEF OfficeInv, UserInv, Asked
  <1>4. /\ x \in Rows /\ x \notin Customers \cup Goods \cup Expenses
        /\ Suppliers \subseteq Rows /\ Expenses \subseteq Rows
    BY <1>3, BackOfficeAssumption DEF Rows
  <1>5. row'[x] = image /\ \A y \in Rows \ {x} : row'[y] = row[y]
    BY <1>1, <1>4 DEF Write, OfficeInv, OfficeTypeOK
  <1>6. row[x] \in SupplierRows /\ row[x].paid \in Nat /\ row[x].due \in Nat
    BY <1>3, <1>4, SupplierRowHas DEF Shaped
  <1>7. image \in SupplierRows /\ image.paid = row[x].paid + a /\ image.due = row[x].due
    BY <1>1, <1>3, <1>6 DEF SupplierRows
  <1>8. Shaped(x)'
    BY <1>3, <1>5, <1>6, <1>7 DEF Shaped, Balance
  <1>9. PICK p : p = [supplier |-> x, amount |-> a]
    OBVIOUS
  <1>10. p \in [supplier : Suppliers, amount : Nat] /\ p.supplier = x /\ p.amount = a
    BY <1>3, <1>9
  <1>11. payments \in Seq([supplier : Suppliers, amount : Nat]) /\ payments' = Append(payments, p)
    BY <1>1, <1>9 DEF OfficeInv, OfficeTypeOK
  <1>12. payments' \in Seq([supplier : Suppliers, amount : Nat])
    <2> DEFINE P == [supplier : Suppliers, amount : Nat]
    <2>1. p \in P /\ payments \in Seq(P)
      BY <1>10, <1>11
    <2> HIDE DEF P
    <2>2. payments' \in Seq(P)
      BY <1>11, <2>1
    <2>3. QED
      BY <2>2 DEF P
  <1>13. SumsInv'
    <2> SUFFICES ASSUME NEW s \in Suppliers
                 PROVE  /\ Adds(Sums(payments, s), payments, s)'
                        /\ PaidTo(s)' = IF There(s)' THEN row'[s].paid ELSE 0
      BY DEF SumsInv
    <2>1. /\ Adds(Sums(payments, s), payments, s)
          /\ PaidTo(s) = IF There(s) THEN row[s].paid ELSE 0
      BY DEF OfficeInv, SumsInv
    <2>2. PICK more : more = Append(payments, p)
      OBVIOUS
    <2>3. /\ Adds(Sums(more, s), more, s)
          /\ Sums(more, s)[Len(more)] = Sums(payments, s)[Len(payments)] + IF p.supplier = s THEN p.amount ELSE 0
      BY <1>10, <1>11, <2>1, <2>2, SumsGrow
    <2>4. more = payments'
      BY <1>11, <2>2
    <2>5. PaidTo(s)' = PaidTo(s) + IF x = s THEN a ELSE 0
      BY <1>10, <2>3, <2>4 DEF PaidTo
    <2>6. There(x) /\ There(x)'
      BY <1>5, <1>6, <1>7, FieldsAssumption DEF There
    <2>7. CASE s = x
      BY <1>5, <1>7, <2>1, <2>3, <2>4, <2>5, <2>6, <2>7
    <2>8. CASE s # x
      <3>1. row'[s] = row[s]
        BY <1>4, <1>5, <2>8
      <3>2. PaidTo(s) \in Nat
        <4>1. There(s) => row[s].paid \in Nat
          <5>1. There(s) => Shaped(s)
            BY <1>4, RowsThere
          <5>2. QED
            BY <5>1, SupplierRowHas, BackOfficeAssumption DEF Shaped
        <4>2. QED
          BY <2>1, <4>1
      <3>3. PaidTo(s)' = PaidTo(s)
        BY <2>5, <2>8, <3>2
      <3>4. QED
        BY <2>1, <2>3, <2>4, <3>1, <3>3 DEF There
    <2>9. QED
      BY <2>7, <2>8
  <1>14. TrailInv'
    <2>1. \A e \in Expenses : row'[e] = row[e]
      BY <1>4, <1>5
    <2>2. QED
      BY <1>2, <2>1, TrailFrame
  <1>15. QED
    BY <1>1, <1>2, <1>4, <1>8, <1>12, <1>13, <1>14, WriteKeeps DEF OfficeInv, OfficeTypeOK

\* An expense is written, and what the trail is to be told of it goes on where it ends.
LEMMA ExpenseWriteKeeps ==
  ASSUME OfficeInv, NEW u \in Users, NEW e \in Expenses, NEW image, Write(u, e, image), NEW old,
         image = None \/ (image \in [amount : Int] /\ image.amount > 0), old \in ExpenseRows,
         untold' = untold \cup {[x |-> e, by |-> asked, old |-> old, new |-> image]},
         e \notin tangled' => (\A a \in untold : a.x # e) /\ old = row[e],
         tangled \subseteq tangled', tangled' \subseteq Expenses,
         asked' \in 0..MaxRequests, req[u].op # "pay", UNCHANGED <<payments, lock, trail, bulk>>
  PROVE  OfficeInv'
  <1>1. PICK a : a = [x |-> e, by |-> asked, old |-> old, new |-> image]
    OBVIOUS
  <1>2. a.x = e /\ a.old = old /\ a.new = image /\ untold' = untold \cup {a}
    BY <1>1
  <1>3. a \in [x : Expenses, by : Nat, old : ExpenseRows, new : ExpenseRows]
    BY <1>1, BackOfficeAssumption DEF OfficeInv, OfficeTypeOK, ExpenseRows
  <1>4. e \in Rows /\ e \notin Suppliers /\ Suppliers \subseteq Rows /\ Expenses \subseteq Rows
    BY BackOfficeAssumption DEF Rows
  <1>5. row'[e] = image /\ \A y \in Rows \ {e} : row'[y] = row[y]
    BY <1>4 DEF Write, OfficeInv, OfficeTypeOK
  <1>6. There(e)' => Shaped(e)'
    BY <1>5 DEF There, Shaped
  <1>7. SumsInv'
    <2>1. \A s \in Suppliers : row'[s] = row[s]
      BY <1>4, <1>5
    <2>2. QED
      BY <2>1, SumsFrame DEF There
  <1>8. TrailInv'
    <2> SUFFICES ASSUME NEW d \in Expenses, d \notin tangled'
                 PROVE  /\ Chained(trail[d])
                        /\ \/ (\A b \in untold' : b.x # d) /\ row'[d] = LastOf(trail[d])
                           \/ \E b \in untold' : /\ b.x = d /\ b.old = LastOf(trail[d]) /\ b.new = row'[d]
                                                 /\ \A c \in untold' : c.x = d => c = b
      BY DEF TrailInv, LastOf, Chained
    <2>1. /\ Chained(trail[d])
          /\ \/ (\A b \in untold : b.x # d) /\ row[d] = LastOf(trail[d])
             \/ \E b \in untold : /\ b.x = d /\ b.old = LastOf(trail[d]) /\ b.new = row[d]
                                  /\ \A c \in untold : c.x = d => c = b
      BY DEF OfficeInv, TrailInv
    <2>2. CASE d = e
      BY <1>2, <1>5, <2>1, <2>2
    <2>3. CASE d # e
      <3>1. row'[d] = row[d] /\ \A b \in untold' : b.x = d => b \in untold
        BY <1>2, <1>4, <1>5, <2>3
      <3>2. untold \subseteq untold'
        BY <1>2
      <3>3. QED
        BY <2>1, <3>1, <3>2
    <2>4. QED
      BY <2>2, <2>3
  <1>9. untold' \subseteq [x : Expenses, by : Nat, old : ExpenseRows, new : ExpenseRows]
    BY <1>2, <1>3 DEF OfficeInv, OfficeTypeOK
  <1>10. QED
    BY <1>4, <1>6, <1>7, <1>8, <1>9, WriteKeeps DEF OfficeInv, OfficeTypeOK

LEMMA CreateExpenseKeeps == ASSUME OfficeInv, NEW u \in Users, CreateExpense(u) PROVE OfficeInv'
  <1>a. PICK e \in Expenses, a \in Amounts :
          /\ a > 0 /\ Insert(u, e, [amount |-> a])
          /\ untold' = untold \cup {[x |-> e, by |-> asked, old |-> None, new |-> [amount |-> a]]}
          /\ UNCHANGED <<payments, lock, trail, bulk, tangled>>
    BY DEF CreateExpense, ValidAmount
  <1>1. PICK image :
          /\ a > 0 /\ image = [amount |-> a] /\ Insert(u, e, image)
          /\ untold' = untold \cup {[x |-> e, by |-> asked, old |-> None, new |-> image]}
          /\ UNCHANGED <<payments, lock, trail, bulk, tangled>>
    BY <1>a
  <1>2. image \in [amount : Int] /\ image.amount > 0 /\ None \in ExpenseRows
    BY <1>1, BackOfficeAssumption DEF ExpenseRows
  <1>3. (\A b \in untold : b.x # e) /\ row[e] = None
    BY <1>1, InsertAsked DEF Fresh, There
  <1>4. Write(u, e, image) /\ req[u].op # "pay" /\ asked' \in 0..MaxRequests
    BY <1>1, InsertAsked
  <1>5. tangled \subseteq tangled' /\ tangled' \subseteq Expenses
    BY <1>1 DEF OfficeInv, OfficeTypeOK
  <1>6. QED
    BY <1>1, <1>2, <1>3, <1>4, <1>5, ExpenseWriteKeeps

LEMMA WriteExpenseKeeps ==
  ASSUME OfficeInv, NEW u \in Users, NEW op, NEW image, WriteExpense(u, op, image),
         (op = "edit" /\ image = req[u].body) \/ (op = "remove" /\ image = None)
  PROVE  OfficeInv'
  <1>1. PICK e : e = req[u].x
    OBVIOUS
  <1>2. req[u].op = op /\ e \in Expenses /\ req[u].op # "pay" /\ req[u] # NoReq
    BY <1>1, NoneIsNone DEF WriteExpense
  <1>3. e \notin Suppliers \cup Customers \cup Goods
    BY <1>2, BackOfficeAssumption
  <1>4. /\ image = None \/ (image \in [amount : Int] /\ image.amount > 0)
        /\ req[u].read \in ExpenseRows
    BY <1>1, <1>2, <1>3, NoneIsNone DEF OfficeInv, UserInv, Asked
  <1>5. u \notin crossed => req[u].read = row[e]
    BY <1>1, <1>2 DEF OfficeInv, UserInv, HasRead
  <1>6. CASE There(e)
    <2>1. /\ Write(u, e, image) /\ UNCHANGED <<payments, lock, trail, asked, bulk>>
          /\ untold' = untold \cup {[x |-> e, by |-> asked, old |-> req[u].read, new |-> image]}
          /\ tangled' = IF u \in crossed \/ \E a \in untold : a.x = e THEN tangled \cup {e} ELSE tangled
      BY <1>1, <1>6 DEF WriteExpense, Audit
    <2>2. /\ e \notin tangled' => (\A a \in untold : a.x # e) /\ req[u].read = row[e]
          /\ tangled \subseteq tangled'
      BY <1>5, <2>1
    <2>3. tangled' \subseteq Expenses /\ asked' \in 0..MaxRequests
      BY <1>2, <2>1 DEF OfficeInv, OfficeTypeOK
    <2>4. QED
      BY <1>2, <1>4, <2>1, <2>2, <2>3, ExpenseWriteKeeps
  <1>7. CASE ~There(e)
    BY <1>1, <1>2, <1>7, RefuseKeeps DEF WriteExpense
  <1>8. QED
    BY <1>6, <1>7

LEMMA ExpenseWritesKeep ==
  ASSUME OfficeInv, NEW u \in Users, SaveExpense(u) \/ RemoveExpense(u) PROVE OfficeInv'
  <1>1. CASE SaveExpense(u)
    <2>1. PICK image : image = req[u].body
      OBVIOUS
    <2>2. WriteExpense(u, "edit", image)
      BY <1>1, <2>1 DEF SaveExpense
    <2>3. QED
      BY <2>1, <2>2, WriteExpenseKeeps
  <1>2. CASE RemoveExpense(u)
    BY <1>2, WriteExpenseKeeps DEF RemoveExpense
  <1>3. QED
    BY <1>1, <1>2

LEMMA WriteAuditKeeps == ASSUME OfficeInv, WriteExpenseAudit PROVE OfficeInv'
  <1>a. PICK a \in untold :
          /\ untold' = untold \ {a}
          /\ \/ trail' = [trail EXCEPT ![a.x] = Append(trail[a.x], [old |-> a.old, new |-> a.new])] /\ tangled' = tangled
             \/ trail' = trail /\ tangled' = tangled \cup {a.x}
          /\ UNCHANGED <<row, payments, lock, form, req, asked, moved, crossed, bulk>>
    BY DEF WriteExpenseAudit, rows
  <1>1. PICK told :
          /\ told = [old |-> a.old, new |-> a.new] /\ untold' = untold \ {a}
          /\ \/ trail' = [trail EXCEPT ![a.x] = Append(trail[a.x], told)] /\ tangled' = tangled
             \/ trail' = trail /\ tangled' = tangled \cup {a.x}
          /\ UNCHANGED <<row, payments, lock, form, req, asked, moved, crossed, bulk>>
    BY <1>a
  <1>2. /\ a.x \in Expenses /\ told \in [old : ExpenseRows, new : ExpenseRows]
        /\ told.old = a.old /\ told.new = a.new
    BY <1>1 DEF OfficeInv, OfficeTypeOK
  <1> DEFINE T == [old : ExpenseRows, new : ExpenseRows]
  <1>3. trail \in [Expenses -> Seq(T)] /\ told \in T
    BY <1>2 DEF OfficeInv, OfficeTypeOK
  <1> HIDE DEF T
  <1>4. trail' \in [Expenses -> Seq(T)] /\ \A e \in Expenses \ {a.x} : trail'[e] = trail[e]
    <2>1. CASE trail' = trail
      BY <1>3, <2>1
    <2>2. CASE trail' = [trail EXCEPT ![a.x] = Append(trail[a.x], told)]
      <3>1. PICK more : more = Append(trail[a.x], told)
        OBVIOUS
      <3>2. more \in Seq(T)
        BY <1>2, <1>3, <3>1
      <3>3. trail' = [trail EXCEPT ![a.x] = more]
        BY <2>2, <3>1
      <3>4. QED
        BY <1>2, <1>3, <3>2, <3>3
    <2>3. QED
      BY <1>1, <2>1, <2>2
  <1>5. OfficeTypeOK'
    BY <1>1, <1>2, <1>4 DEF OfficeInv, OfficeTypeOK, There, Shaped, T
  <1>6. \A v \in Users : UserInv(v)'
    BY <1>1, UserKept
  <1>7. LockInv'
    BY <1>1 DEF OfficeInv, LockInv
  <1>8. SumsInv'
    BY <1>1, SumsFrame DEF There
  <1>9. TrailInv'
    <2> SUFFICES ASSUME NEW e \in Expenses, e \notin tangled'
                 PROVE  /\ Chained(trail'[e])
                        /\ \/ (\A b \in untold' : b.x # e) /\ row[e] = LastOf(trail'[e])
                           \/ \E b \in untold' : /\ b.x = e /\ b.old = LastOf(trail'[e]) /\ b.new = row[e]
                                                 /\ \A c \in untold' : c.x = e => c = b
      BY <1>1 DEF TrailInv, LastOf, Chained
    <2>1. /\ Chained(trail[e])
          /\ \/ (\A b \in untold : b.x # e) /\ row[e] = LastOf(trail[e])
             \/ \E b \in untold : /\ b.x = e /\ b.old = LastOf(trail[e]) /\ b.new = row[e]
                                  /\ \A c \in untold : c.x = e => c = b
      BY <1>1 DEF OfficeInv, TrailInv
    <2>2. CASE e # a.x
      BY <1>1, <1>4, <2>1, <2>2
    <2>3. CASE e = a.x
      <3>1. /\ trail' = [trail EXCEPT ![a.x] = Append(trail[a.x], told)]
            /\ a.old = LastOf(trail[e]) /\ a.new = row[e] /\ \A c \in untold : c.x = e => c = a
        BY <1>1, <2>1, <2>3
      <3>a. PICK t \in Seq(T) : t = trail[e]
        BY <1>3
      <3>2. PICK more : t = trail[e] /\ more = Append(t, told) /\ more = trail'[e]
        BY <1>3, <2>3, <3>1, <3>a
      <3>3. /\ Len(t) \in Nat /\ more # <<>> /\ Len(more) = Len(t) + 1 /\ more[Len(t) + 1] = told
            /\ \A k \in 1..Len(t) : more[k] = t[k]
            /\ t = <<>> <=> Len(t) = 0
        <4>1. t \in Seq(T) /\ told \in T /\ more = Append(t, told)
          BY <1>3, <3>2
        <4>2. t = <<>> <=> Len(t) = 0
          BY <4>1
        <4>3. Len(t) \in Nat /\ Len(more) = Len(t) + 1 /\ more[Len(t) + 1] = told
          BY <4>1
        <4>4. \A k \in 1..Len(t) : more[k] = t[k]
          BY <4>1
        <4>5. more # <<>>
          BY <4>3
        <4>6. QED
          BY <4>2, <4>3, <4>4, <4>5
      <3>4. LastOf(more) = a.new
        BY <1>2, <3>3 DEF LastOf
      <3>5. Chained(more)
        <4> SUFFICES ASSUME NEW k \in 1..Len(more)
                     PROVE  more[k].old = IF k = 1 THEN None ELSE more[k - 1].new
          BY DEF Chained
        <4>1. CASE k \in 1..Len(t)
          <5>1. k # 1 => k - 1 \in 1..Len(t)
            BY <3>3, <4>1
          <5>2. QED
            BY <2>1, <3>2, <3>3, <4>1, <5>1 DEF Chained
        <4>2. CASE k = Len(t) + 1
          <5>1. k # 1 => Len(t) \in 1..Len(t) /\ k - 1 = Len(t) /\ t # <<>>
            BY <3>3, <4>2
          <5>2. k = 1 => t = <<>>
            BY <3>3, <4>2
          <5>3. more[k].old = LastOf(t)
            BY <1>2, <3>1, <3>2, <3>3, <4>2
          <5>4. QED
            BY <3>3, <5>1, <5>2, <5>3 DEF LastOf
        <4>3. QED
          BY <3>3, <4>1, <4>2
      <3>6. \A b \in untold' : b.x # e
        BY <1>1, <2>3, <3>1
      <3>7. QED
        BY <3>1, <3>2, <3>4, <3>5, <3>6
    <2>4. QED
      BY <2>2, <2>3
  <1>10. QED
    BY <1>5, <1>6, <1>7, <1>8, <1>9 DEF OfficeInv

LEMMA StutterKeeps == ASSUME OfficeInv, UNCHANGED officeVars PROVE OfficeInv'
  <1>1. UNCHANGED <<row, payments, lock, form, req, untold, trail, asked, moved, crossed, bulk, tangled>>
    BY DEF officeVars, rows, ghosts
  <1>2. OfficeTypeOK'
    BY <1>1 DEF OfficeInv, OfficeTypeOK, There, Shaped
  <1>3. \A v \in Users : UserInv(v)'
    BY <1>1, UserKept
  <1>4. LockInv'
    BY <1>1 DEF OfficeInv, LockInv
  <1>5. SumsInv' /\ TrailInv'
    BY <1>1, SumsFrame, TrailFrame DEF There
  <1>6. QED
    BY <1>2, <1>3, <1>4, <1>5 DEF OfficeInv

LEMMA NextKeeps == OfficeInv /\ [OfficeNext]_officeVars => OfficeInv'
  <1> SUFFICES ASSUME OfficeInv, [OfficeNext]_officeVars PROVE OfficeInv'
    OBVIOUS
  <1>1. ASSUME NEW u \in Users, OpenEdit(u) PROVE OfficeInv'
    BY <1>1, OpenEditKeeps
  <1>2. ASSUME NEW u \in Users, CreateSupplier(u) PROVE OfficeInv'
    BY <1>2, CreateSupplierKeeps
  <1>3. ASSUME NEW u \in Users, UpdateSupplier(u) PROVE OfficeInv'
    BY <1>3, UpdateSupplierKeeps
  <1>4. ASSUME NEW u \in Users, WriteSupplier(u) \/ WriteItem(u) PROVE OfficeInv'
    BY <1>4, EditsKeep
  <1>5. ASSUME NEW u \in Users,
               \/ DeleteSupplier(u) \/ ReactivateSupplier(u) \/ DeleteCustomer(u)
               \/ ReactivateCustomer(u) \/ DeleteItem(u) \/ ReactivateItem(u)
        PROVE  OfficeInv'
    BY <1>5, ArchiveKeeps
  <1>6. ASSUME NEW u \in Users, AddPayment(u) PROVE OfficeInv'
    BY <1>6, AddPaymentKeeps
  <1>7. ASSUME NEW u \in Users, InsertPayment(u) PROVE OfficeInv'
    BY <1>7, InsertPaymentKeeps
  <1>8. ASSUME NEW u \in Users, PaymentFails(u) PROVE OfficeInv'
    BY <1>8, PaymentFailsKeeps
  <1>9. ASSUME NEW u \in Users, CreateCustomer(u) \/ UpdateCustomer(u) PROVE OfficeInv'
    BY <1>9, CustomerAsksKeep
  <1>10. ASSUME NEW u \in Users, WriteCustomer(u) PROVE OfficeInv'
    <2>1. req[u].op = "create" \/ req[u].op = "edit"
      BY <1>10 DEF WriteCustomer
    <2>2. QED
      BY <1>10, <2>1, CreateCustomerWrites, EditsKeep
  <1>11. ASSUME NEW u \in Users, Lookup(u, "nid", "phone") \/ Lookup(u, "phone", "write") PROVE OfficeInv'
    BY <1>11, LookupKeeps
  <1>12. ASSUME NEW u \in Users, CreateItem(u) \/ BulkCreateItems(u) PROVE OfficeInv'
    BY <1>12, CreateItemKeeps
  <1>13. ASSUME NEW u \in Users, UpdateItem(u) PROVE OfficeInv'
    BY <1>13, UpdateItemKeeps
  <1>14. ASSUME NEW u \in Users, WriteActive(u) PROVE OfficeInv'
    BY <1>14, WriteActiveKeeps
  <1>15. ASSUME NEW u \in Users, CreateExpense(u) PROVE OfficeInv'
    BY <1>15, CreateExpenseKeeps
  <1>16. ASSUME NEW u \in Users, UpdateExpense(u) \/ DeleteExpense(u) PROVE OfficeInv'
    BY <1>16, ExpenseAsksKeep
  <1>17. ASSUME NEW u \in Users, SaveExpense(u) \/ RemoveExpense(u) PROVE OfficeInv'
    BY <1>17, ExpenseWritesKeep
  <1>18. ASSUME NEW g \in Goods, Sell(g) PROVE OfficeInv'
    BY <1>18, SellKeeps
  <1>19. CASE WriteExpenseAudit
    BY <1>19, WriteAuditKeeps
  <1>20. CASE UNCHANGED officeVars
    BY <1>20, StutterKeeps
  <1>21. QED
    BY <1>1, <1>2, <1>3, <1>4, <1>5, <1>6, <1>7, <1>8, <1>9, <1>10, <1>11, <1>12, <1>13, <1>14, <1>15,
       <1>16, <1>17, <1>18, <1>19, <1>20 DEF OfficeNext

-----------------------------------------------------------------------------
(* What holds of every behaviour.                                           *)

\* The inductive invariant: what each request has read, what each form shows, the
\* sums of the payments and the chains of the expense trails.
THEOREM OfficeInvariance == OfficeSpec => []OfficeInv
  BY OfficeInitInv, NextKeeps, PTL DEF OfficeSpec

\* The rows, the forms, the requests and the trails stay in their domains, and no
\* supplier is paid more than it is owed.
THEOREM OfficeTypeCorrect == OfficeSpec => []OfficeTypeOK
  <1>1. OfficeInv => OfficeTypeOK
    BY DEF OfficeInv
  <1>2. QED
    BY <1>1, OfficeInvariance, PTL

\* However payments, edits and archivings of a supplier cross, what it was paid is the
\* sum of its payment rows, for any number of them, and never more than is owed.
THEOREM PaidWhatIsOwed == OfficeSpec => []PaymentsMatchPaid
  <1>1. OfficeInv => PaymentsMatchPaid
    <2> SUFFICES ASSUME OfficeInv, NEW s \in ListSuppliers(TRUE)
                 PROVE  row[s].paid = PaidTo(s) /\ Balance(s) >= 0
      BY DEF PaymentsMatchPaid
    <2>1. s \in Suppliers /\ There(s) /\ s \in Rows
      BY DEF ListSuppliers, Rows
    <2>2. Shaped(s) /\ s \notin Customers \cup Goods \cup Expenses
      BY <2>1, RowsThere, BackOfficeAssumption
    <2>3. row[s].paid \in Nat /\ row[s].due \in Nat /\ row[s].paid <= row[s].due
      BY <2>2, SupplierRowHas DEF Shaped
    <2>4. PaidTo(s) = row[s].paid
      BY <2>1 DEF OfficeInv, SumsInv
    <2>5. QED
      BY <2>3, <2>4 DEF Balance
  <1>2. QED
    BY <1>1, OfficeInvariance, PTL

\* The audit rows of an expense tell its whole story, unless one was lost or is yet to
\* come, or two of its writes crossed.
THEOREM TrailIsAChain == OfficeSpec => []TrailTellsExpenses
  <1>1. OfficeInv => TrailTellsExpenses
    <2> SUFFICES ASSUME OfficeInv, NEW e \in Expenses \ tangled, \A a \in untold : a.x # e
                 PROVE  /\ row[e] = IF trail[e] = <<>> THEN None ELSE trail[e][Len(trail[e])].new
                        /\ \A k \in 1..Len(trail[e]) :
                             trail[e][k].old = IF k = 1 THEN None ELSE trail[e][k - 1].new
      BY DEF TrailTellsExpenses
    <2>1. QED
      BY DEF OfficeInv, TrailInv, LastOf, Chained
  <1>2. QED
    BY <1>1, OfficeInvariance, PTL

-----------------------------------------------------------------------------
(* What a step may do.                                                      *)

\* A request ends by a write of its user, or no row changes.
LEMMA WriteEndsOne ==
  ASSUME OfficeInv, NEW u \in Users, NEW v \in Users, NEW x, NEW image, Write(v, x, image),
         req'[u] # req[u]
  PROVE  u = v
  BY DEF Write, OfficeInv, OfficeTypeOK

LEMMA RequestEnds ==
  ASSUME OfficeInv, NEW u \in Users, [OfficeNext]_officeVars, req'[u] # req[u]
  PROVE  \/ req[u] = NoReq \/ UNCHANGED row
         \/ WriteSupplier(u) \/ WriteActive(u) \/ InsertPayment(u) \/ WriteCustomer(u) \/ WriteItem(u)
         \/ SaveExpense(u) \/ RemoveExpense(u)
  <1> DEFINE Goal == \/ req[u] = NoReq \/ UNCHANGED row
                     \/ WriteSupplier(u) \/ WriteActive(u) \/ InsertPayment(u) \/ WriteCustomer(u)
                     \/ WriteItem(u) \/ SaveExpense(u) \/ RemoveExpense(u)
  <1>1. ASSUME NEW v \in Users, OpenEdit(v) PROVE Goal
    BY <1>1 DEF OpenEdit, OpenForm, rows
  <1>2. ASSUME NEW v \in Users,
               CreateSupplier(v) \/ CreateItem(v) \/ BulkCreateItems(v) \/ CreateExpense(v)
        PROVE  Goal
    <2>1. PICK x, image : Insert(v, x, image)
      BY <1>2 DEF CreateSupplier, CreateItem, BulkCreateItems, CreateExpense
    <2>2. req[v] = NoReq /\ Write(v, x, image)
      BY <2>1 DEF Insert
    <2>3. QED
      BY <2>2, WriteEndsOne
  <1>3. ASSUME NEW v \in Users,
               \/ UpdateSupplier(v) \/ CreateCustomer(v) \/ UpdateCustomer(v) \/ UpdateItem(v)
               \/ UpdateExpense(v) \/ DeleteExpense(v)
               \/ DeleteSupplier(v) \/ ReactivateSupplier(v) \/ DeleteCustomer(v)
               \/ ReactivateCustomer(v) \/ DeleteItem(v) \/ ReactivateItem(v)
        PROVE  Goal
    BY <1>3 DEF UpdateSupplier, CreateCustomer, UpdateCustomer, UpdateItem, SendItem, UpdateExpense, DeleteExpense,
                DeleteSupplier, ReactivateSupplier, DeleteCustomer, ReactivateCustomer, DeleteItem,
                ReactivateItem, AskActive, Ask, rows
  <1>4. ASSUME NEW v \in Users, AddPayment(v) \/ PaymentFails(v) PROVE Goal
    BY <1>4 DEF AddPayment, PaymentFails
  <1>5. ASSUME NEW v \in Users, Lookup(v, "nid", "phone") \/ Lookup(v, "phone", "write") PROVE Goal
    BY <1>5 DEF Lookup, Refuse, Proceed, rows
  <1>6. ASSUME NEW v \in Users,
               \/ WriteSupplier(v) \/ WriteActive(v) \/ InsertPayment(v) \/ WriteCustomer(v) \/ WriteItem(v)
        PROVE  Goal
    <2>1. \E x, image : Write(v, x, image)
      BY <1>6 DEF WriteSupplier, WriteActive, InsertPayment, WriteCustomer, WriteItem
    <2>2. u = v
      BY <2>1, WriteEndsOne
    <2>3. QED
      BY <1>6, <2>2
  <1>7. ASSUME NEW v \in Users, SaveExpense(v) \/ RemoveExpense(v) PROVE Goal
    <2>1. (\E x, image : Write(v, x, image)) \/ UNCHANGED row
      BY <1>7 DEF SaveExpense, RemoveExpense, WriteExpense, Refuse, rows
    <2>2. CASE UNCHANGED row
      BY <2>2
    <2>3. CASE \E x, image : Write(v, x, image)
      <3>1. u = v
        BY <2>3, WriteEndsOne
      <3>2. QED
        BY <1>7, <3>1
    <2>4. QED
      BY <2>1, <2>2, <2>3
  <1>8. ASSUME (\E g \in Goods : Sell(g)) \/ WriteExpenseAudit \/ UNCHANGED officeVars PROVE Goal
    BY <1>8 DEF Sell, WriteExpenseAudit, officeVars
  <1> HIDE DEF Goal
  <1>9. Goal
    BY <1>1, <1>2, <1>3, <1>4, <1>5, <1>6, <1>7, <1>8 DEF OfficeNext
  <1>10. QED
    BY <1>9 DEF Goal

\* A sold unit is edited only by a request that the sale came across.
THEOREM SoldEditsRace == OfficeSpec => SoldEditedOnlyByRace
  <1> DEFINE P == \A u \in Users : req[u].op = "edit" /\ req[u].x \in Goods /\ row'[req[u].x] # row[req[u].x]
                      /\ row[req[u].x].sold => u \in crossed
  <1>1. OfficeInv => P
    <2> SUFFICES ASSUME OfficeInv, NEW u \in Users, req[u].op = "edit", req[u].x \in Goods,
                        row[req[u].x].sold, u \notin crossed
                 PROVE  FALSE
      OBVIOUS
    <2>1. HasRead(u) /\ req[u] # NoReq
      BY NoneIsNone DEF OfficeInv, UserInv
    <2>2. QED
      BY <2>1 DEF HasRead
  <1>2. OfficeInv /\ [OfficeNext]_officeVars => [P]_officeVars
    BY <1>1
  <1>3. QED
    BY <1>2, OfficeInvariance, PTL DEF OfficeSpec, SoldEditedOnlyByRace

\* Two active customers come to share a phone or a national id only by a race or by a
\* reactivation.
THEOREM DuplicatesNeedARace == OfficeSpec => DuplicatesByRaceOrReactivation
  <1> DEFINE P == \A u \in Users, c \in Customers :
                    req[u].x = c /\ row'[c] # row[c] /\ req'[u] # req[u] /\ req[u].op # "active" /\ u \notin crossed =>
                      \A f \in {"phone", "nid"} : row'[c][f] # Blank =>
                        \A d \in Customers \ {c} : ~(Active(d) /\ row[d][f] = row'[c][f])
  <1>1. OfficeInv /\ [OfficeNext]_officeVars => P
    <2> SUFFICES ASSUME OfficeInv, [OfficeNext]_officeVars, NEW u \in Users, NEW c \in Customers,
                        req[u].x = c, row'[c] # row[c], req'[u] # req[u], req[u].op # "active", u \notin crossed,
                        NEW f \in {"phone", "nid"}, row'[c][f] # Blank, NEW d \in Customers \ {c},
                        Active(d), row[d][f] = row'[c][f]
                 PROVE  FALSE
      OBVIOUS
    <2>1. c \in Rows /\ c \notin Suppliers /\ c \notin Goods /\ c \notin Expenses /\ req[u] # NoReq
      BY NoneIsNone, BackOfficeAssumption DEF Rows
    <2>2. Asked(u) /\ LookedUp(u)
      BY DEF OfficeInv, UserInv
    <2>3. req[u].op \in {"create", "edit"} /\ DOMAIN req[u].body = CustomerFields
      BY <2>1, <2>2 DEF Asked
    <2>4. WriteCustomer(u)
      BY <2>1, <2>3, RequestEnds DEF WriteSupplier, WriteActive, InsertPayment, WriteItem, SaveExpense,
         RemoveExpense, WriteExpense
    <2>5. PICK image : /\ image = IF req[u].op = "create" THEN Over([active |-> TRUE], req[u].body)
                                                      ELSE Over(req[u].body, row[c])
                       /\ Write(u, c, image)
      BY <2>4 DEF WriteCustomer
    <2>6. row'[c] = image
      BY <2>1, <2>5 DEF Write, OfficeInv, OfficeTypeOK
    <2>7. image[f] = req[u].body[f]
      <3>1. PICK body : body = req[u].body
        OBVIOUS
      <3>2. f \in DOMAIN body /\ f # "active"
        BY <2>3, <3>1 DEF CustomerFields
      <3>3. Over(body, row[c])[f] = body[f] /\ Over([active |-> TRUE], body)[f] = body[f]
        BY <3>2 DEF Over
      <3>4. QED
        BY <2>5, <3>1, <3>3
    <2>8. ~Taken(c, f, req[u].body[f])
      BY <2>2, <2>3, <2>4 DEF LookedUp, WriteCustomer
    <2>9. QED
      BY <2>6, <2>7, <2>8 DEF Taken
  <1>2. OfficeInv /\ [OfficeNext]_officeVars => [P]_officeVars
    BY <1>1
  <1>3. QED
    BY <1>2, OfficeInvariance, PTL DEF OfficeSpec, DuplicatesByRaceOrReactivation

\* An edit of a row nobody wrote since the form was opened changes only the fields its
\* user typed in, and what Unbidden names: STAFF's hidden national id, the units and the
\* colour of a retyped form, and no unit.
THEOREM EditsKeepTheRest == OfficeSpec => EditKeepsTheRest
  <1> DEFINE P == \A u \in Users : req[u].op = "edit" /\ req'[u] = NoReq /\ There(req[u].x) /\ u \notin moved =>
       LET x == req[u].x
       IN  \A f \in DOMAIN form[u].copy :
             row'[x] # None /\ row'[x][f] # row[x][f] => f \in req[u].typed \/ Unbidden(u, f, req[u].typed)
  <1>1. OfficeInv /\ [OfficeNext]_officeVars => P
    <2> SUFFICES ASSUME OfficeInv, [OfficeNext]_officeVars, NEW u \in Users, req[u].op = "edit", req'[u] = NoReq,
                        There(req[u].x), u \notin moved, NEW f \in DOMAIN form[u].copy,
                        row'[req[u].x][f] # row[req[u].x][f],
                        f \notin req[u].typed, ~Unbidden(u, f, req[u].typed)
                 PROVE  FALSE
      OBVIOUS
    <2>1. req[u] # NoReq /\ req'[u] # req[u]
      BY NoneIsNone
    <2>2. Asked(u) /\ Filled(u) /\ Untouched(u)
      BY DEF OfficeInv, UserInv
    <2>3. PICK x : x = req[u].x
      OBVIOUS
    <2>4. form[u].x = x /\ x \in Rows /\ form[u] # NoForm
      BY <2>1, <2>2, <2>3, NoneIsNone DEF Asked, Rows
    <2>5. DOMAIN form[u].copy = Fields(x) /\ form[u].copy[f] = row[x][f]
      BY <2>2, <2>4 DEF Filled, Shows, Unbidden
    <2>a. f \in DOMAIN req[u].body => req[u].body[f] = form[u].copy[f]
      BY <2>2 DEF Untouched, AsFilled
    <2>6. WriteSupplier(u) \/ WriteCustomer(u) \/ WriteItem(u) \/ SaveExpense(u)
      BY <2>1, RequestEnds DEF WriteActive, InsertPayment, RemoveExpense, WriteExpense
    <2>7. \/ x \notin Expenses /\ Write(u, x, Over(req[u].body, row[x]))
          \/ x \in Expenses /\ Write(u, x, req[u].body) /\ DOMAIN req[u].body = {"amount"}
      <3>1. CASE x \notin Expenses
        BY <2>3, <2>6, <3>1 DEF WriteSupplier, WriteCustomer, WriteItem, SaveExpense, WriteExpense
      <3>2. CASE x \in Expenses
        <4>1. x \notin Suppliers \cup Customers \cup Goods
          BY <3>2, BackOfficeAssumption
        <4>2. SaveExpense(u)
          BY <2>3, <2>6, <4>1 DEF WriteSupplier, WriteCustomer, WriteItem
        <4>3. Write(u, x, req[u].body)
          BY <2>3, <4>2 DEF SaveExpense, WriteExpense
        <4>4. DOMAIN req[u].body = {"amount"}
          BY <2>1, <2>2, <2>3, <3>2, <4>1 DEF Asked
        <4>5. QED
          BY <3>2, <4>3, <4>4
      <3>3. QED
        BY <3>1, <3>2
    <2>8. CASE x \in Expenses
      <3>1. row'[x] = req[u].body /\ f = "amount"
        <4>1. x \notin Suppliers \cup Customers \cup Goods
          BY <2>8, BackOfficeAssumption
        <4>2. QED
          BY <2>4, <2>5, <2>7, <2>8, <4>1 DEF Write, OfficeInv, OfficeTypeOK, Fields
      <3>2. QED
        BY <2>3, <2>5, <2>7, <2>8, <2>a, <3>1
    <2>9. CASE x \notin Expenses
      <3>1. PICK image : image = Over(req[u].body, row[x]) /\ Write(u, x, image)
        BY <2>7, <2>9
      <3>2. row'[x] = image
        BY <2>4, <3>1 DEF Write, OfficeInv, OfficeTypeOK
      <3>3. PICK body : body = req[u].body
        OBVIOUS
      <3>4. f \in DOMAIN row[x]
        <4>1. Shaped(x) /\ f \in Fields(x)
          BY <2>3, <2>4, <2>5, RowsThere
        <4>2. QED
          BY <2>4, <2>9, <4>1, FieldsAre, BackOfficeAssumption
             DEF Shaped, SupplierRows, SupplierFields, Rows
      <3>5. image = Over(body, row[x])
        BY <3>1, <3>3
      <3>6. /\ f \in DOMAIN body => image[f] = body[f]
            /\ f \notin DOMAIN body => image[f] = row[x][f]
        BY <3>4, <3>5 DEF Over
      <3>7. QED
        BY <2>3, <2>5, <2>a, <3>2, <3>3, <3>6
    <2>10. QED
      BY <2>8, <2>9
  <1>2. OfficeInv /\ [OfficeNext]_officeVars => [P]_officeVars
    BY <1>1
  <1>3. QED
    BY <1>2, OfficeInvariance, PTL DEF OfficeSpec, EditKeepsTheRest
=============================================================================
