----------------------------- MODULE StockProofs -----------------------------
(***************************************************************************)
(* Theorems about StockTransactions for every set of rows, invoices,       *)
(* cancellations and edits.  The argument: IInv is inductive (a            *)
(* transaction holds exactly the rows of the lines behind it, and what it  *)
(* wrote is computed from the committed row, which cannot change while it  *)
(* is held); at a commit IInv makes the published rows one ledger step.    *)
(***************************************************************************)
EXTENDS StockTransactions, TLAPS

\* The lines of a transaction are rows, and a sale and the cancellations of it
\* go through the same ones.
LEMMA LinesAreRows ==
  ASSUME NEW t \in Tx
  PROVE  /\ LinesOf(t) \in Seq(Items)
         /\ Len(LinesOf(t)) \in Nat
         /\ \A k \in 1..Len(LinesOf(t)) : LinesOf(t)[k] \in Items
  <1>1. LinesOf(t) \in Seq(Items)
    BY OrderAssumption, RequestAssumption DEF LinesOf, Tx
  <1>2. QED
    BY <1>1

LEMMA QuantitiesAreNats ==
  ASSUME IInv, NEW s \in Sales, NEW i \in Items
  PROVE  Want[s][i] \in Nat /\ row[i].qty \in Nat
  <1>1. Want[s] \in [Items -> Nat]
    BY OrderAssumption
  <1>2. row[i] \in [qty : Nat, status : StockStatus]
    BY DEF IInv, TypeOK, Row
  <1>3. QED
    BY <1>1, <1>2

LEMMA InitIInv == Init => IInv
  <1> SUFFICES ASSUME Init PROVE IInv
    OBVIOUS
  <1> USE RequestAssumption DEF Init, Requests, Tx
  <1>1. TypeOK
    <2>1. row \in [Items -> Row]
      BY DEF Row
    <2>2. draft \in [Items -> Row]
      BY DEF NoDraft, Row, StockStatus
    <2>3. QED
      BY <2>1, <2>2 DEF TypeOK, Finished, SaleStatus
  <1>2. PhaseInv
    BY DEF PhaseInv
  <1>3. LineInv
    <2> SUFFICES ASSUME NEW t \in Tx
                 PROVE  line[t] <= Len(LinesOf(t)) + 1 /\ line[t] = 1
      BY DEF LineInv
    <2>1. QED
      BY LinesAreRows
  <1>4. LockInv
    BY DEF LockInv, Busy
  <1>5. SaleDraftInv /\ CancelDraftInv
    BY DEF SaleDraftInv, CancelDraftInv
  <1>6. InvoiceInv /\ CancelInv /\ LiveInv
    BY DEF InvoiceInv, CancelInv, LiveInv
  <1>7. QED
    BY <1>1, <1>2, <1>3, <1>4, <1>5, <1>6 DEF IInv

LEMMA CheckAvailabilityKeeps ==
  ASSUME IInv, NEW s \in Sales, CheckAvailability(s)
  PROVE  IInv'
  <1> USE RequestAssumption
          DEF IInv, Tx, Requests, Goto, stockVars, saleVars, numVars, CheckAvailability
  <1>1. TypeOK'
    BY DEF TypeOK, Finished
  <1>2. PhaseInv'
    BY DEF PhaseInv, TypeOK
  <1>3. LineInv'
    BY DEF LineInv, Busy, TypeOK, Finished
  <1>4. LockInv'
    BY DEF LockInv, Busy, Held, TypeOK, PhaseInv
  <1>5. SaleDraftInv'
    BY DEF SaleDraftInv
  <1>6. CancelDraftInv'
    BY DEF CancelDraftInv
  <1>7. InvoiceInv'
    BY DEF InvoiceInv, TypeOK
  <1>8. CancelInv'
    BY DEF CancelInv, TypeOK, PhaseInv, LiveInv
  <1>9. LiveInv'
    BY DEF LiveInv, CancelInv, TypeOK
  <1>10. QED
    BY <1>1, <1>2, <1>3, <1>4, <1>5, <1>6, <1>7, <1>8, <1>9

LEMMA TakeNumberKeeps ==
  ASSUME IInv, NEW s \in Sales, TakeNumber(s)
  PROVE  IInv'
  <1> USE RequestAssumption
          DEF IInv, Tx, Requests, Goto, stockVars, saleVars, numVars, TakeNumber
  <1>1. TypeOK'
    <2>1. NextNumbers \subseteq Nat
      BY DEF TypeOK, NextNumbers, LastSales, Invoiced
    <2>2. QED
      BY <2>1 DEF TypeOK
  <1>2. PhaseInv'
    BY DEF PhaseInv, TypeOK
  <1>3. LineInv'
    BY DEF LineInv, Busy, TypeOK, Finished
  <1>4. LockInv'
    BY DEF LockInv, Busy, Held, TypeOK, PhaseInv
  <1>5. SaleDraftInv'
    BY DEF SaleDraftInv
  <1>6. CancelDraftInv'
    BY DEF CancelDraftInv
  <1>7. InvoiceInv'
    BY DEF InvoiceInv, TypeOK
  <1>8. CancelInv'
    BY DEF CancelInv, TypeOK, PhaseInv, LiveInv
  <1>9. LiveInv'
    BY DEF LiveInv, CancelInv, TypeOK
  <1>10. QED
    BY <1>1, <1>2, <1>3, <1>4, <1>5, <1>6, <1>7, <1>8, <1>9

LEMMA InsertSaleKeeps ==
  ASSUME IInv, NEW s \in Sales, InsertSale(s)
  PROVE  IInv'
  <1> USE RequestAssumption
          DEF IInv, Tx, Requests, Goto, stockVars, saleVars, numVars, InsertSale
  <1>1. TypeOK'
    BY DEF TypeOK, Finished
  <1>2. PhaseInv'
    BY DEF PhaseInv, TypeOK
  <1>3. LineInv'
    BY DEF LineInv, Busy, TypeOK, Finished
  <1>4. LockInv'
    <2>1. \A t \in Tx : Held(t)' = Held(t)
      BY DEF Held, LinesOf
    <2>2. ~Busy(s) /\ line[s] = 1
      BY DEF LineInv, Busy, Finished, TypeOK
    <2>3. Held(s) = {}
      BY <2>2 DEF Held
    <2>4. \A t \in Tx : t # s => Busy(t)' = Busy(t)
      BY DEF Busy, TypeOK
    <2>5. QED
      BY <2>1, <2>2, <2>3, <2>4 DEF LockInv
  <1>5. SaleDraftInv'
    BY DEF SaleDraftInv
  <1>6. CancelDraftInv'
    BY DEF CancelDraftInv
  <1>7. InvoiceInv'
    BY DEF InvoiceInv, TypeOK
  <1>8. CancelInv'
    BY DEF CancelInv, TypeOK, PhaseInv, LiveInv
  <1>9. LiveInv'
    BY DEF LiveInv, CancelInv, TypeOK
  <1>10. QED
    BY <1>1, <1>2, <1>3, <1>4, <1>5, <1>6, <1>7, <1>8, <1>9

LEMMA ReadSaleKeeps ==
  ASSUME IInv, NEW c \in Cancels, ReadSale(c)
  PROVE  IInv'
  <1> USE RequestAssumption
          DEF IInv, Tx, Requests, Goto, stockVars, saleVars, numVars, ReadSale
  <1>1. TypeOK'
    BY DEF TypeOK, Finished
  <1>2. PhaseInv'
    BY DEF PhaseInv, TypeOK
  <1>3. LineInv'
    BY DEF LineInv, Busy, TypeOK, Finished
  <1>4. LockInv'
    BY DEF LockInv, Busy, Held, TypeOK, PhaseInv
  <1>5. SaleDraftInv'
    BY DEF SaleDraftInv
  <1>6. CancelDraftInv'
    BY DEF CancelDraftInv
  <1>7. InvoiceInv'
    BY DEF InvoiceInv, TypeOK
  <1>8. CancelInv'
    BY DEF CancelInv, TypeOK, PhaseInv, LiveInv
  <1>9. LiveInv'
    BY DEF LiveInv, CancelInv, TypeOK
  <1>10. QED
    BY <1>1, <1>2, <1>3, <1>4, <1>5, <1>6, <1>7, <1>8, <1>9

LEMMA ClaimCancelKeeps ==
  ASSUME IInv, NEW c \in Cancels, ClaimCancel(c)
  PROVE  IInv'
  <1> USE RequestAssumption
          DEF IInv, Tx, Requests, Goto, stockVars, saleVars, numVars, ClaimCancel
  <1>1. TypeOK'
    BY DEF TypeOK, Finished
  <1>2. PhaseInv'
    BY DEF PhaseInv, TypeOK
  <1>3. LineInv'
    BY ZenonT(60) DEF LineInv, Busy, TypeOK, Finished
  <1>4. LockInv'
    <2>1. \A t \in Tx : Held(t)' = Held(t)
      BY DEF Held, LinesOf
    <2>2. ~Busy(c) /\ line[c] = 1
      BY DEF LineInv, Busy, Finished, TypeOK
    <2>3. Held(c) = {}
      BY <2>2 DEF Held
    <2>4. \A t \in Tx : t # c => Busy(t)' = Busy(t)
      BY DEF Busy, TypeOK
    <2>5. QED
      BY <2>1, <2>2, <2>3, <2>4 DEF LockInv
  <1>5. SaleDraftInv'
    BY DEF SaleDraftInv
  <1>6. CancelDraftInv'
    BY DEF CancelDraftInv
  <1>7. InvoiceInv'
    BY DEF InvoiceInv, TypeOK
  <1>8. CancelInv'
    BY DEF CancelInv, TypeOK, PhaseInv, LiveInv
  <1>9. LiveInv'
    BY DEF LiveInv, CancelInv, TypeOK
  <1>10. QED
    BY <1>1, <1>2, <1>3, <1>4, <1>5, <1>6, <1>7, <1>8, <1>9

LEMMA ReadItemKeeps ==
  ASSUME IInv, NEW e \in Edits, ReadItem(e)
  PROVE  IInv'
  <1> USE RequestAssumption
          DEF IInv, Tx, Requests, Goto, stockVars, saleVars, numVars, ReadItem
  <1>1. TypeOK'
    BY DEF TypeOK, Finished
  <1>2. PhaseInv'
    BY DEF PhaseInv, TypeOK
  <1>3. LineInv'
    BY DEF LineInv, Busy, TypeOK, Finished
  <1>4. LockInv'
    BY DEF LockInv, Busy, Held, TypeOK, PhaseInv
  <1>5. SaleDraftInv'
    BY DEF SaleDraftInv
  <1>6. CancelDraftInv'
    BY DEF CancelDraftInv
  <1>7. InvoiceInv'
    BY DEF InvoiceInv, TypeOK
  <1>8. CancelInv'
    BY DEF CancelInv, TypeOK, PhaseInv, LiveInv
  <1>9. LiveInv'
    BY DEF LiveInv, CancelInv, TypeOK
  <1>10. QED
    BY <1>1, <1>2, <1>3, <1>4, <1>5, <1>6, <1>7, <1>8, <1>9

\* A transaction's UPDATE of its next line: the row was free, so no other
\* transaction is past that line.
LEMMA ClaimLineKeeps ==
  ASSUME IInv, NEW s \in Sales, ClaimLine(s)
  PROVE  IInv'
  <1> USE RequestAssumption DEF IInv, Tx, Requests
  <1> DEFINE i == Lines[s][line[s]]
  <1> DEFINE left == row[i].qty - Want[s][i]
  <1> DEFINE image == [qty |-> left, status |-> IF left = 0 THEN "SOLD" ELSE "IN_STOCK"]
  <1>1. i \in Items /\ line[s] \in 1..Len(Lines[s]) /\ LinesOf(s) = Lines[s]
    BY LinesAreRows DEF ClaimLine, LinesOf, TypeOK
  <1>2. /\ pc[s] = "claiming" /\ Claimable(s, i) /\ rowLock[i] = NoTx
        /\ rowLock' = [rowLock EXCEPT ![i] = s]
        /\ draft' = [draft EXCEPT ![i] = image]
        /\ line' = [line EXCEPT ![s] = line[s] + 1]
        /\ UNCHANGED <<row, advisory, invoice, createdAt, clock, pc, saleStatus, saleLock>>
    BY DEF ClaimLine, WriteRow, saleVars, numVars
  <1>3. /\ Want[s][i] \in Nat /\ row[i].qty \in Nat
        /\ Want[s][i] <= row[i].qty /\ row[i].status = "IN_STOCK"
    BY <1>1, <1>2, QuantitiesAreNats DEF Claimable
  <1>4. left \in Nat
    BY <1>3
  <1>5. /\ image \in Row /\ image.qty = row[i].qty - Want[s][i]
        /\ image.status = IF image.qty = 0 THEN "SOLD" ELSE "IN_STOCK"
    BY <1>4 DEF Row, StockStatus
  <1> HIDE DEF i, left, image
  <1>6. TypeOK'
    BY <1>1, <1>2, <1>5 DEF TypeOK
  <1>7. PhaseInv' /\ InvoiceInv' /\ CancelInv' /\ LiveInv'
    BY <1>2 DEF PhaseInv, InvoiceInv, CancelInv, LiveInv
  <1>8. LineInv'
    <2> SUFFICES ASSUME NEW t \in Tx
                 PROVE  /\ line'[t] <= Len(LinesOf(t)) + 1
                        /\ ~Busy(t)' /\ pc'[t] \notin Finished => line'[t] = 1
      BY DEF LineInv, LinesOf
    <2>1. CASE t = s
      BY <2>1, <1>1, <1>2, LinesAreRows DEF TypeOK, Busy
    <2>2. CASE t # s
      BY <2>2, <1>2 DEF TypeOK, Busy, LineInv
    <2>3. QED
      BY <2>1, <2>2
  <1>9. LockInv'
    <2>1. Held(s)' = Held(s) \cup {i}
      BY <1>1, <1>2 DEF Held, TypeOK, i, LinesOf
    <2>2. \A t \in Tx : t # s => Held(t)' = Held(t)
      BY <1>2 DEF Held, TypeOK, LinesOf
    <2>3. \A t \in Tx : Busy(t)' = Busy(t)
      BY <1>2 DEF Busy
    <2>4. \A j \in Items : rowLock'[j] = s <=> rowLock[j] = s \/ j = i
      BY <1>1, <1>2 DEF TypeOK
    <2>5. \A t \in Tx, j \in Items : t # s => (rowLock'[j] = t <=> rowLock[j] = t)
      BY <1>1, <1>2 DEF TypeOK
    <2>6. Busy(s)
      BY <1>2 DEF Busy
    <2>7. QED
      BY <2>1, <2>2, <2>3, <2>4, <2>5, <2>6 DEF LockInv
  <1>10. SaleDraftInv'
    <2> SUFFICES ASSUME NEW u \in Sales, NEW j \in Items, rowLock'[j] = u
                 PROVE  /\ row[j].status = "IN_STOCK"
                        /\ Want[u][j] <= row[j].qty
                        /\ draft'[j].qty = row[j].qty - Want[u][j]
                        /\ draft'[j].status = IF draft'[j].qty = 0 THEN "SOLD" ELSE "IN_STOCK"
      BY <1>2 DEF SaleDraftInv
    <2>1. CASE j = i
      BY <2>1, <1>1, <1>2, <1>3, <1>5 DEF TypeOK
    <2>2. CASE j # i
      BY <2>2, <1>2 DEF SaleDraftInv, TypeOK
    <2>3. QED
      BY <2>1, <2>2
  <1>11. CancelDraftInv'
    BY <1>1, <1>2 DEF CancelDraftInv, TypeOK
  <1>12. QED
    BY <1>6, <1>7, <1>8, <1>9, <1>10, <1>11

LEMMA RestoreLineKeeps ==
  ASSUME IInv, NEW c \in Cancels, RestoreLine(c)
  PROVE  IInv'
  <1> USE RequestAssumption DEF IInv, Tx, Requests
  <1> DEFINE s == CancelOf[c]
  <1> DEFINE i == Lines[s][line[c]]
  <1> DEFINE image == [qty |-> row[i].qty + Want[s][i], status |-> "IN_STOCK"]
  <1>1. s \in Sales /\ i \in Items /\ line[c] \in 1..Len(Lines[s]) /\ LinesOf(c) = Lines[s]
    BY LinesAreRows DEF RestoreLine, LinesOf, TypeOK
  <1>2. /\ pc[c] = "restoring" /\ rowLock[i] = NoTx
        /\ rowLock' = [rowLock EXCEPT ![i] = c]
        /\ draft' = [draft EXCEPT ![i] = image]
        /\ line' = [line EXCEPT ![c] = line[c] + 1]
        /\ UNCHANGED <<row, advisory, invoice, createdAt, clock, pc, saleStatus, saleLock>>
    BY DEF RestoreLine, WriteRow, saleVars, numVars
  <1>3. Want[s][i] \in Nat /\ row[i].qty \in Nat
    BY <1>1, QuantitiesAreNats
  <1>4. image \in Row /\ image = [qty |-> row[i].qty + Want[CancelOf[c]][i], status |-> "IN_STOCK"]
    BY <1>3 DEF Row, StockStatus
  <1> HIDE DEF i, s, image
  <1>5. TypeOK'
    BY SMTT(30), <1>1, <1>2, <1>4 DEF TypeOK
  <1>6. PhaseInv' /\ InvoiceInv' /\ CancelInv' /\ LiveInv'
    BY <1>2 DEF PhaseInv, InvoiceInv, CancelInv, LiveInv
  <1>7. LineInv'
    <2> SUFFICES ASSUME NEW t \in Tx
                 PROVE  /\ line'[t] <= Len(LinesOf(t)) + 1
                        /\ ~Busy(t)' /\ pc'[t] \notin Finished => line'[t] = 1
      BY DEF LineInv, LinesOf
    <2>1. CASE t = c
      BY <2>1, <1>1, <1>2, LinesAreRows DEF TypeOK, Busy
    <2>2. CASE t # c
      BY <2>2, <1>2 DEF TypeOK, Busy, LineInv
    <2>3. QED
      BY <2>1, <2>2
  <1>8. LockInv'
    <2>1. Held(c)' = Held(c) \cup {i}
      <3>1. LinesOf(c)' = LinesOf(c) /\ LinesOf(c)[line[c]] = i
        BY <1>1 DEF LinesOf, i
      <3>2. line[c] \in Nat \ {0} /\ line'[c] = line[c] + 1
        BY <1>2 DEF TypeOK
      <3>3. QED
        BY <3>1, <3>2 DEF Held
    <2>2. \A t \in Tx : t # c => Held(t)' = Held(t)
      BY <1>2 DEF Held, TypeOK, LinesOf
    <2>3. \A t \in Tx : Busy(t)' = Busy(t)
      BY <1>2 DEF Busy
    <2>4. \A j \in Items : rowLock'[j] = c <=> rowLock[j] = c \/ j = i
      BY <1>1, <1>2 DEF TypeOK
    <2>5. \A t \in Tx, j \in Items : t # c => (rowLock'[j] = t <=> rowLock[j] = t)
      BY <1>1, <1>2 DEF TypeOK
    <2>6. Busy(c)
      BY <1>2 DEF Busy
    <2>7. QED
      BY <2>1, <2>2, <2>3, <2>4, <2>5, <2>6 DEF LockInv
  <1>9. SaleDraftInv'
    BY SMTT(30), <1>1, <1>2 DEF SaleDraftInv, TypeOK
  <1>10. CancelDraftInv'
    <2> SUFFICES ASSUME NEW d \in Cancels, NEW j \in Items, rowLock'[j] = d
                 PROVE  draft'[j] = [qty    |-> row[j].qty + Want[CancelOf[d]][j],
                                     status |-> "IN_STOCK"]
      BY SMTT(30), <1>2 DEF CancelDraftInv
    <2>1. CASE j = i
      BY <2>1, <1>1, <1>2, <1>4 DEF TypeOK
    <2>2. CASE j # i
      BY <2>2, <1>2 DEF CancelDraftInv, TypeOK
    <2>3. QED
      BY <2>1, <2>2
  <1>11. QED
    BY <1>5, <1>6, <1>7, <1>8, <1>9, <1>10

\* When t ends and the other transactions stay where they are, the locks that
\* are left are the ones LockInv asks for.
LEMMA LocksAfterEnd ==
  ASSUME LockInv, NEW t \in Tx, ~Busy(t)',
         \A u \in Tx : Held(u)' = Held(u),
         \A u \in Tx \ {t} : Busy(u)' = Busy(u),
         \A i \in Items : rowLock'[i] # t,
         \A i \in Items, u \in Tx \ {t} : rowLock'[i] = u <=> rowLock[i] = u
  PROVE  LockInv'
  BY DEF LockInv

\* An image stays right as long as its row keeps its committed value.
LEMMA DraftsKept ==
  ASSUME SaleDraftInv, CancelDraftInv,
         \A i \in Items, u \in Tx : rowLock'[i] = u =>
            rowLock[i] = u /\ draft'[i] = draft[i] /\ row'[i] = row[i]
  PROVE  SaleDraftInv' /\ CancelDraftInv'
  <1>1. SaleDraftInv'
    BY DEF SaleDraftInv, Tx
  <1>2. CancelDraftInv'
    BY DEF CancelDraftInv, Tx
  <1>3. QED
    BY <1>1, <1>2

\* What a transaction leaves behind when it ends: none of its rows, and no
\* change to the rows of the others.
LEMMA ReleaseFrees ==
  ASSUME IInv, NEW t \in Tx, ReleaseRows(t)
  PROVE  /\ rowLock' \in [Items -> Tx \cup {NoTx}]
         /\ draft' \in [Items -> Row]
         /\ \A i \in Items : rowLock'[i] # t
         /\ \A i \in Items, u \in Tx \ {t} : rowLock'[i] = u <=> rowLock[i] = u
         /\ \A i \in Items, u \in Tx : rowLock'[i] = u => draft'[i] = draft[i]
  <1> USE RequestAssumption DEF IInv, Tx, Requests, ReleaseRows
  <1>1. NoDraft \in Row
    BY DEF NoDraft, Row, StockStatus
  <1>2. draft' \in [Items -> Row]
    BY <1>1 DEF TypeOK
  <1>3. QED
    BY <1>2 DEF TypeOK

\* A transaction that fails or is lost undoes what it did.
LEMMA RollbackKeeps ==
  ASSUME IInv, NEW t \in Tx, InTransaction(t), Rollback(t)
  PROVE  IInv'
  <1> USE RequestAssumption DEF IInv, Tx, Requests, Goto, InTransaction, Rollback
  <1>1. /\ rowLock' \in [Items -> Tx \cup {NoTx}]
        /\ draft' \in [Items -> Row]
        /\ \A i \in Items : rowLock'[i] # t
        /\ \A i \in Items, u \in Tx \ {t} : rowLock'[i] = u <=> rowLock[i] = u
        /\ \A i \in Items, u \in Tx : rowLock'[i] = u => draft'[i] = draft[i]
    BY ReleaseFrees
  <1>2. TypeOK'
    BY <1>1 DEF TypeOK, Finished
  <1>3. PhaseInv'
    BY DEF PhaseInv, TypeOK
  <1>4. LineInv'
    BY DEF LineInv, Busy, TypeOK, Finished, LinesOf
  <1>5. LockInv'
    <2>1. \A u \in Tx : Held(u)' = Held(u)
      BY DEF Held, LinesOf
    <2>2. ~Busy(t)' /\ \A u \in Tx : u # t => Busy(u)' = Busy(u)
      BY DEF Busy, TypeOK
    <2>3. QED
      BY <1>1, <2>1, <2>2 DEF LockInv
  <1>6. SaleDraftInv'
    BY <1>1 DEF SaleDraftInv
  <1>7. CancelDraftInv'
    BY ZenonT(60), <1>1 DEF CancelDraftInv
  <1>8. InvoiceInv'
    BY DEF InvoiceInv, TypeOK
  <1>9. CancelInv'
    BY DEF CancelInv, TypeOK, PhaseInv
  <1>10. LiveInv'
    BY DEF LiveInv, TypeOK
  <1>11. QED
    BY <1>2, <1>3, <1>4, <1>5, <1>6, <1>7, <1>8, <1>9, <1>10

\* The commit of a sale: its images become the rows, its invoice is live.
LEMMA CommitSaleKeeps ==
  ASSUME IInv, NEW s \in Sales, CommitSale(s)
  PROVE  IInv'
  <1> USE RequestAssumption DEF IInv, Tx, Requests, Goto, CommitSale, PublishRows
  <1>1. /\ rowLock' \in [Items -> Tx \cup {NoTx}]
        /\ draft' \in [Items -> Row]
        /\ \A i \in Items : rowLock'[i] # s
        /\ \A i \in Items, u \in Tx \ {s} : rowLock'[i] = u <=> rowLock[i] = u
        /\ \A i \in Items, u \in Tx : rowLock'[i] = u => draft'[i] = draft[i]
    BY ReleaseFrees
  <1>2. \A i \in Items, u \in Tx : rowLock'[i] = u =>
           rowLock[i] = u /\ draft'[i] = draft[i] /\ row'[i] = row[i]
    BY <1>1
  <1>3. TypeOK'
    BY <1>1 DEF TypeOK, Finished, SaleStatus
  <1>4. PhaseInv'
    BY DEF PhaseInv, TypeOK
  <1>5. LineInv'
    BY DEF LineInv, Busy, TypeOK, Finished, LinesOf
  <1>6. LockInv'
    <2>1. \A u \in Tx : Held(u)' = Held(u)
      BY DEF Held, LinesOf
    <2>2. ~Busy(s)' /\ \A u \in Tx \ {s} : Busy(u)' = Busy(u)
      BY DEF Busy, TypeOK
    <2>3. QED
      BY <1>1, <2>1, <2>2, LocksAfterEnd
  <1>7. SaleDraftInv' /\ CancelDraftInv'
    BY <1>2, DraftsKept
  <1>9. InvoiceInv'
    BY DEF InvoiceInv, TypeOK
  <1>10. CancelInv'
    BY DEF CancelInv, TypeOK, PhaseInv
  <1>11. LiveInv'
    BY DEF LiveInv, TypeOK
  <1>12. QED
    BY <1>3, <1>4, <1>5, <1>6, <1>7, <1>9, <1>10, <1>11

\* The commit of a cancellation: it held the live invoice, and no other
\* cancellation does.
LEMMA CommitCancelKeeps ==
  ASSUME IInv, NEW c \in Cancels, CommitCancel(c)
  PROVE  IInv'
  <1> USE RequestAssumption DEF IInv, Tx, Requests, Goto, CommitCancel, PublishRows, numVars
  <1>1. /\ rowLock' \in [Items -> Tx \cup {NoTx}]
        /\ draft' \in [Items -> Row]
        /\ \A i \in Items : rowLock'[i] # c
        /\ \A i \in Items, u \in Tx \ {c} : rowLock'[i] = u <=> rowLock[i] = u
        /\ \A i \in Items, u \in Tx : rowLock'[i] = u => draft'[i] = draft[i]
    BY ReleaseFrees
  <1>2. \A i \in Items, u \in Tx : rowLock'[i] = u =>
           rowLock[i] = u /\ draft'[i] = draft[i] /\ row'[i] = row[i]
    BY <1>1
  <1>3. TypeOK'
    BY <1>1 DEF TypeOK, Finished, SaleStatus
  <1>4. PhaseInv'
    BY DEF PhaseInv, TypeOK
  <1>5. LineInv'
    BY DEF LineInv, Busy, TypeOK, Finished, LinesOf
  <1>6. LockInv'
    <2>1. \A u \in Tx : Held(u)' = Held(u)
      BY DEF Held, LinesOf
    <2>2. ~Busy(c)' /\ \A u \in Tx \ {c} : Busy(u)' = Busy(u)
      BY DEF Busy, TypeOK
    <2>3. QED
      BY <1>1, <2>1, <2>2, LocksAfterEnd
  <1>7. SaleDraftInv' /\ CancelDraftInv'
    BY <1>2, DraftsKept
  <1>9. saleLock[CancelOf[c]] = c /\ saleStatus[CancelOf[c]] = "ACTIVE"
    BY DEF CancelInv, LiveInv
  <1>10. InvoiceInv'
    BY <1>9 DEF InvoiceInv, TypeOK
  <1>11. CancelInv'
    BY SMTT(30), <1>9 DEF CancelInv, TypeOK, PhaseInv
  <1>12. LiveInv'
    BY <1>9 DEF LiveInv, TypeOK
  <1>13. QED
    BY <1>3, <1>4, <1>5, <1>6, <1>7, <1>10, <1>11, <1>12

\* A member of staff writes a row nobody holds, so no image is computed from it.
LEMMA WriteItemKeeps ==
  ASSUME IInv, NEW e \in Edits, WriteItem(e)
  PROVE  IInv'
  <1> USE RequestAssumption
          DEF IInv, Tx, Requests, Goto, saleVars, numVars, WriteItem
  <1> DEFINE i == EditOf[e].item
  <1>1. EditOf[e] \in EditRequest
    OBVIOUS
  <1>2. /\ i \in Items
        /\ EditOf[e].quantity \in Nat \cup {NotSent}
        /\ EditOf[e].status \in StockStatus \cup {"not sent"}
    BY <1>1 DEF EditRequest
  <1>3. row[i] \in [qty : Nat, status : StockStatus]
    BY <1>2 DEF TypeOK, Row
  <1>4. TypeOK'
    BY <1>2, <1>3 DEF TypeOK, Finished, Row
  <1>5. PhaseInv'
    BY DEF PhaseInv, TypeOK
  <1>6. LineInv'
    BY DEF LineInv, Busy, TypeOK, Finished, LinesOf
  <1>7. \A t \in Tx : Busy(t)' = Busy(t) /\ Held(t)' = Held(t)
    BY ZenonT(60) DEF Busy, Held, LinesOf, TypeOK
  <1>8. \A j \in Items, t \in Tx : rowLock'[j] = t =>
           rowLock[j] = t /\ draft'[j] = draft[j] /\ row'[j] = row[j]
    BY <1>2 DEF TypeOK
  <1>9. rowLock' = rowLock /\ UNCHANGED <<advisory, saleStatus, saleLock>>
    OBVIOUS
  <1>10. \A t \in Tx : pc'[t] = pc[t]
    BY ZenonT(60) DEF TypeOK
  <1> HIDE DEF WriteItem, i
  <1>11. LockInv'
    BY <1>7, <1>9 DEF LockInv
  <1>12. SaleDraftInv' /\ CancelDraftInv'
    BY <1>8, DraftsKept
  <1>13. InvoiceInv'
    BY <1>9, <1>10 DEF InvoiceInv
  <1>14. CancelInv' /\ LiveInv'
    BY <1>9, <1>10 DEF CancelInv, LiveInv
  <1>15. QED
    BY <1>4, <1>5, <1>6, <1>11, <1>12, <1>13, <1>14

LEMMA StutterKeeps ==
  ASSUME IInv, UNCHANGED vars
  PROVE  IInv'
  BY DEF vars, IInv, TypeOK, PhaseInv, LineInv, LockInv, SaleDraftInv, CancelDraftInv,
         InvoiceInv, CancelInv, LiveInv, Busy, Held, LinesOf, Invoiced

\* A request that waits for a lock, or loses its claim, is in its transaction.
LEMMA RolledBackInTransaction ==
  ASSUME IInv, NEW t \in Tx, DeadlockVictim(t) \/ TransactionLost(t)
  PROVE  InTransaction(t) /\ Rollback(t)
  BY DEF DeadlockVictim, TransactionLost, Deadlocked, WaitsFor, InTransaction

THEOREM IInvInductive == IInv /\ [Next]_vars => IInv'
  <1> SUFFICES ASSUME IInv, [Next]_vars PROVE IInv'
    OBVIOUS
  <1>1. ASSUME NEW s \in Sales, SaleStep(s) PROVE IInv'
    <2>1. CASE CheckAvailability(s)
      BY <2>1, CheckAvailabilityKeeps
    <2>2. CASE TakeNumber(s)
      BY <2>2, TakeNumberKeeps
    <2>3. CASE InsertSale(s)
      BY <2>3, InsertSaleKeeps
    <2>4. CASE ClaimLine(s)
      BY <2>4, ClaimLineKeeps
    <2>5. CASE LoseClaim(s)
      <3>1. s \in Tx /\ InTransaction(s) /\ Rollback(s)
        BY <2>5 DEF LoseClaim, InTransaction, Tx
      <3>2. QED
        BY <3>1, RollbackKeeps
    <2>6. CASE CommitSale(s)
      BY <2>6, CommitSaleKeeps
    <2>7. QED
      BY <1>1, <2>1, <2>2, <2>3, <2>4, <2>5, <2>6 DEF SaleStep
  <1>2. ASSUME NEW c \in Cancels, CancelStep(c) PROVE IInv'
    BY <1>2, ReadSaleKeeps, ClaimCancelKeeps, RestoreLineKeeps, CommitCancelKeeps
       DEF CancelStep
  <1>3. ASSUME NEW e \in Edits, EditStep(e) PROVE IInv'
    BY <1>3, ReadItemKeeps, WriteItemKeeps DEF EditStep
  <1>4. ASSUME NEW t \in Tx, DeadlockVictim(t) \/ TransactionLost(t) PROVE IInv'
    BY <1>4, RolledBackInTransaction, RollbackKeeps
  <1>5. CASE UNCHANGED vars
    BY <1>5, StutterKeeps
  <1>6. QED
    BY <1>1, <1>2, <1>3, <1>4, <1>5 DEF Next, AllAnswered

\* Every reachable state satisfies the inductive invariant.
THEOREM Invariance == Spec => []IInv
  <1>1. Init => IInv
    BY InitIInv
  <1>2. IInv /\ [Next]_vars => IInv'
    BY IInvInductive
  <1>3. QED
    BY <1>1, <1>2, PTL DEF Spec

\* Whatever createSale, cancelSale and updateItem interleave, the rows keep
\* their types; in particular a quantity never falls below zero.
THEOREM TypeCorrect == Spec => []TypeOK
  <1>1. IInv => TypeOK
    BY DEF IInv
  <1>2. QED
    BY <1>1, Invariance, PTL

\* No commit or rollback leaves a row, an invoice or the advisory lock held.
THEOREM LocksAreReleased == Spec => []NoLockLeaks
  <1>1. ASSUME IInv PROVE NoLockLeaks
    <2> USE <1>1, RequestAssumption DEF IInv
    <2>1. ASSUME NEW i \in Items, rowLock[i] # NoTx
          PROVE  /\ InTransaction(rowLock[i])
                 /\ \E k \in 1..(line[rowLock[i]] - 1) :
                      k <= Len(LinesOf(rowLock[i])) /\ LinesOf(rowLock[i])[k] = i
      <3> DEFINE t == rowLock[i]
      <3>1. t \in Tx
        BY <2>1 DEF TypeOK
      <3>2. Busy(t) /\ i \in Held(t)
        BY <3>1 DEF LockInv
      <3>3. line[t] \in Nat /\ Len(LinesOf(t)) \in Nat /\ line[t] <= Len(LinesOf(t)) + 1
        BY <3>1, LinesAreRows DEF LineInv, TypeOK
      <3> HIDE DEF t
      <3>4. PICK k \in 1..(line[t] - 1) : LinesOf(t)[k] = i
        BY <3>2 DEF Held
      <3>5. k <= Len(LinesOf(t))
        BY <3>3, <3>4
      <3>6. QED
        BY <3>2, <3>4, <3>5 DEF Busy, InTransaction, t
    <2>2. \A s \in Sales : pc[s] \in {"numbered", "claiming"} <=> advisory = s
      BY DEF InvoiceInv
    <2>3. \A s \in Sales : saleLock[s] # NoTx => pc[saleLock[s]] = "restoring"
      BY DEF CancelInv, TypeOK
    <2>4. QED
      BY <2>1, <2>2, <2>3 DEF NoLockLeaks
  <1>2. QED
    BY <1>1, Invariance, PTL

-----------------------------------------------------------------------------
(* What a commit publishes.                                                 *)

\* At its commit a transaction holds all the rows of its invoice and no other.
LEMMA CommitHoldsInvoice ==
  ASSUME IInv, NEW t \in Tx, Busy(t), line[t] > Len(LinesOf(t)), NEW s \in Sales,
         LinesOf(t) = Lines[s], NEW i \in Items
  PROVE  rowLock[i] = t <=> Want[s][i] > 0
  <1>1. /\ line[t] \in Nat /\ Len(LinesOf(t)) \in Nat
        /\ line[t] <= Len(LinesOf(t)) + 1
    BY LinesAreRows DEF IInv, LineInv, TypeOK
  <1>2. line[t] - 1 = Len(Lines[s])
    BY <1>1
  <1>3. rowLock[i] = t <=> \E k \in 1..Len(Lines[s]) : Lines[s][k] = i
    BY <1>2 DEF IInv, LockInv, Held
  <1>4. QED
    BY <1>3, OrderAssumption

\* What the commit of a sale does to each row.
LEMMA SaleCommit ==
  ASSUME IInv, NEW s \in Sales, CommitSale(s), NEW i \in Items
  PROVE  /\ rowLock[i] = s \/ (Want[s][i] = 0 /\ row'[i] = row[i])
         /\ row'[i].qty = row[i].qty - Want[s][i]
         /\ Want[s][i] <= row[i].qty
         /\ rowLock[i] = s => row'[i] = draft[i]
  <1>1. Want[s][i] \in Nat /\ row[i].qty \in Nat
    BY QuantitiesAreNats
  <1>2. s \in Tx /\ Busy(s) /\ LinesOf(s) = Lines[s] /\ line[s] > Len(LinesOf(s))
    BY DEF CommitSale, Busy, LinesOf, Tx
  <1>3. rowLock[i] = s <=> Want[s][i] > 0
    BY <1>2, CommitHoldsInvoice
  <1>4. row'[i] = IF rowLock[i] = s THEN draft[i] ELSE row[i]
    BY DEF CommitSale, PublishRows
  <1>5. QED
    BY <1>1, <1>3, <1>4 DEF IInv, SaleDraftInv

\* What the commit of a cancellation does to each row.
LEMMA CancelCommit ==
  ASSUME IInv, NEW c \in Cancels, CommitCancel(c), NEW i \in Items
  PROVE  row'[i].qty = row[i].qty + Want[CancelOf[c]][i]
  <1> DEFINE s == CancelOf[c]
  <1>1. s \in Sales /\ c \in Tx /\ c \notin Sales
    BY RequestAssumption DEF Tx
  <1>2. Want[s][i] \in Nat /\ row[i].qty \in Nat
    BY <1>1, QuantitiesAreNats
  <1>3. Busy(c) /\ LinesOf(c) = Lines[s] /\ line[c] > Len(LinesOf(c))
    BY <1>1 DEF CommitCancel, Busy, LinesOf
  <1>4. rowLock[i] = c <=> Want[s][i] > 0
    BY <1>1, <1>3, CommitHoldsInvoice
  <1>5. row'[i] = IF rowLock[i] = c THEN draft[i] ELSE row[i]
    BY DEF CommitCancel, PublishRows
  <1>6. rowLock[i] = c =>
           draft[i] = [qty |-> row[i].qty + Want[CancelOf[c]][i], status |-> "IN_STOCK"]
    BY DEF IInv, CancelDraftInv
  <1>7. QED
    BY <1>2, <1>4, <1>5, <1>6

\* The steps that leave the committed rows and invoices alone.
LEMMA QuietSteps ==
  ASSUME NEW r, \/ CheckAvailability(r) \/ TakeNumber(r) \/ InsertSale(r) \/ ClaimLine(r)
                \/ LoseClaim(r) \/ ReadSale(r) \/ ClaimCancel(r) \/ RestoreLine(r)
                \/ DeadlockVictim(r) \/ TransactionLost(r) \/ ReadItem(r)
  PROVE  row' = row /\ saleStatus' = saleStatus
  BY DEF CheckAvailability, TakeNumber, InsertSale, ClaimLine, LoseClaim, ReadSale,
         ClaimCancel, RestoreLine, DeadlockVictim, TransactionLost, ReadItem, Rollback,
         WriteRow, stockVars, saleVars

\* The steps of the specification, as the committed state sees them.
LEMMA StepCases ==
  ASSUME [Next]_vars
  PROVE  \/ \E s \in Sales : CommitSale(s)
         \/ \E c \in Cancels : CommitCancel(c)
         \/ \E e \in Edits : WriteItem(e)
         \/ row' = row /\ saleStatus' = saleStatus
  <1>1. CASE UNCHANGED vars
    BY <1>1 DEF vars
  <1>2. CASE Next
    BY <1>2, QuietSteps DEF Next, SaleStep, CancelStep, EditStep, AllAnswered, vars
  <1>3. QED
    BY <1>1, <1>2

-----------------------------------------------------------------------------
\* createSale and cancelSale move stock all-or-nothing and cancelSale gives the
\* units of an invoice back once: the committed state implements StockLedger.
THEOREM LedgerRefinement == Spec => LedgerImplemented
  <1>1. Init => Ledger!LedgerInit
    <2> SUFFICES ASSUME Init PROVE Ledger!LedgerInit
      OBVIOUS
    <2>1. [i \in Items |-> row[i].qty] = InitialQty
      BY RequestAssumption DEF Init
    <2>2. QED
      BY <2>1 DEF Init, Ledger!LedgerInit
  <1>2. IInv /\ [Next]_vars => [Ledger!LedgerNext]_(Ledger!ledgerVars)
    <2> SUFFICES ASSUME IInv, [Next]_vars
                 PROVE  [Ledger!LedgerNext]_(Ledger!ledgerVars)
      OBVIOUS
    <2> DEFINE qty == [i \in Items |-> row[i].qty]
    <2>1. ASSUME NEW s \in Sales, CommitSale(s) PROVE Ledger!Sell(s)
      <3>1. saleStatus[s] = "NONE"
        BY <2>1 DEF CommitSale, IInv, InvoiceInv, TypeOK
      <3>2. \A i \in Items : Want[s][i] <= qty[i]
        BY <2>1, SaleCommit
      <3>3. qty' = [i \in Items |-> qty[i] - Want[s][i]]
        BY <2>1, SaleCommit
      <3>4. saleStatus' = [saleStatus EXCEPT ![s] = "ACTIVE"]
        BY <2>1 DEF CommitSale
      <3>5. QED
        BY <3>1, <3>2, <3>3, <3>4 DEF Ledger!Sell
    <2>2. ASSUME NEW c \in Cancels, CommitCancel(c) PROVE Ledger!Return(CancelOf[c])
      <3>1. CancelOf[c] \in Sales /\ saleStatus[CancelOf[c]] = "ACTIVE"
        <4>1. CancelOf[c] \in Sales /\ c # NoTx
          BY RequestAssumption DEF Requests, Tx
        <4>2. saleLock[CancelOf[c]] = c
          BY <2>2, <4>1 DEF CommitCancel, IInv, CancelInv
        <4>3. QED
          BY <4>1, <4>2 DEF IInv, LiveInv
      <3>2. qty' = [i \in Items |-> qty[i] + Want[CancelOf[c]][i]]
        BY <2>2, CancelCommit
      <3>3. saleStatus' = [saleStatus EXCEPT ![CancelOf[c]] = "CANCELLED"]
        BY <2>2 DEF CommitCancel
      <3>4. QED
        BY <3>1, <3>2, <3>3 DEF Ledger!Return
    <2>3. ASSUME NEW e \in Edits, WriteItem(e) PROVE Ledger!Recount(EditOf[e].item)
      <3> DEFINE i == EditOf[e].item
      <3>1. EditOf[e] \in EditRequest
        BY RequestAssumption
      <3>2. i \in Items
        BY <3>1 DEF EditRequest
      <3>3. IInv'
        BY <2>3, WriteItemKeeps
      <3>4. row'[i].qty \in Nat
        BY <3>2, <3>3 DEF IInv, TypeOK, Row
      <3>5. \A j \in Items : j # i => row'[j] = row[j]
        BY <2>3 DEF WriteItem, IInv, TypeOK
      <3>6. saleStatus' = saleStatus
        BY <2>3 DEF WriteItem, saleVars
      <3> HIDE DEF i
      <3>7. qty' = [qty EXCEPT ![i] = row'[i].qty]
        BY <3>2, <3>5
      <3>8. qty'[i] = row'[i].qty
        BY <3>2
      <3>9. QED
        BY <3>4, <3>6, <3>7, <3>8 DEF Ledger!Recount, i
    <2>4. CASE row' = row /\ saleStatus' = saleStatus
      BY <2>4 DEF Ledger!ledgerVars
    <2>5. \A e \in Edits : EditOf[e].item \in Items
      BY RequestAssumption DEF EditRequest
    <2>6. \A c \in Cancels : CancelOf[c] \in Sales
      BY RequestAssumption
    <2>7. QED
      BY <2>1, <2>2, <2>3, <2>4, <2>5, <2>6, StepCases DEF Ledger!LedgerNext
  <1>3. QED
    BY <1>1, <1>2, Invariance, PTL DEF Spec, LedgerImplemented, Ledger!LedgerSpec

\* A sale takes units only from a row that is on offer and has enough of them,
\* although its claims ran on rows other requests kept changing.
THEOREM SalesTakeStockOnOffer == Spec => SaleTakesOnlyStockOnOffer
  <1> DEFINE A == \A s \in Sales, i \in Items :
       (saleStatus[s] = "NONE" /\ saleStatus'[s] = "ACTIVE" /\ row'[i] # row[i]) =>
          /\ row[i].status = "IN_STOCK"
          /\ row'[i].qty = row[i].qty - Want[s][i]
          /\ row'[i].status = IF row'[i].qty = 0 THEN "SOLD" ELSE "IN_STOCK"
  <1>1. IInv /\ [Next]_vars => [A]_vars
    <2> SUFFICES ASSUME IInv, [Next]_vars, NEW s \in Sales, NEW i \in Items,
                        saleStatus[s] = "NONE", saleStatus'[s] = "ACTIVE", row'[i] # row[i]
                 PROVE  /\ row[i].status = "IN_STOCK"
                        /\ row'[i].qty = row[i].qty - Want[s][i]
                        /\ row'[i].status = IF row'[i].qty = 0 THEN "SOLD" ELSE "IN_STOCK"
      OBVIOUS
    <2>1. ASSUME NEW u \in Sales, CommitSale(u) PROVE u = s
      BY <2>1 DEF CommitSale, IInv, TypeOK
    <2>2. ASSUME NEW c \in Cancels, CommitCancel(c) PROVE FALSE
      BY <2>2 DEF CommitCancel, IInv, TypeOK
    <2>3. ASSUME NEW e \in Edits, WriteItem(e) PROVE FALSE
      BY <2>3 DEF WriteItem, saleVars
    <2>4. CommitSale(s)
      BY <2>1, <2>2, <2>3, StepCases
    <2>5. rowLock[i] = s /\ row'[i] = draft[i]
      BY <2>4, SaleCommit
    <2>6. QED
      BY <2>5 DEF IInv, SaleDraftInv
  <1>2. QED
    BY <1>1, Invariance, PTL DEF Spec, SaleTakesOnlyStockOnOffer

-----------------------------------------------------------------------------
(* The invoice numbers.                                                     *)

\* Under the advisory lock the last invoice by timestamp has the highest number.
LEMMA NextNumberIsAbove ==
  ASSUME IInv, NumberInv, NEW n \in NextNumbers, NEW u \in Invoiced
  PROVE  n \in Nat /\ invoice[u] < n
  <1>1. PICK v \in LastSales : n = invoice[v] + 1
    BY DEF NextNumbers
  <1>2. v \in Invoiced /\ createdAt[u] <= createdAt[v]
    BY DEF LastSales
  <1>3. invoice[u] <= invoice[v]
    BY <1>2 DEF NumberInv
  <1>4. invoice[u] \in Nat /\ invoice[v] \in Nat
    BY <1>2 DEF IInv, TypeOK, Invoiced
  <1>5. QED
    BY <1>1, <1>3, <1>4

\* A drawn number is above all numbers in use until its invoice commits.
LEMMA NumberInvStep ==
  ASSUME Skew = 0, IInv, NumberInv, [Next]_vars
  PROVE  NumberInv'
  <1> USE RequestAssumption
  <1>1. ASSUME NEW s \in Sales, TakeNumber(s) PROVE NumberInv'
    <2>1. /\ Invoiced' = Invoiced /\ s \notin Invoiced
          /\ UNCHANGED <<createdAt, clock>>
          /\ \A u \in Sales : u # s => invoice'[u] = invoice[u] /\ pc'[u] = pc[u]
          /\ pc'[s] = "numbered"
      BY <1>1 DEF TakeNumber, Invoiced, saleVars, Goto, IInv, InvoiceInv, TypeOK, Requests, Tx
    <2>2. \A u \in Invoiced : invoice[u] < invoice'[s]
      BY <1>1, NextNumberIsAbove DEF TakeNumber, IInv, TypeOK
    <2>3. \A u \in Invoiced : invoice'[u] = invoice[u]
      BY <2>1 DEF Invoiced
    <2>4. \A u \in Sales : u # s => pc[u] \notin {"numbered", "claiming"}
      BY <1>1 DEF TakeNumber, IInv, InvoiceInv, Requests, Tx
    <2>5. QED
      BY <2>1, <2>2, <2>3, <2>4 DEF NumberInv, NumbersNeverCollide
  <1>2. ASSUME NEW s \in Sales, InsertSale(s) PROVE NumberInv'
    <2>1. pc[s] = "numbered" /\ s \notin Invoiced
      BY <1>2 DEF InsertSale, IInv, InvoiceInv, Invoiced
    <2>2. \A u \in Invoiced : invoice[u] < invoice[s]
      BY <2>1 DEF NumberInv
    <2>3. ~\E u \in Invoiced : invoice[u] = invoice[s]
      BY <2>2 DEF IInv, TypeOK, Invoiced
    <2>4. /\ createdAt' = [createdAt EXCEPT ![s] = clock + 0]
          /\ clock' = clock + 1 /\ clock \in Nat
          /\ pc' = [pc EXCEPT ![s] = "claiming"]
          /\ invoice' = invoice /\ Invoiced' = Invoiced
      BY <1>2, <2>3 DEF InsertSale, Goto, saleVars, Invoiced, IInv, TypeOK
    <2>5. \A u \in Sales : u # s => createdAt'[u] = createdAt[u] /\ pc'[u] = pc[u]
      BY <2>4 DEF IInv, TypeOK, Requests, Tx
    <2>6. createdAt'[s] = clock /\ pc'[s] = "claiming"
      BY <2>4 DEF IInv, TypeOK, Requests, Tx
    <2>7. \A u \in Sales : createdAt[u] \in Nat
      BY DEF IInv, TypeOK
    <2>8. \A u \in Invoiced : u # s /\ u \in Sales
      BY <2>1 DEF Invoiced
    <2>9. \A u \in Sales : u # s => pc[u] \notin {"numbered", "claiming"}
      BY <2>1 DEF IInv, InvoiceInv
    <2>10. QED
      BY <2>1, <2>2, <2>4, <2>5, <2>6, <2>7, <2>8, <2>9 DEF NumberInv, NumbersNeverCollide
  <1>3. ASSUME NEW s \in Sales, CommitSale(s) PROVE NumberInv'
    <2>1. /\ pc[s] = "claiming"
          /\ UNCHANGED <<invoice, createdAt, clock>>
          /\ Invoiced' = Invoiced \cup {s}
      BY <1>3 DEF CommitSale, Invoiced, IInv, TypeOK
    <2>2. \A u \in Sales : u # s => pc'[u] = pc[u]
      BY <1>3 DEF CommitSale, Goto, IInv, TypeOK, Requests, Tx
    <2>3. pc'[s] = "done"
      BY <1>3 DEF CommitSale, Goto, IInv, TypeOK, Requests, Tx
    <2>4. \A u \in Sales : u # s => pc[u] \notin {"numbered", "claiming"}
      BY <2>1 DEF IInv, InvoiceInv
    <2>5. \A u \in Invoiced : createdAt[u] < createdAt[s] /\ invoice[u] < invoice[s]
      BY <2>1 DEF NumberInv
    <2>6. \A u \in Sales : createdAt[u] \in Nat /\ invoice[u] \in Nat
      BY DEF IInv, TypeOK
    <2>7. Invoiced \subseteq Sales /\ createdAt[s] < clock
      BY <2>1 DEF Invoiced, NumberInv
    <2>8. QED
      BY <2>1, <2>2, <2>3, <2>4, <2>5, <2>6, <2>7 DEF NumberInv, NumbersNeverCollide
  <1>4. ASSUME /\ Invoiced' = Invoiced /\ UNCHANGED <<invoice, createdAt, clock>>
               /\ \A s \in Sales : pc'[s] = pc[s] \/ pc'[s] \notin {"numbered", "claiming", "duplicate"}
        PROVE  NumberInv'
    BY <1>4 DEF NumberInv, NumbersNeverCollide
  <1>5. ASSUME NEW t \in Tx, Rollback(t) PROVE NumberInv'
    BY <1>4, <1>5 DEF Rollback, Goto, Invoiced, IInv, TypeOK, Requests, Tx
  <1>6. ASSUME NEW s \in Sales, SaleStep(s) PROVE NumberInv'
    <2>1. CASE CheckAvailability(s)
      BY <1>4, <2>1 DEF CheckAvailability, Goto, Invoiced, saleVars, numVars, IInv, TypeOK,
                        Requests, Tx
    <2>2. CASE ClaimLine(s)
      BY <1>4, <2>2 DEF ClaimLine, Invoiced, saleVars, numVars
    <2>3. CASE LoseClaim(s)
      BY <1>5, <2>3 DEF LoseClaim, Tx
    <2>4. QED
      BY <1>1, <1>2, <1>3, <1>6, <2>1, <2>2, <2>3 DEF SaleStep
  <1>7. ASSUME NEW c \in Cancels, CancelStep(c) PROVE NumberInv'
    <2>1. \A s \in Sales : pc'[s] = pc[s]
      BY <1>7 DEF CancelStep, ReadSale, ClaimCancel, RestoreLine, CommitCancel, Goto,
                  IInv, TypeOK, Requests, Tx
    <2>2. UNCHANGED <<invoice, createdAt, clock>>
      BY <1>7 DEF CancelStep, ReadSale, ClaimCancel, RestoreLine, CommitCancel, numVars
    <2>3. CASE ReadSale(c) \/ ClaimCancel(c) \/ RestoreLine(c)
      BY <1>4, <2>1, <2>2, <2>3 DEF ReadSale, ClaimCancel, RestoreLine, saleVars, Invoiced
    <2>4. CASE CommitCancel(c)
      <3>1. c # NoTx /\ CancelOf[c] \in Sales
        BY DEF Requests, Tx
      <3>2. saleLock[CancelOf[c]] = c
        BY <2>4, <3>1 DEF CommitCancel, IInv, CancelInv
      <3>3. saleStatus[CancelOf[c]] = "ACTIVE"
        BY <3>1, <3>2 DEF IInv, LiveInv
      <3>4. Invoiced' = Invoiced
        BY <2>4, <3>1, <3>3 DEF CommitCancel, Invoiced, IInv, TypeOK
      <3>5. QED
        BY <1>4, <2>1, <2>2, <3>4
    <2>5. QED
      BY <1>7, <2>3, <2>4 DEF CancelStep
  <1>8. ASSUME NEW e \in Edits, EditStep(e) PROVE NumberInv'
    BY <1>4, <1>8 DEF EditStep, ReadItem, WriteItem, Goto, Invoiced, saleVars, numVars,
                      IInv, TypeOK, Requests, Tx
  <1>9. CASE UNCHANGED vars
    BY <1>4, <1>9 DEF vars, Invoiced
  <1>10. QED
    BY <1>5, <1>6, <1>7, <1>8, <1>9, RolledBackInTransaction DEF Next, AllAnswered

\* While the instances' clocks agree, no sale fails on the unique index of the
\* invoice numbers: the advisory lock spans the read, the insert and the commit.
THEOREM InvoiceNumbersAreFree ==
  ASSUME Skew = 0
  PROVE  Spec => []NumbersNeverCollide
  <1>1. Init => IInv /\ NumberInv
    BY InitIInv DEF Init, NumberInv, NumbersNeverCollide, Invoiced, Requests, Tx
  <1>2. IInv /\ NumberInv /\ [Next]_vars => IInv' /\ NumberInv'
    BY IInvInductive, NumberInvStep
  <1>3. NumberInv => NumbersNeverCollide
    BY DEF NumberInv
  <1>4. QED
    BY <1>1, <1>2, <1>3, PTL DEF Spec
=============================================================================
