------------------------- MODULE PaymentLedgerProofs -------------------------
(***************************************************************************)
(* Proofs about PaymentLedger, for any number of workers, payments and     *)
(* invoices.  LedgerInv is inductive; its parts are theorems.  With it the *)
(* sums over the allocation rows, and PaymentInv about the payments.       *)
(***************************************************************************)
EXTENDS PaymentLedger, NaturalLemmas, FiniteSetTheorems, TLAPS

USE DEF Steps, InTx

(* Each way the service rewrites a row it has read yields a row. *)
LEMMA SavedRows ==
  ASSUME NEW r \in PaymentRow, NEW n \in Nat
  PROVE  /\ [r EXCEPT !.status = "rejected"] \in PaymentRow
         /\ [r EXCEPT !.status = "refunded", !.refund = "some"] \in PaymentRow
         /\ [r EXCEPT !.trx = n] \in PaymentRow
         /\ [r EXCEPT !.status = "confirmed", !.allocated = n] \in PaymentRow
         /\ [NoPayment EXCEPT !.status = "pending", !.amount = n] \in PaymentRow
         /\ NoPayment \in PaymentRow
<1>1. "rejected" \in PaymentStatus /\ "refunded" \in PaymentStatus
      /\ "confirmed" \in PaymentStatus /\ "pending" \in PaymentStatus
      /\ "absent" \in PaymentStatus
  BY DEF PaymentStatus
<1>2. NoPayment \in PaymentRow
  BY <1>1 DEF NoPayment, PaymentRow
<1>3. [NoPayment EXCEPT !.status = "pending", !.amount = n] \in PaymentRow
  BY <1>1, <1>2 DEF PaymentRow
<1> QED
  BY <1>1, <1>2, <1>3 DEF PaymentRow

(* The fields of the rows in the tables are numbers. *)
LEMMA RowNumbers ==
  ASSUME TypeOK
  PROVE  /\ \A i \in Invoices : inv[i].paid \in Nat /\ inv[i].total \in Nat
         /\ \A w \in Workers : row[w].amount \in Nat
         /\ NoPayment \in PaymentRow
  BY DEF TypeOK, InvoiceRow, PaymentRow, NoPayment, PaymentStatus

(* Crediting or cancelling an invoice row yields an invoice row, with the
   fields one expects. *)
LEMMA CreditedRow ==
  ASSUME NEW r \in InvoiceRow, NEW a \in Nat
  PROVE  /\ Credit(r, a) \in InvoiceRow
         /\ Credit(r, a).total = r.total
         /\ Credit(r, a).paid = r.paid + a
         /\ a > 0 => Credit(r, a).status = InvoiceStatusFromAmounts(r.total, r.paid + a)
         /\ a = 0 => Credit(r, a) = r
<1>1. InvoiceStatusFromAmounts(r.total, r.paid + a) \in InvoiceStatus
  BY DEF InvoiceStatusFromAmounts, InvoiceStatus, InvoiceRow
<1>2. CASE a = 0
  BY <1>2 DEF Credit, InvoiceRow
<1>3. CASE a > 0
  <2>1. Credit(r, a) = [r EXCEPT !.paid = r.paid + a,
                   !.status = InvoiceStatusFromAmounts(r.total, r.paid + a)]
    BY <1>3 DEF Credit
  <2>2. r.paid + a \in Nat
    BY DEF InvoiceRow
  <2> DEFINE st == InvoiceStatusFromAmounts(r.total, r.paid + a)
  <2>3. st \in InvoiceStatus
    BY <1>1
  <2> HIDE DEF st
  <2>4. /\ [r EXCEPT !.paid = r.paid + a, !.status = st] \in InvoiceRow
        /\ [r EXCEPT !.paid = r.paid + a, !.status = st].total = r.total
        /\ [r EXCEPT !.paid = r.paid + a, !.status = st].paid = r.paid + a
        /\ [r EXCEPT !.paid = r.paid + a, !.status = st].status = st
    BY <2>2, <2>3 DEF InvoiceRow
  <2>5. Credit(r, a) = [r EXCEPT !.paid = r.paid + a, !.status = st]
    BY <2>1 DEF st
  <2>6. /\ Credit(r, a) \in InvoiceRow
        /\ Credit(r, a).total = r.total
        /\ Credit(r, a).paid = r.paid + a
        /\ Credit(r, a).status = st
    BY <2>4, <2>5
  <2> QED
    BY <1>3, <2>6 DEF st
<1> QED
  BY <1>2, <1>3

LEMMA CancelledRow ==
  ASSUME NEW r \in InvoiceRow
  PROVE  /\ [r EXCEPT !.status = "cancelled"] \in InvoiceRow
         /\ [r EXCEPT !.status = "cancelled"].total = r.total
         /\ [r EXCEPT !.status = "cancelled"].paid = r.paid
         /\ [r EXCEPT !.status = "cancelled"].status = "cancelled"
<1>1. "cancelled" \in InvoiceStatus
  BY DEF InvoiceStatus
<1> QED
  BY <1>1 DEF InvoiceRow

(* The empty tables, with every worker idle, satisfy the invariant. *)
LEMMA InitLedger == Init => LedgerInv
  BY LedgerAssumption DEF Init, LedgerInv, TypeOK, LocalsInOrder, NeverOverpaid,
     StatusMatchesAmounts, PlanStaysValid, NoInvoice, NoPayment, NoGot,
     InvoiceRow, PaymentRow, InvoiceStatus, PaymentStatus

LEMMA StepRollback ==
  ASSUME LedgerInv, NEW w \in Workers, Rollback(w)
  PROVE  LedgerInv'
<1>1. TypeOK'
  BY RowNumbers, LedgerAssumption DEF LedgerInv, TypeOK, Rollback, Done, Unlock, Goto, db, NoGot
<1>2. (LocalsInOrder /\ NeverOverpaid /\ StatusMatchesAmounts /\ PlanStaysValid)'
  BY DEF LedgerInv, TypeOK, LocalsInOrder, NeverOverpaid, StatusMatchesAmounts,
     PlanStaysValid, IsOpen, Balance,
     Rollback, Done, Unlock, Goto, db, NoGot
<1> QED
  BY <1>1, <1>2 DEF LedgerInv

LEMMA StepReturn ==
  ASSUME LedgerInv, NEW w \in Workers, Done(w),
         pay' \in [Payments -> PaymentRow], cash' \in SUBSET Payments,
         overwritten' \subseteq Payments,
         UNCHANGED <<inv, alloc, gw, lock>>
  PROVE  LedgerInv'
<1>1. TypeOK'
  BY RowNumbers DEF LedgerInv, TypeOK, Done, Goto, NoGot
<1>2. (LocalsInOrder /\ NeverOverpaid /\ StatusMatchesAmounts /\ PlanStaysValid)'
  BY DEF LedgerInv, TypeOK, LocalsInOrder, NeverOverpaid, StatusMatchesAmounts,
     PlanStaysValid, IsOpen, Balance,
     Done, Goto, NoGot
<1> QED
  BY <1>1, <1>2 DEF LedgerInv

(* A step of one worker outside Confirm's row-locking statements, in which the
   invoices, the allocations and the locks stay as they are. *)
LEMMA StepQuiet ==
  ASSUME LedgerInv, TypeOK', NEW w \in Workers, NEW step,
         pc[w] \notin {"locking", "allocate"},
         step \notin {"locking", "allocate"},
         pc' = [pc EXCEPT ![w] = step],
         step \in {"fast", "reread"} => pc[w] \in {"idle", "fast", "reread"},
         step # "idle",
         \A v \in Workers \ {w} : unpaid'[v] = unpaid[v] /\ cur'[v] = cur[v]
                                 /\ row'[v] = row[v],
         unpaid'[w] \subseteq unpaid[w],
         UNCHANGED <<inv, alloc, lock, got, todo, left>>
  PROVE  LedgerInv'
<1>1. NeverOverpaid' /\ StatusMatchesAmounts'
  BY DEF LedgerInv, NeverOverpaid, StatusMatchesAmounts
<1>2. LocalsInOrder'
  BY DEF LedgerInv, TypeOK, LocalsInOrder
<1>3. PlanStaysValid'
  BY DEF LedgerInv, TypeOK, PlanStaysValid, IsOpen, Balance
<1> QED
  BY <1>1, <1>2, <1>3 DEF LedgerInv

LEMMA StepCreate ==
  ASSUME LedgerInv, NEW p \in Payments, NEW a \in Amounts, Create(p, a)
  PROVE  LedgerInv'
<1>1. pay' \in [Payments -> PaymentRow]
  BY SavedRows, LedgerAssumption DEF LedgerInv, TypeOK, Create
<1>2. TypeOK'
  BY <1>1 DEF LedgerInv, TypeOK, Create, local
<1>3. (LocalsInOrder /\ NeverOverpaid /\ StatusMatchesAmounts /\ PlanStaysValid)'
  BY DEF LedgerInv, LocalsInOrder, NeverOverpaid, StatusMatchesAmounts,
     PlanStaysValid, Create, local, IsOpen, Balance
<1> QED
  BY <1>2, <1>3 DEF LedgerInv

LEMMA StepGenerateInvoice ==
  ASSUME LedgerInv, NEW i \in Invoices, NEW t \in Totals, GenerateInvoice(i, t)
  PROVE  LedgerInv'
<1>1. inv' \in [Invoices -> InvoiceRow]
  BY LedgerAssumption DEF LedgerInv, TypeOK, GenerateInvoice, InvoiceRow, InvoiceStatus
<1>2. TypeOK'
  BY <1>1 DEF LedgerInv, TypeOK, GenerateInvoice, local
<1>3. /\ inv'[i].status = "unpaid" /\ inv'[i].paid = 0 /\ inv'[i].total = t /\ t \in Nat
      /\ \A j \in Invoices \ {i} : inv'[j] = inv[j]
  BY LedgerAssumption DEF LedgerInv, TypeOK, GenerateInvoice
<1>4. LocalsInOrder' /\ NeverOverpaid'
  BY <1>3 DEF LedgerInv, LocalsInOrder, NeverOverpaid, GenerateInvoice, local
<1>5. StatusMatchesAmounts'
  <2>1. InvoiceStatusFromAmounts(t, 0) = "unpaid"
    BY DEF InvoiceStatusFromAmounts
  <2> QED
    BY <1>3, <2>1 DEF LedgerInv, StatusMatchesAmounts
<1>6. \A w \in Workers : pc[w] \in {"locking", "allocate"} => i \notin unpaid[w]
  BY DEF LedgerInv, PlanStaysValid, IsOpen, GenerateInvoice, Exists
<1>7. PlanStaysValid'
  BY <1>3, <1>6 DEF LedgerInv, PlanStaysValid, GenerateInvoice, IsOpen, Balance, local
<1> QED
  BY <1>2, <1>4, <1>5, <1>7 DEF LedgerInv

LEMMA StepCancelInvoice ==
  ASSUME LedgerInv, NEW i \in Invoices, CancelInvoice(i)
  PROVE  LedgerInv'
<1>1. /\ inv'[i].status = "cancelled"
      /\ \A j \in Invoices \ {i} : inv'[j] = inv[j]
      /\ \A j \in Invoices : inv'[j].paid = inv[j].paid /\ inv'[j].total = inv[j].total
      /\ inv' \in [Invoices -> InvoiceRow]
  BY CancelledRow DEF LedgerInv, TypeOK, CancelInvoice
<1>2. TypeOK'
  BY <1>1 DEF LedgerInv, TypeOK, CancelInvoice, local
<1>4. LocalsInOrder' /\ NeverOverpaid' /\ StatusMatchesAmounts'
  BY <1>1 DEF LedgerInv, TypeOK, LocalsInOrder, NeverOverpaid, StatusMatchesAmounts,
     CancelInvoice, Exists, local
<1>5. \A w \in Workers : pc[w] \in {"locking", "allocate"} => i \notin unpaid[w]
  BY LedgerAssumption DEF LedgerInv, PlanStaysValid, CancelInvoice
<1>6. PlanStaysValid'
  BY <1>1, <1>5 DEF LedgerInv, PlanStaysValid, CancelInvoice, IsOpen, Balance, local
<1> QED
  BY <1>2, <1>4, <1>6 DEF LedgerInv

LEMMA StepConfirmFastFail ==
  ASSUME LedgerInv, NEW w \in Workers, NEW p \in Payments, NEW b \in {"user", "gateway"}, ConfirmFastFail(w, p, b)
  PROVE  LedgerInv'
  BY LedgerAssumption DEF LedgerInv, TypeOK, LocalsInOrder, NeverOverpaid, StatusMatchesAmounts,
     PlanStaysValid, IsOpen, Balance, Exists,
     ConfirmFastFail, db, Goto

LEMMA StepConfirmReread ==
  ASSUME LedgerInv, NEW w \in Workers, ConfirmReread(w)
  PROVE  LedgerInv'
<1>1. CASE CanConfirm(pay[cur[w]])
  <2>1. /\ pc[w] = "fast"
        /\ pc' = [pc EXCEPT ![w] = "reread"]
        /\ row' = [row EXCEPT ![w] = pay[cur[w]]]
        /\ UNCHANGED <<inv, pay, alloc, cash, overwritten, gw, lock, cur, by, todo, unpaid, got,
                       left, trx>>
    BY <1>1 DEF ConfirmReread, db, Goto
  <2>2. TypeOK'
    BY <2>1 DEF LedgerInv, TypeOK
  <2> QED
    BY <2>1, <2>2, StepQuiet DEF LedgerInv, TypeOK
<1>2. CASE ~CanConfirm(pay[cur[w]])
  BY <1>2, StepRollback DEF ConfirmReread
<1> QED
  BY <1>1, <1>2

LEMMA StepConfirmSelect ==
  ASSUME LedgerInv, NEW w \in Workers, ConfirmSelect(w)
  PROVE  LedgerInv'
  BY LedgerAssumption DEF LedgerInv, TypeOK, LocalsInOrder, NeverOverpaid, StatusMatchesAmounts,
     PlanStaysValid, IsOpen, Balance, Exists,
     ConfirmSelect, db, Goto

LEMMA StepConfirmLockRow ==
  ASSUME LedgerInv, NEW w \in Workers, NEW i \in Invoices, ConfirmLockRow(w, i)
  PROVE  LedgerInv'
  BY LedgerAssumption DEF LedgerInv, TypeOK, LocalsInOrder, NeverOverpaid, StatusMatchesAmounts,
     PlanStaysValid, IsOpen, Balance, Exists,
     ConfirmLockRow, db

LEMMA StepConfirmPlan ==
  ASSUME LedgerInv, NEW w \in Workers, ConfirmPlan(w)
  PROVE  LedgerInv'
<1>1. TypeOK'
  BY RowNumbers DEF LedgerInv, TypeOK, ConfirmPlan, db, Goto
<1>2. (LocalsInOrder /\ NeverOverpaid /\ StatusMatchesAmounts /\ PlanStaysValid)'
  BY RowNumbers DEF LedgerInv, TypeOK, LocalsInOrder, NeverOverpaid, StatusMatchesAmounts,
     PlanStaysValid, IsOpen, Balance,
     ConfirmPlan, db, Goto
<1> QED
  BY <1>1, <1>2 DEF LedgerInv

LEMMA StepConfirmAllocate ==
  ASSUME LedgerInv, NEW w \in Workers, NEW i \in Invoices, ConfirmAllocate(w, i)
  PROVE  LedgerInv'
<1>1. TypeOK'
  BY RowNumbers DEF LedgerInv, TypeOK, NeverOverpaid, Balance, ConfirmAllocate, Share, MinOf, db
<1>2. (LocalsInOrder /\ NeverOverpaid /\ StatusMatchesAmounts /\ PlanStaysValid)'
  BY RowNumbers DEF LedgerInv, TypeOK, LocalsInOrder, NeverOverpaid, StatusMatchesAmounts,
     PlanStaysValid, IsOpen, Balance,
     ConfirmAllocate, Share, MinOf, db
<1> QED
  BY <1>1, <1>2 DEF LedgerInv

LEMMA StepConfirmCommit ==
  ASSUME LedgerInv, NEW w \in Workers, ConfirmCommit(w)
  PROVE  LedgerInv'
<1>1. /\ cur[w] \in Payments /\ left[w] \in Nat /\ row[w] \in PaymentRow
      /\ row[w].amount - left[w] \in Nat
  BY DEF LedgerInv, TypeOK, LocalsInOrder, ConfirmCommit, PaymentRow
<1>2. pay' \in [Payments -> PaymentRow] /\ overwritten' \subseteq Payments
  BY <1>1, SavedRows DEF LedgerInv, TypeOK, ConfirmCommit, SaveRow
<1>3. alloc' \in [Payments -> [Invoices -> Nat]]
  BY <1>1 DEF LedgerInv, TypeOK, ConfirmCommit
<1>4. \A i \in Invoices : got[w][i] > 0 =>
         lock[i] = w /\ IsOpen(i) /\ got[w][i] <= Balance(i)
  BY DEF LedgerInv, PlanStaysValid, ConfirmCommit
<1>5. \A i \in Invoices :
         /\ got[w][i] \in Nat
         /\ inv[i] \in InvoiceRow
         /\ inv[i].paid \in Nat /\ inv[i].total \in Nat
         /\ inv'[i] = Credit(inv[i], got[w][i])
  BY DEF LedgerInv, TypeOK, ConfirmCommit, InvoiceRow
<1>6. inv' \in [Invoices -> InvoiceRow]
  BY <1>5, CreditedRow DEF ConfirmCommit
<1>7. \A i \in Invoices :
         /\ inv'[i].total = inv[i].total
         /\ inv'[i].paid = inv[i].paid + got[w][i]
         /\ got[w][i] = 0 => inv'[i] = inv[i]
         /\ got[w][i] > 0 => inv'[i].status =
                 InvoiceStatusFromAmounts(inv[i].total, inv[i].paid + got[w][i])
  <2> TAKE i \in Invoices
  <2> DEFINE r == inv[i]
             a == got[w][i]
  <2>1. r \in InvoiceRow /\ a \in Nat /\ inv'[i] = Credit(r, a)
    BY <1>5
  <2> HIDE DEF r, a
  <2>2. /\ inv'[i].total = r.total
        /\ inv'[i].paid = r.paid + a
        /\ a = 0 => inv'[i] = r
        /\ a > 0 => inv'[i].status = InvoiceStatusFromAmounts(r.total, r.paid + a)
    BY <2>1, CreditedRow
  <2> QED
    BY <2>2 DEF r, a
<1>8. TypeOK'
  BY <1>1, <1>2, <1>3, <1>6, SavedRows
     DEF LedgerInv, TypeOK, ConfirmCommit, Unlock, Goto, NoGot
<1>9. NeverOverpaid'
  BY <1>4, <1>5, <1>7 DEF LedgerInv, NeverOverpaid, Balance
<1>10. StatusMatchesAmounts'
  BY <1>5, <1>7 DEF LedgerInv, StatusMatchesAmounts
<1>11. \A i \in Invoices : inv'[i].status = "absent" => inv'[i].paid = 0
  BY <1>5, <1>7 DEF LedgerInv, LocalsInOrder, InvoiceStatusFromAmounts
<1>12. LocalsInOrder'
  BY <1>11 DEF LedgerInv, TypeOK, LocalsInOrder, ConfirmCommit, Goto, NoGot
<1>13. ASSUME NEW v \in Workers \ {w}, pc[v] \in {"locking", "allocate"},
              NEW i \in Invoices
       PROVE  /\ i \in unpaid[v] => lock'[i] = v /\ inv'[i] = inv[i]
              /\ got[v][i] > 0 => inv'[i] = inv[i] /\ alloc'[cur[v]][i] = 0
  <2>1. i \in unpaid[v] => lock[i] = v /\ got[w][i] = 0
    BY <1>4, <1>5, <1>13 DEF LedgerInv, PlanStaysValid
  <2>2. got[v][i] > 0 => i \in unpaid[v] /\ alloc[cur[v]][i] = 0
    BY <1>13 DEF LedgerInv, PlanStaysValid
  <2>3. cur[v] \in Payments
    BY <1>13 DEF LedgerInv, TypeOK
  <2>4. got[w][i] = 0 => alloc'[cur[v]][i] = alloc[cur[v]][i]
    BY <2>3 DEF LedgerInv, TypeOK, ConfirmCommit
  <2> QED
    BY <1>7, <2>1, <2>2, <2>4 DEF ConfirmCommit, Unlock
<1>14. PlanStaysValid'
  BY <1>13 DEF LedgerInv, TypeOK, PlanStaysValid, ConfirmCommit, Goto, IsOpen, Balance
<1> QED
  BY <1>8, <1>9, <1>10, <1>12, <1>14 DEF LedgerInv

LEMMA StepRecordPaymentIncome ==
  ASSUME LedgerInv, NEW w \in Workers, RecordPaymentIncome(w)
  PROVE  LedgerInv'
<1>1. /\ cash' \in SUBSET Payments /\ pay' \in [Payments -> PaymentRow]
      /\ overwritten' \subseteq Payments
  BY DEF LedgerInv, TypeOK, RecordPaymentIncome
<1>2. CASE unpaid[w] # {}
  <2>1. /\ pc[w] = "income"
        /\ pc' = [pc EXCEPT ![w] = "check"]
        /\ UNCHANGED <<inv, pay, alloc, overwritten, gw, lock, cur, row, by, todo, unpaid, got,
                       left, trx>>
    BY <1>2 DEF RecordPaymentIncome, local, Goto
  <2>2. TypeOK'
    BY <1>1, <2>1 DEF LedgerInv, TypeOK
  <2> QED
    BY <2>1, <2>2, StepQuiet DEF LedgerInv, TypeOK
<1>3. CASE unpaid[w] = {}
  BY <1>1, <1>3, StepReturn DEF RecordPaymentIncome
<1> QED
  BY <1>2, <1>3

LEMMA StepConfirmCheckPaid ==
  ASSUME LedgerInv, NEW w \in Workers, NEW i \in Invoices, ConfirmCheckPaid(w, i)
  PROVE  LedgerInv'
<1>1. /\ cash' \in SUBSET Payments /\ pay' \in [Payments -> PaymentRow]
      /\ overwritten' \subseteq Payments
  BY DEF LedgerInv, TypeOK, ConfirmCheckPaid, db
<1>2. CASE ~Done(w)
  <2>1. PICK step \in {"restore", "check"} :
        /\ pc[w] = "check"
        /\ pc' = [pc EXCEPT ![w] = step]
        /\ unpaid' = [unpaid EXCEPT ![w] = @ \ {i}]
        /\ UNCHANGED <<inv, pay, alloc, cash, overwritten, gw, lock, cur, row, by, todo, got,
                       left, trx>>
    BY <1>2 DEF ConfirmCheckPaid, db, Goto
  <2>2. TypeOK'
    BY <2>1 DEF LedgerInv, TypeOK
  <2> QED
    BY <2>1, <2>2, StepQuiet DEF LedgerInv, TypeOK
<1>3. CASE Done(w)
  BY <1>1, <1>3, StepReturn DEF ConfirmCheckPaid, db
<1> QED
  BY <1>2, <1>3

LEMMA StepRejectRead ==
  ASSUME LedgerInv, NEW w \in Workers, NEW p \in Payments, NEW b \in {"user", "gateway"}, RejectRead(w, p, b)
  PROVE  LedgerInv'
  BY LedgerAssumption DEF LedgerInv, TypeOK, LocalsInOrder, NeverOverpaid, StatusMatchesAmounts,
     PlanStaysValid, IsOpen, Balance, Exists,
     RejectRead, db, ReadRow, Goto

LEMMA StepRejectSave ==
  ASSUME LedgerInv, NEW w \in Workers, RejectSave(w)
  PROVE  LedgerInv'
<1>1. /\ cash' \in SUBSET Payments /\ pay' \in [Payments -> PaymentRow]
      /\ overwritten' \subseteq Payments
  BY SavedRows DEF LedgerInv, TypeOK, RejectSave, SaveRow
<1> QED
  BY <1>1, StepReturn DEF RejectSave

LEMMA StepRefundRead ==
  ASSUME LedgerInv, NEW w \in Workers, NEW p \in Payments, RefundRead(w, p)
  PROVE  LedgerInv'
  BY LedgerAssumption DEF LedgerInv, TypeOK, LocalsInOrder, NeverOverpaid, StatusMatchesAmounts,
     PlanStaysValid, IsOpen, Balance, Exists,
     RefundRead, db, ReadRow, Goto

LEMMA StepRefundSave ==
  ASSUME LedgerInv, NEW w \in Workers, RefundSave(w)
  PROVE  LedgerInv'
<1>1. /\ cash' \in SUBSET Payments /\ pay' \in [Payments -> PaymentRow]
      /\ overwritten' \subseteq Payments
  BY SavedRows DEF LedgerInv, TypeOK, RefundSave, SaveRow
<1> QED
  BY <1>1, StepReturn DEF RefundSave

LEMMA StepInitiateGateway ==
  ASSUME LedgerInv, NEW w \in Workers, NEW p \in Payments, InitiateGateway(w, p)
  PROVE  LedgerInv'
  BY LedgerAssumption DEF LedgerInv, TypeOK, LocalsInOrder, NeverOverpaid, StatusMatchesAmounts,
     PlanStaysValid, IsOpen, Balance, Exists,
     InitiateGateway, db, Goto

LEMMA StepSetGatewayRead ==
  ASSUME LedgerInv, NEW w \in Workers, SetGatewayRead(w)
  PROVE  LedgerInv'
<1>1. /\ cash' \in SUBSET Payments /\ pay' \in [Payments -> PaymentRow]
      /\ overwritten' \subseteq Payments
  BY DEF LedgerInv, TypeOK, SetGatewayRead, db
<1>2. CASE pay[cur[w]].trx # 0
  BY <1>1, <1>2, StepReturn DEF SetGatewayRead, db
<1>3. CASE pay[cur[w]].trx = 0
  <2>1. /\ pc[w] = "gwread"
        /\ pc' = [pc EXCEPT ![w] = "gwsave"]
        /\ cur' = [cur EXCEPT ![w] = cur[w]]
        /\ row' = [row EXCEPT ![w] = pay[cur[w]]]
        /\ UNCHANGED <<inv, pay, alloc, cash, overwritten, gw, lock, by, todo, unpaid, got, left,
                       trx>>
    BY <1>3 DEF SetGatewayRead, ReadRow, db, Goto
  <2>2. TypeOK'
    BY <2>1 DEF LedgerInv, TypeOK
  <2> QED
    BY <2>1, <2>2, StepQuiet DEF LedgerInv, TypeOK
<1> QED
  BY <1>2, <1>3

LEMMA StepSetGatewaySave ==
  ASSUME LedgerInv, NEW w \in Workers, SetGatewaySave(w)
  PROVE  LedgerInv'
<1>1. /\ cash' \in SUBSET Payments /\ pay' \in [Payments -> PaymentRow]
      /\ overwritten' \subseteq Payments
  BY SavedRows DEF LedgerInv, TypeOK, SetGatewaySave, SaveRow
<1> QED
  BY <1>1, StepReturn DEF SetGatewaySave

(* LedgerInv is preserved by every step: one case per action. *)
LEMMA LedgerStep == LedgerInv /\ [Next]_vars => LedgerInv'
<1> SUFFICES ASSUME LedgerInv, [Next]_vars PROVE LedgerInv'
  OBVIOUS
<1>1. CASE UNCHANGED vars
  BY <1>1 DEF vars, LedgerInv, TypeOK, LocalsInOrder, NeverOverpaid,
     StatusMatchesAmounts, PlanStaysValid, IsOpen, Balance
<1>2. CASE Rows
  BY <1>2, StepCreate, StepGenerateInvoice, StepCancelInvoice DEF Rows
<1>3. ASSUME NEW w \in Workers, Request(w) PROVE LedgerInv'
  BY <1>3, StepConfirmFastFail, StepRejectRead, StepRefundRead,
     StepInitiateGateway DEF Request
<1>4. ASSUME NEW w \in Workers, Abandon(w) PROVE LedgerInv'
  BY <1>4, StepRollback DEF Abandon
<1>5. ASSUME NEW w \in Workers, Statement(w) PROVE LedgerInv'
  <2>1. CASE ConfirmRestore(w)
    BY <2>1, StepReturn DEF ConfirmRestore, db, LedgerInv, TypeOK
  <2>2. CASE DeadlockVictim(w)
    BY <2>2, StepRollback DEF DeadlockVictim
  <2>3. ASSUME NEW i \in Invoices, ConfirmDuplicate(w, i) PROVE LedgerInv'
    BY <2>3, StepRollback DEF ConfirmDuplicate
  <2> QED
    BY <1>5, <2>1, <2>2, <2>3, StepConfirmReread, StepConfirmSelect, StepConfirmPlan,
       StepConfirmLockRow, StepConfirmAllocate, StepConfirmCheckPaid, StepConfirmCommit,
       StepRecordPaymentIncome, StepRejectSave, StepRefundSave, StepSetGatewayRead,
       StepSetGatewaySave DEF Statement
<1> QED
  BY <1>1, <1>2, <1>3, <1>4, <1>5 DEF Next

(* Every reachable state satisfies the inductive invariant. *)
THEOREM LedgerInvariant == Spec => []LedgerInv
  BY InitLedger, LedgerStep, PTL DEF Spec

(* The tables and the workers' locals keep their types. *)
THEOREM TypeCorrect == Spec => []TypeOK
  BY LedgerInvariant, PTL DEF LedgerInv

(* However many payments are confirmed at once, no invoice is credited with
   more than it bills. *)
THEOREM NoInvoiceOverpaid == Spec => []NeverOverpaid
  BY LedgerInvariant, PTL DEF LedgerInv

(* The status column of every invoice not cancelled is the one its amounts
   call for. *)
THEOREM StatusFollowsAmounts == Spec => []StatusMatchesAmounts
  BY LedgerInvariant, PTL DEF LedgerInv

(* What a transaction of Confirm read under its row locks is still true when
   it commits. *)
THEOREM LockedPlanIsFresh == Spec => []PlanStaysValid
  BY LedgerInvariant, PTL DEF LedgerInv

(* The steps that write neither an invoice nor an allocation. *)
LEMMA OtherSteps ==
  ASSUME NEW w \in Workers, Request(w) \/ Statement(w) \/ Abandon(w), ~ConfirmCommit(w)
  PROVE  UNCHANGED <<inv, alloc>>
<1>1. CASE Request(w)
  BY <1>1 DEF Request, ConfirmFastFail, RejectRead, RefundRead, InitiateGateway, db
<1>2. CASE Abandon(w)
  BY <1>2 DEF Abandon, Rollback, db
<1>3. CASE Statement(w)
  BY <1>3 DEF Statement, ConfirmReread, ConfirmSelect, ConfirmPlan, ConfirmLockRow,
     ConfirmAllocate, ConfirmDuplicate, ConfirmCheckPaid, RecordPaymentIncome,
     ConfirmRestore, DeadlockVictim, RejectSave, RefundSave, SetGatewayRead,
     SetGatewaySave, Rollback, db
<1> QED
  BY <1>1, <1>2, <1>3

(* What a commit does to one invoice and to the allocations. *)
LEMMA CommitEffect ==
  ASSUME LedgerInv, NEW w \in Workers, ConfirmCommit(w)
  PROVE  /\ cur[w] \in Payments
         /\ \A q \in Payments \ {cur[w]} : alloc'[q] = alloc[q]
         /\ \A i \in Invoices :
              \/ /\ inv'[i] = inv[i]
                 /\ alloc'[cur[w]][i] = alloc[cur[w]][i]
              \/ /\ IsOpen(i)
                 /\ alloc[cur[w]][i] = 0
                 /\ alloc'[cur[w]][i] \in Nat \ {0}
                 /\ alloc'[cur[w]][i] <= Balance(i)
                 /\ inv'[i] = Credit(inv[i], alloc'[cur[w]][i])
<1>1. cur[w] \in Payments /\ alloc \in [Payments -> [Invoices -> Nat]]
  BY DEF LedgerInv, TypeOK, ConfirmCommit
<1>2. \A q \in Payments \ {cur[w]} : alloc'[q] = alloc[q]
  BY <1>1 DEF ConfirmCommit
<1>3. \A i \in Invoices :
         alloc'[cur[w]][i] = IF got[w][i] = 0 THEN alloc[cur[w]][i] ELSE got[w][i]
  BY <1>1 DEF ConfirmCommit
<1>4. \A i \in Invoices : inv'[i] = Credit(inv[i], got[w][i]) /\ got[w][i] \in Nat
                         /\ inv[i] \in InvoiceRow
  BY DEF LedgerInv, TypeOK, ConfirmCommit
<1>5. \A i \in Invoices : got[w][i] > 0 =>
         IsOpen(i) /\ alloc[cur[w]][i] = 0 /\ got[w][i] <= Balance(i)
  BY DEF LedgerInv, PlanStaysValid, ConfirmCommit
<1> QED
  BY <1>1, <1>2, <1>3, <1>4, <1>5, CreditedRow

(* A step of the ledger takes back no credit. *)
LEMMA CreditsKeptStep == LedgerInv /\ [Next]_vars => [CreditsKept]_vars
<1> SUFFICES ASSUME LedgerInv, Next PROVE CreditsKept
  BY DEF CreditsKept
<1>1. ASSUME UNCHANGED <<inv, alloc>> PROVE CreditsKept
  BY <1>1, RowNumbers DEF CreditsKept, LedgerInv
<1>2. CASE Rows
  <2>1. ASSUME NEW p \in Payments, NEW a \in Amounts, Create(p, a) PROVE CreditsKept
    BY <2>1, <1>1 DEF Create
  <2>2. ASSUME NEW i \in Invoices, NEW t \in Totals, GenerateInvoice(i, t) PROVE CreditsKept
    BY <2>2, RowNumbers DEF CreditsKept, GenerateInvoice, Exists, LedgerInv, LocalsInOrder, TypeOK
  <2>3. ASSUME NEW i \in Invoices, CancelInvoice(i) PROVE CreditsKept
    BY <2>3, RowNumbers, CancelledRow DEF CreditsKept, CancelInvoice, LedgerInv, TypeOK
  <2> QED
    BY <1>2, <2>1, <2>2, <2>3 DEF Rows
<1>3. ASSUME NEW w \in Workers, ConfirmCommit(w) PROVE CreditsKept
  <2>1. \A i \in Invoices : inv[i] \in InvoiceRow /\ inv[i].paid \in Nat
    BY RowNumbers DEF LedgerInv, TypeOK
  <2>2. ASSUME NEW i \in Invoices PROVE inv'[i].paid >= inv[i].paid
    <3>1. \/ inv'[i] = inv[i]
          \/ \E a \in Nat : inv'[i] = Credit(inv[i], a)
      BY <1>3, CommitEffect
    <3>2. ASSUME NEW a \in Nat PROVE Credit(inv[i], a).paid = inv[i].paid + a
      BY <2>1, CreditedRow
    <3> QED
      BY <2>1, <3>1, <3>2
  <2>3. \A i \in Invoices : inv[i].status = "paid" => inv'[i].status = "paid"
    BY <1>3, CommitEffect DEF IsOpen
  <2>4. \A i \in Invoices, p \in Payments : alloc[p][i] # 0 => alloc'[p][i] = alloc[p][i]
    BY <1>3, CommitEffect
  <2> QED
    BY <2>2, <2>3, <2>4 DEF CreditsKept
<1> QED
  BY <1>1, <1>2, <1>3, OtherSteps DEF Next

(* No operation of the service takes back a credited amount, reopens a paid
   invoice or changes an allocation row. *)
THEOREM CreditsNeverTakenBack == Spec => CreditsAreFinal
  BY LedgerInvariant, CreditsKeptStep, PTL DEF Spec, CreditsAreFinal

(* Every step of the ledger is a step of InvoiceAccounts or changes nothing
   that InvoiceAccounts sees. *)
LEMMA AccountsStep == LedgerInv /\ [Next]_vars => [Accounts!Next]_<<inv, alloc>>
<1> SUFFICES ASSUME LedgerInv, Next PROVE Accounts!Next \/ UNCHANGED <<inv, alloc>>
  BY DEF vars
<1>1. CASE Rows
  BY <1>1 DEF Rows, Create, GenerateInvoice, CancelInvoice, Exists,
     Accounts!Next, Accounts!Issue, Accounts!Void
<1>2. ASSUME NEW w \in Workers, ConfirmCommit(w) PROVE Accounts!Next
  <2> DEFINE p == cur[w]
  <2>1. p \in Payments /\ (\A q \in Payments \ {p} : alloc'[q] = alloc[q])
    BY <1>2, CommitEffect
  <2>2. ASSUME NEW i \in Invoices,
               ~(inv'[i] = inv[i] /\ alloc'[p][i] = alloc[p][i])
        PROVE  Accounts!Receives(p, i)
    <3>1. /\ IsOpen(i) /\ alloc[p][i] = 0 /\ alloc'[p][i] \in Nat \ {0}
          /\ alloc'[p][i] <= Balance(i) /\ inv'[i] = Credit(inv[i], alloc'[p][i])
      BY <1>2, <2>2, CommitEffect
    <3>2. inv[i].paid \in Nat /\ inv[i].total \in Nat
      BY RowNumbers DEF LedgerInv
    <3>3. InvoiceStatusFromAmounts(inv[i].total, inv[i].paid + alloc'[p][i])
            = Accounts!Settled(inv[i].total, inv[i].paid + alloc'[p][i])
      BY <3>1, <3>2 DEF InvoiceStatusFromAmounts, Accounts!Settled
    <3>4. inv'[i] = [inv[i] EXCEPT
                !.paid = inv[i].paid + alloc'[p][i],
                !.status = Accounts!Settled(inv[i].total, inv[i].paid + alloc'[p][i])]
      BY <3>1, <3>3 DEF Credit
    <3>5. inv[i].paid + alloc'[p][i] <= inv[i].total /\ alloc'[p][i] > 0
      BY <3>1, <3>2 DEF Balance
    <3> QED
      BY <3>1, <3>4, <3>5 DEF Accounts!Receives, IsOpen
  <2>3. Accounts!Settle(p)
    BY <2>1, <2>2 DEF Accounts!Settle
  <2> QED
    BY <2>1, <2>3 DEF Accounts!Next
<1> QED
  BY <1>1, <1>2, OtherSteps DEF Next

(* The statement-by-statement ledger implements the atomic one. *)
THEOREM LedgerImplementsAccounts == Spec => AccountsSpec
<1>1. Init => Accounts!Init
  BY DEF Init, Accounts!Init, NoInvoice, NoGot
<1> QED
  BY <1>1, LedgerInvariant, AccountsStep, PTL DEF Spec, AccountsSpec, Accounts!Spec
-----------------------------------------------------------------------------
(* Invoices and allocation rows *)

(* No step parts paid_amount from the allocation rows. *)
LEMMA InvoiceLedgerStep == LedgerInv /\ InvoiceLedger /\ [Next]_vars => InvoiceLedger'
<1> SUFFICES ASSUME LedgerInv, InvoiceLedger, [Next]_vars PROVE InvoiceLedger'
  OBVIOUS
<1>1. ASSUME alloc' = alloc, \A i \in Invoices : inv'[i].paid = inv[i].paid
      PROVE  InvoiceLedger'
  BY <1>1 DEF InvoiceLedger, CreditedTo
<1>2. CASE UNCHANGED <<inv, alloc>>
  BY <1>1, <1>2
<1>3. CASE Rows
  <2>1. ASSUME NEW p \in Payments, NEW a \in Amounts, Create(p, a) PROVE InvoiceLedger'
    BY <2>1, <1>2 DEF Create
  <2>2. ASSUME NEW i \in Invoices, NEW t \in Totals, GenerateInvoice(i, t)
        PROVE  InvoiceLedger'
    BY <2>2, <1>1 DEF GenerateInvoice, Exists, LedgerInv, LocalsInOrder, TypeOK
  <2>3. ASSUME NEW i \in Invoices, CancelInvoice(i) PROVE InvoiceLedger'
    BY <2>3, <1>1, CancelledRow DEF CancelInvoice, LedgerInv, TypeOK
  <2> QED
    BY <1>3, <2>1, <2>2, <2>3 DEF Rows
<1>4. ASSUME NEW w \in Workers, ConfirmCommit(w) PROVE InvoiceLedger'
  <2> SUFFICES ASSUME NEW i \in Invoices PROVE inv'[i].paid = CreditedTo(i)'
    BY DEF InvoiceLedger
  <2> DEFINE before == [p \in Payments |-> alloc[p][i]]
             after  == [p \in Payments |-> alloc'[p][i]]
             c      == cur[w]
  <2>1. LedgerInv'
    BY <1>4, StepConfirmCommit
  <2>2. before \in [Payments -> Nat] /\ after \in [Payments -> Nat]
    BY <2>1 DEF LedgerInv, TypeOK
  <2>3. c \in Payments /\ \A p \in Payments \ {c} : after[p] = before[p]
    BY <1>4, CommitEffect
  <2>4. /\ SumFunction(before) \in Nat /\ SumFunction(after) \in Nat
        /\ SumFunction(after) + before[c] = SumFunction(before) + after[c]
    <3> HIDE DEF before, after, c
    <3> QED
      BY <2>2, <2>3, SumChange, LedgerAssumption
  <2>5. inv[i] \in InvoiceRow /\ inv[i].paid \in Nat /\ inv[i].paid = SumFunction(before)
    BY RowNumbers DEF LedgerInv, TypeOK, InvoiceLedger, CreditedTo
  <2>6. CreditedTo(i)' = SumFunction(after)
    BY DEF CreditedTo
  <2>7. before[c] = alloc[c][i] /\ after[c] = alloc'[c][i]
    BY <2>3
  <2>8. CASE inv'[i] = inv[i] /\ alloc'[c][i] = alloc[c][i]
    <3> HIDE DEF before, after, c
    <3>1. after[c] \in Nat /\ before[c] = after[c]
      BY <2>2, <2>3, <2>7, <2>8
    <3> QED
      BY <2>4, <2>5, <2>6, <2>8, <3>1
  <2>9. CASE alloc[c][i] = 0 /\ alloc'[c][i] \in Nat
             /\ inv'[i] = Credit(inv[i], alloc'[c][i])
    <3> HIDE DEF before, after, c
    <3>1. ASSUME NEW n \in Nat PROVE Credit(inv[i], n).paid = inv[i].paid + n
      BY <2>5, CreditedRow
    <3>2. inv'[i].paid = inv[i].paid + after[c]
      BY <2>7, <2>9, <3>1
    <3> QED
      BY <2>2, <2>3, <2>4, <2>5, <2>6, <2>7, <2>9, <3>2
  <2> QED
    BY <1>4, <2>8, <2>9, CommitEffect
<1> QED
  BY <1>2, <1>3, <1>4, OtherSteps DEF Next, vars

(* For any number of requests, interleaved, abandoned or chosen as deadlock
   victims, paid_amount is the sum of the allocation rows of the invoice. *)
THEOREM PaidIsAllocated == Spec => []InvoiceLedger
<1>1. Init => InvoiceLedger
  <2> SUFFICES ASSUME Init, NEW i \in Invoices PROVE inv[i].paid = CreditedTo(i)
    BY DEF InvoiceLedger
  <2> DEFINE f == [p \in Payments |-> alloc[p][i]]
  <2>1. DOMAIN f = Payments /\ \A p \in Payments : f[p] = 0
    BY DEF Init, NoGot
  <2>2. SumFunction(f) = 0
    <3> HIDE DEF f
    <3> QED
      BY <2>1, SumZero, LedgerAssumption
  <2> QED
    BY <2>2 DEF Init, NoInvoice, CreditedTo
<1> QED
  BY <1>1, LedgerInvariant, InvoiceLedgerStep, PTL DEF Spec
-----------------------------------------------------------------------------
(* Payments, for any number of requests at once: what a request saves over a
   payment is the row it has checked, and as long as no request wrote the
   payment in between that is the payment. *)

Blank == {"absent", "pending", "rejected"}

(* What saving a row that was read changes of it. *)
LEMMA SavedFields ==
  ASSUME NEW r \in PaymentRow, NEW n \in Nat
  PROVE  LET rejected  == [r EXCEPT !.status = "rejected"]
             refunded  == [r EXCEPT !.status = "refunded", !.refund = "some"]
             forwarded == [r EXCEPT !.trx = n]
             confirmed == [r EXCEPT !.status = "confirmed", !.allocated = n]
         IN  /\ \A x \in {rejected, refunded, forwarded} :
                   x.amount = r.amount /\ x.allocated = r.allocated
             /\ rejected.status = "rejected" /\ refunded.status = "refunded"
             /\ forwarded.status = r.status /\ confirmed.status = "confirmed"
             /\ confirmed.amount = r.amount /\ confirmed.allocated = n
  BY DEF PaymentRow

(* Payments and allocation rows as they were. *)
LEMMA MoneyStays ==
  ASSUME PaymentInv, UNCHANGED <<pay, alloc, overwritten>>
  PROVE  NothingGiven' /\ PaymentConserved'
  BY DEF PaymentInv, NothingGiven, PaymentConserved, TakenFrom

(* One worker moves; the others keep what they hold. *)
LEMMA OthersStay ==
  ASSUME PaymentInv, NEW w \in Workers,
         \A v \in Workers \ {w} : /\ pc'[v] = pc[v] /\ row'[v] = row[v]
                                  /\ got'[v] = got[v] /\ left'[v] = left[v],
         pc'[w] \in InTx => CanConfirm(row'[w]),
         pc'[w] = "reject" => CanReject(row'[w]),
         pc'[w] = "refund" => CanRefund(row'[w]),
         pc'[w] = "allocate" => SumFunction(got'[w]) + left'[w] = row'[w].amount
  PROVE  RowIsChecked' /\ PlanAddsUp'
<1>1. RowIsChecked'
  <2> SUFFICES ASSUME NEW v \in Workers
               PROVE  /\ pc'[v] \in InTx => CanConfirm(row'[v])
                      /\ pc'[v] = "reject" => CanReject(row'[v])
                      /\ pc'[v] = "refund" => CanRefund(row'[v])
    BY DEF RowIsChecked, CanConfirm, CanReject, CanRefund
  <2>1. CASE v = w
    BY <2>1
  <2>2. CASE v # w
    BY <2>2 DEF PaymentInv, RowIsChecked
  <2> QED
    BY <2>1, <2>2
<1>2. PlanAddsUp'
  <2> SUFFICES ASSUME NEW v \in Workers, pc'[v] = "allocate"
               PROVE  SumFunction(got'[v]) + left'[v] = row'[v].amount
    BY DEF PlanAddsUp
  <2>1. CASE v = w
    BY <2>1
  <2>2. CASE v # w
    BY <2>2 DEF PaymentInv, PlanAddsUp
  <2> QED
    BY <2>1, <2>2
<1> QED
  BY <1>1, <1>2

(* A request returns without having written a payment. *)
LEMMA PayReturn ==
  ASSUME PaymentInv, LedgerInv', NEW w \in Workers, Done(w),
         UNCHANGED <<pay, alloc, overwritten>>
  PROVE  PaymentInv'
<1>1. /\ pc'[w] = "idle"
      /\ \A v \in Workers \ {w} : /\ pc'[v] = pc[v] /\ row'[v] = row[v]
                                  /\ got'[v] = got[v] /\ left'[v] = left[v]
  BY DEF Done, Goto, PaymentInv, LedgerInv, TypeOK
<1>2. RowIsChecked' /\ PlanAddsUp'
  BY <1>1, OthersStay
<1> QED
  BY <1>2, MoneyStays DEF PaymentInv

(* A request saves the row it read, with its money, and does not take a
   payment that has given some back to pending or rejected; then it returns. *)
LEMMA PaySave ==
  ASSUME PaymentInv, LedgerInv', NEW w \in Workers, Done(w), UNCHANGED alloc,
         cur[w] \in Payments, NEW r \in PaymentRow, SaveRow(w, r),
         r.amount = row[w].amount, r.allocated = row[w].allocated,
         r.status \in Blank => row[w].status \in Blank
  PROVE  PaymentInv'
<1>1. /\ pc'[w] = "idle"
      /\ \A v \in Workers \ {w} : /\ pc'[v] = pc[v] /\ row'[v] = row[v]
                                  /\ got'[v] = got[v] /\ left'[v] = left[v]
  BY DEF Done, Goto, PaymentInv, LedgerInv, TypeOK
<1>2. RowIsChecked' /\ PlanAddsUp'
  BY <1>1, OthersStay
<1>3. pay'[cur[w]] = r /\ \A p \in Payments \ {cur[w]} : pay'[p] = pay[p]
  BY DEF SaveRow, PaymentInv, LedgerInv, TypeOK
<1>4. \A p \in Payments \ overwritten' :
         p \notin overwritten /\ (p = cur[w] => row[w] = pay[p])
  BY DEF SaveRow
<1>5. \A p \in Payments \ overwritten' :
         /\ pay'[p].amount = pay[p].amount /\ pay'[p].allocated = pay[p].allocated
         /\ pay'[p].status \in Blank => pay[p].status \in Blank
  BY <1>3, <1>4
<1>6. NothingGiven'
  BY <1>4, <1>5 DEF PaymentInv, NothingGiven, Blank
<1>7. PaymentConserved'
  BY <1>4, <1>5 DEF PaymentInv, PaymentConserved, TakenFrom, Blank
<1> QED
  BY <1>2, <1>6, <1>7 DEF PaymentInv

(* A statement outside the loop of CalculateAllocations that writes no
   payment: the row held stays, or a row is read that passes its check. *)
LEMMA PayRead ==
  ASSUME PaymentInv, LedgerInv', NEW w \in Workers, NEW step \in Steps \ {"allocate"},
         pc' = [pc EXCEPT ![w] = step], NEW r,
         row' = [row EXCEPT ![w] = r],
         step \in InTx => CanConfirm(r),
         step = "reject" => CanReject(r),
         step = "refund" => CanRefund(r),
         UNCHANGED <<pay, alloc, overwritten, got, left>>
  PROVE  PaymentInv'
<1>1. /\ pc'[w] = step /\ row'[w] = r
      /\ \A v \in Workers \ {w} : pc'[v] = pc[v] /\ row'[v] = row[v]
  BY DEF PaymentInv, LedgerInv, TypeOK
<1>2. RowIsChecked' /\ PlanAddsUp'
  BY <1>1, OthersStay
<1> QED
  BY <1>2, MoneyStays DEF PaymentInv

LEMMA PayPass ==
  ASSUME PaymentInv, LedgerInv', NEW w \in Workers, NEW step \in Steps \ {"allocate"},
         pc' = [pc EXCEPT ![w] = step],
         step \in InTx => pc[w] \in InTx,
         step \notin {"reject", "refund"},
         UNCHANGED <<pay, alloc, overwritten, row, got, left>>
  PROVE  PaymentInv'
<1>1. row' = [row EXCEPT ![w] = row[w]]
  BY DEF PaymentInv, LedgerInv, TypeOK
<1>2. step \in InTx => CanConfirm(row[w])
  BY DEF PaymentInv, RowIsChecked
<1> QED
  BY <1>1, <1>2, PayRead

LEMMA PayCreate ==
  ASSUME PaymentInv, LedgerInv', NEW p \in Payments, NEW a \in Amounts, Create(p, a)
  PROVE  PaymentInv'
<1> DEFINE new == [NoPayment EXCEPT !.status = "pending", !.amount = a]
<1>1. new.status = "pending" /\ new.amount = a /\ new.allocated = 0 /\ a \in Nat
  BY LedgerAssumption DEF NoPayment
<1>2. pay' = [pay EXCEPT ![p] = new] /\ pay[p].status = "absent"
  BY DEF Create
<1>3. UNCHANGED <<alloc, overwritten, pc, cur, row, got, left>>
  BY DEF Create, local
<1> HIDE DEF new
<1>4. pay'[p] = new /\ \A q \in Payments \ {p} : pay'[q] = pay[q]
  BY <1>2 DEF PaymentInv, LedgerInv, TypeOK
<1>5. RowIsChecked' /\ PlanAddsUp'
  BY <1>3 DEF PaymentInv, RowIsChecked, PlanAddsUp, CanConfirm, CanReject, CanRefund
<1>6. NothingGiven'
  BY <1>2, <1>3, <1>4 DEF PaymentInv, NothingGiven
<1>7. \A q \in Payments : TakenFrom(q)' = TakenFrom(q)
  BY <1>3 DEF TakenFrom
<1>8. p \notin overwritten => TakenFrom(p) = 0
  BY <1>2 DEF PaymentInv, PaymentConserved
<1>9. PaymentConserved'
  BY <1>1, <1>3, <1>4, <1>7, <1>8 DEF PaymentInv, PaymentConserved
<1> QED
  BY <1>5, <1>6, <1>9 DEF PaymentInv

LEMMA PayPlan ==
  ASSUME PaymentInv, LedgerInv', NEW w \in Workers, ConfirmPlan(w)
  PROVE  PaymentInv'
<1>1. /\ UNCHANGED <<pay, alloc, overwritten, row, got>>
      /\ pc'[w] = "allocate" /\ pc[w] = "locking" /\ left'[w] = row[w].amount
      /\ \A v \in Workers \ {w} : pc'[v] = pc[v] /\ left'[v] = left[v]
  BY DEF ConfirmPlan, Goto, db, PaymentInv, LedgerInv, TypeOK
<1>2. SumFunction(got[w]) = 0
  <2>1. got[w] \in [Invoices -> Nat] /\ \A i \in Invoices : got[w][i] = 0
    BY <1>1 DEF PaymentInv, LedgerInv, TypeOK, LocalsInOrder
  <2> QED
    BY <2>1, SumZero, LedgerAssumption
<1>3. row[w].amount \in Nat
  BY RowNumbers DEF PaymentInv, LedgerInv
<1>4. CanConfirm(row[w])
  BY <1>1 DEF PaymentInv, RowIsChecked
<1>5. RowIsChecked' /\ PlanAddsUp'
  BY <1>1, <1>2, <1>3, <1>4, OthersStay
<1> QED
  BY <1>1, <1>5, MoneyStays DEF PaymentInv

LEMMA PayAllocate ==
  ASSUME PaymentInv, LedgerInv', NEW w \in Workers, NEW i \in Invoices,
         ConfirmAllocate(w, i)
  PROVE  PaymentInv'
<1> DEFINE f == got[w]
           h == got'[w]
           s == Share(w, i)
<1>1. /\ UNCHANGED <<pay, alloc, overwritten, pc, row>>
      /\ pc[w] = "allocate" /\ i \in todo[w]
      /\ left' = [left EXCEPT ![w] = @ - s] /\ got' = [got EXCEPT ![w][i] = s]
  BY DEF ConfirmAllocate, db
<1>2. f \in [Invoices -> Nat] /\ h \in [Invoices -> Nat] /\ left[w] \in Nat
  BY DEF PaymentInv, LedgerInv, TypeOK
<1>3. f[i] = 0
  BY <1>1 DEF PaymentInv, LedgerInv, LocalsInOrder
<1>4. h = [f EXCEPT ![i] = s]
  BY <1>1 DEF PaymentInv, LedgerInv, TypeOK
<1>5. /\ left'[w] = left[w] - s
      /\ \A v \in Workers \ {w} : got'[v] = got[v] /\ left'[v] = left[v]
  BY <1>1 DEF PaymentInv, LedgerInv, TypeOK
<1> HIDE DEF f, h, s
<1>6. h[i] = s /\ \A j \in Invoices \ {i} : h[j] = f[j]
  BY <1>2, <1>4
<1>7. /\ SumFunction(f) \in Nat /\ SumFunction(h) \in Nat
      /\ SumFunction(h) + f[i] = SumFunction(f) + h[i]
  BY <1>2, <1>6, SumChange, LedgerAssumption
<1>8. s \in Nat
  BY <1>2, <1>6
<1>9. SumFunction(f) + left[w] = row[w].amount
  BY <1>1 DEF PaymentInv, PlanAddsUp, f
<1>10. SumFunction(h) + left'[w] = row[w].amount
  BY <1>2, <1>3, <1>5, <1>6, <1>7, <1>8, <1>9
<1>11. CanConfirm(row[w])
  BY <1>1 DEF PaymentInv, RowIsChecked
<1>12. RowIsChecked' /\ PlanAddsUp'
  BY <1>1, <1>5, <1>10, <1>11, OthersStay DEF h
<1> QED
  BY <1>1, <1>12, MoneyStays DEF PaymentInv

(* The payment gives what was planned, which is what it has lost. *)
LEMMA PayCommit ==
  ASSUME PaymentInv, LedgerInv', NEW w \in Workers, ConfirmCommit(w)
  PROVE  PaymentInv'
<1> DEFINE c == cur[w]
           r == row[w]
           n == row[w].amount - left[w]
<1>1. /\ c \in Payments /\ r \in PaymentRow /\ left[w] \in Nat /\ n \in Nat
      /\ r.amount \in Nat /\ pc[w] = "allocate"
  BY RowNumbers DEF PaymentInv, LedgerInv, TypeOK, LocalsInOrder, ConfirmCommit
<1>2. \A p \in Payments \ overwritten' : p \notin overwritten /\ (p = c => pay[p] = r)
  BY DEF ConfirmCommit, SaveRow
<1>3. c \notin overwritten' => \A i \in Invoices : alloc[c][i] = 0
  BY <1>1, <1>2 DEF PaymentInv, RowIsChecked, CanConfirm, NothingGiven
<1>4. alloc' = [alloc EXCEPT ![c] =
                   [i \in Invoices |-> IF got[w][i] = 0 THEN @[i] ELSE got[w][i]]]
      /\ pay' = [pay EXCEPT ![c] = [r EXCEPT !.status = "confirmed", !.allocated = n]]
      /\ pc' = [pc EXCEPT ![w] = "income"]
  BY DEF ConfirmCommit, SaveRow, Goto
<1>5. got[w] \in [Invoices -> Nat] /\ alloc[c] \in [Invoices -> Nat]
  BY <1>1 DEF PaymentInv, LedgerInv, TypeOK
<1>6. /\ c \notin overwritten' => alloc'[c] = got[w]
      /\ \A p \in Payments \ {c} : alloc'[p] = alloc[p]
  <2>1. alloc'[c] = [i \in Invoices |-> IF got[w][i] = 0 THEN alloc[c][i] ELSE got[w][i]]
    BY <1>1, <1>4 DEF PaymentInv, LedgerInv, TypeOK
  <2>2. ASSUME c \notin overwritten' PROVE alloc'[c] = got[w]
    <3>1. alloc'[c] = [i \in Invoices |-> got[w][i]]
      BY <1>3, <2>1, <2>2
    <3> QED
      BY <1>5, <3>1
  <2> QED
    BY <1>4, <2>2 DEF PaymentInv, LedgerInv, TypeOK
<1>7. SumFunction(got[w]) \in Nat /\ SumFunction(got[w]) + left[w] = r.amount
  <2>1. SumFunctionOnSet(got[w], Invoices) \in Nat
    BY <1>5, SumIsNat, LedgerAssumption
  <2>2. DOMAIN got[w] = Invoices
    BY <1>5
  <2> QED
    BY <1>1, <2>1, <2>2 DEF SumFunction, PaymentInv, PlanAddsUp
<1>8. /\ \A p \in Payments \ {c} : pay'[p] = pay[p]
      /\ pay'[c].status = "confirmed" /\ pay'[c].amount = r.amount /\ pay'[c].allocated = n
  <2> DEFINE x == [r EXCEPT !.status = "confirmed", !.allocated = n]
  <2>1. x.status = "confirmed" /\ x.amount = r.amount /\ x.allocated = n
    <3> HIDE DEF r, n
    <3> QED
      BY <1>1, SavedFields
  <2>2. pay'[c] = x
    <3>1. pay' = [pay EXCEPT ![c] = x] /\ pay \in [Payments -> PaymentRow]
      BY <1>4 DEF PaymentInv, LedgerInv, TypeOK
    <3> HIDE DEF x
    <3> QED
      BY <1>1, <3>1
  <2>3. \A p \in Payments \ {c} : pay'[p] = pay[p]
    BY <1>4 DEF PaymentInv, LedgerInv, TypeOK
  <2> HIDE DEF x
  <2> QED
    BY <2>1, <2>2, <2>3
<1>9. \A p \in Payments \ overwritten' : p = c => TakenFrom(p)' = n
  <2>1. SumFunction(got[w]) = n
    BY <1>1, <1>7
  <2> QED
    BY <1>6, <2>1 DEF TakenFrom
<1>10. \A p \in Payments \ {c} : TakenFrom(p)' = TakenFrom(p)
  BY <1>6 DEF TakenFrom
<1>11. n <= r.amount
  BY <1>1
<1>12. RowIsChecked' /\ PlanAddsUp'
  <2>1. /\ pc'[w] = "income"
        /\ \A v \in Workers \ {w} : /\ pc'[v] = pc[v] /\ row'[v] = row[v]
                                    /\ got'[v] = got[v] /\ left'[v] = left[v]
    BY <1>4 DEF ConfirmCommit, PaymentInv, LedgerInv, TypeOK
  <2> QED
    BY <2>1, OthersStay
<1> HIDE DEF c, r, n
<1>13. PaymentConserved'
  BY <1>2, <1>8, <1>9, <1>10, <1>11 DEF PaymentInv, PaymentConserved
<1>14. NothingGiven'
  BY <1>2, <1>6, <1>8 DEF PaymentInv, NothingGiven
<1> QED
  BY <1>12, <1>13, <1>14 DEF PaymentInv

(* PaymentInv is preserved by every step: one case per action. *)
LEMMA PaymentStep == PaymentInv /\ [Next]_vars => PaymentInv'
<1> SUFFICES ASSUME PaymentInv, [Next]_vars PROVE PaymentInv'
  OBVIOUS
<1>0. LedgerInv /\ LedgerInv'
  BY LedgerStep DEF PaymentInv
<1>t. /\ \A w \in Workers : pc[w] # "idle" => cur[w] \in Payments
      /\ \A w \in Workers : row[w] \in PaymentRow /\ trx[w] \in Nat
      /\ \A w \in Workers : row = [row EXCEPT ![w] = row[w]]
  BY <1>0 DEF LedgerInv, TypeOK
<1>1. CASE UNCHANGED vars
  <2>1. RowIsChecked' /\ PlanAddsUp'
    BY <1>1 DEF vars, PaymentInv, RowIsChecked, PlanAddsUp, CanConfirm, CanReject, CanRefund
  <2> QED
    BY <1>0, <1>1, <2>1, MoneyStays DEF vars, PaymentInv
<1>2. CASE Rows
  <2>1. ASSUME NEW p \in Payments, NEW a \in Amounts, Create(p, a) PROVE PaymentInv'
    BY <1>0, <2>1, PayCreate
  <2>2. ASSUME UNCHANGED <<pay, alloc, cash, overwritten, gw, lock, pc, local>> PROVE PaymentInv'
    <3>1. RowIsChecked' /\ PlanAddsUp'
      BY <2>2 DEF local, PaymentInv, RowIsChecked, PlanAddsUp, CanConfirm, CanReject, CanRefund
    <3> QED
      BY <1>0, <2>2, <3>1, MoneyStays DEF PaymentInv
  <2> QED
    BY <1>2, <2>1, <2>2 DEF Rows, GenerateInvoice, CancelInvoice
<1>3. ASSUME NEW w \in Workers, Rollback(w) PROVE PaymentInv'
  BY <1>0, <1>3, PayReturn DEF Rollback, db
<1>4. ASSUME NEW w \in Workers, Request(w) PROVE PaymentInv'
  <2>1. ASSUME NEW p \in Payments, NEW b \in {"user", "gateway"},
               ConfirmFastFail(w, p, b)
        PROVE  PaymentInv'
    BY <1>0, <2>1, PayPass DEF ConfirmFastFail, Goto, db
  <2>2. ASSUME NEW p \in Payments, NEW b \in {"user", "gateway"}, RejectRead(w, p, b)
        PROVE  PaymentInv'
    <3>1. /\ pc' = [pc EXCEPT ![w] = "reject"] /\ row' = [row EXCEPT ![w] = pay[p]]
          /\ CanReject(pay[p]) /\ UNCHANGED <<pay, alloc, overwritten, got, left>>
      BY <2>2 DEF RejectRead, ReadRow, Goto, db
    <3>2. /\ "reject" \in Steps \ {"allocate"}
          /\ "reject" \in InTx => CanConfirm(pay[p])
          /\ "reject" = "reject" => CanReject(pay[p])
          /\ "reject" = "refund" => CanRefund(pay[p])
      BY <3>1
    <3> QED
      BY <1>0, <3>1, <3>2, PayRead
  <2>3. ASSUME NEW p \in Payments, RefundRead(w, p) PROVE PaymentInv'
    <3>1. /\ pc' = [pc EXCEPT ![w] = "refund"] /\ row' = [row EXCEPT ![w] = pay[p]]
          /\ CanRefund(pay[p]) /\ UNCHANGED <<pay, alloc, overwritten, got, left>>
      BY <2>3 DEF RefundRead, ReadRow, Goto, db
    <3>2. /\ "refund" \in Steps \ {"allocate"}
          /\ "refund" \in InTx => CanConfirm(pay[p])
          /\ "refund" = "reject" => CanReject(pay[p])
          /\ "refund" = "refund" => CanRefund(pay[p])
      BY <3>1
    <3> QED
      BY <1>0, <3>1, <3>2, PayRead
  <2>4. ASSUME NEW p \in Payments, InitiateGateway(w, p) PROVE PaymentInv'
    BY <1>0, <2>4, PayPass DEF InitiateGateway, Goto, db
  <2> QED
    BY <1>4, <2>1, <2>2, <2>3, <2>4 DEF Request
<1>5. ASSUME NEW w \in Workers, Statement(w) PROVE PaymentInv'
  <2>1. CASE ConfirmReread(w)
    <3>1. CASE CanConfirm(pay[cur[w]])
      BY <1>0, <2>1, <3>1, PayRead DEF ConfirmReread, Goto, db
    <3>2. CASE ~CanConfirm(pay[cur[w]])
      BY <1>3, <2>1, <3>2 DEF ConfirmReread
    <3> QED
      BY <3>1, <3>2
  <2>2. CASE ConfirmSelect(w)
    BY <1>0, <2>2, PayPass DEF ConfirmSelect, Goto, db
  <2>3. CASE ConfirmPlan(w)
    BY <1>0, <2>3, PayPlan
  <2>4. ASSUME NEW i \in Invoices, ConfirmLockRow(w, i) PROVE PaymentInv'
    <3>1. pc' = [pc EXCEPT ![w] = "locking"] /\ pc[w] = "locking"
      BY <1>0, <2>4 DEF ConfirmLockRow, LedgerInv, TypeOK
    <3> QED
      BY <1>0, <2>4, <3>1, PayPass DEF ConfirmLockRow, db
  <2>5. ASSUME NEW i \in Invoices, ConfirmAllocate(w, i) PROVE PaymentInv'
    BY <1>0, <2>5, PayAllocate
  <2>6. ASSUME NEW i \in Invoices, ConfirmDuplicate(w, i) PROVE PaymentInv'
    BY <1>3, <2>6 DEF ConfirmDuplicate
  <2>7. ASSUME NEW i \in Invoices, ConfirmCheckPaid(w, i) PROVE PaymentInv'
    <3>1. CASE Done(w)
      BY <1>0, <2>7, <3>1, PayReturn DEF ConfirmCheckPaid, db
    <3>2. CASE ~Done(w)
      <4>1. PICK step \in {"restore", "check"} : pc' = [pc EXCEPT ![w] = step]
        BY <2>7, <3>2 DEF ConfirmCheckPaid, Goto
      <4> QED
        BY <1>0, <2>7, <3>2, <4>1, PayPass DEF ConfirmCheckPaid, db
    <3> QED
      BY <3>1, <3>2
  <2>8. CASE ConfirmCommit(w)
    BY <1>0, <2>8, PayCommit
  <2>9. CASE RecordPaymentIncome(w)
    <3>1. CASE unpaid[w] # {}
      BY <1>0, <2>9, <3>1, PayPass DEF RecordPaymentIncome, Goto, local
    <3>2. CASE unpaid[w] = {}
      BY <1>0, <2>9, <3>2, PayReturn DEF RecordPaymentIncome
    <3> QED
      BY <3>1, <3>2
  <2>10. CASE ConfirmRestore(w)
    BY <1>0, <2>10, PayReturn DEF ConfirmRestore, db
  <2>11. CASE DeadlockVictim(w)
    BY <1>3, <2>11 DEF DeadlockVictim
  <2>12. CASE RejectSave(w)
    <3> DEFINE r == [row[w] EXCEPT !.status = "rejected"]
    <3>1. row[w].status \in Blank /\ cur[w] \in Payments
      BY <1>t, <2>12 DEF RejectSave, PaymentInv, RowIsChecked, CanReject, Blank
    <3>2. r \in PaymentRow /\ r.amount = row[w].amount /\ r.allocated = row[w].allocated
      BY <1>t, SavedRows, SavedFields
    <3>3. SaveRow(w, r) /\ Done(w) /\ UNCHANGED alloc
      BY <2>12 DEF RejectSave
    <3> HIDE DEF r
    <3> QED
      BY <1>0, <3>1, <3>2, <3>3, PaySave
  <2>13. CASE RefundSave(w)
    <3> DEFINE r == [row[w] EXCEPT !.status = "refunded", !.refund = "some"]
    <3>1. cur[w] \in Payments
      BY <1>t, <2>13 DEF RefundSave
    <3>2. /\ r \in PaymentRow /\ r.amount = row[w].amount /\ r.allocated = row[w].allocated
          /\ r.status = "refunded"
      BY <1>t, SavedRows, SavedFields
    <3>3. SaveRow(w, r) /\ Done(w) /\ UNCHANGED alloc
      BY <2>13 DEF RefundSave
    <3> HIDE DEF r
    <3>4. r.status \notin Blank
      BY <3>2 DEF Blank
    <3> QED
      BY <1>0, <3>1, <3>2, <3>3, <3>4, PaySave
  <2>14. CASE SetGatewayRead(w)
    <3>1. CASE pay[cur[w]].trx # 0
      BY <1>0, <2>14, <3>1, PayReturn DEF SetGatewayRead, db
    <3>2. CASE pay[cur[w]].trx = 0
      BY <1>0, <2>14, <3>2, PayRead DEF SetGatewayRead, ReadRow, Goto, db
    <3> QED
      BY <3>1, <3>2
  <2>15. CASE SetGatewaySave(w)
    <3> DEFINE r == [row[w] EXCEPT !.trx = trx[w]]
    <3>1. cur[w] \in Payments
      BY <1>t, <2>15 DEF SetGatewaySave
    <3>2. /\ r \in PaymentRow /\ r.amount = row[w].amount /\ r.allocated = row[w].allocated
          /\ r.status = row[w].status
      <4>1. row[w] \in PaymentRow /\ trx[w] \in Nat
        BY <1>t
      <4>2. ASSUME NEW q \in PaymentRow, NEW n \in Nat
            PROVE  LET x == [q EXCEPT !.trx = n]
                   IN  /\ x \in PaymentRow /\ x.amount = q.amount
                       /\ x.allocated = q.allocated /\ x.status = q.status
        BY DEF PaymentRow
      <4> QED
        BY <4>1, <4>2
    <3>3. SaveRow(w, r) /\ Done(w) /\ UNCHANGED alloc
      BY <2>15 DEF SetGatewaySave
    <3> HIDE DEF r
    <3> QED
      BY <1>0, <3>1, <3>2, <3>3, PaySave
  <2> QED
    BY <1>5, <2>1, <2>2, <2>3, <2>4, <2>5, <2>6, <2>7, <2>8, <2>9, <2>10, <2>11, <2>12,
       <2>13, <2>14, <2>15 DEF Statement
<1> QED
  BY <1>1, <1>2, <1>3, <1>4, <1>5 DEF Next, Abandon

LEMMA PaymentInit == Init => PaymentInv
<1> SUFFICES ASSUME Init PROVE PaymentInv
  OBVIOUS
<1>1. RowIsChecked /\ PlanAddsUp /\ NothingGiven
  BY DEF Init, RowIsChecked, PlanAddsUp, NothingGiven, NoGot
<1>2. \A p \in Payments : TakenFrom(p) = 0
  <2> TAKE p \in Payments
  <2>1. alloc[p] \in [Invoices -> Nat] /\ \A i \in Invoices : alloc[p][i] = 0
    BY DEF Init, NoGot
  <2>2. SumFunction(alloc[p]) = 0
    BY <2>1, SumZero, LedgerAssumption
  <2> QED
    BY <2>2 DEF TakenFrom
<1>3. PaymentConserved
  BY <1>2 DEF PaymentConserved, Init, NoPayment
<1> QED
  BY <1>1, <1>3, InitLedger DEF PaymentInv

(* Any number of requests at once, abandoned at any statement: a payment gives
   no more than it holds, allocated_amount is what its allocation rows say,
   and a payment not confirmed has given nothing, unless a request saved a row
   that had changed since it read it (Confirm, Reject, Refund,
   SetGatewayInfo). *)
THEOREM PaymentsAreConserved == Spec => []PaymentConserved
<1>1. PaymentInv => PaymentConserved
  BY DEF PaymentInv
<1> QED
  BY <1>1, PaymentInit, PaymentStep, PTL DEF Spec

(* The rows written are those read, with the one status the check allows. *)
LEMMA LegalStep == PaymentInv /\ [Next]_vars => [StatusLegal]_vars
<1> SUFFICES ASSUME PaymentInv, Next PROVE StatusLegal
  OBVIOUS
<1>0. /\ pay \in [Payments -> PaymentRow]
      /\ \A w \in Workers : /\ row[w] \in PaymentRow /\ trx[w] \in Nat
                            /\ pc[w] # "idle" => cur[w] \in Payments
      /\ \A w \in Workers : pc[w] = "allocate" => row[w].amount - left[w] \in Nat
  BY RowNumbers DEF PaymentInv, LedgerInv, TypeOK, LocalsInOrder
<1>1. ASSUME UNCHANGED pay PROVE StatusLegal
  BY <1>1 DEF StatusLegal
<1>2. ASSUME NEW c \in Payments, NEW r, pay' = [pay EXCEPT ![c] = r],
             c \notin overwritten' =>
             \/ r.status = pay[c].status
             \/ <<pay[c].status, r.status>> \in
                  {<<"absent", "pending">>, <<"pending", "confirmed">>,
                   <<"pending", "rejected">>, <<"confirmed", "refunded">>}
      PROVE  StatusLegal
  <2>1. pay'[c] = r /\ \A p \in Payments \ {c} : pay'[p] = pay[p]
    BY <1>0, <1>2
  <2> QED
    BY <1>2, <2>1 DEF StatusLegal
<1>3. ASSUME NEW p \in Payments, NEW a \in Amounts, Create(p, a) PROVE StatusLegal
  <2>1. [NoPayment EXCEPT !.status = "pending", !.amount = a].status = "pending"
    BY DEF NoPayment
  <2> QED
    BY <1>2, <1>3, <2>1 DEF Create
<1>s. ASSUME NEW w \in Workers, pc[w] # "idle", NEW r, SaveRow(w, r),
             \/ r.status = row[w].status
             \/ <<row[w].status, r.status>> \in
                  {<<"pending", "confirmed">>, <<"pending", "rejected">>,
                   <<"confirmed", "refunded">>}
      PROVE  StatusLegal
  <2>1. cur[w] \in Payments /\ pay' = [pay EXCEPT ![cur[w]] = r]
    BY <1>0, <1>s DEF SaveRow
  <2>2. cur[w] \notin overwritten' => row[w] = pay[cur[w]]
    BY <1>s DEF SaveRow
  <2> QED
    BY <1>2, <1>s, <2>1, <2>2
<1>4. ASSUME NEW w \in Workers, ConfirmCommit(w) PROVE StatusLegal
  <2> DEFINE n == row[w].amount - left[w]
             r == [row[w] EXCEPT !.status = "confirmed", !.allocated = n]
  <2>1. n \in Nat /\ pc[w] = "allocate" /\ row[w].status = "pending"
    BY <1>0, <1>4 DEF ConfirmCommit, PaymentInv, RowIsChecked, CanConfirm
  <2>2. r.status = "confirmed"
    BY <1>0, <2>1, SavedFields
  <2>3. SaveRow(w, r)
    BY <1>4 DEF ConfirmCommit
  <2> HIDE DEF r, n
  <2> QED
    BY <1>s, <2>1, <2>2, <2>3
<1>5. ASSUME NEW w \in Workers, RejectSave(w) PROVE StatusLegal
  <2>1. pc[w] = "reject" /\ row[w].status = "pending"
    BY <1>5 DEF RejectSave, PaymentInv, RowIsChecked, CanReject
  <2>2. [row[w] EXCEPT !.status = "rejected"].status = "rejected"
    BY <1>0, SavedFields
  <2> QED
    BY <1>s, <1>5, <2>1, <2>2 DEF RejectSave
<1>6. ASSUME NEW w \in Workers, RefundSave(w) PROVE StatusLegal
  <2>1. pc[w] = "refund" /\ row[w].status = "confirmed"
    BY <1>6 DEF RefundSave, PaymentInv, RowIsChecked, CanRefund
  <2>2. [row[w] EXCEPT !.status = "refunded", !.refund = "some"].status = "refunded"
    BY <1>0, SavedFields
  <2> QED
    BY <1>s, <1>6, <2>1, <2>2 DEF RefundSave
<1>7. ASSUME NEW w \in Workers, SetGatewaySave(w) PROVE StatusLegal
  <2>1. [row[w] EXCEPT !.trx = trx[w]].status = row[w].status
    BY <1>0, SavedFields
  <2> QED
    BY <1>s, <1>7, <2>1 DEF SetGatewaySave
<1>8. CASE Rows
  BY <1>1, <1>3, <1>8 DEF Rows, GenerateInvoice, CancelInvoice
<1>9. ASSUME NEW w \in Workers, Request(w) PROVE StatusLegal
  BY <1>1, <1>9 DEF Request, ConfirmFastFail, RejectRead, RefundRead, InitiateGateway, db
<1>10. ASSUME NEW w \in Workers, Statement(w) PROVE StatusLegal
  BY <1>1, <1>4, <1>5, <1>6, <1>7, <1>10
     DEF Statement, ConfirmReread, ConfirmSelect, ConfirmPlan, ConfirmLockRow,
         ConfirmAllocate, ConfirmDuplicate, ConfirmCheckPaid, RecordPaymentIncome,
         ConfirmRestore, DeadlockVictim, SetGatewayRead, Rollback, db
<1>11. ASSUME NEW w \in Workers, Abandon(w) PROVE StatusLegal
  BY <1>1, <1>11 DEF Abandon, Rollback, db
<1> QED
  BY <1>8, <1>9, <1>10, <1>11 DEF Next

(* Any number of requests at once: only a pending payment is confirmed or
   rejected and only a confirmed one refunded, unless a request saved a row
   that had changed since it read it. *)
THEOREM StatusesMoveLegally == Spec => StatusChangesAreLegal
  BY PaymentInit, PaymentStep, LegalStep, PTL DEF Spec, StatusChangesAreLegal
=============================================================================
