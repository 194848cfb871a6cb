---------------------------- MODULE PaymentLedger ----------------------------
(***************************************************************************)
(* One customer's invoices and payments, and the request goroutines that   *)
(* confirm, reject, refund and forward those payments to a gateway         *)
(* (internal/service/payment_service.go over internal/repository/postgres  *)
(* and internal/domain/payment, internal/domain/billing).                  *)
(*                                                                         *)
(* A worker is one HTTP request, webhook delivery or portal call.  Every   *)
(* database statement is a step of its own.  The transaction of Confirm    *)
(* publishes its writes at ConfirmCommit; until then it keeps the row      *)
(* locks of SELECT ... FOR UPDATE.  Every other operation is a read of the *)
(* payment followed, without a lock, by a Save of the WHOLE row read.      *)
(***************************************************************************)
EXTENDS Integers, FiniteSets, Functions

CONSTANTS
    Invoices,      \* identities of the customer's invoice rows
    Payments,      \* identities of the customer's payment rows
    Workers,       \* concurrent requests
    NoWorker,      \* "nobody", as the owner of a row lock or the payment of an idle worker
    Totals,        \* invoice totals that may be billed (0: a price updated to zero)
    Amounts,       \* payment amounts (the DTO requires gt=0)
    MaxGateway,    \* bound: gateway invoices created per payment
    Faults         \* TRUE: a request may be abandoned between any two statements

ASSUME LedgerAssumption ==
    /\ IsFiniteSet(Invoices) /\ IsFiniteSet(Payments)
    /\ NoWorker \notin Workers
    /\ NoWorker \notin Payments
    /\ Totals \subseteq Nat
    /\ Amounts \subseteq Nat \ {0}
    /\ MaxGateway \in Nat
    /\ Faults \in BOOLEAN

VARIABLES
    inv,     \* invoices table
    pay,     \* payments table
    alloc,   \* payment_allocations: alloc[p][i] = 0 when there is no row
    cash,    \* payments with an income row in cash_entries
    gw,      \* how many invoices the external gateway has created for a payment
    lock,    \* owner of the FOR UPDATE lock of each invoice row
    pc,      \* where each worker stands
    cur,     \* the payment the worker works on
    row,     \* the payment row the worker has read
    by,      \* processedByID: "user" (a user's UUID) or "gateway"
    todo,    \* invoice rows the current loop has still to visit
    unpaid,  \* Confirm's local "unpaid": the open invoices it has locked
    got,     \* amount Confirm allocates to each invoice
    left,    \* CalculateAllocations' "remaining"
    trx,     \* gateway transaction the worker has just created
    overwritten \* history: payments whose row a request has overwritten with one
             \* it had read before another request changed it

db    == <<inv, pay, alloc, cash, overwritten>>
local == <<cur, row, by, todo, unpaid, got, left, trx>>
vars  == <<inv, pay, alloc, cash, gw, lock, pc, cur, row, by, todo, unpaid,
           got, left, trx, overwritten>>

-----------------------------------------------------------------------------
(* Rows and types *)

InvoiceStatus == {"absent", "unpaid", "partial", "paid", "cancelled"}
PaymentStatus == {"absent", "pending", "confirmed", "rejected", "refunded"}

InvoiceRow == [status : InvoiceStatus, total : Nat, paid : Nat]
PaymentRow == [status : PaymentStatus, amount : Nat, allocated : Nat,
               refund : {"none", "some"}, trx : Nat]

NoInvoice == [status |-> "absent", total |-> 0, paid |-> 0]
NoPayment == [status |-> "absent", amount |-> 0, allocated |-> 0,
              refund |-> "none", trx |-> 0]

InTx  == {"reread", "locking", "allocate"}
Steps == InTx \cup {"idle", "fast", "income", "check", "restore",
                    "reject", "refund", "gwread", "gwsave"}

Exists(i)   == inv[i].status # "absent"
MutIsOpen(i) == inv[i].status # "absent" /\ inv[i].status # "paid"   \* fault: cancelled forgotten
IsOpen(i)   == inv[i].status \in {"unpaid", "partial"}
Balance(i)  == inv[i].total - inv[i].paid
MinOf(a, b) == IF a < b THEN a ELSE b

(* domain/payment *)
MutCanConfirm(r) == r.status # "confirmed"   \* fault: wrong guard
CanConfirm(r) == r.status = "pending"
MutCanReject(r) == r.status # "refunded"     \* fault: wrong guard
CanReject(r)  == r.status = "pending"
CanRefund(r)  == r.status = "confirmed" /\ r.refund = "none"

(* domain/billing *)
InvoiceStatusFromAmounts(total, paid) ==
    CASE paid <= 0                -> "unpaid"
      [] paid > 0 /\ paid >= total -> "paid"
      [] paid > 0 /\ paid < total  -> "partial"

TypeOK ==
    /\ inv    \in [Invoices -> InvoiceRow]
    /\ pay    \in [Payments -> PaymentRow]
    /\ alloc  \in [Payments -> [Invoices -> Nat]]
    /\ cash   \in SUBSET Payments
    /\ gw     \in [Payments -> Nat]
    /\ lock   \in [Invoices -> Workers \cup {NoWorker}]
    /\ pc     \in [Workers -> Steps]
    /\ cur    \in [Workers -> Payments \cup {NoWorker}]
    /\ row    \in [Workers -> PaymentRow]
    /\ by     \in [Workers -> {"user", "gateway"}]
    /\ todo   \in [Workers -> SUBSET Invoices]
    /\ unpaid \in [Workers -> SUBSET Invoices]
    /\ got    \in [Workers -> [Invoices -> Nat]]
    /\ left   \in [Workers -> Nat]
    /\ trx    \in [Workers -> Nat]
    /\ overwritten \subseteq Payments
    /\ \A w \in Workers : pc[w] # "idle" => cur[w] \in Payments

NoGot == [i \in Invoices |-> 0]

Init ==
    /\ inv    = [i \in Invoices |-> NoInvoice]
    /\ pay    = [p \in Payments |-> NoPayment]
    /\ alloc  = [p \in Payments |-> NoGot]
    /\ cash   = {}
    /\ gw     = [p \in Payments |-> 0]
    /\ lock   = [i \in Invoices |-> NoWorker]
    /\ pc     = [w \in Workers |-> "idle"]
    /\ cur    = [w \in Workers |-> NoWorker]
    /\ row    = [w \in Workers |-> NoPayment]
    /\ by     = [w \in Workers |-> "user"]
    /\ todo   = [w \in Workers |-> {}]
    /\ unpaid = [w \in Workers |-> {}]
    /\ got    = [w \in Workers |-> NoGot]
    /\ left   = [w \in Workers |-> 0]
    /\ trx    = [w \in Workers |-> 0]
    /\ overwritten = {}

-----------------------------------------------------------------------------
(* Moving a worker, and ending its request *)

Goto(w, step) == pc' = [pc EXCEPT ![w] = step]

(* The request returns: its local variables are gone. *)
Done(w) ==
    /\ Goto(w, "idle")
    /\ cur'    = [cur    EXCEPT ![w] = NoWorker]
    /\ row'    = [row    EXCEPT ![w] = NoPayment]
    /\ by'     = [by     EXCEPT ![w] = "user"]
    /\ todo'   = [todo   EXCEPT ![w] = {}]
    /\ unpaid' = [unpaid EXCEPT ![w] = {}]
    /\ got'    = [got    EXCEPT ![w] = NoGot]
    /\ left'   = [left   EXCEPT ![w] = 0]
    /\ trx'    = [trx    EXCEPT ![w] = 0]

MutUnlock(w) == pc[w] # "idle" /\ UNCHANGED lock   \* fault: the transaction is left open
(* End of a transaction: PostgreSQL drops every row lock it holds. *)
Unlock(w) == lock' = [i \in Invoices |-> IF lock[i] = w THEN NoWorker ELSE lock[i]]

(* paymentRepository.Update: every column of the row read earlier is written,
   whatever the table holds by now. *)
SaveRow(w, r) ==
    /\ pay' = [pay EXCEPT ![cur[w]] = r]
    /\ overwritten' = IF row[w] = pay[cur[w]] THEN overwritten
                      ELSE overwritten \cup {cur[w]}

(* The transaction fails: nothing it wrote is visible, Confirm returns err. *)
Rollback(w) == Done(w) /\ Unlock(w) /\ UNCHANGED <<db, gw>>

-----------------------------------------------------------------------------
(* Rows that appear, and the one invoice write outside Confirm *)

(* PaymentService.Create *)
Create(p, a) ==
    /\ pay[p].status = "absent"
    /\ pay' = [pay EXCEPT ![p] = [NoPayment EXCEPT !.status = "pending", !.amount = a]]
    /\ UNCHANGED <<inv, alloc, cash, overwritten, gw, lock, pc, local>>

(* The insert that ends BillingService.GenerateInvoice *)
GenerateInvoice(i, t) ==
    /\ ~Exists(i)
    /\ inv' = [inv EXCEPT ![i] = [status |-> "unpaid", total |-> t, paid |-> 0]]
    /\ UNCHANGED <<pay, alloc, cash, overwritten, gw, lock, pc, local>>

(* fault: the paid amount is reset with the status, as for agent invoices *)
MutCancelInvoice(i) ==
    /\ Exists(i)
    /\ lock[i] = NoWorker
    /\ inv' = [inv EXCEPT ![i].status = "cancelled", ![i].paid = 0]
    /\ UNCHANGED <<pay, alloc, cash, overwritten, gw, lock, pc, local>>

(* BillingService.Cancel: an UPDATE of the status column, whatever the
   status was; it waits for the row lock. *)
CancelInvoice(i) ==
    /\ Exists(i)
    /\ lock[i] = NoWorker
    /\ inv' = [inv EXCEPT ![i].status = "cancelled"]
    /\ UNCHANGED <<pay, alloc, cash, overwritten, gw, lock, pc, local>>

-----------------------------------------------------------------------------
(* PaymentService.Confirm, statement by statement *)

(* Who may ask: a signed-in user, or a webhook of a gateway that has an
   invoice for the payment (delivered late, twice, or both). *)
MayAsk(p, b) == b = "user" \/ gw[p] > 0

(* Fast-fail: read the payment before any lock. *)
ConfirmFastFail(w, p, b) ==
    /\ pc[w] = "idle"
    /\ MayAsk(p, b)
    /\ CanConfirm(pay[p])
    /\ Goto(w, "fast")
    /\ cur' = [cur EXCEPT ![w] = p]
    /\ by'  = [by EXCEPT ![w] = b]
    /\ UNCHANGED <<db, gw, lock, row, todo, unpaid, got, left, trx>>

(* Inside the transaction: read the payment again and check it again. *)
ConfirmReread(w) ==
    /\ pc[w] = "fast"
    /\ \/ /\ CanConfirm(pay[cur[w]])
          /\ Goto(w, "reread")
          /\ row' = [row EXCEPT ![w] = pay[cur[w]]]
          /\ UNCHANGED <<db, gw, lock, cur, by, todo, unpaid, got, left, trx>>
       \/ /\ ~CanConfirm(pay[cur[w]])
          /\ Rollback(w)

(* SELECT ... FOR UPDATE starts: its snapshot fixes the rows it will lock. *)
ConfirmSelect(w) ==
    /\ pc[w] = "reread"
    /\ Goto(w, "locking")
    /\ todo' = [todo EXCEPT ![w] = {i \in Invoices : Exists(i)}]
    /\ UNCHANGED <<db, gw, lock, cur, row, by, unpaid, got, left, trx>>

(* fault: FOR UPDATE forgotten *)
MutLockRow(w, i) ==
    /\ pc[w] = "locking"
    /\ i \in todo[w]
    /\ todo'   = [todo EXCEPT ![w] = @ \ {i}]
    /\ unpaid' = [unpaid EXCEPT ![w] = IF IsOpen(i) THEN @ \cup {i} ELSE @]
    /\ UNCHANGED <<db, gw, lock, pc, cur, row, by, got, left, trx>>

(* ... and locks them one at a time, in no stated order (there is no ORDER
   BY).  The row returned is the one current when its lock is granted. *)
ConfirmLockRow(w, i) ==
    /\ pc[w] = "locking"
    /\ i \in todo[w]
    /\ lock[i] = NoWorker
    /\ lock'   = [lock EXCEPT ![i] = w]
    /\ todo'   = [todo EXCEPT ![w] = @ \ {i}]
    /\ unpaid' = [unpaid EXCEPT ![w] = IF IsOpen(i) THEN @ \cup {i} ELSE @]
    /\ UNCHANGED <<db, gw, pc, cur, row, by, got, left, trx>>

(* CalculateAllocations begins, over the open invoices. *)
ConfirmPlan(w) ==
    /\ pc[w] = "locking"
    /\ todo[w] = {}
    /\ Goto(w, "allocate")
    /\ todo' = [todo EXCEPT ![w] = unpaid[w]]
    /\ left' = [left EXCEPT ![w] = row[w].amount]
    /\ UNCHANGED <<db, gw, lock, cur, row, by, unpaid, got, trx>>

MutShareAll(w, i)     == Balance(i)   \* fault: not limited by what is left
MutShareGreedy(w, i)  == left[w]      \* fault: not limited by the balance
Share(w, i) == MinOf(Balance(i), left[w])

(* fault: no UNIQUE(payment_id, invoice_id) *)
MutAllocate(w, i) ==
    /\ pc[w] = "allocate"
    /\ i \in todo[w]
    /\ left[w] > 0
    /\ todo' = [todo EXCEPT ![w] = @ \ {i}]
    /\ got'  = [got  EXCEPT ![w][i] = Share(w, i)]
    /\ left' = [left EXCEPT ![w] = @ - Share(w, i)]
    /\ UNCHANGED <<db, gw, lock, pc, cur, row, by, unpaid, trx>>

(* One turn of its loop, with the insert of the allocation row.  Order: the
   order of the query, that is, any. *)
ConfirmAllocate(w, i) ==
    /\ pc[w] = "allocate"
    /\ i \in todo[w]
    /\ left[w] > 0
    /\ Balance(i) > 0 => alloc[cur[w]][i] = 0
    /\ todo' = [todo EXCEPT ![w] = @ \ {i}]
    /\ got'  = [got  EXCEPT ![w][i] = Share(w, i)]
    /\ left' = [left EXCEPT ![w] = @ - Share(w, i)]
    /\ UNCHANGED <<db, gw, lock, pc, cur, row, by, unpaid, trx>>

(* The insert hits UNIQUE(payment_id, invoice_id): the transaction fails. *)
ConfirmDuplicate(w, i) ==
    /\ pc[w] = "allocate"
    /\ i \in todo[w]
    /\ left[w] > 0
    /\ Balance(i) > 0
    /\ alloc[cur[w]][i] # 0
    /\ Rollback(w)

MutCreditAmountOnly(r, a) == [r EXCEPT !.paid = @ + a]   \* fault: status not updated

Credit(r, a) ==
    IF a = 0 THEN r
    ELSE [r EXCEPT !.paid   = r.paid + a,
                   !.status = InvoiceStatusFromAmounts(r.total, r.paid + a)]

(* The payment row read at ConfirmReread is saved whole, and the transaction
   commits. *)
ConfirmCommit(w) ==
    /\ pc[w] = "allocate"
    /\ todo[w] = {} \/ left[w] = 0
    /\ inv'   = [i \in Invoices |-> Credit(inv[i], got[w][i])]
    /\ alloc' = [alloc EXCEPT ![cur[w]] =
                    [i \in Invoices |-> IF got[w][i] = 0 THEN @[i] ELSE got[w][i]]]
    /\ SaveRow(w, [row[w] EXCEPT !.status = "confirmed",
                                 !.allocated = row[w].amount - left[w]])
    /\ Unlock(w)
    /\ Goto(w, "income")
    /\ row'  = [row EXCEPT ![w] = NoPayment]
    /\ todo' = [todo EXCEPT ![w] = {}]
    /\ got'  = [got EXCEPT ![w] = NoGot]
    /\ left' = [left EXCEPT ![w] = 0]
    /\ UNCHANGED <<cash, gw, cur, by, unpaid, trx>>

(* RecordPaymentIncome, its error ignored.  created_by references users(id):
   without a processing user the insert names a system user that no
   migration or seeder creates, and fails. *)
RecordPaymentIncome(w) ==
    /\ pc[w] = "income"
    /\ \/ cash' = IF by[w] = "user" THEN cash \cup {cur[w]} ELSE cash
       \/ Faults /\ UNCHANGED cash
    /\ \/ /\ unpaid[w] # {}
          /\ Goto(w, "check")
          /\ UNCHANGED local
       \/ /\ unpaid[w] = {}
          /\ Done(w)
    /\ UNCHANGED <<inv, pay, alloc, overwritten, gw, lock>>

(* fault: the rows read under the lock are looked at again, not re-read *)
MutCheckPaid(w, i) ==
    /\ pc[w] = "check"
    /\ i \in unpaid[w]
    /\ Done(w)
    /\ UNCHANGED <<db, gw, lock>>

(* Re-read each of them; the first one not paid ends the request.  One whose
   read fails is passed over, and so counts as paid. *)
ConfirmCheckPaid(w, i) ==
    /\ pc[w] = "check"
    /\ i \in unpaid[w]
    /\ \/ /\ inv[i].status = "paid" \/ Faults
          /\ unpaid' = [unpaid EXCEPT ![w] = @ \ {i}]
          /\ Goto(w, IF unpaid[w] = {i} THEN "restore" ELSE "check")
          /\ UNCHANGED <<cur, row, by, todo, got, left, trx>>
       \/ /\ inv[i].status # "paid"
          /\ Done(w)
    /\ UNCHANGED <<db, gw, lock>>

(* All paid: CustomerService.RestoreAllSubscriptions, then the notice. *)
ConfirmRestore(w) ==
    /\ pc[w] = "restore"
    /\ Done(w)
    /\ UNCHANGED <<db, gw, lock>>

-----------------------------------------------------------------------------
(* The transaction loses *)

(* w waits for a row that v holds. *)
WaitsFor(w, v) ==
    /\ pc[w] = "locking"
    /\ \E i \in todo[w] : lock[i] = v

(* Every transaction of S waits for one of S, and is waited for. *)
Deadlocked(S) ==
    \A v \in S : /\ \E u \in S \ {v} : WaitsFor(v, u)
                /\ \E u \in S \ {v} : WaitsFor(u, v)

(* PostgreSQL's deadlock detector picks one of them and aborts it; RunInTx
   returns the error. *)
DeadlockVictim(w) ==
    /\ \E S \in SUBSET Workers : w \in S /\ Deadlocked(S)
    /\ Rollback(w)

(* The client disconnects (its context is cancelled) or the process dies. *)
Abandon(w) ==
    /\ Faults
    /\ pc[w] # "idle"
    /\ Rollback(w)

-----------------------------------------------------------------------------
(* The operations without a transaction: read, then Save the row read *)

ReadRow(w, p, step) ==
    /\ Goto(w, step)
    /\ cur' = [cur EXCEPT ![w] = p]
    /\ row' = [row EXCEPT ![w] = pay[p]]

(* Reject: by a user, or by a webhook "expired" / "deny" *)
RejectRead(w, p, b) ==
    /\ pc[w] = "idle"
    /\ MayAsk(p, b)
    /\ CanReject(pay[p])
    /\ ReadRow(w, p, "reject")
    /\ UNCHANGED <<db, gw, lock, by, todo, unpaid, got, left, trx>>

RejectSave(w) ==
    /\ pc[w] = "reject"
    /\ SaveRow(w, [row[w] EXCEPT !.status = "rejected"])
    /\ Done(w)
    /\ UNCHANGED <<inv, alloc, cash, gw, lock>>

(* Refund: the amount is not compared with the payment, and no allocation is
   taken back. *)
RefundRead(w, p) ==
    /\ pc[w] = "idle"
    /\ CanRefund(pay[p])
    /\ ReadRow(w, p, "refund")
    /\ UNCHANGED <<db, gw, lock, by, todo, unpaid, got, left, trx>>

RefundSave(w) ==
    /\ pc[w] = "refund"
    /\ SaveRow(w, [row[w] EXCEPT !.status = "refunded", !.refund = "some"])
    /\ Done(w)
    /\ UNCHANGED <<inv, alloc, cash, gw, lock>>

(* PaymentHandler.InitiateGateway: the gateway's invoice is created first *)
InitiateGateway(w, p) ==
    /\ pc[w] = "idle"
    /\ pay[p].status # "absent"
    /\ gw[p] < MaxGateway
    /\ gw'  = [gw EXCEPT ![p] = @ + 1]
    /\ trx' = [trx EXCEPT ![w] = gw[p] + 1]
    /\ cur' = [cur EXCEPT ![w] = p]
    /\ Goto(w, "gwread")
    /\ UNCHANGED <<db, lock, row, by, todo, unpaid, got, left>>

(* ... and SetGatewayInfo refuses a payment that already has one *)
SetGatewayRead(w) ==
    /\ pc[w] = "gwread"
    /\ \/ /\ pay[cur[w]].trx # 0
          /\ Done(w)
       \/ /\ pay[cur[w]].trx = 0
          /\ ReadRow(w, cur[w], "gwsave")
          /\ UNCHANGED <<by, todo, unpaid, got, left, trx>>
    /\ UNCHANGED <<db, gw, lock>>

SetGatewaySave(w) ==
    /\ pc[w] = "gwsave"
    /\ SaveRow(w, [row[w] EXCEPT !.trx = trx[w]])
    /\ Done(w)
    /\ UNCHANGED <<inv, alloc, cash, gw, lock>>

-----------------------------------------------------------------------------
Statement(w) ==
    \/ ConfirmReread(w)
    \/ ConfirmSelect(w)
    \/ ConfirmPlan(w)
    \/ \E i \in Invoices : \/ ConfirmLockRow(w, i)
                           \/ ConfirmAllocate(w, i)
                           \/ ConfirmDuplicate(w, i)
                           \/ ConfirmCheckPaid(w, i)
    \/ ConfirmCommit(w)
    \/ RecordPaymentIncome(w)
    \/ ConfirmRestore(w)
    \/ DeadlockVictim(w)
    \/ RejectSave(w)
    \/ RefundSave(w)
    \/ SetGatewayRead(w)
    \/ SetGatewaySave(w)

Request(w) ==
    \E p \in Payments :
        \/ \E b \in {"user", "gateway"} : \/ ConfirmFastFail(w, p, b)
                                          \/ RejectRead(w, p, b)
        \/ RefundRead(w, p)
        \/ InitiateGateway(w, p)

Rows ==
    \/ \E p \in Payments, a \in Amounts : Create(p, a)
    \/ \E i \in Invoices, t \in Totals : GenerateInvoice(i, t)
    \/ \E i \in Invoices : CancelInvoice(i)

Next == Rows \/ \E w \in Workers : Request(w) \/ Statement(w) \/ Abandon(w)

Spec == Init /\ [][Next]_vars

(* A goroutine that can run does run; PostgreSQL grants row locks in the
   order they were asked for, so a lock that keeps being released is got. *)
Fairness ==
    \A w \in Workers :
        /\ WF_vars(Statement(w))
        /\ \A i \in Invoices : SF_vars(ConfirmLockRow(w, i))

FairSpec == Spec /\ Fairness

-----------------------------------------------------------------------------
(* What the ledger promises *)

(* No invoice is ever credited with more than it bills, whatever payments
   are confirmed at the same time (the FOR UPDATE of Confirm is what makes
   this true: payment_service.go "to prevent double allocation when two
   payments for the same customer are confirmed concurrently"). *)
NeverOverpaid == \A i \in Invoices : inv[i].paid <= inv[i].total

(* The status column, written by a statement of its own after the amounts,
   agrees with the amounts; only a cancelled invoice departs from them. *)
StatusMatchesAmounts ==
    \A i \in Invoices :
        inv[i].status \notin {"absent", "cancelled"} =>
            inv[i].status = InvoiceStatusFromAmounts(inv[i].total, inv[i].paid)

(* A running transaction of Confirm holds the lock of each open invoice it
   has found, the invoice is still open, and what it plans to credit still
   fits: the rows read under the lock are never stale at commit. *)
PlanStaysValid ==
    \A w \in Workers : pc[w] \in {"locking", "allocate"} =>
        \A i \in Invoices :
            /\ i \in unpaid[w] => lock[i] = w /\ IsOpen(i)
            /\ got[w][i] > 0 => /\ i \in unpaid[w]
                               /\ got[w][i] <= Balance(i)
                               /\ alloc[cur[w]][i] = 0

(* Once written an allocation is never changed and a credited amount never
   taken back, by any operation of the service. *)
CreditsKept ==
    \A i \in Invoices :
        /\ inv'[i].paid >= inv[i].paid
        /\ inv[i].status = "paid" => inv'[i].status \in {"paid", "cancelled"}
        /\ \A p \in Payments : alloc[p][i] # 0 => alloc'[p][i] = alloc[p][i]
CreditsAreFinal == [][CreditsKept]_vars

(* What the allocation rows say of an invoice, and of a payment *)
CreditedTo(i)  == SumFunction([p \in Payments |-> alloc[p][i]])
TakenFrom(p)   == SumFunction(alloc[p])

(* An invoice's paid_amount is exactly the sum of the allocation rows that
   name it, at every instant between requests and inside them. *)
InvoiceLedger == \A i \in Invoices : inv[i].paid = CreditedTo(i)

(* A payment gives no more than it holds, and its allocated_amount is what
   the allocation rows say; a payment not confirmed has given nothing.  The
   one way out is a Save of a row that was no longer the payment's: two
   confirmations of one payment can both pass the re-read of Confirm, which
   locks nothing. *)
PaymentConserved ==
    \A p \in Payments \ overwritten :
        /\ TakenFrom(p) <= pay[p].amount
        /\ pay[p].allocated = TakenFrom(p)
        /\ pay[p].status \in {"absent", "pending", "rejected"} => TakenFrom(p) = 0

(* Only a pending payment is confirmed or rejected and only a confirmed one
   refunded (domain/payment CanConfirm, CanReject, CanRefund), with other
   steps, of other requests too, between the check and the Save; but for a
   Save that overwrites what another request wrote. *)
StatusLegal ==
    \A p \in Payments \ overwritten' :
        pay'[p].status # pay[p].status =>
            <<pay[p].status, pay'[p].status>> \in
                {<<"absent", "pending">>, <<"pending", "confirmed">>,
                 <<"pending", "rejected">>, <<"confirmed", "refunded">>}
StatusChangesAreLegal == [][StatusLegal]_vars

(* Seen from outside, every Confirm settles invoices and writes the matching
   allocation rows in one step: the ledger implements InvoiceAccounts. *)
Accounts == INSTANCE InvoiceAccounts
                WITH Invoices <- Invoices, Payments <- Payments, Totals <- Totals,
                     inv <- inv, alloc <- alloc
AccountsSpec == Accounts!Spec

(* What the worker's locals are between its statements, and what an absent
   row holds: with the invariants above, an inductive invariant. *)
LocalsInOrder ==
    /\ \A i \in Invoices : inv[i].status = "absent" => inv[i].paid = 0
    /\ \A w \in Workers :
          /\ pc[w] \in {"idle", "fast", "reread"} => unpaid[w] = {}
          /\ pc[w] # "allocate" => \A i \in Invoices : got[w][i] = 0
          /\ pc[w] = "allocate" =>
                /\ left[w] <= row[w].amount
                /\ todo[w] \subseteq unpaid[w]
                /\ \A i \in todo[w] : got[w][i] = 0

LedgerInv ==
    TypeOK /\ LocalsInOrder /\ NeverOverpaid /\ StatusMatchesAmounts /\ PlanStaysValid

(* The row a request is going to save has passed its check. *)
RowIsChecked ==
    \A w \in Workers :
        /\ pc[w] \in InTx => CanConfirm(row[w])
        /\ pc[w] = "reject" => CanReject(row[w])
        /\ pc[w] = "refund" => CanRefund(row[w])

(* Inside the loop of CalculateAllocations, what is planned and what is left
   make up the payment. *)
PlanAddsUp ==
    \A w \in Workers :
        pc[w] = "allocate" => SumFunction(got[w]) + left[w] = row[w].amount

(* A payment not confirmed has no allocation row. *)
NothingGiven ==
    \A p \in Payments \ overwritten :
        pay[p].status \in {"absent", "pending", "rejected"} =>
            \A i \in Invoices : alloc[p][i] = 0

PaymentInv == LedgerInv /\ RowIsChecked /\ PlanAddsUp /\ NothingGiven /\ PaymentConserved
=============================================================================
