--------------------------- MODULE InvoiceAccounts ---------------------------
(***************************************************************************)
(* What the ledger promises its readers: the invoices of a customer and    *)
(* the allocations that pay them change together, in one step, and by no   *)
(* more than the invoices still lack.  No workers, no locks, no            *)
(* transactions: PaymentLedger is shown to implement this.                 *)
(***************************************************************************)
EXTENDS Integers

CONSTANTS Invoices, Payments, Totals

VARIABLES inv, alloc

Settled(total, paid) == IF paid >= total THEN "paid" ELSE "partial"

Init ==
    /\ inv = [i \in Invoices |-> [status |-> "absent", total |-> 0, paid |-> 0]]
    /\ alloc = [p \in Payments |-> [i \in Invoices |-> 0]]

(* A new invoice is unpaid. *)
Issue(i, t) ==
    /\ inv[i].status = "absent"
    /\ inv' = [inv EXCEPT ![i] = [status |-> "unpaid", total |-> t, paid |-> 0]]
    /\ UNCHANGED alloc

(* Cancelling touches the status alone. *)
Void(i) ==
    /\ inv[i].status # "absent"
    /\ inv' = [inv EXCEPT ![i].status = "cancelled"]
    /\ UNCHANGED alloc

(* Invoice i receives what payment p's new allocation row says, once, if it
   is open and lacks that much. *)
Receives(p, i) ==
    /\ inv[i].status \in {"unpaid", "partial"}
    /\ alloc[p][i] = 0
    /\ alloc'[p][i] > 0
    /\ inv[i].paid + alloc'[p][i] <= inv[i].total
    /\ inv'[i] = [inv[i] EXCEPT
                     !.paid = inv[i].paid + alloc'[p][i],
                     !.status = Settled(inv[i].total, inv[i].paid + alloc'[p][i])]

(* Payment p is spread over any of the open invoices. *)
Settle(p) ==
    /\ \A i \in Invoices :
          \/ Receives(p, i)
          \/ inv'[i] = inv[i] /\ alloc'[p][i] = alloc[p][i]
    /\ \A q \in Payments \ {p} : alloc'[q] = alloc[q]

Next ==
    \/ \E i \in Invoices, t \in Totals : Issue(i, t)
    \/ \E i \in Invoices : Void(i)
    \/ \E p \in Payments : Settle(p)

Spec == Init /\ [][Next]_<<inv, alloc>>
=============================================================================
