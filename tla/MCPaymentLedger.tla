--------------------------- MODULE MCPaymentLedger ---------------------------
(* PaymentLedger on small instances, with the properties that need fairness. *)
EXTENDS PaymentLedger, TLC

CONSTANTS i1, i2, p1, p2, w1, w2

Symmetric == Permutations(Payments) \cup Permutations(Workers)

(* A transaction of Confirm always ends: two of them that lock the customer's
   invoices in opposite orders do not wait for each other forever. *)
ConfirmEnds == \A w \in Workers : []<>(pc[w] \notin InTx)

(* When a Confirm settles the customer's last open invoice, that request goes
   on to restore the customer's subscriptions; another payment confirmed in
   between cannot make both requests leave it to the other. *)
LastPaymentRestores ==
    \A w \in Workers :
        /\ pc[w] = "income"
        /\ unpaid[w] # {}
        /\ \A i \in Invoices : inv[i].status \in {"absent", "paid"}
        ~> \/ pc[w] = "restore"
           \/ \E i \in Invoices : inv[i].status = "cancelled"
=============================================================================
