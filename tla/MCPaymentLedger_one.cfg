\* One payment, two concurrent requests or webhooks about it.
CONSTANTS
    i1 = i1   i2 = i2   p1 = p1   p2 = p2   w1 = w1   w2 = w2
    NoWorker = NoWorker
    Invoices = {i1, i2}
    Payments = {p1}
    Workers = {w1, w2}
    Totals = {0, 2}
    Amounts = {1, 3}
    MaxGateway = 2
    Faults = TRUE
SPECIFICATION Spec
SYMMETRY Symmetric
INVARIANT PaymentConserved
PROPERTY StatusChangesAreLegal
CHECK_DEADLOCK FALSE
