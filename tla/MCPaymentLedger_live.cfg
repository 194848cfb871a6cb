\* Two concurrent requests that run to their end.
CONSTANTS
    i1 = i1   i2 = i2   p1 = p1   p2 = p2   w1 = w1   w2 = w2
    NoWorker = NoWorker
    Invoices = {i1, i2}
    Payments = {p1, p2}
    Workers = {w1, w2}
    Totals = {2}
    Amounts = {2}
    MaxGateway = 0
    Faults = FALSE
SPECIFICATION FairSpec
PROPERTY ConfirmEnds LastPaymentRestores
CHECK_DEADLOCK FALSE
