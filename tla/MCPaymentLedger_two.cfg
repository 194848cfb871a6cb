\* Two concurrent requests, each may be abandoned at any statement.
CONSTANTS
    i1 = i1   i2 = i2   p1 = p1   p2 = p2   w1 = w1   w2 = w2
    NoWorker = NoWorker
    Invoices = {i1, i2}
    Payments = {p1, p2}
    Workers = {w1, w2}
    Totals = {2}
    Amounts = {1, 3}
    MaxGateway = 0
    Faults = TRUE
SPECIFICATION Spec
SYMMETRY Symmetric
INVARIANT TypeOK NeverOverpaid StatusMatchesAmounts PlanStaysValid InvoiceLedger
PROPERTY CreditsAreFinal AccountsSpec
CHECK_DEADLOCK FALSE
