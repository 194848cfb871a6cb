\* one job at a time, each may fail or die; the world waits for it
CONSTANTS
    s1 = s1   s2 = s2   j1 = j1   j2 = j2
    Subs = {s1, s2}
    Jobs = {j1}
    NoSub = NoSub
    Lengths <- MCLengths
    BillingDay <- MCBillingDay
    DueDays = 0
    GraceDays = 1
    AutoIsolate = {s1}
    MaxNumber = 2
    Overlap = FALSE
    Faults = TRUE
SPECIFICATION Spec
INVARIANT TypeOK MonthBilled DelinquentIsolated
