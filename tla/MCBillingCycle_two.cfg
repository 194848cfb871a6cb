\* two jobs that overlap with each other and with the world, each may fail or die
CONSTANTS
    s1 = s1   s2 = s2   j1 = j1   j2 = j2
    Subs = {s1}
    Jobs = {j1, j2}
    NoSub = NoSub
    Lengths <- MCMonth
    BillingDay <- MCFirstDay
    DueDays = 0
    GraceDays = 1
    AutoIsolate = {s1}
    MaxNumber = 2
    Overlap = TRUE
    Faults = TRUE
SYMMETRY MCJobs
SPECIFICATION Spec
INVARIANT  NumberIsFree PaidUpIsRestored
PROPERTY GraceRespected
