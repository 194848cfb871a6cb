SPECIFICATION FairSpec
CONSTANTS
  N = 2
  MaxPlans = 2
  Slots = {s1, s2}
  MaxDeaths = 1
  Projects <- MCProjects
INVARIANTS TypeOK NotStuck 
PROPERTIES CompletionKept EventuallyDone
CHECK_DEADLOCK FALSE
