\* two requests at a time; router calls and writes fail, requests die anywhere; Create may stop for good at an orphan secret
CONSTANTS
    w1 = w1   w2 = w2
    Workers = {w1, w2}
    Plans = {"home"}
    RouterFaults = TRUE
    DbFaults = TRUE
    Crashes = TRUE
SPECIFICATION Spec
INVARIANT TypeOK TerminatedIsCutOff CacheIsFresh NoOrphanSecret
PROPERTY TerminatedIsFinal
SYMMETRY Symmetric
CHECK_DEADLOCK FALSE
