SPECIFICATION FairSpec
CONSTANTS
  Agents = {a1, a2}
  Decisions = {}
  Blockers = {b1}
  Statuses = {"Paused"}
  Commands = {"status", "advance", "progress", "session", "begin", "decision", "blocker", "resolve", "complete"}
  MaxPlans = 2
  MaxTries = 2
  MaxCommands = 2
  NoLock = NoLock
  Empty = Empty
  None = None
INVARIANTS TypeOK LockHasHolder OneWriter ReportsAgree StatusKept
PROPERTY CommandEnds
CHECK_DEADLOCK FALSE
