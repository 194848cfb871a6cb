SPECIFICATION Spec
CONSTANTS
  Agents = {a1, a2}
  Decisions = {d1, d2}
  Blockers = {}
  Statuses = {}
  Commands = {"decision"}
  MaxPlans = 1
  MaxTries = 10
  MaxCommands = 2
  NoLock = NoLock
  Empty = Empty
  None = None
INVARIANTS NoLostDecision
CHECK_DEADLOCK FALSE
