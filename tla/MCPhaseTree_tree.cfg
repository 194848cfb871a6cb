SPECIFICATION Spec
CONSTANTS
  Slugs = {s1, s2}
  Planned = 2
  Forms = {"header", "other"}
  Versions = {1}
  MaxPhases = 4
  MaxCommands = 3
SYMMETRY SlugSymmetry
INVARIANTS ExecutedWorkKept DriftExplained
PROPERTY IntegerOrderKept
CHECK_DEADLOCK FALSE
