SPECIFICATION Spec
CONSTANTS
  Slugs = {s1}
  Planned = 3
  Forms = {"header"}
  Versions = {1}
  MaxPhases = 4
  MaxCommands = 3
INVARIANT RoadmapSequential
CHECK_DEADLOCK FALSE
