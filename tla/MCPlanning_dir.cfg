SPECIFICATION Spec
CONSTANTS
  Names = {w1, w2}
  Items = {"ROADMAP", "STATE", "phases"}
  MaxFiles = 4
  NoDir = NoDir
  None = None
  Procs = {p1, p2}
  Repos = {r1}
  Missing = Missing
  Torn = Torn
  MaxCommands = 3
SYMMETRY PlanningSymmetry
INVARIANTS FilesKept NotSplit SettingGenuine
CHECK_DEADLOCK FALSE
