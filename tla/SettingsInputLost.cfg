CONSTANTS
  Keys = {"name", "address"}
  Values = {0, 1, 2, 3}
  Normalized <- SlashRemoved
  Skipped = {3}
  Unreadable = {2}
  Defaults <- AllOne
  First <- AllZero
  Sections = {"quota", "pricing"}
  Nil = Nil
  MaxTyped = 2
  MaxSubmits = 2
  MaxOthers = 0
  MaxFaults = 0
  MaxLeaves = 0
SPECIFICATION Spec
CHECK_DEADLOCK FALSE
PROPERTIES NoAutomaticReset
