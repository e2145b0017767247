CONSTANTS
  Keys = {"name", "address"}
  Values = {0, 1, 2, 3}
  Normalized <- SlashRemoved
  Skipped = {3}
  Unreadable = {2}
  Defaults <- AllOne
  First <- AllZero
  Sections = {"quota", "pricing", "info"}
  Nil = Nil
  MaxTyped = 2
  MaxSubmits = 2
  MaxOthers = 1
  MaxFaults = 1
  MaxLeaves = 1
SPECIFICATION Spec
CHECK_DEADLOCK FALSE
INVARIANTS OneSaveAtATime OnlyTypedIsSent BaselineIsAccountedFor
