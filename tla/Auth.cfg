CONSTANTS
  Tabs = {t1, t2}
  Sids = {s1, s2}
  Nil = Nil
  RaceRetries = 3
  Worlds <- AllWorlds
SPECIFICATION Spec
CHECK_DEADLOCK FALSE
INVARIANTS CheckingIsUnderWay ReuseNeedsALostAnswer
PROPERTIES SignedOutStaysOut NoSilentSwitch NobodyWaitsForever
