CONSTANTS
  Entities = {c1, c2}
  Nil = Nil
  MaxGen = 5
  Filters = {"all", "disabled"}
  All = "all"
  MaxActs = 2
SPECIFICATION Spec
CHECK_DEADLOCK FALSE
INVARIANTS ListIsTheOpenOne ConfirmIsForShownList OneActionPerOpening
PROPERTIES LoadingEnds
