CONSTANTS
  Users = {u1}
  Nil = Nil
  MaxGen = 3
  MaxChunks = 1
  MaxOps = 1
SPECIFICATION Spec
CHECK_DEADLOCK FALSE
INVARIANTS NoForeignChunks AnswersAreWhole PendingIsLive
PROPERTIES GenerationEnds
