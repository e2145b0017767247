CONSTANTS
  Users = {u1, u2}
  Nil = Nil
  MaxGen = 3
  MaxChunks = 1
  MaxOps = 2
SPECIFICATION Spec
CHECK_DEADLOCK FALSE
INVARIANTS ChatsStayWithTheirUser
