SPECIFICATION FlowSpec
CONSTANTS
  u1 = u1  r1 = r1  k1 = k1  p1 = p1  f1 = f1  s1 = s1  Unset = Unset
  Users = {u1}
  Tokens = {}  TokenOwner <- NoTokenOwner  InitialTokens = {}  Remains = {}
  Subs = {}  SubOwner <- NoSubOwner  InitialSubs = {}
  Requests = {r1}
  Tasks = {k1}  LegacyTasks = {}  LegacyRows = {}
  MaxQuota = 2  InitialQuotas = {1}  Amounts = {1}  OutsideBound = 2
  Prices = {1, 2}
  Pollers = {p1}  Fetchers = {f1}  Sweepers = {s1}
CHECK_DEADLOCK FALSE
INVARIANTS ChargedMeansDelivered
PROPERTIES TasksFinish ReservationIsResolved
