SPECIFICATION MCSpec
CONSTANTS
  u1 = u1  t1 = t1  r1 = r1  r2 = r2  k1 = k1  k2 = k2  k3 = k3  Unset = Unset
  Users = {u1}
  MaxQuota = 2
  Requests = {r1, r2}
  Tasks = {k1, k2, k3}  LegacyTasks = {k1}  LegacyRows <- LegacyTaskRows
  Tokens = {t1}  TokenOwner <- MCTokenOwner  InitialTokens <- MCTokens  Remains = {1}
  Subs = {1, 2}  SubOwner <- MCSubOwner  InitialSubs <- MCSubs
  InitialQuotas = {0, 1, 2}  Amounts <- UpAndDown  OutsideBound = 3
INVARIANTS QuotaIsConserved ClosedAtTheRightPrice SubscriptionWithinTotal FinishedTaskIsBilled OperationServesOneTask
PROPERTIES ImplementsEscrow ClosedIsFinal ChargeMovesExactly NoOverdraft RefundRevivesToken
CHECK_DEADLOCK FALSE
