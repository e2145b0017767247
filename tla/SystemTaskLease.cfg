SPECIFICATION SysSpec
CONSTANTS
  n1 = n1  n2 = n2  n3 = n3  Nobody = Nobody
  Runners = {n1, n2}
  Runs = {1, 2}
  MaxFailures = 2
  PromptClaims = TRUE
INVARIANTS RunningHasLease
PROPERTIES ValidLeaseIsRespected EndedRunIsFinal RunsEnd
CHECK_DEADLOCK FALSE
