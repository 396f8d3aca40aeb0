CONSTANTS
  Accounts = {acc}
  PostableTypes = {"deposit", "stock_split"}
  Amounts = {100, 150}
  Fees = {0}
  Actions = {"buy"}
  ClientKeys = {}
  MarkedValues <- MCMarkedValues
  MaxEvents = 4
SPECIFICATION PerformanceSpec
INVARIANTS
  ProjectionMatchesEffectiveEvents
  DepositFlowsAreEffective
CHECK_DEADLOCK FALSE
