CONSTANTS
  Accounts = {acc}
  PostableTypes = {"withdrawal", "manual_adjustment"}
  Amounts <- MCAmounts
  Fees <- MCFees
  Actions = {"buy", "sell_short"}
  ClientKeys = {k1}
  MaxEvents = 6
SPECIFICATION LedgerSpec
INVARIANTS
  TypeOK
  CorrectedOnce
  ReversalsCancel
  KeysNameOneRow
  ExecutionsSettled
  CashIsEffectiveCash
  SettlementMatchesExecutions
CHECK_DEADLOCK FALSE
