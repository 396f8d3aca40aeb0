CONSTANTS
  Accounts <- MCAccounts
  Items = {i1}
  Limit = 2
  MaxTrades = 3
  MaxCrashes = 0
SPECIFICATION Spec
INVARIANT
  CancelledPlansDoNotBlockClosing
