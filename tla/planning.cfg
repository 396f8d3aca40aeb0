CONSTANTS
  Accounts <- MCAccounts
  Items = {i1}
  Limit = 2
  MaxTrades = 3
  MaxCrashes = 1
SPECIFICATION Spec
INVARIANTS
  
  RoutesAgreeOnTheNextCode
  PromotedOnce
