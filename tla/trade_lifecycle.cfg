CONSTANTS
  Trades = {t1, t2}
  ShortTrades = {t2}
  NoTrade = NoTrade
  Actions <- MCBothSides
  Quantities = {1, 2}
  FillTimes = {4}
  AccountTimes = {1}
  RequestedTimes = {0, 9}
  MaxRows = 4
  MaxBypassed = 1
SPECIFICATION Spec
INVARIANTS
  TypeOK
  StatusMatchesFills
  ReviewIsOfTheseFills
  TradesCloseOnlyThemselves
  InactiveAccountsAreWoundDown
CHECK_DEADLOCK FALSE
