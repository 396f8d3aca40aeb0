CONSTANTS
  Instruments = {AAPL, MSFT}
  Tickets <- MCTickets
  Times = {1, 4}
  MaxRows = 5
SPECIFICATION Spec
INVARIANTS
  TypeOK
  LotsExplainPosition
  EntryFeesConserved
  CashAgreesWithPosition
  UncorrectedLotsCloseFirstInFirstOut
PROPERTY ImplementsNetPositions
SYMMETRY MCSymmetry
CHECK_DEADLOCK FALSE
