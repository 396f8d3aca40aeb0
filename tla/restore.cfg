CONSTANTS
  trade = trade
  screenshot = screenshot
  first = first
  second = second
  Trades <- MCTrades
  Assets <- MCAssets
  NoTrade = NoTrade
  Requests <- MCRequests
  MaxScreenshots = 1
  MaxArchives = 3
  MaxCrashes = 1
SPECIFICATION Spec
INVARIANTS
  TypeOK
  FilesSurvive
  UploadsMatchDatabase
  PostedRowsStayGuarded
  ArchivesAreRestorable
  
PROPERTIES
  OldUploadsAreGone
SYMMETRY MCSymmetry
