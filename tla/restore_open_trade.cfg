CONSTANTS
  trade = trade
  screenshot = screenshot
  first = first
  second = second
  Trades <- MCTrades
  Assets <- MCAssets
  NoTrade = NoTrade
  Requests <- MCRequests
  MaxScreenshots = 1
  MaxArchives = 2
  MaxCrashes = 0
SPECIFICATION Spec
PROPERTIES
  NoOpenTradeIsReplaced
