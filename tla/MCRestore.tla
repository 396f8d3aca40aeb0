------------------------------ MODULE MCRestore ------------------------------
EXTENDS Restore, TLC

CONSTANTS trade, screenshot, first, second

\* One trade with one screenshot: every race is about a single file.
MCTrades == {trade}
MCAssets == {screenshot}

\* Two restores: each may begin while the other awaits its snapshot.
MCRequests == {first, second}
MCSymmetry == Permutations(MCRequests)
=============================================================================
