-------------------------- MODULE MCTradeLifecycle --------------------------
EXTENDS TradeLifecycle

\* For a long and a short trade beside each other: an entry of each side, which
\* is an account-level exit of the other, and the generic exit of both.
MCBothSides == {"buy", "sell_short", "reduce"}

\* For long trades only.
MCLongSide == {"buy", "sell", "reduce"}
=============================================================================
