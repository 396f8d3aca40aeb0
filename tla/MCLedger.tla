------------------------------ MODULE MCLedger ------------------------------
EXTENDS Ledger

\* One amount: every rule compares amounts only for equality, or adds them up.
\* It is above one unit, so that a negative adjustment may be corrected.
MCAmounts == {150}

\* A fill without a fee and one with: the fee decides which events settle it.
MCFees == {0, 25}
=============================================================================
