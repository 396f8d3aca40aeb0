----------------------------- MODULE MCPlanning -----------------------------
EXTENDS Planning
MCAccounts == 1 .. 2
=============================================================================
