------------------------ MODULE MCAccountPerformance ------------------------
EXTENDS AccountPerformance

\* Positions are flat, under water or in profit.
MCMarkedValues == {-50, 0, 70}
=============================================================================
