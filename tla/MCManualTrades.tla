--------------------------- MODULE MCManualTrades ---------------------------
EXTENDS ManualTrades, TLC

CONSTANTS t1, t2

Symmetry == Permutations({t1, t2})
=============================================================================
