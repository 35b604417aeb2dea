--------------------------- MODULE MCManualDispatch ---------------------------
EXTENDS ManualDispatch

CONSTANTS m1, m2, c1, c2, c3
=============================================================================
