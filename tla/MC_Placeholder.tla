--------------------------- MODULE MC_Placeholder ---------------------------
EXTENDS Placeholder, TLC

CONSTANTS a, b, v1, v2

MCBaseNames == {a, b}
MCVals == {v1, v2}
=============================================================================
