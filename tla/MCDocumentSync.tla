--------------------------- MODULE MCDocumentSync ---------------------------
EXTENDS DocumentSync, TLC

CONSTANTS t1, t2

TabSymmetry == Permutations(Tabs)
=============================================================================
