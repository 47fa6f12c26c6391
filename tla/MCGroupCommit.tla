---------------------------- MODULE MCGroupCommit ---------------------------
EXTENDS GroupCommit, TLC

CONSTANTS k1, k2

KeySymmetry == Permutations(Keys)
=============================================================================
