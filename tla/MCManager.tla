----------------------------- MODULE MCManager -----------------------------
EXTENDS Manager

CONSTANTS c1, c2
=============================================================================
