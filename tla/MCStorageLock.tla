--------------------------- MODULE MCStorageLock ---------------------------
(* Model-checking instances of StorageLock. *)
EXTENDS StorageLock, TLC

CONSTANTS p1, p2, p3, p4, h1, h2

\* Every process on one machine.
OneHost == [p \in Proc |-> h1]

\* Two processes that die and two that reclaim after them.
PairSymmetry == Permutations({p1, p2}) \cup Permutations({p3, p4})
=============================================================================
