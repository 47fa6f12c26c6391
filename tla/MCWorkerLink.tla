---------------------------- MODULE MCWorkerLink ----------------------------
(* Model-checking instances of WorkerLink. *)
EXTENDS WorkerLink

CONSTANTS o1, o2

\* A created Session's Document changes once.
CreatedPatch == [o \in Obs |-> IF o \in Created THEN 1 ELSE 0]
=============================================================================
