---------------------------- MODULE MCConnection ----------------------------
(* Model-checking instances of Connection. *)
EXTENDS Connection

CONSTANT p1

\* An attachment, its successor or a detach, and a created Session.
OpenMoveCreate ==
  [t \in Trans |-> CASE t = 1 -> {"open"} [] t = 2 -> {"open", "detach"} [] t = 3 -> {"new"}]

\* One patch for each attachment that has a successor.
PatchBeforeLast == [t \in Trans |-> IF t < MaxTrans THEN 1 ELSE 0]
=============================================================================
