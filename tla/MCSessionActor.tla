--------------------------- MODULE MCSessionActor ---------------------------
(* Model-checking instances of SessionActor. *)
EXTENDS SessionActor

CONSTANTS c1, c2, k1, k2, m1, m2
=============================================================================
