--------------------------- MODULE ActorLifecycle ---------------------------
(***************************************************************************)
(* What a Session actor promises its registry, with no word on how: work   *)
(* is admitted only while the actor is live, the end is announced once,    *)
(* and an actor that reports itself closed has no work left in flight.     *)
(***************************************************************************)
CONSTANT Work

VARIABLES status, inFlight

abstractVars == <<status, inFlight>>

Init == status = "live" /\ inFlight = {}

Admit(w) == /\ status = "live" /\ w \notin inFlight
            /\ inFlight' = inFlight \cup {w}
            /\ UNCHANGED status

Finish(w) == /\ w \in inFlight
             /\ inFlight' = inFlight \ {w}
             /\ UNCHANGED status

\* The registry releases the address on this step, so it may not leave work behind.
End == /\ status = "closing" /\ inFlight = {}
       /\ status' = "closed"
       /\ UNCHANGED inFlight

BeginEnd == /\ status = "live"
            /\ status' = "closing"
            /\ UNCHANGED inFlight

Next == (\E w \in Work : Admit(w) \/ Finish(w)) \/ BeginEnd \/ End

Spec == Init /\ [][Next]_abstractVars
=============================================================================
