------------------------ MODULE MCActivationRegistry ------------------------
(* Model-checking instances of ActivationRegistry. *)
EXTENDS ActivationRegistry

CONSTANTS t1, t2, t3, a1, a2, f1, s1, s2

\* Two files that carry the same durable id, and a fresh Session.
SharedId == [a \in Address |-> IF a \in Addr THEN s1 ELSE s2]

\* The first request opens or creates, the second opens the same Session, its twin
\* or the created one, the third closes or archives the first file.
MixedRequests ==
  [t \in Task |-> CASE t = t1 -> {<<"open", a1>>, <<"new", f1>>}
                    [] t = t2 -> {<<"open", a1>>, <<"open", a2>>, <<"open", f1>>}
                    [] t = t3 -> {<<"close", a1>>, <<"archive", a1>>}]

\* Requests that meet an archive of the one file there is.
ArchiveRequests == [t \in Task |-> {"open", "archive"} \X {a1}]
=============================================================================
