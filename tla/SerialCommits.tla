--------------------------- MODULE SerialCommits ----------------------------
(***************************************************************************)
(* What a Session promises of its commits: they take effect one at a time,  *)
(* in the order the line admitted them, each on the state it has read; and  *)
(* once one of them is given up, none after it takes effect.                *)
(***************************************************************************)
EXTENDS Naturals, Sequences

CONSTANTS Keys, None

VARIABLES
  pending,  \* admitted, not yet in effect: [job, reads, got, key]
  memory,   \* per key, the jobs whose writes are in effect
  stopped   \* a commit was given up

serialVars == <<pending, memory, stopped>>

SerialInit == pending = <<>> /\ memory = [k \in Keys |-> {}] /\ stopped = FALSE

\* The line admits one more commit, with what it has read.
Submit ==
  /\ Len(pending') = Len(pending) + 1
  /\ SubSeq(pending', 1, Len(pending)) = pending
  /\ UNCHANGED <<memory, stopped>>

\* The oldest takes effect: what it read is still so.
Commit ==
  /\ ~stopped /\ pending # <<>>
  /\ LET t == Head(pending)
     IN /\ t.reads # None => t.got = memory[t.reads]
        /\ memory' = IF t.key = None THEN memory ELSE [memory EXCEPT ![t.key] = @ \cup {t.job}]
  /\ pending' = Tail(pending) /\ UNCHANGED stopped

\* Everything pending is given up.
Abandon == pending' = <<>> /\ stopped' = TRUE /\ UNCHANGED memory

SerialNext == Submit \/ Commit \/ Abandon
SerialSpec == SerialInit /\ [][SerialNext]_serialVars
=============================================================================
