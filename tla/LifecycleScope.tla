--------------------------- MODULE LifecycleScope ---------------------------
(***************************************************************************)
(* The serialized operation line with a terminal close                     *)
(* (host/lifecycle-scope.ts), shared by the Session actor's mutations, the *)
(* Connection's transitions and the settings writes.                       *)
(*                                                                         *)
(* The code keeps no queue: every run chains on the promise of the run     *)
(* before it (tail.then(operation)).  The model keeps that shape: pred[o]  *)
(* is the operation whose promise o waits for, tail the last one chained.  *)
(* Arrival order, one-at-a-time execution and the drain are consequences   *)
(* to be checked.  A second close joins the first drain and changes        *)
(* nothing.                                                                *)
(***************************************************************************)
EXTENDS Naturals, Sequences

CONSTANTS Op,    \* the operations that may be submitted, each once
          NoOp   \* the resolved promise the chain starts from

ASSUME NoOpAssumption == NoOp \notin Op

VARIABLES opState,  \* what became of each operation
          pred,     \* the promise each admitted operation is chained on
          tail,     \* the chain's last promise
          scope,    \* LifecycleScope.state
          drain,    \* the tail that close captured
          arrival   \* history: the admitted operations in order of arrival

scopeVars == <<opState, pred, tail, scope, drain, arrival>>

OpStates == {"unsubmitted", "refused", "queued", "running", "fulfilled", "rejected"}

ScopeTypeOK == /\ opState \in [Op -> OpStates]
               /\ pred \in [Op -> Op \cup {NoOp}]
               /\ tail \in Op \cup {NoOp}
               /\ scope \in {"open", "closing", "closed"}
               /\ drain \in Op \cup {NoOp}
               /\ arrival \in Seq(Op)

ScopeInit == /\ opState = [o \in Op |-> "unsubmitted"]
             /\ pred = [o \in Op |-> NoOp]
             /\ tail = NoOp
             /\ scope = "open"
             /\ drain = NoOp
             /\ arrival = <<>>

-----------------------------------------------------------------------------
\* Bug: only a successful predecessor releases the chain (one then-handler).
SettledIfFulfilled(o) == o # NoOp => opState[o] = "fulfilled"

\* The chain's promise for o is settled: tail swallows a rejection.
Settled(o) == o # NoOp => opState[o] \in {"fulfilled", "rejected"}

\* Bug: the tail is not advanced, so the next run chains on the same promise.
RunWithoutTail(o) ==
  /\ opState[o] = "unsubmitted" /\ scope = "open"
  /\ opState' = [opState EXCEPT ![o] = "queued"]
  /\ pred' = [pred EXCEPT ![o] = tail]
  /\ arrival' = Append(arrival, o)
  /\ UNCHANGED <<tail, scope, drain>>

\* run: admitted while close has not begun.
Run(o) ==
  /\ opState[o] = "unsubmitted" /\ scope = "open"
  /\ opState' = [opState EXCEPT ![o] = "queued"]
  /\ pred' = [pred EXCEPT ![o] = tail]
  /\ tail' = o
  /\ arrival' = Append(arrival, o)
  /\ UNCHANGED <<scope, drain>>

\* The caller is told no and the chain does not change.
Refuse(o) ==
  /\ opState[o] = "unsubmitted"
  /\ opState' = [opState EXCEPT ![o] = "refused"]
  /\ UNCHANGED <<pred, tail, scope, drain, arrival>>

\* run once close has begun rejects at once.
RefuseRun(o) == scope # "open" /\ Refuse(o)

\* The operation's turn comes when the promise it is chained on settles,
\* whether or not the scope has begun to close in the meantime.
Start(o) ==
  /\ opState[o] = "queued" /\ Settled(pred[o])
  /\ opState' = [opState EXCEPT ![o] = "running"]
  /\ UNCHANGED <<pred, tail, scope, drain, arrival>>

Settle(o) ==
  /\ opState[o] = "running"
  /\ \E result \in {"fulfilled", "rejected"} : opState' = [opState EXCEPT ![o] = result]
  /\ UNCHANGED <<pred, tail, scope, drain, arrival>>

\* close: admission stops at once and the drain is the current tail.
CloseScope ==
  /\ scope = "open"
  /\ scope' = "closing"
  /\ drain' = tail
  /\ UNCHANGED <<opState, pred, tail, arrival>>

Drained ==
  /\ scope = "closing" /\ Settled(drain)
  /\ scope' = "closed"
  /\ UNCHANGED <<opState, pred, tail, drain, arrival>>

ScopeNext == \/ \E o \in Op : Run(o) \/ RefuseRun(o) \/ Start(o) \/ Settle(o)
             \/ CloseScope
             \/ Drained

ScopeSpec == ScopeInit /\ [][ScopeNext]_scopeVars

-----------------------------------------------------------------------------
\* "run executes operations one at a time".
OneAtATime == \A o, q \in Op : opState[o] = "running" /\ opState[q] = "running" => o = q

\* "in arrival order": an operation runs only after every earlier arrival has
\* settled, failed ones included.
ArrivalOrder ==
  \A i, j \in 1..Len(arrival) :
    i < j /\ opState[arrival[j]] # "queued" => Settled(arrival[i])

\* "resolves only after every admitted operation has settled".
ClosedIsDrained == scope = "closed" => \A i \in 1..Len(arrival) : Settled(arrival[i])

\* "a failure never wedges whatever is queued behind it": what was admitted
\* settles, where the scope's user gives it a fair event loop.
AdmittedSettles == \A o \in Op : (opState[o] = "queued") ~> Settled(o)
=============================================================================
