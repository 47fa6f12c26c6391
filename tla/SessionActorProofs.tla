------------------------- MODULE SessionActorProofs -------------------------
(***************************************************************************)
(* The operation line and the terminal boundary of a Session actor, for    *)
(* any number of operations, clients, commands and mutations, and whether  *)
(* or not disposal may fail.                                               *)
(*                                                                         *)
(* The scope holds no queue, only promises chained on one another, so the  *)
(* line's invariant says that the chain is the arrival order (Chain): from *)
(* there ArrivalOrder is inductive, and the line's other two properties    *)
(* follow from it.  The actor's invariant adds how the close sequence, the *)
(* phase, the scope and the Manager move together (CloseInv), and that the *)
(* work captured for the final wait is all the work there is (TrackedInv). *)
(***************************************************************************)
EXTENDS SessionActor, TLAPS

-----------------------------------------------------------------------------
(* The operation line.                                                     *)

\* Every admitted operation is chained on the arrival before it, and the tail
\* is the last arrival.
Chain ==
  /\ \A i \in 1..Len(arrival) : pred[arrival[i]] = IF i = 1 THEN NoOp ELSE arrival[i - 1]
  /\ tail = IF Len(arrival) = 0 THEN NoOp ELSE arrival[Len(arrival)]

\* The history records exactly the admitted operations, each once.
History ==
  /\ \A i \in 1..Len(arrival) : opState[arrival[i]] \notin {"unsubmitted", "refused"}
  /\ \A o \in Op : opState[o] \notin {"unsubmitted", "refused"}
                   => \E i \in 1..Len(arrival) : arrival[i] = o
  /\ \A i, j \in 1..Len(arrival) : arrival[i] = arrival[j] => i = j

\* Once close has begun the chain no longer grows past what close captured.
DrainIsTail == /\ scope # "open" => drain = tail
               /\ scope = "closed" => Settled(drain)

\* The inductive invariant.
ScopeInv == ScopeTypeOK /\ Chain /\ History /\ ArrivalOrder /\ DrainIsTail

\* The line starts in the invariant.
LEMMA ScopeInitially == ScopeInit => ScopeInv
  BY DEF ScopeInit, ScopeInv, ScopeTypeOK, OpStates, Chain, History, ArrivalOrder, DrainIsTail

\* Every step of the line keeps the invariant, a refusal by the caller's own
\* gate (Refuse without RefuseRun) included.
LEMMA ScopeInductive ==
  ScopeInv /\ [ScopeNext \/ \E o \in Op : Refuse(o)]_scopeVars => ScopeInv'
<1> SUFFICES ASSUME ScopeInv, [ScopeNext \/ \E o \in Op : Refuse(o)]_scopeVars
             PROVE  ScopeInv'
  OBVIOUS
<1> USE NoOpAssumption DEF ScopeInv, ScopeTypeOK, OpStates
<1>1. CASE UNCHANGED scopeVars
  BY <1>1 DEF scopeVars, Chain, History, ArrivalOrder, DrainIsTail, Settled
<1>2. ASSUME NEW o \in Op, Run(o) PROVE ScopeInv'
  <2> DEFINE n == Len(arrival)
  <2>1. /\ arrival' \in Seq(Op) /\ Len(arrival') = n + 1 /\ n \in Nat
        /\ \A i \in 1..n : arrival'[i] = arrival[i] /\ arrival[i] \in Op
        /\ arrival'[n + 1] = o
    BY <1>2 DEF Run
  <2>2. \A i \in 1..n : arrival[i] # o
    BY <1>2 DEF Run, History
  <2>3. ScopeTypeOK'
    BY <1>2, <2>1 DEF Run
  <2>4. Chain'
    BY <1>2, <2>1, <2>2 DEF Run, Chain
  <2>5. History'
    BY <1>2, <2>1, <2>2 DEF Run, History
  <2>6. ArrivalOrder'
    BY <1>2, <2>1, <2>2 DEF Run, ArrivalOrder, Settled
  <2>7. DrainIsTail'
    BY <1>2 DEF Run, DrainIsTail
  <2> QED
    BY <2>3, <2>4, <2>5, <2>6, <2>7
<1>3. ASSUME NEW o \in Op, Refuse(o) PROVE ScopeInv'
  <2>1. ScopeTypeOK' /\ Chain'
    BY <1>3 DEF Refuse, Chain
  <2>2. History'
    BY <1>3 DEF Refuse, History
  <2>3. ArrivalOrder'
    BY <1>3 DEF Refuse, ArrivalOrder, Settled, History
  <2>4. DrainIsTail'
    BY <1>3 DEF Refuse, DrainIsTail, Settled
  <2> QED
    BY <2>1, <2>2, <2>3, <2>4
<1>4. ASSUME NEW o \in Op, Start(o) PROVE ScopeInv'
  <2>1. ScopeTypeOK' /\ Chain'
    BY <1>4 DEF Start, Chain
  <2>2. History'
    BY <1>4 DEF Start, History
  <2>3. \A q \in Op \cup {NoOp} : Settled(q) => Settled(q)'
    BY <1>4 DEF Start, Settled
  <2>4. ArrivalOrder'
    <3> SUFFICES ASSUME NEW i \in 1..Len(arrival), NEW j \in 1..Len(arrival),
                        i < j, opState'[arrival[j]] # "queued"
                 PROVE  Settled(arrival[i])'
      BY <1>4 DEF Start, ArrivalOrder
    <3>1. arrival[i] \in Op /\ arrival[j] \in Op
      OBVIOUS
    <3>2. CASE arrival[j] # o
      BY <1>4, <2>3, <3>1, <3>2 DEF Start, ArrivalOrder
    <3>3. CASE arrival[j] = o
      <4>1. j - 1 \in 1..Len(arrival) /\ pred[o] = arrival[j - 1]
        BY <3>3 DEF Chain
      <4>2. Settled(arrival[j - 1]) /\ arrival[j - 1] \in Op
        BY <1>4, <4>1 DEF Start
      <4>3. Settled(arrival[i])
        BY <4>1, <4>2 DEF ArrivalOrder, Settled
      <4> QED
        BY <1>4, <2>3, <3>1, <4>3 DEF Start
    <3> QED
      BY <3>2, <3>3
  <2>5. DrainIsTail'
    BY <1>4, <2>3 DEF Start, DrainIsTail
  <2> QED
    BY <2>1, <2>2, <2>4, <2>5
<1>5. ASSUME NEW o \in Op, Settle(o) PROVE ScopeInv'
  <2>1. ScopeTypeOK' /\ Chain'
    BY <1>5 DEF Settle, Chain
  <2>2. History'
    BY <1>5 DEF Settle, History
  <2>3. \A q \in Op \cup {NoOp} : Settled(q) => Settled(q)'
    BY <1>5 DEF Settle, Settled
  <2>4. ArrivalOrder'
    BY <1>5, <2>3 DEF Settle, ArrivalOrder
  <2>5. DrainIsTail'
    BY <1>5, <2>3 DEF Settle, DrainIsTail
  <2> QED
    BY <2>1, <2>2, <2>4, <2>5
<1>6. ASSUME CloseScope \/ Drained PROVE ScopeInv'
  BY <1>6 DEF CloseScope, Drained, Chain, History, ArrivalOrder, DrainIsTail, Settled
<1> QED
  BY <1>1, <1>2, <1>3, <1>4, <1>5, <1>6 DEF ScopeNext, RefuseRun

\* The invariant holds in every reachable state.
LEMMA ScopeInvariance == ScopeSpec => []ScopeInv
  BY ScopeInitially, ScopeInductive, PTL DEF ScopeSpec

\* Operations run in arrival order, failed predecessors included.
THEOREM Ordered == ScopeSpec => []ArrivalOrder
<1>1. ScopeInv => ArrivalOrder
  BY DEF ScopeInv
<1> QED
  BY <1>1, ScopeInvariance, PTL

\* No two operations of one scope run at the same time.
THEOREM Serial == ScopeSpec => []OneAtATime
<1>1. ScopeInv => OneAtATime
  <2> SUFFICES ASSUME ScopeInv, NEW o \in Op, NEW q \in Op,
                      opState[o] = "running", opState[q] = "running"
               PROVE  o = q
    BY DEF OneAtATime
  <2>1. PICK i \in 1..Len(arrival) : arrival[i] = o
    BY DEF ScopeInv, History
  <2>2. PICK j \in 1..Len(arrival) : arrival[j] = q
    BY DEF ScopeInv, History
  <2>3. ~(i < j) /\ ~(j < i)
    BY <2>1, <2>2, NoOpAssumption DEF ScopeInv, ArrivalOrder, Settled
  <2> QED
    BY <2>1, <2>2, <2>3
<1> QED
  BY <1>1, ScopeInvariance, PTL

\* The captured tail being settled settles the whole chain.
LEMMA DrainedChain == ScopeInv => ClosedIsDrained
<1> SUFFICES ASSUME ScopeInv, scope = "closed", NEW i \in 1..Len(arrival)
             PROVE  Settled(arrival[i])
  BY DEF ClosedIsDrained
<1> DEFINE n == Len(arrival)
<1>1. n \in 1..n /\ Settled(arrival[n]) /\ arrival[n] \in Op
  BY DEF ScopeInv, ScopeTypeOK, DrainIsTail, Chain
<1> QED
  BY <1>1, NoOpAssumption DEF ScopeInv, ArrivalOrder, Settled

\* A resolved close means that every admitted operation has settled.
THEOREM DrainComplete == ScopeSpec => []ClosedIsDrained
  BY DrainedChain, ScopeInvariance, PTL

-----------------------------------------------------------------------------
(* The actor.                                                              *)

\* The close sequence is the only thing that moves phase, scope and Manager.
CloseInv ==
  /\ closeStep = "none" <=> phase = "live"
  /\ closeStep = "none" <=> scope = "open"
  /\ closeStep = "done" <=> phase = "closed"
  /\ closeStep \notin {"none", "mutations"} => scope = "closed"
  /\ runtime # "up" => closeStep \notin {"none", "mutations"}

\* What FinishClose waits for covers every running command.
TrackedInv ==
  /\ closeStep \in {"tracked", "done"} => Tracked \subseteq awaited
  /\ closeStep = "done" => Tracked = {} /\ observing = {}

\* The inductive invariant.
ActorInv == TypeOK /\ ScopeInv /\ CloseInv /\ TrackedInv

\* Every actor step is a step of the operation line or leaves it alone.
LEMMA ActorScopeStep ==
  [Next]_vars => [ScopeNext \/ \E o \in Op : Refuse(o)]_scopeVars
<1> SUFFICES ASSUME [Next]_vars
             PROVE  [ScopeNext \/ \E o \in Op : Refuse(o)]_scopeVars
  OBVIOUS
<1>1. CASE UNCHANGED vars
  BY <1>1 DEF vars
<1>2. CASE Next
  BY <1>2 DEF Next, ScopeNext, Capability, Observe, StopObservation, Release, Submit, Mutate,
     SettleCommand, StartMutation, SettleMutation, StreamingChange, IdleFires, Close, BeginClose,
     DrainMutations, Dispose, DisposeDone, DisposeFails, FinishClose
<1> QED
  BY <1>1, <1>2

\* An actor starts in the invariant.
LEMMA ActorInitially == Init => ActorInv
<1> SUFFICES ASSUME Init PROVE ActorInv
  OBVIOUS
<1>1. ScopeInv
  BY ScopeInitially DEF Init
<1>2. TypeOK
  BY <1>1 DEF Init, TypeOK, ScopeInv
<1>3. CloseInv /\ TrackedInv
  BY DEF Init, ScopeInit, CloseInv, TrackedInv, Tracked
<1> QED
  BY <1>1, <1>2, <1>3 DEF ActorInv

\* One step keeps the invariant.
LEMMA ActorInductive == ActorInv /\ [Next]_vars => ActorInv'
<1> SUFFICES ASSUME ActorInv, [Next]_vars PROVE ActorInv'
  OBVIOUS
<1>0. ScopeInv' /\ ScopeTypeOK'
  BY ActorScopeStep, ScopeInductive DEF ActorInv, ScopeInv
<1> SUFFICES (TypeOK /\ CloseInv /\ TrackedInv)'
  BY <1>0 DEF ActorInv
<1> USE <1>0 DEF ActorInv, TypeOK, CloseInv, TrackedInv, Tracked
<1>1. CASE UNCHANGED vars
  BY <1>1 DEF vars, scopeVars, actorVars
<1>2. ASSUME NEW c \in Client, Capability(c) \/ Observe(c) \/ StopObservation(c) \/ Release(c)
      PROVE  (TypeOK /\ CloseInv /\ TrackedInv)'
  BY <1>2 DEF Capability, Observe, StopObservation, Release, scopeVars
<1>3. ASSUME NEW h \in Client \cup {Registration}, NEW k \in Command, Submit(h, k)
      PROVE  (TypeOK /\ CloseInv /\ TrackedInv)'
  BY <1>3 DEF Submit, Admissible, scopeVars
<1>4. ASSUME NEW h \in Client \cup {Registration}, NEW o \in Op, Mutate(h, o)
      PROVE  (TypeOK /\ CloseInv /\ TrackedInv)'
  BY <1>4 DEF Mutate, Run, Refuse, actorVars
<1>5. ASSUME NEW k \in Command, SettleCommand(k)
      PROVE  (TypeOK /\ CloseInv /\ TrackedInv)'
  BY <1>5 DEF SettleCommand, scopeVars
<1>6. ASSUME NEW o \in Op, StartMutation(o) \/ SettleMutation(o)
      PROVE  (TypeOK /\ CloseInv /\ TrackedInv)'
  BY <1>6 DEF StartMutation, SettleMutation, Start, Settle, actorVars
<1>7. ASSUME StreamingChange PROVE (TypeOK /\ CloseInv /\ TrackedInv)'
  BY <1>7 DEF StreamingChange, scopeVars
<1>8. ASSUME BeginClose PROVE (TypeOK /\ CloseInv /\ TrackedInv)'
  BY <1>8 DEF BeginClose, CloseScope
<1>9. ASSUME IdleFires PROVE (TypeOK /\ CloseInv /\ TrackedInv)'
  BY <1>8, <1>9 DEF IdleFires, scopeVars
<1>10. ASSUME DrainMutations PROVE (TypeOK /\ CloseInv /\ TrackedInv)'
  BY <1>10 DEF DrainMutations, Drained, actorVars
<1>11. ASSUME Dispose \/ DisposeDone \/ DisposeFails \/ FinishClose
       PROVE  (TypeOK /\ CloseInv /\ TrackedInv)'
  BY <1>11 DEF Dispose, DisposeDone, DisposeFails, FinishClose, scopeVars
<1> QED
  BY <1>1, <1>2, <1>3, <1>4, <1>5, <1>6, <1>7, <1>8, <1>9, <1>10, <1>11 DEF Next, Close

\* The invariant holds in every reachable state.
LEMMA ActorInvariance == Spec => []ActorInv
  BY ActorInitially, ActorInductive, PTL DEF Spec

\* Every variable keeps its type.
THEOREM TypeCorrect == Spec => []TypeOK
<1>1. ActorInv => TypeOK
  BY DEF ActorInv
<1> QED
  BY <1>1, ActorInvariance, PTL

\* A drained line has neither queued nor running operations.
LEMMA DrainedLine ==
  ScopeInv /\ scope = "closed" => \A o \in Op : opState[o] \notin {"queued", "running"}
<1> SUFFICES ASSUME ScopeInv, scope = "closed", NEW o \in Op, opState[o] \in {"queued", "running"}
             PROVE  FALSE
  OBVIOUS
<1>1. PICK i \in 1..Len(arrival) : arrival[i] = o
  BY DEF ScopeInv, History
<1>2. Settled(arrival[i])
  BY DrainedChain DEF ClosedIsDrained
<1> QED
  BY <1>1, <1>2, NoOpAssumption DEF Settled

\* No admitted mutation is still queued or running when disposal begins.
THEOREM MutationsFirst == Spec => []MutationsPrecedeDisposal
<1>1. ActorInv => MutationsPrecedeDisposal
  BY DrainedLine DEF ActorInv, CloseInv, MutationsPrecedeDisposal
<1> QED
  BY <1>1, ActorInvariance, PTL

\* A closed actor has no command, mutation or observer left.
THEOREM Quiet == Spec => []ClosedIsQuiet
<1>1. ActorInv => ClosedIsQuiet
  BY DrainedLine DEF ActorInv, CloseInv, TrackedInv, ClosedIsQuiet
<1> QED
  BY <1>1, ActorInvariance, PTL

\* A step leaves the timer armed only on a live actor that no client holds.
LEMMA TimerInductive == ActorInv /\ TimerMeansIdle /\ [Next]_vars => TimerMeansIdle'
<1> SUFFICES ASSUME ActorInv, TimerMeansIdle, [Next]_vars PROVE TimerMeansIdle'
  OBVIOUS
<1> USE DEF ActorInv, TimerMeansIdle, LiveCapabilities, TypeOK
<1>1. ASSUME idleTimer' = FALSE PROVE TimerMeansIdle'
  BY <1>1
<1>2. ASSUME UNCHANGED <<phase, capability, idleTimer>> PROVE TimerMeansIdle'
  BY <1>2
<1>3. ASSUME NEW c \in Client, Release(c) PROVE TimerMeansIdle'
  BY <1>3 DEF Release
<1>4. ASSUME IdleFires PROVE TimerMeansIdle'
  BY <1>4 DEF IdleFires, BeginClose
<1>5. ASSUME FinishClose PROVE TimerMeansIdle'
  BY <1>5 DEF FinishClose, CloseInv
<1>6. ASSUME NEW c \in Client, Capability(c) \/ Observe(c) \/ StopObservation(c)
      PROVE  TimerMeansIdle'
  BY <1>1, <1>2, <1>6 DEF Capability, Observe, StopObservation
<1>7. ASSUME \/ \E h \in Client \cup {Registration} :
                 (\E k \in Command : Submit(h, k)) \/ \E o \in Op : Mutate(h, o)
             \/ \E k \in Command : SettleCommand(k)
             \/ \E o \in Op : StartMutation(o) \/ SettleMutation(o)
      PROVE  TimerMeansIdle'
  BY <1>2, <1>7 DEF Submit, Mutate, SettleCommand, StartMutation, SettleMutation, actorVars
<1>8. ASSUME StreamingChange \/ DrainMutations \/ Dispose \/ DisposeDone \/ DisposeFails
      PROVE  TimerMeansIdle'
  BY <1>2, <1>8 DEF StreamingChange, DrainMutations, Dispose, DisposeDone, DisposeFails, actorVars
<1>9. ASSUME Close \/ UNCHANGED vars PROVE TimerMeansIdle'
  BY <1>1, <1>2, <1>9 DEF Close, BeginClose, vars, actorVars
<1> QED
  BY <1>3, <1>4, <1>5, <1>6, <1>7, <1>8, <1>9 DEF Next

\* No collection is ever pending against a Session that a client holds or that is
\* closing: whoever attaches, leaves or closes, in whatever order.
THEOREM TimerIsIdle == Spec => []TimerMeansIdle
<1>1. Init => TimerMeansIdle
  BY DEF Init, TimerMeansIdle
<1> QED
  BY <1>1, TimerInductive, ActorInvariance, PTL DEF Spec

\* The work in flight, as the abstract lifecycle sees it.
InFlight == {o \in Op : opState[o] \in {"queued", "running"}} \cup Tracked

\* The actor implements the lifecycle its registry relies on: work enters only
\* while it is live, and it reports itself closed with nothing in flight.
THEOREM Refinement == Spec => ImplementsLifecycle
<1>1. Init => Abstract!Init
  BY DEF Init, ScopeInit, Abstract!Init, Tracked
<1>2. ActorInv /\ [Next]_vars => [Abstract!Next]_(Abstract!abstractVars)
  <2> SUFFICES ASSUME ActorInv, [Next]_vars
               PROVE  [Abstract!Next]_<<phase, InFlight>>
    BY DEF Abstract!abstractVars, InFlight
  <2> USE DEF InFlight, Tracked, ActorInv, TypeOK, ScopeTypeOK
  <2>1. CASE UNCHANGED vars
    BY <2>1 DEF vars, scopeVars, actorVars
  <2>2. ASSUME NEW w \in Op \cup Command, phase = "live", phase' = phase,
               w \notin InFlight, InFlight' = InFlight \cup {w}
        PROVE  Abstract!Next
    BY <2>2 DEF Abstract!Next, Abstract!Admit
  <2>3. ASSUME NEW w \in Op \cup Command, phase' = phase,
               w \in InFlight, InFlight' = InFlight \ {w}
        PROVE  Abstract!Next
    BY <2>3 DEF Abstract!Next, Abstract!Finish
  <2>4. ASSUME phase' = phase, UNCHANGED <<opState, commandState>>
        PROVE  UNCHANGED <<phase, InFlight>>
    BY <2>4
  <2>5. ASSUME NEW c \in Client, Capability(c) \/ Observe(c) \/ StopObservation(c) \/ Release(c)
        PROVE  UNCHANGED <<phase, InFlight>>
    BY <2>4, <2>5 DEF Capability, Observe, StopObservation, Release, scopeVars
  <2>6. ASSUME NEW h \in Client \cup {Registration}, NEW k \in Command, Submit(h, k)
        PROVE  Abstract!Next \/ UNCHANGED <<phase, InFlight>>
    <3> USE <2>6 DEF Submit, scopeVars
    <3>1. CASE Admissible(h)
      <4>1. phase = "live" /\ phase' = phase
        BY <3>1 DEF Admissible
      <4>2. k \notin InFlight /\ InFlight' = InFlight \cup {k}
        BY <3>1, DisjointAssumption
      <4> QED
        BY <2>2, <4>1, <4>2
    <3>2. CASE ~Admissible(h)
      BY <3>2
    <3> QED
      BY <3>1, <3>2
  <2>7. ASSUME NEW h \in Client \cup {Registration}, NEW o \in Op, Mutate(h, o)
        PROVE  Abstract!Next \/ UNCHANGED <<phase, InFlight>>
    <3> USE <2>7 DEF Mutate, actorVars
    <3>1. CASE Admissible(h) /\ Run(o)
      <4>1. phase = "live" /\ phase' = phase
        BY <3>1 DEF Admissible
      <4>2. o \notin InFlight /\ InFlight' = InFlight \cup {o}
        BY <3>1, DisjointAssumption DEF Run
      <4> QED
        BY <2>2, <4>1, <4>2
    <3>2. CASE Refuse(o)
      BY <3>2 DEF Refuse
    <3> QED
      BY <3>1, <3>2
  <2>8. ASSUME NEW k \in Command, SettleCommand(k) PROVE Abstract!Next
    <3>1. phase' = phase /\ k \in InFlight /\ InFlight' = InFlight \ {k}
      BY <2>8, DisjointAssumption DEF SettleCommand, scopeVars
    <3> QED
      BY <2>3, <3>1
  <2>9. ASSUME NEW o \in Op, StartMutation(o) PROVE UNCHANGED <<phase, InFlight>>
    BY <2>9 DEF StartMutation, Start, actorVars
  <2>10. ASSUME NEW o \in Op, SettleMutation(o) PROVE Abstract!Next
    <3>1. phase' = phase /\ o \in InFlight /\ InFlight' = InFlight \ {o}
      BY <2>10, DisjointAssumption DEF SettleMutation, Settle, actorVars
    <3> QED
      BY <2>3, <3>1
  <2>11. ASSUME BeginClose, phase = "live" PROVE Abstract!Next
    BY <2>11 DEF BeginClose, CloseScope, Abstract!Next, Abstract!BeginEnd
  <2>12. ASSUME IdleFires PROVE Abstract!Next \/ UNCHANGED <<phase, InFlight>>
    BY <2>4, <2>11, <2>12 DEF IdleFires, scopeVars
  <2>13. ASSUME StreamingChange \/ DrainMutations \/ Dispose \/ DisposeDone \/ DisposeFails
         PROVE  UNCHANGED <<phase, InFlight>>
    BY <2>4, <2>13 DEF StreamingChange, DrainMutations, Drained, Dispose, DisposeDone,
       DisposeFails, scopeVars, actorVars
  <2>14. ASSUME FinishClose PROVE Abstract!Next
    <3>1. phase = "closing" /\ phase' = "closed" /\ UNCHANGED <<opState, commandState>>
      BY <2>14 DEF FinishClose, CloseInv, scopeVars
    <3>2. Tracked = {}
      BY <2>14 DEF FinishClose, TrackedInv
    <3>3. InFlight = {}
      BY <2>14, <3>2, DrainedLine DEF FinishClose, CloseInv
    <3>4. InFlight' = InFlight
      BY <3>1
    <3> QED
      BY <3>1, <3>3, <3>4 DEF Abstract!Next, Abstract!End
  <2> QED
    BY <2>1, <2>4, <2>5, <2>6, <2>7, <2>8, <2>9, <2>10, <2>11, <2>12, <2>13, <2>14
       DEF Next, Close, vars, scopeVars, actorVars
<1> QED
  BY <1>1, <1>2, ActorInvariance, PTL DEF Spec, ImplementsLifecycle, Abstract!Spec
=============================================================================
