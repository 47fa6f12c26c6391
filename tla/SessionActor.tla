---------------------------- MODULE SessionActor ----------------------------
(***************************************************************************)
(* One Session actor (host/session-actor.ts): the only path to one         *)
(* Session's runtime.  It admits immediate commands (tracked until they    *)
(* settle) and serialized mutations (its LifecycleScope), counts the       *)
(* clients that hold a capability, decides when it is idle, and ends in    *)
(* one joinable close.                                                     *)
(*                                                                         *)
(* A client is one capability() call; the observation it owns is one       *)
(* observe() call.  The Manager behind the actor is external here: it is   *)
(* up, being disposed, or down, and streams while it is up.  Commands are  *)
(* the turns, aborts, steers, recoveries and pulls; mutations the renames, *)
(* labels and navigations.                                                 *)
(***************************************************************************)
EXTENDS LifecycleScope, FiniteSets

CONSTANTS Client,       \* capability() calls
          Command,      \* command admissions, each submitted once
          Registration  \* the admission surface that belongs to no client

ASSUME RegistrationAssumption == Registration \notin Client
ASSUME DisjointAssumption == Op \cap Command = {}

VARIABLES phase,      \* ActorPhase
          capability, \* each client's capability: unminted, held, released
          observing,  \* clients whose observation is installed
          commandState,
          idleTimer,  \* an idle timer is armed
          streaming,  \* document.status.isStreaming or isCompacting
          runtime,    \* the Manager: up, disposing, down
          closeStep,  \* where the close sequence stands
          awaited     \* the tracked work Promise.allSettled captured

actorVars == <<phase, capability, observing, commandState, idleTimer, streaming, runtime,
               closeStep, awaited>>

vars == <<scopeVars, actorVars>>

TypeOK == /\ ScopeTypeOK
          /\ phase \in {"live", "closing", "closed"}
          /\ capability \in [Client -> {"unminted", "held", "released"}]
          /\ observing \subseteq Client
          /\ commandState \in [Command -> {"unsubmitted", "refused", "running", "settled"}]
          /\ idleTimer \in BOOLEAN
          /\ streaming \in BOOLEAN
          /\ runtime \in {"up", "disposing", "down"}
          /\ closeStep \in {"none", "mutations", "dispose", "tracked", "done", "failed"}
          /\ awaited \subseteq Command

Init == /\ ScopeInit
        /\ phase = "live"
        /\ capability = [c \in Client |-> "unminted"]
        /\ observing = {}
        /\ commandState = [k \in Command |-> "unsubmitted"]
        /\ idleTimer = FALSE
        /\ streaming = FALSE
        /\ runtime = "up"
        /\ closeStep = "none"
        /\ awaited = {}

-----------------------------------------------------------------------------
LiveCapabilities == {c \in Client : capability[c] = "held"}

\* The settle promises in the tracked set.
Tracked == {k \in Command : commandState[k] = "running"}

\* Bug: the gate forgets the actor's phase.
AdmissibleByHandle(h) == h # Registration => capability[h] = "held"

\* The gate of one handle: the registration's, or one client capability's.
Admissible(h) == phase = "live" /\ (h # Registration => capability[h] = "held")

\* capability(): counted from here on, whatever the phase; cancels the timer.
Capability(c) ==
  /\ capability[c] = "unminted"
  /\ capability' = [capability EXCEPT ![c] = "held"]
  /\ idleTimer' = FALSE
  /\ UNCHANGED <<scopeVars, phase, observing, commandState, streaming, runtime, closeStep, awaited>>

\* observe(): throws, installing nothing, unless held and live.
Observe(c) ==
  /\ capability[c] = "held" /\ phase = "live" /\ c \notin observing
  /\ observing' = observing \cup {c}
  /\ UNCHANGED <<scopeVars, phase, capability, commandState, idleTimer, streaming, runtime,
                 closeStep, awaited>>

\* ObservationCapability.release(): this observation and nothing else.
StopObservation(c) ==
  /\ c \in observing
  /\ observing' = observing \ {c}
  /\ UNCHANGED <<scopeVars, phase, capability, commandState, idleTimer, streaming, runtime,
                 closeStep, awaited>>

\* Capability release(): stops what it owns; the last client arms the timer.
Release(c) ==
  /\ capability[c] = "held"
  /\ capability' = [capability EXCEPT ![c] = "released"]
  /\ observing' = observing \ {c}
  /\ idleTimer' = (idleTimer \/ (LiveCapabilities = {c} /\ phase = "live"))
  /\ UNCHANGED <<scopeVars, phase, commandState, streaming, runtime, closeStep, awaited>>

\* commandOp: admitted work starts at once and is tracked.
Submit(h, k) ==
  /\ commandState[k] = "unsubmitted"
  /\ commandState' = [commandState EXCEPT ![k] = IF Admissible(h) THEN "running" ELSE "refused"]
  /\ UNCHANGED <<scopeVars, phase, capability, observing, idleTimer, streaming, runtime,
                 closeStep, awaited>>

\* A command settles by itself, or because disposal aborted its turn.
SettleCommand(k) ==
  /\ commandState[k] = "running"
  /\ commandState' = [commandState EXCEPT ![k] = "settled"]
  /\ UNCHANGED <<scopeVars, phase, capability, observing, idleTimer, streaming, runtime,
                 closeStep, awaited>>

\* mutateOp: admitted mutations queue on the scope.
Mutate(h, o) ==
  /\ \/ Admissible(h) /\ Run(o)
     \/ ~Admissible(h) /\ Refuse(o)
  /\ UNCHANGED actorVars

StartMutation(o) == Start(o) /\ UNCHANGED actorVars

SettleMutation(o) == Settle(o) /\ UNCHANGED actorVars

\* The runtime's streaming or compacting flag flips while it is up.
StreamingChange ==
  /\ runtime = "up"
  /\ streaming' = ~streaming
  /\ UNCHANGED <<scopeVars, phase, capability, observing, commandState, idleTimer, runtime,
                 closeStep, awaited>>

\* Bug: the pending idle timer survives the close.
BeginCloseKeepingTimer ==
  /\ phase' = "closing"
  /\ closeStep' = "mutations"
  /\ CloseScope
  /\ UNCHANGED <<capability, observing, commandState, idleTimer, streaming, runtime, awaited>>

\* close(): the terminal fact, the timer and the scope's admission, at once.
BeginClose ==
  /\ phase' = "closing"
  /\ idleTimer' = FALSE
  /\ closeStep' = "mutations"
  /\ CloseScope
  /\ UNCHANGED <<capability, observing, commandState, streaming, runtime, awaited>>

\* A first close() from the registry; a later call joins and changes nothing.
Close == phase = "live" /\ BeginClose

\* Bug: a timer that finds the runtime streaming is not armed again.
IdleFiresOnce ==
  /\ idleTimer
  /\ \/ /\ phase = "live" /\ LiveCapabilities = {} /\ ~streaming
        /\ BeginClose
     \/ /\ phase # "live" \/ LiveCapabilities # {} \/ streaming
        /\ idleTimer' = FALSE
        /\ UNCHANGED <<scopeVars, phase, capability, observing, commandState, streaming, runtime,
                       closeStep, awaited>>

\* The timer fires (maybeCollect): an idle actor asks to be collected (onIdle),
\* which the registry answers with close(); a busy one arms the timer again, and
\* a timer that is no longer entitled to decide lapses.
IdleFires ==
  /\ idleTimer
  /\ \/ /\ phase = "live" /\ LiveCapabilities = {} /\ ~streaming
        /\ BeginClose
     \/ /\ phase # "live" \/ LiveCapabilities # {} \/ streaming
        /\ idleTimer' = (phase = "live" /\ LiveCapabilities = {})
        /\ UNCHANGED <<scopeVars, phase, capability, observing, commandState, streaming, runtime,
                       closeStep, awaited>>

\* mutations.close(): the drain resolves on its own ...
DrainMutations == Drained /\ UNCHANGED actorVars

\* Bug: disposal starts without waiting for the mutation line.
DisposeAtOnce ==
  /\ closeStep = "mutations"
  /\ closeStep' = "dispose"
  /\ runtime' = "disposing"
  /\ UNCHANGED <<scopeVars, phase, capability, observing, commandState, idleTimer, streaming,
                 awaited>>

\* Bug: the tracked work is awaited before the disposal that would settle it.
DisposeAfterTracked ==
  /\ closeStep = "mutations" /\ scope = "closed" /\ Tracked = {}
  /\ closeStep' = "dispose"
  /\ runtime' = "disposing"
  /\ UNCHANGED <<scopeVars, phase, capability, observing, commandState, idleTimer, streaming,
                 awaited>>

\* ... and then the Manager is disposed.
Dispose ==
  /\ closeStep = "mutations" /\ scope = "closed"
  /\ closeStep' = "dispose"
  /\ runtime' = "disposing"
  /\ UNCHANGED <<scopeVars, phase, capability, observing, commandState, idleTimer, streaming,
                 awaited>>

\* Disposal resolves; the tracked work still unsettled is awaited.
DisposeDone ==
  /\ closeStep = "dispose"
  /\ closeStep' = "tracked"
  /\ runtime' = "down"
  /\ streaming' = FALSE
  /\ awaited' = Tracked
  /\ UNCHANGED <<scopeVars, phase, capability, observing, commandState, idleTimer>>

\* Manager.dispose rejects: close rejects and the phase stays closing.
DisposeFails ==
  /\ closeStep = "dispose"
  /\ closeStep' = "failed"
  /\ UNCHANGED <<scopeVars, phase, capability, observing, commandState, idleTimer, streaming,
                 runtime, awaited>>

\* Bug: the tracked work is not awaited before the actor reports itself closed.
FinishWithoutTracked ==
  /\ closeStep = "tracked"
  /\ closeStep' = "done"
  /\ observing' = {}
  /\ phase' = "closed"
  /\ UNCHANGED <<scopeVars, capability, commandState, idleTimer, streaming, runtime, awaited>>

\* Every awaited operation settled: observers go, the actor is closed.
FinishClose ==
  /\ closeStep = "tracked"
  /\ \A k \in awaited : commandState[k] = "settled"
  /\ closeStep' = "done"
  /\ observing' = {}
  /\ phase' = "closed"
  /\ UNCHANGED <<scopeVars, capability, commandState, idleTimer, streaming, runtime, awaited>>

Next ==
  \/ \E c \in Client : Capability(c) \/ Observe(c) \/ StopObservation(c) \/ Release(c)
  \/ \E h \in Client \cup {Registration} :
       \/ \E k \in Command : Submit(h, k)
       \/ \E o \in Op : Mutate(h, o)
  \/ \E k \in Command : SettleCommand(k)
  \/ \E o \in Op : StartMutation(o) \/ SettleMutation(o)
  \/ StreamingChange \/ IdleFires \/ Close
  \/ DrainMutations \/ Dispose \/ DisposeDone \/ DisposeFails \/ FinishClose

Spec == Init /\ [][Next]_vars

\* The event loop runs due timers and settled continuations; a mutation that
\* runs settles; disposal settles.  A command need not settle before the runtime
\* is down: only disposal ends the turn it may be waiting for.
Fairness ==
  /\ \A o \in Op : WF_vars(StartMutation(o)) /\ WF_vars(SettleMutation(o))
  /\ \A k \in Command : WF_vars(runtime = "down" /\ SettleCommand(k))
  /\ WF_vars(IdleFires) /\ WF_vars(DrainMutations) /\ WF_vars(Dispose)
  /\ WF_vars(DisposeDone) /\ WF_vars(FinishClose)

FairSpec == Spec /\ Fairness

-----------------------------------------------------------------------------
\* A mutation that was admitted settles before the Manager's disposal begins:
\* no append reaches a runtime that is going away.
MutationsPrecedeDisposal ==
  \A o \in Op : opState[o] \in {"queued", "running"} => runtime = "up"

\* A closed actor has nothing left: no tracked command, no mutation, no
\* installed observer ("every tracked operation is awaited before close
\* resolves", "nothing registered through a capability outlives the teardown").
ClosedIsQuiet ==
  phase = "closed" => /\ Tracked = {}
                      /\ \A o \in Op : opState[o] \notin {"queued", "running"}
                      /\ observing = {}

\* An armed idle timer never coexists with an attached client or a close: a
\* collection cannot be pending against a Session that is in use.
TimerMeansIdle == idleTimer => phase = "live" /\ LiveCapabilities = {}

\* Every close settles, whatever commands were in flight when it began: the actor
\* is closed, or the Manager's disposal rejected and close with it.
CloseCompletes == (phase = "closing") ~> (phase = "closed" \/ closeStep = "failed")

\* A Session that all its clients have left is collected, unless a client comes
\* back or the runtime never rests.
IdleCollected ==
  (\E c \in Client : capability[c] = "released")
    ~> (phase # "live" \/ LiveCapabilities # {} \/ streaming)

\* The abstract lifecycle the registry relies on.
Abstract == INSTANCE ActorLifecycle WITH
              Work <- Op \cup Command,
              status <- phase,
              inFlight <- {o \in Op : opState[o] \in {"queued", "running"}} \cup Tracked

\* The actor implements it.
ImplementsLifecycle == Abstract!Spec
=============================================================================
