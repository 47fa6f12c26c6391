--------------------------- MODULE ManagerProofs ---------------------------
(***************************************************************************)
(* The Document is never wedged in its streaming state, and no stamp       *)
(* reaches a runtime that is being disposed: for any number of prompts,    *)
(* recoveries and stops, in any interleaving.                              *)
(*                                                                         *)
(* NotWedged needs to know that a run belongs to a call (RunInv): what     *)
(* ends the run hands the reset to its owner, inside AgentSession's        *)
(* wrapper or in recoverTurn's finally.                                    *)
(***************************************************************************)
EXTENDS Manager, TLAPS

\* A run has an owner, and a message while it has one to deliver.
RunInv ==
  /\ HasRun => run.owner \in Calls
  /\ run.at \in {"greet", "deliver"} => run.msg \in Calls

\* The type of Agent.activeRun.
Runs == [owner : Calls \cup {None}, at : RunStates, msg : Calls \cup {None}, more : BOOLEAN,
         aborted : BOOLEAN]

\* The type of the user's bash commands.
Commands == [started : 0..MaxBash, running : Nat, deferred : Nat]

\* The inductive invariant.
ManagerInv == TypeOK /\ RunInv /\ NotWedged /\ StampsOnLiveRuntime

\* The types of what wakes the idle-waiters, for the calls the action leaves.
LEMMA WakeTypes ==
  ASSUME TypeOK, NEW from \in [Calls -> CallStates], WakeIdle(from)
  PROVE  /\ call' \in [Calls -> CallStates] /\ awaited' \in [Waiters -> Calls \cup {None}]
         /\ teardown' \in Teardowns
         /\ Subscribed' <=> Subscribed
         /\ teardown' \in {"closing", "gone"} => teardown \in {"closing", "gone"}
         /\ \A c \in Calls : from[c] # "stopping" => call'[c] = from[c]
  BY DEF TypeOK, WakeIdle, AfterIdle, CallStates, Teardowns, Waiters, Subscribed

\* A run that begins is a run of its caller.
LEMMA StartTypes ==
  ASSUME NEW c \in Calls, NEW m \in Calls \cup {None}, StartRun(c, m, "starting")
  PROVE  /\ run' \in Runs
         /\ RunInv' /\ HasRun'
  BY DEF StartRun, Runs, RunStates, RunInv, HasRun

\* An abort leaves the run where it is.
LEMMA AbortTypes ==
  ASSUME TypeOK, RunInv, SessionAbort
  PROVE  /\ run' \in Runs
         /\ abortReq' \in BOOLEAN /\ RunInv' /\ (HasRun' <=> HasRun)
  BY DEF TypeOK, Runs, RunInv, SessionAbort, HasRun

\* The Manager starts in the invariant.
LEMMA ManagerInitially == Init => ManagerInv
<1> SUFFICES ASSUME Init PROVE ManagerInv
  OBVIOUS
<1>1. TypeOK
  <2>1. run \in Runs
    BY DEF Init, NoRun, Runs, RunStates
  <2>2. queue \in Seq(Calls) /\ git \in Seq({"run", "bash"})
    BY DEF Init
  <2>3. call \in [Calls -> CallStates] /\ awaited \in [Waiters -> Calls \cup {None}]
    BY DEF Init, CallStates
  <2>4. teardown \in Teardowns /\ bash \in Commands
    BY MaxBashIsNat DEF Init, Teardowns, Commands
  <2> QED
    BY <2>1, <2>2, <2>3, <2>4 DEF Init, TypeOK, Runs, Commands
<1>2. RunInv /\ NotWedged /\ StampsOnLiveRuntime
  BY DEF Init, RunInv, HasRun, NoRun, NotWedged, StampsOnLiveRuntime
<1> QED
  BY <1>1, <1>2 DEF ManagerInv

\* A call moves on.
LEMMA CallMoves ==
  ASSUME TypeOK, NEW c \in Calls, NEW s \in CallStates
  PROVE  /\ [call EXCEPT ![c] = s] \in [Calls -> CallStates]
         /\ \A d \in Calls : d # c => [call EXCEPT ![c] = s][d] = call[d]
         /\ [call EXCEPT ![c] = s][c] = s
  BY DEF TypeOK

\* The queues: what they give and what they become.
LEMMA QueueTypes ==
  ASSUME NEW S, NEW q \in Seq(S), NEW e \in S
  PROVE  /\ Append(q, e) \in Seq(S)
         /\ q # <<>> => Head(q) \in S /\ Tail(q) \in Seq(S)
  OBVIOUS

\* A stamp is one observation more, while the scope is open.
LEMMA StampTypes ==
  ASSUME TypeOK, StampsOnLiveRuntime, UNCHANGED teardown, Stamp \/ UNCHANGED git
  PROVE  git' \in Seq({"run", "bash"}) /\ StampsOnLiveRuntime'
<1>1. git \in Seq({"run", "bash"})
  BY DEF TypeOK
<1>2. "run" \in {"run", "bash"}
  OBVIOUS
<1>3. Append(git, "run") \in Seq({"run", "bash"})
  BY <1>1, <1>2, QueueTypes
<1>4. git' = git \/ (Subscribed /\ git' = Append(git, "run"))
  BY DEF Stamp
<1>5. git' \in Seq({"run", "bash"})
  BY <1>1, <1>3, <1>4
<1>6. StampsOnLiveRuntime'
  BY <1>4 DEF StampsOnLiveRuntime, Subscribed
<1> QED
  BY <1>5, <1>6

\* A bash entry leaves one of the tails.
LEMMA BashedTypes ==
  ASSUME TypeOK
  PROVE  Bashed(tail) \in Leafs
BY DEF TypeOK, Bashed, Leafs, Tails, Bases

\* A flush observes what it appends, while the scope is open.
LEMMA FlushTypes ==
  ASSUME TypeOK, StampsOnLiveRuntime, Flush,
         teardown' \in {"closing", "gone"} => teardown \in {"closing", "gone"}
  PROVE  /\ git' \in Seq({"run", "bash"}) /\ bash' \in Commands /\ tail' \in Leafs
         /\ StampsOnLiveRuntime'
<1>1. git \in Seq({"run", "bash"}) /\ bash \in Commands
  BY DEF TypeOK, Commands
<1>2. bash' \in Commands
  BY <1>1 DEF Flush, Commands
<1>3. bash.deferred \in Nat
  BY <1>1 DEF Commands
<1>4. [i \in 1..bash.deferred |-> "bash"] \in Seq({"run", "bash"})
  BY <1>3
<1>5. git \o [i \in 1..bash.deferred |-> "bash"] \in Seq({"run", "bash"})
  BY <1>1, <1>4
<1>6. git' = git \/ (Subscribed /\ git' = git \o [i \in 1..bash.deferred |-> "bash"])
  BY DEF Flush
<1>7. git' \in Seq({"run", "bash"})
  BY <1>1, <1>5, <1>6
<1>8. StampsOnLiveRuntime'
  BY <1>6 DEF StampsOnLiveRuntime, Subscribed
<1>9. tail' \in Leafs
  BY BashedTypes DEF Flush, TypeOK
<1> QED
  BY <1>2, <1>7, <1>8, <1>9

\* What a call's own steps need: what they leave of the run, the queue and the
\* stamps, and that the owner of the reset does not leave without it.
LEMMA SettledKeeps ==
  ASSUME ManagerInv, NEW c \in Calls, Settled(c), UNCHANGED run
  PROVE  /\ call' \in [Calls -> CallStates] /\ awaited' \in [Waiters -> Calls \cup {None}]
         /\ teardown' \in Teardowns /\ active' \in BOOLEAN /\ abortReq' \in BOOLEAN
         /\ streaming' \in BOOLEAN /\ git' \in Seq({"run", "bash"}) /\ bash' \in Commands
         /\ tail' \in Leafs /\ RunInv' /\ NotWedged' /\ StampsOnLiveRuntime'
<1> USE DEF ManagerInv, Settled
<1>1. [call EXCEPT ![c] = "done"] \in [Calls -> CallStates]
  BY CallMoves DEF CallStates
<1>2. call' \in [Calls -> CallStates] /\ awaited' \in [Waiters -> Calls \cup {None}]
  BY <1>1, WakeTypes
<1>3. /\ teardown' \in Teardowns
      /\ Subscribed' <=> Subscribed
      /\ teardown' \in {"closing", "gone"} => teardown \in {"closing", "gone"}
  BY <1>1, WakeTypes
<1>4. streaming' \in BOOLEAN /\ ~(streaming' /\ Subscribed')
  BY <1>3 DEF TypeOK
<1>5. RunInv' /\ NotWedged'
  BY <1>3, <1>4 DEF RunInv, HasRun, NotWedged
<1>6. git' \in Seq({"run", "bash"}) /\ bash' \in Commands /\ tail' \in Leafs /\ StampsOnLiveRuntime'
  BY <1>3, FlushTypes
<1> QED
  BY <1>2, <1>3, <1>4, <1>5, <1>6

\* Prompts, up to the run they start.
LEMMA PromptKeeps ==
  ASSUME ManagerInv, NEW c \in Calls,
         Prompt(c) \/ PreparePrompt(c) \/ BeginRun(c) \/ PrepareFails(c) \/ PrepareDone(c)
  PROVE  ManagerInv'
<1> USE DEF ManagerInv, sessionVars, history
<1>1. CASE Prompt(c)
  BY <1>1 DEF Prompt, TypeOK, CallStates, RunInv, HasRun, NotWedged, Subscribed, StampsOnLiveRuntime
<1>2. CASE PreparePrompt(c)
  <2> USE <1>2 DEF PreparePrompt
  <2>1. PICK s \in {"done", "cleared"} : call' = [call EXCEPT ![c] = s]
    OBVIOUS
  <2>2. queue' \in Seq(Calls) /\ admitted' \subseteq Calls
    <3>1. queue \in Seq(Calls) /\ Append(queue, c) \in Seq(Calls)
      BY QueueTypes DEF TypeOK
    <3>2. queue' \in {queue, Append(queue, c)} /\ admitted' \in {admitted, admitted \cup {c}}
      OBVIOUS
    <3> QED
      BY <3>1, <3>2 DEF TypeOK
  <2>3. TypeOK'
    BY <2>1, <2>2, CallMoves DEF TypeOK, CallStates
  <2>4. RunInv' /\ NotWedged' /\ StampsOnLiveRuntime'
    BY <2>1 DEF TypeOK, RunInv, HasRun, NotWedged, Subscribed, StampsOnLiveRuntime
  <2> QED
    BY <2>3, <2>4
<1>3. CASE BeginRun(c)
  <2> USE <1>3 DEF BeginRun
  <2>1. call' \in [Calls -> CallStates] /\ active' \in BOOLEAN /\ abortReq' \in BOOLEAN
    BY CallMoves, ZenonT(30) DEF CallStates
  <2>2. TypeOK'
    BY <2>1 DEF TypeOK
  <2>3. RunInv' /\ NotWedged' /\ StampsOnLiveRuntime'
    BY DEF TypeOK, RunInv, HasRun, NotWedged, Subscribed, StampsOnLiveRuntime
  <2> QED
    BY <2>2, <2>3
<1>4. CASE PrepareFails(c)
  <2> USE <1>4 DEF PrepareFails
  <2>1. [call EXCEPT ![c] = "done"] \in [Calls -> CallStates]
    BY CallMoves DEF CallStates
  <2>2. /\ call' \in [Calls -> CallStates] /\ awaited' \in [Waiters -> Calls \cup {None}]
        /\ teardown' \in Teardowns
        /\ Subscribed' <=> Subscribed
        /\ teardown' \in {"closing", "gone"} => teardown \in {"closing", "gone"}
        /\ \A d \in Calls : [call EXCEPT ![c] = "done"][d] # "stopping"
                            => call'[d] = [call EXCEPT ![c] = "done"][d]
    BY <2>1, WakeTypes
  <2>3. git' \in Seq({"run", "bash"}) /\ bash' \in Commands /\ tail' \in Leafs /\ StampsOnLiveRuntime'
    BY <2>2, FlushTypes
  <2>6. TypeOK'
    BY <2>2, <2>3 DEF TypeOK, Commands
  <2>4. NotWedged'
    <3>1. \A d \in Calls : call[d] \in {"post", "finally"} => call'[d] = call[d]
      BY <2>2 DEF TypeOK
    <3> QED
      BY <2>2, <3>1 DEF NotWedged, HasRun
  <2>5. RunInv'
    BY <2>2 DEF RunInv, HasRun
  <2> QED
    BY <2>3, <2>4, <2>5, <2>6
<1>5. CASE PrepareDone(c)
  <2> USE <1>5 DEF PrepareDone
  <2>1. admitted' \subseteq Calls
    BY DEF TypeOK
  <2>2. CASE HasRun
    <3>1. Settled(c) /\ UNCHANGED run
      BY <2>2
    <3> QED
      BY <2>1, <3>1, SettledKeeps DEF TypeOK, Commands
  <2>3. CASE ~HasRun
    <3>1. run' \in Runs /\ RunInv' /\ HasRun'
      BY <2>3, StartTypes
    <3>2. git' \in Seq({"run", "bash"}) /\ bash' \in Commands /\ tail' \in Leafs /\ StampsOnLiveRuntime'
      BY <2>3, FlushTypes
    <3>3. TypeOK'
      <4>1. call' \in [Calls -> CallStates]
        BY <2>3, CallMoves DEF CallStates
      <4> QED
        BY <2>1, <2>3, <3>1, <3>2, <4>1 DEF TypeOK, Runs, Commands
    <3>4. NotWedged'
      BY <2>3, <3>1 DEF NotWedged
    <3> QED
      BY <3>1, <3>2, <3>3, <3>4
  <2> QED
    BY <2>2, <2>3
<1> QED
  BY <1>1, <1>2, <1>3, <1>4, <1>5

\* The Agent's run: it keeps its owner until it ends, and hands the reset over.
LEMMA RunKeeps ==
  ASSUME ManagerInv, RunStep
  PROVE  ManagerInv'
<1> USE NoneIsNoCall DEF ManagerInv, RunUnchanged, sessionVars
<1>1. CASE AgentStart
  <2> USE <1>1 DEF AgentStart
  <2>1. run' \in Runs /\ streaming' \in BOOLEAN
    BY DEF TypeOK, Runs, RunStates
  <2>2. RunInv' /\ HasRun'
    BY DEF TypeOK, RunInv, HasRun
  <2> QED
    BY <2>1, <2>2, StampTypes DEF TypeOK, Runs, NotWedged
<1>2. CASE Deliver
  <2> USE <1>2 DEF Deliver
  <2>1. run' \in Runs
    BY DEF TypeOK, Runs, RunStates
  <2>2. RunInv' /\ HasRun'
    BY DEF TypeOK, RunInv, HasRun
  <2>3. delivered' \subseteq Calls /\ tail' \in Leafs
    BY DEF TypeOK, RunInv, Leafs, Tails, Bases
  <2> QED
    BY <2>1, <2>2, <2>3, StampTypes DEF TypeOK, Runs, NotWedged
<1>3. CASE Poll
  <2> USE <1>3 DEF Poll
  <2>1. CASE queue # <<>>
    <3>1. Head(queue) \in Calls /\ queue' \in Seq(Calls)
      <4>1. queue \in Seq(Calls)
        BY DEF TypeOK
      <4>2. Head(queue) \in Calls /\ Tail(queue) \in Seq(Calls)
        BY <2>1, <4>1
      <4>3. queue' = Tail(queue)
        BY <2>1
      <4> QED
        BY <4>2, <4>3
    <3>2. run' \in Runs
      BY <2>1, <3>1, ZenonT(30) DEF TypeOK, Runs, RunStates
    <3>3. RunInv' /\ HasRun'
      BY <2>1, <3>1 DEF TypeOK, RunInv, HasRun
    <3> QED
      BY <2>1, <3>1, <3>2, <3>3, StampTypes DEF TypeOK, Runs, NotWedged
  <2>2. CASE queue = <<>>
    <3>1. run' \in Runs
      BY <2>2 DEF TypeOK, Runs, RunStates
    <3>2. RunInv' /\ HasRun'
      BY <2>2 DEF TypeOK, RunInv, HasRun
    <3> QED
      BY <2>2, <3>1, <3>2, StampTypes DEF TypeOK, Runs, NotWedged
  <2> QED
    BY <2>1, <2>2
<1>4. ASSUME NEW kind \in Tails, Ask(kind) PROVE ManagerInv'
  <2> USE <1>4 DEF Ask
  <2>1. kind \in {"failed", "killed", "calls", "answer"}
    OBVIOUS
  <2>2. run' \in Runs
    BY <2>1 DEF TypeOK, Runs, RunStates
  <2>3. RunInv' /\ HasRun'
    BY <2>1 DEF TypeOK, RunInv, HasRun
  <2>4. tail' \in Leafs
    BY <2>1 DEF TypeOK, Leafs, Tails, Bases
  <2> QED
    BY <2>2, <2>3, <2>4, StampTypes DEF TypeOK, Runs, NotWedged
<1>5. ASSUME NEW kind \in Tails, NEW more \in BOOLEAN, Tools(kind, more) PROVE ManagerInv'
  <2> USE <1>5 DEF Tools
  <2>1. run' \in Runs
    BY DEF TypeOK, Runs, RunStates
  <2>2. RunInv' /\ HasRun'
    BY DEF TypeOK, RunInv, HasRun
  <2>3. tail' \in Leafs
    BY DEF TypeOK, Leafs, Tails, Bases
  <2> QED
    BY <2>1, <2>2, <2>3, StampTypes DEF TypeOK, Runs, NotWedged
<1>6. CASE RunFinish
  <2> USE <1>6 DEF RunFinish
  <2>1. run.owner \in Calls
    BY DEF RunInv, HasRun
  <2>2. run' \in Runs /\ RunInv'
    BY DEF NoRun, Runs, RunStates, RunInv, HasRun
  <2>3. call' \in [Calls -> CallStates] /\ call'[run.owner] \in {"post", "finally"}
    BY <2>1 DEF TypeOK, CallStates
  <2> QED
    BY <2>1, <2>2, <2>3, StampTypes DEF TypeOK, Runs, NotWedged, history
<1> QED
  BY <1>1, <1>2, <1>3, <1>4, <1>5, <1>6 DEF RunStep

\* The continuation of AgentSession's wrapper.
LEMMA PostRunKeeps ==
  ASSUME ManagerInv, NEW c \in Calls, PostRun(c)
  PROVE  ManagerInv'
<1> USE DEF ManagerInv, sessionVars, history
<1>1. UNCHANGED <<recovery, admitted, delivered, withdrawn, relays>>
  BY DEF PostRun
<1>2. CASE Settled(c) /\ UNCHANGED <<run, queue>>
  BY <1>1, <1>2, SettledKeeps DEF TypeOK, Commands
<1>3. ASSUME NEW m \in Calls \cup {None}, StartRun(c, m, "starting"), queue' \in Seq(Calls),
             call' = [call EXCEPT ![c] = "running"],
             UNCHANGED <<awaited, sessionVars, streaming, teardown, tail, git, bash>>
      PROVE  ManagerInv'
  <2>1. run' \in Runs /\ RunInv' /\ HasRun'
    BY <1>3, StartTypes
  <2>2. call' \in [Calls -> CallStates]
    BY <1>3, CallMoves DEF CallStates
  <2> QED
    BY <1>1, <1>3, <2>1, <2>2 DEF TypeOK, Runs, NotWedged, StampsOnLiveRuntime
<1>4. CASE queue # <<>> /\ Continue(c) /\ call' = [call EXCEPT ![c] = "running"]
           /\ UNCHANGED <<awaited, sessionVars, streaming, teardown, tail, git, bash>>
  <2>1. Head(queue) \in Calls /\ Tail(queue) \in Seq(Calls) /\ queue \in Seq(Calls)
    BY <1>4 DEF TypeOK
  <2> QED
    BY <1>3, <1>4, <2>1 DEF Continue
<1>5. CASE StartRun(c, None, "starting") /\ call' = [call EXCEPT ![c] = "running"]
           /\ UNCHANGED <<awaited, sessionVars, streaming, queue, teardown, tail, git, bash>>
  BY <1>3, <1>5 DEF TypeOK
<1> QED
  BY <1>2, <1>4, <1>5 DEF PostRun

\* Recovery: outside the wrapper its own finally resets the Document.
LEMMA RecoveryKeeps ==
  ASSUME ManagerInv, NEW c \in Calls, RecoverTools(c) \/ RecoverTurn(c) \/ RecoverFinally(c)
  PROVE  ManagerInv'
<1> USE DEF ManagerInv, sessionVars, history
<1>1. CASE RecoverTools(c)
  <2> USE <1>1 DEF RecoverTools
  <2>1. call' \in [Calls -> CallStates] /\ tail' \in Leafs
    BY CallMoves DEF TypeOK, CallStates, Back, Leafs, Tails, Bases
  <2> QED
    BY <2>1 DEF TypeOK, RunInv, HasRun, NotWedged, StampsOnLiveRuntime
<1>2. CASE RecoverTurn(c)
  <2> USE <1>2 DEF RecoverTurn
  <2>1. call' \in [Calls -> CallStates]
    BY CallMoves DEF CallStates
  <2>2. tail' \in Leafs
    BY DEF TypeOK, Back, Leafs, Tails, Bases
  <2>3. run' \in Runs /\ RunInv'
    BY StartTypes DEF TypeOK, RunInv, HasRun, Runs
  <2> QED
    BY <2>1, <2>2, <2>3 DEF TypeOK, Runs, NotWedged, StampsOnLiveRuntime
<1>3. CASE RecoverFinally(c)
  <2> USE <1>3 DEF RecoverFinally
  <2>1. call' \in [Calls -> CallStates] /\ streaming' \in BOOLEAN
    BY CallMoves, ZenonT(30) DEF CallStates
  <2> QED
    BY <2>1 DEF TypeOK, RunInv, HasRun, NotWedged, StampsOnLiveRuntime
<1> QED
  BY <1>1, <1>2, <1>3

\* Stop, discard, navigation and bash.
LEMMA ClientKeeps ==
  ASSUME ManagerInv,
         \/ \E c \in Calls : Stop(c) \/ StopSettles(c)
         \/ DiscardSteer \/ UserBash \/ BashEnds \/ Observe
         \/ \E t \in Leafs : Navigate(t)
  PROVE  ManagerInv'
<1> USE DEF ManagerInv, sessionVars, history
<1>1. ASSUME NEW c \in Calls, Stop(c) PROVE ManagerInv'
  <2> USE <1>1 DEF Stop
  <2>1. run' \in Runs /\ abortReq' \in BOOLEAN /\ RunInv' /\ (HasRun' <=> HasRun)
    BY AbortTypes
  <2>2. call' \in [Calls -> CallStates] /\ awaited' \in [Waiters -> Calls \cup {None}]
    BY DEF TypeOK, AfterIdle, CallStates
  <2>3. queue' \in Seq(Calls) /\ withdrawn' \subseteq Calls
    BY DEF TypeOK
  <2>4. NotWedged' /\ StampsOnLiveRuntime'
    BY <2>1 DEF TypeOK, NotWedged, Subscribed, StampsOnLiveRuntime
  <2> QED
    BY <2>1, <2>2, <2>3, <2>4 DEF TypeOK, Runs
<1>2. ASSUME NEW c \in Calls, StopSettles(c) PROVE ManagerInv'
  BY <1>2 DEF StopSettles, TypeOK, CallStates, RunInv, HasRun, NotWedged, Subscribed,
     StampsOnLiveRuntime
<1>3. CASE DiscardSteer
  <2>1. queue' \in Seq(Calls) /\ withdrawn' \subseteq Calls
    BY <1>3 DEF DiscardSteer, TypeOK
  <2> QED
    BY <1>3, <2>1 DEF DiscardSteer, TypeOK, RunInv, HasRun, NotWedged, Subscribed, StampsOnLiveRuntime
<1>4. CASE UserBash
  <2>1. bash' \in Commands
    <3>1. bash \in Commands
      BY DEF TypeOK, Commands
    <3>2. bash.started + 1 \in 0..MaxBash /\ bash.running + 1 \in Nat
      BY <1>4, <3>1, MaxBashIsNat DEF UserBash, Commands
    <3>3. bash' = [bash EXCEPT !.started = bash.started + 1, !.running = bash.running + 1]
      BY <1>4 DEF UserBash
    <3> QED
      BY <3>1, <3>2, <3>3 DEF Commands
  <2> QED
    BY <1>4, <2>1 DEF UserBash, TypeOK, Commands, RunInv, HasRun, NotWedged, Subscribed,
       StampsOnLiveRuntime
<1>5. CASE Observe
  <2>1. git' \in Seq({"run", "bash"})
    BY <1>5 DEF Observe, TypeOK
  <2> QED
    BY <1>5, <2>1 DEF Observe, TypeOK, RunInv, HasRun, NotWedged, Subscribed, StampsOnLiveRuntime
<1>7. CASE BashEnds
  <2> USE <1>7 DEF BashEnds
  <2>1. git \in Seq({"run", "bash"}) /\ bash \in Commands
    BY DEF TypeOK, Commands
  <2>2. bash' \in Commands
    <3>1. PICK n, d : n = bash.running - 1 /\ d = IF active THEN bash.deferred + 1 ELSE bash.deferred
      OBVIOUS
    <3>2. n \in Nat /\ d \in Nat
      BY <2>1, <3>1 DEF Commands
    <3>3. bash' = [bash EXCEPT !.running = n, !.deferred = d]
      BY <3>1
    <3> QED
      BY <2>1, <3>2, <3>3 DEF Commands
  <2>3. Append(git, "bash") \in Seq({"run", "bash"})
    BY <2>1
  <2>4. git' = git \/ (Subscribed /\ git' = Append(git, "bash"))
    OBVIOUS
  <2>5. git' \in Seq({"run", "bash"})
    BY <2>1, <2>3, <2>4
  <2>6. StampsOnLiveRuntime'
    BY <2>4 DEF StampsOnLiveRuntime, Subscribed
  <2>7. tail' \in Leafs
    BY BashedTypes DEF TypeOK
  <2> QED
    BY <2>2, <2>5, <2>6, <2>7 DEF TypeOK, Commands, RunInv, HasRun, NotWedged, Subscribed
<1>6. ASSUME NEW t \in Leafs, Navigate(t) PROVE ManagerInv'
  BY <1>6 DEF Navigate, TypeOK, RunInv, HasRun, NotWedged, Subscribed, StampsOnLiveRuntime
<1> QED
  BY <1>1, <1>2, <1>3, <1>4, <1>5, <1>6, <1>7

\* dispose, in its order: turn, continuation, scope, stamps, runtime.
LEMMA DisposeKeeps ==
  ASSUME ManagerInv, DisposeBegin \/ DisposeSettles \/ DisposeRuntime
  PROVE  ManagerInv'
<1> USE DEF ManagerInv, sessionVars, history
<1>1. CASE DisposeBegin
  <2> USE <1>1 DEF DisposeBegin
  <2>1. run' \in Runs /\ abortReq' \in BOOLEAN /\ RunInv' /\ (HasRun' <=> HasRun)
    BY AbortTypes
  <2>2. awaited' \in [Waiters -> Calls \cup {None}] /\ teardown' \in Teardowns
    BY DEF TypeOK, Teardowns
  <2>3. NotWedged' /\ StampsOnLiveRuntime'
    BY <2>1 DEF NotWedged, Subscribed, StampsOnLiveRuntime
  <2> QED
    BY <2>1, <2>2, <2>3 DEF TypeOK, Runs
<1>2. CASE DisposeSettles
  BY <1>2 DEF DisposeSettles, TypeOK, Teardowns, RunInv, HasRun, NotWedged, Subscribed,
     StampsOnLiveRuntime
<1>3. CASE DisposeRuntime
  <2> USE <1>3 DEF DisposeRuntime
  <2>1. run' \in Runs /\ abortReq' \in BOOLEAN /\ RunInv' /\ (HasRun' <=> HasRun)
    BY AbortTypes
  <2>2. teardown' \in Teardowns
    BY DEF Teardowns
  <2>3. NotWedged' /\ StampsOnLiveRuntime'
    BY <2>1 DEF NotWedged, Subscribed, StampsOnLiveRuntime
  <2> QED
    BY <2>1, <2>2, <2>3 DEF TypeOK, Runs
<1> QED
  BY <1>1, <1>2, <1>3

\* Every step keeps the invariant.
LEMMA ManagerInductive == ManagerInv /\ [Next]_vars => ManagerInv'
<1> SUFFICES ASSUME ManagerInv, [Next]_vars PROVE ManagerInv'
  OBVIOUS
<1>1. CASE UNCHANGED vars
  BY <1>1 DEF vars, sessionVars, history, ManagerInv, TypeOK, RunInv, HasRun, NotWedged, Subscribed,
     StampsOnLiveRuntime
<1> QED
  BY <1>1, PromptKeeps, RunKeeps, PostRunKeeps, RecoveryKeeps, ClientKeeps, DisposeKeeps
     DEF Next, Client, CallStep, Teardown

\* The invariant holds in every reachable state.
LEMMA ManagerInvariance == Spec => []ManagerInv
  BY ManagerInitially, ManagerInductive, PTL DEF Spec

\* Every variable keeps its type: a delivered message is one a caller sent.
THEOREM TypeCorrect == Spec => []TypeOK
<1>1. ManagerInv => TypeOK
  BY DEF ManagerInv
<1> QED
  BY <1>1, ManagerInvariance, PTL

\* While the Manager listens, a Document that says a turn is in flight belongs to
\* a run or to a call that will still reset it: no prompt, recovery, stop, failure
\* or teardown leaves the Session streaming for ever with nothing to end it.
THEOREM NeverWedged == Spec => []NotWedged
<1>1. ManagerInv => NotWedged
  BY DEF ManagerInv
<1> QED
  BY <1>1, ManagerInvariance, PTL

\* Every git observation the scope admitted has settled before the runtime it
\* would append to is disposed, however late it was admitted.
THEOREM StampsPrecedeDisposal == Spec => []StampsOnLiveRuntime
<1>1. ManagerInv => StampsOnLiveRuntime
  BY DEF ManagerInv
<1> QED
  BY <1>1, ManagerInvariance, PTL
=============================================================================
