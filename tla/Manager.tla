------------------------------ MODULE Manager ------------------------------
(***************************************************************************)
(* The Manager of one pi Session (host/manager.ts) and what it drives: pi's *)
(* AgentSession (prompt, _startRun, abort, agent_settled), the Agent's one  *)
(* active run, the recovery continuation of ADR 16, which runs outside      *)
(* AgentSession's wrapper, and the git-stamp observations drained before    *)
(* the runtime goes.  Everything runs on one event loop: an action is what  *)
(* the code does between two awaits that really wait (a hook, a credential  *)
(* check, the provider, a tool, git).  An await of a settled promise is not *)
(* a step of its own.                                                       *)
(*                                                                         *)
(* A call is one prompt, recoverTurn or abort of a client; the message it   *)
(* carries is the call itself.  A transcript is abstracted to the kind of   *)
(* its tail, which is what recoverTurn and Agent.continue read, and to the  *)
(* kind of the tail under it, where a recovery branches to.                 *)
(***************************************************************************)
EXTENDS Naturals, Sequences, FiniteSets

CONSTANTS Calls,      \* the client's turn-level requests
          None,
          MaxBash     \* bound: user bash commands

ASSUME NoneIsNoCall == None \notin Calls
ASSUME MaxBashIsNat == MaxBash \in Nat

VARIABLES
  call,       \* where each request stands
  awaited,    \* the continuation settleRecoveryRun captured, per waiter
  active,     \* AgentSession._isAgentRunActive
  abortReq,   \* AgentSession._agentRunAbortRequested
  run,        \* Agent.activeRun
  queue,      \* Agent.steeringQueue
  tail,       \* the leaf path's tail
  streaming,  \* Document.status.isStreaming
  recovery,   \* recoveryRun
  teardown,   \* how far dispose has come
  git,        \* the observation scope: what is admitted and not settled
  bash,       \* user bash: commands started, running, and outputs held back
  admitted, delivered, withdrawn,  \* history of the messages
  relays                           \* the calls that are a recovery's relay, until it is taken

sessionVars == <<active, abortReq>>
history     == <<admitted, delivered, withdrawn, relays>>
vars == <<call, awaited, sessionVars, run, queue, tail, streaming, recovery,
          teardown, git, bash, history>>

Dispose  == "dispose"               \* the waiter that is not a call
Waiters  == Calls \cup {Dispose}

\* The tails.  A request is sent from a user message or from an answered batch,
\* whose last result may be an error; a dead message with no work of its own
\* over such an error is the mark of a killed tool.  under is where a recovery
\* branches to.
Bases == {"user", "results", "erred"}
Tails == Bases \cup {"calls", "answer", "failed", "killed"}
Leafs == {t \in [kind : Tails, under : Bases] :
            /\ t.kind \in Bases => t.under = t.kind
            /\ t.kind = "killed" => t.under = "erred"}

NoRun    == [owner |-> None, at |-> "none", msg |-> None, more |-> FALSE, aborted |-> FALSE]

CallStates  == {"new", "preflight", "cleared", "preparing", "running", "post",
                "continuing", "finally", "stopping", "settling", "done"}
RunStates   == {"none", "starting", "greet", "poll", "deliver", "ask", "tools", "ending"}
Teardowns   == {"none", "stopping", "settling", "draining", "closing", "gone"}

TypeOK ==
  /\ call \in [Calls -> CallStates]
  /\ awaited \in [Waiters -> Calls \cup {None}]
  /\ active \in BOOLEAN /\ abortReq \in BOOLEAN /\ streaming \in BOOLEAN
  /\ run \in [owner : Calls \cup {None}, at : RunStates, msg : Calls \cup {None},
              more : BOOLEAN, aborted : BOOLEAN]
  /\ queue \in Seq(Calls)
  /\ tail \in Leafs
  /\ recovery \in Calls \cup {None}
  /\ teardown \in Teardowns
  /\ git \in Seq({"run", "bash"})
  /\ bash \in [started : 0..MaxBash, running : Nat, deferred : Nat]
  /\ admitted \subseteq Calls /\ delivered \subseteq Calls /\ withdrawn \subseteq Calls
  /\ relays \subseteq Calls

\* A Session is opened from a file that may end in any way a crash left it.
Init ==
  /\ call = [c \in Calls |-> "new"]
  /\ awaited = [w \in Waiters |-> None]
  /\ active = FALSE /\ abortReq = FALSE /\ streaming = FALSE
  /\ run = NoRun /\ queue = <<>>
  /\ tail \in Leafs
  /\ recovery = None /\ teardown = "none" /\ git = <<>>
  /\ bash = [started |-> 0, running |-> 0, deferred |-> 0]
  /\ admitted = {} /\ delivered = {} /\ withdrawn = {} /\ relays = {}

-----------------------------------------------------------------------------
\* The Manager listens and the stamps' scope is open until dispose has settled
\* the turn; AgentSession listens to its Agent until the runtime is disposed.
Subscribed == teardown \in {"none", "stopping", "settling"}
Connected  == teardown # "gone"

HasRun == run.at # "none"

\* The last message of the agent's context is one a request can follow.
Continuable(t) == t.kind \in Bases

\* The leaf a recovery branches to: past the dead message or the open batch.
Back(t) == [kind |-> t.under, under |-> t.under]

\* Agent.runWithLifecycle: the run exists before its first event is handled.
StartRun(c, m, at) ==
  run' = [owner |-> c, at |-> at, msg |-> m, more |-> TRUE, aborted |-> FALSE]

\* settleRecoveryRun, for everyone whose idle-wait ends now: done when no
\* continuation is tracked, otherwise the captured one is awaited.
AfterIdle == IF recovery = None THEN "done" ELSE "settling"

\* Bug: only the first idle-wait of a teardown is resolved.
WakeIdleOnce(from) ==
  /\ call' = [c \in Calls |-> IF from[c] = "stopping" THEN AfterIdle ELSE from[c]]
  /\ awaited' = [w \in Waiters |->
       IF (w \in Calls /\ from[w] = "stopping") \/ (w = Dispose /\ teardown = "stopping")
       THEN recovery ELSE awaited[w]]
  /\ teardown' = IF teardown = "stopping" THEN "settling" ELSE teardown

\* _resolveIdleWaitIfIdle: the waiters of session.abort() go on.  from gives
\* the calls as the rest of the action leaves them.
WakeIdle(from) ==
  /\ call' = [c \in Calls |-> IF from[c] = "stopping" THEN AfterIdle ELSE from[c]]
  /\ awaited' = [w \in Waiters |->
       IF (w \in Calls /\ from[w] = "stopping") \/ (w = Dispose /\ teardown = "stopping")
       THEN recovery ELSE awaited[w]]
  /\ teardown' = CASE teardown = "stopping" -> "settling"
                   [] teardown = "closing"  -> "gone"
                   [] OTHER                 -> teardown

\* A bash entry over a reply: there is nothing to recover any more, and a
\* request can follow, as from a user message.  Other tails show through it.
Bashed(t) == IF t.kind \in {"answer", "failed"} THEN [kind |-> "user", under |-> "user"] ELSE t

\* _flushPendingBashMessages: the outputs held back during a turn are appended
\* and observed while the Manager listens.
Flush ==
  /\ bash' = [bash EXCEPT !.deferred = 0]
  /\ tail' = IF bash.deferred > 0 THEN Bashed(tail) ELSE tail
  /\ git' = IF Subscribed THEN git \o [i \in 1..bash.deferred |-> "bash"] ELSE git

\* _startRun's finally and _emitAgentSettled: the run is over, held bash output
\* appended, the abort request consumed, the Document told, the idle-waiters
\* woken.
Settled(c) ==
  /\ Flush
  /\ active' = FALSE /\ abortReq' = FALSE
  /\ streaming' = (streaming /\ ~Subscribed)
  /\ WakeIdle([call EXCEPT ![c] = "done"])

\* AgentSession.abort without its wait: a session run is asked to stop, and
\* the Agent's run is aborted whoever started it.
SessionAbort ==
  /\ abortReq' = (abortReq \/ active)
  /\ run' = [run EXCEPT !.aborted = @ \/ HasRun]

-----------------------------------------------------------------------------
\* prompt: input hooks run first.  The actor admits no call once it closes.
Prompt(c) ==
  /\ call[c] = "new" /\ teardown = "none"
  /\ call' = [call EXCEPT ![c] = "preflight"]
  /\ UNCHANGED <<awaited, sessionVars, run, queue, tail, streaming, recovery,
                 teardown, git, bash, history>>

\* _preparePrompt: a busy session takes the message as a steer; otherwise the
\* model and the credentials are checked, which may refuse the prompt.
PreparePrompt(c) ==
  /\ call[c] = "preflight"
  /\ IF active
     THEN /\ call' = [call EXCEPT ![c] = "done"]
          /\ queue' = Append(queue, c) /\ admitted' = admitted \cup {c}
     ELSE /\ call' \in {[call EXCEPT ![c] = s] : s \in {"cleared", "done"}}
          /\ UNCHANGED <<queue, admitted>>
  /\ relays' = {r \in relays : call'[r] # "done"}
  /\ UNCHANGED <<awaited, sessionVars, run, tail, streaming, recovery, teardown,
                 git, bash, delivered, withdrawn>>

\* _startRun begins: the session is busy, and what it was asked before is not
\* for this run.
BeginRun(c) ==
  /\ call[c] = "cleared"
  /\ call' = [call EXCEPT ![c] = "preparing"]
  /\ active' = TRUE /\ abortReq' = FALSE
  /\ UNCHANGED <<awaited, run, queue, tail, streaming, recovery, teardown, git,
                 bash, history>>

\* Bug: the waiters are not told that the session is idle again.
PrepareFailsSilently(c) ==
  /\ call[c] = "preparing"
  /\ active' = FALSE /\ Flush
  /\ call' = [call EXCEPT ![c] = "done"]
  /\ relays' = relays \ {c}
  /\ UNCHANGED <<awaited, abortReq, run, queue, streaming, recovery, teardown,
                 admitted, delivered, withdrawn>>

\* _prepareRun throws: the prompt is refused.  The abort request stays.
PrepareFails(c) ==
  /\ call[c] = "preparing"
  /\ active' = FALSE /\ Flush
  /\ WakeIdle([call EXCEPT ![c] = "done"])
  /\ relays' = relays \ {c}
  /\ UNCHANGED <<abortReq, run, queue, streaming, recovery, admitted, delivered, withdrawn>>

\* _prepareRun returns: the caller is told the prompt is admitted, then the
\* Agent is prompted, which throws when it already has a run.  recoverTurn
\* awaits its relay to the end, so that its caller is told of a refused one.
PrepareDone(c) ==
  /\ call[c] = "preparing"
  /\ admitted' = admitted \cup {c} /\ relays' = relays \ {c}
  /\ IF HasRun
     THEN Settled(c) /\ run' = run /\ withdrawn' = withdrawn \cup ({c} \cap relays)
     ELSE /\ StartRun(c, c, "starting") /\ Flush
          /\ call' = [call EXCEPT ![c] = "running"]
          /\ UNCHANGED <<awaited, sessionVars, streaming, teardown, withdrawn>>
  /\ UNCHANGED <<queue, recovery, delivered>>

-----------------------------------------------------------------------------
\* An event whose extension handler observes the repository: the run waits
\* for the observation, unless the scope refuses it.
Stamp == git' = IF Subscribed THEN Append(git, "run") ELSE git
Unstamped == \A i \in 1..Len(git) : git[i] # "run"

RunUnchanged == UNCHANGED <<call, awaited, sessionVars, recovery, teardown, bash,
                            admitted, withdrawn, relays>>

\* agent_start: an abort asked for while the run was starting stops it here.
\* What is delivered next, if anything, is stamped first.  A run that starts
\* with a queued steer skips its initial poll (skipInitialSteeringPoll).
AgentStart ==
  /\ run.at = "starting"
  /\ run' = [run EXCEPT !.at = CASE run.msg = None      -> "poll"
                                 [] run.msg = run.owner -> "greet"
                                 [] OTHER               -> "deliver",
                        !.aborted = @ \/ (Connected /\ abortReq)]
  /\ streaming' = (streaming \/ Subscribed)
  /\ IF run.msg = None THEN git' = git ELSE Stamp
  /\ UNCHANGED <<queue, tail, delivered>> /\ RunUnchanged

\* message_start and message_end of a user message: AgentSession persists it.
Deliver ==
  /\ run.at \in {"greet", "deliver"} /\ Unstamped
  /\ run' = [run EXCEPT !.at = IF @ = "greet" THEN "poll" ELSE "ask", !.msg = None]
  /\ delivered' = IF Connected THEN delivered \cup {run.msg} ELSE delivered
  /\ tail' = IF Connected THEN [kind |-> "user", under |-> "user"] ELSE tail
  /\ UNCHANGED <<queue, streaming, git>> /\ RunUnchanged

\* getSteeringMessages, at the start and after every turn.
Poll ==
  /\ run.at = "poll" /\ Unstamped
  /\ IF queue # <<>>
     THEN /\ run' = [run EXCEPT !.at = "deliver", !.msg = Head(queue)]
          /\ queue' = Tail(queue) /\ Stamp
     ELSE /\ run' = [run EXCEPT !.at = IF run.more THEN "ask" ELSE "ending"]
          /\ UNCHANGED <<queue, git>>
  /\ UNCHANGED <<tail, streaming, delivered>> /\ RunUnchanged

\* streamAssistantResponse: an aborted request ends in a dead assistant
\* message, another in an answer, tool calls or a provider error.  A batch left
\* open stays what a recovery sees, whatever follows it.
Ask(kind) ==
  /\ run.at = "ask"
  /\ \/ kind = "failed"
     \/ kind = "killed" /\ tail.under = "erred"
     \/ kind \in {"calls", "answer"} /\ ~run.aborted
  /\ run' = CASE kind \in {"failed", "killed"} -> [run EXCEPT !.at = "ending"]
              [] kind = "calls"  -> [run EXCEPT !.at = "tools"]
              [] kind = "answer" -> [run EXCEPT !.at = "poll", !.more = FALSE]
  /\ tail' = IF Connected /\ tail.kind # "calls"
             THEN [kind |-> kind, under |-> tail.under] ELSE tail
  /\ IF kind = "calls" THEN git' = git ELSE Stamp
  /\ UNCHANGED <<queue, streaming, delivered>> /\ RunUnchanged

\* The tool batch ends; its tools may end the run (more).  An abort leaves calls
\* unanswered or kills the last tool, and the loop goes on to its next request.
Tools(kind, more) ==
  /\ run.at = "tools"
  /\ kind \in {"results", "erred"} \/ (kind = "calls" /\ run.aborted)
  /\ run' = [run EXCEPT !.at = "poll", !.more = more]
  /\ tail' = IF Connected /\ kind # "calls" THEN [kind |-> kind, under |-> kind] ELSE tail
  /\ Stamp
  /\ UNCHANGED <<queue, streaming, delivered>> /\ RunUnchanged

\* agent_end is handled and finishRun clears the run.
RunFinish ==
  /\ run.at = "ending" /\ Unstamped
  /\ run' = NoRun
  /\ call' = [call EXCEPT ![run.owner] = IF @ = "running" THEN "post" ELSE "finally"]
  /\ UNCHANGED <<awaited, sessionVars, queue, tail, streaming, recovery, teardown,
                 git, bash, history>>

\* One git observation settles: it is bounded by its own timeout.
Observe ==
  /\ git # <<>>
  /\ git' = Tail(git)
  /\ UNCHANGED <<call, awaited, sessionVars, run, queue, tail, streaming, recovery,
                 teardown, bash, history>>

-----------------------------------------------------------------------------
\* agent.continue() from an assistant tail takes a steer as its first message;
\* from another tail it sends the context as it is.
Continue(c) ==
  IF Continuable(tail)
  THEN StartRun(c, None, "starting") /\ queue' = queue
  ELSE StartRun(c, Head(queue), "starting") /\ queue' = Tail(queue)

\* The loop of _startRun after a run: an abort or an idle session settles, a
\* queued steer or a retryable failure continues.  continue throws when the
\* Agent has a run, which settles too.
PostRun(c) ==
  /\ call[c] = "post"
  /\ \/ /\ abortReq \/ queue = <<>> \/ HasRun
        /\ Settled(c) /\ UNCHANGED <<run, queue>>
     \/ /\ ~abortReq /\ ~HasRun /\ queue # <<>>
        /\ Continue(c)
        /\ call' = [call EXCEPT ![c] = "running"]
        /\ UNCHANGED <<awaited, sessionVars, streaming, teardown, tail, git, bash>>
     \/ /\ ~abortReq /\ ~HasRun /\ tail.kind \in {"failed", "killed"}   \* _prepareRetry
        /\ StartRun(c, None, "starting")
        /\ call' = [call EXCEPT ![c] = "running"]
        /\ UNCHANGED <<awaited, sessionVars, streaming, queue, teardown, tail, git, bash>>
  /\ UNCHANGED <<recovery, history>>

-----------------------------------------------------------------------------
\* computeRecoverableTurn, on the kinds of tail.
Interrupted(t) == t.kind \in {"calls", "killed"}
Failed(t)      == t.kind = "failed"
Unfinished(t)  == t.kind \in {"results", "erred"}

\* recoverTurn of an interrupted batch: branch, then a relay prompt through
\* the session's own machinery.
RecoverTools(c) ==
  /\ call[c] = "new" /\ teardown = "none" /\ ~streaming /\ Interrupted(tail)
  /\ call' = [call EXCEPT ![c] = "preflight"]
  /\ tail' = Back(tail)
  /\ relays' = relays \cup {c}
  /\ UNCHANGED <<awaited, sessionVars, run, queue, streaming, recovery, teardown,
                 git, bash, admitted, delivered, withdrawn>>

\* recoverTurn of a failed or unfinished turn: branch past a dead message and
\* continue outside the session's wrapper.  The promise is tracked even when
\* continue rejects because the Agent has a run.
RecoverTurn(c) ==
  /\ call[c] = "new" /\ teardown = "none" /\ ~streaming
  /\ Failed(tail) \/ Unfinished(tail)
  /\ tail' = Back(tail)
  /\ recovery' = c
  /\ IF HasRun
     THEN call' = [call EXCEPT ![c] = "finally"] /\ run' = run
     ELSE call' = [call EXCEPT ![c] = "continuing"] /\ StartRun(c, None, "starting")
  /\ UNCHANGED <<awaited, sessionVars, queue, streaming, teardown, git, bash, history>>

\* Bug: the reset agent_settled would do is left to agent_settled.
RecoverFinallyNoReset(c) ==
  /\ call[c] = "finally"
  /\ call' = [call EXCEPT ![c] = "done"]
  /\ recovery' = None
  /\ UNCHANGED <<awaited, sessionVars, run, queue, tail, streaming, teardown, git, bash, history>>

\* The finally of recoverTurn: what agent_settled would have reset.
RecoverFinally(c) ==
  /\ call[c] = "finally"
  /\ call' = [call EXCEPT ![c] = "done"]
  /\ recovery' = None
  /\ streaming' = FALSE
  /\ UNCHANGED <<awaited, sessionVars, run, queue, tail, teardown, git, bash, history>>

-----------------------------------------------------------------------------
\* abort: clear the steers, abort, wait for idle, then for the continuation.
Stop(c) ==
  /\ call[c] = "new" /\ teardown = "none"
  /\ withdrawn' = withdrawn \cup {queue[i] : i \in 1..Len(queue)}
  /\ queue' = <<>>
  /\ SessionAbort
  /\ call' = [call EXCEPT ![c] = IF active THEN "stopping" ELSE AfterIdle]
  /\ awaited' = [awaited EXCEPT ![c] = IF active THEN None ELSE recovery]
  /\ UNCHANGED <<active, tail, streaming, recovery, teardown, git, bash, admitted, delivered,
                 relays>>

Ended(w) == \A c \in Calls : awaited[w] = c => call[c] # "continuing"

StopSettles(c) ==
  /\ call[c] = "settling" /\ Ended(c)
  /\ call' = [call EXCEPT ![c] = "done"]
  /\ UNCHANGED <<awaited, sessionVars, run, queue, tail, streaming, recovery,
                 teardown, git, bash, history>>

\* discardSteer.
DiscardSteer ==
  /\ teardown = "none" /\ queue # <<>>
  /\ withdrawn' = withdrawn \cup {queue[i] : i \in 1..Len(queue)}
  /\ queue' = <<>>
  /\ UNCHANGED <<call, awaited, sessionVars, run, tail, streaming, recovery,
                 teardown, git, bash, admitted, delivered, relays>>

\* navigate: the mutation lock is the Document's streaming flag.
Navigate(t) ==
  /\ teardown = "none" /\ ~streaming
  /\ tail' = t
  /\ UNCHANGED <<call, awaited, sessionVars, run, queue, streaming, recovery,
                 teardown, git, bash, history>>

\* executeBash starts a command, in a turn or between turns.
UserBash ==
  /\ teardown = "none" /\ bash.started < MaxBash
  /\ bash' = [bash EXCEPT !.started = @ + 1, !.running = @ + 1]
  /\ UNCHANGED <<call, awaited, sessionVars, run, queue, tail, streaming, recovery,
                 teardown, git, history>>

\* recordBashResult, when the command ends, which may be after dispose began:
\* the output is held back while AgentSession runs a turn; otherwise its entry
\* is appended, and observed while the Manager listens.
BashEnds ==
  /\ bash.running > 0
  /\ bash' = [bash EXCEPT !.running = @ - 1, !.deferred = IF active THEN @ + 1 ELSE @]
  /\ git' = IF Subscribed /\ ~active THEN Append(git, "bash") ELSE git
  /\ tail' = IF active THEN tail ELSE Bashed(tail)
  /\ UNCHANGED <<call, awaited, sessionVars, run, queue, streaming, recovery,
                 teardown, history>>

-----------------------------------------------------------------------------
\* dispose: abort and wait for idle ...
DisposeBegin ==
  /\ teardown = "none"
  /\ SessionAbort
  /\ teardown' = IF active THEN "stopping" ELSE "settling"
  /\ awaited' = [awaited EXCEPT ![Dispose] = IF active THEN None ELSE recovery]
  /\ UNCHANGED <<call, active, queue, tail, streaming, recovery, git, bash, history>>

\* ... wait for the continuation, unsubscribe and close the scope ...
DisposeSettles ==
  /\ teardown = "settling" /\ Ended(Dispose)
  /\ teardown' = "draining"
  /\ UNCHANGED <<call, awaited, sessionVars, run, queue, tail, streaming, recovery,
                 git, bash, history>>

\* Bug: the scope is closed but not awaited.
DisposeRuntimeUndrained ==
  /\ teardown = "draining"
  /\ SessionAbort
  /\ teardown' = IF active THEN "closing" ELSE "gone"
  /\ UNCHANGED <<call, awaited, active, queue, tail, streaming, recovery, git, bash, history>>

\* ... wait for its observations, then dispose the runtime: a second abort
\* and idle-wait, and AgentSession lets go of its Agent.
DisposeRuntime ==
  /\ teardown = "draining" /\ git = <<>>
  /\ SessionAbort
  /\ teardown' = IF active THEN "closing" ELSE "gone"
  /\ UNCHANGED <<call, awaited, active, queue, tail, streaming, recovery, git, bash, history>>

-----------------------------------------------------------------------------
CallStep(c) ==
  \/ PreparePrompt(c) \/ BeginRun(c) \/ PrepareFails(c) \/ PrepareDone(c)
  \/ PostRun(c) \/ RecoverFinally(c) \/ StopSettles(c)

\* The provider and the tools are under no obligation until they are aborted.
RunStep == \/ AgentStart \/ Deliver \/ Poll \/ RunFinish
           \/ \E kind \in Tails : Ask(kind)
           \/ \E kind \in Tails, more \in BOOLEAN : Tools(kind, more)
AbortedRunStep == run.aborted /\ RunStep

Teardown == DisposeSettles \/ DisposeRuntime

Client == \/ \E c \in Calls : Prompt(c) \/ RecoverTools(c) \/ RecoverTurn(c) \/ Stop(c)
          \/ DiscardSteer \/ UserBash \/ DisposeBegin
          \/ \E t \in Leafs : Navigate(t)

Next == Client \/ (\E c \in Calls : CallStep(c)) \/ RunStep \/ BashEnds \/ Observe \/ Teardown

Spec == Init /\ [][Next]_vars

\* The event loop runs what is ready; hooks, credential checks and git end
\* (git by its timeout); an aborted request or tool ends.
Fairness == /\ \A c \in Calls : WF_vars(CallStep(c))
            /\ WF_vars(AgentStart) /\ WF_vars(AbortedRunStep)
            /\ WF_vars(Observe) /\ WF_vars(Teardown)

FairSpec == Spec /\ Fairness

-----------------------------------------------------------------------------
\* "instead of wedging the session in streaming state" (ADR 16): while the
\* Manager listens, a Document that says a turn is in flight belongs to a run,
\* or to a call that still resets it.
NotWedged ==
  streaming /\ Subscribed =>
    HasRun \/ \E c \in Calls : call[c] \in {"post", "finally"}

\* "no append reaches a runtime being torn down": nothing the observation
\* scope admitted is unsettled once the runtime is being disposed.
StampsOnLiveRuntime == teardown \in {"closing", "gone"} => git = <<>>

\* A turn nobody asked to stop is in progress: a prompt that had passed its
\* checks began after the abort, or a continuation did.
Overtaken == \/ HasRun /\ ~run.aborted
             \/ active /\ ~abortReq

\* "Server Stop contract": Stop returns, unless a turn it did not stop
\* started meanwhile, which it then waits for.
StopReturns ==
  \A c \in Calls : call[c] \in {"stopping", "settling"} ~> (call[c] = "done" \/ Overtaken)

\* dispose ends under the same proviso, whatever was running when it began.
TeardownEnds == teardown # "none" ~> (teardown = "gone" \/ Overtaken)

\* "a concurrent prompt from a second tab errors instead of steering" (ADR 16)
\* and "After admission the turn's own rejection is document state": a message
\* whose caller was told it was admitted is queued, on its way, in the
\* transcript, withdrawn by a Stop, or refused to its caller.
PromptNotLost ==
  \A c \in admitted :
    \/ c \in delivered \cup withdrawn
    \/ \E i \in 1..Len(queue) : queue[i] = c
    \/ run.msg = c

=============================================================================
