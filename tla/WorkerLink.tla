----------------------------- MODULE WorkerLink -----------------------------
(***************************************************************************)
(* The socket between a Daemon and a Worker: the Daemon's client half      *)
(* (host/worker-client.ts), the Worker's server half                       *)
(* (host/worker-server.ts), and what the Daemon does with a registration   *)
(* that became unavailable (host/daemon.ts, host/worker-host.ts).          *)
(*                                                                         *)
(* An observation is one stream of a Session's frames: the Daemon asks for *)
(* it, the Worker's service opens it and calls its sink, the frames cross  *)
(* the socket in order, and the Daemon's sink receives them.  The socket   *)
(* is a pair of queues that a lost connection empties.  Each side learns   *)
(* of the loss by a close event or by its own heartbeat.                   *)
(*                                                                         *)
(* A reply is handled in one event; the code after the await of that reply *)
(* runs in a later step, and further messages may be handled in between    *)
(* (ws emits every frame of one chunk in the same tick).                   *)
(***************************************************************************)
EXTENDS Naturals, Sequences

CONSTANTS Obs,       \* observations
          Created,   \* the ones that createSession starts; observeSession starts the others
          MaxPatch   \* bound on live patches of each observation

ASSUME CreatedAssumption == Created \subseteq Obs
ASSUME PatchAssumption == MaxPatch \in [Obs -> Nat]

VARIABLES
  adopted,      \* did the Worker dial in, or did the Daemon connect to it?
  \* the Daemon's half
  call,         \* where the request that starts each observation stands
  held,         \* observations: the map from observation to sink
  named,        \* the entries of that map whose address is known
  released,     \* observations the Daemon released
  got,          \* the frames each sink was given
  unavailable,  \* the registration is withdrawn
  dSock,        \* the Daemon's end of the socket
  stopping,     \* where the Daemon's own stop stands
  \* the socket
  up, toWorker, toDaemon,
  \* the Worker's half
  acquiring, serving, inflight, accepting, closed,
  drain,        \* where a shutdown request stands
  svc,          \* what the service has made of each observation
  emitted       \* the frames the service gave each sink

\* Both ends keep adopted: it belongs to the link.
daemonVars == <<adopted, call, held, named, released, got, unavailable, dSock, stopping>>
sockVars == <<up, toWorker, toDaemon>>
workerVars == <<adopted, acquiring, serving, inflight, accepting, closed, drain, svc, emitted>>
vars == <<daemonVars, sockVars, workerVars>>

\* A frame and its place in the stream; the content is left out.
Frame == [kind : {"sync", "patch", "closed"}, n : Nat]
Sync == [kind |-> "sync", n |-> 0]
Closed == [kind |-> "closed", n |-> 0]

Init == /\ adopted \in BOOLEAN
        /\ call = [o \in Obs |-> "none"]
        /\ held = {} /\ named = {} /\ released = {}
        /\ got = [o \in Obs |-> <<>>]
        /\ unavailable = FALSE /\ dSock = "open" /\ stopping = "no"
        /\ up = TRUE /\ toWorker = <<>> /\ toDaemon = <<>>
        /\ acquiring = [o \in Obs |-> "none"]
        /\ serving = {} /\ inflight = {}
        /\ accepting = TRUE /\ closed = FALSE /\ drain = "no"
        /\ svc = [o \in Obs |-> "none"]
        /\ emitted = [o \in Obs |-> <<>>]

-----------------------------------------------------------------------------
(* The socket *)

Msg(k, o) == [kind |-> k, obs |-> o]
Signal(k) == [kind |-> k]

\* ws.send, which says nothing when the socket is closing or gone.
DaemonSends(m) == toWorker' = IF up /\ dSock = "open" THEN Append(toWorker, m) ELSE toWorker

\* The server's send: nothing leaves a connection that ended.
WorkerSends(m) == toDaemon' = IF up /\ ~closed THEN Append(toDaemon, m) ELSE toDaemon

Lost == up' = FALSE /\ toWorker' = <<>> /\ toDaemon' = <<>>

\* The network, or either process, drops the connection.
Drop == up /\ Lost /\ UNCHANGED <<daemonVars, workerVars>>

-----------------------------------------------------------------------------
(* The Daemon's half *)

\* Bug: the sink is entered in the map only when the reply is in.
ObserveEnteredLate(o) ==
  /\ call[o] = "none" /\ ~unavailable /\ stopping = "no"
  /\ call' = [call EXCEPT ![o] = "pending"]
  /\ DaemonSends(Msg("observe", o))
  /\ UNCHANGED <<held, named, released, got, unavailable, dSock, stopping, up, toDaemon, workerVars>>

\* observeSession, createSession up to the await of the reply.
Observe(o) ==
  /\ call[o] = "none"
  /\ \/ /\ unavailable
        /\ call' = [call EXCEPT ![o] = "failed"]
        /\ UNCHANGED <<held, named, toWorker>>
     \/ /\ ~unavailable
        /\ call' = [call EXCEPT ![o] = "pending"]
        /\ held' = held \cup {o}
        /\ named' = IF o \in Created THEN named ELSE named \cup {o}
        /\ DaemonSends(Msg("observe", o))
  /\ UNCHANGED <<released, got, unavailable, dSock, stopping, up, toDaemon, workerVars>>

\* After the await: createSession enters the sink again, now with its address.
Resume(o) ==
  /\ call[o] = "replied"
  /\ call' = [call EXCEPT ![o] = "open"]
  /\ held' = IF o \in Created THEN held \cup {o} ELSE held
  /\ named' = IF o \in Created THEN named \cup {o} ELSE named
  /\ UNCHANGED <<released, got, unavailable, dSock, stopping, sockVars, workerVars>>

ResumeRejected(o) ==
  /\ call[o] = "rejected"
  /\ call' = [call EXCEPT ![o] = "failed"]
  /\ held' = held \ {o}
  /\ UNCHANGED <<named, released, got, unavailable, dSock, stopping, sockVars, workerVars>>

\* observation.release.
Release(o) ==
  /\ call[o] = "open" /\ o \notin released
  /\ released' = released \cup {o}
  /\ held' = held \ {o}
  /\ IF o \in held /\ ~unavailable THEN DaemonSends(Msg("release", o)) ELSE UNCHANGED toWorker
  /\ UNCHANGED <<call, named, got, unavailable, dSock, stopping, up, toDaemon, workerVars>>

\* fail: everything that waits for a reply is rejected.
RejectPending == call' = [o \in Obs |-> IF call[o] = "pending" THEN "rejected" ELSE call[o]]

\* The observations terminate finds in the map.  It withdraws first; for a
\* Worker that dialed in the Daemon's listener then drops the link at once, and
\* closeLink empties the map.
Told == IF adopted /\ ~unavailable THEN {} ELSE held \cap named

\* terminate: withdraw, tell the sinks, reject what waits, drop the socket.
Terminate ==
  /\ unavailable' = TRUE
  /\ got' = [o \in Obs |-> IF o \in Told THEN Append(got[o], Closed) ELSE got[o]]
  /\ RejectPending
  /\ held' = {}
  /\ dSock' = "terminated"
  /\ Lost
  /\ UNCHANGED <<named, released, stopping, workerVars>>

HeartbeatTimeout == dSock = "open" /\ ~unavailable /\ Terminate

\* Bug: the push withdraws the registration and leaves the link alone.
HearUnavailableOnly ==
  /\ toDaemon # <<>> /\ Head(toDaemon).kind = "unavailable"
  /\ unavailable' = TRUE
  /\ toDaemon' = Tail(toDaemon)
  /\ UNCHANGED <<call, held, named, released, got, dSock, stopping, up, toWorker, workerVars>>

\* handlePush, a terminal report of the Worker.
HearUnavailable ==
  /\ toDaemon # <<>> /\ Head(toDaemon).kind = "unavailable"
  /\ Terminate

\* The socket's close event: withdraw and reject, no frame for the sinks.
DaemonClosed ==
  /\ dSock # "closed" /\ ~up
  /\ dSock' = "closed" /\ unavailable' = TRUE
  /\ RejectPending
  /\ held' = {}
  /\ UNCHANGED <<named, released, got, stopping, sockVars, workerVars>>

\* A reply settles its request.
HearReply(o) ==
  /\ toDaemon # <<>> /\ Head(toDaemon) \in {Msg("ok", o), Msg("err", o)}
  /\ call' = IF call[o] # "pending" THEN call
             ELSE [call EXCEPT ![o] = IF Head(toDaemon).kind = "ok" THEN "replied" ELSE "rejected"]
  /\ toDaemon' = Tail(toDaemon)
  /\ UNCHANGED <<held, named, released, got, unavailable, dSock, stopping, up, toWorker, workerVars>>

\* handlePush, an observation frame: a terminal one leaves the map.
HearFrame(o) ==
  /\ toDaemon # <<>> /\ Head(toDaemon).kind = "frame" /\ Head(toDaemon).obs = o
  /\ LET f == Head(toDaemon).frame
     IN /\ got' = IF o \in held THEN [got EXCEPT ![o] = Append(@, f)] ELSE got
        /\ held' = IF f = Closed THEN held \ {o} ELSE held
  /\ toDaemon' = Tail(toDaemon)
  /\ UNCHANGED <<call, named, released, unavailable, dSock, stopping, up, toWorker, workerVars>>

\* The Daemon stops: it drops the link of a Worker that dialed in (closeLink),
\* and asks one it connected to for its shutdown (dispose).
Stop ==
  /\ stopping = "no" /\ ~unavailable
  /\ \/ /\ adopted
        /\ stopping' = "done" /\ held' = {} /\ dSock' = "closing"
        /\ DaemonSends(Signal("bye"))
     \/ /\ ~adopted
        /\ stopping' = "asked" /\ UNCHANGED <<held, dSock>>
        /\ DaemonSends(Signal("shutdown"))
  /\ UNCHANGED <<call, named, released, got, unavailable, up, toDaemon, workerVars>>

HearStopped ==
  /\ toDaemon # <<>> /\ Head(toDaemon).kind = "stopped"
  /\ stopping' = "replied"
  /\ toDaemon' = Tail(toDaemon)
  /\ UNCHANGED <<call, held, named, released, got, unavailable, dSock, up, toWorker, workerVars>>

\* dispose after its request settled either way.
Stopped ==
  /\ \/ stopping = "replied"
     \/ stopping = "asked" /\ unavailable
  /\ stopping' = "done" /\ held' = {}
  /\ dSock' = IF dSock = "open" THEN "closing" ELSE dSock
  /\ DaemonSends(Signal("bye"))
  /\ UNCHANGED <<call, named, released, got, unavailable, up, toDaemon, workerVars>>

\* The peer's half of a closing handshake ends the connection.
HearBye == toDaemon # <<>> /\ Head(toDaemon).kind = "bye" /\ Lost /\ UNCHANGED <<daemonVars, workerVars>>

-----------------------------------------------------------------------------
(* The Worker's half *)

FrameMsg(o, f) == [kind |-> "frame", obs |-> o, frame |-> f]

\* endConnection: admission stops, acquisitions in flight are cancelled, held
\* observations are released.
EndConnection ==
  /\ accepting' = FALSE
  /\ closed' = TRUE
  /\ acquiring' = [o \in Obs |-> IF acquiring[o] = "pending" THEN "cancelled" ELSE acquiring[o]]
  /\ svc' = [o \in Obs |-> IF o \in serving /\ svc[o] = "live" THEN "released" ELSE svc[o]]
  /\ serving' = {}

\* A connection that is ending drops requests without an answer.
Accept(kind) ==
  /\ toWorker # <<>> /\ Head(toWorker).kind = kind
  /\ toWorker' = Tail(toWorker)
  /\ UNCHANGED <<daemonVars, up, toDaemon>>

Ignore ==
  /\ ~accepting
  /\ \E k \in {"observe", "release", "shutdown"} : Accept(k)
  /\ UNCHANGED workerVars

\* dispatch, observeSession and createSession: the acquisition is registered
\* before the await.
AcceptObserve(o) ==
  /\ accepting /\ Accept("observe") /\ Head(toWorker).obs = o
  /\ acquiring' = [acquiring EXCEPT ![o] = "pending"]
  /\ svc' = [svc EXCEPT ![o] = "opening"]
  /\ inflight' = inflight \cup {o}
  /\ UNCHANGED <<serving, accepting, closed, drain, emitted>>

\* The service installs the observation and emits its initial sync.
Acquire(o) ==
  /\ svc[o] = "opening"
  /\ svc' = [svc EXCEPT ![o] = "live"]
  /\ emitted' = [emitted EXCEPT ![o] = <<Sync>>]
  /\ WorkerSends(FrameMsg(o, Sync))
  /\ UNCHANGED <<daemonVars, up, toWorker, acquiring, serving, inflight, accepting, closed, drain>>

\* The service refuses: unknown Session, refused admission.
Refuse(o) ==
  /\ svc[o] = "opening"
  /\ svc' = [svc EXCEPT ![o] = "refused"]
  /\ acquiring' = [acquiring EXCEPT ![o] = "none"]
  /\ inflight' = inflight \ {o}
  /\ WorkerSends(Msg("err", o))
  /\ UNCHANGED <<daemonVars, up, toWorker, serving, accepting, closed, drain, emitted>>

Acquired(o) == acquiring[o] # "none" /\ svc[o] \notin {"none", "opening"}

\* Bug: the acquisition is installed whatever became of its connection.
InstallAcquiredAlways(o) ==
  /\ Acquired(o)
  /\ acquiring' = [acquiring EXCEPT ![o] = "none"]
  /\ inflight' = inflight \ {o}
  /\ serving' = serving \cup {o}
  /\ WorkerSends(Msg("ok", o))
  /\ UNCHANGED <<daemonVars, up, toWorker, accepting, closed, drain, svc, emitted>>

\* Bug: the reply repeats the initial sync that the sink was already given.
InstallAcquiredResync(o) ==
  /\ Acquired(o)
  /\ acquiring' = [acquiring EXCEPT ![o] = "none"]
  /\ inflight' = inflight \ {o}
  /\ acquiring[o] = "pending" /\ ~closed
  /\ serving' = serving \cup {o}
  /\ toDaemon' = IF up THEN toDaemon \o <<FrameMsg(o, Sync), Msg("ok", o)>> ELSE toDaemon
  /\ UNCHANGED <<daemonVars, up, toWorker, accepting, closed, drain, svc, emitted>>

\* installAcquired and the reply, or the release of what nobody would release.
InstallAcquired(o) ==
  /\ Acquired(o)
  /\ acquiring' = [acquiring EXCEPT ![o] = "none"]
  /\ inflight' = inflight \ {o}
  /\ \/ /\ acquiring[o] = "cancelled" \/ closed
        /\ svc' = [svc EXCEPT ![o] = IF @ = "live" THEN "released" ELSE @]
        /\ UNCHANGED <<serving, toDaemon>>
     \/ /\ acquiring[o] = "pending" /\ ~closed
        /\ serving' = serving \cup {o}
        /\ WorkerSends(Msg("ok", o))
        /\ UNCHANGED svc
  /\ UNCHANGED <<daemonVars, up, toWorker, accepting, closed, drain, emitted>>

AcceptRelease(o) ==
  /\ accepting /\ Accept("release") /\ Head(toWorker).obs = o
  /\ serving' = serving \ {o}
  /\ svc' = [svc EXCEPT ![o] = IF o \in serving /\ @ = "live" THEN "released" ELSE @]
  /\ UNCHANGED <<acquiring, inflight, accepting, closed, drain, emitted>>

\* The Session's Document changes.
Patch(o) ==
  /\ svc[o] = "live" /\ Len(emitted[o]) <= MaxPatch[o]
  /\ LET f == [kind |-> "patch", n |-> Len(emitted[o])]
     IN emitted' = [emitted EXCEPT ![o] = Append(@, f)] /\ WorkerSends(FrameMsg(o, f))
  /\ UNCHANGED <<daemonVars, up, toWorker, acquiring, serving, inflight, accepting, closed, drain, svc>>

\* The Session ends: the terminal frame leaves the server's map too.
SessionEnds(o) ==
  /\ svc[o] = "live"
  /\ svc' = [svc EXCEPT ![o] = "ended"]
  /\ serving' = serving \ {o}
  /\ emitted' = [emitted EXCEPT ![o] = Append(@, Closed)]
  /\ WorkerSends(FrameMsg(o, Closed))
  /\ UNCHANGED <<daemonVars, up, toWorker, acquiring, inflight, accepting, closed, drain>>

\* The service reports that it can serve nothing more.
ReportUnavailable ==
  /\ ~closed
  /\ WorkerSends(Signal("unavailable"))
  /\ EndConnection
  /\ UNCHANGED <<daemonVars, up, toWorker, inflight, drain, emitted>>

\* The releases are awaited before the socket is terminated; what the Daemon
\* handles in between it could have handled before this step.
WorkerHeartbeatTimeout ==
  /\ ~closed
  /\ EndConnection /\ Lost
  /\ UNCHANGED <<daemonVars, inflight, drain, emitted>>

WorkerClosed ==
  /\ ~up /\ ~closed
  /\ EndConnection
  /\ UNCHANGED <<daemonVars, sockVars, inflight, drain, emitted>>

\* A closing handshake arrives: the server's socket closes with an answer.
HearDaemonBye ==
  /\ toWorker # <<>> /\ Head(toWorker).kind = "bye"
  /\ toWorker' = Tail(toWorker)
  /\ toDaemon' = Append(toDaemon, Signal("bye"))
  /\ EndConnection
  /\ UNCHANGED <<daemonVars, up, inflight, drain, emitted>>

AcceptShutdown ==
  /\ accepting /\ Accept("shutdown")
  /\ accepting' = FALSE /\ drain' = "draining"
  /\ UNCHANGED <<acquiring, serving, inflight, closed, svc, emitted>>

\* Bug: the service is disposed while admitted requests still run.
DisposeServiceAtOnce ==
  /\ drain = "draining"
  /\ drain' = "disposed"
  /\ svc' = [o \in Obs |-> IF svc[o] = "live" THEN "released" ELSE svc[o]]
  /\ UNCHANGED <<daemonVars, sockVars, acquiring, serving, inflight, accepting, closed, emitted>>

\* Admitted work has settled: the service is disposed, without frames.
DisposeService ==
  /\ drain = "draining" /\ inflight = {}
  /\ drain' = "disposed"
  /\ svc' = [o \in Obs |-> IF svc[o] = "live" THEN "released" ELSE svc[o]]
  /\ UNCHANGED <<daemonVars, sockVars, acquiring, serving, inflight, accepting, closed, emitted>>

ReplyShutdown ==
  /\ drain = "disposed"
  /\ drain' = "done"
  /\ WorkerSends(Signal("stopped"))
  /\ EndConnection
  /\ UNCHANGED <<daemonVars, up, toWorker, inflight, emitted>>

-----------------------------------------------------------------------------
\* What each side must do once it can: handle a message or a close event, run a
\* continuation, notice a silent peer.
DaemonStep ==
  \/ HearUnavailable \/ HearStopped \/ HearBye \/ Stopped \/ DaemonClosed
  \/ \E o \in Obs : Resume(o) \/ ResumeRejected(o) \/ HearReply(o) \/ HearFrame(o)

WorkerStep ==
  \/ Ignore \/ HearDaemonBye \/ AcceptShutdown \/ DisposeService \/ ReplyShutdown \/ WorkerClosed
  \/ \E o \in Obs : AcceptObserve(o) \/ AcceptRelease(o) \/ InstallAcquired(o) \/ Acquire(o) \/ Refuse(o)

Next ==
  \/ DaemonStep \/ WorkerStep \/ Drop \/ HeartbeatTimeout \/ Stop
  \/ ReportUnavailable \/ WorkerHeartbeatTimeout
  \/ \E o \in Obs : Observe(o) \/ Release(o) \/ Patch(o) \/ SessionEnds(o)

Spec == Init /\ [][Next]_vars

\* Event loops run, the service answers, a lost socket is noticed.  No request
\* has to be made, no Session has to end, nothing has to fail.
FairSpec == Spec /\ WF_vars(DaemonStep) /\ WF_vars(WorkerStep)

-----------------------------------------------------------------------------
TypeOK ==
  /\ call \in [Obs -> {"none", "pending", "replied", "rejected", "open", "failed"}]
  /\ held \subseteq Obs /\ named \subseteq Obs /\ released \subseteq Obs
  /\ got \in [Obs -> Seq(Frame)] /\ emitted \in [Obs -> Seq(Frame)]
  /\ {adopted, unavailable, up, accepting, closed} \subseteq BOOLEAN
  /\ dSock \in {"open", "closing", "terminated", "closed"}
  /\ stopping \in {"no", "asked", "replied", "done"}
  /\ acquiring \in [Obs -> {"none", "pending", "cancelled"}]
  /\ serving \subseteq Obs /\ inflight \subseteq Obs
  /\ drain \in {"no", "draining", "disposed", "done"}
  /\ svc \in [Obs -> {"none", "opening", "live", "ended", "released", "refused"}]

\* The sink is given the Document's changes as the service emitted them: in order,
\* from the initial sync on, none left out and none twice, as long as the Daemon
\* itself does not let go of the link.
StreamIsPrefix ==
  stopping = "no" => \A o \in Obs : \A i \in DOMAIN got[o] :
    got[o][i] # Closed => i \in DOMAIN emitted[o] /\ emitted[o][i] = got[o][i]

\* "observeSession/createSession deliver the initial sync to the sink before they
\* resolve", unless the Daemon itself is letting go of the link.
BaselineFirst ==
  \A o \in Obs : call[o] = "open" /\ stopping = "no" => got[o] # <<>> /\ Head(got[o]) = Sync

\* Once the Worker's end of the link is closed, an observation that is still
\* live is one whose acquisition has yet to notice: nothing outlives its link.
NothingOutlivesLink ==
  \A o \in Obs : closed /\ svc[o] = "live" => acquiring[o] = "cancelled"

\* "The reply means the Worker finished": when the Daemon has it, no admitted
\* request is still opening a Session and no observation is live.
ShutdownReplyMeansDone ==
  stopping = "replied" => \A o \in Obs : svc[o] \notin {"opening", "live"}

\* Every request that starts an observation is answered or rejected, also when
\* the Worker withdraws, stops or disappears.
CallsSettle == \A o \in Obs : (call[o] = "pending") ~> (call[o] \in {"open", "failed"})

=============================================================================
