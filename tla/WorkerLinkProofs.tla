-------------------------- MODULE WorkerLinkProofs --------------------------
(***************************************************************************)
(* The Worker link, for any set of observations: nothing is pinned, every  *)
(* sink reads one stream, a baseline arrives before its call resolves, and *)
(* a shutdown that was answered is one that happened.                      *)
(*                                                                         *)
(* LinkInv is about the Worker's half: at every moment somebody will       *)
(* release a live observation, the map of the connection or the            *)
(* acquisition that has yet to resume (Owned); a connection that ended     *)
(* holds nothing and has cancelled every acquisition (ClosedIsEmpty); and  *)
(* no later request starts one (AcceptingIsOpen).                          *)
(*                                                                         *)
(* The stream argument is about the messages under way.  An observation is *)
(* asked for once (AskedOnce), its frames lie on the wire in the order     *)
(* they were emitted, a close last (FramesInOrder), and between what a     *)
(* sink has and the first frame under way nothing is missing (NoGap).      *)
(* A sink that left the map before its request resumed gets nothing more   *)
(* (LeftIsOver), and a request is answered behind its baseline (Baseline). *)
(***************************************************************************)
EXTENDS WorkerLink, TLAPS

\* The types of the Worker's half that the argument needs.
ServerTypes ==
  /\ acquiring \in [Obs -> {"none", "pending", "cancelled"}]
  /\ svc \in [Obs -> {"none", "opening", "live", "ended", "released", "refused"}]

\* Somebody will release an observation that is live or about to be.
Owned ==
  \A o \in Obs : /\ svc[o] = "opening" => acquiring[o] # "none"
                 /\ svc[o] = "live" => acquiring[o] # "none" \/ o \in serving

\* A connection that ended holds nothing, and every acquisition was cancelled.
ClosedIsEmpty == closed => serving = {} /\ \A o \in Obs : acquiring[o] # "pending"

\* Only an open connection accepts requests.
AcceptingIsOpen == accepting => ~closed

LinkInv == ServerTypes /\ Owned /\ ClosedIsEmpty /\ AcceptingIsOpen

\* Nothing is served at first.
LEMMA LinkInitially == Init => LinkInv
  BY DEF Init, LinkInv, ServerTypes, Owned, ClosedIsEmpty, AcceptingIsOpen

\* The end of a connection, whatever brought it about, settles every observation.
LEMMA EndingKeeps == LinkInv /\ EndConnection => LinkInv'
<1> SUFFICES ASSUME LinkInv, EndConnection PROVE LinkInv'
  OBVIOUS
<1> USE DEF LinkInv, EndConnection
<1>1. ServerTypes'
  BY DEF ServerTypes
<1>2. Owned'
  BY DEF ServerTypes, Owned
<1>3. ClosedIsEmpty' /\ AcceptingIsOpen'
  BY DEF ServerTypes, ClosedIsEmpty, AcceptingIsOpen
<1> QED
  BY <1>1, <1>2, <1>3

\* What the Worker does with one observation.
LEMMA ObservationKeeps ==
  ASSUME LinkInv, NEW o \in Obs,
         \/ AcceptObserve(o) \/ AcceptRelease(o) \/ InstallAcquired(o) \/ Acquire(o) \/ Refuse(o)
         \/ Patch(o) \/ SessionEnds(o)
  PROVE  LinkInv'
<1> USE DEF LinkInv
<1>1. CASE AcceptObserve(o)
  <2>1. ServerTypes' /\ Owned'
    BY <1>1 DEF AcceptObserve, ServerTypes, Owned
  <2>2. ClosedIsEmpty' /\ AcceptingIsOpen'
    BY <1>1 DEF AcceptObserve, ServerTypes, ClosedIsEmpty, AcceptingIsOpen
  <2> QED
    BY <2>1, <2>2
<1>2. CASE AcceptRelease(o)
  <2>1. ServerTypes' /\ Owned'
    BY <1>2 DEF AcceptRelease, ServerTypes, Owned
  <2>2. ClosedIsEmpty' /\ AcceptingIsOpen'
    BY <1>2 DEF AcceptRelease, ServerTypes, ClosedIsEmpty, AcceptingIsOpen
  <2> QED
    BY <2>1, <2>2
<1>3. CASE InstallAcquired(o)
  <2>1. ServerTypes' /\ Owned'
    BY <1>3 DEF InstallAcquired, Acquired, ServerTypes, Owned
  <2>2. ClosedIsEmpty' /\ AcceptingIsOpen'
    BY <1>3 DEF InstallAcquired, ServerTypes, ClosedIsEmpty, AcceptingIsOpen
  <2> QED
    BY <2>1, <2>2
<1>4. CASE Acquire(o)
  <2>1. ServerTypes' /\ Owned'
    BY <1>4 DEF Acquire, ServerTypes, Owned
  <2>2. ClosedIsEmpty' /\ AcceptingIsOpen'
    BY <1>4 DEF Acquire, ClosedIsEmpty, AcceptingIsOpen
  <2> QED
    BY <2>1, <2>2
<1>5. CASE Refuse(o)
  <2>1. ServerTypes' /\ Owned'
    BY <1>5 DEF Refuse, ServerTypes, Owned
  <2>2. ClosedIsEmpty' /\ AcceptingIsOpen'
    BY <1>5 DEF Refuse, ServerTypes, ClosedIsEmpty, AcceptingIsOpen
  <2> QED
    BY <2>1, <2>2
<1>6. CASE Patch(o)
  BY <1>6 DEF Patch, ServerTypes, Owned, ClosedIsEmpty, AcceptingIsOpen
<1>7. CASE SessionEnds(o)
  <2>1. ServerTypes' /\ Owned'
    BY <1>7 DEF SessionEnds, ServerTypes, Owned
  <2>2. ClosedIsEmpty' /\ AcceptingIsOpen'
    BY <1>7 DEF SessionEnds, ClosedIsEmpty, AcceptingIsOpen
  <2> QED
    BY <2>1, <2>2
<1> QED
  BY <1>1, <1>2, <1>3, <1>4, <1>5, <1>6, <1>7

\* A shutdown request stops admission and later releases what is live.
LEMMA ShutdownKeeps == LinkInv /\ (AcceptShutdown \/ DisposeService) => LinkInv'
<1> SUFFICES ASSUME LinkInv, AcceptShutdown \/ DisposeService PROVE LinkInv'
  OBVIOUS
<1>1. CASE AcceptShutdown
  BY <1>1 DEF AcceptShutdown, LinkInv, ServerTypes, Owned, ClosedIsEmpty, AcceptingIsOpen
<1>2. CASE DisposeService
  BY <1>2 DEF DisposeService, LinkInv, ServerTypes, Owned, ClosedIsEmpty, AcceptingIsOpen
<1> QED
  BY <1>1, <1>2

\* Nothing the Daemon or the network does touches the Worker's half.
LEMMA ElsewhereKeeps == LinkInv /\ UNCHANGED workerVars => LinkInv'
  BY DEF LinkInv, workerVars, ServerTypes, Owned, ClosedIsEmpty, AcceptingIsOpen

\* The Daemon's steps and the loss of the socket.
LEMMA DaemonElsewhere ==
  DaemonStep \/ Drop \/ HeartbeatTimeout \/ Stop \/ Ignore \/ (\E o \in Obs : Observe(o) \/ Release(o))
    => UNCHANGED workerVars
<1>1. DaemonStep => UNCHANGED workerVars
  BY DEF DaemonStep, HearUnavailable, Terminate, HearStopped, HearBye, Stopped, DaemonClosed, Resume,
     ResumeRejected, HearReply, HearFrame
<1>2. Drop \/ HeartbeatTimeout \/ Stop \/ Ignore => UNCHANGED workerVars
  BY DEF Drop, HeartbeatTimeout, Terminate, Stop, Ignore
<1>3. (\E o \in Obs : Observe(o) \/ Release(o)) => UNCHANGED workerVars
  BY DEF Observe, Release
<1> QED
  BY <1>1, <1>2, <1>3

\* Every step keeps the invariant.
LEMMA LinkInductive == LinkInv /\ [Next]_vars => LinkInv'
<1> SUFFICES ASSUME LinkInv, [Next]_vars PROVE LinkInv'
  OBVIOUS
<1>1. CASE HearDaemonBye \/ ReplyShutdown \/ WorkerClosed \/ ReportUnavailable \/ WorkerHeartbeatTimeout
  BY <1>1, EndingKeeps DEF HearDaemonBye, ReplyShutdown, WorkerClosed, ReportUnavailable,
     WorkerHeartbeatTimeout
<1>2. CASE UNCHANGED vars
  BY <1>2, ElsewhereKeeps DEF vars
<1> QED
  BY <1>1, <1>2, ObservationKeeps, ShutdownKeeps, DaemonElsewhere, ElsewhereKeeps DEF Next, WorkerStep

-----------------------------------------------------------------------------
(* The socket *)

\* What crosses the socket.
ToDaemon == [kind : {"ok", "err"}, obs : Obs] \cup [kind : {"frame"}, obs : Obs, frame : Frame]
            \cup [kind : {"unavailable", "stopped", "bye"}]
ToWorker == [kind : {"observe", "release"}, obs : Obs] \cup [kind : {"shutdown", "bye"}]

\* The types of both halves that the argument needs.
LinkTypes ==
  /\ call \in [Obs -> {"none", "pending", "replied", "rejected", "open", "failed"}]
  /\ held \subseteq Obs
  /\ got \in [Obs -> Seq(Frame)] /\ emitted \in [Obs -> Seq(Frame)]
  /\ toDaemon \in Seq(ToDaemon) /\ toWorker \in Seq(ToWorker)

\* Messages and frames are what their types say.
LEMMA MessageTypes ==
  /\ Sync \in Frame /\ Closed \in Frame /\ Sync # Closed
  /\ \A n \in Nat : [kind |-> "patch", n |-> n] \in Frame
  /\ \A f \in Frame : f.n \in Nat
  /\ \A o \in Obs : Msg("ok", o) \in ToDaemon /\ Msg("err", o) \in ToDaemon
  /\ \A o \in Obs, f \in Frame : FrameMsg(o, f) \in ToDaemon
  /\ \A k \in {"unavailable", "stopped", "bye"} : Signal(k) \in ToDaemon
  /\ \A o \in Obs : Msg("observe", o) \in ToWorker /\ Msg("release", o) \in ToWorker
  /\ \A k \in {"shutdown", "bye"} : Signal(k) \in ToWorker
  /\ \A m \in ToDaemon : m.kind = "frame" => m.obs \in Obs /\ m.frame \in Frame
  BY DEF Frame, Sync, Closed, Msg, Signal, FrameMsg, ToDaemon, ToWorker

\* Queues, seen through their elements.
LEMMA Appended ==
  ASSUME NEW S, NEW w \in Seq(S), NEW e \in S
  PROVE  /\ Append(w, e) \in Seq(S) /\ Len(Append(w, e)) = Len(w) + 1 /\ Len(w) \in Nat
         /\ \A i \in 1..Len(w) : Append(w, e)[i] = w[i]
         /\ Append(w, e)[Len(w) + 1] = e
  OBVIOUS

LEMMA HeadAndTail ==
  ASSUME NEW S, NEW w \in Seq(S), w # <<>>
  PROVE  /\ Head(w) = w[1] /\ Head(w) \in S /\ Tail(w) \in Seq(S)
         /\ Len(w) \in Nat /\ Len(w) >= 1 /\ Len(Tail(w)) = Len(w) - 1
         /\ \A i \in 1..(Len(w) - 1) : Tail(w)[i] = w[i + 1]
  OBVIOUS

LEMMA RestOf ==
  ASSUME NEW S, NEW w \in Seq(S), w # <<>>
  PROVE  \E L \in Nat : /\ Len(w) = L + 1 /\ Len(Tail(w)) = L
                        /\ \A i \in 1..L : Tail(w)[i] = w[i + 1] /\ i + 1 \in 1..Len(w)
<1>1. PICK k \in Nat : k = Len(w) /\ k >= 1 /\ Len(Tail(w)) = k - 1
  BY HeadAndTail
<1>2. \A i \in 1..(k - 1) : Tail(w)[i] = w[i + 1]
  BY <1>1, HeadAndTail
<1>3. PICK L \in Nat : k = L + 1 /\ k - 1 = L
  <2>1. k - 1 \in Nat /\ (k - 1) + 1 = k
    BY <1>1
  <2> QED
    BY <2>1
<1> QED
  BY <1>1, <1>2, <1>3

\* A message sent is the queue's last, or the socket is gone.
LEMMA SendTypes ==
  ASSUME LinkTypes
  PROVE  /\ \A m \in ToDaemon : WorkerSends(m) => toDaemon' \in Seq(ToDaemon)
         /\ \A m \in ToWorker : DaemonSends(m) => toWorker' \in Seq(ToWorker)
         /\ toDaemon # <<>> => Tail(toDaemon) \in Seq(ToDaemon)
         /\ toWorker # <<>> => Tail(toWorker) \in Seq(ToWorker)
<1>1. \A m \in ToDaemon : Append(toDaemon, m) \in Seq(ToDaemon)
  BY Appended DEF LinkTypes
<1>2. \A m \in ToWorker : Append(toWorker, m) \in Seq(ToWorker)
  BY Appended DEF LinkTypes
<1>3. \A m \in ToDaemon : WorkerSends(m) => toDaemon' \in Seq(ToDaemon)
  BY <1>1 DEF WorkerSends, LinkTypes
<1>4. \A m \in ToWorker : DaemonSends(m) => toWorker' \in Seq(ToWorker)
  BY <1>2 DEF DaemonSends, LinkTypes
<1>5. toDaemon # <<>> => Tail(toDaemon) \in Seq(ToDaemon)
  BY HeadAndTail DEF LinkTypes
<1>6. toWorker # <<>> => Tail(toWorker) \in Seq(ToWorker)
  BY HeadAndTail DEF LinkTypes
<1> QED
  BY <1>3, <1>4, <1>5, <1>6

LEMMA TypesInductive == LinkTypes /\ [Next]_vars => LinkTypes'
<1> SUFFICES ASSUME LinkTypes, [Next]_vars PROVE LinkTypes'
  OBVIOUS
<1> USE MessageTypes, SendTypes
<1>1. ASSUME NEW o \in Obs, Observe(o) \/ Release(o) PROVE LinkTypes'
  BY <1>1 DEF Observe, Release, workerVars, LinkTypes
<1>2. ASSUME NEW o \in Obs, Resume(o) \/ ResumeRejected(o) \/ HearReply(o) PROVE LinkTypes'
  BY <1>2 DEF Resume, ResumeRejected, HearReply, workerVars, sockVars, LinkTypes
<1>3. ASSUME NEW o \in Obs, HearFrame(o) PROVE LinkTypes'
  <2>1. PICK m \in ToDaemon : m = Head(toDaemon)
    BY <1>3, HeadAndTail DEF HearFrame, LinkTypes
  <2>2. m.frame \in Frame
    BY <1>3, <2>1 DEF HearFrame
  <2>3. got' \in [Obs -> Seq(Frame)] /\ held' \subseteq Obs
    BY <1>3, <2>1, <2>2 DEF HearFrame, LinkTypes
  <2> QED
    BY <1>3, <2>3 DEF HearFrame, workerVars, LinkTypes
<1>4. CASE HearUnavailable \/ HeartbeatTimeout
  <2>1. Terminate
    BY <1>4 DEF HearUnavailable, HeartbeatTimeout
  <2>2. got' \in [Obs -> Seq(Frame)]
    BY <2>1 DEF Terminate, LinkTypes
  <2>3. call' \in [Obs -> {"none", "pending", "replied", "rejected", "open", "failed"}]
    BY <2>1 DEF Terminate, RejectPending, LinkTypes
  <2>4. toDaemon' \in Seq(ToDaemon) /\ toWorker' \in Seq(ToWorker)
    BY <2>1 DEF Terminate, Lost
  <2> QED
    BY <2>1, <2>2, <2>3, <2>4 DEF Terminate, workerVars, LinkTypes
<1>5. CASE HearStopped \/ Stopped \/ Stop \/ UNCHANGED vars
  <2>1. UNCHANGED <<call, got, emitted>> /\ held' \subseteq Obs
    BY <1>5 DEF HearStopped, Stopped, Stop, vars, daemonVars, workerVars, LinkTypes
  <2>2. toWorker' \in Seq(ToWorker)
    BY <1>5 DEF HearStopped, Stopped, Stop, vars, sockVars, LinkTypes
  <2>3. toDaemon' \in Seq(ToDaemon)
    BY <1>5 DEF HearStopped, Stopped, Stop, vars, sockVars, LinkTypes
  <2> QED
    BY <2>1, <2>2, <2>3 DEF LinkTypes
<1>6. CASE HearBye \/ Drop \/ DaemonClosed \/ WorkerClosed \/ WorkerHeartbeatTimeout
  <2>1. UNCHANGED <<got, emitted>> /\ held' \subseteq Obs
    BY <1>6 DEF HearBye, Drop, DaemonClosed, WorkerClosed, WorkerHeartbeatTimeout, daemonVars, workerVars, LinkTypes
  <2>2. call' \in [Obs -> {"none", "pending", "replied", "rejected", "open", "failed"}]
    BY <1>6 DEF HearBye, Drop, DaemonClosed, WorkerClosed, WorkerHeartbeatTimeout, daemonVars, RejectPending, LinkTypes
  <2>3. \/ toWorker' = <<>> /\ toDaemon' = <<>>
        \/ toWorker' = toWorker /\ toDaemon' = toDaemon
    BY <1>6 DEF HearBye, Drop, DaemonClosed, WorkerClosed, WorkerHeartbeatTimeout, Lost, sockVars
  <2>4. <<>> \in Seq(ToWorker) /\ <<>> \in Seq(ToDaemon)
    OBVIOUS
  <2> QED
    BY <2>1, <2>2, <2>3, <2>4 DEF LinkTypes
<1>11. CASE Ignore \/ AcceptShutdown \/ DisposeService \/ ReplyShutdown \/ ReportUnavailable
  <2>1. UNCHANGED <<call, held, got, emitted>>
    BY <1>11 DEF Ignore, AcceptShutdown, DisposeService, ReplyShutdown, ReportUnavailable, Accept, daemonVars,
       workerVars
  <2>2. toWorker' \in Seq(ToWorker)
    <3>1. toWorker' = toWorker \/ (toWorker # <<>> /\ toWorker' = Tail(toWorker))
      BY <1>11 DEF Ignore, AcceptShutdown, DisposeService, ReplyShutdown, ReportUnavailable, Accept, sockVars
    <3> QED
      BY <3>1 DEF LinkTypes
  <2>3. toDaemon' \in Seq(ToDaemon)
    <3>1. \/ toDaemon' = toDaemon
          \/ \E k \in {"unavailable", "stopped", "bye"} : WorkerSends(Signal(k))
      BY <1>11 DEF Ignore, AcceptShutdown, DisposeService, ReplyShutdown, ReportUnavailable, Accept, sockVars
    <3> QED
      BY <3>1 DEF LinkTypes
  <2> QED
    BY <2>1, <2>2, <2>3 DEF LinkTypes
<1>12. CASE HearDaemonBye
  <2>1. toDaemon' \in Seq(ToDaemon)
    BY <1>12, Appended DEF HearDaemonBye, LinkTypes
  <2> QED
    BY <1>12, <2>1 DEF HearDaemonBye, daemonVars, LinkTypes
<1>7. ASSUME NEW o \in Obs, AcceptObserve(o) \/ AcceptRelease(o) \/ InstallAcquired(o) \/ Refuse(o)
      PROVE  LinkTypes'
  BY <1>7 DEF AcceptObserve, AcceptRelease, InstallAcquired, Refuse, Accept, daemonVars, LinkTypes
<1>8. ASSUME NEW o \in Obs, Acquire(o) PROVE LinkTypes'
  <2>1. emitted' \in [Obs -> Seq(Frame)]
    BY <1>8 DEF Acquire, LinkTypes
  <2> QED
    BY <1>8, <2>1 DEF Acquire, daemonVars, LinkTypes
<1>9. ASSUME NEW o \in Obs, Patch(o) PROVE LinkTypes'
  <2>1. PICK f \in Frame : f = [kind |-> "patch", n |-> Len(emitted[o])]
    <3>1. emitted[o] \in Seq(Frame) /\ Len(emitted[o]) \in Nat
      BY DEF LinkTypes
    <3> QED
      BY <3>1
  <2>2. emitted' \in [Obs -> Seq(Frame)] /\ toDaemon' \in Seq(ToDaemon)
    BY <1>9, <2>1 DEF Patch, LinkTypes
  <2> QED
    BY <1>9, <2>2 DEF Patch, daemonVars, LinkTypes
<1>10. ASSUME NEW o \in Obs, SessionEnds(o) PROVE LinkTypes'
  <2>1. emitted' \in [Obs -> Seq(Frame)]
    BY <1>10 DEF SessionEnds, LinkTypes
  <2> QED
    BY <1>10, <2>1 DEF SessionEnds, daemonVars, LinkTypes
<1> QED
  BY <1>1, <1>2, <1>3, <1>4, <1>5, <1>6, <1>7, <1>8, <1>9, <1>10, <1>11, <1>12 DEF Next, DaemonStep, WorkerStep

\* A lost socket has nothing under way.
LostIsEmpty == ~up => toWorker = <<>> /\ toDaemon = <<>>

\* How a step may change a queue: it takes from the front, loses everything, or
\* adds m.
Moved(w, w2, m) ==
  w2 = w \/ w2 = <<>> \/ (w # <<>> /\ w2 = Tail(w)) \/ w2 = Append(w, m)

LEMMA MovedElements ==
  ASSUME NEW S, NEW w \in Seq(S), NEW m \in S, NEW w2, Moved(w, w2, m)
  PROVE  \A i \in 1..Len(w2) : w2[i] = m \/ \E j \in 1..Len(w) : w2[i] = w[j]
<1>1. CASE w2 = w \/ w2 = <<>>
  BY <1>1
<1>2. CASE w # <<>> /\ w2 = Tail(w)
  <2>1. \A i \in 1..(Len(w) - 1) : w2[i] = w[i + 1] /\ i + 1 \in 1..Len(w)
    BY <1>2, HeadAndTail
  <2>2. Len(w2) = Len(w) - 1
    BY <1>2, HeadAndTail
  <2> QED
    BY <2>1, <2>2
<1>3. CASE w2 = Append(w, m)
  BY <1>3, Appended
<1> QED
  BY <1>1, <1>2, <1>3 DEF Moved

\* Everything sent is sent on an open socket.
LEMMA LostInductive == LostIsEmpty /\ [Next]_vars => LostIsEmpty'
<1> SUFFICES ASSUME LostIsEmpty, [Next]_vars, ~up' PROVE toWorker' = <<>> /\ toDaemon' = <<>>
  BY DEF LostIsEmpty
<1> USE DEF LostIsEmpty
<1>1. CASE DaemonStep
  BY <1>1 DEF DaemonStep, HearUnavailable, Terminate, Lost, HearStopped, HearBye, Stopped, DaemonClosed, Resume,
     ResumeRejected, HearReply, HearFrame, DaemonSends, sockVars
<1>2. CASE Drop \/ HeartbeatTimeout \/ Stop \/ ReportUnavailable \/ WorkerHeartbeatTimeout \/ UNCHANGED vars
  BY <1>2 DEF Drop, HeartbeatTimeout, Stop, ReportUnavailable, WorkerHeartbeatTimeout, Terminate, Lost,
     DaemonSends, WorkerSends, vars, sockVars
<1>3. ASSUME NEW o \in Obs, Observe(o) \/ Release(o) \/ Patch(o) \/ SessionEnds(o)
      PROVE  toWorker' = <<>> /\ toDaemon' = <<>>
  BY <1>3 DEF Observe, Release, Patch, SessionEnds, DaemonSends, WorkerSends
<1>4. CASE Ignore \/ HearDaemonBye \/ AcceptShutdown \/ DisposeService \/ ReplyShutdown \/ WorkerClosed
  BY <1>4 DEF Ignore, HearDaemonBye, AcceptShutdown, DisposeService, ReplyShutdown, WorkerClosed, Accept,
     WorkerSends, sockVars
<1>5. ASSUME NEW o \in Obs,
             AcceptObserve(o) \/ AcceptRelease(o) \/ InstallAcquired(o) \/ Acquire(o) \/ Refuse(o)
      PROVE  toWorker' = <<>> /\ toDaemon' = <<>>
  BY <1>5 DEF AcceptObserve, AcceptRelease, InstallAcquired, Acquire, Refuse, Accept, WorkerSends
<1> QED
  BY <1>1, <1>2, <1>3, <1>4, <1>5 DEF Next, WorkerStep

-----------------------------------------------------------------------------
(* The shutdown *)

\* No request is admitted any more, and the service was disposed when the
\* admitted ones had settled; only then the reply is sent.
ShutdownInv ==
  /\ \A o \in Obs : svc[o] = "opening" => o \in inflight
  /\ drain # "no" => ~accepting
  /\ drain \in {"disposed", "done"} => \A o \in Obs : svc[o] \notin {"opening", "live"}
  /\ \A i \in 1..Len(toDaemon) : toDaemon[i].kind = "stopped" => drain = "done"
  /\ stopping = "replied" => drain = "done"

\* The reply is among the messages only when it was sent.
LEMMA StoppedSent ==
  ASSUME LinkTypes, ShutdownInv, NEW m \in ToDaemon, Moved(toDaemon, toDaemon', m),
         drain = "done" => drain' = "done", m.kind = "stopped" => drain' = "done"
  PROVE  \A i \in 1..Len(toDaemon') : toDaemon'[i].kind = "stopped" => drain' = "done"
<1>1. \A i \in 1..Len(toDaemon') : toDaemon'[i] = m \/ \E j \in 1..Len(toDaemon) : toDaemon'[i] = toDaemon[j]
  BY MovedElements DEF LinkTypes
<1> QED
  BY <1>1 DEF ShutdownInv

LEMMA ShutdownInductive == LinkInv /\ LinkTypes /\ ShutdownInv /\ [Next]_vars => ShutdownInv'
<1> SUFFICES ASSUME LinkInv, LinkTypes, ShutdownInv, [Next]_vars PROVE ShutdownInv'
  OBVIOUS
<1> USE MessageTypes DEF LinkInv, ServerTypes
<1> DEFINE bye == Signal("bye")
<1>0. bye \in ToDaemon /\ bye.kind # "stopped"
  BY DEF Signal
<1>1. CASE UNCHANGED <<svc, inflight, drain, accepting>> /\ Moved(toDaemon, toDaemon', bye)
           /\ (stopping' = "replied" => stopping = "replied" \/ HearStopped)
  <2>1. \A i \in 1..Len(toDaemon') : toDaemon'[i].kind = "stopped" => drain' = "done"
    BY <1>0, <1>1, StoppedSent
  <2>2. HearStopped => drain = "done"
    <3> SUFFICES ASSUME HearStopped PROVE drain = "done"
      OBVIOUS
    <3>1. Head(toDaemon) = toDaemon[1] /\ 1 \in 1..Len(toDaemon) /\ Head(toDaemon).kind = "stopped"
      BY HeadAndTail DEF HearStopped, LinkTypes
    <3> QED
      BY <3>1 DEF ShutdownInv
  <2> QED
    BY <1>1, <2>1, <2>2 DEF ShutdownInv
<1>2. DaemonStep \/ Drop \/ HeartbeatTimeout \/ Stop \/ (\E o \in Obs : Observe(o) \/ Release(o)) \/ UNCHANGED vars
        => ShutdownInv'
  <2> SUFFICES ASSUME DaemonStep \/ Drop \/ HeartbeatTimeout \/ Stop \/ (\E o \in Obs : Observe(o) \/ Release(o)) \/ UNCHANGED vars
               PROVE  ShutdownInv'
    OBVIOUS
  <2>1. UNCHANGED <<svc, inflight, drain, accepting>>
    BY DaemonElsewhere DEF vars, workerVars
  <2>2. Moved(toDaemon, toDaemon', bye)
    BY DEF Moved, DaemonStep, Drop, HeartbeatTimeout, Stop, Observe, Release, HearUnavailable, Terminate, Lost,
       HearStopped, HearBye, Stopped, DaemonClosed, Resume, ResumeRejected, HearReply, HearFrame, vars, sockVars
  <2>3. stopping' = "replied" => stopping = "replied" \/ HearStopped
    BY DEF DaemonStep, Drop, HeartbeatTimeout, Stop, Observe, Release, HearUnavailable, Terminate,
       HearBye, Stopped, DaemonClosed, Resume, ResumeRejected, HearReply, HearFrame, vars, daemonVars
  <2> QED
    BY <1>1, <2>1, <2>2, <2>3
<1>3. ASSUME NEW o \in Obs,
             \/ AcceptObserve(o) \/ AcceptRelease(o) \/ InstallAcquired(o) \/ Acquire(o) \/ Refuse(o)
             \/ Patch(o) \/ SessionEnds(o)
      PROVE  ShutdownInv'
  <2>1. PICK m \in ToDaemon : m.kind # "stopped" /\ Moved(toDaemon, toDaemon', m)
    <3>1. CASE AcceptObserve(o) \/ AcceptRelease(o)
      BY <1>0, <3>1 DEF AcceptObserve, AcceptRelease, Accept, Moved
    <3>2. CASE InstallAcquired(o)
      <4>1. Msg("ok", o) \in ToDaemon /\ Msg("ok", o).kind # "stopped"
        BY DEF Msg
      <4> QED
        BY <3>2, <4>1 DEF InstallAcquired, WorkerSends, Moved
    <3>3. CASE Refuse(o)
      <4>1. Msg("err", o) \in ToDaemon /\ Msg("err", o).kind # "stopped"
        BY DEF Msg
      <4> QED
        BY <3>3, <4>1 DEF Refuse, WorkerSends, Moved
    <3>4. CASE Acquire(o) \/ SessionEnds(o)
      <4>1. \A f \in Frame : FrameMsg(o, f) \in ToDaemon /\ FrameMsg(o, f).kind # "stopped"
        BY DEF FrameMsg
      <4> QED
        BY <3>4, <4>1 DEF Acquire, SessionEnds, WorkerSends, Moved
    <3>5. CASE Patch(o)
      <4>1. Len(emitted[o]) \in Nat
        BY DEF LinkTypes
      <4>2. PICK f \in Frame : f = [kind |-> "patch", n |-> Len(emitted[o])]
        BY <4>1
      <4>3. FrameMsg(o, f) \in ToDaemon /\ FrameMsg(o, f).kind # "stopped"
        BY DEF FrameMsg
      <4> QED
        BY <3>5, <4>2, <4>3 DEF Patch, WorkerSends, Moved
    <3> QED
      BY <1>3, <3>1, <3>2, <3>3, <3>4, <3>5
  <2>2. drain' = drain /\ accepting' = accepting /\ stopping' = stopping
    BY <1>3 DEF AcceptObserve, AcceptRelease, InstallAcquired, Acquire, Refuse, Patch, SessionEnds, Accept, daemonVars
  <2>3. \A i \in 1..Len(toDaemon') : toDaemon'[i].kind = "stopped" => drain' = "done"
    BY <2>1, <2>2, StoppedSent
  <2>4. \A u \in Obs : svc'[u] = "opening" => u \in inflight'
    BY <1>3 DEF AcceptObserve, AcceptRelease, InstallAcquired, Acquired, Acquire, Refuse, Patch, SessionEnds, ShutdownInv
  <2>5. drain' \in {"disposed", "done"} => \A u \in Obs : svc'[u] \notin {"opening", "live"}
    BY <1>3, <2>2 DEF AcceptObserve, AcceptRelease, InstallAcquired, Acquire, Refuse, Patch, SessionEnds, ShutdownInv
  <2> QED
    BY <2>2, <2>3, <2>4, <2>5 DEF ShutdownInv
<1>4. CASE Ignore \/ AcceptShutdown \/ DisposeService \/ ReplyShutdown \/ HearDaemonBye \/ WorkerClosed
           \/ ReportUnavailable \/ WorkerHeartbeatTimeout
  <2>1. PICK m \in ToDaemon : Moved(toDaemon, toDaemon', m) /\ (m.kind = "stopped" => drain' = "done")
    <3>1. \A k \in {"unavailable", "stopped", "bye"} : Signal(k) \in ToDaemon /\ Signal(k).kind = k
      BY DEF Signal
    <3>2. CASE ReplyShutdown
      BY <3>1, <3>2 DEF ReplyShutdown, WorkerSends, Moved
    <3>3. CASE ~ReplyShutdown
      <4>1. \E k \in {"unavailable", "bye"} : Moved(toDaemon, toDaemon', Signal(k))
        BY <1>4, <3>3 DEF Ignore, AcceptShutdown, DisposeService, HearDaemonBye, WorkerClosed, ReportUnavailable,
           WorkerHeartbeatTimeout, WorkerSends, Moved, Accept, Lost, sockVars
      <4> QED
        BY <3>1, <4>1
    <3> QED
      BY <3>2, <3>3
  <2>2. drain = "done" => drain' = "done"
    BY <1>4 DEF Ignore, AcceptShutdown, DisposeService, ReplyShutdown, HearDaemonBye, WorkerClosed, ReportUnavailable,
       WorkerHeartbeatTimeout, workerVars, ShutdownInv
  <2>3. \A i \in 1..Len(toDaemon') : toDaemon'[i].kind = "stopped" => drain' = "done"
    BY <2>1, <2>2, StoppedSent
  <2>4. stopping' = stopping
    BY <1>4 DEF Ignore, AcceptShutdown, DisposeService, ReplyShutdown, HearDaemonBye, WorkerClosed, ReportUnavailable,
       WorkerHeartbeatTimeout, Accept, daemonVars
  <2>5. \A u \in Obs : (svc'[u] = "opening" => svc[u] = "opening") /\ (svc'[u] = "live" => svc[u] = "live")
    BY <1>4 DEF Ignore, AcceptShutdown, DisposeService, ReplyShutdown, HearDaemonBye, WorkerClosed, ReportUnavailable,
       WorkerHeartbeatTimeout, EndConnection, workerVars
  <2>6. inflight' = inflight /\ (accepting' => accepting /\ drain' = drain)
    BY <1>4 DEF Ignore, AcceptShutdown, DisposeService, ReplyShutdown, HearDaemonBye, WorkerClosed, ReportUnavailable,
       WorkerHeartbeatTimeout, EndConnection, workerVars, ShutdownInv
  <2>7. drain' \in {"disposed", "done"} => \A u \in Obs : svc'[u] \notin {"opening", "live"}
    <3>1. CASE DisposeService
      BY <3>1 DEF DisposeService, ShutdownInv
    <3>2. CASE ~DisposeService
      <4>1. drain' \in {"disposed", "done"} => drain \in {"disposed", "done"}
        BY <1>4, <3>2 DEF Ignore, AcceptShutdown, ReplyShutdown, HearDaemonBye, WorkerClosed, ReportUnavailable,
           WorkerHeartbeatTimeout, workerVars
      <4> QED
        BY <2>5, <4>1 DEF ShutdownInv
    <3> QED
      BY <3>1, <3>2
  <2> QED
    BY <2>2, <2>3, <2>4, <2>5, <2>6, <2>7 DEF ShutdownInv
<1> QED
  BY <1>2, <1>3, <1>4 DEF Next, WorkerStep

-----------------------------------------------------------------------------
(* Requests *)

\* Each observation is asked for once.
Asks(m, o) == m.kind = "observe" /\ m.obs = o
AsksOnce(w) ==
  \A o \in Obs : \A i \in 1..Len(w) : Asks(w[i], o) =>
    svc[o] = "none" /\ call[o] # "none" /\ \A j \in 1..Len(w) : Asks(w[j], o) => i = j

AskedOnce ==
  /\ \A o \in Obs : /\ call[o] = "none" => svc[o] = "none" /\ o \notin held
                    /\ svc[o] = "refused" => acquiring[o] = "none"
  /\ AsksOnce(toWorker)

LEMMA AsksTail ==
  ASSUME NEW w \in Seq(ToWorker), w # <<>>, AsksOnce(w)
  PROVE  /\ AsksOnce(Tail(w))
         /\ \A o \in Obs : Asks(Head(w), o) => \A i \in 1..Len(Tail(w)) : ~Asks(Tail(w)[i], o)
<1>1. PICK L \in Nat : /\ Len(w) = L + 1 /\ Len(Tail(w)) = L
                       /\ \A i \in 1..L : Tail(w)[i] = w[i + 1] /\ i + 1 \in 1..Len(w)
  BY RestOf
<1>2. PICK v : v = Tail(w) /\ Len(v) = L /\ \A i \in 1..L : v[i] = w[i + 1]
  BY <1>1
<1>3. Head(w) = w[1] /\ 1 \in 1..Len(w) /\ \A i \in 1..L : i + 1 \in 1..Len(w) /\ i + 1 # 1
  BY <1>1, HeadAndTail
<1>4. AsksOnce(v)
  <2> SUFFICES ASSUME NEW o \in Obs, NEW i \in 1..L, Asks(v[i], o)
               PROVE  svc[o] = "none" /\ call[o] # "none" /\ \A j \in 1..L : Asks(v[j], o) => i = j
    BY <1>2 DEF AsksOnce
  <2>1. Asks(w[i + 1], o) /\ i + 1 \in 1..Len(w)
    BY <1>2, <1>3
  <2>2. svc[o] = "none" /\ call[o] # "none" /\ \A j \in 1..Len(w) : Asks(w[j], o) => i + 1 = j
    BY <2>1 DEF AsksOnce
  <2>3. \A j \in 1..L : Asks(v[j], o) => i + 1 = j + 1
    BY <1>2, <1>3, <2>2
  <2> QED
    BY <2>2, <2>3
<1>5. ASSUME NEW o \in Obs, Asks(w[1], o), NEW i \in 1..L PROVE ~Asks(v[i], o)
  <2>1. \A j \in 1..Len(w) : Asks(w[j], o) => 1 = j
    BY <1>3, <1>5 DEF AsksOnce
  <2> QED
    BY <1>2, <1>3, <2>1
<1> QED
  BY <1>2, <1>3, <1>4, <1>5

LEMMA AsksAppended ==
  ASSUME NEW w \in Seq(ToWorker), AsksOnce(w)', NEW m \in ToWorker,
         \A o \in Obs : Asks(m, o) => /\ svc'[o] = "none" /\ call'[o] # "none"
                                      /\ \A i \in 1..Len(w) : ~Asks(w[i], o)
  PROVE  AsksOnce(Append(w, m))'
<1>0. PICK v : v = Append(w, m)
  OBVIOUS
<1>1. PICK L \in Nat : /\ v = Append(w, m) /\ Len(v) = L + 1 /\ L = Len(w) /\ v[L + 1] = m
                       /\ \A i \in 1..L : v[i] = w[i]
  BY <1>0, Appended
<1>2. AsksOnce(v)'
  <2> SUFFICES ASSUME NEW o \in Obs, NEW i \in 1..(L + 1), Asks(v[i], o)
               PROVE  svc'[o] = "none" /\ call'[o] # "none" /\ \A j \in 1..(L + 1) : Asks(v[j], o) => i = j
    BY <1>1 DEF AsksOnce, Asks
  <2>1. CASE i = L + 1
    BY <1>1, <2>1
  <2>2. CASE i \in 1..L
    <3>1. /\ svc'[o] = "none" /\ call'[o] # "none"
          /\ \A j \in 1..L : Asks(w[j], o) => i = j
      BY <1>1, <2>2 DEF AsksOnce, Asks
    <3>2. ~Asks(m, o)
      BY <1>1, <2>2
    <3> QED
      BY <1>1, <3>1, <3>2
  <2> QED
    BY <2>1, <2>2
<1> QED
  BY <1>1, <1>2

LEMMA AsksStay ==
  ASSUME NEW w, AsksOnce(w),
         \A o \in Obs : /\ call[o] # "none" => call'[o] # "none"
                        /\ (\E i \in 1..Len(w) : Asks(w[i], o)) /\ svc[o] = "none" => svc'[o] = "none"
  PROVE  AsksOnce(w)'
  BY DEF AsksOnce, Asks

LEMMA AskedInductive == LinkInv /\ LinkTypes /\ AskedOnce /\ [Next]_vars => AskedOnce'
<1> SUFFICES ASSUME LinkInv, LinkTypes, AskedOnce, [Next]_vars PROVE AskedOnce'
  OBVIOUS
<1> USE MessageTypes DEF LinkInv, ServerTypes
<1>1. AsksOnce(toWorker) /\ toWorker \in Seq(ToWorker)
  BY DEF AskedOnce, LinkTypes
<1>2. AsksOnce(<<>>)'
  BY DEF AsksOnce
<1>3. PICK w \in Seq(ToWorker) : w = toWorker
  BY <1>1
<1>0. PICK w2 : w2 = toWorker'
  OBVIOUS
<1>4. ASSUME \A o \in Obs : (call[o] # "none" => call'[o] # "none") /\ (svc[o] = "none" => svc'[o] = "none")
      PROVE  /\ AsksOnce(w)'
             /\ w # <<>> => AsksOnce(Tail(w))'
             /\ \A m \in ToWorker : m.kind # "observe" => AsksOnce(Append(w, m))'
  <2>1. AsksOnce(w)'
    BY <1>1, <1>3, <1>4, AsksStay
  <2>2. ASSUME w # <<>> PROVE AsksOnce(Tail(w))'
    <3>1. PICK v \in Seq(ToWorker) : v = Tail(w)
      BY <2>2, HeadAndTail
    <3>2. AsksOnce(v)
      BY <1>1, <1>3, <2>2, <3>1, AsksTail
    <3>3. AsksOnce(v)'
      BY <1>4, <3>2, AsksStay
    <3> QED
      BY <3>1, <3>3
  <2>3. ASSUME NEW m \in ToWorker, m.kind # "observe" PROVE AsksOnce(Append(w, m))'
    BY <2>1, <2>3, AsksAppended DEF Asks
  <2> QED
    BY <2>1, <2>2, <2>3
<1>5. \A o \in Obs : Msg("release", o).kind # "observe" /\ Signal("bye").kind # "observe" /\ Signal("shutdown").kind # "observe"
  BY DEF Msg, Signal
<1>6. ASSUME NEW o \in Obs, Observe(o) PROVE AskedOnce'
  <2>1. /\ \A u \in Obs : /\ (call[u] # "none" => call'[u] # "none") /\ (svc[u] = "none" => svc'[u] = "none")
                          /\ (call'[u] = "none" => svc'[u] = "none" /\ u \notin held')
                          /\ (svc'[u] = "refused" => acquiring'[u] = "none")
    BY <1>6 DEF Observe, AskedOnce, LinkTypes, workerVars
  <2>2. PICK m \in ToWorker : m = Msg("observe", o) /\ \A u : Asks(m, u) => u = o
    BY DEF Msg, Asks
  <2>3. svc'[o] = "none" /\ call'[o] # "none" /\ \A i \in 1..Len(w) : ~Asks(w[i], o)
    BY <1>3, <1>6 DEF Observe, AskedOnce, AsksOnce, LinkTypes, workerVars
  <2>4. AsksOnce(w)'
    BY <1>4, <2>1
  <2>5. AsksOnce(Append(w, m))'
    BY <2>2, <2>3, <2>4, AsksAppended
  <2>6. toWorker' = w \/ toWorker' = Append(w, m)
    BY <1>3, <1>6, <2>2 DEF Observe, DaemonSends
  <2> QED
    <3>1. AsksOnce(w2)'
      BY <1>0, <2>4, <2>5, <2>6
    <3> QED
      BY <1>0, <2>1, <3>1 DEF AskedOnce, AsksOnce
<1>7. ASSUME NEW o \in Obs, AcceptObserve(o) PROVE AskedOnce'
  <2>1. PICK v \in Seq(ToWorker) : v = Tail(w) /\ toWorker' = v /\ w # <<>> /\ Asks(Head(w), o)
    BY <1>3, <1>7, HeadAndTail DEF AcceptObserve, Accept, Asks
  <2>2. AsksOnce(v) /\ \A i \in 1..Len(v) : ~Asks(v[i], o)
    BY <1>1, <1>3, <2>1, AsksTail
  <2>3. \A u \in Obs : /\ call'[u] = call[u] /\ (u # o => svc'[u] = svc[u]) /\ svc'[o] = "opening"
                       /\ held' = held /\ (u # o => acquiring'[u] = acquiring[u])
    BY <1>7 DEF AcceptObserve, Accept, daemonVars
  <2>4. AsksOnce(v)'
    BY <2>2, <2>3, AsksStay
  <2>5. call[o] # "none"
    BY <1>1, <1>3, <2>1, HeadAndTail DEF AsksOnce
  <2> QED
    BY <2>1, <2>3, <2>4, <2>5 DEF AskedOnce, AsksOnce
<1>8. ASSUME NEW o \in Obs, \/ Release(o) \/ Resume(o) \/ ResumeRejected(o) \/ HearReply(o) \/ HearFrame(o)
                            \/ AcceptRelease(o) \/ InstallAcquired(o) \/ Acquire(o) \/ Refuse(o)
                            \/ Patch(o) \/ SessionEnds(o)
      PROVE  AskedOnce'
  <2>1. \A u \in Obs : (call[u] # "none" => call'[u] # "none") /\ (svc[u] = "none" => svc'[u] = "none")
    BY <1>8 DEF Release, Resume, ResumeRejected, HearReply, HearFrame, AcceptRelease, InstallAcquired, Acquire, Refuse, Patch,
       SessionEnds, Accept, daemonVars, workerVars, LinkTypes
  <2>2. \A u \in Obs : call'[u] = "none" => call[u] = "none" /\ (u \in held' => u \in held)
    BY <1>8 DEF Release, Resume, ResumeRejected, HearReply, HearFrame, AcceptRelease, InstallAcquired, Acquire, Refuse, Patch,
       SessionEnds, Accept, daemonVars, workerVars, LinkTypes
  <2>3. \A u \in Obs : svc'[u] = "refused" => acquiring'[u] = "none"
    BY <1>8 DEF Release, Resume, ResumeRejected, HearReply, HearFrame, AcceptRelease, InstallAcquired, Acquire, Refuse, Patch,
       SessionEnds, Accept, daemonVars, workerVars, AskedOnce
  <2>4. \/ toWorker' = w \/ (w # <<>> /\ toWorker' = Tail(w))
        \/ \E m \in ToWorker : m.kind # "observe" /\ toWorker' = Append(w, m)
    BY <1>3, <1>5, <1>8 DEF Release, Resume, ResumeRejected, HearReply, HearFrame, AcceptRelease, InstallAcquired, Acquire, Refuse, Patch,
       SessionEnds, Accept, DaemonSends, sockVars
  <2>5. AsksOnce(toWorker)'
    <3>1. AsksOnce(w2)'
      BY <1>0, <1>4, <2>1, <2>4
    <3> QED
      BY <1>0, <3>1 DEF AsksOnce
  <2> QED
    BY <2>1, <2>2, <2>3, <2>5 DEF AskedOnce
<1>9. CASE HearUnavailable \/ HeartbeatTimeout \/ HearStopped \/ HearBye \/ Stopped \/ DaemonClosed \/ Drop \/ Stop
           \/ UNCHANGED vars
  <2>1. \A u \in Obs : (call'[u] = "none" <=> call[u] = "none") /\ svc'[u] = svc[u] /\ acquiring'[u] = acquiring[u]
                       /\ (u \in held' => u \in held)
    BY <1>9 DEF HearUnavailable, HeartbeatTimeout, HearStopped, HearBye, Stopped, DaemonClosed, Drop, Stop, vars,
       Terminate, RejectPending, daemonVars, workerVars, LinkTypes
  <2>2. \/ toWorker' = w \/ toWorker' = <<>>
        \/ \E m \in ToWorker : m.kind # "observe" /\ toWorker' = Append(w, m)
    BY <1>3, <1>5, <1>9 DEF HearUnavailable, HeartbeatTimeout, HearStopped, HearBye, Stopped, DaemonClosed, Drop, Stop, vars,
       Terminate, Lost, DaemonSends, sockVars, Signal
  <2>3. AsksOnce(toWorker)'
    <3>1. AsksOnce(w2)'
      BY <1>0, <1>2, <1>4, <2>1, <2>2
    <3> QED
      BY <1>0, <3>1 DEF AsksOnce
  <2> QED
    BY <2>1, <2>3 DEF AskedOnce
<1>10. CASE Ignore \/ AcceptShutdown \/ DisposeService \/ ReplyShutdown \/ HearDaemonBye \/ WorkerClosed
           \/ ReportUnavailable \/ WorkerHeartbeatTimeout
  <2>1. \A u \in Obs : /\ (svc[u] = "none" => svc'[u] = "none")
                       /\ (svc'[u] = "refused" => svc[u] = "refused")
                       /\ (acquiring[u] = "none" => acquiring'[u] = "none")
    BY <1>10 DEF Ignore, AcceptShutdown, DisposeService, ReplyShutdown, HearDaemonBye, WorkerClosed, ReportUnavailable,
       WorkerHeartbeatTimeout, EndConnection, workerVars
  <2>2. call' = call /\ held' = held
    BY <1>10 DEF Ignore, AcceptShutdown, DisposeService, ReplyShutdown, HearDaemonBye, WorkerClosed, ReportUnavailable,
       WorkerHeartbeatTimeout, Accept, daemonVars
  <2>3. toWorker' = w \/ toWorker' = <<>> \/ (w # <<>> /\ toWorker' = Tail(w))
    BY <1>3, <1>10 DEF Ignore, AcceptShutdown, DisposeService, ReplyShutdown, HearDaemonBye, WorkerClosed, ReportUnavailable,
       WorkerHeartbeatTimeout, Accept, Lost, sockVars
  <2>4. AsksOnce(toWorker)'
    <3>1. AsksOnce(w2)'
      BY <1>0, <1>2, <1>4, <2>1, <2>2, <2>3
    <3> QED
      BY <1>0, <3>1 DEF AsksOnce
  <2> QED
    BY <2>1, <2>2, <2>4 DEF AskedOnce
<1> QED
  BY <1>6, <1>7, <1>8, <1>9, <1>10 DEF Next, DaemonStep, WorkerStep

-----------------------------------------------------------------------------
(* The streams *)

\* The message is a frame of the observation, or the reply that it is open.
Carries(m, o) == m.kind = "frame" /\ m.obs = o
Speaks(m, o) == Carries(m, o) \/ m = Msg("ok", o)

Unborn == {"none", "opening", "refused"}

\* An observation the service did not open has no frame anywhere.
Unspoken ==
  \A o \in Obs : svc[o] \in Unborn => emitted[o] = <<>> /\ (up => got[o] = <<>>)

\* A message under way is of an open observation and in the order of its stream.
InOrder(w, i, o) ==
  /\ Speaks(w[i], o) => svc[o] \notin Unborn
  /\ Carries(w[i], o) =>
       /\ w[i].frame = Closed => svc[o] = "ended"
       /\ w[i].frame # Closed => /\ w[i].frame.n + 1 \in DOMAIN emitted[o]
                                 /\ emitted[o][w[i].frame.n + 1] = w[i].frame
       /\ \A j \in 1..Len(w) : i < j /\ Carries(w[j], o) =>
            /\ w[i].frame # Closed
            /\ w[j].frame # Closed => w[i].frame.n < w[j].frame.n

FramesInOrder(w) == \A o \in Obs, i \in 1..Len(w) : InOrder(w, i, o)

\* Frame number n of an observation is the next one for its sink, or follows
\* one that is among the first k messages.
Follows(w, o, n, k) ==
  /\ Len(got[o]) <= n
  /\ \/ n = Len(got[o])
     \/ \E i \in 1..k : Carries(w[i], o) /\ w[i].frame # Closed /\ w[i].frame.n + 1 = n

\* The initial sync was delivered, or is among the first k messages.
HasSync(o) == got[o] # <<>> /\ got[o][1] = Sync
SyncBefore(w, o, k) == HasSync(o) \/ \E i \in 1..k : Carries(w[i], o) /\ w[i].frame = Sync

\* What the sink has is what was emitted.
Delivered(o) ==
  \A i \in DOMAIN got[o] : got[o][i] # Closed => i \in DOMAIN emitted[o] /\ emitted[o][i] = got[o][i]

\* Nothing is missing between what the sink has and what is under way.
NoGap(w, o) ==
  o \in held =>
    /\ \A i \in 1..Len(w) : Carries(w[i], o) /\ w[i].frame # Closed => Follows(w, o, w[i].frame.n, i - 1)
    /\ svc[o] = "live" /\ up /\ ~closed => Follows(w, o, Len(emitted[o]), Len(w))

\* A sink that left the map before its request resumed gets no further frame.
LeftIsOver(w, o) ==
  call[o] \in {"pending", "replied"} /\ o \notin held /\ up =>
    svc[o] = "ended" /\ \A i \in 1..Len(w) : ~Carries(w[i], o)

\* The initial sync is ahead of the reply.
Baseline(w, o) ==
  /\ call[o] = "pending" =>
       /\ svc[o] \in {"live", "ended", "released"} /\ up /\ ~closed => SyncBefore(w, o, Len(w))
       /\ \A i \in 1..Len(w) : w[i] = Msg("ok", o) => SyncBefore(w, o, i - 1)
  /\ call[o] \in {"replied", "open"} => HasSync(o)

StreamOf(w, o) == Delivered(o) /\ NoGap(w, o) /\ LeftIsOver(w, o) /\ Baseline(w, o)

Streams == stopping = "no" => \A o \in Obs : StreamOf(toDaemon, o)

StreamInv == /\ LinkInv /\ LinkTypes /\ LostIsEmpty /\ ShutdownInv /\ AskedOnce
             /\ Unspoken /\ FramesInOrder(toDaemon) /\ Streams

\* The order outlives the message at the front,
LEMMA OrderTail ==
  ASSUME NEW w \in Seq(ToDaemon), w # <<>>, FramesInOrder(w)
  PROVE  FramesInOrder(Tail(w))
<1>1. PICK L \in Nat : /\ Len(w) = L + 1 /\ Len(Tail(w)) = L
                       /\ \A i \in 1..L : Tail(w)[i] = w[i + 1] /\ i + 1 \in 1..Len(w)
  BY RestOf
<1>2. PICK v : v = Tail(w) /\ Len(v) = L /\ \A i \in 1..L : v[i] = w[i + 1]
  BY <1>1
<1>3. FramesInOrder(v)
  <2> SUFFICES ASSUME NEW o \in Obs, NEW i \in 1..L PROVE InOrder(v, i, o)
    BY <1>2 DEF FramesInOrder
  <2>1. PICK k \in 1..Len(w) : k = i + 1 /\ v[i] = w[k]
    BY <1>1, <1>2
  <2>2. \A j \in 1..L : i < j => j + 1 \in 1..Len(w) /\ v[j] = w[j + 1] /\ k < j + 1
    BY <1>1, <1>2, <2>1
  <2>3. InOrder(w, k, o)
    BY DEF FramesInOrder
  <2> QED
    BY <1>2, <2>1, <2>2, <2>3 DEF InOrder
<1> QED
  BY <1>2, <1>3

\* a step that takes nothing back,
Grown ==
  \A o \in Obs : /\ svc[o] \notin Unborn => svc'[o] \notin Unborn
                 /\ svc[o] = "ended" => svc'[o] = "ended"
                 /\ \A k \in DOMAIN emitted[o] : k \in DOMAIN emitted'[o] /\ emitted'[o][k] = emitted[o][k]

LEMMA OrderStays ==
  ASSUME NEW w, FramesInOrder(w), Grown
  PROVE  FramesInOrder(w)'
<1> SUFFICES ASSUME NEW o \in Obs, NEW i \in 1..Len(w) PROVE InOrder(w, i, o)'
  BY DEF FramesInOrder
<1>1. InOrder(w, i, o)
  BY DEF FramesInOrder
<1> QED
  BY <1>1 DEF InOrder, Grown, Speaks, Carries, Msg, Unborn

\* and a message that continues it.
LEMMA OrderAppended ==
  ASSUME NEW w \in Seq(ToDaemon), FramesInOrder(w)', NEW m \in ToDaemon,
         \A o \in Obs :
           /\ Speaks(m, o) => svc'[o] \notin Unborn
           /\ Carries(m, o) =>
                /\ m.frame = Closed => svc'[o] = "ended"
                /\ m.frame # Closed => /\ m.frame.n + 1 \in DOMAIN emitted'[o]
                                       /\ emitted'[o][m.frame.n + 1] = m.frame
                /\ \A i \in 1..Len(w) : Carries(w[i], o) =>
                     /\ w[i].frame # Closed
                     /\ m.frame # Closed => w[i].frame.n < m.frame.n
  PROVE  FramesInOrder(Append(w, m))'
<1>0. PICK v : v = Append(w, m)
  OBVIOUS
<1>1. PICK L \in Nat : /\ v = Append(w, m) /\ Len(v) = L + 1 /\ L = Len(w) /\ v[L + 1] = m
                       /\ \A i \in 1..L : v[i] = w[i]
  BY <1>0, Appended
<1>2. FramesInOrder(v)'
  <2> SUFFICES ASSUME NEW o \in Obs, NEW i \in 1..(L + 1) PROVE InOrder(v, i, o)'
    BY <1>1 DEF FramesInOrder
  <2>1. CASE i = L + 1
    <3>1. \A j \in 1..(L + 1) : ~(i < j)
      BY <2>1
    <3>2. v[i] = m
      BY <1>1, <2>1
    <3> QED
      BY <1>1, <3>1, <3>2 DEF InOrder, Speaks, Carries, Msg, Unborn
  <2>2. CASE i \in 1..L
    <3>1. InOrder(w, i, o)'
      BY <1>1, <2>2 DEF FramesInOrder
    <3>2. Carries(m, o) /\ Carries(w[i], o) =>
            w[i].frame # Closed /\ (m.frame # Closed => w[i].frame.n < m.frame.n)
      BY <1>1, <2>2
    <3>3. v[i] = w[i]
      BY <1>1, <2>2
    <3>4. \A j \in 1..(L + 1) : (j \in 1..L /\ v[j] = w[j]) \/ v[j] = m
      BY <1>1
    <3> QED
      BY <1>1, <3>1, <3>2, <3>3, <3>4 DEF InOrder, Speaks, Carries, Msg, Unborn
  <2> QED
    BY <2>1, <2>2
<1> QED
  BY <1>1, <1>2

\* A stream outlives a message of another at the front,
LEMMA StreamTail ==
  ASSUME NEW w \in Seq(ToDaemon), w # <<>>, NEW o \in Obs, ~Carries(Head(w), o), StreamOf(w, o)
  PROVE  StreamOf(Tail(w), o)
<1>1. PICK L \in Nat : /\ Len(w) = L + 1 /\ Len(Tail(w)) = L
                       /\ \A i \in 1..L : Tail(w)[i] = w[i + 1] /\ i + 1 \in 1..Len(w)
  BY RestOf
<1>2. PICK v : v = Tail(w) /\ Len(v) = L /\ \A i \in 1..L : v[i] = w[i + 1]
  BY <1>1
<1>3. ~Carries(w[1], o)
  BY HeadAndTail
<1>4. ASSUME NEW k \in 0..L, NEW i \in 1..(k + 1), Carries(w[i], o)
      PROVE  \E j \in 1..k : v[j] = w[i]
  <2>1. i # 1
    BY <1>3, <1>4
  <2>2. i - 1 \in 1..k /\ (i - 1) + 1 = i /\ i - 1 \in 1..L
    BY <2>1
  <2>3. v[i - 1] = w[i]
    BY <1>2, <2>2
  <2> QED
    BY <2>2, <2>3
<1>5. ASSUME NEW k \in 0..L, NEW n, Follows(w, o, n, k + 1) PROVE Follows(v, o, n, k)
  <2>1. CASE n = Len(got[o])
    BY <1>5, <2>1 DEF Follows
  <2>2. CASE n # Len(got[o])
    <3>1. PICK i \in 1..(k + 1) : Carries(w[i], o) /\ w[i].frame # Closed /\ w[i].frame.n + 1 = n
      BY <1>5, <2>2 DEF Follows
    <3>2. PICK j \in 1..k : v[j] = w[i]
      BY <1>4, <3>1
    <3>3. \E l \in 1..k : Carries(v[l], o) /\ v[l].frame # Closed /\ v[l].frame.n + 1 = n
      BY <3>1, <3>2
    <3> QED
      BY <1>5, <3>3 DEF Follows
  <2> QED
    BY <2>1, <2>2
<1>6. ASSUME NEW k \in 0..L, SyncBefore(w, o, k + 1) PROVE SyncBefore(v, o, k)
  <2>1. CASE HasSync(o)
    BY <2>1 DEF SyncBefore
  <2>2. CASE ~HasSync(o)
    <3>1. PICK i \in 1..(k + 1) : Carries(w[i], o) /\ w[i].frame = Sync
      BY <1>6, <2>2 DEF SyncBefore
    <3>2. PICK j \in 1..k : v[j] = w[i]
      BY <1>4, <3>1
    <3>3. \E l \in 1..k : Carries(v[l], o) /\ v[l].frame = Sync
      BY <3>1, <3>2
    <3> QED
      BY <3>3 DEF SyncBefore
  <2> QED
    BY <2>1, <2>2
<1>7. \A i \in 1..L : i - 1 \in 0..L /\ (i - 1) + 1 = i /\ (i + 1) - 1 = i /\ v[i] = w[i + 1] /\ i + 1 \in 1..Len(w)
  BY <1>1, <1>2
<1>8. NoGap(v, o)
  <2>1. ASSUME o \in held, NEW i \in 1..L, Carries(v[i], o), v[i].frame # Closed
        PROVE  Follows(v, o, v[i].frame.n, i - 1)
    <3>1. Follows(w, o, w[i + 1].frame.n, (i + 1) - 1)
      BY <1>7, <2>1 DEF StreamOf, NoGap
    <3>2. Follows(w, o, v[i].frame.n, (i - 1) + 1)
      BY <1>7, <3>1
    <3> QED
      BY <1>5, <1>7, <3>2
  <2>2. ASSUME o \in held, svc[o] = "live", up, ~closed PROVE Follows(v, o, Len(emitted[o]), L)
    <3>1. Follows(w, o, Len(emitted[o]), L + 1)
      BY <1>1, <2>2 DEF StreamOf, NoGap
    <3>2. L \in 0..L
      OBVIOUS
    <3> QED
      BY <1>5, <3>1, <3>2
  <2> QED
    BY <1>2, <2>1, <2>2 DEF NoGap
<1>9. LeftIsOver(v, o)
  BY <1>2, <1>7 DEF StreamOf, LeftIsOver
<1>10. Baseline(v, o)
  <2>1. ASSUME call[o] = "pending", NEW i \in 1..L, v[i] = Msg("ok", o) PROVE SyncBefore(v, o, i - 1)
    <3>1. SyncBefore(w, o, (i + 1) - 1)
      BY <1>7, <2>1 DEF StreamOf, Baseline
    <3>2. SyncBefore(w, o, (i - 1) + 1)
      BY <1>7, <3>1
    <3> QED
      BY <1>6, <1>7, <3>2
  <2>2. ASSUME call[o] = "pending", svc[o] \in {"live", "ended", "released"}, up, ~closed
        PROVE  SyncBefore(v, o, L)
    <3>1. SyncBefore(w, o, L + 1)
      BY <1>1, <2>2 DEF StreamOf, Baseline
    <3>2. L \in 0..L
      OBVIOUS
    <3> QED
      BY <1>6, <3>1, <3>2
  <2>3. call[o] \in {"replied", "open"} => HasSync(o)
    BY DEF StreamOf, Baseline
  <2> QED
    BY <1>2, <2>1, <2>2, <2>3 DEF Baseline
<1>11. StreamOf(v, o)
  BY <1>8, <1>9, <1>10 DEF StreamOf
<1> QED
  BY <1>2, <1>11

\* one at the back,
LEMMA StreamAppended ==
  ASSUME NEW w \in Seq(ToDaemon), NEW o \in Obs, StreamOf(w, o)', NEW m \in ToDaemon, ~Carries(m, o),
         m = Msg("ok", o) /\ call'[o] = "pending" => SyncBefore(w, o, Len(w))'
  PROVE  StreamOf(Append(w, m), o)'
<1>0. PICK v : v = Append(w, m)
  OBVIOUS
<1>1. PICK L \in Nat : /\ v = Append(w, m) /\ Len(v) = L + 1 /\ L = Len(w) /\ v[L + 1] = m
                       /\ \A i \in 1..L : v[i] = w[i]
  BY <1>0, Appended
<1>2. \A k \in 0..L : \A n : Follows(w, o, n, k)' => Follows(v, o, n, k)' /\ (k = L => Follows(v, o, n, L + 1)')
  BY <1>1 DEF Follows, Carries
<1>3. \A k \in 0..L : SyncBefore(w, o, k)' => SyncBefore(v, o, k)' /\ (k = L => SyncBefore(v, o, L + 1)')
  BY <1>1 DEF SyncBefore, HasSync, Carries
<1>4. \A i \in 1..L : i - 1 \in 0..L /\ v[i] = w[i]
  BY <1>1
<1>5. NoGap(v, o)'
  <2>1. ASSUME o \in held', NEW i \in 1..(L + 1), Carries(v[i], o), v[i].frame # Closed
        PROVE  Follows(v, o, v[i].frame.n, i - 1)'
    <3>1. i \in 1..L
      BY <1>1, <2>1
    <3>2. Follows(w, o, w[i].frame.n, i - 1)'
      BY <1>1, <1>4, <2>1, <3>1 DEF StreamOf, NoGap, Carries
    <3> QED
      BY <1>2, <1>4, <3>1, <3>2
  <2>2. ASSUME o \in held', svc'[o] = "live", up', ~closed' PROVE Follows(v, o, Len(emitted[o]), L + 1)'
    <3>1. Follows(w, o, Len(emitted[o]), L)'
      BY <1>1, <2>2 DEF StreamOf, NoGap
    <3>2. L \in 0..L
      OBVIOUS
    <3> QED
      BY <1>1, <3>1, <3>2 DEF Follows, Carries
  <2> QED
    BY <1>1, <2>1, <2>2 DEF NoGap, Carries
<1>6. LeftIsOver(v, o)'
  <2>1. ASSUME call'[o] \in {"pending", "replied"}, o \notin held', up'
        PROVE  svc'[o] = "ended" /\ \A i \in 1..(L + 1) : ~Carries(v[i], o)
    <3>1. svc'[o] = "ended" /\ \A i \in 1..L : ~Carries(w[i], o)
      BY <1>1, <2>1 DEF StreamOf, LeftIsOver, Carries
    <3> QED
      BY <1>1, <3>1
  <2> QED
    BY <1>1, <2>1 DEF LeftIsOver, Carries
<1>7. Baseline(v, o)'
  <2>1. ASSUME call'[o] = "pending", NEW i \in 1..(L + 1), v[i] = Msg("ok", o) PROVE SyncBefore(v, o, i - 1)'
    <3>1. CASE i \in 1..L
      <4>1. SyncBefore(w, o, i - 1)'
        BY <1>1, <1>4, <2>1, <3>1 DEF StreamOf, Baseline, Msg
      <4> QED
        BY <1>3, <1>4, <3>1, <4>1
    <3>2. CASE i = L + 1
      <4>1. SyncBefore(w, o, L)' /\ i - 1 = L /\ L \in 0..L
        BY <1>1, <2>1, <3>2
      <4> QED
        BY <1>3, <4>1
    <3> QED
      BY <3>1, <3>2
  <2>2. ASSUME call'[o] = "pending", svc'[o] \in {"live", "ended", "released"}, up', ~closed'
        PROVE  SyncBefore(v, o, L + 1)'
    <3>1. SyncBefore(w, o, L)' /\ L \in 0..L
      BY <1>1, <2>2 DEF StreamOf, Baseline
    <3> QED
      BY <1>3, <3>1
  <2>3. call'[o] \in {"replied", "open"} => HasSync(o)'
    BY DEF StreamOf, Baseline
  <2> QED
    BY <1>1, <2>1, <2>2, <2>3 DEF Baseline, Msg
<1>8. StreamOf(v, o)'
  BY <1>5, <1>6, <1>7 DEF StreamOf
<1> QED
  BY <1>1, <1>8

\* a step that neither emits nor delivers,
Calm(w, o) ==
  /\ got'[o] = got[o] /\ emitted'[o] = emitted[o]
  /\ (up' => up) /\ (closed => closed')
  /\ svc'[o] \in {"live", "ended", "released"} => svc[o] \in {"live", "ended", "released"}
  /\ svc'[o] = "live" => svc[o] = "live"
  /\ svc[o] = "ended" => svc'[o] = "ended"
  /\ o \in held' /\ o \notin held => (svc'[o] # "live" \/ ~up') /\ \A i \in 1..Len(w) : ~Carries(w[i], o)
  /\ call'[o] \in {"pending", "replied"} /\ o \notin held' /\ up'
       => call[o] \in {"pending", "replied"} /\ o \notin held
  /\ call'[o] = "pending" /\ call[o] # "pending" =>
       svc'[o] = "none" /\ \A i \in 1..Len(w) : w[i] # Msg("ok", o)
  /\ call'[o] \in {"replied", "open"} => call[o] \in {"replied", "open"} \/ HasSync(o)

LEMMA StreamStays ==
  ASSUME NEW w \in Seq(ToDaemon), NEW o \in Obs, StreamOf(w, o), Calm(w, o)
  PROVE  StreamOf(w, o)'
<1>1. \A n, k : Follows(w, o, n, k)' <=> Follows(w, o, n, k)
  BY DEF Follows, Calm, Carries
<1>2. HasSync(o)' <=> HasSync(o)
  BY DEF HasSync, Calm
<1>3. \A k : SyncBefore(w, o, k)' <=> SyncBefore(w, o, k)
  BY <1>2 DEF SyncBefore, Carries
<1>4. Delivered(o)'
  BY DEF StreamOf, Delivered, Calm
<1>5. NoGap(w, o)'
  <2>1. CASE o \in held
    <3>1. /\ \A i \in 1..Len(w) : Carries(w[i], o) /\ w[i].frame # Closed => Follows(w, o, w[i].frame.n, i - 1)'
          /\ svc'[o] = "live" /\ up' /\ ~closed' => Follows(w, o, Len(emitted[o]), Len(w))
      BY <1>1, <2>1 DEF StreamOf, NoGap, Calm
    <3>2. Follows(w, o, Len(emitted[o]), Len(w)) => Follows(w, o, Len(emitted[o]), Len(w))'
      BY DEF Follows, Calm, Carries
    <3> QED
      BY <3>1, <3>2 DEF NoGap, Carries
  <2>2. CASE o \notin held
    BY <2>2 DEF NoGap, Calm, Carries
  <2> QED
    BY <2>1, <2>2
<1>6. LeftIsOver(w, o)'
  BY DEF StreamOf, LeftIsOver, Calm, Carries
<1>7. Baseline(w, o)'
  <2>1. CASE call'[o] = "pending" /\ call[o] = "pending"
    BY <1>3, <2>1 DEF StreamOf, Baseline, Calm, Msg
  <2>2. CASE call'[o] = "pending" /\ call[o] # "pending"
    BY <2>2 DEF Baseline, Calm, Msg
  <2>3. CASE call'[o] # "pending"
    BY <1>2, <2>3 DEF StreamOf, Baseline, Calm
  <2> QED
    BY <2>1, <2>2, <2>3
<1> QED
  BY <1>4, <1>5, <1>6, <1>7 DEF StreamOf

\* the loss of the socket, with or without a terminal frame for the sink,
LEMMA StreamLost ==
  ASSUME LinkTypes, NEW w \in Seq(ToDaemon), NEW o \in Obs, StreamOf(w, o), ~up', emitted'[o] = emitted[o],
         got'[o] = got[o] \/ got'[o] = Append(got[o], Closed),
         call'[o] \in {"replied", "open"} => call[o] \in {"replied", "open"},
         call'[o] = "pending" => call[o] = "pending"
  PROVE  StreamOf(<<>>, o)'
<1>0. PICK g \in Seq(Frame) : g = got[o]
  BY DEF LinkTypes
<1>1. PICK g2 : g = got[o] /\ g2 = got'[o]
  BY <1>0
<1>2. Delivered(o)'
  <2>1. ASSUME NEW i \in DOMAIN g2, g2[i] # Closed PROVE i \in DOMAIN g /\ g2[i] = g[i]
    <3>1. CASE g2 = g
      BY <2>1, <3>1
    <3>2. CASE g2 = Append(g, Closed)
      BY <2>1, <3>2, MessageTypes, Appended
    <3> QED
      BY <1>1, <3>1, <3>2
  <2> QED
    BY <1>1, <2>1 DEF StreamOf, Delivered
<1>3. HasSync(o) => HasSync(o)'
  <2>1. g # <<>> => g2 # <<>> /\ g2[1] = g[1]
    <3>1. CASE g2 = g
      BY <3>1
    <3>2. CASE g2 = Append(g, Closed)
      BY <3>2, MessageTypes
    <3> QED
      BY <1>1, <3>1, <3>2
  <2> QED
    BY <1>1, <2>1 DEF HasSync
<1>4. NoGap(<<>>, o)' /\ LeftIsOver(<<>>, o)'
  BY DEF NoGap, LeftIsOver
<1>5. Baseline(<<>>, o)'
  BY <1>3 DEF StreamOf, Baseline
<1> QED
  BY <1>2, <1>4, <1>5 DEF StreamOf

\* the delivery of its own next frame,
LEMMA StreamHeard ==
  ASSUME StreamInv, stopping = "no", NEW o \in Obs, HearFrame(o), NEW v, v = Tail(toDaemon)
  PROVE  StreamOf(v, o)'
<1> USE DEF StreamInv
<1>1. PICK w \in Seq(ToDaemon) : w = toDaemon /\ w # <<>>
  BY DEF LinkTypes, HearFrame
<1>2. PICK L \in Nat : /\ Len(w) = L + 1 /\ Len(Tail(w)) = L
                       /\ \A i \in 1..L : Tail(w)[i] = w[i + 1] /\ i + 1 \in 1..Len(w)
  BY <1>1, RestOf
<1>3. Len(v) = L /\ \A i \in 1..L : v[i] = w[i + 1]
  BY <1>1, <1>2
<1>4. PICK f \in Frame : f = w[1].frame /\ Carries(w[1], o) /\ Head(w) = w[1]
  <2>1. Head(w) = w[1] /\ w[1] \in ToDaemon
    BY <1>1, HeadAndTail
  <2>2. Carries(w[1], o)
    BY <1>1, <2>1 DEF HearFrame, Carries
  <2> QED
    BY <2>1, <2>2, MessageTypes DEF Carries
<1>5. StreamOf(w, o) /\ FramesInOrder(w)
  BY <1>1 DEF Streams
<1>6. up
  BY <1>1 DEF LostIsEmpty
<1>g. PICK g \in Seq(Frame) : g = got[o]
  BY DEF LinkTypes
<1>7. PICK g2, e : g = got[o] /\ g2 = got'[o] /\ e = emitted[o] /\ e \in Seq(Frame)
  BY <1>g DEF LinkTypes
<1>8. UNCHANGED <<call, svc, emitted, closed, up>>
  BY DEF HearFrame, workerVars
<1>9. /\ g2 = IF o \in held THEN Append(g, f) ELSE g
      /\ o \in held' <=> o \in held /\ f # Closed
  BY <1>1, <1>4, <1>7 DEF HearFrame, LinkTypes
<1>10. InOrder(w, 1, o)
  BY <1>2, <1>5 DEF FramesInOrder
<1>11. PICK N \in Nat : N = Len(g) /\ (o \in held => Len(g2) = N + 1 /\ g2[N + 1] = f /\ \A i \in 1..N : g2[i] = g[i])
  BY <1>9, Appended
<1>12. HasSync(o) => HasSync(o)'
  <2>1. g # <<>> => g2 # <<>> /\ g2[1] = g[1]
    BY <1>9, <1>11
  <2> QED
    BY <1>7, <2>1 DEF HasSync
<1>13. \A k \in 1..L : Carries(v[k], o) => f # Closed /\ (v[k].frame # Closed => f.n < v[k].frame.n)
  <2>1. \A k \in 1..L : 1 < k + 1 /\ k + 1 \in 1..Len(w) /\ v[k] = w[k + 1]
    BY <1>2, <1>3
  <2> QED
    BY <1>4, <1>10, <2>1 DEF InOrder
<1>14. CASE o \notin held
  <2>1. call[o] \notin {"pending", "replied"}
    BY <1>2, <1>4, <1>5, <1>6, <1>14 DEF StreamOf, LeftIsOver
  <2>2. Delivered(o)'
    BY <1>5, <1>7, <1>8, <1>9, <1>14 DEF StreamOf, Delivered
  <2>3. NoGap(v, o)' /\ LeftIsOver(v, o)'
    BY <1>8, <1>9, <1>14, <2>1 DEF NoGap, LeftIsOver
  <2>4. Baseline(v, o)'
    BY <1>5, <1>8, <1>12, <2>1 DEF StreamOf, Baseline
  <2> QED
    BY <2>2, <2>3, <2>4 DEF StreamOf
<1>15. CASE o \in held /\ f = Closed
  <2>1. svc[o] = "ended" /\ \A k \in 1..L : ~Carries(v[k], o)
    BY <1>4, <1>10, <1>13, <1>15 DEF InOrder
  <2>2. Delivered(o)'
    BY <1>5, <1>7, <1>8, <1>11, <1>15 DEF StreamOf, Delivered
  <2>3. NoGap(v, o)' /\ LeftIsOver(v, o)'
    BY <1>3, <1>8, <1>9, <1>15, <2>1 DEF NoGap, LeftIsOver, Carries
  <2>4. \A k \in 0..L : SyncBefore(w, o, k + 1) => HasSync(o)
    <3> SUFFICES ASSUME NEW k \in 0..L, SyncBefore(w, o, k + 1), ~HasSync(o) PROVE FALSE
      OBVIOUS
    <3>1. PICK i \in 1..(k + 1) : Carries(w[i], o) /\ w[i].frame = Sync
      BY DEF SyncBefore
    <3>2. i # 1
      BY <1>4, <1>15, <3>1, MessageTypes
    <3>3. i - 1 \in 1..L /\ (i - 1) + 1 = i
      BY <3>2
    <3>4. v[i - 1] = w[i]
      BY <1>3, <3>3
    <3> QED
      BY <2>1, <3>1, <3>3, <3>4
  <2>5. call[o] = "pending" /\ svc[o] \in {"live", "ended", "released"} /\ up /\ ~closed => HasSync(o)
    <3>1. L \in 0..L
      OBVIOUS
    <3> QED
      BY <1>2, <1>5, <2>4, <3>1 DEF StreamOf, Baseline
  <2>6. call[o] = "pending" => \A i \in 1..L : v[i] = Msg("ok", o) => HasSync(o)
    <3> SUFFICES ASSUME call[o] = "pending", NEW i \in 1..L, v[i] = Msg("ok", o) PROVE HasSync(o)
      OBVIOUS
    <3>1. i + 1 \in 1..Len(w) /\ w[i + 1] = Msg("ok", o) /\ (i + 1) - 1 = (i - 1) + 1 /\ i - 1 \in 0..L
      BY <1>2, <1>3
    <3>2. SyncBefore(w, o, (i + 1) - 1)
      BY <1>5, <3>1 DEF StreamOf, Baseline
    <3> QED
      BY <2>4, <3>1, <3>2
  <2>7. Baseline(v, o)'
    BY <1>3, <1>5, <1>8, <1>12, <2>5, <2>6 DEF StreamOf, Baseline, SyncBefore, Msg
  <2> QED
    BY <2>2, <2>3, <2>7 DEF StreamOf
<1>16. CASE o \in held /\ f # Closed
  <2>1. f.n = N
    <3>1. Follows(w, o, f.n, 1 - 1)
      BY <1>2, <1>4, <1>5, <1>16 DEF StreamOf, NoGap
    <3>2. 1..(1 - 1) = {}
      OBVIOUS
    <3> QED
      BY <1>7, <1>11, <3>1, <3>2 DEF Follows
  <2>2. N + 1 \in DOMAIN e /\ e[N + 1] = f
    BY <1>4, <1>7, <1>10, <1>16, <2>1 DEF InOrder
  <2>3. Delivered(o)'
    <3>1. \A i \in 1..N : g[i] # Closed => i \in DOMAIN e /\ e[i] = g[i]
      BY <1>5, <1>7, <1>11 DEF StreamOf, Delivered
    <3>2. DOMAIN g2 = 1..(N + 1)
      BY <1>9, <1>11, <1>16
    <3>3. \A i \in 1..(N + 1) : g2[i] # Closed => i \in DOMAIN e /\ e[i] = g2[i]
      BY <1>11, <1>16, <2>2, <3>1
    <3> QED
      BY <1>7, <1>8, <3>2, <3>3 DEF Delivered
  <2>4. ASSUME NEW k \in 0..L, NEW n \in Nat, n > N, Follows(w, o, n, k + 1)
        PROVE  Follows(v, o, n, k)'
    <3>1. PICK i \in 1..(k + 1) : Carries(w[i], o) /\ w[i].frame # Closed /\ w[i].frame.n + 1 = n
      BY <1>7, <1>11, <2>4 DEF Follows
    <3>2. CASE i = 1
      <4>1. n = N + 1
        BY <1>4, <2>1, <3>1, <3>2
      <4> QED
        BY <1>7, <1>11, <1>16, <4>1 DEF Follows
    <3>3. CASE i # 1
      <4>1. i - 1 \in 1..k /\ i - 1 \in 1..L /\ (i - 1) + 1 = i
        BY <3>3
      <4>2. v[i - 1] = w[i]
        BY <1>3, <4>1
      <4>3. Len(got'[o]) = N + 1 /\ N + 1 <= n
        BY <1>7, <1>11, <1>16, <2>4
      <4>4. \E j \in 1..k : Carries(v[j], o) /\ v[j].frame # Closed /\ v[j].frame.n + 1 = n
        BY <3>1, <4>1, <4>2
      <4> QED
        BY <4>3, <4>4 DEF Follows, Carries
    <3> QED
      BY <3>2, <3>3
  <2>5. NoGap(v, o)'
    <3>1. ASSUME NEW i \in 1..L, Carries(v[i], o), v[i].frame # Closed
          PROVE  Follows(v, o, v[i].frame.n, i - 1)'
      <4>1. i + 1 \in 1..Len(w) /\ v[i] = w[i + 1] /\ (i + 1) - 1 = (i - 1) + 1 /\ i - 1 \in 0..L
        BY <1>2, <1>3
      <4>2. Follows(w, o, w[i + 1].frame.n, (i + 1) - 1)
        BY <1>5, <1>16, <3>1, <4>1 DEF StreamOf, NoGap
      <4>3. PICK n \in Nat : n = v[i].frame.n
        <5>1. v[i] \in ToDaemon /\ v[i].kind = "frame"
          <6>1. \A j \in 1..Len(w) : w[j] \in ToDaemon
            OBVIOUS
          <6> QED
            BY <3>1, <4>1, <6>1 DEF Carries
        <5> QED
          BY <5>1, MessageTypes
      <4>4. n > N
        BY <1>13, <2>1, <3>1, <4>3
      <4>5. Follows(w, o, n, (i - 1) + 1)
        BY <4>1, <4>2, <4>3
      <4> QED
        BY <2>4, <4>1, <4>3, <4>4, <4>5
    <3>2. ASSUME svc'[o] = "live", ~closed' PROVE Follows(v, o, Len(emitted[o]), L)'
      <4>1. PICK n \in Nat : n = Len(e) /\ n > N
        BY <1>7, <2>2
      <4>2. Follows(w, o, n, L + 1)
        BY <1>2, <1>5, <1>6, <1>7, <1>8, <1>16, <3>2, <4>1 DEF StreamOf, NoGap
      <4>3. L \in 0..L
        OBVIOUS
      <4>4. Follows(v, o, n, L)'
        BY <2>4, <4>1, <4>2, <4>3
      <4> QED
        BY <1>7, <1>8, <4>1, <4>4 DEF Follows, Carries
    <3> QED
      BY <1>3, <3>1, <3>2 DEF NoGap, Carries
  <2>6. LeftIsOver(v, o)'
    BY <1>9, <1>16 DEF LeftIsOver
  <2>7. ASSUME NEW k \in 0..L, SyncBefore(w, o, k + 1) PROVE SyncBefore(v, o, k)'
    <3>1. CASE HasSync(o)
      BY <1>12, <3>1 DEF SyncBefore
    <3>2. CASE ~HasSync(o)
      <4>1. PICK i \in 1..(k + 1) : Carries(w[i], o) /\ w[i].frame = Sync
        BY <2>7, <3>2 DEF SyncBefore
      <4>2. CASE i = 1
        <5>1. f = Sync /\ N = 0
          BY <1>4, <2>1, <4>1, <4>2 DEF Sync
        <5>2. g2 # <<>> /\ g2[1] = Sync
          BY <1>9, <1>11, <1>16, <5>1
        <5> QED
          BY <1>7, <5>2 DEF SyncBefore, HasSync
      <4>3. CASE i # 1
        <5>1. i - 1 \in 1..k /\ i - 1 \in 1..L /\ (i - 1) + 1 = i
          BY <4>3
        <5>2. v[i - 1] = w[i]
          BY <1>3, <5>1
        <5>3. \E j \in 1..k : Carries(v[j], o) /\ v[j].frame = Sync
          BY <4>1, <5>1, <5>2
        <5> QED
          BY <5>3 DEF SyncBefore, Carries
      <4> QED
        BY <4>2, <4>3
    <3> QED
      BY <3>1, <3>2
  <2>8. Baseline(v, o)'
    <3>1. ASSUME call[o] = "pending", NEW i \in 1..L, v[i] = Msg("ok", o) PROVE SyncBefore(v, o, i - 1)'
      <4>1. i + 1 \in 1..Len(w) /\ w[i + 1] = Msg("ok", o) /\ (i + 1) - 1 = (i - 1) + 1 /\ i - 1 \in 0..L
        BY <1>2, <1>3, <3>1
      <4>2. SyncBefore(w, o, (i + 1) - 1)
        BY <1>5, <3>1, <4>1 DEF StreamOf, Baseline
      <4> QED
        BY <2>7, <4>1, <4>2
    <3>2. ASSUME call[o] = "pending", svc[o] \in {"live", "ended", "released"}, ~closed PROVE SyncBefore(v, o, L)'
      <4>1. SyncBefore(w, o, L + 1) /\ L \in 0..L
        BY <1>2, <1>5, <1>6, <3>2 DEF StreamOf, Baseline
      <4> QED
        BY <2>7, <4>1
    <3>3. call[o] \in {"replied", "open"} => HasSync(o)'
      BY <1>5, <1>12 DEF StreamOf, Baseline
    <3> QED
      BY <1>3, <1>8, <3>1, <3>2, <3>3 DEF Baseline, Msg
  <2> QED
    BY <2>3, <2>5, <2>6, <2>8 DEF StreamOf
<1> QED
  BY <1>14, <1>15, <1>16

\* and the emission of its next frame.
LEMMA StreamEmitted ==
  ASSUME StreamInv, stopping = "no", NEW o \in Obs, Acquire(o) \/ Patch(o) \/ SessionEnds(o), up, ~closed
  PROVE  \E f \in Frame : /\ toDaemon' = Append(toDaemon, FrameMsg(o, f))
                          /\ \A w : w = Append(toDaemon, FrameMsg(o, f)) => StreamOf(w, o)'
<1> USE DEF StreamInv
<1>1. PICK w \in Seq(ToDaemon) : w = toDaemon
  BY DEF LinkTypes
<1>2. PICK e \in Seq(Frame), N \in Nat : e = emitted[o] /\ N = Len(e)
  BY DEF LinkTypes
<1>3. PICK f \in Frame :
        f = IF SessionEnds(o) THEN Closed ELSE IF Acquire(o) THEN Sync ELSE [kind |-> "patch", n |-> N]
  BY MessageTypes
<1>4. PICK m \in ToDaemon : m = FrameMsg(o, f) /\ Carries(m, o) /\ m.frame = f
  BY MessageTypes DEF FrameMsg, Carries
<1>5. svc[o] \in {"opening", "live"} /\ (Acquire(o) <=> svc[o] = "opening")
  BY DEF Acquire, Patch, SessionEnds
<1>6. /\ toDaemon' = Append(w, m) /\ UNCHANGED <<got, held, call, up, closed>>
      /\ svc'[o] = IF SessionEnds(o) THEN "ended" ELSE "live"
      /\ emitted'[o] = IF Acquire(o) THEN <<Sync>> ELSE Append(e, f)
  <2>1. CASE Acquire(o)
    <3>1. ~SessionEnds(o)
      BY <2>1 DEF Acquire, SessionEnds
    <3> QED
      BY <1>1, <1>2, <1>3, <1>4, <2>1, <3>1 DEF Acquire, WorkerSends, daemonVars, LinkTypes, LinkInv, ServerTypes
  <2>2. CASE Patch(o) /\ ~SessionEnds(o)
    <3>1. ~Acquire(o)
      BY <2>2 DEF Acquire, Patch
    <3> QED
      BY <1>1, <1>2, <1>3, <1>4, <2>2, <3>1 DEF Patch, WorkerSends, daemonVars, LinkTypes
  <2>3. CASE SessionEnds(o)
    <3>1. ~Acquire(o)
      BY <2>3 DEF Acquire, SessionEnds
    <3> QED
      BY <1>1, <1>2, <1>3, <1>4, <2>3, <3>1 DEF SessionEnds, WorkerSends, daemonVars, LinkTypes, LinkInv, ServerTypes
  <2> QED
    BY <2>1, <2>2, <2>3
<1>7. PICK v : v = Append(w, m)
  OBVIOUS
<1>8. PICK L \in Nat : /\ v = Append(w, m) /\ Len(v) = L + 1 /\ L = Len(w) /\ v[L + 1] = m
                       /\ \A i \in 1..L : v[i] = w[i]
  BY <1>7, Appended
<1>9. StreamOf(w, o) /\ FramesInOrder(w)
  BY <1>1 DEF Streams
<1>10. Acquire(o) => /\ e = <<>> /\ got[o] = <<>> /\ N = 0 /\ f = Sync /\ f.n = 0
                     /\ \A i \in 1..L : ~Carries(w[i], o) /\ w[i] # Msg("ok", o)
  <2> SUFFICES ASSUME Acquire(o)
               PROVE  /\ e = <<>> /\ got[o] = <<>> /\ N = 0 /\ f = Sync /\ f.n = 0
                      /\ \A i \in 1..L : ~Carries(w[i], o) /\ w[i] # Msg("ok", o)
    OBVIOUS
  <2>1. svc[o] \in Unborn
    BY <1>5 DEF Unborn
  <2>2. e = <<>> /\ got[o] = <<>> /\ N = 0
    BY <1>2, <2>1 DEF Unspoken
  <2>3. ~SessionEnds(o)
    BY <1>5 DEF SessionEnds
  <2>4. \A i \in 1..L : ~Speaks(w[i], o)
    BY <1>8, <1>9, <2>1 DEF FramesInOrder, InOrder
  <2> QED
    BY <1>3, <2>2, <2>3, <2>4 DEF Speaks, Sync
<1>11. Delivered(o)'
  <2>1. PICK e2 : e2 = emitted'[o] /\ \A i \in DOMAIN e : i \in DOMAIN e2 /\ e2[i] = e[i]
    <3>1. CASE Acquire(o)
      BY <1>10, <3>1
    <3>2. CASE ~Acquire(o)
      <4>1. PICK e2 : e2 = Append(e, f) /\ e2 = emitted'[o]
        BY <1>6, <3>2
      <4>2. DOMAIN e = 1..N /\ Len(e2) = N + 1 /\ DOMAIN e2 = 1..(N + 1) /\ \A i \in 1..N : e2[i] = e[i]
        <5>0. /\ Append(e, f) \in Seq(Frame) /\ Len(Append(e, f)) = Len(e) + 1
              /\ \A i \in 1..Len(e) : Append(e, f)[i] = e[i]
          BY <1>2, <1>3, Appended
        <5>1. e2 \in Seq(Frame) /\ Len(e2) = Len(e) + 1 /\ \A i \in 1..Len(e) : e2[i] = e[i]
          BY <4>1, <5>0
        <5>2. DOMAIN e = 1..Len(e) /\ DOMAIN e2 = 1..Len(e2)
          BY <5>1
        <5> QED
          BY <1>2, <5>1, <5>2
      <4> QED
        BY <4>1, <4>2
    <3> QED
      BY <3>1, <3>2
  <2> QED
    BY <1>2, <1>6, <1>9, <2>1 DEF StreamOf, Delivered
<1>12. \A n, k : Follows(w, o, n, k) /\ k \in 0..L => Follows(v, o, n, k)' /\ Follows(v, o, n, k + 1)'
  BY <1>6, <1>8 DEF Follows, Carries
<1>13. NoGap(v, o)'
  <2>1. ASSUME o \in held, NEW i \in 1..L, Carries(v[i], o), v[i].frame # Closed
        PROVE  Follows(v, o, v[i].frame.n, i - 1)'
    <3>1. i - 1 \in 0..L /\ v[i] = w[i] /\ i \in 1..Len(w)
      BY <1>8
    <3>2. Follows(w, o, w[i].frame.n, i - 1)
      BY <1>9, <2>1, <3>1 DEF StreamOf, NoGap
    <3> QED
      BY <1>12, <3>1, <3>2
  <2>2. ASSUME o \in held, f # Closed
        PROVE  f.n \in Nat /\ Follows(w, o, f.n, L) /\ Len(got[o]) <= f.n /\ f.n + 1 = Len(emitted'[o])
    <3>1. CASE Acquire(o)
      <4>1. f.n = 0 /\ Len(got[o]) = 0 /\ Len(emitted'[o]) = 1
        BY <1>6, <1>10, <3>1
      <4> QED
        BY <4>1 DEF Follows
    <3>2. CASE ~Acquire(o)
      <4>1. f.n = N /\ Len(emitted'[o]) = N + 1
        BY <1>2, <1>3, <1>6, <2>2, <3>2
      <4>2. svc[o] = "live"
        BY <1>5, <3>2
      <4>3. Follows(w, o, N, L)
        BY <1>2, <1>8, <1>9, <2>2, <4>2 DEF StreamOf, NoGap
      <4> QED
        BY <4>1, <4>3 DEF Follows
    <3> QED
      BY <3>1, <3>2
  <2>3. ASSUME o \in held, f # Closed PROVE Follows(v, o, f.n, L)'
    <3>1. L \in 0..L
      OBVIOUS
    <3> QED
      BY <1>12, <2>2, <2>3, <3>1
  <2>4. ASSUME o \in held, f # Closed PROVE Follows(v, o, Len(emitted[o]), L + 1)'
    <3>1. L + 1 \in 1..(L + 1) /\ Carries(v[L + 1], o) /\ v[L + 1].frame # Closed
          /\ v[L + 1].frame.n + 1 = Len(emitted'[o])
      BY <1>4, <1>8, <2>2, <2>4
    <3>2. Len(got[o]) \in Nat
      BY DEF LinkTypes
    <3>3. Len(got'[o]) <= Len(emitted'[o])
      BY <1>6, <2>2, <2>4, <3>2
    <3> QED
      BY <3>1, <3>3 DEF Follows, Carries
  <2>5. svc'[o] = "live" => f # Closed
    BY <1>3, <1>6, MessageTypes DEF Closed
  <2>6. o \in held => \A i \in 1..(L + 1) : Carries(v[i], o) /\ v[i].frame # Closed => Follows(v, o, v[i].frame.n, i - 1)'
    <3> SUFFICES ASSUME o \in held, NEW i \in 1..(L + 1), Carries(v[i], o), v[i].frame # Closed
                 PROVE  Follows(v, o, v[i].frame.n, i - 1)'
      OBVIOUS
    <3>1. CASE i \in 1..L
      BY <2>1, <3>1
    <3>2. CASE i = L + 1
      <4>1. v[i].frame = f /\ i - 1 = L
        BY <1>4, <1>8, <3>2
      <4> QED
        BY <2>3, <4>1
    <3> QED
      BY <3>1, <3>2
  <2> QED
    BY <1>6, <1>8, <2>4, <2>5, <2>6 DEF NoGap, Carries
<1>14. LeftIsOver(v, o)'
  BY <1>5, <1>6, <1>9 DEF StreamOf, LeftIsOver
<1>15. \A k \in 0..L : SyncBefore(w, o, k) => SyncBefore(v, o, k)' /\ SyncBefore(v, o, k + 1)'
  BY <1>6, <1>8 DEF SyncBefore, HasSync, Carries
<1>16. Baseline(v, o)'
  <2>1. ASSUME call[o] = "pending", NEW i \in 1..(L + 1), v[i] = Msg("ok", o) PROVE SyncBefore(v, o, i - 1)'
    <3>1. i # L + 1
      <4>1. Msg("ok", o).kind # "frame"
        BY DEF Msg
      <4> QED
        BY <1>4, <1>8, <2>1, <4>1 DEF Carries
    <3>2. i \in 1..Len(w) /\ v[i] = w[i] /\ i - 1 \in 0..L
      BY <1>8, <3>1
    <3>3. SyncBefore(w, o, i - 1)
      BY <1>9, <2>1, <3>2 DEF StreamOf, Baseline
    <3> QED
      BY <1>15, <3>2, <3>3
  <2>2. ASSUME call[o] = "pending" PROVE SyncBefore(v, o, L + 1)'
    <3>1. CASE Acquire(o)
      <4>1. L + 1 \in 1..(L + 1) /\ Carries(v[L + 1], o) /\ v[L + 1].frame = Sync
        BY <1>4, <1>8, <1>10, <3>1
      <4> QED
        BY <4>1 DEF SyncBefore, Carries
    <3>2. CASE ~Acquire(o)
      <4>1. SyncBefore(w, o, L) /\ L \in 0..L
        BY <1>5, <1>8, <1>9, <2>2, <3>2 DEF StreamOf, Baseline
      <4> QED
        BY <1>15, <4>1
    <3> QED
      BY <3>1, <3>2
  <2>3. call[o] \in {"replied", "open"} => HasSync(o)'
    BY <1>6, <1>9 DEF StreamOf, Baseline, HasSync
  <2> QED
    BY <1>6, <1>8, <2>1, <2>2, <2>3 DEF Baseline, Msg
<1>17. StreamOf(v, o)'
  BY <1>11, <1>13, <1>14, <1>16 DEF StreamOf
<1> QED
  BY <1>1, <1>4, <1>6, <1>7, <1>17

\* A step that neither emits nor delivers and says at most m.
LEMMA QuietStep ==
  ASSUME StreamInv, Grown, NEW m \in ToDaemon, \A o \in Obs : ~Carries(m, o) /\ (Speaks(m, o) => svc'[o] \notin Unborn),
         toDaemon' = toDaemon \/ toDaemon' = Append(toDaemon, m),
         stopping' = "no" => stopping = "no",
         stopping' = "no" => \A o \in Obs : Calm(toDaemon, o),
         stopping' = "no" => \A o \in Obs : m = Msg("ok", o) /\ call'[o] = "pending"
                                              => SyncBefore(toDaemon, o, Len(toDaemon))
  PROVE  FramesInOrder(toDaemon)' /\ Streams'
<1>0. PICK w \in Seq(ToDaemon) : w = toDaemon
  BY DEF StreamInv, LinkTypes
<1>1. PICK w2 : w = toDaemon /\ w2 = toDaemon'
  BY <1>0
<1>2. FramesInOrder(w)'
  BY <1>1, OrderStays DEF StreamInv
<1>3. FramesInOrder(Append(w, m))'
  BY <1>2, OrderAppended
<1>4. FramesInOrder(w2)'
  BY <1>1, <1>2, <1>3
<1>5. ASSUME stopping' = "no", NEW o \in Obs PROVE StreamOf(w2, o)'
  <2>1. StreamOf(w, o) /\ Calm(w, o)
    BY <1>1, <1>5 DEF StreamInv, Streams
  <2>2. StreamOf(w, o)'
    BY <2>1, StreamStays
  <2>3. m = Msg("ok", o) /\ call'[o] = "pending" => SyncBefore(w, o, Len(w))'
    BY <1>1, <1>5, <2>1 DEF SyncBefore, HasSync, Calm, Carries
  <2>4. StreamOf(Append(w, m), o)'
    BY <2>2, <2>3, StreamAppended
  <2> QED
    BY <1>1, <2>2, <2>4
<1>6. FramesInOrder(toDaemon)'
  BY <1>1, <1>4 DEF FramesInOrder, InOrder
<1>7. ASSUME stopping' = "no", NEW o \in Obs PROVE StreamOf(toDaemon, o)'
  <2>1. StreamOf(w2, o)'
    BY <1>5, <1>7
  <2> QED
    BY <1>1, <2>1 DEF StreamOf, NoGap, LeftIsOver, Baseline, Follows, SyncBefore
<1> QED
  BY <1>6, <1>7 DEF Streams

\* The loss of the socket, from whichever side.
LEMMA LossStep ==
  ASSUME StreamInv, \/ HearUnavailable \/ HeartbeatTimeout \/ HearBye \/ Drop \/ WorkerHeartbeatTimeout
  PROVE  Unspoken' /\ FramesInOrder(toDaemon)' /\ Streams'
<1>1. toDaemon' = <<>> /\ ~up' /\ emitted' = emitted /\ stopping' = stopping
  BY DEF HearUnavailable, HeartbeatTimeout, HearBye, Drop, WorkerHeartbeatTimeout, Terminate, Lost, daemonVars, workerVars
<1>2. \A o \in Obs : /\ svc'[o] \in Unborn => svc[o] \in Unborn
                     /\ got'[o] = got[o] \/ got'[o] = Append(got[o], Closed)
                     /\ call'[o] \in {"replied", "open"} => call[o] \in {"replied", "open"}
                     /\ call'[o] = "pending" => call[o] = "pending"
  <2>1. CASE HearUnavailable \/ HeartbeatTimeout
    BY <2>1 DEF HearUnavailable, HeartbeatTimeout, Terminate, RejectPending, workerVars, StreamInv, LinkTypes
  <2>2. CASE HearBye \/ Drop \/ WorkerHeartbeatTimeout
    BY <2>2 DEF HearBye, Drop, WorkerHeartbeatTimeout, EndConnection, daemonVars, workerVars, Unborn
  <2> QED
    BY <2>1, <2>2
<1>3. Unspoken'
  BY <1>1, <1>2 DEF StreamInv, Unspoken
<1>4. FramesInOrder(toDaemon)'
  BY <1>1 DEF FramesInOrder
<1>5. ASSUME stopping' = "no", NEW o \in Obs PROVE StreamOf(toDaemon, o)'
  <2>1. PICK w \in Seq(ToDaemon) : StreamOf(w, o)
    BY <1>1, <1>5 DEF StreamInv, Streams, LinkTypes
  <2>2. StreamOf(<<>>, o)'
    BY <1>1, <1>2, <2>1, StreamLost DEF StreamInv
  <2> QED
    BY <1>1, <2>2 DEF StreamOf, NoGap, LeftIsOver, Baseline, Follows, SyncBefore
<1> QED
  BY <1>3, <1>4, <1>5 DEF Streams

\* The Daemon's own steps.
LEMMA DaemonQuiet ==
  ASSUME StreamInv,
         \/ \E o \in Obs : Observe(o) \/ Release(o) \/ Resume(o) \/ ResumeRejected(o)
         \/ DaemonClosed \/ Stop \/ Stopped \/ UNCHANGED vars
  PROVE  Unspoken' /\ FramesInOrder(toDaemon)' /\ Streams'
<1> USE DEF StreamInv
<1>1. UNCHANGED <<svc, emitted, got, up, closed, toDaemon>>
  BY DEF Observe, Release, Resume, ResumeRejected, DaemonClosed, Stop, Stopped, vars, daemonVars, sockVars, workerVars
<1>2. Unspoken' /\ Grown
  BY <1>1 DEF Unspoken, Grown
<1>3. PICK m \in ToDaemon : m = Signal("bye") /\ \A o \in Obs : ~Speaks(m, o) /\ ~Carries(m, o) /\ m # Msg("ok", o)
  <2>1. Signal("bye") \in ToDaemon /\ Signal("bye").kind = "bye" /\ \A o \in Obs : Msg("ok", o).kind # "bye"
    BY MessageTypes DEF Signal, Msg
  <2> QED
    BY <2>1 DEF Speaks, Carries
<1>4. stopping' = "no" => stopping = "no"
  BY DEF Observe, Release, Resume, ResumeRejected, DaemonClosed, Stop, Stopped, vars, daemonVars
<1>5. ASSUME stopping' = "no", NEW u \in Obs PROVE Calm(toDaemon, u)
  <2>1. StreamOf(toDaemon, u)
    BY <1>4, <1>5 DEF Streams
  <2>2. ASSUME NEW o \in Obs, Observe(o) PROVE Calm(toDaemon, u)
    <3>1. svc[o] = "none" /\ \A i \in 1..Len(toDaemon) : ~Carries(toDaemon[i], o) /\ toDaemon[i] # Msg("ok", o)
      BY <2>2 DEF Observe, AskedOnce, FramesInOrder, InOrder, Unborn, Speaks
    <3>2. CASE u = o
      BY <1>1, <2>2, <3>1, <3>2 DEF Observe, Calm, LinkTypes
    <3>3. CASE u # o
      BY <1>1, <2>2, <3>3 DEF Observe, Calm, LinkTypes
    <3> QED
      BY <3>2, <3>3
  <2>3. ASSUME NEW o \in Obs, Release(o) PROVE Calm(toDaemon, u)
    BY <1>1, <2>3 DEF Release, Calm
  <2>4. ASSUME NEW o \in Obs, Resume(o) PROVE Calm(toDaemon, u)
    <3>1. CASE up
      <4>1. o \notin held => svc[o] = "ended" /\ \A i \in 1..Len(toDaemon) : ~Carries(toDaemon[i], o)
        BY <1>4, <1>5, <2>4, <3>1 DEF Resume, Streams, StreamOf, LeftIsOver
      <4> QED
        BY <1>1, <2>4, <4>1 DEF Resume, Calm, LinkTypes
    <3>2. CASE ~up
      <4>1. Len(toDaemon) = 0
        BY <3>2 DEF LostIsEmpty
      <4> QED
        BY <1>1, <2>4, <3>2, <4>1 DEF Resume, Calm, LinkTypes
    <3> QED
      BY <3>1, <3>2
  <2>5. ASSUME NEW o \in Obs, ResumeRejected(o) PROVE Calm(toDaemon, u)
    BY <1>1, <2>5 DEF ResumeRejected, Calm, LinkTypes
  <2>6. CASE DaemonClosed
    BY <1>1, <2>6 DEF DaemonClosed, RejectPending, Calm, LinkTypes
  <2>7. CASE UNCHANGED vars
    BY <2>7 DEF vars, daemonVars, sockVars, workerVars, Calm
  <2>8. ~Stop /\ ~Stopped
    BY <1>5 DEF Stop, Stopped
  <2> QED
    BY <2>2, <2>3, <2>4, <2>5, <2>6, <2>7, <2>8
<1> QED
  BY <1>1, <1>2, <1>3, <1>4, <1>5, QuietStep

\* What the Daemon hears.
LEMMA HearingStep ==
  ASSUME StreamInv, HearStopped \/ \E o \in Obs : HearReply(o) \/ HearFrame(o)
  PROVE  Unspoken' /\ FramesInOrder(toDaemon)' /\ Streams'
<1> USE DEF StreamInv
<1>0. PICK w \in Seq(ToDaemon) : w = toDaemon
  BY DEF LinkTypes
<1>1. PICK v : w = toDaemon /\ w # <<>> /\ v = Tail(w) /\ toDaemon' = v
  BY <1>0 DEF HearStopped, HearReply, HearFrame
<1>2. v \in Seq(ToDaemon) /\ Head(w) = w[1] /\ 1 \in 1..Len(w)
  BY <1>1, HeadAndTail
<1>3. UNCHANGED <<svc, emitted, up, closed>>
  BY DEF HearStopped, HearReply, HearFrame, workerVars
<1>4. FramesInOrder(v)'
  <2>1. FramesInOrder(v)
    BY <1>1, OrderTail
  <2>2. Grown
    BY <1>3 DEF Grown
  <2> QED
    BY <2>1, <2>2, OrderStays
<1>5. up
  BY <1>1 DEF LostIsEmpty
<1>6. FramesInOrder(w)
  BY <1>1
<1>7. Unspoken'
  <2> SUFFICES ASSUME NEW u \in Obs, svc[u] \in Unborn PROVE got'[u] = <<>>
    BY <1>3 DEF Unspoken
  <2>1. got[u] = <<>>
    BY <1>5 DEF Unspoken
  <2>2. ~Carries(w[1], u)
    BY <1>2, <1>6 DEF FramesInOrder, InOrder, Speaks
  <2>3. CASE \E o \in Obs : HearFrame(o)
    BY <1>1, <1>2, <2>1, <2>2, <2>3 DEF HearFrame, Carries, LinkTypes
  <2>4. CASE ~\E o \in Obs : HearFrame(o)
    BY <2>1, <2>4 DEF HearStopped, HearReply
  <2> QED
    BY <2>3, <2>4
<1>8. ASSUME stopping' = "no", NEW u \in Obs PROVE StreamOf(v, u)'
  <2>1. stopping = "no" /\ ~HearStopped
    BY <1>8 DEF HearStopped, HearReply, HearFrame
  <2>2. PICK o \in Obs : HearReply(o) \/ HearFrame(o)
    BY <2>1
  <2>3. StreamOf(w, u)
    BY <1>1, <2>1 DEF Streams
  <2>4. CASE HearFrame(o) /\ u = o
    BY <1>1, <2>1, <2>4, StreamHeard
  <2>5. CASE HearFrame(o) /\ u # o
    <3>1. ~Carries(Head(w), u)
      BY <1>1, <2>5 DEF HearFrame, Carries
    <3>2. StreamOf(v, u)
      BY <1>1, <2>3, <3>1, StreamTail
    <3>3. Calm(v, u)
      BY <1>3, <2>5 DEF HearFrame, Calm, LinkTypes
    <3> QED
      BY <1>2, <3>2, <3>3, StreamStays
  <2>6. CASE HearReply(o)
    <3>1. ~Carries(Head(w), u) /\ Head(w) \in {Msg("ok", o), Msg("err", o)}
      BY <1>1, <2>6 DEF HearReply, Carries, Msg
    <3>2. StreamOf(v, u)
      BY <1>1, <2>3, <3>1, StreamTail
    <3>3. call'[u] = "replied" /\ call[u] # "replied" => HasSync(u)
      <4> SUFFICES ASSUME call'[u] = "replied", call[u] # "replied" PROVE HasSync(u)
        OBVIOUS
      <4>1. u = o /\ call[u] = "pending" /\ Head(w).kind = "ok"
        BY <1>1, <2>6 DEF HearReply, LinkTypes
      <4>2. w[1] = Msg("ok", u)
        BY <1>2, <3>1, <4>1 DEF Msg
      <4>3. SyncBefore(w, u, 1 - 1) /\ 1..(1 - 1) = {}
        BY <1>2, <2>3, <4>1, <4>2 DEF StreamOf, Baseline
      <4> QED
        BY <4>3 DEF SyncBefore
    <3>4. Calm(v, u)
      BY <1>3, <2>6, <3>3 DEF HearReply, Calm, LinkTypes
    <3> QED
      BY <1>2, <3>2, <3>4, StreamStays
  <2> QED
    BY <2>2, <2>4, <2>5, <2>6
<1>9. FramesInOrder(toDaemon)'
  BY <1>1, <1>4 DEF FramesInOrder, InOrder
<1>10. ASSUME stopping' = "no", NEW u \in Obs PROVE StreamOf(toDaemon, u)'
  <2>1. StreamOf(v, u)'
    BY <1>8, <1>10
  <2> QED
    BY <1>1, <2>1 DEF StreamOf, NoGap, LeftIsOver, Baseline, Follows, SyncBefore
<1> QED
  BY <1>7, <1>9, <1>10 DEF Streams

\* The Worker's steps that emit nothing.
LEMMA WorkerQuiet ==
  ASSUME StreamInv,
         \/ Ignore \/ HearDaemonBye \/ AcceptShutdown \/ DisposeService \/ ReplyShutdown \/ WorkerClosed
         \/ ReportUnavailable
         \/ \E o \in Obs : AcceptObserve(o) \/ AcceptRelease(o) \/ InstallAcquired(o) \/ Refuse(o)
  PROVE  Unspoken' /\ FramesInOrder(toDaemon)' /\ Streams'
<1> USE DEF StreamInv
<1>1. UNCHANGED <<emitted, got, up, held, call, stopping>> /\ (closed => closed')
  BY DEF Ignore, HearDaemonBye, AcceptShutdown, DisposeService, ReplyShutdown, WorkerClosed, ReportUnavailable,
     AcceptObserve, AcceptRelease, InstallAcquired, Refuse, Accept, EndConnection, daemonVars, workerVars, sockVars
<1>2. \A u \in Obs : \/ svc'[u] = svc[u]
                     \/ svc[u] = "live" /\ svc'[u] = "released"
                     \/ svc[u] \in {"none", "opening"} /\ svc'[u] \in {"opening", "refused"}
  <2>1. CASE Ignore \/ HearDaemonBye \/ AcceptShutdown \/ DisposeService \/ ReplyShutdown \/ WorkerClosed
             \/ ReportUnavailable
    BY <2>1 DEF Ignore, HearDaemonBye, AcceptShutdown, DisposeService, ReplyShutdown, WorkerClosed, ReportUnavailable,
       EndConnection, workerVars
  <2>2. ASSUME NEW o \in Obs, AcceptRelease(o) \/ InstallAcquired(o) \/ Refuse(o), NEW u \in Obs
        PROVE  \/ svc'[u] = svc[u]
               \/ svc[u] = "live" /\ svc'[u] = "released"
               \/ svc[u] \in {"none", "opening"} /\ svc'[u] \in {"opening", "refused"}
    BY <2>2 DEF AcceptRelease, InstallAcquired, Refuse, LinkInv, ServerTypes
  <2>3. ASSUME NEW o \in Obs, AcceptObserve(o), NEW u \in Obs
        PROVE  svc'[u] = svc[u] \/ (svc[u] = "none" /\ svc'[u] = "opening")
    <3>1. Head(toWorker) = toWorker[1] /\ 1 \in 1..Len(toWorker) /\ Asks(Head(toWorker), o)
      BY <2>3, HeadAndTail DEF AcceptObserve, Accept, Asks, LinkTypes
    <3>2. svc[o] = "none"
      BY <3>1 DEF AskedOnce, AsksOnce
    <3> QED
      BY <2>3, <3>2 DEF AcceptObserve, LinkInv, ServerTypes
  <2> QED
    BY <2>1, <2>2, <2>3
<1>3. Unspoken' /\ Grown
  BY <1>1, <1>2 DEF Unspoken, Grown, Unborn
<1>4. \A u \in Obs : Calm(toDaemon, u)
  BY <1>1, <1>2 DEF Calm
<1>5. ASSUME NEW m \in ToDaemon, toDaemon' = toDaemon \/ toDaemon' = Append(toDaemon, m), m.kind \notin {"frame", "ok"}
      PROVE  FramesInOrder(toDaemon)' /\ Streams'
  <2>1. \A o \in Obs : ~Carries(m, o) /\ ~Speaks(m, o) /\ m # Msg("ok", o)
    <3>1. \A o \in Obs : Msg("ok", o).kind = "ok"
      BY DEF Msg
    <3> QED
      BY <1>5, <3>1 DEF Carries, Speaks
  <2> QED
    BY <1>1, <1>3, <1>4, <1>5, <2>1, QuietStep
<1>6. \A k \in {"unavailable", "stopped", "bye"} : Signal(k) \in ToDaemon /\ Signal(k).kind = k
  BY MessageTypes DEF Signal
<1>7. CASE Ignore \/ HearDaemonBye \/ AcceptShutdown \/ DisposeService \/ ReplyShutdown \/ WorkerClosed
           \/ ReportUnavailable \/ \E o \in Obs : AcceptObserve(o) \/ AcceptRelease(o)
  <2>1. \E k \in {"unavailable", "stopped", "bye"} : toDaemon' = toDaemon \/ toDaemon' = Append(toDaemon, Signal(k))
    BY <1>7 DEF Ignore, HearDaemonBye, AcceptShutdown, DisposeService, ReplyShutdown, WorkerClosed, ReportUnavailable,
       AcceptObserve, AcceptRelease, Accept, WorkerSends, sockVars
  <2> QED
    BY <1>3, <1>5, <1>6, <2>1
<1>8. ASSUME NEW o \in Obs, Refuse(o) PROVE FramesInOrder(toDaemon)' /\ Streams'
  <2>1. Msg("err", o) \in ToDaemon /\ Msg("err", o).kind = "err"
    BY MessageTypes DEF Msg
  <2>2. toDaemon' = toDaemon \/ toDaemon' = Append(toDaemon, Msg("err", o))
    BY <1>8 DEF Refuse, WorkerSends
  <2> QED
    BY <1>5, <2>1, <2>2
<1>9. ASSUME NEW o \in Obs, InstallAcquired(o) PROVE FramesInOrder(toDaemon)' /\ Streams'
  <2>1. CASE toDaemon' = toDaemon
    BY <1>5, <1>6, <2>1
  <2>2. CASE toDaemon' # toDaemon
    <3>1. up /\ ~closed /\ toDaemon' = Append(toDaemon, Msg("ok", o)) /\ svc' = svc
      BY <1>9, <2>2 DEF InstallAcquired, WorkerSends
    <3>2. svc[o] \in {"live", "ended", "released"}
      BY <1>9 DEF InstallAcquired, Acquired, AskedOnce, LinkInv, ServerTypes
    <3>3. PICK m \in ToDaemon : m = Msg("ok", o) /\ \A u \in Obs : ~Carries(m, u) /\ (Speaks(m, u) => u = o)
      <4>1. Msg("ok", o) \in ToDaemon /\ Msg("ok", o).kind = "ok" /\ \A u \in Obs : Msg("ok", u) = Msg("ok", o) => u = o
        BY MessageTypes DEF Msg
      <4> QED
        BY <4>1 DEF Carries, Speaks
    <3>4. stopping = "no" => \A u \in Obs : m = Msg("ok", u) /\ call'[u] = "pending" => SyncBefore(toDaemon, u, Len(toDaemon))
      BY <1>1, <3>1, <3>2, <3>3 DEF Speaks, Streams, StreamOf, Baseline
    <3>5. \A u \in Obs : ~Carries(m, u) /\ (Speaks(m, u) => svc'[u] \notin Unborn)
      BY <3>1, <3>2, <3>3 DEF Unborn
    <3> QED
      BY <1>1, <1>3, <1>4, <3>1, <3>3, <3>4, <3>5, QuietStep
  <2> QED
    BY <2>1, <2>2
<1> QED
  BY <1>3, <1>7, <1>8, <1>9

\* The Worker's steps that emit a frame.
LEMMA EmittingStep ==
  ASSUME StreamInv, NEW o \in Obs, Acquire(o) \/ Patch(o) \/ SessionEnds(o)
  PROVE  Unspoken' /\ FramesInOrder(toDaemon)' /\ Streams'
<1> USE DEF StreamInv
<1>0. PICK w \in Seq(ToDaemon) : w = toDaemon
  BY DEF LinkTypes
<1>1. PICK w2 : w = toDaemon /\ w2 = toDaemon'
  BY <1>0
<1>2. UNCHANGED <<got, held, call, up, closed, stopping>>
  BY DEF Acquire, Patch, SessionEnds, daemonVars
<1>3. /\ svc[o] \in {"opening", "live"} /\ svc'[o] \in {"live", "ended"} /\ (svc[o] = "opening" <=> Acquire(o))
      /\ svc'[o] = "ended" <=> SessionEnds(o)
      /\ \A u \in Obs : u # o => svc'[u] = svc[u] /\ emitted'[u] = emitted[u]
  BY DEF Acquire, Patch, SessionEnds, LinkInv, ServerTypes, LinkTypes
<1>e. PICK e \in Seq(Frame), N \in Nat : e = emitted[o] /\ N = Len(e)
  BY DEF LinkTypes
<1>4. PICK e2 : e = emitted[o] /\ e2 = emitted'[o] /\ N = Len(e)
  BY <1>e
<1>5. PICK f \in Frame :
        f = IF SessionEnds(o) THEN Closed ELSE IF Acquire(o) THEN Sync ELSE [kind |-> "patch", n |-> N]
  BY <1>4, MessageTypes
<1>6. e2 = Append(e, f) /\ (Acquire(o) => e = <<>>)
  <2>1. CASE Acquire(o)
    <3>1. e = <<>> /\ e2 = <<Sync>> /\ f = Sync
      BY <1>3, <1>4, <1>5, <2>1 DEF Acquire, Unspoken, Unborn, LinkTypes, SessionEnds
    <3> QED
      BY <3>1
  <2>2. CASE SessionEnds(o)
    BY <1>3, <1>4, <1>5, <2>2 DEF SessionEnds, LinkTypes
  <2>3. CASE Patch(o) /\ ~Acquire(o) /\ ~SessionEnds(o)
    BY <1>4, <1>5, <2>3 DEF Patch, LinkTypes
  <2> QED
    BY <1>3, <2>1, <2>2, <2>3 DEF Acquire, SessionEnds
<1>7. /\ e2 \in Seq(Frame) /\ DOMAIN e = 1..N /\ DOMAIN e2 = 1..(N + 1)
      /\ e2[N + 1] = f /\ \A i \in 1..N : e2[i] = e[i]
  <2>1. e2 \in Seq(Frame) /\ Len(e2) = Len(e) + 1 /\ (\A i \in 1..Len(e) : e2[i] = e[i]) /\ e2[Len(e) + 1] = f
    BY <1>6, Appended
  <2>2. DOMAIN e = 1..Len(e) /\ DOMAIN e2 = 1..Len(e2)
    BY <2>1
  <2> QED
    BY <1>4, <2>1, <2>2
<1>8. Unspoken'
  BY <1>2, <1>3 DEF Unspoken, Unborn
<1>9. Grown
  <2>1. svc'[o] \notin Unborn /\ svc[o] # "ended"
    BY <1>3 DEF Unborn
  <2>2. \A k \in DOMAIN e : k \in DOMAIN e2 /\ e2[k] = e[k]
    BY <1>7
  <2> QED
    BY <1>3, <1>4, <2>1, <2>2 DEF Grown
<1>10. FramesInOrder(w) /\ FramesInOrder(w)'
  BY <1>1, <1>9, OrderStays
<1>11. PICK m \in ToDaemon : m = FrameMsg(o, f) /\ Carries(m, o) /\ m.frame = f /\ m.kind = "frame"
                             /\ (\A u \in Obs : Speaks(m, u) => u = o) /\ \A u \in Obs : Carries(m, u) => u = o
  <2>1. FrameMsg(o, f).kind = "frame" /\ FrameMsg(o, f).obs = o /\ FrameMsg(o, f).frame = f /\ FrameMsg(o, f) \in ToDaemon
    BY MessageTypes DEF FrameMsg
  <2>2. \A u \in Obs : Msg("ok", u).kind # "frame"
    BY DEF Msg
  <2> QED
    BY <2>1, <2>2 DEF Carries, Speaks
<1>12. w2 = IF up /\ ~closed THEN Append(w, m) ELSE w
  <2>1. CASE Acquire(o)
    BY <1>1, <1>3, <1>5, <1>11, <2>1 DEF Acquire, WorkerSends, SessionEnds
  <2>2. CASE SessionEnds(o)
    BY <1>1, <1>5, <1>11, <2>2 DEF SessionEnds, WorkerSends
  <2>3. CASE Patch(o) /\ ~Acquire(o) /\ ~SessionEnds(o)
    BY <1>1, <1>4, <1>5, <1>11, <2>3 DEF Patch, WorkerSends
  <2> QED
    BY <2>1, <2>2, <2>3
<1>13. FramesInOrder(Append(w, m))'
  <2>1. ASSUME NEW i \in 1..Len(w), Carries(w[i], o)
        PROVE  w[i].frame # Closed /\ (f # Closed => w[i].frame.n < f.n)
    <3>1. InOrder(w, i, o)
      BY <1>10 DEF FramesInOrder
    <3>2. svc[o] = "live" /\ ~Acquire(o)
      BY <1>3, <2>1, <3>1 DEF InOrder, Speaks, Unborn
    <3>3. w[i].frame # Closed
      BY <2>1, <3>1, <3>2 DEF InOrder
    <3>4. w[i].frame \in Frame /\ w[i].frame.n \in Nat
      <4>1. w[i] \in ToDaemon
        OBVIOUS
      <4> QED
        BY <2>1, <4>1, MessageTypes DEF Carries
    <3>5. w[i].frame.n + 1 \in 1..N
      BY <1>4, <1>7, <2>1, <3>1, <3>3 DEF InOrder
    <3>6. f # Closed => f.n = N
      BY <1>5, <3>2
    <3> QED
      BY <3>3, <3>4, <3>5, <3>6
  <2>2. svc'[o] \notin Unborn /\ (f = Closed => svc'[o] = "ended")
    <3>1. ~SessionEnds(o) => f # Closed
      BY <1>5, MessageTypes DEF Closed
    <3> QED
      BY <1>3, <3>1 DEF Unborn
  <2>3. f # Closed => f.n = N
    <3>1. Acquire(o) => N = 0
      BY <1>4, <1>6
    <3> QED
      BY <1>5, <3>1 DEF Sync
  <2>4. f # Closed => f.n + 1 \in DOMAIN emitted'[o] /\ emitted'[o][f.n + 1] = f
    BY <1>4, <1>7, <2>3
  <2> QED
    BY <1>10, <1>11, <2>1, <2>2, <2>4, OrderAppended
<1>14. FramesInOrder(toDaemon)'
  <2>1. FramesInOrder(w2)'
    BY <1>10, <1>12, <1>13
  <2> QED
    BY <1>1, <2>1 DEF FramesInOrder, InOrder
<1>15. ASSUME stopping' = "no", NEW u \in Obs PROVE StreamOf(w2, u)'
  <2>1. StreamOf(w, u) /\ stopping = "no"
    BY <1>1, <1>2, <1>15 DEF Streams
  <2>2. CASE u # o
    <3>1. Calm(w, u)
      BY <1>2, <1>3, <2>2 DEF Calm
    <3>2. StreamOf(w, u)'
      BY <2>1, <3>1, StreamStays
    <3>3. ~Carries(m, u) /\ m # Msg("ok", u)
      BY <1>11, <2>2 DEF Speaks
    <3>4. StreamOf(Append(w, m), u)'
      BY <3>2, <3>3, StreamAppended
    <3> QED
      BY <1>12, <3>2, <3>4
  <2>3. CASE u = o /\ up /\ ~closed
    <3>1. PICK h \in Frame : toDaemon' = Append(toDaemon, FrameMsg(o, h))
                             /\ \A x : x = Append(toDaemon, FrameMsg(o, h)) => StreamOf(x, o)'
      BY <2>1, <2>3, StreamEmitted
    <3> QED
      BY <1>1, <2>3, <3>1
  <2>4. CASE u = o /\ ~(up /\ ~closed)
    <3>1. w2 = w
      BY <1>12, <2>4
    <3>2. Delivered(o)'
      BY <1>2, <1>4, <1>7, <2>1, <2>4 DEF StreamOf, Delivered
    <3>3. NoGap(w, o)'
      <4>1. \A n, k : Follows(w, o, n, k) => Follows(w, o, n, k)'
        BY <1>2 DEF Follows, Carries
      <4> QED
        BY <1>2, <2>1, <2>4, <4>1 DEF StreamOf, NoGap, Carries
    <3>4. LeftIsOver(w, o)'
      BY <1>2, <1>3, <2>1, <2>4 DEF StreamOf, LeftIsOver
    <3>5. Baseline(w, o)'
      <4>1. \A k : SyncBefore(w, o, k) => SyncBefore(w, o, k)'
        BY <1>2 DEF SyncBefore, HasSync, Carries
      <4> QED
        BY <1>2, <2>1, <2>4, <4>1 DEF StreamOf, Baseline, HasSync, Msg
    <3> QED
      BY <2>4, <3>1, <3>2, <3>3, <3>4, <3>5 DEF StreamOf
  <2> QED
    BY <2>2, <2>3, <2>4
<1>16. ASSUME stopping' = "no", NEW u \in Obs PROVE StreamOf(toDaemon, u)'
  <2>1. StreamOf(w2, u)'
    BY <1>15, <1>16
  <2> QED
    BY <1>1, <2>1 DEF StreamOf, NoGap, LeftIsOver, Baseline, Follows, SyncBefore
<1> QED
  BY <1>8, <1>14, <1>16 DEF Streams

\* Nothing is under way and nothing was emitted at first.
LEMMA StreamInitially == Init => StreamInv
<1> SUFFICES ASSUME Init PROVE StreamInv
  OBVIOUS
<1>1. LinkInv
  BY LinkInitially
<1>2. LinkTypes
  BY DEF Init, LinkTypes
<1>3. LostIsEmpty /\ ShutdownInv /\ AskedOnce /\ Unspoken /\ FramesInOrder(toDaemon)
  BY DEF Init, LostIsEmpty, ShutdownInv, AskedOnce, AsksOnce, Unspoken, FramesInOrder
<1>4. Streams
  BY DEF Init, Streams, StreamOf, Delivered, NoGap, LeftIsOver, Baseline
<1> QED
  BY <1>1, <1>2, <1>3, <1>4 DEF StreamInv

\* Every step keeps the invariant.
LEMMA StreamInductive == StreamInv /\ [Next]_vars => StreamInv'
<1> SUFFICES ASSUME StreamInv, [Next]_vars PROVE StreamInv'
  OBVIOUS
<1>1. LinkInv' /\ LinkTypes' /\ LostIsEmpty' /\ ShutdownInv' /\ AskedOnce'
  BY LinkInductive, TypesInductive, LostInductive, ShutdownInductive, AskedInductive DEF StreamInv
<1>2. Unspoken' /\ FramesInOrder(toDaemon)' /\ Streams'
  BY LossStep, DaemonQuiet, HearingStep, WorkerQuiet, EmittingStep DEF Next, DaemonStep, WorkerStep
<1> QED
  BY <1>1, <1>2 DEF StreamInv

LEMMA StreamInvariance == Spec => []StreamInv
  BY StreamInitially, StreamInductive, PTL DEF Spec

\* Once the Worker's end of the link is closed, an observation that is still live
\* is one whose acquisition was cancelled and will release it: however shutdown,
\* heartbeat, loss, withdrawal and requests in flight interleave.
THEOREM NothingPinned == Spec => []NothingOutlivesLink
<1>1. LinkInv => NothingOutlivesLink
  BY DEF LinkInv, ServerTypes, Owned, ClosedIsEmpty, NothingOutlivesLink
<1> QED
  BY <1>1, LinkInitially, LinkInductive, PTL DEF Spec

\* The sink of every observation is given the Document's changes as the service
\* emitted them, gap-free and in order, however withdrawal, loss, release and the
\* end of the Session interleave with replies and frames under way.
THEOREM SinkIsPrefix == Spec => []StreamIsPrefix
<1>1. StreamInv => StreamIsPrefix
  BY DEF StreamInv, Streams, StreamOf, Delivered, StreamIsPrefix
<1> QED
  BY <1>1, StreamInvariance, PTL

\* observeSession and createSession deliver the initial sync before they resolve.
THEOREM SyncBeforeResolve == Spec => []BaselineFirst
<1>1. StreamInv => BaselineFirst
  <2> SUFFICES ASSUME StreamInv, NEW o \in Obs, call[o] = "open", stopping = "no"
               PROVE  got[o] # <<>> /\ Head(got[o]) = Sync
    BY DEF BaselineFirst
  <2>1. got[o] # <<>> /\ got[o][1] = Sync /\ got[o] \in Seq(Frame)
    BY DEF StreamInv, Streams, StreamOf, Baseline, HasSync, LinkTypes
  <2> QED
    BY <2>1
<1> QED
  BY <1>1, StreamInvariance, PTL

\* When the Daemon has the reply to its shutdown request, no admitted request is
\* still opening a Session and no observation is live.
THEOREM ShutdownIsDone == Spec => []ShutdownReplyMeansDone
<1>1. StreamInv => ShutdownReplyMeansDone
  BY DEF StreamInv, ShutdownInv, ShutdownReplyMeansDone
<1> QED
  BY <1>1, StreamInvariance, PTL
=============================================================================
