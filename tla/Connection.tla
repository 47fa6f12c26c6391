----------------------------- MODULE Connection -----------------------------
(***************************************************************************)
(* One browser connection: the Connection that serves its socket           *)
(* (host/connection.ts), the pull verb (host/connection-verbs.ts) and the  *)
(* client's mirror of the attached Session's Document (core/client.ts).    *)
(*                                                                         *)
(* openSession, newSession and detach are transitions, numbered in arrival *)
(* order; each one that attaches has an observation of its own, named by   *)
(* the transition.  The Worker calls an observation's sink at any time     *)
(* between its initial sync and its end.  What the sink sends reaches the  *)
(* client in order.  Frames and the mirror carry the observation they come *)
(* from; the program only has the attachment generation.                   *)
(***************************************************************************)
EXTENDS Naturals, Sequences

CONSTANTS MaxTrans,  \* bound on transitions
          MaxPatch,  \* bound on live patches of each transition's observation
          Verbs,     \* what the client may ask for in each transition
          Pull       \* pull requests

ASSUME ConnectionBounds == MaxTrans \in Nat /\ MaxPatch \in [1..MaxTrans -> Nat]
Trans == 1..MaxTrans

ASSUME VerbsAssumption == Verbs \in [Trans -> SUBSET {"open", "new", "detach"}]

VARIABLES
  what, pc, reply,       \* each transition: its verb, its progress, its reply
  gen,                   \* the generation its sink was given
  obs, sent,             \* its observation and the patches delivered so far
  attachment,            \* the transition that made the current attachment, or 0
  attachmentGeneration, syncAttribution, disposed,
  wire,                  \* frames on their way to the client
  mirror,                \* the client's generation and the frames in its Document
  pulls, merged          \* pull requests; the observations whose values were merged

transVars == <<what, pc, reply, gen>>
obsVars == <<obs, sent>>
connVars == <<attachment, attachmentGeneration, syncAttribution, disposed>>
clientVars == <<mirror, merged>>
vars == <<transVars, obsVars, connVars, wire, clientVars, pulls>>

NoPull == [obs |-> 0, gen |-> 0, state |-> "none"]

Init == /\ what = [t \in Trans |-> "none"]
        /\ pc = [t \in Trans |-> "none"]
        /\ reply = [t \in Trans |-> "none"]
        /\ gen = [t \in Trans |-> 0]
        /\ obs = [t \in Trans |-> "none"]
        /\ sent = [t \in Trans |-> 0]
        /\ attachment = 0 /\ attachmentGeneration = 0 /\ syncAttribution = 0
        /\ disposed = FALSE
        /\ wire = <<>>
        /\ mirror = [gen |-> 0, log |-> <<>>]
        /\ pulls = [p \in Pull |-> NoPull]
        /\ merged = {}

-----------------------------------------------------------------------------
\* send: a closed socket swallows the frame.
Send(frame) == wire' = IF disposed THEN wire ELSE Append(wire, frame)

Finished(t, answer) == pc' = [pc EXCEPT ![t] = "done"] /\ reply' = [reply EXCEPT ![t] = answer]

\* Releasing an observation that ended is not an error.
ReleaseOf(o) == [t \in Trans |-> IF t = o /\ obs[t] = "live" THEN "released" ELSE obs[t]]

Arrived(t) == pc[t] # "none"

\* Bug: a transition the closed scope refuses is left without an answer.
RunTransitionSilently(t, verb) ==
  /\ ~Arrived(t) /\ \A u \in 1..(t - 1) : Arrived(u)
  /\ what' = [what EXCEPT ![t] = verb]
  /\ pc' = [pc EXCEPT ![t] = IF disposed THEN "done" ELSE "queued"]
  /\ UNCHANGED <<reply, gen, obsVars, connVars, wire, clientVars, pulls>>

\* handleMessage and runTransition: queue the transition; a closed scope refuses it.
RunTransition(t, verb) ==
  /\ ~Arrived(t) /\ \A u \in 1..(t - 1) : Arrived(u)
  /\ what' = [what EXCEPT ![t] = verb]
  /\ IF disposed THEN Finished(t, "error")
                 ELSE pc' = [pc EXCEPT ![t] = "queued"] /\ UNCHANGED reply
  /\ UNCHANGED <<gen, obsVars, connVars, wire, clientVars, pulls>>

\* The transition scope: a transition runs when every earlier one has settled.
Turn(t) == pc[t] = "queued" /\ \A u \in 1..(t - 1) : pc[u] = "done"

\* A transition that reaches its turn after disposal.
RefuseTransition(t) ==
  /\ Turn(t) /\ disposed
  /\ Finished(t, "error")
  /\ UNCHANGED <<what, gen, obsVars, connVars, wire, clientVars, pulls>>

\* detach: the attachment is let go, then its observation is released.
Detach(t) ==
  /\ Turn(t) /\ ~disposed /\ what[t] = "detach"
  /\ obs' = ReleaseOf(attachment)
  /\ attachment' = 0
  /\ Finished(t, "ok")
  /\ UNCHANGED <<what, gen, sent, attachmentGeneration, syncAttribution, disposed, wire, clientVars,
                 pulls>>

\* openSession and newSession up to the Worker's answer: attach mints the
\* generation the new sink will stamp.
BeginAttach(t) ==
  /\ Turn(t) /\ ~disposed /\ what[t] \in {"open", "new"}
  /\ gen' = [gen EXCEPT ![t] = attachmentGeneration + 1]
  /\ syncAttribution' = IF what[t] = "new" THEN t ELSE syncAttribution
  /\ pc' = [pc EXCEPT ![t] = "acquiring"]
  /\ UNCHANGED <<what, reply, obsVars, attachment, attachmentGeneration, disposed, wire, clientVars,
                 pulls>>

\* The finally of newSession.
ClearAttribution(t) == syncAttribution' = IF what[t] = "new" THEN 0 ELSE syncAttribution

\* The Worker installs the observation: the initial sync is delivered, stamped
\* with the creation's operation when one is in flight.
InitialSync(t) ==
  /\ pc[t] = "acquiring"
  /\ pc' = [pc EXCEPT ![t] = "acquired"]
  /\ obs' = [obs EXCEPT ![t] = "live"]
  /\ Send([kind |-> "replace", gen |-> gen[t], obs |-> t, n |-> 0, op |-> syncAttribution])
  /\ UNCHANGED <<what, reply, gen, sent, connVars, clientVars, pulls>>

\* The open fails; the previous attachment stays.
OpenFails(t) ==
  /\ pc[t] = "acquiring"
  /\ Finished(t, "error") /\ ClearAttribution(t)
  /\ UNCHANGED <<what, gen, obsVars, attachment, attachmentGeneration, disposed, wire, clientVars,
                 pulls>>

\* The Worker's link is lost after the initial sync and before the reply.
LinkLost(t) ==
  /\ pc[t] = "acquired"
  /\ obs' = [obs EXCEPT ![t] = IF @ = "live" THEN "ended" ELSE @]
  /\ Finished(t, "error") /\ ClearAttribution(t)
  /\ UNCHANGED <<what, gen, sent, attachment, attachmentGeneration, disposed, wire, clientVars,
                 pulls>>

\* Bug: an observation that arrives after disposal is kept.
AttachAnyway(t) ==
  /\ pc[t] = "acquired"
  /\ obs' = ReleaseOf(attachment)
  /\ attachment' = t /\ attachmentGeneration' = gen[t]
  /\ pc' = [pc EXCEPT ![t] = "attached"]
  /\ UNCHANGED <<what, reply, gen, sent, syncAttribution, disposed, wire, clientVars, pulls>>

\* attach after the Worker's answer: install the attachment and release its
\* predecessor, or release what a closed socket will not use.
Attach(t) ==
  /\ pc[t] = "acquired"
  /\ \/ /\ disposed
        /\ obs' = ReleaseOf(t)
        /\ Finished(t, "error") /\ ClearAttribution(t)
        /\ UNCHANGED <<attachment, attachmentGeneration>>
     \/ /\ ~disposed
        /\ obs' = ReleaseOf(attachment)
        /\ attachment' = t /\ attachmentGeneration' = gen[t]
        /\ pc' = [pc EXCEPT ![t] = "attached"]
        /\ UNCHANGED <<reply, syncAttribution>>
  /\ UNCHANGED <<what, gen, sent, disposed, wire, clientVars, pulls>>

\* The predecessor is released: the transition replies.
FinishAttach(t) ==
  /\ pc[t] = "attached"
  /\ Finished(t, "ok") /\ ClearAttribution(t)
  /\ UNCHANGED <<what, gen, obsVars, attachment, attachmentGeneration, disposed, wire, clientVars,
                 pulls>>

-----------------------------------------------------------------------------
(* The Worker delivers *)

\* deliverObservation, a live patch.
DeliverPatch(o) ==
  /\ obs[o] = "live" /\ sent[o] < MaxPatch[o]
  /\ sent' = [sent EXCEPT ![o] = @ + 1]
  /\ Send([kind |-> "patch", gen |-> gen[o], obs |-> o, n |-> sent[o] + 1, op |-> 0])
  /\ UNCHANGED <<transVars, obs, connVars, clientVars, pulls>>

\* deliverObservation, the terminal frame: only the current attachment's ends it.
DeliverClosed(o) ==
  /\ obs[o] = "live"
  /\ obs' = [obs EXCEPT ![o] = "ended"]
  /\ Send([kind |-> "closed", gen |-> gen[o], obs |-> o, n |-> 0, op |-> 0])
  /\ attachment' = IF gen[o] = attachmentGeneration THEN 0 ELSE attachment
  /\ UNCHANGED <<transVars, sent, attachmentGeneration, syncAttribution, disposed, clientVars, pulls>>

\* The socket closes, or the Daemon stops.
Dispose ==
  /\ ~disposed
  /\ disposed' = TRUE
  /\ obs' = ReleaseOf(attachment)
  /\ attachment' = 0
  /\ UNCHANGED <<transVars, sent, attachmentGeneration, syncAttribution, wire, clientVars, pulls>>

-----------------------------------------------------------------------------
(* The pull verb *)

\* The handler captures the attachment and its generation before any await.
AdmitPull(p) ==
  /\ pulls[p].state = "none" /\ ~disposed /\ attachment # 0
  /\ pulls' = [pulls EXCEPT ![p] = [obs |-> attachment, gen |-> attachmentGeneration, state |-> "admitted"]]
  /\ UNCHANGED <<transVars, obsVars, connVars, wire, clientVars>>

\* Bug: the reply names the attachment of the moment it is sent.
ReplyPullCurrent(p) ==
  /\ pulls[p].state = "admitted"
  /\ pulls' = [pulls EXCEPT ![p].state = "done"]
  /\ Send([kind |-> "values", gen |-> attachmentGeneration, obs |-> pulls[p].obs, n |-> 0, op |-> 0])
  /\ UNCHANGED <<transVars, obsVars, connVars, clientVars>>

\* The values of the captured observation, read before it was released; a pull
\* of one that is gone gets an error.
ReplyPull(p) ==
  /\ pulls[p].state = "admitted"
  /\ pulls' = [pulls EXCEPT ![p].state = "done"]
  /\ \/ Send([kind |-> "values", gen |-> pulls[p].gen, obs |-> pulls[p].obs, n |-> 0, op |-> 0])
     \/ obs[pulls[p].obs] # "live" /\ UNCHANGED wire
  /\ UNCHANGED <<transVars, obsVars, connVars, clientVars>>

-----------------------------------------------------------------------------
(* The client *)

Arriving(kind) == wire # <<>> /\ Head(wire).kind = kind /\ wire' = Tail(wire)

\* An address-bearing frame establishes the mirror's generation and starts its
\* log.  It is a replace, or a delta that completes a mirror seeded for the same
\* address: which entries such a seed holds is DocumentSync's matter, and either
\* way what the mirror shows from here on is this observation's.
HandleReplace ==
  /\ Arriving("replace")
  /\ LET f == Head(wire) IN mirror' = [gen |-> f.gen, log |-> <<[obs |-> f.obs, n |-> 0]>>]
  /\ merged' = {}
  /\ UNCHANGED <<transVars, obsVars, connVars, pulls>>

\* Bug: every live patch is applied.
HandlePatchUngated ==
  /\ Arriving("patch")
  /\ LET f == Head(wire) IN mirror' = [mirror EXCEPT !.log = Append(@, [obs |-> f.obs, n |-> f.n])]
  /\ UNCHANGED <<transVars, obsVars, connVars, merged, pulls>>

\* A live patch is admitted only for the generation the mirror replicates.
HandlePatch ==
  /\ Arriving("patch")
  /\ LET f == Head(wire)
     IN mirror' = IF mirror.gen # 0 /\ f.gen = mirror.gen
                  THEN [mirror EXCEPT !.log = Append(@, [obs |-> f.obs, n |-> f.n])] ELSE mirror
  /\ UNCHANGED <<transVars, obsVars, connVars, merged, pulls>>

\* A terminal frame does not touch the mirror.
HandleClosed == Arriving("closed") /\ UNCHANGED <<transVars, obsVars, connVars, clientVars, pulls>>

\* A pull reply fills the mirror only for the generation it replicates.
HandleValues ==
  /\ Arriving("values")
  /\ LET f == Head(wire)
     IN merged' = IF mirror.gen # 0 /\ f.gen = mirror.gen THEN merged \cup {f.obs} ELSE merged
  /\ UNCHANGED <<transVars, obsVars, connVars, mirror, pulls>>

-----------------------------------------------------------------------------
ServerStep(t) ==
  \/ RefuseTransition(t) \/ Detach(t) \/ BeginAttach(t) \/ InitialSync(t) \/ OpenFails(t)
  \/ Attach(t) \/ FinishAttach(t)

Next ==
  \/ \E t \in Trans : \/ \E verb \in Verbs[t] : RunTransition(t, verb)
                      \/ ServerStep(t) \/ LinkLost(t) \/ DeliverPatch(t) \/ DeliverClosed(t)
  \/ Dispose
  \/ \E p \in Pull : AdmitPull(p) \/ ReplyPull(p)
  \/ HandleReplace \/ HandlePatch \/ HandleClosed \/ HandleValues

Spec == Init /\ [][Next]_vars

\* The Worker answers or refuses, and continuations run.
FairSpec == Spec /\ WF_vars(\E t \in Trans : ServerStep(t))

-----------------------------------------------------------------------------
TypeOK ==
  /\ what \in [Trans -> {"none", "open", "new", "detach"}]
  /\ pc \in [Trans -> {"none", "queued", "acquiring", "acquired", "attached", "done"}]
  /\ reply \in [Trans -> {"none", "ok", "error"}]
  /\ gen \in [Trans -> Nat] /\ sent \in [Trans -> Nat]
  /\ obs \in [Trans -> {"none", "live", "ended", "released"}]
  /\ attachment \in 0..MaxTrans /\ attachmentGeneration \in Nat
  /\ syncAttribution \in 0..MaxTrans /\ disposed \in BOOLEAN

Quiet == \A t \in Trans : pc[t] \in {"none", "done"}

\* ADR 19: the mirror is a gap-free prefix of one observation's stream; a frame of
\* another attachment, at whatever moment it arrives, leaves it alone.
MirrorIsOneStream ==
  \A i \in DOMAIN mirror.log : mirror.log[i] = [obs |-> mirror.log[1].obs, n |-> i - 1]

\* ADR 19: values pulled through one observation never fill the mirror of another.
PullsStayHome == merged \subseteq {mirror.log[i].obs : i \in DOMAIN mirror.log}

\* Nothing pins a runtime that no attachment uses: between transitions the
\* only live observation is the attachment's, and after disposal there is none.
OnlyAttachmentLive == Quiet => \A o \in Trans : obs[o] = "live" => o = attachment /\ ~disposed

\* Every transition is answered, also when the socket closes while it waits.
TransitionsReply == \A t \in Trans : Arrived(t) ~> (reply[t] # "none")
=============================================================================
