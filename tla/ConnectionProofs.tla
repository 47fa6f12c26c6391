-------------------------- MODULE ConnectionProofs --------------------------
(***************************************************************************)
(* Types, the release of every observation, and what the client's mirror   *)
(* may hold, for any number of transitions, patches and pulls.             *)
(*                                                                         *)
(* OnlyAttachmentLive says nothing about a transition in flight, so the    *)
(* invariant says who answers for a live observation at every moment       *)
(* (LiveIsHeld).  The delicate step is a terminal frame, which compares    *)
(* generations and drops the attachment: that it drops the right one needs *)
(* the generations of attachment and acquisition (Generations), and those  *)
(* stay apart because transitions run one at a time (OneTransition).       *)
(*                                                                         *)
(* The mirror admits a frame by its generation alone, and an acquisition   *)
(* that fails after its initial sync leaves its generation to the next, so *)
(* two observations may share one.  The invariant follows the frames under *)
(* way (Ledger): whose mirror each will meet and how long it will be.      *)
(* What is sent fits because the newest observation is the last to have    *)
(* synced (UpToDate) and an older one that can still speak was attached,   *)
(* which makes its generation its own (NeverReused).                       *)
(***************************************************************************)
EXTENDS Connection, TLAPS

\* A live observation is the attachment's, or its transition has yet to resume.
LiveIsHeld ==
  \A o \in Trans : obs[o] = "live" => (o = attachment /\ disposed = FALSE) \/ pc[o] = "acquired"

\* No observation exists before the Worker's initial sync.
NotYetOpen == \A o \in Trans : pc[o] \in {"none", "queued", "acquiring"} => obs[o] = "none"

\* While a transition runs, every earlier one has settled.
OneTransition ==
  \A t, u \in Trans : u < t /\ pc[t] \in {"acquiring", "acquired", "attached"} => pc[u] = "done"

\* The attachment has the current generation and an acquisition the next one.
Generations ==
  /\ \A t \in Trans : pc[t] \in {"acquiring", "acquired"} => gen[t] = attachmentGeneration + 1
  /\ attachment # 0 => gen[attachment] = attachmentGeneration /\ pc[attachment] \in {"attached", "done"}

ConnInv == TypeOK /\ LiveIsHeld /\ NotYetOpen /\ OneTransition /\ Generations

\* Transitions are numbered from 1, in order of arrival.
LEMMA TransitionNumbers ==
  /\ \A t \in Trans : t \in Nat /\ t # 0 /\ t \in 0..MaxTrans
  /\ \A t, u \in Trans : u < t => u \in 1..(t - 1)
  /\ \A t, u \in Trans : u < t \/ t < u \/ t = u
  /\ \A a \in 0..MaxTrans : a # 0 => a \in Trans
  /\ 0 \in 0..MaxTrans /\ 0 \in Nat
  BY ConnectionBounds DEF Trans

\* There is no observation and no transition at first.
LEMMA ConnInitially == Init => ConnInv
<1> SUFFICES ASSUME Init PROVE ConnInv
  OBVIOUS
<1>1. TypeOK
  BY TransitionNumbers DEF Init, TypeOK
<1>2. LiveIsHeld /\ NotYetOpen /\ OneTransition /\ Generations
  BY DEF Init, LiveIsHeld, NotYetOpen, OneTransition, Generations
<1> QED
  BY <1>1, <1>2 DEF ConnInv

\* A transition's own steps keep the invariant.
LEMMA TransitionStep ==
  ASSUME ConnInv, NEW t \in Trans,
         (\E verb \in Verbs[t] : RunTransition(t, verb)) \/ ServerStep(t) \/ LinkLost(t)
  PROVE  ConnInv'
<1> USE TransitionNumbers DEF ConnInv, TypeOK, Finished, ReleaseOf, ClearAttribution, Arrived, Turn
<1>1. ASSUME NEW verb \in Verbs[t], RunTransition(t, verb) PROVE ConnInv'
  <2> verb \in {"open", "new", "detach"}
    BY VerbsAssumption
  <2>1. TypeOK'
    BY <1>1 DEF RunTransition, obsVars, connVars
  <2>2. LiveIsHeld'
    BY <1>1 DEF RunTransition, obsVars, connVars, LiveIsHeld
  <2>3. NotYetOpen'
    BY <1>1 DEF RunTransition, obsVars, connVars, NotYetOpen
  <2>4. OneTransition'
    BY <1>1 DEF RunTransition, obsVars, connVars, OneTransition
  <2>5. Generations'
    BY <1>1 DEF RunTransition, obsVars, connVars, Generations
  <2> QED
    BY <2>1, <2>2, <2>3, <2>4, <2>5
<1>2. CASE RefuseTransition(t)
  <2>1. TypeOK'
    BY <1>2 DEF RefuseTransition, obsVars, connVars
  <2>2. LiveIsHeld'
    BY <1>2 DEF RefuseTransition, obsVars, connVars, LiveIsHeld
  <2>3. NotYetOpen'
    BY <1>2 DEF RefuseTransition, obsVars, connVars, NotYetOpen
  <2>4. OneTransition'
    BY <1>2 DEF RefuseTransition, obsVars, connVars, OneTransition
  <2>5. Generations'
    BY <1>2 DEF RefuseTransition, obsVars, connVars, Generations
  <2> QED
    BY <2>1, <2>2, <2>3, <2>4, <2>5
<1>3. CASE Detach(t)
  <2>1. TypeOK'
    BY <1>3 DEF Detach
  <2>2. LiveIsHeld'
    BY <1>3 DEF Detach, LiveIsHeld
  <2>3. NotYetOpen'
    BY <1>3 DEF Detach, NotYetOpen
  <2>4. OneTransition'
    BY <1>3 DEF Detach, OneTransition
  <2>5. Generations'
    BY <1>3 DEF Detach, Generations
  <2> QED
    BY <2>1, <2>2, <2>3, <2>4, <2>5
<1>4. CASE BeginAttach(t)
  <2>1. TypeOK'
    BY <1>4 DEF BeginAttach, obsVars
  <2>2. LiveIsHeld'
    BY <1>4 DEF BeginAttach, obsVars, LiveIsHeld
  <2>3. NotYetOpen'
    BY <1>4 DEF BeginAttach, obsVars, NotYetOpen
  <2>4. OneTransition'
    BY <1>4 DEF BeginAttach, obsVars, OneTransition
  <2>5. Generations'
    BY <1>4 DEF BeginAttach, obsVars, Generations
  <2> QED
    BY <2>1, <2>2, <2>3, <2>4, <2>5
<1>5. CASE InitialSync(t)
  <2>1. TypeOK'
    BY <1>5 DEF InitialSync, connVars
  <2>2. LiveIsHeld'
    BY <1>5 DEF InitialSync, connVars, LiveIsHeld
  <2>3. NotYetOpen'
    BY <1>5 DEF InitialSync, connVars, NotYetOpen
  <2>4. OneTransition'
    BY <1>5 DEF InitialSync, connVars, OneTransition
  <2>5. Generations'
    BY <1>5 DEF InitialSync, connVars, Generations
  <2> QED
    BY <2>1, <2>2, <2>3, <2>4, <2>5
<1>6. CASE OpenFails(t)
  <2>1. TypeOK'
    BY <1>6 DEF OpenFails, obsVars
  <2>2. LiveIsHeld'
    BY <1>6 DEF OpenFails, obsVars, LiveIsHeld
  <2>3. NotYetOpen'
    BY <1>6 DEF OpenFails, obsVars, NotYetOpen
  <2>4. OneTransition'
    BY <1>6 DEF OpenFails, obsVars, OneTransition
  <2>5. Generations'
    BY <1>6 DEF OpenFails, obsVars, Generations
  <2> QED
    BY <2>1, <2>2, <2>3, <2>4, <2>5
<1>7. CASE LinkLost(t)
  <2>1. TypeOK'
    BY <1>7 DEF LinkLost
  <2>2. LiveIsHeld'
    BY <1>7 DEF LinkLost, LiveIsHeld
  <2>3. NotYetOpen'
    BY <1>7 DEF LinkLost, NotYetOpen
  <2>4. OneTransition'
    BY <1>7 DEF LinkLost, OneTransition
  <2>5. Generations'
    BY <1>7 DEF LinkLost, Generations
  <2> QED
    BY <2>1, <2>2, <2>3, <2>4, <2>5
<1>8. CASE Attach(t)
  <2>1. \A u \in Trans : u # t => pc[u] \notin {"acquiring", "acquired", "attached"}
    BY <1>8 DEF Attach, OneTransition
  <2>2. TypeOK'
    BY <1>8, <2>1 DEF Attach
  <2>3. LiveIsHeld'
    BY <1>8, <2>1 DEF Attach, LiveIsHeld
  <2>4. NotYetOpen'
    BY <1>8, <2>1 DEF Attach, NotYetOpen
  <2>5. OneTransition'
    BY <1>8, <2>1 DEF Attach, OneTransition
  <2>6. Generations'
    BY <1>8, <2>1 DEF Attach, Generations
  <2> QED
    BY <2>2, <2>3, <2>4, <2>5, <2>6
<1>9. CASE FinishAttach(t)
  <2>1. TypeOK'
    BY <1>9 DEF FinishAttach, obsVars
  <2>2. LiveIsHeld'
    BY <1>9 DEF FinishAttach, obsVars, LiveIsHeld
  <2>3. NotYetOpen'
    BY <1>9 DEF FinishAttach, obsVars, NotYetOpen
  <2>4. OneTransition'
    BY <1>9 DEF FinishAttach, obsVars, OneTransition
  <2>5. Generations'
    BY <1>9 DEF FinishAttach, obsVars, Generations
  <2> QED
    BY <2>1, <2>2, <2>3, <2>4, <2>5
<1> QED
  BY <1>1, <1>2, <1>3, <1>4, <1>5, <1>6, <1>7, <1>8, <1>9 DEF ServerStep

\* What the Worker delivers keeps it: a terminal frame that ends the attachment
\* is the attachment's own.
LEMMA DeliveryStep ==
  ASSUME ConnInv, NEW o \in Trans, DeliverPatch(o) \/ DeliverClosed(o)
  PROVE  ConnInv'
<1> USE TransitionNumbers DEF ConnInv, TypeOK
<1>1. CASE DeliverPatch(o)
  <2>1. TypeOK'
    BY <1>1, ConnectionBounds DEF DeliverPatch, transVars, connVars
  <2>2. LiveIsHeld' /\ NotYetOpen'
    BY <1>1 DEF DeliverPatch, transVars, connVars, LiveIsHeld, NotYetOpen
  <2>3. OneTransition' /\ Generations'
    BY <1>1 DEF DeliverPatch, transVars, connVars, OneTransition, Generations
  <2> QED
    BY <2>1, <2>2, <2>3
<1>2. CASE DeliverClosed(o)
  <2>1. gen[o] = attachmentGeneration => o = attachment
    BY <1>2 DEF DeliverClosed, LiveIsHeld, Generations
  <2>2. TypeOK'
    BY <1>2 DEF DeliverClosed, transVars
  <2>3. LiveIsHeld' /\ NotYetOpen'
    BY <1>2, <2>1 DEF DeliverClosed, transVars, LiveIsHeld, NotYetOpen
  <2>4. OneTransition' /\ Generations'
    BY <1>2 DEF DeliverClosed, transVars, OneTransition, Generations
  <2> QED
    BY <2>2, <2>3, <2>4
<1> QED
  BY <1>1, <1>2

\* Every step keeps the invariant.
LEMMA ConnInductive == ConnInv /\ [Next]_vars => ConnInv'
<1> SUFFICES ASSUME ConnInv, [Next]_vars PROVE ConnInv'
  OBVIOUS
<1>1. CASE Dispose
  <2> USE TransitionNumbers DEF ConnInv, TypeOK, ReleaseOf, transVars
  <2>1. TypeOK'
    BY <1>1 DEF Dispose
  <2>2. LiveIsHeld' /\ NotYetOpen'
    BY <1>1 DEF Dispose, LiveIsHeld, NotYetOpen
  <2>3. OneTransition' /\ Generations'
    BY <1>1 DEF Dispose, OneTransition, Generations
  <2> QED
    BY <2>1, <2>2, <2>3
<1>2. CASE \/ \E p \in Pull : AdmitPull(p) \/ ReplyPull(p)
           \/ HandleReplace \/ HandlePatch \/ HandleClosed \/ HandleValues \/ UNCHANGED vars
  <2>1. UNCHANGED <<transVars, obsVars, connVars>>
    BY <1>2 DEF AdmitPull, ReplyPull, HandleReplace, HandlePatch, HandleClosed, HandleValues, vars
  <2> QED
    BY <2>1 DEF transVars, obsVars, connVars, ConnInv, TypeOK, LiveIsHeld, NotYetOpen, OneTransition,
       Generations
<1> QED
  BY <1>1, <1>2, TransitionStep, DeliveryStep DEF Next

\* The invariant holds throughout.
LEMMA ConnInvariance == Spec => []ConnInv
  BY ConnInitially, ConnInductive, PTL DEF Spec

-----------------------------------------------------------------------------
(* The mirror *)

\* The transition became the attachment at some moment.
HasAttached(o) == \/ pc[o] = "attached"
                  \/ pc[o] = "done" /\ reply[o] = "ok" /\ what[o] \in {"open", "new"}

\* A transition has a generation from the moment it runs, and sends from the
\* initial sync on.
Started ==
  /\ \A t, u \in Trans : gen[t] # 0 /\ u < t => pc[u] = "done"
  /\ \A t \in Trans : /\ pc[t] \in {"none", "queued"} => gen[t] = 0
                      /\ pc[t] \in {"acquiring", "acquired", "attached"} => what[t] \in {"open", "new"}
                      /\ pc[t] = "acquired" => obs[t] # "none"
                      /\ obs[t] = "none" => sent[t] = 0
                      /\ obs[t] # "none" => gen[t] # 0

\* A failed acquisition's generation is used again, an attachment's never.
NeverReused ==
  /\ \A o \in Trans : HasAttached(o) => obs[o] # "none" /\ gen[o] <= attachmentGeneration
  /\ \A o, t \in Trans : HasAttached(o) /\ o < t /\ gen[t] # 0 => gen[o] < gen[t]
  /\ attachment # 0 => HasAttached(attachment)

\* A pull keeps the generation of the attachment it was admitted on.
PullsAreStamped ==
  /\ pulls \in [Pull -> [obs : 0..MaxTrans, gen : Nat, state : {"none", "admitted", "done"}]]
  /\ \A p \in Pull : pulls[p].state = "admitted" =>
       pulls[p].obs \in Trans /\ HasAttached(pulls[p].obs) /\ pulls[p].gen = gen[pulls[p].obs]

StampInv == Started /\ NeverReused /\ PullsAreStamped

\* The stamps of an observation, and of none.
Stamp(o) == IF o = 0 THEN 0 ELSE gen[o]

\* A frame is stamped with the generation of the observation it comes from.
Frames == [kind : {"replace", "patch", "closed", "values"}, gen : Nat, obs : Trans, n : Nat,
           op : 0..MaxTrans]
FromStream(f) == f \in Frames /\ f.gen = gen[f.obs] /\ obs[f.obs] # "none"

\* The frame would be admitted by a mirror of observation o.
Admitted(f, o) == f.kind \in {"patch", "values"} /\ f.gen = Stamp(o)

\* A frame that meets a mirror with c frames of observation o leaves one with
\* c2 frames of o2; what is admitted is o's own next frame.
Links(f, o, c, o2, c2) ==
  /\ f.kind = "replace" => o2 = f.obs /\ c2 = 1
  /\ f.kind # "replace" =>
       /\ o2 = o
       /\ Admitted(f, o) => f.obs = o
       /\ IF Admitted(f, o) /\ f.kind = "patch" THEN f.n = c /\ c2 = c + 1 ELSE c2 = c

\* The observation the mirror replicates.
MirrorOf == IF mirror.log = <<>> THEN 0 ELSE mirror.log[1].obs

\* own[i] and cnt[i]: the mirror's observation and length after i more frames.
Ledger(own, cnt) ==
  /\ own \in [0..Len(wire) -> 0..MaxTrans] /\ cnt \in [0..Len(wire) -> Nat]
  /\ own[0] = MirrorOf /\ cnt[0] = Len(mirror.log)
  /\ \A i \in 0..Len(wire) : own[i] # 0 => obs[own[i]] # "none"
  /\ \A i \in 1..Len(wire) : Links(wire[i], own[i - 1], cnt[i - 1], own[i], cnt[i])

\* After everything sent, the mirror is that of the newest observation, complete.
UpToDate(o, c) ==
  ~disposed => /\ \A t \in Trans : o < t => obs[t] = "none"
               /\ o # 0 => obs[o] # "none" /\ c = sent[o] + 1

WireInv ==
  /\ wire \in Seq(Frames)
  /\ \A i \in 1..Len(wire) : FromStream(wire[i])
  /\ \E own, cnt : Ledger(own, cnt) /\ UpToDate(own[Len(wire)], cnt[Len(wire)])

MirrorInv ==
  /\ mirror \in [gen : Nat, log : Seq([obs : Trans, n : Nat])]
  /\ mirror.gen = Stamp(MirrorOf)
  /\ MirrorOf # 0 => obs[MirrorOf] # "none"
  /\ MirrorIsOneStream
  /\ \A o \in merged : mirror.log # <<>> /\ o = MirrorOf

StreamInv == ConnInv /\ StampInv /\ WireInv /\ MirrorInv

\* A transition's own steps keep the stamps.
LEMMA TransitionStamps ==
  ASSUME ConnInv, StampInv, NEW t \in Trans,
         (\E verb \in Verbs[t] : RunTransition(t, verb)) \/ ServerStep(t) \/ LinkLost(t)
  PROVE  StampInv'
<1> USE TransitionNumbers DEF ConnInv, TypeOK, Finished, ReleaseOf, ClearAttribution, Arrived, Turn, HasAttached
<1>1. ASSUME NEW verb \in Verbs[t], RunTransition(t, verb) PROVE StampInv'
  <2>1. Started'
    BY <1>1 DEF RunTransition, obsVars, connVars, StampInv, Started
  <2>2. \A o \in Trans : HasAttached(o)' <=> HasAttached(o)
    BY <1>1 DEF RunTransition
  <2>3. NeverReused'
    BY <1>1, <2>2 DEF RunTransition, obsVars, connVars, StampInv, NeverReused
  <2>4. PullsAreStamped'
    BY <1>1, <2>2 DEF RunTransition, StampInv, PullsAreStamped
  <2> QED
    BY <2>1, <2>3, <2>4 DEF StampInv
<1>2. CASE RefuseTransition(t) \/ Detach(t) \/ OpenFails(t) \/ LinkLost(t) \/ FinishAttach(t)
  <2>1. \A o \in Trans : HasAttached(o)' <=> HasAttached(o)
    BY <1>2 DEF RefuseTransition, Detach, OpenFails, LinkLost, FinishAttach, StampInv, Started
  <2>2. /\ gen' = gen /\ sent' = sent /\ pulls' = pulls /\ attachmentGeneration' = attachmentGeneration
        /\ attachment' \in {attachment, 0} /\ what' = what
        /\ \A u \in Trans : pc'[u] = IF u = t THEN "done" ELSE pc[u]
    BY <1>2 DEF RefuseTransition, Detach, OpenFails, LinkLost, FinishAttach, obsVars, connVars
  <2>3. \A u \in Trans : obs'[u] = "none" <=> obs[u] = "none"
    BY <1>2 DEF RefuseTransition, Detach, OpenFails, LinkLost, FinishAttach, obsVars
  <2>4. Started'
    BY <2>2, <2>3 DEF StampInv, Started
  <2>5. NeverReused'
    BY <2>1, <2>2, <2>3 DEF StampInv, NeverReused
  <2>6. PullsAreStamped'
    BY <2>1, <2>2 DEF StampInv, PullsAreStamped
  <2> QED
    BY <2>4, <2>5, <2>6 DEF StampInv
<1>3. CASE BeginAttach(t)
  <2>1. \A o \in Trans : (HasAttached(o)' <=> HasAttached(o)) /\ (HasAttached(o) => o # t)
    BY <1>3 DEF BeginAttach
  <2>2. Started'
    BY <1>3 DEF BeginAttach, obsVars, StampInv, Started
  <2>3. \A o \in Trans : HasAttached(o) => gen[o] < attachmentGeneration + 1
    BY DEF StampInv, NeverReused
  <2>4. NeverReused'
    BY <1>3, <2>1, <2>3 DEF BeginAttach, obsVars, StampInv, NeverReused
  <2>5. PullsAreStamped'
    BY <1>3, <2>1 DEF BeginAttach, StampInv, PullsAreStamped
  <2> QED
    BY <2>2, <2>4, <2>5 DEF StampInv
<1>4. CASE InitialSync(t)
  <2>1. \A o \in Trans : (HasAttached(o)' <=> HasAttached(o)) /\ (HasAttached(o) => o # t)
    BY <1>4 DEF InitialSync
  <2>2. gen[t] # 0
    BY <1>4 DEF InitialSync, Generations
  <2>3. Started'
    BY <1>4, <2>2 DEF InitialSync, StampInv, Started
  <2>4. NeverReused'
    BY <1>4, <2>1 DEF InitialSync, connVars, StampInv, NeverReused
  <2>5. PullsAreStamped'
    BY <1>4, <2>1 DEF InitialSync, StampInv, PullsAreStamped
  <2> QED
    BY <2>3, <2>4, <2>5 DEF StampInv
<1>5. CASE Attach(t)
  <2>1. \A o \in Trans : (obs'[o] = "none" <=> obs[o] = "none")
    BY <1>5 DEF Attach
  <2>2. gen' = gen /\ sent' = sent /\ pulls' = pulls /\ what' = what
    BY <1>5 DEF Attach
  <2>3. Started'
    BY <1>5, <2>1, <2>2 DEF Attach, StampInv, Started
  <2>4. CASE disposed
    <3>1. \A o \in Trans : HasAttached(o)' <=> HasAttached(o)
      BY <1>5, <2>4 DEF Attach
    <3>2. NeverReused'
      BY <1>5, <2>1, <2>2, <2>4, <3>1 DEF Attach, StampInv, NeverReused
    <3> QED
      BY <2>2, <2>3, <3>1, <3>2 DEF StampInv, PullsAreStamped
  <2>5. CASE ~disposed
    <3>1. \A o \in Trans : HasAttached(o)' <=> HasAttached(o) \/ o = t
      BY <1>5, <2>5 DEF Attach
    <3>2. gen[t] = attachmentGeneration + 1 /\ attachmentGeneration' = gen[t] /\ attachment' = t
          /\ obs[t] # "none"
      BY <1>5, <2>5 DEF Attach, Generations, StampInv, Started
    <3>3. \A u \in Trans : t < u => gen[u] = 0
      BY <1>5 DEF Attach, StampInv, Started
    <3>4. \A o \in Trans : HasAttached(o) => gen[o] <= attachmentGeneration + 1
      BY DEF StampInv, NeverReused
    <3>5. NeverReused'
      BY <2>1, <2>2, <3>1, <3>2, <3>3, <3>4 DEF StampInv, NeverReused
    <3> QED
      BY <2>2, <2>3, <3>1, <3>5 DEF StampInv, PullsAreStamped
  <2> QED
    BY <2>4, <2>5
<1> QED
  BY <1>1, <1>2, <1>3, <1>4, <1>5 DEF ServerStep

\* So do the others.
LEMMA StampStep == ConnInv /\ StampInv /\ [Next]_vars => StampInv'
<1> SUFFICES ASSUME ConnInv, StampInv, [Next]_vars PROVE StampInv'
  OBVIOUS
<1> USE TransitionNumbers DEF ConnInv, TypeOK, HasAttached
<1>1. ASSUME NEW o \in Trans, DeliverPatch(o) PROVE StampInv'
  BY <1>1, ConnectionBounds DEF DeliverPatch, transVars, connVars, StampInv, Started, NeverReused,
     PullsAreStamped
<1>2. ASSUME NEW o \in Trans, DeliverClosed(o) PROVE StampInv'
  BY <1>2 DEF DeliverClosed, transVars, StampInv, Started, NeverReused, PullsAreStamped
<1>3. CASE Dispose
  BY <1>3 DEF Dispose, ReleaseOf, transVars, StampInv, Started, NeverReused, PullsAreStamped
<1>4. ASSUME NEW p \in Pull, AdmitPull(p) PROVE StampInv'
  <2>1. attachment \in Trans /\ HasAttached(attachment) /\ attachmentGeneration = gen[attachment]
    BY <1>4 DEF AdmitPull, Generations, StampInv, NeverReused
  <2>2. PullsAreStamped'
    BY <1>4, <2>1 DEF AdmitPull, transVars, StampInv, PullsAreStamped
  <2> QED
    BY <1>4, <2>2 DEF AdmitPull, transVars, obsVars, connVars, StampInv, Started, NeverReused
<1>5. ASSUME NEW p \in Pull, ReplyPull(p) PROVE StampInv'
  <2>1. PullsAreStamped'
    BY <1>5 DEF ReplyPull, transVars, StampInv, PullsAreStamped
  <2> QED
    BY <1>5, <2>1 DEF ReplyPull, transVars, obsVars, connVars, StampInv, Started, NeverReused
<1>6. CASE HandleReplace \/ HandlePatch \/ HandleClosed \/ HandleValues \/ UNCHANGED vars
  <2>1. UNCHANGED <<transVars, obsVars, connVars, pulls>>
    BY <1>6 DEF HandleReplace, HandlePatch, HandleClosed, HandleValues, vars
  <2> QED
    BY <2>1 DEF transVars, obsVars, connVars, StampInv, Started, NeverReused, PullsAreStamped
<1> QED
  BY <1>1, <1>2, <1>3, <1>4, <1>5, <1>6, TransitionStamps DEF Next

\* No step takes back a generation or an observation.
Grows == \A o \in Trans : obs[o] # "none" => obs'[o] # "none" /\ gen'[o] = gen[o]

\* With the generations, what a frame does to a mirror stays what it is.
LEMMA StampsStay ==
  ASSUME Grows, NEW o \in 0..MaxTrans, o # 0 => obs[o] # "none"
  PROVE  Stamp(o)' = Stamp(o) /\ \A f : Admitted(f, o)' <=> Admitted(f, o)
<1>1. Stamp(o)' = Stamp(o)
  BY TransitionNumbers DEF Grows, Stamp
<1> QED
  BY <1>1 DEF Admitted

LEMMA LinksStay ==
  ASSUME Grows, NEW o \in 0..MaxTrans, o # 0 => obs[o] # "none",
         NEW f, NEW c, NEW o2, NEW c2, Links(f, o, c, o2, c2)
  PROVE  Links(f, o, c, o2, c2)'
  BY StampsStay DEF Links

\* A step that sends nothing, or whose frame the closed socket swallows.
LEMMA NothingSent ==
  ASSUME WireInv, Grows, UNCHANGED <<wire, mirror>>, disposed => disposed',
         ~disposed' => sent' = sent /\ \A o \in Trans : obs'[o] = "none" <=> obs[o] = "none"
  PROVE  WireInv'
<1>1. PICK own, cnt : Ledger(own, cnt) /\ UpToDate(own[Len(wire)], cnt[Len(wire)])
  BY DEF WireInv
<1>2. wire \in Seq(Frames) /\ Len(wire) \in Nat
  BY DEF WireInv
<1>3. \A i \in 1..Len(wire) : FromStream(wire[i])'
  BY DEF WireInv, FromStream, Grows, Frames
<1>4. \A i \in 1..Len(wire) : Links(wire[i], own[i - 1], cnt[i - 1], own[i], cnt[i])'
  <2> SUFFICES ASSUME NEW i \in 1..Len(wire)
               PROVE  Links(wire[i], own[i - 1], cnt[i - 1], own[i], cnt[i])'
    OBVIOUS
  <2>1. i - 1 \in 0..Len(wire)
    BY <1>2
  <2>2. own[i - 1] \in 0..MaxTrans /\ (own[i - 1] # 0 => obs[own[i - 1]] # "none")
    BY <1>1, <2>1 DEF Ledger
  <2>3. Links(wire[i], own[i - 1], cnt[i - 1], own[i], cnt[i])
    BY <1>1 DEF Ledger
  <2> QED
    BY <2>2, <2>3, LinksStay
<1>5. Ledger(own, cnt)'
  <2>1. \A i \in 0..Len(wire) : own[i] # 0 => obs'[own[i]] # "none"
    BY <1>1, TransitionNumbers DEF Ledger, Grows
  <2> QED
    BY <1>1, <1>4, <2>1 DEF Ledger, MirrorOf
<1>6. UpToDate(own[Len(wire)], cnt[Len(wire)])'
  BY <1>1, <1>2, TransitionNumbers DEF UpToDate, Ledger
<1> QED
  BY <1>2, <1>3, <1>5, <1>6 DEF WireInv, Frames

\* A frame that continues what was sent before it.
LEMMA OneSent ==
  ASSUME WireInv, Grows, UNCHANGED mirror, NEW f \in Frames, FromStream(f)',
         wire' = Append(wire, f),
         \A o \in 0..MaxTrans, c \in Nat : UpToDate(o, c) =>
           \E o2 \in 0..MaxTrans, c2 \in Nat :
             /\ Links(f, o, c, o2, c2)'
             /\ UpToDate(o2, c2)'
             /\ o2 # 0 => obs'[o2] # "none"
  PROVE  WireInv'
<1>1. PICK own, cnt : Ledger(own, cnt) /\ UpToDate(own[Len(wire)], cnt[Len(wire)])
  BY DEF WireInv
<1>w. PICK L \in Nat, w \in Seq(Frames) : L = Len(w) /\ w = wire
  BY DEF WireInv
<1>2. PICK w2 : L = Len(w) /\ w = wire /\ w2 = wire'
  BY <1>w
<1>3. own[L] \in 0..MaxTrans /\ cnt[L] \in Nat
  BY <1>1, <1>2 DEF Ledger
<1>4. PICK o2 \in 0..MaxTrans, c2 \in Nat :
        Links(f, own[L], cnt[L], o2, c2)' /\ UpToDate(o2, c2)' /\ (o2 # 0 => obs'[o2] # "none")
  BY <1>1, <1>2, <1>3
<1> DEFINE own2 == [i \in 0..(L + 1) |-> IF i <= L THEN own[i] ELSE o2]
           cnt2 == [i \in 0..(L + 1) |-> IF i <= L THEN cnt[i] ELSE c2]
<1>5. /\ w2 \in Seq(Frames) /\ Len(w2) = L + 1
      /\ \A i \in 1..(L + 1) : w2[i] = IF i <= L THEN w[i] ELSE f
  BY <1>2
<1>6. \A i \in 1..(L + 1) : FromStream(w2[i])'
  <2>1. \A i \in 1..L : FromStream(w[i])'
    BY <1>2 DEF WireInv, FromStream, Grows, Frames
  <2> QED
    BY <1>5, <2>1
<1>7. \A i \in 1..L : Links(w[i], own[i - 1], cnt[i - 1], own[i], cnt[i])'
  <2> SUFFICES ASSUME NEW i \in 1..L
               PROVE  Links(w[i], own[i - 1], cnt[i - 1], own[i], cnt[i])'
    OBVIOUS
  <2>1. i - 1 \in 0..L
    OBVIOUS
  <2>2. own[i - 1] \in 0..MaxTrans /\ (own[i - 1] # 0 => obs[own[i - 1]] # "none")
    BY <1>1, <1>2, <2>1 DEF Ledger
  <2>3. Links(w[i], own[i - 1], cnt[i - 1], own[i], cnt[i])
    BY <1>1, <1>2 DEF Ledger
  <2> QED
    BY <2>2, <2>3, LinksStay
<1>8. \A i \in 1..(L + 1) : Links(w2[i], own2[i - 1], cnt2[i - 1], own2[i], cnt2[i])'
  <2> SUFFICES ASSUME NEW i \in 1..(L + 1)
               PROVE  Links(w2[i], own2[i - 1], cnt2[i - 1], own2[i], cnt2[i])'
    OBVIOUS
  <2>1. CASE i \in 1..L
    <3>1. /\ own2[i] = own[i] /\ cnt2[i] = cnt[i] /\ own2[i - 1] = own[i - 1] /\ cnt2[i - 1] = cnt[i - 1]
          /\ w2[i] = w[i]
      BY <2>1, <1>5
    <3> QED
      BY <2>1, <3>1, <1>7 DEF Links, Admitted, Stamp
  <2>2. CASE i = L + 1
    <3>1. /\ own2[i] = o2 /\ cnt2[i] = c2 /\ own2[i - 1] = own[L] /\ cnt2[i - 1] = cnt[L]
          /\ w2[i] = f
      BY <2>2, <1>5
    <3> QED
      BY <3>1, <1>4 DEF Links, Admitted, Stamp
  <2> QED
    BY <2>1, <2>2
<1>9. \A i \in 0..(L + 1) : own2[i] # 0 => obs'[own2[i]] # "none"
  <2>1. \A i \in 0..L : own[i] # 0 => obs'[own[i]] # "none"
    BY <1>1, <1>2, TransitionNumbers DEF Ledger, Grows
  <2> QED
    BY <2>1, <1>4
<1>10. own2 \in [0..(L + 1) -> 0..MaxTrans] /\ cnt2 \in [0..(L + 1) -> Nat]
  BY <1>1, <1>2 DEF Ledger
<1>11. own2[0] = MirrorOf /\ cnt2[0] = Len(mirror.log)
  BY <1>1, <1>2 DEF Ledger
<1>12. own2[L + 1] = o2 /\ cnt2[L + 1] = c2
  OBVIOUS
<1> HIDE DEF own2, cnt2
<1>13. Ledger(own2, cnt2)'
  BY <1>2, <1>5, <1>8, <1>9, <1>10, <1>11 DEF Ledger, MirrorOf
<1>14. UpToDate(own2[L + 1], cnt2[L + 1])'
  BY <1>4, <1>12 DEF UpToDate
<1> QED
  <2>1. Ledger(own2, cnt2)' /\ UpToDate(own2[Len(wire)], cnt2[Len(wire)])'
    BY <1>2, <1>5, <1>13, <1>14
  <2>2. \A i \in 1..Len(wire') : FromStream(wire[i])'
    BY <1>2, <1>5, <1>6 DEF FromStream
  <2> QED
    BY <1>2, <1>5, <2>1, <2>2 DEF WireInv, Frames

\* The next frame is some observation's, and fits the mirror.
LEMMA NextFrame ==
  ASSUME WireInv, wire # <<>>
  PROVE  /\ Head(wire) \in Frames /\ FromStream(Head(wire))
         /\ \E o2 \in 0..MaxTrans, c2 \in Nat :
              /\ Links(Head(wire), MirrorOf, Len(mirror.log), o2, c2)
              /\ o2 # 0 => obs[o2] # "none"
<1>1. PICK own, cnt : Ledger(own, cnt)
  BY DEF WireInv
<1>2. PICK L \in Nat : L = Len(wire) /\ L >= 1
  BY DEF WireInv
<1>3. Head(wire) = wire[1] /\ Head(wire) \in Frames
  BY DEF WireInv
<1>4. FromStream(wire[1])
  BY <1>2 DEF WireInv
<1>5. /\ own[1] \in 0..MaxTrans /\ cnt[1] \in Nat
      /\ own[1] # 0 => obs[own[1]] # "none"
  BY <1>1, <1>2 DEF Ledger
<1>6. Links(wire[1], own[1 - 1], cnt[1 - 1], own[1], cnt[1])
  BY <1>1, <1>2 DEF Ledger
<1>7. own[1 - 1] = MirrorOf /\ cnt[1 - 1] = Len(mirror.log)
  BY <1>1 DEF Ledger
<1> QED
  BY <1>3, <1>4, <1>5, <1>6, <1>7

\* The client takes a frame as the ledger says it will.
LEMMA OneReceived ==
  ASSUME WireInv, UNCHANGED <<gen, obs, sent, disposed>>, wire # <<>>, wire' = Tail(wire),
         \A o2 \in 0..MaxTrans, c2 \in Nat :
           Links(Head(wire), MirrorOf, Len(mirror.log), o2, c2)
             => MirrorOf' = o2 /\ Len(mirror'.log) = c2
  PROVE  WireInv'
<1>1. PICK own, cnt : Ledger(own, cnt) /\ UpToDate(own[Len(wire)], cnt[Len(wire)])
  BY DEF WireInv
<1>w. PICK L \in Nat, w \in Seq(Frames) : L + 1 = Len(w) /\ w = wire
  <2>1. wire \in Seq(Frames) /\ Len(wire) \in Nat /\ Len(wire) >= 1
    BY DEF WireInv
  <2>2. Len(wire) - 1 \in Nat /\ (Len(wire) - 1) + 1 = Len(wire)
    BY <2>1
  <2> QED
    BY <2>1, <2>2
<1>2. PICK w2 : L + 1 = Len(w) /\ w = wire /\ w2 = wire'
  BY <1>w
<1>3. /\ w2 \in Seq(Frames) /\ Len(w2) = L
      /\ \A i \in 1..L : w2[i] = w[i + 1]
  BY <1>2
<1> DEFINE own2 == [i \in 0..L |-> own[i + 1]]
           cnt2 == [i \in 0..L |-> cnt[i + 1]]
<1>4. /\ own \in [0..(L + 1) -> 0..MaxTrans] /\ cnt \in [0..(L + 1) -> Nat]
      /\ own[0] = MirrorOf /\ cnt[0] = Len(mirror.log)
      /\ \A i \in 0..(L + 1) : own[i] # 0 => obs[own[i]] # "none"
      /\ \A i \in 1..(L + 1) : Links(w[i], own[i - 1], cnt[i - 1], own[i], cnt[i])
  BY <1>1, <1>2 DEF Ledger
<1>5. Head(wire) = w[1]
  BY <1>2
<1>6. MirrorOf' = own[1] /\ Len(mirror'.log) = cnt[1]
  <2>1. own[1] \in 0..MaxTrans /\ cnt[1] \in Nat
    BY <1>4
  <2>2. Links(w[1], own[1 - 1], cnt[1 - 1], own[1], cnt[1])
    BY <1>4
  <2>3. own[1 - 1] = MirrorOf /\ cnt[1 - 1] = Len(mirror.log)
    BY <1>4
  <2> QED
    BY <1>5, <2>1, <2>2, <2>3
<1>7. \A i \in 1..L : Links(w2[i], own2[i - 1], cnt2[i - 1], own2[i], cnt2[i])
  <2> SUFFICES ASSUME NEW i \in 1..L
               PROVE  Links(w2[i], own2[i - 1], cnt2[i - 1], own2[i], cnt2[i])
    OBVIOUS
  <2>1. PICK j \in 1..(L + 1) : j = i + 1 /\ j - 1 = i
    OBVIOUS
  <2>2. Links(w[j], own[j - 1], cnt[j - 1], own[j], cnt[j])
    BY <1>4
  <2>3. own2[i - 1] = own[j - 1] /\ cnt2[i - 1] = cnt[j - 1] /\ own2[i] = own[j] /\ cnt2[i] = cnt[j]
        /\ w2[i] = w[j]
    BY <2>1, <1>3
  <2> QED
    BY <2>2, <2>3
<1>8. /\ own2 \in [0..L -> 0..MaxTrans] /\ cnt2 \in [0..L -> Nat]
      /\ own2[0] = own[1] /\ cnt2[0] = cnt[1]
      /\ \A i \in 0..L : own2[i] # 0 => obs[own2[i]] # "none"
      /\ own2[L] = own[L + 1] /\ cnt2[L] = cnt[L + 1]
  <2>1. \A i \in 0..L : i + 1 \in 0..(L + 1)
    OBVIOUS
  <2>2. own2 \in [0..L -> 0..MaxTrans] /\ cnt2 \in [0..L -> Nat]
    BY <1>4, <2>1
  <2>3. \A i \in 0..L : own2[i] # 0 => obs[own2[i]] # "none"
    BY <1>4, <2>1
  <2>4. own2[0] = own[1] /\ cnt2[0] = cnt[1] /\ own2[L] = own[L + 1] /\ cnt2[L] = cnt[L + 1]
    OBVIOUS
  <2> HIDE DEF own2, cnt2
  <2> QED
    BY <2>2, <2>3, <2>4
<1> HIDE DEF own2, cnt2
<1>9. \A i \in 1..L : Links(w2[i], own2[i - 1], cnt2[i - 1], own2[i], cnt2[i])'
  BY <1>7 DEF Links, Admitted, Stamp
<1>10. Ledger(own2, cnt2)'
  BY <1>2, <1>3, <1>6, <1>8, <1>9 DEF Ledger
<1>11. UpToDate(own2[L], cnt2[L])'
  BY <1>1, <1>2, <1>8 DEF UpToDate
<1>12. Ledger(own2, cnt2)' /\ UpToDate(own2[Len(wire)], cnt2[Len(wire)])'
  BY <1>2, <1>3, <1>10, <1>11
<1>13. \A i \in 1..L : FromStream(w2[i])'
  BY <1>2, <1>3 DEF WireInv, FromStream
<1>14. \A i \in 1..Len(wire') : FromStream(wire[i])'
  BY <1>2, <1>3, <1>13 DEF FromStream
<1> QED
  BY <1>2, <1>3, <1>12, <1>14 DEF WireInv, Frames

\* Sequences, seen through their elements.
LEMMA FirstElement ==
  ASSUME NEW S, NEW l \in Seq(S), l # <<>>
  PROVE  l[1] \in S
  OBVIOUS

LEMMA AppendedElements ==
  ASSUME NEW S, NEW l \in Seq(S), NEW e \in S
  PROVE  /\ Append(l, e) \in Seq(S) /\ Len(Append(l, e)) = Len(l) + 1
         /\ \A i \in 1..(Len(l) + 1) : Append(l, e)[i] = IF i <= Len(l) THEN l[i] ELSE e
  OBVIOUS

\* A step that leaves the client alone leaves its mirror what it is.
LEMMA MirrorStays ==
  ASSUME MirrorInv, Grows, UNCHANGED clientVars
  PROVE  MirrorInv'
<1>1. MirrorOf' = MirrorOf /\ MirrorOf \in 0..MaxTrans
  <2>1. PICK l \in Seq([obs : Trans, n : Nat]) : l = mirror.log
    BY DEF MirrorInv
  <2>2. l # <<>> => l[1] \in [obs : Trans, n : Nat]
    BY FirstElement
  <2> QED
    BY <2>1, <2>2, TransitionNumbers DEF clientVars, MirrorOf
<1>2. Stamp(MirrorOf)' = Stamp(MirrorOf) /\ (MirrorOf # 0 => obs'[MirrorOf] # "none")
  BY <1>1, TransitionNumbers DEF MirrorInv, Grows, Stamp
<1>3. MirrorIsOneStream'
  BY DEF MirrorInv, MirrorIsOneStream, clientVars
<1> QED
  BY <1>1, <1>2, <1>3 DEF MirrorInv, clientVars

\* What an observation delivers comes from the newest one, or no mirror that has
\* everything sent before admits it.
LEMMA DeliversInOrder ==
  ASSUME ConnInv, StampInv, NEW o \in Trans, obs[o] = "live" \/ HasAttached(o), disposed = FALSE,
         NEW c \in 0..MaxTrans, NEW k \in Nat, UpToDate(c, k)
  PROVE  c \in Trans /\ gen[o] # 0 /\ (gen[o] = gen[c] => o = c)
<1>1. obs[o] # "none"
  BY DEF StampInv, NeverReused
<1>2. ~(c < o)
  BY <1>1 DEF UpToDate
<1>3. c \in Trans /\ gen[o] # 0 /\ gen[c] # 0
  BY <1>1, <1>2, TransitionNumbers DEF StampInv, Started, UpToDate
<1>4. o < c => HasAttached(o)
  <2> SUFFICES ASSUME o < c PROVE HasAttached(o)
    OBVIOUS
  <2>1. pc[o] = "done"
    BY <1>3 DEF StampInv, Started
  <2>2. obs[o] = "live" => o = attachment
    BY <2>1 DEF ConnInv, LiveIsHeld
  <2> QED
    BY <2>2, TransitionNumbers DEF StampInv, NeverReused
<1>5. o < c => gen[o] < gen[c]
  BY <1>3, <1>4 DEF StampInv, NeverReused
<1>6. gen[o] \in Nat /\ gen[c] \in Nat
  BY <1>3 DEF ConnInv, TypeOK
<1> QED
  BY <1>2, <1>3, <1>5, <1>6, TransitionNumbers

\* Transitions keep the wire's invariant: the initial sync begins a stream newer
\* than any before it.
LEMMA TransitionWire ==
  ASSUME StreamInv, NEW t \in Trans,
         (\E verb \in Verbs[t] : RunTransition(t, verb)) \/ ServerStep(t) \/ LinkLost(t)
  PROVE  WireInv' /\ MirrorInv'
<1> USE TransitionNumbers DEF StreamInv, ConnInv, TypeOK
<1>1. Grows /\ disposed' = disposed /\ UNCHANGED clientVars /\ sent' = sent
  BY DEF StampInv, Started, Grows, Turn, ServerStep, RunTransition, RefuseTransition, Detach, BeginAttach, InitialSync,
     OpenFails, LinkLost, Attach, FinishAttach, ReleaseOf, obsVars, connVars, NotYetOpen
<1>2. MirrorInv'
  BY <1>1, MirrorStays
<1>3. mirror' = mirror
  BY <1>1 DEF clientVars
<1>4. CASE InitialSync(t)
  <2>1. PICK f \in Frames :
          f = [kind |-> "replace", gen |-> gen[t], obs |-> t, n |-> 0, op |-> syncAttribution]
    BY DEF Frames
  <2>2. FromStream(f)'
    BY <1>4, <2>1 DEF InitialSync, FromStream, Frames
  <2>3. CASE disposed
    <3>1. wire' = wire
      BY <1>4, <2>3 DEF InitialSync, Send
    <3> QED
      BY <1>1, <1>2, <1>3, <2>3, <3>1, NothingSent
  <2>4. CASE ~disposed
    <3>1. wire' = Append(wire, f)
      BY <1>4, <2>1, <2>4 DEF InitialSync, Send
    <3>2. /\ obs'[t] # "none" /\ sent'[t] = 0
          /\ \A u \in Trans : t < u => obs'[u] = "none"
      BY <1>1, <1>4 DEF InitialSync, StampInv, Started, NotYetOpen
    <3>3. UpToDate(t, 1)'
      BY <3>2 DEF UpToDate
    <3>4. \A o \in 0..MaxTrans, c \in Nat : Links(f, o, c, t, 1)'
      BY <2>1 DEF Links
    <3>5. t \in 0..MaxTrans /\ 1 \in Nat
      OBVIOUS
    <3>6. \A o \in 0..MaxTrans, c \in Nat : UpToDate(o, c) =>
           \E o2 \in 0..MaxTrans, c2 \in Nat :
             Links(f, o, c, o2, c2)' /\ UpToDate(o2, c2)' /\ (o2 # 0 => obs'[o2] # "none")
      BY <3>2, <3>3, <3>4, <3>5
    <3> QED
      BY <1>1, <1>2, <1>3, <2>1, <2>2, <3>1, <3>6, OneSent
  <2> QED
    BY <2>3, <2>4
<1>5. CASE ~InitialSync(t)
  <2>1. wire' = wire /\ \A o \in Trans : obs'[o] = "none" <=> obs[o] = "none"
    BY <1>5 DEF ServerStep, RunTransition, RefuseTransition, Detach, BeginAttach,
       OpenFails, LinkLost, Attach, FinishAttach, ReleaseOf, obsVars, connVars
  <2> QED
    BY <1>1, <1>2, <1>3, <2>1, NothingSent
<1> QED
  BY <1>4, <1>5

\* Deliveries and pull replies keep it: each continues the newest stream or is
\* admitted by no mirror of it.
LEMMA DeliveryWire ==
  ASSUME StreamInv,
         \/ \E o \in Trans : DeliverPatch(o) \/ DeliverClosed(o)
         \/ \E p \in Pull : ReplyPull(p)
  PROVE  WireInv' /\ MirrorInv'
<1> USE TransitionNumbers DEF StreamInv, ConnInv, TypeOK
<1>1. /\ gen' = gen /\ disposed' = disposed /\ UNCHANGED clientVars
      /\ \A o \in Trans : obs'[o] = "none" <=> obs[o] = "none"
  BY DEF DeliverPatch, DeliverClosed, ReplyPull, transVars, connVars, obsVars
<1>2. MirrorInv' /\ Grows /\ mirror' = mirror
  BY <1>1, MirrorStays DEF Grows, clientVars
<1>3. ASSUME NEW o \in Trans, DeliverPatch(o), disposed PROVE WireInv'
  <2>1. wire' = wire
    BY <1>3 DEF DeliverPatch, Send
  <2> QED
    BY <1>1, <1>2, <1>3, <2>1, NothingSent
<1>4. ASSUME NEW o \in Trans, DeliverPatch(o), ~disposed PROVE WireInv'
  <2>1. PICK f \in Frames : f = [kind |-> "patch", gen |-> gen[o], obs |-> o, n |-> sent[o] + 1, op |-> 0]
    <3>1. gen[o] \in Nat /\ sent[o] + 1 \in Nat
      OBVIOUS
    <3> QED
      BY <3>1 DEF Frames
  <2>2. wire' = Append(wire, f) /\ obs[o] = "live"
    BY <1>4, <2>1 DEF DeliverPatch, Send
  <2>3. FromStream(f)'
    BY <1>1, <2>1, <2>2 DEF FromStream, Frames
  <2>4. /\ sent' = [sent EXCEPT ![o] = sent[o] + 1] /\ sent[o] \in Nat
    BY <1>4 DEF DeliverPatch
  <2>5. ASSUME NEW c \in 0..MaxTrans, NEW k \in Nat, UpToDate(c, k)
        PROVE  \E c2 \in 0..MaxTrans, k2 \in Nat :
                 Links(f, c, k, c2, k2)' /\ UpToDate(c2, k2)' /\ (c2 # 0 => obs'[c2] # "none")
    <3>1. c \in Trans /\ gen[o] # 0 /\ (gen[o] = gen[c] => o = c)
      BY <1>4, <2>2, <2>5, DeliversInOrder
    <3>2. /\ \A u \in Trans : c < u => obs'[u] = "none"
          /\ obs'[c] # "none" /\ k = sent[c] + 1
      BY <1>1, <1>4, <2>5, <3>1 DEF UpToDate
    <3>3. CASE gen[o] = gen[c]
      <4>1. Links(f, c, k, c, k + 1)'
        BY <1>1, <2>1, <3>1, <3>2, <3>3 DEF Links, Admitted, Stamp
      <4>2. UpToDate(c, k + 1)'
        BY <2>4, <3>1, <3>2, <3>3 DEF UpToDate
      <4> QED
        BY <3>2, <4>1, <4>2
    <3>4. CASE gen[o] # gen[c]
      <4>1. Links(f, c, k, c, k)'
        BY <1>1, <2>1, <3>1, <3>4 DEF Links, Admitted, Stamp
      <4>2. UpToDate(c, k)'
        BY <2>4, <3>1, <3>2, <3>4 DEF UpToDate
      <4> QED
        BY <3>2, <4>1, <4>2
    <3> QED
      BY <3>3, <3>4
  <2> QED
    BY <1>2, <2>2, <2>3, <2>5, OneSent
<1>5. ASSUME NEW o \in Trans, DeliverClosed(o) PROVE WireInv'
  <2>1. PICK f \in Frames : f = [kind |-> "closed", gen |-> gen[o], obs |-> o, n |-> 0, op |-> 0]
    BY DEF Frames
  <2>2. wire' = (IF disposed THEN wire ELSE Append(wire, f)) /\ obs[o] = "live" /\ sent' = sent
    BY <1>5, <2>1 DEF DeliverClosed, Send
  <2>3. FromStream(f)'
    BY <1>1, <2>1, <2>2 DEF FromStream, Frames
  <2>4. ASSUME NEW c \in 0..MaxTrans, NEW k \in Nat, UpToDate(c, k), ~disposed
        PROVE  \E c2 \in 0..MaxTrans, k2 \in Nat :
                 Links(f, c, k, c2, k2)' /\ UpToDate(c2, k2)' /\ (c2 # 0 => obs'[c2] # "none")
    <3>1. Links(f, c, k, c, k)'
      BY <2>1 DEF Links, Admitted
    <3>2. UpToDate(c, k)'
      BY <1>1, <2>2, <2>4 DEF UpToDate
    <3>3. (c # 0 => obs'[c] # "none")
      BY <1>1, <2>4 DEF UpToDate
    <3> QED
      BY <3>1, <3>2, <3>3
  <2>5. CASE disposed
    BY <1>1, <1>2, <2>2, <2>5, NothingSent
  <2>6. CASE ~disposed
    BY <1>2, <2>2, <2>3, <2>4, <2>6, OneSent
  <2> QED
    BY <2>5, <2>6
<1>6. ASSUME NEW p \in Pull, ReplyPull(p) PROVE WireInv'
  <2>0. PICK o \in Trans : o = pulls[p].obs /\ HasAttached(o) /\ pulls[p].gen = gen[o]
    BY <1>6 DEF ReplyPull, StampInv, PullsAreStamped
  <2>1. PICK f \in Frames : f = [kind |-> "values", gen |-> gen[o], obs |-> o, n |-> 0, op |-> 0]
    BY DEF Frames
  <2>2. sent' = sent /\ obs' = obs /\ (wire' = wire \/ (~disposed /\ wire' = Append(wire, f)))
    BY <1>6, <2>0, <2>1 DEF ReplyPull, Send, obsVars
  <2>3. FromStream(f)'
    BY <1>1, <2>0, <2>1, <2>2 DEF FromStream, Frames, StampInv, NeverReused
  <2>4. ASSUME NEW c \in 0..MaxTrans, NEW k \in Nat, UpToDate(c, k), ~disposed
        PROVE  \E c2 \in 0..MaxTrans, k2 \in Nat :
                 Links(f, c, k, c2, k2)' /\ UpToDate(c2, k2)' /\ (c2 # 0 => obs'[c2] # "none")
    <3>1. c \in Trans /\ gen[o] # 0 /\ (gen[o] = gen[c] => o = c)
      BY <2>0, <2>4, DeliversInOrder
    <3>2. Links(f, c, k, c, k)'
      BY <1>1, <2>1, <3>1 DEF Links, Admitted, Stamp
    <3>3. UpToDate(c, k)' /\ obs'[c] # "none"
      BY <1>1, <2>2, <2>4, <3>1 DEF UpToDate
    <3> QED
      BY <3>2, <3>3
  <2>5. CASE wire' = wire
    BY <1>1, <1>2, <2>2, <2>5, NothingSent
  <2>6. CASE ~disposed /\ wire' = Append(wire, f)
    BY <1>2, <2>3, <2>4, <2>6, OneSent
  <2> QED
    BY <2>2, <2>5, <2>6
<1> QED
  BY <1>2, <1>3, <1>4, <1>5, <1>6

\* The client's handlers keep it: a replacement begins the mirror anew, and an
\* admitted patch or value is of the observation the mirror replicates.
LEMMA ClientWire ==
  ASSUME StreamInv, HandleReplace \/ HandlePatch \/ HandleClosed \/ HandleValues
  PROVE  WireInv' /\ MirrorInv'
<1> USE TransitionNumbers DEF StreamInv, Arriving
<1>1. wire # <<>> /\ wire' = Tail(wire) /\ UNCHANGED <<gen, obs, sent, disposed>>
  BY DEF HandleReplace, HandlePatch, HandleClosed, HandleValues, transVars, obsVars, connVars
<1>2. PICK f \in Frames : f = Head(wire) /\ FromStream(f)
  BY <1>1, NextFrame
<1>3. PICK l \in Seq([obs : Trans, n : Nat]), g \in Nat : mirror = [gen |-> g, log |-> l]
  BY DEF MirrorInv
<1>4. PICK o2 \in 0..MaxTrans, c2 \in Nat :
        Links(f, MirrorOf, Len(l), o2, c2) /\ (o2 # 0 => obs[o2] # "none")
  BY <1>1, <1>2, <1>3, NextFrame
<1>5. PICK k \in Nat : k = Len(l) /\ (k = 0 <=> l = <<>>)
  OBVIOUS
<1>6. /\ MirrorOf = IF l = <<>> THEN 0 ELSE l[1].obs
      /\ l # <<>> => l[1] \in [obs : Trans, n : Nat]
      /\ \A i \in 1..k : l[i] = [obs |-> l[1].obs, n |-> i - 1]
      /\ g = Stamp(MirrorOf)
  <2>1. l # <<>> => l[1] \in [obs : Trans, n : Nat]
    BY FirstElement
  <2>2. \A i \in 1..k : l[i] = [obs |-> l[1].obs, n |-> i - 1]
    BY <1>3, <1>5 DEF MirrorInv, MirrorIsOneStream
  <2> QED
    BY <1>3, <2>1, <2>2 DEF MirrorInv, MirrorOf
<1>7. f.obs \in Trans /\ f.gen = gen[f.obs] /\ f.gen \in Nat /\ f.n \in Nat /\ obs[f.obs] # "none"
  BY <1>2 DEF Frames, FromStream
<1>8. f.gen # 0
  BY <1>7 DEF StampInv, Started
<1>9. g # 0 => l # <<>>
  BY <1>6 DEF Stamp
<1>10. MirrorOf \in 0..MaxTrans
  BY <1>6
<1>11. CASE HandleReplace
  <2>1. mirror' = [gen |-> f.gen, log |-> <<[obs |-> f.obs, n |-> 0]>>] /\ merged' = {} /\ f.kind = "replace"
    BY <1>2, <1>11 DEF HandleReplace
  <2>2. MirrorOf' = f.obs /\ Len(mirror'.log) = 1
    BY <2>1 DEF MirrorOf
  <2>3. WireInv'
    BY <1>1, <1>2, <2>1, <2>2, OneReceived DEF Links
  <2>4. MirrorIsOneStream'
    BY <2>1 DEF MirrorIsOneStream
  <2>5. Stamp(MirrorOf)' = f.gen
    BY <1>1, <1>7, <2>2 DEF Stamp
  <2> QED
    BY <1>1, <1>7, <2>1, <2>2, <2>3, <2>4, <2>5 DEF MirrorInv
<1>12. CASE HandlePatch
  <2>1. CASE g # 0 /\ f.gen = g
    <3>1. /\ mirror' = [gen |-> g, log |-> Append(l, [obs |-> f.obs, n |-> f.n])]
          /\ merged' = merged /\ f.kind = "patch"
      BY <1>2, <1>3, <1>12, <2>1 DEF HandlePatch
    <3>2. f.obs = MirrorOf /\ f.n = k
      BY <1>4, <1>5, <1>6, <2>1, <3>1 DEF Links, Admitted
    <3>3. PICK l2 \in Seq([obs : Trans, n : Nat]) :
            /\ l2 = Append(l, [obs |-> f.obs, n |-> f.n])
            /\ Len(l2) = k + 1 /\ \A i \in 1..(k + 1) : l2[i] = IF i <= k THEN l[i] ELSE [obs |-> f.obs, n |-> f.n]
      <4>1. PICK e \in [obs : Trans, n : Nat] : e = [obs |-> f.obs, n |-> f.n]
        BY <1>7
      <4>2. /\ Append(l, e) \in Seq([obs : Trans, n : Nat]) /\ Len(Append(l, e)) = k + 1
            /\ \A i \in 1..(k + 1) : Append(l, e)[i] = IF i <= k THEN l[i] ELSE e
        BY <1>5, AppendedElements
      <4> QED
        BY <4>1, <4>2
    <3>4. k # 0 /\ l2 # <<>>
      BY <1>5, <1>9, <2>1, <3>3
    <3>5. l2[1] = l[1] /\ MirrorOf = l[1].obs
      BY <1>5, <1>6, <3>3, <3>4
    <3>6. \A i \in 1..(k + 1) : l2[i] = [obs |-> l2[1].obs, n |-> i - 1]
      BY <1>6, <3>2, <3>3, <3>5
    <3>7. MirrorOf' = MirrorOf /\ Len(mirror'.log) = k + 1 /\ mirror'.log = l2 /\ mirror'.gen = g
      BY <3>1, <3>3, <3>4, <3>5 DEF MirrorOf
    <3>8. \A u \in 0..MaxTrans, c \in Nat : Links(f, MirrorOf, k, u, c) => u = MirrorOf /\ c = k + 1
      BY <1>6, <2>1, <3>1 DEF Links, Admitted
    <3>9. WireInv'
      BY <1>1, <1>2, <1>3, <1>5, <3>7, <3>8, OneReceived
    <3>10. MirrorIsOneStream'
      BY <3>3, <3>6, <3>7 DEF MirrorIsOneStream
    <3>11. Stamp(MirrorOf)' = g
      BY <1>1, <1>6, <3>7 DEF Stamp
    <3>12. mirror' \in [gen : Nat, log : Seq([obs : Trans, n : Nat])]
      BY <3>1, <3>3
    <3>13. /\ MirrorOf # 0 => obs[MirrorOf] # "none"
           /\ \A o \in merged : o = MirrorOf
      BY DEF MirrorInv
    <3> QED
      BY <1>1, <3>1, <3>4, <3>7, <3>9, <3>10, <3>11, <3>12, <3>13 DEF MirrorInv
  <2>2. CASE ~(g # 0 /\ f.gen = g)
    <3>1. mirror' = mirror /\ merged' = merged /\ f.kind = "patch"
      BY <1>2, <1>3, <1>12, <2>2 DEF HandlePatch
    <3>2. ~Admitted(f, MirrorOf)
      BY <1>6, <1>8, <2>2 DEF Admitted
    <3>3. \A u \in 0..MaxTrans, c \in Nat : Links(f, MirrorOf, k, u, c) => u = MirrorOf /\ c = k
      BY <3>1, <3>2 DEF Links
    <3>4. MirrorOf' = MirrorOf /\ Len(mirror'.log) = k
      BY <1>3, <1>5, <3>1 DEF MirrorOf
    <3>5. WireInv'
      BY <1>1, <1>2, <1>3, <1>5, <3>3, <3>4, OneReceived
    <3> QED
      BY <1>1, <3>1, <3>5, MirrorStays DEF Grows, clientVars
  <2> QED
    BY <2>1, <2>2
<1>13. CASE HandleClosed \/ HandleValues
  <2>1. mirror' = mirror /\ f.kind \in {"closed", "values"}
    BY <1>2, <1>13 DEF HandleClosed, HandleValues, clientVars
  <2>2. \A u \in 0..MaxTrans, c \in Nat : Links(f, MirrorOf, k, u, c) => u = MirrorOf /\ c = k
    BY <2>1 DEF Links
  <2>3. MirrorOf' = MirrorOf /\ Len(mirror'.log) = k
    BY <1>3, <1>5, <2>1 DEF MirrorOf
  <2>4. WireInv'
    BY <1>1, <1>2, <1>3, <1>5, <2>2, <2>3, OneReceived
  <2>5. \A o \in merged' : mirror.log # <<>> /\ o = MirrorOf
    <3>1. CASE HandleClosed
      BY <3>1 DEF HandleClosed, clientVars, MirrorInv
    <3>2. CASE HandleValues
      <4>1. /\ f.kind = "values"
            /\ merged' = IF g # 0 /\ f.gen = g THEN merged \cup {f.obs} ELSE merged
        BY <1>2, <1>3, <3>2 DEF HandleValues
      <4>2. g # 0 /\ f.gen = g => f.obs = MirrorOf /\ mirror.log # <<>>
        BY <1>3, <1>4, <1>6, <1>9, <4>1 DEF Links, Admitted
      <4> QED
        BY <4>1, <4>2 DEF MirrorInv
    <3> QED
      BY <1>13, <3>1, <3>2
  <2>6. Stamp(MirrorOf)' = Stamp(MirrorOf) /\ MirrorIsOneStream'
    BY <1>1, <2>1, <2>3 DEF Stamp, MirrorInv, MirrorIsOneStream
  <2> QED
    BY <1>1, <2>1, <2>3, <2>4, <2>5, <2>6 DEF MirrorInv
<1> QED
  BY <1>11, <1>12, <1>13

\* Every step keeps the whole.
LEMMA StreamInductive == StreamInv /\ [Next]_vars => StreamInv'
<1> SUFFICES ASSUME StreamInv, [Next]_vars PROVE StreamInv'
  OBVIOUS
<1>1. ConnInv' /\ StampInv'
  BY ConnInductive, StampStep DEF StreamInv
<1>2. CASE Dispose \/ (\E p \in Pull : AdmitPull(p)) \/ UNCHANGED vars
  <2>1. /\ UNCHANGED <<gen, sent, wire, mirror, clientVars>> /\ (disposed => disposed')
        /\ \A o \in Trans : obs'[o] = "none" <=> obs[o] = "none"
    BY <1>2 DEF Dispose, AdmitPull, ReleaseOf, vars, transVars, obsVars, connVars, clientVars,
       StreamInv, ConnInv, TypeOK
  <2>2. Grows
    BY <2>1 DEF Grows
  <2>3. WireInv' /\ MirrorInv'
    BY <2>1, <2>2, NothingSent, MirrorStays DEF StreamInv
  <2> QED
    BY <1>1, <2>3 DEF StreamInv
<1>3. ASSUME NEW t \in Trans, (\E verb \in Verbs[t] : RunTransition(t, verb)) \/ ServerStep(t) \/ LinkLost(t)
      PROVE  StreamInv'
  BY <1>1, <1>3, TransitionWire DEF StreamInv
<1>4. CASE (\E o \in Trans : DeliverPatch(o) \/ DeliverClosed(o)) \/ (\E p \in Pull : ReplyPull(p))
  BY <1>1, <1>4, DeliveryWire DEF StreamInv
<1>5. CASE HandleReplace \/ HandlePatch \/ HandleClosed \/ HandleValues
  BY <1>1, <1>5, ClientWire DEF StreamInv
<1> QED
  BY <1>2, <1>3, <1>4, <1>5 DEF Next

LEMMA StreamInitially == Init => StreamInv
<1> SUFFICES ASSUME Init PROVE StreamInv
  OBVIOUS
<1> USE TransitionNumbers DEF Init
<1>1. StampInv
  BY DEF StampInv, Started, NeverReused, PullsAreStamped, HasAttached, NoPull
<1>2. Len(wire) = 0 /\ wire \in Seq(Frames) /\ MirrorOf = 0 /\ Len(mirror.log) = 0
  BY DEF MirrorOf
<1>3. Ledger([i \in {0} |-> 0], [i \in {0} |-> 0])
  <2>1. 0..0 = {0} /\ 1..0 = {}
    OBVIOUS
  <2> QED
    BY <1>2, <2>1 DEF Ledger
<1>4. UpToDate(0, 0)
  BY DEF UpToDate
<1>5. WireInv
  <2>1. \A i \in 1..Len(wire) : FromStream(wire[i])
    BY <1>2
  <2>2. [i \in {0} |-> 0][Len(wire)] = 0
    BY <1>2
  <2> QED
    BY <1>2, <1>3, <1>4, <2>1, <2>2 DEF WireInv
<1>6. MirrorInv
  <2>1. <<>> \in Seq([obs : Trans, n : Nat]) /\ DOMAIN mirror.log = {}
    OBVIOUS
  <2> QED
    BY <1>2, <2>1 DEF MirrorInv, Stamp, MirrorIsOneStream
<1> QED
  BY <1>1, <1>5, <1>6, ConnInitially DEF StreamInv

LEMMA StreamInvariance == Spec => []StreamInv
  BY StreamInitially, StreamInductive, PTL DEF Spec

\* The variables of the server's side keep their types, generations included.
THEOREM TypeCorrect == Spec => []TypeOK
<1>1. ConnInv => TypeOK
  BY DEF ConnInv
<1> QED
  BY <1>1, ConnInvariance, PTL

\* Between transitions the only live observation is the attachment's, and after
\* disposal there is none: however opens, failures, terminal frames and the
\* closing of the socket interleave, no Worker observation is left unreleased.
THEOREM NothingPinned == Spec => []OnlyAttachmentLive
<1>1. ConnInv => OnlyAttachmentLive
  BY DEF ConnInv, TypeOK, LiveIsHeld, OnlyAttachmentLive, Quiet
<1> QED
  BY <1>1, ConnInvariance, PTL

\* ADR 19: at whatever moment frames of superseded, failed or released
\* attachments arrive, the client's mirror is a gap-free prefix of one
\* observation's stream.
THEOREM MirrorReplicatesOne == Spec => []MirrorIsOneStream
<1>1. StreamInv => MirrorIsOneStream
  BY DEF StreamInv, MirrorInv
<1> QED
  BY <1>1, StreamInvariance, PTL

\* ADR 19: a pull admitted on one attachment and answered after another took its
\* place never fills the other's mirror.
THEOREM PulledValuesStayHome == Spec => []PullsStayHome
<1>1. StreamInv => PullsStayHome
  <2> SUFFICES ASSUME StreamInv, NEW o \in merged PROVE \E i \in DOMAIN mirror.log : mirror.log[i].obs = o
    BY DEF PullsStayHome
  <2>1. mirror.log # <<>> /\ o = mirror.log[1].obs /\ mirror.log \in Seq([obs : Trans, n : Nat])
    BY DEF StreamInv, MirrorInv, MirrorOf
  <2>2. 1 \in DOMAIN mirror.log
    BY <2>1
  <2> QED
    BY <2>1, <2>2
<1> QED
  BY <1>1, StreamInvariance, PTL
=============================================================================
