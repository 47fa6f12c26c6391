----------------------- MODULE ActivationRegistryProofs -----------------------
(***************************************************************************)
(* One runtime per address and per durable id, and none left when the      *)
(* Worker gives up its storage locks: for any number of requests,          *)
(* addresses, ids and registrations, whatever closes reject.               *)
(*                                                                         *)
(* AddressExclusive counts; its proof is about identities (Exclusive).     *)
(* What keeps two creations of one address apart is the pending map        *)
(* (PendingInv), what keeps a creation apart from a registration is that   *)
(* the indexes lead to every runtime that is up (Indexed) and that a       *)
(* closing one is being collected (ActorInv), and what keeps a created     *)
(* Session apart from an opened one is that its address is nobody else's   *)
(* until its first flush (FreshInv).  From shutdown on the indexes are     *)
(* empty; the drain's own lists take their place (DrainInv).               *)
(***************************************************************************)
EXTENDS ActivationRegistry, FiniteSetTheorems, TLAPS

\* The registration's runtime is up or going down.
Up(g) == phase[g] \in {"live", "closing"}

\* The task builds a Manager or throws one away.
Builds(t) == pc[t] \in {"building", "rejecting", "factory"}

\* The task's creation is in the pending map.
Creating(t) == pc[t] \in {"building", "rejecting", "created", "createFailed"}

\* The places only an open passes through.
OpenSteps == {"reserve", "joinCollect", "joinCreation", "building", "created", "createFailed",
              "reserved"}

\* A task's place and its kind go together; a fresh creation is tracked.
TaskInv ==
  \A t \in Task :
    /\ pc[t] = "idle" => kind[t] = "none"
    /\ pc[t] \in OpenSteps => kind[t] = "open"
    /\ pc[t] = "rejecting" => kind[t] \in {"open", "new"}
    /\ pc[t] = "factory" => kind[t] = "new"
    /\ kind[t] = "new" => addr[t] \in Fresh /\ (Builds(t) => t \in creations)

\* Generations are handed out in order; until shutdown, closing is being collected.
ActorInv ==
  /\ \A g \in Gen : /\ phase[g] # "unborn" => g <= generations
                    /\ collecting[g] => phase[g] = "closing"
                    /\ ~disposed /\ phase[g] = "closing" => collecting[g]
  /\ \A g \in records \cup remaining : phase[g] # "unborn"

\* The pending map holds exactly the opens whose creation is under way.
PendingInv ==
  /\ \A a \in Address : pending[a] # None =>
       addr[pending[a]] = a /\ Creating(pending[a]) /\ kind[pending[a]] = "open"
  /\ ~disposed => \A t \in Task : kind[t] = "open" /\ Creating(t) => pending[addr[t]] = t

\* No file, no creation in flight and no registration, past or present.
Untouched(a) ==
  /\ ~file[a] /\ pending[a] = None
  /\ \A g \in Gen : addrOf[g] = a => phase[g] = "unborn"

\* A fresh address is untouched until the one creation that gets it has registered.
FreshInv ==
  /\ \A a \in Fresh : (\A u \in Task : kind[u] = "new" => addr[u] # a) => Untouched(a)
  /\ \A t \in Task : kind[t] = "new" /\ Builds(t) => Untouched(addr[t])
  /\ \A t, u \in Task : kind[t] = "new" /\ kind[u] = "new" /\ addr[t] = addr[u] => t = u

\* Until shutdown the indexes lead to every runtime that is up.
Indexed ==
  ~disposed => \A g \in Gen : Up(g) =>
    g \in records /\ byAddress[addrOf[g]] = g /\ owner[IdOf[addrOf[g]]] = g

\* One runtime per durable id, one builder per address, never both.
Exclusive ==
  /\ \A g, h \in Gen : Up(g) /\ Up(h) /\ IdOf[addrOf[g]] = IdOf[addrOf[h]] => g = h
  /\ \A t, u \in Task : Builds(t) /\ Builds(u) /\ addr[t] = addr[u] => t = u
  /\ \A g \in Gen, t \in Task : Up(g) /\ Builds(t) => addrOf[g] # addr[t]

\* The drain still has before it whatever is up or being built.
DrainInv ==
  /\ disposed <=> drain # "none"
  /\ ~disposed => remaining = {} /\ current = 0
  /\ current # 0 => current \in remaining
  /\ \A g \in remaining : ~collecting[g]
  /\ disposed => \A g \in Gen : Up(g) => (collecting[g] /\ g \in draining.gens) \/ g \in remaining
  /\ drain = "waiting" => \A t \in Task : Builds(t) => t \in draining.tasks
  /\ drain \in {"closing", "done", "failed"} =>
       (\A t \in Task : ~Builds(t)) /\ \A g \in Gen : Up(g) => g \in remaining
  /\ drain = "done" => remaining = {}

\* The inductive invariant.
RegistryInv ==
  TypeOK /\ TaskInv /\ ActorInv /\ PendingInv /\ FreshInv /\ Indexed /\ Exclusive /\ DrainInv

-----------------------------------------------------------------------------
(* Types *)

\* What the operators the actions are built from return.
LEMMA OperatorTypes ==
  ASSUME TypeOK
  PROVE  /\ \A a \in Address : ByAddressAny(a) \in 0..MaxGen
         /\ \A g \in 0..MaxGen : Live(g) \/ Collecting(g) \/ MayCollect(g) => g \in Gen
         /\ \A t \in Task : AfterCollect(t, TRUE) \in Steps /\ AfterCollect(t, FALSE) \in Steps
  BY BoundAssumption DEF TypeOK, ByAddressAny, Live, Collecting, MayCollect, Gen, AfterCollect, Steps,
     Ended

\* A task moves to a place that exists.
LEMMA GotoType ==
  ASSUME TypeOK, NEW t \in Task, NEW s \in Steps, Goto(t, s)
  PROVE  pc' \in [Task -> Steps]
  BY DEF TypeOK, Goto

\* The types of what a registration writes.
LEMMA RegisterType ==
  ASSUME TypeOK, NEW a \in Address, Register(a)
  PROVE  /\ generations + 1 \in Gen /\ generations' \in 0..MaxGen /\ records' \subseteq Gen
         /\ byAddress' \in [Address -> 0..MaxGen] /\ owner' \in [SessionId -> 0..MaxGen]
         /\ addrOf' \in [Gen -> Address]
         /\ phase' \in [Gen -> {"unborn", "live", "closing", "closed", "broken"}]
         /\ UNCHANGED <<collecting, idleTimer>>
<1>1. generations + 1 \in Gen /\ generations + 1 \in 0..MaxGen
  BY BoundAssumption DEF TypeOK, Register, Gen
<1> QED
  BY <1>1 DEF TypeOK, Register

\* The types of what a settled creation writes.
LEMMA SettleType ==
  ASSUME TypeOK, NEW t \in Task, NEW s \in Steps, NEW j \in Steps, NEW g \in 0..MaxGen,
         SettleCreation(t, s, j, g)
  PROVE  pc' \in [Task -> Steps] /\ rec' \in [Task -> 0..MaxGen]
<1>1. "settle" \in Steps
  BY DEF Steps
<1> QED
  BY <1>1 DEF TypeOK, SettleCreation

\* The types of what the beginning of a disposal writes.
LEMMA CollectType ==
  ASSUME TypeOK, NEW g \in 0..MaxGen, BeginCollect(g)
  PROVE  /\ addrOf' \in [Gen -> Address]
         /\ phase' \in [Gen -> {"unborn", "live", "closing", "closed", "broken"}]
         /\ collecting' \in [Gen -> BOOLEAN] /\ idleTimer' \in [Gen -> BOOLEAN]
  BY DEF TypeOK, BeginCollect

\* Every step keeps the types.
LEMMA TypeInductive == TypeOK /\ [Next]_vars => TypeOK'
<1> SUFFICES ASSUME TypeOK, [Next]_vars PROVE TypeOK'
  OBVIOUS
<1> USE DEF taskVars, indexVars, actorVars, drainVars
<1>1. ASSUME NEW t \in Task, NEW r \in Requests[t], Begin(t, r[1], r[2]) PROVE TypeOK'
  <2>1. r[1] \in {"open", "new", "close", "archive"} /\ r[2] \in Address
    BY RegistrySwitchAssumption DEF Address
  <2> QED
    BY <1>1, <2>1 DEF TypeOK, Begin, Goto, Steps, Ended
<1>2. ASSUME NEW t \in Task, Reserve(t) PROVE TypeOK'
  <2>1. addr[t] \in Address /\ ByAddressAny(addr[t]) \in 0..MaxGen
    BY OperatorTypes DEF TypeOK
  <2>2. pc' \in [Task -> Steps]
    <3>1. {"failed", "reserved", "joinCollect", "joinCreation", "building"} \subseteq Steps
      BY DEF Steps, Ended
    <3>2. PICK s \in {"failed", "reserved", "joinCollect", "joinCreation", "building"} : Goto(t, s)
      BY <1>2 DEF Reserve
    <3> QED
      BY <3>1, <3>2, GotoType
  <2>3. rec' \in [Task -> 0..MaxGen] /\ pending' \in [Address -> Task \cup {None}]
    BY <1>2, <2>1 DEF TypeOK, Reserve
  <2> QED
    BY <1>2, <2>2, <2>3 DEF TypeOK, Reserve
<1>3. ASSUME NEW t \in Task, Built(t) PROVE TypeOK'
  <2>1. {"rejecting", "created", "reserved"} \subseteq Steps /\ addr[t] \in Address
    BY DEF Steps, TypeOK
  <2>2. CASE Goto(t, "rejecting") /\ UNCHANGED <<rec, byAddress, owner, records, generations, actorVars>>
    BY <1>3, <2>1, <2>2, GotoType DEF TypeOK, Built
  <2>3. CASE Register(addr[t]) /\ SettleCreation(t, "created", "reserved", generations + 1)
    <3>1. generations + 1 \in 0..MaxGen
      BY <2>1, <2>3, RegisterType, BoundAssumption DEF Gen
    <3>2. pc' \in [Task -> Steps] /\ rec' \in [Task -> 0..MaxGen]
      BY <2>1, <2>3, <3>1, SettleType
    <3> QED
      BY <1>3, <2>1, <2>3, <3>2, RegisterType DEF TypeOK, Built
  <2> QED
    BY <1>3, <2>2, <2>3 DEF Built
<1>4. ASSUME NEW t \in Task, CreationRejects(t) PROVE TypeOK'
  <2>1. {"createFailed", "failed"} \subseteq Steps /\ 0 \in 0..MaxGen
    BY BoundAssumption DEF Steps, Ended
  <2>2. pc' \in [Task -> Steps] /\ rec' \in [Task -> 0..MaxGen]
    BY <1>4, <2>1, SettleType DEF CreationRejects
  <2> QED
    BY <1>4, <2>2 DEF TypeOK, CreationRejects
<1>5. ASSUME NEW t \in Task, Created(t) \/ Reserved(t) \/ Install(t) \/ Leave(t) PROVE TypeOK'
  BY <1>5 DEF TypeOK, Created, Reserved, Install, Leave, Goto, Live, Steps, Ended
<1>6. ASSUME NEW t \in Task, NewBuilt(t) PROVE TypeOK'
  <2>1. {"rejecting", "preparing"} \subseteq Steps /\ addr[t] \in Address
    BY DEF Steps, TypeOK
  <2>2. CASE Goto(t, "rejecting") /\ UNCHANGED <<rec, byAddress, owner, records, generations, actorVars>>
    BY <1>6, <2>1, <2>2, GotoType DEF TypeOK, NewBuilt
  <2>3. CASE /\ Register(addr[t]) /\ Goto(t, "preparing")
             /\ rec' = [rec EXCEPT ![t] = generations + 1]
    <3>1. generations + 1 \in 0..MaxGen
      BY <2>1, <2>3, RegisterType, BoundAssumption DEF Gen
    <3>2. pc' \in [Task -> Steps] /\ rec' \in [Task -> 0..MaxGen]
      BY <2>1, <2>3, <3>1, GotoType DEF TypeOK
    <3> QED
      BY <1>6, <2>1, <2>3, <3>2, RegisterType DEF TypeOK, NewBuilt
  <2> QED
    BY <1>6, <2>2, <2>3 DEF NewBuilt
<1>7. ASSUME NEW t \in Task, NewRejects(t) \/ Prepared(t) PROVE TypeOK'
  BY <1>7 DEF TypeOK, NewRejects, Prepared, Goto, Steps, Ended
<1>8. ASSUME NEW t \in Task, PrepareFails(t) \/ DecideClose(t) \/ DecideArchive(t) PROVE TypeOK'
  <2>1. {"awaitCollect", "failed", "done", "move"} \subseteq Steps /\ rec[t] \in 0..MaxGen
    BY DEF Steps, Ended, TypeOK
  <2>2. PICK s \in {"awaitCollect", "failed", "done", "move"} : Goto(t, s)
    BY <1>8 DEF PrepareFails, DecideClose, DecideArchive
  <2>3. pc' \in [Task -> Steps]
    BY <2>1, <2>2, GotoType
  <2>4. BeginCollect(rec[t]) \/ UNCHANGED actorVars
    BY <1>8 DEF PrepareFails, DecideClose, DecideArchive
  <2>5. creations' \subseteq Task
    BY <1>8 DEF TypeOK, PrepareFails, DecideClose, DecideArchive
  <2>6. UNCHANGED <<file, kind, addr, rec, byAddress, owner, pending, records, generations, disposed,
                    drainVars>>
    BY <1>8 DEF PrepareFails, DecideClose, DecideArchive
  <2> QED
    BY <2>1, <2>3, <2>4, <2>5, <2>6, CollectType DEF TypeOK
<1>9. ASSUME NEW t \in Task, AwaitSettled(t) PROVE TypeOK'
  <2>1. {"decide", "joinSettled"} \subseteq Steps /\ ByAddressAny(addr[t]) \in 0..MaxGen
    BY OperatorTypes DEF Steps, TypeOK
  <2>2. pc' \in [Task -> Steps]
    BY <1>9, <2>1, GotoType DEF AwaitSettled
  <2> QED
    BY <1>9, <2>1, <2>2 DEF TypeOK, AwaitSettled
<1>10. ASSUME NEW t \in Task, Move(t) PROVE TypeOK'
  BY <1>10 DEF TypeOK, Move, Goto, Steps, Ended
<1>11. ASSUME NEW g \in Gen, IdleFires(g) PROVE TypeOK'
  <2>1. g \in 0..MaxGen
    BY BoundAssumption DEF Gen
  <2>2. CASE BeginCollect(g)
    BY <1>11, <2>1, <2>2, CollectType DEF TypeOK, IdleFires
  <2>3. CASE ~BeginCollect(g)
    BY <1>11, <2>3 DEF TypeOK, IdleFires
  <2> QED
    BY <2>2, <2>3
<1>12. ASSUME NEW g \in Gen, Flush(g) PROVE TypeOK'
  BY <1>12 DEF TypeOK, Flush
<1>13. ASSUME NEW g \in Gen, Collected(g) PROVE TypeOK'
  <2>1. "ended" \in Steps /\ 0 \in 0..MaxGen
    BY BoundAssumption DEF Steps, Ended
  <2>2. pc' \in [Task -> Steps]
    BY <1>13, <2>1, OperatorTypes DEF TypeOK, Collected
  <2>3. byAddress' \in [Address -> 0..MaxGen]
    BY <1>13, <2>1 DEF TypeOK, Collected
  <2>4. owner' \in [SessionId -> 0..MaxGen]
    BY <1>13, <2>1 DEF TypeOK, Collected
  <2> QED
    BY <1>13, <2>2, <2>3, <2>4 DEF TypeOK, Collected
<1>14. ASSUME NEW g \in Gen, CollectFails(g) PROVE TypeOK'
  <2>1. pc' \in [Task -> Steps]
    BY <1>14, OperatorTypes DEF TypeOK, CollectFails
  <2> QED
    BY <1>14, <2>1 DEF TypeOK, CollectFails
<1>15. CASE Dispose
  BY <1>15, BoundAssumption DEF TypeOK, Dispose, StopServing, PendingTasks, Steps, Ended
<1>16. ASSUME NEW g \in Gen, DrainClose(g) PROVE TypeOK'
  BY <1>16, BoundAssumption DEF TypeOK, DrainClose, Gen
<1>17. CASE DrainSettled \/ DrainFails \/ DrainDone
  BY <1>17 DEF TypeOK, DrainSettled, DrainFails, DrainDone
<1>18. CASE DrainClosed
  BY <1>18, BoundAssumption DEF TypeOK, DrainClosed, Observers, Gen, Steps, Ended
<1>19. CASE UNCHANGED vars
  BY <1>19 DEF TypeOK, vars
<1> QED
  BY <1>1, <1>2, <1>3, <1>4, <1>5, <1>6, <1>7, <1>8, <1>9, <1>10, <1>11, <1>12, <1>13, <1>14, <1>15, <1>16,
     <1>17, <1>18, <1>19 DEF Next, TaskStep, DrainStep

-----------------------------------------------------------------------------
(* The invariant *)

\* A task moves on without a creation in its hands, and may begin a disposal or
\* leave the tracked creations; nothing else changes.
Passes(t, s, g) ==
  /\ Goto(t, s)
  /\ creations' \in {creations, creations \ {t}}
  /\ (MayCollect(g) /\ BeginCollect(g)) \/ UNCHANGED <<addrOf, phase, collecting>>
  /\ UNCHANGED <<file, kind, addr, byAddress, owner, pending, records, generations, disposed, drainVars>>

\* Everything but the types.
Safe == TaskInv /\ ActorInv /\ PendingInv /\ FreshInv /\ Indexed /\ Exclusive /\ DrainInv

\* Such a move keeps the invariant.
LEMMA PassesKeeps ==
  ASSUME RegistryInv, NEW t \in Task, NEW g \in 0..MaxGen, NEW s \in Steps, Passes(t, s, g),
         pc[t] \notin {"idle", "building", "rejecting", "created", "createFailed", "factory"},
         s \notin {"idle", "building", "rejecting", "created", "createFailed", "factory"},
         s \in OpenSteps => kind[t] = "open"
  PROVE  Safe'
<1> USE DEF RegistryInv, TypeOK, Passes, Goto, drainVars
<1>1. \A u \in Task : /\ Builds(u)' <=> Builds(u)
                      /\ Creating(u)' <=> Creating(u)
  BY DEF Builds, Creating
<1>2. \A h \in Gen : Up(h)' <=> Up(h)
  BY DEF Up, MayCollect, Live, BeginCollect
<1>3. addrOf' = addrOf /\ \A h \in Gen : phase'[h] = "unborn" <=> phase[h] = "unborn"
  BY DEF MayCollect, Live, BeginCollect
<1>4. TaskInv'
  BY DEF TaskInv, OpenSteps, Builds
<1>5. ActorInv'
  BY DEF ActorInv, MayCollect, Live, BeginCollect
<1>6. PendingInv'
  BY <1>1 DEF PendingInv
<1>7. \A a \in Address : Untouched(a)' <=> Untouched(a)
  BY <1>3 DEF Untouched
<1>8. FreshInv'
  BY <1>1, <1>7 DEF FreshInv, Address
<1>9. Indexed'
  BY <1>2, <1>3 DEF Indexed
<1>10. Exclusive'
  BY <1>1, <1>2, <1>3 DEF Exclusive
<1>11. DrainInv'
  BY <1>1, <1>2 DEF DrainInv, MayCollect, Live, BeginCollect
<1> QED
  BY <1>4, <1>5, <1>6, <1>8, <1>9, <1>10, <1>11 DEF Safe

\* A request arrives: a created Session gets an address nobody has used.
LEMMA BeginKeeps ==
  ASSUME RegistryInv, NEW t \in Task, NEW r \in Requests[t], Begin(t, r[1], r[2])
  PROVE  Safe'
<1> DEFINE k == r[1]
           a == r[2]
<1>1. k \in {"open", "new", "close", "archive"} /\ a \in Address
  BY RegistrySwitchAssumption DEF Address
<1> USE DEF RegistryInv, TypeOK, actorVars, drainVars
<1>2. /\ pc[t] = "idle" /\ kind[t] = "none"
      /\ kind' = [kind EXCEPT ![t] = k] /\ addr' = [addr EXCEPT ![t] = a]
      /\ UNCHANGED <<file, byAddress, owner, pending, records, generations, disposed, actorVars,
                     drainVars>>
  BY DEF Begin, TaskInv
<1>3. PICK s \in {"failed", "reserve", "factory", "settle"} :
        /\ pc' = [pc EXCEPT ![t] = s]
        /\ s = "factory" => k = "new" /\ ~disposed /\ creations' = creations \cup {t}
        /\ s = "reserve" => k = "open"
        /\ creations \subseteq creations'
  <2>1. CASE k \in {"open", "new"} /\ disposed
    <3>1. pc' = [pc EXCEPT ![t] = "failed"]
      BY <2>1 DEF Begin, Goto
    <3>2. creations' = creations
      BY <2>1 DEF Begin
    <3> QED
      BY <3>1, <3>2
  <2>2. CASE k = "new" /\ ~disposed
    BY <1>1, <2>2 DEF Begin, Goto
  <2>3. CASE k = "open" /\ ~disposed
    BY <1>1, <2>3 DEF Begin, Goto
  <2>4. CASE k \notin {"open", "new"}
    BY <1>1, <2>4 DEF Begin, Goto
  <2> QED
    BY <1>1, <2>1, <2>2, <2>3, <2>4
<1>4. \A u \in Task : (Creating(u)' <=> Creating(u)) /\ (Creating(u) => u # t)
  BY <1>2, <1>3 DEF Creating
<1>5. \A u \in Task : Builds(u)' => (Builds(u) /\ u # t) \/ (u = t /\ k = "new" /\ ~disposed)
  BY <1>2, <1>3 DEF Builds
<1>6. k = "new" => /\ a \in Fresh /\ Untouched(a)
                   /\ \A u \in Task : kind[u] = "new" => addr[u] # a
  BY DEF Begin, FreshInv
<1>7. TaskInv'
  BY <1>1, <1>2, <1>3, <1>6 DEF TaskInv, OpenSteps, Builds
<1>8. ActorInv'
  BY <1>2 DEF ActorInv
<1>9. PendingInv'
  BY <1>2, <1>4 DEF PendingInv
<1>10. FreshInv'
  <2>1. \A b \in Address : Untouched(b)' <=> Untouched(b)
    BY <1>2 DEF Untouched
  <2>2. \A b \in Fresh : (\A u \in Task : kind'[u] = "new" => addr'[u] # b) => Untouched(b)
    BY <1>2 DEF FreshInv
  <2>3. \A u \in Task : kind'[u] = "new" /\ Builds(u)' => Untouched(addr'[u])
    BY <1>2, <1>5, <1>6 DEF FreshInv
  <2>4. \A u, v \in Task : kind'[u] = "new" /\ kind'[v] = "new" /\ addr'[u] = addr'[v] => u = v
    BY <1>2, <1>6 DEF FreshInv
  <2>5. \A u \in Task : addr'[u] \in Address
    BY <1>1, <1>2
  <2> QED
    BY <1>2, <2>1, <2>2, <2>3, <2>4, <2>5 DEF FreshInv, Address
<1>11. Indexed'
  BY <1>2 DEF Indexed, Up
<1>12. Exclusive'
  <2>1. k = "new" => \A u \in Task : Builds(u) /\ ~disposed => addr[u] # a
    BY <1>6, BoundAssumption DEF Builds, Creating, TaskInv, OpenSteps, PendingInv, Untouched
  <2>2. k = "new" => \A g \in Gen : Up(g) => addrOf[g] # a
    BY <1>6 DEF Up, Untouched
  <2>3. \A g \in Gen : Up(g)' <=> Up(g)
    BY <1>2 DEF Up
  <2>4. \A u, v \in Task : Builds(u)' /\ Builds(v)' /\ addr'[u] = addr'[v] => u = v
    BY <1>2, <1>5, <2>1 DEF Exclusive
  <2>5. \A g \in Gen, u \in Task : Up(g) /\ Builds(u)' => addrOf[g] # addr'[u]
    BY <1>2, <1>5, <2>2 DEF Exclusive
  <2> QED
    BY <1>2, <2>3, <2>4, <2>5 DEF Exclusive
<1>13. DrainInv'
  BY <1>2, <1>5 DEF DrainInv, Up
<1> QED
  BY <1>7, <1>8, <1>9, <1>10, <1>11, <1>12, <1>13 DEF Safe

\* One round of the reserve loop: a creation begins only at an address without
\* runtime, builder or pending creation.
LEMMA ReserveKeeps ==
  ASSUME RegistryInv, NEW t \in Task, Reserve(t)
  PROVE  Safe'
<1> USE DEF RegistryInv, TypeOK
<1>1. pc[t] = "reserve" /\ kind[t] = "open" /\ addr[t] \in Address
  BY DEF Reserve, TaskInv, OpenSteps, Builds
<1>2. CASE pc' # [pc EXCEPT ![t] = "building"]
  <2>1. PICK s \in {"failed", "reserved", "joinCollect", "joinCreation"} : Goto(t, s)
    BY <1>2 DEF Reserve, Goto
  <2>2. Passes(t, s, 0) /\ s \in Steps /\ 0 \in 0..MaxGen
    BY <1>2, <2>1, BoundAssumption DEF Reserve, Passes, Goto, Steps, Ended, actorVars
  <2> QED
    BY <1>1, <2>2, PassesKeeps
<1>3. CASE pc' = [pc EXCEPT ![t] = "building"]
  <2> DEFINE a == addr[t]
  <2>1. /\ ~disposed /\ pending[a] = None /\ file[a]
        /\ ~Live(ByAddressAny(a)) /\ ~Collecting(ByAddressAny(a))
        /\ pending' = [pending EXCEPT ![a] = t]
        /\ UNCHANGED <<file, kind, addr, byAddress, owner, records, creations, generations, disposed,
                       actorVars, drainVars>>
    BY <1>1, <1>3 DEF Reserve, Goto
  <2> USE <1>1, <1>3, <2>1 DEF actorVars, drainVars
  <2>2. \A g \in Gen : Up(g) => addrOf[g] # a
    BY DEF Up, Indexed, ActorInv, ByAddressAny, Live, Collecting
  <2>3. \A u \in Task : Builds(u) => addr[u] # a
    BY BoundAssumption DEF Builds, Creating, TaskInv, OpenSteps, PendingInv, FreshInv, Untouched
  <2>4. TaskInv' /\ ActorInv' /\ Indexed'
    BY DEF TaskInv, OpenSteps, Builds, ActorInv, Indexed, Up
  <2>5. PendingInv'
    BY BoundAssumption DEF PendingInv, Creating
  <2>6. FreshInv'
    <3>1. ~Untouched(a)
      BY DEF Untouched
    <3>2. \A b \in Address : b # a => (Untouched(b)' <=> Untouched(b))
      BY DEF Untouched
    <3>3. \A u \in Task : kind[u] = "new" => (Builds(u)' <=> Builds(u))
      BY DEF Builds
    <3> QED
      BY <3>1, <3>2, <3>3 DEF FreshInv, Address
  <2>7. Exclusive'
    BY <2>2, <2>3 DEF Exclusive, Up, Builds
  <2>8. DrainInv'
    BY DEF DrainInv, Up
  <2> QED
    BY <2>4, <2>5, <2>6, <2>7, <2>8 DEF Safe
<1> QED
  BY <1>2, <1>3

\* The steps of a task that hold no creation.
LEMMA WaitingKeeps ==
  ASSUME RegistryInv, NEW t \in Task,
         \/ Reserved(t) \/ Install(t) \/ Leave(t) \/ Prepared(t) \/ PrepareFails(t) \/ AwaitSettled(t)
         \/ DecideClose(t) \/ DecideArchive(t)
  PROVE  Safe'
<1> USE DEF RegistryInv, TypeOK
<1>1. rec[t] \in 0..MaxGen
  OBVIOUS
<1>2. CASE Reserved(t)
  <2>1. PICK s \in {"opened", "reserve"} : Passes(t, s, rec[t])
    BY <1>2 DEF Reserved, Passes, indexVars, actorVars
  <2>2. s \in Steps /\ pc[t] = "reserved" /\ kind[t] = "open"
    BY <1>2 DEF Reserved, Steps, TaskInv, OpenSteps, Builds
  <2> QED
    BY <1>1, <2>1, <2>2, PassesKeeps
<1>3. CASE Install(t) \/ Leave(t) \/ Prepared(t) \/ AwaitSettled(t)
  <2>1. PICK s \in {"observing", "failed", "released", "opened", "decide", "joinSettled"} :
          Passes(t, s, rec[t])
    BY <1>3 DEF Install, Leave, Prepared, AwaitSettled, Passes, indexVars, actorVars
  <2>2. s \in Steps /\ s \notin OpenSteps /\ pc[t] \in {"opened", "observing", "preparing", "settle"}
    BY <1>3 DEF Install, Leave, Prepared, AwaitSettled, Steps, Ended, OpenSteps
  <2> QED
    BY <1>1, <2>1, <2>2, PassesKeeps
<1>4. CASE PrepareFails(t) \/ DecideClose(t) \/ DecideArchive(t)
  <2>1. PICK s \in {"awaitCollect", "failed", "done", "move"} : Passes(t, s, rec[t])
    BY <1>4 DEF PrepareFails, DecideClose, DecideArchive, Passes, indexVars, actorVars
  <2>2. s \in Steps /\ s \notin OpenSteps /\ pc[t] \in {"preparing", "decide"}
    BY <1>4 DEF PrepareFails, DecideClose, DecideArchive, Steps, Ended, OpenSteps
  <2> QED
    BY <1>1, <2>1, <2>2, PassesKeeps
<1> QED
  BY <1>2, <1>3, <1>4

\* A registration keeps the invariant at an address without a runtime whose
\* durable id no runtime has, once its builder is done.
LEMMA RegisterKeeps ==
  ASSUME RegistryInv, NEW t \in Task, Builds(t), ~disposed, Register(addr[t]),
         \A g \in Gen : Up(g) => IdOf[addrOf[g]] # IdOf[addr[t]],
         \A u \in Task : Builds(u)' => Builds(u) /\ u # t,
         UNCHANGED <<file, kind, addr, pending, disposed, drainVars>>
  PROVE  ActorInv' /\ FreshInv' /\ Indexed' /\ Exclusive' /\ DrainInv'
<1> DEFINE a == addr[t]
           n == generations + 1
<1> USE DEF RegistryInv, TypeOK
<1>1. /\ a \in Address /\ n \in Gen /\ n \in 0..MaxGen /\ phase[n] = "unborn" /\ ~collecting[n]
      /\ generations < n /\ generations' = n
  BY RegisterType, BoundAssumption DEF Register, ActorInv, Gen
<1>2. /\ records' = records \cup {n} /\ byAddress' = [byAddress EXCEPT ![a] = n]
      /\ owner' = [owner EXCEPT ![IdOf[a]] = n] /\ addrOf' = [addrOf EXCEPT ![n] = a]
      /\ phase' = [phase EXCEPT ![n] = "live"] /\ collecting' = collecting
  BY DEF Register
<1>3. IdOf \in [Address -> SessionId]
  BY AddrAssumption DEF Address
<1>4. \A g \in Gen : Up(g)' <=> Up(g) \/ g = n
  BY <1>1, <1>2 DEF Up
<1> USE DEF drainVars
<1>5. ActorInv'
  BY <1>1, <1>2 DEF ActorInv, Gen
<1>6. FreshInv'
  <2>1. \A b \in Address : b # a => (Untouched(b)' <=> Untouched(b))
    BY <1>1, <1>2 DEF Untouched
  <2>2. a \in Fresh => \E u \in Task : kind[u] = "new" /\ addr[u] = a
    BY BoundAssumption DEF FreshInv, Untouched, PendingInv, Builds, Creating, TaskInv, OpenSteps
  <2>3. \A u \in Task : kind[u] = "new" /\ Builds(u)' => addr[u] # a
    BY DEF Exclusive
  <2> QED
    BY <2>1, <2>2, <2>3 DEF FreshInv, Address
<1>7. Indexed'
  BY <1>1, <1>2, <1>3, <1>4 DEF Indexed
<1>8. Exclusive'
  <2>1. \A g, h \in Gen : Up(g)' /\ Up(h)' /\ IdOf[addrOf'[g]] = IdOf[addrOf'[h]] => g = h
    BY <1>1, <1>2, <1>4 DEF Exclusive
  <2>2. \A g \in Gen, u \in Task : Up(g)' /\ Builds(u)' => addrOf'[g] # addr[u]
    BY <1>1, <1>2, <1>4 DEF Exclusive
  <2>3. \A u, v \in Task : Builds(u)' /\ Builds(v)' /\ addr[u] = addr[v] => u = v
    BY DEF Exclusive
  <2> QED
    BY <2>1, <2>2, <2>3 DEF Exclusive
<1>9. DrainInv'
  BY DEF DrainInv
<1> QED
  BY <1>5, <1>6, <1>7, <1>8, <1>9

\* A creation whose Manager is up registers it, or refuses it; nothing happens
\* between the look at the claim and the registration.
LEMMA BuiltKeeps ==
  ASSUME RegistryInv, NEW t \in Task, Built(t)
  PROVE  Safe'
<1> USE DEF RegistryInv, TypeOK
<1>1. pc[t] = "building" /\ kind[t] = "open" /\ addr[t] \in Address
  BY DEF Built, TaskInv, OpenSteps, Builds
<1>2. CASE Goto(t, "rejecting") /\ UNCHANGED <<rec, byAddress, owner, records, generations, actorVars>>
  <2> USE <1>1, <1>2 DEF Built, Goto, actorVars, drainVars
  <2>1. \A u \in Task : (Builds(u)' <=> Builds(u)) /\ (Creating(u)' <=> Creating(u))
    BY DEF Builds, Creating
  <2>2. TaskInv' /\ ActorInv'
    BY DEF TaskInv, OpenSteps, Builds, ActorInv
  <2>3. PendingInv' /\ FreshInv'
    BY <2>1 DEF PendingInv, FreshInv, Untouched
  <2>4. Indexed' /\ Exclusive' /\ DrainInv'
    BY <2>1 DEF Indexed, Exclusive, DrainInv, Up
  <2> QED
    BY <2>2, <2>3, <2>4 DEF Safe
<1>3. CASE /\ ~ClaimedElsewhere(addr[t]) /\ ~disposed /\ Register(addr[t])
           /\ SettleCreation(t, "created", "reserved", generations + 1)
  <2> USE <1>1, <1>3
  <2>1. UNCHANGED <<file, kind, addr, pending, creations, disposed, drainVars>>
    BY DEF Built
  <2>2. \A u \in Task : pc'[u] = CASE u = t -> "created"
                                   [] pc[u] = "joinCreation" /\ addr[u] = addr[t] -> "reserved"
                                   [] pc[u] = "joinSettled" /\ addr[u] = addr[t] -> "settle"
                                   [] OTHER -> pc[u]
    BY DEF SettleCreation
  <2>3. \A u \in Task : /\ Builds(u)' => Builds(u) /\ u # t
                        /\ Creating(u)' <=> Creating(u)
    BY <2>2 DEF Builds, Creating
  <2>4. Builds(t) /\ \A g \in Gen : Up(g) => IdOf[addrOf[g]] # IdOf[addr[t]]
    BY AddrAssumption, BoundAssumption DEF Builds, ClaimedElsewhere, Indexed, Exclusive, Address, Gen
  <2>5. TaskInv'
    BY <2>1, <2>2 DEF TaskInv, OpenSteps, Builds
  <2>6. PendingInv'
    BY <2>1, <2>3 DEF PendingInv
  <2> QED
    BY <2>1, <2>3, <2>4, <2>5, <2>6, RegisterKeeps DEF Safe
<1> QED
  BY <1>2, <1>3 DEF Built

\* The Manager of a fresh Session registers, or is refused.
LEMMA NewBuiltKeeps ==
  ASSUME RegistryInv, NEW t \in Task, NewBuilt(t)
  PROVE  Safe'
<1> USE DEF RegistryInv, TypeOK
<1>1. pc[t] = "factory" /\ kind[t] = "new" /\ addr[t] \in Fresh /\ Untouched(addr[t])
  BY DEF NewBuilt, TaskInv, FreshInv, Builds
<1>2. CASE Goto(t, "rejecting") /\ UNCHANGED <<rec, byAddress, owner, records, generations, actorVars>>
  <2> USE <1>1, <1>2 DEF NewBuilt, Goto, actorVars, drainVars
  <2>1. \A u \in Task : /\ Builds(u)' <=> Builds(u)
                        /\ kind[u] = "open" => (Creating(u)' <=> Creating(u))
    BY DEF Builds, Creating
  <2>2. TaskInv' /\ ActorInv'
    BY DEF TaskInv, OpenSteps, Builds, ActorInv
  <2>3. PendingInv'
    BY <2>1 DEF PendingInv
  <2>4. FreshInv'
    BY <2>1 DEF FreshInv, Untouched
  <2>5. Indexed' /\ Exclusive' /\ DrainInv'
    BY <2>1 DEF Indexed, Exclusive, DrainInv, Up
  <2> QED
    BY <2>2, <2>3, <2>4, <2>5 DEF Safe
<1>3. CASE ~disposed /\ Register(addr[t]) /\ Goto(t, "preparing")
  <2> USE <1>1, <1>3
  <2>1. /\ UNCHANGED <<file, kind, addr, pending, creations, disposed, drainVars>>
        /\ pc' = [pc EXCEPT ![t] = "preparing"]
    BY DEF NewBuilt, Goto
  <2>2. \A u \in Task : /\ Builds(u)' => Builds(u) /\ u # t
                        /\ Creating(u)' <=> Creating(u)
    BY <2>1 DEF Builds, Creating
  <2>3. Builds(t) /\ \A g \in Gen : Up(g) => IdOf[addrOf[g]] # IdOf[addr[t]]
    BY FreshIdAssumption DEF Builds, Up, Untouched, Address
  <2>4. TaskInv'
    BY <2>1 DEF TaskInv, OpenSteps, Builds
  <2>5. PendingInv'
    BY <2>1, <2>2 DEF PendingInv
  <2> QED
    BY <2>1, <2>2, <2>3, <2>4, <2>5, RegisterKeeps DEF Safe
<1> QED
  BY <1>2, <1>3 DEF NewBuilt

\* The end of a creation: what it held is let go.
LEMMA CreationEndKeeps ==
  ASSUME RegistryInv, NEW t \in Task, CreationRejects(t) \/ Created(t) \/ NewRejects(t)
  PROVE  Safe'
<1> USE DEF RegistryInv, TypeOK, indexVars, actorVars, drainVars, Up, Builds, Creating
<1>1. CASE CreationRejects(t)
  <2> USE <1>1 DEF CreationRejects, SettleCreation
  <2>1. TaskInv' /\ ActorInv' /\ PendingInv'
    BY DEF TaskInv, OpenSteps, Builds, ActorInv, PendingInv
  <2>2. FreshInv' /\ Indexed'
    BY DEF FreshInv, Untouched, Indexed
  <2>3. Exclusive' /\ DrainInv'
    BY DEF Exclusive, DrainInv
  <2> QED
    BY <2>1, <2>2, <2>3 DEF Safe
<1>2. CASE Created(t)
  <2> USE <1>2 DEF Created, Goto
  <2>1. TaskInv' /\ ActorInv'
    BY DEF TaskInv, OpenSteps, Builds, ActorInv
  <2>2. PendingInv'
    BY DEF PendingInv, TaskInv, OpenSteps, Builds
  <2>3. FreshInv' /\ Indexed'
    BY DEF FreshInv, Untouched, Indexed
  <2>4. Exclusive' /\ DrainInv'
    BY DEF Exclusive, DrainInv
  <2> QED
    BY <2>1, <2>2, <2>3, <2>4 DEF Safe
<1>3. CASE NewRejects(t)
  <2> USE <1>3 DEF NewRejects, Goto
  <2>1. TaskInv' /\ ActorInv' /\ PendingInv'
    BY DEF TaskInv, OpenSteps, Builds, ActorInv, PendingInv
  <2>2. FreshInv' /\ Indexed'
    BY DEF FreshInv, Untouched, Indexed
  <2>3. Exclusive' /\ DrainInv'
    BY DEF Exclusive, DrainInv
  <2> QED
    BY <2>1, <2>2, <2>3 DEF Safe
<1> QED
  BY <1>1, <1>2, <1>3

\* The file of an address comes or goes.
LEMMA FileKeeps ==
  ASSUME RegistryInv, (\E t \in Task : Move(t)) \/ (\E g \in Gen : Flush(g))
  PROVE  Safe'
<1> USE DEF RegistryInv, TypeOK, taskVars, indexVars, actorVars, drainVars, Up, Builds, Creating
<1>1. ASSUME NEW t \in Task, Move(t) PROVE Safe'
  <2> USE <1>1 DEF Move, Goto
  <2>1. TaskInv' /\ ActorInv' /\ PendingInv'
    BY DEF TaskInv, OpenSteps, Builds, ActorInv, PendingInv
  <2>2. FreshInv' /\ Indexed'
    BY DEF FreshInv, Untouched, Indexed
  <2>3. Exclusive' /\ DrainInv'
    BY DEF Exclusive, DrainInv
  <2> QED
    BY <2>1, <2>2, <2>3 DEF Safe
<1>2. ASSUME NEW g \in Gen, Flush(g) PROVE Safe'
  <2> USE <1>2 DEF Flush
  <2>1. TaskInv' /\ ActorInv' /\ PendingInv'
    BY DEF TaskInv, OpenSteps, Builds, ActorInv, PendingInv
  <2>2. FreshInv' /\ Indexed'
    BY DEF FreshInv, Untouched, Indexed
  <2>3. Exclusive' /\ DrainInv'
    BY DEF Exclusive, DrainInv
  <2> QED
    BY <2>1, <2>2, <2>3 DEF Safe
<1> QED
  BY <1>1, <1>2

\* The idle decision, and the end of a disposal: what was up is down, and the
\* indexes let go of it alone.
LEMMA CollectionKeeps ==
  ASSUME RegistryInv, NEW g \in Gen, IdleFires(g) \/ Collected(g) \/ CollectFails(g)
  PROVE  Safe'
<1> USE DEF RegistryInv, TypeOK, taskVars, indexVars, drainVars, Up, Builds, Creating
<1>1. CASE IdleFires(g)
  <2>1. \/ MayCollect(g) /\ BeginCollect(g)
        \/ UNCHANGED <<addrOf, phase, collecting>>
    BY <1>1 DEF IdleFires
  <2>2. UNCHANGED <<file, taskVars, indexVars, drainVars>>
    BY <1>1 DEF IdleFires
  <2> USE <2>1, <2>2 DEF MayCollect, Live, BeginCollect
  <2>3. TaskInv' /\ ActorInv' /\ PendingInv'
    BY DEF TaskInv, ActorInv, PendingInv
  <2>4. FreshInv' /\ Indexed'
    BY DEF FreshInv, Untouched, Indexed
  <2>5. Exclusive' /\ DrainInv'
    BY DEF Exclusive, DrainInv
  <2> QED
    BY <2>3, <2>4, <2>5 DEF Safe
<1>2. CASE Collected(g)
  <2> USE <1>2 DEF Collected, AfterCollect, Awaiting, Observers
  <2>1. TaskInv' /\ ActorInv' /\ PendingInv'
    BY DEF TaskInv, OpenSteps, Builds, ActorInv, PendingInv
  <2>2. FreshInv' /\ Indexed'
    BY DEF FreshInv, Untouched, ActorInv, Indexed, Exclusive
  <2>3. Exclusive' /\ DrainInv'
    BY DEF Exclusive, DrainInv
  <2> QED
    BY <2>1, <2>2, <2>3 DEF Safe
<1>3. CASE CollectFails(g)
  <2> USE <1>3 DEF CollectFails, AfterCollect, Awaiting
  <2>1. TaskInv' /\ ActorInv' /\ PendingInv'
    BY DEF TaskInv, OpenSteps, Builds, ActorInv, PendingInv
  <2>2. FreshInv' /\ Indexed'
    BY DEF FreshInv, Untouched, ActorInv, Indexed
  <2>3. Exclusive' /\ DrainInv'
    BY DEF Exclusive, DrainInv
  <2> QED
    BY <2>1, <2>2, <2>3 DEF Safe
<1> QED
  BY <1>1, <1>2, <1>3

\* Shutdown begins: the drain takes over every runtime from the indexes and every
\* builder from the pending map and the tracked creations.
LEMMA DisposeKeeps ==
  ASSUME RegistryInv, Dispose
  PROVE  Safe'
<1> USE DEF RegistryInv, TypeOK, Dispose, StopServing
<1>1. \A u \in Task : /\ Builds(u)' <=> Builds(u)
                      /\ Builds(u) => u \in PendingTasks \cup creations
  <2>1. \A u \in Task : Builds(u)' <=> Builds(u)
    BY DEF Builds
  <2>2. ASSUME NEW u \in Task, Builds(u) PROVE u \in PendingTasks \cup creations
    <3>1. CASE kind[u] = "open"
      <4>1. pending[addr[u]] = u /\ addr[u] \in Address /\ u # None
        BY <2>2, <3>1, BoundAssumption DEF Builds, Creating, TaskInv, PendingInv
      <4> QED
        BY <4>1 DEF PendingTasks
    <3>2. CASE kind[u] = "new"
      BY <2>2, <3>2 DEF TaskInv
    <3> QED
      BY <2>2, <3>1, <3>2 DEF Builds, TaskInv, OpenSteps
  <2> QED
    BY <2>1, <2>2
<1>2. \A h \in Gen : Up(h)' <=> Up(h)
  BY DEF Up
<1>3. TaskInv' /\ ActorInv' /\ PendingInv'
  BY DEF TaskInv, OpenSteps, Builds, ActorInv, PendingInv
<1>4. FreshInv'
  <2>1. \A a \in Address : Untouched(a) => Untouched(a)'
    BY DEF Untouched
  <2> QED
    BY <1>1, <2>1 DEF FreshInv, Address
<1>5. Indexed' /\ Exclusive'
  BY <1>1, <1>2 DEF Indexed, Exclusive
<1>6. DrainInv'
  <2>1. /\ disposed' = TRUE /\ drain' = "waiting" /\ ~disposed /\ current' = current
        /\ remaining' = {g \in records : ~collecting[g]} /\ collecting' = collecting
        /\ draining'.gens = {g \in records : collecting[g]}
        /\ draining'.tasks = PendingTasks \cup creations
    OBVIOUS
  <2> QED
    BY <1>1, <1>2, <2>1 DEF DrainInv, Indexed
<1> QED
  BY <1>3, <1>4, <1>5, <1>6 DEF Safe

\* The drain's own steps.
LEMMA DrainKeeps ==
  ASSUME RegistryInv, DrainStep
  PROVE  Safe'
<1> USE DEF RegistryInv, TypeOK, taskVars, indexVars, actorVars, Up, Builds, Creating
<1>1. CASE DrainSettled \/ DrainDone
  <2> USE <1>1 DEF DrainSettled, DrainDone
  <2>1. TaskInv' /\ ActorInv' /\ PendingInv'
    BY DEF TaskInv, ActorInv, PendingInv
  <2>2. FreshInv' /\ Indexed' /\ Exclusive'
    BY DEF FreshInv, Untouched, Indexed, Exclusive
  <2>3. DrainInv'
    BY DEF DrainInv, Unsettled, TaskInv
  <2> QED
    BY <2>1, <2>2, <2>3 DEF Safe
<1>2. ASSUME NEW g \in Gen, DrainClose(g) PROVE Safe'
  <2> USE <1>2 DEF DrainClose
  <2>1. TaskInv' /\ ActorInv' /\ PendingInv'
    BY DEF TaskInv, ActorInv, PendingInv, DrainInv
  <2>2. FreshInv' /\ Indexed'
    BY DEF FreshInv, Untouched, Indexed, DrainInv
  <2>3. Exclusive'
    BY DEF Exclusive
  <2>4. DrainInv'
    BY DEF DrainInv
  <2> QED
    BY <2>1, <2>2, <2>3, <2>4 DEF Safe
<1>3. CASE DrainClosed
  <2> USE <1>3 DEF DrainClosed, Observers
  <2>0. current \in Gen /\ current \in remaining /\ disposed /\ ~collecting[current]
    BY DEF DrainInv
  <2>1. TaskInv' /\ PendingInv'
    BY DEF TaskInv, OpenSteps, Builds, PendingInv
  <2>2. ActorInv'
    BY <2>0 DEF ActorInv
  <2>3. FreshInv' /\ Indexed'
    BY <2>0 DEF FreshInv, Untouched, ActorInv, Indexed
  <2>4. Exclusive' /\ DrainInv'
    BY <2>0 DEF Exclusive, DrainInv
  <2> QED
    BY <2>1, <2>2, <2>3, <2>4 DEF Safe
<1>4. CASE DrainFails
  <2> USE <1>4 DEF DrainFails
  <2>0. current \in Gen /\ current \in remaining /\ disposed /\ ~collecting[current]
    BY DEF DrainInv
  <2>1. TaskInv' /\ PendingInv'
    BY DEF TaskInv, OpenSteps, Builds, PendingInv
  <2>2. ActorInv'
    BY <2>0 DEF ActorInv
  <2>3. FreshInv' /\ Indexed'
    BY <2>0 DEF FreshInv, Untouched, ActorInv, Indexed
  <2>4. Exclusive' /\ DrainInv'
    BY <2>0 DEF Exclusive, DrainInv
  <2> QED
    BY <2>1, <2>2, <2>3, <2>4 DEF Safe
<1> QED
  BY <1>1, <1>2, <1>3, <1>4 DEF DrainStep

\* A registry starts in the invariant.
LEMMA RegistryInitially == Init => RegistryInv
<1> SUFFICES ASSUME Init PROVE RegistryInv
  OBVIOUS
<1>1. (CHOOSE a \in Address : TRUE) \in Address
  BY AddrAssumption DEF Address
<1>2. TypeOK
  <2>1. addr \in [Task -> Address] /\ addrOf \in [Gen -> Address]
    BY <1>1 DEF Init
  <2>2. pc \in [Task -> Steps] /\ 0 \in 0..MaxGen
    BY BoundAssumption DEF Init, Steps
  <2>3. file \in [Address -> BOOLEAN] /\ draining \in [gens : SUBSET Gen, tasks : SUBSET Task]
    BY DEF Init
  <2> QED
    BY <2>1, <2>2, <2>3 DEF Init, TypeOK
<1>3. TaskInv /\ ActorInv /\ PendingInv /\ Indexed
  BY DEF Init, TaskInv, OpenSteps, Builds, ActorInv, PendingInv, Creating, Indexed, Up
<1>4. FreshInv /\ Exclusive /\ DrainInv
  BY AddrAssumption DEF Init, FreshInv, Untouched, Address, Exclusive, Up, Builds, DrainInv
<1> QED
  BY <1>2, <1>3, <1>4 DEF RegistryInv

\* Every step keeps it.
LEMMA RegistryInductive == RegistryInv /\ [Next]_vars => RegistryInv'
<1> SUFFICES ASSUME RegistryInv, [Next]_vars PROVE RegistryInv'
  OBVIOUS
<1>1. TypeOK'
  BY TypeInductive DEF RegistryInv
<1>2. Safe'
  <2>1. CASE UNCHANGED vars
    BY <2>1 DEF vars, taskVars, indexVars, actorVars, drainVars, RegistryInv, Safe, TaskInv, ActorInv,
       PendingInv, FreshInv, Untouched, Indexed, Exclusive, DrainInv, Up, Builds, Creating
  <2> QED
    BY <2>1, BeginKeeps, ReserveKeeps, WaitingKeeps, BuiltKeeps, NewBuiltKeeps, CreationEndKeeps,
       FileKeeps, CollectionKeeps, DisposeKeeps, DrainKeeps DEF Next, TaskStep
<1> QED
  BY <1>1, <1>2 DEF RegistryInv, Safe

\* The invariant holds in every reachable state.
LEMMA RegistryInvariance == Spec => []RegistryInv
  BY RegistryInitially, RegistryInductive, PTL DEF Spec

-----------------------------------------------------------------------------
(* What follows *)

\* Every variable keeps its type, whatever the bound on registrations.
THEOREM TypeCorrect == Spec => []TypeOK
<1>1. RegistryInv => TypeOK
  BY DEF RegistryInv
<1> QED
  BY <1>1, RegistryInvariance, PTL

\* A set without two distinct members has at most one.
LEMMA AtMostOne ==
  ASSUME NEW S, \A x, y \in S : x = y
  PROVE  Cardinality(S) \in {0, 1} /\ (Cardinality(S) = 1 => S # {})
<1>1. CASE S = {}
  BY <1>1, FS_EmptySet
<1>2. ASSUME NEW x \in S PROVE Cardinality(S) = 1
  <2>1. S = {x}
    BY <1>2
  <2> QED
    BY <2>1, FS_Singleton
<1> QED
  BY <1>1, <1>2

\* One address never has two Managers, counting the one under construction and
\* the one being shut down, however opens, creates, closes, archives, idle
\* collection and shutdown interleave.
THEOREM OneManagerPerAddress == Spec => []AddressExclusive
<1>1. RegistryInv => AddressExclusive
  <2> SUFFICES ASSUME RegistryInv, NEW a \in Address
               PROVE  Cardinality(ManagersAt(a)) + Cardinality(BuildersAt(a)) <= 1
    BY DEF AddressExclusive
  <2>1. /\ \A g, h \in ManagersAt(a) : g = h
        /\ \A t, u \in BuildersAt(a) : t = u
        /\ ManagersAt(a) = {} \/ BuildersAt(a) = {}
    BY DEF RegistryInv, Exclusive, Up, Builds, ManagersAt, BuildersAt
  <2>2. /\ Cardinality(ManagersAt(a)) \in {0, 1} /\ Cardinality(BuildersAt(a)) \in {0, 1}
        /\ Cardinality(ManagersAt(a)) = 1 => ManagersAt(a) # {}
        /\ Cardinality(BuildersAt(a)) = 1 => BuildersAt(a) # {}
    BY <2>1, AtMostOne
  <2> QED
    BY <2>1, <2>2
<1> QED
  BY <1>1, RegistryInvariance, PTL

\* Two registrations that are not closed never share a durable id, also when two
\* files carry the same one and both are opened at once.
THEOREM OneManagerPerId == Spec => []DurableIdExclusive
<1>1. RegistryInv => DurableIdExclusive
  BY DEF RegistryInv, Exclusive, Up, DurableIdExclusive
<1> QED
  BY <1>1, RegistryInvariance, PTL

\* Until shutdown every index leads to a live registration: the release of an
\* older one never takes the address or the id from its successor.
THEOREM IndexesLeadToLive == Spec => []LiveIsIndexed
<1>1. RegistryInv => LiveIsIndexed
  BY DEF RegistryInv, Indexed, Up, Live, LiveIsIndexed
<1> QED
  BY <1>1, RegistryInvariance, PTL

\* A drain that ends has seen every runtime go, also the ones under construction
\* when it began: the directory's successor finds nothing running.
THEOREM ExclusionReleasedLast == Spec => []LocksReleasedLast
<1>1. RegistryInv => LocksReleasedLast
  BY DEF RegistryInv, DrainInv, Up, Builds, LocksReleasedLast, ManagersAt, BuildersAt
<1> QED
  BY <1>1, RegistryInvariance, PTL
=============================================================================
