------------------------- MODULE ActivationRegistry -------------------------
(***************************************************************************)
(* The registry of live Sessions inside one Worker                         *)
(* (host/activation-registry.ts) with the Worker operations that drive it  *)
(* (host/worker-local.ts): observe, create, close and archive a Session,   *)
(* idle collection and shutdown.                                           *)
(*                                                                         *)
(* A task is one such request.  Each synchronous block between two awaits  *)
(* is one step; the order in which the event loop runs due continuations   *)
(* is left open.  A promise is not a value of its own: the step that       *)
(* settles it moves every task that awaits it.                             *)
(*                                                                         *)
(* A registration is named by its generation, 1, 2, ...; 0 is none.  Its   *)
(* actor is the abstract lifecycle of ActorLifecycle: live, closing,       *)
(* closed.  A close that rejected leaves the actor closing for ever, and   *)
(* every later close() returns the same rejection: phase "broken".  The    *)
(* Manager behind a registration exists until its actor is closed; the one *)
(* a task is building or throwing away is the task's.                      *)
(*                                                                         *)
(* A fresh Session's file name is new, so the address a create will get is *)
(* one nobody has used; it is fixed when the task starts.                  *)
(***************************************************************************)
EXTENDS Naturals, FiniteSets

CONSTANTS Task,        \* requests
          Addr,        \* addresses (project, stem) of Session files on disk
          Fresh,       \* addresses for created Sessions
          SessionId,   \* durable ids
          IdOf,        \* the durable id in the file at an address
          Requests,    \* what each task may ask for: a kind and an address
          MaxGen,      \* bound on registrations
          None,        \* no task
          MayDispose   \* does the Worker shut down?

ASSUME AddrAssumption == /\ Addr \cap Fresh = {} /\ Addr \cup Fresh # {}
                         /\ IdOf \in [Addr \cup Fresh -> SessionId]
ASSUME FreshIdAssumption ==
  \A f \in Fresh, a \in Addr \cup Fresh : IdOf[f] = IdOf[a] => f = a
ASSUME BoundAssumption == MaxGen \in Nat /\ None \notin Task
ASSUME RegistrySwitchAssumption ==
  /\ MayDispose \in BOOLEAN
  /\ Requests \in [Task -> SUBSET ({"open", "new", "close", "archive"} \X (Addr \cup Fresh))]

VARIABLES file,        \* does the Session file exist at the address?
          kind, addr,  \* what each task asked for
          pc,          \* where each task stands
          rec,         \* the registration each task holds
          byAddress, owner, pending, records, creations, generations,
          disposed,    \* the registry's terminal flag
          addrOf,      \* the address of each registration
          phase,       \* the phase of its actor
          collecting,  \* its disposal is in flight
          idleTimer,   \* its actor's idle timer is armed
          drain,       \* where shutdown stands
          draining,    \* what Promise.allSettled awaits: registrations and tasks
          remaining,   \* registrations the drain has still to close
          current      \* the one it is closing

taskVars == <<kind, addr, pc, rec>>
indexVars == <<byAddress, owner, pending, records, creations, generations, disposed>>
actorVars == <<addrOf, phase, collecting, idleTimer>>
drainVars == <<drain, draining, remaining, current>>
vars == <<file, taskVars, indexVars, actorVars, drainVars>>

Address == Addr \cup Fresh
Gen == 1..MaxGen

Ended == {"done", "failed", "released", "ended"}

Steps == {"idle", "reserve", "joinCollect", "joinCreation", "building", "rejecting", "created",
          "createFailed", "reserved", "opened", "observing", "factory", "preparing", "settle",
          "joinSettled", "decide", "awaitCollect", "move"} \cup Ended

TypeOK == /\ file \in [Address -> BOOLEAN]
          /\ kind \in [Task -> {"none", "open", "new", "close", "archive"}]
          /\ addr \in [Task -> Address]
          /\ pc \in [Task -> Steps]
          /\ rec \in [Task -> 0..MaxGen]
          /\ byAddress \in [Address -> 0..MaxGen]
          /\ owner \in [SessionId -> 0..MaxGen]
          /\ pending \in [Address -> Task \cup {None}]
          /\ records \subseteq Gen
          /\ creations \subseteq Task
          /\ generations \in 0..MaxGen
          /\ disposed \in BOOLEAN
          /\ addrOf \in [Gen -> Address]
          /\ phase \in [Gen -> {"unborn", "live", "closing", "closed", "broken"}]
          /\ collecting \in [Gen -> BOOLEAN]
          /\ idleTimer \in [Gen -> BOOLEAN]
          /\ drain \in {"none", "waiting", "closing", "done", "failed"}
          /\ draining \in [gens : SUBSET Gen, tasks : SUBSET Task]
          /\ remaining \subseteq Gen
          /\ current \in 0..MaxGen

Init == /\ file = [a \in Address |-> a \in Addr]
        /\ kind = [t \in Task |-> "none"]
        /\ addr \in [Task -> {CHOOSE a \in Address : TRUE}]
        /\ pc = [t \in Task |-> "idle"]
        /\ rec = [t \in Task |-> 0]
        /\ byAddress = [a \in Address |-> 0]
        /\ owner = [s \in SessionId |-> 0]
        /\ pending = [a \in Address |-> None]
        /\ records = {} /\ creations = {} /\ generations = 0
        /\ disposed = FALSE
        /\ addrOf = [g \in Gen |-> CHOOSE a \in Address : TRUE]
        /\ phase = [g \in Gen |-> "unborn"]
        /\ collecting = [g \in Gen |-> FALSE]
        /\ idleTimer = [g \in Gen |-> FALSE]
        /\ drain = "none" /\ draining = [gens |-> {}, tasks |-> {}]
        /\ remaining = {} /\ current = 0

-----------------------------------------------------------------------------
Live(g) == g \in Gen /\ phase[g] = "live"

Collecting(g) == g \in Gen /\ collecting[g]

Observers(g) == {t \in Task : pc[t] = "observing" /\ rec[t] = g}

\* The registration an address index leads to, or 0.
ByAddressAny(a) == IF byAddress[a] \in records THEN byAddress[a] ELSE 0

\* The creation promise of a task has not settled.
Unsettled(t) == pc[t] \in {"building", "rejecting"}

Goto(t, step) == pc' = [pc EXCEPT ![t] = step]

\* The promise of t's creation settles: t and every task that joined it resume.
SettleCreation(t, step, joined, g) ==
  LET joiners == {u \in Task : pc[u] = "joinCreation" /\ addr[u] = addr[t]}
  IN /\ pc' = [u \in Task |->
                 CASE u = t -> step
                   [] u \in joiners -> joined
                   [] pc[u] = "joinSettled" /\ addr[u] = addr[t] -> "settle"
                   [] OTHER -> pc[u]]
     /\ rec' = [u \in Task |-> IF u \in joiners \cup {t} THEN g ELSE rec[u]]

\* Bug: the durable id is not claimed.
RegisterUnclaimed(a) ==
  LET g == generations + 1
  IN /\ g <= MaxGen
     /\ generations' = g
     /\ records' = records \cup {g}
     /\ byAddress' = [byAddress EXCEPT ![a] = g]
     /\ addrOf' = [addrOf EXCEPT ![g] = a]
     /\ phase' = [phase EXCEPT ![g] = "live"]
     /\ UNCHANGED <<owner, collecting, idleTimer>>

\* register: the next generation at an address, in every index at once.
Register(a) ==
  LET g == generations + 1
  IN /\ g <= MaxGen
     /\ generations' = g
     /\ records' = records \cup {g}
     /\ byAddress' = [byAddress EXCEPT ![a] = g]
     /\ owner' = [owner EXCEPT ![IdOf[a]] = g]
     /\ addrOf' = [addrOf EXCEPT ![g] = a]
     /\ phase' = [phase EXCEPT ![g] = "live"]
     /\ UNCHANGED <<collecting, idleTimer>>

\* collect, its synchronous part: may this call begin a disposal?
MayCollect(g) == ~Collecting(g) /\ ~disposed /\ Live(g)

BeginCollect(g) ==
  /\ phase' = [phase EXCEPT ![g] = "closing"]
  /\ collecting' = [collecting EXCEPT ![g] = TRUE]
  /\ idleTimer' = [idleTimer EXCEPT ![g] = FALSE]
  /\ UNCHANGED addrOf

-----------------------------------------------------------------------------
(* Requests *)

\* A request reaches the Worker.  createSession runs its first block here; the
\* first block of the others is the Reserve or AwaitSettled step that follows.
\* Only observeSession and createSession look at the shutdown flag.
Begin(t, k, a) ==
  /\ pc[t] = "idle" /\ <<k, a>> \in Requests[t]
  /\ k = "new" => a \in Fresh
  /\ k = "new" => ~file[a] /\ \A u \in Task : kind[u] = "new" => addr[u] # a
  /\ kind' = [kind EXCEPT ![t] = k]
  /\ addr' = [addr EXCEPT ![t] = a]
  /\ Goto(t, CASE k \in {"open", "new"} /\ disposed -> "failed"
               [] k = "open" /\ ~disposed -> "reserve"
               [] k = "new" /\ ~disposed -> "factory"
               [] OTHER -> "settle")
  /\ creations' = IF k = "new" /\ ~disposed THEN creations \cup {t} ELSE creations
  /\ UNCHANGED <<file, rec, byAddress, owner, pending, records, generations, disposed,
                 actorVars, drainVars>>

\* Bug: a registration that is being collected does not hold its address.
ReserveIgnoringCollection(t) ==
  LET a == addr[t]
      g == ByAddressAny(a)
  IN /\ pc[t] = "reserve"
     /\ \/ /\ disposed
           /\ Goto(t, "failed") /\ UNCHANGED <<rec, pending>>
        \/ /\ ~disposed /\ Live(g)
           /\ Goto(t, "reserved") /\ rec' = [rec EXCEPT ![t] = g] /\ UNCHANGED pending
        \/ /\ ~disposed /\ ~Live(g) /\ pending[a] # None /\ Unsettled(pending[a])
           /\ Goto(t, "joinCreation") /\ UNCHANGED <<rec, pending>>
        \/ /\ ~disposed /\ ~Live(g) /\ pending[a] = None /\ file[a]
           /\ Goto(t, "building")
           /\ pending' = [pending EXCEPT ![a] = t] /\ UNCHANGED rec
     /\ UNCHANGED <<file, kind, addr, byAddress, owner, records, creations, generations, disposed,
                    actorVars, drainVars>>

\* One round of the reserve loop, up to its next await.
Reserve(t) ==
  LET a == addr[t]
      g == ByAddressAny(a)
      free == ~(disposed \/ Live(g) \/ Collecting(g))
  IN /\ pc[t] = "reserve"
     /\ \/ /\ disposed
           /\ Goto(t, "failed") /\ UNCHANGED <<rec, pending>>
        \/ /\ ~disposed /\ Live(g)
           /\ Goto(t, "reserved") /\ rec' = [rec EXCEPT ![t] = g] /\ UNCHANGED pending
        \/ /\ ~disposed /\ ~Live(g) /\ Collecting(g)
           /\ Goto(t, "joinCollect") /\ rec' = [rec EXCEPT ![t] = g] /\ UNCHANGED pending
        \/ /\ free /\ pending[a] # None
           /\ LET c == pending[a]
              IN /\ Goto(t, CASE Unsettled(c) -> "joinCreation"
                              [] pc[c] = "created" -> "reserved"
                              [] OTHER -> "failed")
                 /\ rec' = IF pc[c] = "created" THEN [rec EXCEPT ![t] = rec[c]] ELSE rec
           /\ UNCHANGED pending
        \/ /\ free /\ pending[a] = None /\ file[a]
           /\ Goto(t, "building")
           /\ pending' = [pending EXCEPT ![a] = t] /\ UNCHANGED rec
        \/ /\ free /\ pending[a] = None /\ ~file[a]
           /\ Goto(t, "failed") /\ UNCHANGED <<rec, pending>>
     /\ UNCHANGED <<file, kind, addr, byAddress, owner, records, creations, generations, disposed,
                    actorVars, drainVars>>

\* The durable id is claimed from another address.
ClaimedElsewhere(a) == owner[IdOf[a]] # 0 /\ addrOf[owner[IdOf[a]]] # a

\* Bug: the durable-id claim is not looked at.
BuiltUnchecked(t) ==
  /\ pc[t] = "building"
  /\ ~disposed
  /\ Register(addr[t])
  /\ SettleCreation(t, "created", "reserved", generations + 1)
  /\ UNCHANGED <<file, kind, addr, pending, creations, disposed, drainVars>>

\* create, after the Manager is built: refuse or register, with no await between
\* the checks and the registration.
Built(t) ==
  /\ pc[t] = "building"
  /\ \/ /\ ClaimedElsewhere(addr[t]) \/ disposed
        /\ Goto(t, "rejecting")
        /\ UNCHANGED <<rec, byAddress, owner, records, generations, actorVars>>
     \/ /\ ~ClaimedElsewhere(addr[t]) /\ ~disposed
        /\ Register(addr[t])
        /\ SettleCreation(t, "created", "reserved", generations + 1)
  /\ UNCHANGED <<file, kind, addr, pending, creations, disposed, drainVars>>

\* The factory rejects, or the refused Manager has been disposed.
CreationRejects(t) ==
  /\ pc[t] \in {"building", "rejecting"} /\ kind[t] = "open"
  /\ SettleCreation(t, "createFailed", "failed", 0)
  /\ UNCHANGED <<file, kind, addr, indexVars, actorVars, drainVars>>

\* Bug: the settled creation stays in the pending map.
CreatedKeepsPending(t) ==
  /\ pc[t] \in {"created", "createFailed"}
  /\ Goto(t, IF pc[t] = "created" THEN "reserved" ELSE "failed")
  /\ UNCHANGED <<file, kind, addr, rec, indexVars, actorVars, drainVars>>

\* reserve's finally: the settled creation leaves the pending map.
Created(t) ==
  /\ pc[t] \in {"created", "createFailed"}
  /\ pending' = [pending EXCEPT ![addr[t]] = None]
  /\ Goto(t, IF pc[t] = "created" THEN "reserved" ELSE "failed")
  /\ UNCHANGED <<file, kind, addr, rec, byAddress, owner, records, creations, generations,
                 disposed, actorVars, drainVars>>

\* open: the record is still live, or the reservation starts over.
Reserved(t) ==
  /\ pc[t] = "reserved"
  /\ Goto(t, IF Live(rec[t]) THEN "opened" ELSE "reserve")
  /\ UNCHANGED <<file, kind, addr, rec, indexVars, actorVars, drainVars>>

\* installObservation: the capability cancels the timer; observe throws on an
\* actor that began closing.
Install(t) ==
  /\ pc[t] = "opened"
  /\ Goto(t, IF Live(rec[t]) THEN "observing" ELSE "failed")
  /\ idleTimer' = [idleTimer EXCEPT ![rec[t]] = FALSE]
  /\ UNCHANGED <<file, kind, addr, rec, indexVars, addrOf, phase, collecting, drainVars>>

\* The client leaves; the last one arms the idle timer.
Leave(t) ==
  /\ pc[t] = "observing"
  /\ Goto(t, "released")
  /\ idleTimer' = [idleTimer EXCEPT ![rec[t]] =
                     @ \/ (Observers(rec[t]) = {t} /\ Live(rec[t]))]
  /\ UNCHANGED <<file, kind, addr, rec, indexVars, addrOf, phase, collecting, drainVars>>

-----------------------------------------------------------------------------
(* Creating a Session *)

\* The Manager of a fresh Session is up: register it, or dispose it.
NewBuilt(t) ==
  /\ pc[t] = "factory"
  /\ \/ /\ disposed \/ ByAddressAny(addr[t]) # 0
        /\ Goto(t, "rejecting")
        /\ UNCHANGED <<rec, byAddress, owner, records, generations, actorVars>>
     \/ /\ ~disposed /\ ByAddressAny(addr[t]) = 0
        /\ Register(addr[t])
        /\ Goto(t, "preparing")
        /\ rec' = [rec EXCEPT ![t] = generations + 1]
  /\ UNCHANGED <<file, kind, addr, pending, creations, disposed, drainVars>>

\* Bug: a failed creation stays in the tracked set.
NewRejectsTracked(t) ==
  /\ pc[t] \in {"factory", "rejecting"} /\ kind[t] = "new"
  /\ Goto(t, "failed")
  /\ UNCHANGED <<file, kind, addr, rec, indexVars, actorVars, drainVars>>

\* The factory rejects, or the refused Manager has been disposed.
NewRejects(t) ==
  /\ pc[t] \in {"factory", "rejecting"} /\ kind[t] = "new"
  /\ Goto(t, "failed")
  /\ creations' = creations \ {t}
  /\ UNCHANGED <<file, kind, addr, rec, byAddress, owner, pending, records, generations,
                 disposed, actorVars, drainVars>>

\* Model, level and first prompt admitted.
Prepared(t) ==
  /\ pc[t] = "preparing"
  /\ Goto(t, "opened")
  /\ creations' = creations \ {t}
  /\ UNCHANGED <<file, kind, addr, rec, byAddress, owner, pending, records, generations, disposed,
                 actorVars, drainVars>>

\* The first assistant message of a fresh Session writes its file.
Flush(g) ==
  /\ phase[g] = "live" /\ addrOf[g] \in Fresh /\ ~file[addrOf[g]]
  /\ file' = [file EXCEPT ![addrOf[g]] = TRUE]
  /\ UNCHANGED <<taskVars, indexVars, actorVars, drainVars>>

\* A refused choice collects the fresh registration.
PrepareFails(t) ==
  /\ pc[t] = "preparing"
  /\ \/ /\ MayCollect(rec[t])
        /\ BeginCollect(rec[t])
        /\ Goto(t, "awaitCollect")
        /\ UNCHANGED creations
     \/ /\ Collecting(rec[t])
        /\ Goto(t, "awaitCollect")
        /\ UNCHANGED <<actorVars, creations>>
     \/ /\ ~MayCollect(rec[t]) /\ ~Collecting(rec[t])
        /\ Goto(t, "failed")
        /\ creations' = creations \ {t}
        /\ UNCHANGED actorVars
  /\ UNCHANGED <<file, kind, addr, rec, byAddress, owner, pending, records, generations,
                 disposed, drainVars>>

-----------------------------------------------------------------------------
(* Closing and archiving *)

\* awaitSettled: join the creation in flight at the address, or read the index.
AwaitSettled(t) ==
  /\ pc[t] = "settle"
  /\ \/ /\ pending[addr[t]] = None
        /\ Goto(t, "decide")
        /\ rec' = [rec EXCEPT ![t] = ByAddressAny(addr[t])]
     \/ /\ pending[addr[t]] # None /\ Unsettled(pending[addr[t]])
        /\ Goto(t, "joinSettled")
        /\ UNCHANGED rec
  /\ UNCHANGED <<file, kind, addr, indexVars, actorVars, drainVars>>

\* closeSession: only a live registration that is not being collected.
DecideClose(t) ==
  /\ pc[t] = "decide" /\ kind[t] = "close"
  /\ \/ /\ MayCollect(rec[t])
        /\ BeginCollect(rec[t])
        /\ Goto(t, "awaitCollect")
     \/ /\ ~MayCollect(rec[t])
        /\ Goto(t, IF Live(rec[t]) THEN "done" ELSE "failed")
        /\ UNCHANGED actorVars
  /\ UNCHANGED <<file, kind, addr, rec, indexVars, drainVars>>

\* archiveSession: collect what is there, or join its collection, then move.
DecideArchive(t) ==
  /\ pc[t] = "decide" /\ kind[t] = "archive"
  /\ \/ /\ MayCollect(rec[t])
        /\ BeginCollect(rec[t])
        /\ Goto(t, "awaitCollect")
     \/ /\ Collecting(rec[t])
        /\ Goto(t, "awaitCollect")
        /\ UNCHANGED actorVars
     \/ /\ ~MayCollect(rec[t]) /\ ~Collecting(rec[t]) /\ rec[t] # 0
        /\ Goto(t, "move")
        /\ UNCHANGED actorVars
  /\ UNCHANGED <<file, kind, addr, rec, indexVars, drainVars>>

\* archiveStemFile, after the collection or at once when the address holds nothing.
Move(t) ==
  /\ \/ pc[t] = "move"
     \/ pc[t] = "decide" /\ kind[t] = "archive" /\ rec[t] = 0
  /\ file' = [file EXCEPT ![addr[t]] = FALSE]
  /\ Goto(t, "done")
  /\ UNCHANGED <<kind, addr, rec, indexVars, actorVars, drainVars>>

\* The idle decision: nobody observes and the runtime rests.
IdleFires(g) ==
  /\ idleTimer[g]
  /\ \/ MayCollect(g) /\ Observers(g) = {} /\ BeginCollect(g)
     \/ /\ ~(MayCollect(g) /\ Observers(g) = {})
        /\ idleTimer' = [idleTimer EXCEPT ![g] = FALSE]
        /\ UNCHANGED <<addrOf, phase, collecting>>
  /\ UNCHANGED <<file, taskVars, indexVars, drainVars>>

\* Where a task goes when the collection it awaits has ended.
AfterCollect(t, ok) ==
  CASE pc[t] = "joinCollect" -> IF ok THEN "reserve" ELSE "failed"
    [] kind[t] = "archive" /\ ok -> "move"
    [] kind[t] = "close" /\ ok -> "done"
    [] OTHER -> "failed"

Awaiting(g) == {t \in Task : pc[t] \in {"joinCollect", "awaitCollect"} /\ rec[t] = g}

\* disposeRecord after the actor's close: the indexes are released by record
\* identity, observers get the closed frame, waiters resume.
Collected(g) ==
  /\ collecting[g]
  /\ phase' = [phase EXCEPT ![g] = "closed"]
  /\ collecting' = [collecting EXCEPT ![g] = FALSE]
  /\ records' = records \ {g}
  /\ byAddress' = [byAddress EXCEPT ![addrOf[g]] = IF @ = g THEN 0 ELSE @]
  /\ owner' = [owner EXCEPT ![IdOf[addrOf[g]]] = IF @ = g THEN 0 ELSE @]
  /\ pc' = [t \in Task |-> CASE t \in Awaiting(g) -> AfterCollect(t, TRUE)
                             [] t \in Observers(g) -> "ended"
                             [] OTHER -> pc[t]]
  /\ creations' = creations \ {t \in Awaiting(g) : kind[t] = "new"}
  /\ UNCHANGED <<file, kind, addr, rec, pending, generations, disposed, addrOf, idleTimer,
                 drainVars>>

\* The actor's close rejects: the record stays indexed, closing for ever.
CollectFails(g) ==
  /\ collecting[g]
  /\ phase' = [phase EXCEPT ![g] = "broken"]
  /\ collecting' = [collecting EXCEPT ![g] = FALSE]
  /\ pc' = [t \in Task |-> IF t \in Awaiting(g) THEN AfterCollect(t, FALSE) ELSE pc[t]]
  /\ creations' = creations \ {t \in Awaiting(g) : kind[t] = "new"}
  /\ UNCHANGED <<file, kind, addr, rec, byAddress, owner, pending, records, generations, disposed,
                 addrOf, idleTimer, drainVars>>

-----------------------------------------------------------------------------
(* Shutdown *)

\* What dispose leaves behind in one synchronous block; creating is the set of
\* creations the drain will await.
StopServing(creating) ==
  /\ MayDispose /\ ~disposed
  /\ disposed' = TRUE
  /\ pc' = [t \in Task |-> IF pc[t] = "observing" THEN "released" ELSE pc[t]]
  /\ idleTimer' = [g \in Gen |-> idleTimer[g] \/ (Observers(g) # {} /\ phase[g] = "live")]
  /\ draining' = [gens |-> {g \in records : collecting[g]}, tasks |-> creating]
  /\ remaining' = {g \in records : ~collecting[g]}
  /\ records' = {} /\ byAddress' = [a \in Address |-> 0]
  /\ pending' = [a \in Address |-> None] /\ owner' = [s \in SessionId |-> 0]
  /\ drain' = "waiting"
  /\ UNCHANGED <<file, kind, addr, rec, creations, generations, addrOf, phase, collecting, current>>

PendingTasks == {pending[a] : a \in Address} \ {None}

\* Bug: fresh creations, which have no address yet, are not drained.
DisposeIgnoringCreations == StopServing(PendingTasks)

\* LocalWorker.dispose and registry.dispose.
Dispose == StopServing(PendingTasks \cup creations)

DrainSettled ==
  /\ drain = "waiting"
  /\ \A g \in draining.gens : ~collecting[g]
  /\ \A t \in draining.tasks : ~Unsettled(t) /\ t \notin creations
  /\ drain' = "closing"
  /\ UNCHANGED <<file, taskVars, indexVars, actorVars, draining, remaining, current>>

\* The drain closes the remaining actors one after the other.
DrainClose(g) ==
  /\ drain = "closing" /\ current = 0 /\ g \in remaining
  /\ phase' = [phase EXCEPT ![g] = IF @ = "live" THEN "closing" ELSE @]
  /\ idleTimer' = [idleTimer EXCEPT ![g] = FALSE]
  /\ current' = g
  /\ UNCHANGED <<file, taskVars, indexVars, addrOf, collecting, drain, draining, remaining>>

DrainClosed ==
  /\ drain = "closing" /\ current # 0 /\ phase[current] = "closing"
  /\ phase' = [phase EXCEPT ![current] = "closed"]
  /\ pc' = [t \in Task |-> IF t \in Observers(current) THEN "ended" ELSE pc[t]]
  /\ remaining' = remaining \ {current}
  /\ current' = 0
  /\ UNCHANGED <<file, kind, addr, rec, indexVars, addrOf, collecting, idleTimer, drain, draining>>

\* A close rejects, and with it the loop over the remaining actors.
DrainFails ==
  /\ drain = "closing" /\ current # 0
  /\ phase' = [phase EXCEPT ![current] = "broken"]
  /\ drain' = "failed"
  /\ UNCHANGED <<file, taskVars, indexVars, addrOf, collecting, idleTimer, draining, remaining,
                 current>>

\* Every actor is closed: the Worker releases the storage locks.
DrainDone ==
  /\ drain = "closing" /\ current = 0 /\ remaining = {}
  /\ drain' = "done"
  /\ UNCHANGED <<file, taskVars, indexVars, actorVars, draining, remaining, current>>

-----------------------------------------------------------------------------
TaskStep(t) ==
  \/ Reserve(t) \/ Built(t) \/ CreationRejects(t) \/ Created(t) \/ Reserved(t) \/ Install(t)
  \/ NewBuilt(t) \/ NewRejects(t) \/ Prepared(t) \/ PrepareFails(t)
  \/ AwaitSettled(t) \/ DecideClose(t) \/ DecideArchive(t) \/ Move(t)

DrainStep == DrainSettled \/ (\E g \in Gen : DrainClose(g)) \/ DrainClosed \/ DrainFails \/ DrainDone

Next == \/ \E t \in Task : \/ \E r \in Requests[t] : Begin(t, r[1], r[2])
                           \/ TaskStep(t)
                           \/ Leave(t)
        \/ \E g \in Gen : IdleFires(g) \/ Flush(g) \/ Collected(g) \/ CollectFails(g)
        \/ Dispose
        \/ DrainStep

Spec == Init /\ [][Next]_vars

\* What the event loop does by itself, and the settling of factories and closes.
Progress == \/ \E t \in Task : TaskStep(t)
            \/ \E g \in Gen : Collected(g) \/ IdleFires(g)
            \/ DrainStep

\* While something can progress, something does.  Nobody has to make a request,
\* leave a Session or shut the Worker down.
FairSpec == Spec /\ WF_vars(Progress)

-----------------------------------------------------------------------------
\* The Managers that exist for an address: registered and not yet closed, under
\* construction, or being thrown away.  One whose disposal rejected is given up and
\* not counted: the registry builds another at its address.
ManagersAt(a) == {g \in Gen : addrOf[g] = a /\ phase[g] \in {"live", "closing"}}
BuildersAt(a) == {t \in Task : addr[t] = a /\ pc[t] \in {"building", "rejecting", "factory"}}

\* ADR 11: one address never has two Managers, not even while one of them is
\* shutting down or still being built.
AddressExclusive == \A a \in Address : Cardinality(ManagersAt(a)) + Cardinality(BuildersAt(a)) <= 1

\* ADR 11: two registrations that are not closed never share a durable id, even
\* when two files carry the same one.
DurableIdExclusive ==
  \A g, h \in Gen :
    (g # h /\ {phase[g], phase[h]} \subseteq {"live", "closing"}) => IdOf[addrOf[g]] # IdOf[addrOf[h]]

\* A live registration is the one every index leads to: releasing an older one
\* never takes the address or the durable id from the one that replaced it.
LiveIsIndexed ==
  \A g \in Gen : Live(g) /\ ~disposed =>
    byAddress[addrOf[g]] = g /\ owner[IdOf[addrOf[g]]] = g /\ g \in records

\* "Exclusion is released last: every runtime is gone before the directory can
\* be served by a successor."
LocksReleasedLast ==
  drain = "done" => \A a \in Address : ManagersAt(a) = {} /\ BuildersAt(a) = {}

\* Every request ends or reaches its observation: no reservation, join or
\* collection waits for ever.
RequestsSettle == \A t \in Task : (pc[t] # "idle") ~> (pc[t] \in Ended \cup {"observing"})

\* Shutdown drains to its end, or to the first close that rejects.
ShutdownCompletes == disposed ~> (drain \in {"done", "failed"})

\* awaitSettled says an address-mutating operation must not "move the session
\* file ... while a Manager for that address is still being constructed".
ArchiveMovesQuietFile ==
  [][\A a \in Address : file[a] /\ ~file'[a] => ManagersAt(a) = {} /\ BuildersAt(a) = {}]_vars
=============================================================================
