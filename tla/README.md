# Verification of the pi-bridge host

pi-bridge runs coding-agent Sessions inside Worker processes and serves them to
browsers through a Daemon. This directory holds TLA+ modules for the parts of
`src/packages/bridge` whose correctness depends on the order of events, of the
agent runtime it drives, and of the durable Session store, together with the TLC
configurations that check them on small instances and TLAPS proofs of the
properties that matter most. Paths below are relative to `src/packages/bridge/src/`
unless they begin with `packages/`.

## 1. Inventory

The system is single-threaded JavaScript in several processes: what is written
between two `await`s is atomic, everything else interleaves. Four kinds of event
interleave: continuations of awaited promises, timers, messages of sockets, and
the deaths of processes that share a file system.

| part | state | operations | what makes it hard | correct when |
| --- | --- | --- | --- | --- |
| Storage lock (`host/storage-lock.ts`) | lock file, reclaim guard file | acquire, reclaim, release | processes interleave at every file operation; any of them dies anywhere | one live owner per directory; acquisitions end |
| Lifecycle scope (`host/lifecycle-scope.ts`) | tail promise, drain promise | run, close | order lives only in promise chaining; operations reject | arrival order, one at a time, close drains |
| Session actor (`host/session-actor.ts`) | phase, capabilities, observations, tracked work, idle timer | capability, observe, release, command, mutate, close | close races commands, mutations, clients and the idle timer | nothing outlives the close; no Session in use is collected |
| Activation registry (`host/activation-registry.ts`) | records and three indexes, pending creations, drain | reserve, open, register, collect, dispose | opens, closes and shutdown meet creations and collections in flight | one Manager per address and durable id; the locks go last |
| Local Worker (`host/worker-local.ts`) | observations, shutdown flag | observe, create, close, archive, dispose | composes actor, registry and lock | as the registry; the file moves only when quiet |
| Worker link (`host/worker-client.ts`, `host/worker-server.ts`) | pending requests, observations on both ends | observe, create, release, shutdown, withdraw, terminate | loss of the socket, heartbeats, replies and frames in one tick | streams without gaps, requests settle, nothing outlives the link |
| Connection (`host/connection.ts`, `host/connection-verbs.ts`) | attachment and its generation, transition scope | openSession, newSession, detach, pull, dispose | the socket closes during an attach; old frames arrive late | one attachment, the one of the last reply |
| Browser client (`core/client.ts`, `web/src/infra/net/pullLoop.ts`) | mirror and its generation | frames, pull replies | stale frames and replies | the mirror is one stream |
| Daemon (`host/daemon.ts`, `host/worker-host.ts`) | registrations, routes, connections | adopt, route, withdraw, attach | Workers come and go under open Connections | routes name live registrations |
| Manager (`host/manager.ts`) over pi's `AgentSession` and `Agent`, recovery, git stamps | active run, steering queue, tracked continuation, streaming flag, observation queue | prompt, Stop, recoverTurn, navigate, user bash, dispose | the recovery continuation is invisible to pi's own idle tracking; hooks and git end late | no message lost, no Document stuck streaming, Stop and dispose end, nothing appended to a dead runtime |
| Projection, Document, sync (`core/projection.ts`, `core/document.ts`, `core/sync.ts`) | Document, live forms, read position | live events, refresh, settle, initial sync | attach and settle race streams; entries appear with and without events | every attached mirror ends equal to the Document |
| Entry cache (`core/cache.ts`, `packages/bridge/web/src/infra/`) | records per Session, shared by tabs | write-through, seed, cursor | writes of several tabs land late or never; sockets and Workers go | the cache holds the file's entries; a seed plus a delta is whole |
| Durable Session line and writer (`packages/durable/src/session/`) | line of jobs, queue, unpublished writers, gates, holds, failure | commit, touch, admit, flush, publish, fail, close | storage calls run off the line and refuse, reject or lose to another failure | commits are serial; answers match Storage; nobody is stranded |
| Compact codec, reactor (`core/`) | a template at each end of a socket; none | encode, decode; fold | both ends must replace the template at the same frame | decoded frames equal sent ones |
| Catalog, repository, settings, projects, text polish, titles | files, none | reads, validated writes | — | — |

How they interact. A browser's Connection asks the Daemon for a Session; the
Daemon routes to a Worker, in process or over a Worker link; the Worker's registry
finds or builds the Session's Manager and wraps it in an actor; the Manager drives
pi's runtime and projects its entries to a Document; an observation on
the actor feeds frames back along the same path to the client's mirror and, through
it, to the browser's entry cache. The
storage lock keeps two Workers from serving one Session directory. Lifecycle
scopes serialize the actor's mutations and the Connection's transitions. The durable
Session is a separate store with a line of its own, used by the durable harness.

`PROJECT.json` lists every hazard with its line and the properties that cover it.

## 2. Modules

| module | part | state and steps |
| --- | --- | --- |
| `StorageLock` | storage lock | the two files, and where each process stands; one step per file operation and one per continuation that uses what was read |
| `LifecycleScope` | lifecycle scope | which promise each operation is chained on; `Run`, `Start`, `Settle`, `CloseScope`, `Drained` |
| `ActorLifecycle` | — | abstract: work is admitted only while live, the end is announced once, a closed actor has no work in flight |
| `SessionActor` | Session actor | extends `LifecycleScope`; one action per method of the capability and per step of `close` |
| `ActivationRegistry` | registry and Local Worker | where each request stands, the indexes, each registration's actor by its abstract phase, and the shutdown drain; one action per block between two awaits |
| `WorkerLink` | Worker link, withdrawal in the Daemon | both halves' maps, the socket as two queues; one action per message, continuation, heartbeat and close event |
| `Connection` | Connection, pull verb, client mirror | transitions with their observations, the wire, the mirror; one action per block of a transition and per frame |
| `Manager` | Manager, pi's prompt and run machinery, recovery, git stamps | where each client call stands, pi's run and queue, the kind of the transcript's tail, the teardown; one action per block between two awaits that really wait |
| `DocumentSync` | projection, sync, cache | pi's entry list, the Document and its live forms, each tab's socket, mirror and pending cache writes, the shared cache; one action per event handler, verb or frame |
| `SerialCommits` | — | abstract: commits take effect one at a time in line order on the state they read, and none after one that was given up |
| `GroupCommit` | durable Session line and writer | the jobs on the line, the queue, the storage call in flight and its publication, gates, holds, failure, close |
| `MC*` | — | model values and symmetry for TLC |
| `*Proofs` | — | inductive invariants, theorems and proofs |

Composition: `SessionActor` extends `LifecycleScope` and is shown to implement
`ActorLifecycle`; `ActivationRegistry` uses only that abstract lifecycle of its
actors (live, closing, closed, and the closing that ended in a rejection). `Connection` uses the observation of `WorkerLink`
as its environment: an initial sync before the reply, patches in order, an end at
any time. The order of transitions on a Connection is the one proved of
`LifecycleScope`. `SessionActor` takes the Manager as up, disposing or down;
`Manager` details the turn inside one such lifetime, and `TeardownEnds` is what the
actor's close relies on. `DocumentSync` details what `Connection` calls an initial
sync and a patch. `GroupCommit` is shown to implement `SerialCommits`.

Abstractions. Session contents, prompts and patches are numbers or nothing; a
transcript is the kind of its tail in `Manager` and a tree of ids with parents in
`DocumentSync`; a key's value in `GroupCommit` is the set of jobs that wrote it. A
random token, a pid, an observation id and an address are model values. A timer
may fire at any time while armed. The order in which the event loop runs
continuations that are due is left open, which covers every schedule of the real
loop. A file write is two steps, because readers see the file in between.

What some steps stand for:

- `Manager`, an aborted tool batch: the run does not end with it. The loop polls and
  makes one more request, which comes back aborted. The tail it leaves tells a recovery
  what happened: a batch with open calls, a dead message with no work over a failed
  tool (`killed`), or a dead message over anything else (`failed`).
- `Manager`, steers: a run that starts with a queued steer skips its first poll.
- `Manager`, user bash: a command is two steps, its start and its end. The end may come
  in a turn, which holds the output back until the turn is over (`Flush`), or after
  `dispose` began. Its entry makes a failed turn unrecoverable.
- `Manager`, the relay of a recovery: a prompt whose caller waits to the end, so
  `PromptNotLost` counts a refused relay as told.
- `GroupCommit`, publication: a publication and the answer to its caller are two steps
  (`Publish`, `SettlePart`), because a Storage with a publication scope is awaited in
  between. A Session that fails there refuses a part that is published.
- `GroupCommit`, callbacks: one may throw before or after what it reads; what a failed
  job read is forgotten with its transaction.
- `Connection`: an address-bearing delta starts the mirror's log like a replace; what
  the seeded mirror held is the matter of `DocumentSync`.
- `DocumentSync`, a crash keeps the whole entry list. pi writes no file before a
  Session has a conversation; a Session without one is gone after a crash, not reopened.

Definitions whose comment begins with `Bug:` are mutated forms of the action that
follows them; they are in no next-state relation and show that a property notices
the mistake.

## 3. Runs

Passing runs. The sizes are distinct states.

| run | size | shows |
| --- | --- | --- |
| `storage_lock` | 3 processes that die at any await, failing file operations, 703k | `ExclusiveUntilGuardRemoved`, `LiveClaimKept`: exclusion as long as no guard was removed as stale, and no step takes the lock file from a live claimant; `AcquisitionSettles` |
| `session_actor` | 2 clients, 2 commands, 2 mutations, 83k | the scope inside the actor: `ArrivalOrder`, `AdmittedSettles`; the actor: `MutationsPrecedeDisposal`, `ClosedIsQuiet`, `TimerMeansIdle`, `CloseCompletes`, `IdleCollected`, and the refinement `ImplementsLifecycle` |
| `registry` | 3 requests, 2 files with one durable id, 1 fresh address, 356k | `AddressExclusive`, `DurableIdExclusive`, `LiveIsIndexed`, `LocksReleasedLast`, `RequestsSettle`, `ShutdownCompletes`, with closes that reject |
| `link` | 2 observations, one created; a Worker of either origin, 381k | `BaselineFirst`, `StreamIsPrefix`, `NothingOutlivesLink`, `ShutdownReplyMeansDone`, `CallsSettle` |
| `connection` | 3 transitions (open; open or detach; new), patches, 1 pull, 375k | `MirrorIsOneStream`, `PullsStayHome`, `OnlyAttachmentLive`, `TransitionsReply` |
| `manager` | 2 calls, each a prompt, a recovery or a Stop, 1 user bash, 240k | `NotWedged`: the Document says streaming only while a run or a call that will reset it exists; `StampsOnLiveRuntime`: no git observation is unsettled once the runtime goes; `StopReturns`, `TeardownEnds` |
| `document_sync` | 2 tabs, 2 entries, 1 update each, 2 losses, 755k | `MirrorHasDocument`: when its frames are in, an attached mirror has the Document's entries and leaf; `CacheIsFile`, `LeafIsRooted`, `SealedStays` |
| `group_commit` | 3 jobs on 1 key, 2 outstanding, 461k | `SerialReads`, `ToldIsStored`, `SurvivorsArePrefix`, `ClosedIsStored`, `LineSettles`, and the refinement `CommitsAreSerial` |

Runs that end in a violation. Each states what a comment or a document of the
repository says; the counterexample is what the code does (quoted under "findings"
in `PROJECT.json`).

| run | statement | what happens |
| --- | --- | --- |
| `storage_lock_stale_guard` | a stale guard never permits a second holder | the guard is unlinked by path after a separate read, so a second reclaimer's guard can go, and two Workers own the directory |
| `registry_archive` | a file is not moved while a Manager for it is being built | archive acts on what it read before its last await; an open that reached the address since is building |
| `manager_prompt_lost` | a prompt that meets a recovery errors, and what fails after admission is document state | the prompt is admitted, pi's agent refuses it, and the refusal is swallowed |
| `document_sync_reconnect` | either form of initial sync repairs the mirror | the cursor counts records another tab cached; the mirror it is applied to is this tab's older Document |

Exceptions written into the properties. Some promises hold except in a case the
code leaves open; the property names the case, and the hazards in `PROJECT.json`
describe it:

- `ExclusiveUntilGuardRemoved` and `LiveClaimKept` stop at the first
  guard removed as stale (`storage_lock_stale_guard` shows why).
- `AcquisitionSettles` leaves out a guard its owner left behind (one without a record
  is never provably stale) and a disk that refuses for ever to remove a stale lock:
  the loop goes round a stale lock without looking at the deadline.
- `AddressExclusive`, `DurableIdExclusive` and `LocksReleasedLast` do not count a
  Manager whose disposal rejected (phase `broken`): its record stays indexed, and
  the next open builds another beside it. A rejecting close also ends the shutdown
  drain (`ShutdownCompletes` allows it) with the actors behind it still live.
- `StreamIsPrefix` is about the Document's frames; a created observation that ended
  before its reply was resumed is entered again and can be told of its end twice.
- `BaselineFirst` and `StreamIsPrefix` end when the Daemon itself stops.
- `StopReturns` and `TeardownEnds` allow a turn that the Stop did not reach and that
  it then waits for: a prompt past its checks that starts after the abort, or a
  continuation that does.
- `MirrorHasDocument` leaves out a tab that reconnected with a cursor ahead of its
  memory (`document_sync_reconnect` shows why), and allows a mirror to keep a live
  form that a delta does not remove.
- `ToldIsStored` allows a deferred commit that is lost with the stored commit that took
  it, once the Session has failed and given that one up; until then it is held, or the
  part that took it is on its way.
- `SurvivorsArePrefix` leaves deferred commits aside, which are stored later by design.

Two more departures were met that no run checks. A Worker link that is withdrawn can
leave sinks without a terminal frame (`worker-client.ts:170`: the withdrawal's
listener clears the map before `terminate` walks it; the close handler at line 304
clears it too). Of two overlapping `recoverTurn` calls the refused one replaces and
clears the tracked continuation (`manager.ts:850`), so that a dispose does not wait
for the other. Both are among the hazards.

Bounds. Three processes are the fewest with two reclaimers of a third one's lock; the
stale-guard run needs a fourth, and claims of another host are covered by the proofs,
which hold for any set of processes and hosts. Three requests are the fewest in
which one waits for the collection that another began on a Session a third opened;
two files with one durable id are the fewest that can collide, and four generations
let each address be registered twice. Which request asks for what is fixed up to
renaming of the files. Two observations, of both kinds, let one
acquisition be in flight while another is served. Three transitions are an
attachment, its successor, and one more that reuses a generation when the second
fails; one patch each distinguishes a lost or repeated frame from a prefix. Two calls
of the Manager are the fewest that meet (a prompt and a recovery, a Stop and either);
its safety properties were also checked with three (1.4M states up to symmetry). Two tabs are the
fewest of which one advances the cache the other reads, and two losses let both
reconnect; two entries give a parent and a child (with three and one
loss a search to depth 24, 6.6M states and not exhausted, found no violation). Three jobs are a writer, one sent with it or behind it, and a
reader of both; one key makes all of them collide. The constants are named in the `.cfg` files and
the bounds appear only in guards of the environment (a request not made, a patch
not emitted) and in `Register`, whose bound no registry run reaches, so no handler
is cut short.

`CHECK_DEADLOCK FALSE` appears everywhere: all of these systems may come to rest
when every process, request or transition of the instance has ended.

Fairness. Weak fairness is assumed of what an event loop does by itself: run a
continuation whose promise settled, fire an armed timer, handle a message that
arrived, notice that a socket is gone. It is assumed that factories, mutations and
disposals settle. It is never assumed that a client asks for something, leaves, or
that anything fails or dies, and a command of an actor need not settle before
disposal (a prompt may wait for its turn). In `StorageLock` nobody has to release.
In `Manager` the provider and the tools owe nothing until they are aborted; hooks,
credential checks and git (by its timeout) end. In `ActivationRegistry`, `Connection`
and `GroupCommit` the assumption is the weakest one: while some continuation is due
or a backend call is in flight, some such step is taken. `DocumentSync` assumes no
fairness; its properties are about every state.

## 4. Proofs

All proofs are for every value of the constants. Each argues with an inductive
invariant that says more than the property.

- **`StorageLockProofs`**: `TypeCorrect`, `Exclusion`, `GuardExclusion`,
  `ClaimKept`. Exclusion is not inductive: it rests on what each program point
  knows about the two files (who created the file it is about to write, check or
  unlink). `ClaimKept` is the action property that only its owner, or a reclaimer
  of a dead owner, removes a lock file.
- **`SessionActorProofs`**, the scope: `Ordered`, `Serial`, `DrainComplete`. The
  invariant ties the chain of promises to the history of arrivals: the predecessor of
  the i-th arrival is the (i-1)-th, the tail is the last. That everything before a
  started operation has settled is carried as part of the invariant, which replaces
  an induction along the chain.
- **`SessionActorProofs`**, the actor: `TypeCorrect`, `MutationsFirst`, `Quiet`,
  `TimerIsIdle`, `Refinement`.
  It reuses the scope's invariant (every actor step is a scope step or leaves the
  scope alone) and adds how close sequence, phase, scope and Manager move together,
  and that the work awaited at the end covers all running work. `Refinement`: under
  the mapping phase ↦ status, unfinished work ↦ inFlight, every step is a step of
  `ActorLifecycle` or a stutter. `TimerIsIdle` (the run's `TimerMeansIdle`) is inductive
  once an armed timer implies a live actor.
- **`ActivationRegistryProofs`**: `TypeCorrect`, `OneManagerPerAddress`
  (`AddressExclusive`), `OneManagerPerId` (`DurableIdExclusive`), `IndexesLeadToLive`
  (`LiveIsIndexed`), `ExclusionReleasedLast` (`LocksReleasedLast`). The invariant says
  what a request knows at each point between two awaits: which record it holds
  (`TaskInv`), that a pending creation is the one request that builds for its address
  (`PendingInv`), that every record not yet collected is the one its indexes name
  (`Indexed`), that a reserved address is of nobody else (`FreshInv`), and what the
  shutdown has left when it reaches the locks (`DrainInv`). Exclusion follows from the
  indexes being functions. The proof found two overlapping arms in an early form of
  `Begin`, which could never both apply in a reachable state; they are now exclusive
  by their guards.
- **`ManagerProofs`**: `TypeCorrect`, `NeverWedged` (`NotWedged`),
  `StampsPrecedeDisposal` (`StampsOnLiveRuntime`). The invariant adds that a run has an
  owner call, and a message while it has one to deliver (`RunInv`).
- **`GroupCommitProofs`**: `TypeCorrect`, `ReadsAreSerial` (`SerialReads`),
  `SuccessIsStored` (`ToldIsStored`), `SurvivorsPrefix` (`SurvivorsArePrefix`),
  `CloseStoresAll` (`ClosedIsStored`), and `Refinement`: the line and its writer
  implement `SerialCommits`. `CommitInv` follows a part from its admission: it is
  pending (in the call or the queue, in line order), published or dropped (`PartInv`,
  `OrderInv`); the keys of a pending part lead to it or to a newer one (`KeyInv`), so a
  job that got past its gate has no pending writer of its key before it, and what it
  read stays what the published jobs before it wrote (`ReadInv`); a receipt means that
  the part and the deferred changes it took are stored, and a published deferred change
  is stored, held, or taken by a part that is pending or was given up (`StoreInv`,
  `OnItsWay`), and Storage holds a prefix (`PrefixInv`). The refinement maps the pending
  parts to the abstract sequence: an admission is `Submit`, a publication `Commit` (what
  the oldest part read is all there is, because published parts come before pending
  ones), every stop, refusal and settled call of a failed Session `Abandon`, and the
  rest, the sending of the queue included, a stutter. A part's batch is counted
  (`StoredIndex`, the `storedIndex` of the code), which needs no induction over
  sequences.
- **`WorkerLinkProofs`**: `NothingPinned`, `SinkIsPrefix` (`StreamIsPrefix`),
  `SyncBeforeResolve` (`BaselineFirst`), `ShutdownIsDone` (`ShutdownReplyMeansDone`).
  Nothing is pinned because every live or opening observation has an owner, the
  connection's map or a pending acquisition, a closed connection has an empty map and
  only cancelled acquisitions, and only an open connection accepts (`LinkInv`). The
  streams need an account of the wire: an observation is asked for once (`AskedOnce`),
  its frames lie on the wire in the order of their emission, with a close last
  (`FramesInOrder`), none is missing between what a sink has and what is under way
  (`NoGap`), a sink that left the map before its request resumed gets no further frame
  (`LeftIsOver`), and the reply lies behind the initial sync (`Baseline`). A shutdown
  reply exists only after the drain (`ShutdownInv`).
- **`ConnectionProofs`**: `TypeCorrect`, `NothingPinned`, `MirrorReplicatesOne`
  (`MirrorIsOneStream`), `PulledValuesStayHome` (`PullsStayHome`). A live observation is
  the attachment's or its transition has yet to resume. That a terminal frame drops the
  right attachment needs the generations: the attachment has the current one, an
  acquisition the next, and there is at most one acquisition because transitions
  run one at a time. The mirror admits a frame by its generation alone, and an
  acquisition that fails after its initial sync leaves its generation to the next, so
  two observations may share one. `WireInv` therefore keeps a ledger of the frames
  under way: whose mirror each will meet and how long it will be. The newest
  observation is the last to have synced (`UpToDate`), and an older one that can still
  speak was attached, which makes its generation its own (`NeverReused`).
- **`DocumentSyncProofs`**: `CacheFaithful` (`CacheIsFile`), `SealedKept`
  (`SealedStays`), `LeafRooted` (`LeafIsRooted`), `MirrorsWhole` (`MirrorHasDocument`).
  pi's list hands out ids once and a parent is an entry it holds (`FileIs`). A sealed
  copy, in the Document, a mirror, a frame or a cache write, is the list's entry at
  its position (`Faithful`, `Copied`). The Document has sealed exactly the first
  `position` entries, its live forms are what it has not sealed, and its leaf and
  every parent are inside it (`DocIs`); that `refresh` keeps this is the longest
  argument (`RefreshIs`). A mirror lags by the frames on its way, so the invariant is
  about where they will take it: `Course` is the row of mirrors the frames produce,
  `Tracks` says that one exists and that every one ends whole. Carrying both along
  stands in for an induction over the frames. The initial sync starts such a course
  because the entries a cursor counts are sealed in the mirror it is sent with
  (`Covered`); a tab for which that fails is the one `document_sync_reconnect` shows.
  For the proof `live` is a set of ids (ids are handed out in order of creation, so the
  newest form is the greatest) and the path to the root the least set closed under
  parents; neither changes the states TLC reaches.

Assumptions are the named `ASSUME`s of the modules (types and distinctness of the
constants); TLC evaluates them on every run.

`OneReclaimer` and `ClosedIsDrained` are stated by theorems only: the proofs need
them as parts of their invariants.

Every invariant and action property of a passing run is stated by a theorem. Only
model-checked are the liveness properties (`AcquisitionSettles`, `CloseCompletes`,
`IdleCollected`, `AdmittedSettles`, `RequestsSettle`, `ShutdownCompletes`,
`CallsSettle`, `TransitionsReply`, `StopReturns`, `TeardownEnds`, `LineSettles`): the
prover handles neither fairness nor ENABLED.

## 5. Not modelled

- The handshake of the Worker link, and the requests that keep no state of the link.
- The Daemon's registration of Workers, routes and broadcasts, and its processes.
- Of the Manager: prompts deferred while `agent_settled` is being emitted, compaction,
  the follow-up queue, and the verbs for models, labels and names. `SessionActor` takes
  its disposal as one step that may reject.
- Of the Document: statistics and contents, the projection's rewrite path (the bridge
  never replaces the entry list of a live Session), events that follow
  `agent_settled`, seeding of a candidate on navigation, and the coalescing of frames
  by animation frame (a flush is a received frame).
- The compact codec's templates; frames travel whole in `Connection`.
- Of the durable Session: the hold timer, writes of observers at close, abandonment,
  reads off the line (only their failure is modelled), unloading and eviction; the
  scheduler of the durable harness.
- Catalog, repository browser, settings, text polish, titles: reads and validated
  writes without concurrency of their own.
- View model and web UI, the embedded pi packages, and the separate application
  under `apps/`.

## 6. Plan

1. `CompactCodec`: encode and decode state of one socket, the decoded stream equals
   the sent one across transitions and reconnects.
2. `Daemon`: registration, refusal, routes and withdrawal with several Workers;
   composes `WorkerLink` and `Connection`.
3. `WorkerProcess`: listening, probing and reconnecting.
