---------------------------- MODULE StorageLock ----------------------------
(***************************************************************************)
(* The execution lock of a Session directory (host/storage-lock.ts).       *)
(*                                                                         *)
(* Worker processes compete for one directory.  Ownership is a lock file   *)
(* created with the exclusive flag; a lock whose owner is dead is removed  *)
(* under a second exclusive file, the reclaim guard.                       *)
(*                                                                         *)
(* Granularity: every awaited file operation is one step, and so is every  *)
(* synchronous continuation that consumes what was read, because other     *)
(* processes act between the two.  An exclusive write is two steps (create *)
(* the empty file, write the record): a reader in between sees a record    *)
(* that does not parse.                                                    *)
(*                                                                         *)
(* A process makes one acquisition, so its name stands for its pid and for *)
(* its random token.  A restarted Worker is another member of Proc.        *)
(***************************************************************************)
EXTENDS Naturals, FiniteSets

CONSTANTS Proc,        \* Worker processes
          None,        \* no process
          Host,        \* machines that share the file system
          HostOf,      \* the machine of each process
          Mortal,      \* the processes that may die
          Impatient,   \* the processes whose deadline may pass
          IoFaults     \* may a create, write, read or unlink fail?

ASSUME NoneAssumption == None \notin Proc
ASSUME HostAssumption == HostOf \in [Proc -> Host]
ASSUME SubsetAssumption == Mortal \subseteq Proc /\ Impatient \subseteq Proc
ASSUME SwitchAssumption == IoFaults \in BOOLEAN

VARIABLES lock,         \* the file .pi-bridge.lock
          guard,        \* the file .pi-bridge.lock.reclaim
          pc,           \* where each acquisition stands
          seen,         \* the record its last read returned (None: null)
          stale,        \* the record it judged stale
          expired,      \* its deadline has passed
          alive,        \* the process answers kill(pid, 0)
          guardRemoved  \* history: removeIfStale has deleted a guard

vars == <<lock, guard, pc, seen, stale, expired, alive, guardRemoved>>

File == [by : Proc \cup {None}, written : BOOLEAN]

NoFile == [by |-> None, written |-> FALSE]

\* What an exclusive create leaves before its write completes.
EmptyFile(p) == [by |-> p, written |-> FALSE]

\* The same file once its record is in.
WrittenFile(p) == [by |-> p, written |-> TRUE]

GuardSteps == {"writeGuard", "recheckLock", "unlinkLock", "checkGuard", "dropGuard"}

ClaimSteps == {"writeLock", "held", "checkLock", "dropLock"}

Steps == GuardSteps \cup ClaimSteps \cup
         {"create", "readLock", "judgeLock", "createGuard", "readGuard", "judgeGuard",
          "unlinkGuard", "released", "failed"}

TypeOK == /\ lock \in File
          /\ guard \in File
          /\ pc \in [Proc -> Steps]
          /\ seen \in [Proc -> Proc \cup {None}]
          /\ stale \in [Proc -> Proc \cup {None}]
          /\ expired \in [Proc -> BOOLEAN]
          /\ alive \in [Proc -> BOOLEAN]
          /\ guardRemoved \in BOOLEAN

Init == /\ lock = NoFile
        /\ guard = NoFile
        /\ pc = [p \in Proc |-> "create"]
        /\ seen = [p \in Proc |-> None]
        /\ stale = [p \in Proc |-> None]
        /\ expired = [p \in Proc |-> FALSE]
        /\ alive = [p \in Proc |-> TRUE]
        /\ guardRemoved = FALSE

-----------------------------------------------------------------------------
\* readRecord: null for an absent file, for one that does not parse yet and for
\* a read that fails.
ReadRecord(file) == {IF file.written THEN file.by ELSE None}
                    \cup (IF IoFaults THEN {None} ELSE {})

\* isStale: not this process, same host, pid not alive.
IsStale(p, q) == /\ q # p
                 /\ HostOf[q] = HostOf[p]
                 /\ ~alive[q]

\* A null record is never provably stale.
ProvablyStale(p, q) == q # None /\ IsStale(p, q)

At(p, step) == alive[p] /\ pc[p] = step

Goto(p, step) == pc' = [pc EXCEPT ![p] = step]

\* Bug: a create that fails with EEXIST is taken for a success.
CreateLockTolerant(p) ==
  /\ At(p, "create")
  /\ lock' = IF lock = NoFile THEN EmptyFile(p) ELSE lock
  /\ Goto(p, "writeLock")
  /\ UNCHANGED <<guard, seen, stale, expired, alive, guardRemoved>>

\* createExclusive(path, record) of the lock: the file appears, empty.
CreateLock(p) ==
  /\ At(p, "create")
  /\ \/ /\ lock = NoFile
        /\ lock' = EmptyFile(p)
        /\ Goto(p, "writeLock")
     \/ /\ lock # NoFile
        /\ Goto(p, "readLock")
        /\ UNCHANGED lock
     \/ /\ IoFaults
        /\ Goto(p, "failed")
        /\ UNCHANGED lock
  /\ UNCHANGED <<guard, seen, stale, expired, alive, guardRemoved>>

\* The record reaches the lock; a failed write rejects and leaves the file.
WriteLock(p) ==
  /\ At(p, "writeLock")
  /\ \/ /\ lock' = IF lock.by = p THEN WrittenFile(p) ELSE lock
        /\ Goto(p, "held")
     \/ /\ IoFaults
        /\ Goto(p, "failed")
        /\ UNCHANGED lock
  /\ UNCHANGED <<guard, seen, stale, expired, alive, guardRemoved>>

\* The lock exists: read who holds it.
ReadLock(p) ==
  /\ At(p, "readLock")
  /\ \E r \in ReadRecord(lock) : seen' = [seen EXCEPT ![p] = r]
  /\ Goto(p, "judgeLock")
  /\ UNCHANGED <<lock, guard, stale, expired, alive, guardRemoved>>

\* Bug: an attempt that finds the directory owned never looks at its deadline.
JudgeLockUntimed(p) ==
  /\ At(p, "judgeLock")
  /\ stale' = [stale EXCEPT ![p] = IF ProvablyStale(p, seen[p]) THEN seen[p] ELSE @]
  /\ Goto(p, IF ProvablyStale(p, seen[p]) THEN "createGuard" ELSE "create")
  /\ UNCHANGED <<lock, guard, seen, expired, alive, guardRemoved>>

\* A stale owner is reclaimed; otherwise the deadline is checked, and the
\* attempt gives up or sleeps and starts over.
JudgeLock(p) ==
  /\ At(p, "judgeLock")
  /\ \/ /\ ProvablyStale(p, seen[p])
        /\ stale' = [stale EXCEPT ![p] = seen[p]]
        /\ Goto(p, "createGuard")
     \/ /\ ~ProvablyStale(p, seen[p])
        /\ Goto(p, IF expired[p] THEN "failed" ELSE "create")
        /\ UNCHANGED stale
  /\ UNCHANGED <<lock, guard, seen, expired, alive, guardRemoved>>

\* reclaim: the guard is created exclusively.
CreateGuard(p) ==
  /\ At(p, "createGuard")
  /\ \/ /\ guard = NoFile
        /\ guard' = EmptyFile(p)
        /\ Goto(p, "writeGuard")
     \/ /\ guard # NoFile
        /\ Goto(p, "readGuard")
        /\ UNCHANGED guard
     \/ /\ IoFaults
        /\ Goto(p, "failed")
        /\ UNCHANGED guard
  /\ UNCHANGED <<lock, seen, stale, expired, alive, guardRemoved>>

WriteGuard(p) ==
  /\ At(p, "writeGuard")
  /\ \/ /\ guard' = IF guard.by = p THEN WrittenFile(p) ELSE guard
        /\ Goto(p, "recheckLock")
     \/ /\ IoFaults
        /\ Goto(p, "failed")
        /\ UNCHANGED guard
  /\ UNCHANGED <<lock, seen, stale, expired, alive, guardRemoved>>

\* removeIfStale(reclaimPath): read the guard ...
ReadGuard(p) ==
  /\ At(p, "readGuard")
  /\ \E r \in ReadRecord(guard) : seen' = [seen EXCEPT ![p] = r]
  /\ Goto(p, "judgeGuard")
  /\ UNCHANGED <<lock, guard, stale, expired, alive, guardRemoved>>

\* ... judge its owner; the outer loop continues with no deadline check ...
JudgeGuard(p) ==
  /\ At(p, "judgeGuard")
  /\ Goto(p, IF ProvablyStale(p, seen[p]) THEN "unlinkGuard" ELSE "create")
  /\ UNCHANGED <<lock, guard, seen, stale, expired, alive, guardRemoved>>

\* ... and unlink whatever file now carries that name.
UnlinkGuard(p) ==
  /\ At(p, "unlinkGuard")
  /\ \/ /\ guard' = NoFile
        /\ guardRemoved' = (guardRemoved \/ guard # NoFile)
     \/ /\ IoFaults
        /\ UNCHANGED <<guard, guardRemoved>>
  /\ Goto(p, "create")
  /\ UNCHANGED <<lock, seen, stale, expired, alive>>

\* Bug: what was judged stale is unlinked without a second look.
RecheckLockTrusting(p) ==
  /\ At(p, "recheckLock")
  /\ Goto(p, "unlinkLock")
  /\ UNCHANGED <<lock, guard, seen, stale, expired, alive, guardRemoved>>

\* Under the guard: is the lock still the record that was judged stale?
RecheckLock(p) ==
  /\ At(p, "recheckLock")
  /\ \E r \in ReadRecord(lock) :
       Goto(p, IF r # None /\ r = stale[p] THEN "unlinkLock" ELSE "checkGuard")
  /\ UNCHANGED <<lock, guard, seen, stale, expired, alive, guardRemoved>>

UnlinkLock(p) ==
  /\ At(p, "unlinkLock")
  /\ lock' = NoFile \/ (IoFaults /\ lock' = lock)
  /\ Goto(p, "checkGuard")
  /\ UNCHANGED <<guard, seen, stale, expired, alive, guardRemoved>>

\* finally: the guard is released if it still carries this process's token.
CheckGuard(p) ==
  /\ At(p, "checkGuard")
  /\ \E r \in ReadRecord(guard) : Goto(p, IF r = p THEN "dropGuard" ELSE "create")
  /\ UNCHANGED <<lock, guard, seen, stale, expired, alive, guardRemoved>>

DropGuard(p) ==
  /\ At(p, "dropGuard")
  /\ guard' = NoFile \/ (IoFaults /\ guard' = guard)
  /\ Goto(p, "create")
  /\ UNCHANGED <<lock, seen, stale, expired, alive, guardRemoved>>

\* release(): a second call returns at once, so it runs at most once.
Release(p) ==
  /\ At(p, "held")
  /\ Goto(p, "checkLock")
  /\ UNCHANGED <<lock, guard, seen, stale, expired, alive, guardRemoved>>

CheckLock(p) ==
  /\ At(p, "checkLock")
  /\ \E r \in ReadRecord(lock) : Goto(p, IF r = p THEN "dropLock" ELSE "released")
  /\ UNCHANGED <<lock, guard, seen, stale, expired, alive, guardRemoved>>

DropLock(p) ==
  /\ At(p, "dropLock")
  /\ lock' = NoFile \/ (IoFaults /\ lock' = lock)
  /\ Goto(p, "released")
  /\ UNCHANGED <<guard, seen, stale, expired, alive, guardRemoved>>

\* Date.now() >= deadline from here on.
DeadlinePasses(p) ==
  /\ p \in Impatient /\ alive[p] /\ ~expired[p]
  /\ expired' = [expired EXCEPT ![p] = TRUE]
  /\ UNCHANGED <<lock, guard, pc, seen, stale, alive, guardRemoved>>

\* The process dies; its files stay.
Die(p) ==
  /\ p \in Mortal /\ alive[p]
  /\ alive' = [alive EXCEPT ![p] = FALSE]
  /\ UNCHANGED <<lock, guard, pc, seen, stale, expired, guardRemoved>>

\* acquireStorageLock, one awaited operation at a time.
Acquire(p) ==
  \/ CreateLock(p) \/ WriteLock(p) \/ ReadLock(p) \/ JudgeLock(p)
  \/ CreateGuard(p) \/ WriteGuard(p) \/ ReadGuard(p) \/ JudgeGuard(p) \/ UnlinkGuard(p)
  \/ RecheckLock(p) \/ UnlinkLock(p) \/ CheckGuard(p) \/ DropGuard(p)

Next == \E p \in Proc : \/ Acquire(p)
                        \/ Release(p) \/ CheckLock(p) \/ DropLock(p)
                        \/ DeadlinePasses(p) \/ Die(p)

Spec == Init /\ [][Next]_vars

\* A live process keeps running its event loop and time passes.  Nothing
\* obliges a holder to release, nor a process to die.
FairSpec == Spec /\ \A p \in Proc : WF_vars(Acquire(p)) /\ WF_vars(DeadlinePasses(p))

-----------------------------------------------------------------------------
\* A process that may write Session files, or is about to let go of them.
Holds(p) == alive[p] /\ pc[p] \in {"held", "checkLock", "dropLock"}

\* At most one live Worker believes it owns the directory: the promise the
\* header of storage-lock.ts makes without condition.
MutualExclusion == \A p, q \in Proc : Holds(p) /\ Holds(q) => p = q

\* The same promise as long as no guard has been deleted as stale: deleting a
\* guard is the only way two reclaimers can be inside the guard at once.
ExclusiveUntilGuardRemoved == ~guardRemoved => MutualExclusion

\* The guard admits one reclaimer at a time, so the re-read of the lock and its
\* unlink cannot be separated by another reclaimer's unlink.
OneReclaimer == ~guardRemoved =>
  \A p, q \in Proc : pc[p] \in GuardSteps /\ pc[q] \in GuardSteps => p = q

\* The step leaves the lock file to a live claimant that has not begun to
\* unlink it itself.
KeepsLiveClaim ==
  ~guardRemoved =>
    \A p \in Proc : /\ alive[p] /\ lock.by = p
                    /\ pc[p] \in {"writeLock", "held", "checkLock"}
                    => lock'.by = p

\* Until a guard is removed, no step takes the lock file away from a live
\* claimant other than the claimant's own release ("deleting it would hand the
\* directory to a third process while the second is still writing").
LiveClaimKept == [][KeepsLiveClaim]_vars

\* The guard is that of a live process that is working under it.
GuardAttended == guard # NoFile => alive[guard.by] /\ pc[guard.by] \in GuardSteps

\* The step is a failed read or unlink that makes a reclaimer leave the lock it
\* judged stale in place.
ReclaimRefused == \E p \in Proc : /\ pc[p] \in {"recheckLock", "unlinkLock"}
                                  /\ pc'[p] = "checkGuard" /\ lock'.by = stale[p]

\* Every acquisition with a deadline ends: it owns the directory, or it rejects when the
\* deadline has passed, or its process is gone ("Rejects when the directory is
\* already served by a live owner, or when the wait deadline expires").  Two cases
\* are left out, because the loop of acquireStorageLock goes round a stale lock
\* without looking at the deadline: a guard that its owner left behind, and a disk
\* that refuses the removal of a stale lock again and again.
AcquisitionSettles ==
  ([]GuardAttended /\ <>[][~ReclaimRefused]_vars) =>
    \A p \in Impatient : (pc[p] = "create") ~> (pc[p] \in {"held", "failed"} \/ ~alive[p])
=============================================================================
