------------------------- MODULE StorageLockProofs -------------------------
(***************************************************************************)
(* Exclusion of the storage lock for any number of processes and hosts.    *)
(*                                                                         *)
(* MutualExclusion alone is not inductive.  What carries it is the chain   *)
(*   a live claimant owns the lock file (ClaimantOwnsLock)                 *)
(*   -- which only an unlink under the guard could break --                *)
(*   an unlink about to happen names a dead owner's file (UnlinkIsStale),  *)
(*   and nobody else can have replaced that file meanwhile, because every  *)
(*   process inside the guard owns the guard file (ReclaimerOwnsGuard).    *)
(* The last link holds until removeIfStale deletes a guard.                *)
(***************************************************************************)
EXTENDS StorageLock, TLAPS

\* Whoever is inside the guard, alive or dead, is the guard file's creator.
ReclaimerOwnsGuard == \A p \in Proc : pc[p] \in GuardSteps => guard.by = p

\* Whoever claims the directory and lives is the lock file's creator.
ClaimantOwnsLock == \A p \in Proc : alive[p] /\ pc[p] \in ClaimSteps => lock.by = p

\* A reclamation under way is directed at a dead process.
JudgedIsDead ==
  \A p \in Proc : pc[p] \in {"createGuard", "writeGuard", "recheckLock", "unlinkLock"}
                  => stale[p] \in Proc /\ ~alive[stale[p]]

\* The lock about to be unlinked under the guard is the one judged stale.
UnlinkIsStale == \A p \in Proc : pc[p] = "unlinkLock" => lock.by = stale[p]

\* The inductive invariant.
IInv == /\ TypeOK
        /\ JudgedIsDead
        /\ ~guardRemoved => /\ ReclaimerOwnsGuard
                            /\ ClaimantOwnsLock
                            /\ UnlinkIsStale

\* The file states the actions write are file states, and their creators are
\* the ones intended.
LEMMA FileFacts ==
  /\ NoFile \in File
  /\ NoFile.by = None
  /\ \A p \in Proc : /\ EmptyFile(p) \in File /\ EmptyFile(p).by = p
                     /\ WrittenFile(p) \in File /\ WrittenFile(p).by = p
<1>1. NoFile \in File /\ NoFile.by = None
  BY DEF NoFile, File
<1>2. ASSUME NEW p \in Proc PROVE EmptyFile(p) \in File /\ EmptyFile(p).by = p
  BY DEF EmptyFile, File
<1>3. ASSUME NEW p \in Proc PROVE WrittenFile(p) \in File /\ WrittenFile(p).by = p
  BY DEF WrittenFile, File
<1> QED
  BY <1>1, <1>2, <1>3

\* The initial state is well typed.
LEMMA TypeInit == Init => TypeOK
  BY FileFacts DEF Init, TypeOK, Steps, GuardSteps, ClaimSteps

\* One step keeps the types.
LEMMA TypeStep == TypeOK /\ [Next]_vars => TypeOK'
<1> SUFFICES ASSUME TypeOK, [Next]_vars PROVE TypeOK'
  OBVIOUS
<1> USE FileFacts DEF TypeOK, At, Goto, Steps, GuardSteps, ClaimSteps
<1>1. CASE UNCHANGED vars
  BY <1>1 DEF vars
<1>2. ASSUME NEW p \in Proc, Acquire(p) PROVE TypeOK'
  <2>1. CASE CreateLock(p)   BY <2>1 DEF CreateLock
  <2>2. CASE WriteLock(p)    BY <2>2 DEF WriteLock
  <2>3. CASE ReadLock(p)     BY <2>3 DEF ReadLock, ReadRecord, File
  <2>4. CASE JudgeLock(p)    BY <2>4 DEF JudgeLock
  <2>5. CASE CreateGuard(p)  BY <2>5 DEF CreateGuard
  <2>6. CASE WriteGuard(p)   BY <2>6 DEF WriteGuard
  <2>7. CASE ReadGuard(p)    BY <2>7 DEF ReadGuard, ReadRecord, File
  <2>8. CASE JudgeGuard(p)   BY <2>8 DEF JudgeGuard
  <2>9. CASE UnlinkGuard(p)  BY <2>9 DEF UnlinkGuard
  <2>10. CASE RecheckLock(p) BY <2>10 DEF RecheckLock, ReadRecord
  <2>11. CASE UnlinkLock(p)  BY <2>11 DEF UnlinkLock
  <2>12. CASE CheckGuard(p)  BY <2>12 DEF CheckGuard, ReadRecord
  <2>13. CASE DropGuard(p)   BY <2>13 DEF DropGuard
  <2> QED
    BY <1>2, <2>1, <2>2, <2>3, <2>4, <2>5, <2>6, <2>7, <2>8, <2>9, <2>10, <2>11,
       <2>12, <2>13 DEF Acquire
<1>3. ASSUME NEW p \in Proc, Release(p) \/ CheckLock(p) \/ DropLock(p) PROVE TypeOK'
  BY <1>3 DEF Release, CheckLock, DropLock
<1>4. ASSUME NEW p \in Proc, DeadlinePasses(p) \/ Die(p) PROVE TypeOK'
  BY <1>4 DEF DeadlinePasses, Die
<1> QED
  BY <1>1, <1>2, <1>3, <1>4 DEF Next

\* Every variable keeps its type: files carry a process of the system, and a
\* process is always at a known await of acquireStorageLock or release.
THEOREM TypeCorrect == Spec => []TypeOK
  BY TypeInit, TypeStep, PTL DEF Spec

\* One step keeps the inductive invariant.
LEMMA Inductive == IInv /\ [Next]_vars => IInv'
<1> SUFFICES ASSUME IInv, TypeOK', [Next]_vars PROVE IInv'
  BY TypeStep DEF IInv
<1> USE FileFacts, NoneAssumption DEF IInv, TypeOK, File, At, Goto, GuardSteps, ClaimSteps,
        JudgedIsDead, ReclaimerOwnsGuard, ClaimantOwnsLock, UnlinkIsStale
<1>1. CASE UNCHANGED vars
  BY <1>1 DEF vars
<1>2. ASSUME NEW p \in Proc, Acquire(p) PROVE IInv'
  <2>1. CASE CreateLock(p)   BY <2>1 DEF CreateLock
  <2>2. CASE WriteLock(p)    BY <2>2 DEF WriteLock
  <2>3. CASE ReadLock(p)     BY <2>3 DEF ReadLock
  <2>4. CASE JudgeLock(p)    BY <2>4 DEF JudgeLock, ProvablyStale, IsStale
  <2>5. CASE CreateGuard(p)  BY <2>5 DEF CreateGuard
  <2>6. CASE WriteGuard(p)   BY <2>6 DEF WriteGuard
  <2>7. CASE ReadGuard(p)    BY <2>7 DEF ReadGuard
  <2>8. CASE JudgeGuard(p)   BY <2>8 DEF JudgeGuard
  <2>9. CASE UnlinkGuard(p)  BY <2>9 DEF UnlinkGuard
  <2>10. CASE RecheckLock(p) BY <2>10 DEF RecheckLock, ReadRecord
  <2>11. CASE UnlinkLock(p)  BY <2>11 DEF UnlinkLock
  <2>12. CASE CheckGuard(p)  BY <2>12 DEF CheckGuard, ReadRecord
  <2>13. CASE DropGuard(p)   BY <2>13 DEF DropGuard
  <2> QED
    BY <1>2, <2>1, <2>2, <2>3, <2>4, <2>5, <2>6, <2>7, <2>8, <2>9, <2>10, <2>11,
       <2>12, <2>13 DEF Acquire
<1>3. ASSUME NEW p \in Proc, Release(p) PROVE IInv'
  BY <1>3 DEF Release
<1>4. ASSUME NEW p \in Proc, CheckLock(p) PROVE IInv'
  BY <1>4 DEF CheckLock
<1>5. ASSUME NEW p \in Proc, DropLock(p) PROVE IInv'
  BY <1>5 DEF DropLock
<1>6. ASSUME NEW p \in Proc, DeadlinePasses(p) PROVE IInv'
  BY <1>6 DEF DeadlinePasses
<1>7. ASSUME NEW p \in Proc, Die(p) PROVE IInv'
  BY <1>7 DEF Die
<1> QED
  BY <1>1, <1>2, <1>3, <1>4, <1>5, <1>6, <1>7 DEF Next

\* The inductive invariant holds in every reachable state.
LEMMA Invariance == Spec => []IInv
<1>1. Init => IInv
  BY TypeInit DEF Init, IInv, JudgedIsDead, ReclaimerOwnsGuard, ClaimantOwnsLock,
     UnlinkIsStale, GuardSteps, ClaimSteps
<1> QED
  BY <1>1, Inductive, PTL DEF Spec

\* Until removeIfStale deletes a guard, no two live Workers own the directory,
\* whatever the number of processes, hosts, crashes and failed file operations.
THEOREM Exclusion == Spec => []ExclusiveUntilGuardRemoved
<1>1. IInv => ExclusiveUntilGuardRemoved
  BY DEF IInv, ClaimantOwnsLock, ExclusiveUntilGuardRemoved, MutualExclusion, Holds, ClaimSteps
<1> QED
  BY <1>1, Invariance, PTL

\* Until removeIfStale deletes a guard, one process at a time is inside it.
THEOREM GuardExclusion == Spec => []OneReclaimer
<1>1. IInv => OneReclaimer
  BY DEF IInv, ReclaimerOwnsGuard, OneReclaimer
<1> QED
  BY <1>1, Invariance, PTL

\* Until removeIfStale deletes a guard, only its own release takes the lock
\* file away from a live claimant.
THEOREM ClaimKept == Spec => LiveClaimKept
<1>1. IInv /\ [Next]_vars => [KeepsLiveClaim]_vars
  <2> SUFFICES ASSUME IInv, Next, NEW p \in Proc, ~guardRemoved, alive[p], lock.by = p,
                      pc[p] \in {"writeLock", "held", "checkLock"}
               PROVE  lock'.by = p
    BY DEF KeepsLiveClaim
  <2> USE FileFacts, NoneAssumption DEF IInv, At, ClaimantOwnsLock, ClaimSteps
  <2>1. PICK q \in Proc : \/ Acquire(q) \/ Release(q) \/ CheckLock(q) \/ DropLock(q)
                          \/ DeadlinePasses(q) \/ Die(q)
    BY DEF Next
  <2>2. CASE CreateLock(q)
    BY <2>2 DEF CreateLock
  <2>3. CASE WriteLock(q)
    BY <2>3 DEF WriteLock
  <2>4. CASE UnlinkLock(q)
    BY <2>4 DEF UnlinkLock, JudgedIsDead, UnlinkIsStale
  <2>5. CASE DropLock(q)
    BY <2>5 DEF DropLock
  <2>6. CASE ~(CreateLock(q) \/ WriteLock(q) \/ UnlinkLock(q) \/ DropLock(q))
    BY <2>1, <2>6 DEF Acquire, ReadLock, JudgeLock, CreateGuard, WriteGuard, ReadGuard,
       JudgeGuard, UnlinkGuard, RecheckLock, CheckGuard, DropGuard, Release, CheckLock,
       DeadlinePasses, Die
  <2> QED
    BY <2>2, <2>3, <2>4, <2>5, <2>6
<1> QED
  BY <1>1, Invariance, PTL DEF Spec, LiveClaimKept
=============================================================================
