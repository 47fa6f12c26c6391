------------------------- MODULE GroupCommitProofs --------------------------
(***************************************************************************)
(* Serial commits, for any number of jobs, keys and batches, whatever the   *)
(* backend refuses, rejects or loses.                                       *)
(*                                                                         *)
(* The invariant follows a part from its admission: it is pending (in the   *)
(* call or in the queue, in line order), published, or dropped; while it is *)
(* pending its keys lead to it or to a newer part (KeyInv), so that a job   *)
(* that returned has no pending writer of its key before it (ReadInv).      *)
(***************************************************************************)
EXTENDS GroupCommit, FiniteSetTheorems, SequenceTheorems, TLAPS

Active == {"running", "waiting", "settling"}
JobStates == Active \cup {"queued", "ended", "parked", "upkeep", "stored"}
Jobs == [st : JobStates, read : Keys \cup {None}, write : Keys \cup {None}, held : BOOLEAN,
         exempt : BOOLEAN, got : SUBSET Nat, gate : Nat \cup {None}, hit : BOOLEAN,
         taken : SUBSET Nat]
Calls == [phase : {"idle", "storing", "publishing"}, parts : Seq(Nat), received : Nat,
          verdict : Verdicts \cup {None}, at : Nat \ {0}, stop : BOOLEAN,
          settle : BOOLEAN]

TypeOK ==
  /\ job \in Seq(Jobs) /\ line \in Nat \cup {None} /\ delivered \in Nat
  /\ out \in Seq(Outcomes \cup {None}) /\ told \in Seq(Outcomes \cup {None})
  /\ Len(out) = Len(job) /\ Len(told) = Len(job)
  /\ queue \in Seq(Nat) /\ unpub \in [Keys -> Nat \cup {None}] /\ gates \subseteq Nat
  /\ call \in Calls /\ dropped \subseteq Nat
  /\ durable \subseteq Nat /\ memory \in [Keys -> SUBSET Nat] /\ holds \subseteq Nat
  /\ failure \in [at : Nat, own : SUBSET Nat] \cup {None}
  /\ closing \in {"no", "sealed", "storing", "closed"}

St(j) == job[j].st
PartJobs == {p \in Indexes : St(p) \in {"parked", "stored"}}
Pend == Rest \cup Parts(queue)

\* The line: the job that holds it is the only one active, everything after it
\* is queued, and nothing follows what close stores.
LineInv ==
  /\ line # None => line \in Indexes /\ St(line) \in Active
  /\ \A j \in Indexes : St(j) \in Active => line = j
  /\ \A i, j \in Indexes : i < j /\ St(i) \in Active \cup {"queued"} => St(j) = "queued"
  /\ \A j \in Indexes : St(j) \in {"upkeep", "stored"} => j = Len(job)
  /\ closing \in {"no", "sealed"} => \A j \in Indexes : St(j) \notin {"upkeep", "stored"}
  /\ closing \in {"storing", "closed"} => \A j \in Indexes : St(j) \notin Active \cup {"queued"}
  /\ closing = "storing" => Len(job) \in Indexes /\ St(Len(job)) \in {"upkeep", "stored"}

\* What a job says of itself in each state.
JobOk(j) ==
  /\ St(j) = "parked" => job[j].write \in Keys
  /\ St(j) \in {"upkeep", "stored"} => job[j].read = None /\ job[j].write = None /\ ~job[j].held
  /\ St(j) \notin {"parked", "upkeep", "stored"} => job[j].taken = {}
  /\ job[j].held => job[j].taken = {}
  /\ St(j) = "waiting" => job[j].read \in Keys
JobInv == \A j \in Indexes : JobOk(j)

\* The call in flight.
CallInv ==
  /\ call.phase = "idle" => call = Idle /\ queue = <<>>
  /\ call.phase = "storing" => call.at = 1 /\ ~call.stop /\ ~call.settle
  /\ call.phase # "idle" => call.parts # <<>>
  /\ call.at <= Len(call.parts) + 1
  /\ call.stop \/ call.settle => call.at > 1
  /\ dropped # {} => Failed /\ call.phase = "idle"

\* Parts are pending in line order, and published ones before them.
OrderInv ==
  /\ Parts(call.parts) \cup Parts(queue) \subseteq PartJobs
  /\ \A m, n \in 1..Len(call.parts) : m < n => call.parts[m] < call.parts[n]
  /\ \A m, n \in 1..Len(queue) : m < n => queue[m] < queue[n]
  /\ \A p \in Parts(call.parts), q \in Parts(queue) : p < q
  /\ \A k \in Keys : \A p \in memory[k], q \in Pend : p < q

\* A parked job's part is pending, published or dropped.
PartInv ==
  /\ \A p \in Indexes : St(p) = "parked" => p \in Pend \cup dropped \cup memory[job[p].write]
  /\ \A k \in Keys : \A p \in memory[k] : p \in Indexes /\ St(p) = "parked" /\ job[p].write = k
  /\ gates \subseteq PartJobs \ Pend

KeysOf(p) == {job[p].write} \cup {job[h].write : h \in job[p].taken}

\* A pending part's keys lead to it or to a newer one, and only to such.
KeyInv ==
  \A k \in Keys : /\ unpub[k] # None => unpub[k] \in Pend
                  /\ \A p \in Pend : k \in KeysOf(p) => unpub[k] # None /\ p <= unpub[k]

\* The job returned: it has read its key.
Returned(j) == St(j) \in {"settling", "parked"} \/ (St(j) = "ended" /\ out[j] = "ok")
\* What it read is what was published before it, for good; what it waits for is
\* the newest writer of its key.
ReadOk(j) ==
  /\ Returned(j) /\ job[j].read # None =>
       /\ job[j].got = {i \in memory[job[j].read] : i < j}
       /\ ~Failed => \A p \in Pend : p < j => job[p].write # job[j].read
  /\ St(j) = "waiting" =>
       /\ job[j].gate \in Indexes /\ St(job[j].gate) = "parked"
       /\ ~Failed => \A p \in Pend : job[j].read \in KeysOf(p) => p <= job[j].gate
ReadInv == \A j \in Indexes : ReadOk(j)

\* A part that took the deferred commit h is pending, or was given up.
OnItsWay(h) == \E p \in Indexes : p \in Pend \cup dropped /\ h \in job[p].taken

\* What Storage holds of what is published, held and received, and of what the
\* part that settles next took.
StoreInv ==
  /\ durable \subseteq PartJobs
  /\ holds \subseteq {h \in Published : job[h].held}
  /\ \A p \in Indexes : job[p].taken \subseteq {h \in Published : job[h].held}
  /\ \A p \in Published : (p \in durable \/ job[p].held) /\ job[p].taken \subseteq durable
  /\ \A h \in Published : h \in durable \cup holds \/ OnItsWay(h)
  /\ call.settle => job[call.parts[call.at - 1]].taken \subseteq durable
  /\ \A n \in 1..Len(call.parts) :
       IsStored(call.parts[n]) /\ StoredIndex(call.parts, n) <= call.received =>
         call.parts[n] \in durable /\ job[call.parts[n]].taken \subseteq durable

\* Storage holds a prefix of the stored parts.
PrefixInv ==
  \A i, j \in PartJobs : i < j /\ ~job[i].held /\ ~job[j].held /\ j \in durable => i \in durable
\* Nothing is published past a dropped part.
DropInv == \A i \in dropped : \A k \in Keys : \A j \in memory[k] : j < i

\* What an outcome says.
OutOk(j) ==
  /\ St(j) \notin {"parked", "ended", "stored"} => out[j] = None
  /\ out[j] = "ok" =>
       /\ St(j) \in {"parked", "ended", "stored"}
       /\ St(j) = "parked" => j \in Published
       /\ St(j) = "ended" => job[j].write = None
       /\ St(j) = "stored" => job[j].taken \subseteq durable
  /\ out[j] \in {"own", "failed"} /\ St(j) \in {"parked", "stored"} => Failed
  /\ told[j] = "ok" =>
       /\ St(j) \in {"parked", "ended"}
       /\ St(j) = "parked" => j \in Published
       /\ St(j) = "ended" => out[j] = "ok"
OutInv == \A j \in Indexes : OutOk(j)

\* Close: what was held when the line drained is what it stores.
CloseInv ==
  /\ closing \in {"storing", "closed"} => \A p \in Pend : St(p) = "stored"
  /\ \A j \in Indexes : /\ St(j) = "upkeep" => job[j].taken = holds /\ closing = "storing"
                        /\ St(j) = "stored" => holds = {}
  /\ closing = "closed" /\ ~Failed => Published \subseteq durable

CommitInv == TypeOK /\ LineInv /\ JobInv /\ CallInv /\ OrderInv /\ PartInv /\ KeyInv /\ ReadInv
             /\ StoreInv /\ PrefixInv /\ DropInv /\ OutInv /\ CloseInv

-----------------------------------------------------------------------------
(* What the provers need to know of the definitions.                       *)

\* None is none of the values it stands for the absence of.
LEMMA NoneFacts == None \notin Nat /\ None \notin Keys /\ None \notin Outcomes /\ None \notin Verdicts
  BY NoneIsNothing

\* Membership in what is published, before and after a step.
LEMMA PublishedElems ==
  /\ \A p : p \in Published <=> \E k \in Keys : p \in memory[k]
  /\ \A p : p \in Published' <=> \E k \in Keys : p \in memory'[k]
  BY DEF Published

\* Membership in what is pending.
LEMMA PendElems ==
  ASSUME TypeOK
  PROVE  /\ \A p : p \in Pend <=> \/ \E n \in call.at..Len(call.parts) : p = call.parts[n]
                                 \/ \E n \in 1..Len(queue) : p = queue[n]
         /\ \A n \in 1..Len(call.parts) : call.parts[n] \in Parts(call.parts)
         /\ \A n \in 1..Len(queue) : queue[n] \in Parts(queue)
         /\ Rest \subseteq Parts(call.parts)
         /\ call.at \in Nat \ {0} /\ Len(call.parts) \in Nat /\ Len(queue) \in Nat
<1>1. call.parts \in Seq(Nat) /\ call.at \in Nat \ {0} /\ queue \in Seq(Nat)
  BY DEF TypeOK, Calls
<1>2. Parts(call.parts) = {call.parts[n] : n \in 1..Len(call.parts)}
  BY <1>1 DEF Parts
<1>3. Parts(queue) = {queue[n] : n \in 1..Len(queue)}
  BY <1>1 DEF Parts
<1>4. Rest \subseteq Parts(call.parts)
  BY <1>1, <1>2 DEF Rest
<1> QED
  BY <1>1, <1>2, <1>3, <1>4 DEF Pend, Rest

\* Jobs by index.
LEMMA JobTypes ==
  ASSUME TypeOK
  PROVE  /\ Len(job) \in Nat
         /\ \A j \in Indexes : job[j] \in Jobs /\ out[j] \in Outcomes \cup {None} /\ j \in Nat
  BY DEF TypeOK, Indexes

\* One job changes.
LEMMA JobSet ==
  ASSUME TypeOK, NEW j \in Indexes, NEW r \in Jobs, job' = [job EXCEPT ![j] = r]
  PROVE  /\ job' \in Seq(Jobs) /\ Len(job') = Len(job) /\ job'[j] = r
         /\ \A i \in Indexes : i # j => job'[i] = job[i]
  BY DEF TypeOK, Indexes

\* One job is appended.
LEMMA JobAppended ==
  ASSUME TypeOK, NEW r \in Jobs, job' = Append(job, r)
  PROVE  /\ job' \in Seq(Jobs) /\ Len(job') = Len(job) + 1 /\ job'[Len(job) + 1] = r
         /\ \A i \in Indexes : job'[i] = job[i]
  BY DEF TypeOK, Indexes

\* The index of a batch is a number, and grows along the call.
LEMMA StoredIndexGrows ==
  ASSUME NEW parts, NEW m \in Nat, NEW n \in Nat, m <= n
  PROVE  /\ StoredIndex(parts, m) \in Nat /\ StoredIndex(parts, n) \in Nat
         /\ StoredIndex(parts, m) <= StoredIndex(parts, n)
<1> DEFINE A(x) == {i \in 1..x : IsStored(parts[i])}
<1>1. IsFiniteSet(1..n)
  BY FS_Interval
<1>2. A(n) \in SUBSET (1..n) /\ A(m) \in SUBSET A(n)
  OBVIOUS
<1>3. IsFiniteSet(A(n))
  BY <1>1, <1>2, FS_Subset
<1>4. IsFiniteSet(A(m)) /\ Cardinality(A(m)) <= Cardinality(A(n))
  BY <1>2, <1>3, FS_Subset
<1>5. Cardinality(A(m)) \in Nat /\ Cardinality(A(n)) \in Nat
  BY <1>3, <1>4, FS_CardinalityType
<1> QED
  BY <1>4, <1>5 DEF StoredIndex

\* It depends on what the call's parts are, and a part does not change.
LEMMA StoredIndexStays ==
  ASSUME NEW parts, NEW n \in Nat, \A i \in 1..n : job'[parts[i]].held = job[parts[i]].held
  PROVE  Cardinality({i \in 1..n : ~job'[parts[i]].held}) = StoredIndex(parts, n)
<1>1. {i \in 1..n : ~job'[parts[i]].held} = {i \in 1..n : ~job[parts[i]].held}
  OBVIOUS
<1> QED
  BY <1>1 DEF StoredIndex, IsStored

-----------------------------------------------------------------------------
(* The session starts in the invariant.                                    *)

LEMMA CommitInitially == Init => CommitInv
<1> SUFFICES ASSUME Init PROVE CommitInv
  OBVIOUS
<1> USE DEF Init
<1>1. TypeOK
  <2>1. Idle \in Calls
    BY DEF Idle, Calls
  <2>2. job \in Seq(Jobs) /\ out \in Seq(Outcomes \cup {None}) /\ told \in Seq(Outcomes \cup {None})
        /\ queue \in Seq(Nat)
    OBVIOUS
  <2> QED
    BY <2>1, <2>2 DEF TypeOK
<1>2. Indexes = {} /\ Pend = {} /\ Published = {} /\ call.parts = <<>> /\ Parts(call.parts) = {}
      /\ Parts(queue) = {} /\ PartJobs = {}
  BY DEF Indexes, Pend, Rest, Parts, Published, Idle, PartJobs
<1>3. LineInv /\ JobInv /\ CallInv
  BY <1>2 DEF LineInv, JobInv, CallInv, Idle
<1>4. OrderInv /\ PartInv /\ KeyInv /\ ReadInv
  BY <1>2 DEF OrderInv, PartInv, KeyInv, ReadInv
<1>5. StoreInv
  BY <1>2 DEF StoreInv, Idle
<1>6. PrefixInv /\ DropInv /\ OutInv /\ CloseInv
  BY <1>2 DEF PrefixInv, DropInv, OutInv, CloseInv
<1> QED
  BY <1>1, <1>3, <1>4, <1>5, <1>6 DEF CommitInv

-----------------------------------------------------------------------------
(* Steps of the line, which leave the parts, the writer and the data alone. *)

\* What is pending, published and dropped stays.
PendingStays ==
  /\ call'.parts = call.parts /\ call'.at = call.at /\ UNCHANGED <<queue, memory, dropped>>
  /\ \A p \in PartJobs : job'[p] = job[p]

\* The part jobs stay, and the others take nothing but what is held.
PartsStay ==
  /\ UNCHANGED <<writerVars, dataVars>> /\ (Failed => Failed')
  /\ Len(job') \in Nat /\ Len(job) <= Len(job')
  /\ \A p \in PartJobs : job'[p] = job[p]
  /\ \A j \in Indexes : job'[j].taken = job[j].taken
                        /\ (job'[j].st \in {"parked", "stored"} => j \in PartJobs)
  /\ \A j \in Indexes' : j \notin Indexes =>
       job'[j].st \notin {"parked", "stored"} /\ job'[j].taken \in {{}, holds}

\* Such a step keeps what is said of the parts.
LEMMA PartsFrame ==
  ASSUME CommitInv, PartsStay
  PROVE  /\ CallInv' /\ OrderInv' /\ PartInv' /\ KeyInv' /\ StoreInv' /\ PrefixInv' /\ DropInv'
         /\ Pend' = Pend /\ Published' = Published /\ PartJobs' = PartJobs
         /\ \A p \in Pend : KeysOf(p)' = KeysOf(p)
<1> USE DEF PartsStay, writerVars, dataVars
<1>0. TypeOK /\ Len(job) \in Nat
  BY JobTypes DEF CommitInv
<1>1. Pend' = Pend /\ Published' = Published /\ Parts(call.parts)' = Parts(call.parts)
      /\ Parts(queue)' = Parts(queue)
  BY DEF Pend, Rest, Parts, Published
<1>2. PartJobs' = PartJobs /\ Indexes \subseteq Indexes'
  BY <1>0 DEF PartJobs, Indexes, St
<1>3. Pend \subseteq PartJobs /\ Published \subseteq PartJobs /\ PartJobs \subseteq Indexes
  <2>1. Pend \subseteq PartJobs
    BY <1>0, PendElems DEF CommitInv, OrderInv, Pend
  <2>2. Published \subseteq PartJobs
    BY PublishedElems DEF CommitInv, PartInv, PartJobs
  <2> QED
    BY <2>1, <2>2 DEF PartJobs
<1>4. \A p \in Indexes : job[p].taken \subseteq Published
  BY DEF CommitInv, StoreInv
<1>5. \A p \in Pend : KeysOf(p)' = KeysOf(p)
  <2> SUFFICES ASSUME NEW p \in Pend PROVE KeysOf(p)' = KeysOf(p)
    OBVIOUS
  <2>1. job'[p] = job[p] /\ job[p].taken \subseteq PartJobs
    BY <1>3, <1>4
  <2>2. \A h \in job[p].taken : job'[h].write = job[h].write
    BY <2>1
  <2> QED
    BY <2>1, <2>2 DEF KeysOf
<1>6. CallInv'
  BY DEF CommitInv, CallInv, Failed
<1>7. OrderInv'
  BY <1>1, <1>2 DEF CommitInv, OrderInv
<1>8. PartInv'
  BY <1>1, <1>2, <1>3, PublishedElems DEF CommitInv, PartInv, PartJobs, St
<1>9. KeyInv'
  BY <1>1, <1>5 DEF CommitInv, KeyInv
<1>10. StoreInv'
  <2>1. /\ durable \subseteq PartJobs
        /\ holds \subseteq {h \in Published : job'[h].held}
        /\ \A p \in Published : (p \in durable \/ job'[p].held) /\ job'[p].taken \subseteq durable
        /\ \A h \in Published : h \in durable \cup holds \/ OnItsWay(h)'
    <3>1. \A h : OnItsWay(h) => OnItsWay(h)'
      BY <1>1, <1>2 DEF OnItsWay
    <3> QED
      BY <1>2, <1>3, <3>1 DEF CommitInv, StoreInv
  <2>4. call.settle => job'[call.parts[call.at - 1]].taken \subseteq durable
    <3> SUFFICES ASSUME call.settle PROVE job'[call.parts[call.at - 1]].taken \subseteq durable
      OBVIOUS
    <3>1. PICK n : n = call.at - 1
      OBVIOUS
    <3>2. n \in 1..Len(call.parts)
      BY <1>0, <3>1, PendElems DEF CommitInv, CallInv
    <3>3. call.parts[n] \in PartJobs
      BY <1>0, <3>2, PendElems DEF CommitInv, OrderInv
    <3> QED
      BY <3>1, <3>3 DEF CommitInv, StoreInv
  <2>2. \A p \in Indexes' : job'[p].taken \subseteq {h \in Published : job'[h].held}
    <3>1. \A p \in Indexes : job'[p].taken \subseteq {h \in Published : job'[h].held}
      BY <1>3 DEF CommitInv, StoreInv
    <3> QED
      BY <2>1, <3>1
  <2>3. \A n \in 1..Len(call.parts) :
          ~job'[call.parts[n]].held /\ StoredIndex(call.parts, n)' <= call.received =>
            call.parts[n] \in durable /\ job'[call.parts[n]].taken \subseteq durable
    <3> SUFFICES ASSUME NEW n \in 1..Len(call.parts), ~job'[call.parts[n]].held,
                        StoredIndex(call.parts, n)' <= call.received
                 PROVE  call.parts[n] \in durable /\ job'[call.parts[n]].taken \subseteq durable
      OBVIOUS
    <3>1. \A i \in 1..n : call.parts[i] \in PartJobs
      BY <1>0, PendElems, SMTT(30) DEF CommitInv, OrderInv
    <3>2. \A i \in 1..n : job'[call.parts[i]] = job[call.parts[i]]
      BY <3>1
    <3>3. StoredIndex(call.parts, n)' = StoredIndex(call.parts, n)
      <4>1. n \in Nat
        BY <1>0, PendElems
      <4>2. Cardinality({i \in 1..n : ~job'[call.parts[i]].held}) = StoredIndex(call.parts, n)
        BY <3>2, <4>1, StoredIndexStays
      <4> QED
        BY <4>2 DEF StoredIndex, IsStored
    <3>4. IsStored(call.parts[n]) /\ StoredIndex(call.parts, n) <= call.received
      BY <3>2, <3>3 DEF IsStored
    <3> QED
      BY <3>2, <3>4 DEF CommitInv, StoreInv
  <2> QED
    BY <1>1, <1>2, <2>1, <2>2, <2>3, <2>4 DEF StoreInv, IsStored
<1>11. PrefixInv' /\ DropInv'
  BY <1>2 DEF CommitInv, PrefixInv, DropInv
<1> QED
  BY <1>1, <1>2, <1>5, <1>6, <1>7, <1>8, <1>9, <1>10, <1>11

\* A failure closes the Session to new jobs, and nothing else.
SealsOnly == closing' = closing \/ (closing = "no" /\ closing' = "sealed")

\* What a failure leaves.
LEMMA FailTypes ==
  ASSUME TypeOK, NEW at \in Nat, NEW own \in SUBSET Nat, Fail(at, own)
  PROVE  failure' \in [at : Nat, own : SUBSET Nat] \cup {None} /\ Failed' /\ SealsOnly
<1>1. [at |-> at, own |-> own] \in [at : Nat, own : SUBSET Nat]
  OBVIOUS
<1>2. [at |-> at, own |-> own] # None
  BY <1>1, NoneIsNothing
<1> QED
  BY <1>1, <1>2 DEF Fail, Failed, SealsOnly, TypeOK

\* A job that stays keeps what is said of it.
LEMMA OthersKeep ==
  ASSUME CommitInv, PartsStay, NEW i \in Indexes, job'[i] = job[i], out'[i] = out[i]
  PROVE  JobOk(i)' /\ ReadOk(i)' /\ (told'[i] = told[i] => OutOk(i)')
<1>1. /\ Pend' = Pend /\ Published' = Published
      /\ \A p \in Pend : KeysOf(p)' = KeysOf(p) /\ job'[p] = job[p]
  <2>1. Pend \subseteq PartJobs
    BY PendElems DEF CommitInv, OrderInv, Pend
  <2> QED
    BY <2>1, PartsFrame DEF PartsStay
<1>2. JobOk(i) /\ ReadOk(i) /\ OutOk(i)
  BY DEF CommitInv, JobInv, ReadInv, OutInv
<1>3. JobOk(i)'
  BY <1>2 DEF JobOk, St
<1>4. ReadOk(i)'
  <2>1. \A g \in Indexes : St(g) = "parked" => g \in Indexes' /\ St(g)' = "parked"
    BY JobTypes DEF CommitInv, PartsStay, PartJobs, St, Indexes
  <2>2. memory' = memory /\ (~Failed' => ~Failed)
    BY DEF PartsStay, dataVars
  <2>3. Returned(i)' <=> Returned(i)
    BY DEF Returned, St
  <2>4. St(i)' = St(i)
    BY DEF St
  <2> QED
    BY <1>1, <1>2, <2>1, <2>2, <2>3, <2>4 DEF ReadOk
<1>5. told'[i] = told[i] => OutOk(i)'
  BY <1>1, <1>2 DEF OutOk, St, PartsStay, dataVars
<1> QED
  BY <1>3, <1>4, <1>5

\* A step of the line changes or appends one job, which is no part.
LEMMA LineFrame ==
  ASSUME CommitInv, PartsStay, SealsOnly, NEW j, Indexes' = Indexes \cup {j},
         \A i \in Indexes : i # j => job'[i] = job[i] /\ out'[i] = out[i] /\ told'[i] = told[i],
         j \in Indexes => St(j) \notin {"parked", "stored", "upkeep"},
         job'[j].st \notin {"parked", "stored", "upkeep"},
         TypeOK', LineInv', JobOk(j)', ReadOk(j)', OutOk(j)'
  PROVE  CommitInv'
<1>1. JobInv' /\ ReadInv' /\ OutInv'
  BY OthersKeep DEF JobInv, ReadInv, OutInv
<1>2. /\ Pend' = Pend /\ Published' = Published
      /\ Pend \subseteq PartJobs
  BY PartsFrame, PendElems DEF CommitInv, OrderInv, Pend
<1>3. CloseInv'
  BY <1>2 DEF CommitInv, CloseInv, St, PartsStay, SealsOnly, dataVars
<1> QED
  BY <1>1, <1>3, PartsFrame DEF CommitInv

\* A job that is no part moves within the line.
LEMMA LineMove ==
  ASSUME CommitInv, NEW j \in Indexes, NEW r \in Jobs, job' = [job EXCEPT ![j] = r],
         UNCHANGED <<writerVars, dataVars>>, Failed => Failed',
         St(j) \notin {"parked", "stored", "upkeep"},
         r.st \notin {"parked", "stored", "upkeep"}, r.taken = job[j].taken
  PROVE  /\ PartsStay /\ Indexes' = Indexes \cup {j} /\ Indexes' = Indexes
         /\ job' \in Seq(Jobs) /\ Len(job') = Len(job) /\ job'[j] = r
         /\ \A i \in Indexes : i # j => job'[i] = job[i]
<1>1. /\ job' \in Seq(Jobs) /\ Len(job') = Len(job) /\ job'[j] = r
      /\ \A i \in Indexes : i # j => job'[i] = job[i]
  BY JobSet DEF CommitInv
<1>2. Len(job) \in Nat /\ Indexes' = Indexes
  BY <1>1, JobTypes DEF CommitInv, Indexes
<1>3. j \notin PartJobs
  BY DEF PartJobs
<1>4. PartsStay
  BY <1>1, <1>2, <1>3 DEF PartsStay, PartJobs, St
<1> QED
  BY <1>1, <1>2, <1>4

\* The line is given up by its job, or skipped by the next one.
LEMMA EndLineKeeps ==
  ASSUME CommitInv, NEW j \in Indexes, NEW result \in Outcomes, EndLine(j, result),
         \/ line = j
         \/ line = None /\ St(j) = "queued" /\ \A i \in 1..j-1 : St(i) # "queued",
         failure' \in [at : Nat, own : SUBSET Nat] \cup {None}, Failed => Failed', SealsOnly,
         result = "ok" => St(j) = "settling" /\ job[j].write = None
  PROVE  CommitInv'
<1> DEFINE r == IF result = "ok" THEN [job[j] EXCEPT !.st = "ended"] ELSE Discarded(job[j])
<1>0. TypeOK /\ job[j] \in Jobs /\ j \in Nat /\ Len(job) \in Nat
  BY JobTypes DEF CommitInv
<1>01. job[j].taken = {}
  BY NoneFacts, <1>0 DEF CommitInv, LineInv, JobInv, JobOk, Active
<1>1. /\ r \in Jobs /\ r.taken = job[j].taken /\ r.st = "ended" /\ (r.held => job[j].held)
      /\ result = "ok" => r.write = job[j].write /\ r.read = job[j].read /\ r.got = job[j].got
  <2>1. CASE result = "ok"
    BY <1>0, <2>1 DEF Jobs, JobStates
  <2>2. CASE result # "ok"
    BY <1>0, <1>01, <2>2, ZenonT(30) DEF Jobs, JobStates, Discarded, NewJob
  <2> QED
    BY <2>1, <2>2
<1>2. job' = [job EXCEPT ![j] = r] /\ line' = None /\ out' = [out EXCEPT ![j] = result]
      /\ UNCHANGED <<told, delivered, writerVars, dataVars>>
  BY <1>0 DEF EndLine, Indexes, TypeOK
<1>3. St(j) \in Active \cup {"queued"}
  BY NoneFacts, <1>0 DEF CommitInv, LineInv
<1>4. /\ PartsStay /\ Indexes' = Indexes \cup {j} /\ Indexes' = Indexes
      /\ job' \in Seq(Jobs) /\ Len(job') = Len(job) /\ job'[j] = r
      /\ \A i \in Indexes : i # j => job'[i] = job[i]
  <2> HIDE DEF r
  <2> QED
    BY <1>1, <1>2, <1>3, LineMove DEF Active
<1>5. /\ out' \in Seq(Outcomes \cup {None}) /\ Len(out') = Len(job) /\ out'[j] = result
      /\ \A i \in Indexes : i # j => out'[i] = out[i]
  BY <1>0, <1>2 DEF TypeOK, Indexes
<1>6. TypeOK'
  BY <1>0, <1>2, <1>4, <1>5 DEF TypeOK, writerVars, dataVars, SealsOnly
<1>7. LineInv'
  <2>1. \A i \in Indexes : St(i) \in Active => i = j
    <3>1. \A i \in Indexes : i # None
      BY JobTypes, NoneFacts DEF CommitInv
    <3> QED
      BY <3>1 DEF CommitInv, LineInv
  <2>2. \A i \in Indexes : i < j => St(i) # "queued"
    <3>1. CASE line = j
      <4>1. St(j) \in Active
        BY <1>0, <3>1, NoneFacts DEF CommitInv, LineInv
      <4> QED
        BY <4>1 DEF CommitInv, LineInv, Active
    <3>2. CASE \A i \in 1..j-1 : St(i) # "queued"
      BY <1>0, <3>2 DEF Indexes
    <3> QED
      BY <3>1, <3>2
  <2>3. \A i, k \in Indexes : i < k /\ St(i) \in Active \cup {"queued"} => St(k) = "queued"
    BY DEF CommitInv, LineInv
  <2>4. \A i, k \in Indexes : i < k /\ St(i)' \in Active \cup {"queued"} => St(k)' = "queued"
    BY <1>0, <1>1, <1>3, <1>4, <2>1, <2>2, <2>3 DEF St, Active, Indexes
  <2>5. \A i \in Indexes : St(i)' \notin Active
    BY <1>1, <1>4, <2>1 DEF St, Active
  <2>6. \A i \in Indexes : St(i)' \in {"upkeep", "stored", "queued"} => St(i)' = St(i)
    BY <1>1, <1>4 DEF St
  <2>7. closing \in {"storing", "closed"} => FALSE
    BY <1>3 DEF CommitInv, LineInv
  <2>8. closing' \in {"no", "sealed"}
    BY <1>0, <2>7 DEF SealsOnly, TypeOK
  <2> QED
    BY <1>2, <1>4, <2>4, <2>5, <2>6, <2>7, <2>8 DEF CommitInv, LineInv, SealsOnly
<1>8. JobOk(j)'
  BY <1>1, <1>3, <1>4 DEF CommitInv, JobInv, JobOk, St, Active
<1>9. OutOk(j)'
  <2>1. told[j] # "ok"
    BY <1>3 DEF CommitInv, OutInv, OutOk, Active
  <2> QED
    BY <1>1, <1>2, <1>4, <1>5, <2>1 DEF OutOk, St, Outcomes
<1>10. ReadOk(j)'
  <2>1. St(j)' = "ended"
    BY <1>1, <1>4 DEF St
  <2>2. Returned(j)' => St(j) = "settling" /\ result = "ok"
    BY <1>5, <2>1 DEF Returned
  <2>3. St(j) = "settling" => Returned(j)
    BY DEF Returned
  <2>4. Pend' = Pend /\ \A p \in Pend : job'[p] = job[p]
    <3>1. Pend \subseteq PartJobs
      BY PendElems DEF CommitInv, OrderInv, Pend
    <3> QED
      BY <1>4, <3>1, PartsFrame DEF PartsStay
  <2>5. ReadOk(j)
    BY DEF CommitInv, ReadInv
  <2>6. memory' = memory
    BY <1>2 DEF dataVars
  <2> QED
    BY <1>1, <1>4, <2>1, <2>2, <2>3, <2>4, <2>5, <2>6 DEF ReadOk
<1> QED
  BY <1>1, <1>2, <1>3, <1>4, <1>5, <1>6, <1>7, <1>8, <1>9, <1>10, LineFrame DEF Active

\* Every part was admitted before the job that holds the line.
LEMMA PartsBeforeLine ==
  ASSUME CommitInv, line # None
  PROVE  \A p \in PartJobs : p < line
<1>1. line \in Indexes /\ St(line) \in Active /\ Len(job) \in Nat
  BY JobTypes DEF CommitInv, LineInv
<1>2. \A p \in PartJobs : p \in Indexes /\ St(p) \in {"parked", "stored"}
  BY DEF PartJobs
<1> QED
  BY <1>1, <1>2 DEF CommitInv, LineInv, Indexes, Active

\* A job joins the line.
LEMMA EnqueueKeeps ==
  ASSUME CommitInv, Enqueue
  PROVE  CommitInv'
<1> DEFINE r == NewJob("queued", {})
<1>0. PICK j : j = Len(job) + 1
  OBVIOUS
<1>1. r \in Jobs /\ r.st = "queued" /\ r.taken = {} /\ ~r.held
  BY DEF NewJob, Jobs, JobStates
<1>2. /\ job' = Append(job, r) /\ out' = Append(out, None) /\ told' = Append(told, None)
      /\ UNCHANGED <<line, delivered, writerVars, dataVars, failure, closing>> /\ closing = "no"
  BY DEF Enqueue
<1> HIDE DEF r
<1>3. /\ job' \in Seq(Jobs) /\ Len(job') = Len(job) + 1 /\ job'[j] = r
      /\ \A i \in Indexes : job'[i] = job[i]
  BY <1>0, <1>1, <1>2, JobAppended DEF CommitInv
<1>4. /\ out' \in Seq(Outcomes \cup {None}) /\ told' \in Seq(Outcomes \cup {None})
      /\ Len(out') = Len(job') /\ Len(told') = Len(job') /\ out'[j] = None /\ told'[j] = None
      /\ \A i \in Indexes : out'[i] = out[i] /\ told'[i] = told[i]
  BY <1>0, <1>2, <1>3 DEF CommitInv, TypeOK, Indexes
<1>5. Len(job) \in Nat /\ Indexes' = Indexes \cup {j} /\ j \notin Indexes /\ j \in Nat
      /\ \A i \in Indexes : i \in Nat /\ i < j
  BY <1>0, <1>3, JobTypes DEF CommitInv, Indexes
<1>6. TypeOK'
  BY <1>2, <1>3, <1>4 DEF CommitInv, TypeOK, writerVars, dataVars
<1>7. PartsStay
  <2>1. UNCHANGED <<writerVars, dataVars>> /\ (Failed => Failed')
    BY <1>2 DEF Failed
  <2>2. Len(job') \in Nat /\ Len(job) <= Len(job')
    BY <1>3, <1>5
  <2>3. \A i \in Indexes : job'[i] = job[i] /\ (job[i].st \in {"parked", "stored"} => i \in PartJobs)
    BY <1>3 DEF PartJobs, St
  <2>4. PartJobs \subseteq Indexes
    BY DEF PartJobs
  <2>5. \A i \in Indexes' : i \notin Indexes => job'[i] = r
    BY <1>3, <1>5
  <2> QED
    BY <1>1, <2>1, <2>2, <2>3, <2>4, <2>5 DEF PartsStay
<1>8. LineInv'
  <2>1. \A i, k \in Indexes' : i < k /\ St(i)' \in Active \cup {"queued"} => St(k)' = "queued"
    <3> SUFFICES ASSUME NEW i \in Indexes', NEW k \in Indexes', i < k,
                        St(i)' \in Active \cup {"queued"}
                 PROVE  St(k)' = "queued"
      OBVIOUS
    <3>1. CASE k = j
      BY <1>1, <1>3, <3>1 DEF St
    <3>2. CASE k # j
      <4>1. i \in Indexes /\ k \in Indexes
        BY <1>5, <3>2
      <4> QED
        BY <1>3, <4>1 DEF CommitInv, LineInv, St
    <3> QED
      BY <3>1, <3>2
  <2>2. \A i \in Indexes' : St(i)' \in Active => line' = i
    BY <1>1, <1>2, <1>3, <1>5 DEF CommitInv, LineInv, St, Active
  <2>3. line' # None => line' \in Indexes' /\ job'[line'].st \in Active
    BY <1>2, <1>3, <1>5 DEF CommitInv, LineInv, St
  <2>4. \A i \in Indexes' : St(i)' \notin {"upkeep", "stored"}
    BY <1>1, <1>2, <1>3, <1>5 DEF CommitInv, LineInv, St
  <2> QED
    BY <1>2, <2>1, <2>2, <2>3, <2>4 DEF LineInv, St
<1>9. JobOk(j)' /\ ReadOk(j)' /\ OutOk(j)'
  <2>1. job'[j].st = "queued" /\ job'[j].taken = {} /\ ~job'[j].held
    BY <1>1, <1>3
  <2>2. out'[j] # "ok" /\ told'[j] # "ok" /\ out'[j] = None
    BY <1>4, NoneFacts DEF Outcomes
  <2> QED
    BY <2>1, <2>2 DEF JobOk, ReadOk, Returned, OutOk, St
<1>10. SealsOnly /\ job'[j].st \notin {"parked", "stored", "upkeep"}
  BY <1>1, <1>2, <1>3 DEF SealsOnly
<1> QED
  BY <1>3, <1>4, <1>5, <1>6, <1>7, <1>8, <1>9, <1>10, LineFrame

\* The job on the line moves on, its outcome open.
LEMMA LineKeeps ==
  ASSUME CommitInv, NEW j \in Indexes, NEW r \in Jobs, job' = [job EXCEPT ![j] = r],
         UNCHANGED <<out, told, delivered, writerVars, dataVars, failure, closing>>,
         line' = j, r.st \in Active, r.taken = job[j].taken,
         r.held => job[j].taken = {},
         \/ line = j
         \/ line = None /\ St(j) = "queued" /\ \A i \in 1..j-1 : St(i) # "queued",
         r.st = "waiting" => r.read \in Keys, PartsStay => ReadOk(j)'
  PROVE  CommitInv'
<1>0. TypeOK /\ j \in Nat /\ Len(job) \in Nat /\ j # None
  BY JobTypes, NoneFacts DEF CommitInv
<1>1. St(j) \in Active \cup {"queued"}
  BY <1>0 DEF CommitInv, LineInv
<1>2. /\ PartsStay /\ Indexes' = Indexes \cup {j} /\ Indexes' = Indexes
      /\ job' \in Seq(Jobs) /\ Len(job') = Len(job) /\ job'[j] = r
      /\ \A i \in Indexes : i # j => job'[i] = job[i]
  BY <1>1, LineMove DEF Active, Failed
<1>3. TypeOK'
  BY <1>0, <1>2 DEF TypeOK, writerVars, dataVars
<1>4. LineInv'
  <2>1. \A i \in Indexes : St(i) \in Active => i = j
    <3>1. \A i \in Indexes : i # None
      BY JobTypes, NoneFacts DEF CommitInv
    <3> QED
      BY <3>1 DEF CommitInv, LineInv
  <2>2. \A i \in Indexes : i < j => St(i) # "queued"
    <3>1. CASE line = j
      <4>1. St(j) \in Active
        BY <1>0, <3>1 DEF CommitInv, LineInv
      <4> QED
        BY <4>1 DEF CommitInv, LineInv, Active
    <3>2. CASE \A i \in 1..j-1 : St(i) # "queued"
      BY <1>0, <3>2 DEF Indexes
    <3> QED
      BY <3>1, <3>2
  <2>3. \A i, k \in Indexes : i < k /\ St(i) \in Active \cup {"queued"} => St(k) = "queued"
    BY DEF CommitInv, LineInv
  <2>4. \A i, k \in Indexes : i < k /\ St(i)' \in Active \cup {"queued"} => St(k)' = "queued"
    BY <1>0, <1>1, <1>2, <2>1, <2>2, <2>3 DEF St, Active, Indexes
  <2>5. St(j)' \in Active /\ \A i \in Indexes : St(i)' \in Active => i = j
    BY <1>2, <2>1 DEF St
  <2>6. \A i \in Indexes : St(i)' \in {"upkeep", "stored"} => St(i) = St(i)'
    BY <1>2 DEF St, Active
  <2>7. closing \notin {"storing", "closed"}
    BY <1>1 DEF CommitInv, LineInv
  <2> QED
    BY <1>2, <2>4, <2>5, <2>6, <2>7 DEF CommitInv, LineInv
<1>5. JobOk(j)'
  BY <1>1, <1>2 DEF CommitInv, JobInv, JobOk, St, Active
<1>6. OutOk(j)'
  <2>1. told[j] # "ok" /\ out[j] # "ok" /\ out[j] = None /\ None \notin Outcomes
    BY <1>1, NoneFacts DEF CommitInv, OutInv, OutOk, Active
  <2> QED
    BY <1>2, <2>1 DEF OutOk, St, Active, Outcomes
<1>7. r.st \notin {"parked", "stored", "upkeep"} /\ St(j) \notin {"parked", "stored", "upkeep"}
  BY <1>1 DEF Active
<1> QED
  BY <1>2, <1>3, <1>4, <1>5, <1>6, <1>7, LineFrame DEF SealsOnly

\* The next job takes the line, or is failed on it.
LEMMA StartKeeps ==
  ASSUME CommitInv, Start
  PROVE  CommitInv'
<1>1. PICK j \in Indexes :
        /\ job[j].st = "queued" /\ \A i \in 1..j-1 : job[i].st # "queued"
        /\ UNCHANGED <<failure, closing>>
        /\ \/ Failed /\ EndLine(j, "failed")
           \/ /\ ~Failed /\ line' = j
              /\ \E r, w \in Keys \cup {None}, held, exempt \in BOOLEAN :
                   /\ held => w # None /\ r = w
                   /\ exempt => w = None
                   /\ job' = [job EXCEPT ![j].st = "running", ![j].read = r, ![j].write = w,
                                         ![j].held = held, ![j].exempt = exempt]
              /\ UNCHANGED <<out, told, delivered, writerVars, dataVars>>
  BY DEF Start
<1>2. line = None /\ St(j) = "queued" /\ \A i \in 1..j-1 : St(i) # "queued"
  BY <1>1 DEF St, Start
<1>3. CASE Failed /\ EndLine(j, "failed")
  <2>1. failure' \in [at : Nat, own : SUBSET Nat] \cup {None} /\ (Failed => Failed') /\ SealsOnly
    BY <1>1 DEF Failed, SealsOnly, CommitInv, TypeOK
  <2>2. "failed" \in Outcomes /\ "failed" # "ok"
    BY DEF Outcomes
  <2> QED
    BY <1>1, <1>2, <1>3, <2>1, <2>2, EndLineKeeps
<1>4. ASSUME NEW rd \in Keys \cup {None}, NEW w \in Keys \cup {None}, NEW held \in BOOLEAN,
             NEW exempt \in BOOLEAN, ~Failed, line' = j,
             job' = [job EXCEPT ![j].st = "running", ![j].read = rd, ![j].write = w,
                                ![j].held = held, ![j].exempt = exempt],
             UNCHANGED <<out, told, delivered, writerVars, dataVars>>
      PROVE  CommitInv'
  <2>0. job[j] \in Jobs /\ job[j].taken = {}
    BY <1>2, JobTypes DEF CommitInv, JobInv, JobOk
  <2>1. PICK r : r = [job[j] EXCEPT !.st = "running", !.read = rd, !.write = w, !.held = held,
                                    !.exempt = exempt]
    OBVIOUS
  <2>2. r \in Jobs /\ r.st = "running" /\ r.taken = job[j].taken
    BY <2>0, <2>1 DEF Jobs, JobStates, Active
  <2>3. job' = [job EXCEPT ![j] = r]
    BY <1>4, <2>1
  <2>4. ReadOk(j)'
    <3>1. job'[j].st = "running"
      BY <2>2, <2>3 DEF CommitInv, TypeOK, Indexes
    <3> QED
      BY <3>1 DEF ReadOk, Returned, St
  <2>5. UNCHANGED <<out, told, delivered, writerVars, dataVars, failure, closing>>
    BY <1>1, <1>4
  <2>6. r.st \in Active /\ r.st # "waiting"
    BY <2>2 DEF Active
  <2> QED
    BY <1>1, <1>2, <1>4, <2>0, <2>2, <2>3, <2>4, <2>5, <2>6, LineKeeps
<1>5. CASE ~(Failed /\ EndLine(j, "failed"))
  <2>1. /\ ~Failed /\ line' = j
        /\ UNCHANGED <<out, told, delivered, writerVars, dataVars>>
    BY <1>1, <1>5
  <2>2. PICK rd, w \in Keys \cup {None}, held, exempt \in BOOLEAN :
          /\ held => w # None /\ rd = w
          /\ exempt => w = None
          /\ job' = [job EXCEPT ![j].st = "running", ![j].read = rd, ![j].write = w,
                                ![j].held = held, ![j].exempt = exempt]
    BY <1>1, <1>5
  <2> QED
    BY <1>4, <2>1, <2>2
<1> QED
  BY <1>3, <1>5

\* What a key holds, once nothing pending touches it: memory and Storage agree.
LEMMA ReadValue ==
  ASSUME CommitInv, line # None, ~Failed, NEW k \in Keys,
         \A p \in Pend : k \notin KeysOf(p), NEW v \in ValueOf(k)
  PROVE  v = {i \in memory[k] : i < line}
<1>1. memory[k] \subseteq PartJobs /\ \A p \in memory[k] : p \in Published /\ job[p].write = k
  BY PublishedElems DEF CommitInv, PartInv, PartJobs
<1>2. memory[k] = {i \in memory[k] : i < line}
  BY <1>1, PartsBeforeLine
<1>3. CASE v = memory[k]
  BY <1>2, <1>3
<1>4. CASE v # memory[k]
  <2>1. v = {i \in durable : job[i].write = k} /\ \A h \in holds : job[h].write # k
    BY <1>4 DEF ValueOf
  <2>2. ASSUME NEW i \in durable, job[i].write = k PROVE i \in memory[k]
    <3>1. i \in Indexes /\ St(i) \in {"parked", "stored"}
      BY DEF CommitInv, StoreInv, PartJobs
    <3>2. St(i) = "parked"
      BY <2>2, <3>1, NoneFacts DEF CommitInv, JobInv, JobOk
    <3>3. i \notin Pend
      BY <2>2 DEF KeysOf
    <3>4. i \notin dropped
      BY DEF CommitInv, CallInv
    <3> QED
      BY <2>2, <3>1, <3>2, <3>3, <3>4 DEF CommitInv, PartInv
  <2>3. ASSUME NEW i \in memory[k] PROVE i \in durable
    <3> SUFFICES ASSUME i \notin durable PROVE FALSE
      OBVIOUS
    <3>1. i \in Published /\ job[i].write = k /\ i \notin holds
      BY <1>1, <2>1
    <3>2. PICK p \in Indexes : i \in job[p].taken
      BY <3>1 DEF CommitInv, StoreInv, OnItsWay
    <3>3. St(p) \in {"parked", "upkeep", "stored"}
      BY <3>2 DEF CommitInv, JobInv, JobOk
    <3>4. St(p) = "parked"
      BY <3>3, JobTypes DEF CommitInv, LineInv, TypeOK
    <3>5. p \notin Pend
      BY <3>1, <3>2 DEF KeysOf
    <3>6. p \notin dropped
      BY DEF CommitInv, CallInv
    <3>7. p \in Published
      BY <3>4, <3>5, <3>6, PublishedElems DEF CommitInv, PartInv, JobInv, JobOk
    <3> QED
      BY <3>2, <3>7 DEF CommitInv, StoreInv
  <2> QED
    BY <1>1, <1>2, <2>1, <2>2, <2>3
<1> QED
  BY <1>3, <1>4

\* The callback returns with what it has read.
LEMMA ReturnKeeps ==
  ASSUME CommitInv, NEW j \in Indexes, line = j, ~Failed, St(j) \in {"running", "waiting"},
         Return(j),
         job[j].read # None => \A p \in Pend : job[j].read \notin KeysOf(p)
  PROVE  CommitInv'
<1>0. job[j] \in Jobs /\ line # None /\ job[j].taken = {} /\ j \in Nat
  BY JobTypes, NoneFacts DEF CommitInv, JobInv, JobOk
<1>1. PICK v \in SUBSET Nat :
        /\ job' = [job EXCEPT ![j] = [job[j] EXCEPT !.st = "settling", !.got = v]]
        /\ job[j].read # None => v = {i \in memory[job[j].read] : i < j}
  <2>1. CASE job[j].read = None
    <3>1. job' = [job EXCEPT ![j] = [job[j] EXCEPT !.st = "settling"]]
      BY <2>1 DEF Return
    <3>2. [job[j] EXCEPT !.st = "settling"] = [job[j] EXCEPT !.st = "settling", !.got = job[j].got]
      BY <1>0 DEF Jobs
    <3>3. job[j].got \in SUBSET Nat
      BY <1>0 DEF Jobs
    <3> QED
      BY <2>1, <3>1, <3>2, <3>3
  <2>2. CASE job[j].read # None
    <3>1. job[j].read \in Keys
      BY <1>0, <2>2 DEF Jobs
    <3>2. PICK v \in ValueOf(job[j].read) :
             job' = [job EXCEPT ![j].st = "settling", ![j].got = v]
      BY <2>2 DEF Return
    <3>3. v = {i \in memory[job[j].read] : i < j}
      BY <1>0, <2>2, <3>1, <3>2, ReadValue
    <3>4. v \in SUBSET Nat
      BY <3>1, <3>3 DEF CommitInv, TypeOK
    <3> QED
      BY <3>2, <3>3, <3>4
  <2> QED
    BY <2>1, <2>2
<1>2. PICK r : r = [job[j] EXCEPT !.st = "settling", !.got = v]
  OBVIOUS
<1>3. r \in Jobs /\ r.st = "settling" /\ r.taken = job[j].taken /\ r.got = v /\ r.read = job[j].read
  BY <1>0, <1>2 DEF Jobs, JobStates, Active
<1>4. job' = [job EXCEPT ![j] = r]
  BY <1>1, <1>2
<1>5. UNCHANGED <<out, told, delivered, writerVars, dataVars, failure, closing>> /\ line' = j
  BY DEF Return
<1>6. ASSUME PartsStay PROVE ReadOk(j)'
  <2>1. job'[j] = r
    BY <1>4 DEF CommitInv, TypeOK, Indexes
  <2>2. Pend' = Pend /\ Pend \subseteq PartJobs /\ (\A p \in PartJobs : job'[p] = job[p])
    BY <1>6, PartsFrame, PendElems DEF PartsStay, CommitInv, OrderInv, Pend
  <2>3. memory' = memory
    BY <1>5 DEF dataVars
  <2>4. job[j].read # None => \A p \in Pend : job'[p].write # r.read
    BY <1>3, <2>2 DEF KeysOf
  <2> QED
    BY <1>1, <1>3, <2>1, <2>2, <2>3, <2>4 DEF ReadOk, St
<1>7. r.st \in Active /\ r.st # "waiting"
  BY <1>3 DEF Active
<1> QED
  BY <1>0, <1>3, <1>4, <1>5, <1>6, <1>7, LineKeeps

\* The read waits, fails, or is done.
LEMMA TouchKeeps ==
  ASSUME CommitInv, Touch
  PROVE  CommitInv'
<1>0. PICK j : j = line
  OBVIOUS
<1>1. j \in Indexes /\ line = j /\ St(j) = "running" /\ job[j] \in Jobs /\ line # None
  BY <1>0, JobTypes DEF Touch, CommitInv, LineInv, St
<1>2. CASE job[j].read # None /\ unpub[job[j].read] # None
  <2>1. /\ job' = [job EXCEPT ![j].st = "waiting", ![j].hit = TRUE,
                              ![j].gate = unpub[job[j].read]]
        /\ UNCHANGED <<line, out, told, delivered, writerVars, dataVars, failure, closing>>
    BY <1>1, <1>2 DEF Touch
  <2>2. job[j].read \in Keys
    BY <1>1, <1>2 DEF Jobs
  <2>3. PICK g : g = unpub[job[j].read]
    OBVIOUS
  <2>4. g \in Pend /\ g \in PartJobs /\ g \in Nat
    BY <1>2, <2>2, <2>3, PendElems, JobTypes DEF CommitInv, KeyInv, OrderInv, Pend, PartJobs
  <2>5. St(g) = "parked"
    BY <1>1, <2>4 DEF CommitInv, LineInv, TypeOK, PartJobs
  <2>6. PICK r : r = [job[j] EXCEPT !.st = "waiting", !.hit = TRUE, !.gate = g]
    OBVIOUS
  <2>7. /\ r \in Jobs /\ r.st = "waiting" /\ r.taken = job[j].taken /\ r.gate = g
        /\ r.read = job[j].read /\ r.held = job[j].held
    BY <1>1, <2>4, <2>6 DEF Jobs, JobStates, Active
  <2>8. job' = [job EXCEPT ![j] = r]
    BY <2>1, <2>3, <2>6
  <2>9. ASSUME PartsStay PROVE ReadOk(j)'
    <3>1. job'[j] = r
      BY <1>1, <2>8 DEF CommitInv, TypeOK, Indexes
    <3>2. /\ Pend' = Pend /\ PartJobs' = PartJobs /\ (\A p \in PartJobs : job'[p] = job[p])
          /\ \A p \in Pend : KeysOf(p)' = KeysOf(p)
      BY <2>9, PartsFrame DEF PartsStay
    <3>3. \A p \in Pend : job[j].read \in KeysOf(p) => p <= g
      BY <2>2, <2>3 DEF CommitInv, KeyInv
    <3>4. g \in Indexes' /\ St(g)' = "parked"
      BY <2>4, <2>5, <3>2 DEF PartJobs, St
    <3> QED
      BY <2>7, <3>1, <3>2, <3>3, <3>4 DEF ReadOk, Returned, St
  <2>10. r.st \in Active /\ (r.held => job[j].taken = {}) /\ line' = j
    BY <1>1, <2>1, <2>7 DEF Active, CommitInv, JobInv, JobOk
  <2> QED
    BY <1>1, <2>1, <2>2, <2>7, <2>8, <2>9, <2>10, LineKeeps
<1>3. CASE ~(job[j].read # None /\ unpub[job[j].read] # None) /\ Failed
  <2>1. EndLine(j, "failed") /\ UNCHANGED <<failure, closing>>
    BY <1>0, <1>3 DEF Touch
  <2>2. failure' \in [at : Nat, own : SUBSET Nat] \cup {None} /\ (Failed => Failed') /\ SealsOnly
    BY <2>1 DEF Failed, SealsOnly, CommitInv, TypeOK
  <2>3. "failed" \in Outcomes /\ "failed" # "ok"
    BY DEF Outcomes
  <2> QED
    BY <1>1, <2>1, <2>2, <2>3, EndLineKeeps
<1>4. CASE ~(job[j].read # None /\ unpub[job[j].read] # None) /\ ~Failed
  <2>1. Return(j)
    BY <1>0, <1>4 DEF Touch
  <2>2. job[j].read # None => \A p \in Pend : job[j].read \notin KeysOf(p)
    BY <1>1, <1>4 DEF CommitInv, KeyInv, Jobs
  <2> QED
    BY <1>1, <1>4, <2>1, <2>2, ReturnKeeps
<1> QED
  BY <1>2, <1>3, <1>4

\* The gate opened: its part is published, so everything before it is.
LEMMA GateOpensKeeps ==
  ASSUME CommitInv, GateOpens
  PROVE  CommitInv'
<1>0. PICK j : j = line
  OBVIOUS
<1>1. j \in Indexes /\ line = j /\ St(j) = "waiting" /\ job[j].gate \in gates
  BY <1>0 DEF GateOpens, CommitInv, LineInv, St
<1>2. CASE Failed
  <2>1. EndLine(j, "failed") /\ UNCHANGED <<failure, closing>>
    BY <1>0, <1>2 DEF GateOpens
  <2>2. failure' \in [at : Nat, own : SUBSET Nat] \cup {None} /\ (Failed => Failed') /\ SealsOnly
    BY <2>1 DEF Failed, SealsOnly, CommitInv, TypeOK
  <2>3. "failed" \in Outcomes /\ "failed" # "ok"
    BY DEF Outcomes
  <2> QED
    BY <1>1, <2>1, <2>2, <2>3, EndLineKeeps
<1>3. CASE ~Failed
  <2>1. Return(j)
    BY <1>0, <1>3 DEF GateOpens
  <2>2. PICK g : g = job[j].gate
    OBVIOUS
  <2>3. /\ g \in Indexes /\ St(g) = "parked" /\ job[g].write \in Keys
        /\ \A p \in Pend : job[j].read \in KeysOf(p) => p <= g
    BY <1>1, <1>3, <2>2 DEF CommitInv, ReadInv, ReadOk, JobInv, JobOk
  <2>4. g \notin Pend /\ g \notin dropped
    BY <1>1, <1>3, <2>2 DEF CommitInv, PartInv, CallInv
  <2>5. g \in memory[job[g].write]
    BY <2>3, <2>4 DEF CommitInv, PartInv
  <2>6. \A p \in Pend : g < p /\ p \in Nat /\ g \in Nat
    BY <2>3, <2>5, PendElems, JobTypes DEF CommitInv, OrderInv, Pend, PartJobs
  <2>7. \A p \in Pend : job[j].read \notin KeysOf(p)
    BY <2>3, <2>6
  <2> QED
    BY <1>1, <1>3, <2>1, <2>7, ReturnKeeps
<1> QED
  BY <1>2, <1>3

\* The job on the line ends on its own error.
LEMMA ThrowsKeeps ==
  ASSUME CommitInv, CallbackThrows \/ ReadFails
  PROVE  CommitInv'
<1>0. PICK j : j = line
  OBVIOUS
<1>1. j \in Indexes /\ line = j /\ EndLine(j, "own") /\ j \in Nat
  BY <1>0, JobTypes DEF CallbackThrows, ReadFails, CommitInv, LineInv
<1>2. failure' \in [at : Nat, own : SUBSET Nat] \cup {None} /\ (Failed => Failed') /\ SealsOnly
  <2>1. CASE CallbackThrows
    BY <2>1 DEF CallbackThrows, Failed, SealsOnly, CommitInv, TypeOK
  <2>2. CASE ReadFails
    <3>1. Fail(j, {}) /\ {} \in SUBSET Nat
      BY <1>0, <2>2 DEF ReadFails
    <3> QED
      BY <1>1, <3>1, FailTypes DEF CommitInv
  <2> QED
    BY <2>1, <2>2
<1>3. "own" \in Outcomes /\ "own" # "ok"
  BY DEF Outcomes
<1> QED
  BY <1>1, <1>2, <1>3, EndLineKeeps

\* Jobs stay: a failure off the line, a close, a delivery.
LEMMA StillKeeps ==
  ASSUME CommitInv, UNCHANGED <<job, line, out, writerVars, dataVars>>, SealsOnly,
         failure' \in [at : Nat, own : SUBSET Nat] \cup {None}, Failed => Failed',
         told' \in Seq(Outcomes \cup {None}), Len(told') = Len(told), delivered' \in Nat,
         \A i \in Indexes : told'[i] = told[i] \/ OutOk(i)'
  PROVE  CommitInv'
<1>1. TypeOK'
  BY DEF CommitInv, TypeOK, writerVars, dataVars, SealsOnly
<1>2. PartsStay /\ Indexes' = Indexes
  BY JobTypes DEF PartsStay, PartJobs, St, Indexes, CommitInv
<1>3. JobInv' /\ ReadInv' /\ OutInv'
  BY <1>2, OthersKeep DEF JobInv, ReadInv, OutInv
<1>4. LineInv'
  BY <1>2 DEF CommitInv, LineInv, St, SealsOnly
<1>5. Pend' = Pend /\ Published' = Published
  BY <1>2, PartsFrame
<1>6. CloseInv'
  BY <1>2, <1>5 DEF CommitInv, CloseInv, St, SealsOnly, dataVars
<1> QED
  BY <1>1, <1>2, <1>3, <1>4, <1>6, PartsFrame DEF CommitInv

\* Delivery, a failure off the line, and the seal.
LEMMA OutsideKeeps ==
  ASSUME CommitInv, FailsOffLine \/ Close \/ \E j \in 1..MaxJobs : Deliver(j)
  PROVE  CommitInv'
<1>1. CASE FailsOffLine
  <2>1. DefaultAt \in Nat /\ {} \in SUBSET Nat
    BY DEF DefaultAt, CommitInv, TypeOK
  <2>2. failure' \in [at : Nat, own : SUBSET Nat] \cup {None} /\ Failed' /\ SealsOnly
    BY <1>1, <2>1, FailTypes DEF FailsOffLine, CommitInv
  <2> QED
    BY <1>1, <2>2, StillKeeps DEF FailsOffLine, lineVars, CommitInv, TypeOK
<1>2. CASE Close
  BY <1>2, StillKeeps DEF Close, lineVars, CommitInv, TypeOK, SealsOnly, Failed
<1>3. ASSUME NEW j \in 1..MaxJobs, Deliver(j) PROVE CommitInv'
  <2>1. j \in Indexes /\ job[j].st \in {"ended", "parked"}
    BY <1>3 DEF Deliver
  <2>2. PICK t \in {"failed", out[j]} : told' = [told EXCEPT ![j] = t]
    BY <1>3 DEF Deliver
  <2>3. t \in Outcomes \cup {None} /\ j \in Nat
    BY <2>1, <2>2, JobTypes DEF CommitInv, Outcomes
  <2>4. /\ told' \in Seq(Outcomes \cup {None}) /\ Len(told') = Len(told) /\ told'[j] = t
        /\ \A i \in Indexes : i # j => told'[i] = told[i]
    BY <2>1, <2>2, <2>3 DEF CommitInv, TypeOK, Indexes
  <2>5. UNCHANGED <<job, line, out, writerVars, dataVars, failure, closing>> /\ delivered' \in Nat
    BY <1>3, <2>3 DEF Deliver, CommitInv, TypeOK
  <2>6. OutOk(j)'
    <3>1. OutOk(j) /\ Published' = Published /\ (Failed' <=> Failed)
      BY <2>1, <2>5 DEF CommitInv, OutInv, Published, dataVars, Failed
    <3>2. St(j)' = St(j) /\ St(j) \in {"ended", "parked"}
      BY <2>1, <2>5 DEF St
    <3> QED
      BY <2>2, <2>4, <2>5, <3>1, <3>2 DEF OutOk, dataVars
  <2> QED
    BY <2>4, <2>5, <2>6, StillKeeps DEF SealsOnly, Failed, CommitInv, TypeOK
<1> QED
  BY <1>1, <1>2, <1>3

-----------------------------------------------------------------------------
(* Admission.                                                              *)

\* A counted batch has an index from 1 on.
LEMMA CountPositive ==
  ASSUME NEW n \in Nat, NEW S \in SUBSET (1..n), n \in S
  PROVE  Cardinality(S) \in Nat /\ Cardinality(S) >= 1
<1>1. IsFiniteSet(1..n)
  BY FS_Interval
<1>2. IsFiniteSet(S)
  BY <1>1, FS_Subset
<1>3. Cardinality(S) \in Nat /\ Cardinality(S) # 0
  BY <1>2, FS_CardinalityType, FS_EmptySet
<1> QED
  BY <1>3

\* What is sent is a call from its first part on, with no receipt.
LEMMA SentTypes ==
  ASSUME NEW parts \in Seq(Nat)
  PROVE  /\ Sent(parts) \in Calls /\ Sent(parts).phase # "idle" /\ Sent(parts).parts = parts
         /\ Sent(parts).at = 1 /\ ~Sent(parts).stop /\ ~Sent(parts).settle
         /\ Sent(parts).received = 0
<1>1. PICK ph \in {"storing", "publishing"} : Sent(parts) = [Idle EXCEPT !.phase = ph, !.parts = parts]
  BY DEF Sent
<1>2. Sent(parts) = [phase |-> ph, parts |-> parts, received |-> 0, verdict |-> None, at |-> 1,
                     stop |-> FALSE, settle |-> FALSE]
  BY <1>1 DEF Idle
<1>3. Sent(parts) \in Calls
  BY <1>2 DEF Calls
<1> QED
  BY <1>2, <1>3

\* The part enters the call or the queue, as the newest.
LEMMA AdmitPend ==
  ASSUME CommitInv, NEW j \in Nat, NEW taken, NEW ks, AdmitPart(j, taken, ks),
         ~(call.phase = "idle" /\ Failed), \A p \in PartJobs : p < j
  PROVE  /\ call' \in Calls /\ queue' \in Seq(Nat)
         /\ call'.phase # "idle" /\ call'.parts # <<>>
         /\ (call'.phase = "storing" => call'.at = 1 /\ ~call'.stop /\ ~call'.settle)
         /\ call'.at <= Len(call'.parts) + 1 /\ (call'.stop \/ call'.settle => call'.at > 1)
         /\ Pend' = Pend \cup {j}
         /\ Parts(call'.parts) \cup Parts(queue') \subseteq PartJobs \cup {j}
         /\ \A m, n \in 1..Len(call'.parts) : m < n => call'.parts[m] < call'.parts[n]
         /\ \A m, n \in 1..Len(queue') : m < n => queue'[m] < queue'[n]
         /\ \A p \in Parts(call'.parts), q \in Parts(queue') : p < q
         /\ \/ call' = call
            \/ Len(call'.parts) = 1 /\ call'.parts = <<j>> /\ call'.received = 0 /\ ~call'.settle
         /\ dropped = {}
<1>0. TypeOK /\ call \in Calls /\ queue \in Seq(Nat)
  BY DEF CommitInv, TypeOK
<1>1. CASE call.phase = "idle"
  <2>1. call' = Sent(<<j>>) /\ queue' = queue
    BY <1>1 DEF AdmitPart
  <2>2. call = Idle /\ queue = <<>>
    BY <1>1 DEF CommitInv, CallInv
  <2>3. <<j>> \in Seq(Nat)
    OBVIOUS
  <2>4. /\ call' \in Calls /\ call'.phase # "idle" /\ call'.parts = <<j>>
        /\ call'.at = 1 /\ ~call'.stop /\ ~call'.settle /\ call'.received = 0
    BY <2>1, <2>3, SentTypes
  <2>5. Parts(call'.parts) = {j} /\ Parts(queue') = {} /\ Len(call'.parts) = 1
    BY <2>1, <2>2, <2>4 DEF Parts
  <2>6. Pend = {}
    BY <2>2 DEF Pend, Rest, Parts, Idle
  <2>7. Pend' = {j}
    BY <2>4, <2>5 DEF Pend, Rest
  <2>8. dropped = {}
    BY <1>1 DEF CommitInv, CallInv
  <2>9. \A m, n \in 1..Len(call'.parts) : m < n => call'.parts[m] < call'.parts[n]
    BY <2>5
  <2>10. Len(queue') = 0 /\ call'.parts # <<>> /\ queue' \in Seq(Nat)
    BY <1>0, <2>1, <2>2, <2>4, SMTT(30)
  <2> QED
    BY <2>4, <2>5, <2>6, <2>7, <2>8, <2>9, <2>10
<1>2. CASE call.phase # "idle"
  <2>1. call' = call /\ queue' = Append(queue, j)
    BY <1>2 DEF AdmitPart
  <2>2. /\ queue' \in Seq(Nat) /\ Len(queue') = Len(queue) + 1 /\ queue'[Len(queue) + 1] = j
        /\ Len(queue) \in Nat /\ \A n \in 1..Len(queue) : queue'[n] = queue[n]
    BY <1>0, <2>1
  <2>3. Parts(queue) = {queue[n] : n \in 1..Len(queue)} /\ Parts(queue') = {queue'[n] : n \in 1..Len(queue')}
    BY <1>0, <2>2, SMTT(30) DEF Parts
  <2>4. Parts(queue') = Parts(queue) \cup {j}
    BY <2>2, <2>3
  <2>5. Pend' = Pend \cup {j}
    BY <2>1, <2>4 DEF Pend, Rest
  <2>6. Parts(call.parts) \cup Parts(queue) \subseteq PartJobs
    BY DEF CommitInv, OrderInv
  <2>7. \A m, n \in 1..Len(queue') : m < n => queue'[m] < queue'[n]
    <3> SUFFICES ASSUME NEW m \in 1..Len(queue'), NEW n \in 1..Len(queue'), m < n
                 PROVE  queue'[m] < queue'[n]
      OBVIOUS
    <3>1. m \in 1..Len(queue) /\ queue'[m] = queue[m] /\ queue[m] \in Parts(queue)
      BY <2>2, <2>3
    <3>2. CASE n = Len(queue) + 1
      BY <2>2, <2>6, <3>1, <3>2
    <3>3. CASE n \in 1..Len(queue)
      BY <2>2, <3>1, <3>3 DEF CommitInv, OrderInv
    <3> QED
      BY <2>2, <3>2, <3>3, SMTT(30)
  <2>8. \A p \in Parts(call.parts), q \in Parts(queue') : p < q
    BY <2>4, <2>6 DEF CommitInv, OrderInv
  <2>9. dropped = {}
    BY <1>2 DEF CommitInv, CallInv
  <2> QED
    BY <1>0, <1>2, <2>1, <2>2, <2>4, <2>5, <2>6, <2>7, <2>8, <2>9 DEF CommitInv, CallInv, OrderInv
<1> QED
  BY <1>1, <1>2

\* Job j, which held the line or is close's own, becomes a part.
BecomesPart(j, r, taken, ks) ==
  /\ job' = [job EXCEPT ![j] = r] /\ AdmitPart(j, taken, ks) /\ line' = None
  /\ \/ St(j) = "settling" /\ line = j /\ r.st = "parked" /\ r.write \in Keys
     \/ St(j) = "upkeep" /\ r.st = "stored" /\ taken = holds
  /\ r.taken = taken /\ taken \subseteq holds /\ (r.held => taken = {})
  /\ r.held = job[j].held /\ r.read = job[j].read /\ r.write = job[j].write /\ r.got = job[j].got
  /\ \A k \in Keys : k \in ks <=> (k = job[j].write \/ \E h \in taken : k = job[h].write)
  /\ UNCHANGED <<told, delivered, durable, memory, failure, closing>>
Admitting == \E j \in Indexes, r \in Jobs : \E taken, ks : BecomesPart(j, r, taken, ks)

\* The jobs, and where the new part stands among them.
LEMMA AdmitJobs ==
  ASSUME CommitInv, NEW j \in Indexes, NEW r \in Jobs, NEW taken, NEW ks,
         BecomesPart(j, r, taken, ks)
  PROVE  /\ job' \in Seq(Jobs) /\ Len(job') = Len(job) /\ Indexes' = Indexes /\ j \in Nat
         /\ job'[j] = r /\ \A i \in Indexes : i # j => job'[i] = job[i]
         /\ j \notin PartJobs /\ \A p \in PartJobs : p < j
         /\ PartJobs' = PartJobs \cup {j} /\ Published' = Published
         /\ Pend \subseteq PartJobs /\ Published \subseteq PartJobs /\ PartJobs \subseteq Indexes
         /\ \A p \in PartJobs : job'[p] = job[p]
         /\ \A p \in Indexes : job[p].taken \subseteq PartJobs
         /\ \A p \in Pend : KeysOf(p)' = KeysOf(p)
<1>1. /\ job' \in Seq(Jobs) /\ Len(job') = Len(job) /\ job'[j] = r
      /\ \A i \in Indexes : i # j => job'[i] = job[i]
  BY JobSet DEF CommitInv, BecomesPart
<1>2. Indexes' = Indexes /\ j \in Nat /\ Len(job) \in Nat /\ \A i \in Indexes : i \in Nat /\ i <= Len(job)
  BY <1>1, JobTypes DEF CommitInv, Indexes
<1>3. j \notin PartJobs /\ St(j) \in {"settling", "upkeep"}
  BY DEF BecomesPart, PartJobs
<1>4. \A p \in PartJobs : p < j
  <2>1. CASE St(j) = "settling"
    <3>1. line = j /\ line # None
      BY <1>2, <2>1, NoneFacts DEF CommitInv, LineInv, Active
    <3> QED
      BY <3>1, PartsBeforeLine
  <2>2. CASE St(j) = "upkeep"
    <3>1. j = Len(job)
      BY <2>2 DEF CommitInv, LineInv
    <3> QED
      BY <1>2, <1>3, <3>1 DEF PartJobs
  <2> QED
    BY <1>3, <2>1, <2>2
<1>5. PartJobs' = PartJobs \cup {j}
  BY <1>1, <1>2 DEF PartJobs, St, BecomesPart
<1>6. Published' = Published
  BY DEF Published, BecomesPart
<1>7. Pend \subseteq PartJobs /\ Published \subseteq PartJobs /\ PartJobs \subseteq Indexes
  <2>1. Pend \subseteq PartJobs
    BY PendElems DEF CommitInv, OrderInv, Pend
  <2>2. Published \subseteq PartJobs
    BY PublishedElems DEF CommitInv, PartInv, PartJobs
  <2> QED
    BY <2>1, <2>2 DEF PartJobs
<1>8. \A p \in PartJobs : job'[p] = job[p]
  BY <1>1, <1>3, <1>7
<1>9. \A p \in Indexes : job[p].taken \subseteq PartJobs
  BY <1>7 DEF CommitInv, StoreInv
<1>10. \A p \in Pend : KeysOf(p)' = KeysOf(p)
  <2> SUFFICES ASSUME NEW p \in Pend PROVE KeysOf(p)' = KeysOf(p)
    OBVIOUS
  <2>1. job'[p] = job[p] /\ job[p].taken \subseteq PartJobs
    BY <1>7, <1>8, <1>9
  <2>2. \A h \in job[p].taken : job'[h].write = job[h].write
    BY <1>8, <2>1
  <2> QED
    BY <2>1, <2>2 DEF KeysOf
<1> QED
  BY <1>1, <1>2, <1>3, <1>4, <1>5, <1>6, <1>7, <1>8, <1>9, <1>10

\* What is pending, unpublished, gated, dropped and decided after the step.
LEMMA AdmitWriter ==
  ASSUME CommitInv, NEW j \in Indexes, NEW r \in Jobs, NEW taken, NEW ks,
         BecomesPart(j, r, taken, ks)
  PROVE  /\ CallInv' /\ OrderInv' /\ PartInv' /\ KeyInv' /\ DropInv'
         /\ call' \in Calls /\ queue' \in Seq(Nat) /\ unpub' \in [Keys -> Nat \cup {None}]
         /\ gates' \subseteq Nat /\ dropped' \subseteq Nat
         /\ Pend' \subseteq Pend \cup {j} /\ Pend \cup dropped \cup {j} \subseteq Pend' \cup dropped'
         /\ \/ call' = call
            \/ Len(call'.parts) = 1 /\ call'.parts = <<j>> /\ call'.received = 0 /\ ~call'.settle
         /\ \/ out' = out
            \/ Failed /\ out' = [out EXCEPT ![j] = "failed"]
<1>1. /\ PartJobs' = PartJobs \cup {j} /\ \A p \in PartJobs : p < j
      /\ Pend \subseteq PartJobs /\ j \notin PartJobs /\ j \in Nat /\ Indexes' = Indexes
      /\ \A p \in PartJobs : job'[p] = job[p]
      /\ \A p \in Pend : KeysOf(p)' = KeysOf(p)
      /\ \A i \in Indexes : i # j => job'[i] = job[i]
      /\ job'[j] = r
  BY AdmitJobs
<1>2. /\ AdmitPart(j, taken, ks) /\ UNCHANGED <<memory, failure>>
      /\ (St(j)' = "parked" => r.write \in Keys)
  BY <1>1 DEF BecomesPart, St
<1>3. \A k \in Keys : memory[k] \subseteq PartJobs
  BY DEF CommitInv, PartInv, PartJobs
<1>4. PartJobs \subseteq Nat /\ TypeOK
  BY JobTypes DEF CommitInv, PartJobs
<1>5. /\ \A k \in Keys : \A p \in memory[k] :
           p \in Indexes /\ St(p)' = "parked" /\ job'[p].write = k
      /\ \A p \in Indexes : St(p)' = "parked" /\ p # j => St(p) = "parked" /\ job'[p] = job[p]
  BY <1>1, <1>3 DEF CommitInv, PartInv, St
<1>6. CASE call.phase = "idle" /\ Failed
  <2>1. /\ gates' = gates \cup {j} /\ dropped' = dropped \cup {j}
        /\ out' = [out EXCEPT ![j] = "failed"] /\ UNCHANGED <<queue, call, unpub>>
    BY <1>2, <1>6 DEF AdmitPart
  <2>2. Pend' = Pend /\ Pend = {}
    BY <1>6, <2>1 DEF CommitInv, CallInv, Pend, Rest, Parts, Idle
  <2>3. CallInv'
    BY <1>2, <1>6, <2>1 DEF CommitInv, CallInv, Failed
  <2>4. OrderInv'
    <3>1. Parts(call.parts)' = Parts(call.parts) /\ Parts(queue)' = Parts(queue)
      BY <2>1 DEF Parts
    <3> QED
      BY <1>1, <2>1, <2>2, <3>1 DEF CommitInv, OrderInv
  <2>5. PartInv'
    BY <1>1, <1>2, <1>5, <2>1, <2>2 DEF CommitInv, PartInv
  <2>6. KeyInv'
    BY <2>1, <2>2 DEF CommitInv, KeyInv
  <2>7. DropInv'
    BY <1>1, <1>2, <1>3, <2>1 DEF CommitInv, DropInv
  <2> QED
    BY <1>1, <1>4, <1>6, <2>1, <2>2, <2>3, <2>4, <2>5, <2>6, <2>7 DEF TypeOK
<1>7. CASE ~(call.phase = "idle" /\ Failed)
  <2>1. /\ call' \in Calls /\ queue' \in Seq(Nat)
        /\ call'.phase # "idle" /\ call'.parts # <<>>
        /\ (call'.phase = "storing" => call'.at = 1 /\ ~call'.stop /\ ~call'.settle)
        /\ call'.at <= Len(call'.parts) + 1 /\ (call'.stop \/ call'.settle => call'.at > 1)
        /\ Pend' = Pend \cup {j}
        /\ Parts(call'.parts) \cup Parts(queue') \subseteq PartJobs \cup {j}
        /\ \A m, n \in 1..Len(call'.parts) : m < n => call'.parts[m] < call'.parts[n]
        /\ \A m, n \in 1..Len(queue') : m < n => queue'[m] < queue'[n]
        /\ \A p \in Parts(call'.parts), q \in Parts(queue') : p < q
        /\ \/ call' = call
           \/ Len(call'.parts) = 1 /\ call'.parts = <<j>> /\ call'.received = 0 /\ ~call'.settle
        /\ dropped = {}
    BY <1>1, <1>2, <1>7, AdmitPend
  <2>2. /\ unpub' = [k \in Keys |-> IF k \in ks THEN j ELSE unpub[k]]
        /\ UNCHANGED <<gates, dropped, out>>
    BY <1>2, <1>7 DEF AdmitPart
  <2>3. CallInv'
    BY <2>1, <2>2 DEF CallInv
  <2>4. OrderInv'
    BY <1>1, <1>2, <1>3, <2>1, SMTT(30) DEF CommitInv, OrderInv
  <2>5. PartInv'
    <3>1. \A p \in Indexes : St(p)' = "parked" => p \in Pend' \cup dropped' \cup memory'[job'[p].write]
      BY <1>1, <1>2, <1>5, <2>1, <2>2 DEF CommitInv, PartInv
    <3>2. gates' \subseteq PartJobs' \ Pend'
      BY <1>1, <2>1, <2>2 DEF CommitInv, PartInv
    <3> QED
      BY <1>1, <1>2, <1>5, <3>1, <3>2 DEF PartInv
  <2>6. KeyInv'
    <3> SUFFICES ASSUME NEW k \in Keys
                 PROVE  /\ unpub'[k] # None => unpub'[k] \in Pend'
                        /\ \A p \in Pend' : k \in KeysOf(p)' => unpub'[k] # None /\ p <= unpub'[k]
      BY DEF KeyInv
    <3>1. j # None /\ unpub'[k] = IF k \in ks THEN j ELSE unpub[k]
      BY <1>1, <2>2, NoneFacts
    <3>2. k \in KeysOf(j)' => k \in ks
      <4>1. \A h \in taken : job'[h].write = job[h].write
        BY <1>1 DEF BecomesPart, CommitInv, StoreInv, AdmitPart
      <4>2. KeysOf(j)' = {r.write} \cup {job'[h].write : h \in taken}
        BY <1>1 DEF KeysOf, BecomesPart
      <4> QED
        BY <4>1, <4>2 DEF BecomesPart
    <3>3. ASSUME NEW p \in Pend, k \in KeysOf(p)' PROVE unpub'[k] # None /\ p <= unpub'[k]
      BY <1>1, <1>4, <3>1, <3>3 DEF CommitInv, KeyInv
    <3>4. unpub'[k] # None => unpub'[k] \in Pend'
      BY <2>1, <3>1 DEF CommitInv, KeyInv
    <3> QED
      BY <1>1, <2>1, <3>1, <3>2, <3>3, <3>4
  <2>7. DropInv'
    BY <2>1, <2>2 DEF DropInv
  <2> QED
    BY <1>1, <1>4, <2>1, <2>2, <2>3, <2>4, <2>5, <2>6, <2>7 DEF TypeOK
<1> QED
  BY <1>6, <1>7

\* What Storage holds of the parts is not touched, what the part takes is its.
LEMMA AdmitStore ==
  ASSUME CommitInv, NEW j \in Indexes, NEW r \in Jobs, NEW taken, NEW ks,
         BecomesPart(j, r, taken, ks)
  PROVE  StoreInv' /\ PrefixInv' /\ holds' = holds \ taken
<1>1. /\ PartJobs' = PartJobs \cup {j} /\ \A p \in PartJobs : p < j
      /\ j \notin PartJobs /\ j \in Nat /\ Indexes' = Indexes
      /\ Published \subseteq PartJobs /\ PartJobs \subseteq Indexes /\ Published' = Published
      /\ \A p \in PartJobs : job'[p] = job[p]
      /\ \A i \in Indexes : i # j => job'[i] = job[i]
      /\ job'[j] = r
  BY AdmitJobs
<1>2. /\ holds' = holds \ taken /\ durable' = durable /\ r.taken = taken /\ taken \subseteq holds
  BY DEF BecomesPart, AdmitPart
<1>3. /\ durable \subseteq PartJobs
      /\ holds \subseteq {h \in Published : job[h].held}
      /\ \A p \in Indexes : job[p].taken \subseteq {h \in Published : job[h].held}
      /\ \A p \in Published : (p \in durable \/ job[p].held) /\ job[p].taken \subseteq durable
      /\ \A h \in Published : h \in durable \cup holds \/ OnItsWay(h)
  BY DEF CommitInv, StoreInv
<1>4. {h \in Published : job'[h].held} = {h \in Published : job[h].held}
  BY <1>1
<1>5. \A p \in Indexes : job'[p].taken \subseteq {h \in Published : job'[h].held}
  BY <1>1, <1>2, <1>3, <1>4
<1>6. \A h \in Published : h \in durable \cup holds' \/ OnItsWay(h)'
  <2> SUFFICES ASSUME NEW h \in Published, h \notin durable \cup holds'
               PROVE  \E p \in Indexes : p \in Pend' \cup dropped' /\ h \in job'[p].taken
    BY <1>1 DEF OnItsWay
  <2>0. Pend \cup dropped \cup {j} \subseteq Pend' \cup dropped'
    BY AdmitWriter
  <2>1. CASE h \in taken
    BY <1>1, <1>2, <2>0, <2>1
  <2>2. CASE h \notin taken
    <3>1. PICK p \in Indexes : p \in Pend \cup dropped /\ h \in job[p].taken
      BY <1>2, <1>3, <2>2 DEF OnItsWay
    <3>2. p # j
      <4>1. St(j) = "settling" => job[j].taken = {}
        BY DEF CommitInv, JobInv, JobOk
      <4>2. St(j) = "upkeep" => job[j].taken = holds
        BY DEF CommitInv, CloseInv
      <4> QED
        BY <1>2, <2>2, <3>1, <4>1, <4>2 DEF BecomesPart
    <3> QED
      BY <1>1, <2>0, <3>1, <3>2
  <2> QED
    BY <2>1, <2>2
<1>10. call'.settle => job'[call'.parts[call'.at - 1]].taken \subseteq durable
  <2> SUFFICES ASSUME call'.settle PROVE job'[call'.parts[call'.at - 1]].taken \subseteq durable
    OBVIOUS
  <2>1. call' = call
    BY AdmitWriter
  <2>2. PICK n : n = call.at - 1
    OBVIOUS
  <2>3. n \in 1..Len(call.parts)
    BY <2>1, <2>2, PendElems DEF CommitInv, CallInv
  <2>4. call.parts[n] \in PartJobs
    BY <2>3, PendElems DEF CommitInv, OrderInv
  <2> QED
    BY <1>1, <2>1, <2>2, <2>4 DEF CommitInv, StoreInv
<1>7. \A n \in 1..Len(call'.parts) :
        ~job'[call'.parts[n]].held /\ StoredIndex(call.parts, n)' <= call'.received =>
          call'.parts[n] \in durable /\ job'[call'.parts[n]].taken \subseteq durable
  <2> SUFFICES ASSUME NEW n \in 1..Len(call'.parts), ~job'[call'.parts[n]].held,
                      StoredIndex(call.parts, n)' <= call'.received
               PROVE  call'.parts[n] \in durable /\ job'[call'.parts[n]].taken \subseteq durable
    OBVIOUS
  <2>1. CASE call' = call
    <3>1. n \in Nat /\ \A i \in 1..n : call.parts[i] \in PartJobs
      BY <2>1, PendElems DEF CommitInv, OrderInv
    <3>2. \A i \in 1..n : job'[call.parts[i]] = job[call.parts[i]]
      BY <1>1, <3>1
    <3>3. Cardinality({i \in 1..n : ~job'[call.parts[i]].held}) = StoredIndex(call.parts, n)
      BY <3>1, <3>2, StoredIndexStays
    <3>4. StoredIndex(call.parts, n)' = StoredIndex(call.parts, n)
      BY <2>1, <3>3 DEF StoredIndex, IsStored
    <3>5. n \in 1..n /\ n \in 1..Len(call.parts)
      BY <2>1, <3>1
    <3> QED
      BY <2>1, <3>2, <3>4, <3>5 DEF CommitInv, StoreInv, IsStored
  <2>2. CASE Len(call'.parts) = 1 /\ call'.parts = <<j>> /\ call'.received = 0
    <3>1. n = 1 /\ n \in Nat
      BY <2>2
    <3>2. PICK S : S = {i \in 1..n : ~job'[call'.parts[i]].held}
      OBVIOUS
    <3>3. S \in SUBSET (1..n) /\ n \in S
      BY <3>1, <3>2
    <3>4. Cardinality(S) \in Nat /\ Cardinality(S) >= 1
      BY <3>1, <3>3, CountPositive
    <3>5. Cardinality(S) <= 0
      BY <2>2, <3>2 DEF StoredIndex, IsStored
    <3> QED
      BY <3>4, <3>5
  <2> QED
    BY <2>1, <2>2, AdmitWriter
<1>8. StoreInv'
  <2>1. \A p \in Published : (p \in durable \/ job'[p].held) /\ job'[p].taken \subseteq durable
    BY <1>1, <1>3
  <2> QED
    BY <1>1, <1>2, <1>3, <1>4, <1>5, <1>6, <1>7, <1>10, <2>1 DEF StoreInv, IsStored
<1>9. PrefixInv'
  <2> SUFFICES ASSUME NEW i \in PartJobs', NEW k \in PartJobs', i < k, ~job'[i].held,
                      ~job'[k].held, k \in durable'
               PROVE  i \in durable'
    BY DEF PrefixInv
  <2>1. k \in PartJobs /\ k # j /\ k < j
    BY <1>1, <1>2, <1>3
  <2>2. i \in PartJobs /\ i \in Nat /\ k \in Nat
    <3>1. i \in Indexes /\ k \in Indexes
      BY <1>1, <2>1
    <3>2. i \in Nat /\ k \in Nat
      BY <3>1, JobTypes DEF CommitInv
    <3> QED
      BY <1>1, <2>1, <3>2
  <2> QED
    BY <1>1, <1>2, <2>1, <2>2 DEF CommitInv, PrefixInv
<1> QED
  BY <1>2, <1>8, <1>9

\* Admission keeps the invariant.
LEMMA AdmitKeeps ==
  ASSUME CommitInv, NEW j \in Indexes, NEW r \in Jobs, NEW taken, NEW ks,
         BecomesPart(j, r, taken, ks)
  PROVE  CommitInv'
<1>1. /\ job' \in Seq(Jobs) /\ Len(job') = Len(job) /\ Indexes' = Indexes /\ j \in Nat
      /\ job'[j] = r /\ \A i \in Indexes : i # j => job'[i] = job[i]
      /\ Pend \subseteq PartJobs /\ \A p \in PartJobs : job'[p] = job[p]
      /\ Published' = Published /\ PartJobs \subseteq Indexes
      /\ \A p \in Pend : KeysOf(p)' = KeysOf(p)
  BY AdmitJobs
<1>2. /\ call' \in Calls /\ queue' \in Seq(Nat) /\ unpub' \in [Keys -> Nat \cup {None}]
      /\ gates' \subseteq Nat /\ dropped' \subseteq Nat
      /\ Pend' \subseteq Pend \cup {j}
      /\ \/ out' = out
         \/ Failed /\ out' = [out EXCEPT ![j] = "failed"]
  BY AdmitWriter
<1>3. /\ UNCHANGED <<told, delivered, durable, memory, failure, closing>> /\ line' = None
      /\ holds' = holds \ taken
  <2>1. holds' = holds \ taken
    BY AdmitStore
  <2> QED
    BY <2>1 DEF BecomesPart
<1>4. /\ out' \in Seq(Outcomes \cup {None}) /\ Len(out') = Len(job)
      /\ \A i \in Indexes : i # j => out'[i] = out[i]
      /\ out'[j] = None \/ (Failed /\ out'[j] = "failed")
  <2>1. out[j] = None
    BY DEF BecomesPart, CommitInv, OutInv, OutOk
  <2>2. out \in Seq(Outcomes \cup {None}) /\ Len(out) = Len(job) /\ "failed" \in Outcomes
    BY DEF CommitInv, TypeOK, Outcomes
  <2>3. CASE out' = out
    BY <2>1, <2>2, <2>3
  <2>4. CASE Failed /\ out' = [out EXCEPT ![j] = "failed"]
    BY <2>2, <2>4 DEF Indexes
  <2> QED
    BY <1>2, <2>3, <2>4
<1>5. TypeOK'
  BY <1>1, <1>2, <1>3, <1>4 DEF CommitInv, TypeOK
<1>6. \A i \in Indexes : St(i) \notin Active \/ i = j
  BY <1>1, NoneFacts, JobTypes DEF BecomesPart, CommitInv, LineInv, TypeOK
<1>7. \A i \in Indexes : j < i => St(i) = "queued"
  BY <1>1, JobTypes DEF BecomesPart, CommitInv, LineInv, Active, Indexes
<1>8. r.st \in {"parked", "stored"} /\ St(j) \in {"settling", "upkeep"}
  BY DEF BecomesPart
<1>9. LineInv'
  <2>1. \A i \in Indexes : i # j => St(i)' = St(i)
    BY <1>1 DEF St
  <2>2. St(j)' = r.st
    BY <1>1 DEF St
  <2>3. r.st = "stored" <=> St(j) = "upkeep"
    BY DEF BecomesPart
  <2>4. St(j) = "settling" => closing \in {"no", "sealed"}
    BY DEF CommitInv, LineInv, TypeOK, Active
  <2>5. \A i, k \in Indexes : i < k /\ St(i)' \in Active \cup {"queued"} => St(k)' = "queued"
    <3> SUFFICES ASSUME NEW i \in Indexes, NEW k \in Indexes, i < k,
                        St(i)' \in Active \cup {"queued"}
                 PROVE  St(k)' = "queued"
      OBVIOUS
    <3>1. i # j /\ St(i) \in Active \cup {"queued"}
      BY <1>8, <2>1, <2>2 DEF Active
    <3>2. St(k) = "queued"
      BY <3>1 DEF CommitInv, LineInv
    <3> QED
      BY <1>8, <2>1, <3>2
  <2>6. \A i \in Indexes : St(i)' \notin Active
    BY <1>6, <1>8, <2>1, <2>2 DEF Active
  <2>7. \A i \in Indexes : St(i)' \in {"upkeep", "stored"} => i = Len(job)
    BY <1>8, <2>1, <2>2, <2>3 DEF CommitInv, LineInv
  <2>8. closing \in {"no", "sealed"} => \A i \in Indexes : St(i)' \notin {"upkeep", "stored"}
    BY <1>8, <2>1, <2>2, <2>3 DEF CommitInv, LineInv
  <2>9. closing \in {"storing", "closed"} => \A i \in Indexes : St(i)' \notin Active \cup {"queued"}
    BY <1>8, <2>1, <2>2 DEF CommitInv, LineInv, Active
  <2>10. closing = "storing" => Len(job) \in Indexes /\ St(Len(job))' \in {"upkeep", "stored"}
    BY <1>8, <1>1, <2>1, <2>2, <2>3, <2>4 DEF CommitInv, LineInv, St
  <2> QED
    BY <1>1, <1>3, <2>5, <2>6, <2>7, <2>8, <2>9, <2>10 DEF LineInv, St
<1>10. JobInv'
  <2>1. JobOk(j)'
    BY <1>1, <1>8 DEF JobOk, St, BecomesPart, CommitInv, JobInv
  <2>2. \A i \in Indexes : i # j => JobOk(i)'
    BY <1>1 DEF JobOk, St, CommitInv, JobInv
  <2> QED
    BY <1>1, <2>1, <2>2 DEF JobInv
<1>11. OutInv'
  <2>1. OutOk(j)'
    <3>1. told[j] # "ok"
      BY <1>8 DEF CommitInv, OutInv, OutOk
    <3> QED
      BY <1>1, <1>3, <1>4, <1>8, <3>1, NoneFacts DEF OutOk, St, Failed, Outcomes
  <2>2. \A i \in Indexes : i # j => OutOk(i)'
    BY <1>1, <1>3, <1>4 DEF OutOk, St, Failed, CommitInv, OutInv
  <2> QED
    BY <1>1, <2>1, <2>2 DEF OutInv
<1>12. ReadInv'
  <2> SUFFICES ASSUME NEW i \in Indexes PROVE ReadOk(i)'
    BY <1>1 DEF ReadInv
  <2>0. i \in Nat /\ ReadOk(i)
    BY JobTypes DEF CommitInv, ReadInv
  <2>1. St(i)' # "waiting"
    BY <1>1, <1>6, <1>8 DEF St, Active
  <2>2. Returned(i)' => Returned(i) /\ ~(j < i)
    <3>1. CASE i = j
      BY <1>1, <1>8, <2>0, <3>1 DEF Returned, St, BecomesPart
    <3>2. CASE i # j
      BY <1>1, <1>4, <1>7, <3>2 DEF Returned, St
    <3> QED
      BY <3>1, <3>2
  <2>3. job'[i].read = job[i].read /\ job'[i].got = job[i].got
    BY <1>1 DEF BecomesPart
  <2>4. \A p \in Pend' : p < i /\ ~(j < i) => p \in Pend /\ job'[p] = job[p]
    BY <1>1, <1>2, <2>0
  <2>5. memory' = memory /\ (Failed' <=> Failed)
    BY <1>3 DEF Failed
  <2> QED
    BY <2>0, <2>1, <2>2, <2>3, <2>4, <2>5 DEF ReadOk
<1>13. CloseInv'
  <2>1. \A i \in Indexes : i # j => St(i)' = St(i)
    BY <1>1 DEF St
  <2>2. closing \in {"storing", "closed"} => r.st = "stored" /\ taken = holds /\ St(j) = "upkeep"
    BY DEF BecomesPart, CommitInv, LineInv, Active
  <2>3. closing \in {"storing", "closed"} => \A p \in Pend' : St(p)' = "stored"
    BY <1>1, <1>2, <2>1, <2>2 DEF CommitInv, CloseInv, St
  <2>4. \A i \in Indexes : i # j => St(i) \notin {"upkeep", "stored"}
    BY <1>8 DEF BecomesPart, CommitInv, LineInv, TypeOK, Active
  <2>5. St(j)' = "stored" => holds' = {}
    BY <1>1, <1>3 DEF BecomesPart, St
  <2>6. St(j)' # "upkeep"
    BY <1>1, <1>8 DEF St
  <2> QED
    BY <1>1, <1>3, <2>1, <2>3, <2>4, <2>5, <2>6 DEF CommitInv, CloseInv, Failed
<1> QED
  BY <1>5, <1>9, <1>10, <1>11, <1>12, <1>13, AdmitWriter, AdmitStore DEF CommitInv

\* Settlement of the job on the line.
LEMMA SettlementKeeps ==
  ASSUME CommitInv, Admit
  PROVE  CommitInv' /\ (PendingStays \/ Admitting)
<1>0. PICK j : j = line
  OBVIOUS
<1>1. j \in Indexes /\ line = j /\ St(j) = "settling" /\ job[j] \in Jobs
      /\ UNCHANGED <<failure, closing>>
  BY <1>0, JobTypes DEF Admit, CommitInv, LineInv, St
<1>2. CASE job[j].write = None
  <2>1. EndLine(j, "ok")
    BY <1>0, <1>2 DEF Admit
  <2>2. failure' \in [at : Nat, own : SUBSET Nat] \cup {None} /\ (Failed => Failed') /\ SealsOnly
    BY <1>1 DEF Failed, SealsOnly, CommitInv, TypeOK
  <2>3. "ok" \in Outcomes
    BY DEF Outcomes
  <2> QED
    <3>1. CommitInv'
      BY <1>1, <1>2, <2>1, <2>2, <2>3, EndLineKeeps
    <3>2. PendingStays
      BY <1>1, <2>1 DEF PendingStays, EndLine, PartJobs, St, writerVars, dataVars, Indexes, CommitInv, TypeOK
    <3> QED
      BY <3>1, <3>2
<1>3. CASE job[j].write # None
  <2>1. PICK taken : taken = Taken(j)
    OBVIOUS
  <2>2. taken \subseteq holds /\ (job[j].held => taken = {}) /\ taken \in SUBSET Nat
    BY <2>1 DEF Taken, CommitInv, TypeOK
  <2>3. PICK ks : ks = {job[j].write} \cup {job[h].write : h \in taken}
    OBVIOUS
  <2>4. /\ line' = None /\ AdmitPart(j, taken, ks)
        /\ job' = [job EXCEPT ![j].st = "parked", ![j].taken = taken]
        /\ UNCHANGED <<told, delivered, durable, memory>>
    BY <1>0, <1>3, <2>1, <2>3 DEF Admit
  <2>5. PICK r : r = [job[j] EXCEPT !.st = "parked", !.taken = taken]
    OBVIOUS
  <2>6. /\ r \in Jobs /\ r.st = "parked" /\ r.taken = taken /\ r.held = job[j].held
        /\ r.read = job[j].read /\ r.write = job[j].write /\ r.got = job[j].got
    BY <1>1, <2>2, <2>5 DEF Jobs, JobStates
  <2>7. job' = [job EXCEPT ![j] = r]
    BY <2>4, <2>5
  <2>8. r.write \in Keys
    BY <1>1, <1>3, <2>6 DEF Jobs
  <2>9. \A k \in Keys : k \in ks <=> (k = job[j].write \/ \E h \in taken : k = job[h].write)
    BY <2>3
  <2>10. BecomesPart(j, r, taken, ks)
    BY <1>1, <2>2, <2>4, <2>6, <2>7, <2>8, <2>9 DEF BecomesPart
  <2> QED
    BY <1>1, <2>6, <2>10, AdmitKeeps DEF Admitting
<1> QED
  BY <1>2, <1>3

\* What close stores goes through the writer too.
LEMMA CloseStoresKeeps ==
  ASSUME CommitInv, CloseStores
  PROVE  CommitInv' /\ Admitting
<1>0. PICK j : j = Len(job)
  OBVIOUS
<1>1. /\ j \in Indexes /\ St(j) = "upkeep" /\ job[j] \in Jobs /\ closing = "storing"
      /\ job[j].taken = holds /\ job[j].write = None /\ ~job[j].held
  BY <1>0, JobTypes DEF CloseStores, CommitInv, LineInv, St, CloseInv, JobInv, JobOk
<1>2. line = None
  BY <1>1 DEF CommitInv, LineInv
<1>3. PICK ks : ks = {job[h].write : h \in holds}
  OBVIOUS
<1>4. /\ job' = [job EXCEPT ![j].st = "stored"] /\ AdmitPart(j, holds, ks) /\ line' = None
      /\ UNCHANGED <<told, delivered, durable, memory, failure, closing>>
  BY <1>0, <1>1, <1>2, <1>3 DEF CloseStores
<1>5. PICK r : r = [job[j] EXCEPT !.st = "stored"]
  OBVIOUS
<1>6. /\ r \in Jobs /\ r.st = "stored" /\ r.taken = holds /\ r.held = job[j].held
      /\ r.read = job[j].read /\ r.write = job[j].write /\ r.got = job[j].got
  BY <1>1, <1>5 DEF Jobs, JobStates
<1>7. \A k \in Keys : k \in ks <=> (k = job[j].write \/ \E h \in holds : k = job[h].write)
  BY <1>1, <1>3, NoneFacts
<1>8. job' = [job EXCEPT ![j] = r]
  BY <1>4, <1>5
<1>9. PICK taken : taken = holds
  OBVIOUS
<1>10. BecomesPart(j, r, taken, ks)
  BY <1>1, <1>4, <1>6, <1>7, <1>8, <1>9 DEF BecomesPart
<1> QED
  BY <1>1, <1>6, <1>10, AdmitKeeps DEF Admitting

\* A drained line has nothing pending: what is published is stored, held, or
\* was taken by a published part.
LEMMA DrainedIsEmpty ==
  ASSUME CommitInv, Drained, closing = "sealed"
  PROVE  /\ Pend = {}
         /\ ~Failed => \A h \in Published : h \in durable \cup holds
<1>1. \A j \in Indexes : St(j) \notin {"upkeep", "stored"}
  BY DEF CommitInv, LineInv
<1>2. Pend = {}
  <2>1. Pend \subseteq PartJobs
    BY PendElems DEF CommitInv, OrderInv, Pend
  <2>2. \A p \in Pend : p \in gates
    BY <1>1, <2>1 DEF Drained, PartJobs, St
  <2> QED
    BY <2>2 DEF CommitInv, PartInv
<1>3. ASSUME ~Failed, NEW h \in Published, h \notin durable \cup holds PROVE FALSE
  <2>1. PICK p \in Indexes : h \in job[p].taken
    BY <1>3 DEF CommitInv, StoreInv, OnItsWay
  <2>2. St(p) = "parked"
    BY <1>1, <2>1 DEF CommitInv, JobInv, JobOk
  <2>3. p \in Published
    BY <1>2, <1>3, <2>2, PublishedElems DEF CommitInv, PartInv, CallInv, JobInv, JobOk
  <2> QED
    BY <1>3, <2>1, <2>3 DEF CommitInv, StoreInv
<1> QED
  BY <1>2, <1>3

\* The last job of the line.
LEMMA CloseDrainsKeeps ==
  ASSUME CommitInv, CloseDrains
  PROVE  CommitInv'
<1>0. /\ closing = "sealed" /\ line = None /\ Drained
      /\ UNCHANGED <<writerVars, dataVars, failure>>
      /\ \A j \in Indexes : St(j) # "queued"
  BY DEF CloseDrains, St
<1>1. /\ Pend = {} /\ (~Failed => \A h \in Published : h \in durable \cup holds)
      /\ \A j \in Indexes : St(j) \notin Active \cup {"queued", "upkeep", "stored"}
      /\ \A i \in Indexes : i # None
  BY <1>0, DrainedIsEmpty, JobTypes, NoneFacts DEF CommitInv, LineInv
<1>2. CASE ~Failed /\ holds # {}
  <2>0. PICK j : j = Len(job) + 1
    OBVIOUS
  <2>1. PICK r : r = NewJob("upkeep", holds)
    OBVIOUS
  <2>2. r \in Jobs /\ r.st = "upkeep" /\ r.taken = holds /\ r.read = None /\ r.write = None /\ ~r.held
    BY <2>1 DEF NewJob, Jobs, JobStates, CommitInv, TypeOK
  <2>3. /\ job' = Append(job, r) /\ out' = Append(out, None) /\ told' = Append(told, None)
        /\ UNCHANGED <<line, delivered>> /\ closing' = "storing"
    BY <1>2, <2>1 DEF CloseDrains
  <2>4. /\ job' \in Seq(Jobs) /\ Len(job') = Len(job) + 1 /\ job'[j] = r
        /\ \A i \in Indexes : job'[i] = job[i]
    BY <2>0, <2>2, <2>3, JobAppended DEF CommitInv
  <2>5. /\ out' \in Seq(Outcomes \cup {None}) /\ told' \in Seq(Outcomes \cup {None})
        /\ Len(out') = Len(job') /\ Len(told') = Len(job') /\ out'[j] = None /\ told'[j] = None
        /\ \A i \in Indexes : out'[i] = out[i] /\ told'[i] = told[i]
    BY <2>0, <2>3, <2>4 DEF CommitInv, TypeOK, Indexes
  <2>6. Len(job) \in Nat /\ Indexes' = Indexes \cup {j} /\ j \notin Indexes /\ j \in Nat
        /\ \A i \in Indexes : i \in Nat /\ i < j
    BY <2>0, <2>4, JobTypes DEF CommitInv, Indexes
  <2>7. TypeOK'
    BY <1>0, <2>3, <2>4, <2>5 DEF CommitInv, TypeOK, writerVars, dataVars
  <2>8. PartsStay
    <3>1. UNCHANGED <<writerVars, dataVars>> /\ (Failed => Failed')
      BY <1>0 DEF Failed
    <3>2. Len(job') \in Nat /\ Len(job) <= Len(job')
      BY <2>4, <2>6
    <3>3. \A i \in Indexes : job'[i] = job[i] /\ (job[i].st \in {"parked", "stored"} => i \in PartJobs)
      BY <2>4 DEF PartJobs, St
    <3>4. PartJobs \subseteq Indexes
      BY DEF PartJobs
    <3>5. \A i \in Indexes' : i \notin Indexes => job'[i] = r
      BY <2>4, <2>6
    <3> QED
      BY <2>2, <3>1, <3>2, <3>3, <3>4, <3>5 DEF PartsStay
  <2>9. LineInv'
    <3>1. \A i \in Indexes' : St(i)' \notin Active \cup {"queued"} /\ (St(i)' \in {"upkeep", "stored"} => i = j)
      BY <1>1, <2>2, <2>4, <2>6 DEF St, Active
    <3>2. Len(job') = j /\ j \in Indexes' /\ St(j)' = "upkeep" /\ line' = None
      BY <1>0, <2>0, <2>2, <2>3, <2>4, <2>6 DEF St
    <3> QED
      BY <2>3, <3>1, <3>2 DEF LineInv, St
  <2>10. JobOk(j)' /\ ReadOk(j)' /\ OutOk(j)'
    <3>1. out'[j] # "ok" /\ told'[j] # "ok"
      BY <2>5, NoneFacts DEF Outcomes
    <3> QED
      BY <2>2, <2>4, <2>5, <3>1 DEF JobOk, ReadOk, Returned, OutOk, St
  <2>11. JobInv' /\ ReadInv' /\ OutInv'
    BY <2>4, <2>5, <2>6, <2>8, <2>10, OthersKeep DEF JobInv, ReadInv, OutInv
  <2>12. CloseInv'
    <3>1. Pend' = {} /\ holds' = holds
      BY <1>0, <1>1, <2>8, PartsFrame DEF dataVars
    <3>2. \A i \in Indexes' : /\ St(i)' = "upkeep" => job'[i].taken = holds' /\ closing' = "storing"
                             /\ St(i)' # "stored"
      BY <1>1, <2>2, <2>3, <2>4, <2>6, <3>1 DEF St
    <3> QED
      BY <2>3, <3>1, <3>2 DEF CloseInv
  <2> QED
    BY <2>7, <2>8, <2>9, <2>11, <2>12, PartsFrame DEF CommitInv
<1>3. CASE ~(~Failed /\ holds # {})
  <2>1. closing' = "closed" /\ UNCHANGED <<job, line, out, told, delivered>>
    BY <1>3 DEF CloseDrains, lineVars
  <2>2. PartsStay /\ Indexes' = Indexes
    BY <1>0, <2>1, JobTypes DEF PartsStay, PartJobs, St, Indexes, CommitInv, Failed
  <2>3. JobInv' /\ ReadInv' /\ OutInv'
    BY <2>1, <2>2, OthersKeep DEF JobInv, ReadInv, OutInv
  <2>4. TypeOK' /\ LineInv'
    BY <1>0, <1>1, <2>1, <2>2 DEF CommitInv, TypeOK, LineInv, St, writerVars, dataVars
  <2>5. CloseInv'
    <3>1. Pend' = {} /\ Published' = Published
      BY <1>1, <2>2, PartsFrame
    <3>2. ~Failed => Published \subseteq durable
      BY <1>1, <1>3
    <3> QED
      BY <1>0, <1>1, <2>1, <2>2, <3>1, <3>2 DEF CloseInv, St, Failed, dataVars
  <2> QED
    BY <2>2, <2>3, <2>4, <2>5, PartsFrame DEF CommitInv
<1> QED
  BY <1>2, <1>3

\* What close stored is stored, unless the Session failed.
LEMMA CloseEndsKeeps ==
  ASSUME CommitInv, CloseEnds
  PROVE  CommitInv'
<1>0. PICK j : j = Len(job)
  OBVIOUS
<1>1. /\ closing = "storing" /\ closing' = "closed" /\ St(j) = "stored" /\ out[j] # None
      /\ UNCHANGED <<job, line, out, told, delivered, writerVars, dataVars, failure>>
      /\ j \in Indexes
  BY <1>0 DEF CloseEnds, St, lineVars, CommitInv, LineInv
<1>2. PartsStay /\ Indexes' = Indexes
  BY <1>1, JobTypes DEF PartsStay, PartJobs, St, Indexes, CommitInv, Failed
<1>3. JobInv' /\ ReadInv' /\ OutInv'
  BY <1>1, <1>2, OthersKeep DEF JobInv, ReadInv, OutInv
<1>4. TypeOK' /\ LineInv'
  BY <1>1, <1>2 DEF CommitInv, TypeOK, LineInv, St, writerVars, dataVars
<1>5. ~Failed => Published \subseteq durable
  <2> SUFFICES ASSUME ~Failed, NEW h \in Published, h \notin durable PROVE FALSE
    OBVIOUS
  <2>1. out[j] = "ok" /\ job[j].taken \subseteq durable
    BY <1>1, JobTypes DEF CommitInv, OutInv, OutOk, Outcomes
  <2>2. holds = {}
    BY <1>1 DEF CommitInv, CloseInv
  <2>3. PICK p \in Indexes : h \in job[p].taken
    BY <2>2 DEF CommitInv, StoreInv, OnItsWay
  <2>4. p # j
    BY <2>1, <2>3
  <2>5. St(p) = "parked"
    BY <1>0, <2>3, <2>4 DEF CommitInv, JobInv, JobOk, LineInv
  <2>6. p \notin Pend /\ p \notin dropped
    BY <1>1, <2>5 DEF CommitInv, CloseInv, CallInv
  <2>7. p \in Published
    BY <2>5, <2>6, PublishedElems DEF CommitInv, PartInv, JobInv, JobOk
  <2> QED
    BY <2>3, <2>7 DEF CommitInv, StoreInv
<1>6. CloseInv'
  <2>1. Pend' = Pend /\ Published' = Published
    BY <1>2, PartsFrame
  <2>2. \A i \in Indexes : St(i)' = St(i) /\ job'[i] = job[i]
    BY <1>1 DEF St
  <2>3. \A i \in Indexes : St(i) # "upkeep"
    BY <1>0, <1>1 DEF CommitInv, LineInv
  <2>4. (~Failed' => ~Failed) /\ durable' = durable /\ holds' = holds
    BY <1>1 DEF Failed, dataVars
  <2>5. \A p \in Pend : p \in Indexes
    BY PendElems DEF CommitInv, OrderInv, Pend, PartJobs
  <2> QED
    BY <1>1, <1>2, <1>5, <2>1, <2>2, <2>3, <2>4, <2>5 DEF CommitInv, CloseInv
<1> QED
  BY <1>2, <1>3, <1>4, <1>6, PartsFrame DEF CommitInv

-----------------------------------------------------------------------------
(* The storage call.                                                       *)

\* Parts are what they are called: indexes of jobs, in the order of the line.
LEMMA PartFacts ==
  ASSUME CommitInv
  PROVE  /\ Pend \subseteq PartJobs /\ Published \subseteq PartJobs /\ PartJobs \subseteq Indexes
         /\ PartJobs \subseteq Nat /\ Parts(call.parts) \subseteq PartJobs
         /\ Parts(queue) \subseteq PartJobs /\ Pend \cap Published = {}
         /\ call.phase # "idle" => dropped = {}
<1>1. Pend \subseteq PartJobs
  BY PendElems DEF CommitInv, OrderInv, Pend
<1>2. Published \subseteq PartJobs
  BY PublishedElems DEF CommitInv, PartInv, PartJobs
<1>3. PartJobs \subseteq Indexes /\ PartJobs \subseteq Nat
  BY JobTypes DEF PartJobs, CommitInv
<1>4. Pend \cap Published = {}
  <2> SUFFICES ASSUME NEW p \in Pend, p \in Published PROVE FALSE
    OBVIOUS
  <2>1. PICK k \in Keys : p \in memory[k]
    BY PublishedElems
  <2>2. p < p /\ p \in Nat
    BY <1>1, <1>3, <2>1 DEF CommitInv, OrderInv
  <2> QED
    BY <2>2
<1> QED
  BY <1>1, <1>2, <1>3, <1>4 DEF CommitInv, OrderInv, CallInv

\* What the batches up to the n-th add to Storage.
LEMMA KeptFacts ==
  ASSUME CommitInv, call.phase = "storing", NEW n \in Nat,
         \/ durable' = KeptUpTo(n)
         \/ durable' = durable /\ n = call.received,
         UNCHANGED job
  PROVE  /\ durable \subseteq durable' /\ durable' \subseteq PartJobs /\ PrefixInv'
         /\ \A m \in 1..Len(call.parts) :
              IsStored(call.parts[m]) /\ StoredIndex(call.parts, m) <= n =>
                call.parts[m] \in durable' /\ job[call.parts[m]].taken \subseteq durable'
<1>0. /\ TypeOK /\ call.parts \in Seq(Nat) /\ Len(call.parts) \in Nat /\ call.received \in Nat
      /\ DOMAIN call.parts = 1..Len(call.parts)
  BY DEF CommitInv, TypeOK, Calls
<1>1. \A m \in 1..Len(call.parts) :
        call.parts[m] \in Parts(call.parts) /\ StoredIndex(call.parts, m) \in Nat
  BY <1>0, PendElems, StoredIndexGrows
<1>2. \A p \in Parts(call.parts) : p \in PartJobs /\ job[p].taken \subseteq {h \in Published : job[h].held}
  BY PartFacts DEF CommitInv, StoreInv
<1>3. \A p \in Sending(n) : p \in Parts(call.parts)
  BY <1>0, <1>1 DEF Sending
<1>4. durable \subseteq durable' /\ durable' \subseteq durable \cup Sending(n) \cup UNION {job[p].taken : p \in Sending(n)}
  BY DEF KeptUpTo
<1>5. \A i \in durable' : i \in durable \/ i \in Sending(n) \/ (i \in Published /\ job[i].held)
  BY <1>2, <1>3, <1>4
<1>6. durable' \subseteq PartJobs
  BY <1>2, <1>3, <1>5, PartFacts DEF CommitInv, StoreInv
<1>7. ASSUME NEW m \in 1..Len(call.parts), IsStored(call.parts[m]),
             StoredIndex(call.parts, m) <= n
      PROVE  call.parts[m] \in durable' /\ job[call.parts[m]].taken \subseteq durable'
  <2>1. CASE StoredIndex(call.parts, m) <= call.received
    BY <1>4, <1>7, <2>1 DEF CommitInv, StoreInv
  <2>2. CASE ~(StoredIndex(call.parts, m) <= call.received)
    <3>1. n # call.received /\ StoredIndex(call.parts, m) \in call.received + 1..n
      BY <1>0, <1>1, <1>7, <2>2
    <3>2. call.parts[m] \in Sending(n)
      BY <1>0, <1>7, <3>1 DEF Sending
    <3> QED
      BY <3>1, <3>2 DEF KeptUpTo
  <2> QED
    BY <2>1, <2>2
<1>8. PrefixInv'
  <2>1. PartJobs' = PartJobs
    BY DEF PartJobs, Indexes, St
  <2> SUFFICES ASSUME NEW i \in PartJobs, NEW j \in PartJobs, i < j, ~job[i].held, ~job[j].held,
                      j \in durable'
               PROVE  i \in durable'
    BY <2>1 DEF PrefixInv
  <2>2. CASE j \in durable
    BY <1>4, <2>2 DEF CommitInv, PrefixInv
  <2>3. CASE j \notin durable
    <3>1. PICK x \in 1..Len(call.parts) :
             j = call.parts[x] /\ StoredIndex(call.parts, x) \in call.received + 1..n
      BY <1>0, <1>5, <2>3 DEF Sending
    <3>2. i \in Indexes /\ j \in Indexes /\ i \in Nat /\ j \in Nat /\ St(i) \in {"parked", "stored"}
      BY PartFacts DEF PartJobs
    <3>3. St(i) = "parked"
      BY <3>2, JobTypes DEF CommitInv, LineInv, Indexes
    <3>4. CASE i \in Pend
      <4>1. i \notin Parts(queue)
        BY <1>1, <3>1, <3>2 DEF CommitInv, OrderInv
      <4>2. PICK y \in 1..Len(call.parts) : i = call.parts[y]
        BY <1>0, <3>4, <4>1 DEF Pend, Rest, CommitInv, CallInv
      <4>3. y < x
        BY <3>1, <3>2, <4>2 DEF CommitInv, OrderInv
      <4>4. StoredIndex(call.parts, y) <= n
        <5>1. StoredIndex(call.parts, y) <= StoredIndex(call.parts, x) /\ y \in Nat /\ x \in Nat
          BY <4>3, StoredIndexGrows
        <5> QED
          BY <1>0, <1>1, <3>1, <4>2, <5>1
      <4> QED
        BY <1>7, <4>2, <4>4 DEF IsStored
    <3>5. CASE i \notin Pend
      <4>1. i \in Published
        BY <3>2, <3>3, <3>5, PartFacts, PublishedElems DEF CommitInv, PartInv, JobInv, JobOk
      <4> QED
        BY <1>4, <4>1 DEF CommitInv, StoreInv
    <3> QED
      BY <3>4, <3>5
  <2> QED
    BY <2>2, <2>3
<1> QED
  BY <1>4, <1>6, <1>7, <1>8

\* The call goes on: Storage holds more of its parts.
LEMMA StoringKeeps ==
  ASSUME CommitInv, call.phase = "storing", NEW n \in Nat,
         \/ durable' = KeptUpTo(n)
         \/ durable' = durable /\ n = call.received,
         call' \in Calls, call'.parts = call.parts, call'.at = call.at, call'.stop = call.stop,
         call'.settle = call.settle,
         call'.phase # "idle", call'.received <= n,
         UNCHANGED <<lineVars, queue, unpub, gates, dropped, memory, holds, failure, closing>>
  PROVE  CommitInv'
<1>0. UNCHANGED <<job, line, out, told, delivered>>
  BY DEF lineVars
<1>1. /\ durable \subseteq durable' /\ durable' \subseteq PartJobs /\ PrefixInv'
      /\ \A m \in 1..Len(call.parts) :
           IsStored(call.parts[m]) /\ StoredIndex(call.parts, m) <= n =>
             call.parts[m] \in durable' /\ job[call.parts[m]].taken \subseteq durable'
  BY <1>0, KeptFacts
<1>2. /\ Indexes' = Indexes /\ PartJobs' = PartJobs /\ Published' = Published /\ Pend' = Pend
      /\ Parts(call.parts)' = Parts(call.parts) /\ Parts(queue)' = Parts(queue)
  BY <1>0 DEF Indexes, PartJobs, St, Published, Pend, Rest, Parts
<1>3. \A i : /\ St(i)' = St(i) /\ KeysOf(i)' = KeysOf(i) /\ JobOk(i)' = JobOk(i)
             /\ Returned(i)' = Returned(i)
  BY <1>0 DEF St, KeysOf, JobOk, Returned
<1>4. durable' \subseteq Nat
  BY <1>1, PartFacts
<1>5. TypeOK'
  BY <1>0, <1>4 DEF CommitInv, TypeOK
<1>6. LineInv' /\ JobInv'
  BY <1>0, <1>2, <1>3 DEF CommitInv, LineInv, JobInv
<1>7. CallInv'
  BY DEF CommitInv, CallInv, Failed
<1>8. OrderInv' /\ PartInv' /\ KeyInv'
  BY <1>0, <1>2, <1>3 DEF CommitInv, OrderInv, PartInv, KeyInv
<1>9. ReadInv'
  BY <1>0, <1>2, <1>3 DEF CommitInv, ReadInv, ReadOk, Failed
<1>10. StoreInv'
  <2>1. \A m \in 1..Len(call.parts) :
          IsStored(call.parts[m])' /\ StoredIndex(call.parts, m)' <= call'.received =>
            call.parts[m] \in durable' /\ job[call.parts[m]].taken \subseteq durable'
    <3> SUFFICES ASSUME NEW m \in 1..Len(call.parts), ~job[call.parts[m]].held,
                        StoredIndex(call.parts, m) <= call'.received
                 PROVE  call.parts[m] \in durable' /\ job[call.parts[m]].taken \subseteq durable'
      BY <1>0 DEF IsStored, StoredIndex
    <3>1. m \in Nat /\ StoredIndex(call.parts, m) \in Nat /\ call'.received \in Nat
      BY PendElems, StoredIndexGrows DEF Calls, CommitInv
    <3>2. StoredIndex(call.parts, m) <= n
      BY <3>1
    <3> QED
      BY <1>1, <3>2 DEF IsStored
  <2>2. /\ \A p \in Published : (p \in durable' \/ job[p].held) /\ job[p].taken \subseteq durable'
        /\ \A h \in Published : h \in durable' \cup holds \/ OnItsWay(h)
        /\ holds \subseteq {h \in Published : job[h].held}
        /\ \A p \in Indexes : job[p].taken \subseteq {h \in Published : job[h].held}
    BY <1>1 DEF CommitInv, StoreInv
  <2>3. ~call'.settle /\ \A h : OnItsWay(h)' = OnItsWay(h)
    BY <1>0, <1>2 DEF CommitInv, CallInv, OnItsWay
  <2> QED
    BY <1>0, <1>1, <1>2, <2>1, <2>2, <2>3 DEF StoreInv
<1>11. DropInv'
  BY DEF CommitInv, DropInv
<1>12. OutInv'
  BY <1>0, <1>1, <1>2, <1>3 DEF CommitInv, OutInv, OutOk, Failed
<1>13. CloseInv'
  BY <1>0, <1>1, <1>2, <1>3 DEF CommitInv, CloseInv, Failed
<1> QED
  BY <1>1, <1>5, <1>6, <1>7, <1>8, <1>9, <1>10, <1>11, <1>12, <1>13 DEF CommitInv

\* The call ends with its parts given up, and the queue with them.
GivesUp(ps, own) ==
  /\ call.phase # "idle" /\ Pend \subseteq ps /\ ps \subseteq Pend \cup Parts(call.parts) /\ own \subseteq ps
  /\ call' = Idle /\ queue' = <<>> /\ gates' = gates \cup ps /\ unpub' = Unregistered(ps)
  /\ dropped' = dropped \cup {p \in ps : \A k \in Keys : p \notin memory[k]}
  /\ out' = [i \in DOMAIN out |-> IF i \in own THEN "own" ELSE IF i \in ps THEN "failed" ELSE out[i]]
  /\ UNCHANGED <<job, line, told, delivered, memory, holds>>
Giving == \E ps, own : GivesUp(ps, own)

\* Giving up keeps the invariant, whatever Storage took of the call meanwhile.
LEMMA GivingUpKeeps ==
  ASSUME CommitInv, NEW ps, NEW own, GivesUp(ps, own), Failed', SealsOnly,
         failure' \in [at : Nat, own : SUBSET Nat] \cup {None},
         durable \subseteq durable', durable' \subseteq PartJobs, PrefixInv'
  PROVE  CommitInv'
<1>0. /\ UNCHANGED <<job, line, told, delivered, memory, holds>> /\ call' = Idle /\ queue' = <<>>
      /\ gates' = gates \cup ps /\ unpub' = Unregistered(ps) /\ Pend \subseteq ps
      /\ dropped' = dropped \cup {p \in ps : \A k \in Keys : p \notin memory[k]}
  BY DEF GivesUp
<1>1. ps \subseteq PartJobs /\ dropped = {} /\ PartJobs \subseteq Nat /\ PartJobs \subseteq Indexes
  BY PartFacts DEF GivesUp
<1>2. /\ Indexes' = Indexes /\ PartJobs' = PartJobs /\ Published' = Published
      /\ \A i : St(i)' = St(i) /\ KeysOf(i)' = KeysOf(i) /\ JobOk(i)' = JobOk(i)
  BY <1>0 DEF Indexes, PartJobs, St, Published, KeysOf, JobOk
<1>3. Pend' = {} /\ Parts(call.parts)' = {} /\ Parts(queue)' = {} /\ call'.parts = <<>>
  BY <1>0 DEF Pend, Rest, Parts, Idle
<1>4. /\ out' \in Seq(Outcomes \cup {None}) /\ Len(out') = Len(job)
      /\ \A i \in Indexes : /\ i \notin ps => out'[i] = out[i]
                            /\ i \in ps => out'[i] \in {"own", "failed"}
  <2>1. out \in Seq(Outcomes \cup {None}) /\ Len(out) = Len(job) /\ DOMAIN out = 1..Len(job)
        /\ Len(job) \in Nat
    BY DEF CommitInv, TypeOK
  <2>2. "own" \in Outcomes /\ "failed" \in Outcomes
    BY DEF Outcomes
  <2>3. \A i \in 1..Len(job) : out'[i] = IF i \in own THEN "own" ELSE IF i \in ps THEN "failed" ELSE out[i]
    BY <2>1 DEF GivesUp
  <2>4. \A i \in 1..Len(job) : out'[i] \in Outcomes \cup {None}
    BY <2>1, <2>2, <2>3
  <2>5. out' = [i \in 1..Len(job) |-> out'[i]]
    BY <2>1 DEF GivesUp
  <2>6. out' \in Seq(Outcomes \cup {None}) /\ Len(out') = Len(job)
    BY <2>1, <2>4, <2>5
  <2> QED
    BY <2>3, <2>6 DEF GivesUp, Indexes
<1>5. unpub' \in [Keys -> Nat \cup {None}] /\ \A k \in Keys : unpub'[k] = None
  <2>1. unpub' = [k \in Keys |-> IF unpub[k] \in ps THEN None ELSE unpub[k]]
    BY <1>0 DEF Unregistered
  <2>2. \A k \in Keys : unpub[k] # None => unpub[k] \in ps
    BY <1>0 DEF CommitInv, KeyInv
  <2>3. \A k \in Keys : unpub'[k] = None
    BY <2>1, <2>2
  <2> QED
    BY <2>1, <2>3
<1>6. TypeOK'
  <2>1. Idle \in Calls
    BY DEF Idle, Calls
  <2>2. gates' \subseteq Nat /\ dropped' \subseteq Nat /\ durable' \subseteq Nat
    BY <1>0, <1>1 DEF CommitInv, TypeOK
  <2>3. queue' \in Seq(Nat)
    BY <1>0
  <2> QED
    BY <1>0, <1>4, <1>5, <2>1, <2>2, <2>3 DEF CommitInv, TypeOK, SealsOnly
<1>7. LineInv' /\ JobInv'
  BY <1>0, <1>2 DEF CommitInv, LineInv, JobInv, SealsOnly
<1>8. CallInv'
  BY <1>0 DEF CallInv, Idle
<1>9. OrderInv' /\ KeyInv'
  BY <1>0, <1>2, <1>3, <1>5 DEF OrderInv, KeyInv, Idle
<1>10. PartInv'
  <2>1. ASSUME NEW p \in Indexes, St(p) = "parked" PROVE p \in dropped' \cup memory[job[p].write]
    <3>1. p \in Pend => p \in dropped'
      BY <1>0, PartFacts, PublishedElems
    <3> QED
      BY <1>1, <2>1, <3>1 DEF CommitInv, PartInv
  <2>2. gates' \subseteq PartJobs
    BY <1>0, <1>1 DEF CommitInv, PartInv
  <2> QED
    BY <1>0, <1>2, <1>3, <2>1, <2>2 DEF CommitInv, PartInv
<1>11. ReadInv'
  <2> SUFFICES ASSUME NEW i \in Indexes PROVE ReadOk(i)'
    BY <1>2 DEF ReadInv
  <2>1. St(i) = "ended" => out'[i] = out[i]
    BY <1>1, <1>4 DEF PartJobs
  <2>2. Returned(i)' => Returned(i)
    BY <1>2, <2>1 DEF Returned
  <2>3. ReadOk(i)
    BY DEF CommitInv, ReadInv
  <2> QED
    BY <1>0, <1>2, <2>2, <2>3 DEF ReadOk
<1>12. StoreInv'
  <2>1. /\ \A p \in Published : (p \in durable' \/ job[p].held) /\ job[p].taken \subseteq durable'
        /\ \A h \in Published : h \in durable' \cup holds \/ OnItsWay(h)
        /\ holds \subseteq {h \in Published : job[h].held}
        /\ \A p \in Indexes : job[p].taken \subseteq {h \in Published : job[h].held}
    BY DEF CommitInv, StoreInv
  <2>2. \A p \in Pend : p \in dropped'
    BY <1>0, PartFacts, PublishedElems
  <2>3. \A h : OnItsWay(h) => OnItsWay(h)'
    BY <1>0, <1>2, <2>2 DEF OnItsWay
  <2>4. ~call'.settle
    BY <1>0 DEF Idle
  <2> QED
    BY <1>0, <1>2, <1>3, <2>1, <2>3, <2>4 DEF StoreInv
<1>13. DropInv'
  <2> SUFFICES ASSUME NEW i \in ps, \A k \in Keys : i \notin memory[k],
                      NEW k \in Keys, NEW j \in memory[k]
               PROVE  j < i
    BY <1>0, <1>1 DEF DropInv
  <2>1. CASE i \in Pend
    BY <2>1 DEF CommitInv, OrderInv
  <2>2. CASE i \notin Pend
    <3>1. i \in Indexes /\ St(i) \in {"parked", "stored"}
      BY <1>1 DEF PartJobs
    <3>2. St(i) # "parked"
      BY <1>1, <2>2, <3>1 DEF CommitInv, PartInv, JobInv, JobOk
    <3>3. i = Len(job)
      BY <3>1, <3>2 DEF CommitInv, LineInv
    <3>4. j \in Indexes /\ j # i
      BY DEF CommitInv, PartInv
    <3> QED
      BY <3>1, <3>3, <3>4, JobTypes DEF CommitInv, Indexes
  <2> QED
    BY <2>1, <2>2
<1>14. OutInv'
  <2> SUFFICES ASSUME NEW i \in Indexes PROVE OutOk(i)'
    BY <1>2 DEF OutInv
  <2>1. OutOk(i) /\ told'[i] = told[i] /\ job'[i] = job[i] /\ St(i)' = St(i)
    BY <1>0, <1>2 DEF CommitInv, OutInv
  <2>2. CASE i \in ps
    <3>1. St(i) \in {"parked", "stored"} /\ out'[i] # "ok"
      BY <1>1, <1>4, <2>2 DEF PartJobs
    <3> QED
      BY <1>2, <2>1, <3>1 DEF OutOk
  <2>3. CASE i \notin ps
    BY <1>2, <1>4, <2>1, <2>3 DEF OutOk
  <2> QED
    BY <2>2, <2>3
<1>15. CloseInv'
  BY <1>0, <1>2, <1>3 DEF CommitInv, CloseInv, SealsOnly
<1> QED
  BY <1>6, <1>7, <1>8, <1>9, <1>10, <1>11, <1>12, <1>13, <1>14, <1>15 DEF CommitInv

\* The call's parts, done and to come.
LEMMA CallParts ==
  ASSUME CommitInv
  PROVE  /\ call.parts \in Seq(Nat) /\ call.at \in Nat \ {0} /\ Len(call.parts) \in Nat
         /\ call.received \in Nat /\ Rest \subseteq Parts(call.parts)
         /\ call.at <= Len(call.parts) + 1 => Done \subseteq Parts(call.parts)
         /\ \A n \in 1..Len(call.parts) : call.parts[n] \in Parts(call.parts) /\ call.parts[n] \in Nat
         /\ call.at \in 1..Len(call.parts) => Part \in Rest
         /\ Parts(call.parts) \subseteq Nat /\ Done \cup Rest \subseteq Nat
<1>1. call.parts \in Seq(Nat) /\ call.at \in Nat \ {0} /\ Len(call.parts) \in Nat /\ call.received \in Nat
  BY DEF CommitInv, TypeOK, Calls
<1>2. Parts(call.parts) = {call.parts[n] : n \in 1..Len(call.parts)}
  BY <1>1 DEF Parts
<1>3. call.at <= Len(call.parts) + 1
  BY DEF CommitInv, CallInv
<1>4. Done \subseteq Parts(call.parts) /\ Rest \subseteq Parts(call.parts)
  BY <1>1, <1>2, <1>3, SMTT(30) DEF Done, Rest
<1> QED
  BY <1>1, <1>2, <1>4, SMTT(30) DEF Part, Rest

\* The backend stores a part, resolves, refuses or rejects.
LEMMA StorageKeeps ==
  ASSUME CommitInv, StoreNext \/ CommitResolves \/ CommitRefuses \/ CommitRejects
  PROVE  CommitInv' /\ (PendingStays \/ Giving)
<1>0. call.phase = "storing" /\ call \in Calls /\ call.received \in Nat /\ call.at = 1
  BY DEF StoreNext, CommitResolves, CommitRefuses, CommitRejects, CommitInv, TypeOK, Calls, CallInv
<1>1. CASE StoreNext
  <2>1. /\ durable' = KeptUpTo(call.received + 1) /\ call' = [call EXCEPT !.received = @ + 1]
        /\ UNCHANGED <<lineVars, queue, unpub, gates, dropped, memory, holds, failure, closing>>
    BY <1>1 DEF StoreNext
  <2>2. /\ call' \in Calls /\ call'.parts = call.parts /\ call'.at = call.at
        /\ call'.stop = call.stop /\ call'.settle = call.settle /\ call'.phase # "idle" /\ call'.received = call.received + 1
    BY <1>0, <2>1 DEF Calls
  <2>3. call.received + 1 \in Nat /\ call'.received <= call.received + 1
    BY <1>0, <2>2
  <2> QED
    BY <1>0, <2>1, <2>2, <2>3, StoringKeeps DEF PendingStays, lineVars
<1>2. CASE CommitResolves \/ CommitRefuses \/ CommitRejects
  <2>1. PICK v \in Verdicts, n \in Nat :
          /\ CallSettles(v) /\ n >= call.received
          /\ durable' = KeptUpTo(n) \/ (durable' = durable /\ n = call.received)
    <3>1. CASE CommitResolves
      BY <1>0, <3>1 DEF CommitResolves, Verdicts
    <3>2. CASE CommitRefuses
      BY <1>0, <3>2 DEF CommitRefuses, Verdicts
    <3>3. CASE CommitRejects
      <4>1. PICK n \in call.received..Batches : durable' = KeptUpTo(n)
        BY <3>3 DEF CommitRejects
      <4>2. n \in Nat /\ n >= call.received /\ "rejected" \in Verdicts
        BY <1>0, <4>1 DEF Verdicts
      <4> QED
        BY <3>3, <4>1, <4>2 DEF CommitRejects
    <3> QED
      BY <1>2, <3>1, <3>2, <3>3
  <2>2. UNCHANGED <<job, line, told, delivered, memory, holds, failure, closing>>
    BY <2>1 DEF CallSettles
  <2>3. CASE ~Failed
    <3>1. /\ call' = [call EXCEPT !.phase = "publishing", !.verdict = v]
          /\ UNCHANGED <<queue, unpub, gates, dropped, out>>
      BY <2>1, <2>3 DEF CallSettles
    <3>2. /\ call' \in Calls /\ call'.parts = call.parts /\ call'.at = call.at
          /\ call'.stop = call.stop /\ call'.settle = call.settle /\ call'.phase # "idle" /\ call'.received <= n
      BY <1>0, <2>1, <3>1 DEF Calls
    <3>3. UNCHANGED <<lineVars, queue, unpub, gates, dropped, memory, holds, failure, closing>>
      BY <2>2, <3>1 DEF lineVars
    <3> QED
      BY <1>0, <2>1, <3>2, <3>3, StoringKeeps DEF PendingStays, lineVars
  <2>4. CASE Failed
    <3>1. PICK ps : ps = Parts(call.parts) \cup Parts(queue)
      OBVIOUS
    <3>2. /\ call' = Idle /\ queue' = <<>> /\ out' = Settled(ps, "failed")
          /\ gates' = gates \cup ps /\ dropped' = dropped \cup ps
          /\ unpub' = Unregistered(ps)
      BY <2>1, <2>4, <3>1 DEF CallSettles
    <3>3. ps = Pend
      <4>1. Rest = Parts(call.parts)
        <5>1. call.at = 1 /\ call.parts \in Seq(Nat)
          BY <1>0, CallParts
        <5>2. PICK s \in Seq(Nat) : s = call.parts
          BY <5>1
        <5>3. DOMAIN s = 1..Len(s)
          BY <5>2
        <5> QED
          BY <5>1, <5>2, <5>3, Zenon DEF Rest, Parts
      <4> QED
        BY <3>1, <4>1 DEF Pend
    <3>4. ps = {p \in ps : \A k \in Keys : p \notin memory[k]}
      BY <3>3, PartFacts, PublishedElems
    <3>5. out' = [i \in DOMAIN out |-> IF i \in {} THEN "own" ELSE IF i \in ps THEN "failed" ELSE out[i]]
      BY <3>2 DEF Settled
    <3>6. GivesUp(ps, {})
      BY <1>0, <2>2, <3>2, <3>3, <3>4, <3>5 DEF GivesUp
    <3>7. durable \subseteq durable' /\ durable' \subseteq PartJobs /\ PrefixInv'
      BY <1>0, <2>1, <2>2, KeptFacts
    <3>8. Failed' /\ SealsOnly /\ failure' \in [at : Nat, own : SUBSET Nat] \cup {None}
      BY <2>2, <2>4 DEF Failed, SealsOnly, CommitInv, TypeOK
    <3> QED
      BY <3>6, <3>7, <3>8, GivingUpKeeps DEF Giving
  <2> QED
    BY <2>3, <2>4
<1> QED
  BY <1>1, <1>2

\* A call that stops gives up its parts, and fails the Session.
LEMMA StopKeeps ==
  ASSUME CommitInv, NEW j \in Nat, NEW own, NEW lost, StopCall(j, own, lost),
         call.phase # "idle", Rest \subseteq own \cup lost, own \cup lost \subseteq Parts(call.parts)
  PROVE  CommitInv' /\ Giving
<1>1. PICK ps : ps = own \cup lost \cup Parts(queue)
  OBVIOUS
<1>2. /\ Fail(j, own) /\ gates' = gates \cup ps /\ unpub' = Unregistered(ps)
      /\ out' = [i \in DOMAIN out |-> IF i \in own THEN "own" ELSE IF i \in ps THEN "failed" ELSE out[i]]
      /\ dropped' = dropped \cup {p \in ps : \A k \in Keys : p \notin memory[k]}
      /\ queue' = <<>> /\ call' = Idle /\ UNCHANGED <<job, line, told, delivered, dataVars>>
  BY <1>1 DEF StopCall
<1>3. own \in SUBSET Nat
  BY CallParts
<1>4. Failed' /\ SealsOnly /\ failure' \in [at : Nat, own : SUBSET Nat] \cup {None}
  BY <1>2, <1>3, FailTypes DEF CommitInv
<1>5. GivesUp(ps, own)
  BY <1>1, <1>2 DEF GivesUp, Pend, dataVars
<1>6. durable \subseteq durable' /\ durable' \subseteq PartJobs /\ PrefixInv'
  BY <1>2 DEF CommitInv, StoreInv, PrefixInv, PartJobs, Indexes, St, dataVars
<1> QED
  BY <1>4, <1>5, <1>6, GivingUpKeeps DEF Giving

\* The steps that stop a call.
LEMMA StopsKeep ==
  ASSUME CommitInv,
         \/ StopUnreceived \/ StopFailed \/ AdoptionThrows \/ StopAfter
         \/ (FinishCall /\ (Rejected \/ Failed))
  PROVE  CommitInv' /\ Giving
<1>0. /\ call.parts \in Seq(Nat) /\ call.at \in Nat \ {0} /\ Len(call.parts) \in Nat
      /\ Rest \subseteq Parts(call.parts) /\ Done \subseteq Parts(call.parts)
      /\ \A n \in 1..Len(call.parts) : call.parts[n] \in Nat
      /\ call.at \in 1..Len(call.parts) => Part \in Rest
  BY CallParts DEF CommitInv, CallInv
<1>1. CASE StopUnreceived \/ AdoptionThrows
  <2>1. PICK own : own = {Part} \cup RejectedParts
    OBVIOUS
  <2>2. Publishing /\ StopCall(Boundary, own, Rest \ own)
    BY <1>1, <2>1 DEF StopUnreceived, AdoptionThrows
  <2>3. call.phase # "idle" /\ call.at \in 1..Len(call.parts) /\ 1 \in 1..Len(call.parts)
    BY <1>0, <2>2 DEF Publishing
  <2>4. own \subseteq Parts(call.parts)
    BY <1>0, <2>1, <2>3 DEF RejectedParts
  <2>5. PICK j : j = Boundary
    OBVIOUS
  <2>6. j \in Nat
    BY <1>0, <2>3, <2>5 DEF Boundary, Part
  <2>7. PICK lost : lost = Rest \ own
    OBVIOUS
  <2> QED
    BY <1>0, <2>2, <2>3, <2>4, <2>5, <2>6, <2>7, StopKeeps
<1>2. CASE StopFailed
  <2>1. PICK own : own = IF Rejected THEN Done ELSE {}
    OBVIOUS
  <2>2. PICK j, lost : j = Part /\ lost = Rest
    OBVIOUS
  <2>3. Publishing /\ StopCall(j, own, lost)
    BY <1>2, <2>1, <2>2 DEF StopFailed
  <2>4. call.phase # "idle" /\ call.at \in 1..Len(call.parts)
    BY <1>0, <2>3 DEF Publishing
  <2> QED
    BY <1>0, <2>1, <2>2, <2>3, <2>4, StopKeeps DEF Part
<1>3. CASE StopAfter
  <2>1. PICK j, lost : j = call.parts[call.at - 1] /\ lost = Rest
    OBVIOUS
  <2>2. StopCall(j, {}, lost) /\ call.stop
    BY <1>3, <2>1 DEF StopAfter
  <2>3. call.phase # "idle" /\ call.at - 1 \in 1..Len(call.parts)
    BY <1>0, <2>2 DEF CommitInv, CallInv, Idle
  <2> QED
    BY <1>0, <2>1, <2>2, <2>3, StopKeeps
<1>4. CASE FinishCall /\ (Rejected \/ Failed)
  <2>1. PICK own : own = IF Rejected THEN Done ELSE {}
    OBVIOUS
  <2>2. PICK j : j = call.parts[1]
    OBVIOUS
  <2>3. StopCall(j, own, {}) /\ call.phase = "publishing" /\ call.at > Len(call.parts)
    BY <1>4, <2>1, <2>2 DEF FinishCall
  <2>4. Rest = {}
    BY <1>0, <2>3 DEF Rest
  <2>5. 1 \in 1..Len(call.parts)
    BY <1>0, <2>3 DEF CommitInv, CallInv
  <2> QED
    BY <1>0, <2>1, <2>2, <2>3, <2>4, <2>5, StopKeeps
<1> QED
  BY <1>1, <1>2, <1>3, <1>4

-----------------------------------------------------------------------------
(* Publication.                                                            *)

\* The part whose turn it is comes first of all that is pending.
LEMMA PublishFacts ==
  ASSUME CommitInv, NEW throws \in BOOLEAN, Publish(throws), NEW p, p = Part
  PROVE  /\ p \in PartJobs /\ p \in Pend /\ Pend' = Pend \ {p} /\ \A q \in Pend' : p < q
         /\ call.at \in 1..Len(call.parts) /\ p = call.parts[call.at]
         /\ call' \in Calls /\ call'.parts = call.parts /\ call'.at = call.at + 1
         /\ call'.phase = "publishing" /\ call'.received = call.received
         /\ Rest' = Rest \ {p} /\ dropped = {} /\ call.phase = "publishing"
<1>0. /\ call.parts \in Seq(Nat) /\ call.at \in Nat \ {0} /\ Len(call.parts) \in Nat
      /\ call.at \in 1..Len(call.parts) /\ p = call.parts[call.at] /\ call \in Calls
      /\ call' = [call EXCEPT !.at = @ + 1, !.stop = throws /\ ~Rejected, !.settle = ~Rejected]
      /\ call.phase = "publishing" /\ queue' = queue
  BY CallParts DEF Publish, Publishing, Part, CommitInv, TypeOK
<1>1. /\ call' \in Calls /\ call'.parts = call.parts /\ call'.at = call.at + 1
      /\ call'.phase = "publishing" /\ call'.received = call.received
  <2>0. PICK t \in BOOLEAN : t = ~Rejected
    BY Zenon
  <2>1. PICK s \in BOOLEAN : s = (throws /\ ~Rejected)
    BY Zenon
  <2>2. call' = [call EXCEPT !.at = call.at + 1, !.stop = s, !.settle = t]
    BY <1>0, <2>0, <2>1
  <2>3. PICK n \in Nat \ {0} : n = call.at + 1
    BY <1>0
  <2>4. call' = [call EXCEPT !.at = n, !.stop = s, !.settle = t] /\ call \in Calls
    BY <1>0, <2>2, <2>3
  <2>5. /\ call' \in Calls /\ call'.parts = call.parts /\ call'.at = n
        /\ call'.phase = call.phase /\ call'.received = call.received
    BY <2>4 DEF Calls
  <2> QED
    BY <1>0, <2>3, <2>5
<1>2. p \in Rest /\ p \in Pend /\ p \in PartJobs
  BY <1>0, CallParts, PartFacts DEF Pend
<1>3. \A n \in call.at + 1..Len(call.parts) : p < call.parts[n]
  <2>1. \A m, n \in 1..Len(call.parts) : m < n => call.parts[m] < call.parts[n]
    BY DEF CommitInv, OrderInv
  <2> SUFFICES ASSUME NEW n \in call.at + 1..Len(call.parts) PROVE p < call.parts[n]
    OBVIOUS
  <2>2. n \in 1..Len(call.parts) /\ call.at < n
    BY <1>0
  <2> QED
    BY <1>0, <2>1, <2>2
<1>4. Rest' = {call.parts[n] : n \in call.at + 1..Len(call.parts)}
  BY <1>1 DEF Rest
<1>5. \A q \in Rest' : q \in Rest /\ p < q
  BY <1>0, <1>3, <1>4, SMTT(30) DEF Rest
<1>6. p \in Nat
  BY <1>2, PartFacts
<1>7. \A q \in Rest : q = p \/ q \in Rest'
  BY <1>0, <1>4 DEF Rest
<1>8. Rest' = Rest \ {p}
  BY <1>5, <1>6, <1>7
<1>9. \A q \in Parts(queue) : p < q /\ q # p
  BY <1>0, <1>6, CallParts DEF CommitInv, OrderInv
<1>10. Pend' = Pend \ {p} /\ \A q \in Pend' : p < q
  BY <1>0, <1>5, <1>8, <1>9 DEF Pend, Parts
<1>11. dropped = {}
  BY <1>0, PartFacts
<1> QED
  BY <1>0, <1>1, <1>2, <1>8, <1>10, <1>11

\* A published part is stored, or deferred and held; what it took is stored.
LEMMA PublishStored ==
  ASSUME CommitInv, NEW throws \in BOOLEAN, Publish(throws), NEW p, p = Part
  PROVE  (p \in durable \/ job[p].held) /\ job[p].taken \subseteq durable
<1>1. /\ p \in PartJobs /\ call.at \in 1..Len(call.parts) /\ p = call.parts[call.at]
  BY PublishFacts
<1>2. CASE job[p].held
  BY <1>1, <1>2, PartFacts DEF CommitInv, JobInv, JobOk
<1>3. CASE ~job[p].held
  <2>1. IsStored(p) /\ StoredIndex(call.parts, call.at) <= call.received
    BY <1>1, <1>3 DEF Publish, HasReceipt, IsStored
  <2> QED
    BY <1>1, <2>1 DEF CommitInv, StoreInv
<1> QED
  BY <1>2, <1>3

LEMMA PublishKeeps ==
  ASSUME CommitInv, NEW throws \in BOOLEAN, Publish(throws)
  PROVE  CommitInv'
<1>a. PICK p : p = Part
  OBVIOUS
<1>0. /\ p \in PartJobs /\ p \in Pend /\ Pend' = Pend \ {p} /\ \A q \in Pend' : p < q
      /\ call.at \in 1..Len(call.parts) /\ p = call.parts[call.at]
      /\ call' \in Calls /\ call'.parts = call.parts /\ call'.at = call.at + 1
      /\ call'.phase = "publishing" /\ call'.received = call.received
      /\ dropped = {} /\ call.phase = "publishing"
  BY <1>a, PublishFacts
<1>1. /\ unpub' = Unregistered({p})
      /\ memory' = [k \in Keys |-> IF k = job[p].write THEN memory[k] \cup {p} ELSE memory[k]]
      /\ holds' = IF job[p].held THEN holds \cup {p} ELSE holds
      /\ ~Failed /\ HasReceipt
      /\ UNCHANGED <<job, line, out, told, delivered, queue, gates, dropped, durable, failure, closing>>
  BY <1>a DEF Publish, lineVars
<1>2. /\ p \in Indexes /\ p \in Nat /\ St(p) \in {"parked", "stored"}
      /\ St(p) = "parked" => job[p].write \in Keys
      /\ St(p) = "stored" => job[p].write = None /\ ~job[p].held
      /\ job[p].held => job[p].taken = {}
  BY <1>0, PartFacts DEF PartJobs, CommitInv, JobInv, JobOk
<1>3. /\ Indexes' = Indexes /\ PartJobs' = PartJobs
      /\ \A i : St(i)' = St(i) /\ KeysOf(i)' = KeysOf(i) /\ JobOk(i)' = JobOk(i)
  BY <1>1 DEF Indexes, PartJobs, St, KeysOf, JobOk
<1>4. /\ \A k \in Keys : /\ memory[k] \subseteq memory'[k] /\ memory'[k] \subseteq memory[k] \cup {p}
                         /\ p \in memory'[k] => p \in memory[k] \/ k = job[p].write
                         /\ k # job[p].write => memory'[k] = memory[k]
                         /\ k = job[p].write => p \in memory'[k]
      /\ memory' \in [Keys -> SUBSET Nat]
  <2>1. memory \in [Keys -> SUBSET Nat]
    BY DEF CommitInv, TypeOK
  <2> QED
    BY <1>1, <1>2, <2>1
<1>5. /\ Published \subseteq Published' /\ Published' \subseteq Published \cup {p}
      /\ St(p) = "parked" => p \in Published'
      /\ St(p) = "stored" => Published' = Published
  <2>1. St(p) = "stored" => \A k \in Keys : memory'[k] = memory[k]
    BY <1>2, <1>4, NoneFacts
  <2> QED
    BY <1>2, <1>4, <2>1, PublishedElems
<1>6. (p \in durable \/ job[p].held) /\ job[p].taken \subseteq durable
  BY <1>a, PublishStored
<1>8. unpub' \in [Keys -> Nat \cup {None}]
      /\ \A k \in Keys : unpub'[k] = IF unpub[k] = p THEN None ELSE unpub[k]
  <2>1. unpub' = [k \in Keys |-> IF unpub[k] \in {p} THEN None ELSE unpub[k]]
    BY <1>1 DEF Unregistered
  <2>2. unpub \in [Keys -> Nat \cup {None}]
    BY DEF CommitInv, TypeOK
  <2> QED
    BY <2>1, <2>2
<1>9. TypeOK'
  <2>1. gates' \subseteq Nat /\ holds' \subseteq Nat
    BY <1>1, <1>2 DEF CommitInv, TypeOK
  <2> QED
    BY <1>0, <1>1, <1>4, <1>8, <2>1 DEF CommitInv, TypeOK
<1>10. LineInv' /\ JobInv'
  BY <1>1, <1>3 DEF CommitInv, LineInv, JobInv
<1>11. CallInv'
  <2>1. call.at \in Nat /\ Len(call.parts) \in Nat /\ call.at >= 1 /\ call.at <= Len(call.parts)
    BY <1>0, CallParts
  <2> QED
    BY <1>0, <1>1, <2>1 DEF CommitInv, CallInv
<1>12. OrderInv'
  <2>1. Parts(call.parts)' = Parts(call.parts) /\ Parts(queue)' = Parts(queue)
    BY <1>0, <1>1 DEF Parts
  <2>2. \A k \in Keys : \A r \in memory'[k], q \in Pend' : r < q
    BY <1>0, <1>4 DEF CommitInv, OrderInv
  <2> QED
    BY <1>0, <1>1, <1>3, <2>1, <2>2 DEF CommitInv, OrderInv
<1>13. PartInv'
  <2>1. \A q \in Indexes : St(q) = "parked" => q \in Pend' \cup dropped \cup memory'[job[q].write]
    <3> SUFFICES ASSUME NEW q \in Indexes, St(q) = "parked"
                 PROVE  q \in Pend' \cup dropped \cup memory'[job[q].write]
      OBVIOUS
    <3>1. job[q].write \in Keys
      BY DEF CommitInv, JobInv, JobOk
    <3>2. q \in Pend \cup dropped \cup memory[job[q].write]
      BY DEF CommitInv, PartInv
    <3> QED
      BY <1>0, <1>4, <3>1, <3>2
  <2>2. \A k \in Keys : \A q \in memory'[k] : q \in Indexes /\ St(q) = "parked" /\ job[q].write = k
    BY <1>2, <1>4, NoneFacts DEF CommitInv, PartInv
  <2>3. gates' \subseteq PartJobs \ Pend'
    BY <1>0, <1>1 DEF CommitInv, PartInv
  <2> QED
    BY <1>1, <1>3, <2>1, <2>2, <2>3 DEF PartInv
<1>14. KeyInv'
  <2> SUFFICES ASSUME NEW k \in Keys
               PROVE  /\ unpub'[k] # None => unpub'[k] \in Pend'
                      /\ \A q \in Pend' : k \in KeysOf(q) => unpub'[k] # None /\ q <= unpub'[k]
    BY <1>3 DEF KeyInv
  <2>1. unpub[k] # None => unpub[k] \in Pend
    BY DEF CommitInv, KeyInv
  <2>2. ASSUME NEW q \in Pend', k \in KeysOf(q) PROVE unpub'[k] # None /\ q <= unpub'[k]
    <3>1. q \in Pend /\ p < q /\ q \in Nat
      BY <1>0, PartFacts
    <3>2. unpub[k] # None /\ q <= unpub[k]
      BY <2>2, <3>1 DEF CommitInv, KeyInv
    <3>3. unpub[k] # p
      BY <1>2, <3>1, <3>2
    <3> QED
      BY <1>8, <3>2, <3>3
  <2> QED
    BY <1>0, <1>8, <2>1, <2>2
<1>15. ReadInv'
  <2> SUFFICES ASSUME NEW j \in Indexes PROVE ReadOk(j)'
    BY <1>3 DEF ReadInv
  <2>1. ReadOk(j) /\ j \in Nat
    BY JobTypes DEF CommitInv, ReadInv
  <2>2. Returned(j)' => Returned(j)
    BY <1>1, <1>3 DEF Returned
  <2>3. ASSUME Returned(j), job[j].read # None
        PROVE  job[j].got = {i \in memory'[job[j].read] : i < j}
    <3>1. job[j].got = {i \in memory[job[j].read] : i < j} /\ job[j].read \in Keys
      BY <2>1, <2>3, JobTypes DEF ReadOk, CommitInv, Jobs
    <3>2. p < j => job[p].write # job[j].read
      BY <1>0, <1>1, <2>1, <2>3 DEF ReadOk
    <3> QED
      BY <1>4, <3>1, <3>2
  <2> QED
    BY <1>0, <1>1, <1>3, <2>1, <2>2, <2>3 DEF ReadOk
<1>16. StoreInv'
  <2>1. durable' \subseteq PartJobs' /\ holds' \subseteq {h \in Published' : job[h].held}
    BY <1>1, <1>2, <1>3, <1>5 DEF CommitInv, StoreInv
  <2>2. \A q \in Indexes : job[q].taken \subseteq {h \in Published' : job[h].held}
    BY <1>5 DEF CommitInv, StoreInv
  <2>3. \A q \in Published' : (q \in durable \/ job[q].held) /\ job[q].taken \subseteq durable
    BY <1>5, <1>6 DEF CommitInv, StoreInv
  <2>4. \A h \in Published' : h \in durable \cup holds' \/ OnItsWay(h)'
    <3> SUFFICES ASSUME NEW h \in Published', h \notin durable \cup holds' PROVE OnItsWay(h)'
      OBVIOUS
    <3>1. h \in Published
      BY <1>1, <1>5, <1>6
    <3>2. PICK q \in Indexes : q \in Pend \cup dropped /\ h \in job[q].taken
      BY <1>1, <3>1 DEF CommitInv, StoreInv, OnItsWay
    <3>3. q # p
      BY <1>6, <3>2
    <3> QED
      BY <1>0, <1>1, <1>3, <3>2, <3>3 DEF OnItsWay
  <2>6. job'[call'.parts[call'.at - 1]].taken \subseteq durable'
    <3>1. call'.at - 1 = call.at
      BY <1>0, CallParts
    <3> QED
      BY <1>0, <1>1, <1>6, <3>1
  <2>5. \A n \in 1..Len(call'.parts) :
          IsStored(call.parts[n])' /\ StoredIndex(call.parts, n)' <= call'.received =>
            call'.parts[n] \in durable' /\ job'[call'.parts[n]].taken \subseteq durable'
    BY <1>0, <1>1 DEF CommitInv, StoreInv, IsStored, StoredIndex
  <2> QED
    BY <1>1, <1>3, <2>1, <2>2, <2>3, <2>4, <2>5, <2>6 DEF StoreInv
<1>17. PrefixInv'
  BY <1>1, <1>3 DEF CommitInv, PrefixInv
<1>18. DropInv'
  BY <1>0, <1>1 DEF DropInv
<1>19. OutInv'
  <2> SUFFICES ASSUME NEW j \in Indexes PROVE OutOk(j)'
    BY <1>3 DEF OutInv
  <2>1. OutOk(j) /\ told'[j] = told[j] /\ job'[j] = job[j] /\ St(j)' = St(j)
    BY <1>1, <1>3 DEF CommitInv, OutInv
  <2> QED
    BY <1>1, <1>5, <2>1 DEF OutOk, Failed
<1>20. CloseInv'
  <2>1. ASSUME closing \in {"storing", "closed"}
        PROVE  St(p) = "stored" /\ holds' = holds /\ Published' = Published
    BY <1>0, <1>1, <1>2, <1>5, <2>1 DEF CommitInv, CloseInv
  <2>2. \A j \in Indexes : St(j) \in {"upkeep", "stored"} => closing \in {"storing", "closed"}
    BY DEF CommitInv, LineInv, TypeOK
  <2> QED
    BY <1>0, <1>1, <1>3, <2>1, <2>2 DEF CommitInv, CloseInv, Failed
<1> QED
  BY <1>9, <1>10, <1>11, <1>12, <1>13, <1>14, <1>15, <1>16, <1>17, <1>18, <1>19, <1>20 DEF CommitInv

\* The published part settles: only its outcome and its gate change.
LEMMA SettlePartKeeps ==
  ASSUME CommitInv, SettlePart
  PROVE  CommitInv' /\ PendingStays
<1>0. PICK n, p : n = call.at - 1 /\ p = call.parts[n]
  OBVIOUS
<1>1. PICK result \in {"ok", "failed"} :
        /\ call.settle /\ call' = [call EXCEPT !.settle = FALSE]
        /\ out' = Settled({p}, result) /\ gates' = gates \cup {p}
        /\ (result = "failed" => Failed)
        /\ UNCHANGED <<job, line, told, delivered, queue, unpub, dropped, durable, memory, holds,
                       failure, closing>>
  BY <1>0 DEF SettlePart, dataVars
<1>2. /\ call' \in Calls /\ call'.phase = call.phase /\ call'.parts = call.parts
      /\ call'.received = call.received /\ call'.at = call.at /\ call'.stop = call.stop
      /\ ~call'.settle
  BY <1>1 DEF CommitInv, TypeOK, Calls
<1>3. n \in 1..Len(call.parts) /\ call.at \in Nat /\ n < call.at /\ call.phase # "idle"
  BY <1>0, <1>1, CallParts DEF CommitInv, CallInv, Idle
<1>4. p \in PartJobs /\ p \in Nat /\ p \in Indexes /\ p \in Parts(call.parts)
  BY <1>0, <1>3, CallParts, PartFacts
<1>5. p \notin Pend
  <2>1. \A m \in call.at..Len(call.parts) : p < call.parts[m]
    <3>1. \A l, m \in 1..Len(call.parts) : l < m => call.parts[l] < call.parts[m]
      BY DEF CommitInv, OrderInv
    <3>2. \A m \in call.at..Len(call.parts) : m \in 1..Len(call.parts) /\ n < m
      BY <1>3, CallParts
    <3> QED
      BY <1>0, <1>3, <3>1, <3>2
  <2>2. \A q \in Rest : p < q
    BY <2>1 DEF Rest
  <2>3. \A q \in Parts(queue) : p < q
    BY <1>4 DEF CommitInv, OrderInv
  <2> QED
    BY <1>4, <2>2, <2>3 DEF Pend
<1>6. (St(p) = "parked" => p \in Published) /\ job[p].taken \subseteq durable
  <2>1. dropped = {} /\ job[p].taken \subseteq durable
    BY <1>0, <1>1, <1>3, PartFacts DEF CommitInv, StoreInv
  <2> QED
    BY <1>4, <1>5, <2>1, PublishedElems DEF CommitInv, PartInv, JobInv, JobOk
<1>7. /\ Indexes' = Indexes /\ PartJobs' = PartJobs /\ Published' = Published /\ Pend' = Pend
      /\ Parts(call.parts)' = Parts(call.parts) /\ Parts(queue)' = Parts(queue)
      /\ \A i : St(i)' = St(i) /\ KeysOf(i)' = KeysOf(i) /\ JobOk(i)' = JobOk(i)
  BY <1>1, <1>2 DEF Indexes, PartJobs, St, Published, Pend, Rest, Parts, KeysOf, JobOk
<1>8. /\ out' \in Seq(Outcomes \cup {None}) /\ Len(out') = Len(job)
      /\ \A i \in Indexes : out'[i] = IF i = p THEN result ELSE out[i]
  <2>1. out \in Seq(Outcomes \cup {None}) /\ Len(out) = Len(job) /\ DOMAIN out = 1..Len(job)
        /\ Len(job) \in Nat /\ result \in Outcomes
    BY DEF CommitInv, TypeOK, Outcomes
  <2>2. out' = [i \in 1..Len(job) |-> IF i = p THEN result ELSE out[i]]
    BY <1>1, <2>1 DEF Settled
  <2>3. \A i \in 1..Len(job) : out'[i] \in Outcomes \cup {None}
    BY <2>1, <2>2
  <2> QED
    BY <2>1, <2>2, <2>3 DEF Indexes
<1>9. TypeOK'
  <2>1. gates' \subseteq Nat
    BY <1>1, <1>4 DEF CommitInv, TypeOK
  <2> QED
    BY <1>1, <1>2, <1>8, <2>1 DEF CommitInv, TypeOK
<1>10. LineInv' /\ JobInv'
  BY <1>1, <1>7 DEF CommitInv, LineInv, JobInv
<1>11. CallInv'
  BY <1>1, <1>2, <1>3 DEF CommitInv, CallInv, Failed
<1>12. OrderInv' /\ KeyInv'
  BY <1>1, <1>2, <1>7 DEF CommitInv, OrderInv, KeyInv
<1>13. PartInv'
  BY <1>1, <1>4, <1>5, <1>7 DEF CommitInv, PartInv
<1>14. ReadInv'
  <2> SUFFICES ASSUME NEW i \in Indexes PROVE ReadOk(i)'
    BY <1>7 DEF ReadInv
  <2>1. ReadOk(i) /\ (Failed' <=> Failed)
    BY <1>1 DEF CommitInv, ReadInv, Failed
  <2>2. Returned(i)' => Returned(i)
    BY <1>4, <1>7, <1>8 DEF Returned, PartJobs
  <2> QED
    BY <1>1, <1>7, <2>1, <2>2 DEF ReadOk
<1>15. StoreInv'
  <2>1. \A h : OnItsWay(h)' = OnItsWay(h)
    BY <1>1, <1>7 DEF OnItsWay
  <2>2. \A m \in 1..Len(call'.parts) :
          IsStored(call.parts[m])' /\ StoredIndex(call.parts, m)' <= call'.received =>
            call'.parts[m] \in durable' /\ job'[call'.parts[m]].taken \subseteq durable'
    BY <1>1, <1>2 DEF CommitInv, StoreInv, IsStored, StoredIndex
  <2> QED
    BY <1>1, <1>2, <1>7, <2>1, <2>2 DEF CommitInv, StoreInv
<1>16. PrefixInv' /\ DropInv'
  BY <1>1, <1>7 DEF CommitInv, PrefixInv, DropInv
<1>17. OutInv'
  <2> SUFFICES ASSUME NEW i \in Indexes PROVE OutOk(i)'
    BY <1>7 DEF OutInv
  <2>1. /\ OutOk(i) /\ told'[i] = told[i] /\ job'[i] = job[i] /\ St(i)' = St(i) /\ durable' = durable
        /\ Published' = Published /\ (Failed' <=> Failed)
    BY <1>1, <1>7 DEF CommitInv, OutInv, Failed
  <2>2. CASE i = p
    <3>1. St(i) \in {"parked", "stored"} /\ out'[i] = result
      BY <1>4, <1>8, <2>2 DEF PartJobs
    <3> QED
      BY <1>1, <1>6, <2>1, <2>2, <3>1 DEF OutOk
  <2>3. CASE i # p
    BY <1>8, <2>1, <2>3 DEF OutOk
  <2> QED
    BY <2>2, <2>3
<1>18. CloseInv'
  BY <1>1, <1>7 DEF CommitInv, CloseInv, Failed
<1>19. PendingStays
  BY <1>1, <1>2 DEF PendingStays
<1> QED
  BY <1>9, <1>10, <1>11, <1>12, <1>13, <1>14, <1>15, <1>16, <1>17, <1>18, <1>19 DEF CommitInv

\* Every part of the call is published: the queue is the next call.
LEMMA NextCallKeeps ==
  ASSUME CommitInv, FinishCall, ~Rejected, ~Failed
  PROVE  CommitInv'
<1>0. /\ call.phase = "publishing" /\ call.at > Len(call.parts) /\ ~call.stop
      /\ queue' = <<>> /\ call' = IF queue = <<>> THEN Idle ELSE Sent(queue)
      /\ UNCHANGED <<lineVars, unpub, gates, dropped, dataVars, failure, closing>>
  BY DEF FinishCall
<1>1. UNCHANGED <<job, line, out, told, delivered, durable, memory, holds>>
  BY <1>0 DEF lineVars, dataVars
<1>2. queue \in Seq(Nat) /\ TypeOK /\ Len(queue) \in Nat
  BY DEF CommitInv, TypeOK
<1>3. /\ call' \in Calls /\ call'.parts = queue /\ call'.at = 1 /\ ~call'.stop /\ call'.received = 0
      /\ ~call'.settle
      /\ call'.phase = "idle" <=> queue = <<>> /\ call' = Idle
  <2>1. Idle \in Calls /\ Idle.phase = "idle" /\ Idle.parts = <<>> /\ Idle.at = 1 /\ ~Idle.stop
        /\ Idle.received = 0 /\ ~Idle.settle
    BY DEF Idle, Calls
  <2> QED
    BY <1>0, <1>2, <2>1, SentTypes
<1>4. /\ Indexes' = Indexes /\ PartJobs' = PartJobs /\ Published' = Published
      /\ \A i : St(i)' = St(i) /\ KeysOf(i)' = KeysOf(i) /\ JobOk(i)' = JobOk(i)
                /\ Returned(i)' = Returned(i)
  BY <1>1 DEF Indexes, PartJobs, St, Published, KeysOf, JobOk, Returned
<1>5. /\ Pend = Parts(queue) /\ Pend' = Parts(queue) /\ Parts(call.parts)' = Parts(queue)
      /\ Parts(queue)' = {}
  <2>1. Rest = {}
    BY <1>0, CallParts DEF Rest
  <2>2. Rest' = Parts(queue)
    BY <1>2, <1>3 DEF Rest, Parts
  <2>3. Parts(queue)' = {} /\ Parts(call.parts)' = Parts(queue)
    BY <1>0, <1>3 DEF Parts
  <2> QED
    BY <2>1, <2>2, <2>3 DEF Pend
<1>6. dropped = {}
  BY <1>0, PartFacts
<1>7. TypeOK'
  <2>1. queue' \in Seq(Nat)
    BY <1>0
  <2> QED
    BY <1>0, <1>1, <1>2, <1>3, <2>1 DEF TypeOK
<1>8. LineInv' /\ JobInv'
  BY <1>0, <1>1, <1>4 DEF CommitInv, LineInv, JobInv
<1>9. CallInv'
  BY <1>0, <1>2, <1>3, <1>6 DEF CallInv
<1>10. OrderInv'
  <2>1. Parts(queue) \subseteq PartJobs
    BY PartFacts
  <2>2. \A m, n \in 1..Len(call'.parts) : m < n => call'.parts[m] < call'.parts[n]
    BY <1>3 DEF CommitInv, OrderInv
  <2>3. \A m, n \in 1..Len(queue') : m < n => queue'[m] < queue'[n]
    BY <1>0
  <2> QED
    BY <1>1, <1>4, <1>5, <2>1, <2>2, <2>3 DEF CommitInv, OrderInv
<1>11. PartInv' /\ KeyInv'
  BY <1>0, <1>1, <1>4, <1>5 DEF CommitInv, PartInv, KeyInv
<1>12. ReadInv'
  BY <1>0, <1>1, <1>4, <1>5 DEF CommitInv, ReadInv, ReadOk, Failed
<1>13. StoreInv'
  <2>1. ASSUME NEW n \in 1..Len(queue), ~job[queue[n]].held
        PROVE  ~(StoredIndex(queue, n) <= 0)
    <3>1. n \in Nat /\ n \in {m \in 1..n : IsStored(queue[m])}
      BY <2>1 DEF IsStored
    <3>2. StoredIndex(queue, n) \in Nat /\ StoredIndex(queue, n) >= 1
      BY <3>1, CountPositive DEF StoredIndex
    <3> QED
      BY <3>2
  <2>2. \A n \in 1..Len(call'.parts) :
          ~(IsStored(call.parts[n])' /\ StoredIndex(call.parts, n)' <= call'.received)
    BY <1>1, <1>3, <2>1 DEF IsStored, StoredIndex
  <2>3. \A h : OnItsWay(h)' = OnItsWay(h)
    BY <1>0, <1>1, <1>4, <1>5 DEF OnItsWay
  <2> QED
    BY <1>1, <1>3, <1>4, <2>2, <2>3 DEF CommitInv, StoreInv
<1>14. PrefixInv' /\ DropInv'
  BY <1>0, <1>1, <1>4 DEF CommitInv, PrefixInv, DropInv
<1>15. OutInv'
  BY <1>0, <1>1, <1>4 DEF CommitInv, OutInv, OutOk, Failed
<1>16. CloseInv'
  BY <1>0, <1>1, <1>4, <1>5 DEF CommitInv, CloseInv, Failed
<1> QED
  BY <1>7, <1>8, <1>9, <1>10, <1>11, <1>12, <1>13, <1>14, <1>15, <1>16 DEF CommitInv

-----------------------------------------------------------------------------
(* The invariant, and what follows from it.                                *)

LEMMA CommitInductive == CommitInv /\ [Next]_vars => CommitInv'
<1> SUFFICES ASSUME CommitInv, [Next]_vars PROVE CommitInv'
  OBVIOUS
<1>1. CASE Start
  BY <1>1, StartKeeps
<1>2. CASE Touch \/ GateOpens
  BY <1>2, TouchKeeps, GateOpensKeeps
<1>3. CASE Admit
  BY <1>3, SettlementKeeps
<1>4. CASE StoreNext \/ CommitResolves \/ CommitRefuses \/ CommitRejects
  BY <1>4, StorageKeeps
<1>5. CASE StopUnreceived \/ StopFailed \/ AdoptionThrows \/ StopAfter
  BY <1>5, StopsKeep
<1>6. ASSUME NEW throws \in BOOLEAN, Publish(throws) PROVE CommitInv'
  BY <1>6, PublishKeeps
<1>7. CASE FinishCall \/ SettlePart
  BY <1>7, StopsKeep, NextCallKeeps, SettlePartKeeps
<1>8. CASE FailsOffLine \/ Close \/ \E j \in 1..MaxJobs : Deliver(j)
  BY <1>8, OutsideKeeps
<1>9. CASE CloseDrains \/ CloseStores \/ CloseEnds
  BY <1>9, CloseDrainsKeeps, CloseStoresKeeps, CloseEndsKeeps
<1>10. CASE Enqueue
  BY <1>10, EnqueueKeeps
<1>11. CASE CallbackThrows \/ ReadFails
  BY <1>11, ThrowsKeeps
<1>12. CASE UNCHANGED vars
  <2>1. /\ UNCHANGED <<job, line, out, writerVars, dataVars, told, delivered, failure, closing>>
        /\ SealsOnly /\ (Failed => Failed')
    BY <1>12 DEF vars, lineVars, SealsOnly, Failed
  <2> QED
    BY <2>1, StillKeeps DEF CommitInv, TypeOK
<1> QED
  BY <1>1, <1>2, <1>3, <1>4, <1>5, <1>6, <1>7, <1>8, <1>9, <1>10, <1>11, <1>12 DEF Next, Progress

LEMMA CommitInvariance == Spec => []CommitInv
  BY CommitInitially, CommitInductive, PTL DEF Spec

\* Type correctness of the line, the writer and what Storage holds.
THEOREM TypeCorrect == Spec => []TypeOK
<1>1. CommitInv => TypeOK
  BY DEF CommitInv
<1> QED
  BY <1>1, CommitInvariance, PTL

\* SerialReads: a job that was told it succeeded read what the published jobs
\* before it wrote (touch, the gates, #publish).
THEOREM ReadsAreSerial == Spec => []SerialReads
<1>1. CommitInv => SerialReads
  <2> SUFFICES ASSUME CommitInv, NEW j \in Callers, told[j] = "ok", job[j].read # None
               PROVE  job[j].got = {i \in memory[job[j].read] : i < j}
    BY DEF SerialReads
  <2>1. OutOk(j) /\ ReadOk(j)
    BY DEF Callers, CommitInv, OutInv, ReadInv
  <2>2. Returned(j)
    BY <2>1 DEF OutOk, Returned
  <2> QED
    BY <2>1, <2>2 DEF ReadOk
<1> QED
  BY <1>1, CommitInvariance, PTL

\* ToldIsStored: a caller is told of success only once its commit is published
\* and stored, or deferred and due (#send, #publish).
THEOREM SuccessIsStored == Spec => []ToldIsStored
<1>1. CommitInv => ToldIsStored
  <2> SUFFICES ASSUME CommitInv, NEW j \in Callers, told[j] = "ok", job[j].write # None
               PROVE  /\ j \in Published
                      /\ j \in durable \/ (job[j].held /\ (Due(j) \/ (Failed /\ Lost(j))))
    BY DEF ToldIsStored
  <2>1. OutOk(j)
    BY DEF Callers, CommitInv, OutInv
  <2>2. j \in Published
    BY <2>1 DEF OutOk
  <2>3. OnItsWay(j) => Due(j) \/ (Failed /\ Lost(j))
    BY DEF OnItsWay, Pend, Due, Lost, CommitInv, CallInv
  <2> QED
    BY <2>2, <2>3 DEF CommitInv, StoreInv, Due
<1> QED
  BY <1>1, CommitInvariance, PTL

\* SurvivorsArePrefix: a crash after any step leaves a prefix of the stored
\* commits, and a commit that was given up has none published after it.
THEOREM SurvivorsPrefix == Spec => []SurvivorsArePrefix
<1>1. CommitInv => SurvivorsArePrefix
  <2> SUFFICES ASSUME CommitInv, NEW i \in Callers, NEW j \in Callers, i < j, ~job[i].held,
                      St(i) = "parked"
               PROVE  /\ j \in durable /\ ~job[j].held => i \in durable
                      /\ i \in dropped => j \notin Published
    BY DEF SurvivorsArePrefix, St
  <2>1. i \in PartJobs /\ i \in Nat /\ j \in Nat
    BY JobTypes DEF Callers, PartJobs, CommitInv
  <2>2. j \in durable => j \in PartJobs
    BY DEF CommitInv, StoreInv
  <2>3. j \in durable /\ ~job[j].held => i \in durable
    BY <2>1, <2>2 DEF CommitInv, PrefixInv
  <2>4. i \in dropped /\ j \in Published => j < i
    BY PublishedElems DEF CommitInv, DropInv
  <2> QED
    BY <2>1, <2>3, <2>4
<1> QED
  BY <1>1, CommitInvariance, PTL

\* ClosedIsStored: a close that found no failure has stored what was held
\* (#storeHolds).
THEOREM CloseStoresAll == Spec => []ClosedIsStored
<1>1. CommitInv => ClosedIsStored
  BY DEF CommitInv, CloseInv, ClosedIsStored
<1> QED
  BY <1>1, CommitInvariance, PTL

-----------------------------------------------------------------------------
(* The refinement of SerialCommits.                                        *)

Pending == [i \in 1..Len(Admitted) |-> CommitOf(Admitted[i])]
\* How many parts of the call are pending.
Left == Len(call.parts) + 1 - call.at

\* The parts that are admitted, the pending ones: those of the call from its
\* turn on, then the queue.
AdmittedInv ==
  /\ Admitted \in Seq(Nat) /\ Len(Admitted) \in Nat /\ Left \in Nat /\ Len(queue) \in Nat
  /\ \A i \in 1..Len(Admitted) : Admitted[i] \in Pend /\ Admitted[i] \in PartJobs
  /\ Len(Admitted) = Left + Len(queue)
  /\ \A i \in 1..Left : Admitted[i] = call.parts[call.at + i - 1]
  /\ \A i \in 1..Len(queue) : Admitted[Left + i] = queue[i]

LEMMA AdmittedFacts == CommitInv => AdmittedInv
<1> SUFFICES ASSUME CommitInv PROVE AdmittedInv
  OBVIOUS
<1>1. PICK parts, at, q, a, d : parts = call.parts /\ at = call.at /\ q = queue
                                /\ a = Admitted /\ d = Left
  OBVIOUS
<1>2. /\ parts \in Seq(Nat) /\ at \in Nat \ {0} /\ Len(parts) \in Nat /\ at <= Len(parts) + 1
      /\ q \in Seq(Nat) /\ Len(q) \in Nat /\ d \in Nat /\ d = Len(parts) + 1 - at
  <2>1. parts \in Seq(Nat) /\ at \in Nat \ {0} /\ Len(parts) \in Nat
    BY <1>1, CallParts
  <2>2. at <= Len(parts) + 1
    BY <1>1 DEF CommitInv, CallInv
  <2>3. q \in Seq(Nat) /\ Len(q) \in Nat
    BY <1>1 DEF CommitInv, TypeOK
  <2>4. d = Len(parts) + 1 - at
    BY <1>1 DEF Left
  <2>5. d \in Nat
    BY <2>1, <2>2, <2>4
  <2> QED
    BY <2>1, <2>2, <2>3, <2>4, <2>5
<1>3. PICK s : s = SubSeq(parts, at, Len(parts))
  OBVIOUS
<1>4. a = s \o q
  BY <1>1, <1>3 DEF Admitted
<1>5. s \in Seq(Nat) /\ Len(s) = d /\ \A i \in 1..d : s[i] = parts[at + i - 1]
  <2>1. \A i \in at..Len(parts) : parts[i] \in Nat
    BY <1>2
  <2>2. /\ s \in Seq(Nat) /\ Len(s) = IF at <= Len(parts) THEN Len(parts) - at + 1 ELSE 0
        /\ \A i \in 1..Len(parts) - at + 1 : s[i] = parts[at + i - 1]
    BY <1>2, <1>3, <2>1, SubSeqProperties
  <2>3. Len(parts) - at + 1 = d
    BY <1>2
  <2> QED
    BY <1>2, <2>2, <2>3
<1>6. /\ a \in Seq(Nat) /\ Len(a) = d + Len(q)
      /\ \A i \in 1..d + Len(q) : a[i] = IF i <= d THEN s[i] ELSE q[i - d]
  <2>1. /\ a \in Seq(Nat) /\ Len(a) = Len(s) + Len(q)
        /\ \A i \in 1..Len(s) + Len(q) : a[i] = IF i <= Len(s) THEN s[i] ELSE q[i - Len(s)]
    BY <1>2, <1>4, <1>5, ConcatProperties
  <2> QED
    BY <1>5, <2>1
<1>7. ASSUME NEW i \in 1..d PROVE a[i] = parts[at + i - 1]
  <2>1. i \in 1..d + Len(q) /\ i <= d
    BY <1>2
  <2> QED
    BY <1>5, <1>6, <2>1
<1>8. ASSUME NEW i \in 1..Len(q) PROVE a[d + i] = q[i]
  <2>1. d + i \in 1..d + Len(q) /\ ~(d + i <= d) /\ (d + i) - d = i
    BY <1>2
  <2> QED
    BY <1>6, <2>1
<1>9. ASSUME NEW i \in 1..Len(a) PROVE a[i] \in Pend
  <2>0. TypeOK /\ i \in 1..d + Len(q)
    BY <1>6 DEF CommitInv
  <2>1. CASE i \in 1..d
    <3>1. at + i - 1 \in at..Len(parts)
      BY <1>2, <2>1
    <3> QED
      BY <1>1, <1>7, <2>0, <2>1, <3>1, PendElems
  <2>2. CASE i \notin 1..d
    <3>1. i - d \in 1..Len(q) /\ i = d + (i - d)
      BY <1>2, <2>0, <2>2
    <3>2. PICK n \in 1..Len(q) : i = d + n
      BY <3>1
    <3> QED
      BY <1>1, <1>8, <2>0, <3>2, PendElems
  <2> QED
    BY <2>1, <2>2
<1>10. Len(a) \in Nat
  BY <1>2, <1>6
<1> QED
  BY <1>1, <1>2, <1>6, <1>7, <1>8, <1>9, <1>10, PartFacts DEF AdmittedInv

LEMMA AdmittedAfter == CommitInv' => AdmittedInv'
  BY AdmittedFacts, PTL

\* The commits that are pending, as a sequence.
LEMMA PendingFacts ==
  ASSUME CommitInv
  PROVE  /\ Pending \in Seq({CommitOf(p) : p \in Pend}) /\ Len(Pending) = Len(Admitted)
         /\ \A i \in 1..Len(Admitted) : Pending[i] = CommitOf(Admitted[i])
         /\ Pend = {} => Pending = <<>> /\ Len(Admitted) = 0
<1>1. Len(Admitted) \in Nat /\ \A i \in 1..Len(Admitted) : Admitted[i] \in Pend
  BY AdmittedFacts DEF AdmittedInv
<1>2. \A i \in 1..Len(Admitted) : CommitOf(Admitted[i]) \in {CommitOf(p) : p \in Pend}
  BY <1>1
<1>3. PICK n, S, f : /\ n = Len(Admitted) /\ S = {CommitOf(p) : p \in Pend} /\ f = Pending
                     /\ n \in Nat
  BY <1>1
<1>4. f = [i \in 1..n |-> f[i]] /\ \A i \in 1..n : f[i] = CommitOf(Admitted[i]) /\ f[i] \in S
  BY <1>2, <1>3 DEF Pending
<1>5. f \in Seq(S) /\ Len(f) = n
  BY <1>3, <1>4
<1>6. Pend = {} => n = 0
  <2>1. n > 0 => 1 \in 1..Len(Admitted)
    BY <1>3
  <2> QED
    BY <1>1, <1>3, <2>1
<1>7. n = 0 => f = <<>>
  BY <1>5
<1> QED
  BY <1>3, <1>4, <1>5, <1>6, <1>7

\* The commits that are pending after a step that leaves the admitted jobs alone.
LEMMA PendingNext ==
  ASSUME NEW n, n = Len(Admitted'), NEW f, f = Pending'
  PROVE  /\ f = [i \in 1..n |-> f[i]]
         /\ \A i \in 1..n : job'[Admitted'[i]] = job[Admitted'[i]] => f[i] = CommitOf(Admitted'[i])
<1>1. f = [i \in 1..n |-> [job |-> Admitted'[i], reads |-> job'[Admitted'[i]].read,
                           got |-> job'[Admitted'[i]].got, key |-> job'[Admitted'[i]].write]]
  BY DEF Pending, CommitOf
<1> QED
  BY <1>1 DEF CommitOf

\* A step that leaves what is pending alone.
LEMMA SameSteps ==
  ASSUME CommitInv, PendingStays
  PROVE  UNCHANGED Serial!serialVars
<1>1. Admitted' = Admitted
  BY DEF PendingStays, Admitted
<1>2. \A i \in 1..Len(Admitted) : job'[Admitted[i]] = job[Admitted[i]]
  BY AdmittedFacts DEF AdmittedInv, PendingStays
<1>3. Pending' = Pending
  <2>1. PICK f, n : f = Pending' /\ n = Len(Admitted) /\ n = Len(Admitted')
    BY <1>1
  <2>2. f = [i \in 1..n |-> f[i]] /\ \A i \in 1..n : f[i] = CommitOf(Admitted[i])
    BY <1>1, <1>2, <2>1, PendingNext
  <2>3. Pending = [i \in 1..n |-> CommitOf(Admitted[i])]
    BY <2>1 DEF Pending
  <2> QED
    BY <2>1, <2>2, <2>3
<1> QED
  BY <1>3 DEF Serial!serialVars, Pending, PendingStays

NonePending == Pend = {} => Pending = <<>>

LEMMA NothingPending == CommitInv => NonePending
  BY PendingFacts DEF NonePending

LEMMA NothingPendingAfter == CommitInv' => NonePending'
  BY NothingPending, PTL

\* A call that ends without publishing its rest abandons it.
LEMMA GivingSteps ==
  ASSUME CommitInv, CommitInv', Giving
  PROVE  [Serial!SerialNext]_(Serial!serialVars)
<1>1. PICK ps, own : GivesUp(ps, own)
  BY DEF Giving
<1>2. /\ call.phase # "idle" /\ Pend \subseteq ps /\ call' = Idle /\ queue' = <<>> /\ memory' = memory
      /\ dropped' = dropped \cup {p \in ps : \A k \in Keys : p \notin memory[k]}
  BY <1>1 DEF GivesUp
<1>3. Pending' = <<>>
  <2>1. Pend' = {}
    BY <1>2 DEF Pend, Rest, Parts, Idle
  <2> QED
    BY <2>1, NothingPendingAfter DEF NonePending
<1>4. CASE dropped' # {}
  <2>1. Serial!Abandon
    BY <1>2, <1>3, <1>4 DEF Serial!Abandon, Pending
  <2> QED
    BY <2>1 DEF Serial!SerialNext
<1>5. CASE dropped' = {}
  <2>1. Pend = {}
    BY <1>2, <1>5, PartFacts, PublishedElems
  <2>2. Pending = <<>> /\ dropped = {}
    BY <1>2, <1>5, <2>1, NothingPending DEF NonePending
  <2> QED
    BY <1>2, <1>3, <1>5, <2>2 DEF Serial!serialVars, Pending
<1> QED
  BY <1>4, <1>5

\* The admission of a part submits its commit; a failed Session gives it up.
LEMMA AdmittingSteps ==
  ASSUME CommitInv, CommitInv', Admitting
  PROVE  Serial!SerialNext
<1>1. PICK j \in Indexes, r \in Jobs : \E taken, ks : BecomesPart(j, r, taken, ks)
  BY DEF Admitting
<1>2. PICK taken, ks : BecomesPart(j, r, taken, ks)
  BY <1>1
<1>3. AdmitPart(j, taken, ks) /\ memory' = memory
  BY <1>2 DEF BecomesPart
<1>4. /\ \A p \in PartJobs : job'[p] = job[p] /\ p < j
      /\ j \in Nat
  BY <1>2, AdmitJobs
<1>5. AdmittedInv /\ AdmittedInv'
  BY AdmittedFacts, AdmittedAfter
<1>6. CASE call.phase = "idle" /\ Failed
  <2>1. UNCHANGED <<queue, call>> /\ dropped' = dropped \cup {j}
    BY <1>3, <1>6 DEF AdmitPart
  <2>2. call = Idle /\ queue = <<>>
    BY <1>6 DEF CommitInv, CallInv
  <2>3. Pend' = {}
    BY <2>1, <2>2 DEF Pend, Rest, Parts, Idle
  <2>4. Pending' = <<>> /\ dropped' # {}
    BY <2>1, <2>3, NothingPendingAfter DEF NonePending
  <2>5. Serial!Abandon
    BY <1>3, <2>4 DEF Serial!Abandon, Pending
  <2> QED
    BY <2>5 DEF Serial!SerialNext
<1>7. CASE ~(call.phase = "idle" /\ Failed)
  <2>1. Len(Admitted') = Len(Admitted) + 1 /\ \A i \in 1..Len(Admitted) : Admitted'[i] = Admitted[i]
    <3>1. CASE call.phase = "idle"
      <4>1. call = Idle /\ queue = <<>> /\ call' = Sent(<<j>>) /\ queue' = queue
        BY <1>3, <1>7, <3>1 DEF CommitInv, CallInv, AdmitPart
      <4>2. Left = 0 /\ Len(queue) = 0
        BY <4>1 DEF Left, Idle
      <4>3. call'.parts = <<j>> /\ call'.at = 1
        <5>1. <<j>> \in Seq(Nat)
          BY <1>4
        <5> QED
          BY <4>1, <5>1, SentTypes
      <4>4. Left' = 1
        BY <4>3 DEF Left
      <4> QED
        BY <1>5, <4>1, <4>2, <4>4 DEF AdmittedInv
    <3>2. CASE call.phase # "idle"
      <4>1. call' = call /\ queue' = Append(queue, j) /\ queue \in Seq(Nat)
        BY <1>3, <3>2 DEF AdmitPart, CommitInv, TypeOK
      <4>2. Left' = Left
        BY <4>1 DEF Left
      <4>3. Len(queue') = Len(queue) + 1 /\ \A i \in 1..Len(queue) : queue'[i] = queue[i]
        BY <4>1
      <4>4. Len(Admitted') = Len(Admitted) + 1
        BY <1>5, <4>2, <4>3 DEF AdmittedInv
      <4>5. ASSUME NEW i \in 1..Len(Admitted) PROVE Admitted'[i] = Admitted[i]
        <5>1. CASE i \in 1..Left
          BY <1>5, <4>1, <4>2, <5>1 DEF AdmittedInv
        <5>2. CASE i \notin 1..Left
          <6>1. PICK d, n : d = Left /\ n = Len(queue) /\ d \in Nat /\ n \in Nat /\ i \in 1..d + n
            BY <1>5 DEF AdmittedInv
          <6>2. i - d \in 1..n /\ i = d + (i - d)
            BY <5>2, <6>1
          <6>3. PICK m \in 1..n : i = d + m
            BY <6>2
          <6>4. m \in 1..Len(queue) /\ m \in 1..Len(queue')
            BY <4>3, <6>1, <6>3
          <6>5. Admitted[Left + m] = queue[m] /\ Admitted'[Left' + m] = queue'[m]
            BY <1>5, <6>4 DEF AdmittedInv
          <6> QED
            BY <4>2, <4>3, <6>1, <6>3, <6>4, <6>5
        <5> QED
          BY <5>1, <5>2
      <4> QED
        BY <4>4, <4>5
    <3> QED
      BY <3>1, <3>2
  <2>2. dropped' = dropped
    BY <1>3, <1>7 DEF AdmitPart
  <2>3. PICK f, g, n : f = Pending /\ g = Pending' /\ n = Len(Admitted) /\ n \in Nat
    BY <1>5 DEF AdmittedInv
  <2>4. /\ f = [i \in 1..n |-> f[i]] /\ \A i \in 1..n : f[i] = CommitOf(Admitted[i])
        /\ g = [i \in 1..n + 1 |-> g[i]] /\ \A i \in 1..n : g[i] = CommitOf(Admitted[i])
    <3>1. f = [i \in 1..n |-> f[i]] /\ \A i \in 1..n : f[i] = CommitOf(Admitted[i])
      BY <2>3 DEF Pending
    <3>2. n + 1 = Len(Admitted')
      BY <2>1, <2>3
    <3>3. /\ g = [i \in 1..n + 1 |-> g[i]]
          /\ \A i \in 1..n + 1 : job'[Admitted'[i]] = job[Admitted'[i]] => g[i] = CommitOf(Admitted'[i])
      BY <2>3, <3>2, PendingNext
    <3>4. \A i \in 1..n : i \in 1..n + 1 /\ Admitted[i] \in PartJobs
      BY <1>5, <2>3 DEF AdmittedInv
    <3> QED
      BY <1>4, <2>1, <2>3, <3>1, <3>3, <3>4
  <2>5. Len(f) = n /\ Len(g) = n + 1 /\ SubSeq(g, 1, n) = f
    <3>1. PICK S : S = {g[i] : i \in 1..n + 1}
      OBVIOUS
    <3>2. \A i \in 1..n + 1 : g[i] \in S
      BY <3>1
    <3>3. \A i \in 1..n : i \in 1..n + 1 /\ f[i] = g[i]
      <4>1. \A i \in 1..n : i \in 1..n + 1
        BY <2>3
      <4>2. \A i \in 1..n : f[i] = g[i]
        BY <2>4, Zenon
      <4> QED
        BY <4>1, <4>2
    <3>4. f \in Seq(S) /\ Len(f) = n /\ g \in Seq(S) /\ Len(g) = n + 1
      BY <2>3, <2>4, <3>2, <3>3
    <3>5. PICK h : h = SubSeq(g, 1, n)
      OBVIOUS
    <3>6. h \in Seq(S) /\ Len(h) = n /\ \A i \in 1..n : h[i] = g[i]
      <4>1. \A i \in 1..n : g[i] \in S
        BY <3>2, <3>3
      <4>2. /\ h \in Seq(S) /\ Len(h) = IF 1 <= n THEN n - 1 + 1 ELSE 0
            /\ \A i \in 1..n - 1 + 1 : h[i] = g[1 + i - 1]
        BY <2>3, <3>5, <4>1, SubSeqProperties
      <4> QED
        BY <2>3, <4>2
    <3>7. h = f
      BY <3>3, <3>4, <3>6, SeqEqual
    <3> QED
      BY <3>4, <3>5, <3>7
  <2>6. /\ Len(Pending') = Len(Pending) + 1 /\ SubSeq(Pending', 1, Len(Pending)) = Pending
    BY <2>3, <2>5
  <2>7. Serial!Submit
    BY <1>3, <2>2, <2>6 DEF Serial!Submit, Pending
  <2> QED
    BY <2>7 DEF Serial!SerialNext
<1> QED
  BY <1>6, <1>7

\* Publication commits the oldest: what it read is still so.
LEMMA PublishSteps ==
  ASSUME CommitInv, CommitInv', NEW throws \in BOOLEAN, Publish(throws)
  PROVE  Serial!SerialNext
<1>1. PICK p : p = Part
  OBVIOUS
<1>2. /\ p \in PartJobs /\ p \in Pend /\ dropped = {} /\ call.at \in 1..Len(call.parts)
      /\ p = call.parts[call.at] /\ call'.parts = call.parts /\ call'.at = call.at + 1
  BY <1>1, PublishFacts
<1>3. /\ memory' = [k \in Keys |-> IF k = job[p].write THEN memory[k] \cup {p} ELSE memory[k]]
      /\ job' = job /\ queue' = queue /\ dropped' = dropped
  BY <1>1 DEF Publish, lineVars
<1>4. AdmittedInv /\ AdmittedInv' /\ call.at \in Nat /\ Len(call.parts) \in Nat
  BY AdmittedFacts, AdmittedAfter, CallParts
<1>5. Left >= 1 /\ Left' = Left - 1
  <2>1. PICK a, l : a = call.at /\ l = Len(call.parts)
    OBVIOUS
  <2>2. a \in Nat /\ l \in Nat /\ a >= 1 /\ a <= l
    BY <1>2, <1>4, <2>1
  <2>3. Left = l + 1 - a /\ Left' = l + 1 - (a + 1)
    BY <1>2, <2>1 DEF Left
  <2> QED
    BY <2>2, <2>3
<1>6. PICK f, g, n, d : f = Pending /\ g = Pending' /\ n = Len(Admitted') /\ n \in Nat /\ d = Left'
                        /\ d \in Nat
  BY <1>4 DEF AdmittedInv
<1>7. Len(Admitted) = n + 1 /\ Left = d + 1 /\ n = d + Len(queue) /\ Len(queue) \in Nat
  BY <1>3, <1>4, <1>5, <1>6 DEF AdmittedInv
<1>8. Admitted[1] = p
  <2>1. 1 \in 1..Left /\ call.at + 1 - 1 = call.at
    BY <1>4, <1>5, <1>6, <1>7
  <2> QED
    BY <1>2, <1>4, <2>1 DEF AdmittedInv
<1>9. ASSUME NEW i \in 1..n PROVE Admitted'[i] = Admitted[i + 1]
  <2>1. CASE i \in 1..d
    <3>1. i \in 1..Left' /\ i + 1 \in 1..Left /\ call'.at + i - 1 = call.at + (i + 1) - 1
      <4>1. i \in 1..Left' /\ i + 1 \in 1..Left
        <5>0. d \in Nat
          BY <1>6
        <5>1. i \in 1..d /\ i + 1 \in 1..d + 1
          BY <2>1, <5>0
        <5>2. Left' = d /\ Left = d + 1
          BY <1>6, <1>7
        <5> QED
          BY <5>1, <5>2
      <4>2. call'.at + i - 1 = call.at + (i + 1) - 1
        <5>1. call'.at = call.at + 1 /\ call.at \in Nat /\ i \in Nat
          BY <1>2, <1>4
        <5> QED
          BY <5>1
      <4> QED
        BY <4>1, <4>2
    <3> QED
      BY <1>2, <1>4, <3>1, ZenonT(30) DEF AdmittedInv
  <2>2. CASE i \notin 1..d
    <3>0. PICK l \in Nat : l = Len(queue)
      BY <1>7
    <3>1. i - d \in 1..Len(queue) /\ i = d + (i - d)
      <4>1. i \in 1..d + l /\ d \in Nat
        BY <1>6, <1>7, <3>0
      <4>2. i - d \in 1..l /\ i = d + (i - d)
        BY <2>2, <4>1
      <4> QED
        BY <3>0, <4>2
    <3>2. PICK m \in 1..Len(queue) : i = d + m
      BY <3>1
    <3>3. i = Left' + m /\ i + 1 = Left + m
      BY <1>6, <1>7, <3>2
    <3>4. m \in 1..Len(queue') /\ Admitted'[Left' + m] = queue'[m] /\ Admitted[Left + m] = queue[m]
      BY <1>3, <1>4, <3>2 DEF AdmittedInv
    <3> QED
      BY <1>3, <3>3, <3>4
  <2> QED
    BY <2>1, <2>2
<1>10. /\ f = [i \in 1..n + 1 |-> f[i]] /\ \A i \in 1..n + 1 : f[i] = CommitOf(Admitted[i])
       /\ g = [i \in 1..n |-> g[i]] /\ \A i \in 1..n : g[i] = CommitOf(Admitted'[i])
  BY <1>3, <1>6, <1>7, PendingNext DEF Pending
<1>11. f # <<>> /\ Head(f) = CommitOf(p) /\ Tail(f) = g
  <2>1. PICK S : S = {f[i] : i \in 1..n + 1}
    OBVIOUS
  <2>2. \A i \in 1..n + 1 : f[i] \in S
    BY <2>1
  <2>3. ASSUME NEW i \in 1..n PROVE i + 1 \in 1..n + 1 /\ g[i] = f[i + 1]
    <3>1. i + 1 \in 1..n + 1
      BY <1>6
    <3> QED
      BY <1>9, <1>10, <3>1
  <2>4. f \in Seq(S) /\ Len(f) = n + 1
    BY <1>6, <1>10, <2>2
  <2>5. g \in Seq(S) /\ Len(g) = n
    <3>1. \A i \in 1..n : g[i] \in S
      BY <2>2, <2>3
    <3> QED
      BY <1>6, <1>10, <3>1
  <2>6. f # <<>> /\ 1 \in 1..n + 1
    BY <1>6, <2>4
  <2>7. Tail(f) \in Seq(S) /\ Len(Tail(f)) = n /\ \A i \in 1..n : Tail(f)[i] = f[i + 1]
    BY <1>6, <2>4, <2>6, HeadTailProperties
  <2>8. Tail(f) = g
    BY <2>3, <2>5, <2>7, SeqEqual
  <2>9. Head(f) = f[1]
    BY <2>4, <2>6
  <2> QED
    BY <1>8, <1>10, <2>6, <2>8, <2>9
<1>12. /\ CommitOf(p).job = p /\ CommitOf(p).reads = job[p].read /\ CommitOf(p).got = job[p].got
       /\ CommitOf(p).key = job[p].write
  BY DEF CommitOf
<1>13. ASSUME job[p].read # None PROVE job[p].got = memory[job[p].read]
  <2>1. p \in Indexes /\ St(p) \in {"parked", "stored"} /\ job[p].read \in Keys
    BY <1>2, <1>13, JobTypes DEF PartJobs, CommitInv, Jobs
  <2>2. St(p) = "parked"
    BY <1>13, <2>1 DEF CommitInv, JobInv, JobOk
  <2>3. job[p].got = {i \in memory[job[p].read] : i < p}
    BY <1>13, <2>1, <2>2 DEF CommitInv, ReadInv, ReadOk, Returned
  <2>4. \A i \in memory[job[p].read] : i < p
    BY <1>2, <2>1 DEF CommitInv, OrderInv
  <2> QED
    BY <2>3, <2>4
<1>14. memory' = IF job[p].write = None THEN memory
                 ELSE [memory EXCEPT ![job[p].write] = memory[job[p].write] \cup {p}]
  <2>1. memory = [k \in Keys |-> memory[k]] /\ job[p].write \in Keys \cup {None}
    BY <1>2, PartFacts, JobTypes DEF CommitInv, TypeOK, Jobs
  <2> QED
    BY <1>3, <2>1, NoneFacts
<1>15. /\ Pending # <<>> /\ Pending' = Tail(Pending) /\ Head(Pending) = CommitOf(p)
  BY <1>6, <1>11, Zenon
<1>16. Serial!Commit
  BY <1>2, <1>3, <1>12, <1>13, <1>14, <1>15 DEF Serial!Commit, Pending
<1> QED
  BY <1>16 DEF Serial!SerialNext

\* The queue becomes the call: the same commits are pending.
LEMMA NextCallSteps ==
  ASSUME CommitInv, CommitInv', FinishCall, ~Rejected, ~Failed
  PROVE  UNCHANGED Serial!serialVars
<1>0. /\ call.at > Len(call.parts) /\ queue' = <<>> /\ queue \in Seq(Nat)
      /\ call' = (IF queue = <<>> THEN Idle ELSE Sent(queue))
      /\ job' = job /\ memory' = memory /\ dropped' = dropped
  BY DEF FinishCall, lineVars, dataVars, CommitInv, TypeOK
<1>1. call'.parts = queue /\ call'.at = 1
  BY <1>0, SentTypes DEF Idle
<1>2. AdmittedInv /\ AdmittedInv' /\ call.at \in Nat /\ Len(call.parts) \in Nat
      /\ call.at <= Len(call.parts) + 1
  BY AdmittedFacts, AdmittedAfter, CallParts DEF CommitInv, CallInv
<1>3. Left = 0 /\ Left' = Len(queue) /\ Len(queue') = 0 /\ Len(queue) \in Nat
  BY <1>0, <1>1, <1>2 DEF Left
<1>4. Len(Admitted') = Len(Admitted) /\ Len(Admitted) = Len(queue)
  BY <1>2, <1>3 DEF AdmittedInv
<1>5. ASSUME NEW i \in 1..Len(Admitted) PROVE Admitted'[i] = Admitted[i]
  <2>1. i \in 1..Len(queue) /\ Left + i = i /\ call'.at + i - 1 = i /\ i \in 1..Left'
    BY <1>1, <1>3, <1>4
  <2> QED
    BY <1>1, <1>2, <2>1 DEF AdmittedInv
<1>6. Pending' = Pending
  <2>1. PICK f, n : f = Pending' /\ n = Len(Admitted)
    OBVIOUS
  <2>2. f = [i \in 1..n |-> f[i]] /\ \A i \in 1..n : f[i] = CommitOf(Admitted[i])
    BY <1>0, <1>4, <1>5, <2>1, PendingNext
  <2>3. Pending = [i \in 1..n |-> CommitOf(Admitted[i])]
    BY <2>1 DEF Pending
  <2> QED
    BY <2>1, <2>2, <2>3
<1> QED
  BY <1>0, <1>6 DEF Serial!serialVars, Pending

\* A step of the line, a delivery or a close moves no part.
LEMMA LineSteps ==
  ASSUME CommitInv,
         \/ Enqueue \/ Start \/ Touch \/ GateOpens \/ CallbackThrows \/ ReadFails \/ FailsOffLine
         \/ Close \/ CloseDrains \/ CloseEnds \/ \E j \in 1..MaxJobs : Deliver(j)
         \/ UNCHANGED vars
  PROVE  PendingStays
<1>0. /\ job \in Seq(Jobs) /\ Len(job) \in Nat /\ DOMAIN job = Indexes
      /\ \A p \in PartJobs : p \in Indexes /\ St(p) \in {"parked", "stored"}
      /\ line # None => line \in Indexes /\ St(line) \in Active
  BY DEF CommitInv, TypeOK, Indexes, PartJobs, LineInv
<1>1. ASSUME NEW j \in Indexes, NEW r, job' = [job EXCEPT ![j] = r],
             St(j) \notin {"parked", "stored"}, UNCHANGED <<writerVars, dataVars>>
      PROVE  PendingStays
  BY <1>0, <1>1 DEF PendingStays, writerVars, dataVars
<1>2. ASSUME NEW r, job' = Append(job, r), UNCHANGED <<writerVars, dataVars>>
      PROVE  PendingStays
  BY <1>0, <1>2 DEF PendingStays, writerVars, dataVars, Indexes
<1>3. ASSUME job' = job, UNCHANGED <<writerVars, dataVars>> PROVE PendingStays
  BY <1>3 DEF PendingStays, writerVars, dataVars
<1>4. ASSUME NEW j \in Indexes, St(j) \notin {"parked", "stored"}, NEW result, EndLine(j, result)
      PROVE  PendingStays
  <2>1. PICK r : job' = [job EXCEPT ![j] = r] /\ UNCHANGED <<writerVars, dataVars>>
    BY <1>0, <1>4 DEF EndLine
  <2> QED
    BY <1>1, <1>4, <2>1
<1>5. ASSUME NEW j \in Indexes, St(j) \notin {"parked", "stored"}, Return(j)
      PROVE  PendingStays
  <2>1. UNCHANGED <<writerVars, dataVars>>
    BY <1>5 DEF Return
  <2>2. PICK r : job' = [job EXCEPT ![j] = r]
    <3>1. CASE job[j].read = None
      <4>1. job' = [job EXCEPT ![j] = [job[j] EXCEPT !.st = "settling"]]
        BY <1>0, <1>5, <3>1 DEF Return
      <4> QED
        BY <4>1
    <3>2. CASE job[j].read # None
      <4>1. PICK v : job' = [job EXCEPT ![j].st = "settling", ![j].got = v]
        BY <1>5, <3>2 DEF Return
      <4>2. job' = [job EXCEPT ![j] = [job[j] EXCEPT !.st = "settling", !.got = v]]
        BY <1>0, <4>1
      <4> QED
        BY <4>2
    <3> QED
      BY <3>1, <3>2
  <2> QED
    BY <1>1, <1>5, <2>1, <2>2
<1>6. CASE Enqueue
  BY <1>2, <1>6 DEF Enqueue
<1>7. CASE Start
  <2>1. PICK j \in Indexes :
          /\ job[j].st = "queued" /\ \A i \in 1..j-1 : job[i].st # "queued"
          /\ UNCHANGED <<failure, closing>>
          /\ \/ Failed /\ EndLine(j, "failed")
             \/ /\ ~Failed /\ line' = j
                /\ \E r, w \in Keys \cup {None}, held, exempt \in BOOLEAN :
                     /\ held => w # None /\ r = w
                     /\ exempt => w = None
                     /\ job' = [job EXCEPT ![j].st = "running", ![j].read = r, ![j].write = w,
                                           ![j].held = held, ![j].exempt = exempt]
                /\ UNCHANGED <<out, told, delivered, writerVars, dataVars>>
    BY <1>7 DEF Start
  <2>2. St(j) \notin {"parked", "stored"}
    BY <2>1 DEF St
  <2>3. ASSUME NEW r, NEW w, NEW held, NEW exempt, UNCHANGED <<writerVars, dataVars>>,
               job' = [job EXCEPT ![j].st = "running", ![j].read = r, ![j].write = w,
                                  ![j].held = held, ![j].exempt = exempt]
        PROVE  PendingStays
    <3>1. PICK x : x = [job[j] EXCEPT !.st = "running", !.read = r, !.write = w, !.held = held,
                                      !.exempt = exempt]
      OBVIOUS
    <3>2. job' = [job EXCEPT ![j] = x]
      BY <1>0, <2>3, <3>1
    <3> QED
      BY <1>1, <2>2, <2>3, <3>2
  <2>4. CASE Failed /\ EndLine(j, "failed")
    BY <1>4, <2>2, <2>4
  <2>5. CASE ~(Failed /\ EndLine(j, "failed"))
    <3>1. UNCHANGED <<writerVars, dataVars>>
      BY <2>1, <2>5
    <3>2. PICK r, w \in Keys \cup {None}, held, exempt \in BOOLEAN :
            /\ held => w # None /\ r = w
            /\ exempt => w = None
            /\ job' = [job EXCEPT ![j].st = "running", ![j].read = r, ![j].write = w,
                                  ![j].held = held, ![j].exempt = exempt]
      BY <2>1, <2>5
    <3> QED
      BY <2>3, <3>1, <3>2
  <2> QED
    BY <2>4, <2>5
<1>8. CASE Touch \/ GateOpens \/ CallbackThrows \/ ReadFails
  <2>1. PICK j : j = line
    OBVIOUS
  <2>2. j \in Indexes /\ St(j) \notin {"parked", "stored"}
    BY <1>0, <1>8, <2>1 DEF Touch, GateOpens, CallbackThrows, ReadFails, Active
  <2>3. \/ EndLine(j, "failed") \/ EndLine(j, "own") \/ Return(j)
        \/ /\ job' = [job EXCEPT ![j].st = "waiting", ![j].hit = TRUE, ![j].gate = unpub[job[j].read]]
           /\ UNCHANGED <<writerVars, dataVars>>
    BY <1>8, <2>1 DEF Touch, GateOpens, CallbackThrows, ReadFails
  <2>4. CASE /\ job' = [job EXCEPT ![j].st = "waiting", ![j].hit = TRUE, ![j].gate = unpub[job[j].read]]
             /\ UNCHANGED <<writerVars, dataVars>>
    <3>1. PICK u : u = unpub[job[j].read]
      OBVIOUS
    <3>2. job' = [job EXCEPT ![j] = [job[j] EXCEPT !.st = "waiting", !.hit = TRUE, !.gate = u]]
      BY <1>0, <2>4, <3>1
    <3> QED
      BY <1>1, <2>2, <2>4, <3>2
  <2> QED
    BY <1>4, <1>5, <2>2, <2>3, <2>4
<1>9. CASE FailsOffLine \/ Close \/ CloseEnds \/ (\E j \in 1..MaxJobs : Deliver(j)) \/ UNCHANGED vars
  BY <1>3, <1>9 DEF FailsOffLine, Close, CloseEnds, Deliver, lineVars, vars
<1>10. CASE CloseDrains
  BY <1>2, <1>3, <1>10 DEF CloseDrains, lineVars
<1> QED
  BY <1>6, <1>7, <1>8, <1>9, <1>10

\* The line and its writer implement serial commits: whatever fails and however
\* the parts are batched, commits take effect one at a time, in the order of
\* their admission, each on the state it has read (session.ts, writer.ts).
THEOREM Refinement == Spec => CommitsAreSerial
<1>1. Init => Serial!SerialInit
  <2> SUFFICES ASSUME Init PROVE Serial!SerialInit
    OBVIOUS
  <2>1. CommitInv /\ Pend = {} /\ dropped = {} /\ memory = [k \in Keys |-> {}]
    BY CommitInitially DEF Init, Pend, Rest, Parts, Idle
  <2>2. Pending = <<>>
    BY <2>1, NothingPending DEF NonePending
  <2> QED
    BY <2>1, <2>2 DEF Serial!SerialInit, Pending
<1>2. CommitInv /\ [Next]_vars => [Serial!SerialNext]_(Serial!serialVars)
  <2> SUFFICES ASSUME CommitInv, [Next]_vars PROVE [Serial!SerialNext]_(Serial!serialVars)
    OBVIOUS
  <2>0. CommitInv'
    BY CommitInductive
  <2>1. CASE \/ Enqueue \/ Start \/ Touch \/ GateOpens \/ CallbackThrows \/ ReadFails
             \/ FailsOffLine \/ Close \/ CloseDrains \/ CloseEnds
             \/ (\E j \in 1..MaxJobs : Deliver(j)) \/ UNCHANGED vars
    BY <2>1, LineSteps, SameSteps
  <2>2. CASE Admit \/ CloseStores
    BY <2>0, <2>2, SettlementKeeps, CloseStoresKeeps, AdmittingSteps, SameSteps
  <2>3. CASE StoreNext \/ CommitResolves \/ CommitRefuses \/ CommitRejects
    BY <2>0, <2>3, StorageKeeps, GivingSteps, SameSteps
  <2>4. CASE StopUnreceived \/ StopFailed \/ AdoptionThrows \/ StopAfter
    BY <2>0, <2>4, StopsKeep, GivingSteps
  <2>5. CASE FinishCall
    BY <2>0, <2>5, StopsKeep, GivingSteps, NextCallSteps
  <2>6. ASSUME NEW throws \in BOOLEAN, Publish(throws) PROVE Serial!SerialNext
    BY <2>0, <2>6, PublishSteps
  <2>7. CASE SettlePart
    BY <2>7, SettlePartKeeps, SameSteps
  <2> QED
    BY <2>1, <2>2, <2>3, <2>4, <2>5, <2>6, <2>7 DEF Next, Progress
<1> QED
  BY <1>1, <1>2, CommitInvariance, PTL DEF CommitsAreSerial, Serial!SerialSpec, Spec
=============================================================================
