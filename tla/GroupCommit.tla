----------------------------- MODULE GroupCommit ----------------------------
(***************************************************************************)
(* A durable Session's mutation line and its writer                         *)
(* (durable/src/session/session.ts, writer.ts).  Jobs run one at a time on  *)
(* the line: a job reads, waiting at the gate of an unpublished writer of   *)
(* the key, and admits its writes as a part.  The writer stores the parts   *)
(* admitted meanwhile in one storage call, off the line, and publishes them *)
(* one by one.  Outcomes are delivered in line order.                       *)
(*                                                                         *)
(* A job reads at most one key and writes at most one; the value of a key   *)
(* is the set of jobs that wrote it.  A part is named by its job's index.   *)
(***************************************************************************)
EXTENDS Naturals, Sequences, FiniteSets

CONSTANTS Keys, None,
          MaxJobs,         \* bound: jobs put on the line
          MaxOutstanding   \* MAX_OUTSTANDING

Outcomes == {"ok", "own", "failed"}
Verdicts == {"stored", "refused", "rejected"}

ASSUME Bounds == MaxJobs \in Nat \ {0} /\ MaxOutstanding \in Nat \ {0}
ASSUME NoneIsNothing ==
  None \notin Keys \cup Nat \cup Outcomes \cup Verdicts \cup [at : Nat, own : SUBSET Nat]

VARIABLES
  job,       \* the line, in order: what each job does and how far it is
  line,      \* the job that holds the line
  out,       \* a job's outcome, once settled: "ok", "own" error, "failed"
  told,      \* the outcome delivered to the caller
  queue,     \* parts admitted and not sent
  unpub,     \* per key, the newest unpublished part that writes it
  gates,     \* parts whose gate is open
  call,      \* the storage call in flight and its publication
  durable,   \* jobs whose writes Storage holds
  memory,    \* per key, the jobs whose writes are published
  holds,     \* published deferred jobs not yet given to a storage call
  dropped,   \* parts that will never be published
  failure,   \* None, or [at, own]
  delivered, \* the last fenced job delivered
  closing    \* "no", "sealed", "storing", "closed"

lineVars   == <<job, line, out, told, delivered>>
writerVars == <<queue, unpub, gates, call, dropped>>
dataVars   == <<durable, memory, holds>>
vars == <<lineVars, writerVars, dataVars, failure, closing>>

Indexes == 1..Len(job)
Failed  == failure # None
Idle == [phase |-> "idle", parts |-> <<>>, received |-> 0, verdict |-> None,
         at |-> 1, stop |-> FALSE, settle |-> FALSE]

Init ==
  /\ job = <<>> /\ line = None /\ out = <<>> /\ told = <<>> /\ delivered = 0
  /\ queue = <<>> /\ unpub = [k \in Keys |-> None] /\ gates = {} /\ call = Idle /\ dropped = {}
  /\ durable = {} /\ memory = [k \in Keys |-> {}] /\ holds = {}
  /\ failure = None /\ closing = "no"

-----------------------------------------------------------------------------
(* The writer's parts.                                                     *)

IsStored(p) == ~job[p].held
\* storedIndex: which batch of its call the part at i is, counted from 1.
StoredIndex(parts, i) == Cardinality({n \in 1..i : IsStored(parts[n])})
\* drained(): every part admitted so far has its gate open.
Drained == \A p \in Indexes : job[p].st = "parked" => p \in gates

\* Bug: a published part's keys leave although a newer part writes them.
UnregisteredAll(ps) == [k \in Keys |-> IF \E p \in ps : job[p].write = k THEN None ELSE unpub[k]]

\* #unregister, #open: the keys part p is the newest writer of leave.
Unregistered(ps) == [k \in Keys |-> IF unpub[k] \in ps THEN None ELSE unpub[k]]
Settled(ps, result) == [i \in DOMAIN out |-> IF i \in ps THEN result ELSE out[i]]
Parts(s) == {s[i] : i \in DOMAIN s}

\* fail: the first failure wins; it seals the Session.
Fail(at, own) ==
  /\ failure' = IF Failed THEN failure ELSE [at |-> at, own |-> own]
  /\ closing' = IF closing = "no" THEN "sealed" ELSE closing
\* fail without an index: the job on the line, or the last one delivered.
DefaultAt == IF line # None THEN line ELSE delivered

\* #pump and the start of #send: one call for everything queued; without a
\* stored part there is no call to make.
Sent(parts) == [Idle EXCEPT !.phase = IF \E p \in Parts(parts) : IsStored(p) THEN "storing"
                                      ELSE "publishing",
                            !.parts = parts]

-----------------------------------------------------------------------------
(* The line.                                                               *)

NewJob(st, taken) == [st |-> st, read |-> None, write |-> None, held |-> FALSE, exempt |-> FALSE,
                      got |-> {}, gate |-> None, hit |-> FALSE, taken |-> taken]

\* commitWith, readOnLine: a job joins the line.
Enqueue ==
  /\ Len(job) < MaxJobs /\ ~Failed /\ closing = "no"
  /\ job' = Append(job, NewJob("queued", {}))
  /\ out' = Append(out, None) /\ told' = Append(told, None)
  /\ UNCHANGED <<line, delivered, writerVars, dataVars, failure, closing>>

Outstanding == Cardinality({i \in Indexes : job[i].st \notin {"queued", "upkeep"} /\ told[i] = None})

\* What is left of a job that fails on the line: its transaction is discarded.
Discarded(x) == [NewJob("ended", {}) EXCEPT !.exempt = x.exempt, !.hit = x.hit]

\* The line part of job j ends without a part.
EndLine(j, result) ==
  /\ line' = None
  /\ job' = [job EXCEPT ![j] = IF result = "ok" THEN [@ EXCEPT !.st = "ended"] ELSE Discarded(@)]
  /\ out' = [out EXCEPT ![j] = result]
  /\ UNCHANGED <<told, delivered, writerVars, dataVars>>

\* #onLine, #runCommit: the next job takes the line.  What it will do is
\* settled here: the key it reads, the key it writes, whether the write is
\* deferred (a change of a document it reads), whether it is one of the
\* scheduler's own jobs that is exempt from the fences.
Start ==
  /\ line = None /\ Outstanding < MaxOutstanding
  /\ \E j \in Indexes :
       /\ job[j].st = "queued" /\ \A i \in 1..j-1 : job[i].st # "queued"
       /\ UNCHANGED <<failure, closing>>
       /\ \/ Failed /\ EndLine(j, "failed")
          \/ /\ ~Failed /\ line' = j
             /\ \E r, w \in Keys \cup {None}, held, exempt \in BOOLEAN :
                  /\ held => w # None /\ r = w
                  /\ exempt => w = None
                  /\ job' = [job EXCEPT ![j].st = "running", ![j].read = r, ![j].write = w,
                                        ![j].held = held, ![j].exempt = exempt]
             /\ UNCHANGED <<out, told, delivered, writerVars, dataVars>>

\* A read through the gated Storage: from the published state, or, when
\* nothing of the key is held in memory, from Storage itself.
ValueOf(k) == {memory[k]} \cup IF \E h \in holds : job[h].write = k THEN {}
                               ELSE {{i \in durable : job[i].write = k}}

\* The callback has read what it needs and returns: the Session is healthy.
Return(j) ==
  /\ IF job[j].read = None THEN job' = [job EXCEPT ![j].st = "settling"]
     ELSE \E v \in ValueOf(job[j].read) : job' = [job EXCEPT ![j].st = "settling", ![j].got = v]
  /\ UNCHANGED <<line, out, told, delivered, writerVars, dataVars, failure, closing>>

\* Bug: a read does not ask for its key's unpublished writer.
TouchUngated ==
  /\ line # None /\ job[line].st = "running" /\ ~Failed
  /\ Return(line)

\* touch: an unpublished writer of the key is waited for.
Touch ==
  /\ line # None /\ job[line].st = "running"
  /\ IF job[line].read # None /\ unpub[job[line].read] # None
     THEN /\ job' = [job EXCEPT ![line].st = "waiting", ![line].hit = TRUE,
                                ![line].gate = unpub[job[line].read]]
          /\ UNCHANGED <<line, out, told, delivered, writerVars, dataVars, failure, closing>>
     ELSE IF Failed THEN EndLine(line, "failed") /\ UNCHANGED <<failure, closing>>
          ELSE Return(line)

\* The gate opened: a failed Session ends the job.
GateOpens ==
  /\ line # None /\ job[line].st = "waiting" /\ job[line].gate \in gates
  /\ IF Failed THEN EndLine(line, "failed") /\ UNCHANGED <<failure, closing>> ELSE Return(line)

\* A throw of the callback, before or after what it read, a cancellation, a
\* refusal of the settlement: this job only.
CallbackThrows ==
  /\ line # None /\ job[line].st \in {"running", "settling"}
  /\ EndLine(line, "own") /\ UNCHANGED <<failure, closing>>

\* A backend read fails on the line: the Session fails with this job.
ReadFails ==
  /\ line # None /\ job[line].st = "running" /\ job[line].read # None /\ ~Failed
  /\ EndLine(line, "own")
  /\ Fail(line, {})

\* A backend read off the line fails, or the Harness fails the Session.
FailsOffLine ==
  /\ ~Failed
  /\ Fail(DefaultAt, {})
  /\ UNCHANGED <<lineVars, writerVars, dataVars>>

\* The held changes of what a stored commit reads or writes are stored with it.
Taken(j) == IF job[j].held THEN {}
            ELSE {h \in holds : job[h].write \in {job[j].read, job[j].write} \ {None}}

\* Logical admission of job j, which writes ks, as a part of the writer.  It
\* pumps at once when no call is in flight; a failed Session sends nothing.
AdmitPart(j, taken, ks) ==
  /\ holds' = holds \ taken
  /\ IF call.phase = "idle" /\ Failed
     THEN /\ gates' = gates \cup {j} /\ dropped' = dropped \cup {j}
          /\ out' = [out EXCEPT ![j] = "failed"]
          /\ UNCHANGED <<queue, call, unpub>>
     ELSE /\ unpub' = [k \in Keys |-> IF k \in ks THEN j ELSE unpub[k]]
          /\ IF call.phase = "idle" THEN call' = Sent(<<j>>) /\ queue' = queue
             ELSE call' = call /\ queue' = Append(queue, j)
          /\ UNCHANGED <<gates, dropped, out>>

\* Settlement succeeded: a job without writes is done, any other is admitted.
Admit ==
  /\ line # None /\ job[line].st = "settling"
  /\ UNCHANGED <<failure, closing>>
  /\ IF job[line].write = None THEN EndLine(line, "ok")
     ELSE /\ line' = None
          /\ job' = [job EXCEPT ![line].st = "parked", ![line].taken = Taken(line)]
          /\ AdmitPart(line, Taken(line), {job[line].write} \cup {job[h].write : h \in Taken(line)})
          /\ UNCHANGED <<told, delivered, durable, memory>>

-----------------------------------------------------------------------------
(* The storage call.                                                       *)

Batches == StoredIndex(call.parts, Len(call.parts))
\* The parts of the batches after the received ones, up to the n-th.
Sending(n) == {call.parts[i] : i \in {i \in DOMAIN call.parts :
                 IsStored(call.parts[i]) /\ StoredIndex(call.parts, i) \in call.received + 1..n}}
\* The jobs whose writes Storage holds once it took those batches too.
KeptUpTo(n) == durable \cup Sending(n) \cup UNION {job[p].taken : p \in Sending(n)}

\* The backend stores one more part, and hands out its receipt.
StoreNext ==
  /\ call.phase = "storing" /\ call.received < Batches
  /\ durable' = KeptUpTo(call.received + 1)
  /\ call' = [call EXCEPT !.received = @ + 1]
  /\ UNCHANGED <<lineVars, queue, unpub, gates, dropped, memory, holds, failure, closing>>

\* Bug: the call that settles on a failed Session forgets what is queued.
CallSettlesAlone(verdict) ==
  /\ IF Failed
     THEN LET ps == Parts(call.parts)
          IN /\ call' = Idle /\ queue' = <<>>
             /\ out' = Settled(ps, "failed")
             /\ gates' = gates \cup ps /\ dropped' = dropped \cup ps
             /\ unpub' = Unregistered(ps)
     ELSE /\ call' = [call EXCEPT !.phase = "publishing", !.verdict = verdict]
          /\ UNCHANGED <<queue, unpub, gates, dropped, out>>
  /\ UNCHANGED <<job, line, told, delivered, memory, holds, failure, closing>>

\* The call settles.  Once something else failed the Session, whatever it
\* returned is given up, and so is the queue.
CallSettles(verdict) ==
  /\ IF Failed
     THEN LET ps == Parts(call.parts) \cup Parts(queue)
          IN /\ call' = Idle /\ queue' = <<>>
             /\ out' = Settled(ps, "failed")
             /\ gates' = gates \cup ps /\ dropped' = dropped \cup ps
             /\ unpub' = Unregistered(ps)
     ELSE /\ call' = [call EXCEPT !.phase = "publishing", !.verdict = verdict]
          /\ UNCHANGED <<queue, unpub, gates, dropped, out>>
  /\ UNCHANGED <<job, line, told, delivered, memory, holds, failure, closing>>

CommitResolves ==
  /\ call.phase = "storing" /\ call.received = Batches
  /\ CallSettles("stored") /\ UNCHANGED durable

\* A batch is refused: the ones before it are stored and received.
CommitRefuses ==
  /\ call.phase = "storing" /\ call.received < Batches
  /\ CallSettles("refused") /\ UNCHANGED durable

\* The call rejects: it may have stored more than it gave receipts for.
CommitRejects ==
  /\ call.phase = "storing"
  /\ \E n \in call.received..Batches : durable' = KeptUpTo(n)
  /\ CallSettles("rejected")

-----------------------------------------------------------------------------
(* Publication, one part a step.                                           *)

Part == call.parts[call.at]
\* Bug: a call that settled counts as one that stored everything.
HasReceiptOfCall == call.verdict # "rejected" \/ call.received > 0

\* A deferred part needs none.
HasReceipt == IsStored(Part) => StoredIndex(call.parts, call.at) <= call.received
Publishing == call.phase = "publishing" /\ call.at <= Len(call.parts) /\ ~call.stop /\ ~call.settle
Done == {call.parts[i] : i \in 1..call.at - 1}
Rest == {call.parts[i] : i \in call.at..Len(call.parts)}
Rejected == call.verdict = "rejected"

\* The call stops: the Session fails at job j, unless it has already, with
\* own keeping the call's error; then those parts and the lost ones settle, and
\* what is queued is given up.  Nothing runs between the stop and its end.
StopCall(j, own, lost) ==
  LET ps == own \cup lost \cup Parts(queue)
  IN /\ Fail(j, own)
     /\ out' = [i \in DOMAIN out |-> IF i \in own THEN "own" ELSE IF i \in ps THEN "failed" ELSE out[i]]
     /\ gates' = gates \cup ps
     /\ unpub' = Unregistered(ps)
     /\ dropped' = dropped \cup {p \in ps : \A k \in Keys : p \notin memory[k]}
     /\ queue' = <<>> /\ call' = Idle
     /\ UNCHANGED <<job, line, told, delivered, dataVars>>

\* What a rejected call's parts get once part p stops it: the ones published
\* and the ones sent keep its error; a deferred one after p was never sent.
RejectedParts == IF Rejected THEN Done \cup {p \in Rest : IsStored(p)} ELSE {}
\* The failure's boundary: the first of a rejected call's parts is one of them.
Boundary == IF Rejected THEN call.parts[1] ELSE Part

\* Bug: a refused part fails alone, and the parts after it go on.
StopUnreceivedOnly ==
  /\ Publishing /\ ~HasReceipt
  /\ out' = Settled({Part}, "own") /\ gates' = gates \cup {Part}
  /\ unpub' = Unregistered({Part}) /\ dropped' = dropped \cup {Part}
  /\ call' = [call EXCEPT !.at = @ + 1]
  /\ UNCHANGED <<job, line, told, delivered, queue, dataVars, failure, closing>>

\* The part that was refused, or that a rejected call gave no receipt for.
StopUnreceived ==
  /\ Publishing /\ ~HasReceipt
  /\ LET own == {Part} \cup RejectedParts IN StopCall(Boundary, own, Rest \ own)

\* Something else failed the Session since: nothing more is published.
StopFailed ==
  /\ Publishing /\ HasReceipt /\ Failed
  /\ StopCall(Part, IF Rejected THEN Done ELSE {}, Rest)

\* Memory cannot adopt the part: it stays behind what is stored.
AdoptionThrows ==
  /\ Publishing /\ HasReceipt /\ ~Failed
  /\ LET own == {Part} \cup RejectedParts IN StopCall(Boundary, own, Rest \ own)

\* The part is published: its keys leave, memory adopts it, a deferred one is
\* held.  A part of a rejected call waits for the call's end.  With throws, one
\* of the Session's own observers throws, and the call stops after it.
Publish(throws) ==
  /\ Publishing /\ HasReceipt /\ ~Failed
  /\ unpub' = Unregistered({Part})
  /\ memory' = [k \in Keys |-> IF k = job[Part].write THEN memory[k] \cup {Part} ELSE memory[k]]
  /\ holds' = IF job[Part].held THEN holds \cup {Part} ELSE holds
  /\ call' = [call EXCEPT !.at = @ + 1, !.stop = throws /\ ~Rejected, !.settle = ~Rejected]
  /\ UNCHANGED <<lineVars, queue, gates, dropped, durable, failure, closing>>

\* Once the publication's scope is left, the part settles and its gate opens.  A
\* Session that failed meanwhile refuses it although it is published, unless
\* its own observer threw.
SettlePart ==
  /\ call.settle
  /\ LET p == call.parts[call.at - 1]
     IN /\ out' = Settled({p}, IF Failed /\ ~call.stop THEN "failed" ELSE "ok")
        /\ gates' = gates \cup {p}
  /\ call' = [call EXCEPT !.settle = FALSE]
  /\ UNCHANGED <<job, line, told, delivered, queue, unpub, dropped, dataVars, failure, closing>>

StopAfter ==
  /\ call.stop /\ ~call.settle
  /\ StopCall(call.parts[call.at - 1], {}, Rest)

\* Every part is published.  A rejected call fails the Session and its parts;
\* otherwise the queue is sent, unless the Session failed meanwhile.
FinishCall ==
  /\ call.phase = "publishing" /\ call.at > Len(call.parts) /\ ~call.stop /\ ~call.settle
  /\ IF Rejected \/ Failed
     THEN StopCall(call.parts[1], IF Rejected THEN Done ELSE {}, {})
     ELSE /\ queue' = <<>> /\ call' = IF queue = <<>> THEN Idle ELSE Sent(queue)
          /\ UNCHANGED <<lineVars, unpub, gates, dropped, dataVars, failure, closing>>

-----------------------------------------------------------------------------
(* Delivery and close.                                                     *)

Fenced(j) == ~job[j].exempt \/ job[j].hit \/ job[j].st = "parked"
\* #poisoned: after the failure's boundary without an outcome of its own.
Poisoned(j) == Failed /\ j > failure.at /\ j \notin failure.own

\* An outcome is delivered once the ones before it are; a job that wrote
\* nothing and waited at no gate, of the scheduler's own, at once.
Deliver(j) ==
  /\ j \in Indexes /\ job[j].st \in {"ended", "parked"} /\ out[j] # None /\ told[j] = None
  /\ Fenced(j) => \A i \in 1..j-1 : out[i] # None /\ (Fenced(i) => told[i] # None)
  /\ told' = [told EXCEPT ![j] = IF Poisoned(j) THEN "failed" ELSE out[j]]
  /\ delivered' = IF Fenced(j) THEN j ELSE delivered
  /\ UNCHANGED <<job, line, out, writerVars, dataVars, failure, closing>>

Close ==
  /\ closing = "no" /\ closing' = "sealed"
  /\ UNCHANGED <<lineVars, writerVars, dataVars, failure>>

\* Bug: what is held is looked at before the barrier.
CloseDrainsEarly ==
  /\ closing = "sealed" /\ line = None
  /\ \A j \in Indexes : job[j].st # "queued"
  /\ IF ~Failed /\ holds # {}
     THEN /\ closing' = "storing"
          /\ job' = Append(job, NewJob("upkeep", holds))
          /\ out' = Append(out, None) /\ told' = Append(told, None)
          /\ UNCHANGED <<line, delivered>>
     ELSE closing' = "closed" /\ UNCHANGED lineVars
  /\ UNCHANGED <<writerVars, dataVars, failure>>

\* The last job of the line: once everything admitted is published, what is
\* held is stored, and Storage closes.
CloseDrains ==
  /\ closing = "sealed" /\ line = None /\ Drained
  /\ \A j \in Indexes : job[j].st # "queued"
  /\ IF ~Failed /\ holds # {}
     THEN /\ closing' = "storing"
          /\ job' = Append(job, NewJob("upkeep", holds))
          /\ out' = Append(out, None) /\ told' = Append(told, None)
          /\ UNCHANGED <<line, delivered>>
     ELSE closing' = "closed" /\ UNCHANGED lineVars
  /\ UNCHANGED <<writerVars, dataVars, failure>>

\* #storeHolds: through the writer, as a part of no caller.
CloseStores ==
  /\ closing = "storing" /\ job[Len(job)].st = "upkeep"
  /\ job' = [job EXCEPT ![Len(job)].st = "stored"]
  /\ AdmitPart(Len(job), job[Len(job)].taken, {job[h].write : h \in job[Len(job)].taken})
  /\ UNCHANGED <<line, told, delivered, durable, memory, failure, closing>>

CloseEnds ==
  /\ closing = "storing" /\ job[Len(job)].st = "stored" /\ out[Len(job)] # None
  /\ closing' = "closed"
  /\ UNCHANGED <<lineVars, writerVars, dataVars, failure>>

\* What the event loop and a backend that answers bring about.
Progress ==
  \/ Start \/ Touch \/ GateOpens \/ Admit
  \/ StoreNext \/ CommitResolves \/ CommitRefuses \/ CommitRejects
  \/ StopUnreceived \/ StopFailed \/ StopAfter \/ Publish(FALSE) \/ SettlePart
  \/ FinishCall
  \/ \E j \in 1..MaxJobs : Deliver(j)
  \/ CloseDrains \/ CloseStores \/ CloseEnds

Next ==
  \/ Progress
  \/ Enqueue \/ CallbackThrows \/ ReadFails \/ FailsOffLine \/ Publish(TRUE) \/ AdoptionThrows
  \/ Close

Spec == Init /\ [][Next]_vars
FairSpec == Spec /\ WF_vars(Progress)

-----------------------------------------------------------------------------
Published == UNION {memory[k] : k \in Keys}
Callers == {j \in Indexes : job[j].st \notin {"upkeep", "stored"}}

\* "No callback observes unstored state" (docs/group-commit.md 2): a job that
\* was told it succeeded has read exactly what the published jobs before it
\* wrote, although it ran while their storage calls were in flight.
SerialReads ==
  \A j \in Callers : told[j] = "ok" /\ job[j].read # None =>
    job[j].got = {i \in memory[job[j].read] : i < j}

\* A deferred commit is still due: it is held, or the part that took it is on
\* its way; with a part that is given up it is lost.
Due(j)  == j \in holds \/ \E p \in Rest \cup Parts(queue) : j \in job[p].taken
Lost(j) == \E p \in dropped : j \in job[p].taken

\* "callers are never told something storage does not hold": a successful
\* commit is published and stored, or deferred and still due to be, unless the
\* failed Session gave up the commit that was to store it.
ToldIsStored ==
  \A j \in Callers : told[j] = "ok" /\ job[j].write # None =>
    /\ j \in Published
    /\ j \in durable \/ (job[j].held /\ (Due(j) \/ (Failed /\ Lost(j))))

\* "a stored prefix survives": what Storage holds of one line is never a later
\* commit without an earlier one, deferred commits aside, and nothing is
\* published past a commit that was given up.
SurvivorsArePrefix ==
  \A i, j \in Callers : i < j /\ ~job[i].held /\ job[i].st = "parked" =>
    /\ j \in durable /\ ~job[j].held => i \in durable
    /\ i \in dropped => j \notin Published

\* "Close: ... store remaining holds": a Session that closed without failing
\* has stored every deferred commit.
ClosedIsStored == closing = "closed" /\ ~Failed => Published \subseteq durable

\* "no outcome or gate is stranded" (writer.ts): whatever the backend refused,
\* rejected or lost, every job's caller gets its answer and a close that began
\* ends (jobs are bounded, so this is reached for good).
LineSettles == <>[](closing \in {"no", "closed"} /\ \A j \in Callers : told[j] # None)

\* The line and its writer implement serial commits: a part is pending from its
\* admission until memory adopts it or it is given up.
Admitted == SubSeq(call.parts, call.at, Len(call.parts)) \o queue
CommitOf(p) == [job |-> p, reads |-> job[p].read, got |-> job[p].got, key |-> job[p].write]
Serial == INSTANCE SerialCommits WITH
  pending <- [i \in 1..Len(Admitted) |-> CommitOf(Admitted[i])],
  stopped <- (dropped # {})

\* Whatever fails and however the parts are batched, the commits of a Session
\* take effect one at a time, in line order, each on the state it has read.
CommitsAreSerial == Serial!SerialSpec
=============================================================================
