--------------------------- MODULE GenerationQueue ---------------------------
(***************************************************************************)
(* The life of a generation: the Generation document, its QueueJob         *)
(* document, its BullMQ job, the worker that triggers the external API,    *)
(* the API's callbacks, and the requests of users and administrators that  *)
(* read and write the same documents.  Every await in the code ends a step *)
(* here, so whatever a handler read before an await may be stale when it   *)
(* writes after it.  A crash of the process loses everything in memory.    *)
(***************************************************************************)
EXTENDS BullQueue, FiniteSets

CONSTANTS
    TestGens,     \* generations created with ?mode=test
    Requests,     \* HTTP requests; each is used at most once (bounds them)
    Ops,          \* which requests this instance makes
    Concurrency,  \* config.queue.concurrency
    MongoFails,   \* may MongoDB, or the enqueue of a create, reject?  (TestFails needs no leave.)
    MaxUpdates,   \* bound on a job's event updates in flight: the next one waits
    MaxCrashes    \* bound on process crashes

AllOps == {"cancel", "remove", "queueCancel", "patch", "callback"}

ASSUME GenerationAssumption ==
    /\ TestGens \subseteq Gens
    /\ Ops \subseteq AllOps
    /\ Concurrency \in Nat \ {0}
    /\ MongoFails \in BOOLEAN
    /\ MaxUpdates \in Nat \ {0}
    /\ MaxCrashes \in Nat

VARIABLES
    gen,       \* Generation.status, or that there is no document
    creator,   \* where the create request of the generation is
    job,       \* QueueJob document: status and attempts
    events,    \* worker-event updates of the QueueJob still on their way to MongoDB
    worker,    \* where the processor invocation for the job is
    triggers,  \* external API: how often it accepted this record
    causes,    \* history: statuses something has justified
    told,      \* history: statuses emitted to the owner's socket room
    req,       \* requests in flight
    crashes

vars == <<gen, creator, job, bull, events, worker, triggers, causes, told, req, crashes>>

docs == <<gen, job, bull>>

GenerationStatus == {"pending", "processing", "completed", "failed", "cancelled"}
QueueJobStatus   == {"pending", "processing", "completed", "failed", "cancelled"}

\* "none" is before the insert, "deleted" after a delete: the code cannot tell them apart.
GenState == GenerationStatus \cup {"none", "deleted"}
Exists(g) == gen[g] \in GenerationStatus

NoJob == [status |-> "none", attempts |-> 0]
JobDoc == [status : QueueJobStatus \cup {"none"}, attempts : 0..MaxAttempts]
Event == [status : QueueJobStatus, attempts : 0..MaxAttempts]

CreatorPc == {"idle", "inserted", "stored", "added", "rollback",
              "returned", "threw", "rollbackFailed", "lost"}
WorkerPc == {"idle", "started", "marked", "found", "written", "refused", "returned", "raised"}
Stage == {"unused", "checked", "withdrawn", "found", "written", "ok", "ended"}

Request == [op : AllOps \cup {"none"}, gen : Gens \cup {"none"}, stage : Stage,
            withdrew : BOOLEAN, success : BOOLEAN]
NoRequest == [op |-> "none", gen |-> "none", stage |-> "unused",
              withdrew |-> FALSE, success |-> FALSE]

\* The invocations that occupy the worker.
HandlersNeverFreed == {g \in Gens : worker[g] # "idle" \/ bull[g].attemptsMade > 0}
Handlers == {g \in Gens : worker[g] # "idle"}

Init ==
    /\ BullInit
    /\ gen = [g \in Gens |-> "none"]
    /\ creator = [g \in Gens |-> "idle"]
    /\ job = [g \in Gens |-> NoJob]
    /\ events = [g \in Gens |-> {}]
    /\ worker = [g \in Gens |-> "idle"]
    /\ triggers = [g \in Gens |-> 0]
    /\ causes = [g \in Gens |-> {"pending"}]  \* its creation is reason enough
    /\ told = [g \in Gens |-> {}]
    /\ req = [r \in Requests |-> NoRequest]
    /\ crashes = 0

-----------------------------------------------------------------------------
(* Writes to the Generation document: findByIdAndUpdate without upsert.    *)

SetStatus(g, s) == gen' = IF Exists(g) THEN [gen EXCEPT ![g] = s] ELSE gen

(* Operators that no action uses are faulty variants of the one that follows them. *)
MarkProcessingUpserts(g) == gen' = [gen EXCEPT ![g] = "processing"]
MarkProcessingDrops(g) == UNCHANGED gen
MarkProcessing(g) == SetStatus(g, "processing")
MarkCompleted(g)  == SetStatus(g, "completed")
MarkFailed(g)     == SetStatus(g, "failed")

DeleteDoc(g) == gen' = IF Exists(g) THEN [gen EXCEPT ![g] = "deleted"] ELSE gen

Justify(g, s) == causes' = [causes EXCEPT ![g] = @ \cup {s}]

-----------------------------------------------------------------------------
(* GenerationService.create and QueueUtil.enqueue                          *)

CreateVars == <<events, worker, triggers, causes, told, req, crashes>>

CreatorTo(g, from, to) == creator[g] = from /\ creator' = [creator EXCEPT ![g] = to]

StoreJobDoc(g) == job' = [job EXCEPT ![g] = [status |-> "pending", attempts |-> 0]]

\* GenerationModel.create
Insert(g) ==
    /\ CreatorTo(g, "idle", "inserted")
    /\ gen' = [gen EXCEPT ![g] = "pending"]
    /\ UNCHANGED <<job, bull, CreateVars>>

\* QueueJobModel.create
StoreQueueJob(g) ==
    /\ CreatorTo(g, "inserted", "stored")
    /\ StoreJobDoc(g)
    /\ UNCHANGED <<gen, bull, CreateVars>>

AddToQueue(g) ==
    /\ CreatorTo(g, "stored", "added")
    /\ Add(g)
    /\ UNCHANGED <<gen, job, CreateVars>>

\* findByIdAndUpdate(doc._id, { queueJobId }), which finds nothing to update if the
\* document has gone, and create returns.
LinkQueueJob(g) ==
    /\ CreatorTo(g, "added", "returned")
    /\ UNCHANGED <<docs, CreateVars>>

\* Any of the three awaits rejects, and the write it waited for may have happened.
EnqueueFails(g) ==
    /\ MongoFails
    /\ \/ CreatorTo(g, "inserted", "rollback") /\ (StoreJobDoc(g) \/ UNCHANGED job)
                                               /\ UNCHANGED bull
       \/ CreatorTo(g, "stored", "rollback") /\ (Add(g) \/ UNCHANGED bull) /\ UNCHANGED job
       \/ CreatorTo(g, "added", "rollback") /\ UNCHANGED <<job, bull>>
    /\ UNCHANGED <<gen, CreateVars>>

RollBackForgets(g) ==
    /\ CreatorTo(g, "rollback", "threw")
    /\ UNCHANGED <<docs, CreateVars>>

\* catch (err) { await findByIdAndDelete(doc._id); throw err; }
RollBack(g) ==
    /\ CreatorTo(g, "rollback", "threw")
    /\ DeleteDoc(g)
    /\ UNCHANGED <<job, bull, CreateVars>>

\* The delete itself rejects and has deleted nothing: create throws its error instead, and the
\* document stays.  (If only the answer was lost, all is as after RollBack.)
RollBackFails(g) ==
    /\ MongoFails
    /\ CreatorTo(g, "rollback", "rollbackFailed")
    /\ UNCHANGED <<docs, CreateVars>>

Create(g) ==
    \/ Insert(g) \/ StoreQueueJob(g) \/ AddToQueue(g) \/ LinkQueueJob(g)
    \/ EnqueueFails(g) \/ RollBack(g) \/ RollBackFails(g)

-----------------------------------------------------------------------------
(* BullWorker, processQueueJob and handleGenerationJob                     *)

WorkVars == <<creator, job, req, crashes>>

WorkerTo(g, from, to) == worker[g] = from /\ worker' = [worker EXCEPT ![g] = to]

\* A worker event starts an update of the QueueJob that nothing waits for.
Notify(g, s, n) ==
    /\ Cardinality(events[g]) < MaxUpdates
    /\ events' = [events EXCEPT ![g] = @ \cup {[status |-> s, attempts |-> n]}]

PickUp(g) ==
    /\ Cardinality(Handlers) < Concurrency
    /\ WorkerTo(g, "idle", "started")
    /\ Activate(g)
    /\ Notify(g, "processing", bull[g].attemptsMade)
    /\ Justify(g, "processing")
    /\ UNCHANGED <<gen, triggers, told, WorkVars>>

StartHandling(g) ==
    /\ WorkerTo(g, "started", "marked")
    /\ MarkProcessing(g)
    /\ UNCHANGED <<bull, events, triggers, causes, told, WorkVars>>

\* markProcessing is outside the try: its rejection fails the attempt with no markFailed.
MarkProcessingFails(g) ==
    /\ MongoFails
    /\ WorkerTo(g, "started", "raised")
    /\ MarkProcessing(g) \/ UNCHANGED gen
    /\ UNCHANGED <<bull, events, triggers, causes, told, WorkVars>>

Accept(g) == triggers' = [triggers EXCEPT ![g] = @ + 1]

\* A plausible bug: an accepted trigger taken for a finished generation.
TriggerAcceptedCompletes(g) ==
    /\ g \notin TestGens
    /\ WorkerTo(g, "marked", "returned")
    /\ Accept(g)
    /\ MarkCompleted(g)
    /\ UNCHANGED <<bull, events, causes, told, WorkVars>>

TriggerAccepted(g) ==
    /\ g \notin TestGens
    /\ WorkerTo(g, "marked", "returned")
    /\ Accept(g)
    /\ UNCHANGED <<gen, bull, events, causes, told, WorkVars>>

\* fetch rejects or the answer is not 2xx; the API may have accepted the record even so.
TriggerFails(g) ==
    /\ g \notin TestGens
    /\ WorkerTo(g, "marked", "refused")
    /\ Accept(g) \/ UNCHANGED triggers
    /\ Justify(g, "failed")
    /\ UNCHANGED <<gen, bull, events, told, WorkVars>>

RecordRefusalSwallows(g) ==
    /\ WorkerTo(g, "refused", "returned")
    /\ MarkFailed(g)
    /\ UNCHANGED <<bull, events, triggers, causes, told, WorkVars>>

\* A retry of the processor's own on top of BullMQ's.
RecordRefusalTriesAgain(g) ==
    /\ WorkerTo(g, "refused", "marked")
    /\ MarkFailed(g)
    /\ UNCHANGED <<bull, events, triggers, causes, told, WorkVars>>

\* catch (err) { await markFailed(recordId, msg); throw err; }
RecordRefusal(g) ==
    /\ WorkerTo(g, "refused", "raised")
    /\ MarkFailed(g) \/ (MongoFails /\ UNCHANGED gen)
    /\ UNCHANGED <<bull, events, triggers, causes, told, WorkVars>>

\* Test mode runs handleCallback in the processor: 404 if the document has gone.
TestLookup(g) ==
    /\ g \in TestGens
    /\ WorkerTo(g, "marked", IF Exists(g) THEN "found" ELSE "raised")
    /\ causes' = IF Exists(g) THEN [causes EXCEPT ![g] = @ \cup {"completed"}] ELSE causes
    /\ UNCHANGED <<gen, bull, events, triggers, told, WorkVars>>

TestComplete(g) ==
    /\ WorkerTo(g, "found", "written")
    /\ MarkCompleted(g)
    /\ UNCHANGED <<bull, events, triggers, causes, told, WorkVars>>

\* findById or markCompleted rejects, the latter with or without having written: nothing in
\* the processor catches it, so the attempt fails, as one that triggers the API may: it is what
\* makes a test generation retry, with MongoFails or without.
TestFails(g) ==
    /\ g \in TestGens
    /\ \/ WorkerTo(g, "marked", "raised") /\ UNCHANGED gen
       \/ WorkerTo(g, "found", "raised") /\ (MarkCompleted(g) \/ UNCHANGED gen)
    /\ UNCHANGED <<bull, events, triggers, causes, told, WorkVars>>

Emit(g, s) == told' = [told EXCEPT ![g] = @ \cup {s}]

TestEmit(g) ==
    /\ WorkerTo(g, "written", "returned")
    /\ Emit(g, "completed")
    /\ UNCHANGED <<gen, bull, events, triggers, causes, WorkVars>>

AttemptSucceeds(g) ==
    /\ WorkerTo(g, "returned", "idle")
    /\ Complete(g)
    /\ Notify(g, "completed", bull'[g].attemptsMade)
    /\ UNCHANGED <<gen, triggers, causes, told, WorkVars>>

\* The "failed" event fires for every failed attempt, not only for the last.
AttemptFails(g) ==
    /\ WorkerTo(g, "raised", "idle")
    /\ FailAttempt(g)
    /\ Notify(g, "failed", bull'[g].attemptsMade)
    /\ UNCHANGED <<gen, triggers, causes, told, WorkVars>>

Backoff(g) ==
    /\ EndBackoff(g)
    /\ UNCHANGED <<gen, events, worker, triggers, causes, told, WorkVars>>

Stall(g) ==
    /\ worker[g] = "idle"
    /\ \/ RequeueStalled(g) /\ UNCHANGED events
       \/ FailStalled(g) /\ Notify(g, "failed", bull[g].attemptsMade)
    /\ UNCHANGED <<gen, worker, triggers, causes, told, WorkVars>>

Work(g) ==
    \/ PickUp(g) \/ StartHandling(g) \/ MarkProcessingFails(g)
    \/ TriggerAccepted(g) \/ TriggerFails(g) \/ RecordRefusal(g)
    \/ TestLookup(g) \/ TestComplete(g) \/ TestFails(g) \/ TestEmit(g)
    \/ AttemptSucceeds(g) \/ AttemptFails(g) \/ Backoff(g) \/ Stall(g)

-----------------------------------------------------------------------------
(* BullWorker's event listeners: findOneAndUpdate({ recordId }) calls that *)
(* race each other; a failed event also records the attempts made.         *)

EventVars == <<gen, creator, bull, worker, triggers, causes, told, req, crashes>>

Recorded(doc, e) ==
    [status |-> e.status,
     attempts |-> IF e.status = "failed" THEN e.attempts ELSE doc.attempts]

ApplyEvent(g) ==
    /\ \E e \in events[g] :
        /\ events' = [events EXCEPT ![g] = @ \ {e}]
        /\ job' = [job EXCEPT ![g] = Recorded(@, e)]
    /\ UNCHANGED EventVars

\* .catch(err => log.error(...))
EventLost(g) ==
    /\ MongoFails
    /\ \E e \in events[g] : events' = [events EXCEPT ![g] = @ \ {e}]
    /\ UNCHANGED <<job, EventVars>>

-----------------------------------------------------------------------------
(* Requests.  "ok" is the success of a cancel that withdrew a job.         *)
(* Whether anything else is answered, or refused, or cut off by a crash    *)
(* makes no difference to the rest of the system: it is "ended", and       *)
(* forgotten.                                                              *)

ReqVars == <<creator, events, worker, triggers, crashes>>

Ended == [NoRequest EXCEPT !.stage = "ended"]

Open(r, op, g, stage, success) ==
    /\ op \in Ops
    /\ req[r].stage = "unused"
    /\ req' = [req EXCEPT ![r] = IF stage = "ended" THEN Ended
                                 ELSE [op |-> op, gen |-> g, stage |-> stage,
                                       withdrew |-> FALSE, success |-> success]]

InFlight(r) == req[r].stage \in {"checked", "withdrawn", "found", "written"}

At(r, op, stage) == req[r].op = op /\ req[r].stage = stage

Answer(r, stage) ==
    req' = [req EXCEPT ![r] = IF stage = "ended" THEN Ended ELSE [@ EXCEPT !.stage = stage]]

\* GenerationService.cancel: 404, 403 and 409 before anything is written.
CancelCheck(r, g) ==
    /\ \E mayAct \in BOOLEAN :
        LET pass == mayAct /\ gen[g] = "pending" IN
        /\ Open(r, "cancel", g, IF pass THEN "checked" ELSE "ended", FALSE)
        /\ IF pass THEN Justify(g, "cancelled") ELSE UNCHANGED causes
    /\ UNCHANGED <<docs, told, ReqVars>>

Withdrawn(r, g) == [op |-> req[r].op, gen |-> g, stage |-> "withdrawn",
                    withdrew |-> InQueue(g), success |-> FALSE]

CancelWithdrawSwallows(r) ==
    LET g == req[r].gen IN
    /\ At(r, "cancel", "checked")
    /\ req' = [req EXCEPT ![r] = Withdrawn(r, g)]
    /\ IF RemoveThrows(g) THEN UNCHANGED bull ELSE Discard(g)
    /\ UNCHANGED <<gen, job, causes, told, ReqVars>>

\* await QueueUtil.remove(...): an active job makes it throw, and cancel answers 500.
CancelWithdraw(r) ==
    LET g == req[r].gen IN
    /\ At(r, "cancel", "checked")
    /\ IF RemoveThrows(g)
       THEN Answer(r, "ended") /\ UNCHANGED bull
       ELSE req' = [req EXCEPT ![r] = Withdrawn(r, g)] /\ Discard(g)
    /\ UNCHANGED <<gen, job, causes, told, ReqVars>>

\* doc.save() writes the one modified path, whatever the status has become, and throws
\* if the document is gone.
CancelSave(r) ==
    LET g == req[r].gen IN
    /\ At(r, "cancel", "withdrawn")
    /\ Answer(r, IF Exists(g) /\ req[r].withdrew THEN "ok" ELSE "ended")
    /\ SetStatus(g, "cancelled")
    /\ UNCHANGED <<job, bull, causes, told, ReqVars>>

\* GenerationService.remove: the document is read, its files are deleted, then it is.
RemoveCheck(r, g) ==
    /\ \E mayAct \in BOOLEAN :
        Open(r, "remove", g, IF mayAct /\ Exists(g) THEN "checked" ELSE "ended", FALSE)
    /\ UNCHANGED <<docs, causes, told, ReqVars>>

RemoveDelete(r) ==
    /\ At(r, "remove", "checked")
    /\ Answer(r, "ended")
    /\ DeleteDoc(req[r].gen)
    /\ UNCHANGED <<job, bull, causes, told, ReqVars>>

\* QueueService.cancel: only the QueueJob document is looked at.
QueueCancelCheck(r, g) ==
    /\ Open(r, "queueCancel", g,
            IF job[g].status \in {"pending", "failed"} THEN "checked" ELSE "ended", FALSE)
    /\ UNCHANGED <<docs, causes, told, ReqVars>>

\* await QueueUtil.remove(...).catch(() => {})
QueueCancelWithdraw(r) ==
    LET g == req[r].gen IN
    /\ At(r, "queueCancel", "checked")
    /\ IF RemoveThrows(g)
       THEN /\ req' = [req EXCEPT ![r].stage = "withdrawn", ![r].withdrew = FALSE]
            /\ UNCHANGED bull
       ELSE req' = [req EXCEPT ![r] = Withdrawn(r, g)] /\ Discard(g)
    /\ UNCHANGED <<gen, job, causes, told, ReqVars>>

QueueCancelSave(r) ==
    /\ At(r, "queueCancel", "withdrawn")
    /\ Answer(r, IF req[r].withdrew THEN "ok" ELSE "ended")
    /\ job' = [job EXCEPT ![req[r].gen].status = "cancelled"]
    /\ UNCHANGED <<gen, bull, causes, told, ReqVars>>

\* GenerationService.update: an administrator may set any status.
Patch(r, g) ==
    /\ \E s \in GenerationStatus :
        /\ Open(r, "patch", g, "ended", FALSE)
        /\ SetStatus(g, s)
        /\ IF Exists(g) THEN Justify(g, s) ELSE UNCHANGED causes
    /\ UNCHANGED <<job, bull, told, ReqVars>>

Verdict(success) == IF success THEN "completed" ELSE "failed"

\* handleCallback.  The external API calls back only about what it accepted, but it may
\* do so more than once, late, and with different verdicts.
CallbackFind(r, g) ==
    /\ triggers[g] > 0
    /\ \E success \in BOOLEAN :
        /\ Open(r, "callback", g, IF Exists(g) THEN "found" ELSE "ended", success)
        /\ Justify(g, Verdict(success))
    /\ UNCHANGED <<docs, told, ReqVars>>

CallbackWriteSwapped(r) ==
    LET g == req[r].gen IN
    /\ At(r, "callback", "found")
    /\ Answer(r, "written")
    /\ IF req[r].success THEN MarkFailed(g) ELSE MarkCompleted(g)
    /\ UNCHANGED <<job, bull, causes, told, ReqVars>>

CallbackWrite(r) ==
    LET g == req[r].gen IN
    /\ At(r, "callback", "found")
    /\ Answer(r, "written")
    /\ IF req[r].success THEN MarkCompleted(g) ELSE MarkFailed(g)
    /\ UNCHANGED <<job, bull, causes, told, ReqVars>>

CallbackEmitAlwaysCompleted(r) ==
    /\ At(r, "callback", "written")
    /\ Answer(r, "ended")
    /\ Emit(req[r].gen, "completed")
    /\ UNCHANGED <<docs, causes, ReqVars>>

\* emitToUser, after the await that resolves the presigned URL.
CallbackEmit(r) ==
    /\ At(r, "callback", "written")
    /\ Answer(r, "ended")
    /\ Emit(req[r].gen, Verdict(req[r].success))
    /\ UNCHANGED <<docs, causes, ReqVars>>

\* Any await of a request in flight rejects: it answers 500, and what it wrote stays.
RequestFails(r) ==
    /\ MongoFails
    /\ InFlight(r)
    /\ Answer(r, "ended")
    /\ UNCHANGED <<docs, causes, told, ReqVars>>

Receive(r) ==
    \E g \in Gens :
        \/ CancelCheck(r, g) \/ RemoveCheck(r, g) \/ QueueCancelCheck(r, g)
        \/ Patch(r, g) \/ CallbackFind(r, g)

Continue(r) ==
    \/ CancelWithdraw(r) \/ CancelSave(r) \/ RemoveDelete(r)
    \/ QueueCancelWithdraw(r) \/ QueueCancelSave(r)
    \/ CallbackWrite(r) \/ CallbackEmit(r) \/ RequestFails(r)

-----------------------------------------------------------------------------
(* The process dies, or shuts down: shutdown() never stops the BullWorker. *)

Creating(g) == creator[g] \in {"inserted", "stored", "added", "rollback"}

Crash ==
    /\ crashes < MaxCrashes
    /\ crashes' = crashes + 1
    /\ creator' = [g \in Gens |-> IF Creating(g) THEN "lost" ELSE creator[g]]
    /\ worker' = [g \in Gens |-> "idle"]
    /\ events' = [g \in Gens |-> {}]
    /\ req' = [r \in Requests |-> IF InFlight(r) THEN Ended ELSE req[r]]
    /\ UNCHANGED <<docs, triggers, causes, told>>

Next ==
    \/ \E g \in Gens : Create(g) \/ Work(g) \/ ApplyEvent(g) \/ EventLost(g)
    \/ \E r \in Requests : Receive(r) \/ Continue(r)
    \/ Crash

Spec == Init /\ [][Next]_vars

(***************************************************************************)
(* What goes on by itself: an awaited call settles, BullMQ hands out jobs, *)
(* a backoff or a lock expires.  Users, the external API's callbacks and   *)
(* crashes are under no obligation.                                        *)
(***************************************************************************)
Fairness ==
    /\ \A g \in Gens : WF_vars(Create(g)) /\ WF_vars(Work(g)) /\ WF_vars(ApplyEvent(g))
    /\ \A r \in Requests : WF_vars(Continue(r))

FairSpec == Spec /\ Fairness

-----------------------------------------------------------------------------
(* Properties                                                              *)

\* Every variable has its type; attempts, stalls and the recorded statuses stay in range.
TypeOK ==
    /\ gen \in [Gens -> GenState]
    /\ creator \in [Gens -> CreatorPc]
    /\ job \in [Gens -> JobDoc]
    /\ bull \in [Gens -> BullJob]
    /\ events \in [Gens -> SUBSET Event]
    /\ worker \in [Gens -> WorkerPc]
    /\ triggers \in [Gens -> Nat]
    /\ causes \in [Gens -> SUBSET GenerationStatus]
    /\ told \in [Gens -> SUBSET GenerationStatus]
    /\ req \in [Requests -> Request]
    /\ crashes \in 0..MaxCrashes

\* A deleted generation never comes back: no worker step, late callback or half-finished
\* cancel that still holds its id writes a document again (no update upserts).
DeletedForGood == [][\A g \in Gens : gen[g] = "deleted" => gen'[g] = "deleted"]_vars

\* When create throws after a failed enqueue and the delete of its catch was answered, the user
\* has no generation, then or later, although its job may be live in BullMQ and the worker may
\* already have written to it.  Create also throws when that delete is rejected ("rollbackFailed"):
\* then the document may stay.
FailedCreateLeavesNothing == \A g \in Gens : creator[g] = "threw" => gen[g] = "deleted"

\* A generation never shows a status nothing justified: completed only after a success
\* report (or test mode), failed only after a refused trigger or a failure report,
\* processing only after a pickup, cancelled only after a cancel that saw it pending;
\* or an administrator set it.
StatusHasCause ==
    \A g \in Gens : gen[g] \in GenerationStatus \ {"pending"} => gen[g] \in causes[g]

Cancels == {"cancel", "queueCancel"}

\* A cancel, of the generation or of its QueueJob, that took the job out of the queue and went
\* on to answer has really stopped it: the job is gone for good and no handler is running it.
CancelStopsTheJob ==
    \A r \in Requests :
        req[r].op \in Cancels /\ req[r].stage \in {"withdrawn", "ok"} /\ req[r].withdrew =>
            bull[req[r].gen].state = "removed" /\ worker[req[r].gen] = "idle"

\* However attempts, lost answers, crashes and stalls mix, the external API accepts a
\* record at most once per attempt and once per stall.
TriggerBudget == \A g \in Gens : triggers[g] <= MaxAttempts + MaxStalls

\* A QueueJob reads completed only if the external API accepted the record at least once:
\* a processor that gave up on a refusal is never recorded as a success.
QueueJobCompletedMeansAccepted ==
    \A g \in Gens : job[g].status = "completed" => triggers[g] > 0 \/ g \in TestGens

\* The owner's browser is told nothing that was not reported about that generation.
OwnerIsToldTheVerdict == \A g \in Gens : told[g] \subseteq causes[g]

Promise == INSTANCE GenerationPromise WITH
    Status   <- GenerationStatus,
    Budget   <- MaxAttempts + MaxStalls,
    doc      <- gen,
    evidence <- causes,
    runs     <- triggers,
    stopped  <- [g \in Gens |-> bull[g].state = "removed"]

\* All of this together is the promise of GenerationPromise: queue, worker, callbacks,
\* requests and crashes implement it step by step.
ImplementsPromise == Promise!Spec

\* BullMQ's queue drains: through retries, backoffs, a full worker and crashes, every job leaves
\* it for good.
JobsDrain ==
    <>[](\A g \in Gens : bull[g].state \notin {"waiting", "delayed", "active"})

\* In the end no generation is pending, unless a crash cut its creation off before the job was
\* in the queue, or BullMQ gave the job up because it stalled too often (no write fails and
\* nobody cancels).
PendingResolves ==
    <>[](\A g \in Gens : gen[g] = "pending" =>
            \/ creator[g] = "lost" /\ bull[g].state = "none"
            \/ bull[g].state = "failed" /\ bull[g].stalls = MaxStalls)

-----------------------------------------------------------------------------
(* What the documents say and the code does not do: README.md shows, for   *)
(* each, how to see it fail.                                               *)

\* Generation/service.ts, above create: if enqueue fails the DB record is rolled back.  (Not when
\* the delete that rolls it back is rejected too.)
FailedCreateIsRolledBack ==
    \A g \in Gens : creator[g] \in {"threw", "rollbackFailed"} => gen[g] = "deleted"

\* docs/features/generation.md, business rule 1: pending, processing, then completed or
\* failed; cancelled from pending only.
StatusFlow ==
    [][\A g \in Gens :
        gen[g] # gen'[g] /\ {gen[g], gen'[g]} \subseteq GenerationStatus =>
            <<gen[g], gen'[g]>> \in {<<"pending", "processing">>, <<"pending", "cancelled">>,
                                     <<"processing", "completed">>,
                                     <<"processing", "failed">>}]_vars

\* docs/architecture/generation-flow.md: a job can only be cancelled while it is pending.
CancelledFromPending ==
    [][\A g \in Gens : gen[g] # "cancelled" /\ gen'[g] = "cancelled" => gen[g] = "pending"]_vars

\* docs/features/queue.md: failed means that all retries are exhausted.
QueueJobFailedMeansExhausted ==
    \A g \in Gens : job[g].status = "failed" => bull[g].state = "failed"

\* docs/features/queue.md: cancelled means cancelled before processing.
QueueJobCancelledMeansNotProcessed ==
    \A g \in Gens : job[g].status = "cancelled" => triggers[g] = 0

\* docs/architecture/generation-flow.md: pending means that the job is queued and no
\* worker has picked it up yet.
PendingMeansQueued ==
    \A g \in Gens : creator[g] = "returned" /\ gen[g] = "pending" => InQueue(g)

-----------------------------------------------------------------------------
(* The inductive invariant behind the properties above, in parts.          *)

\* Before create has inserted the document there is nothing anywhere for its id.
NothingBeforeCreate ==
    \A g \in Gens :
        /\ creator[g] = "idle" <=> gen[g] = "none"
        /\ creator[g] = "idle" => bull[g].state = "none" /\ triggers[g] = 0

\* A handler runs only for the active job, and holds the justification of its next write.
HandlerHoldsTheJob ==
    \A g \in Gens :
        /\ worker[g] # "idle" => bull[g].state = "active"
        /\ worker[g] = "started" => "processing" \in causes[g]
        /\ worker[g] = "refused" => "failed" \in causes[g]
        /\ worker[g] \in {"found", "written"} => "completed" \in causes[g]

\* Only an accepted record, or test mode, leads to a "completed" event.
CompletionFollowsAcceptance ==
    \A g \in Gens :
        \/ triggers[g] > 0 \/ g \in TestGens
        \/ /\ worker[g] \notin {"found", "written", "returned"}
           /\ \A e \in events[g] : e.status # "completed"
           /\ job[g].status # "completed"

\* A request in flight holds the justification of the write it is about to make.
RequestHoldsItsCause ==
    \A r \in Requests :
        /\ req[r].op # "none" => req[r].gen \in Gens
        /\ req[r].op = "cancel" /\ req[r].stage \in {"checked", "withdrawn"} =>
               "cancelled" \in causes[req[r].gen]
        /\ req[r].op = "callback" /\ req[r].stage \in {"found", "written"} =>
               Verdict(req[r].success) \in causes[req[r].gen]

\* Triggers are paid for by attempts and stalls; the current attempt may owe one.
TriggersArePaidFor ==
    \A g \in Gens :
        LET spent == bull[g].attemptsMade + bull[g].stalls IN
        /\ bull[g].state \in {"none", "waiting", "delayed", "active"} =>
               bull[g].attemptsMade < MaxAttempts
        /\ bull[g].state \in {"none", "waiting", "delayed"} => triggers[g] <= spent
        /\ worker[g] \in {"started", "marked"} => triggers[g] <= spent
        /\ bull[g].state = "active" => triggers[g] <= spent + 1

\* Everything the safety theorems need, closed under every step of Next.
IInv ==
    /\ TypeOK
    /\ NothingBeforeCreate
    /\ FailedCreateLeavesNothing
    /\ HandlerHoldsTheJob
    /\ CompletionFollowsAcceptance
    /\ RequestHoldsItsCause
    /\ StatusHasCause
    /\ OwnerIsToldTheVerdict
    /\ CancelStopsTheJob
    /\ TriggersArePaidFor
    /\ TriggerBudget
=============================================================================
