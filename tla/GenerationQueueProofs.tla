------------------------ MODULE GenerationQueueProofs ------------------------
(***************************************************************************)
(* Proofs about GenerationQueue, for every set of generations, test        *)
(* generations and requests and every bound.                               *)
(***************************************************************************)
EXTENDS GenerationQueue, TLAPS

USE QueueAssumption, GenerationAssumption

-----------------------------------------------------------------------------
(* The operations the actions are built from keep their variable's type.   *)

\* A Generation document's status stays a status through every write.
LEMMA DocTypes ==
    ASSUME NEW g \in Gens, gen \in [Gens -> GenState]
    PROVE  /\ \A s \in GenerationStatus : SetStatus(g, s) => gen' \in [Gens -> GenState]
           /\ MarkProcessing(g) \/ MarkCompleted(g) \/ MarkFailed(g) \/ DeleteDoc(g)
                => gen' \in [Gens -> GenState]
BY DEF SetStatus, MarkProcessing, MarkCompleted, MarkFailed, DeleteDoc, GenState,
   GenerationStatus

\* BullMQ's operations keep its jobs well formed while attempts remain.
LEMMA BullTypes ==
    ASSUME NEW g \in Gens, bull \in [Gens -> BullJob]
    PROVE  /\ Add(g) \/ Activate(g) \/ EndBackoff(g) \/ RequeueStalled(g) \/ FailStalled(g)
                \/ Discard(g) => bull' \in [Gens -> BullJob]
           /\ bull[g].attemptsMade < MaxAttempts /\ (Complete(g) \/ FailAttempt(g))
                => bull' \in [Gens -> BullJob]
BY DEF BullJob, BullState, MoveTo, Add, Activate, EndBackoff, FailStalled, Discard, Complete,
   FailAttempt, RequeueStalled

\* A worker event is well typed when the attempts it reports are in range.
LEMMA EventTypes ==
    ASSUME NEW g \in Gens, events \in [Gens -> SUBSET Event],
           NEW s \in QueueJobStatus, NEW n \in 0..MaxAttempts, Notify(g, s, n)
    PROVE  events' \in [Gens -> SUBSET Event]
BY DEF Notify, Event

\* What has ended is no request of anybody's.
LEMMA EndedIsOver ==
    /\ Ended \in Request
    /\ Ended.op = "none" /\ Ended.stage = "ended" /\ Ended.withdrew = FALSE
BY DEF Ended, NoRequest, Request, Stage

\* Requests stay well formed when they arrive and when they go on.
LEMMA RequestTypes ==
    ASSUME NEW r \in Requests, req \in [Requests -> Request]
    PROVE  /\ \A op \in AllOps, g \in Gens, stage \in Stage, success \in BOOLEAN :
                 Open(r, op, g, stage, success) => req' \in [Requests -> Request]
           /\ \A stage \in Stage : Answer(r, stage) => req' \in [Requests -> Request]
<1>1. ASSUME NEW op \in AllOps, NEW g \in Gens, NEW stage \in Stage, NEW success \in BOOLEAN,
             Open(r, op, g, stage, success)
      PROVE  req' \in [Requests -> Request]
  <2>1. [op |-> op, gen |-> g, stage |-> stage, withdrew |-> FALSE, success |-> success]
            \in Request
    BY DEF Request
  <2>. QED
    BY <1>1, <2>1, EndedIsOver DEF Open
<1>2. ASSUME NEW stage \in Stage, Answer(r, stage) PROVE req' \in [Requests -> Request]
  <2>1. [req[r] EXCEPT !.stage = stage] \in Request
    BY DEF Request
  <2>. QED
    BY <1>2, <2>1, EndedIsOver DEF Answer
<1>. QED
  BY <1>1, <1>2

-----------------------------------------------------------------------------
(* Type correctness.                                                       *)

\* Attempts remain whenever the queue may still run a job.
AttemptsRemain ==
    \A g \in Gens : bull[g].state \in {"none", "waiting", "delayed", "active"} =>
                        bull[g].attemptsMade < MaxAttempts

\* Every step keeps the types.
LEMMA TypeStep ==
    ASSUME TypeOK, HandlerHoldsTheJob, RequestHoldsItsCause, AttemptsRemain, [Next]_vars
    PROVE  TypeOK'
<1>. USE DEF TypeOK
<1>1. ASSUME NEW g \in Gens, Create(g) PROVE TypeOK'
  <2>. USE DEF CreatorTo, CreatorPc, CreateVars, docs
  <2>1. CASE Insert(g)
    BY <2>1 DEF Insert, GenState, GenerationStatus
  <2>2. CASE StoreQueueJob(g)
    BY <2>2 DEF StoreQueueJob, StoreJobDoc, JobDoc, QueueJobStatus
  <2>3. CASE AddToQueue(g)
    BY <2>3, BullTypes DEF AddToQueue
  <2>4. CASE LinkQueueJob(g)
    BY <2>4 DEF LinkQueueJob
  <2>5. CASE EnqueueFails(g)
    <3>1. StoreJobDoc(g) => job' \in [Gens -> JobDoc]
      BY DEF StoreJobDoc, JobDoc, QueueJobStatus
    <3>2. Add(g) => bull' \in [Gens -> BullJob]
      BY BullTypes
    <3>. QED
      BY <2>5, <3>1, <3>2 DEF EnqueueFails
  <2>6. CASE RollBack(g)
    BY <2>6, DocTypes DEF RollBack
  <2>7. CASE RollBackFails(g)
    BY <2>7 DEF RollBackFails
  <2>8. QED
    BY <1>1, <2>1, <2>2, <2>3, <2>4, <2>5, <2>6, <2>7 DEF Create
<1>2. ASSUME NEW g \in Gens, Work(g) PROVE TypeOK'
  <2>. USE DEF WorkerTo, WorkerPc, WorkVars
  <2>. bull[g].attemptsMade \in 0..MaxAttempts
    BY DEF BullJob
  <2>1. CASE PickUp(g)
    BY <2>1, BullTypes, EventTypes DEF PickUp, QueueJobStatus, Justify, GenerationStatus
  <2>2. CASE StartHandling(g)
    BY <2>2, DocTypes DEF StartHandling
  <2>3. CASE MarkProcessingFails(g)
    BY <2>3, DocTypes DEF MarkProcessingFails
  <2>4. CASE TriggerAccepted(g)
    BY <2>4 DEF TriggerAccepted, Accept
  <2>5. CASE TriggerFails(g)
    BY <2>5 DEF TriggerFails, Accept, Justify, GenerationStatus
  <2>6. CASE RecordRefusal(g)
    BY <2>6, DocTypes DEF RecordRefusal
  <2>7. CASE TestLookup(g)
    BY <2>7 DEF TestLookup, GenerationStatus
  <2>8. CASE TestComplete(g)
    BY <2>8, DocTypes DEF TestComplete
  <2>9. CASE TestFails(g)
    BY <2>9, DocTypes DEF TestFails
  <2>10. CASE TestEmit(g)
    BY <2>10 DEF TestEmit, Emit, GenerationStatus
  <2>11. CASE AttemptSucceeds(g)
    BY <2>11, BullTypes, EventTypes DEF AttemptSucceeds, HandlerHoldsTheJob, AttemptsRemain, QueueJobStatus, BullJob
  <2>12. CASE AttemptFails(g)
    BY <2>12, BullTypes, EventTypes DEF AttemptFails, HandlerHoldsTheJob, AttemptsRemain, QueueJobStatus, BullJob
  <2>13. CASE Backoff(g)
    BY <2>13, BullTypes DEF Backoff
  <2>14. CASE Stall(g)
    BY <2>14, BullTypes, EventTypes DEF Stall, QueueJobStatus
  <2>15. QED
    BY <1>2, <2>1, <2>2, <2>3, <2>4, <2>5, <2>6, <2>7, <2>8, <2>9, <2>10, <2>11, <2>12, <2>13, <2>14 DEF Work
<1>3. ASSUME NEW g \in Gens, ApplyEvent(g) \/ EventLost(g) PROVE TypeOK'
  <2>. PICK e \in events[g] :
          /\ events' = [events EXCEPT ![g] = @ \ {e}]
          /\ job' = [job EXCEPT ![g] = Recorded(@, e)] \/ UNCHANGED job
    BY <1>3 DEF ApplyEvent, EventLost
  <2>1. e \in Event /\ job[g] \in JobDoc
    OBVIOUS
  <2>2. Recorded(job[g], e) \in JobDoc
    BY <2>1 DEF Recorded, Event, JobDoc
  <2>3. job' \in [Gens -> JobDoc] /\ events' \in [Gens -> SUBSET Event]
    BY <2>2
  <2>. QED
    BY <1>3, <2>3 DEF ApplyEvent, EventLost, EventVars
<1>4. ASSUME NEW r \in Requests, Receive(r) PROVE TypeOK'
  <2>. USE DEF docs, ReqVars
  <2>. PICK g \in Gens :
          \/ CancelCheck(r, g) \/ RemoveCheck(r, g) \/ QueueCancelCheck(r, g)
          \/ Patch(r, g) \/ CallbackFind(r, g)
    BY <1>4 DEF Receive
  <2>. req' \in [Requests -> Request]
    <3>1. PICK op \in AllOps, stage \in Stage, success \in BOOLEAN :
               Open(r, op, g, stage, success)
      <4>. USE DEF AllOps, Stage
      <4>1. CASE CancelCheck(r, g)
        BY <4>1 DEF CancelCheck
      <4>2. CASE RemoveCheck(r, g)
        BY <4>2 DEF RemoveCheck
      <4>3. CASE QueueCancelCheck(r, g)
        BY <4>3 DEF QueueCancelCheck
      <4>4. CASE Patch(r, g)
        BY <4>4 DEF Patch
      <4>5. CASE CallbackFind(r, g)
        BY <4>5 DEF CallbackFind
      <4>. QED
        BY <4>1, <4>2, <4>3, <4>4, <4>5
    <3>. QED
      BY <3>1, RequestTypes
  <2>1. CASE CancelCheck(r, g)
    BY <2>1 DEF CancelCheck, Justify, GenerationStatus
  <2>2. CASE RemoveCheck(r, g)
    BY <2>2 DEF RemoveCheck
  <2>3. CASE QueueCancelCheck(r, g)
    BY <2>3 DEF QueueCancelCheck
  <2>4. CASE Patch(r, g)
    <3>. PICK s \in GenerationStatus :
            /\ SetStatus(g, s)
            /\ IF Exists(g) THEN Justify(g, s) ELSE UNCHANGED causes
      BY <2>4 DEF Patch
    <3>1. gen' \in [Gens -> GenState]
      BY DocTypes
    <3>2. causes' \in [Gens -> SUBSET GenerationStatus]
      BY DEF Justify
    <3>. QED
      BY <2>4, <3>1, <3>2 DEF Patch
  <2>5. CASE CallbackFind(r, g)
    BY <2>5 DEF CallbackFind, Verdict, Justify, GenerationStatus
  <2>6. QED
    BY <2>1, <2>2, <2>3, <2>4, <2>5
<1>5. ASSUME NEW r \in Requests, Continue(r) PROVE TypeOK'
  <2>. USE DEF At, docs, ReqVars
  <2>. req[r].op # "none" => req[r].gen \in Gens
    BY DEF RequestHoldsItsCause
  <2>0. \A stage \in {"ok", "ended", "withdrawn", "written"} :
            Answer(r, stage) => req' \in [Requests -> Request]
    BY RequestTypes DEF Stage
  <2>1. CASE CancelWithdraw(r)
    <3>1. req[r].gen \in Gens /\ Withdrawn(r, req[r].gen) \in Request
      BY <2>1 DEF CancelWithdraw, Withdrawn, InQueue, Request, Stage
    <3>2. bull' \in [Gens -> BullJob]
      BY <2>1, <3>1, BullTypes DEF CancelWithdraw
    <3>. QED
      BY <2>1, <2>0, <3>1, <3>2 DEF CancelWithdraw
  <2>2. CASE CancelSave(r)
    BY <2>2, <2>0, DocTypes DEF CancelSave, GenerationStatus
  <2>3. CASE RemoveDelete(r)
    BY <2>3, <2>0, DocTypes DEF RemoveDelete
  <2>4. CASE QueueCancelWithdraw(r)
    <3>1. req[r].gen \in Gens /\ Withdrawn(r, req[r].gen) \in Request
      BY <2>4 DEF QueueCancelWithdraw, Withdrawn, InQueue, Request, Stage
    <3>2. bull' \in [Gens -> BullJob]
      BY <2>4, <3>1, BullTypes DEF QueueCancelWithdraw
    <3>3. [req[r] EXCEPT !.stage = "withdrawn", !.withdrew = FALSE] \in Request
      <4>1. req[r] \in Request
        OBVIOUS
      <4>. QED
        BY <4>1 DEF Request, Stage
    <3>4. req' \in [Requests -> Request]
      BY <2>4, <3>1, <3>3 DEF QueueCancelWithdraw
    <3>. QED
      BY <2>4, <3>2, <3>4 DEF QueueCancelWithdraw
  <2>5. CASE QueueCancelSave(r)
    <3>1. req[r].gen \in Gens /\ job[req[r].gen] \in JobDoc
      BY <2>5 DEF QueueCancelSave
    <3>2. [job[req[r].gen] EXCEPT !.status = "cancelled"] \in JobDoc
      BY <3>1 DEF JobDoc, QueueJobStatus
    <3>3. job' \in [Gens -> JobDoc]
      BY <2>5, <3>2 DEF QueueCancelSave
    <3>. QED
      BY <2>5, <2>0, <3>3 DEF QueueCancelSave
  <2>6. CASE CallbackWrite(r)
    BY <2>6, <2>0, DocTypes DEF CallbackWrite
  <2>7. CASE CallbackEmit(r)
    BY <2>7, <2>0 DEF CallbackEmit, Emit, Verdict, GenerationStatus
  <2>8. CASE RequestFails(r)
    BY <2>8, <2>0 DEF RequestFails
  <2>9. QED
    BY <1>5, <2>1, <2>2, <2>3, <2>4, <2>5, <2>6, <2>7, <2>8 DEF Continue
<1>6. CASE Crash
  BY <1>6, EndedIsOver DEF Crash, CreatorPc, WorkerPc, docs
<1>7. CASE UNCHANGED vars
  BY <1>7 DEF vars
<1>8. QED
  BY <1>1, <1>2, <1>3, <1>4, <1>5, <1>6, <1>7 DEF Next
-----------------------------------------------------------------------------
(* The other parts of IInv, one lemma per part.                            *)

\* Nothing that was justified is taken back, and only a handler that has marked the
\* generation triggers, once.
LEMMA CausesGrow ==
    ASSUME TypeOK, [Next]_vars
    PROVE  \A h \in Gens : /\ causes[h] \subseteq causes'[h]
                         /\ \/ triggers'[h] = triggers[h]
                            \/ worker[h] = "marked" /\ triggers'[h] = triggers[h] + 1
<1>. DEFINE Grows(h) ==
               /\ causes[h] \subseteq causes'[h]
                   /\ \/ triggers'[h] = triggers[h]
                      \/ worker[h] = "marked" /\ triggers'[h] = triggers[h] + 1
<1>. USE DEF TypeOK
<1>1. ASSUME NEW g \in Gens, Create(g) PROVE \A h \in Gens : Grows(h)
  <2>. USE DEF CreateVars
  <2>1. CASE Insert(g)
    BY <2>1 DEF Insert
  <2>2. CASE StoreQueueJob(g)
    BY <2>2 DEF StoreQueueJob
  <2>3. CASE AddToQueue(g)
    BY <2>3 DEF AddToQueue
  <2>4. CASE LinkQueueJob(g)
    BY <2>4 DEF LinkQueueJob
  <2>5. CASE EnqueueFails(g)
    BY <2>5 DEF EnqueueFails
  <2>6. CASE RollBack(g)
    BY <2>6 DEF RollBack
  <2>7. CASE RollBackFails(g)
    BY <2>7 DEF RollBackFails
  <2>. QED
    BY <1>1, <2>1, <2>2, <2>3, <2>4, <2>5, <2>6, <2>7 DEF Create
<1>2. ASSUME NEW g \in Gens, Work(g) PROVE \A h \in Gens : Grows(h)
  <2>. USE DEF WorkVars, WorkerTo, Justify, Accept
  <2>1. CASE PickUp(g)
    BY <2>1 DEF PickUp
  <2>2. CASE StartHandling(g)
    BY <2>2 DEF StartHandling
  <2>3. CASE MarkProcessingFails(g)
    BY <2>3 DEF MarkProcessingFails
  <2>4. CASE TriggerAccepted(g)
    BY <2>4 DEF TriggerAccepted
  <2>5. CASE TriggerFails(g)
    BY <2>5 DEF TriggerFails
  <2>6. CASE RecordRefusal(g)
    BY <2>6 DEF RecordRefusal
  <2>7. CASE TestLookup(g)
    BY <2>7 DEF TestLookup
  <2>8. CASE TestComplete(g)
    BY <2>8 DEF TestComplete
  <2>9. CASE TestFails(g)
    BY <2>9 DEF TestFails
  <2>10. CASE TestEmit(g)
    BY <2>10 DEF TestEmit
  <2>11. CASE AttemptSucceeds(g)
    BY <2>11 DEF AttemptSucceeds
  <2>12. CASE AttemptFails(g)
    BY <2>12 DEF AttemptFails
  <2>13. CASE Backoff(g)
    BY <2>13 DEF Backoff
  <2>14. CASE Stall(g)
    BY <2>14 DEF Stall
  <2>. QED
    BY <1>2, <2>1, <2>2, <2>3, <2>4, <2>5, <2>6, <2>7, <2>8, <2>9, <2>10, <2>11, <2>12, <2>13, <2>14 DEF Work
<1>3. ASSUME NEW g \in Gens, ApplyEvent(g) \/ EventLost(g) PROVE \A h \in Gens : Grows(h)
  <2>. USE DEF EventVars
  <2>1. CASE ApplyEvent(g)
    BY <2>1 DEF ApplyEvent
  <2>2. CASE EventLost(g)
    BY <2>2 DEF EventLost
  <2>. QED
    BY <1>3, <2>1, <2>2
<1>4. ASSUME NEW r \in Requests, Receive(r) PROVE \A h \in Gens : Grows(h)
  <2>. USE DEF Justify, ReqVars, docs
  <2>. PICK g \in Gens :
          \/ CancelCheck(r, g) \/ RemoveCheck(r, g) \/ QueueCancelCheck(r, g)
          \/ Patch(r, g) \/ CallbackFind(r, g)
    BY <1>4 DEF Receive
  <2>1. CASE CancelCheck(r, g)
    BY <2>1 DEF CancelCheck
  <2>2. CASE RemoveCheck(r, g)
    BY <2>2 DEF RemoveCheck
  <2>3. CASE QueueCancelCheck(r, g)
    BY <2>3 DEF QueueCancelCheck
  <2>4. CASE Patch(r, g)
    BY <2>4 DEF Patch
  <2>5. CASE CallbackFind(r, g)
    BY <2>5 DEF CallbackFind
  <2>. QED
    BY <2>1, <2>2, <2>3, <2>4, <2>5
<1>5. ASSUME NEW r \in Requests, Continue(r) PROVE \A h \in Gens : Grows(h)
  <2>. USE DEF ReqVars, docs
  <2>1. CASE CancelWithdraw(r)
    BY <2>1 DEF CancelWithdraw
  <2>2. CASE CancelSave(r)
    BY <2>2 DEF CancelSave
  <2>3. CASE RemoveDelete(r)
    BY <2>3 DEF RemoveDelete
  <2>4. CASE QueueCancelWithdraw(r)
    BY <2>4 DEF QueueCancelWithdraw
  <2>5. CASE QueueCancelSave(r)
    BY <2>5 DEF QueueCancelSave
  <2>6. CASE CallbackWrite(r)
    BY <2>6 DEF CallbackWrite
  <2>7. CASE CallbackEmit(r)
    BY <2>7 DEF CallbackEmit
  <2>8. CASE RequestFails(r)
    BY <2>8 DEF RequestFails
  <2>. QED
    BY <1>5, <2>1, <2>2, <2>3, <2>4, <2>5, <2>6, <2>7, <2>8 DEF Continue
<1>6. CASE Crash
  BY <1>6 DEF Crash, docs
<1>7. CASE UNCHANGED vars
  BY <1>7 DEF vars
<1>8. QED
  BY <1>1, <1>2, <1>3, <1>4, <1>5, <1>6, <1>7 DEF Next

\* A document exists only from its insert on, and a failed create ends with it deleted.
LEMMA CreateStep ==
    ASSUME TypeOK, NothingBeforeCreate, FailedCreateLeavesNothing, HandlerHoldsTheJob, RequestHoldsItsCause, [Next]_vars
    PROVE  NothingBeforeCreate' /\ FailedCreateLeavesNothing'
<1>. USE DEF TypeOK, NothingBeforeCreate, FailedCreateLeavesNothing
<1>1. ASSUME NEW g \in Gens, Create(g) PROVE NothingBeforeCreate' /\ FailedCreateLeavesNothing'
  <2>. USE DEF CreatorTo, CreatorPc, CreateVars, docs, BullJob, SetStatus, MarkProcessing, MarkCompleted, MarkFailed, DeleteDoc, Exists, GenerationStatus, GenState, Add, MoveTo
  <2>1. CASE Insert(g)
    BY <2>1 DEF Insert
  <2>2. CASE StoreQueueJob(g)
    BY <2>2 DEF StoreQueueJob
  <2>3. CASE AddToQueue(g)
    BY <2>3 DEF AddToQueue
  <2>4. CASE LinkQueueJob(g)
    BY <2>4 DEF LinkQueueJob
  <2>5. CASE EnqueueFails(g)
    BY <2>5 DEF EnqueueFails
  <2>6. CASE RollBack(g)
    BY <2>6 DEF RollBack
  <2>7. CASE RollBackFails(g)
    BY <2>7 DEF RollBackFails
  <2>. QED
    BY <1>1, <2>1, <2>2, <2>3, <2>4, <2>5, <2>6, <2>7 DEF Create
<1>2. ASSUME NEW g \in Gens, Work(g) PROVE NothingBeforeCreate' /\ FailedCreateLeavesNothing'
  <2>. USE DEF WorkerTo, WorkVars, HandlerHoldsTheJob, Accept, SetStatus, MarkProcessing, MarkCompleted, MarkFailed, DeleteDoc, Exists, GenerationStatus, GenState, Add, Activate, EndBackoff, RequeueStalled, FailStalled, Discard, Complete, FailAttempt, MoveTo
  <2>1. CASE PickUp(g)
    BY <2>1 DEF PickUp
  <2>2. CASE StartHandling(g)
    BY <2>2 DEF StartHandling
  <2>3. CASE MarkProcessingFails(g)
    BY <2>3 DEF MarkProcessingFails
  <2>4. CASE TriggerAccepted(g)
    BY <2>4 DEF TriggerAccepted
  <2>5. CASE TriggerFails(g)
    BY <2>5 DEF TriggerFails
  <2>6. CASE RecordRefusal(g)
    BY <2>6 DEF RecordRefusal
  <2>7. CASE TestLookup(g)
    BY <2>7 DEF TestLookup
  <2>8. CASE TestComplete(g)
    BY <2>8 DEF TestComplete
  <2>9. CASE TestFails(g)
    BY <2>9 DEF TestFails
  <2>10. CASE TestEmit(g)
    BY <2>10 DEF TestEmit
  <2>11. CASE AttemptSucceeds(g)
    BY <2>11 DEF AttemptSucceeds
  <2>12. CASE AttemptFails(g)
    BY <2>12 DEF AttemptFails
  <2>13. CASE Backoff(g)
    BY <2>13 DEF Backoff
  <2>14. CASE Stall(g)
    BY <2>14 DEF Stall
  <2>. QED
    BY <1>2, <2>1, <2>2, <2>3, <2>4, <2>5, <2>6, <2>7, <2>8, <2>9, <2>10, <2>11, <2>12, <2>13, <2>14 DEF Work
<1>3. ASSUME NEW g \in Gens, ApplyEvent(g) \/ EventLost(g) PROVE NothingBeforeCreate' /\ FailedCreateLeavesNothing'
  BY <1>3 DEF ApplyEvent, EventLost, ApplyEvent, EventLost, EventVars
<1>4. ASSUME NEW r \in Requests, Receive(r) PROVE NothingBeforeCreate' /\ FailedCreateLeavesNothing'
  <2>. USE DEF Open, docs, ReqVars, SetStatus, MarkProcessing, MarkCompleted, MarkFailed, DeleteDoc, Exists, GenerationStatus, GenState
  <2>. PICK g \in Gens :
          \/ CancelCheck(r, g) \/ RemoveCheck(r, g) \/ QueueCancelCheck(r, g)
          \/ Patch(r, g) \/ CallbackFind(r, g)
    BY <1>4 DEF Receive
  <2>1. CASE CancelCheck(r, g)
    BY <2>1 DEF CancelCheck
  <2>2. CASE RemoveCheck(r, g)
    BY <2>2 DEF RemoveCheck
  <2>3. CASE QueueCancelCheck(r, g)
    BY <2>3 DEF QueueCancelCheck
  <2>4. CASE Patch(r, g)
    BY <2>4 DEF Patch
  <2>5. CASE CallbackFind(r, g)
    BY <2>5 DEF CallbackFind
  <2>. QED
    BY <2>1, <2>2, <2>3, <2>4, <2>5
<1>5. ASSUME NEW r \in Requests, Continue(r) PROVE NothingBeforeCreate' /\ FailedCreateLeavesNothing'
  <2>. USE DEF RequestHoldsItsCause, docs, ReqVars, At, InQueue, Discard, MoveTo, SetStatus, MarkProcessing, MarkCompleted, MarkFailed, DeleteDoc, Exists, GenerationStatus, GenState
  <2>1. CASE CancelWithdraw(r)
    BY <2>1 DEF CancelWithdraw
  <2>2. CASE CancelSave(r)
    BY <2>2 DEF CancelSave
  <2>3. CASE RemoveDelete(r)
    BY <2>3 DEF RemoveDelete
  <2>4. CASE QueueCancelWithdraw(r)
    BY <2>4 DEF QueueCancelWithdraw
  <2>5. CASE QueueCancelSave(r)
    BY <2>5 DEF QueueCancelSave
  <2>6. CASE CallbackWrite(r)
    BY <2>6 DEF CallbackWrite
  <2>7. CASE CallbackEmit(r)
    BY <2>7 DEF CallbackEmit
  <2>8. CASE RequestFails(r)
    BY <2>8 DEF RequestFails
  <2>. QED
    BY <1>5, <2>1, <2>2, <2>3, <2>4, <2>5, <2>6, <2>7, <2>8 DEF Continue
<1>6. CASE Crash
  BY <1>6 DEF Crash, docs, Creating
<1>7. CASE UNCHANGED vars
  BY <1>7 DEF vars
<1>8. QED
  BY <1>1, <1>2, <1>3, <1>4, <1>5, <1>6, <1>7 DEF Next

\* A handler runs only for the active job and holds the cause of its next write.
LEMMA HandlerStep ==
    ASSUME TypeOK, HandlerHoldsTheJob, NothingBeforeCreate, RequestHoldsItsCause, [Next]_vars
    PROVE  HandlerHoldsTheJob'
<1>. USE DEF TypeOK, HandlerHoldsTheJob
<1>1. ASSUME NEW g \in Gens, Create(g) PROVE HandlerHoldsTheJob'
  <2>. USE DEF CreatorTo, CreateVars, docs, BullJob, NothingBeforeCreate, Add, MoveTo
  <2>1. CASE Insert(g)
    BY <2>1 DEF Insert
  <2>2. CASE StoreQueueJob(g)
    BY <2>2 DEF StoreQueueJob
  <2>3. CASE AddToQueue(g)
    BY <2>3 DEF AddToQueue
  <2>4. CASE LinkQueueJob(g)
    BY <2>4 DEF LinkQueueJob
  <2>5. CASE EnqueueFails(g)
    BY <2>5 DEF EnqueueFails
  <2>6. CASE RollBack(g)
    BY <2>6 DEF RollBack
  <2>7. CASE RollBackFails(g)
    BY <2>7 DEF RollBackFails
  <2>. QED
    BY <1>1, <2>1, <2>2, <2>3, <2>4, <2>5, <2>6, <2>7 DEF Create
<1>2. ASSUME NEW g \in Gens, Work(g) PROVE HandlerHoldsTheJob'
  <2>. USE DEF WorkerTo, WorkerPc, WorkVars, Justify, Add, Activate, EndBackoff, RequeueStalled, FailStalled, Discard, Complete, FailAttempt, MoveTo
  <2>1. CASE PickUp(g)
    BY <2>1 DEF PickUp
  <2>2. CASE StartHandling(g)
    BY <2>2 DEF StartHandling
  <2>3. CASE MarkProcessingFails(g)
    BY <2>3 DEF MarkProcessingFails
  <2>4. CASE TriggerAccepted(g)
    BY <2>4 DEF TriggerAccepted
  <2>5. CASE TriggerFails(g)
    BY <2>5 DEF TriggerFails
  <2>6. CASE RecordRefusal(g)
    BY <2>6 DEF RecordRefusal
  <2>7. CASE TestLookup(g)
    BY <2>7 DEF TestLookup
  <2>8. CASE TestComplete(g)
    BY <2>8 DEF TestComplete
  <2>9. CASE TestFails(g)
    BY <2>9 DEF TestFails
  <2>10. CASE TestEmit(g)
    BY <2>10 DEF TestEmit
  <2>11. CASE AttemptSucceeds(g)
    BY <2>11 DEF AttemptSucceeds
  <2>12. CASE AttemptFails(g)
    BY <2>12 DEF AttemptFails
  <2>13. CASE Backoff(g)
    BY <2>13 DEF Backoff
  <2>14. CASE Stall(g)
    BY <2>14 DEF Stall
  <2>. QED
    BY <1>2, <2>1, <2>2, <2>3, <2>4, <2>5, <2>6, <2>7, <2>8, <2>9, <2>10, <2>11, <2>12, <2>13, <2>14 DEF Work
<1>3. ASSUME NEW g \in Gens, ApplyEvent(g) \/ EventLost(g) PROVE HandlerHoldsTheJob'
  BY <1>3 DEF ApplyEvent, EventLost, ApplyEvent, EventLost, EventVars
<1>4. ASSUME NEW r \in Requests, Receive(r) PROVE HandlerHoldsTheJob'
  <2>. USE DEF Open, docs, ReqVars, Justify
  <2>. PICK g \in Gens :
          \/ CancelCheck(r, g) \/ RemoveCheck(r, g) \/ QueueCancelCheck(r, g)
          \/ Patch(r, g) \/ CallbackFind(r, g)
    BY <1>4 DEF Receive
  <2>1. CASE CancelCheck(r, g)
    BY <2>1 DEF CancelCheck
  <2>2. CASE RemoveCheck(r, g)
    BY <2>2 DEF RemoveCheck
  <2>3. CASE QueueCancelCheck(r, g)
    BY <2>3 DEF QueueCancelCheck
  <2>4. CASE Patch(r, g)
    BY <2>4 DEF Patch
  <2>5. CASE CallbackFind(r, g)
    BY <2>5 DEF CallbackFind
  <2>. QED
    BY <2>1, <2>2, <2>3, <2>4, <2>5
<1>5. ASSUME NEW r \in Requests, Continue(r) PROVE HandlerHoldsTheJob'
  <2>. USE DEF docs, ReqVars, At, RequestHoldsItsCause, InQueue, Discard, MoveTo, RemoveThrows
  <2>1. CASE CancelWithdraw(r)
    BY <2>1 DEF CancelWithdraw
  <2>2. CASE CancelSave(r)
    BY <2>2 DEF CancelSave
  <2>3. CASE RemoveDelete(r)
    BY <2>3 DEF RemoveDelete
  <2>4. CASE QueueCancelWithdraw(r)
    BY <2>4 DEF QueueCancelWithdraw
  <2>5. CASE QueueCancelSave(r)
    BY <2>5 DEF QueueCancelSave
  <2>6. CASE CallbackWrite(r)
    BY <2>6 DEF CallbackWrite
  <2>7. CASE CallbackEmit(r)
    BY <2>7 DEF CallbackEmit
  <2>8. CASE RequestFails(r)
    BY <2>8 DEF RequestFails
  <2>. QED
    BY <1>5, <2>1, <2>2, <2>3, <2>4, <2>5, <2>6, <2>7, <2>8 DEF Continue
<1>6. CASE Crash
  BY <1>6 DEF Crash, docs
<1>7. CASE UNCHANGED vars
  BY <1>7 DEF vars
<1>8. QED
  BY <1>1, <1>2, <1>3, <1>4, <1>5, <1>6, <1>7 DEF Next

\* Only an accepted record, or test mode, is recorded as completed.
LEMMA CompletionStep ==
    ASSUME TypeOK, HandlerHoldsTheJob, CompletionFollowsAcceptance, RequestHoldsItsCause, [Next]_vars
    PROVE  CompletionFollowsAcceptance'
<1>. USE DEF TypeOK, CompletionFollowsAcceptance
<1>1. ASSUME NEW g \in Gens, Create(g) PROVE CompletionFollowsAcceptance'
  <2>. USE DEF CreatorTo, CreateVars, docs, StoreJobDoc
  <2>1. CASE Insert(g)
    BY <2>1 DEF Insert
  <2>2. CASE StoreQueueJob(g)
    BY <2>2 DEF StoreQueueJob
  <2>3. CASE AddToQueue(g)
    BY <2>3 DEF AddToQueue
  <2>4. CASE LinkQueueJob(g)
    BY <2>4 DEF LinkQueueJob
  <2>5. CASE EnqueueFails(g)
    BY <2>5 DEF EnqueueFails
  <2>6. CASE RollBack(g)
    BY <2>6 DEF RollBack
  <2>7. CASE RollBackFails(g)
    BY <2>7 DEF RollBackFails
  <2>. QED
    BY <1>1, <2>1, <2>2, <2>3, <2>4, <2>5, <2>6, <2>7 DEF Create
<1>2. ASSUME NEW g \in Gens, Work(g) PROVE CompletionFollowsAcceptance'
  <2>. USE DEF WorkerTo, WorkerPc, WorkVars, Notify, Accept
  <2>1. CASE PickUp(g)
    BY <2>1 DEF PickUp
  <2>2. CASE StartHandling(g)
    BY <2>2 DEF StartHandling
  <2>3. CASE MarkProcessingFails(g)
    BY <2>3 DEF MarkProcessingFails
  <2>4. CASE TriggerAccepted(g)
    BY <2>4 DEF TriggerAccepted
  <2>5. CASE TriggerFails(g)
    BY <2>5 DEF TriggerFails
  <2>6. CASE RecordRefusal(g)
    BY <2>6 DEF RecordRefusal
  <2>7. CASE TestLookup(g)
    BY <2>7 DEF TestLookup
  <2>8. CASE TestComplete(g)
    BY <2>8 DEF TestComplete
  <2>9. CASE TestFails(g)
    BY <2>9 DEF TestFails
  <2>10. CASE TestEmit(g)
    BY <2>10 DEF TestEmit
  <2>11. CASE AttemptSucceeds(g)
    BY <2>11 DEF AttemptSucceeds
  <2>12. CASE AttemptFails(g)
    BY <2>12 DEF AttemptFails
  <2>13. CASE Backoff(g)
    BY <2>13 DEF Backoff
  <2>14. CASE Stall(g)
    BY <2>14 DEF Stall
  <2>. QED
    BY <1>2, <2>1, <2>2, <2>3, <2>4, <2>5, <2>6, <2>7, <2>8, <2>9, <2>10, <2>11, <2>12, <2>13, <2>14 DEF Work
<1>3. ASSUME NEW g \in Gens, ApplyEvent(g) \/ EventLost(g) PROVE CompletionFollowsAcceptance'
  BY <1>3 DEF ApplyEvent, EventLost, ApplyEvent, EventLost, EventVars, Recorded
<1>4. ASSUME NEW r \in Requests, Receive(r) PROVE CompletionFollowsAcceptance'
  <2>. USE DEF Open, docs, ReqVars
  <2>. PICK g \in Gens :
          \/ CancelCheck(r, g) \/ RemoveCheck(r, g) \/ QueueCancelCheck(r, g)
          \/ Patch(r, g) \/ CallbackFind(r, g)
    BY <1>4 DEF Receive
  <2>1. CASE CancelCheck(r, g)
    BY <2>1 DEF CancelCheck
  <2>2. CASE RemoveCheck(r, g)
    BY <2>2 DEF RemoveCheck
  <2>3. CASE QueueCancelCheck(r, g)
    BY <2>3 DEF QueueCancelCheck
  <2>4. CASE Patch(r, g)
    BY <2>4 DEF Patch
  <2>5. CASE CallbackFind(r, g)
    BY <2>5 DEF CallbackFind
  <2>. QED
    BY <2>1, <2>2, <2>3, <2>4, <2>5
<1>5. ASSUME NEW r \in Requests, Continue(r) PROVE CompletionFollowsAcceptance'
  <2>. USE DEF docs, ReqVars, At, RequestHoldsItsCause, JobDoc
  <2>1. CASE CancelWithdraw(r)
    BY <2>1 DEF CancelWithdraw
  <2>2. CASE CancelSave(r)
    BY <2>2 DEF CancelSave
  <2>3. CASE RemoveDelete(r)
    BY <2>3 DEF RemoveDelete
  <2>4. CASE QueueCancelWithdraw(r)
    BY <2>4 DEF QueueCancelWithdraw
  <2>5. CASE QueueCancelSave(r)
    BY <2>5 DEF QueueCancelSave
  <2>6. CASE CallbackWrite(r)
    BY <2>6 DEF CallbackWrite
  <2>7. CASE CallbackEmit(r)
    BY <2>7 DEF CallbackEmit
  <2>8. CASE RequestFails(r)
    BY <2>8 DEF RequestFails
  <2>. QED
    BY <1>5, <2>1, <2>2, <2>3, <2>4, <2>5, <2>6, <2>7, <2>8 DEF Continue
<1>6. CASE Crash
  BY <1>6 DEF Crash, docs
<1>7. CASE UNCHANGED vars
  BY <1>7 DEF vars
<1>8. QED
  BY <1>1, <1>2, <1>3, <1>4, <1>5, <1>6, <1>7 DEF Next

\* A request in flight holds the cause of the write it is about to make.
LEMMA RequestStep ==
    ASSUME TypeOK, RequestHoldsItsCause, [Next]_vars
    PROVE  RequestHoldsItsCause'
<1>. USE DEF TypeOK, RequestHoldsItsCause
<1>1. ASSUME NEW g \in Gens, Create(g) PROVE RequestHoldsItsCause'
  <2>. USE DEF CreateVars
  <2>1. CASE Insert(g)
    BY <2>1, CausesGrow DEF Insert
  <2>2. CASE StoreQueueJob(g)
    BY <2>2, CausesGrow DEF StoreQueueJob
  <2>3. CASE AddToQueue(g)
    BY <2>3, CausesGrow DEF AddToQueue
  <2>4. CASE LinkQueueJob(g)
    BY <2>4, CausesGrow DEF LinkQueueJob
  <2>5. CASE EnqueueFails(g)
    BY <2>5, CausesGrow DEF EnqueueFails
  <2>6. CASE RollBack(g)
    BY <2>6, CausesGrow DEF RollBack
  <2>7. CASE RollBackFails(g)
    BY <2>7, CausesGrow DEF RollBackFails
  <2>. QED
    BY <1>1, <2>1, <2>2, <2>3, <2>4, <2>5, <2>6, <2>7 DEF Create
<1>2. ASSUME NEW g \in Gens, Work(g) PROVE RequestHoldsItsCause'
  <2>. USE DEF WorkVars
  <2>1. CASE PickUp(g)
    BY <2>1, CausesGrow DEF PickUp
  <2>2. CASE StartHandling(g)
    BY <2>2, CausesGrow DEF StartHandling
  <2>3. CASE MarkProcessingFails(g)
    BY <2>3, CausesGrow DEF MarkProcessingFails
  <2>4. CASE TriggerAccepted(g)
    BY <2>4, CausesGrow DEF TriggerAccepted
  <2>5. CASE TriggerFails(g)
    BY <2>5, CausesGrow DEF TriggerFails
  <2>6. CASE RecordRefusal(g)
    BY <2>6, CausesGrow DEF RecordRefusal
  <2>7. CASE TestLookup(g)
    BY <2>7, CausesGrow DEF TestLookup
  <2>8. CASE TestComplete(g)
    BY <2>8, CausesGrow DEF TestComplete
  <2>9. CASE TestFails(g)
    BY <2>9, CausesGrow DEF TestFails
  <2>10. CASE TestEmit(g)
    BY <2>10, CausesGrow DEF TestEmit
  <2>11. CASE AttemptSucceeds(g)
    BY <2>11, CausesGrow DEF AttemptSucceeds
  <2>12. CASE AttemptFails(g)
    BY <2>12, CausesGrow DEF AttemptFails
  <2>13. CASE Backoff(g)
    BY <2>13, CausesGrow DEF Backoff
  <2>14. CASE Stall(g)
    BY <2>14, CausesGrow DEF Stall
  <2>. QED
    BY <1>2, <2>1, <2>2, <2>3, <2>4, <2>5, <2>6, <2>7, <2>8, <2>9, <2>10, <2>11, <2>12, <2>13, <2>14 DEF Work
<1>3. ASSUME NEW g \in Gens, ApplyEvent(g) \/ EventLost(g) PROVE RequestHoldsItsCause'
  BY <1>3, CausesGrow DEF ApplyEvent, EventLost, EventVars, ApplyEvent, EventLost
<1>4. ASSUME NEW r \in Requests, Receive(r) PROVE RequestHoldsItsCause'
  <2>. USE EndedIsOver DEF Open, ReqVars, Justify, Request
  <2>. PICK g \in Gens :
          \/ CancelCheck(r, g) \/ RemoveCheck(r, g) \/ QueueCancelCheck(r, g)
          \/ Patch(r, g) \/ CallbackFind(r, g)
    BY <1>4 DEF Receive
  <2>1. CASE CancelCheck(r, g)
    <3>1. \/ req'[r] = Ended
          \/ req'[r].op = "cancel" /\ req'[r].gen = g /\ "cancelled" \in causes'[g]
      BY <2>1 DEF CancelCheck
    <3>2. \A q \in Requests : q # r => req'[q] = req[q]
      BY <2>1 DEF CancelCheck
    <3>. QED
      BY <3>1, <3>2, CausesGrow
  <2>2. CASE RemoveCheck(r, g)
    <3>1. \/ req'[r] = Ended
          \/ req'[r].op = "remove" /\ req'[r].gen = g
      BY <2>2 DEF RemoveCheck
    <3>2. \A q \in Requests : q # r => req'[q] = req[q]
      BY <2>2 DEF RemoveCheck
    <3>. QED
      BY <3>1, <3>2, CausesGrow
  <2>3. CASE QueueCancelCheck(r, g)
    BY <2>3, CausesGrow DEF QueueCancelCheck
  <2>4. CASE Patch(r, g)
    BY <2>4, CausesGrow DEF Patch
  <2>5. CASE CallbackFind(r, g)
    BY <2>5, CausesGrow DEF CallbackFind
  <2>. QED
    BY <2>1, <2>2, <2>3, <2>4, <2>5
<1>5. ASSUME NEW r \in Requests, Continue(r) PROVE RequestHoldsItsCause'
  <2>. USE EndedIsOver DEF At, Answer, Request
  <2>1. CASE CancelWithdraw(r)
    BY <2>1, CausesGrow DEF CancelWithdraw, Withdrawn
  <2>2. CASE CancelSave(r)
    BY <2>2, CausesGrow DEF CancelSave
  <2>3. CASE RemoveDelete(r)
    BY <2>3, CausesGrow DEF RemoveDelete
  <2>4. CASE QueueCancelWithdraw(r)
    BY <2>4, CausesGrow DEF QueueCancelWithdraw, Withdrawn
  <2>5. CASE QueueCancelSave(r)
    BY <2>5, CausesGrow DEF QueueCancelSave
  <2>6. CASE CallbackWrite(r)
    BY <2>6, CausesGrow DEF CallbackWrite
  <2>7. CASE CallbackEmit(r)
    BY <2>7, CausesGrow DEF CallbackEmit
  <2>8. CASE RequestFails(r)
    BY <2>8, CausesGrow DEF RequestFails
  <2>. QED
    BY <1>5, <2>1, <2>2, <2>3, <2>4, <2>5, <2>6, <2>7, <2>8 DEF Continue
<1>6. CASE Crash
  BY <1>6, CausesGrow, EndedIsOver DEF Crash
<1>7. CASE UNCHANGED vars
  BY <1>7 DEF vars
<1>8. QED
  BY <1>1, <1>2, <1>3, <1>4, <1>5, <1>6, <1>7 DEF Next

\* No status is shown and none is emitted that nothing has justified.
LEMMA CauseStep ==
    ASSUME TypeOK, StatusHasCause, OwnerIsToldTheVerdict, HandlerHoldsTheJob, RequestHoldsItsCause, [Next]_vars
    PROVE  StatusHasCause' /\ OwnerIsToldTheVerdict'
<1>. USE DEF TypeOK, StatusHasCause, OwnerIsToldTheVerdict
<1>1. ASSUME NEW g \in Gens, Create(g) PROVE StatusHasCause' /\ OwnerIsToldTheVerdict'
  <2>. USE DEF CreatorTo, CreateVars, docs, SetStatus, MarkProcessing, MarkCompleted, MarkFailed, DeleteDoc, Exists, GenerationStatus, GenState
  <2>1. CASE Insert(g)
    BY <2>1 DEF Insert
  <2>2. CASE StoreQueueJob(g)
    BY <2>2 DEF StoreQueueJob
  <2>3. CASE AddToQueue(g)
    BY <2>3 DEF AddToQueue
  <2>4. CASE LinkQueueJob(g)
    BY <2>4 DEF LinkQueueJob
  <2>5. CASE EnqueueFails(g)
    BY <2>5 DEF EnqueueFails
  <2>6. CASE RollBack(g)
    BY <2>6 DEF RollBack
  <2>7. CASE RollBackFails(g)
    BY <2>7 DEF RollBackFails
  <2>. QED
    BY <1>1, <2>1, <2>2, <2>3, <2>4, <2>5, <2>6, <2>7 DEF Create
<1>2. ASSUME NEW g \in Gens, Work(g) PROVE StatusHasCause' /\ OwnerIsToldTheVerdict'
  <2>. USE DEF WorkerTo, WorkVars, HandlerHoldsTheJob, Justify, Emit, SetStatus, MarkProcessing, MarkCompleted, MarkFailed, DeleteDoc, Exists, GenerationStatus, GenState
  <2>1. CASE PickUp(g)
    BY <2>1 DEF PickUp
  <2>2. CASE StartHandling(g)
    BY <2>2 DEF StartHandling
  <2>3. CASE MarkProcessingFails(g)
    BY <2>3 DEF MarkProcessingFails
  <2>4. CASE TriggerAccepted(g)
    BY <2>4 DEF TriggerAccepted
  <2>5. CASE TriggerFails(g)
    BY <2>5 DEF TriggerFails
  <2>6. CASE RecordRefusal(g)
    BY <2>6 DEF RecordRefusal
  <2>7. CASE TestLookup(g)
    BY <2>7 DEF TestLookup
  <2>8. CASE TestComplete(g)
    BY <2>8 DEF TestComplete
  <2>9. CASE TestFails(g)
    BY <2>9 DEF TestFails
  <2>10. CASE TestEmit(g)
    BY <2>10 DEF TestEmit
  <2>11. CASE AttemptSucceeds(g)
    BY <2>11 DEF AttemptSucceeds
  <2>12. CASE AttemptFails(g)
    BY <2>12 DEF AttemptFails
  <2>13. CASE Backoff(g)
    BY <2>13 DEF Backoff
  <2>14. CASE Stall(g)
    BY <2>14 DEF Stall
  <2>. QED
    BY <1>2, <2>1, <2>2, <2>3, <2>4, <2>5, <2>6, <2>7, <2>8, <2>9, <2>10, <2>11, <2>12, <2>13, <2>14 DEF Work
<1>3. ASSUME NEW g \in Gens, ApplyEvent(g) \/ EventLost(g) PROVE StatusHasCause' /\ OwnerIsToldTheVerdict'
  BY <1>3 DEF ApplyEvent, EventLost, EventVars, ApplyEvent, EventLost
<1>4. ASSUME NEW r \in Requests, Receive(r) PROVE StatusHasCause' /\ OwnerIsToldTheVerdict'
  <2>. USE DEF Open, ReqVars, docs, Justify, SetStatus, MarkProcessing, MarkCompleted, MarkFailed, DeleteDoc, Exists, GenerationStatus, GenState
  <2>. PICK g \in Gens :
          \/ CancelCheck(r, g) \/ RemoveCheck(r, g) \/ QueueCancelCheck(r, g)
          \/ Patch(r, g) \/ CallbackFind(r, g)
    BY <1>4 DEF Receive
  <2>1. CASE CancelCheck(r, g)
    BY <2>1 DEF CancelCheck
  <2>2. CASE RemoveCheck(r, g)
    BY <2>2 DEF RemoveCheck
  <2>3. CASE QueueCancelCheck(r, g)
    BY <2>3 DEF QueueCancelCheck
  <2>4. CASE Patch(r, g)
    BY <2>4 DEF Patch
  <2>5. CASE CallbackFind(r, g)
    BY <2>5 DEF CallbackFind
  <2>. QED
    BY <2>1, <2>2, <2>3, <2>4, <2>5
<1>5. ASSUME NEW r \in Requests, Continue(r) PROVE StatusHasCause' /\ OwnerIsToldTheVerdict'
  <2>. USE DEF At, ReqVars, docs, RequestHoldsItsCause, Verdict, Emit, SetStatus, MarkProcessing, MarkCompleted, MarkFailed, DeleteDoc, Exists, GenerationStatus, GenState
  <2>1. CASE CancelWithdraw(r)
    BY <2>1 DEF CancelWithdraw
  <2>2. CASE CancelSave(r)
    BY <2>2 DEF CancelSave
  <2>3. CASE RemoveDelete(r)
    BY <2>3 DEF RemoveDelete
  <2>4. CASE QueueCancelWithdraw(r)
    BY <2>4 DEF QueueCancelWithdraw
  <2>5. CASE QueueCancelSave(r)
    BY <2>5 DEF QueueCancelSave
  <2>6. CASE CallbackWrite(r)
    BY <2>6 DEF CallbackWrite
  <2>7. CASE CallbackEmit(r)
    BY <2>7 DEF CallbackEmit
  <2>8. CASE RequestFails(r)
    BY <2>8 DEF RequestFails
  <2>. QED
    BY <1>5, <2>1, <2>2, <2>3, <2>4, <2>5, <2>6, <2>7, <2>8 DEF Continue
<1>6. CASE Crash
  BY <1>6 DEF Crash, docs
<1>7. CASE UNCHANGED vars
  BY <1>7 DEF vars
<1>8. QED
  BY <1>1, <1>2, <1>3, <1>4, <1>5, <1>6, <1>7 DEF Next

\* What a cancel withdrew stays withdrawn.
LEMMA CancelStep ==
    ASSUME TypeOK, CancelStopsTheJob, HandlerHoldsTheJob, RequestHoldsItsCause, NothingBeforeCreate, [Next]_vars
    PROVE  CancelStopsTheJob'
<1>. USE DEF TypeOK, CancelStopsTheJob, Cancels
<1>1. ASSUME NEW g \in Gens, Create(g) PROVE CancelStopsTheJob'
  <2>. USE DEF CreateVars, docs, Add, MoveTo, BullJob
  <2>1. CASE Insert(g)
    BY <2>1 DEF Insert
  <2>2. CASE StoreQueueJob(g)
    BY <2>2 DEF StoreQueueJob
  <2>3. CASE AddToQueue(g)
    BY <2>3 DEF AddToQueue
  <2>4. CASE LinkQueueJob(g)
    BY <2>4 DEF LinkQueueJob
  <2>5. CASE EnqueueFails(g)
    <3>1. CASE bull' = bull
      BY <2>5, <3>1 DEF EnqueueFails
    <3>2. CASE Add(g)
      BY <2>5, <3>2 DEF EnqueueFails
    <3>. QED
      BY <2>5, <3>1, <3>2 DEF EnqueueFails
  <2>6. CASE RollBack(g)
    BY <2>6 DEF RollBack
  <2>7. CASE RollBackFails(g)
    BY <2>7 DEF RollBackFails
  <2>. QED
    BY <1>1, <2>1, <2>2, <2>3, <2>4, <2>5, <2>6, <2>7 DEF Create
<1>2. ASSUME NEW g \in Gens, Work(g) PROVE CancelStopsTheJob'
  <2>. USE DEF WorkVars, WorkerTo, BullJob, Add, Activate, EndBackoff, RequeueStalled, FailStalled, Discard, Complete, FailAttempt, MoveTo
  <2>1. CASE PickUp(g)
    BY <2>1 DEF PickUp
  <2>2. CASE StartHandling(g)
    BY <2>2 DEF StartHandling
  <2>3. CASE MarkProcessingFails(g)
    BY <2>3 DEF MarkProcessingFails
  <2>4. CASE TriggerAccepted(g)
    BY <2>4 DEF TriggerAccepted
  <2>5. CASE TriggerFails(g)
    BY <2>5 DEF TriggerFails
  <2>6. CASE RecordRefusal(g)
    BY <2>6 DEF RecordRefusal
  <2>7. CASE TestLookup(g)
    BY <2>7 DEF TestLookup
  <2>8. CASE TestComplete(g)
    BY <2>8 DEF TestComplete
  <2>9. CASE TestFails(g)
    <3>1. /\ worker[g] # "idle" /\ UNCHANGED <<bull, req>>
          /\ \A h \in Gens : h # g => worker'[h] = worker[h]
      BY <2>9 DEF TestFails
    <3>2. bull[g].state # "removed"
      BY <3>1 DEF HandlerHoldsTheJob
    <3>3. \A q \in Requests : req[q].op # "none" => req[q].gen \in Gens
      BY DEF RequestHoldsItsCause
    <3>. QED
      BY <3>1, <3>2, <3>3 DEF Cancels
  <2>10. CASE TestEmit(g)
    BY <2>10 DEF TestEmit
  <2>11. CASE AttemptSucceeds(g)
    BY <2>11 DEF AttemptSucceeds
  <2>12. CASE AttemptFails(g)
    BY <2>12 DEF AttemptFails
  <2>13. CASE Backoff(g)
    BY <2>13 DEF Backoff
  <2>14. CASE Stall(g)
    <3>1. UNCHANGED <<req, worker>> /\ bull[g].state # "removed"
      BY <2>14 DEF Stall
    <3>2. \A h \in Gens : h # g => bull'[h] = bull[h]
      BY <2>14 DEF Stall
    <3>. QED
      BY <3>1, <3>2 DEF RequestHoldsItsCause
  <2>. QED
    BY <1>2, <2>1, <2>2, <2>3, <2>4, <2>5, <2>6, <2>7, <2>8, <2>9, <2>10, <2>11, <2>12, <2>13, <2>14 DEF Work
<1>3. ASSUME NEW g \in Gens, ApplyEvent(g) \/ EventLost(g) PROVE CancelStopsTheJob'
  BY <1>3 DEF ApplyEvent, EventLost, EventVars, ApplyEvent, EventLost
<1>4. ASSUME NEW r \in Requests, Receive(r) PROVE CancelStopsTheJob'
  <2>. USE EndedIsOver DEF Open, ReqVars, docs, Request
  <2>. PICK g \in Gens :
          \/ CancelCheck(r, g) \/ RemoveCheck(r, g) \/ QueueCancelCheck(r, g)
          \/ Patch(r, g) \/ CallbackFind(r, g)
    BY <1>4 DEF Receive
  <2>1. CASE CancelCheck(r, g)
    BY <2>1 DEF CancelCheck
  <2>2. CASE RemoveCheck(r, g)
    BY <2>2 DEF RemoveCheck
  <2>3. CASE QueueCancelCheck(r, g)
    BY <2>3 DEF QueueCancelCheck
  <2>4. CASE Patch(r, g)
    BY <2>4 DEF Patch
  <2>5. CASE CallbackFind(r, g)
    BY <2>5 DEF CallbackFind
  <2>. QED
    BY <2>1, <2>2, <2>3, <2>4, <2>5
<1>5. ASSUME NEW r \in Requests, Continue(r) PROVE CancelStopsTheJob'
  <2>. USE EndedIsOver DEF At, Answer, ReqVars, docs, Request, RequestHoldsItsCause, InQueue, Discard, MoveTo, RemoveThrows, HandlerHoldsTheJob, BullJob
  <2>1. CASE CancelWithdraw(r)
    <3>. DEFINE h == req[r].gen
    <3>1. h \in Gens /\ worker' = worker
      BY <2>1 DEF CancelWithdraw
    <3>2. \A g \in Gens : bull[g].state = "removed" => bull'[g].state = "removed"
      BY <2>1, <3>1 DEF CancelWithdraw
    <3>3. \A q \in Requests : q # r => req'[q] = req[q]
      BY <2>1 DEF CancelWithdraw
    <3>4. /\ req'[r].op \in Cancels
          /\ req'[r].stage \in {"withdrawn", "ok"} /\ req'[r].withdrew
          => req'[r].gen = h /\ bull'[h].state = "removed" /\ worker[h] = "idle"
      <4>1. CASE RemoveThrows(h)
        BY <2>1, <3>1, <4>1 DEF CancelWithdraw
      <4>2. CASE ~RemoveThrows(h)
        <5>1. req'[r] = Withdrawn(r, h) /\ Discard(h)
          BY <2>1, <4>2 DEF CancelWithdraw
        <5>2. InQueue(h) => bull'[h].state = "removed" /\ worker[h] = "idle"
          BY <3>1, <4>2, <5>1
        <5>3. req'[r].gen = h /\ req'[r].withdrew = (bull[h].state \notin {"none", "removed"})
          BY <5>1 DEF Withdrawn
        <5>. QED
          BY <5>2, <5>3
      <4>. QED
        BY <4>1, <4>2
    <3>. QED
      BY <3>1, <3>2, <3>3, <3>4
  <2>2. CASE CancelSave(r)
    BY <2>2 DEF CancelSave
  <2>3. CASE RemoveDelete(r)
    BY <2>3 DEF RemoveDelete
  <2>4. CASE QueueCancelWithdraw(r)
    <3>. DEFINE h == req[r].gen
    <3>1. h \in Gens /\ worker' = worker
      BY <2>4 DEF QueueCancelWithdraw
    <3>2. \A g \in Gens : bull[g].state = "removed" => bull'[g].state = "removed"
      BY <2>4, <3>1 DEF QueueCancelWithdraw
    <3>3. \A q \in Requests : q # r => req'[q] = req[q]
      BY <2>4 DEF QueueCancelWithdraw
    <3>4. /\ req'[r].op \in Cancels
          /\ req'[r].stage \in {"withdrawn", "ok"} /\ req'[r].withdrew
          => req'[r].gen = h /\ bull'[h].state = "removed" /\ worker[h] = "idle"
      <4>1. CASE RemoveThrows(h)
        BY <2>4, <3>1, <4>1 DEF QueueCancelWithdraw
      <4>2. CASE ~RemoveThrows(h)
        <5>1. req'[r] = Withdrawn(r, h) /\ Discard(h)
          BY <2>4, <4>2 DEF QueueCancelWithdraw
        <5>2. InQueue(h) => bull'[h].state = "removed" /\ worker[h] = "idle"
          BY <3>1, <4>2, <5>1
        <5>3. req'[r].gen = h /\ req'[r].withdrew = (bull[h].state \notin {"none", "removed"})
          BY <5>1 DEF Withdrawn
        <5>. QED
          BY <5>2, <5>3
      <4>. QED
        BY <4>1, <4>2
    <3>. QED
      BY <3>1, <3>2, <3>3, <3>4
  <2>5. CASE QueueCancelSave(r)
    BY <2>5 DEF QueueCancelSave
  <2>6. CASE CallbackWrite(r)
    BY <2>6 DEF CallbackWrite
  <2>7. CASE CallbackEmit(r)
    BY <2>7 DEF CallbackEmit
  <2>8. CASE RequestFails(r)
    BY <2>8 DEF RequestFails
  <2>. QED
    BY <1>5, <2>1, <2>2, <2>3, <2>4, <2>5, <2>6, <2>7, <2>8 DEF Continue
<1>6. CASE Crash
  <2>1. \A r \in Requests : req'[r].stage # "ended" => req'[r] = req[r]
    BY <1>6, EndedIsOver DEF Crash
  <2>2. bull' = bull /\ \A g \in Gens : worker'[g] = "idle"
    BY <1>6 DEF Crash, docs
  <2>3. \A r \in Requests : req[r].op # "none" => req[r].gen \in Gens
    BY DEF RequestHoldsItsCause
  <2>. QED
    BY <2>1, <2>2, <2>3
<1>7. CASE UNCHANGED vars
  BY <1>7 DEF vars
<1>8. QED
  BY <1>1, <1>2, <1>3, <1>4, <1>5, <1>6, <1>7 DEF Next

\* Every trigger is paid for by an attempt or a stall, or owed by the current one.
LEMMA BudgetStep ==
    ASSUME TypeOK, TriggersArePaidFor, HandlerHoldsTheJob, RequestHoldsItsCause, NothingBeforeCreate, [Next]_vars
    PROVE  TriggersArePaidFor'
<1>. USE DEF TypeOK, TriggersArePaidFor
<1>1. ASSUME NEW g \in Gens, Create(g) PROVE TriggersArePaidFor'
  <2>. USE DEF CreateVars, docs, Add, MoveTo, BullJob
  <2>1. CASE Insert(g)
    BY <2>1 DEF Insert
  <2>2. CASE StoreQueueJob(g)
    BY <2>2 DEF StoreQueueJob
  <2>3. CASE AddToQueue(g)
    BY <2>3 DEF AddToQueue
  <2>4. CASE LinkQueueJob(g)
    BY <2>4 DEF LinkQueueJob
  <2>5. CASE EnqueueFails(g)
    BY <2>5 DEF EnqueueFails
  <2>6. CASE RollBack(g)
    BY <2>6 DEF RollBack
  <2>7. CASE RollBackFails(g)
    BY <2>7 DEF RollBackFails
  <2>. QED
    BY <1>1, <2>1, <2>2, <2>3, <2>4, <2>5, <2>6, <2>7 DEF Create
<1>2. ASSUME NEW g \in Gens, Work(g) PROVE TriggersArePaidFor'
  <2>. USE DEF WorkVars, WorkerTo, BullJob, Accept, HandlerHoldsTheJob, Add, Activate, EndBackoff, RequeueStalled, FailStalled, Discard, Complete, FailAttempt, MoveTo
  <2>1. CASE PickUp(g)
    BY <2>1 DEF PickUp
  <2>2. CASE StartHandling(g)
    BY <2>2 DEF StartHandling
  <2>3. CASE MarkProcessingFails(g)
    BY <2>3 DEF MarkProcessingFails
  <2>4. CASE TriggerAccepted(g)
    BY <2>4 DEF TriggerAccepted
  <2>5. CASE TriggerFails(g)
    BY <2>5 DEF TriggerFails
  <2>6. CASE RecordRefusal(g)
    BY <2>6 DEF RecordRefusal
  <2>7. CASE TestLookup(g)
    BY <2>7 DEF TestLookup
  <2>8. CASE TestComplete(g)
    BY <2>8 DEF TestComplete
  <2>9. CASE TestFails(g)
    BY <2>9 DEF TestFails
  <2>10. CASE TestEmit(g)
    BY <2>10 DEF TestEmit
  <2>11. CASE AttemptSucceeds(g)
    BY <2>11 DEF AttemptSucceeds
  <2>12. CASE AttemptFails(g)
    BY <2>12 DEF AttemptFails
  <2>13. CASE Backoff(g)
    BY <2>13 DEF Backoff
  <2>14. CASE Stall(g)
    <3>1. UNCHANGED <<triggers, worker>> /\ worker[g] = "idle" /\ bull[g].state = "active"
      BY <2>14 DEF Stall
    <3>2. \A h \in Gens : h # g => bull'[h] = bull[h]
      BY <2>14 DEF Stall
    <3>3. CASE RequeueStalled(g)
      BY <3>1, <3>2, <3>3
    <3>4. CASE FailStalled(g)
      BY <3>1, <3>2, <3>4
    <3>. QED
      BY <2>14, <3>3, <3>4 DEF Stall
  <2>. QED
    BY <1>2, <2>1, <2>2, <2>3, <2>4, <2>5, <2>6, <2>7, <2>8, <2>9, <2>10, <2>11, <2>12, <2>13, <2>14 DEF Work
<1>3. ASSUME NEW g \in Gens, ApplyEvent(g) \/ EventLost(g) PROVE TriggersArePaidFor'
  BY <1>3 DEF ApplyEvent, EventLost, EventVars, ApplyEvent, EventLost
<1>4. ASSUME NEW r \in Requests, Receive(r) PROVE TriggersArePaidFor'
  <2>. USE DEF Open, ReqVars, docs
  <2>. PICK g \in Gens :
          \/ CancelCheck(r, g) \/ RemoveCheck(r, g) \/ QueueCancelCheck(r, g)
          \/ Patch(r, g) \/ CallbackFind(r, g)
    BY <1>4 DEF Receive
  <2>1. CASE CancelCheck(r, g)
    BY <2>1 DEF CancelCheck
  <2>2. CASE RemoveCheck(r, g)
    BY <2>2 DEF RemoveCheck
  <2>3. CASE QueueCancelCheck(r, g)
    BY <2>3 DEF QueueCancelCheck
  <2>4. CASE Patch(r, g)
    BY <2>4 DEF Patch
  <2>5. CASE CallbackFind(r, g)
    BY <2>5 DEF CallbackFind
  <2>. QED
    BY <2>1, <2>2, <2>3, <2>4, <2>5
<1>5. ASSUME NEW r \in Requests, Continue(r) PROVE TriggersArePaidFor'
  <2>. USE DEF ReqVars, docs, At, RequestHoldsItsCause, InQueue, Discard, MoveTo, RemoveThrows, HandlerHoldsTheJob, BullJob, BullState
  <2>1. CASE CancelWithdraw(r)
    BY <2>1 DEF CancelWithdraw
  <2>2. CASE CancelSave(r)
    BY <2>2 DEF CancelSave
  <2>3. CASE RemoveDelete(r)
    BY <2>3 DEF RemoveDelete
  <2>4. CASE QueueCancelWithdraw(r)
    BY <2>4 DEF QueueCancelWithdraw
  <2>5. CASE QueueCancelSave(r)
    BY <2>5 DEF QueueCancelSave
  <2>6. CASE CallbackWrite(r)
    BY <2>6 DEF CallbackWrite
  <2>7. CASE CallbackEmit(r)
    BY <2>7 DEF CallbackEmit
  <2>8. CASE RequestFails(r)
    BY <2>8 DEF RequestFails
  <2>. QED
    BY <1>5, <2>1, <2>2, <2>3, <2>4, <2>5, <2>6, <2>7, <2>8 DEF Continue
<1>6. CASE Crash
  BY <1>6 DEF Crash, docs
<1>7. CASE UNCHANGED vars
  BY <1>7 DEF vars
<1>8. QED
  BY <1>1, <1>2, <1>3, <1>4, <1>5, <1>6, <1>7 DEF Next

\* The external API accepts no record more often than its attempts and stalls allow.
LEMMA TriggerStep ==
    ASSUME TypeOK, HandlerHoldsTheJob, TriggersArePaidFor, TriggerBudget, [Next]_vars
    PROVE  TriggerBudget'
<1>. SUFFICES ASSUME NEW g \in Gens
              PROVE  triggers'[g] <= MaxAttempts + MaxStalls
  BY DEF TriggerBudget
<1>1. CASE triggers'[g] = triggers[g]
  BY <1>1 DEF TriggerBudget
<1>2. CASE worker[g] = "marked" /\ triggers'[g] = triggers[g] + 1
  <2>1. bull[g].attemptsMade \in 0..MaxAttempts /\ bull[g].stalls \in 0..MaxStalls
    BY DEF TypeOK, BullJob
  <2>2. bull[g].attemptsMade < MaxAttempts
    BY <1>2 DEF HandlerHoldsTheJob, TriggersArePaidFor
  <2>3. triggers[g] <= bull[g].attemptsMade + bull[g].stalls
    BY <1>2 DEF TriggersArePaidFor
  <2>. QED
    BY <1>2, <2>1, <2>2, <2>3 DEF TypeOK
<1>. QED
  BY <1>1, <1>2, CausesGrow

-----------------------------------------------------------------------------
(* The invariant holds.                                                    *)

\* The initial states satisfy the inductive invariant: no record exists anywhere.
LEMMA InitIInv == Init => IInv
<1>. SUFFICES ASSUME Init PROVE IInv
  OBVIOUS
<1>. USE DEF Init, BullInit, NoBullJob
<1>1. TypeOK
  <2>1. NoJob \in JobDoc /\ NoBullJob \in BullJob /\ NoRequest \in Request
    BY DEF NoJob, JobDoc, BullJob, BullState, NoRequest, Request, AllOps, Stage
  <2>. QED
    BY <2>1 DEF TypeOK, GenState, GenerationStatus, CreatorPc, WorkerPc
<1>2. NothingBeforeCreate /\ HandlerHoldsTheJob /\ FailedCreateLeavesNothing
  BY DEF NothingBeforeCreate, HandlerHoldsTheJob, FailedCreateLeavesNothing
<1>3. CompletionFollowsAcceptance
  BY DEF CompletionFollowsAcceptance, NoJob
<1>4. RequestHoldsItsCause /\ CancelStopsTheJob
  BY DEF RequestHoldsItsCause, CancelStopsTheJob, Cancels, NoRequest
<1>5. StatusHasCause /\ OwnerIsToldTheVerdict
  BY DEF StatusHasCause, OwnerIsToldTheVerdict, GenerationStatus
<1>6. TriggersArePaidFor /\ TriggerBudget
  BY DEF TriggersArePaidFor, TriggerBudget
<1>. QED
  BY <1>1, <1>2, <1>3, <1>4, <1>5, <1>6 DEF IInv

\* Every step of every actor keeps it.
LEMMA NextIInv == IInv /\ [Next]_vars => IInv'
<1>. SUFFICES ASSUME IInv, [Next]_vars PROVE IInv'
  OBVIOUS
<1>1. AttemptsRemain
  BY DEF IInv, TriggersArePaidFor, AttemptsRemain
<1>. USE DEF IInv
<1>2. TypeOK'
  BY <1>1, TypeStep
<1>3. NothingBeforeCreate' /\ FailedCreateLeavesNothing'
  BY CreateStep
<1>4. HandlerHoldsTheJob'
  BY HandlerStep
<1>5. CompletionFollowsAcceptance'
  BY CompletionStep
<1>6. RequestHoldsItsCause'
  BY RequestStep
<1>7. StatusHasCause' /\ OwnerIsToldTheVerdict'
  BY CauseStep
<1>8. CancelStopsTheJob'
  BY CancelStep
<1>9. TriggersArePaidFor'
  BY BudgetStep
<1>10. TriggerBudget'
  BY TriggerStep
<1>. QED
  BY <1>2, <1>3, <1>4, <1>5, <1>6, <1>7, <1>8, <1>9, <1>10

\* The inductive invariant holds in every reachable state, whatever the constants are.
THEOREM InductiveInvariant == Spec => []IInv
BY InitIInv, NextIInv, PTL DEF Spec

\* Type correctness; in particular no job makes more attempts than it has.
THEOREM TypeCorrect == Spec => []TypeOK
<1>1. IInv => TypeOK
  BY DEF IInv
<1>. QED
  BY <1>1, InductiveInvariant, PTL

\* When GenerationService.create throws and its catch's findByIdAndDelete was answered, its
\* generation is deleted and stays so.  (When that delete is rejected too, create throws its
\* error and the document may stay: FailedCreateIsRolledBack in GenerationQueue fails.)
THEOREM RollBackIsFinal == Spec => []FailedCreateLeavesNothing
<1>1. IInv => FailedCreateLeavesNothing
  BY DEF IInv
<1>. QED
  BY <1>1, InductiveInvariant, PTL

\* A cancel that withdrew its job and went on has stopped it for good.
THEOREM CancelIsEffective == Spec => []CancelStopsTheJob
<1>1. IInv => CancelStopsTheJob
  BY DEF IInv
<1>. QED
  BY <1>1, InductiveInvariant, PTL

\* The external API accepts a record at most once per attempt and once per stall.
THEOREM TriggersAreBounded == Spec => []TriggerBudget
<1>1. IInv => TriggerBudget
  BY DEF IInv
<1>. QED
  BY <1>1, InductiveInvariant, PTL

\* No generation shows a status that nothing justified.
THEOREM StatusesAreJustified == Spec => []StatusHasCause
<1>1. IInv => StatusHasCause
  BY DEF IInv
<1>. QED
  BY <1>1, InductiveInvariant, PTL

\* A QueueJob reads completed only after the external API accepted its record.
THEOREM CompletedJobsWereAccepted == Spec => []QueueJobCompletedMeansAccepted
<1>1. IInv => QueueJobCompletedMeansAccepted
  BY DEF IInv, CompletionFollowsAcceptance, QueueJobCompletedMeansAccepted
<1>. QED
  BY <1>1, InductiveInvariant, PTL

\* The owner's socket room hears only verdicts that were reported.
THEOREM EmitsAreTruthful == Spec => []OwnerIsToldTheVerdict
<1>1. IInv => OwnerIsToldTheVerdict
  BY DEF IInv
<1>. QED
  BY <1>1, InductiveInvariant, PTL

-----------------------------------------------------------------------------
(* GenerationQueue implements GenerationPromise: every step of the queue,  *)
(* of the worker, of a callback, of a request or of a crash is a step of   *)
(* the promise, or leaves what the promise speaks of alone.                *)

\* Which jobs have been taken out of the queue: what the promise calls stopped.
Stopped == [g \in Gens |-> bull[g].state = "removed"]

PromiseVars == <<gen, causes, triggers, Stopped>>

\* A step that takes no job out of the queue leaves Stopped alone.
LEMMA StoppedFrame ==
    ASSUME \A h \in Gens : bull'[h].state = "removed" <=> bull[h].state = "removed"
    PROVE  Stopped' = Stopped
<1>1. \A h \in Gens : (bull'[h].state = "removed") = (bull[h].state = "removed")
  OBVIOUS
<1>. QED
  BY <1>1 DEF Stopped

\* Taking a job out of the queue, or finding nothing to take out, is Stop or a stutter.
LEMMA DiscardStops ==
    ASSUME TypeOK, NEW g \in Gens, Discard(g)
    PROVE  \/ Stopped' = Stopped
           \/ Stopped' = [Stopped EXCEPT ![g] = TRUE]
<1>1. CASE InQueue(g)
  <2>1. bull'[g].state = "removed" /\ \A h \in Gens : h # g => bull'[h] = bull[h]
    BY <1>1 DEF Discard, MoveTo, TypeOK, BullJob
  <2>. QED
    BY <2>1 DEF Stopped
<1>2. CASE ~InQueue(g)
  BY <1>2 DEF Discard, Stopped
<1>. QED
  BY <1>1, <1>2

\* A write of a justified status shows it, unless the document has gone.
LEMMA SetStatusShows ==
    ASSUME TypeOK, NEW g \in Gens, NEW s \in GenerationStatus, s \in causes[g], SetStatus(g, s),
           UNCHANGED <<causes, triggers, bull>>
    PROVE  Promise!Show(g, s) \/ UNCHANGED PromiseVars
<1>1. CASE Exists(g)
  BY <1>1 DEF SetStatus, Exists, Promise!Show, Stopped
<1>2. CASE ~Exists(g)
  BY <1>2 DEF SetStatus, PromiseVars, Stopped
<1>. QED
  BY <1>1, <1>2

\* A delete deletes, unless the document has gone.
LEMMA DeleteDocDeletes ==
    ASSUME TypeOK, NEW g \in Gens, DeleteDoc(g), UNCHANGED <<causes, triggers, bull>>
    PROVE  Promise!Delete(g) \/ UNCHANGED PromiseVars
<1>1. CASE Exists(g)
  BY <1>1 DEF DeleteDoc, Exists, Promise!Delete, Stopped
<1>2. CASE ~Exists(g)
  BY <1>2 DEF DeleteDoc, PromiseVars, Stopped
<1>. QED
  BY <1>1, <1>2

\* What may be learnt about a record that has been created is learnt by Learn.
LEMMA JustifyLearns ==
    ASSUME TypeOK, NEW g \in Gens, NEW s \in GenerationStatus, gen[g] # "none", Justify(g, s),
           UNCHANGED <<gen, triggers>>, Stopped' = Stopped
    PROVE  Promise!Learn(g, s)
BY DEF Justify, Promise!Learn, Promise!Justify, Stopped

\* A handler that may trigger has budget left, and its job has not been stopped.
LEMMA MarkedMayRun ==
    ASSUME IInv, NEW g \in Gens, worker[g] = "marked"
    PROVE  ~Stopped[g] /\ triggers[g] < MaxAttempts + MaxStalls
<1>. USE DEF IInv
<1>1. bull[g].state = "active"
  BY DEF HandlerHoldsTheJob
<1>2. triggers[g] <= bull[g].attemptsMade + bull[g].stalls /\ bull[g].attemptsMade < MaxAttempts
  BY <1>1 DEF TriggersArePaidFor
<1>3. bull[g].attemptsMade \in 0..MaxAttempts /\ bull[g].stalls \in 0..MaxStalls
  BY DEF TypeOK, BullJob
<1>4. triggers[g] < MaxAttempts + MaxStalls
  BY <1>2, <1>3, QueueAssumption DEF TypeOK
<1>5. ~Stopped[g]
  BY <1>1 DEF Stopped
<1>. QED
  BY <1>4, <1>5

\* create inserts the document once, and at most deletes it.
LEMMA CreateRefines ==
    ASSUME IInv, NEW g \in Gens, Create(g)
    PROVE  Promise!Next \/ UNCHANGED PromiseVars
<1>. USE DEF IInv, CreateVars, docs
<1>1. CASE Insert(g)
  <2>1. Promise!Submit(g)
    BY <1>1 DEF Insert, CreatorTo, NothingBeforeCreate, Promise!Submit, Stopped
  <2>. QED
    BY <2>1 DEF Promise!Next
<1>2. CASE StoreQueueJob(g) \/ LinkQueueJob(g) \/ RollBackFails(g)
  BY <1>2 DEF StoreQueueJob, LinkQueueJob, RollBackFails, PromiseVars, Stopped
<1>3. CASE AddToQueue(g) \/ EnqueueFails(g)
  <2>1. \A h \in Gens : bull'[h].state = "removed" <=> bull[h].state = "removed"
    <3>1. Add(g) => \A h \in Gens : bull'[h].state = "removed" <=> bull[h].state = "removed"
      BY DEF Add, MoveTo, TypeOK, BullJob
    <3>. QED
      BY <1>3, <3>1 DEF AddToQueue, EnqueueFails
  <2>2. Stopped' = Stopped
    BY <2>1, StoppedFrame
  <2>. QED
    BY <1>3, <2>2 DEF AddToQueue, EnqueueFails, PromiseVars
<1>4. CASE RollBack(g)
  <2>1. Promise!Delete(g) \/ UNCHANGED PromiseVars
    BY <1>4, DeleteDocDeletes DEF RollBack
  <2>. QED
    BY <2>1 DEF Promise!Next
<1>. QED
  BY <1>1, <1>2, <1>3, <1>4 DEF Create

\* The handler learns, shows and runs; the queue's own moves are invisible.
LEMMA WorkRefines ==
    ASSUME IInv, NEW g \in Gens, Work(g)
    PROVE  Promise!Next \/ UNCHANGED PromiseVars
<1>. USE DEF IInv, WorkVars, WorkerTo
<1>1. CASE PickUp(g)
  <2>1. bull[g].state = "waiting" /\ gen[g] # "none"
    BY <1>1 DEF PickUp, Activate, NothingBeforeCreate
  <2>2. \A h \in Gens : bull'[h].state = "removed" <=> bull[h].state = "removed"
    BY <1>1, <2>1 DEF PickUp, Activate, MoveTo, TypeOK, BullJob
  <2>3. Promise!Learn(g, "processing")
    BY <1>1, <2>1, <2>2, StoppedFrame, JustifyLearns DEF PickUp, GenerationStatus
  <2>. QED
    BY <2>3 DEF Promise!Next, GenerationStatus
<1>2. CASE StartHandling(g)
  <2>1. Promise!Show(g, "processing") \/ UNCHANGED PromiseVars
    BY <1>2, SetStatusShows
    DEF StartHandling, MarkProcessing, HandlerHoldsTheJob, GenerationStatus
  <2>. QED
    BY <2>1 DEF Promise!Next, GenerationStatus
<1>3. CASE TriggerAccepted(g)
  <2>1. Promise!Run(g)
    BY <1>3, MarkedMayRun DEF TriggerAccepted, Accept, Promise!Run, Stopped
  <2>. QED
    BY <2>1 DEF Promise!Next
<1>4. CASE TriggerFails(g)
  <2>1. CASE Accept(g)
    <3>1. Promise!Run(g)
      <4>1. Promise!Justify(g, "failed") /\ UNCHANGED <<gen, Stopped>>
        BY <1>4 DEF TriggerFails, Justify, Promise!Justify, Stopped
      <4>. QED
        BY <1>4, <2>1, <4>1, MarkedMayRun
        DEF TriggerFails, Accept, Promise!Run, Stopped, GenerationStatus
    <3>. QED
      BY <3>1 DEF Promise!Next
  <2>2. CASE UNCHANGED triggers
    <3>1. gen[g] # "none"
      BY <1>4 DEF TriggerFails, HandlerHoldsTheJob, NothingBeforeCreate
    <3>2. Promise!Learn(g, "failed")
      BY <1>4, <2>2, <3>1, JustifyLearns DEF TriggerFails, Stopped, GenerationStatus
    <3>. QED
      BY <3>2 DEF Promise!Next, GenerationStatus
  <2>. QED
    BY <1>4, <2>1, <2>2 DEF TriggerFails
<1>5. CASE RecordRefusal(g)
  <2>1. Promise!Show(g, "failed") \/ UNCHANGED PromiseVars
    <3>1. CASE MarkFailed(g)
      BY <1>5, <3>1, SetStatusShows
      DEF RecordRefusal, MarkFailed, HandlerHoldsTheJob, GenerationStatus
    <3>2. CASE UNCHANGED gen
      BY <1>5, <3>2 DEF RecordRefusal, PromiseVars, Stopped
    <3>. QED
      BY <1>5, <3>1, <3>2 DEF RecordRefusal
  <2>. QED
    BY <2>1 DEF Promise!Next, GenerationStatus
<1>6. CASE TestLookup(g)
  <2>1. CASE Exists(g)
    <3>1. Promise!Learn(g, "completed")
      BY <1>6, <2>1, JustifyLearns DEF TestLookup, Exists, Justify, Stopped, GenerationStatus
    <3>. QED
      BY <3>1 DEF Promise!Next, GenerationStatus
  <2>2. CASE ~Exists(g)
    BY <1>6, <2>2 DEF TestLookup, PromiseVars, Stopped
  <2>. QED
    BY <2>1, <2>2
<1>7. CASE TestComplete(g)
  <2>1. Promise!Show(g, "completed") \/ UNCHANGED PromiseVars
    BY <1>7, SetStatusShows
    DEF TestComplete, MarkCompleted, HandlerHoldsTheJob, GenerationStatus
  <2>. QED
    BY <2>1 DEF Promise!Next, GenerationStatus
<1>8. CASE TestEmit(g)
  BY <1>8 DEF TestEmit, PromiseVars, Stopped
<1>10. CASE TestFails(g)
  <2>1. CASE MarkCompleted(g) /\ worker[g] = "found"
    <3>1. Promise!Show(g, "completed") \/ UNCHANGED PromiseVars
      BY <1>10, <2>1, SetStatusShows
      DEF TestFails, MarkCompleted, HandlerHoldsTheJob, GenerationStatus
    <3>. QED
      BY <3>1 DEF Promise!Next, GenerationStatus
  <2>2. CASE UNCHANGED gen
    BY <1>10, <2>2 DEF TestFails, PromiseVars, Stopped
  <2>. QED
    BY <1>10, <2>1, <2>2 DEF TestFails
<1>11. CASE MarkProcessingFails(g)
  <2>1. CASE MarkProcessing(g)
    <3>1. Promise!Show(g, "processing") \/ UNCHANGED PromiseVars
      BY <1>11, <2>1, SetStatusShows
      DEF MarkProcessingFails, MarkProcessing, HandlerHoldsTheJob, GenerationStatus
    <3>. QED
      BY <3>1 DEF Promise!Next, GenerationStatus
  <2>2. CASE UNCHANGED gen
    BY <1>11, <2>2 DEF MarkProcessingFails, PromiseVars, Stopped
  <2>. QED
    BY <1>11, <2>1, <2>2 DEF MarkProcessingFails
<1>9. CASE AttemptSucceeds(g) \/ AttemptFails(g) \/ Backoff(g) \/ Stall(g)
  <2>1. UNCHANGED <<gen, causes, triggers>>
    BY <1>9 DEF AttemptSucceeds, AttemptFails, Backoff, Stall
  <2>2. \A h \in Gens : bull'[h].state = "removed" <=> bull[h].state = "removed"
    <3>. USE DEF MoveTo, TypeOK, BullJob, HandlerHoldsTheJob
    <3>1. CASE AttemptSucceeds(g)
      BY <3>1 DEF AttemptSucceeds, Complete
    <3>2. CASE AttemptFails(g)
      BY <3>2 DEF AttemptFails, FailAttempt
    <3>3. CASE Backoff(g)
      BY <3>3 DEF Backoff, EndBackoff
    <3>4. CASE Stall(g)
      <4>1. RequeueStalled(g) => \A h \in Gens : bull'[h].state = "removed" <=> bull[h].state = "removed"
        BY DEF RequeueStalled
      <4>2. FailStalled(g) => \A h \in Gens : bull'[h].state = "removed" <=> bull[h].state = "removed"
        BY DEF FailStalled
      <4>. QED
        BY <3>4, <4>1, <4>2 DEF Stall
    <3>. QED
      BY <1>9, <3>1, <3>2, <3>3, <3>4
  <2>3. Stopped' = Stopped
    BY <2>2, StoppedFrame
  <2>. QED
    BY <2>1, <2>3 DEF PromiseVars
<1>. QED
  BY <1>1, <1>2, <1>3, <1>4, <1>5, <1>6, <1>7, <1>8, <1>9, <1>10, <1>11
  DEF Work

\* A request that arrives learns, dictates, or is turned away.
LEMMA ReceiveRefines ==
    ASSUME IInv, NEW r \in Requests, Receive(r)
    PROVE  Promise!Next \/ UNCHANGED PromiseVars
<1>. USE DEF IInv, ReqVars, docs
<1>. PICK g \in Gens :
        \/ CancelCheck(r, g) \/ RemoveCheck(r, g) \/ QueueCancelCheck(r, g)
        \/ Patch(r, g) \/ CallbackFind(r, g)
  BY DEF Receive
<1>1. CASE CancelCheck(r, g)
  <2>1. CASE gen[g] = "pending" /\ Justify(g, "cancelled")
    <3>1. Promise!Learn(g, "cancelled")
      BY <1>1, <2>1, JustifyLearns DEF CancelCheck, Stopped, GenerationStatus
    <3>. QED
      BY <3>1 DEF Promise!Next, GenerationStatus
  <2>2. CASE UNCHANGED causes
    BY <1>1, <2>2 DEF CancelCheck, PromiseVars, Stopped
  <2>. QED
    BY <1>1, <2>1, <2>2 DEF CancelCheck
<1>2. CASE RemoveCheck(r, g) \/ QueueCancelCheck(r, g)
  BY <1>2 DEF RemoveCheck, QueueCancelCheck, PromiseVars, Stopped
<1>3. CASE Patch(r, g)
  <2>. PICK s \in GenerationStatus :
          /\ SetStatus(g, s)
          /\ IF Exists(g) THEN Justify(g, s) ELSE UNCHANGED causes
    BY <1>3 DEF Patch
  <2>1. CASE Exists(g)
    <3>1. Promise!Dictate(g, s)
      BY <1>3, <2>1
      DEF Patch, SetStatus, Exists, Justify, Promise!Dictate, Promise!Justify, Stopped
    <3>. QED
      BY <3>1 DEF Promise!Next
  <2>2. CASE ~Exists(g)
    BY <1>3, <2>2 DEF Patch, SetStatus, PromiseVars, Stopped
  <2>. QED
    BY <2>1, <2>2
<1>4. CASE CallbackFind(r, g)
  <2>1. gen[g] # "none"
    BY <1>4 DEF CallbackFind, NothingBeforeCreate, TypeOK
  <2>. PICK success \in BOOLEAN : Justify(g, Verdict(success))
    BY <1>4 DEF CallbackFind
  <2>2. Verdict(success) \in GenerationStatus
    BY DEF Verdict, GenerationStatus
  <2>3. Promise!Learn(g, Verdict(success))
    BY <1>4, <2>1, <2>2, JustifyLearns DEF CallbackFind, Stopped
  <2>. QED
    BY <2>2, <2>3 DEF Promise!Next
<1>. QED
  BY <1>1, <1>2, <1>3, <1>4

\* A request in flight stops, shows, deletes, or changes nothing the promise speaks of.
LEMMA ContinueRefines ==
    ASSUME IInv, NEW r \in Requests, Continue(r)
    PROVE  Promise!Next \/ UNCHANGED PromiseVars
<1>. USE DEF IInv, ReqVars, docs, At
<1>0. CASE RequestFails(r)
  BY <1>0 DEF RequestFails, PromiseVars, Stopped
<1>. SUFFICES ASSUME ~RequestFails(r) PROVE Promise!Next \/ UNCHANGED PromiseVars
  BY <1>0
<1>1. req[r].gen \in Gens
  BY DEF Continue, RequestHoldsItsCause, CancelWithdraw, CancelSave, RemoveDelete,
     QueueCancelWithdraw, QueueCancelSave, CallbackWrite, CallbackEmit
<1>. PICK g \in Gens : g = req[r].gen
  BY <1>1
<1>2. CASE CancelWithdraw(r) \/ QueueCancelWithdraw(r)
  <2>1. UNCHANGED <<gen, causes, triggers>> /\ (Discard(g) \/ UNCHANGED bull)
    BY <1>2 DEF CancelWithdraw, QueueCancelWithdraw
  <2>2. Stopped' = Stopped \/ Stopped' = [Stopped EXCEPT ![g] = TRUE]
    BY <2>1, DiscardStops DEF Stopped
  <2>3. UNCHANGED PromiseVars \/ Promise!Stop(g)
    BY <2>1, <2>2 DEF PromiseVars, Promise!Stop, Stopped
  <2>. QED
    BY <2>3 DEF Promise!Next
<1>3. CASE CancelSave(r)
  <2>1. Promise!Show(g, "cancelled") \/ UNCHANGED PromiseVars
    BY <1>3, SetStatusShows DEF CancelSave, RequestHoldsItsCause, GenerationStatus
  <2>. QED
    BY <2>1 DEF Promise!Next, GenerationStatus
<1>4. CASE RemoveDelete(r)
  <2>1. Promise!Delete(g) \/ UNCHANGED PromiseVars
    BY <1>4, DeleteDocDeletes DEF RemoveDelete
  <2>. QED
    BY <2>1 DEF Promise!Next
<1>5. CASE QueueCancelSave(r) \/ CallbackEmit(r)
  BY <1>5 DEF QueueCancelSave, CallbackEmit, PromiseVars, Stopped
<1>6. CASE CallbackWrite(r)
  <2>. DEFINE s == Verdict(req[r].success)
  <2>1. s \in causes[g] /\ s \in GenerationStatus
    BY <1>6 DEF CallbackWrite, RequestHoldsItsCause, Verdict, GenerationStatus
  <2>2. SetStatus(g, s) /\ UNCHANGED <<causes, triggers, bull>>
    BY <1>6 DEF CallbackWrite, MarkCompleted, MarkFailed, Verdict
  <2>. HIDE DEF s
  <2>3. Promise!Show(g, s) \/ UNCHANGED PromiseVars
    BY <2>1, <2>2, SetStatusShows
  <2>. QED
    BY <2>1, <2>3 DEF Promise!Next
<1>. QED
  BY <1>2, <1>3, <1>4, <1>5, <1>6 DEF Continue

\* Every step maps to a step of the promise or to a stutter.
LEMMA StepRefines == IInv /\ [Next]_vars => [Promise!Next]_(Promise!vars)
<1>. SUFFICES ASSUME IInv, [Next]_vars PROVE Promise!Next \/ UNCHANGED PromiseVars
  BY DEF Promise!vars, PromiseVars, Stopped
<1>1. ASSUME NEW g \in Gens, ApplyEvent(g) \/ EventLost(g) PROVE UNCHANGED PromiseVars
  BY <1>1 DEF ApplyEvent, EventLost, EventVars, PromiseVars, Stopped
<1>2. CASE Crash \/ UNCHANGED vars
  BY <1>2 DEF Crash, vars, docs, PromiseVars, Stopped
<1>. QED
  BY <1>1, <1>2, CreateRefines, WorkRefines, ReceiveRefines, ContinueRefines DEF Next

\* The whole machinery implements the promise, for every value of the constants.
THEOREM Refinement == Spec => ImplementsPromise
<1>1. Init => Promise!Init
  <2>. SUFFICES ASSUME Init PROVE Promise!Init
    OBVIOUS
  <2>1. \A g \in Gens : (bull[g].state = "removed") = FALSE
    BY DEF Init, BullInit, NoBullJob
  <2>. QED
    BY <2>1 DEF Init, Promise!Init
<1>. QED
  BY <1>1, StepRefines, InductiveInvariant, PTL DEF Spec, ImplementsPromise, Promise!Spec

\* No step of the promise brings a deleted generation back.
LEMMA PromiseKeepsDeleted ==
    ASSUME IInv, Promise!Next \/ UNCHANGED PromiseVars, NEW g \in Gens, gen[g] = "deleted"
    PROVE  gen'[g] = "deleted"
<1>1. CASE UNCHANGED PromiseVars
  BY <1>1 DEF PromiseVars
<1>2. CASE Promise!Next
  BY <1>2 DEF IInv, TypeOK, GenerationStatus, Promise!Next, Promise!Submit, Promise!Run,
     Promise!Stop, Promise!Delete, Promise!Learn, Promise!Show, Promise!Dictate
<1>. QED
  BY <1>1, <1>2

\* Once deleted, a generation stays deleted: it follows from the promise.
THEOREM DeletedStaysDeleted == Spec => DeletedForGood
<1>1. IInv /\ [Next]_vars => [\A g \in Gens : gen[g] = "deleted" => gen'[g] = "deleted"]_vars
  <2>. SUFFICES ASSUME IInv, [Next]_vars, NEW g \in Gens, gen[g] = "deleted"
                PROVE  gen'[g] = "deleted"
    OBVIOUS
  <2>1. Promise!Next \/ UNCHANGED PromiseVars
    BY StepRefines DEF Promise!vars, PromiseVars, Stopped
  <2>. QED
    BY <2>1, PromiseKeepsDeleted
<1>. QED
  BY <1>1, InductiveInvariant, PTL DEF Spec, DeletedForGood
=============================================================================
