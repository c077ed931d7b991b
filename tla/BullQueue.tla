------------------------------ MODULE BullQueue ------------------------------
(***************************************************************************)
(* The BullMQ queue the backend hands its jobs to, as the code in          *)
(* Config/queue/index.ts uses it: one job per record (the job id IS the    *)
(* record id), a worker that moves a waiting job to active, retries with a *)
(* backoff, recovery of a job whose worker died, and removal, which the    *)
(* library refuses for a job that is active.  BullMQ is not under src/;    *)
(* these operators are its contract.  They constrain `bull' only.          *)
(***************************************************************************)
EXTENDS Naturals

CONSTANTS
    Gens,         \* record ids, hence job ids
    MaxAttempts,  \* the job's `attempts' option
    MaxStalls     \* how often a stalled job is put back before it is failed

ASSUME QueueAssumption == MaxAttempts \in Nat \ {0} /\ MaxStalls \in Nat

VARIABLE bull     \* [Gens -> job in Redis]

BullState == {"none", "waiting", "delayed", "active", "completed", "failed", "removed"}

BullJob == [state : BullState, attemptsMade : 0..MaxAttempts, stalls : 0..MaxStalls]

NoBullJob == [state |-> "none", attemptsMade |-> 0, stalls |-> 0]

BullInit == bull = [g \in Gens |-> NoBullJob]

\* Present to getJob.
InQueue(g) == bull[g].state \notin {"none", "removed"}

MoveTo(g, s) == bull' = [bull EXCEPT ![g].state = s]

\* bullQueue.add(recordId, ...)
Add(g) == bull[g].state = "none" /\ MoveTo(g, "waiting")

Activate(g) == bull[g].state = "waiting" /\ MoveTo(g, "active")

\* The processor's promise resolved.
Complete(g) ==
    bull' = [bull EXCEPT ![g].state = "completed", ![g].attemptsMade = @ + 1]

\* The processor's promise rejected: back off and try again, or give up.
FailAttempt(g) ==
    bull' = [bull EXCEPT
                ![g].state = IF bull[g].attemptsMade + 1 < MaxAttempts
                             THEN "delayed" ELSE "failed",
                ![g].attemptsMade = @ + 1]

EndBackoff(g) == bull[g].state = "delayed" /\ MoveTo(g, "waiting")

\* The stalled-job check: an active job nobody holds the lock of.
RequeueStalled(g) ==
    /\ bull[g].state = "active"
    /\ bull[g].stalls < MaxStalls
    /\ bull' = [bull EXCEPT ![g].state = "waiting", ![g].stalls = @ + 1]

FailStalled(g) ==
    /\ bull[g].state = "active"
    /\ bull[g].stalls = MaxStalls
    /\ MoveTo(g, "failed")

\* job.remove() of an active job throws; removing a job that is gone is a no-op.
RemoveThrows(g) == bull[g].state = "active"

Discard(g) == IF InQueue(g) THEN MoveTo(g, "removed") ELSE UNCHANGED bull
=============================================================================
