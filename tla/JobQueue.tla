------------------------------- MODULE JobQueue -------------------------------
(***************************************************************************)
(* The durable job queue of ArcDB: the rows of the jobs table (claim,      *)
(* heartbeat, complete, fail and recoverStalled of JobsRepository and      *)
(* PostgresDurableJobStore) and the worker slots that execute the rows     *)
(* (DurableJobProcessor).                                                  *)
(*                                                                         *)
(* Time is abstracted to what the SQL guards compare with now(): a lease   *)
(* is "live" (lock_expires_at > now()), "expired" or "none" (NULL), and a  *)
(* waiting row is due or not yet due (available_at <= now()).  A lease may *)
(* expire at any moment, whatever the heartbeat does, so nothing below     *)
(* depends on clocks or on a worker's speed.                               *)
(***************************************************************************)
EXTENDS Integers

CONSTANTS
  Jobs,          \* identities of job rows: (tenant, project, type, idempotency key)
  Slots,         \* execution slots, one per concurrent BullMQ notification
  Workers,       \* worker ids, what locked_by holds
  WorkerOf,      \* the worker process a slot belongs to; slots may share one
  MaxAttempts,   \* max_attempts of every row
  NoJob,         \* what an idle slot executes
  NoWorker       \* locked_by IS NULL

ASSUME QueueAssumption ==
  /\ WorkerOf \in [Slots -> Workers]
  /\ MaxAttempts \in Nat \ {0}
  /\ NoJob \notin Jobs
  /\ NoWorker \notin Workers

VARIABLES
  jobs,    \* the jobs table
  slots    \* what each slot of each worker process is executing

queueVars == <<jobs, slots>>

Statuses == {"ABSENT", "PENDING", "RUNNING", "SUCCEEDED", "FAILED", "DEAD_LETTER"}
Waiting  == {"PENDING", "FAILED"}
Final    == {"SUCCEEDED", "DEAD_LETTER"}

JobRow == [status   : Statuses,
           attempts : 0..MaxAttempts,
           token    : Nat,
           lockedBy : Workers \cup {NoWorker},
           lease    : {"none", "live", "expired"},
           due      : BOOLEAN]

\* How the handler a slot runs has ended, if it has.
Outcomes == {"succeeded", "retryable", "permanent"}

SlotState == [job : Jobs \cup {NoJob}, token : Nat,
              phase : {"idle", "running"} \cup Outcomes]

Idle      == [job |-> NoJob, token |-> 0, phase |-> "idle"]
AbsentJob == [status |-> "ABSENT", attempts |-> 0, token |-> 0,
              lockedBy |-> NoWorker, lease |-> "none", due |-> FALSE]

-----------------------------------------------------------------------------
(* Operators named ...Without..., ...Late, ...Kept or ...Reset are faulty  *)
(* variants of the definition that follows them.  No action uses them:     *)
(* they are the bugs each property is shown to exclude.                    *)

(* The guard every later statement of an execution repeats: the row is     *)
(* RUNNING, locked by this worker, under this fencing token, and its lease *)
(* has not run out.                                                        *)
FenceWithoutToken(j, w, t) ==
  jobs[j].status = "RUNNING" /\ jobs[j].lockedBy = w /\ jobs[j].lease = "live"

FenceCurrent(j, w, t) ==
  /\ jobs[j].status = "RUNNING"
  /\ jobs[j].lockedBy = w
  /\ jobs[j].token = t
  /\ jobs[j].lease = "live"

HoldsFence(s) ==
  /\ slots[s].job \in Jobs
  /\ FenceCurrent(slots[s].job, WorkerOf[s], slots[s].token)

Exhausted(j) == jobs[j].attempts >= MaxAttempts

Claimable(j) ==
  /\ jobs[j].status \in Waiting
  /\ jobs[j].due
  /\ ~Exhausted(j)

\* A row that stops running gives up its lock and its lease.
Released(j, status, due) ==
  [jobs[j] EXCEPT !.status = status, !.due = due,
                  !.lockedBy = NoWorker, !.lease = "none"]

\* Where a failed attempt leaves its row.
AfterFailureCountReset(j, due) ==
  IF Exhausted(j) THEN Released(j, "DEAD_LETTER", jobs[j].due)
                  ELSE [Released(j, "FAILED", due) EXCEPT !.attempts = 0]

AfterFailure(j, due) ==
  IF Exhausted(j) THEN Released(j, "DEAD_LETTER", jobs[j].due)
                  ELSE Released(j, "FAILED", due)

-----------------------------------------------------------------------------
Init ==
  /\ jobs = [j \in Jobs |-> AbsentJob]
  /\ slots = [s \in Slots |-> Idle]

\* enqueue: a row of the same key is returned as it is, never reset.
Enqueue(j) ==
  /\ jobs[j].status = "ABSENT"
  /\ jobs' = [jobs EXCEPT ![j].status = "PENDING", ![j].due = TRUE]
  /\ UNCHANGED slots

\* now() reaches available_at.
BecomeDue(j) ==
  /\ jobs[j].status \in Waiting
  /\ ~jobs[j].due
  /\ jobs' = [jobs EXCEPT ![j].due = TRUE]
  /\ UNCHANGED slots

\* claim: one attempt more, the next fencing token, a fresh lease.
Claim(s, j) ==
  /\ slots[s] = Idle
  /\ Claimable(j)
  /\ jobs' = [jobs EXCEPT ![j].status = "RUNNING",
                          ![j].attempts = @ + 1,
                          ![j].token = @ + 1,
                          ![j].lockedBy = WorkerOf[s],
                          ![j].lease = "live"]
  /\ slots' = [slots EXCEPT ![s] = [job |-> j, token |-> jobs[j].token + 1,
                                    phase |-> "running"]]

\* now() reaches lock_expires_at: the heartbeat came too late or not at all.
LeaseExpires(j) ==
  /\ jobs[j].lease = "live"
  /\ jobs' = [jobs EXCEPT ![j].lease = "expired"]
  /\ UNCHANGED slots

\* The handler settles, or its timeout aborts it (a retryable JobTimeoutError).
HandlerEnds(s, outcome) ==
  /\ slots[s].phase = "running"
  /\ slots' = [slots EXCEPT ![s].phase = outcome]

\* Any statement of a slot whose fence is gone matches no row: FENCE_LOST.
FenceLost(s) ==
  /\ slots[s] # Idle
  /\ ~HoldsFence(s)
  /\ slots' = [slots EXCEPT ![s] = Idle]
  /\ UNCHANGED jobs

\* A process crash, or a heartbeat that could not reach PostgreSQL: the slot
\* forgets its execution, the row keeps its lease until that runs out.
Abandon(s) ==
  /\ slots[s] # Idle
  /\ slots' = [slots EXCEPT ![s] = Idle]
  /\ UNCHANGED jobs

\* The row a slot runs, released with this status.
Settled(s, status) ==
  [jobs EXCEPT ![slots[s].job] = Released(slots[s].job, status, jobs[slots[s].job].due)]

\* complete
Complete(s) ==
  /\ slots[s].phase = "succeeded"
  /\ HoldsFence(s)
  /\ jobs' = Settled(s, "SUCCEEDED")
  /\ slots' = [slots EXCEPT ![s] = Idle]

\* complete throws: its transaction rolled back, or committed and only the
\* answer was lost.  The slot goes on to fail the job it believes unfinished.
\* Only a serialization error, which never commits, counts as retryable.
CompleteThrows(s) ==
  /\ slots[s].phase = "succeeded"
  /\ \/ /\ slots' = [slots EXCEPT ![s].phase = "permanent"]
        /\ \/ UNCHANGED jobs
           \/ HoldsFence(s) /\ jobs' = Settled(s, "SUCCEEDED")
     \/ /\ slots' = [slots EXCEPT ![s].phase = "retryable"]
        /\ UNCHANGED jobs

\* fail: a retryable error waits for its backoff, or is out of attempts.
FailRetryable(s) ==
  /\ slots[s].phase = "retryable"
  /\ HoldsFence(s)
  /\ jobs' = [jobs EXCEPT ![slots[s].job] = AfterFailure(slots[s].job, FALSE)]
  /\ slots' = [slots EXCEPT ![s] = Idle]

\* fail: a permanent error is a dead letter whatever attempts are left.
FailPermanent(s) ==
  /\ slots[s].phase = "permanent"
  /\ HoldsFence(s)
  /\ jobs' = Settled(s, "DEAD_LETTER")
  /\ slots' = [slots EXCEPT ![s] = Idle]

Stalled == {j \in Jobs : jobs[j].status = "RUNNING" /\ jobs[j].lease = "expired"}

\* recoverStalled: one statement over the stalled rows that nobody has locked.
RecoverStalled(S) ==
  /\ S # {} /\ S \subseteq Stalled
  /\ jobs' = [j \in Jobs |-> IF j \in S THEN AfterFailure(j, TRUE) ELSE jobs[j]]
  /\ UNCHANGED slots

-----------------------------------------------------------------------------
SlotStep(s) ==
  \/ \E j \in Jobs : Claim(s, j)
  \/ \E outcome \in Outcomes : HandlerEnds(s, outcome) /\ UNCHANGED jobs
  \/ Complete(s) \/ CompleteThrows(s)
  \/ FailRetryable(s) \/ FailPermanent(s)
  \/ FenceLost(s)

Next ==
  \/ \E j \in Jobs : Enqueue(j) \/ BecomeDue(j) \/ LeaseExpires(j)
  \/ \E s \in Slots : SlotStep(s) \/ Abandon(s)
  \/ \E S \in SUBSET Jobs : RecoverStalled(S)

\* A lease nobody renews: no slot holds the fence of this row any more.
Orphaned(j) == \A s \in Slots : slots[s].job = j => ~HoldsFence(s)

(* A slot that runs keeps running: the event loop drives the handler, its  *)
(* timeout and the final statement, and a slot that is free takes a        *)
(* notification, which the sweep repeats every poll interval.  Time        *)
(* passes: a backoff ends, and a lease runs out unless a heartbeat renews  *)
(* it.  The same sweep recovers a stalled row.  Nothing forces a client to *)
(* enqueue, and nothing forces a slot to be abandoned or not to be.        *)
Fairness ==
  /\ \A s \in Slots : WF_queueVars(SlotStep(s))
  /\ \A j \in Jobs : /\ WF_queueVars(BecomeDue(j))
                     /\ WF_queueVars(Orphaned(j) /\ LeaseExpires(j))
                     /\ WF_queueVars(j \in Stalled /\ RecoverStalled(Stalled))

SafetySpec == Init /\ [][Next]_queueVars
Spec == SafetySpec /\ Fairness

-----------------------------------------------------------------------------
TypeOK ==
  /\ jobs \in [Jobs -> JobRow]
  /\ slots \in [Slots -> SlotState]

\* A stale worker cannot act: of all the slots that ever claimed a row, two of
\* one process included, at most one passes the guard of complete, fail and
\* of every mutation of an effect.
SingleHolder ==
  \A s1, s2 \in Slots :
    HoldsFence(s1) /\ HoldsFence(s2) /\ slots[s1].job = slots[s2].job => s1 = s2

\* A row that waits can still be claimed: fail and recoverStalled agree with
\* claim on which attempt is the last one, so no row is parked in PENDING or
\* FAILED with nobody ever allowed to take it.
NoStrandedRow ==
  \A j \in Jobs : jobs[j].status \in Waiting => jobs[j].attempts < MaxAttempts

\* The lock columns say whether an execution is owed: a row has a locker and
\* a lease exactly while it is RUNNING (what recoverStalled looks for).
LockedIffRunning ==
  \A j \in Jobs :
    /\ jobs[j].status = "RUNNING" <=> jobs[j].lockedBy # NoWorker
    /\ jobs[j].status = "RUNNING" <=> jobs[j].lease # "none"

\* A final row is never reopened, not by a late slot, a repeated enqueue or
\* the sweeper, and a row's fencing token never goes back.
FinalRowsKept ==
  \A j \in Jobs : /\ jobs[j].status \in Final => jobs'[j] = jobs[j]
                  /\ jobs'[j].token >= jobs[j].token

FinalIsFinal == [][FinalRowsKept]_jobs

-----------------------------------------------------------------------------
\* The row of a job, seen as the stage of its contract.
Stage(j) ==
  CASE jobs[j].status = "ABSENT"      -> "absent"
    [] jobs[j].status \in Waiting     -> "waiting"
    [] jobs[j].status = "RUNNING"     -> "attempt"
    [] jobs[j].status = "SUCCEEDED"   -> "done"
    [] jobs[j].status = "DEAD_LETTER" -> "dead"

Contract(j) == INSTANCE JobContract
  WITH Limit <- MaxAttempts, stage <- Stage(j), tries <- jobs[j].attempts

\* Every row of the table keeps the contract, however many slots, crashes,
\* expired leases and sweeps take part: each step of the queue is, for each
\* row, a step of the contract or none.
ContractStep(j) ==
  [Contract(j)!ContractNext]_(Contract(j)!contractVars)

ContractsBegin == \A j \in Jobs : Contract(j)!ContractInit
ContractsStep  == \A j \in Jobs : ContractStep(j)

KeepsContract == ContractsBegin /\ [][ContractsStep]_queueVars

\* Whatever crashes, leases and timeouts do, an enqueued job ends in SUCCEEDED
\* or in the dead-letter state.
EveryJobSettles == \A j \in Jobs : Contract(j)!ContractProgress
===============================================================================
