---------------------------- MODULE WorkerRuntime ----------------------------
(***************************************************************************)
(* What drives the job queue: the worker processes (WorkerServiceRuntime,  *)
(* server.ts), the periodic sweep (#tick) and the notifications in Redis   *)
(* (BullMqNotifier).  A slot never looks for work by itself: it takes a    *)
(* notification, and claims whatever job of that tenant is due.            *)
(*                                                                         *)
(* Redis may lose every notification and be away for a while, a process    *)
(* may die or be closed at any time, a sweep or a claim may meet a         *)
(* database error: MaxFaults bounds how often, over a whole behaviour.     *)
(***************************************************************************)
EXTENDS JobQueue

CONSTANTS
  TenantOf,    \* the tenant a job belongs to
  NoTenant,    \* what a slot that is not notifying notifies about
  MaxFaults    \* bound on crashes, shutdowns, outages and database errors

ASSUME RuntimeAssumption ==
  /\ \A j \in Jobs : TenantOf[j] # NoTenant
  /\ MaxFaults \in Nat

VARIABLES
  wakes,     \* tenants with a notification in the BullMQ queue, however many
  redisUp,   \* whether Redis answers
  proc,      \* worker -> "up", "closing" or "down"
  sweeps,    \* worker -> its #tick, and the wakeups it has yet to notify
  telling,   \* slot -> the tenant of the retry it is notifying, or NoTenant
  faults     \* how many faults have happened

driveVars   == <<wakes, redisUp, proc, sweeps, telling, faults>>
runtimeVars == <<queueVars, driveVars>>

Tenants   == {TenantOf[j] : j \in Jobs}
AtRest    == [at |-> "rest", tenants |-> {}]
SlotsOf(w) == {s \in Slots : WorkerOf[s] = w}

\* A slot that may take a notification: its BullMQ worker is not closing, and
\* the last notification it took has been processed to the end.
Free(s) == slots[s] = Idle /\ telling[s] = NoTenant /\ proc[WorkerOf[s]] = "up"

Fault == faults < MaxFaults /\ faults' = faults + 1

-----------------------------------------------------------------------------
RuntimeInit ==
  /\ Init
  /\ wakes = {} /\ redisUp = TRUE /\ faults = 0
  /\ proc = [w \in Workers |-> "up"]
  /\ sweeps = [w \in Workers |-> AtRest]
  /\ telling = [s \in Slots |-> NoTenant]

\* The database side: the API inserts a row and notifies nobody, and the
\* passing of time makes a row due or a lease expire.
RowsChange ==
  /\ \E j \in Jobs : Enqueue(j) \/ BecomeDue(j) \/ LeaseExpires(j)
  /\ UNCHANGED driveVars

\* What is left in the queue when one notification of tenant t is taken:
\* there may have been several.
Taken(t) == wakes' \in {wakes, wakes \ {t}}

\* processWakeup: the hint is ignored, any due job of the tenant is claimed,
\* or none is due any more (NO_JOB).
TakeWake(s, t) ==
  /\ Free(s) /\ redisUp
  /\ t \in wakes /\ Taken(t)
  /\ \/ \E j \in Jobs : TenantOf[j] = t /\ Claim(s, j)
     \/ /\ \A j \in Jobs : TenantOf[j] = t => ~Claimable(j)
        /\ UNCHANGED queueVars
  /\ UNCHANGED <<redisUp, proc, sweeps, telling, faults>>

\* claim throws: a notification is tried once (attempts: 1), so it is gone.
WakeFails(s, t) ==
  /\ Free(s) /\ redisUp
  /\ t \in wakes /\ Taken(t)
  /\ Fault
  /\ UNCHANGED <<queueVars, redisUp, proc, sweeps, telling>>

\* The steps of an execution that end without a word to anybody.
Execute(s) ==
  /\ \/ \E outcome \in Outcomes : HandlerEnds(s, outcome) /\ UNCHANGED jobs
     \/ Complete(s) \/ CompleteThrows(s) \/ FailPermanent(s) \/ FenceLost(s)
  /\ UNCHANGED driveVars

\* fail answers RETRY_SCHEDULED: the slot then notifies about the retry, and
\* does not return before Redis has taken that.
ScheduleRetry(s) ==
  LET j == slots[s].job IN
  /\ FailRetryable(s)
  /\ telling' = [telling EXCEPT ![s] = IF jobs'[j].status = "FAILED" THEN TenantOf[j] ELSE @]
  /\ UNCHANGED <<wakes, redisUp, proc, sweeps, faults>>

\* The delay of the notification is not kept: one that is taken early, which
\* two clocks allow, finds nothing due.
Tell(s) ==
  /\ telling[s] # NoTenant /\ redisUp
  /\ wakes' = wakes \cup {telling[s]}
  /\ telling' = [telling EXCEPT ![s] = NoTenant]
  /\ UNCHANGED <<queueVars, redisUp, proc, sweeps, faults>>

\* A heartbeat cannot reach PostgreSQL, and the slot gives its job up.
GiveUp(s) == Abandon(s) /\ UNCHANGED driveVars

\* BullMQ takes a notification that is being processed for stalled.
Redeliver(s) ==
  /\ slots[s] # Idle /\ redisUp
  /\ wakes' = wakes \cup {TenantOf[slots[s].job]}
  /\ UNCHANGED <<queueVars, redisUp, proc, sweeps, telling, faults>>

-----------------------------------------------------------------------------
\* #tick, one action per transaction.  A tick that has not ended keeps the
\* next one from starting (#tickRunning), whatever it waits for.
Recover(w) ==
  /\ proc[w] = "up" /\ sweeps[w].at = "rest"
  /\ RecoverStalled(Stalled) \/ (Stalled = {} /\ UNCHANGED queueVars)
  /\ sweeps' = [sweeps EXCEPT ![w] =
       [at |-> "recovered",
        tenants |-> {TenantOf[j] : j \in {i \in Stalled : jobs'[i].status = "FAILED"}}]]
  /\ UNCHANGED <<wakes, redisUp, proc, telling, faults>>

RunnableNew  == {j \in Jobs : Claimable(j) /\ jobs[j].status = "PENDING"}

Runnable == {j \in Jobs : Claimable(j)}

ListRunnable(w) ==
  /\ sweeps[w].at = "recovered"
  /\ sweeps' = [sweeps EXCEPT ![w] =
       [at |-> "listed", tenants |-> @.tenants \cup {TenantOf[j] : j \in Runnable}]]
  /\ UNCHANGED <<queueVars, wakes, redisUp, proc, telling, faults>>

\* Without Redis the queue.add of ioredis waits for ever (maxRetriesPerRequest
\* is null), and the sweep of this worker with it.
Notify(w) ==
  /\ sweeps[w].at = "listed"
  /\ redisUp \/ sweeps[w].tenants = {}
  /\ wakes' = wakes \cup sweeps[w].tenants
  /\ sweeps' = [sweeps EXCEPT ![w] = AtRest]
  /\ UNCHANGED <<queueVars, redisUp, proc, telling, faults>>

SweepFails(w) ==
  /\ sweeps[w].at = "recovered"
  /\ sweeps' = [sweeps EXCEPT ![w] = AtRest]
  /\ Fault
  /\ UNCHANGED <<queueVars, wakes, redisUp, proc, telling>>

-----------------------------------------------------------------------------
\* The process is gone, with what its slots and its sweep were doing.
Gone(w) ==
  /\ proc' = [proc EXCEPT ![w] = "down"]
  /\ slots' = [s \in Slots |-> IF WorkerOf[s] = w THEN Idle ELSE slots[s]]
  /\ telling' = [s \in Slots |-> IF WorkerOf[s] = w THEN NoTenant ELSE telling[s]]
  /\ sweeps' = [sweeps EXCEPT ![w] = AtRest]
  /\ UNCHANGED <<jobs, redisUp>>

\* SIGKILL at any time, or process.exit when the grace period of a shutdown
\* is over.  BullMQ returns the notifications it was processing, or not.
Crash(w) ==
  /\ proc[w] # "down"
  /\ Gone(w)
  /\ \E T \in SUBSET {TenantOf[slots[s].job] : s \in {r \in SlotsOf(w) : slots[r] # Idle}} :
       wakes' = wakes \cup T
  /\ IF proc[w] = "closing" THEN UNCHANGED faults ELSE Fault

\* SIGTERM: no more ticks and no more notifications, but what runs goes on.
BeginClosing(w) ==
  /\ proc[w] = "up"
  /\ proc' = [proc EXCEPT ![w] = "closing"]
  /\ Fault
  /\ UNCHANGED <<queueVars, wakes, redisUp, sweeps, telling>>

EndClosing(w) ==
  /\ proc[w] = "closing"
  /\ \A s \in SlotsOf(w) : slots[s] = Idle /\ telling[s] = NoTenant
  /\ Gone(w)
  /\ UNCHANGED <<wakes, faults>>

\* start: waitUntilReady needs Redis before the first tick.
Restart(w) ==
  /\ proc[w] = "down" /\ redisUp
  /\ proc' = [proc EXCEPT ![w] = "up"]
  /\ UNCHANGED <<queueVars, wakes, redisUp, sweeps, telling, faults>>

RedisFails ==
  /\ redisUp /\ redisUp' = FALSE
  /\ wakes' \in SUBSET wakes
  /\ Fault
  /\ UNCHANGED <<queueVars, proc, sweeps, telling>>

RedisRecovers ==
  /\ ~redisUp /\ redisUp' = TRUE
  /\ UNCHANGED <<queueVars, wakes, proc, sweeps, telling, faults>>

-----------------------------------------------------------------------------
Run(s) == Execute(s) \/ ScheduleRetry(s) \/ Tell(s)

Tick(w) == Recover(w) \/ ListRunnable(w) \/ Notify(w)

Shutdown(w) == EndClosing(w) \/ (proc[w] = "closing" /\ Crash(w))

RuntimeNext ==
  \/ RowsChange \/ RedisFails \/ RedisRecovers
  \/ \E s \in Slots : Run(s) \/ GiveUp(s) \/ Redeliver(s)
  \/ \E s \in Slots, t \in Tenants : TakeWake(s, t) \/ WakeFails(s, t)
  \/ \E w \in Workers : Tick(w) \/ SweepFails(w) \/ Crash(w) \/ BeginClosing(w)
                        \/ EndClosing(w) \/ Restart(w)

(* As in JobQueue, time passes and a slot that runs keeps running.  The     *)
(* timer of a process that is up fires again and again, a shutdown ends at  *)
(* its deadline at the latest, and processes and Redis are restarted by     *)
(* whoever deploys them.  BullMQ is a queue: whoever is free again and      *)
(* again takes each notification in the end, hence the strong fairness.     *)
RuntimeFairness ==
  /\ \A s \in Slots : WF_runtimeVars(Run(s))
  /\ \A t \in Tenants : SF_runtimeVars(\E s \in Slots : TakeWake(s, t))
  /\ \A w \in Workers : /\ WF_runtimeVars(Tick(w))
                        /\ WF_runtimeVars(Shutdown(w))
                        /\ WF_runtimeVars(Restart(w))
  /\ \A j \in Jobs : /\ WF_runtimeVars(BecomeDue(j) /\ UNCHANGED driveVars)
                     /\ WF_runtimeVars(Orphaned(j) /\ LeaseExpires(j) /\ UNCHANGED driveVars)
  /\ WF_runtimeVars(RedisRecovers)

RuntimeSafety == RuntimeInit /\ [][RuntimeNext]_runtimeVars
RuntimeSpec   == RuntimeSafety /\ RuntimeFairness

-----------------------------------------------------------------------------
RuntimeTypeOK ==
  /\ TypeOK
  /\ wakes \subseteq Tenants /\ redisUp \in BOOLEAN /\ faults \in 0..MaxFaults
  /\ proc \in [Workers -> {"up", "closing", "down"}]
  /\ sweeps \in [Workers -> [at : {"rest", "recovered", "listed"}, tenants : SUBSET Tenants]]
  /\ telling \in [Slots -> Tenants \cup {NoTenant}]
===============================================================================
