---------------------------- MODULE RuntimeProofs ----------------------------
(***************************************************************************)
(* Proofs about the queue under WorkerRuntime: what JobQueueProofs shows    *)
(* of the queue by itself holds of any number of worker processes that     *)
(* crash with all their slots at once, shut down, restart, sweep, and lose *)
(* Redis or their notifications.                                           *)
(*                                                                         *)
(* A process that ends frees several slots in one step, which no action of *)
(* the queue does, so that WorkerRuntime does not implement JobQueue step  *)
(* by step.  It does keep to QueueStep, and that is all it takes.          *)
(***************************************************************************)
EXTENDS WorkerRuntime, JobQueueProofs

\* A process ends: its slots are free, and the rows they executed keep their leases.
SlotsEnd ==
  /\ UNCHANGED jobs
  /\ \E w \in Workers : slots' = [s \in Slots |-> IF WorkerOf[s] = w THEN Idle ELSE slots[s]]

\* To the queue, every step of the runtime is one of its own or the end of a process.
LEMMA RuntimeOnQueue == [RuntimeNext]_runtimeVars => [Next]_queueVars \/ SlotsEnd
<1> SUFFICES ASSUME [RuntimeNext]_runtimeVars
             PROVE  [Next]_queueVars \/ SlotsEnd
  OBVIOUS
<1>1. CASE UNCHANGED queueVars
  BY <1>1
<1>2. CASE UNCHANGED runtimeVars
  BY <1>1, <1>2 DEF runtimeVars
<1>3. CASE RowsChange
  BY <1>3 DEF RowsChange, Next
<1>4. CASE RedisFails \/ RedisRecovers
  BY <1>1, <1>4 DEF RedisFails, RedisRecovers
<1>5. ASSUME NEW s \in Slots, Execute(s)
      PROVE  Next
  BY <1>5 DEF Execute, Next, SlotStep
<1>6. ASSUME NEW s \in Slots, ScheduleRetry(s)
      PROVE  Next
  BY <1>6 DEF ScheduleRetry, Next, SlotStep
<1>7. ASSUME NEW s \in Slots, GiveUp(s)
      PROVE  Next
  BY <1>7 DEF GiveUp, Next
<1>8. ASSUME NEW s \in Slots, Tell(s) \/ Redeliver(s)
      PROVE  UNCHANGED queueVars
  BY <1>8 DEF Tell, Redeliver
<1>9. ASSUME NEW s \in Slots, NEW t \in Tenants, TakeWake(s, t) \/ WakeFails(s, t)
      PROVE  [Next]_queueVars
  BY <1>9 DEF TakeWake, WakeFails, Next, SlotStep
<1>10. ASSUME NEW w \in Workers, Tick(w)
       PROVE  [Next]_queueVars
  <2>1. CASE Recover(w)
    <3>1. Stalled \in SUBSET Jobs
      BY DEF Stalled
    <3> QED
      BY <2>1, <3>1 DEF Recover, Next
  <2> QED
    BY <1>10, <2>1 DEF Tick, ListRunnable, Notify
<1>11. ASSUME NEW w \in Workers, Crash(w) \/ EndClosing(w)
       PROVE  SlotsEnd
  BY <1>11 DEF Crash, EndClosing, Gone, SlotsEnd
<1>12. ASSUME NEW w \in Workers, SweepFails(w) \/ BeginClosing(w) \/ Restart(w)
       PROVE  UNCHANGED queueVars
  BY <1>12 DEF SweepFails, BeginClosing, Restart
<1> QED
  BY <1>1, <1>2, <1>3, <1>4, <1>5, <1>6, <1>7, <1>8, <1>9, <1>10, <1>11, <1>12 DEF RuntimeNext, Run

LEMMA RuntimeIsQueueStep ==
  ASSUME TypeOK, [RuntimeNext]_runtimeVars
  PROVE  QueueStep
<1>1. CASE [Next]_queueVars
  BY <1>1, NextIsQueueStep
<1>2. CASE SlotsEnd
  <2>1. jobs' = [j \in Jobs |-> jobs'[j]] /\ \A j \in Jobs : RowStep(j)
    BY <1>2 DEF SlotsEnd, TypeOK, RowStep, RowKept
  <2>2. Idle \in SlotState
    BY DEF Idle, SlotState
  <2>3. slots' \in [Slots -> SlotState] /\ SlotsKept
    BY <1>2, <2>2 DEF SlotsEnd, TypeOK, SlotsKept
  <2> QED
    BY <2>1, <2>3 DEF QueueStep
<1> QED
  BY <1>1, <1>2, RuntimeOnQueue

-----------------------------------------------------------------------------
(* What the queue promises, under the runtime.                             *)

LEMMA RuntimeBegins ==
  ASSUME RuntimeInit
  PROVE  TypeOK /\ TokenInv /\ AttemptsInv /\ LockedIffRunning /\ ContractsBegin
BY InitTyped, InitTokens, InitAttempts, InitLocked, InitContracts DEF RuntimeInit

\* The table and the slots stay well typed.
LEMMA QueueTypeCorrect == RuntimeSafety => []TypeOK
<1>1. RuntimeInit => TypeOK
  BY RuntimeBegins
<1>2. TypeOK /\ [RuntimeNext]_runtimeVars => TypeOK'
  BY RuntimeIsQueueStep, QueueStepTyped
<1> QED
  BY <1>1, <1>2, PTL DEF RuntimeSafety

\* What JobQueueProofs shows to be inductive is so here.
LEMMA QueueInvariants == RuntimeSafety => [](TokenInv /\ AttemptsInv /\ LockedIffRunning)
<1> DEFINE Inv == TokenInv /\ AttemptsInv /\ LockedIffRunning
<1>1. RuntimeInit => Inv
  BY RuntimeBegins
<1>2. TypeOK /\ TypeOK' /\ Inv /\ [RuntimeNext]_runtimeVars => Inv'
  <2> SUFFICES ASSUME TypeOK, TypeOK', Inv, [RuntimeNext]_runtimeVars
               PROVE  Inv'
    OBVIOUS
  <2>1. QueueStep
    BY RuntimeIsQueueStep
  <2>2. TokenInv'
    BY <2>1, TokenInvStep
  <2>3. AttemptsInv'
    BY <2>1, AttemptsInvStep
  <2>4. LockedIffRunning'
    BY <2>1, LockedStep
  <2> QED
    BY <2>2, <2>3, <2>4
<1> HIDE DEF Inv
<1>3. RuntimeSafety => []Inv
  BY <1>1, <1>2, QueueTypeCorrect, PTL DEF RuntimeSafety
<1> QED
  BY <1>3 DEF Inv

\* At most one slot holds the fence of a row, of all slots of all processes, those
\* included that crashed and came back while their leases ran on.
THEOREM RuntimeExcludes == RuntimeSafety => []SingleHolder
<1>1. TokenInv /\ AttemptsInv /\ LockedIffRunning => SingleHolder
  BY HolderIsSingle
<1> QED
  BY <1>1, QueueInvariants, PTL

\* Whatever happens to processes, to Redis and to notifications, every job is attempted
\* at most MaxAttempts times, one attempt at a time, and settles once.
THEOREM RuntimeKeepsContract == RuntimeSafety => KeepsContract
<1>1. RuntimeInit => ContractsBegin
  BY RuntimeBegins
<1>2. TypeOK /\ TypeOK' /\ TokenInv /\ AttemptsInv /\ LockedIffRunning /\ [RuntimeNext]_runtimeVars
        => [ContractsStep]_queueVars
  BY RuntimeIsQueueStep, ContractStepHolds DEF ContractsStep
<1> QED
  BY <1>1, <1>2, QueueTypeCorrect, QueueInvariants, PTL DEF RuntimeSafety, KeepsContract

\* A settled row is not reopened, and no row is parked, under the runtime either.
THEOREM RuntimeKeepsRows == RuntimeSafety => FinalIsFinal /\ []NoStrandedRow
<1>1. TypeOK /\ TokenInv /\ AttemptsInv /\ LockedIffRunning /\ [RuntimeNext]_runtimeVars
        => [FinalRowsKept]_jobs
  BY RuntimeIsQueueStep, FinalStep, TokensGrow DEF FinalRowsKept
<1>2. TokenInv /\ AttemptsInv /\ LockedIffRunning => NoStrandedRow
  BY DEF AttemptsInv
<1> QED
  BY <1>1, <1>2, QueueTypeCorrect, QueueInvariants, PTL DEF RuntimeSafety, FinalIsFinal

-----------------------------------------------------------------------------
(* The runtime itself.                                                     *)

\* A slot that is not free has a job, so the tenant it tells about is one.
BusyHasJob == \A s \in Slots : slots[s] # Idle => slots[s].job \in Jobs

LEMMA BusyStep ==
  ASSUME TypeOK, BusyHasJob, [Next]_queueVars \/ SlotsEnd
  PROVE  BusyHasJob'
<1> USE QueueAssumption
<1>1. CASE UNCHANGED slots \/ SlotsEnd \/ \E s \in Slots : slots' = [slots EXCEPT ![s] = Idle]
  BY <1>1 DEF SlotsEnd, BusyHasJob, TypeOK
<1>2. ASSUME NEW s \in Slots, NEW j \in Jobs, Claim(s, j)
      PROVE  BusyHasJob'
  BY <1>2 DEF Claim, BusyHasJob, TypeOK
<1>3. ASSUME NEW s \in Slots, NEW phase, slots' = [slots EXCEPT ![s].phase = phase],
             slots[s].phase # "idle"
      PROVE  BusyHasJob'
  <2>1. slots[s] # Idle
    BY <1>3 DEF Idle
  <2>2. slots'[s].job = slots[s].job /\ \A o \in Slots \ {s} : slots'[o] = slots[o]
    BY <1>3 DEF TypeOK, SlotState
  <2> QED
    BY <2>1, <2>2 DEF BusyHasJob
<1>4. ASSUME NEW s \in Slots, CompleteThrows(s) \/ \E outcome \in Outcomes : HandlerEnds(s, outcome)
      PROVE  BusyHasJob'
  BY <1>3, <1>4 DEF CompleteThrows, HandlerEnds
<1> QED
  BY <1>1, <1>2, <1>4 DEF Next, SlotStep, Enqueue, BecomeDue, LeaseExpires, RecoverStalled, Complete,
     FailRetryable, FailPermanent, FenceLost, Abandon, queueVars

LEMMA RuntimeTypeStep ==
  ASSUME RuntimeTypeOK, TypeOK', BusyHasJob, [RuntimeNext]_runtimeVars
  PROVE  RuntimeTypeOK'
<1> USE RuntimeAssumption DEF RuntimeTypeOK
<1>1. \A s \in Slots : slots[s] # Idle => TenantOf[slots[s].job] \in Tenants
  BY DEF BusyHasJob, Tenants
<1>2. AtRest \in [at : {"rest", "recovered", "listed"}, tenants : SUBSET Tenants]
  BY DEF AtRest
<1>3. Fault => faults' \in 0..MaxFaults
  BY DEF Fault
<1>4. CASE UNCHANGED driveVars
  BY <1>4 DEF driveVars
<1>5. CASE UNCHANGED runtimeVars
  BY <1>4, <1>5 DEF runtimeVars
<1>6. CASE RowsChange \/ \E s \in Slots : Execute(s) \/ GiveUp(s)
  BY <1>4, <1>6 DEF RowsChange, Execute, GiveUp
<1>7. CASE RedisFails \/ RedisRecovers
  BY <1>3, <1>7 DEF RedisFails, RedisRecovers
<1>8. ASSUME NEW s \in Slots, ScheduleRetry(s)
      PROVE  RuntimeTypeOK'
  <2>1. TenantOf[slots[s].job] \in Tenants
    BY <1>8 DEF ScheduleRetry, FailRetryable, HoldsFence, Tenants
  <2> QED
    BY <1>8, <2>1 DEF ScheduleRetry
<1>9. ASSUME NEW s \in Slots, Tell(s) \/ Redeliver(s)
      PROVE  RuntimeTypeOK'
  BY <1>1, <1>9 DEF Tell, Redeliver
<1>10. ASSUME NEW s \in Slots, NEW t \in Tenants, TakeWake(s, t) \/ WakeFails(s, t)
       PROVE  RuntimeTypeOK'
  BY <1>3, <1>10 DEF TakeWake, WakeFails, Taken
<1>11. ASSUME NEW w \in Workers, Recover(w)
       PROVE  RuntimeTypeOK'
  <2> DEFINE T == {TenantOf[j] : j \in {i \in Stalled : jobs'[i].status = "FAILED"}}
  <2>1. T \in SUBSET Tenants
    BY DEF Stalled, Tenants
  <2>2. sweeps' = [sweeps EXCEPT ![w] = [at |-> "recovered", tenants |-> T]]
    BY <1>11 DEF Recover
  <2> HIDE DEF T
  <2>3. UNCHANGED <<wakes, redisUp, proc, telling, faults>>
    BY <1>11 DEF Recover
  <2> QED
    BY <2>1, <2>2, <2>3
<1>12. ASSUME NEW w \in Workers, ListRunnable(w)
       PROVE  RuntimeTypeOK'
  <2> DEFINE T == sweeps[w].tenants \cup {TenantOf[j] : j \in Runnable}
  <2>1. T \in SUBSET Tenants
    BY DEF Runnable, Tenants
  <2>2. sweeps' = [sweeps EXCEPT ![w] = [at |-> "listed", tenants |-> T]]
    BY <1>12 DEF ListRunnable
  <2> HIDE DEF T
  <2>3. UNCHANGED <<wakes, redisUp, proc, telling, faults>>
    BY <1>12 DEF ListRunnable
  <2> QED
    BY <2>1, <2>2, <2>3
<1>13. ASSUME NEW w \in Workers, Notify(w) \/ SweepFails(w)
       PROVE  RuntimeTypeOK'
  BY <1>2, <1>3, <1>13 DEF Notify, SweepFails
<1>14. ASSUME NEW w \in Workers, Crash(w) \/ EndClosing(w)
       PROVE  RuntimeTypeOK'
  <2>1. wakes' \subseteq Tenants
    BY <1>1, <1>14 DEF Crash, EndClosing, SlotsOf
  <2>2. faults' \in 0..MaxFaults
    BY <1>3, <1>14 DEF Crash, EndClosing
  <2>3. Gone(w)
    BY <1>14 DEF Crash, EndClosing
  <2> QED
    BY <1>2, <2>1, <2>2, <2>3 DEF Gone
<1>15. ASSUME NEW w \in Workers, BeginClosing(w) \/ Restart(w)
       PROVE  RuntimeTypeOK'
  BY <1>3, <1>15 DEF BeginClosing, Restart
<1> QED
  BY <1>5, <1>6, <1>7, <1>8, <1>9, <1>10, <1>11, <1>12, <1>13, <1>14, <1>15
  DEF RuntimeNext, Run, Tick

\* Processes, sweeps, notifications and the count of faults stay well typed: nobody
\* notifies about anything but a tenant.
THEOREM RuntimeTypeCorrect == RuntimeSafety => []RuntimeTypeOK
<1>1. RuntimeInit => RuntimeTypeOK /\ BusyHasJob
  <2> SUFFICES ASSUME RuntimeInit PROVE RuntimeTypeOK /\ BusyHasJob
    OBVIOUS
  <2>1. TypeOK /\ BusyHasJob
    BY RuntimeBegins DEF RuntimeInit, Init, BusyHasJob
  <2> QED
    BY <2>1, RuntimeAssumption DEF RuntimeInit, RuntimeTypeOK, AtRest
<1>2. RuntimeTypeOK /\ TypeOK' /\ BusyHasJob /\ [RuntimeNext]_runtimeVars => RuntimeTypeOK' /\ BusyHasJob'
  BY RuntimeTypeStep, BusyStep, RuntimeOnQueue DEF RuntimeTypeOK
<1> QED
  BY <1>1, <1>2, QueueTypeCorrect, PTL DEF RuntimeSafety
===============================================================================
