---------------------------- MODULE JobQueueProofs ----------------------------
(***************************************************************************)
(* Proofs about the durable job queue, for any number of jobs, slots and   *)
(* worker processes and any limit on attempts.                             *)
(*                                                                         *)
(* Every action of the queue does one of a few things to a row: RowStep.   *)
(* That is proved once, with a step for each action; each fact about rows  *)
(* is then proved with a step for each of the few things.                  *)
(***************************************************************************)
EXTENDS JobQueue, TLAPS

Enqueued(j) == [jobs[j] EXCEPT !.status = "PENDING", !.due = TRUE]

ClaimedBy(s, j) == [jobs[j] EXCEPT !.status = "RUNNING", !.attempts = @ + 1,
                                   !.token = @ + 1, !.lockedBy = WorkerOf[s],
                                   !.lease = "live"]

\* What may happen to a row in one step, and from which rows.
RowKept(j)     == jobs'[j] = jobs[j]
RowOffered(j)  == jobs[j].status = "ABSENT" /\ jobs'[j] = Enqueued(j)
RowDue(j)      == jobs[j].status \in Waiting /\ jobs'[j] = [jobs[j] EXCEPT !.due = TRUE]
RowClaimed(j)  == Claimable(j) /\ \E s \in Slots : jobs'[j] = ClaimedBy(s, j)
RowExpired(j)  == jobs[j].lease = "live" /\ jobs'[j] = [jobs[j] EXCEPT !.lease = "expired"]
RowSettled(j)  == /\ jobs[j].status = "RUNNING"
                  /\ \E status \in Final : jobs'[j] = Released(j, status, jobs[j].due)
RowGivenUp(j)  == /\ jobs[j].status = "RUNNING"
                  /\ \E due \in BOOLEAN : jobs'[j] = AfterFailure(j, due)

RowStep(j) == \/ RowKept(j) \/ RowOffered(j) \/ RowDue(j) \/ RowClaimed(j)
              \/ RowExpired(j) \/ RowSettled(j) \/ RowGivenUp(j)

\* What may happen to a slot: it is freed, or keeps its claim, or makes one.
SlotClaims(s) ==
  \E j \in Jobs : /\ slots' = [slots EXCEPT ![s] = [job |-> j, token |-> jobs[j].token + 1,
                                                    phase |-> "running"]]
                  /\ jobs'[j].token = jobs[j].token + 1

SlotsKept == \A s \in Slots : \/ slots'[s] = Idle
                              \/ /\ slots'[s].job = slots[s].job
                                 /\ slots'[s].token = slots[s].token

\* What the steps of the queue have in common, and the steps of any system that keeps
\* to them: all that is needed from here on.
QueueStep ==
  /\ jobs' = [j \in Jobs |-> jobs'[j]] /\ \A j \in Jobs : RowStep(j)
  /\ slots' \in [Slots -> SlotState] /\ (SlotsKept \/ \E s \in Slots : SlotClaims(s))

-----------------------------------------------------------------------------
(* The steps of a slot, once Next is taken apart: the actions with their   *)
(* parameters bound.                                                       *)
LEMMA SlotRowStep ==
  ASSUME TypeOK, NEW s \in Slots, SlotStep(s) \/ Abandon(s), NEW j \in Jobs
  PROVE  RowStep(j)
<1>1. CASE \E k \in Jobs : Claim(s, k)
  <2>1. PICK k \in Jobs : Claim(s, k)
    BY <1>1
  <2>2. CASE k = j
    <3>1. jobs'[j] = ClaimedBy(s, j) /\ Claimable(j)
      BY <2>1, <2>2 DEF Claim, ClaimedBy, TypeOK, JobRow
    <3> QED
      BY <3>1 DEF RowStep, RowClaimed
  <2>3. CASE k # j
    BY <2>1, <2>3 DEF Claim, TypeOK, RowStep, RowKept
  <2> QED
    BY <2>2, <2>3
<1>2. CASE \E outcome \in Outcomes : HandlerEnds(s, outcome) /\ UNCHANGED jobs
  BY <1>2 DEF RowStep, RowKept
<1>3. CASE \E status \in Final : HoldsFence(s) /\ jobs' = Settled(s, status)
  <2>1. PICK status \in Final : HoldsFence(s) /\ jobs' = Settled(s, status)
    BY <1>3
  <2>2. CASE j = slots[s].job
    <3>1. jobs[j].status = "RUNNING" /\ jobs'[j] = Released(j, status, jobs[j].due)
      BY <2>1, <2>2 DEF HoldsFence, FenceCurrent, Settled, TypeOK
    <3> QED
      BY <3>1 DEF RowStep, RowSettled
  <2>3. CASE j # slots[s].job
    BY <2>1, <2>3 DEF Settled, TypeOK, RowStep, RowKept
  <2> QED
    BY <2>2, <2>3
<1>4. CASE FailRetryable(s)
  <2>1. CASE j = slots[s].job
    <3>1. jobs[j].status = "RUNNING" /\ jobs'[j] = AfterFailure(j, FALSE)
      BY <1>4, <2>1 DEF FailRetryable, HoldsFence, FenceCurrent, TypeOK
    <3> QED
      BY <3>1 DEF RowStep, RowGivenUp
  <2>2. CASE j # slots[s].job
    BY <1>4, <2>2 DEF FailRetryable, TypeOK, RowStep, RowKept
  <2> QED
    BY <2>1, <2>2
<1>5. CASE UNCHANGED jobs
  BY <1>5 DEF RowStep, RowKept
<1>6. CASE Complete(s)
  BY <1>3, <1>6 DEF Complete, Final
<1>7. CASE CompleteThrows(s)
  BY <1>3, <1>5, <1>7 DEF CompleteThrows, Final
<1>8. CASE FailPermanent(s)
  BY <1>3, <1>8 DEF FailPermanent, Final
<1>9. CASE FenceLost(s) \/ Abandon(s)
  BY <1>5, <1>9 DEF FenceLost, Abandon
<1> QED
  BY <1>1, <1>2, <1>4, <1>6, <1>7, <1>8, <1>9 DEF SlotStep

LEMMA NextRowStep ==
  ASSUME TypeOK, [Next]_queueVars, NEW j \in Jobs
  PROVE  RowStep(j)
<1>1. CASE \E k \in Jobs : Enqueue(k)
  BY <1>1 DEF Enqueue, Enqueued, TypeOK, RowStep, RowKept, RowOffered
<1>2. CASE \E k \in Jobs : BecomeDue(k)
  BY <1>2 DEF BecomeDue, TypeOK, RowStep, RowKept, RowDue
<1>3. CASE \E k \in Jobs : LeaseExpires(k)
  BY <1>3 DEF LeaseExpires, TypeOK, RowStep, RowKept, RowExpired
<1>4. CASE \E s \in Slots : SlotStep(s) \/ Abandon(s)
  BY <1>4, SlotRowStep
<1>5. CASE \E S \in SUBSET Jobs : RecoverStalled(S)
  BY <1>5 DEF RecoverStalled, Stalled, RowStep, RowKept, RowGivenUp
<1>6. CASE UNCHANGED queueVars
  BY <1>6 DEF queueVars, RowStep, RowKept
<1> QED
  BY <1>1, <1>2, <1>3, <1>4, <1>5, <1>6 DEF Next

\* Only a claim gives a slot a new job or a new token.
LEMMA NextSlots ==
  ASSUME TypeOK, [Next]_queueVars
  PROVE  SlotsKept \/ \E s \in Slots : SlotClaims(s)
<1>1. CASE \E s \in Slots, k \in Jobs : Claim(s, k)
  <2>1. PICK s \in Slots, k \in Jobs : Claim(s, k)
    BY <1>1
  <2>2. jobs'[k].token = jobs[k].token + 1
    BY <2>1 DEF Claim, TypeOK, JobRow
  <2> QED
    BY <2>1, <2>2 DEF Claim, SlotClaims
<1>2. CASE \E s \in Slots, phase \in Outcomes : slots' = [slots EXCEPT ![s].phase = phase]
  BY <1>2 DEF TypeOK, SlotState, SlotsKept
<1>3. CASE \E s \in Slots : slots' = [slots EXCEPT ![s] = Idle]
  BY <1>3 DEF TypeOK, SlotsKept
<1>4. CASE UNCHANGED slots
  BY <1>4 DEF SlotsKept
<1>5. CASE \E s \in Slots : SlotStep(s) \/ Abandon(s)
  <2>1. PICK s \in Slots : SlotStep(s) \/ Abandon(s)
    BY <1>5
  <2>2. CASE CompleteThrows(s)
    BY <1>2, <2>2 DEF CompleteThrows, Outcomes
  <2> QED
    BY <1>1, <1>2, <1>3, <2>1, <2>2
    DEF SlotStep, HandlerEnds, Complete, FailRetryable, FailPermanent, FenceLost, Abandon
<1> QED
  BY <1>4, <1>5 DEF Next, Enqueue, BecomeDue, LeaseExpires, RecoverStalled, queueVars
-----------------------------------------------------------------------------
(* A slot's state is well typed after every step.                          *)
LEMMA SlotsTyped ==
  ASSUME TypeOK, [Next]_queueVars
  PROVE  slots' \in [Slots -> SlotState]
<1>1. Idle \in SlotState
  BY DEF Idle, SlotState
<1>2. ASSUME NEW s \in Slots, NEW phase \in Outcomes, slots' = [slots EXCEPT ![s].phase = phase]
      PROVE  slots' \in [Slots -> SlotState]
  BY <1>2 DEF TypeOK, SlotState
<1>3. ASSUME NEW s \in Slots, NEW j \in Jobs, Claim(s, j)
      PROVE  slots' \in [Slots -> SlotState]
  <2>1. [job |-> j, token |-> jobs[j].token + 1, phase |-> "running"] \in SlotState
    BY <1>3 DEF TypeOK, JobRow, SlotState
  <2> QED
    BY <1>3, <2>1 DEF Claim, TypeOK
<1>4. ASSUME NEW s \in Slots, SlotStep(s) \/ Abandon(s)
      PROVE  slots' \in [Slots -> SlotState]
  <2>1. CASE CompleteThrows(s)
    BY <1>2, <2>1 DEF CompleteThrows, Outcomes
  <2> QED
    BY <1>1, <1>2, <1>3, <1>4, <2>1
    DEF SlotStep, HandlerEnds, Complete, FailRetryable, FailPermanent, FenceLost, Abandon, TypeOK
<1> QED
  BY <1>4 DEF Next, Enqueue, BecomeDue, LeaseExpires, RecoverStalled, queueVars, TypeOK

\* A row that takes one of the steps above stays a row.
LEMMA RowTyped ==
  ASSUME TypeOK, NEW j \in Jobs, RowStep(j)
  PROVE  jobs'[j] \in JobRow
<1> USE QueueAssumption DEF TypeOK, JobRow
<1>1. CASE RowKept(j)
  BY <1>1 DEF RowKept
<1>2. CASE RowOffered(j)
  BY <1>2 DEF RowOffered, Enqueued, Statuses
<1>3. CASE RowDue(j)
  BY <1>3 DEF RowDue
<1>4. CASE RowClaimed(j)
  <2>1. PICK s \in Slots : jobs'[j] = ClaimedBy(s, j)
    BY <1>4 DEF RowClaimed
  <2>2. jobs[j].attempts + 1 \in 0..MaxAttempts
    BY <1>4 DEF RowClaimed, Claimable, Exhausted
  <2>3. jobs[j].token + 1 \in Nat /\ WorkerOf[s] \in Workers
    BY QueueAssumption
  <2> QED
    BY <2>1, <2>2, <2>3 DEF ClaimedBy, Statuses
<1>5. CASE RowExpired(j)
  BY <1>5 DEF RowExpired
<1>6. CASE RowSettled(j)
  BY <1>6 DEF RowSettled, Released, Final, Statuses
<1>7. CASE RowGivenUp(j)
  BY <1>7 DEF RowGivenUp, AfterFailure, Released, Statuses
<1> QED
  BY <1>1, <1>2, <1>3, <1>4, <1>5, <1>6, <1>7 DEF RowStep

\* The table still has exactly its rows: every action updates it by EXCEPT or
\* row by row.
LEMMA JobsIsAFunction ==
  ASSUME TypeOK, [Next]_queueVars
  PROVE  jobs' = [j \in Jobs |-> jobs'[j]]
<1>1. ASSUME NEW s \in Slots, SlotStep(s) \/ Abandon(s)
      PROVE  jobs' = [j \in Jobs |-> jobs'[j]]
  BY <1>1 DEF SlotStep, Claim, Complete, CompleteThrows, FailRetryable, FailPermanent,
              FenceLost, Abandon, Settled, TypeOK
<1> QED
  BY <1>1 DEF Next, Enqueue, BecomeDue, LeaseExpires, RecoverStalled, queueVars, TypeOK

LEMMA NextIsQueueStep ==
  ASSUME TypeOK, [Next]_queueVars
  PROVE  QueueStep
BY NextRowStep, NextSlots, SlotsTyped, JobsIsAFunction DEF QueueStep

LEMMA QueueStepTyped ==
  ASSUME TypeOK, QueueStep
  PROVE  TypeOK'
<1>1. \A j \in Jobs : jobs'[j] \in JobRow
  BY RowTyped DEF QueueStep
<1>2. jobs' \in [Jobs -> JobRow]
  BY <1>1 DEF QueueStep
<1> QED
  BY <1>2 DEF QueueStep, TypeOK

LEMMA InitTyped == Init => TypeOK
BY QueueAssumption DEF Init, TypeOK, JobRow, SlotState, AbsentJob, Idle, Statuses

\* Type correctness: the counters stay within their limits, whatever the order
\* of claims, failures, expiries and sweeps.
THEOREM TypeCorrect == SafetySpec => []TypeOK
<1>1. TypeOK /\ [Next]_queueVars => TypeOK'
  BY NextIsQueueStep, QueueStepTyped
<1> QED
  BY <1>1, InitTyped, PTL DEF SafetySpec

-----------------------------------------------------------------------------
(* Mutual exclusion.  It rests on the fencing tokens: no slot has a token  *)
(* beyond its row's, and no two slots have the same one.                   *)
TokensBounded ==
  \A s \in Slots : slots[s].job \in Jobs => slots[s].token <= jobs[slots[s].job].token

TokensUnique ==
  \A s1, s2 \in Slots :
    /\ slots[s1].job \in Jobs
    /\ slots[s1].job = slots[s2].job
    /\ slots[s1].token = slots[s2].token
    => s1 = s2

TokenInv == TokensBounded /\ TokensUnique

\* A row's fencing token never goes back.
LEMMA TokensGrow ==
  ASSUME TypeOK, QueueStep, NEW j \in Jobs
  PROVE  jobs'[j].token >= jobs[j].token
<1>1. RowStep(j) /\ jobs[j] \in JobRow
  BY DEF QueueStep, TypeOK
<1>2. CASE RowKept(j) \/ RowOffered(j) \/ RowDue(j) \/ RowExpired(j)
  <2>1. jobs'[j].token = jobs[j].token
    BY <1>1, <1>2 DEF RowKept, RowOffered, RowDue, RowExpired, Enqueued, JobRow
  <2> QED
    BY <1>1, <2>1 DEF JobRow
<1>3. CASE RowClaimed(j)
  BY <1>1, <1>3 DEF RowClaimed, ClaimedBy, JobRow
<1>4. CASE RowSettled(j)
  BY <1>1, <1>4 DEF RowSettled, Released, JobRow
<1>5. CASE RowGivenUp(j)
  BY <1>1, <1>5 DEF RowGivenUp, AfterFailure, Released, JobRow
<1> QED
  BY <1>1, <1>2, <1>3, <1>4, <1>5 DEF RowStep

LEMMA TokenInvStep ==
  ASSUME TypeOK, TypeOK', TokenInv, QueueStep
  PROVE  TokenInv'
<1> USE DEF TokenInv
<1>0. \A j \in Jobs : /\ jobs[j].token \in Nat /\ jobs'[j].token \in Nat
                      /\ jobs'[j].token >= jobs[j].token
  BY TokensGrow DEF TypeOK, JobRow
<1>1. \A s \in Slots : slots[s].token \in Nat /\ slots'[s].token \in Nat
  BY DEF TypeOK, SlotState
<1>2. CASE SlotsKept
  <2>1. Idle.job \notin Jobs
    BY QueueAssumption DEF Idle
  <2>2. TokensBounded'
    BY <1>0, <1>1, <1>2, <2>1 DEF TokensBounded, SlotsKept
  <2>3. TokensUnique'
    BY <1>2, <2>1 DEF TokensUnique, SlotsKept
  <2> QED
    BY <2>2, <2>3
<1>3. CASE \E s \in Slots : SlotClaims(s)
  <2>1. PICK s \in Slots : SlotClaims(s)
    BY <1>3
  <2>2. PICK j \in Jobs : /\ slots' = [slots EXCEPT ![s] = [job |-> j, token |-> jobs[j].token + 1,
                                                            phase |-> "running"]]
                          /\ jobs'[j].token = jobs[j].token + 1
    BY <2>1 DEF SlotClaims
  <2>3. /\ slots'[s].job = j /\ slots'[s].token = jobs[j].token + 1
        /\ \A o \in Slots \ {s} : slots'[o] = slots[o]
    BY <2>2 DEF TypeOK
  <2>4. \A o \in Slots \ {s} : slots'[o].job = j => slots'[o].token # slots'[s].token
    BY <1>0, <1>1, <2>3 DEF TokensBounded
  <2>5. TokensBounded'
    BY <1>0, <1>1, <2>2, <2>3 DEF TokensBounded
  <2>6. TokensUnique'
    BY <2>3, <2>4 DEF TokensUnique
  <2> QED
    BY <2>5, <2>6
<1> QED
  BY <1>2, <1>3 DEF QueueStep

LEMMA InitTokens == Init => TokenInv
BY QueueAssumption DEF Init, TokenInv, TokensBounded, TokensUnique, Idle

LEMMA TokenInvHolds == SafetySpec => []TokenInv
<1>1. TypeOK /\ TypeOK' /\ TokenInv /\ [Next]_queueVars => TokenInv'
  BY NextIsQueueStep, TokenInvStep
<1> QED
  BY <1>1, InitTokens, TypeCorrect, PTL DEF SafetySpec

LEMMA HolderIsSingle == TokenInv => SingleHolder
BY DEF TokenInv, TokensUnique, SingleHolder, HoldsFence, FenceCurrent

\* At most one slot holds the fence of a row: a second slot that believes it
\* executes the row, in the same process or another, is refused by every
\* statement.
THEOREM MutualExclusion == SafetySpec => []SingleHolder
BY HolderIsSingle, TokenInvHolds, PTL

-----------------------------------------------------------------------------
(* Facts about single rows.                                                *)
UntriedIfAbsent == \A j \in Jobs : jobs[j].status = "ABSENT" => jobs[j].attempts = 0

AttemptsInv == UntriedIfAbsent /\ NoStrandedRow

LEMMA AttemptsInvStep ==
  ASSUME TypeOK, AttemptsInv, QueueStep
  PROVE  AttemptsInv'
<1> SUFFICES ASSUME NEW j \in Jobs
             PROVE  /\ jobs'[j].status = "ABSENT" => jobs'[j].attempts = 0
                    /\ jobs'[j].status \in Waiting => jobs'[j].attempts < MaxAttempts
  BY DEF AttemptsInv, UntriedIfAbsent, NoStrandedRow
<1>1. /\ jobs[j] \in JobRow
      /\ jobs[j].status = "ABSENT" => jobs[j].attempts = 0
      /\ jobs[j].status \in Waiting => jobs[j].attempts < MaxAttempts
  BY DEF TypeOK, AttemptsInv, UntriedIfAbsent, NoStrandedRow
<1> USE QueueAssumption DEF JobRow, Waiting
<1>2. CASE RowKept(j) \/ RowDue(j) \/ RowExpired(j)
  <2>1. jobs'[j].status = jobs[j].status /\ jobs'[j].attempts = jobs[j].attempts
    BY <1>1, <1>2 DEF RowKept, RowDue, RowExpired
  <2> QED
    BY <1>1, <2>1
<1>3. CASE RowOffered(j)
  <2>1. jobs'[j].status = "PENDING" /\ jobs'[j].attempts = 0
    BY <1>1, <1>3 DEF RowOffered, Enqueued
  <2> QED
    BY <2>1
<1>4. CASE RowClaimed(j)
  BY <1>1, <1>4 DEF RowClaimed, ClaimedBy
<1>5. CASE RowSettled(j)
  BY <1>1, <1>5 DEF RowSettled, Released, Final
<1>6. CASE RowGivenUp(j)
  <2>1. CASE Exhausted(j)
    BY <1>1, <1>6, <2>1 DEF RowGivenUp, AfterFailure, Released
  <2>2. CASE ~Exhausted(j)
    <3>1. /\ jobs'[j].status = "FAILED" /\ jobs'[j].attempts = jobs[j].attempts
          /\ jobs[j].attempts < MaxAttempts
      BY <1>1, <1>6, <2>2 DEF RowGivenUp, AfterFailure, Released, Exhausted
    <3> QED
      BY <3>1
  <2> QED
    BY <2>1, <2>2
<1> QED
  BY <1>2, <1>3, <1>4, <1>5, <1>6 DEF QueueStep, RowStep

LEMMA InitAttempts == Init => AttemptsInv
BY DEF Init, AttemptsInv, UntriedIfAbsent, NoStrandedRow, AbsentJob, Waiting

\* Nobody parks a row that claim will never take: fail and recoverStalled give
\* a row back exactly while claim would still accept it.
THEOREM NoRowIsStranded == SafetySpec => []AttemptsInv /\ []NoStrandedRow
<1>1. TypeOK /\ AttemptsInv /\ [Next]_queueVars => AttemptsInv'
  BY NextIsQueueStep, AttemptsInvStep
<1>2. AttemptsInv => NoStrandedRow
  BY DEF AttemptsInv
<1> QED
  BY <1>1, <1>2, InitAttempts, TypeCorrect, PTL DEF SafetySpec

LEMMA LockedStep ==
  ASSUME TypeOK, LockedIffRunning, QueueStep
  PROVE  LockedIffRunning'
<1> SUFFICES ASSUME NEW j \in Jobs
             PROVE  /\ jobs'[j].status = "RUNNING" <=> jobs'[j].lockedBy # NoWorker
                    /\ jobs'[j].status = "RUNNING" <=> jobs'[j].lease # "none"
  BY DEF LockedIffRunning
<1>1. /\ jobs[j] \in JobRow
      /\ jobs[j].status = "RUNNING" <=> jobs[j].lockedBy # NoWorker
      /\ jobs[j].status = "RUNNING" <=> jobs[j].lease # "none"
  BY DEF TypeOK, LockedIffRunning
<1> USE DEF JobRow
<1>2. CASE RowKept(j) \/ RowDue(j)
  BY <1>1, <1>2 DEF RowKept, RowDue
<1>3. CASE RowOffered(j)
  BY <1>1, <1>3 DEF RowOffered, Enqueued
<1>4. CASE RowClaimed(j)
  <2>1. PICK s \in Slots : jobs'[j] = ClaimedBy(s, j)
    BY <1>4 DEF RowClaimed
  <2>2. WorkerOf[s] # NoWorker
    BY QueueAssumption
  <2> QED
    BY <1>1, <2>1, <2>2 DEF ClaimedBy
<1>5. CASE RowExpired(j)
  BY <1>1, <1>5 DEF RowExpired
<1>6. CASE RowSettled(j)
  BY <1>1, <1>6 DEF RowSettled, Released, Final
<1>7. CASE RowGivenUp(j)
  BY <1>1, <1>7 DEF RowGivenUp, AfterFailure, Released
<1> QED
  BY <1>2, <1>3, <1>4, <1>5, <1>6, <1>7 DEF QueueStep, RowStep

LEMMA InitLocked == Init => LockedIffRunning
<1> SUFFICES ASSUME Init, NEW j \in Jobs
             PROVE  /\ jobs[j].status # "RUNNING"
                    /\ jobs[j].lockedBy = NoWorker
                    /\ jobs[j].lease = "none"
  BY DEF LockedIffRunning
<1> QED
  BY DEF Init, AbsentJob

\* The lock and the lease of a row are held exactly while it is RUNNING, so the
\* sweep, which looks for them, finds every execution that died.
THEOREM LocksAreOwed == SafetySpec => []LockedIffRunning
<1>1. TypeOK /\ LockedIffRunning /\ [Next]_queueVars => LockedIffRunning'
  BY NextIsQueueStep, LockedStep
<1> QED
  BY <1>1, InitLocked, TypeCorrect, PTL DEF SafetySpec

LEMMA FinalStep ==
  ASSUME TypeOK, LockedIffRunning, QueueStep, NEW j \in Jobs, jobs[j].status \in Final
  PROVE  jobs'[j] = jobs[j]
<1>1. jobs[j] \in JobRow /\ (jobs[j].status = "RUNNING" <=> jobs[j].lease # "none")
  BY DEF TypeOK, LockedIffRunning
<1>2. ~RowOffered(j) /\ ~RowDue(j) /\ ~RowClaimed(j) /\ ~RowSettled(j) /\ ~RowGivenUp(j)
  BY DEF Final, Waiting, RowOffered, RowDue, RowClaimed, Claimable, RowSettled, RowGivenUp
<1>3. ~RowExpired(j)
  BY <1>1 DEF Final, RowExpired
<1> QED
  BY <1>2, <1>3 DEF QueueStep, RowStep, RowKept

\* A settled row stays as it is, and no row's fencing token goes back: neither a
\* late slot nor a repeated enqueue nor the sweep reopens a job.
THEOREM FinalRowsStay == SafetySpec => FinalIsFinal
<1>1. TypeOK /\ LockedIffRunning /\ [Next]_queueVars => FinalRowsKept
  BY NextIsQueueStep, FinalStep, TokensGrow DEF FinalRowsKept
<1> QED
  BY <1>1, TypeCorrect, LocksAreOwed, PTL DEF SafetySpec, FinalIsFinal

-----------------------------------------------------------------------------
(* The contract of a single job.                                           *)
LEMMA ContractStepHolds ==
  ASSUME TypeOK, TypeOK', AttemptsInv, QueueStep, NEW j \in Jobs
  PROVE  ContractStep(j)
<1>1. CASE RowKept(j) \/ RowDue(j)
  <2>1. Stage(j)' = Stage(j) /\ jobs'[j].attempts = jobs[j].attempts
    BY <1>1 DEF RowKept, RowDue, TypeOK, JobRow, Stage, Waiting
  <2> QED
    BY <2>1 DEF ContractStep, Contract!contractVars
<1> USE DEF ContractStep, Contract!ContractNext
<1>2. CASE RowOffered(j)
  <2>1. jobs'[j].status = "PENDING" /\ jobs'[j].attempts = jobs[j].attempts
    BY <1>2 DEF RowOffered, Enqueued, TypeOK, JobRow
  <2>2. Stage(j) = "absent" /\ Stage(j)' = "waiting"
    BY <1>2, <2>1 DEF RowOffered, Stage, Waiting
  <2> QED
    BY <2>1, <2>2 DEF Contract!Offer
<1>3. CASE RowClaimed(j)
  <2>1. /\ jobs[j].status \in Waiting /\ jobs[j].attempts < MaxAttempts
        /\ jobs'[j].status = "RUNNING" /\ jobs'[j].attempts = jobs[j].attempts + 1
    BY <1>3 DEF RowClaimed, Claimable, ClaimedBy, TypeOK, JobRow, AttemptsInv, NoStrandedRow
  <2>2. Stage(j) = "waiting" /\ Stage(j)' = "attempt"
    BY <2>1 DEF Stage, Waiting
  <2> QED
    BY <2>1, <2>2 DEF Contract!Attempt
<1>4. CASE RowExpired(j)
  <2>1. Stage(j)' = Stage(j) /\ jobs'[j].attempts = jobs[j].attempts
    BY <1>4 DEF RowExpired, TypeOK, JobRow, Stage
  <2> QED
    BY <2>1 DEF Contract!contractVars
<1>5. CASE jobs[j].status = "RUNNING" /\ \E status \in Final, due \in BOOLEAN :
                                          jobs'[j] = Released(j, status, due)
  <2>1. /\ jobs'[j].status \in Final /\ jobs'[j].attempts = jobs[j].attempts
        /\ jobs[j].status = "RUNNING"
    BY <1>5 DEF Released, TypeOK, JobRow
  <2>2. Stage(j) = "attempt" /\ Stage(j)' \in {"done", "dead"}
    BY <2>1 DEF Stage, Waiting, Final
  <2> QED
    BY <2>1, <2>2 DEF Contract!Settle
<1>6. CASE RowGivenUp(j)
  <2>1. CASE Exhausted(j)
    BY <1>5, <1>6, <2>1 DEF RowGivenUp, AfterFailure, Final, TypeOK, JobRow
  <2>2. CASE ~Exhausted(j)
    <3>1. /\ jobs'[j].status = "FAILED" /\ jobs'[j].attempts = jobs[j].attempts
          /\ jobs[j].status = "RUNNING" /\ jobs[j].attempts < MaxAttempts
      BY <1>6, <2>2, QueueAssumption
      DEF RowGivenUp, AfterFailure, Released, Exhausted, TypeOK, JobRow
    <3>2. Stage(j) = "attempt" /\ Stage(j)' = "waiting"
      BY <3>1 DEF Stage, Waiting
    <3> QED
      BY <3>1, <3>2 DEF Contract!GiveBack
  <2> QED
    BY <2>1, <2>2
<1>7. CASE RowSettled(j)
  BY <1>5, <1>7 DEF RowSettled, TypeOK, JobRow
<1> QED
  BY <1>1, <1>2, <1>3, <1>4, <1>6, <1>7 DEF QueueStep, RowStep

LEMMA InitContracts == Init => ContractsBegin
<1> SUFFICES ASSUME Init, NEW j \in Jobs PROVE Contract(j)!ContractInit
  BY DEF ContractsBegin
<1>1. jobs[j].status = "ABSENT" /\ jobs[j].attempts = 0
  BY DEF Init, AbsentJob
<1>2. Stage(j) = "absent"
  BY <1>1 DEF Stage, Waiting
<1> QED
  BY <1>1, <1>2 DEF Contract!ContractInit

\* The queue implements the contract of every job: at most MaxAttempts attempts,
\* one at a time, given back only while attempts are left, settled once.
THEOREM ContractKept == SafetySpec => KeepsContract
<1>1. TypeOK /\ TypeOK' /\ AttemptsInv /\ [Next]_queueVars => ContractsStep
  BY NextIsQueueStep, ContractStepHolds DEF ContractsStep
<1> QED
  BY <1>1, InitContracts, TypeCorrect, NoRowIsStranded, PTL DEF SafetySpec, KeepsContract
===============================================================================
