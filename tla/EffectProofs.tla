----------------------------- MODULE EffectProofs -----------------------------
(***************************************************************************)
(* Proofs about external effects, for any number of effects, resources,    *)
(* jobs, slots and attempts.                                               *)
(*                                                                         *)
(* The effect jobs run on the durable queue, so what is proved of the      *)
(* queue holds of them (QueueUnderEffects).  The rest takes the actions of *)
(* a handler once, in HandlerSummary, to the few facts that the invariants *)
(* turn on: where the handler goes next, which status it sets, and what it *)
(* sends or records.  HandlerCourse takes them to what the question who is *)
(* answerable for an effect turns on: which stage it comes from, and what  *)
(* is true when it calls its job done.                                     *)
(***************************************************************************)
EXTENDS EffectExecution, JobQueueProofs

-----------------------------------------------------------------------------
(* The queue under the effects.                                            *)
LEMMA ProceedOnQueue ==
  ASSUME NEW s \in Slots, NEW seen, NEW next, Proceed(s, seen, next)
  PROVE  [Next]_queueVars
  BY DEF Proceed, Next, SlotStep, queueVars

LEMMA TransitionProceeds ==
  ASSUME NEW s \in Slots, NEW to, NEW next, Transition(s, to, next)
  PROVE  \E seen, goal : Proceed(s, seen, goal)
  BY DEF Transition, Throw

LEMMA HandlerOnQueue ==
  ASSUME NEW s \in Slots, HandlerStep(s)
  PROVE  [Next]_queueVars
<1>1. ASSUME NEW to, NEW next, Transition(s, to, next)
      PROVE  [Next]_queueVars
  BY <1>1, TransitionProceeds, ProceedOnQueue
<1>2. CASE Load(s) \/ Route(s) \/ Query(s) \/ NoAnswer(s) \/ Answered(s)
  BY <1>2, ProceedOnQueue DEF Load, Route, Query, NoAnswer, Answered
<1>3. CASE ConnectorUnusable(s) \/ Finalize(s)
  BY <1>1, <1>3, ProceedOnQueue DEF ConnectorUnusable, Finalize
<1>4. CASE \/ Remediate(s) \/ Mark(s) \/ NotFound(s) \/ Unapproved(s)
           \/ Ambiguous(s) \/ Refuse(s) \/ Unknown(s)
  BY <1>1, <1>4 DEF Remediate, Mark, NotFound, Unapproved, Ambiguous, Refuse, Unknown
<1>5. CASE Begin(s)
  BY <1>5, ProceedOnQueue DEF Begin, Throw, queueVars
<1>6. CASE Send(s)
  BY <1>6, ProceedOnQueue DEF Send
<1>7. CASE Persist(s)
  BY <1>7, ProceedOnQueue DEF Persist, Throw
<1>8. CASE Interrupt(s)
  BY <1>8, ProceedOnQueue DEF Interrupt
<1> QED
  BY <1>2, <1>3, <1>4, <1>5, <1>6, <1>7, <1>8 DEF HandlerStep

LEMMA EffectOnQueue ==
  ASSUME [EffectNext]_vars
  PROVE  [Next]_queueVars
<1>1. ASSUME NEW s \in Slots, WorkerStep(s) PROVE [Next]_queueVars
  BY <1>1, HandlerOnQueue
  DEF WorkerStep, StartHandler, SettleJob, ForgetHandler, SlotStep, Next
<1>2. ASSUME NEW s \in Slots, ForgetHandler(s, Abandon(s)) PROVE [Next]_queueVars
  BY <1>2 DEF ForgetHandler, Next
<1>3. ASSUME NEW j \in Jobs, Clock(j) \/ Commit(j) \/ Reconcile(j) \/ RequestCompensation(j)
      PROVE  [Next]_queueVars
  BY <1>3 DEF Clock, Commit, Reconcile, RequestCompensation, Next
<1>4. ASSUME NEW S \in SUBSET Jobs, Sweep(S) PROVE [Next]_queueVars
  BY <1>4 DEF Sweep, Next
<1>5. ASSUME NEW i \in Intents, Prepare(i) \/ Invalidate(i) PROVE [Next]_queueVars
  BY <1>5 DEF Prepare, Invalidate, queueVars
<1>6. ASSUME NEW m \in requests, NEW refused \in BOOLEAN, Deliver(m, refused)
      PROVE  [Next]_queueVars
  BY <1>6 DEF Deliver, queueVars
<1>7. CASE UNCHANGED vars
  BY <1>7 DEF vars, queueVars
<1> QED
  BY <1>1, <1>2, <1>3, <1>4, <1>5, <1>6, <1>7 DEF EffectNext

\* Effect jobs use the queue and nothing else of it: every step of a handler, of
\* the API or of the external system is a step of the queue or none.
THEOREM QueueUnderEffects == EffectSafetySpec => SafetySpec
<1>1. EffectInit => Init
  BY DEF EffectInit
<1>2. [EffectNext]_vars => [Next]_queueVars
  BY EffectOnQueue
<1> QED
  BY <1>1, <1>2, PTL DEF EffectSafetySpec, SafetySpec

-----------------------------------------------------------------------------
(* The lifecycle of an intent.                                             *)
LEMMA StatusNames ==
  EffectStatuses = {"ABSENT", "PREPARED", "EXECUTING", "COMMITTED", "FAILED",
                    "COMPENSATION_PENDING", "COMPENSATED", "REMEDIATION_REQUIRED",
                    "IRREVERSIBLE_COMMITTED", "RECONCILIATION_REQUIRED"}
  BY DEF EffectStatuses, Successors

LEMMA NameTypes ==
  ASSUME NEW op \in Operations, NEW i \in Intents
  PROVE  /\ Pending(op) \in EffectStatuses /\ Refusal(op) \in EffectStatuses
         /\ Terminal(i) \in EffectStatuses /\ Done(op, i) \in EffectStatuses
         /\ Receipt(op) \in Receipts
         /\ \A seen \in EffectStatuses : Toward(op, i, seen) \in EffectStatuses
  BY StatusNames
  DEF Operations, Receipts, Pending, Refusal, Terminal, Done, Receipt, Toward

\* A handler first begins an operation from a status that may go on to pending.
LEMMA FirstAttempts ==
  /\ \A seen \in {"PREPARED", "FAILED"} : Legal(seen, "EXECUTING")
  /\ \A seen \in {"COMMITTED", "REMEDIATION_REQUIRED", "RECONCILIATION_REQUIRED"} :
       Legal(seen, "COMPENSATION_PENDING")
  BY DEF Legal, Successors

LEMMA Routes ==
  ASSUME NEW i \in Intents, NEW seen \in EffectStatuses
  PROVE  /\ RouteExecute(i, seen) \in {"finalize", "succeeded", "mark", "begin", "permanent"}
         /\ RouteExecute(i, seen) = "finalize" => "EXECUTED" \in receipts[i]
         /\ RouteExecute(i, seen) = "begin" => Legal(seen, "EXECUTING")
         /\ RouteCompensate(i, seen) \in {"finalize", "succeeded", "mark", "begin",
                                          "permanent", "remediate"}
         /\ RouteCompensate(i, seen) = "finalize" => "COMPENSATED" \in receipts[i]
         /\ RouteCompensate(i, seen) = "begin" => Legal(seen, "COMPENSATION_PENDING")
<1>1. CASE seen = "ABSENT"
  BY <1>1 DEF RouteExecute, RouteCompensate
<1>2. CASE seen \in {"PREPARED", "FAILED"}
  BY <1>2, FirstAttempts DEF RouteExecute, RouteCompensate
<1>3. CASE seen = "EXECUTING"
  BY <1>3 DEF RouteExecute, RouteCompensate
<1>4. CASE seen = "COMMITTED" \/ seen = "REMEDIATION_REQUIRED"
  BY <1>4, FirstAttempts DEF RouteExecute, RouteCompensate
<1>5. CASE seen = "COMPENSATION_PENDING"
  BY <1>5 DEF RouteExecute, RouteCompensate
<1>6. CASE seen = "COMPENSATED"
  BY <1>6 DEF RouteExecute, RouteCompensate
<1>7. CASE seen = "IRREVERSIBLE_COMMITTED"
  BY <1>7 DEF RouteExecute, RouteCompensate
<1>8. CASE seen = "RECONCILIATION_REQUIRED"
  BY <1>8 DEF RouteExecute, RouteCompensate
<1> QED
  BY <1>1, <1>2, <1>3, <1>4, <1>5, <1>6, <1>7, <1>8, StatusNames

-----------------------------------------------------------------------------
(* What a handler does in one step.                                        *)

\* The places a handler goes to by Proceed, with what is then true.
GoesTo(s, seen, next) ==
  /\ seen \in EffectStatuses
  /\ next \in (Stages \cup Outcomes) \ {"none", "send", "applied"}
  /\ next = "persist" => Applied(Intent(s), Operation(s))
  /\ next = "finalize" => Receipt(Operation(s)) \in receipts'[Intent(s)]
  /\ next = "begin" => Legal(seen, Pending(Operation(s)))
  /\ next = "query" => seen = "RECONCILIATION_REQUIRED"
  /\ Proceed(s, seen, next)

HandlerGoes(s) == \E seen, next : GoesTo(s, seen, next)

\* A status that claims an outcome is set only with the receipt of it.
Backed(i, status) ==
  /\ status \in {"COMMITTED", "IRREVERSIBLE_COMMITTED"} => "EXECUTED" \in receipts[i]
  /\ status = "COMPENSATED" => "COMPENSATED" \in receipts[i]

StatusGoes(s) ==
  \/ UNCHANGED intents
  \/ \E to \in EffectStatuses :
       /\ Legal(intents[Intent(s)], to) /\ Backed(Intent(s), to)
       /\ SetStatus(Intent(s), to)

\* A step other than the three that begin, send and record an operation.
Plain(s) == HandlerGoes(s) /\ StatusGoes(s) /\ UNCHANGED <<receipts, fences, requests, applied>>

Records(s) ==
  /\ Applied(Intent(s), Operation(s))
  /\ receipts' = [receipts EXCEPT ![Intent(s)] = @ \cup {Receipt(Operation(s))}]
  /\ HandlerGoes(s)
  /\ UNCHANGED <<intents, fences, requests, applied>>

Sends(s) ==
  /\ handler[s].at = "send" /\ ResourceCurrent(s)
  /\ requests' = requests \cup {[intent |-> Intent(s), op |-> Operation(s),
                                 token |-> handler[s].token]}
  /\ HandlerGoes(s)
  /\ UNCHANGED <<intents, receipts, fences, applied>>

Begins(s) ==
  LET i == Intent(s)
      token == NextToken(i)
  IN  /\ Legal(intents[i], Pending(Operation(s)))
      /\ SetStatus(i, Pending(Operation(s)))
      /\ fences' = [fences EXCEPT ![ResourceOf[i]] = token]
      /\ handler' = [handler EXCEPT ![s] = [at |-> "send", seen |-> Pending(Operation(s)),
                                            token |-> token, trying |-> TRUE]]
      /\ UNCHANGED <<jobs, slots, receipts, requests, applied>>

\* The state of the handlers: typed, tied to a running slot, and never at a stage
\* without what the stages before it have established.
HandlersTyped == handler \in [Slots -> Handler]

Runs(s) == /\ slots[s].phase # "idle" => slots[s].job \in Jobs
           /\ handler[s].at # "none" => slots[s].phase = "running"

HandlersRun == \A s \in Slots : Runs(s)

Earned(s) ==
  /\ handler[s].at \in {"persist", "applied"} => Applied(Intent(s), Operation(s))
  /\ handler[s].at = "finalize" => Receipt(Operation(s)) \in receipts[Intent(s)]
  /\ handler[s].at = "begin" => Legal(handler[s].seen, Pending(Operation(s)))
  /\ handler[s].at = "query" => handler[s].seen = "RECONCILIATION_REQUIRED"

StagesEarned == \A s \in Slots : Earned(s)

HandlerInv == HandlersTyped /\ HandlersRun /\ StagesEarned

LEMMA OfSlot ==
  ASSUME TypeOK, HandlersRun, NEW s \in Slots, slots[s].phase = "running"
  PROVE  Intent(s) \in Intents /\ Operation(s) \in Operations
<1>1. slots[s].job \in Jobs
  BY DEF HandlersRun, Runs
<1> QED
  BY <1>1, EffectAssumption DEF Intent, Operation, Operations

LEMMA HandlerRuns ==
  ASSUME NEW s \in Slots, HandlerStep(s)
  PROVE  slots[s].phase = "running"
  BY DEF HandlerStep, Running, Load, Route, ConnectorUnusable, Remediate, Mark, Query, NotFound,
         Unapproved, Begin, Send, NoAnswer, Answered, Ambiguous, Refuse, Persist, Finalize,
         Unknown, Interrupt

LEMMA TransitionSummary ==
  ASSUME HandlerInv, TypeOK, NEW s \in Slots, slots[s].phase = "running",
         NEW to \in EffectStatuses, Backed(Intent(s), to),
         NEW next \in (Stages \cup Outcomes) \ {"none", "send", "applied", "persist", "begin"},
         next = "query" => to = "RECONCILIATION_REQUIRED",
         next = "finalize" => Receipt(Operation(s)) \in receipts'[Intent(s)],
         Transition(s, to, next)
  PROVE  HandlerGoes(s) /\ StatusGoes(s)
<1> DEFINE seen == handler[s].seen
<1>1. seen \in EffectStatuses
  BY DEF HandlerInv, HandlersTyped, Handler
<1>2. ASSUME NEW outcome \in {"permanent", "retryable"}, Throw(s, outcome)
      PROVE  HandlerGoes(s)
  <2>1. GoesTo(s, seen, IF Caught(s) THEN "unknown" ELSE outcome)
    BY <1>1, <1>2 DEF Throw, GoesTo, Stages, Outcomes
  <2> QED
    BY <2>1 DEF HandlerGoes
<1>3. ASSUME Proceed(s, to, next)
      PROVE  HandlerGoes(s)
  BY <1>3 DEF GoesTo, HandlerGoes
<1>4. CASE UNCHANGED intents
  BY <1>2, <1>3, <1>4 DEF Transition, StatusGoes
<1>5. CASE seen # to /\ Legal(seen, to) /\ intents[Intent(s)] = seen
           /\ SetStatus(Intent(s), to) /\ Proceed(s, to, next)
  BY <1>3, <1>5 DEF StatusGoes
<1> QED
  BY <1>4, <1>5 DEF Transition

RecordsTyped ==
  /\ intents \in [Intents -> EffectStatuses]
  /\ receipts \in [Intents -> SUBSET Receipts]

\* Every step of a handler is one of the four, and leaves the other's rows alone.
LEMMA HandlerSummary ==
  ASSUME TypeOK, HandlerInv, RecordsTyped, NEW s \in Slots, HandlerStep(s)
  PROVE  Plain(s) \/ Records(s) \/ Sends(s) \/ Begins(s)
<1> DEFINE i == Intent(s)
           op == Operation(s)
           seen == handler[s].seen
<1>1. slots[s].phase = "running"
  BY HandlerRuns
<1>2. i \in Intents /\ op \in Operations
  BY <1>1, OfSlot DEF HandlerInv
<1>3. seen \in EffectStatuses /\ intents[i] \in EffectStatuses
  BY <1>2 DEF HandlerInv, HandlersTyped, Handler, RecordsTyped
<1>4. ASSUME NEW next \in (Stages \cup Outcomes) \ {"none", "send", "applied", "persist",
                                                     "finalize", "begin", "query"},
             Proceed(s, seen, next)
      PROVE  HandlerGoes(s)
  BY <1>3, <1>4 DEF GoesTo, HandlerGoes
<1>5. ASSUME NEW to \in {"RECONCILIATION_REQUIRED", "REMEDIATION_REQUIRED", "FAILED"},
             NEW next \in {"permanent", "retryable", "succeeded"},
             Transition(s, to, next), UNCHANGED <<receipts, fences, requests, applied>>
      PROVE  Plain(s)
  <2>1. to \in EffectStatuses /\ Backed(i, to)
    BY StatusNames DEF Backed
  <2> QED
    BY <1>1, <1>5, <2>1, TransitionSummary DEF Plain, Stages, Outcomes
<1>6. CASE Load(s)
  <2>1. GoesTo(s, intents[i], "route")
    BY <1>3, <1>6 DEF Load, GoesTo, Stages
  <2> QED
    BY <1>6, <2>1 DEF Load, Plain, HandlerGoes, StatusGoes, effectVars, externalVars
<1>7. CASE Route(s)
  <2>1. Receipt("execute") = "EXECUTED" /\ Receipt("compensate") = "COMPENSATED"
        /\ Pending("execute") = "EXECUTING" /\ Pending("compensate") = "COMPENSATION_PENDING"
    BY DEF Receipt, Pending
  <2>2. CASE op = "execute"
    <3>1. GoesTo(s, seen, RouteExecute(i, seen))
      BY <1>2, <1>3, <1>7, <2>1, <2>2, Routes
      DEF Route, GoesTo, Stages, Outcomes, effectVars
    <3> QED
      BY <1>7, <3>1 DEF Route, Plain, HandlerGoes, StatusGoes, effectVars, externalVars
  <2>3. CASE op = "compensate"
    <3>1. GoesTo(s, seen, RouteCompensate(i, seen))
      BY <1>2, <1>3, <1>7, <2>1, <2>3, Routes
      DEF Route, GoesTo, Stages, Outcomes, effectVars
    <3> QED
      BY <1>7, <3>1 DEF Route, Plain, HandlerGoes, StatusGoes, effectVars, externalVars
  <2> QED
    BY <1>2, <2>2, <2>3 DEF Operations
<1>8. CASE ConnectorUnusable(s)
  <2>1. CASE Transition(s, "RECONCILIATION_REQUIRED", "permanent")
    BY <1>5, <1>8, <2>1 DEF ConnectorUnusable, externalVars
  <2>2. CASE Proceed(s, seen, "permanent") /\ UNCHANGED intents
    BY <1>4, <1>8, <2>2 DEF ConnectorUnusable, externalVars, Plain, StatusGoes, Outcomes
  <2> QED
    BY <1>8, <2>1, <2>2 DEF ConnectorUnusable
<1>9. CASE Remediate(s)
  BY <1>5, <1>9 DEF Remediate, externalVars
<1>10. CASE Mark(s)
  <2>1. Backed(i, "RECONCILIATION_REQUIRED") /\ "RECONCILIATION_REQUIRED" \in EffectStatuses
    BY StatusNames DEF Backed
  <2> QED
    BY <1>1, <1>10, <2>1, TransitionSummary DEF Mark, Plain, Stages, externalVars
<1>11. CASE Query(s)
  <2>1. seen = "RECONCILIATION_REQUIRED"
    BY <1>11 DEF Query, Running, HandlerInv, StagesEarned, Earned
  <2>2. PICK next \in {Lookup(i, op), "succeeded", "retryable"} : Proceed(s, seen, next)
    BY <1>11 DEF Query
  <2>3. CASE next \in {"succeeded", "retryable"}
    BY <1>4, <1>11, <2>2, <2>3
    DEF Query, Plain, StatusGoes, Outcomes, effectVars, externalVars
  <2>4. CASE next = Lookup(i, op)
    <3>1. /\ next \in {"persist", "notFound", "begin"}
          /\ next = "persist" => Applied(i, op)
          /\ next = "begin" => op = "compensate"
      BY <1>2, <2>4 DEF Lookup, Operations
    <3>2. next = "begin" => Legal(seen, Pending(op))
      BY <2>1, <3>1, FirstAttempts DEF Pending
    <3>3. GoesTo(s, seen, next)
      BY <1>3, <2>2, <3>1, <3>2 DEF GoesTo, Stages
    <3> QED
      BY <1>11, <3>3 DEF Query, Plain, HandlerGoes, StatusGoes, effectVars, externalVars
  <2> QED
    BY <2>3, <2>4
<1>12. CASE NotFound(s)
  BY <1>5, <1>12 DEF NotFound, externalVars
<1>13. CASE Unapproved(s)
  BY <1>5, <1>13 DEF Unapproved, externalVars
<1>14. CASE Begin(s)
  <2>1. Legal(seen, Pending(op))
    BY <1>14 DEF Begin, Running, HandlerInv, StagesEarned, Earned
  <2>2. CASE intents[i] = seen /\ UNCHANGED <<jobs, slots>>
    BY <1>14, <2>1, <2>2 DEF Begin, Begins, externalVars, Throw, Proceed, NoHandler
  <2>3. CASE Throw(s, "retryable") /\ UNCHANGED <<intents, fences>>
    <3>1. HandlerGoes(s)
      BY <1>4, <2>3 DEF Throw, Stages, Outcomes
    <3> QED
      BY <1>14, <2>3, <3>1 DEF Begin, Plain, StatusGoes, externalVars
  <2> QED
    BY <1>14, <2>1, <2>2, <2>3 DEF Begin, Begins, externalVars
<1>15. CASE Send(s)
  <2>1. CASE ResourceCurrent(s)
    <3>1. HandlerGoes(s)
      BY <1>4, <1>15, <2>1 DEF Send, Stages
    <3> QED
      BY <1>15, <2>1, <3>1 DEF Send, Sends, Running, effectVars
  <2>2. CASE ~ResourceCurrent(s)
    <3>1. HandlerGoes(s)
      BY <1>4, <1>15, <2>2 DEF Send, Stages
    <3> QED
      BY <1>15, <2>2, <3>1 DEF Send, Plain, StatusGoes, effectVars
  <2> QED
    BY <2>1, <2>2
<1>16. CASE NoAnswer(s)
  <2>1. HandlerGoes(s)
    BY <1>4, <1>16 DEF NoAnswer, Stages
  <2> QED
    BY <1>16, <2>1 DEF NoAnswer, Plain, StatusGoes, effectVars, externalVars
<1>17. CASE Answered(s)
  <2>1. GoesTo(s, seen, IF ResourceCurrent(s) THEN AfterAnswer(handler[s].at) ELSE "unknown")
    BY <1>3, <1>17
    DEF Answered, AfterAnswer, Running, GoesTo, Stages, HandlerInv, StagesEarned, Earned
  <2> QED
    BY <1>17, <2>1 DEF Answered, Plain, HandlerGoes, StatusGoes, effectVars, externalVars
<1>18. CASE Ambiguous(s)
  BY <1>5, <1>18 DEF Ambiguous, externalVars
<1>19. CASE Refuse(s)
  <2>1. Refusal(op) \in {"FAILED", "REMEDIATION_REQUIRED"}
    BY DEF Refusal
  <2> QED
    BY <1>5, <1>19, <2>1 DEF Refuse, externalVars
<1>20. CASE Persist(s)
  <2>1. Applied(i, op)
    BY <1>20 DEF Persist, Running, HandlerInv, StagesEarned, Earned
  <2>2. CASE /\ receipts' = [receipts EXCEPT ![i] = @ \cup {Receipt(op)}]
             /\ Proceed(s, seen, "finalize")
    <3>1. Receipt(op) \in receipts'[i]
      BY <1>2, <2>2 DEF RecordsTyped
    <3>2. GoesTo(s, seen, "finalize")
      BY <1>3, <2>2, <3>1 DEF GoesTo, Stages
    <3> QED
      BY <1>20, <2>1, <2>2, <3>2 DEF Persist, Records, HandlerGoes, externalVars
  <2>3. CASE Throw(s, "permanent") /\ UNCHANGED receipts
    <3>1. HandlerGoes(s)
      BY <1>4, <2>3 DEF Throw, Stages, Outcomes
    <3> QED
      BY <1>20, <2>3, <3>1 DEF Persist, Plain, StatusGoes, externalVars
  <2> QED
    BY <1>20, <2>2, <2>3 DEF Persist
<1>21. CASE Finalize(s)
  <2>1. Receipt(op) \in receipts[i] /\ receipts' = receipts
    BY <1>21 DEF Finalize, Running, HandlerInv, StagesEarned, Earned
  <2>2. CASE Proceed(s, seen, "succeeded") /\ UNCHANGED intents
    BY <1>4, <1>21, <2>2 DEF Finalize, Plain, StatusGoes, Outcomes, externalVars
  <2>3. CASE Transition(s, Toward(op, i, seen), "finalize")
    <3>1. Toward(op, i, seen) \in EffectStatuses
      BY <1>2, <1>3, NameTypes
    <3>2. Backed(i, Toward(op, i, seen))
      BY <1>2, <2>1 DEF Backed, Toward, Terminal, Receipt, Operations
    <3>3. HandlerGoes(s) /\ StatusGoes(s)
      BY <1>1, <2>1, <2>3, <3>1, <3>2, TransitionSummary DEF Stages
    <3> QED
      BY <1>21, <3>3 DEF Finalize, Plain, externalVars
  <2> QED
    BY <1>21, <2>2, <2>3 DEF Finalize
<1>22. CASE Unknown(s)
  BY <1>5, <1>22 DEF Unknown, externalVars
<1>23. CASE Interrupt(s)
  <2>1. HandlerGoes(s)
    BY <1>4, <1>23 DEF Interrupt, Stages, Outcomes
  <2> QED
    BY <1>23, <2>1 DEF Interrupt, Plain, StatusGoes, effectVars, externalVars
<1> QED
  BY <1>6, <1>7, <1>8, <1>9, <1>10, <1>11, <1>12, <1>13, <1>14, <1>15, <1>16, <1>17, <1>18,
     <1>19, <1>20, <1>21, <1>22, <1>23 DEF HandlerStep

-----------------------------------------------------------------------------
(* The handler invariant is inductive.                                     *)

\* What is recorded here or applied out there stays so.
Grows == /\ applied \subseteq applied'
         /\ \A i \in Intents : receipts[i] \subseteq receipts'[i]

LEMMA NothingIsErased ==
  ASSUME TypeOK, HandlerInv, RecordsTyped, [EffectNext]_vars
  PROVE  Grows
<1>1. CASE UNCHANGED <<receipts, applied>>
  BY <1>1 DEF Grows
<1>2. ASSUME NEW s \in Slots, HandlerStep(s) PROVE Grows
  <2>1. CASE Records(s)
    BY <2>1 DEF Records, Grows, RecordsTyped
  <2> QED
    BY <1>1, <1>2, <2>1, HandlerSummary DEF Plain, Sends, Begins
<1>3. ASSUME NEW s \in Slots, WorkerStep(s) \/ ForgetHandler(s, Abandon(s)) PROVE Grows
  BY <1>1, <1>2, <1>3
  DEF WorkerStep, StartHandler, SettleJob, ForgetHandler, effectVars, externalVars
<1>4. ASSUME NEW j \in Jobs, Clock(j) \/ Commit(j) \/ Reconcile(j) \/ RequestCompensation(j)
      PROVE  Grows
  BY <1>1, <1>4 DEF Clock, Commit, Reconcile, RequestCompensation, effectVars, externalVars
<1>5. ASSUME NEW m \in requests, NEW refused \in BOOLEAN, Deliver(m, refused) PROVE Grows
  BY <1>5 DEF Deliver, effectVars, Grows
<1> QED
  BY <1>1, <1>3, <1>4, <1>5 DEF EffectNext, Sweep, Prepare, Invalidate, vars, externalVars

\* A slot whose handler and job stay keeps its invariant.
LEMMA EarnedStays ==
  ASSUME Grows, NEW t \in Slots, Earned(t), Intent(t) \in Intents \/ handler[t].at = "none",
         handler'[t] = handler[t], slots'[t].job = slots[t].job
  PROVE  Earned(t)'
<1>1. Intent(t)' = Intent(t) /\ Operation(t)' = Operation(t)
  BY DEF Intent, Operation
<1>2. Applied(Intent(t), Operation(t)) => Applied(Intent(t), Operation(t))'
  BY <1>1 DEF Applied, Grows
<1> QED
  BY <1>1, <1>2 DEF Earned, Grows, Legal, Pending, Receipt

LEMMA GoingKeepsHandlers ==
  ASSUME TypeOK, HandlerInv, RecordsTyped, Grows, NEW s \in Slots, slots[s].phase = "running",
         HandlerGoes(s)
  PROVE  HandlerInv'
<1>1. PICK seen, next : GoesTo(s, seen, next)
  BY DEF HandlerGoes
<1>2. /\ \A t \in Slots \ {s} : handler'[t] = handler[t] /\ slots'[t] = slots[t]
      /\ slots'[s].job = slots[s].job
  BY <1>1 DEF GoesTo, Proceed, HandlerEnds, HandlerInv, HandlersTyped, TypeOK, SlotState
<1>3. /\ handler' \in [Slots -> Handler]
      /\ \/ handler'[s] = NoHandler
         \/ handler'[s].at = next /\ handler'[s].seen = seen /\ slots'[s] = slots[s]
  <2>1. CASE handler' = [handler EXCEPT ![s] = NoHandler]
    <3>1. NoHandler \in Handler
      BY StatusNames DEF NoHandler, Handler, Stages
    <3> QED
      BY <2>1, <3>1 DEF HandlerInv, HandlersTyped
  <2>2. CASE next \in Stages /\ UNCHANGED slots
             /\ handler' = [handler EXCEPT ![s].at = next, ![s].seen = seen]
    <3>1. seen \in EffectStatuses
      BY <1>1 DEF GoesTo
    <3> QED
      BY <2>2, <3>1 DEF HandlerInv, HandlersTyped, Handler
  <2> QED
    BY <1>1, <2>1, <2>2 DEF GoesTo, Proceed
<1>4. \A t \in Slots : Intent(t) \in Intents \/ handler[t].at = "none"
  BY OfSlot DEF HandlerInv, HandlersRun, Runs
<1>5. Runs(s)' /\ \A t \in Slots \ {s} : Runs(t)'
  BY <1>2, <1>3 DEF HandlerInv, HandlersRun, Runs, NoHandler
<1>6. Earned(s)'
  <2>1. CASE handler'[s] = NoHandler
    BY <2>1 DEF Earned, NoHandler
  <2>2. CASE handler'[s].at = next /\ handler'[s].seen = seen
    <3>1. Intent(s)' = Intent(s) /\ Operation(s)' = Operation(s)
      BY <1>2 DEF Intent, Operation
    <3>2. Applied(Intent(s), Operation(s)) => Applied(Intent(s), Operation(s))'
      BY <3>1 DEF Applied, Grows
    <3> QED
      BY <1>1, <2>2, <3>1, <3>2 DEF Earned, GoesTo, Legal, Pending, Receipt
  <2> QED
    BY <1>3, <2>1, <2>2
<1>7. \A t \in Slots \ {s} : Earned(t)'
  BY <1>2, <1>4, EarnedStays DEF HandlerInv, StagesEarned
<1> QED
  BY <1>3, <1>5, <1>6, <1>7 DEF HandlerInv, HandlersTyped, HandlersRun, StagesEarned

FencesTyped == fences \in [Resources -> Nat]
WritesTyped == requests \in SUBSET Writes /\ applied \in SUBSET Writes

DataTyped == RecordsTyped /\ FencesTyped /\ WritesTyped

LEMMA FencesOf ==
  ASSUME FencesTyped, NEW i \in Intents
  PROVE  ResourceOf[i] \in Resources /\ fences[ResourceOf[i]] \in Nat /\ NextToken(i) \in Nat
  BY EffectAssumption DEF FencesTyped, NextToken

LEMMA BeginningKeepsHandlers ==
  ASSUME TypeOK, HandlerInv, DataTyped, Grows, NEW s \in Slots, slots[s].phase = "running",
         Begins(s)
  PROVE  HandlerInv'
<1> DEFINE new == [at |-> "send", seen |-> Pending(Operation(s)),
                   token |-> NextToken(Intent(s)), trying |-> TRUE]
<1>1. Intent(s) \in Intents /\ Operation(s) \in Operations
  BY OfSlot DEF HandlerInv
<1>2. new \in Handler
  BY <1>1, NameTypes, FencesOf DEF DataTyped, Handler, Stages
<1>3. handler' = [handler EXCEPT ![s] = new] /\ UNCHANGED slots
  BY DEF Begins
<1> HIDE DEF new
<1>4. handler' \in [Slots -> Handler] /\ handler'[s] = new
      /\ \A t \in Slots \ {s} : handler'[t] = handler[t]
  BY <1>2, <1>3 DEF HandlerInv, HandlersTyped
<1>5. new.at = "send"
  BY DEF new
<1>6. \A t \in Slots : Intent(t) \in Intents \/ handler[t].at = "none"
  BY OfSlot DEF HandlerInv, HandlersRun, Runs
<1>7. \A t \in Slots : Runs(t)'
  BY <1>3, <1>4 DEF HandlerInv, HandlersRun, Runs
<1>8. Earned(s)'
  BY <1>4, <1>5 DEF Earned
<1>9. \A t \in Slots \ {s} : Earned(t)'
  BY <1>3, <1>4, <1>6, EarnedStays DEF HandlerInv, StagesEarned
<1> QED
  BY <1>4, <1>7, <1>8, <1>9 DEF HandlerInv, HandlersTyped, HandlersRun, StagesEarned

\* The queue around the handlers: a slot starts one, forgets one, or has none.
LEMMA QueueKeepsHandlers ==
  ASSUME TypeOK, HandlerInv, Grows, NEW s \in Slots,
         \/ \E j \in Jobs : StartHandler(s, j)
         \/ SettleJob(s)
         \/ ForgetHandler(s, FenceLost(s)) \/ ForgetHandler(s, Abandon(s))
  PROVE  HandlerInv'
<1>1. \A t \in Slots : Intent(t) \in Intents \/ handler[t].at = "none"
  BY OfSlot DEF HandlerInv, HandlersRun, Runs
<1>2. ASSUME \A t \in Slots \ {s} : handler'[t] = handler[t] /\ slots'[t] = slots[t],
             handler' \in [Slots -> Handler], Runs(s)', handler'[s].at \in {"none", "load"}
      PROVE  HandlerInv'
  <2>1. \A t \in Slots \ {s} : Runs(t)' /\ Earned(t)'
    BY <1>1, <1>2, EarnedStays DEF HandlerInv, HandlersRun, Runs, StagesEarned
  <2>2. Earned(s)'
    BY <1>2 DEF Earned
  <2> QED
    BY <1>2, <2>1, <2>2 DEF HandlerInv, HandlersTyped, HandlersRun, StagesEarned
<1>3. NoHandler \in Handler /\ [NoHandler EXCEPT !.at = "load"] \in Handler
  BY StatusNames DEF NoHandler, Handler, Stages
<1>4. ASSUME NEW j \in Jobs, StartHandler(s, j) PROVE HandlerInv'
  <2>1. /\ slots'[s].phase = "running" /\ slots'[s].job = j
        /\ \A t \in Slots \ {s} : slots'[t] = slots[t]
    BY <1>4 DEF StartHandler, Claim, TypeOK
  <2>2. /\ handler' \in [Slots -> Handler] /\ handler'[s].at = "load"
        /\ \A t \in Slots \ {s} : handler'[t] = handler[t]
    BY <1>3, <1>4 DEF StartHandler, HandlerInv, HandlersTyped, NoHandler
  <2> QED
    BY <1>2, <2>1, <2>2 DEF Runs
<1>5. ASSUME SettleJob(s) PROVE HandlerInv'
  <2>1. slots[s].phase \in Outcomes /\ handler' = handler
    BY <1>5 DEF SettleJob, Complete, CompleteThrows, FailRetryable, FailPermanent, Outcomes
  <2>2. handler[s].at = "none" /\ slots[s].job \in Jobs
    BY <2>1 DEF Outcomes, HandlerInv, HandlersRun, Runs
  <2>3. /\ \A t \in Slots \ {s} : slots'[t] = slots[t]
        /\ slots'[s] = Idle \/ slots'[s].job = slots[s].job
    <3>1. CASE Complete(s) \/ FailRetryable(s) \/ FailPermanent(s)
      BY <3>1 DEF Complete, FailRetryable, FailPermanent, TypeOK
    <3>2. CASE CompleteThrows(s)
      BY <3>2 DEF CompleteThrows, TypeOK, SlotState
    <3> QED
      BY <1>5, <3>1, <3>2 DEF SettleJob
  <2>4. Runs(s)'
    BY <2>1, <2>2, <2>3 DEF Runs, Idle
  <2> QED
    BY <1>2, <2>1, <2>2, <2>3, <2>4 DEF HandlerInv, HandlersTyped
<1>6. ASSUME ForgetHandler(s, FenceLost(s)) \/ ForgetHandler(s, Abandon(s)) PROVE HandlerInv'
  <2>1. slots'[s] = Idle /\ \A t \in Slots \ {s} : slots'[t] = slots[t]
    BY <1>6 DEF ForgetHandler, FenceLost, Abandon, TypeOK
  <2>2. /\ handler' \in [Slots -> Handler] /\ handler'[s].at = "none"
        /\ \A t \in Slots \ {s} : handler'[t] = handler[t]
    <3>1. handler' = [handler EXCEPT ![s] = NoHandler] /\ NoHandler.at = "none"
      BY <1>6 DEF ForgetHandler, NoHandler
    <3> QED
      BY <1>3, <3>1 DEF HandlerInv, HandlersTyped
  <2> QED
    BY <1>2, <2>1, <2>2 DEF Runs, Idle
<1> QED
  BY <1>4, <1>5, <1>6

LEMMA DeliveryKeepsHandlers ==
  ASSUME TypeOK, HandlerInv, DataTyped, Grows, NEW m \in requests, NEW refused \in BOOLEAN,
         Deliver(m, refused)
  PROVE  HandlerInv'
<1> DEFINE repeated == Applied(m.intent, m.op)
           answer == IF refused /\ ~repeated THEN "refused" ELSE "applied"
<1>1. slots' = slots
  BY DEF Deliver
<1>2. answer = "applied" => Applied(m.intent, m.op)'
  <2>1. CASE repeated
    BY <2>1 DEF Applied, Grows
  <2>2. CASE ~repeated /\ answer = "applied"
    <3>1. m \in applied'
      BY <2>2 DEF Deliver
    <3> QED
      BY <3>1 DEF Applied
  <2> QED
    BY <2>1, <2>2
<1>3. /\ handler' \in [Slots -> Handler]
      /\ \A t \in Slots :
           \/ handler'[t] = handler[t]
           \/ /\ handler[t].at = "await" /\ slots[t].phase = "running"
              /\ Intent(t) = m.intent /\ Operation(t) = m.op
              /\ handler'[t].at = answer
  <2>1. answer \in Stages
    BY DEF Stages
  <2> HIDE DEF answer
  <2>2. \A t \in Slots : [handler[t] EXCEPT !.at = answer] \in Handler
                         /\ [handler[t] EXCEPT !.at = answer].at = answer
    BY <2>1 DEF HandlerInv, HandlersTyped, Handler
  <2> QED
    BY <2>2 DEF Deliver, Running, HandlerInv, HandlersTyped, answer
<1>4. \A t \in Slots : Intent(t) \in Intents \/ handler[t].at = "none"
  BY OfSlot DEF HandlerInv, HandlersRun, Runs
<1>5. ASSUME NEW t \in Slots PROVE Runs(t)' /\ Earned(t)'
  <2>1. CASE handler'[t] = handler[t]
    BY <1>1, <1>4, <2>1, EarnedStays DEF HandlerInv, HandlersRun, Runs, StagesEarned
  <2>2. CASE /\ handler[t].at = "await" /\ slots[t].phase = "running"
             /\ Intent(t) = m.intent /\ Operation(t) = m.op
             /\ handler'[t].at = answer
    <3>1. Intent(t)' = m.intent /\ Operation(t)' = m.op
      BY <1>1, <2>2 DEF Intent, Operation
    <3>2. Earned(t)'
      BY <1>2, <2>2, <3>1 DEF Earned
    <3>3. Runs(t)'
      BY <1>1, <2>2 DEF HandlerInv, HandlersRun, Runs
    <3> QED
      BY <3>2, <3>3
  <2> QED
    BY <1>3, <2>1, <2>2
<1> QED
  BY <1>3, <1>5 DEF HandlerInv, HandlersTyped, HandlersRun, StagesEarned

LEMMA HandlerInvStep ==
  ASSUME TypeOK, HandlerInv, DataTyped, [EffectNext]_vars
  PROVE  HandlerInv'
<1>1. Grows
  BY NothingIsErased DEF DataTyped
<1>2. CASE UNCHANGED <<handler, slots>>
  <2>1. \A t \in Slots : Intent(t) \in Intents \/ handler[t].at = "none"
    BY OfSlot DEF HandlerInv, HandlersRun, Runs
  <2>2. \A t \in Slots : Runs(t)' /\ Earned(t)'
    BY <1>1, <1>2, <2>1, EarnedStays DEF HandlerInv, HandlersRun, Runs, StagesEarned
  <2> QED
    BY <1>2, <2>2 DEF HandlerInv, HandlersTyped, HandlersRun, StagesEarned
<1>3. ASSUME NEW s \in Slots, HandlerStep(s) PROVE HandlerInv'
  <2>1. slots[s].phase = "running"
    BY <1>3, HandlerRuns
  <2>2. CASE HandlerGoes(s)
    BY <1>1, <2>1, <2>2, GoingKeepsHandlers DEF DataTyped
  <2>3. CASE Begins(s)
    BY <1>1, <2>1, <2>3, BeginningKeepsHandlers
  <2> QED
    BY <1>3, <2>2, <2>3, HandlerSummary DEF DataTyped, Plain, Records, Sends
<1>4. ASSUME NEW s \in Slots, WorkerStep(s) \/ ForgetHandler(s, Abandon(s)) PROVE HandlerInv'
  BY <1>1, <1>3, <1>4, QueueKeepsHandlers DEF WorkerStep
<1>5. ASSUME NEW j \in Jobs, Clock(j) \/ Commit(j) \/ Reconcile(j) \/ RequestCompensation(j)
      PROVE  HandlerInv'
  BY <1>2, <1>5
  DEF Clock, Commit, Reconcile, RequestCompensation, BecomeDue, LeaseExpires, Enqueue
<1>6. ASSUME NEW S \in SUBSET Jobs, Sweep(S) PROVE HandlerInv'
  BY <1>2, <1>6 DEF Sweep, RecoverStalled
<1>7. ASSUME NEW i \in Intents, Prepare(i) \/ Invalidate(i) PROVE HandlerInv'
  BY <1>2, <1>7 DEF Prepare, Invalidate
<1>8. ASSUME NEW m \in requests, NEW refused \in BOOLEAN, Deliver(m, refused) PROVE HandlerInv'
  BY <1>1, <1>8, DeliveryKeepsHandlers
<1> QED
  BY <1>2, <1>4, <1>5, <1>6, <1>7, <1>8 DEF EffectNext, vars

-----------------------------------------------------------------------------
(* The status of an intent.                                                *)

\* What one step may do to the status of an intent.
StatusKept(i)       == intents'[i] = intents[i]
StatusMoved(i)      == Legal(intents[i], intents'[i]) /\ Backed(i, intents'[i])
StatusPrepared(i)   == intents[i] = "ABSENT" /\ intents'[i] = "PREPARED"

StatusStep(i) == StatusKept(i) \/ StatusMoved(i) \/ StatusPrepared(i)

LEMMA StatusSteps ==
  ASSUME TypeOK, HandlerInv, DataTyped, [EffectNext]_vars
  PROVE  (\A i \in Intents : StatusStep(i)) /\ intents' = [i \in Intents |-> intents'[i]]
<1> DEFINE Goal == (\A i \in Intents : StatusStep(i)) /\ intents' = [i \in Intents |-> intents'[i]]
<1> USE DEF DataTyped, RecordsTyped
<1>1. CASE UNCHANGED intents
  BY <1>1 DEF StatusStep, StatusKept
<1>2. ASSUME NEW k \in Intents, NEW to, Legal(intents[k], to), Backed(k, to), SetStatus(k, to)
      PROVE  Goal
  <2>1. /\ intents' = [i \in Intents |-> intents'[i]]
        /\ intents'[k] = to /\ \A i \in Intents \ {k} : intents'[i] = intents[i]
    BY <1>2 DEF SetStatus
  <2> QED
    BY <1>2, <2>1 DEF StatusStep, StatusKept, StatusMoved
<1>3. ASSUME NEW s \in Slots, HandlerStep(s) PROVE Goal
  <2>1. Intent(s) \in Intents /\ Operation(s) \in Operations
    <3>1. slots[s].phase = "running"
      BY <1>3, HandlerRuns
    <3> QED
      BY <3>1, OfSlot DEF HandlerInv
  <2>2. CASE StatusGoes(s)
    BY <1>1, <1>2, <2>1, <2>2 DEF StatusGoes
  <2>3. CASE Begins(s)
    <3>1. Backed(Intent(s), Pending(Operation(s)))
      BY DEF Backed, Pending
    <3> QED
      BY <1>2, <2>1, <2>3, <3>1 DEF Begins
  <2> QED
    BY <1>1, <1>3, <2>2, <2>3, HandlerSummary DEF Plain, Records, Sends
<1>4. ASSUME SurfaceDeadLetters PROVE Goal
  <2>1. Legal("PREPARED", "RECONCILIATION_REQUIRED") /\ Legal("EXECUTING", "RECONCILIATION_REQUIRED")
        /\ Legal("FAILED", "RECONCILIATION_REQUIRED")
        /\ Legal("COMPENSATION_PENDING", "RECONCILIATION_REQUIRED")
    BY DEF Legal, Successors
  <2>2. intents' = [i \in Intents |-> intents'[i]]
    BY <1>4 DEF SurfaceDeadLetters
  <2>3. \A i \in Intents :
          \/ intents'[i] = intents[i]
          \/ intents[i] \in Unsettled /\ intents'[i] = "RECONCILIATION_REQUIRED"
    BY <1>4 DEF SurfaceDeadLetters
  <2> QED
    BY <2>1, <2>2, <2>3 DEF Unsettled, StatusStep, StatusKept, StatusMoved, Backed
<1>5. ASSUME NEW s \in Slots, WorkerStep(s) \/ ForgetHandler(s, Abandon(s)) PROVE Goal
  BY <1>1, <1>3, <1>4, <1>5 DEF WorkerStep, StartHandler, SettleJob, ForgetHandler, effectVars
<1>6. ASSUME NEW j \in Jobs, Clock(j) \/ Commit(j) \/ RequestCompensation(j) PROVE Goal
  BY <1>1, <1>6 DEF Clock, Commit, RequestCompensation, effectVars
<1>7. ASSUME NEW j \in Jobs, Reconcile(j) PROVE Goal
  <2>1. IntentOf[j] \in Intents /\ Backed(IntentOf[j], "RECONCILIATION_REQUIRED")
    BY EffectAssumption DEF Backed
  <2>2. CASE Legal(intents[IntentOf[j]], "RECONCILIATION_REQUIRED")
    BY <1>2, <1>7, <2>1, <2>2 DEF Reconcile
  <2>3. CASE intents[IntentOf[j]] = "RECONCILIATION_REQUIRED"
    BY <1>1, <1>7, <2>1, <2>3 DEF Reconcile, SetStatus
  <2> QED
    BY <1>7, <2>2, <2>3 DEF Reconcile
<1>8. ASSUME NEW k \in Intents, Prepare(k) PROVE Goal
  BY <1>8 DEF Prepare, SetStatus, StatusStep, StatusKept, StatusPrepared
<1>9. ASSUME NEW k \in Intents, Invalidate(k) PROVE Goal
  <2>1. Legal(intents[k], "REMEDIATION_REQUIRED") /\ Backed(k, "REMEDIATION_REQUIRED")
    BY <1>9 DEF Invalidate, Legal, Successors, Backed
  <2> QED
    BY <1>2, <1>9, <2>1 DEF Invalidate
<1> QED
  BY <1>1, <1>4, <1>5, <1>6, <1>7, <1>8, <1>9 DEF EffectNext, Sweep, Deliver, vars, effectVars

-----------------------------------------------------------------------------
(* Types.                                                                  *)
LEMMA StatusesTyped ==
  ASSUME TypeOK, HandlerInv, DataTyped, [EffectNext]_vars
  PROVE  intents' \in [Intents -> EffectStatuses]
<1>1. ASSUME NEW i \in Intents PROVE intents'[i] \in EffectStatuses
  <2>1. StatusStep(i) /\ intents[i] \in EffectStatuses
    BY StatusSteps DEF DataTyped, RecordsTyped
  <2>2. \A from \in EffectStatuses : \A to : Legal(from, to) => to \in EffectStatuses
    BY StatusNames DEF Legal, Successors
  <2> QED
    BY <2>1, <2>2, StatusNames DEF StatusStep, StatusKept, StatusMoved, StatusPrepared
<1> QED
  BY <1>1, StatusSteps

\* The other records change only where a handler or the external system writes.
LEMMA DataTypedStep ==
  ASSUME TypeOK, HandlerInv, DataTyped, [EffectNext]_vars
  PROVE  DataTyped'
<1> DEFINE Rest == /\ receipts' \in [Intents -> SUBSET Receipts]
                   /\ fences' \in [Resources -> Nat]
                   /\ requests' \in SUBSET Writes /\ applied' \in SUBSET Writes
<1> USE DEF DataTyped, RecordsTyped, FencesTyped, WritesTyped
<1>1. ASSUME UNCHANGED <<receipts, fences, requests, applied>> PROVE Rest
  BY <1>1
<1>2. ASSUME NEW s \in Slots, HandlerStep(s) PROVE Rest
  <2>1. Intent(s) \in Intents /\ Operation(s) \in Operations
    BY <1>2, HandlerRuns, OfSlot DEF HandlerInv
  <2>2. CASE Records(s)
    <3>1. Receipt(Operation(s)) \in Receipts
      BY <2>1, NameTypes
    <3> QED
      BY <2>1, <2>2, <3>1 DEF Records
  <2>3. CASE Sends(s)
    <3>1. [intent |-> Intent(s), op |-> Operation(s), token |-> handler[s].token] \in Writes
      BY <2>1 DEF Writes, HandlerInv, HandlersTyped, Handler
    <3> QED
      BY <2>3, <3>1 DEF Sends
  <2>4. CASE Begins(s)
    BY <2>1, <2>4, FencesOf DEF Begins
  <2> QED
    BY <1>1, <1>2, <2>2, <2>3, <2>4, HandlerSummary DEF Plain
<1>3. ASSUME NEW s \in Slots, WorkerStep(s) \/ ForgetHandler(s, Abandon(s)) PROVE Rest
  BY <1>1, <1>2, <1>3
  DEF WorkerStep, StartHandler, SettleJob, ForgetHandler, effectVars, externalVars
<1>4. ASSUME NEW j \in Jobs, Clock(j) \/ Commit(j) \/ Reconcile(j) \/ RequestCompensation(j)
      PROVE  Rest
  BY <1>1, <1>4 DEF Clock, Commit, Reconcile, RequestCompensation, effectVars, externalVars
<1>5. ASSUME NEW i \in Intents, Prepare(i) PROVE Rest
  BY <1>5, FencesOf DEF Prepare, externalVars
<1>6. ASSUME NEW m \in requests, NEW refused \in BOOLEAN, Deliver(m, refused) PROVE Rest
  BY <1>6 DEF Deliver, effectVars
<1> QED
  BY <1>1, <1>3, <1>4, <1>5, <1>6, StatusesTyped
  DEF EffectNext, Sweep, Invalidate, vars, externalVars

\* What the proofs about effects rest on.
EffectInv == HandlerInv /\ DataTyped

LEMMA EffectInvHolds == EffectSafetySpec => []TypeOK /\ []EffectInv
<1>1. EffectInit => EffectInv
  <2> SUFFICES ASSUME EffectInit PROVE EffectInv
    OBVIOUS
  <2>1. NoHandler \in Handler /\ NoHandler.at = "none"
    BY StatusNames DEF NoHandler, Handler, Stages
  <2>2. HandlerInv
    <3>1. \A s \in Slots : handler[s] = NoHandler /\ slots[s].phase = "idle"
      BY DEF EffectInit, Init, Idle
    <3>2. handler \in [Slots -> Handler]
      BY <2>1 DEF EffectInit
    <3> QED
      BY <2>1, <3>1, <3>2 DEF HandlerInv, HandlersTyped, HandlersRun, Runs, StagesEarned, Earned
  <2>3. DataTyped
    BY StatusNames DEF EffectInit, DataTyped, RecordsTyped, FencesTyped, WritesTyped
  <2> QED
    BY <2>2, <2>3 DEF EffectInv
<1>2. TypeOK /\ EffectInv /\ [EffectNext]_vars => EffectInv'
  BY HandlerInvStep, DataTypedStep DEF EffectInv
<1> QED
  BY <1>1, <1>2, QueueUnderEffects, TypeCorrect, PTL DEF EffectSafetySpec

\* Type correctness of the effects.
THEOREM EffectTypeCorrect == EffectSafetySpec => []EffectTypeOK
<1>1. TypeOK /\ EffectInv => EffectTypeOK
  BY DEF EffectInv, HandlerInv, HandlersTyped, DataTyped, RecordsTyped, FencesTyped, WritesTyped,
         EffectTypeOK
<1> QED
  BY <1>1, EffectInvHolds, PTL

-----------------------------------------------------------------------------
(* The lifecycle.                                                          *)

\* No call of any process changes a status against the lifecycle: compare-and-set
\* on the status a handler has seen makes its check of that status hold for the
\* row, however long the handler slept.
THEOREM LifecycleKept == EffectSafetySpec => LegalTransitions
<1>1. TypeOK /\ EffectInv /\ [EffectNext]_vars => StatusesLegal
  BY StatusSteps
  DEF EffectInv, StatusesLegal, StatusStep, StatusKept, StatusMoved, StatusPrepared, Legal
<1> QED
  BY <1>1, EffectInvHolds, PTL DEF EffectSafetySpec, LegalTransitions

\* A receipt that exists is true: handlers record only what the external system
\* answered or what a lookup of the same operation found.
THEOREM ReceiptsTrue == EffectSafetySpec => []ReceiptsAreTrue
<1>1. EffectInit => ReceiptsAreTrue
  BY DEF EffectInit, ReceiptsAreTrue
<1>2. ASSUME TypeOK, EffectInv, ReceiptsAreTrue, [EffectNext]_vars PROVE ReceiptsAreTrue'
  <2>1. Grows
    BY <1>2, NothingIsErased DEF EffectInv, DataTyped
  <2>2. \A i \in Intents, op \in Operations : Applied(i, op) => Applied(i, op)'
    BY <2>1 DEF Applied, Grows
  <2>3. CASE UNCHANGED receipts
    BY <1>2, <2>2, <2>3 DEF ReceiptsAreTrue, Receipt
  <2>4. ASSUME NEW s \in Slots, HandlerStep(s) PROVE ReceiptsAreTrue'
    <3>1. CASE Records(s)
      <4>1. Intent(s) \in Intents /\ Operation(s) \in Operations
        BY <1>2, <2>4, HandlerRuns, OfSlot DEF EffectInv, HandlerInv
      <4>2. \A op \in Operations : Receipt(op) = Receipt(Operation(s)) => op = Operation(s)
        BY <4>1 DEF Operations, Receipt
      <4>3. \A i \in Intents, op \in Operations :
              Receipt(op) \in receipts'[i] =>
                Receipt(op) \in receipts[i] \/ (i = Intent(s) /\ op = Operation(s))
        <5>1. \A i \in Intents \ {Intent(s)} : receipts'[i] = receipts[i]
          BY <1>2, <3>1 DEF Records, EffectInv, DataTyped, RecordsTyped
        <5>2. receipts'[Intent(s)] = receipts[Intent(s)] \cup {Receipt(Operation(s))}
          BY <1>2, <3>1, <4>1 DEF Records, EffectInv, DataTyped, RecordsTyped
        <5>3. TAKE i \in Intents, op \in Operations
        <5>4. CASE i = Intent(s)
          BY <4>2, <5>2, <5>4
        <5>5. CASE i # Intent(s)
          BY <5>1, <5>5
        <5> QED
          BY <5>4, <5>5
      <4> QED
        BY <1>2, <2>2, <3>1, <4>3 DEF Records, ReceiptsAreTrue, Receipt
    <3> QED
      BY <1>2, <2>3, <2>4, <3>1, HandlerSummary DEF EffectInv, DataTyped, Plain, Sends, Begins
  <2>5. ASSUME NEW s \in Slots, WorkerStep(s) \/ ForgetHandler(s, Abandon(s))
        PROVE  ReceiptsAreTrue'
    BY <2>3, <2>4, <2>5 DEF WorkerStep, StartHandler, SettleJob, ForgetHandler, effectVars
  <2> QED
    BY <1>2, <2>3, <2>5
    DEF EffectNext, Clock, Commit, Reconcile, RequestCompensation, Sweep, Prepare, Invalidate,
        Deliver, vars, effectVars
<1> QED
  BY <1>1, <1>2, EffectInvHolds, PTL DEF EffectSafetySpec

\* A terminal status never precedes its receipt, at any crash point.
THEOREM TerminalHasReceipt == EffectSafetySpec => []ReceiptBacked
<1>1. EffectInit => ReceiptBacked
  BY DEF EffectInit, ReceiptBacked
<1>2. ASSUME TypeOK, EffectInv, ReceiptBacked, [EffectNext]_vars PROVE ReceiptBacked'
  <2>1. Grows /\ \A i \in Intents : StatusStep(i)
    BY <1>2, NothingIsErased, StatusSteps DEF EffectInv, DataTyped
  <2> QED
    BY <1>2, <2>1
    DEF ReceiptBacked, Grows, StatusStep, StatusKept, StatusMoved, StatusPrepared, Backed
<1> QED
  BY <1>1, <1>2, EffectInvHolds, PTL DEF EffectSafetySpec

-----------------------------------------------------------------------------
(* The order of writes.                                                    *)
SameResource(m, n) == ResourceOf[m.intent] = ResourceOf[n.intent]

\* No write carries a token beyond its resource's, and no two on the wire carry the
\* same; what took effect is older than what is still to come.
WritesNumbered ==
  /\ \A m \in requests \cup applied : m.token <= fences[ResourceOf[m.intent]]
  /\ \A m, n \in requests : SameResource(m, n) /\ m.token = n.token => m = n
  /\ \A m \in requests, n \in applied : SameResource(m, n) => n.token < m.token

\* A handler about to send has a token that no write and no other such handler has.
Sender(s) == handler[s].at = "send"

SendersNumbered ==
  /\ \A s \in Slots : Sender(s) =>
       /\ handler[s].token <= fences[ResourceOf[Intent(s)]]
       /\ \A m \in requests \cup applied :
            ResourceOf[m.intent] = ResourceOf[Intent(s)] => m.token # handler[s].token
  /\ \A s, t \in Slots :
       /\ Sender(s) /\ Sender(t)
       /\ ResourceOf[Intent(s)] = ResourceOf[Intent(t)]
       /\ handler[s].token = handler[t].token
       => s = t

OrderInv == WritesNumbered /\ SendersNumbered

SendersStay ==
  \A t \in Slots : Sender(t)' => handler'[t] = handler[t] /\ Intent(t)' = Intent(t)

\* Only beginning an operation brings a handler to the stage of sending.
LEMMA SendersOnlyBegin ==
  ASSUME TypeOK, HandlerInv, DataTyped, [EffectNext]_vars
  PROVE  SendersStay \/ \E s \in Slots : HandlerStep(s) /\ Begins(s)
<1>1. CASE UNCHANGED <<handler, slots>>
  BY <1>1 DEF SendersStay, Sender, Intent
<1>2. ASSUME NEW s \in Slots, \A t \in Slots \ {s} : handler'[t] = handler[t] /\ slots'[t] = slots[t],
             handler'[s].at # "send"
      PROVE  SendersStay
  BY <1>2 DEF SendersStay, Sender, Intent
<1>3. ASSUME NEW s \in Slots, HandlerStep(s), ~Begins(s) PROVE SendersStay
  <2>1. HandlerGoes(s)
    BY <1>3, HandlerSummary DEF DataTyped, Plain, Records, Sends
  <2>2. PICK seen, next : GoesTo(s, seen, next)
    BY <2>1 DEF HandlerGoes
  <2>3. \A t \in Slots \ {s} : handler'[t] = handler[t] /\ slots'[t] = slots[t]
    BY <2>2 DEF GoesTo, Proceed, HandlerEnds, HandlerInv, HandlersTyped, TypeOK
  <2>4. handler'[s].at # "send"
    BY <2>2 DEF GoesTo, Proceed, HandlerInv, HandlersTyped, Handler, NoHandler
  <2> QED
    BY <1>2, <2>3, <2>4
<1>4. ASSUME NEW s \in Slots, NEW j \in Jobs, StartHandler(s, j) PROVE SendersStay
  BY <1>2, <1>4 DEF StartHandler, Claim, TypeOK, HandlerInv, HandlersTyped, NoHandler
<1>5. ASSUME NEW s \in Slots, SettleJob(s) PROVE SendersStay
  <2>1. slots[s].phase \in Outcomes /\ handler' = handler
    BY <1>5 DEF SettleJob, Complete, CompleteThrows, FailRetryable, FailPermanent, Outcomes
  <2>2. handler[s].at = "none"
    BY <2>1 DEF Outcomes, HandlerInv, HandlersRun, Runs
  <2>3. \A t \in Slots \ {s} : slots'[t] = slots[t]
    BY <1>5 DEF SettleJob, Complete, CompleteThrows, FailRetryable, FailPermanent, TypeOK
  <2> QED
    BY <1>2, <2>1, <2>2, <2>3
<1>6. ASSUME NEW s \in Slots, ForgetHandler(s, FenceLost(s)) \/ ForgetHandler(s, Abandon(s))
      PROVE  SendersStay
  <2>1. \A t \in Slots \ {s} : handler'[t] = handler[t] /\ slots'[t] = slots[t]
    BY <1>6 DEF ForgetHandler, FenceLost, Abandon, TypeOK, HandlerInv, HandlersTyped
  <2>2. handler' = [handler EXCEPT ![s] = NoHandler] /\ NoHandler.at = "none"
    BY <1>6 DEF ForgetHandler, NoHandler
  <2>3. handler'[s].at # "send"
    BY <2>2 DEF HandlerInv, HandlersTyped
  <2> QED
    BY <1>2, <2>1, <2>3
<1>7. ASSUME NEW m \in requests, NEW refused \in BOOLEAN, Deliver(m, refused) PROVE SendersStay
  <2>1. slots' = slots /\ \A t \in Slots : handler'[t] = handler[t] \/ handler'[t].at # "send"
    BY <1>7 DEF Deliver, HandlerInv, HandlersTyped, Handler
  <2> QED
    BY <2>1 DEF SendersStay, Sender, Intent
<1> QED
  BY <1>1, <1>3, <1>4, <1>5, <1>6, <1>7
  DEF EffectNext, WorkerStep, Clock, Commit, Reconcile, RequestCompensation, Sweep, Prepare,
      Invalidate, vars, BecomeDue, LeaseExpires, Enqueue, RecoverStalled

LEMMA SenderTyped ==
  ASSUME TypeOK, HandlerInv, NEW s \in Slots, Sender(s)
  PROVE  /\ Intent(s) \in Intents /\ Operation(s) \in Operations
         /\ ResourceOf[Intent(s)] \in Resources /\ handler[s].token \in Nat
<1>1. slots[s].phase = "running"
  BY DEF Sender, HandlerInv, HandlersRun, Runs
<1> QED
  BY <1>1, OfSlot, EffectAssumption DEF HandlerInv, HandlersTyped, Handler

LEMMA WriteTyped ==
  ASSUME DataTyped, NEW m \in requests \cup applied
  PROVE  /\ m \in Writes /\ m.intent \in Intents /\ m.token \in Nat
         /\ ResourceOf[m.intent] \in Resources /\ fences[ResourceOf[m.intent]] \in Nat
  BY EffectAssumption DEF DataTyped, WritesTyped, FencesTyped, Writes

\* Nothing new is sent and the fences only grow.
LEMMA QuietKeepsOrder ==
  ASSUME TypeOK, HandlerInv, DataTyped, DataTyped', OrderInv, SendersStay,
         UNCHANGED <<requests, applied>>, \A r \in Resources : fences[r] <= fences'[r]
  PROVE  OrderInv'
<1>1. \A m \in requests \cup applied : m.token <= fences'[ResourceOf[m.intent]]
  <2> SUFFICES ASSUME NEW m \in requests \cup applied
               PROVE  m.token <= fences'[ResourceOf[m.intent]]
    OBVIOUS
  <2>1. /\ m.token \in Nat /\ ResourceOf[m.intent] \in Resources
        /\ fences[ResourceOf[m.intent]] \in Nat /\ fences'[ResourceOf[m.intent]] \in Nat
    BY WriteTyped DEF DataTyped, FencesTyped
  <2>2. /\ m.token <= fences[ResourceOf[m.intent]]
        /\ fences[ResourceOf[m.intent]] <= fences'[ResourceOf[m.intent]]
    BY <2>1 DEF OrderInv, WritesNumbered
  <2> QED
    BY <2>1, <2>2
<1>2. WritesNumbered'
  BY <1>1 DEF OrderInv, WritesNumbered, SameResource
<1>3. \A s \in Slots : Sender(s)' =>
        /\ Sender(s) /\ handler'[s].token = handler[s].token /\ Intent(s)' = Intent(s)
  BY DEF SendersStay, Sender
<1>4. ASSUME NEW s \in Slots, Sender(s)'
      PROVE  handler'[s].token <= fences'[ResourceOf[Intent(s)']]
  <2>1. Sender(s) /\ handler'[s].token = handler[s].token /\ Intent(s)' = Intent(s)
    BY <1>3, <1>4
  <2>2. /\ handler[s].token \in Nat /\ ResourceOf[Intent(s)] \in Resources
        /\ fences[ResourceOf[Intent(s)]] \in Nat /\ fences'[ResourceOf[Intent(s)]] \in Nat
    BY <2>1, SenderTyped DEF DataTyped, FencesTyped
  <2>3. /\ handler[s].token <= fences[ResourceOf[Intent(s)]]
        /\ fences[ResourceOf[Intent(s)]] <= fences'[ResourceOf[Intent(s)]]
    BY <2>1, <2>2 DEF OrderInv, SendersNumbered
  <2> QED
    BY <2>1, <2>2, <2>3
<1>5. SendersNumbered'
  BY <1>3, <1>4 DEF OrderInv, SendersNumbered
<1> QED
  BY <1>2, <1>5 DEF OrderInv

LEMMA BeginningKeepsOrder ==
  ASSUME TypeOK, HandlerInv, DataTyped, OrderInv, NEW s \in Slots, HandlerStep(s), Begins(s)
  PROVE  OrderInv'
<1> DEFINE r == ResourceOf[Intent(s)]
<1>1. Intent(s) \in Intents /\ r \in Resources /\ fences[r] \in Nat
  BY HandlerRuns, OfSlot, FencesOf DEF HandlerInv, DataTyped
<1>2. /\ fences'[r] = fences[r] + 1
      /\ \A q \in Resources \ {r} : fences'[q] = fences[q]
  BY <1>1 DEF Begins, NextToken, DataTyped, FencesTyped
<1>3. /\ handler'[s].at = "send" /\ handler'[s].token = fences[r] + 1
      /\ \A t \in Slots \ {s} : handler'[t] = handler[t]
      /\ UNCHANGED <<slots, requests, applied>>
  BY DEF Begins, NextToken, HandlerInv, HandlersTyped
<1>4. \A t \in Slots : Intent(t)' = Intent(t)
  BY <1>3 DEF Intent
<1>5. \A m \in requests \cup applied :
        /\ m.token \in Nat /\ ResourceOf[m.intent] \in Resources
        /\ m.token <= fences[ResourceOf[m.intent]] /\ fences[ResourceOf[m.intent]] \in Nat
  BY WriteTyped DEF OrderInv, WritesNumbered
<1>6. WritesNumbered'
  <2>1. \A m \in requests \cup applied : m.token <= fences'[ResourceOf[m.intent]]
    BY <1>1, <1>2, <1>5
  <2> QED
    BY <1>3, <2>1 DEF OrderInv, WritesNumbered, SameResource
<1>7. \A t \in Slots \ {s} : Sender(t)' =>
        /\ Sender(t) /\ handler'[t].token = handler[t].token /\ handler[t].token \in Nat
        /\ ResourceOf[Intent(t)] \in Resources /\ fences[ResourceOf[Intent(t)]] \in Nat
        /\ handler[t].token <= fences[ResourceOf[Intent(t)]]
  BY <1>3, SenderTyped DEF Sender, OrderInv, SendersNumbered, DataTyped, FencesTyped
<1>8. ASSUME NEW t \in Slots, Sender(t)'
      PROVE  /\ handler'[t].token <= fences'[ResourceOf[Intent(t)]]
             /\ \A m \in requests \cup applied :
                  ResourceOf[m.intent] = ResourceOf[Intent(t)] => m.token # handler'[t].token
  <2>1. CASE t = s
    BY <1>1, <1>2, <1>3, <1>5, <2>1
  <2>2. CASE t # s
    <3>1. handler'[t].token <= fences'[ResourceOf[Intent(t)]]
      BY <1>1, <1>2, <1>7, <1>8, <2>2
    <3> QED
      BY <1>7, <1>8, <2>2, <3>1 DEF OrderInv, SendersNumbered
  <2> QED
    BY <2>1, <2>2
<1>9. ASSUME NEW t \in Slots, NEW u \in Slots, Sender(t)', Sender(u)',
             ResourceOf[Intent(t)] = ResourceOf[Intent(u)],
             handler'[t].token = handler'[u].token
      PROVE  t = u
  <2>1. CASE t # s /\ u # s
    BY <1>7, <1>9, <2>1 DEF OrderInv, SendersNumbered
  <2>2. CASE t = s /\ u # s
    BY <1>1, <1>3, <1>7, <1>9, <2>2
  <2>3. CASE t # s /\ u = s
    BY <1>1, <1>3, <1>7, <1>9, <2>3
  <2> QED
    BY <2>1, <2>2, <2>3
<1>10. SendersNumbered'
  BY <1>3, <1>4, <1>8, <1>9 DEF SendersNumbered
<1> QED
  BY <1>6, <1>10 DEF OrderInv

LEMMA SendingKeepsOrder ==
  ASSUME TypeOK, HandlerInv, DataTyped, OrderInv, SendersStay, NEW s \in Slots, HandlerStep(s),
         Sends(s)
  PROVE  OrderInv'
<1> DEFINE new == [intent |-> Intent(s), op |-> Operation(s), token |-> handler[s].token]
           r == ResourceOf[Intent(s)]
<1>1. Sender(s) /\ handler[s].token = fences[r]
  BY DEF Sends, Sender, ResourceCurrent
<1>2. requests' = requests \cup {new} /\ UNCHANGED <<fences, applied>>
  BY DEF Sends
<1>3. r \in Resources /\ fences[r] \in Nat
  BY <1>1, SenderTyped DEF DataTyped, FencesTyped
<1>4. new.intent = Intent(s) /\ new.token = fences[r]
  BY <1>1
<1> HIDE DEF new
<1>5. ASSUME NEW m \in requests \cup applied, ResourceOf[m.intent] = r
      PROVE  m.token < new.token
  <2>1. m.token \in Nat /\ m.token <= fences[r]
    BY <1>5, WriteTyped DEF OrderInv, WritesNumbered
  <2>2. m.token # handler[s].token
    BY <1>1, <1>5 DEF OrderInv, SendersNumbered
  <2> QED
    BY <1>1, <1>3, <1>4, <2>1, <2>2
<1>6. \A m \in requests : m.token \in Nat
  BY WriteTyped
<1>7. WritesNumbered'
  <2>1. \A m \in requests' \cup applied' : m.token <= fences'[ResourceOf[m.intent]]
    BY <1>2, <1>3, <1>4 DEF OrderInv, WritesNumbered
  <2>2. \A m, n \in requests' : SameResource(m, n) /\ m.token = n.token => m = n
    BY <1>2, <1>3, <1>4, <1>5, <1>6 DEF OrderInv, WritesNumbered, SameResource
  <2>3. \A m \in requests', n \in applied' : SameResource(m, n) => n.token < m.token
    BY <1>2, <1>4, <1>5 DEF OrderInv, WritesNumbered, SameResource
  <2> QED
    BY <2>1, <2>2, <2>3 DEF WritesNumbered, SameResource
<1>8. \A t \in Slots : Sender(t)' =>
        /\ Sender(t) /\ t # s /\ handler'[t].token = handler[t].token /\ Intent(t)' = Intent(t)
  <2>1. ~Sender(s)'
    <3>1. PICK seen, next : GoesTo(s, seen, next)
      BY DEF Sends, HandlerGoes
    <3> QED
      BY <3>1 DEF GoesTo, Proceed, HandlerInv, HandlersTyped, Handler, NoHandler, Sender
  <2> QED
    BY <2>1 DEF SendersStay, Sender
<1>9. \A t \in Slots : Sender(t)' /\ ResourceOf[Intent(t)] = r => handler[t].token # new.token
  BY <1>1, <1>4, <1>8 DEF OrderInv, SendersNumbered
<1>10. SendersNumbered'
  BY <1>2, <1>4, <1>8, <1>9 DEF OrderInv, SendersNumbered
<1> QED
  BY <1>7, <1>10 DEF OrderInv

LEMMA DeliveryKeepsOrder ==
  ASSUME TypeOK, HandlerInv, DataTyped, OrderInv, SendersStay, NEW m \in requests,
         NEW refused \in BOOLEAN, Deliver(m, refused)
  PROVE  OrderInv' /\ NewWriteIsLast
<1>1. /\ requests' \subseteq requests \ {m}
      /\ applied \subseteq applied' /\ applied' \subseteq applied \cup {m}
      /\ \A n \in requests' : SameResource(n, m) => m.token <= n.token
      /\ fences' = fences
  BY DEF Deliver, effectVars, SameResource
<1>2. \A n \in requests : n.token \in Nat
  BY WriteTyped
<1>3. \A n \in requests' : SameResource(n, m) => m.token < n.token
  BY <1>1, <1>2 DEF OrderInv, WritesNumbered
<1>4. WritesNumbered'
  BY <1>1, <1>3 DEF OrderInv, WritesNumbered, SameResource
<1>5. \A s \in Slots : Sender(s)' =>
        /\ Sender(s) /\ handler'[s].token = handler[s].token /\ Intent(s)' = Intent(s)
  BY DEF SendersStay, Sender
<1>6. SendersNumbered'
  BY <1>1, <1>5 DEF OrderInv, SendersNumbered
<1>7. NewWriteIsLast
  BY <1>1 DEF NewWriteIsLast, OrderInv, WritesNumbered, SameResource
<1> QED
  BY <1>4, <1>6, <1>7 DEF OrderInv

LEMMA OrderInvStep ==
  ASSUME TypeOK, EffectInv, EffectInv', OrderInv, [EffectNext]_vars
  PROVE  OrderInv' /\ (NewWriteIsLast \/ UNCHANGED applied)
<1> USE DEF EffectInv
<1>1. ASSUME SendersStay, UNCHANGED <<requests, applied, fences>> PROVE OrderInv'
  <2>1. \A r \in Resources : fences[r] <= fences'[r]
    BY <1>1 DEF DataTyped, FencesTyped
  <2> QED
    BY <1>1, <2>1, QuietKeepsOrder
<1>2. ASSUME NEW s \in Slots, HandlerStep(s) PROVE OrderInv' /\ UNCHANGED applied
  <2>1. CASE Begins(s)
    BY <1>2, <2>1, BeginningKeepsOrder DEF Begins
  <2>2. CASE ~Begins(s)
    <3>1. SendersStay
      <4>1. \/ SendersStay
            \/ \E t \in Slots : HandlerStep(t) /\ Begins(t)
        BY SendersOnlyBegin
      <4>2. Plain(s) \/ Records(s) \/ Sends(s)
        BY <1>2, <2>2, HandlerSummary DEF DataTyped
      <4>3. fences' = fences
        BY <4>2 DEF Plain, Records, Sends
      <4>4. ASSUME NEW t \in Slots, HandlerStep(t), Begins(t) PROVE FALSE
        <5>1. Intent(t) \in Intents
          BY <4>4, HandlerRuns, OfSlot DEF HandlerInv
        <5>2. fences[ResourceOf[Intent(t)]] \in Nat /\ ResourceOf[Intent(t)] \in Resources
          BY <5>1, FencesOf DEF DataTyped
        <5>3. fences'[ResourceOf[Intent(t)]] = fences[ResourceOf[Intent(t)]] + 1
          BY <4>4, <5>2 DEF Begins, NextToken, DataTyped, FencesTyped
        <5> QED
          BY <4>3, <5>2, <5>3
      <4> QED
        BY <4>1, <4>4
    <3>2. CASE Sends(s)
      BY <1>2, <3>1, <3>2, SendingKeepsOrder DEF Sends
    <3> QED
      BY <1>1, <1>2, <2>2, <3>1, <3>2, HandlerSummary DEF DataTyped, Plain, Records
  <2> QED
    BY <2>1, <2>2
<1>3. CASE SendersStay
  <2>1. ASSUME NEW i \in Intents, Prepare(i) PROVE OrderInv' /\ UNCHANGED applied
    <3>1. \A r \in Resources : fences[r] <= fences'[r]
      BY <2>1, FencesOf DEF Prepare, NextToken, DataTyped, FencesTyped
    <3> QED
      BY <1>3, <2>1, <3>1, QuietKeepsOrder DEF Prepare, externalVars
  <2>2. ASSUME NEW m \in requests, NEW refused \in BOOLEAN, Deliver(m, refused)
        PROVE  OrderInv' /\ NewWriteIsLast
    BY <1>3, <2>2, DeliveryKeepsOrder
  <2>3. ASSUME NEW s \in Slots, WorkerStep(s) \/ ForgetHandler(s, Abandon(s))
        PROVE  OrderInv' /\ UNCHANGED applied
    BY <1>1, <1>2, <1>3, <2>3
    DEF WorkerStep, StartHandler, SettleJob, ForgetHandler, effectVars, externalVars
  <2> QED
    BY <1>1, <1>3, <2>1, <2>2, <2>3
    DEF EffectNext, Clock, Commit, Reconcile, RequestCompensation, Sweep, Invalidate, vars,
        effectVars, externalVars
<1> QED
  BY <1>2, <1>3, SendersOnlyBegin DEF DataTyped

LEMMA OrderInvHolds == EffectSafetySpec => []OrderInv
<1>1. EffectInit => OrderInv
  <2> SUFFICES ASSUME EffectInit PROVE OrderInv
    OBVIOUS
  <2>1. requests = {} /\ applied = {} /\ \A s \in Slots : ~Sender(s)
    BY DEF EffectInit, Sender, NoHandler
  <2> QED
    BY <2>1 DEF OrderInv, WritesNumbered, SendersNumbered
<1>2. TypeOK /\ EffectInv /\ EffectInv' /\ OrderInv /\ [EffectNext]_vars => OrderInv'
  BY OrderInvStep
<1> QED
  BY <1>1, <1>2, EffectInvHolds, PTL DEF EffectSafetySpec

\* Writes to a resource take effect in the order in which their operations began:
\* what the external system does with fencing tokens is enough, because each
\* operation takes a token of its own in the transaction that begins it.
THEOREM WritesOrdered == EffectSafetySpec => WritesInOrder
<1>1. TypeOK /\ EffectInv /\ EffectInv' /\ OrderInv /\ [EffectNext]_vars => NewWriteIsLast
  <2>1. UNCHANGED applied => NewWriteIsLast
    BY DEF NewWriteIsLast
  <2> QED
    BY <2>1, OrderInvStep
<1> QED
  BY <1>1, EffectInvHolds, OrderInvHolds, PTL DEF EffectSafetySpec, WritesInOrder

-----------------------------------------------------------------------------
(* Who is answerable for an effect.                                        *)

InDoubt == {"EXECUTING", "COMPENSATION_PENDING"}
Flagged == {"RECONCILIATION_REQUIRED", "REMEDIATION_REQUIRED", "COMPENSATED"}

Live(j)     == jobs[j].status \notin Final \cup {"ABSENT"}
Holds(s, j) == slots[s].job = j /\ HoldsFence(s)

\* A handler that knows the status of the effect, or is going to read it.
Informed(s) == handler[s].at = "load" \/ handler[s].seen = intents[Intent(s)]

\* The job is not done and whoever runs it will not call it done without touching
\* a status that is in doubt.
Watches(s) == IF slots[s].phase = "running" THEN Informed(s) ELSE slots[s].phase # "succeeded"
Answers(j) == Live(j) /\ \A s \in Slots : Holds(s, j) => Watches(s)

DoubtsAnswered ==
  \A i \in Intents : intents[i] \in InDoubt => \E j \in Jobs : IntentOf[j] = i /\ Answers(j)

\* A handler on its way to a flag, an attempt of its own later than m, or a retry.
Heeds(s, m) ==
  \/ handler[s].at \in {"load", "remediate", "notFound", "begin", "applied", "ambiguous",
                        "persist", "unknown"}
  \/ handler[s].at = "route" /\ handler[s].seen \in Unsettled \cup {"ABSENT"}
  \/ handler[s].at = "mark" /\ handler[s].seen \in Unsettled
  \/ handler[s].at \in {"send", "await"} /\ (Operation(s) = "execute" => m.token <= handler[s].token)
  \/ handler[s].at \in {"refused", "refuse", "finalize"} /\ Operation(s) = "compensate"

Minds(s, m) == IF slots[s].phase = "running" THEN Heeds(s, m) ELSE slots[s].phase # "succeeded"
Cares(j, m) == Live(j) /\ \A s \in Slots : Holds(s, j) => Minds(s, m)

\* An execution on the wire or out there that neither a receipt nor a flag tells of.
AtLarge(m) == /\ m \in requests \cup applied /\ m.op = "execute"
              /\ "EXECUTED" \notin receipts[m.intent]
              /\ intents[m.intent] \notin Flagged

WritesMinded ==
  \A m \in requests \cup applied :
    AtLarge(m) => \E j \in Jobs : IntentOf[j] = m.intent /\ Cares(j, m)

\* What the handler knows at a stage.
Knows(s) ==
  /\ handler[s].at \in {"send", "await", "applied", "refused", "refuse", "ambiguous"} =>
       handler[s].seen = Pending(Operation(s))
  /\ handler[s].at = "load" => ~handler[s].trying
  /\ handler[s].at = "remediate" => handler[s].seen # "REMEDIATION_REQUIRED"
  /\ handler[s].at # "none" /\ handler[s].seen = "COMPENSATED" => intents[Intent(s)] = "COMPENSATED"
  /\ handler[s].at = "send" => intents[Intent(s)] # "ABSENT" /\ 0 < handler[s].token
  /\ handler[s].at # "none" => handler[s].token <= fences[ResourceOf[Intent(s)]]

Alone(s) ==
  \A t \in Slots : handler[s].at = "send" /\ t # s /\ handler[t].at # "none"
                   /\ ResourceOf[Intent(s)] = ResourceOf[Intent(t)]
                    => handler[t].token # handler[s].token

\* A refused execution leaves no write of an earlier attempt.
Cleared(s) ==
  handler[s].at \in {"refused", "refuse"} /\ Operation(s) = "execute" =>
    \A m \in requests \cup applied :
      m.intent = Intent(s) /\ m.op = "execute" => handler[s].token < m.token

WritesPrepared == \A m \in requests \cup applied : intents[m.intent] # "ABSENT"

KnowledgeInv == WritesPrepared /\ \A s \in Slots : Knows(s) /\ Alone(s) /\ Cleared(s)

-----------------------------------------------------------------------------
(* What a step of a handler does, with the stage it comes from.            *)

\* A compare-and-set finds the row as asked, fails, or changes it.
LEMMA TransitionCourse ==
  ASSUME NEW s \in Slots, NEW to, NEW next, Transition(s, to, next)
  PROVE  \E seen, goal :
           /\ Proceed(s, seen, goal)
           /\ \/ UNCHANGED intents /\ handler[s].seen = to /\ seen = to /\ goal = next
              \/ /\ UNCHANGED intents
                 /\ seen = handler[s].seen /\ goal \in {"unknown", "permanent", "retryable"}
              \/ /\ HoldsFence(s) /\ intents[Intent(s)] = handler[s].seen
                 /\ handler[s].seen # to /\ Legal(handler[s].seen, to)
                 /\ SetStatus(Intent(s), to) /\ seen = to /\ goal = next
  BY DEF Transition, Throw

\* Where the handler goes, which status it leaves, and from which stage it comes.
\* The status it leaves;
Leaves(s, seen, next) ==
  LET was == intents[Intent(s)]
      is  == intents'[Intent(s)]
  IN  /\ intents' = [intents EXCEPT ![Intent(s)] = is]
      /\ is # was => HoldsFence(s) /\ was = handler[s].seen /\ is = seen
      /\ seen = handler[s].seen \/ seen = is
      /\ was \in Flagged /\ is \notin Flagged => next \in {"retryable", "finalize"}

\* the stages it comes from;
Comes(s, seen, next) ==
  LET at == handler[s].at
  IN  /\ at = "load" => \/ next \in {"retryable", "permanent"}
                        \/ next = "route" /\ seen = intents'[Intent(s)]
      /\ next = "route" => at = "load"
      /\ next = "mark" => at = "route" /\ seen # "ABSENT"
      /\ next = "query" => \/ intents'[Intent(s)] = "RECONCILIATION_REQUIRED"
                           \/ at = "mark" /\ handler[s].seen \notin Unsettled
      /\ next = "remediate" => seen # "REMEDIATION_REQUIRED"
      /\ next = "await" => at = "send" /\ HoldsFence(s) /\ seen = handler[s].seen
      /\ next = "ambiguous" => at = "await" /\ seen = handler[s].seen
      /\ next = "refuse" => at = "refused" /\ seen = handler[s].seen
      /\ next = "finalize" => Receipt(Operation(s)) \in receipts'[Intent(s)]

\* and what is true when it calls the job done.
Succeeds(s) ==
  LET at == handler[s].at
      is == intents'[Intent(s)]
  IN  /\ \/ is \in Flagged
         \/ at = "query"
         \/ at = "route" /\ handler[s].seen \notin Unsettled \cup {"ABSENT"}
         \/ at \in {"refuse", "finalize"} /\ Operation(s) = "execute"
      /\ is \in InDoubt => is = intents[Intent(s)] /\ handler[s].seen # is

Goals == (Stages \cup Outcomes) \ {"none", "load", "send", "applied", "refused"}

Course(s, seen, next) ==
  /\ Proceed(s, seen, next) /\ next \in Goals
  /\ Leaves(s, seen, next)
  /\ Comes(s, seen, next)
  /\ next = "succeeded" => Succeeds(s)

Courses(s) == \E seen, next : Course(s, seen, next)

LEMMA StatusConstants ==
  /\ Goals = {"route", "remediate", "mark", "query", "notFound", "begin", "await", "refuse",
              "ambiguous", "persist", "finalize", "unknown",
              "succeeded", "retryable", "permanent"}
  /\ Unsettled = {"PREPARED", "EXECUTING", "FAILED", "COMPENSATION_PENDING"}
  /\ InDoubt = {"EXECUTING", "COMPENSATION_PENDING"}
  /\ Flagged = {"RECONCILIATION_REQUIRED", "REMEDIATION_REQUIRED", "COMPENSATED"}
  /\ Outcomes = {"succeeded", "retryable", "permanent"}
  BY DEF Goals, Stages, Unsettled, InDoubt, Flagged, Outcomes

\* A step that only goes on and comes from none of the special stages.
LEMMA SteadyCourse ==
  ASSUME NEW s \in Slots, intents \in [Intents -> EffectStatuses], Intent(s) \in Intents,
         UNCHANGED intents,
         NEW next \in {"unknown", "permanent", "retryable", "begin", "persist", "notFound"},
         handler[s].at # "load" \/ next \in {"permanent", "retryable"},
         Proceed(s, handler[s].seen, next)
  PROVE  Courses(s)
<1>1. intents' = [intents EXCEPT ![Intent(s)] = intents'[Intent(s)]]
  OBVIOUS
<1>2. Leaves(s, handler[s].seen, next)
  BY <1>1 DEF Leaves
<1>3. Comes(s, handler[s].seen, next)
  BY DEF Comes
<1> QED
  BY <1>2, <1>3, StatusConstants DEF Course, Courses

LEMMA HandlerCourse ==
  ASSUME TypeOK, EffectInv, NEW s \in Slots, HandlerStep(s), Knows(s)
  PROVE  Courses(s) \/ (Begins(s) /\ HoldsFence(s))
<1> DEFINE i == Intent(s)
           op == Operation(s)
           knew == handler[s].seen
<1> USE DEF EffectInv, DataTyped, RecordsTyped
<1>1. slots[s].phase = "running" /\ i \in Intents /\ op \in Operations
  BY HandlerRuns, OfSlot DEF HandlerInv
<1>2. knew \in EffectStatuses /\ intents[i] \in EffectStatuses
  BY <1>1 DEF HandlerInv, HandlersTyped, Handler
<1>3. intents' = [intents EXCEPT ![i] = intents'[i]] \/ ~UNCHANGED intents
  BY <1>1
<1>4. ASSUME NEW next, UNCHANGED intents, Course(s, knew, next) PROVE Courses(s)
  BY <1>4 DEF Courses
<1>5. ASSUME UNCHANGED intents,
             NEW next \in {"unknown", "permanent", "retryable", "begin", "persist", "notFound"},
             handler[s].at # "load" \/ next \in {"permanent", "retryable"},
             Proceed(s, knew, next)
      PROVE  Courses(s)
  BY <1>1, <1>5, SteadyCourse
\* A transition, with what must hold of its end for the course to be one.
<1>6. ASSUME NEW to \in EffectStatuses,
             NEW next \in {"query", "permanent", "retryable", "succeeded", "finalize"},
             handler[s].at # "load",
             Transition(s, to, next),
             next = "finalize" => Receipt(op) \in receipts'[i],
             next = "query" => to = "RECONCILIATION_REQUIRED" /\ handler[s].at = "mark",
             next = "succeeded" =>
               \/ to \in Flagged /\ to # knew
               \/ handler[s].at = "refuse" /\ op = "execute" /\ to = "FAILED" /\ knew # to,
             intents[i] \in Flagged /\ to \notin Flagged /\ intents[i] = knew
               => next \in {"retryable", "finalize"}
      PROVE  Courses(s)
  <2>1. PICK seen, goal :
           /\ Proceed(s, seen, goal)
           /\ \/ UNCHANGED intents /\ knew = to /\ seen = to /\ goal = next
              \/ UNCHANGED intents /\ seen = knew /\ goal \in {"unknown", "permanent", "retryable"}
              \/ /\ HoldsFence(s) /\ intents[i] = knew
                 /\ knew # to /\ Legal(knew, to)
                 /\ SetStatus(i, to) /\ seen = to /\ goal = next
    BY <1>6, TransitionCourse
  <2>2. CASE UNCHANGED intents /\ knew = to /\ seen = to /\ goal = next
    <3>1. Leaves(s, seen, goal)
      BY <1>3, <2>2 DEF Leaves
    <3>2. Comes(s, seen, goal)
      BY <1>6, <2>2, StatusConstants DEF Comes
    <3>3. goal # "succeeded"
      BY <1>6, <2>2
    <3> QED
      BY <1>6, <2>1, <2>2, <3>1, <3>2, <3>3, StatusConstants DEF Course, Courses
  <2>3. CASE UNCHANGED intents /\ seen = knew /\ goal \in {"unknown", "permanent", "retryable"}
    BY <1>5, <1>6, <2>1, <2>3
  <2>4. CASE /\ HoldsFence(s) /\ intents[i] = knew
             /\ knew # to /\ SetStatus(i, to) /\ seen = to /\ goal = next
    <3>1. intents'[i] = to /\ intents' = [intents EXCEPT ![i] = intents'[i]]
      BY <1>1, <2>4 DEF SetStatus
    <3>2. Leaves(s, seen, goal)
      BY <1>6, <2>4, <3>1 DEF Leaves
    <3>3. Comes(s, seen, goal)
      BY <1>6, <2>4, <3>1 DEF Comes
    <3>4. goal = "succeeded" => Succeeds(s)
      BY <1>6, <2>4, <3>1, StatusConstants DEF Succeeds
    <3> QED
      BY <1>6, <2>1, <2>4, <3>2, <3>3, <3>4, StatusConstants DEF Course, Courses
  <2> QED
    BY <2>1, <2>2, <2>3, <2>4
<1>7. CASE Load(s)
  <2>1. Proceed(s, intents[i], "route") /\ UNCHANGED intents /\ handler[s].at = "load"
    BY <1>7 DEF Load, Running, effectVars
  <2>2. Course(s, intents[i], "route")
    BY <1>3, <2>1, StatusConstants DEF Course, Leaves, Comes, Succeeds
  <2> QED
    BY <2>2 DEF Courses
<1>8. CASE Route(s)
  <2>1. UNCHANGED intents /\ UNCHANGED receipts /\ handler[s].at = "route"
    BY <1>8 DEF Route, Running, effectVars
  <2>2. CASE op = "execute"
    <3>1. Proceed(s, knew, RouteExecute(i, knew))
      BY <1>8, <2>2 DEF Route
    <3>2. /\ RouteExecute(i, knew) \in {"finalize", "succeeded", "mark", "begin", "permanent"}
          /\ RouteExecute(i, knew) = "finalize" => "EXECUTED" \in receipts[i]
          /\ RouteExecute(i, knew) = "mark" => knew # "ABSENT"
          /\ RouteExecute(i, knew) = "succeeded" =>
               knew \in {"COMMITTED", "IRREVERSIBLE_COMMITTED", "COMPENSATED",
                         "REMEDIATION_REQUIRED"}
      BY <1>1, <1>2, Routes, StatusNames DEF RouteExecute
    <3>3. Course(s, knew, RouteExecute(i, knew))
      BY <1>1, <1>3, <2>1, <2>2, <3>1, <3>2, StatusConstants DEF Course, Leaves, Comes, Succeeds, Receipt
    <3> QED
      BY <1>4, <2>1, <3>3
  <2>3. CASE op = "compensate"
    <3>1. Proceed(s, knew, RouteCompensate(i, knew))
      BY <1>8, <2>3 DEF Route
    <3>2. /\ RouteCompensate(i, knew) \in {"finalize", "succeeded", "mark", "begin",
                                          "permanent", "remediate"}
          /\ RouteCompensate(i, knew) = "finalize" => "COMPENSATED" \in receipts[i]
          /\ RouteCompensate(i, knew) = "mark" => knew # "ABSENT"
          /\ RouteCompensate(i, knew) = "succeeded" =>
               knew \in {"COMPENSATED", "REMEDIATION_REQUIRED"}
          /\ RouteCompensate(i, knew) = "remediate" => knew # "REMEDIATION_REQUIRED"
      BY <1>1, <1>2, Routes, StatusNames DEF RouteCompensate
    <3>3. Course(s, knew, RouteCompensate(i, knew))
      BY <1>1, <1>3, <2>1, <2>3, <3>1, <3>2, StatusConstants DEF Course, Leaves, Comes, Succeeds, Receipt
    <3> QED
      BY <1>4, <2>1, <3>3
  <2> QED
    BY <1>1, <2>2, <2>3 DEF Operations
<1>9. CASE ConnectorUnusable(s)
  <2>1. handler[s].at = "route"
    BY <1>9 DEF ConnectorUnusable, Running
  <2>2. CASE Transition(s, "RECONCILIATION_REQUIRED", "permanent")
    BY <1>6, <2>1, <2>2, StatusNames, StatusConstants
  <2>3. CASE Proceed(s, knew, "permanent") /\ UNCHANGED intents
    BY <1>5, <2>1, <2>3
  <2> QED
    BY <1>9, <2>2, <2>3 DEF ConnectorUnusable
<1>10. CASE Remediate(s)
  <2>1. /\ handler[s].at = "remediate" /\ knew # "REMEDIATION_REQUIRED"
        /\ Transition(s, "REMEDIATION_REQUIRED", "succeeded")
    BY <1>10 DEF Remediate, Running, Knows
  <2> QED
    BY <1>6, <2>1, StatusNames, StatusConstants
<1>11. CASE Mark(s)
  <2>1. handler[s].at = "mark" /\ Transition(s, "RECONCILIATION_REQUIRED", "query")
    BY <1>11 DEF Mark, Running
  <2> QED
    BY <1>6, <2>1, StatusNames, StatusConstants
<1>12. CASE Query(s)
  <2>1. /\ handler[s].at = "query" /\ knew = "RECONCILIATION_REQUIRED" /\ UNCHANGED intents
        /\ \E next \in {"persist", "notFound", "begin", "succeeded", "retryable"} :
             Proceed(s, knew, next)
    BY <1>12 DEF Query, Running, effectVars, Lookup, HandlerInv, StagesEarned, Earned
  <2>2. CASE Proceed(s, knew, "succeeded")
    <3>1. Course(s, knew, "succeeded")
      BY <1>1, <1>3, <2>1, <2>2, StatusConstants DEF Course, Leaves, Comes, Succeeds
    <3> QED
      BY <3>1 DEF Courses
  <2> QED
    BY <1>5, <2>1, <2>2
<1>13. CASE NotFound(s)
  <2>1. handler[s].at = "notFound" /\ Transition(s, "FAILED", "retryable")
    BY <1>13 DEF NotFound, Running
  <2> QED
    BY <1>6, <2>1, StatusNames, StatusConstants
<1>14. CASE Unapproved(s)
  <2>1. handler[s].at = "begin" /\ Transition(s, "RECONCILIATION_REQUIRED", "permanent")
    BY <1>14 DEF Unapproved, Running
  <2> QED
    BY <1>6, <2>1, StatusNames, StatusConstants
<1>15. CASE Begin(s)
  <2>1. handler[s].at = "begin" /\ Legal(knew, Pending(op))
    BY <1>15 DEF Begin, Running, HandlerInv, StagesEarned, Earned
  <2>2. CASE Throw(s, "retryable") /\ UNCHANGED <<intents, fences>>
    BY <1>5, <2>1, <2>2 DEF Throw
  <2> QED
    BY <1>15, <2>1, <2>2 DEF Begin, Begins, externalVars
<1>16. CASE Send(s)
  <2>1. handler[s].at = "send" /\ HoldsFence(s) /\ UNCHANGED intents
    BY <1>16 DEF Send, Running, effectVars
  <2>2. CASE Proceed(s, knew, "await")
    <3>1. Course(s, knew, "await")
      BY <1>1, <1>3, <2>1, <2>2, StatusConstants DEF Course, Leaves, Comes, Succeeds
    <3> QED
      BY <3>1 DEF Courses
  <2> QED
    BY <1>5, <1>16, <2>1, <2>2 DEF Send
<1>17. CASE NoAnswer(s)
  <2>1. handler[s].at = "await" /\ UNCHANGED intents
    BY <1>17 DEF NoAnswer, Running, effectVars
  <2>2. CASE Proceed(s, knew, "ambiguous")
    <3>1. Course(s, knew, "ambiguous")
      BY <1>1, <1>3, <2>1, <2>2, StatusConstants DEF Course, Leaves, Comes, Succeeds
    <3> QED
      BY <3>1 DEF Courses
  <2> QED
    BY <1>5, <1>17, <2>1, <2>2 DEF NoAnswer
<1>18. CASE Answered(s)
  <2>1. /\ handler[s].at \in {"applied", "refused"} /\ UNCHANGED intents
        /\ \/ Proceed(s, knew, "persist") \/ Proceed(s, knew, "unknown")
           \/ Proceed(s, knew, "refuse") /\ handler[s].at = "refused"
    BY <1>18 DEF Answered, Running, effectVars, AfterAnswer
  <2>2. CASE Proceed(s, knew, "refuse") /\ handler[s].at = "refused"
    <3>1. Course(s, knew, "refuse")
      BY <1>1, <1>3, <2>1, <2>2, StatusConstants DEF Course, Leaves, Comes, Succeeds
    <3> QED
      BY <3>1 DEF Courses
  <2> QED
    BY <1>5, <2>1, <2>2
<1>19. CASE Ambiguous(s)
  <2>1. /\ handler[s].at = "ambiguous" /\ knew # "RECONCILIATION_REQUIRED"
        /\ Transition(s, "RECONCILIATION_REQUIRED", "succeeded")
    BY <1>19 DEF Ambiguous, Running, Knows, Pending
  <2> QED
    BY <1>6, <2>1, StatusNames, StatusConstants
<1>20. CASE Refuse(s)
  <2>1. PICK outcome \in {"succeeded", "retryable"} :
          handler[s].at = "refuse" /\ Transition(s, Refusal(op), outcome)
    BY <1>20 DEF Refuse, Running
  <2>2. knew = Pending(op)
    BY <2>1 DEF Knows
  <2>3. CASE op = "execute"
    <3>1. Refusal(op) = "FAILED" /\ knew = "EXECUTING"
      BY <2>2, <2>3 DEF Refusal, Pending
    <3> QED
      BY <1>6, <2>1, <2>3, <3>1, StatusNames, StatusConstants
  <2>4. CASE op = "compensate"
    <3>1. Refusal(op) = "REMEDIATION_REQUIRED" /\ knew = "COMPENSATION_PENDING"
      BY <2>2, <2>4 DEF Refusal, Pending
    <3> QED
      BY <1>6, <2>1, <2>4, <3>1, StatusNames, StatusConstants
  <2> QED
    BY <1>1, <2>3, <2>4 DEF Operations
<1>21. CASE Persist(s)
  <2>1. handler[s].at = "persist" /\ UNCHANGED intents
    BY <1>21 DEF Persist, Running
  <2>2. CASE /\ receipts' = [receipts EXCEPT ![i] = @ \cup {Receipt(op)}]
             /\ Proceed(s, knew, "finalize")
    <3>1. Receipt(op) \in receipts'[i]
      BY <1>1, <2>2
    <3>2. Course(s, knew, "finalize")
      BY <1>1, <1>3, <2>1, <2>2, <3>1, StatusConstants DEF Course, Leaves, Comes, Succeeds
    <3> QED
      BY <3>2 DEF Courses
  <2>3. CASE Throw(s, "permanent")
    BY <1>5, <2>1, <2>3 DEF Throw
  <2> QED
    BY <1>21, <2>2, <2>3 DEF Persist
<1>22. CASE Finalize(s)
  <2>1. handler[s].at = "finalize" /\ Receipt(op) \in receipts[i] /\ receipts' = receipts
    BY <1>22 DEF Finalize, Running, HandlerInv, StagesEarned, Earned
  <2>2. CASE knew = Done(op, i) /\ Proceed(s, knew, "succeeded") /\ UNCHANGED intents
    <3>1. CASE op = "execute"
      <4>1. knew \in {"COMMITTED", "IRREVERSIBLE_COMMITTED"}
        BY <2>2, <3>1 DEF Done, Terminal
      <4>2. Course(s, knew, "succeeded")
        BY <1>1, <1>3, <2>1, <2>2, <3>1, <4>1, StatusConstants DEF Course, Leaves, Comes, Succeeds
      <4> QED
        BY <4>2 DEF Courses
    <3>2. CASE op = "compensate"
      <4>1. knew = "COMPENSATED" /\ intents[i] = "COMPENSATED"
        BY <2>1, <2>2, <3>2 DEF Done, Knows
      <4>2. Course(s, knew, "succeeded")
        BY <1>1, <1>3, <2>1, <2>2, <3>2, <4>1, StatusConstants DEF Course, Leaves, Comes, Succeeds
      <4> QED
        BY <4>2 DEF Courses
    <3> QED
      BY <1>1, <3>1, <3>2 DEF Operations
  <2>3. CASE Transition(s, Toward(op, i, knew), "finalize")
    <3>1. Toward(op, i, knew) \in EffectStatuses
      BY <1>1, <1>2, NameTypes
    <3> HIDE DEF op, knew, i
    <3> QED
      BY <1>6, <2>1, <2>3, <3>1 DEF op, knew, i
  <2> QED
    BY <1>22, <2>2, <2>3 DEF Finalize
<1>23. CASE Unknown(s)
  <2>1. handler[s].at = "unknown" /\ Transition(s, "RECONCILIATION_REQUIRED", "retryable")
    BY <1>23 DEF Unknown, Running
  <2> QED
    BY <1>6, <2>1, StatusNames, StatusConstants
<1>24. CASE Interrupt(s)
  <2>1. /\ UNCHANGED intents
        /\ \E next \in {"retryable", "permanent", "unknown"} :
             /\ Proceed(s, knew, next)
             /\ next = "unknown" => handler[s].at # "load"
    BY <1>24 DEF Interrupt, effectVars, Caught, Knows
  <2> QED
    BY <1>5, <2>1
<1> QED
  BY <1>7, <1>8, <1>9, <1>10, <1>11, <1>12, <1>13, <1>14, <1>15, <1>16, <1>17, <1>18,
     <1>19, <1>20, <1>21, <1>22, <1>23, <1>24 DEF HandlerStep

-----------------------------------------------------------------------------
(* Slots and fences from one step to the next.                             *)

Same(t) == handler'[t] = handler[t] /\ slots'[t] = slots[t]

\* What the queue does to a slot: it frees it, starts a handler in it, or has it fail.
Reset(s) == \/ slots'[s] = Idle
            \/ slots'[s].phase = "running" /\ handler'[s].at = "load"
               /\ handler'[s].seen = "ABSENT" /\ handler'[s].token = 0 /\ ~handler'[s].trying
            \/ /\ slots'[s].phase \in {"permanent", "retryable"}
               /\ slots'[s].job = slots[s].job /\ slots'[s].token = slots[s].token
               /\ handler'[s] = handler[s]

OthersSame(s) == \A t \in Slots \ {s} : Same(t)

SlotsMove == \/ \A t \in Slots : Same(t)
             \/ \E s \in Slots : OthersSame(s) /\ Reset(s)
             \/ \E s \in Slots : HandlerStep(s)
             \/ \E m \in requests, refused \in BOOLEAN : Deliver(m, refused)

LEMMA EverySlotMove ==
  ASSUME TypeOK, EffectInv, [EffectNext]_vars
  PROVE  SlotsMove
<1>1. CASE UNCHANGED <<handler, slots>>
  BY <1>1 DEF SlotsMove, Same
<1>2. ASSUME NEW s \in Slots, NEW j \in Jobs, StartHandler(s, j) PROVE SlotsMove
  <2>1. slots'[s].phase = "running" /\ \A t \in Slots \ {s} : slots'[t] = slots[t]
    BY <1>2 DEF StartHandler, Claim, TypeOK
  <2>2. /\ handler'[s] = [NoHandler EXCEPT !.at = "load"]
        /\ \A t \in Slots \ {s} : handler'[t] = handler[t]
    BY <1>2 DEF StartHandler, EffectInv, HandlerInv, HandlersTyped
  <2> QED
    BY <2>1, <2>2 DEF SlotsMove, OthersSame, Same, Reset, NoHandler
<1>3. ASSUME NEW s \in Slots, SettleJob(s) PROVE SlotsMove
  <2>1. handler' = handler
    BY <1>3 DEF SettleJob
  <2>2. CASE Complete(s) \/ FailRetryable(s) \/ FailPermanent(s)
    BY <2>1, <2>2
    DEF Complete, FailRetryable, FailPermanent, TypeOK, SlotsMove, OthersSame, Same, Reset
  <2>3. CASE CompleteThrows(s)
    BY <2>1, <2>3
    DEF CompleteThrows, TypeOK, SlotState, SlotsMove, OthersSame, Same, Reset
  <2> QED
    BY <1>3, <2>2, <2>3 DEF SettleJob
<1>4. ASSUME NEW s \in Slots, ForgetHandler(s, FenceLost(s)) \/ ForgetHandler(s, Abandon(s))
      PROVE  SlotsMove
  <2>1. slots'[s] = Idle /\ \A t \in Slots \ {s} : slots'[t] = slots[t]
    BY <1>4 DEF ForgetHandler, FenceLost, Abandon, TypeOK
  <2>2. \A t \in Slots \ {s} : handler'[t] = handler[t]
    BY <1>4 DEF ForgetHandler, EffectInv, HandlerInv, HandlersTyped
  <2> QED
    BY <2>1, <2>2 DEF SlotsMove, OthersSame, Same, Reset
<1> QED
  BY <1>1, <1>2, <1>3, <1>4
  DEF SlotsMove, EffectNext, WorkerStep, Clock, Commit, Reconcile, RequestCompensation, Sweep,
      Prepare, Invalidate, vars, BecomeDue, LeaseExpires, Enqueue, RecoverStalled

\* A handler's step stays in its slot and leaves the jobs alone.
LEMMA CourseFrame ==
  ASSUME TypeOK, EffectInv, NEW s \in Slots, NEW seen, NEW next, Proceed(s, seen, next),
         next \in Goals
  PROVE  /\ jobs' = jobs /\ OthersSame(s)
         /\ slots'[s].job = slots[s].job /\ slots'[s].token = slots[s].token
         /\ \/ /\ next \in Outcomes
               /\ slots'[s].phase = next /\ handler'[s].at = "none"
               /\ handler'[s].seen = "ABSENT" /\ handler'[s].token = 0
            \/ /\ next \notin Outcomes
               /\ slots'[s].phase = slots[s].phase /\ handler'[s].at = next
               /\ handler'[s].seen = seen /\ handler'[s].token = handler[s].token
               /\ handler'[s].trying = handler[s].trying
<1> USE DEF EffectInv
<1>1. CASE next \in Outcomes /\ HandlerEnds(s, next) /\ UNCHANGED jobs
           /\ handler' = [handler EXCEPT ![s] = NoHandler]
  <2>1. next \in {"succeeded", "retryable", "permanent"}
    BY <1>1 DEF Outcomes
  <2>2. slots' = [slots EXCEPT ![s].phase = next]
    BY <1>1 DEF HandlerEnds
  <2>3. /\ slots'[s].job = slots[s].job /\ slots'[s].token = slots[s].token
        /\ slots'[s].phase = next
        /\ \A t \in Slots \ {s} : slots'[t] = slots[t]
    BY <2>2 DEF TypeOK, SlotState
  <2>4. handler'[s] = NoHandler /\ \A t \in Slots \ {s} : handler'[t] = handler[t]
    BY <1>1 DEF HandlerInv, HandlersTyped
  <2>5. handler'[s].at = "none" /\ handler'[s].seen = "ABSENT" /\ handler'[s].token = 0
    BY <2>4 DEF NoHandler
  <2>6. OthersSame(s)
    BY <2>3, <2>4 DEF OthersSame, Same
  <2> QED
    BY <1>1, <2>3, <2>5, <2>6
<1>2. CASE /\ next \in Stages /\ UNCHANGED slots /\ UNCHANGED jobs
           /\ handler' = [handler EXCEPT ![s].at = next, ![s].seen = seen]
  <2>1. /\ handler'[s].at = next /\ handler'[s].seen = seen
        /\ handler'[s].token = handler[s].token /\ handler'[s].trying = handler[s].trying
        /\ \A t \in Slots \ {s} : handler'[t] = handler[t]
    BY <1>2 DEF HandlerInv, HandlersTyped, Handler
  <2>2. next \notin Outcomes
    BY <1>2 DEF Stages, Outcomes
  <2> QED
    BY <1>2, <2>1, <2>2 DEF OthersSame, Same
<1> QED
  BY <1>1, <1>2 DEF Proceed

LEMMA BeginFrame ==
  ASSUME TypeOK, EffectInv, NEW s \in Slots, HandlerStep(s), Begins(s)
  PROVE  /\ jobs' = jobs /\ slots' = slots /\ OthersSame(s)
         /\ handler'[s].at = "send" /\ handler'[s].seen = Pending(Operation(s))
         /\ handler'[s].token = fences[ResourceOf[Intent(s)]] + 1
         /\ Intent(s) \in Intents /\ intents'[Intent(s)] = Pending(Operation(s))
         /\ \A i \in Intents \ {Intent(s)} : intents'[i] = intents[i]
         /\ fences[ResourceOf[Intent(s)]] \in Nat
         /\ fences' = [fences EXCEPT ![ResourceOf[Intent(s)]] = @ + 1]
<1> USE DEF EffectInv
<1>1. Intent(s) \in Intents /\ Operation(s) \in Operations
  BY HandlerRuns, OfSlot DEF HandlerInv
<1>2. handler' = [handler EXCEPT ![s] = [at |-> "send", seen |-> Pending(Operation(s)),
                                         token |-> NextToken(Intent(s)), trying |-> TRUE]]
  BY DEF Begins
<1>3. /\ handler'[s] = [at |-> "send", seen |-> Pending(Operation(s)),
                        token |-> NextToken(Intent(s)), trying |-> TRUE]
      /\ \A t \in Slots \ {s} : handler'[t] = handler[t]
  BY <1>2 DEF HandlerInv, HandlersTyped
<1>4. fences[ResourceOf[Intent(s)]] \in Nat
  BY <1>1, FencesOf DEF DataTyped
<1> QED
  BY <1>1, <1>3, <1>4
  DEF Begins, OthersSame, Same, NextToken, SetStatus, DataTyped, RecordsTyped

\* A handler's step is in its own slot.
LEMMA OthersStay ==
  ASSUME TypeOK, EffectInv, NEW s \in Slots, HandlerStep(s), Knows(s)
  PROVE  OthersSame(s) /\ jobs' = jobs
<1>1. ASSUME NEW seen, NEW next, Course(s, seen, next) PROVE OthersSame(s) /\ jobs' = jobs
  <2>1. Proceed(s, seen, next) /\ next \in Goals
    BY <1>1 DEF Course
  <2> QED
    BY <2>1, CourseFrame
<1> QED
  BY <1>1, HandlerCourse, BeginFrame DEF Courses

\* An operation begins under the fence.
LEMMA BeginHoldsFence ==
  ASSUME TypeOK, EffectInv, NEW s \in Slots, HandlerStep(s), Knows(s), Begins(s)
  PROVE  HoldsFence(s)
<1>1. handler'[s].at = "send"
  BY BeginFrame
<1>2. ASSUME NEW seen, NEW next, Course(s, seen, next) PROVE FALSE
  <2>1. Proceed(s, seen, next) /\ next \in Goals
    BY <1>2 DEF Course
  <2>2. handler'[s].at \in {"none", next}
    BY <2>1, CourseFrame
  <2> QED
    BY <1>1, <2>1, <2>2, StatusConstants
<1> QED
  BY <1>2, HandlerCourse DEF Courses

\* A fence once lost stays lost for the claim that had it.
LEMMA FenceNotRegained ==
  ASSUME TypeOK, TokenInv, [EffectNext]_vars, NEW s \in Slots,
         slots'[s].job = slots[s].job, slots'[s].token = slots[s].token, HoldsFence(s)'
  PROVE  HoldsFence(s)
<1> DEFINE j == slots[s].job
<1>1. j \in Jobs /\ jobs[j] \in JobRow /\ slots[s].token \in Nat /\ RowStep(j)
  BY EffectOnQueue, NextRowStep DEF HoldsFence, TypeOK, SlotState
<1>2. /\ jobs'[j].status = "RUNNING" /\ jobs'[j].lockedBy = WorkerOf[s]
      /\ jobs'[j].token = slots[s].token /\ jobs'[j].lease = "live"
  BY DEF HoldsFence, FenceCurrent
<1>3. slots[s].token <= jobs[j].token
  BY <1>1 DEF TokenInv, TokensBounded
<1>4. CASE RowKept(j)
  BY <1>1, <1>2, <1>4 DEF RowKept, HoldsFence, FenceCurrent
<1>5. CASE RowClaimed(j)
  BY <1>1, <1>2, <1>3, <1>5 DEF RowClaimed, ClaimedBy, JobRow
<1>6. CASE RowOffered(j) \/ RowDue(j)
  BY <1>1, <1>2, <1>6 DEF RowOffered, Enqueued, RowDue, JobRow, Waiting
<1>7. CASE RowExpired(j)
  BY <1>1, <1>2, <1>7 DEF RowExpired, JobRow
<1>8. CASE RowSettled(j) \/ RowGivenUp(j)
  BY <1>1, <1>2, <1>8 DEF RowSettled, RowGivenUp, AfterFailure, Released, Final, JobRow
<1> QED
  BY <1>1, <1>4, <1>5, <1>6, <1>7, <1>8 DEF RowStep

\* A job that is live stays so, or succeeds in the slot that says so, or dies and its
\* effect is surfaced.
Surfaced(i) == IF intents[i] \in Unsettled THEN intents'[i] = "RECONCILIATION_REQUIRED"
                                           ELSE intents'[i] = intents[i]

LEMMA LiveOrSettled ==
  ASSUME TypeOK, EffectInv, [EffectNext]_vars, NEW j \in Jobs, Live(j)
  PROVE  \/ Live(j)'
         \/ \E s \in Slots : Holds(s, j) /\ slots[s].phase = "succeeded"
         \/ Surfaced(IntentOf[j])
<1>1. jobs[j] \in JobRow /\ RowStep(j) /\ IntentOf[j] \in Intents
  BY EffectOnQueue, NextRowStep, EffectAssumption DEF TypeOK
<1>2. jobs'[j].status # "ABSENT"
  BY <1>1
  DEF Live, RowStep, RowKept, RowOffered, Enqueued, RowDue, RowClaimed, ClaimedBy, RowExpired,
      RowSettled, RowGivenUp, AfterFailure, Released, JobRow, Final
<1>3. jobs'[j] = jobs[j] => Live(j)'
  BY DEF Live
<1>4. ASSUME SurfaceDeadLetters, jobs'[j].status = "DEAD_LETTER" PROVE Surfaced(IntentOf[j])
  <2>1. jobs[j].status # "DEAD_LETTER"
    BY DEF Live, Final
  <2> QED
    BY <1>1, <1>4, <2>1 DEF SurfaceDeadLetters, Surfaced
<1>5. ASSUME NEW s \in Slots, SettleJob(s) PROVE \/ Live(j)' \/ Surfaced(IntentOf[j])
                                                 \/ Holds(s, j) /\ slots[s].phase = "succeeded"
  <2>1. CASE slots[s].job # j
    <3>1. jobs'[j] = jobs[j]
      BY <1>5, <2>1
      DEF SettleJob, Complete, CompleteThrows, FailRetryable, FailPermanent, Settled, TypeOK
    <3> QED
      BY <1>3, <3>1
  <2>2. CASE slots[s].job = j /\ (Complete(s) \/ CompleteThrows(s))
    <3>1. slots[s].phase = "succeeded" /\ (HoldsFence(s) \/ jobs' = jobs)
      BY <2>2 DEF Complete, CompleteThrows
    <3> QED
      BY <1>3, <2>2, <3>1 DEF Holds
  <2>3. CASE slots[s].job = j /\ FailRetryable(s)
    <3>1. jobs'[j] = AfterFailure(j, FALSE)
      BY <2>3 DEF FailRetryable, TypeOK
    <3>2. jobs'[j].status \in {"DEAD_LETTER", "FAILED"}
      BY <1>1, <3>1 DEF AfterFailure, Released, JobRow
    <3> QED
      BY <1>4, <1>5, <3>2 DEF SettleJob, Live, Final
  <2>4. CASE slots[s].job = j /\ FailPermanent(s)
    <3>1. jobs'[j] = Released(j, "DEAD_LETTER", jobs[j].due)
      BY <2>4 DEF FailPermanent, Settled, TypeOK
    <3>2. jobs'[j].status = "DEAD_LETTER"
      BY <1>1, <3>1 DEF Released, JobRow
    <3> QED
      BY <1>4, <1>5, <3>2 DEF SettleJob
  <2> QED
    BY <1>5, <2>1, <2>2, <2>3, <2>4 DEF SettleJob
<1>6. ASSUME NEW S \in SUBSET Jobs, Sweep(S) PROVE Live(j)' \/ Surfaced(IntentOf[j])
  <2>1. jobs'[j] = AfterFailure(j, TRUE) \/ jobs'[j] = jobs[j]
    BY <1>6 DEF Sweep, RecoverStalled
  <2>2. jobs'[j].status \in {"DEAD_LETTER", "FAILED"} \/ jobs'[j] = jobs[j]
    BY <1>1, <2>1 DEF AfterFailure, Released, JobRow
  <2> QED
    BY <1>3, <1>4, <1>6, <2>2 DEF Sweep, Live, Final
<1>7. ASSUME NEW s \in Slots, HandlerStep(s) PROVE Live(j)'
  <2>1. jobs' = jobs
    BY <1>7, HandlerSummary DEF EffectInv, DataTyped, Plain, Records, Sends, Begins, HandlerGoes, GoesTo, Proceed
  <2> QED
    BY <1>3, <2>1
<1>8. ASSUME NEW s \in Slots, NEW k \in Jobs, StartHandler(s, k) PROVE Live(j)'
  <2>1. jobs'[j] = jobs[j] \/ jobs'[j].status = "RUNNING"
    BY <1>1, <1>8 DEF StartHandler, Claim, TypeOK, JobRow
  <2> QED
    BY <1>3, <2>1 DEF Live, Final
<1>9. ASSUME NEW k \in Jobs, Clock(k) \/ Commit(k) \/ Reconcile(k) \/ RequestCompensation(k)
      PROVE  Live(j)'
  <2>1. jobs'[j].status = jobs[j].status \/ jobs'[j].status = "PENDING"
    BY <1>1, <1>9
    DEF Clock, Commit, Reconcile, RequestCompensation, Enqueue, BecomeDue, LeaseExpires, TypeOK, JobRow
  <2> QED
    BY <2>1 DEF Live, Final
<1> QED
  BY <1>3, <1>5, <1>6, <1>7, <1>8, <1>9
  DEF EffectNext, WorkerStep, ForgetHandler, FenceLost, Abandon, Prepare, Invalidate, Deliver, vars

-----------------------------------------------------------------------------
(* What handlers know stays true.                                          *)
LEMMA StatusesStay ==
  ASSUME TypeOK, EffectInv, [EffectNext]_vars, NEW i \in Intents
  PROVE  /\ intents[i] # "ABSENT" => intents'[i] # "ABSENT"
         /\ intents[i] = "COMPENSATED" => intents'[i] = "COMPENSATED"
<1>1. StatusStep(i) /\ intents[i] \in EffectStatuses
  BY StatusSteps DEF EffectInv, DataTyped, RecordsTyped
<1> QED
  BY <1>1, StatusNames
  DEF StatusStep, StatusKept, StatusMoved, StatusPrepared, Legal, Successors

LEMMA FencesGrow ==
  ASSUME TypeOK, EffectInv, EffectInv', [EffectNext]_vars, NEW r \in Resources
  PROVE  fences[r] <= fences'[r]
<1> USE DEF EffectInv, DataTyped, FencesTyped
<1>1. fences[r] \in Nat /\ fences'[r] \in Nat
  OBVIOUS
<1>2. CASE UNCHANGED fences
  BY <1>1, <1>2
<1>3. ASSUME NEW s \in Slots, HandlerStep(s) PROVE fences[r] <= fences'[r]
  <2>1. CASE Begins(s)
    BY <1>1, <1>3, <2>1, BeginFrame
  <2> QED
    BY <1>2, <1>3, <2>1, HandlerSummary DEF Plain, Records, Sends
<1>4. ASSUME NEW i \in Intents, Prepare(i) PROVE fences[r] <= fences'[r]
  BY <1>1, <1>4, FencesOf DEF Prepare, NextToken
<1> QED
  BY <1>2, <1>3, <1>4
  DEF EffectNext, WorkerStep, StartHandler, SettleJob, ForgetHandler, Clock, Commit, Reconcile,
      RequestCompensation, Sweep, Invalidate, Deliver, effectVars, vars

LEMMA OnlySendSends ==
  ASSUME NEW s \in Slots, HandlerStep(s), requests' # requests
  PROVE  /\ Running(s, "send") /\ HoldsFence(s) /\ ResourceCurrent(s)
         /\ Proceed(s, handler[s].seen, "await")
         /\ requests' = requests \cup {[intent |-> Intent(s), op |-> Operation(s),
                                        token |-> handler[s].token]}
  BY DEF HandlerStep, Load, Route, ConnectorUnusable, Remediate, Mark, Query, NotFound,
         Unapproved, Begin, Send, NoAnswer, Answered, Ambiguous, Refuse, Persist, Finalize,
         Unknown, Interrupt, externalVars

NewWrite(s, m) == /\ HandlerStep(s) /\ requests' # requests
                  /\ m = [intent |-> Intent(s), op |-> Operation(s), token |-> handler[s].token]

LEMMA NewWrites ==
  ASSUME TypeOK, EffectInv, [EffectNext]_vars, NEW m \in requests' \cup applied'
  PROVE  m \in requests \cup applied \/ \E s \in Slots : NewWrite(s, m)
<1>1. CASE UNCHANGED <<requests, applied>>
  BY <1>1
<1>2. ASSUME NEW s \in Slots, HandlerStep(s)
      PROVE  m \in requests \cup applied \/ NewWrite(s, m)
  <2>1. applied' = applied
    BY <1>2, HandlerSummary DEF EffectInv, DataTyped, Plain, Records, Sends, Begins
  <2> QED
    BY <1>2, <2>1, OnlySendSends DEF NewWrite
<1>3. ASSUME NEW n \in requests, NEW refused \in BOOLEAN, Deliver(n, refused)
      PROVE  m \in requests \cup applied
  BY <1>3 DEF Deliver
<1> QED
  BY <1>1, <1>2, <1>3
  DEF EffectNext, WorkerStep, StartHandler, SettleJob, ForgetHandler, Clock, Commit, Reconcile,
      RequestCompensation, Sweep, Prepare, Invalidate, externalVars, vars

LEMMA PreparedStep ==
  ASSUME TypeOK, EffectInv, KnowledgeInv, [EffectNext]_vars
  PROVE  WritesPrepared'
<1> SUFFICES ASSUME NEW m \in requests' \cup applied' PROVE intents'[m.intent] # "ABSENT"
  BY DEF WritesPrepared
<1>1. CASE m \in requests \cup applied
  <2>1. m.intent \in Intents
    BY <1>1, WriteTyped DEF EffectInv
  <2> QED
    BY <1>1, <2>1, StatusesStay DEF KnowledgeInv, WritesPrepared
<1>2. ASSUME NEW s \in Slots, NewWrite(s, m) PROVE intents'[m.intent] # "ABSENT"
  <2>1. handler[s].at = "send" /\ Intent(s) \in Intents /\ m.intent = Intent(s)
    BY <1>2, OnlySendSends, OfSlot DEF NewWrite, Running, EffectInv, HandlerInv
  <2> QED
    BY <2>1, StatusesStay DEF KnowledgeInv, Knows
<1> QED
  BY <1>1, <1>2, NewWrites

\* How a handler that runs after a step came from one that ran before it.
GoesOn(t) ==
  \/ handler'[t].at = "none"
  \/ handler'[t].at = "load" /\ handler'[t].seen = "ABSENT" /\ handler'[t].token = 0
     /\ ~handler'[t].trying
  \/ handler[t].at # "none" /\ slots'[t].job = slots[t].job /\ handler'[t].token = handler[t].token

LEMMA Resets ==
  ASSUME TypeOK, EffectInv, EffectInv', NEW s \in Slots, Reset(s)
  PROVE  \/ handler'[s].at = "none"
         \/ /\ handler'[s].at = "load" /\ handler'[s].seen = "ABSENT" /\ handler'[s].token = 0
            /\ ~handler'[s].trying
<1>1. handler'[s].at # "none" => slots'[s].phase = "running"
  BY DEF EffectInv, HandlerInv, HandlersRun, Runs
<1> QED
  BY <1>1 DEF Reset, Idle

LEMMA DeliveryMoves ==
  ASSUME EffectInv, NEW m \in requests, NEW refused \in BOOLEAN, Deliver(m, refused), NEW t \in Slots
  PROVE  /\ slots' = slots /\ jobs' = jobs /\ intents' = intents /\ receipts' = receipts
         /\ handler'[t].seen = handler[t].seen /\ handler'[t].token = handler[t].token
         /\ handler'[t].trying = handler[t].trying
         /\ \/ handler'[t] = handler[t]
            \/ handler[t].at = "await" /\ handler'[t].at = "applied"
            \/ /\ handler[t].at = "await" /\ handler'[t].at = "refused"
               /\ Intent(t) = m.intent /\ Operation(t) = m.op /\ handler[t].token = m.token
               /\ refused /\ ~Applied(m.intent, m.op)
  BY DEF Deliver, effectVars, Running, EffectInv, HandlerInv, HandlersTyped, Handler

LEMMA HandlerActive ==
  ASSUME NEW s \in Slots, HandlerStep(s)
  PROVE  handler[s].at # "none"
  BY DEF HandlerStep, Running, Load, Route, ConnectorUnusable, Remediate, Mark, Query, NotFound,
         Unapproved, Begin, Send, NoAnswer, Answered, Ambiguous, Refuse, Persist, Finalize,
         Unknown, Interrupt

LEMMA HandlersGoOn ==
  ASSUME TypeOK, EffectInv, EffectInv', KnowledgeInv, [EffectNext]_vars, NEW t \in Slots
  PROVE  GoesOn(t) \/ (HandlerStep(t) /\ Begins(t))
<1>1. CASE Same(t)
  BY <1>1 DEF Same, GoesOn
<1>2. CASE Reset(t)
  BY <1>2, Resets DEF GoesOn
<1>3. CASE HandlerStep(t) /\ ~Begins(t)
  <2>1. PICK seen, next : Course(t, seen, next)
    BY <1>3, HandlerCourse DEF Courses, KnowledgeInv
  <2>2. Proceed(t, seen, next) /\ next \in Goals
    BY <2>1 DEF Course
  <2> QED
    BY <1>3, <2>2, CourseFrame, HandlerActive DEF GoesOn
<1>4. ASSUME NEW m \in requests, NEW refused \in BOOLEAN, Deliver(m, refused) PROVE GoesOn(t)
  BY <1>4, DeliveryMoves DEF GoesOn
<1>5. ASSUME NEW s \in Slots, s # t, HandlerStep(s) PROVE Same(t)
  BY <1>5, OthersStay DEF OthersSame, KnowledgeInv
<1> QED
  BY <1>1, <1>2, <1>3, <1>4, <1>5, EverySlotMove DEF SlotsMove, OthersSame

LEMMA KnowsStep ==
  ASSUME TypeOK, EffectInv, EffectInv', KnowledgeInv, [EffectNext]_vars, NEW t \in Slots
  PROVE  Knows(t)'
<1> DEFINE i == Intent(t)
           r == ResourceOf[i]
<1> USE DEF KnowledgeInv
<1>1. handler[t].at # "none" => slots[t].phase = "running" /\ i \in Intents
  BY OfSlot DEF EffectInv, HandlerInv, HandlersRun, Runs
<1>2. /\ handler[t].at # "none" /\ slots'[t].job = slots[t].job =>
           /\ Intent(t)' = i /\ Operation(t)' = Operation(t)
           /\ r \in Resources /\ fences[r] <= fences'[r]
           /\ fences[r] \in Nat /\ fences'[r] \in Nat /\ handler[t].token \in Nat
           /\ intents[i] # "ABSENT" => intents'[i] # "ABSENT"
           /\ intents[i] = "COMPENSATED" => intents'[i] = "COMPENSATED"
  BY <1>1, StatusesStay, FencesGrow, FencesOf
  DEF Intent, Operation, EffectInv, DataTyped, FencesTyped, HandlerInv, HandlersTyped, Handler
<1>3. CASE handler'[t].at = "none"
  BY <1>3 DEF Knows
<1>4. CASE /\ handler'[t].at = "load" /\ handler'[t].seen = "ABSENT" /\ handler'[t].token = 0
           /\ ~handler'[t].trying
  <2>1. CASE handler'[t].at # "none"
    <3>1. Intent(t)' \in Intents
      BY <2>1, EffectAssumption DEF EffectInv, HandlerInv, HandlersRun, Runs, Intent
    <3>2. fences'[ResourceOf[Intent(t)']] \in Nat
      BY <3>1, EffectAssumption DEF EffectInv, DataTyped, FencesTyped
    <3> QED
      BY <1>4, <3>2 DEF Knows
  <2> QED
    BY <1>3, <2>1
<1>5. CASE Same(t)
  <2>1. CASE handler[t].at # "none"
    BY <1>2, <1>5, <2>1 DEF Same, Knows, Pending
  <2> QED
    BY <1>3, <1>5, <2>1 DEF Same
<1>6. ASSUME NEW seen, NEW next, Course(t, seen, next), HandlerStep(t) PROVE Knows(t)'
  <2>1. Proceed(t, seen, next) /\ next \in Goals /\ Comes(t, seen, next) /\ Leaves(t, seen, next)
    BY <1>6 DEF Course
  <2>2. CASE next \in Outcomes
    BY <1>3, <2>1, <2>2, CourseFrame
  <2>3. CASE next \notin Outcomes
    <3>1. /\ handler'[t].at = next /\ handler'[t].seen = seen
          /\ handler'[t].token = handler[t].token /\ slots'[t].job = slots[t].job
      BY <2>1, <2>3, CourseFrame
    <3>2. handler[t].at # "none"
      BY <1>6, HandlerActive
    <3>3. next \notin {"none", "load", "send", "applied", "refused"}
      BY <2>1, StatusConstants
    <3>4. next \in {"await", "refuse", "ambiguous"} =>
            /\ handler[t].at \in {"send", "refused", "await"} /\ seen = handler[t].seen
      BY <2>1 DEF Comes
    <3>5. next \in {"await", "refuse", "ambiguous"} => seen = Pending(Operation(t))
      BY <3>4 DEF Knows
    <3>6. next = "remediate" => seen # "REMEDIATION_REQUIRED"
      BY <2>1 DEF Comes
    <3>7. seen = "COMPENSATED" => intents'[i] = "COMPENSATED"
      BY <1>2, <2>1, <3>1, <3>2 DEF Leaves, Knows
    <3>8. handler[t].token <= fences[r]
      BY <3>2 DEF Knows
    <3>9. handler[t].token <= fences'[r]
      BY <1>2, <3>1, <3>2, <3>8
    <3> QED
      BY <1>2, <3>1, <3>2, <3>3, <3>5, <3>6, <3>7, <3>9 DEF Knows, Pending
  <2> QED
    BY <2>2, <2>3
<1>7. CASE HandlerStep(t) /\ Begins(t)
  <2>1. /\ handler'[t].at = "send" /\ handler'[t].seen = Pending(Operation(t))
        /\ slots' = slots /\ intents'[i] = Pending(Operation(t))
        /\ handler'[t].token = fences[r] + 1 /\ fences[r] \in Nat /\ i \in Intents
        /\ fences' = [fences EXCEPT ![r] = @ + 1]
    BY <1>7, BeginFrame
  <2>2. fences'[r] = fences[r] + 1
    BY <2>1, EffectAssumption DEF EffectInv, DataTyped, FencesTyped
  <2>3. Intent(t)' = i /\ Operation(t)' = Operation(t)
    BY <2>1 DEF Intent, Operation
  <2>4. Pending(Operation(t)) \in {"EXECUTING", "COMPENSATION_PENDING"}
    BY DEF Pending
  <2> QED
    BY <2>1, <2>2, <2>3, <2>4 DEF Knows, Pending
<1>8. ASSUME NEW m \in requests, NEW refused \in BOOLEAN, Deliver(m, refused) PROVE Knows(t)'
  <2>1. /\ slots' = slots
        /\ handler'[t].seen = handler[t].seen /\ handler'[t].token = handler[t].token
        /\ \/ handler'[t] = handler[t]
           \/ handler[t].at = "await" /\ handler'[t].at \in {"applied", "refused"}
    BY <1>8, DeliveryMoves
  <2>2. CASE handler[t].at = "await" /\ handler'[t].at \in {"applied", "refused"}
    BY <1>2, <2>1, <2>2 DEF Knows, Pending
  <2>3. CASE handler'[t] = handler[t]
    BY <1>5, <2>1, <2>3 DEF Same
  <2> QED
    BY <2>1, <2>2, <2>3
<1>9. ASSUME NEW s \in Slots, s # t, HandlerStep(s) PROVE Same(t)
  BY <1>9, OthersStay DEF OthersSame, KnowledgeInv
<1>10. CASE Reset(t)
  BY <1>3, <1>4, <1>10, Resets
<1>11. CASE HandlerStep(t)
  BY <1>6, <1>7, <1>11, HandlerCourse DEF Courses
<1> QED
  BY <1>5, <1>8, <1>9, <1>10, <1>11, EverySlotMove DEF SlotsMove, OthersSame

LEMMA AloneStep ==
  ASSUME TypeOK, EffectInv, EffectInv', KnowledgeInv, [EffectNext]_vars, NEW s \in Slots
  PROVE  Alone(s)'
<1> USE DEF KnowledgeInv
<1> SUFFICES ASSUME handler'[s].at = "send", NEW t \in Slots, t # s, handler'[t].at # "none",
                    ResourceOf[Intent(s)'] = ResourceOf[Intent(t)']
             PROVE  handler'[t].token # handler'[s].token
  BY DEF Alone
<1>1. ASSUME NEW q \in Slots, handler[q].at # "none"
      PROVE  /\ handler[q].token <= fences[ResourceOf[Intent(q)]] /\ handler[q].token \in Nat
             /\ fences[ResourceOf[Intent(q)]] \in Nat
  <2>1. Intent(q) \in Intents
    BY <1>1, OfSlot DEF EffectInv, HandlerInv, HandlersRun, Runs
  <2>2. handler[q].token \in Nat
    BY DEF EffectInv, HandlerInv, HandlersTyped, Handler
  <2> QED
    BY <1>1, <2>1, <2>2, FencesOf DEF Knows, EffectInv, DataTyped
<1>2. \A q \in Slots : slots'[q].job = slots[q].job => Intent(q)' = Intent(q)
  BY DEF Intent
<1>3. CASE \E b \in {s, t} : HandlerStep(b) /\ Begins(b)
  <2>1. PICK b \in {s, t} : HandlerStep(b) /\ Begins(b)
    BY <1>3
  <2>2. PICK q \in {s, t} : q # b
    OBVIOUS
  <2>3. /\ slots' = slots /\ OthersSame(b) /\ fences[ResourceOf[Intent(b)]] \in Nat
        /\ handler'[b].token = fences[ResourceOf[Intent(b)]] + 1
    BY <2>1, BeginFrame
  <2>4. handler'[q] = handler[q]
    BY <2>2, <2>3 DEF OthersSame, Same
  <2>5. handler[q].token <= fences[ResourceOf[Intent(q)]] /\ handler[q].token \in Nat
    BY <1>1, <2>2, <2>4
  <2>6. ResourceOf[Intent(q)] = ResourceOf[Intent(b)]
    BY <1>2, <2>1, <2>2, <2>3
  <2>7. handler'[q].token # handler'[b].token
    BY <2>3, <2>4, <2>5, <2>6
  <2> QED
    BY <2>1, <2>2, <2>7
<1>4. CASE \A b \in {s, t} : ~(HandlerStep(b) /\ Begins(b))
  <2>1. GoesOn(s) /\ GoesOn(t)
    BY <1>4, HandlersGoOn
  <2>2. handler[s].at # "none" /\ slots'[s].job = slots[s].job /\ handler'[s].token = handler[s].token
    BY <2>1 DEF GoesOn
  <2>3. handler[s].at = "send"
    <3>1. SendersStay \/ \E b \in Slots : HandlerStep(b) /\ Begins(b)
      BY SendersOnlyBegin DEF EffectInv
    <3>2. CASE SendersStay
      BY <3>2 DEF SendersStay, Sender
    <3>3. ASSUME NEW b \in Slots, HandlerStep(b), Begins(b) PROVE handler[s].at = "send"
      <4>1. b # s /\ OthersSame(b)
        BY <1>4, <3>3, BeginFrame
      <4> QED
        BY <4>1 DEF OthersSame, Same
    <3> QED
      BY <3>1, <3>2, <3>3
  <2>4. 0 < handler[s].token /\ handler[s].token \in Nat
    BY <1>1, <2>2, <2>3 DEF Knows
  <2>5. CASE handler'[t].token = 0
    BY <2>2, <2>4, <2>5
  <2>6. CASE handler[t].at # "none" /\ slots'[t].job = slots[t].job
             /\ handler'[t].token = handler[t].token
    BY <1>2, <2>2, <2>3, <2>6 DEF Alone
  <2> QED
    BY <2>1, <2>5, <2>6 DEF GoesOn
<1> QED
  BY <1>3, <1>4

LEMMA ClearedStep ==
  ASSUME TypeOK, EffectInv, EffectInv', OrderInv, KnowledgeInv, [EffectNext]_vars, NEW t \in Slots
  PROVE  Cleared(t)'
<1> USE DEF KnowledgeInv
<1> SUFFICES ASSUME handler'[t].at \in {"refused", "refuse"}, Operation(t)' = "execute",
                    NEW n \in requests' \cup applied', n.intent = Intent(t)', n.op = "execute"
             PROVE  handler'[t].token < n.token
  BY DEF Cleared
<1>1. ASSUME handler[t].at \in {"refused", "refuse"}, slots'[t].job = slots[t].job,
             handler'[t].token = handler[t].token
      PROVE  handler'[t].token < n.token
  <2>1. Intent(t)' = Intent(t) /\ Operation(t)' = Operation(t)
    BY <1>1 DEF Intent, Operation
  <2>2. CASE n \in requests \cup applied
    BY <1>1, <2>1, <2>2 DEF Cleared
  <2>3. ASSUME NEW s \in Slots, NewWrite(s, n) PROVE handler[t].token < n.token
    <3>1. handler[s].at = "send" /\ slots[s].phase = "running" /\ n.token = handler[s].token
          /\ n.intent = Intent(s) /\ handler[s].token = fences[ResourceOf[Intent(s)]]
      BY <2>3, OnlySendSends DEF NewWrite, Running, ResourceCurrent
    <3>2. handler[t].token # handler[s].token
      BY <1>1, <2>1, <3>1 DEF Alone
    <3>3. handler[t].token <= fences[ResourceOf[Intent(t)]]
      BY <1>1 DEF Knows
    <3>4. handler[t].token \in Nat /\ handler[s].token \in Nat
      BY DEF EffectInv, HandlerInv, HandlersTyped, Handler
    <3> QED
      BY <2>1, <3>1, <3>2, <3>3, <3>4
  <2> QED
    BY <1>1, <2>2, <2>3, NewWrites
<1>2. CASE Same(t)
  BY <1>1, <1>2 DEF Same
<1>3. CASE Reset(t)
  BY <1>3, Resets
<1>4. ASSUME NEW m \in requests, NEW refused \in BOOLEAN, Deliver(m, refused)
      PROVE  handler'[t].token < n.token
  <2>1. slots' = slots /\ handler'[t].token = handler[t].token
    BY <1>4, DeliveryMoves
  <2>2. CASE handler'[t] = handler[t]
    BY <1>1, <2>1, <2>2
  <2>3. CASE /\ handler[t].at = "await" /\ handler'[t].at = "refused"
             /\ Intent(t) = m.intent /\ Operation(t) = m.op /\ handler[t].token = m.token
             /\ refused /\ ~Applied(m.intent, m.op)
    <3>1. Intent(t)' = Intent(t) /\ Operation(t)' = Operation(t)
      BY <2>1 DEF Intent, Operation
    <3>2. n \notin applied
      BY <2>3, <3>1 DEF Applied
    <3>3. n \in requests \ {m} /\ m.token <= n.token
      BY <1>4, <2>3, <3>1, <3>2 DEF Deliver
    <3>4. m.token # n.token
      BY <2>3, <3>1, <3>3 DEF OrderInv, WritesNumbered, SameResource
    <3>5. m.token \in Nat /\ n.token \in Nat
      BY <3>3, WriteTyped DEF EffectInv
    <3> QED
      BY <2>1, <2>3, <3>3, <3>4, <3>5
  <2> QED
    BY <1>4, <2>2, <2>3, DeliveryMoves
<1>5. CASE HandlerStep(t)
  <2>1. ~Begins(t)
    BY <1>5, BeginFrame
  <2>2. PICK seen, next : Course(t, seen, next)
    BY <1>5, <2>1, HandlerCourse DEF Courses
  <2>3. Proceed(t, seen, next) /\ next \in Goals /\ Comes(t, seen, next)
    BY <2>2 DEF Course
  <2>4. next = "refuse" /\ slots'[t].job = slots[t].job /\ handler'[t].token = handler[t].token
    BY <2>3, CourseFrame, StatusConstants
  <2> QED
    BY <1>1, <2>3, <2>4 DEF Comes
<1>6. ASSUME NEW s \in Slots, s # t, HandlerStep(s) PROVE Same(t)
  BY <1>6, OthersStay DEF OthersSame, KnowledgeInv
<1> QED
  BY <1>2, <1>3, <1>4, <1>5, <1>6, EverySlotMove DEF SlotsMove, OthersSame

LEMMA KnowledgeStep ==
  ASSUME TypeOK, EffectInv, EffectInv', OrderInv, KnowledgeInv, [EffectNext]_vars
  PROVE  KnowledgeInv'
<1>1. WritesPrepared'
  BY PreparedStep
<1>2. \A s \in Slots : Knows(s)' /\ Alone(s)' /\ Cleared(s)'
  BY KnowsStep, AloneStep, ClearedStep
<1> QED
  BY <1>1, <1>2 DEF KnowledgeInv

-----------------------------------------------------------------------------
(* Nobody forgets an effect.                                               *)

\* A status is put in doubt, or out of a flag, only by a handler.
LEMMA DoubtsByHandlers ==
  ASSUME TypeOK, EffectInv, [EffectNext]_vars, NEW i \in Intents, intents'[i] # intents[i],
         \/ intents'[i] \in InDoubt
         \/ intents[i] \in Flagged /\ intents'[i] \notin Flagged
  PROVE  \E s \in Slots : HandlerStep(s) /\ Intent(s) = i
<1>1. ASSUME NEW s \in Slots, HandlerStep(s) PROVE Intent(s) = i
  <2>1. intents'[i] = intents[i] \/ Intent(s) = i
    <3>1. Intent(s) \in Intents
      BY <1>1, HandlerRuns, OfSlot DEF EffectInv, HandlerInv
    <3> QED
      BY <1>1, <3>1, HandlerSummary
      DEF EffectInv, DataTyped, RecordsTyped, Plain, Records, Sends, Begins, StatusGoes, SetStatus
  <2> QED
    BY <2>1
<1>2. SurfaceDeadLetters => intents'[i] = intents[i] \/ intents'[i] = "RECONCILIATION_REQUIRED"
  BY DEF SurfaceDeadLetters
<1>3. ASSUME NEW j \in Jobs, Reconcile(j)
      PROVE  intents'[i] = intents[i] \/ intents'[i] = "RECONCILIATION_REQUIRED"
  BY <1>3, EffectAssumption DEF Reconcile, SetStatus, EffectInv, DataTyped, RecordsTyped
<1>4. ASSUME NEW k \in Intents, Prepare(k) \/ Invalidate(k)
      PROVE  \/ intents'[i] = intents[i] \/ intents'[i] = "REMEDIATION_REQUIRED"
             \/ intents[i] = "ABSENT" /\ intents'[i] = "PREPARED"
  BY <1>4 DEF Prepare, Invalidate, SetStatus, EffectInv, DataTyped, RecordsTyped
<1> QED
  BY <1>1, <1>2, <1>3, <1>4, StatusConstants
  DEF EffectNext, WorkerStep, StartHandler, SettleJob, ForgetHandler, Clock, Commit,
      RequestCompensation, Sweep, Deliver, effectVars, vars

\* The slot of a handler that holds the fence is the only one its job depends on.
LEMMA SoleHolder ==
  ASSUME TypeOK, EffectInv, TokenInv, KnowledgeInv, NEW s \in Slots, HandlerStep(s), HoldsFence(s)
  PROVE  \E j \in Jobs : /\ IntentOf[j] = Intent(s) /\ Live(j)'
                         /\ \A t \in Slots : Holds(t, j)' => t = s
<1>1. PICK j \in Jobs : slots[s].job = j
  BY DEF HoldsFence
<1>2. jobs' = jobs /\ OthersSame(s)
  BY OthersStay DEF KnowledgeInv
<1>3. ASSUME NEW t \in Slots, t # s, Holds(t, j)' PROVE FALSE
  <2>1. slots'[t] = slots[t]
    BY <1>2, <1>3 DEF OthersSame, Same
  <2>2. slots[t].job = j /\ HoldsFence(t)
    BY <1>2, <1>3, <2>1 DEF Holds, HoldsFence, FenceCurrent
  <2> QED
    BY <1>1, <1>3, <2>2 DEF TokenInv, TokensUnique, HoldsFence, FenceCurrent
<1>4. Live(j)' /\ IntentOf[j] = Intent(s)
  BY <1>1, <1>2 DEF HoldsFence, FenceCurrent, Live, Final, Intent
<1> QED
  BY <1>3, <1>4

\* A slot that holds a fence after the step held it before, or was just given it.
LEMMA HeldBefore ==
  ASSUME TypeOK, TokenInv, [EffectNext]_vars, NEW j \in Jobs, NEW t \in Slots, Holds(t, j)',
         slots'[t].job = slots[t].job, slots'[t].token = slots[t].token
  PROVE  Holds(t, j)
  BY FenceNotRegained DEF Holds

LEMMA IdleHoldsNothing ==
  ASSUME NEW t \in Slots, slots'[t] = Idle, NEW j \in Jobs, Holds(t, j)'
  PROVE  FALSE
  BY QueueAssumption DEF Holds, HoldsFence, Idle

-----------------------------------------------------------------------------
\* Who watches a status goes on watching it.
LEMMA WatchesOn ==
  ASSUME TypeOK, EffectInv, TokenInv, KnowledgeInv, [EffectNext]_vars, NEW j \in Jobs,
         intents'[IntentOf[j]] = intents[IntentOf[j]], intents[IntentOf[j]] \in InDoubt,
         NEW t \in Slots, Holds(t, j)', Holds(t, j) => Watches(t)
  PROVE  Watches(t)'
<1> DEFINE i == IntentOf[j]
<1> USE DEF KnowledgeInv
<1>1. Intent(t)' = i
  BY DEF Holds, Intent
<1>2. CASE Same(t)
  <2>1. Holds(t, j)
    BY <1>2, HeldBefore DEF Same
  <2>2. Intent(t) = i /\ Watches(t)
    BY <2>1 DEF Holds, Intent
  <2> QED
    BY <1>1, <1>2, <2>2 DEF Same, Watches, Informed
<1>3. CASE Reset(t)
  <2>1. slots'[t] # Idle
    BY IdleHoldsNothing
  <2> QED
    BY <1>3, <2>1 DEF Reset, Watches, Informed
<1>4. ASSUME NEW m \in requests, NEW refused \in BOOLEAN, Deliver(m, refused) PROVE Watches(t)'
  <2>1. /\ slots' = slots /\ handler'[t].seen = handler[t].seen
        /\ handler'[t] = handler[t] \/ handler[t].at = "await"
    BY <1>4, DeliveryMoves
  <2>2. Holds(t, j)
    BY <2>1, HeldBefore
  <2>3. Intent(t) = i /\ Watches(t)
    BY <2>2 DEF Holds, Intent
  <2> QED
    BY <1>1, <2>1, <2>3 DEF Watches, Informed
<1>5. ASSUME HandlerStep(t), Begins(t) PROVE Watches(t)'
  <2>1. slots' = slots /\ handler'[t].seen = intents'[Intent(t)]
    BY <1>5, BeginFrame
  <2>2. slots[t].phase = "running" /\ Intent(t) = i
    BY <1>5, <2>1, HandlerRuns DEF Holds, Intent
  <2> QED
    BY <1>1, <2>1, <2>2 DEF Watches, Informed
<1>6. ASSUME HandlerStep(t), NEW seen, NEW next, Course(t, seen, next) PROVE Watches(t)'
  <2>1. /\ Proceed(t, seen, next) /\ next \in Goals /\ Comes(t, seen, next)
        /\ Leaves(t, seen, next) /\ (next = "succeeded" => Succeeds(t))
    BY <1>6 DEF Course
  <2>2. slots'[t].job = slots[t].job /\ slots'[t].token = slots[t].token
    BY <2>1, CourseFrame
  <2>3. Holds(t, j)
    BY <2>2, HeldBefore
  <2>4. Intent(t) = i /\ slots[t].phase = "running"
    BY <1>6, <2>3, HandlerRuns DEF Holds, Intent
  <2>5. handler[t].at = "load" \/ handler[t].seen = intents[i]
    BY <2>3, <2>4 DEF Watches, Informed
  <2>6. next # "succeeded"
    BY <2>1, <2>4, <2>5 DEF Succeeds, Comes
  <2>7. CASE next \in Outcomes
    BY <2>1, <2>6, <2>7, CourseFrame, StatusConstants DEF Watches
  <2>8. CASE next \notin Outcomes
    <3>1. next \notin {"retryable", "permanent"}
      BY <2>8, StatusConstants
    <3>2. seen = intents'[i]
      BY <2>1, <2>4, <2>5, <3>1 DEF Comes, Leaves
    <3>3. slots'[t].phase = "running" /\ handler'[t].seen = seen
      BY <2>1, <2>4, <2>8, CourseFrame
    <3> QED
      BY <1>1, <3>2, <3>3 DEF Watches, Informed
  <2> QED
    BY <2>7, <2>8
<1>7. ASSUME NEW s \in Slots, s # t, HandlerStep(s) PROVE Same(t)
  BY <1>7, OthersStay DEF OthersSame
<1>8. CASE HandlerStep(t)
  BY <1>5, <1>6, <1>8, HandlerCourse DEF Courses
<1> QED
  BY <1>2, <1>3, <1>4, <1>7, <1>8, EverySlotMove DEF SlotsMove, OthersSame

LEMMA DoubtsStep ==
  ASSUME TypeOK, EffectInv, TokenInv, KnowledgeInv, DoubtsAnswered, [EffectNext]_vars
  PROVE  DoubtsAnswered'
<1> SUFFICES ASSUME NEW i \in Intents, intents'[i] \in InDoubt
             PROVE  \E j \in Jobs : IntentOf[j] = i /\ Answers(j)'
  BY DEF DoubtsAnswered
<1>1. CASE intents'[i] = intents[i]
  <2>1. PICK j \in Jobs : IntentOf[j] = i /\ Answers(j)
    BY <1>1 DEF DoubtsAnswered
  <2>2. Live(j)'
    <3>1. ~Surfaced(i)
      BY <1>1, StatusConstants DEF Surfaced
    <3>2. \A s \in Slots : Holds(s, j) => slots[s].phase # "succeeded"
      BY <2>1 DEF Answers, Watches
    <3> QED
      BY <2>1, <3>1, <3>2, LiveOrSettled DEF Answers
  <2>3. \A t \in Slots : Holds(t, j)' => Watches(t)'
    BY <1>1, <2>1, WatchesOn DEF Answers
  <2> QED
    BY <2>1, <2>2, <2>3 DEF Answers
<1>2. CASE intents'[i] # intents[i]
  <2>1. PICK s \in Slots : HandlerStep(s) /\ Intent(s) = i
    BY <1>2, DoubtsByHandlers
  <2>2. Knows(s) /\ slots[s].phase = "running"
    BY <2>1, HandlerRuns DEF KnowledgeInv
  <2>3. HoldsFence(s) /\ Watches(s)'
    <3>1. CASE Begins(s)
      <4>1. slots' = slots /\ handler'[s].seen = intents'[i]
        BY <2>1, <3>1, BeginFrame
      <4> QED
        BY <2>1, <2>2, <3>1, <4>1, BeginHoldsFence DEF Watches, Informed, Intent
    <3>2. ASSUME NEW seen, NEW next, Course(s, seen, next) PROVE HoldsFence(s) /\ Watches(s)'
      <4>1. /\ Proceed(s, seen, next) /\ next \in Goals
            /\ Leaves(s, seen, next) /\ (next = "succeeded" => Succeeds(s))
        BY <3>2 DEF Course
      <4>2. HoldsFence(s) /\ intents'[i] = seen /\ next # "succeeded"
        BY <1>2, <2>1, <4>1 DEF Leaves, Succeeds
      <4>3. CASE next \in Outcomes
        BY <4>1, <4>2, <4>3, CourseFrame, StatusConstants DEF Watches
      <4>4. CASE next \notin Outcomes
        <5>1. slots'[s].job = slots[s].job /\ handler'[s].seen = seen
          BY <4>1, <4>4, CourseFrame
        <5>2. Intent(s)' = i
          BY <2>1, <5>1 DEF Intent
        <5> QED
          BY <2>2, <4>1, <4>2, <4>4, <5>1, <5>2, CourseFrame DEF Watches, Informed
      <4> QED
        BY <4>2, <4>3, <4>4
    <3> QED
      BY <2>1, <2>2, <3>1, <3>2, HandlerCourse DEF Courses
  <2>4. PICK j \in Jobs : /\ IntentOf[j] = i /\ Live(j)'
                          /\ \A t \in Slots : Holds(t, j)' => t = s
    BY <2>1, <2>3, SoleHolder
  <2>5. Answers(j)'
    BY <2>3, <2>4 DEF Answers
  <2> QED
    BY <2>4, <2>5
<1> QED
  BY <1>1, <1>2

-----------------------------------------------------------------------------
\* Who minds a write goes on minding it.
LEMMA MindsOn ==
  ASSUME TypeOK, EffectInv, EffectInv', OrderInv, TokenInv, KnowledgeInv, KnowledgeInv',
         ReceiptBacked', [EffectNext]_vars,
         NEW m \in requests \cup applied, AtLarge(m)', intents[m.intent] \notin Flagged,
         NEW j \in Jobs, IntentOf[j] = m.intent,
         NEW t \in Slots, Holds(t, j)', Holds(t, j) => Minds(t, m)
  PROVE  Minds(t, m)'
<1> DEFINE i == m.intent
<1> USE DEF KnowledgeInv
<1>1. Intent(t)' = i
  BY DEF Holds, Intent
<1>2. CASE Same(t)
  <2>1. Holds(t, j) /\ Operation(t)' = Operation(t)
    BY <1>2, HeldBefore DEF Same, Operation
  <2> QED
    BY <1>2, <2>1 DEF Same, Minds, Heeds
<1>3. CASE Reset(t)
  <2>1. slots'[t] # Idle
    BY IdleHoldsNothing
  <2> QED
    BY <1>3, <2>1 DEF Reset, Minds, Heeds
<1>4. ASSUME NEW n \in requests, NEW refused \in BOOLEAN, Deliver(n, refused) PROVE Minds(t, m)'
  <2>1. /\ slots' = slots /\ handler'[t].seen = handler[t].seen
        /\ handler'[t].token = handler[t].token
        /\ \/ handler'[t] = handler[t]
           \/ handler[t].at = "await" /\ handler'[t].at \in {"applied", "refused"}
    BY <1>4, DeliveryMoves
  <2>2. Holds(t, j) /\ Operation(t)' = Operation(t)
    BY <2>1, HeldBefore DEF Operation
  <2>3. CASE handler'[t] = handler[t]
    BY <1>2, <2>1, <2>3 DEF Same
  <2>4. CASE handler[t].at = "await" /\ handler'[t].at = "applied"
    BY <2>1, <2>2, <2>4 DEF Minds, Heeds
  <2>5. CASE handler[t].at = "await" /\ handler'[t].at = "refused"
    <3>1. slots[t].phase = "running"
      BY <2>5 DEF EffectInv, HandlerInv, HandlersRun, Runs
    <3>2. Operation(t) = "execute" => m.token <= handler[t].token
      BY <2>2, <2>5, <3>1 DEF Minds, Heeds
    <3>3. Operation(t) = "execute" => handler[t].token < m.token
      BY <1>1, <2>1, <2>2, <2>5 DEF Cleared, AtLarge
    <3>4. m.token \in Nat /\ handler[t].token \in Nat
      BY WriteTyped DEF EffectInv, HandlerInv, HandlersTyped, Handler
    <3>5. Operation(t) \in Operations
      BY <3>1, OfSlot DEF EffectInv, HandlerInv
    <3>6. Operation(t)' = "compensate"
      BY <2>2, <3>2, <3>3, <3>4, <3>5 DEF Operations
    <3> QED
      BY <2>5, <3>6, <3>1, <2>1 DEF Minds, Heeds
  <2> QED
    BY <2>1, <2>3, <2>4, <2>5
<1>5. ASSUME HandlerStep(t), Begins(t) PROVE Minds(t, m)'
  <2>1. /\ slots' = slots /\ handler'[t].at = "send"
        /\ handler'[t].token = fences[ResourceOf[Intent(t)]] + 1
    BY <1>5, BeginFrame
  <2>2. Intent(t) = i
    BY <1>1, <2>1 DEF Intent
  <2>3. m.token <= handler'[t].token
    BY <2>1, <2>2, WriteTyped DEF OrderInv, WritesNumbered, EffectInv
  <2>4. slots[t].phase = "running"
    BY <1>5, HandlerRuns
  <2> QED
    BY <2>1, <2>3, <2>4 DEF Minds, Heeds
<1>6. ASSUME HandlerStep(t), NEW seen, NEW next, Course(t, seen, next) PROVE Minds(t, m)'
  <2>1. /\ Proceed(t, seen, next) /\ next \in Goals /\ Comes(t, seen, next)
        /\ Leaves(t, seen, next) /\ (next = "succeeded" => Succeeds(t))
    BY <1>6 DEF Course
  <2>2. slots'[t].job = slots[t].job /\ slots'[t].token = slots[t].token
    BY <2>1, CourseFrame
  <2>3. Holds(t, j) /\ Operation(t)' = Operation(t)
    BY <2>2, HeldBefore DEF Operation
  <2>4. Intent(t) = i /\ slots[t].phase = "running" /\ Operation(t) \in Operations
    BY <1>6, <2>3, HandlerRuns, OfSlot DEF Holds, Intent, EffectInv, HandlerInv
  <2>5. Heeds(t, m)
    BY <2>3, <2>4 DEF Minds
  <2>6. intents'[i] \notin Flagged /\ "EXECUTED" \notin receipts'[i] /\ i \in Intents
    BY WriteTyped DEF AtLarge, EffectInv
  <2>7. next # "succeeded"
    BY <2>1, <2>4, <2>5, <2>6, StatusConstants DEF Succeeds, Heeds
  <2>8. CASE next \in Outcomes
    BY <2>1, <2>7, <2>8, CourseFrame, StatusConstants DEF Minds
  <2>9. CASE next \notin Outcomes
    <3>1. /\ slots'[t].phase = "running" /\ handler'[t].at = next /\ handler'[t].seen = seen
          /\ handler'[t].token = handler[t].token
      BY <2>1, <2>4, <2>9, CourseFrame
    <3>2. intents'[i] \in Unsettled \cup {"ABSENT"}
      <4>1. intents'[i] \in EffectStatuses
        BY <2>6 DEF EffectInv, DataTyped, RecordsTyped
      <4>2. intents'[i] \notin {"COMMITTED", "IRREVERSIBLE_COMMITTED"}
        BY <2>6 DEF ReceiptBacked
      <4> QED
        BY <2>6, <4>1, <4>2, StatusNames, StatusConstants
    <3>3. CASE next \in {"remediate", "notFound", "begin", "ambiguous", "persist", "unknown"}
      BY <3>1, <3>3 DEF Minds, Heeds
    <3>4. CASE next = "route"
      <4>1. seen = intents'[i]
        BY <2>1, <2>4, <3>4 DEF Comes
      <4> QED
        BY <3>1, <3>2, <3>4, <4>1 DEF Minds, Heeds
    <3>5. CASE next = "mark"
      <4>1. handler[t].at = "route" /\ seen # "ABSENT"
        BY <2>1, <3>5 DEF Comes
      <4>2. handler[t].seen \in Unsettled \cup {"ABSENT"}
        BY <2>5, <4>1 DEF Heeds
      <4>3. seen \in Unsettled
        BY <2>1, <2>4, <3>2, <4>1, <4>2 DEF Leaves
      <4> QED
        BY <3>1, <3>5, <4>3 DEF Minds, Heeds
    <3>6. CASE next = "query"
      <4>1. intents'[i] # "RECONCILIATION_REQUIRED"
        BY <2>6, StatusConstants
      <4>2. handler[t].at = "mark" /\ handler[t].seen \notin Unsettled
        BY <2>1, <2>4, <3>6, <4>1 DEF Comes
      <4> QED
        BY <2>5, <4>2 DEF Heeds
    <3>7. CASE next = "await"
      <4>1. handler[t].at = "send"
        BY <2>1, <3>7 DEF Comes
      <4>2. Operation(t) = "execute" => m.token <= handler[t].token
        BY <2>5, <4>1 DEF Heeds
      <4> QED
        BY <2>3, <3>1, <3>7, <4>2 DEF Minds, Heeds
    <3>8. CASE next = "refuse"
      <4>1. handler[t].at = "refused"
        BY <2>1, <3>8 DEF Comes
      <4>2. Operation(t) = "compensate"
        BY <2>5, <4>1 DEF Heeds
      <4> QED
        BY <2>3, <3>1, <3>8, <4>2 DEF Minds, Heeds
    <3>9. CASE next = "finalize"
      <4>1. Receipt(Operation(t)) \in receipts'[i]
        BY <2>1, <2>4, <3>9 DEF Comes
      <4>2. Operation(t) = "compensate"
        BY <2>4, <2>6, <4>1 DEF Operations, Receipt
      <4> QED
        BY <2>3, <3>1, <3>9, <4>2 DEF Minds, Heeds
    <3> QED
      BY <2>1, <2>9, <3>3, <3>4, <3>5, <3>6, <3>7, <3>8, <3>9, StatusConstants
  <2> QED
    BY <2>8, <2>9
<1>7. ASSUME NEW s \in Slots, s # t, HandlerStep(s) PROVE Same(t)
  BY <1>7, OthersStay DEF OthersSame
<1>8. CASE HandlerStep(t)
  BY <1>5, <1>6, <1>8, HandlerCourse DEF Courses
<1> QED
  BY <1>2, <1>3, <1>4, <1>7, <1>8, EverySlotMove DEF SlotsMove, OthersSame

LEMMA MindedStep ==
  ASSUME TypeOK, EffectInv, EffectInv', OrderInv, TokenInv, KnowledgeInv, KnowledgeInv',
         ReceiptBacked', WritesMinded, [EffectNext]_vars
  PROVE  WritesMinded'
<1> SUFFICES ASSUME NEW m \in requests' \cup applied', AtLarge(m)'
             PROVE  \E j \in Jobs : IntentOf[j] = m.intent /\ Cares(j, m)'
  BY DEF WritesMinded
<1> DEFINE i == m.intent
<1>1. /\ m.op = "execute" /\ "EXECUTED" \notin receipts'[i] /\ intents'[i] \notin Flagged
      /\ i \in Intents
  <2>1. m \in Writes
    BY DEF EffectInv, DataTyped, WritesTyped
  <2> QED
    BY <2>1 DEF AtLarge, Writes
\* The job of a handler that has just sent it, or touched the status, minds it.
<1>2. ASSUME NEW s \in Slots, HandlerStep(s), HoldsFence(s), Intent(s) = i, Minds(s, m)'
      PROVE  \E j \in Jobs : IntentOf[j] = i /\ Cares(j, m)'
  <2>1. PICK j \in Jobs : /\ IntentOf[j] = i /\ Live(j)'
                          /\ \A t \in Slots : Holds(t, j)' => t = s
    BY <1>2, SoleHolder
  <2>2. Cares(j, m)'
    BY <1>2, <2>1 DEF Cares
  <2> QED
    BY <2>1, <2>2
<1>3. ASSUME NEW s \in Slots, NewWrite(s, m)
      PROVE  \E j \in Jobs : IntentOf[j] = i /\ Cares(j, m)'
  <2>1. /\ HandlerStep(s) /\ slots[s].phase = "running" /\ HoldsFence(s)
        /\ Proceed(s, handler[s].seen, "await")
        /\ i = Intent(s) /\ m.token = handler[s].token
    BY <1>3, OnlySendSends DEF NewWrite, Running
  <2>2. /\ slots'[s].phase = "running" /\ handler'[s].at = "await"
        /\ handler'[s].token = handler[s].token /\ handler[s].token \in Nat
    BY <2>1, CourseFrame, StatusConstants DEF EffectInv, HandlerInv, HandlersTyped, Handler
  <2>3. Minds(s, m)'
    BY <2>1, <2>2 DEF Minds, Heeds
  <2> QED
    BY <1>2, <2>1, <2>3
<1>4. CASE m \in requests \cup applied /\ intents[i] \notin Flagged
  <2>1. "EXECUTED" \notin receipts[i]
    BY <1>1, NothingIsErased DEF Grows, EffectInv, DataTyped
  <2>2. PICK j \in Jobs : IntentOf[j] = i /\ Cares(j, m)
    BY <1>1, <1>4, <2>1 DEF WritesMinded, AtLarge
  <2>3. Live(j)'
    <3>1. ASSUME Surfaced(i) PROVE FALSE
      <4>1. intents[i] \notin Unsettled /\ intents'[i] = intents[i]
        BY <1>1, <3>1, StatusConstants DEF Surfaced
      <4>2. intents'[i] \notin {"COMMITTED", "IRREVERSIBLE_COMMITTED"}
        BY <1>1 DEF ReceiptBacked
      <4>3. intents[i] # "ABSENT"
        BY <1>4 DEF KnowledgeInv, WritesPrepared
      <4>4. intents[i] \in EffectStatuses
        BY <1>1 DEF EffectInv, DataTyped, RecordsTyped
      <4> QED
        BY <1>4, <4>1, <4>2, <4>3, <4>4, StatusNames, StatusConstants
    <3>2. \A s \in Slots : Holds(s, j) => slots[s].phase # "succeeded"
      BY <2>2 DEF Cares, Minds
    <3> QED
      BY <2>2, <3>1, <3>2, LiveOrSettled DEF Cares
  <2>4. \A t \in Slots : Holds(t, j)' => Minds(t, m)'
    BY <1>4, <2>2, MindsOn DEF Cares
  <2> QED
    BY <2>2, <2>3, <2>4 DEF Cares
<1>5. CASE m \in requests \cup applied /\ intents[i] \in Flagged
  <2>1. PICK s \in Slots : HandlerStep(s) /\ Intent(s) = i
    BY <1>1, <1>5, DoubtsByHandlers
  <2>2. Knows(s) /\ slots[s].phase = "running" /\ Operation(s) \in Operations
    BY <2>1, HandlerRuns, OfSlot DEF KnowledgeInv, EffectInv, HandlerInv
  <2>3. HoldsFence(s) /\ Minds(s, m)'
    <3>1. CASE Begins(s)
      <4>1. /\ slots' = slots /\ handler'[s].at = "send"
            /\ handler'[s].token = fences[ResourceOf[i]] + 1
        BY <2>1, <3>1, BeginFrame
      <4>2. m.token <= handler'[s].token
        BY <1>5, <4>1, WriteTyped DEF OrderInv, WritesNumbered, EffectInv
      <4> QED
        BY <2>1, <2>2, <3>1, <4>1, <4>2, BeginHoldsFence DEF Minds, Heeds
    <3>2. ASSUME NEW seen, NEW next, Course(s, seen, next) PROVE HoldsFence(s) /\ Minds(s, m)'
      <4>1. /\ Proceed(s, seen, next) /\ next \in Goals
            /\ Leaves(s, seen, next) /\ Comes(s, seen, next)
        BY <3>2 DEF Course
      <4>2. HoldsFence(s) /\ next \in {"retryable", "finalize"}
        BY <1>1, <1>5, <2>1, <4>1 DEF Leaves
      <4>3. CASE next = "retryable"
        BY <4>1, <4>2, <4>3, CourseFrame, StatusConstants DEF Minds
      <4>4. CASE next = "finalize"
        <5>1. Operation(s) = "compensate"
          BY <1>1, <2>1, <2>2, <4>1, <4>4 DEF Comes, Operations, Receipt
        <5>2. slots'[s].job = slots[s].job /\ handler'[s].at = "finalize"
          BY <4>1, <4>4, CourseFrame, StatusConstants
        <5>3. Operation(s)' = "compensate"
          BY <5>1, <5>2 DEF Operation
        <5>4. slots'[s].phase = "running"
          BY <2>2, <4>1, <4>4, CourseFrame, StatusConstants
        <5> QED
          BY <4>2, <5>2, <5>3, <5>4 DEF Minds, Heeds
      <4> QED
        BY <4>2, <4>3, <4>4
    <3> QED
      BY <2>1, <2>2, <3>1, <3>2, HandlerCourse DEF Courses
  <2> QED
    BY <1>2, <2>1, <2>3
<1> QED
  BY <1>3, <1>4, <1>5, NewWrites

-----------------------------------------------------------------------------
OwnerInv == KnowledgeInv /\ DoubtsAnswered /\ WritesMinded

LEMMA EffectTokens == EffectSafetySpec => []TokenInv
  BY QueueUnderEffects, TokenInvHolds, PTL

LEMMA OwnerInvHolds == EffectSafetySpec => []OwnerInv
<1>1. EffectInit => OwnerInv
  <2> SUFFICES ASSUME EffectInit PROVE OwnerInv
    OBVIOUS
  <2>1. /\ requests = {} /\ applied = {} /\ \A s \in Slots : handler[s] = NoHandler
        /\ \A i \in Intents : intents[i] = "ABSENT"
    BY DEF EffectInit
  <2>2. KnowledgeInv
    BY <2>1 DEF KnowledgeInv, WritesPrepared, Knows, Alone, Cleared, NoHandler
  <2>3. DoubtsAnswered /\ WritesMinded
    BY <2>1, StatusConstants DEF DoubtsAnswered, WritesMinded
  <2> QED
    BY <2>2, <2>3 DEF OwnerInv
<1>2. /\ TypeOK /\ EffectInv /\ EffectInv' /\ TokenInv /\ OrderInv /\ ReceiptBacked'
      /\ OwnerInv /\ [EffectNext]_vars
      => OwnerInv'
  BY KnowledgeStep, DoubtsStep, MindedStep DEF OwnerInv
<1> QED
  BY <1>1, <1>2, EffectInvHolds, OrderInvHolds, EffectTokens, TerminalHasReceipt, PTL
  DEF EffectSafetySpec

\* Whatever crashes, timeouts, other jobs and invalidations do in between, an effect
\* that is under way has a job that will look at it again before it calls itself done.
THEOREM DoubtsAreOwned == EffectSafetySpec => []InDoubtIsOwned
<1>1. OwnerInv => InDoubtIsOwned
  BY DEF OwnerInv, DoubtsAnswered, InDoubt, Answers, Live, InDoubtIsOwned
<1> QED
  BY <1>1, OwnerInvHolds, PTL

\* Once no job is left, an execution that took effect and has no receipt is flagged:
\* a write on the wire or out there is minded by a job that cannot call itself done
\* before it has recorded or flagged it, however often the status went round.
THEOREM NoExecutionForgotten == EffectSafetySpec => []ExecutionNotForgotten
<1>1. OwnerInv => ExecutionNotForgotten
  <2> SUFFICES ASSUME OwnerInv, NEW i \in Intents, Unattended(i), Applied(i, "execute"),
                      "EXECUTED" \notin receipts[i], intents[i] \notin Flagged
               PROVE  FALSE
    BY StatusConstants DEF ExecutionNotForgotten
  <2>1. PICK m \in applied : m.intent = i /\ m.op = "execute"
    BY DEF Applied
  <2>2. PICK j \in Jobs : IntentOf[j] = i /\ Cares(j, m)
    BY <2>1 DEF OwnerInv, WritesMinded, AtLarge
  <2> QED
    BY <2>2 DEF Cares, Live, Unattended
<1> QED
  BY <1>1, OwnerInvHolds, PTL
===============================================================================
