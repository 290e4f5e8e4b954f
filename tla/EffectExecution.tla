---------------------------- MODULE EffectExecution ----------------------------
(***************************************************************************)
(* External effects: the effect jobs that the slots of the durable queue   *)
(* run (EffectRuntime.reconcileEffect and runCompensation over             *)
(* PostgresEffectStore), the API calls that create and disturb them, and   *)
(* the external system a connector writes to.                              *)
(*                                                                         *)
(* A handler is a sequence of database transactions and connector calls    *)
(* with an await between any two of them: one action each.  What a handler *)
(* knows across an await is its copy of the intent (seen, token); the      *)
(* rows may have moved on.  Executing and compensating go through the same *)
(* stages and differ in the tables below.                                  *)
(*                                                                         *)
(* A handler whose job timed out or lost its fence keeps running in the    *)
(* background, but every transaction of it is refused by the job fence;    *)
(* what it may still have in flight to the external system is covered by   *)
(* requests, which may arrive at any later time, more than once, or never. *)
(***************************************************************************)
EXTENDS JobQueue, EffectStatus

CONSTANTS
  Intents,       \* effect intents
  Resources,     \* resource keys
  ResourceOf,    \* the resource an intent writes to
  IntentOf,      \* payload.intentId of a job
  OriginOf,      \* which call enqueues a job: "commit", "reconcile" or "compensation"
  Irreversible,  \* the intents of reversibility R3
  Compensable    \* the intents whose connector compensates and that name a handler

ASSUME EffectAssumption ==
  /\ ResourceOf \in [Intents -> Resources]
  /\ IntentOf \in [Jobs -> Intents]
  /\ OriginOf \in [Jobs -> {"commit", "reconcile", "compensation"}]
  /\ Irreversible \subseteq Intents
  /\ Compensable \subseteq Intents

VARIABLES
  intents,    \* effect_intents: the status (no guard reads its copy of the token)
  receipts,   \* effect_receipts: the outcomes recorded for each intent
  fences,     \* resource_fences: the current token of each resource
  handler,    \* what the handler in each slot is about to do, and what it knows
  requests,   \* external: the writes on the wire
  applied     \* external: the writes that took effect, each with its token

externalVars == <<requests, applied>>
effectVars   == <<intents, receipts, fences>>
vars         == <<jobs, slots, handler, intents, receipts, fences, requests, applied>>

-----------------------------------------------------------------------------
(* Operators named ...Unchecked, ...First, ...Kept and the like are faulty *)
(* variants of the definition that follows them, as in JobQueue.           *)

Operations == {"execute", "compensate"}
Receipts   == {"EXECUTED", "COMPENSATED"}

Operation(s) == IF OriginOf[slots[s].job] = "compensation" THEN "compensate" ELSE "execute"
Intent(s)    == IntentOf[slots[s].job]

\* terminalStatus
Terminal(i) == IF i \in Irreversible THEN "IRREVERSIBLE_COMMITTED" ELSE "COMMITTED"

\* What the two operations call their stages.
Pending(op) == IF op = "execute" THEN "EXECUTING" ELSE "COMPENSATION_PENDING"
Refusal(op) == IF op = "execute" THEN "FAILED" ELSE "REMEDIATION_REQUIRED"
Done(op, i) == IF op = "execute" THEN Terminal(i) ELSE "COMPENSATED"
Receipt(op) == IF op = "execute" THEN "EXECUTED" ELSE "COMPENSATED"

Stages == {"none", "load", "route", "remediate", "mark", "query", "notFound", "begin", "send",
           "await", "applied", "refused", "refuse", "ambiguous", "persist", "finalize", "unknown"}

Writes  == [intent : Intents, op : Operations, token : Nat]
Handler == [at : Stages, seen : EffectStatuses, token : Nat, trying : BOOLEAN]
NoHandler == [at |-> "none", seen |-> "ABSENT", token |-> 0, trying |-> FALSE]

Running(s, at) == slots[s].phase = "running" /\ handler[s].at = at

\* assertExternalFence, second half: no later operation took the resource.  (The
\* lease of the resource may also run out, which ends the operation as unknown:
\* Interrupt has that step.)
ResourceCurrent(s) == handler[s].token = fences[ResourceOf[Intent(s)]]

SetStatus(i, status) == intents' = [intents EXCEPT ![i] = status]

-----------------------------------------------------------------------------
(* How a handler goes on: to another stage, or out with an outcome.        *)
Proceed(s, seen, next) ==
  /\ UNCHANGED jobs
  /\ \/ /\ next \in Outcomes
        /\ HandlerEnds(s, next)
        /\ handler' = [handler EXCEPT ![s] = NoHandler]
     \/ /\ next \in Stages
        /\ UNCHANGED slots
        /\ handler' = [handler EXCEPT ![s].at = next, ![s].seen = seen]

\* An error inside the try block around an operation of one's own means that
\* the external outcome is unknown.  The failure of a compensation is handled
\* by a promise returned without await, outside of its try block.
Caught(s) ==
  /\ handler[s].trying
  /\ handler[s].at # "unknown"
  /\ handler[s].at \in {"refuse", "ambiguous"} => Operation(s) = "execute"

Throw(s, outcome) ==
  Proceed(s, handler[s].seen, IF Caught(s) THEN "unknown" ELSE outcome)

\* #transition: a compare-and-set on the status the handler has seen, under
\* the fence of its job.  The fencing token of the resource is not compared.
Transition(s, to, next) ==
  LET seen == handler[s].seen
  IN  \/ /\ seen = to
         /\ Proceed(s, to, next)
         /\ UNCHANGED intents
      \/ /\ seen # to /\ ~Legal(seen, to)
         /\ Throw(s, "permanent")
         /\ UNCHANGED intents
      \/ /\ seen # to /\ Legal(seen, to)
         /\ HoldsFence(s)
         /\ intents[Intent(s)] = seen
         /\ SetStatus(Intent(s), to)
         /\ Proceed(s, to, next)
      \/ /\ seen # to /\ Legal(seen, to)
         /\ HoldsFence(s)
         /\ intents[Intent(s)] # seen
         /\ Throw(s, "retryable")
         /\ UNCHANGED intents

-----------------------------------------------------------------------------
\* getIntent
Load(s) ==
  /\ Running(s, "load")
  /\ Proceed(s, intents[Intent(s)], "route")
  /\ UNCHANGED <<effectVars, externalVars>>

\* The registered connector no longer fits the capabilities the intent was
\* prepared with.
ConnectorUnusable(s) ==
  /\ Running(s, "route")
  /\ IF handler[s].seen \in {"PREPARED", "EXECUTING", "FAILED", "COMPENSATION_PENDING"}
       THEN Transition(s, "RECONCILIATION_REQUIRED", "permanent")
       ELSE Proceed(s, handler[s].seen, "permanent") /\ UNCHANGED intents
  /\ UNCHANGED <<receipts, fences, externalVars>>

\* The branches of reconcileEffect and runCompensation: a receipt decides
\* before the status does.
RouteExecute(i, seen) ==
  IF "EXECUTED" \in receipts[i] THEN "finalize"
  ELSE CASE seen \in {"COMMITTED", "IRREVERSIBLE_COMMITTED", "COMPENSATED",
                      "REMEDIATION_REQUIRED"}                    -> "succeeded"
         [] seen \in {"EXECUTING", "RECONCILIATION_REQUIRED"}    -> "mark"
         [] seen \in {"PREPARED", "FAILED"}                      -> "begin"
         [] seen \in {"ABSENT", "COMPENSATION_PENDING"}          -> "permanent"

RouteCompensate(i, seen) ==
  IF i \notin Compensable
    THEN IF seen = "REMEDIATION_REQUIRED" THEN "succeeded" ELSE "remediate"
  ELSE IF "COMPENSATED" \in receipts[i] THEN "finalize"
  ELSE CASE seen = "COMPENSATED"                                 -> "succeeded"
         [] seen \in {"COMMITTED", "REMEDIATION_REQUIRED"}       -> "begin"
         [] seen \in {"COMPENSATION_PENDING",
                      "RECONCILIATION_REQUIRED"}                 -> "mark"
         [] seen \in {"ABSENT", "PREPARED", "EXECUTING", "FAILED",
                      "IRREVERSIBLE_COMMITTED"}                  -> "permanent"

Route(s) ==
  /\ Running(s, "route")
  /\ Proceed(s, handler[s].seen,
             IF Operation(s) = "execute" THEN RouteExecute(Intent(s), handler[s].seen)
                                         ELSE RouteCompensate(Intent(s), handler[s].seen))
  /\ UNCHANGED <<effectVars, externalVars>>

\* The connector cannot compensate: a human has to.
Remediate(s) ==
  /\ Running(s, "remediate")
  /\ Transition(s, "REMEDIATION_REQUIRED", "succeeded")
  /\ UNCHANGED <<receipts, fences, externalVars>>

\* An unknown outcome is looked up, and is marked as unknown before that.
Mark(s) ==
  /\ Running(s, "mark")
  /\ Transition(s, "RECONCILIATION_REQUIRED", "query")
  /\ UNCHANGED <<receipts, fences, externalVars>>

Applied(i, op) == \E m \in applied : m.intent = i /\ m.op = op

\* What the external system has under the idempotency key of the intent: FOUND,
\* or definitively NOT_FOUND.
LookupOperationBlind(i, op) ==
  IF Applied(i, "execute") THEN "persist"
  ELSE IF op = "execute" THEN "notFound" ELSE "begin"

Lookup(i, op) ==
  IF Applied(i, op) THEN "persist"
  ELSE IF op = "execute" THEN "notFound" ELSE "begin"

\* connector.reconcile and reconcileCompensation, which may also be unable to
\* tell (the job is done, the intent stays flagged) or fail.
Query(s) ==
  /\ Running(s, "query")
  /\ \E next \in {Lookup(Intent(s), Operation(s)), "succeeded", "retryable"} :
       Proceed(s, handler[s].seen, next)
  /\ UNCHANGED <<effectVars, externalVars>>

\* Definitively not executed: FAILED, and the retry executes it.
NotFound(s) ==
  /\ Running(s, "notFound")
  /\ Transition(s, "FAILED", "retryable")
  /\ UNCHANGED <<receipts, fences, externalVars>>

\* An R3 effect that nobody approved is not executed.
Unapproved(s) ==
  /\ Running(s, "begin")
  /\ Operation(s) = "execute" /\ Intent(s) \in Irreversible
  /\ Transition(s, "RECONCILIATION_REQUIRED", "permanent")
  /\ UNCHANGED <<receipts, fences, externalVars>>

\* resourceFences.acquire
NextTokenKept(i) == IF fences[ResourceOf[i]] = 0 THEN 1 ELSE fences[ResourceOf[i]]

NextToken(i) == fences[ResourceOf[i]] + 1

\* beginExternalOperation: the status and the next token of the resource in
\* one transaction.
Begin(s) ==
  LET i == Intent(s)
      token == NextToken(i)
  IN  /\ Running(s, "begin")
      /\ HoldsFence(s)
      /\ \/ /\ intents[i] = handler[s].seen
            /\ SetStatus(i, Pending(Operation(s)))
            /\ fences' = [fences EXCEPT ![ResourceOf[i]] = token]
            /\ handler' = [handler EXCEPT ![s] = [at |-> "send", seen |-> Pending(Operation(s)),
                                                  token |-> token, trying |-> TRUE]]
            /\ UNCHANGED <<jobs, slots>>
         \/ /\ intents[i] # handler[s].seen
            /\ Throw(s, "retryable")
            /\ UNCHANGED <<intents, fences>>
      /\ UNCHANGED <<receipts, externalVars>>

\* connector.execute and compensate, which check the fences before they write.
Send(s) ==
  /\ Running(s, "send")
  /\ HoldsFence(s)
  /\ \/ /\ ResourceCurrent(s)
        /\ requests' = requests \cup {[intent |-> Intent(s), op |-> Operation(s),
                                       token |-> handler[s].token]}
        /\ Proceed(s, handler[s].seen, "await")
     \/ /\ ~ResourceCurrent(s)
        /\ Proceed(s, handler[s].seen, "unknown")
        /\ UNCHANGED requests
  /\ UNCHANGED <<effectVars, applied>>

\* The connector answers UNKNOWN, or throws.
NoAnswer(s) ==
  /\ Running(s, "await")
  /\ \/ Proceed(s, handler[s].seen, "unknown")
     \/ HoldsFence(s) /\ ResourceCurrent(s) /\ Proceed(s, handler[s].seen, "ambiguous")
  /\ UNCHANGED <<effectVars, externalVars>>

AmbiguousAsFailure(s) ==
  /\ Running(s, "ambiguous")
  /\ Transition(s, Refusal(Operation(s)), "succeeded")
  /\ UNCHANGED <<receipts, fences, externalVars>>

Ambiguous(s) ==
  /\ Running(s, "ambiguous")
  /\ Transition(s, "RECONCILIATION_REQUIRED", "succeeded")
  /\ UNCHANGED <<receipts, fences, externalVars>>

\* What follows an answer: the receipt before the status.
AfterAnswerStatusFirst(answer) == IF answer = "applied" THEN "finalize" ELSE "refuse"

AfterAnswer(answer) == IF answer = "applied" THEN "persist" ELSE "refuse"

\* An answer counts only if both fences are still current.
Answered(s) ==
  /\ \E answer \in {"applied", "refused"} : Running(s, answer)
  /\ HoldsFence(s)
  /\ Proceed(s, handler[s].seen,
             IF ResourceCurrent(s) THEN AfterAnswer(handler[s].at) ELSE "unknown")
  /\ UNCHANGED <<effectVars, externalVars>>

\* DEFINITIVE_FAILURE, which the connector may call retryable.
Refuse(s) ==
  /\ Running(s, "refuse")
  /\ \E outcome \in {"succeeded", "retryable"} :
       Transition(s, Refusal(Operation(s)), outcome)
  /\ UNCHANGED <<receipts, fences, externalVars>>

\* appendReceipt.  The id is derived from the external transaction; a draft
\* that differs from the receipt already stored (a committedAt of its own)
\* is refused, the same draft is accepted again.
Persist(s) ==
  LET i == Intent(s)
      receipt == Receipt(Operation(s))
  IN  /\ Running(s, "persist")
      /\ HoldsFence(s)
      /\ \/ /\ receipts' = [receipts EXCEPT ![i] = @ \cup {receipt}]
            /\ Proceed(s, handler[s].seen, "finalize")
         \/ /\ receipt \in receipts[i]
            /\ Throw(s, "permanent")
            /\ UNCHANGED receipts
      /\ UNCHANGED <<intents, fences, externalVars>>

\* finalizeExecutionReceipt and finalizeCompensationReceipt, one transition at
\* a time: directly to the terminal status where that is legal, or by way of
\* the status it is legal from.
Toward(op, i, seen) ==
  IF op = "execute"
    THEN IF Legal(seen, Terminal(i)) THEN Terminal(i) ELSE "RECONCILIATION_REQUIRED"
    ELSE IF seen = "RECONCILIATION_REQUIRED" THEN "COMPENSATION_PENDING" ELSE "COMPENSATED"

Finalize(s) ==
  LET i == Intent(s)
      op == Operation(s)
  IN  /\ Running(s, "finalize")
      /\ IF handler[s].seen = Done(op, i)
           THEN Proceed(s, handler[s].seen, "succeeded") /\ UNCHANGED intents
           ELSE Transition(s, Toward(op, i, handler[s].seen), "finalize")
      /\ UNCHANGED <<receipts, fences, externalVars>>

\* The catch blocks of executePrepared and compensate.
Unknown(s) ==
  /\ Running(s, "unknown")
  /\ Transition(s, "RECONCILIATION_REQUIRED", "retryable")
  /\ UNCHANGED <<receipts, fences, externalVars>>

\* The timeout of the job, or a database that does not answer.  Inside the try
\* block a database error is an unknown outcome too.
Interrupt(s) ==
  /\ handler[s].at # "none"
  /\ slots[s].phase = "running"
  /\ \/ \E outcome \in {"retryable", "permanent"} : Proceed(s, handler[s].seen, outcome)
     \/ Caught(s) /\ Proceed(s, handler[s].seen, "unknown")
  /\ UNCHANGED <<effectVars, externalVars>>

HandlerStep(s) ==
  \/ Load(s) \/ Route(s) \/ ConnectorUnusable(s) \/ Remediate(s)
  \/ Mark(s) \/ Query(s) \/ NotFound(s)
  \/ Unapproved(s) \/ Begin(s) \/ Send(s) \/ NoAnswer(s) \/ Answered(s)
  \/ Ambiguous(s) \/ Refuse(s) \/ Persist(s) \/ Finalize(s) \/ Unknown(s)
  \/ Interrupt(s)

-----------------------------------------------------------------------------
(* The queue around the handlers.                                          *)

\* The statuses markDeadLetterEffectForReconciliation does not leave alone.
UnsettledExecutionOnly == {"EXECUTING", "FAILED"}

Unsettled == {"PREPARED", "EXECUTING", "FAILED", "COMPENSATION_PENDING"}

\* markDeadLetterEffectForReconciliation, in the transaction that turns a job
\* into a dead letter.
SurfaceDeadLetters ==
  LET died == {j \in Jobs : jobs'[j].status = "DEAD_LETTER" /\ jobs[j].status # "DEAD_LETTER"}
      Surfaced(i) ==
        /\ \E j \in died : IntentOf[j] = i
        /\ intents[i] \in Unsettled
  IN  intents' = [i \in Intents |-> IF Surfaced(i) THEN "RECONCILIATION_REQUIRED"
                                                  ELSE intents[i]]

StartHandler(s, j) ==
  /\ Claim(s, j)
  /\ handler' = [handler EXCEPT ![s] = [NoHandler EXCEPT !.at = "load"]]
  /\ UNCHANGED <<effectVars, externalVars>>

ForgetHandler(s, Stop) ==
  /\ Stop
  /\ handler' = [handler EXCEPT ![s] = NoHandler]
  /\ UNCHANGED <<effectVars, externalVars>>

SettleJob(s) ==
  /\ Complete(s) \/ CompleteThrows(s) \/ FailRetryable(s) \/ FailPermanent(s)
  /\ SurfaceDeadLetters
  /\ UNCHANGED <<handler, receipts, fences, externalVars>>

Sweep(S) ==
  /\ RecoverStalled(S)
  /\ SurfaceDeadLetters
  /\ UNCHANGED <<handler, receipts, fences, externalVars>>

Clock(j) ==
  /\ BecomeDue(j) \/ LeaseExpires(j)
  /\ UNCHANGED <<handler, effectVars, externalVars>>

-----------------------------------------------------------------------------
(* The API, and what invalidation does to an effect.                       *)

\* prepare: the intent takes the next token of its resource.
Prepare(i) ==
  /\ intents[i] = "ABSENT"
  /\ SetStatus(i, "PREPARED")
  /\ fences' = [fences EXCEPT ![ResourceOf[i]] = NextToken(i)]
  /\ UNCHANGED <<jobs, slots, handler, receipts, externalVars>>

\* commit: the job of a fixed key, so a second commit finds the first one's.
Commit(j) ==
  /\ OriginOf[j] = "commit"
  /\ intents[IntentOf[j]] \in {"PREPARED", "FAILED"}
  /\ Enqueue(j)
  /\ UNCHANGED <<handler, effectVars, externalVars>>

\* reconcile: a job per request.
Reconcile(j) ==
  LET status == intents[IntentOf[j]]
  IN  /\ OriginOf[j] = "reconcile"
      /\ \/ status = "RECONCILIATION_REQUIRED"
         \/ Legal(status, "RECONCILIATION_REQUIRED")
      /\ Enqueue(j)
      /\ SetStatus(IntentOf[j], "RECONCILIATION_REQUIRED")
      /\ UNCHANGED <<handler, receipts, fences, externalVars>>

\* Nothing in the code enqueues run_compensation: an operator does, for an
\* effect that is believed to have happened.
RequestCompensation(j) ==
  /\ OriginOf[j] = "compensation"
  /\ intents[IntentOf[j]] \in
       {"COMMITTED", "IRREVERSIBLE_COMMITTED", "REMEDIATION_REQUIRED"}
  /\ Enqueue(j)
  /\ UNCHANGED <<handler, effectVars, externalVars>>

\* invalidate, for an effect of an affected output that touched reality.
Invalidate(i) ==
  /\ intents[i] \in {"COMMITTED", "COMPENSATION_PENDING", "IRREVERSIBLE_COMMITTED",
                            "RECONCILIATION_REQUIRED"}
  /\ SetStatus(i, "REMEDIATION_REQUIRED")
  /\ UNCHANGED <<jobs, slots, handler, receipts, fences, externalVars>>

-----------------------------------------------------------------------------
(* The external system, as the registry demands it of an automatic         *)
(* connector.  Fencing: once it has seen a token it refuses every write to *)
(* the resource with a lower one, so those leave the wire.  Idempotency    *)
(* keys: a write is applied once, whoever repeats it, so a duplicate of a  *)
(* delivered write changes nothing.  A new write may be refused for        *)
(* reasons of its own.  The handler that waits for this very write gets    *)
(* the answer.                                                             *)
Deliver(m, refused) ==
  LET repeated == Applied(m.intent, m.op)
      answer == IF refused /\ ~repeated THEN "refused" ELSE "applied"
      Awaits(s) == /\ Running(s, "await") /\ Intent(s) = m.intent
                   /\ Operation(s) = m.op /\ handler[s].token = m.token
  IN  /\ m \in requests
      /\ requests' = {n \in requests \ {m} : ResourceOf[n.intent] = ResourceOf[m.intent]
                                               => n.token >= m.token}
      /\ applied' = IF refused \/ repeated THEN applied ELSE applied \cup {m}
      /\ handler' = [s \in Slots |-> IF Awaits(s) THEN [handler[s] EXCEPT !.at = answer]
                                                  ELSE handler[s]]
      /\ UNCHANGED <<jobs, slots, effectVars>>

-----------------------------------------------------------------------------
EffectInit ==
  /\ Init
  /\ handler  = [s \in Slots |-> NoHandler]
  /\ intents  = [i \in Intents |-> "ABSENT"]
  /\ receipts = [i \in Intents |-> {}]
  /\ fences   = [r \in Resources |-> 0]
  /\ requests = {}
  /\ applied  = {}

WorkerStep(s) ==
  \/ \E j \in Jobs : StartHandler(s, j)
  \/ HandlerStep(s)
  \/ SettleJob(s)
  \/ ForgetHandler(s, FenceLost(s))

EffectNext ==
  \/ \E s \in Slots : WorkerStep(s) \/ ForgetHandler(s, Abandon(s))
  \/ \E j \in Jobs : Clock(j) \/ Commit(j) \/ Reconcile(j) \/ RequestCompensation(j)
  \/ \E S \in SUBSET Jobs : Sweep(S)
  \/ \E i \in Intents : Prepare(i) \/ Invalidate(i)
  \/ \E m \in requests, refused \in BOOLEAN : Deliver(m, refused)

(* As in JobQueue: workers and the sweep keep going, time passes, and      *)
(* nothing is owed by clients, by crashes or by the external system.       *)
EffectFairness ==
  /\ \A s \in Slots : WF_vars(WorkerStep(s))
  /\ \A j \in Jobs : /\ WF_vars(Clock(j) /\ (jobs[j].status = "RUNNING" => Orphaned(j)))
                     /\ WF_vars(j \in Stalled /\ Sweep(Stalled))

EffectSafetySpec == EffectInit /\ [][EffectNext]_vars
EffectSpec == EffectSafetySpec /\ EffectFairness

-----------------------------------------------------------------------------
EffectTypeOK ==
  /\ TypeOK
  /\ handler \in [Slots -> Handler]
  /\ intents \in [Intents -> EffectStatuses]
  /\ receipts \in [Intents -> SUBSET Receipts]
  /\ fences \in [Resources -> Nat]
  /\ requests \in SUBSET Writes
  /\ applied \in SUBSET Writes

\* A terminal status is backed by a receipt, however a crash, a retry or
\* another job came between the external write and the status.
ReceiptBacked ==
  \A i \in Intents :
    /\ intents[i] \in {"COMMITTED", "IRREVERSIBLE_COMMITTED"} => "EXECUTED" \in receipts[i]
    /\ intents[i] = "COMPENSATED" => "COMPENSATED" \in receipts[i]

\* A receipt is never about a write that did not happen.
ReceiptsAreTrue ==
  \A i \in Intents, op \in Operations :
    Receipt(op) \in receipts[i] => Applied(i, op)

\* An effect is under way only while a job is answerable for it: when the last
\* job is final, the status is known or RECONCILIATION_REQUIRED.
InDoubtIsOwned ==
  \A i \in Intents :
    intents[i] \in {"EXECUTING", "COMPENSATION_PENDING"} =>
      \E j \in Jobs : /\ IntentOf[j] = i
                      /\ jobs[j].status \notin Final \cup {"ABSENT"}

\* No job of the intent is left to look at it again.
Unattended(i) == \A j \in Jobs : IntentOf[j] = i => jobs[j].status \in Final \cup {"ABSENT"}

\* Once every job of an intent is final, an execution that took effect and has
\* no receipt is flagged for reconciliation or a human, or has been undone.
ExecutionNotForgotten ==
  \A i \in Intents :
    Unattended(i) /\ Applied(i, "execute") /\ "EXECUTED" \notin receipts[i]
      => intents[i] \in {"RECONCILIATION_REQUIRED", "REMEDIATION_REQUIRED", "COMPENSATED"}

\* Writes to a resource take effect in the order in which their operations
\* began, those of different intents included: a request that was delayed while
\* a later operation, say the compensation, took effect never arrives.
NewWriteIsLast ==
  \A m \in applied' \ applied, n \in applied :
    ResourceOf[m.intent] = ResourceOf[n.intent] => n.token < m.token

WritesInOrder == [][NewWriteIsLast]_vars

\* Every status change is one the lifecycle allows, whoever makes it.
StatusesLegal ==
  \A i \in Intents :
    \/ intents'[i] = intents[i]
    \/ intents'[i] \in Successors[intents[i]]
    \/ intents[i] = "ABSENT" /\ intents'[i] = "PREPARED"

LegalTransitions == [][StatusesLegal]_vars

\* Whatever fails on the way, an effect that was submitted ends in a status that
\* is known or that asks for reconciliation.
EffectsAccounted ==
  \A j \in Jobs :
    jobs[j].status # "ABSENT" ~>
      intents[IntentOf[j]] \notin {"PREPARED", "EXECUTING", "COMPENSATION_PENDING"}
===============================================================================
