# ArcDB in TLA+

This directory holds a TLA+ development for ArcDB: specifications of the parts that
coordinate work, the TLC configurations that check them on small instances, and proofs,
checked by TLAPS, that hold for every instance. Every definition is read off the source;
`PROJECT.json` names, for each, the file and the lines.

| module | what it is |
| --- | --- |
| `JobContract` | abstract: what the queue promises about one job |
| `JobQueue` | the `jobs` table and the worker slots that execute its rows |
| `WorkerRuntime` | extends `JobQueue`: worker processes, their periodic sweep, notifications in Redis |
| `EffectStatus` | the status machine of an effect |
| `EffectExecution` | extends `JobQueue`: external effects, the effect jobs on the queue, the API calls around them, the external system |
| `Remediation` | effects of the manual connector, receipts, invalidations and the obligations they leave |
| `OutputLifecycle` | outputs, evidence and logical heads: promotion and invalidation as interleaved transactions |
| `ImpactAnalysis` | what a changed version affects: the work list over the lineage graph, the intersection of selectors, the steps to recompute and their explanation |
| `LineageGraph` | the edges themselves: inserts that check for cycles, and searches, as concurrent requests |
| `EventLog` | lifecycle events and the audit chain, under advisory locks |
| `TraceMerge` | OTLP exports of one trace, merged into its rows |
| `Ingestion` | extends `TraceMerge`: batches sent by the SDK with retries and an offline buffer, run once per idempotency key |
| `Listing` | the pages of a list, followed by their cursors while rows are stored |
| `Migrations` | migrate jobs of several builds, and the readiness check |
| `ArtifactStore` | uploads of chunks and manifests against garbage collection |
| `ApiKeys` | authentication by key, creation and revocation of keys |
| `JobQueueProofs`, `RuntimeProofs`, `EffectProofs`, `RemediationProofs`, `OutputProofs` | theorems about the modules of those names |
| `ImpactProofs` | theorems about `ImpactAnalysis` and `LineageGraph` |
| `StoreProofs` | theorems about `EventLog`, `Listing`, `Migrations`, `ApiKeys` and `ArtifactStore` |
| `IngestionProofs` | theorems about `TraceMerge` and `Ingestion` |
| `MCWorkerRuntime`, `MCEffectExecution`, `MCRemediation`, `MCOutputs`, `MCImpact`, `MCIngestion`, `MCListing`, `MCArtifactStore`, `MCStores` | the instances TLC checks, one `.cfg` per run |

To check a run: `tlc -config MCOutputs.cfg MCOutputs` (section 3 names the module of each `.cfg`). To
check the proofs: `tlapm OutputProofs.tla`, and the other seven.

## 1. The system

ArcDB is a database for what agents produce: versioned outputs, their lineage, evidence and
promotion, and the effects agents have on other systems. PostgreSQL is the only authority
(docs/decisions/0001): the API and any number of worker processes are stateless around it, Redis
only wakes workers up, and S3 holds content-addressed artifacts.

### Components

**Durable job queue** (`packages/db/src/repositories/control.ts`, `apps/worker/src/job-store.ts`).
State: one row per (tenant, project, type, idempotency key) with status, attempts, `available_at`,
`locked_by`, `fencing_token`, `lock_expires_at`. Operations: `enqueue`, `claim` (`FOR UPDATE SKIP
LOCKED`), `heartbeat`, `complete`, `fail`, `recoverStalled`, `isFenceCurrent`. Hard: a worker that
lost its lease keeps running; two slots of one process share `locked_by`; replies of committed
statements get lost; the boundary at the last attempt. Correct if no two slots can act for a row,
no row is parked for ever, a final row stays final, every job settles.

**Worker process and notifications** (`processor.ts`, `runtime.ts`, `notification.ts`, `backoff.ts`,
`registry.ts`, `server.ts`). State: the execution each slot is running, the sweep, and in Redis a
queue of wakeups per tenant. One execution claims, runs the handler in a race with a timeout and
a heartbeat, then completes or fails the row. Hard: aborts while the handler is at an `await`,
`complete` throwing after it committed, a shutdown, Redis losing its content or being away. Correct
if a job runs although the notification of it was lost.

**Effect execution** (`apps/worker/src/effects.ts`, `effect-store.ts`,
`packages/lifecycle/src/effects.ts`). State: `effect_intents` (a status machine of nine states),
`effect_receipts`, `resource_fences`. Two handlers: `reconcileEffect` and `runCompensation`. Each is
a sequence of transactions and connector calls. Hard: the crash windows between the external write,
the receipt and the status; several jobs on one intent; requests that arrive late; unknown outcomes.
Correct if a status that claims an outcome has its receipt, a receipt is true, an effect under way
has a job answerable for it, an execution that happened is not forgotten, writes to a resource take
effect in order.

**Effect API** (`apps/api/src/routes/effects.ts`). `prepare`, `commit`, `reconcile`, manual
receipts, remediation obligations.

**Output lifecycle, evidence, promotion** (`apps/api/src/routes/outputs.ts`,
`packages/lifecycle/src/output-machine.ts`, `evidence-policy.ts`). State: outputs with a lifecycle
state, evidence with a freshness, logical heads with a generation. Hard: promotion reads evidence,
state and head before it writes; evidence turns stale by invalidation; several branches. Correct if
a head moves only by compare-and-set from the head the client saw, to an output whose required
evidence is fresh.

**Lineage, impact, invalidation** (`apps/api/src/routes/lineage.ts`,
`packages/lineage/src/impact.ts`, `invalidation.ts`, `selectors.ts`). State: the edges between
output versions, invalidation plans, remediation obligations. Hard: the cycle check races its
insert; the plan is computed on rows that workers are changing; versions are visited again when they
gain selectors. Correct if the graph stays acyclic, no dependency is missed, every affected version
has a reason, and every effect that touched reality gets an obligation.

**Audit and event log** (`apps/api/src/events.ts`). State: numbered events per aggregate, a hash
chain per project under an advisory lock of the tenant. Hard: `created_at` is the start of the
transaction and ties are broken by a random id, rollbacks, locks taken in opposite orders. Correct if numbers have no gap and the chain
forks no more than that explains.

**API idempotency** (`apps/api/src/idempotency.ts`) and **SDK with offline buffer**
(`packages/sdk-typescript/src/client.ts`, `offline.ts`). State: idempotency records; the buffered
operations. Hard: retries racing the first request, flushes failing half-way, a crash between a
request and the removal of what was sent. Correct if an operation takes effect once and is not dropped.

**Telemetry ingestion** (`routes/telemetry.ts`, `routes/otlp.ts`). State: runs, traces, spans and
events. Hard: exports in any order and more than once. Correct if the rows agree in the end.

**Lists** (`routes/helpers.ts` and the GET routes; the hooks of the web console). State: a cursor at
the client. Hard: rows stored between pages, rows that move, an instant that is rounded.

**Artifact store** (`packages/artifacts/src/s3-store.ts`). State: chunks and manifests. Hard:
garbage collection against uploads that reuse a chunk. Correct if a finalized manifest can be read.

**Database access** (`packages/db/src/database.ts`, `migrations.ts`, `schema-version.ts`). State: the
ledger of migrations. Hard: jobs of several builds at once, each on the snapshot of its transaction.

**Authentication** (`packages/auth`, `apps/api/src/auth.ts`, `routes/control.ts`). State: the keys.
Hard: a principal is read in one transaction and used in another. Correct if a key never has more
than its creator, and a project is not locked out of its keys.

Without state that changes: contracts, observability, the forms of the web console, examples,
benchmarks and deployment.

### How they interact

The API and the handlers share the tables; every interaction is a transaction (READ COMMITTED) that
re-checks what it relies on with a compare-and-set or a fence. `prepare` creates an intent and
takes a fencing token of its resource; `commit` and `reconcile` enqueue `reconcile_effect`;
invalidation moves effects to REMEDIATION_REQUIRED; an operator enqueues `run_compensation` (no code
in the repository does). A job that becomes a dead letter flags its intent in the same transaction.

## 2. What is modelled

### JobQueue

| in the module | in the code |
| --- | --- |
| `jobs[j]` | a row of `jobs`; `lease` is `lock_expires_at` compared with `now()` (`none`, `live`, `expired`), `due` is `available_at <= now()`, `ABSENT` is no row |
| `slots[s]` | one running `#executeClaimed`: its job, its fencing token, and how its handler ended |
| `Enqueue`, `Claim`, `Complete`, `RecoverStalled` | the statements of `JobsRepository` of those names; recovery acts on any subset of the stalled rows, since SKIP LOCKED passes over rows another transaction holds |
| `FailRetryable`, `FailPermanent` | `fail` with and without `retryable` |
| `CompleteThrows` | `complete` failing inside the processor: rolled back, or committed with its answer lost; the processor then fails the job, permanently unless the error is a serialization error |
| `HandlerEnds` | the handler settles or the timeout wins the race |
| `FenceLost`, `Abandon` | FENCE_LOST; a process crash, or a heartbeat that fails |
| `LeaseExpires`, `BecomeDue` | time passes |

Time is not a clock: a lease may run out at any step, so the safety results do not depend on the
heartbeat being in time. `SingleHolder` is about the guard every mutation repeats, so a slot that is
not the holder can still run, as a real stale worker can.

`JobContract` states the queue's promise for one job: it is attempted at most `Limit` times, one
attempt at a time, given back only while attempts are left, and settles once. `KeepsContract` says
that the queue implements it for each of its rows under the mapping `Stage` (PENDING and FAILED are
both "waiting") and `tries` (attempts).

### EffectExecution

Extends `JobQueue`: its worker slots run effect handlers. `handler[s]` is where the handler is
(`at`), the intent row as it last read it (`seen`), the fencing token of the resource it took
(`token`), and whether it is inside the `try` block around an external operation (`trying`), whose
`catch` turns any error into an unknown outcome. Every database transaction and every connector
call is one action, so anything may happen at an `await`.

| in the module | in the code |
| --- | --- |
| `intents`, `receipts`, `fences` | `effect_intents.status`, `effect_receipts`, the token in `resource_fences` |
| `Load`, `Route`, `Remediate` | the branches of `reconcileEffect` and `runCompensation` |
| `Transition` | `#transition`: no write if already there, an error if illegal, else a compare-and-set under the job's fence (but not the resource's) |
| `Begin` | `beginExternalOperation`: status and next resource token in one transaction |
| `Send`, `NoAnswer`, `Answered` | the connector call between two fence checks |
| `Persist`, `Finalize` | `appendReceipt`, then the transitions to the final status |
| `Mark`, `Query`, `NotFound` | the lookup of an unknown outcome |
| `Unknown`, `Ambiguous`, `Refuse` | the catch blocks, UNKNOWN, and DEFINITIVE_FAILURE |
| `Interrupt` | the timeout, a resource lease that ran out, or a database error, at any stage |
| `Prepare`, `Commit`, `Reconcile`, `Invalidate` | the API handlers, as far as they change intents, fences and jobs |
| `RequestCompensation` | external: the operator's enqueue, for an effect in COMMITTED, IRREVERSIBLE_COMMITTED or REMEDIATION_REQUIRED |
| `SurfaceDeadLetters` | `markDeadLetterEffectForReconciliation`, in the transaction of `fail` or of the sweep |
| `requests`, `applied`, `Deliver` | external: writes on the wire and writes that took effect |

Executing and compensating go through the same stages, so one set of actions serves both and the
tables `Pending`, `Refusal`, `Done`, `Receipt` say what each operation calls them.

The external system does what `connectors/registry.ts` demands of an automatic connector: an
idempotency key per intent and operation, and fencing, where a token once seen excludes smaller ones.
A request may arrive at any later time or never, so timeouts and lost answers need no action
of their own. A zombie handler, one whose job has timed out or lost its fence, needs none either:
the job fence refuses its transactions, and what it has on the wire is in `requests`. So `Deliver`
answers a handler only if it is still waiting for that write.

Simplifications. The intent's own copy of the token, receipt contents and approvals are left out:
no guard of these handlers reads the first, the second appears only as "the same draft or another
one", and the third is `Unapproved` or not, at will. A read-only transaction and what follows it up
to the next one are one action.

### WorkerRuntime

Extends `JobQueue` with what makes slots claim at all: a slot claims only when it takes a
notification of a tenant.

| in the module | in the code |
| --- | --- |
| `wakes`, `redisUp` | the tenants with a notification in the BullMQ queue, however many; whether Redis answers |
| `proc[w]`, `sweeps[w]` | a process that is up, closing or down; its `#tick`, between its transactions |
| `telling[s]` | the retry a slot still has to notify about |
| `TakeWake`, `WakeFails`, `Redeliver` | `processWakeup`; a claim that throws (`attempts: 1`); BullMQ taking a running notification for stalled |
| `Recover`, `ListRunnable`, `Notify`, `SweepFails` | the statements of `#tick` |
| `BeginClosing`, `EndClosing`, `Crash`, `Restart` | SIGTERM, the end of `close`, SIGKILL or the deadline of a shutdown, `start` |
| `RedisFails`, `RedisRecovers` | an outage that may lose any notifications |

The delay of a notification is not kept: one that comes early finds nothing due, as two clocks
allow in the code. `Notify` waits for Redis, as `queue.add` does, and holds the sweep meanwhile.

### Remediation

| in the module | in the code |
| --- | --- |
| `outputs`, `intents`, `obligations` | the state of sources, the status of effects, `remediation_obligations` |
| `settled` | of `effect_receipts`: the effects with a receipt that says success, or with a manual one whatever it says |
| `requests[r]` | what a request has read and is about to do; `Begin...` reads, the action of its kind is the transaction |
| `RecordReceipt`, `RecordManualReceipt` | POST receipts; `ManualReceiptService.record`, which makes the intent committed whatever the receipt says |
| `Reconcile`, `Invalidate`, `Step`, `Repromote` | the reconcile request, and the manual branch of `reconcileEffect` (`effects.ts:142-159`), which only moves the status to RECONCILIATION_REQUIRED; the invalidation, the transition of an obligation, a promotion of a stale source |
| `late` | history: effects that were settled while or after an invalidation read the effects |

Reading and writing are apart because nothing is locked in between: an operator's receipt, a
reconcile request and an invalidation may each end on a status that is no longer there. The part of
an impact that decides which sources are concerned is the constant `Affected`. `run_compensation` is not among
the jobs here, since nothing in the repository enqueues it; for a connector that cannot compensate (`effects.ts:179-190`), and when a
compensation fails (`:593`), it writes REMEDIATION_REQUIRED without an obligation (`Remediate` and `Refuse` in
`EffectExecution`), so `RemediationIsOwed` is about the status as the API writes it. Manual receipts are taken not to carry the
`arcdbOutcome` by which the worker marks its own (`effects.ts:62-64`).

### OutputLifecycle

| in the module | in the code |
| --- | --- |
| `state[v]` | `outputs.lifecycle_state`; `absent` is no row. VERIFIED, APPROVED and COMMITTED are passed through inside one promotion and never seen from outside; no route leads to REJECTED, CONSUMED or SUPERSEDED |
| `evidence[f]`, `expired` | a record by its fingerprint, with its verdict; whether `expiresAt` has passed |
| `heads`, `fences` | `logical_heads` and the token of its resource fence, per logical id and branch |
| `promo[p]`, `inval[i]` | what a promotion or invalidation in progress has read so far |
| `reverified` | history, read by no action: which versions were promoted out of STALE |
| `CreateOutput`, `Finalize`, `RecordEvidence` | the routes of those names |
| `BeginPromotion`, `ReadHead`, `AcquireFence` / `PresentFence`, `ReadEvidence`, `CommitPromotion` | the statements of the promote route, in their order |
| `BeginInvalidation`, `ReadAffectedEvidence`, `CommitInvalidation` | those of the invalidation route |
| `AbortPromotion`, `AbortInvalidation` | a failed check or a lost connection: the transaction rolls back |
| `Expire` | time passes |

The transactions run at READ COMMITTED, so each SELECT is a step that sees what is committed when
it runs. The writes of a transaction are one step, its commit. That is no abstraction of the races:
each UPDATE is conditional on the value it expects and then holds the row lock up to the commit, so
if the condition holds when the row is written it holds at the commit too. The one row locked
before a later read is that of the fence, which `AcquireFence` therefore holds from then on.

`Imported` are versions stored in CREATED by something other than the API (the API stages a version
in the transaction that creates it); `Finalize` and the CREATED branch of promotion exist for them.
They are the only ones that may exist before their parents. `Affected`, the versions an
invalidation concerns, is a constant here: computing it is the subject of `ImpactAnalysis`.
What the proofs need of it is only that it contains the version itself.

Expiry is decided with the process clock at `outputs.ts:147`, some statements before the commit; the module
decides it in the step that commits, so what it says of expiry is about that decision.

Simplifications. UNKNOWN is counted as FAIL, since no check tells them apart. A refused request is
an abort. Fingerprints identify records, since (subject, fingerprint) is unique. The lease of a
token that the client presents is taken to be unexpired; the other case is an abort.

### ImpactAnalysis

| in the module | in the code |
| --- | --- |
| `graph`, `delta` | the lineage edges and the changed selectors given to `computeImpact` |
| `unchanged` | the targets for which the fingerprint resolver returns the current fingerprint |
| `selectors`, `generation` | the `affected` map; a version without selectors is not in it |
| `propagated`, `skipped`, `reasons` | `propagatedSelectorKeys`, `skipped`, the AFFECTED part of `reasonGraph` |
| `queue`, `current`, `batch`, `todo` | the `while` loop and its inner loop: the work list, the version being expanded, its `newSelectors`, its edges still to visit |
| `Dequeue`, `Skip`, `Propagate` | the head of the `while` loop, and the two ends of the body of the inner one |
| `SelectorsIntersect` and what it uses | `selectors.ts` |

The algorithm runs alone, and its states are modelled one by one for the sake of its loop invariant.
A selector is its kind, its keys or segments, and whether it is a directory or in a syntax that the code does
not take apart. `TokensOfPath` and `NormalizeFile` are what `jsonPathTokens` and `normalizeFileSelector` make of
it: a key with dots becomes several tokens (`Dotted` says which), `./` becomes the empty path, and only one
`./` in front is removed. A transfer function is a table from a selector to selectors; the code would allow
it to look at all selectors at once. The routes pass neither transfer functions nor a
fingerprint resolver, so in the running system what propagates is always `UnknownSelector`; the
model has both. Why an edge was skipped, and the count of visited edges, are left out.

`RecomputationSteps` and `Explanations` are what is computed from the reasons afterwards: each affected
version to recompute, with a way back to the source.

### LineageGraph

`insertAt[i]` is a POST of an edge between its cycle check (`CheckEdge`, a search to `MaxDepth`) and
its insert (`CommitEdge`); `readers[r]` is `reachableEdges`, one SELECT per version (`Expand`). `saw` and
`first` are histories. Edges are never deleted. `Descendants` is the recursive SQL query, `ReachedFrom`
the reference definition it is compared with.

### EventLog

A transaction (`phaseOf[t]`, `began[t]`: its `now()`, which several may share) appends to the logs in `AppendsOf[t]`,
in order. Each append waits for the
advisory lock of its log, which is held to the end of the transaction, and reads what is committed
then. `Deadlocked` is a cycle of waits; PostgreSQL aborts one of it (`BreakDeadlock`). `Newest` is
`ORDER BY created_at DESC, id DESC`, where `created_at` is the start of the transaction and `id` is random (one of `Ids`); `Visible` is what
row-level security shows of other projects.

### TraceMerge and Ingestion

`Export` is the transaction of one OTLP export; exports of a trace commit one after the other because
each first writes the row of the trace. `Ingestion` has the SDK's calls (`calls[b]`, up to `MaxSends` sends), its
buffer and `flushOffline` (`flush`), requests that are on the wire or in a transaction of the API, which the
client may have given up on, and `idempotentMutation` (`keys`). A crash of the application loses calls
and the flush, not the buffer.

### Listing, Migrations, ArtifactStore, ApiKeys

`Listing`: rows inserted and committed in separate steps, so a row may appear with an instant
before a page already read; traces move to earlier instants; a cursor keeps milliseconds.

`Migrations`: a job is one SERIALIZABLE transaction whose snapshot is taken before it waits for the
lock. A file that was applied behind the snapshot meets the primary key.

`ArtifactStore`: conditional PUTs, which leave LastModified alone when the key exists, against a
collection that lists manifests, then lists chunks with the cutoff, then deletes by key. Any number of collections
run beside each other. The clock is that of the object store. `age`, `renewed` and `lost` are histories.

`ApiKeys`: `principals[q]` is what a request was authenticated as, in an earlier transaction than its
own. `Seed` is the seed command. A request names a key in one of two `Spellings`, as stored or in capitals: the handler
compares strings, the UPDATE uuids.

In all modules, some operators are faulty variants of the definition after them (a comment at the
head of their section says how they are named). No action uses them; each is a bug that a property
is known to catch, and `PROJECT.json` lists the pairs under "mutants".

## 3. What is checked

| run | module | instance | shows |
| --- | --- | --- | --- |
| `MCWorkerRuntime` | `MCWorkerRuntime` | one row; three slots on two processes; Redis; two faults | `SingleHolder`, `KeepsContract`, `EveryJobSettles` |
| `MCEffectCompensation` | `MCEffectExecution` | one irreversible intent, a commit job and a compensation job, two slots | `ReceiptBacked`, `ReceiptsAreTrue`, `InDoubtIsOwned`, `ExecutionNotForgotten`, `WritesInOrder`, `LegalTransitions` |
| `MCEffectLive` | `MCEffectExecution` | a commit, a reconcile and a compensation job, one slot, fairness | `EffectsAccounted` |
| `MCRemediation` | `MCRemediation` | an irreversible effect of a source, a reversible one of a version derived from it; two requests of any kind at a time | `StatusTellsReceipts`, `RemediationIsOwed`, `CommittedIsOwed`, `ApprovedBeforeWork`, `LegalObligations` |
| `MCOutputs` | `MCOutputs` | two versions of one output, the second derived from the first; two promotions and an invalidation at a time | `HeadsArePublished`, `FirstPromotionIsSupported`, `InvalidatedIsFinal`, `FirstPromotionUsesFreshEvidence`, `HeadMovesFromExpected`, `InvalidationReaches` |
| `MCImpact` | `MCImpact` | the analysis of three versions, up to five edges with cycles, each with a choice of selectors and transfer functions, 14 deltas; or else five inserts of edges between four versions against a search | `NothingMissed`, `OverlapsReached`, `StepsAreExplained`, `AnalysisTerminates`; `CyclesNeedOverlap`, `ReadsAGraphBetween` |
| `MCIngestion` | `MCIngestion` | two batches of which the second needs the first, one crash of the application; three exports of an OTLP trace of three spans | `StoredOnce`, `NothingDropped`, `HeadIsStored`; `ParentsLinked`, `TraceAgrees` |
| `MCStores` | `MCStores` | in each behaviour one of: uploads of two artifacts that share a chunk and two collections; four transactions, two of which append in opposite orders; pages of two of four rows; three migrate jobs of three builds; three keys and two requests | `YoungArtifactsSurvive`; `SequencesGapFree`, `ChainForksOnlyOutOfOrder`, `EveryTransactionEnds`; `SkippedOnlyWithinMillisecond`; `EachAppliedOnce`, `ReadyMeansComplete`; `ManagerStepsOnlyAside` |

Each property is stated in its module, with the code behaviour it is about.

### Bounds, and why they are enough

* `MaxAttempts = 2`: a first attempt and a last one, the two cases that the code tells apart. Tokens
  are bounded by the attempts.
* `MCWorkerRuntime`: three slots are the fewest that have both two slots of one process, which
  `locked_by` cannot tell apart, and a slot of another process. Rows of one tenant meet in the claim
  only, which takes any of them; two rows are in the effect runs. `MaxFaults = 2` crashes, shutdowns,
  outages and database errors in a behaviour allow a fault while another one is being recovered from.
* `MCEffectCompensation`: two jobs are what it takes for one to disturb the other at any stage. Each takes the
  fence of the resource from the other. Symmetry is in the slots, and this run checks no liveness.
  No run has the preparation of another effect on the resource, which takes the fence from both; `NoExecutionForgotten` and
  `WritesOrdered` are proved for any number of effects. `MCEffectLive` has one slot, so the jobs alternate, with every
  crash, timeout and lease expiry.
* `MCRemediation`: two requests are what it takes for one to end on rows that the other changed;
  symmetry in the requests. Nothing bounds how many come one after the other.
* `MCOutputs`: the two versions compete for one head, and an invalidation of the first withdraws both.
  Two promotions are what it takes to race for a head, one more transaction of the other kind to
  race for the evidence. One version carries a policy version and the other does not, one
  record expires and the other does not, and the second version is stored before its parent. A
  fingerprint is recorded once and an invalidation uses its record up, so promotions come to an end.
* `MCImpact`: two versions between which edges go both ways, and an edge back to the source, give all
  ways in which a version comes back to the queue: found again by a longer way, with other selectors,
  on a cycle. The selectors have each kind of relation that the code tells apart. `Components` are
  what selectors select, and give overlap a meaning that does not depend on the code under test. In the
  other half, `MaxDepth = 2` and `MaxEdges = 4` stand for 100 and 10 000: the instance has a cycle of
  three edges, which the search sees, and one of four, which it does not.
* `MCIngestion`: two sends for each request, so that a retry meets the first; one crash of the application. The exports contain a child before its
  parent, a span twice, and a root that ends in error after it had ended well.
* `MCStores`: `Retention = 1`, `ScanTime = 1`, `MaxTime = 2` ticks; with these a chunk is old, young or just between. Two
  collections beside uploads that come one after the other; what an unfinished upload leaves, a failed one leaves too. Two
  instants for four transactions, so that some begin together, and an id for each audit event.
  Two ticks to a `Millisecond`. The migrations of the three builds share a first file, differ in a second and in
  which files lie in between. `Audit` is appended last, as the routes do.

Deadlock is checked in `MCRemediation`, where a request can always begin or end. Elsewhere the system
may really stop: every job is final and no client asks for more, or the clock is at its bound.

### Fairness

`Fairness`, `EffectFairness`: weak fairness of each slot (the event loop drives the handler, its
timeout and the closing statement; in `JobQueue` alone an idle slot also takes a job), of time (a
backoff ends, a lease that no slot holds runs out) and of the sweep over all stalled rows. There is none for clients, crashes, or the
external system, which may never answer.

`RuntimeFairness` does not assume that idle slots take jobs: it has weak fairness of the timer of a process
that is up, of a shutdown (which has a deadline), and of restarts of processes and Redis by whoever deploys
them. Strong fairness of taking a notification of a tenant, by some slot: BullMQ serves its queue first in first out,
so whoever is free again and again gets to each notification.

`LogSpec`: a transaction that was begun goes on when its lock is free, and PostgreSQL looks for deadlocks. `IngestionFairness`:
the application flushes again and again, and strongly, a request sent again and again arrives, and one
that arrives is in the end decided; no fairness for anything to succeed at the first attempt. `AnalysisTerminates`: the loop goes on.

### Where the code and its documents disagree

Four runs check a sentence of the repository's documents or tests, and TLC finds it violated by what
the code does (`findings` in `PROJECT.json` has the lines).

* `MCOutputsReverified` (`PromotionUsesFreshEvidence`). "A policy-gated Output cannot be promoted
  without required fresh Evidence" (guideline.md:467). A STALE version may be promoted again on new
  evidence. A second invalidation withdraws that evidence but does not write the version, which
  is already at its target (`packages/lineage/src/invalidation.ts:153`), so a promotion that read the
  evidence before does not find the version changed, and commits. `FirstPromotionUsesFreshEvidence`
  is what does hold: the sentence is true of versions that were not STALE.
* `MCArtifactDangling` (`FinalizedStaysReadable`). "garbage-collects only chunks unreachable from a finalized
  manifest" (packages/artifacts/test/s3-store.test.ts:106). An upload that reuses an old orphan, and
  finalizes after the manifests were listed, loses it. `YoungArtifactsSurvive` is what does hold.
* `MCImpactMissed` (`NoOverlapMissed`). "Conservative selectors must not miss affected dependencies"
  (guideline.md:671). A version that depends on `./` is not affected when `src/` changes, because `./` is
  normalized to the empty string (`selectors.ts:42`). `Missed` names all that is missed: file selectors that
  `normalizeFileSelector` does not take to the file they mean (`./`, `././a`, `a/../b`); a directory around
  the changed one, since `filesIntersect` asks only whether the second is in the first (line 57); and a key with dots
  under a wildcard, `$['b.c'].x` beside `$.*.x` (lines 17-28). `OverlapsReached` is what does hold.
* `MCListing` (`NoRowSkipped`). "support pagination [...] for all large views" (guideline.md:770). A cursor
  is cut to milliseconds and the column has microseconds. That the pages together show every row is what
  one expects of pagination; the sentence does not say it in so many words. `SkippedOnlyWithinMillisecond` bounds what is lost.

Seen while modelling, without a run of their own:

* Two garbage collections at once: the second deletes a chunk that was put again after the first deleted it, however
  young, since objects are deleted by key. Nothing keeps collections apart (`s3-store.ts:425`). `YoungArtifactsSurvive`
  names this exception (`lost`), which cannot happen with one collection.
* "An API key cannot revoke itself" (routes/control.ts:388), but it can if the request writes its id in capitals: the
  handler compares strings, the UPDATE uuids. `ManagerStepsOnlyAside` names this as one of the ways in which the last key that
  manages keys may go.
* `ManualReceiptService.record` never looks at `externalStatus`: a manual receipt that says FAILED makes its intent
  COMMITTED, where POST receipts would make it FAILED (`receiptOutcome`). The two ways of recording a receipt disagree, but no
  document says what a manual receipt may say. `settled` has both: the effects with a receipt that says success, and those with a manual
  receipt, whatever that one says; `StatusTellsReceipts` promises no more.
* What is behind a batch that the API rejects for good stays in the SDK's buffer: each flush stops at that
  batch. `NothingDropped` and `HeadIsStored` say what is promised.
* An unknown compensation may be sent again without a lookup, after an invalidation moved its status
  (docs/decisions/0004-external-effects.md:15: "Unknown outcomes are never blindly retried"); and
  RECONCILIATION_REQUIRED does not say which operation is unknown, so the receipt of the execution may
  finalize an intent whose compensation took effect.
* The resource fence is checked before the transition and not in it (guideline.md:472).
* A migrate job is "serialized with an advisory lock" (packages/db/README.md:50), but its snapshot is older than
  the lock; a job that waited fails on the primary key instead of finding the files applied.
* POST /v1/api-keys does not go through `idempotentMutation`, unlike other mutations (docs/api/quickstart.md:18).
* The sweep of a worker waits for Redis without a timeout, and recovery of stalled rows with it, although
  PostgreSQL alone would do (docs/decisions/0001-postgres-correctness-oracle.md:15-16). It goes on when Redis is back.
* "Lifecycle time cannot move backwards" (packages/lifecycle/src/output-machine.ts:191) compares the clock of a process
  with that of the database.

## 4. What is proved

All theorems hold for every value of the constants that the named assumption of the module allows; TLC
evaluates these assumptions in the runs.

`JobQueueProofs`, from `QueueAssumption` (any finite or infinite set of jobs, slots and workers, any positive limit):

* `TypeCorrect`, `MutualExclusion` (`SingleHolder`), `NoRowIsStranded`, `LocksAreOwed`, `FinalRowsStay`,
  `ContractKept` (`KeepsContract`, the refinement of `JobContract`).
* The argument: `NextRowStep` shows once, action by action, that a step does one of seven things to
  each row (`RowStep`), and that either no slot takes a row (`SlotsKept`) or one slot claims one. The two
  together are `QueueStep`, and everything else is a proof over them, not over the actions.
  `SingleHolder` is not inductive: it needs that tokens are unique. `TokenInv` adds that no slot
  has a token above its row's (`TokensBounded`) and that no two slots have one token of a
  row (`TokensUnique`); a claim takes a token nobody has, because it is the next one.
  `NoStrandedRow` needs that an absent row has no attempts (`AttemptsInv`), or the first
  enqueue could break it.

`RuntimeProofs`, from `QueueAssumption` and `RuntimeAssumption` (any processes, slots, tenants and jobs):

* `RuntimeExcludes` (`SingleHolder`), `RuntimeKeepsContract` (`KeepsContract`), `RuntimeKeepsRows` and
  `RuntimeTypeCorrect`: the theorems about the queue hold of it under the worker processes and Redis.
* The argument: `WorkerRuntime` does not refine `JobQueue` step by step, since a process that crashes or
  reaches its deadline frees all its slots in one step (`SlotsEnd`). But that too is a `QueueStep`: it
  changes no row and takes none. As the lemmas of `JobQueueProofs` assume no more, they carry over. That
  the runtime is type correct needs that a running slot has a job (`BusyHasJob`), for it is that job's
  tenant whose queue in Redis is written.

`EffectProofs`, from `QueueAssumption` and `EffectAssumption`:

* `QueueUnderEffects`: every step of the effect runtime is a step of the queue or leaves it alone,
  so the theorems above hold of effect jobs too.
* `EffectTypeCorrect`, `LifecycleKept`, `ReceiptsTrue`, `TerminalHasReceipt`, `WritesOrdered`,
  `DoubtsAreOwned` (`InDoubtIsOwned`), `NoExecutionForgotten` (`ExecutionNotForgotten`).
* The argument: `HandlerSummary` brings the eighteen actions of a handler to four kinds of step: it
  moves on and perhaps changes the status (`Plain`), records a receipt (`Records`), puts a request on
  the wire (`Sends`), or begins an operation (`Begins`). The inductive invariant `HandlerInv` says that
  a handler belongs to a running slot (`HandlersRun`) and that it is at no stage without what the
  stages before it established (`StagesEarned`): at `persist` only if the write took effect, at
  `finalize` only with the receipt, at `begin` only from a status that allows it. The three
  properties of receipts and statuses follow from it step by step. For the order of writes,
  `OrderInv` says that no write on the wire or applied has a token above its resource's, that two
  on the wire do not share one, that what is on the wire is later than what was applied
  (`WritesNumbered`), and the same of the handlers about to send (`SendersNumbered`).
* Who is answerable for an effect (`OwnerInv`). That a job exists for every doubt is not inductive: the
  job may be about to succeed. `DoubtsAnswered` adds that whoever holds the fence of that job knows the
  status the intent has, or is going to read it, so that it cannot call the job done and leave the doubt
  behind. It is inductive since only a handler that holds the fence puts a status in doubt
  (`DoubtsByHandlers`), and a job that is not done goes on, succeeds in the slot that says so, or dies and has its effect
  surfaced (`LiveOrSettled`).
  `WritesMinded` says the same of an execution on the wire or applied that neither a receipt nor a flag
  tells of: some job is not done, and its holder heads for a receipt, a flag, a retry, or an attempt with
  a token at least as high (`Heeds`). Both rest on what a handler knows at its stage (`KnowledgeInv`): a status read as
  COMPENSATED is so still, a token is its own (`Alone`), and a refused execution left no write of an
  earlier attempt (`Cleared`), so that it may end the effect as FAILED.

`RemediationProofs`, from `RemediationAssumption` (any effects, versions, requests and impacts):

* `TypeCorrect`, `StatusAndReceiptsAgree`, `ObligationBesideStatus`, `InvalidationLeavesObligations`,
  `ApprovalComesFirst`, `ObligationsFollowSteps`: the five properties of `MCRemediation` and the type invariant.
* The argument (`RemediationInv`): a request in progress holds what it read, and what it read may be
  out of date. `RequestsTyped` keeps what was true of it when it was read, `RepeatsAreKnown` that an intent which is
  seen as committed was settled by a receipt, `ReadsSuccesses` that an invalidation under way has read every
  success that is not `late` for it, `WaitsForApproval` that an obligation that needs an approval is pending until it has one.
  With these, each of the six transactions keeps the properties, since it compares the status it read.

`OutputProofs`, from `OutputAssumption` (any sets of versions, branches, records and requests, any
derivation, any `Affected` that contains the version itself):

* `TypeCorrect`, `HeadsPublished`, `FirstPromotionSupported`, `FirstPromotionFresh`,
  `ProvenanceKept`, `InvalidationIsFinal`, `HeadsMoveFromExpected`, `InvalidationsReach`.
* The argument: a promotion commits on evidence that it read earlier, and nothing locks evidence.
  That it is sound anyway rests on the conditional update of the version: as long as the version is
  unverified, nobody can have withdrawn its evidence. `RequestInv` says what a request in progress may
  rely on. `PassingStillPasses`: the records that a promotion read as passing still pass while its
  version is unverified. The only step that withdraws evidence is `CommitInvalidation`, and it either
  withdraws the version too, or leaves it alone because it read it as withdrawn already;
  `SeenBeforeWithdrawal` excludes the latter for a version that is unverified now, or promoted and never
  taken out of STALE. It is inductive since no version ever becomes unverified again. A version promoted
  out of STALE is the exception to all this, which is the divergence above and the reason for
  `reverified`. For `InvalidationReaches` one needs also that what an invalidation read as INVALIDATED is
  so still (`SeenInvalidated`).

`ImpactProofs`, from `ImpactAssumption` (any finite set of versions, graphs with or without cycles,
well-formed selectors, transfer functions and fingerprints) and `GraphAssumption` (a finite set of versions, any
inserts, readers and limits):

* `TypeCorrect`, `LoopInvariant`, `ImpactIsComplete` (`NothingMissed`), `ImpactIsReported`, `ImpactIsExplained`. They hold for whatever test of intersection:
  their proofs never expand `SelectorsIntersect`.
* `OverlapsAreReached` (`OverlapsReached`): the same against what selectors mean, components that both
  select, and not against the code's test, with the three named exceptions (`Missed`) and no other. It uses `WellFormed`, what `selectors.ts` takes apart: only files
  have directories, only JSON paths and files have opaque syntax, and a symbol or a record is one name.
* `StepsExplained` (`StepsAreExplained`): for every version of the plan the search of `explainImpact` finds
  a way from the source, and every step depends on the source or on an earlier step.
* `CyclesOverlap` (`CyclesNeedOverlap`), `ReadInvariant` and `ReadsBetween` (`ReadsAGraphBetween`).
* The argument: a version that has selectors not yet sent is in the queue
  (`UnsentIsQueued`); a selector that was sent has arrived at the end of every edge it intersects, or
  the edge is still to be visited (`SentHasArrived`, `TodoIsCurrent`); and a target of an expanded
  version is reported (`SentIsReported`). With an empty queue everything was sent, hence everything
  arrived. That every affected version has a reason needs that a reason is never farther from the source than what it explains, and
  that generations only go down, each together with a new reason.
* `StepsExplained`: the reasons that the search follows backwards are closed (`BackFromIsClosed`); of the
  affected versions it meets, one of least generation has a reason that is closer to the source, and only the source is.
* `OverlapsAreReached`: for each kind of selector, two that share a component intersect
  (`IntersectIfOverlap`), but for those `Missed`; then `NothingMissed` applies.
* Reads: what a reader has collected is stored, holds all edges that were stored when it began of the versions it has expanded, and it
  has met just what its own edges reach (`Reads`).
* Cycles: each insert saw a set of edges that were stored and stay so, and of two inserts one saw all that the other
  saw (`CheckedInv`). If the edges form a cycle no two inserts of which overlap, the last one to check saw all the
  others, and its search from the target must have stopped before it came round; a search that goes on finds
  one more version each round (`RoundsCount`), so the cycle has more versions than the depth it follows.

`StoreProofs`, from the assumption of each module and about any number of transactions, rows, jobs, keys and uploads:

* `EventLog`, from `EventLogAssumption` (a transaction appends at most one audit event, and an
  aggregate is of one project, as in the code): `LogTypeCorrect`, `SequencesHaveNoGap` (`SequencesGapFree`), `ChainForks`
  (`ChainForksOnlyOutOfOrder`). The argument (`LogInv`): a transaction with rows in a log took its lock
  (`RowsTook`), and the lock has one holder (`OneHolder`). So the rows that are not committed are all of one
  transaction, and the log is numbered without a gap both with and without them (`SequencesNumbered`), as it must be
  since the transaction may commit or roll back. For the chain, ids are unique, so that (created_at, id) orders
  the entries, and `Chained` says of committed and uncommitted ones what the property says of the committed.
* `Listing`, from `ListingAssumption`: `ListingTypeCorrect`, `SkippedInMillisecondOnly`
  (`SkippedOnlyWithinMillisecond`). The argument (`ListingInv`): a row that was there and keeps its place was listed, is
  still beyond the cursor, or is of a millisecond in which a page ended (`NoneLost`); and a listed one is
  not beyond the cursor (`ListedOnce`). A page is the first rows beyond its cursor (`PageIsFirst`), a fact
  about the finite set of rows.
* `Migrations`, from `MigrationsAssumption` (any packages whose files are in order): `MigrationsTypeCorrect`, `AppliedOnce`
  (`EachAppliedOnce`), `ReadinessIsSound` (`ReadyMeansComplete`). The argument (`MigrationInv`): what a job applied
  in its transaction are files of the part of its package it went through, under keys that are free
  (`OwnSound`), and all of that part is there, or in its snapshot (`OwnComplete`); keys stay free as only the holder
  of the lock commits. So a commit brings a whole package (`WholePackages`), which is why one look at the newest file tells of all.
* `ApiKeys`, from `ApiKeysAssumption`: `GrantsStayWithin` (no chain of keys gains a permission), `ManagersRemain`
  (`ManagerStepsOnlyAside`). The argument (`KeysInv`): a principal has what the row of its key has, and a
  row never gains permissions; so a key that revokes another one is itself a manager as long as it works.
* `ArtifactStore`, from `StoreAssumption` (any number of uploads and collections): `ArtifactTypeCorrect`,
  `YoungArtifactsAreSafe` (`YoungArtifactsSurvive`). The argument (`StoreInv`): the chunks that an upload has put are
  as old as it remembers, or one was so old that the age will say so (`UploadSafe`). A manifest that a scan may
  miss was finalized after its start, on chunks still there (`ScanSafe`); since the cutoff is taken at most
  `ScanTime` later, a chunk behind it makes the artifact too old. So a candidate is named by no young manifest, and none
  can be finalized on it (`CandidatesSafe`), unless it was deleted and put again since it was listed (`renewed`): such a
  chunk is `lost` when it is deleted once more, and only until it is put again (`LostAreAbsent`).

`IngestionProofs`, from `MergeAssumption` (any spans, parents and exports, each of a finite set of spans) and
`IngestionAssumption` (any batches that are not empty, any limits):

* `IngestionTypeCorrect`, `BatchesStoredOnce` (`StoredOnce`), `BatchesNotDropped` (`NothingDropped`),
  `ParentsAreLinked` (`ParentsLinked`), `TracesAgree` (`TraceAgrees`).
* The argument for traces (`MergeInv`): the properties are inductive once the end of an absent trace is 0; an export's earliest and
  latest instants exist because it has finitely many spans (`GreatestOf`). The SDK's steps leave the rows of traces alone (`IngestionMerges`).
* The argument for batches (`IngestionInv`): a batch ran once if its key is recorded and never otherwise (`KeysTell`), which
  is inductive since a batch has one transaction at a time and none when its key is recorded (`OneTransaction`). What a
  flush will remove from the buffer is stored (`FlushedIsStored`): the answer it waits for is to the one request it has out,
  about the first batch of those it still has to send (`OneFlushed`). With it, what the application was told
  stays true (`CallsTold`) also when a flush rewrites a buffer to which calls have added meanwhile.

Every safety property of a passing run is thus stated by a theorem. Only model-checked is liveness (`EveryJobSettles`,
`EffectsAccounted`, `EveryTransactionEnds`, `HeadIsStored`, `AnalysisTerminates`), which needs fairness and ENABLED and
is beyond this prover. What a run shows to be violated is of course not proved, nor does any theorem assume it.

The library's theorems of induction take an operator as a parameter, which the installed provers cannot
instantiate. Where an argument is by induction over numbers or finite sets, it is put as a least counterexample instead: a set
of naturals has a least element (`LeastOf`), a finite set of them a greatest one (`GreatestOf`), a finite set
that an order compares an extreme one (`ExtremeOf`). That a recursive function exists, the rounds of a search,
is proved the same way (`IteratesExist`).

## 5. Not modelled

* Contracts, examples, benchmarks, deployment, metrics and logging: no state that changes.
* The forms of the web console, which validate and forward; of the console only how it follows cursors
  matters to what a client sees.
* `rotate` and `revoke` of `ApiKeysRepository`, which no code calls.
* The roles of row-level security and the pools: configuration verified at start.
* What an automatic connector answers besides its outcome; no such connector is installed.
* How bytes are cut into chunks and hashed: a digest stands for its bytes.
* The reads of the SDK and the shapes of requests.

## 6. What is left

1. The abstract compare-and-set register that `OutputLifecycle` should implement per head, with the
   answers: a promotion of a version that is PROMOTED on another branch is answered 200 without moving
   the head.
2. What would make collections beside each other safe; more attempts in the effect runs.
3. The abstract register of receipts that `EffectExecution` and `Remediation` both implement, so that the
   theorems about the one need not be repeated for the other.
4. Properties for the hazards without one (`hazards` in `PROJECT.json`, each with its reason).
