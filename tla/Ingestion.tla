----------------------------- MODULE Ingestion ------------------------------
(***************************************************************************)
(* Telemetry on its way into ArcDB.  An application hands batches to the   *)
(* TypeScript SDK (packages/sdk-typescript), which sends each one up to    *)
(* MaxSends times under one idempotency key, the batch's id, and keeps it  *)
(* in the offline buffer when the network fails; flushOffline sends what   *)
(* is kept.  The API runs a request at most once per key (idempotency.ts), *)
(* in the transaction that records the key.  OTLP exporters, which have no *)
(* buffer here, send to the same API: see TraceMerge.                      *)
(*                                                                         *)
(* A request that the client gave up on may still be on the wire, or be    *)
(* under way in the API.  Two such copies of one batch at the same place   *)
(* count as one.  (The calls that create one row, such as createRun, take  *)
(* the same way, without the buffer.)                                      *)
(***************************************************************************)
EXTENDS TraceMerge, Sequences

CONSTANTS
    Batches,    \* ingestion batches, each one with an id of its own
    EventsOf,   \* the rows a batch creates, in order
    None,       \* an identifier that is not given
    MaxSends,   \* retry.maxAttempts
    MaxCrashes  \* bound: how often the application's process dies

ASSUME IngestionAssumption ==
    /\ \A b \in Batches : Len(EventsOf[b]) \in Nat \ {0}
    /\ MaxSends \in Nat \ {0} /\ MaxCrashes \in Nat

VARIABLES
    calls,     \* ingestBatch: how far the call for each batch is
    buffer,    \* the offline buffer (a file, atomically replaced)
    flush,     \* flushOffline: how far it is
    requests,  \* the requests on the wire and in the API's transactions
    keys,      \* idempotency_records that are COMPLETED
    rows,      \* the runs, traces and spans stored
    ran,       \* history: how often the events of a batch were stored
    crashes

clientVars == <<calls, buffer, flush>>
serverVars == <<keys, rows, ran>>
vars == <<calls, buffer, flush, requests, keys, rows, ran, crashes, spans, trace>>

Call     == [at : {"idle", "sending", "saving", "accepted", "rejected", "failed", "buffered",
                   "unknown"}, sends : 0..MaxSends]
IdleCall == [at |-> "idle", sends |-> 0]
\* todo: what it peeked and has not sent; done: what it will remove.
Flush     == [at : {"idle", "sending", "removing"}, todo : Seq(Batches), done : SUBSET Batches,
              sends : 0..MaxSends]
IdleFlush == [at |-> "idle", todo |-> <<>>, done |-> {}, sends |-> 0]
\* by: who waits for the answer; at: whether its transaction has begun.
Request   == [batch : Batches, by : {"call", "flush", "nobody"}, at : {"wire", "running"}]
Sent(b, who) == [batch |-> b, by |-> who, at |-> "wire"]

IngestionTypeOK ==
    /\ MergeTypeOK
    /\ calls \in [Batches -> Call]
    /\ buffer \in Seq(Batches)
    /\ flush \in Flush
    /\ requests \subseteq Request
    /\ keys \subseteq Batches
    /\ rows \subseteq UNION {{EventsOf[b][i] : i \in 1..Len(EventsOf[b])} : b \in Batches}
    /\ ran \in [Batches -> Nat]
    /\ crashes \in 0..MaxCrashes

IngestionInit ==
    /\ MergeInit
    /\ calls = [b \in Batches |-> IdleCall]
    /\ buffer = <<>>
    /\ flush = IdleFlush
    /\ requests = {}
    /\ keys = {}
    /\ rows = {}
    /\ ran = [b \in Batches |-> 0]
    /\ crashes = 0

-----------------------------------------------------------------------------
(* The client: #send and what its callers do with the result, which is     *)
(* "ok", "network" (no answer), "retryable" or "permanent" (an answer).    *)

Retried(result, sends) == result \in {"network", "retryable"} /\ sends < MaxSends

\* #request of a batch: only a network error leads to the buffer.
AfterCall(b, result) ==
    IF Retried(result, calls[b].sends) THEN [at |-> "sending", sends |-> calls[b].sends + 1]
    ELSE CASE result = "ok"        -> [at |-> "accepted", sends |-> 0]
           [] result = "permanent" -> [at |-> "rejected", sends |-> 0]
           [] result = "network"   -> [at |-> "saving", sends |-> 0]
           [] OTHER                -> [at |-> "failed", sends |-> 0]

\* A faulty variant: what is next is taken for completed, too.
CompletedAll == flush.done \union {flush.todo[i] : i \in 1..Len(flush.todo)}

Completed == flush.done

\* flushOffline: in order; a permanent error leaves it with nothing removed, an
\* error that is not permanent ends the loop.
AfterFlush(result) ==
    CASE Retried(result, flush.sends) -> [flush EXCEPT !.sends = @ + 1]
      [] result = "ok" /\ Len(flush.todo) > 1 ->
             [flush EXCEPT !.todo = Tail(@), !.done = @ \union {Head(flush.todo)}, !.sends = 1]
      [] result = "ok" /\ Len(flush.todo) <= 1 ->
             [flush EXCEPT !.at = "removing", !.todo = <<>>,
                           !.done = @ \union {Head(flush.todo)}, !.sends = 0]
      [] result = "permanent" -> IdleFlush
      [] ~Retried(result, flush.sends) /\ result \in {"network", "retryable"} ->
             [at |-> "removing", todo |-> <<>>, done |-> Completed, sends |-> 0]

\* The request q ends for the one who waits for it, and the next one is sent;
\* kept is what remains of q.
Answer(q, result, kept) ==
    CASE q.by = "call" ->
           LET call == AfterCall(q.batch, result)
           IN  /\ calls' = [calls EXCEPT ![q.batch] = call]
               /\ requests' = (requests \ {q}) \union kept
                      \union (IF call.at = "sending" THEN {Sent(q.batch, "call")} ELSE {})
               /\ UNCHANGED <<buffer, flush>>
      [] q.by = "flush" ->
           LET f == AfterFlush(result)
           IN  /\ flush' = f
               /\ requests' = (requests \ {q}) \union kept
                      \union (IF f.at = "sending" THEN {Sent(Head(f.todo), "flush")} ELSE {})
               /\ UNCHANGED <<calls, buffer>>
      [] q.by = "nobody" ->
           /\ requests' = (requests \ {q}) \union kept
           /\ UNCHANGED clientVars

\* ingestBatch.  The application may try again what failed.
Ingest(b) ==
    /\ calls[b].at \in {"idle", "failed", "unknown"}
    /\ calls' = [calls EXCEPT ![b] = [at |-> "sending", sends |-> 1]]
    /\ requests' = requests \union {Sent(b, "call")}
    /\ UNCHANGED <<buffer, flush, serverVars, crashes, mergeVars>>

\* offlineBuffer.enqueue, then ArcDBBufferedError.
Enqueue(b) ==
    /\ calls[b].at = "saving"
    /\ buffer' = Append(buffer, b)
    /\ calls' = [calls EXCEPT ![b] = [at |-> "buffered", sends |-> 0]]
    /\ UNCHANGED <<flush, requests, serverVars, crashes, mergeVars>>

\* A faulty variant: what was buffered last comes first.
PeekedNewestFirst == [i \in 1..Len(buffer) |-> buffer[Len(buffer) + 1 - i]]

\* offlineBuffer.peek: what was buffered first comes first.
Peeked == buffer

\* flushOffline sends the first.
StartFlush ==
    /\ flush.at = "idle" /\ buffer # <<>>
    /\ flush' = [at |-> "sending", todo |-> Peeked, done |-> {}, sends |-> 1]
    /\ requests' = requests \union {Sent(Head(Peeked), "flush")}
    /\ UNCHANGED <<calls, buffer, serverVars, crashes, mergeVars>>

\* remove: what is kept, in the order it was in.
Without(gone) ==
    LET kept     == {i \in 1..Len(buffer) : buffer[i] \notin gone}
        rank(i)  == Cardinality({j \in kept : j <= i})
        place(n) == CHOOSE i \in kept : rank(i) = n
    IN  [n \in 1..Cardinality(kept) |-> buffer[place(n)]]

\* flushOffline: remove(completed).
RemoveCompleted ==
    /\ flush.at = "removing"
    /\ buffer' = Without(flush.done)
    /\ flush' = IdleFlush
    /\ UNCHANGED <<calls, requests, serverVars, crashes, mergeVars>>

\* The application's process dies; only the buffer stays.
Crash ==
    /\ crashes < MaxCrashes
    /\ crashes' = crashes + 1
    /\ calls' = [b \in Batches |-> IF calls[b].at \in {"sending", "saving"}
                                     THEN [at |-> "unknown", sends |-> 0] ELSE calls[b]]
    /\ flush' = IdleFlush
    /\ requests' = {[q EXCEPT !.by = "nobody"] : q \in requests}
    /\ UNCHANGED <<buffer, serverVars, mergeVars>>

\* The connection fails: the client does not know what becomes of the request.
Disconnect(q) ==
    /\ q.by # "nobody"
    /\ Answer(q, "network", {[q EXCEPT !.by = "nobody"]})
    /\ UNCHANGED <<serverVars, crashes, mergeVars>>

\* A request is lost on the wire.
Lose(q) ==
    /\ q.at = "wire"
    /\ Answer(q, "network", {})
    /\ UNCHANGED <<serverVars, crashes, mergeVars>>

-----------------------------------------------------------------------------
(* The API: idempotentMutation around POST /v1/ingestion/batch.            *)

There(type, id, stored) == \E r \in stored : r.type = type /\ r.id = id

\* An identifier that the client gives can be used once.
NewId(e, stored) == e.id = None \/ ~There(e.type, e.id, stored)

CreateRun(e, stored) == NewId(e, stored)

CreateTrace(e, stored) ==
    /\ e.run = None \/ There("run", e.run, stored)
    /\ NewId(e, stored)

\* The parent has to be a span of the same trace.
CreateSpan(e, stored) ==
    /\ There("trace", e.trace, stored)
    /\ \/ e.parent = None
       \/ \E r \in stored : r.type = "span" /\ r.id = e.parent /\ r.trace = e.trace
    /\ NewId(e, stored)

Created(e, stored) ==
    CASE e.type = "run"   -> CreateRun(e, stored)
      [] e.type = "trace" -> CreateTrace(e, stored)
      [] e.type = "span"  -> CreateSpan(e, stored)

\* The events of a batch are stored in order, all or none.
EventsBefore(b, n) == {EventsOf[b][i] : i \in 1..(n - 1)}
Acceptable(b) ==
    \A n \in 1..Len(EventsOf[b]) : Created(EventsOf[b][n], rows \union EventsBefore(b, n))

\* A faulty variant: a key is looked for among those that are committed.
KeyFreeUnlocked(b) == b \notin keys

\* INSERT ... ON CONFLICT DO NOTHING waits for a transaction that inserted the
\* key and is still running.
KeyFree(b) == b \notin keys /\ \A q \in requests : ~(q.batch = b /\ q.at = "running")

Served(b) == b \in keys

Begin(q) ==
    /\ q.at = "wire"
    /\ KeyFree(q.batch)
    /\ requests' = (requests \ {q}) \union {[q EXCEPT !.at = "running"]}
    /\ UNCHANGED <<clientVars, serverVars, crashes, mergeVars>>

\* The stored answer is repeated.
Replay(q) ==
    /\ q.at = "wire"
    /\ Served(q.batch)
    /\ Answer(q, "ok", {})
    /\ UNCHANGED <<serverVars, crashes, mergeVars>>

\* All the events and the record of the key, in one transaction.
Commit(q) ==
    /\ q.at = "running"
    /\ Acceptable(q.batch)
    /\ rows' = rows \union EventsBefore(q.batch, Len(EventsOf[q.batch]) + 1)
    /\ ran' = [ran EXCEPT ![q.batch] = @ + 1]
    /\ keys' = keys \union {q.batch}
    /\ Answer(q, "ok", {})
    /\ UNCHANGED <<crashes, mergeVars>>

\* 404, 422 or a duplicate identifier.
Reject(q) ==
    /\ q.at = "running"
    /\ ~Acceptable(q.batch)
    /\ Answer(q, "permanent", {})
    /\ UNCHANGED <<serverVars, crashes, mergeVars>>

\* The transaction is rolled back: a database error (retryable or not), or the
\* API dies.
Abort(q) ==
    /\ q.at = "running"
    /\ \E result \in {"network", "retryable", "permanent"} : Answer(q, result, {})
    /\ UNCHANGED <<serverVars, crashes, mergeVars>>

ServerStep(q) == Begin(q) \/ Replay(q) \/ Commit(q) \/ Reject(q) \/ Abort(q)

IngestionNext ==
    \/ \E b \in Batches : Ingest(b) \/ Enqueue(b)
    \/ StartFlush \/ RemoveCompleted \/ Crash
    \/ \E q \in requests : Disconnect(q) \/ Lose(q) \/ ServerStep(q)
    \/ MergeNext /\ UNCHANGED <<clientVars, requests, serverVars, crashes>>

IngestionSafety == IngestionInit /\ [][IngestionNext]_vars

(***************************************************************************)
(* An application that calls flushOffline again and again, over a network  *)
(* and a database that serve what is asked of them often enough.           *)
(***************************************************************************)
Running(b, who) == [batch |-> b, by |-> who, at |-> "running"]
Arrives(q) == q \in requests /\ (Begin(q) \/ Replay(q))
Decides(q) == q \in requests /\ (Commit(q) \/ Reject(q))

IngestionFairness ==
    /\ WF_vars(StartFlush) /\ WF_vars(RemoveCompleted)
    /\ \A b \in Batches :
         /\ WF_vars(Enqueue(b))
         /\ SF_vars(Arrives(Sent(b, "flush")))
         /\ \A who \in {"call", "flush", "nobody"} : SF_vars(Decides(Running(b, who)))

IngestionSpec == IngestionSafety /\ IngestionFairness

-----------------------------------------------------------------------------
(***************************************************************************)
(* The events of a batch are stored at most once, however often the batch  *)
(* is sent by calls, flushes and restarted applications, and however many  *)
(* of its copies the API works on at the same time.                        *)
(***************************************************************************)
StoredOnce == \A b \in Batches : ran[b] <= 1

(***************************************************************************)
(* What the application was told is accepted is stored, and what it was    *)
(* told is buffered is stored or still in the buffer: no crash, rollback,  *)
(* lost answer or failing flush drops it.                                  *)
(***************************************************************************)
NothingDropped ==
    \A b \in Batches :
        /\ calls[b].at = "accepted" => ran[b] > 0
        /\ calls[b].at = "buffered" =>
               ran[b] > 0 \/ \E i \in 1..Len(buffer) : buffer[i] = b

(***************************************************************************)
(* What is at the head of the buffer and could be stored is stored, if the *)
(* application keeps flushing.                                             *)
(***************************************************************************)
HeadIsStored ==
    \A b \in Batches :
        (buffer # <<>> /\ Head(buffer) = b /\ Acceptable(b)) ~> ran[b] > 0
=============================================================================
