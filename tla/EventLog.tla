------------------------------ MODULE EventLog -------------------------------
(***************************************************************************)
(* The lifecycle events of an aggregate and the chain of audit events      *)
(* (apps/api/src/events.ts), written by concurrent transactions            *)
(* (packages/db/src/database.ts, READ COMMITTED).  Each append takes an    *)
(* advisory lock that is held until the transaction ends, and then reads   *)
(* what is committed.  Row-level security hides other projects' rows.      *)
(*                                                                         *)
(* created_at is the start of the transaction, not the time of the insert; *)
(* several transactions may begin at one instant (a microsecond).          *)
(* The audit lock is one for the tenant, so it orders all projects.        *)
(***************************************************************************)
EXTENDS Integers, FiniteSets, Sequences

CONSTANTS
    Transactions,
    Projects,
    ProjectOf,    \* the project a transaction is scoped to
    Aggregates,   \* outputs, effects, obligations
    Audit,        \* the audit log
    AppendsOf,    \* the logs a transaction appends to, in this order
    Ids,          \* uuids of audit events, drawn at random, in their order
    NoEntry,      \* no previous event
    LastInstant   \* bound: at the latest a transaction begins then

ASSUME EventLogAssumption ==
    /\ ProjectOf \in [Transactions -> Projects]
    /\ AppendsOf \in [Transactions -> Seq(Aggregates \cup {Audit})]
    /\ Audit \notin Aggregates
    /\ NoEntry \notin Transactions
    /\ Ids \subseteq Nat
    /\ LastInstant \in Nat
    /\ \A t \in Transactions : \A i, j \in 1..Len(AppendsOf[t]) :       \* one audit at most
          AppendsOf[t][i] = Audit /\ AppendsOf[t][j] = Audit => i = j
    /\ \A t, u \in Transactions : \A i \in 1..Len(AppendsOf[t]), j \in 1..Len(AppendsOf[u]) :
          AppendsOf[t][i] = AppendsOf[u][j] /\ AppendsOf[t][i] # Audit  \* an aggregate is of one project
          => ProjectOf[t] = ProjectOf[u]

VARIABLES
    clock,    \* the clock
    phaseOf,  \* of each transaction
    began,    \* now() of each transaction
    made,     \* how many of its appends a transaction has made
    events,   \* lifecycle_events: [by, log, sequence]
    trail     \* audit_events: [by, id, previous]

logVars == <<clock, phaseOf, began, made, events, trail>>

Event == [by : Transactions, log : Aggregates, sequence : Nat]
Entry == [by : Transactions, id : Nat, previous : Transactions \cup {NoEntry}]

LogInit ==
    /\ clock = 1
    /\ phaseOf = [t \in Transactions |-> "new"]
    /\ began = [t \in Transactions |-> 0]
    /\ made = [t \in Transactions |-> 0]
    /\ events = {}
    /\ trail = {}

-----------------------------------------------------------------------------
(* HoldsForEver, AuditUnlocked and SequenceFromCounter are faulty variants of *)
(* the definition that follows them.                                       *)

\* Locks: pg_advisory_xact_lock, released when the transaction ends.
Took(t, log) == \E k \in 1..made[t] : AppendsOf[t][k] = log

HoldsForEver(t, log) == phaseOf[t] \in {"active", "aborted"} /\ Took(t, log)

\* A lock is given back by the end of its transaction.
Holds(t, log) == phaseOf[t] = "active" /\ Took(t, log)

Wants(t) == AppendsOf[t][made[t] + 1]
Appending(t) == phaseOf[t] = "active" /\ made[t] < Len(AppendsOf[t])

Waits(t, u)  == t # u /\ Appending(t) /\ Holds(u, Wants(t))

\* t is on a cycle of transactions that wait for each other.
Deadlocked(t) ==
    \E others \in SUBSET Transactions :
        /\ t \in others
        /\ \A u \in others : /\ \E v \in others : Waits(u, v)
                             /\ \E v \in others : Waits(v, u)

Free(t, log) == ~\E u \in Transactions \ {t} : Holds(u, log)

AuditUnlocked(t) == TRUE

\* The lock of the audit log.
AuditFree(t) == Free(t, Audit)

\* What a statement of t reads.
Visible(t, rows) ==
    {e \in rows : /\ e.by = t \/ phaseOf[e.by] = "committed"
                  /\ ProjectOf[e.by] = ProjectOf[t]}

\* withTenant
BeginTransaction(t) ==
    /\ phaseOf[t] = "new"
    /\ phaseOf' = [phaseOf EXCEPT ![t] = "active"]
    /\ began' = [began EXCEPT ![t] = clock]
    /\ clock' \in {clock, clock + 1}
    /\ clock' <= LastInstant
    /\ UNCHANGED <<made, events, trail>>

SequenceFromCounter(t, log) == Cardinality({u \in Transactions : Took(u, log)}) + 1

\* COALESCE(max(sequence), 0) + 1
NextSequence(t, log) ==
    LET taken == {e.sequence : e \in {f \in Visible(t, events) : f.log = log}}
    IN  IF taken = {} THEN 1
        ELSE (CHOOSE n \in taken : \A m \in taken : m <= n) + 1

\* f comes after e in the order created_at DESC, id DESC.
SortsBelow(f, e) ==
    \/ began[f.by] < began[e.by]
    \/ began[f.by] = began[e.by] /\ f.id < e.id

\* ORDER BY created_at DESC, id DESC LIMIT 1
Newest(entries) ==
    IF entries = {} THEN NoEntry
    ELSE (CHOOSE e \in entries : \A f \in entries \ {e} : SortsBelow(f, e)).by

\* appendLifecycleEvent
AppendLifecycleEvent(t) ==
    /\ Appending(t)
    /\ Wants(t) \in Aggregates
    /\ Free(t, Wants(t))
    /\ events' = events \cup {[by |-> t, log |-> Wants(t),
                               sequence |-> NextSequence(t, Wants(t))]}
    /\ made' = [made EXCEPT ![t] = @ + 1]
    /\ UNCHANGED <<clock, phaseOf, began, trail>>

\* appendAuditEvent
AppendAuditEvent(t) ==
    /\ Appending(t)
    /\ Wants(t) = Audit
    /\ AuditFree(t)
    /\ \E id \in Ids \ {e.id : e \in trail} :
          trail' = trail \cup {[by |-> t, id |-> id, previous |-> Newest(Visible(t, trail))]}
    /\ made' = [made EXCEPT ![t] = @ + 1]
    /\ UNCHANGED <<clock, phaseOf, began, events>>

CommitTransaction(t) ==
    /\ phaseOf[t] = "active" /\ ~Appending(t)
    /\ phaseOf' = [phaseOf EXCEPT ![t] = "committed"]
    /\ UNCHANGED <<clock, began, made, events, trail>>

RollBack(t) ==
    /\ phaseOf' = [phaseOf EXCEPT ![t] = "aborted"]
    /\ events' = {e \in events : e.by # t}
    /\ trail' = {e \in trail : e.by # t}
    /\ UNCHANGED <<clock, began, made>>

\* Any error in the route, or a crash.
AbortTransaction(t) == phaseOf[t] = "active" /\ RollBack(t)

\* PostgreSQL ends a transaction that waits for itself, by way of others.
BreakDeadlock(t) ==
    /\ phaseOf[t] = "active"
    /\ Deadlocked(t)
    /\ RollBack(t)

TransactionStep(t) == AppendLifecycleEvent(t) \/ AppendAuditEvent(t) \/ CommitTransaction(t) \/ BreakDeadlock(t)

LogNext == \E t \in Transactions : BeginTransaction(t) \/ TransactionStep(t) \/ AbortTransaction(t)

\* A transaction that was begun goes on; the server looks for deadlocks.
LogSpec == LogInit /\ [][LogNext]_logVars /\ \A t \in Transactions : WF_logVars(TransactionStep(t))

-----------------------------------------------------------------------------
(* Properties.                                                             *)

LogTypeOK ==
    /\ clock \in Nat
    /\ phaseOf \in [Transactions -> {"new", "active", "committed", "aborted"}]
    /\ began \in [Transactions -> Nat]
    /\ made \in [Transactions -> Nat]
    /\ events \subseteq Event
    /\ trail \subseteq Entry

Committed(rows) == {e \in rows : phaseOf[e.by] = "committed"}

\* The committed events of an aggregate are numbered 1, 2, 3, ... without a gap or
\* a repetition, whichever of the transactions that appended to it rolled back
\* (appendLifecycleEvent).
SequencesGapFree == \A log \in Aggregates :
    LET logged == {e \in Committed(events) : e.log = log}
    IN  {e.sequence : e \in logged} = 1..Cardinality(logged)

\* Every audit event but the first of its project follows one that was committed
\* before it, never one that is rolled back; and the chain forks only where an event is
\* below the one that it follows, so that it is not the newest one for the next: its
\* transaction began earlier and appended later, or began at the same instant and the
\* event drew a smaller id (appendAuditEvent, which orders by created_at and id).
ChainForksOnlyOutOfOrder ==
    /\ \A e \in Committed(trail) : e.previous # NoEntry => phaseOf[e.previous] = "committed"
    /\ \A e, f \in Committed(trail) :
          e # f /\ e.previous = f.previous /\ ProjectOf[e.by] = ProjectOf[f.by]
          => \E g \in {e, f}, p \in Committed(trail) : p.by = e.previous /\ SortsBelow(g, p)

\* Transactions that append to the same logs in different orders may wait for each
\* other, but every transaction that was begun ends (advisory locks, rolled back or
\* not, are given back).
EveryTransactionEnds == \A t \in Transactions :
    phaseOf[t] = "active" ~> phaseOf[t] \in {"committed", "aborted"}
=============================================================================
