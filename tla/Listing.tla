------------------------------- MODULE Listing -------------------------------
(***************************************************************************)
(* A client follows the pages of a list (GET /v1/outputs, effects, runs,   *)
(* traces, audit-events) while rows are stored and traces are merged.      *)
(*                                                                         *)
(* Rows are ordered by an instant and an id, newest first: created_at, the *)
(* start of the transaction, or started_at, which the client gives and a   *)
(* later OTLP export of the same trace makes earlier.  The database keeps  *)
(* instants to the microsecond; a cursor has what Date.toISOString tells   *)
(* of the last row, milliseconds.                                          *)
(*                                                                         *)
(* A row stands for one that matches the filters of the request.           *)
(***************************************************************************)
EXTENDS Integers, FiniteSets

CONSTANTS
    Rows,        \* the rows of a project, by their ids
    Traces,      \* those that are ordered by started_at and may be merged
    Limit,       \* rows per page
    Millisecond, \* ticks of the database clock per tick of a cursor
    LastTick     \* bound: the last instant

ASSUME ListingAssumption ==
    /\ Rows \subseteq Nat /\ IsFiniteSet(Rows) /\ Traces \subseteq Rows
    /\ Limit \in Nat \ {0} /\ Millisecond \in Nat \ {0} /\ LastTick \in Nat \ {0}

VARIABLES
    tick,      \* the clock of the database
    rowIs,     \* "none", "open" (inserted, not committed), "stored"
    startedAt, \* the instant a row is ordered by
    listingIs, \* "idle", "reading", "done"
    cursor,    \* the cursor of the next page
    listed,    \* how often the client was given each row
    present,   \* history: the rows stored when the listing began
    moved,     \* history: the traces made earlier since
    turns      \* history: the instant of the last row of each page but the last

listingVars == <<tick, rowIs, startedAt, listingIs, cursor, listed, present, moved, turns>>

FirstPage == [at |-> LastTick + 1, id |-> 0]

ListingInit ==
    /\ tick = 1
    /\ rowIs = [r \in Rows |-> "none"]
    /\ startedAt = [r \in Rows |-> 0]
    /\ listingIs = "idle"
    /\ cursor = FirstPage
    /\ listed = [r \in Rows |-> 0]
    /\ present = {} /\ moved = {} /\ turns = {}

-----------------------------------------------------------------------------
\* withTenant: the rows of one transaction have one created_at.
InsertRow(r) ==
    /\ rowIs[r] = "none"
    /\ \E at \in (IF r \in Traces THEN 1..LastTick ELSE {tick}) :
          startedAt' = [startedAt EXCEPT ![r] = at]
    /\ rowIs' = [rowIs EXCEPT ![r] = "open"]
    /\ UNCHANGED <<tick, listingIs, cursor, listed, present, moved, turns>>

CommitRow(r) ==
    /\ rowIs[r] = "open"
    /\ rowIs' = [rowIs EXCEPT ![r] = "stored"]
    /\ UNCHANGED <<tick, startedAt, listingIs, cursor, listed, present, moved, turns>>

\* persistTrace: started_at = LEAST(traces.started_at, EXCLUDED.started_at)
MergeTrace(r) ==
    /\ r \in Traces
    /\ rowIs[r] = "stored"
    /\ \E at \in 1..(startedAt[r] - 1) : startedAt' = [startedAt EXCEPT ![r] = at]
    /\ moved' = moved \union {r}
    /\ UNCHANGED <<tick, rowIs, listingIs, cursor, listed, present, turns>>

ClockTicks ==
    /\ tick < LastTick
    /\ tick' = tick + 1
    /\ UNCHANGED <<rowIs, startedAt, listingIs, cursor, listed, present, moved, turns>>

-----------------------------------------------------------------------------
\* new Date(at).toISOString()
Truncated(at) == at - (at % Millisecond)

\* (started_at, id) < (cursor.createdAt, cursor.id)
Beyond(r, c) == startedAt[r] < c.at \/ (startedAt[r] = c.at /\ r < c.id)

\* The first n of some rows: ORDER BY started_at DESC, id DESC LIMIT n
Top(n, rows) ==
    {r \in rows : Cardinality({s \in rows : Beyond(r, [at |-> startedAt[s], id |-> s])}) < n}

FetchedExactly(rows) == Top(Limit, rows)

\* One row more than a page tells whether there is another page.
Fetched(rows) == Top(Limit + 1, rows)

BeginListing ==
    /\ listingIs = "idle"
    /\ listingIs' = "reading"
    /\ present' = {r \in Rows : rowIs[r] = "stored"}
    /\ moved' = {}
    /\ UNCHANGED <<tick, rowIs, startedAt, cursor, listed, turns>>

\* One request of the client, in one statement.
NextPage ==
    LET fetched  == Fetched({r \in Rows : rowIs[r] = "stored" /\ Beyond(r, cursor)})
        selected == Top(Limit, fetched)
        hasMore  == Cardinality(fetched) > Limit
        last     == CHOOSE r \in selected : \A s \in selected \ {r} :
                       Beyond(r, [at |-> startedAt[s], id |-> s])
    IN  /\ listingIs = "reading"
        /\ listed' = [r \in Rows |-> IF r \in selected THEN listed[r] + 1 ELSE listed[r]]
        /\ IF hasMore
           THEN /\ cursor' = [at |-> Truncated(startedAt[last]), id |-> last]
                /\ turns' = turns \union {startedAt[last]}
                /\ UNCHANGED listingIs
           ELSE /\ listingIs' = "done"
                /\ UNCHANGED <<cursor, turns>>
        /\ UNCHANGED <<tick, rowIs, startedAt, present, moved>>

ListingNext ==
    \/ \E r \in Rows : InsertRow(r) \/ CommitRow(r) \/ MergeTrace(r)
    \/ ClockTicks
    \/ BeginListing
    \/ NextPage

ListingSpec == ListingInit /\ [][ListingNext]_listingVars

-----------------------------------------------------------------------------
(* Properties.                                                             *)

ListingTypeOK ==
    /\ tick \in 1..LastTick
    /\ rowIs \in [Rows -> {"none", "open", "stored"}]
    /\ startedAt \in [Rows -> 0..LastTick]
    /\ listingIs \in {"idle", "reading", "done"}
    /\ cursor \in [at : 0..(LastTick + 1), id : Rows \union {0}]
    /\ listed \in [Rows -> Nat]
    /\ present \subseteq Rows /\ moved \subseteq Rows /\ turns \subseteq 1..LastTick

\* The pages of a list have every row that was stored when the first was asked for
\* and whose place did not change, but for rows of the same millisecond as the last
\* row of a page, and earlier than it or of the same instant; and they repeat only
\* a trace whose start was made earlier.
SkippedOnlyWithinMillisecond ==
    /\ listingIs = "done" =>
          \A r \in present \ moved : listed[r] = 1 \/ \E at \in turns :
              Truncated(at) <= startedAt[r] /\ startedAt[r] <= at
    /\ \A r \in Rows : listed[r] <= 1 \/ r \in moved

\* guideline.md:770: "support pagination, filtering, and server-side search for all
\* large views".  A client that follows the cursors to the end has seen every row
\* that was stored all the time.
NoRowSkipped ==
    listingIs = "done" => \A r \in present \ moved : listed[r] > 0
=============================================================================
