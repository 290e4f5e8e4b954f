---------------------------- MODULE LineageGraph ----------------------------
(***************************************************************************)
(* The lineage edges between output versions: the requests that insert     *)
(* them (POST /v1/lineage) and the requests that read what is reachable    *)
(* from a version (reachableEdges, for an impact query or an invalidation).*)
(* Transactions are READ COMMITTED: each statement sees what is committed  *)
(* when it starts.  Nothing locks a graph, and nothing deletes an edge.    *)
(*                                                                         *)
(* Two edges with the same ends, of other types or selectors, connect the  *)
(* same versions and are one here.  (An edge from a version to itself      *)
(* breaks a constraint of the table.)                                      *)
(***************************************************************************)
EXTENDS Integers, FiniteSets

CONSTANTS
    OutputVersions, \* versions of outputs, all stored already
    Inserts,        \* requests that insert an edge
    EdgeOf,         \* the edge of each
    SourceOf,       \* requests that read the graph: the version each starts from
    MaxDepth,       \* how far listDescendants follows the edges (100)
    MaxEdges        \* how many edges a synchronous read may return (10 000)

Edges   == {e \in OutputVersions \X OutputVersions : e[1] # e[2]}
Readers == DOMAIN SourceOf

ASSUME GraphAssumption ==
    /\ IsFiniteSet(OutputVersions)
    /\ EdgeOf \in [Inserts -> Edges]
    /\ SourceOf \in [Readers -> OutputVersions]
    /\ MaxDepth \in Nat \ {0} /\ MaxEdges \in Nat

VARIABLES
    insertAt,   \* how far each insert is
    saw,        \* history: the edges that were stored when each insert checked its own
    readers,    \* how far each reader is
    first       \* history: the edges that were stored when each reader began

graphVars == <<insertAt, saw, readers, first>>

\* The committed rows of lineage_edges.
StoredEdges == {EdgeOf[i] : i \in {j \in Inserts : insertAt[j] = "stored"}}

Reader   == [at : {"idle", "reading", "done", "too large"},
             queue : SUBSET OutputVersions, expanded : SUBSET OutputVersions, found : SUBSET Edges]
NoReader == [at |-> "idle", queue |-> {}, expanded |-> {}, found |-> {}]

GraphInit ==
    /\ insertAt = [i \in Inserts |-> "new"]
    /\ saw = [i \in Inserts |-> {}]
    /\ readers = [r \in Readers |-> NoReader]
    /\ first = [r \in Readers |-> {}]

-----------------------------------------------------------------------------
(* DescendantsOnce and QueueForgets are faulty variants of the definition  *)
(* that follows them.                                                      *)

Targets(graph, v) == {e[2] : e \in {f \in graph : f[1] = v}}

DescendantsOnce(graph, v) == Targets(graph, v)

\* listDescendants: what else is reached over at most MaxDepth edges.
Descendants(graph, v) ==
    LET within[n \in 1..MaxDepth] ==
            IF n = 1 THEN Targets(graph, v)
            ELSE within[n - 1] \union UNION {Targets(graph, w) : w \in within[n - 1]}
    IN  within[MaxDepth] \ {v}

\* POST /v1/lineage up to its insert: an edge that closes a cycle is refused.
CheckEdge(i) ==
    /\ insertAt[i] = "new"
    /\ EdgeOf[i][1] \notin Descendants(StoredEdges, EdgeOf[i][2])
    /\ insertAt' = [insertAt EXCEPT ![i] = "checked"]
    /\ saw' = [saw EXCEPT ![i] = StoredEdges]
    /\ UNCHANGED <<readers, first>>

\* The insert, the lifecycle event and the commit.
CommitEdge(i) ==
    /\ insertAt[i] = "checked"
    /\ insertAt' = [insertAt EXCEPT ![i] = "stored"]
    /\ UNCHANGED <<saw, readers, first>>

\* The request fails, and is sent again or not.
DropEdge(i) ==
    /\ insertAt[i] = "checked"
    /\ insertAt' = [insertAt EXCEPT ![i] = "new"]
    /\ saw' = [saw EXCEPT ![i] = {}]
    /\ UNCHANGED <<readers, first>>

BeginReading(r) ==
    /\ readers[r].at = "idle"
    /\ readers' = [readers EXCEPT ![r].at = "reading", ![r].queue = {SourceOf[r]}]
    /\ first' = [first EXCEPT ![r] = StoredEdges]
    /\ UNCHANGED <<insertAt, saw>>

QueueForgets(queue, v, reached, expanded) == reached \ expanded

\* What is left to expand, after v was.
QueueAfter(queue, v, reached, expanded) == (queue \ {v}) \union (reached \ expanded)

\* listOutgoing of one version, in a statement of its own.
Expand(r, v) ==
    LET expanded == readers[r].expanded \union {v}
        found    == readers[r].found \union {e \in StoredEdges : e[1] = v}
    IN  /\ readers[r].at = "reading"
        /\ v \in readers[r].queue
        /\ readers' = [readers EXCEPT ![r] =
               [at       |-> IF Cardinality(found) > MaxEdges THEN "too large" ELSE "reading",
                queue    |-> QueueAfter(readers[r].queue, v, Targets(StoredEdges, v), expanded),
                expanded |-> expanded,
                found    |-> found]]
        /\ UNCHANGED <<insertAt, saw, first>>

\* The queue is empty: the edges are handed to computeImpact.
EndReading(r) ==
    /\ readers[r].at = "reading"
    /\ readers[r].queue = {}
    /\ readers' = [readers EXCEPT ![r].at = "done"]
    /\ UNCHANGED <<insertAt, saw, first>>

GraphNext ==
    \/ \E i \in Inserts : CheckEdge(i) \/ CommitEdge(i) \/ DropEdge(i)
    \/ \E r \in Readers : BeginReading(r) \/ (\E v \in OutputVersions : Expand(r, v)) \/ EndReading(r)

GraphSpec == GraphInit /\ [][GraphNext]_graphVars

-----------------------------------------------------------------------------
(* Properties.                                                             *)

GraphTypeOK ==
    /\ insertAt \in [Inserts -> {"new", "checked", "stored"}]
    /\ saw \in [Inserts -> SUBSET Edges]
    /\ readers \in [Readers -> Reader]
    /\ first \in [Readers -> SUBSET Edges]

\* What is reached from v over any number of edges.
ReachedFrom(graph, v) ==
    CHOOSE part \in SUBSET OutputVersions :
        /\ v \in part
        /\ \A e \in graph : e[1] \in part => e[2] \in part
        /\ \A less \in SUBSET part :
              v \in less /\ (\A e \in graph : e[1] \in less => e[2] \in less) => less = part

\* The edges of a cycle that visits no version twice.
SimpleCycle(cycle) ==
    /\ cycle # {}
    /\ \A e \in cycle : Cardinality({f \in cycle : f[1] = e[2]}) = 1
    /\ \A e \in cycle : \A f \in cycle : f[1] \in ReachedFrom(cycle, e[2])

\* The cycle check of POST /v1/lineage and the insert are not serialized, and the
\* check stops at MaxDepth.  The graph has a cycle only if one of the two let it in:
\* two of its edges were checked each before the other was stored, or the rest of
\* the cycle is longer than MaxDepth.
CyclesNeedOverlap ==
    \A cycle \in SUBSET StoredEdges : SimpleCycle(cycle) =>
        \/ Cardinality(cycle) > MaxDepth + 1
        \/ \E i, j \in Inserts : /\ insertAt[i] = "stored" /\ insertAt[j] = "stored"
                                 /\ {EdgeOf[i], EdgeOf[j]} \subseteq cycle
                                 /\ EdgeOf[i] \notin saw[j] /\ EdgeOf[j] \notin saw[i]
                                 /\ i # j

Starting(graph, within) == {e \in graph : e[1] \in within}

\* What reachableEdges returns lies between two graphs that were there, although it
\* reads with one statement per version while edges are inserted: it has every edge
\* that could be reached when it began, and none that cannot be reached from the
\* source by what it has.
ReadsAGraphBetween ==
    \A r \in Readers : readers[r].at = "done" =>
        LET found == readers[r].found
        IN  /\ Starting(first[r], ReachedFrom(first[r], SourceOf[r])) \subseteq found
            /\ found \subseteq Starting(StoredEdges, ReachedFrom(found, SourceOf[r]))
=============================================================================
