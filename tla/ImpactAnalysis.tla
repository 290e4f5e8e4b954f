---------------------------- MODULE ImpactAnalysis ----------------------------
(***************************************************************************)
(* What a change of an Output version affects: the work-list algorithm of  *)
(* computeImpact (packages/lineage/src/impact.ts) over the lineage edges,  *)
(* and the test of two component selectors for intersection                *)
(* (selectors.ts) that decides where the change propagates.                *)
(*                                                                         *)
(* An edge without a selector has UnknownSelector.  A transfer function    *)
(* treats selectors one by one, and rejects them by answering none; no     *)
(* code in src registers one, nor a fingerprint resolver.                  *)
(*                                                                         *)
(* The algorithm is sequential.  Its steps are modelled one by one, for    *)
(* every graph in Graphs and every delta in Deltas, because its loop       *)
(* invariant is what makes the result right: a version may come back to    *)
(* the queue when it gains selectors, and lineage may have cycles.         *)
(***************************************************************************)
EXTENDS Integers, Sequences, FiniteSets

CONSTANTS
    Versions,    \* version ids
    Source,      \* the version that changed
    Selectors,   \* component selectors, UnknownSelector among them
    Transfers,   \* names of transfer functions
    Transfer,    \* the registered ones: what each makes of a selector
    Graphs,      \* sets of lineage edges to analyse
    Deltas,      \* sets of changed selectors to analyse
    Stable,      \* sets of versions to take as unchanged
    Components,  \* what selectors select: paths without wildcards
    Dotted       \* keys with dots, only written in brackets, and the parts between the dots

(***************************************************************************)
(* A selector: the keys of a JSON path, the segments of a file path ("."   *)
(* and ".." may be among them, and "" for a slash too many) or the parts   *)
(* of a dotted name; a single one for a symbol or a record.  A directory   *)
(* is a file selector that ends in a slash; "opaque" is syntax the code    *)
(* does not take apart (globs, filters and ranges of JSON paths).          *)
(***************************************************************************)
Kinds == {"json_path", "file", "table_column", "symbol", "record", "unknown"}
Forms == {"plain", "directory", "opaque"}

UnknownSelector == [kind |-> "unknown", path |-> <<"*">>, form |-> "plain"]

\* What the code takes apart: only files have directories, only JSON paths and files
\* have opaque syntax, and the name of a symbol or a record is taken whole.
WellFormed(s) ==
    /\ s \in [kind : Kinds, path : Seq(STRING), form : Forms]
    /\ s.form = "directory" => s.kind = "file"
    /\ s.form = "opaque" => s.kind \in {"json_path", "file"}
    /\ s.kind = "file" => s.path # <<>> /\ (s.form = "plain" => s.path[Len(s.path)] # "")
    /\ s.kind \in {"symbol", "record"} => Len(s.path) = 1

Edge == [id : Nat, source : Versions, target : Versions, selector : Selectors,
         transfer : Transfers \union {"none"}]

ASSUME ImpactAssumption ==
    /\ IsFiniteSet(Versions)
    /\ Source \in Versions
    /\ UnknownSelector \in Selectors
    /\ \A s \in Selectors : WellFormed(s)
    /\ \A c \in Components : c.path \in Seq(STRING)
    /\ Dotted \in [DOMAIN Dotted -> Seq(STRING)]
    /\ "*" \notin DOMAIN Dotted
    /\ Transfer \in [DOMAIN Transfer -> [Selectors -> SUBSET Selectors]]
    /\ DOMAIN Transfer \subseteq Transfers
    /\ Stable \subseteq SUBSET Versions
    /\ Graphs \subseteq SUBSET Edge
    /\ Deltas \subseteq (SUBSET Selectors) \ {{}}

-----------------------------------------------------------------------------
(***************************************************************************)
(* Selectors                                                               *)
(***************************************************************************)
TokensMatch(x, y) == x = "*" \/ y = "*" \/ x = y

\* A key with dots becomes several tokens: $['b.c'].x is taken for $.b.c.x.
PartsOf(key) == IF key \in DOMAIN Dotted THEN Dotted[key] ELSE <<key>>

TokensOfPath(path) ==
    LET upTo[n \in 0..Len(path)] == IF n = 0 THEN <<>> ELSE upTo[n - 1] \o PartsOf(path[n])
    IN  upTo[Len(path)]

\* Mutant: the paths must have the same length.
JsonPathsIntersectExactly(l, r) ==
    Len(l.path) = Len(r.path) /\ \A k \in DOMAIN l.path : TokensMatch(l.path[k], r.path[k])

\* One path is an ancestor of the other, up to wildcards.
JsonPathsIntersect(l, r) ==
    \/ "opaque" \in {l.form, r.form}
    \/ LET x == TokensOfPath(l.path)
           y == TokensOfPath(r.path)
       IN  \A k \in DOMAIN x \intersect DOMAIN y : TokensMatch(x[k], y[k])

\* One "./" in front goes, and slashes that follow another.  "./" alone becomes "",
\* which is not a directory.
NormalizeFile(s) ==
    LET stripped == IF s.path[1] = "." /\ (s.form = "directory" \/ Len(s.path) > 1)
                    THEN Tail(s.path) ELSE s.path
    IN  IF stripped = <<>>
        THEN [s EXCEPT !.path = <<>>, !.form = "plain"]
        ELSE [s EXCEPT !.path = <<stripped[1]>> \o SelectSeq(Tail(stripped), LAMBDA x : x # "")]

\* x.startsWith(d), d a directory
Under(x, d) ==
    /\ \A k \in DOMAIN d.path : k \in DOMAIN x.path /\ x.path[k] = d.path[k]
    /\ x.form = "directory" \/ Len(x.path) > Len(d.path)

\* A directory on the left is only asked whether the right is in it.
FilesIntersect(left, right) ==
    LET l == NormalizeFile(left)
        r == NormalizeFile(right)
    IN  \/ "opaque" \in {l.form, r.form}
        \/ l = r
        \/ l.form = "directory" /\ Under(r, l)
        \/ l.form # "directory" /\ r.form = "directory" /\ Under(l, r)

DottedSelectorsIntersect(l, r) ==
    /\ Len(l.path) = Len(r.path)
    /\ \A k \in DOMAIN l.path : TokensMatch(l.path[k], r.path[k])

SelectorsIntersect(l, r) ==
    \/ "unknown" \in {l.kind, r.kind}
    \/ /\ l.kind = r.kind
       /\ \/ l.kind = "json_path" /\ JsonPathsIntersect(l, r)
          \/ l.kind = "file" /\ FilesIntersect(l, r)
          \/ l.kind = "table_column" /\ DottedSelectorsIntersect(l, r)
          \/ l.kind \in {"symbol", "record"} /\ (<<"*">> \in {l.path, r.path} \/ l.path = r.path)

-----------------------------------------------------------------------------
VARIABLES
    graph, delta,  \* the input
    unchanged,     \* the input: versions whose recomputed fingerprint is theirs already
    selectors,     \* the affected selectors of each version; {} if not affected
    generation,    \* of the affected versions: distance at which they were found
    skipped,       \* targets of edges that did not propagate
    reasons,       \* the edges that did: the AFFECTED part of the reason graph
    propagated,    \* the selectors of each version already sent along its edges
    queue,         \* the work list
    current,       \* the version being expanded
    batch,         \* its selectors that are being sent
    todo           \* its edges not yet visited

vars == <<graph, delta, unchanged, selectors, generation, skipped, reasons,
          propagated, queue, current, batch, todo>>

TypeOK ==
    /\ graph \in SUBSET Edge
    /\ delta \in SUBSET Selectors
    /\ unchanged \in SUBSET Versions
    /\ selectors \in [Versions -> SUBSET Selectors]
    /\ generation \in [Versions -> Nat]
    /\ skipped \in SUBSET Versions
    /\ reasons \in SUBSET graph
    /\ propagated \in [Versions -> SUBSET Selectors]
    /\ queue \in Seq(Versions)
    /\ current \in Versions
    /\ batch \in SUBSET Selectors
    /\ todo \in SUBSET graph

Init ==
    /\ graph \in Graphs
    /\ delta \in Deltas
    /\ unchanged \in Stable
    /\ selectors = [v \in Versions |-> IF v = Source THEN delta ELSE {}]
    /\ generation = [v \in Versions |-> 0]
    /\ skipped = {}
    /\ reasons = {}
    /\ propagated = [v \in Versions |-> {}]
    /\ queue = <<Source>>
    /\ current = Source
    /\ batch = {}
    /\ todo = {}

IsAffected(v) == selectors[v] # {}

Expanding == todo # {}
Done == queue = <<>> /\ ~Expanding

\* Mutant: what was sent is not noted, and sent again.
AfterSendingForgotten(v) == propagated[v]

AfterSending(v) == propagated[v] \union selectors[v]

\* The next version of the work list sends those of its selectors that it has
\* not sent yet, if any, along all its edges.
Dequeue ==
    LET v == Head(queue)
        new == selectors[v] \ propagated[v]
    IN  /\ queue # <<>>
        /\ ~Expanding
        /\ queue' = Tail(queue)
        /\ current' = v
        /\ batch' = new
        /\ propagated' = [propagated EXCEPT ![v] = AfterSending(v)]
        /\ todo' = IF new = {} THEN {} ELSE {e \in graph : e.source = v}
        /\ UNCHANGED <<graph, delta, unchanged, selectors, generation, skipped, reasons>>

\* What a selector becomes along an edge.  Without a registered transfer
\* function the whole target is affected.
Flow(e, s) == IF e.transfer \in DOMAIN Transfer THEN Transfer[e.transfer][s]
                                                ELSE {UnknownSelector}

FlowOfAll(e, S) == UNION {Flow(e, s) : s \in S}

\* An edge is visited: the batch is sent whole if any of it intersects the edge.
\* What arrives is nothing if all of it is disjoint, if the transfer function
\* rejects it or if the target is unchanged.
Arriving(e) ==
    IF /\ \E s \in batch : SelectorsIntersect(s, e.selector)
       /\ e.target \notin unchanged
    THEN FlowOfAll(e, batch)
    ELSE {}

\* Edges are visited in the order of their ids.
IsNext(e) == e \in todo /\ \A f \in todo : e.id <= f.id

ReportSkipped(v) == skipped \union {v}

Skip(e) ==
    /\ IsNext(e)
    /\ Arriving(e) = {}
    /\ skipped' = ReportSkipped(e.target)
    /\ todo' = todo \ {e}
    /\ UNCHANGED <<graph, delta, unchanged, selectors, generation, reasons,
                   propagated, queue, current, batch>>

\* The generation of a target: what it was, if found before by a shorter way.
Distance(v) ==
    IF IsAffected(v) /\ generation[v] <= generation[current] + 1
    THEN generation[v] ELSE generation[current] + 1

\* Mutant: a target that has been expanded does not come back.
MustExpandOnce(v, S) == propagated[v] = {}

\* A target with a selector that is new to it, or that was never expanded, goes
\* to the end of the queue.
MustExpand(v, S) == ~(S \subseteq selectors[v]) \/ propagated[v] = {}

Propagate(e) ==
    LET t == e.target
    IN  /\ IsNext(e)
        /\ Arriving(e) # {}
        /\ selectors' = [selectors EXCEPT ![t] = @ \union Arriving(e)]
        /\ generation' = [generation EXCEPT ![t] = Distance(t)]
        /\ skipped' = skipped \ {t}
        /\ reasons' = reasons \union {e}
        /\ queue' = IF MustExpand(t, Arriving(e)) THEN Append(queue, t) ELSE queue
        /\ todo' = todo \ {e}
        /\ UNCHANGED <<graph, delta, unchanged, propagated, current, batch>>

Next == Dequeue \/ \E e \in todo : Skip(e) \/ Propagate(e)

Spec == Init /\ [][Next]_vars

\* The loop runs to its end.
FairSpec == Spec /\ WF_vars(Next)

\* skippedNodes: those not affected by another way.
SkippedNodes == {v \in skipped : ~IsAffected(v)}

\* The recomputation steps of the plan: every affected version but the source, with the
\* affected versions it has an edge from, and its place in the order of the plan.
RecomputationSteps ==
    {[version    |-> v,
      generation |-> IF generation[v] = 0 THEN 1 ELSE generation[v],
      dependsOn  |-> {e.source : e \in {f \in graph : f.target = v /\ IsAffected(f.source)}}] :
        v \in {w \in Versions \ {Source} : IsAffected(w)}}

\* Mutant: only the edges into the version are looked at.
BackFromNear(v) == {v}

\* The versions that explainImpact visits: those from which the reasons lead to v,
\* without going on past the source.
BackFrom(v) ==
    LET back[n \in 0..Cardinality(Versions)] ==
            IF n = 0 THEN {v}
            ELSE back[n - 1] \union {w \in Versions \ {Source} :
                     \E e \in reasons : e.source = w /\ e.target \in back[n - 1]}
    IN  back[Cardinality(Versions)]

\* explainImpact: one explanation for each edge of the source that a visited version
\* has, with the way from there that the search came along.
Explanations(v) == {e \in reasons : e.source = Source /\ e.target \in BackFrom(v)}

-----------------------------------------------------------------------------
(***************************************************************************)
(* Properties                                                              *)
(***************************************************************************)

\* "Conservative selectors must not miss affected dependencies" (guideline.md:671):
\* at the end every selector of an affected version has been carried along every
\* edge that it intersects, however often versions gained selectors, and on
\* cycles too.
NothingMissed ==
    Done => /\ delta \subseteq selectors[Source]
            /\ \A e \in graph : \A s \in selectors[e.source] :
                  (SelectorsIntersect(s, e.selector) /\ e.target \notin unchanged) =>
                      Flow(e, s) \subseteq selectors[e.target]

\* "Every invalidation must produce an explainable reason graph" (guideline.md:674):
\* each affected version but the source has an edge in the reason graph from an
\* affected version of a smaller generation, so that going back along such edges
\* ends at the source, even if generations were lowered later.
Explained ==
    \A v \in Versions \ {Source} : IsAffected(v) =>
        \E e \in reasons : /\ e.target = v
                           /\ IsAffected(e.source)
                           /\ generation[e.source] < generation[v]

\* "The system must expose both affected_nodes and skipped_nodes with reasons"
\* (guideline.md:675): every target of an edge of an affected version is in one of
\* the two.
AccountedFor ==
    Done => \A e \in graph : IsAffected(e.source) =>
                IsAffected(e.target) \/ e.target \in SkippedNodes

\* What a plan tells to recompute can be explained and started: explainImpact finds a
\* way from the source to the version, although it visits each version once, and one
\* of the versions that the step depends on is the source or has an earlier step
\* (invalidation.ts:231-244, 333-350).
StepsAreExplained ==
    Done => \A step \in RecomputationSteps :
        /\ Explanations(step.version) # {}
        /\ \/ Source \in step.dependsOn
           \/ \E other \in RecomputationSteps :
                 other.version \in step.dependsOn /\ other.generation < step.generation

\* The file that a path leads to: "." and a slash too many stay where they are, ".."
\* goes up.
Resolved(path) ==
    LET IsUp(p) == p = <<>> \/ p[Len(p)] = ".."
        upTo[n \in 0..Len(path)] ==
            IF n = 0 THEN <<>>
            ELSE IF path[n] = "." \/ (path[n] = "" /\ n > 1) THEN upTo[n - 1]
            ELSE IF path[n] = ".." /\ ~IsUp(upTo[n - 1])
            THEN SubSeq(upTo[n - 1], 1, Len(upTo[n - 1]) - 1)
            ELSE Append(upTo[n - 1], path[n])
    IN  upTo[Len(path)]

PathMeant(s) == IF s.kind = "file" THEN Resolved(s.path) ELSE s.path

\* What a selector stands for: a JSON path for what is below it, a directory for
\* the files in it, the other kinds for what they match.
Covers(s, c) ==
    \/ s.kind = "unknown"
    \/ /\ s.kind = c.kind
       /\ \/ s.form = "opaque"
          \/ LET path == PathMeant(s)
             IN  /\ Len(c.path) >= Len(path)
                 /\ \A k \in DOMAIN path :
                       path[k] = c.path[k] \/ (path[k] = "*" /\ s.kind # "file")
                 /\ \/ s.kind = "json_path"
                    \/ s.form = "directory" /\ Len(c.path) > Len(path)
                    \/ s.kind # "json_path" /\ s.form = "plain" /\ Len(c.path) = Len(path)

Overlap(s, r) == \E c \in Components : Covers(s, c) /\ Covers(r, c)

\* A key with dots where the other path has a wildcard, which stands for one token.
DottedUnderWildcard(s, r) ==
    /\ s.kind = "json_path" /\ r.kind = "json_path"
    /\ \E k \in DOMAIN s.path \intersect DOMAIN r.path :
          \/ s.path[k] = "*" /\ r.path[k] \in DOMAIN Dotted
          \/ r.path[k] = "*" /\ s.path[k] \in DOMAIN Dotted

\* A file selector that the code's normal form does not take to the file it means:
\* "./", "././a", "a/../b".
NotNormalized(s) ==
    /\ s.kind = "file" /\ s.form # "opaque"
    /\ NormalizeFile(s) # [s EXCEPT !.path = Resolved(s.path)]

NestedDirectories(s, r) ==
    LET l == NormalizeFile(s)
        d == NormalizeFile(r)
    IN  /\ s.kind = "file" /\ r.kind = "file"
        /\ l # d /\ l.form = "directory" /\ d.form = "directory" /\ Under(l, d)

\* The overlaps that the test for intersection misses.
Missed(s, r) ==
    \/ DottedUnderWildcard(s, r)
    \/ NotNormalized(s) \/ NotNormalized(r)
    \/ NestedDirectories(s, r)

\* The targets that depend on a component that the delta covers.
DirectlyConcerned(e) ==
    e.source = Source /\ e.target \notin unchanged /\ e.transfer \notin DOMAIN Transfer

\* A version that depends on a component that changed is affected, however the two are
\* written, with three exceptions (selectors.ts): the inner one of two nested
\* directories changed, and filesIntersect asks only whether the second is in the first
\* (lines 57-61); a file selector that normalizeFileSelector leaves or makes something
\* else than the file it means (39-44); a key with dots, which jsonPathTokens takes for
\* several, met by a wildcard (17-28).
OverlapsReached ==
    Done => \A e \in graph : \A s \in delta :
        (DirectlyConcerned(e) /\ Overlap(s, e.selector) /\ ~Missed(s, e.selector))
            => IsAffected(e.target)

\* "Conservative selectors must not miss affected dependencies" (guideline.md:671),
\* without exception.  The exceptions are what makes this fail.
NoOverlapMissed ==
    Done => \A e \in graph : \A s \in delta :
        DirectlyConcerned(e) /\ Overlap(s, e.selector) => IsAffected(e.target)

\* The loop ends on every graph, with cycles too: a version is expanded again only
\* for selectors that are new to it, and there are finitely many.
Terminates == <>Done

============================================================================
