----------------------------- MODULE ImpactProofs -----------------------------
(***************************************************************************)
(* Theorems about ImpactAnalysis, for any graph, delta, selectors and      *)
(* transfer functions, and about LineageGraph, for any versions and edges. *)
(* All but OverlapsAreReached hold of any test for intersection: what      *)
(* SelectorsIntersect says is used for that one alone.                     *)
(***************************************************************************)
EXTENDS ImpactAnalysis, LineageGraph, FiniteSetTheorems, SequenceTheorems, WellFoundedInduction, TLAPS

LEMMA FlowType ==
  ASSUME NEW e, NEW s \in Selectors
  PROVE  Flow(e, s) \in SUBSET Selectors
BY ImpactAssumption DEF Flow

LEMMA ArrivingType ==
  ASSUME TypeOK, NEW e
  PROVE  Arriving(e) \in SUBSET Selectors
BY FlowType DEF Arriving, FlowOfAll, TypeOK

\* What an edge carries of the batch has arrived when it has been visited.
LEMMA ArrivingCarries ==
  ASSUME TypeOK, NEW e, NEW s \in batch, SelectorsIntersect(s, e.selector),
         e.target \notin unchanged
  PROVE  Flow(e, s) \subseteq Arriving(e)
BY DEF Arriving, FlowOfAll

LEMMA EdgeType ==
  ASSUME TypeOK, NEW e \in graph
  PROVE  e.source \in Versions /\ e.target \in Versions
BY DEF TypeOK, Edge

LEMMA DistanceType ==
  ASSUME TypeOK, NEW v \in Versions
  PROVE  /\ Distance(v) \in Nat
         /\ IsAffected(v) => Distance(v) <= generation[v]
         /\ Distance(v) = generation[current] + 1
              \/ (IsAffected(v) /\ Distance(v) = generation[v])
BY DEF Distance, TypeOK

\* Every state of the loop is well typed.
LEMMA TypeStep ==
  ASSUME TypeOK, [Next]_vars
  PROVE  TypeOK'
<1>1. CASE UNCHANGED vars
  BY <1>1 DEF vars, TypeOK
<1>2. CASE Dequeue
  <2>1. Head(queue) \in Versions /\ Tail(queue) \in Seq(Versions)
    BY <1>2 DEF Dequeue, TypeOK
  <2>2. propagated' \in [Versions -> SUBSET Selectors]
    BY <1>2, <2>1 DEF Dequeue, AfterSending, TypeOK
  <2>3. batch' \in SUBSET Selectors /\ todo' \in SUBSET graph
    BY <1>2, <2>1 DEF Dequeue, TypeOK
  <2> QED
    BY <1>2, <2>1, <2>2, <2>3 DEF Dequeue, TypeOK
<1>3. ASSUME NEW e \in todo, Skip(e)
      PROVE  TypeOK'
  BY <1>3, EdgeType DEF Skip, ReportSkipped, TypeOK
<1>4. ASSUME NEW e \in todo, Propagate(e)
      PROVE  TypeOK'
  <2>1. e \in graph /\ e.target \in Versions
    BY <1>4, EdgeType DEF TypeOK
  <2>2. selectors' \in [Versions -> SUBSET Selectors]
    BY <1>4, <2>1, ArrivingType DEF Propagate, TypeOK
  <2>3. generation' \in [Versions -> Nat]
    BY <1>4, <2>1, DistanceType DEF Propagate, TypeOK
  <2>4. queue' \in Seq(Versions)
    BY <1>4, <2>1 DEF Propagate, TypeOK
  <2> QED
    BY <1>4, <2>1, <2>2, <2>3, <2>4 DEF Propagate, TypeOK
<1> QED
  BY <1>1, <1>2, <1>3, <1>4 DEF Next

\* The work list holds versions, the reason graph edges of the graph, the
\* generations are natural numbers: on every input.
THEOREM TypeCorrect == Spec => []TypeOK
<1>1. Init => TypeOK
  BY ImpactAssumption DEF Init, TypeOK
<1> QED
  BY <1>1, TypeStep, PTL DEF Spec
-----------------------------------------------------------------------------
(***************************************************************************)
(* The loop invariant                                                      *)
(***************************************************************************)
Queued(v) == \E k \in 1..Len(queue) : queue[k] = v

\* A version with selectors it has not sent waits in the queue.
UnsentIsQueued ==
    \A v \in Versions : /\ propagated[v] \subseteq selectors[v]
                        /\ propagated[v] # selectors[v] => Queued(v)

\* What was sent along an edge has arrived, unless the edge is still to be visited.
SentHasArrived ==
    \A e \in graph : \A s \in propagated[e.source] :
        (SelectorsIntersect(s, e.selector) /\ e.target \notin unchanged) =>
            Flow(e, s) \subseteq selectors[e.target] \/ (e \in todo /\ s \in batch)

\* The edges still to be visited are those of the version being expanded.
TodoIsCurrent ==
    \A e \in todo : e.source = current /\ IsAffected(current)

\* The target of an edge along which anything was sent is reported.
SentIsReported ==
    \A e \in graph : propagated[e.source] # {} =>
        e \in todo \/ IsAffected(e.target) \/ e.target \in skipped

LoopInv ==
    /\ delta \subseteq selectors[Source]
    /\ UnsentIsQueued
    /\ SentHasArrived
    /\ TodoIsCurrent
    /\ SentIsReported

LEMMA LoopInit == Init => LoopInv
<1> SUFFICES ASSUME Init PROVE LoopInv
  OBVIOUS
<1>1. Source \in Versions /\ delta \subseteq selectors[Source]
  BY ImpactAssumption DEF Init
<1>2. UnsentIsQueued
  BY <1>1 DEF Init, UnsentIsQueued, Queued
<1>3. \A e \in graph : propagated[e.source] = {}
  BY ImpactAssumption DEF Init, Edge
<1> QED
  BY <1>1, <1>2, <1>3 DEF Init, LoopInv, SentHasArrived, TodoIsCurrent, SentIsReported

LEMMA LoopDequeue ==
  ASSUME TypeOK, LoopInv, Dequeue
  PROVE  LoopInv'
<1> DEFINE v == Head(queue)
           new == selectors[v] \ propagated[v]
<1>1. v \in Versions /\ Len(queue) > 0 /\ v = queue[1]
  BY DEF Dequeue, TypeOK
<1>2. propagated'[v] = selectors[v]
  BY <1>1 DEF Dequeue, AfterSending, TypeOK, LoopInv, UnsentIsQueued
<1>3. \A w \in Versions : w # v => propagated'[w] = propagated[w]
  BY DEF Dequeue, TypeOK
<1>4. UnsentIsQueued'
  <2> SUFFICES ASSUME NEW w \in Versions
               PROVE  /\ propagated'[w] \subseteq selectors[w]
                      /\ propagated'[w] # selectors[w] => Queued(w)'
    BY DEF UnsentIsQueued, Dequeue
  <2>1. CASE w = v
    BY <1>2, <2>1
  <2>2. CASE w # v
    <3>1. propagated'[w] = propagated[w] /\ propagated[w] \subseteq selectors[w]
      BY <1>3, <2>2 DEF LoopInv, UnsentIsQueued
    <3>2. ASSUME propagated[w] # selectors[w]
          PROVE  Queued(w)'
      <4>1. PICK k \in 1..Len(queue) : queue[k] = w
        BY <3>2 DEF LoopInv, UnsentIsQueued, Queued
      <4>2. k # 1
        BY <1>1, <2>2, <4>1
      <4>3. queue' = Tail(queue) /\ queue \in Seq(Versions) /\ queue # <<>>
        BY DEF Dequeue, TypeOK
      <4>4. k - 1 \in 1..Len(queue') /\ queue'[k - 1] = w
        BY <1>1, <4>1, <4>2, <4>3
      <4> QED
        BY <4>4 DEF Queued
    <3> QED
      BY <3>1, <3>2
  <2> QED
    BY <2>1, <2>2
<1>5. SentHasArrived'
  <2> SUFFICES ASSUME NEW e \in graph, NEW s \in propagated'[e.source],
                      SelectorsIntersect(s, e.selector), e.target \notin unchanged
               PROVE  Flow(e, s) \subseteq selectors[e.target] \/ (e \in todo' /\ s \in batch')
    BY DEF SentHasArrived, Dequeue
  <2>1. e.source \in Versions
    BY EdgeType
  <2>2. CASE s \in propagated[e.source]
    <3>1. Flow(e, s) \subseteq selectors[e.target] \/ e \in todo
      BY <2>2 DEF LoopInv, SentHasArrived
    <3> QED
      BY <3>1 DEF Dequeue, Expanding
  <2>3. CASE s \notin propagated[e.source]
    <3>1. e.source = v /\ s \in new
      BY <1>2, <1>3, <2>1, <2>3
    <3> QED
      BY <3>1 DEF Dequeue
  <2> QED
    BY <2>2, <2>3
<1>6. TodoIsCurrent'
  BY DEF Dequeue, TodoIsCurrent, IsAffected
<1>7. SentIsReported'
  <2> SUFFICES ASSUME NEW e \in graph, propagated'[e.source] # {}
               PROVE  e \in todo' \/ IsAffected(e.target) \/ e.target \in skipped
    BY DEF SentIsReported, Dequeue, IsAffected
  <2>1. e.source \in Versions
    BY EdgeType
  <2>2. CASE propagated[e.source] # {}
    BY <2>2 DEF LoopInv, SentIsReported, Dequeue, Expanding
  <2>3. CASE propagated[e.source] = {}
    <3>1. e.source = v /\ new # {}
      BY <1>2, <1>3, <2>1, <2>3
    <3> QED
      BY <3>1 DEF Dequeue
  <2> QED
    BY <2>2, <2>3
<1> QED
  BY <1>4, <1>5, <1>6, <1>7 DEF LoopInv, Dequeue

LEMMA LoopSkip ==
  ASSUME TypeOK, LoopInv, NEW e \in todo, Skip(e)
  PROVE  LoopInv'
<1>1. UnsentIsQueued'
  BY DEF Skip, LoopInv, UnsentIsQueued, Queued
<1>2. SentHasArrived'
  <2> SUFFICES ASSUME NEW f \in graph, NEW s \in propagated[f.source],
                      SelectorsIntersect(s, f.selector), f.target \notin unchanged
               PROVE  Flow(f, s) \subseteq selectors[f.target] \/ (f \in todo' /\ s \in batch)
    BY DEF SentHasArrived, Skip
  <2>1. Flow(f, s) \subseteq selectors[f.target] \/ (f \in todo /\ s \in batch)
    BY DEF LoopInv, SentHasArrived
  <2>2. CASE f = e /\ s \in batch
    BY <2>2, ArrivingCarries DEF Skip
  <2>3. CASE ~(f = e /\ s \in batch)
    BY <2>1, <2>3 DEF Skip
  <2> QED
    BY <2>2, <2>3
<1>3. TodoIsCurrent'
  BY DEF Skip, LoopInv, TodoIsCurrent, IsAffected
<1>4. SentIsReported'
  BY DEF Skip, ReportSkipped, LoopInv, SentIsReported, IsAffected
<1> QED
  BY <1>1, <1>2, <1>3, <1>4 DEF LoopInv, Skip

\* The selectors of versions only grow.
LEMMA SelectorsGrow ==
  ASSUME TypeOK, NEW e \in todo, Propagate(e)
  PROVE  /\ \A v \in Versions : selectors[v] \subseteq selectors'[v]
         /\ \A v \in Versions : v # e.target => selectors'[v] = selectors[v]
         /\ selectors'[e.target] = selectors[e.target] \union Arriving(e)
<1>1. e.target \in Versions
  BY EdgeType DEF TypeOK
<1> QED
  BY <1>1 DEF Propagate, TypeOK

LEMMA LoopPropagate ==
  ASSUME TypeOK, LoopInv, NEW e \in todo, Propagate(e)
  PROVE  LoopInv'
<1> DEFINE t == e.target
<1>1. t \in Versions /\ e \in graph
  BY EdgeType DEF TypeOK
<1>2. UnsentIsQueued'
  <2> SUFFICES ASSUME NEW v \in Versions
               PROVE  /\ propagated[v] \subseteq selectors'[v]
                      /\ propagated[v] # selectors'[v] => Queued(v)'
    BY DEF UnsentIsQueued, Propagate
  <2>1. propagated[v] \subseteq selectors'[v]
    BY SelectorsGrow DEF LoopInv, UnsentIsQueued
  <2>2. ASSUME Queued(v)
        PROVE  Queued(v)'
    <3>1. PICK k \in 1..Len(queue) : queue[k] = v
      BY <2>2 DEF Queued
    <3>2. queue \in Seq(Versions) /\ queue' \in {queue, Append(queue, t)}
      BY DEF Propagate, TypeOK
    <3>3. k \in 1..Len(queue') /\ queue'[k] = v
      BY <1>1, <3>1, <3>2
    <3> QED
      BY <3>3 DEF Queued
  <2>3. CASE propagated[v] # selectors[v]
    BY <2>1, <2>2, <2>3 DEF LoopInv, UnsentIsQueued
  <2>4. CASE propagated[v] = selectors[v] /\ selectors'[v] # selectors[v]
    <3>1. v = t /\ ~(Arriving(e) \subseteq selectors[t])
      BY <2>4, SelectorsGrow
    <3>2. queue' = Append(queue, t) /\ queue \in Seq(Versions)
      BY <3>1 DEF Propagate, MustExpand, TypeOK
    <3>3. Len(queue) + 1 \in 1..Len(queue') /\ queue'[Len(queue) + 1] = t
      BY <1>1, <3>2
    <3> QED
      BY <2>1, <3>1, <3>3 DEF Queued
  <2> QED
    BY <2>1, <2>3, <2>4
<1>3. SentHasArrived'
  <2> SUFFICES ASSUME NEW f \in graph, NEW s \in propagated[f.source],
                      SelectorsIntersect(s, f.selector), f.target \notin unchanged
               PROVE  Flow(f, s) \subseteq selectors'[f.target] \/ (f \in todo' /\ s \in batch)
    BY DEF SentHasArrived, Propagate
  <2>1. Flow(f, s) \subseteq selectors[f.target] \/ (f \in todo /\ s \in batch)
    BY DEF LoopInv, SentHasArrived
  <2>2. selectors[f.target] \subseteq selectors'[f.target]
    BY EdgeType, SelectorsGrow
  <2>3. CASE f = e /\ s \in batch
    <3>1. Flow(e, s) \subseteq Arriving(e)
      BY <2>3, ArrivingCarries
    <3> QED
      BY <2>3, <3>1, SelectorsGrow
  <2>4. CASE ~(f = e /\ s \in batch)
    BY <2>1, <2>2, <2>4 DEF Propagate
  <2> QED
    BY <2>3, <2>4
<1>4. TodoIsCurrent'
  <2>1. current \in Versions
    BY DEF TypeOK
  <2> QED
    BY <2>1, SelectorsGrow DEF Propagate, LoopInv, TodoIsCurrent, IsAffected
<1>5. SentIsReported'
  <2> SUFFICES ASSUME NEW f \in graph, propagated[f.source] # {}
               PROVE  f \in todo' \/ IsAffected(f.target)' \/ f.target \in skipped'
    BY DEF SentIsReported, Propagate
  <2>1. f \in todo \/ IsAffected(f.target) \/ f.target \in skipped
    BY DEF LoopInv, SentIsReported
  <2>2. IsAffected(t)'
    <3>1. Arriving(e) # {}
      BY DEF Propagate
    <3>2. Arriving(e) \subseteq selectors'[t]
      BY SelectorsGrow
    <3> QED
      BY <3>1, <3>2 DEF IsAffected
  <2>3. IsAffected(f.target) => IsAffected(f.target)'
    BY EdgeType, SelectorsGrow DEF IsAffected
  <2> QED
    BY <2>1, <2>2, <2>3 DEF Propagate
<1>6. delta' \subseteq selectors'[Source]
  BY SelectorsGrow, ImpactAssumption DEF Propagate, LoopInv
<1> QED
  BY <1>2, <1>3, <1>4, <1>5, <1>6 DEF LoopInv

LEMMA LoopStep ==
  ASSUME TypeOK, LoopInv, [Next]_vars
  PROVE  LoopInv'
<1>1. CASE UNCHANGED vars
  BY <1>1 DEF vars, LoopInv, UnsentIsQueued, Queued, SentHasArrived, TodoIsCurrent,
              SentIsReported, IsAffected
<1>2. CASE Next
  BY <1>2, LoopDequeue, LoopSkip, LoopPropagate DEF Next
<1> QED
  BY <1>1, <1>2

\* The invariant of the work-list loop: a version is in the queue as long as it
\* has selectors that were not sent along its edges.
THEOREM LoopInvariant == Spec => []LoopInv
BY LoopInit, LoopStep, TypeCorrect, PTL DEF Spec
-----------------------------------------------------------------------------
(***************************************************************************)
(* What the analysis returns                                               *)
(***************************************************************************)

\* At the end all has been sent.
LEMMA AllSent ==
  ASSUME TypeOK, LoopInv, Done, NEW v \in Versions
  PROVE  propagated[v] = selectors[v]
BY DEF Done, LoopInv, UnsentIsQueued, Queued

\* The analysis misses nothing: its result is closed under the edges, whatever
\* the graph, the transfer functions and the order of expansion.
THEOREM ImpactIsComplete == Spec => []NothingMissed
<1>1. TypeOK /\ LoopInv => NothingMissed
  <2> SUFFICES ASSUME TypeOK, LoopInv, Done
               PROVE  /\ delta \subseteq selectors[Source]
                      /\ \A e \in graph : \A s \in selectors[e.source] :
                            (SelectorsIntersect(s, e.selector) /\ e.target \notin unchanged) =>
                                Flow(e, s) \subseteq selectors[e.target]
    BY DEF NothingMissed
  <2>1. \A e \in graph : propagated[e.source] = selectors[e.source]
    BY AllSent, EdgeType
  <2> QED
    BY <2>1 DEF LoopInv, SentHasArrived, Done, Expanding
<1> QED
  BY <1>1, TypeCorrect, LoopInvariant, PTL

\* Every target of an affected version is reported, as affected or as skipped.
THEOREM ImpactIsReported == Spec => []AccountedFor
<1>1. TypeOK /\ LoopInv => AccountedFor
  <2> SUFFICES ASSUME TypeOK, LoopInv, Done, NEW e \in graph, IsAffected(e.source)
               PROVE  IsAffected(e.target) \/ e.target \in SkippedNodes
    BY DEF AccountedFor
  <2>1. propagated[e.source] # {}
    BY AllSent, EdgeType DEF IsAffected
  <2> QED
    BY <2>1 DEF LoopInv, SentIsReported, Done, Expanding, SkippedNodes
<1> QED
  BY <1>1, TypeCorrect, LoopInvariant, PTL

LEMMA ExplainedStep ==
  ASSUME TypeOK, LoopInv, Explained, NEW e \in todo, Propagate(e)
  PROVE  Explained'
<1> DEFINE t == e.target
<1>1. /\ t \in Versions /\ e \in graph /\ e.source = current /\ IsAffected(current)
      /\ current \in Versions
  BY EdgeType DEF TypeOK, LoopInv, TodoIsCurrent
<1>2. \A v \in Versions : IsAffected(v) => IsAffected(v)'
  BY SelectorsGrow DEF IsAffected
<1>3. /\ generation'[t] = Distance(t)
      /\ \A v \in Versions : v # t => generation'[v] = generation[v]
      /\ \A v \in Versions : generation[v] \in Nat /\ generation'[v] \in Nat
  BY <1>1, DistanceType DEF Propagate, TypeOK
<1>4. \A v \in Versions : IsAffected(v) => generation'[v] <= generation[v]
  BY <1>1, <1>3, DistanceType
<1> SUFFICES ASSUME NEW v \in Versions \ {Source}, IsAffected(v)'
             PROVE  \E f \in reasons' : /\ f.target = v
                                        /\ IsAffected(f.source)'
                                        /\ generation'[f.source] < generation'[v]
  BY DEF Explained
<1>5. ASSUME IsAffected(v), generation'[v] = generation[v]
      PROVE  \E f \in reasons' : /\ f.target = v
                                 /\ IsAffected(f.source)'
                                 /\ generation'[f.source] < generation'[v]
  <2>1. PICK f \in reasons : /\ f.target = v
                             /\ IsAffected(f.source)
                             /\ generation[f.source] < generation[v]
    BY <1>5 DEF Explained
  <2>2. f \in reasons' /\ f.source \in Versions
    BY EdgeType DEF Propagate, TypeOK
  <2>3. generation'[f.source] < generation'[v]
    BY <1>3, <1>4, <1>5, <2>1, <2>2
  <2> QED
    BY <1>2, <2>1, <2>2, <2>3
<1>6. CASE v # t
  <2>1. IsAffected(v)
    BY <1>6, SelectorsGrow DEF IsAffected
  <2> QED
    BY <1>3, <1>5, <1>6, <2>1
<1>7. CASE v = t /\ IsAffected(t) /\ Distance(t) = generation[t]
  BY <1>3, <1>5, <1>7
<1>8. CASE /\ v = t /\ Distance(t) = generation[current] + 1
           /\ ~(IsAffected(t) /\ Distance(t) = generation[t])
  <2>1. generation'[t] = generation[current] + 1
    BY <1>3, <1>8
  <2>2. generation'[current] <= generation[current]
    BY <1>1, <1>4
  <2>3. e \in reasons' /\ IsAffected(e.source)'
    BY <1>1, <1>2 DEF Propagate
  <2> QED
    BY <1>1, <1>3, <1>8, <2>1, <2>2, <2>3
<1> QED
  BY <1>1, <1>6, <1>7, <1>8, DistanceType

\* The reason graph explains every affected version: going back along it, from
\* generation to smaller generation, ends at the source.
THEOREM ImpactIsExplained == Spec => []Explained
<1>1. Init => Explained
  BY DEF Init, Explained, IsAffected
<1>2. TypeOK /\ LoopInv /\ Explained /\ [Next]_vars => Explained'
  <2> SUFFICES ASSUME TypeOK, LoopInv, Explained, [Next]_vars
               PROVE  Explained'
    OBVIOUS
  <2>1. CASE UNCHANGED <<selectors, generation, reasons>>
    BY <2>1 DEF Explained, IsAffected
  <2>2. CASE \E e \in todo : Propagate(e)
    BY <2>2, ExplainedStep
  <2> QED
    BY <2>1, <2>2 DEF Next, Dequeue, Skip, vars
<1> QED
  BY <1>1, <1>2, TypeCorrect, LoopInvariant, PTL DEF Spec

-----------------------------------------------------------------------------
(***************************************************************************)
(* Rounds                                                                  *)
(*                                                                         *)
(* TokensOfPath goes along a path key by key, BackFrom and Descendants      *)
(* search a graph in rounds.  These lemmas give induction over the rounds   *)
(* for a given set of numbers, that the functions defined by recursion over *)
(* the rounds exist, and that rounds that each find something new cannot be *)
(* more than there is to find.                                              *)
(***************************************************************************)

LEMMA LeastOf ==
  ASSUME NEW T \in SUBSET Nat, T # {}
  PROVE  \E n \in T : \A m \in T : n <= m
<1> DEFINE Initial == {1..n : n \in T}
<1>1. Initial \subseteq FiniteSubsetsOf(Nat)
  <2> SUFFICES ASSUME NEW n \in T PROVE 1..n \in FiniteSubsetsOf(Nat)
    OBVIOUS
  <2>1. IsFiniteSet(1..n)
    BY FS_Interval
  <2> QED
    BY <2>1 DEF FiniteSubsetsOf
<1>2. Initial # {}
  OBVIOUS
<1>3. PICK least \in Initial : \A y \in Initial : <<y, least>> \notin StrictSubsetOrdering(Nat)
  <2> HIDE DEF Initial
  <2> QED
    BY <1>1, <1>2, FS_StrictSubsetOrderingWellFounded, WFMin
<1>4. PICK n \in T : least = 1..n
  OBVIOUS
<1>5. ASSUME NEW m \in T, m < n PROVE FALSE
  <2>1. 1..m \subseteq 1..n /\ n \in 1..n /\ n \notin 1..m
    BY <1>5
  <2>2. <<1..m, 1..n>> \in StrictSubsetOrdering(Nat)
    BY <2>1 DEF StrictSubsetOrdering
  <2> QED
    BY <1>3, <1>4, <2>2
<1> QED
  BY <1>4, <1>5

\* Induction from b up to the last round.
LEMMA Rounds ==
  ASSUME NEW b \in Nat, NEW last \in Nat, NEW T, b \in T,
         \A n \in b..last : n \in T /\ n + 1 \in b..last => n + 1 \in T
  PROVE  b..last \subseteq T
<1> DEFINE Bad == (b..last) \ T
<1>1. CASE Bad = {}
  BY <1>1
<1>2. CASE Bad # {}
  <2>1. PICK n \in Bad : \A m \in Bad : n <= m
    <3>1. Bad \in SUBSET Nat
      OBVIOUS
    <3> HIDE DEF Bad
    <3> QED
      BY <1>2, <3>1, LeastOf
  <2>2. n \in Nat /\ n \in b..last /\ n # b /\ n \notin T
    OBVIOUS
  <2>3. n - 1 \in b..last /\ n - 1 \notin Bad /\ (n - 1) + 1 = n
    BY <2>1, <2>2
  <2> QED
    BY <2>2, <2>3
<1> QED
  BY <1>1, <1>2

\* The value of f at the end of each round is what grow makes of the one before.
Iterates(f, b, last, S, start, grow) ==
  /\ f \in [b..last -> S]
  /\ f[b] = start
  /\ \A n \in b..last : n # b => f[n] = grow[f[n - 1]]

LEMMA IteratesExist ==
  ASSUME NEW b \in Nat, NEW last \in Nat, b <= last,
         NEW S, NEW start \in S, NEW grow \in [S -> S]
  PROVE  \E f : Iterates(f, b, last, S, start, grow)
<1> DEFINE IsIteration(f, m) == Iterates(f, b, m, S, start, grow)
           T == {m \in b..last : \E f : IsIteration(f, m)}
<1>1. b \in T
  <2>1. IsIteration([n \in b..b |-> start], b)
    BY DEF Iterates
  <2>2. \E f : IsIteration(f, b)
    <3> HIDE DEF IsIteration
    <3> QED
      BY <2>1
  <2>3. b \in b..last
    OBVIOUS
  <2> HIDE DEF IsIteration
  <2> QED
    BY <2>2, <2>3
<1>2. ASSUME NEW m \in b..last, m \in T, m + 1 \in b..last
      PROVE  m + 1 \in T
  <2>1. PICK f : IsIteration(f, m)
    BY <1>2
  <2> DEFINE g == [n \in b..(m + 1) |-> IF n = m + 1 THEN grow[f[m]] ELSE f[n]]
  <2>2. m \in Nat /\ m \in b..m /\ m + 1 # b /\ f[m] \in S
    BY <2>1 DEF Iterates
  <2>3. \A n \in b..(m + 1) : n = m + 1 \/ (n \in b..m /\ n # m + 1)
    BY <2>2
  <2>4. g \in [b..(m + 1) -> S]
    BY <2>1, <2>2, <2>3 DEF Iterates
  <2>5. g[b] = start
    BY <2>1, <2>2 DEF Iterates
  <2>6. ASSUME NEW n \in b..(m + 1), n # b
        PROVE  g[n] = grow[g[n - 1]]
    <3>1. n - 1 \in b..m /\ n - 1 \in b..(m + 1) /\ n - 1 # m + 1
      BY <2>2, <2>6
    <3>2. g[n - 1] = f[n - 1]
      BY <3>1
    <3>3. CASE n = m + 1
      BY <2>2, <3>2, <3>3
    <3>4. CASE n # m + 1
      <4>1. n \in b..m /\ g[n] = f[n]
        BY <2>3, <3>4
      <4> QED
        BY <2>1, <2>6, <3>2, <4>1 DEF Iterates
    <3> QED
      BY <3>3, <3>4
  <2>7. IsIteration(g, m + 1)
    BY <2>4, <2>5, <2>6 DEF Iterates
  <2> HIDE DEF g
  <2> QED
    BY <1>2, <2>7
<1>3. last \in T
  <2> HIDE DEF T
  <2>1. last \in b..last
    OBVIOUS
  <2> QED
    BY <1>1, <1>2, <2>1, Rounds
<1> QED
  BY <1>3

\* Each round of found finds something new within all: there is more than rounds.
LEMMA RoundsCount ==
  ASSUME NEW b \in Nat, NEW last \in Nat, b <= last, NEW all, IsFiniteSet(all),
         NEW found \in [b..last -> SUBSET all],
         Cardinality(found[b]) > b,
         \A n \in b..last : n + 1 \in b..last =>
            found[n] \subseteq found[n + 1] /\ found[n] # found[n + 1]
  PROVE  Cardinality(found[last]) > last
<1> DEFINE T == {n \in b..last : Cardinality(found[n]) > n}
<1>1. \A n \in b..last : IsFiniteSet(found[n]) /\ Cardinality(found[n]) \in Nat
  BY FS_Subset, FS_CardinalityType
<1>2. b \in T
  OBVIOUS
<1>3. ASSUME NEW n \in b..last, n \in T, n + 1 \in b..last
      PROVE  n + 1 \in T
  <2>1. found[n] \subseteq found[n + 1] /\ found[n] # found[n + 1]
    BY <1>3
  <2>2. Cardinality(found[n]) <= Cardinality(found[n + 1])
        /\ Cardinality(found[n]) # Cardinality(found[n + 1])
    BY <1>1, <1>3, <2>1, FS_Subset
  <2> QED
    BY <1>1, <1>3, <2>2
<1>4. last \in b..last
  OBVIOUS
<1> HIDE DEF T
<1>5. last \in T
  BY <1>2, <1>3, <1>4, Rounds
<1> QED
  BY <1>5 DEF T

-----------------------------------------------------------------------------
(***************************************************************************)
(* Selectors                                                               *)
(***************************************************************************)

\* The tokens of a path, key by key.
TokensByKey(path, upTo) ==
  /\ upTo \in [0..Len(path) -> Seq(STRING)]
  /\ upTo[0] = <<>>
  /\ \A n \in 1..Len(path) : upTo[n] = upTo[n - 1] \o PartsOf(path[n])
  /\ TokensOfPath(path) = upTo[Len(path)]

LEMMA PartsType ==
  ASSUME NEW key \in STRING
  PROVE  PartsOf(key) \in Seq(STRING)
<1>1. Dotted \in [DOMAIN Dotted -> Seq(STRING)]
  BY ImpactAssumption
<1>2. <<key>> \in Seq(STRING)
  <2>1. <<key>> = Append(<<>>, key) /\ <<>> \in Seq(STRING)
    BY EmptySeq
  <2> QED
    BY <2>1, AppendProperties
<1> QED
  BY <1>1, <1>2 DEF PartsOf

\* The functions that go along a path of N keys exist: step tells what each key makes of
\* what the keys before it made.
AlongPath(f, m, step) ==
  /\ f \in [0..m -> Seq(STRING)]
  /\ f[0] = <<>>
  /\ \A n \in 1..m : f[n] = step[n][f[n - 1]]

LEMMA AlongPathExists ==
  ASSUME NEW N \in Nat, NEW step \in [1..N -> [Seq(STRING) -> Seq(STRING)]]
  PROVE  \E f : AlongPath(f, N, step)
<1> DEFINE T == {m \in 0..N : \E f : AlongPath(f, m, step)}
<1>1. 0 \in T
  <2>1. AlongPath([n \in 0..0 |-> <<>>], 0, step)
    BY DEF AlongPath
  <2> QED
    BY <2>1
<1>2. ASSUME NEW m \in 0..N, m \in T, m + 1 \in 0..N
      PROVE  m + 1 \in T
  <2>1. PICK f : AlongPath(f, m, step)
    BY <1>2
  <2> DEFINE g == [n \in 0..(m + 1) |-> IF n = m + 1 THEN step[m + 1][f[m]] ELSE f[n]]
  <2>2. m \in Nat /\ m + 1 # 0 /\ m + 1 \in 1..N /\ f[m] \in Seq(STRING)
    BY <1>2, <2>1 DEF AlongPath
  <2>3. step[m + 1][f[m]] \in Seq(STRING)
    BY <2>2
  <2>4. \A n \in 0..(m + 1) : n = m + 1 \/ (n \in 0..m /\ n # m + 1)
    BY <2>2
  <2>5. g \in [0..(m + 1) -> Seq(STRING)]
    BY <2>1, <2>3, <2>4 DEF AlongPath
  <2>6. g[0] = <<>>
    BY <2>1, <2>2 DEF AlongPath
  <2>7. ASSUME NEW n \in 1..(m + 1)
        PROVE  g[n] = step[n][g[n - 1]]
    <3>1. n \in 0..(m + 1) /\ n - 1 \in 0..(m + 1) /\ n - 1 # m + 1
      BY <2>2
    <3>2. g[n - 1] = f[n - 1]
      BY <3>1
    <3>3. CASE n = m + 1
      BY <2>2, <3>1, <3>2, <3>3
    <3>4. CASE n # m + 1
      <4>1. n \in 1..m /\ g[n] = f[n]
        BY <2>2, <3>1, <3>4
      <4> QED
        BY <2>1, <3>2, <4>1 DEF AlongPath
    <3> QED
      BY <3>3, <3>4
  <2>8. AlongPath(g, m + 1, step)
    <3> HIDE DEF g
    <3> QED
      BY <2>5, <2>6, <2>7 DEF AlongPath
  <2> HIDE DEF g
  <2> QED
    BY <1>2, <2>8
<1> HIDE DEF T
<1>3. 0..N \subseteq T
  BY <1>1, <1>2, Rounds
<1> QED
  BY <1>3 DEF T

LEMMA TokensExist ==
  ASSUME NEW path \in Seq(STRING)
  PROVE  \E upTo : TokensByKey(path, upTo)
<1> DEFINE N == Len(path)
           Parts(n) == PartsOf(path[n])
           IsUpTo(f) == f = [n \in 0..N |-> IF n = 0 THEN <<>> ELSE f[n - 1] \o Parts(n)]
           upTo == CHOOSE f : IsUpTo(f)
<1>1. N \in Nat /\ \A n \in 1..N : Parts(n) \in Seq(STRING)
  <2>1. N \in Nat /\ \A n \in 1..N : path[n] \in STRING
    BY LenProperties
  <2> QED
    BY <2>1, PartsType
<1>2. TokensOfPath(path) = upTo[N]
  BY DEF TokensOfPath
<1> HIDE DEF Parts, N
<1>3. \E f : IsUpTo(f)
  <2> DEFINE step == [n \in 1..N |-> [p \in Seq(STRING) |-> p \o Parts(n)]]
  <2>1. step \in [1..N -> [Seq(STRING) -> Seq(STRING)]]
    BY <1>1, ConcatProperties
  <2>2. \A n \in 1..N : \A p \in Seq(STRING) : step[n][p] = p \o Parts(n)
    OBVIOUS
  <2> HIDE DEF step
  <2>3. PICK g : AlongPath(g, N, step)
    BY <1>1, <2>1, AlongPathExists
  <2>4. \A n \in 0..N : g[n] = IF n = 0 THEN <<>> ELSE g[n - 1] \o Parts(n)
    <3>1. \A n \in 1..N : g[n - 1] \in Seq(STRING) /\ g[n] = step[n][g[n - 1]]
      BY <1>1, <2>3 DEF AlongPath
    <3>2. \A n \in 0..N : n # 0 => n \in 1..N
      BY <1>1
    <3>3. g[0] = <<>>
      BY <2>3 DEF AlongPath
    <3> QED
      BY <2>2, <3>1, <3>2, <3>3
  <2>5. IsUpTo(g)
    <3>1. g = [n \in 0..N |-> g[n]]
      BY <2>3 DEF AlongPath
    <3> QED
      BY <2>4, <3>1
  <2> HIDE DEF IsUpTo
  <2> QED
    BY <2>5
<1>4. IsUpTo(upTo)
  <2> HIDE DEF IsUpTo
  <2> QED
    BY <1>3
<1> HIDE DEF upTo
<1>5. DOMAIN upTo = 0..N /\ \A n \in 0..N : upTo[n] = IF n = 0 THEN <<>> ELSE upTo[n - 1] \o Parts(n)
  BY <1>4
<1> HIDE DEF IsUpTo
<1>6. upTo[0] = <<>> /\ \A n \in 1..N : upTo[n] = upTo[n - 1] \o Parts(n)
  <2>1. 0 \in 0..N /\ \A n \in 1..N : n \in 0..N /\ n # 0
    BY <1>1
  <2> QED
    BY <1>5, <2>1
<1>7. \A n \in 0..N : upTo[n] \in Seq(STRING)
  <2> DEFINE T == {n \in 0..N : upTo[n] \in Seq(STRING)}
  <2>1. 0 \in T
    <3>1. <<>> \in Seq(STRING) /\ 0 \in 0..N
      BY <1>1, EmptySeq
    <3> QED
      BY <1>6, <3>1
  <2>2. ASSUME NEW n \in 0..N, n \in T, n + 1 \in 0..N
        PROVE  n + 1 \in T
    <3>1. n + 1 \in 1..N /\ (n + 1) - 1 = n
      BY <1>1, <2>2
    <3>2. upTo[n + 1] = upTo[n] \o Parts(n + 1) /\ Parts(n + 1) \in Seq(STRING)
      BY <1>1, <1>6, <3>1
    <3>3. upTo[n] \in Seq(STRING)
      BY <2>2
    <3> QED
      BY <2>2, <3>2, <3>3, ConcatProperties
  <2> HIDE DEF T
  <2>3. 0..N \subseteq T
    BY <1>1, <2>1, <2>2, Rounds
  <2> QED
    BY <2>3 DEF T
<1>8. upTo \in [0..N -> Seq(STRING)]
  <2>1. upTo = [n \in 0..N |-> upTo[n]]
    BY <1>4 DEF IsUpTo
  <2> QED
    BY <1>7, <2>1
<1> QED
  BY <1>2, <1>6, <1>8 DEF TokensByKey, N, Parts

\* The tokens of a part of the path come first.
LEMMA TokensBegin ==
  ASSUME NEW path \in Seq(STRING), NEW upTo, TokensByKey(path, upTo), NEW n \in 0..Len(path)
  PROVE  /\ Len(upTo[n]) <= Len(TokensOfPath(path))
         /\ \A k \in 1..Len(upTo[n]) : TokensOfPath(path)[k] = upTo[n][k]
<1> DEFINE N == Len(path)
           T == {m \in n..N : /\ Len(upTo[n]) <= Len(upTo[m])
                              /\ \A k \in 1..Len(upTo[n]) : upTo[m][k] = upTo[n][k]}
<1>1. N \in Nat /\ n \in Nat /\ n <= N /\ \A m \in 0..N : upTo[m] \in Seq(STRING)
  BY DEF TokensByKey
<1>2. n \in T
  BY <1>1
<1>3. ASSUME NEW m \in n..N, m \in T, m + 1 \in n..N
      PROVE  m + 1 \in T
  <2>1. m + 1 \in 1..N /\ (m + 1) - 1 = m /\ m \in 0..N
    BY <1>1, <1>3
  <2>2. upTo[m + 1] = upTo[m] \o PartsOf(path[m + 1])
    BY <2>1 DEF TokensByKey
  <2>3. upTo[m] \in Seq(STRING) /\ PartsOf(path[m + 1]) \in Seq(STRING) /\ upTo[n] \in Seq(STRING)
    <3>1. path[m + 1] \in STRING
      BY <2>1, LenProperties
    <3>2. PartsOf(path[m + 1]) \in Seq(STRING)
      BY <3>1, PartsType
    <3> QED
      BY <1>1, <2>1, <3>2
  <2>4. /\ Len(upTo[m]) <= Len(upTo[m + 1])
        /\ \A k \in 1..Len(upTo[m]) : upTo[m + 1][k] = upTo[m][k]
    <3> DEFINE x == upTo[m]
               y == PartsOf(path[m + 1])
    <3>1. x \in Seq(STRING) /\ y \in Seq(STRING) /\ upTo[m + 1] = x \o y
      BY <2>2, <2>3
    <3> HIDE DEF x, y
    <3>2. /\ Len(x \o y) = Len(x) + Len(y) /\ Len(x) \in Nat /\ Len(y) \in Nat
          /\ \A k \in 1..Len(x) + Len(y) : (x \o y)[k] = IF k <= Len(x) THEN x[k] ELSE y[k - Len(x)]
      BY <3>1, ConcatProperties
    <3>3. Len(x) <= Len(upTo[m + 1]) /\ \A k \in 1..Len(x) : upTo[m + 1][k] = x[k]
      BY <3>1, <3>2
    <3> QED
      BY <3>3 DEF x
  <2>5. \A k \in 1..Len(upTo[n]) : k \in 1..Len(upTo[m])
    BY <1>3, <2>3
  <2> QED
    BY <1>3, <2>3, <2>4, <2>5
<1>4. N \in n..N
  BY <1>1
<1> HIDE DEF T
<1>5. N \in T
  BY <1>1, <1>2, <1>3, <1>4, Rounds
<1> QED
  BY <1>5 DEF T, TokensByKey

\* Two paths whose keys match one by one, as far as both go, have tokens that match.
LEMMA TokensOfMatchingKeys ==
  ASSUME NEW p \in Seq(STRING), NEW q \in Seq(STRING), Len(p) <= Len(q),
         \A k \in 1..Len(p) : /\ Len(PartsOf(p[k])) = Len(PartsOf(q[k]))
                              /\ \A j \in 1..Len(PartsOf(p[k])) :
                                    TokensMatch(PartsOf(p[k])[j], PartsOf(q[k])[j])
  PROVE  \A k \in DOMAIN TokensOfPath(p) \intersect DOMAIN TokensOfPath(q) :
            TokensMatch(TokensOfPath(p)[k], TokensOfPath(q)[k])
<1>1. PICK f : TokensByKey(p, f)
  BY TokensExist
<1>2. PICK g : TokensByKey(q, g)
  BY TokensExist
<1> DEFINE N == Len(p)
           T == {n \in 0..N : /\ Len(f[n]) = Len(g[n])
                              /\ \A k \in 1..Len(f[n]) : TokensMatch(f[n][k], g[n][k])}
<1>3. N \in Nat /\ N \in 0..Len(q) /\ \A n \in 0..N : f[n] \in Seq(STRING) /\ g[n] \in Seq(STRING)
  <2>1. N \in Nat /\ Len(q) \in Nat /\ N <= Len(q)
    BY LenProperties
  <2>2. N \in 0..Len(q) /\ \A n \in 0..N : n \in 0..Len(q)
    BY <2>1
  <2>3. f \in [0..N -> Seq(STRING)] /\ g \in [0..Len(q) -> Seq(STRING)]
    BY <1>1, <1>2 DEF TokensByKey
  <2> QED
    BY <2>1, <2>2, <2>3
<1>4. 0 \in T
  BY <1>1, <1>2, <1>3 DEF TokensByKey
<1>5. ASSUME NEW n \in 0..N, n \in T, n + 1 \in 0..N
      PROVE  n + 1 \in T
  <2> DEFINE x == PartsOf(p[n + 1])
             y == PartsOf(q[n + 1])
  <2>1. n + 1 \in 1..N /\ (n + 1) - 1 = n /\ n + 1 \in 1..Len(q)
    <3>1. N \in Nat /\ Len(q) \in Nat /\ N <= Len(q)
      BY LenProperties
    <3> HIDE DEF N
    <3> QED
      BY <1>5, <3>1
  <2>2. f[n + 1] = f[n] \o x /\ g[n + 1] = g[n] \o y
    BY <1>1, <1>2, <2>1 DEF TokensByKey
  <2>3. x \in Seq(STRING) /\ y \in Seq(STRING) /\ f[n] \in Seq(STRING) /\ g[n] \in Seq(STRING)
    <3>1. p[n + 1] \in STRING /\ q[n + 1] \in STRING
      BY <2>1, LenProperties
    <3>2. x \in Seq(STRING) /\ y \in Seq(STRING)
      BY <3>1, PartsType
    <3>3. f[n] \in Seq(STRING) /\ g[n] \in Seq(STRING)
      BY <1>3
    <3> QED
      BY <3>2, <3>3
  <2>4. Len(x) = Len(y) /\ \A j \in 1..Len(x) : TokensMatch(x[j], y[j])
    BY <2>1
  <2>5. Len(f[n]) = Len(g[n]) /\ \A k \in 1..Len(f[n]) : TokensMatch(f[n][k], g[n][k])
    BY <1>5
  <2> DEFINE v == f[n]
             w == g[n]
  <2> HIDE DEF x, y, v, w, T
  <2>6. /\ v \in Seq(STRING) /\ w \in Seq(STRING) /\ x \in Seq(STRING) /\ y \in Seq(STRING)
        /\ Len(v) = Len(w) /\ Len(x) = Len(y) /\ Len(v) \in Nat /\ Len(x) \in Nat
        /\ \A k \in 1..Len(v) : TokensMatch(v[k], w[k])
        /\ \A k \in 1..Len(x) : TokensMatch(x[k], y[k])
    BY <2>3, <2>4, <2>5 DEF v, w
  <2>7. /\ Len(v \o x) = Len(v) + Len(x) /\ Len(w \o y) = Len(v) + Len(x)
        /\ \A k \in 1..Len(v) + Len(x) : (v \o x)[k] = IF k <= Len(v) THEN v[k] ELSE x[k - Len(v)]
        /\ \A k \in 1..Len(v) + Len(x) : (w \o y)[k] = IF k <= Len(v) THEN w[k] ELSE y[k - Len(v)]
    <3>1. /\ Len(v \o x) = Len(v) + Len(x)
          /\ \A k \in 1..Len(v) + Len(x) : (v \o x)[k] = IF k <= Len(v) THEN v[k] ELSE x[k - Len(v)]
      <4>1. v \in Seq(STRING) /\ x \in Seq(STRING)
        BY <2>6
      <4> QED
        BY <4>1, ConcatProperties
    <3>2. /\ Len(w \o y) = Len(w) + Len(y)
          /\ \A k \in 1..Len(w) + Len(y) : (w \o y)[k] = IF k <= Len(w) THEN w[k] ELSE y[k - Len(w)]
      BY <2>6, ConcatProperties
    <3> QED
      BY <2>6, <3>1, <3>2
  <2>8. ASSUME NEW k \in 1..Len(v) + Len(x)
        PROVE  TokensMatch((v \o x)[k], (w \o y)[k])
    <3>1. CASE k <= Len(v)
      BY <2>6, <2>7, <3>1
    <3>2. CASE ~(k <= Len(v))
      <4>1. k - Len(v) \in 1..Len(x)
        BY <2>6, <3>2
      <4> QED
        BY <2>6, <2>7, <3>2, <4>1
    <3> QED
      BY <3>1, <3>2
  <2>9. Len(f[n + 1]) = Len(g[n + 1]) /\ \A k \in 1..Len(f[n + 1]) : TokensMatch(f[n + 1][k], g[n + 1][k])
    BY <2>2, <2>7, <2>8 DEF v, w
  <2> QED
    BY <1>5, <2>9 DEF T
<1>6. N \in T
  <2> HIDE DEF T
  <2>1. 0..N \subseteq T
    BY <1>3, <1>4, <1>5, Rounds
  <2>2. N \in 0..N
    BY <1>3
  <2> QED
    BY <2>1, <2>2
<1>7. TokensOfPath(p) = f[N] /\ f[N] \in Seq(STRING) /\ g[N] \in Seq(STRING)
  BY <1>1, <1>3 DEF TokensByKey
<1>8. /\ Len(g[N]) <= Len(TokensOfPath(q))
      /\ \A k \in 1..Len(g[N]) : TokensOfPath(q)[k] = g[N][k]
  BY <1>2, <1>3, TokensBegin
<1> DEFINE x == TokensOfPath(p)
           y == TokensOfPath(q)
<1>9. /\ x \in Seq(STRING) /\ Len(x) = Len(g[N]) /\ Len(x) <= Len(y)
      /\ \A k \in 1..Len(x) : TokensMatch(x[k], g[N][k]) /\ y[k] = g[N][k]
  BY <1>6, <1>7, <1>8
<1>10. DOMAIN x = 1..Len(x)
  BY <1>9, LenProperties
<1> HIDE DEF x, y
<1>11. \A k \in DOMAIN x \intersect DOMAIN y : TokensMatch(x[k], y[k])
  BY <1>9, <1>10
<1> QED
  BY <1>11 DEF x, y

\* Where a path leads is a path.
LEMMA ResolvedType ==
  ASSUME NEW path \in Seq(STRING)
  PROVE  Resolved(path) \in Seq(STRING)
<1> DEFINE N == Len(path)
           IsUp(p) == p = <<>> \/ p[Len(p)] = ".."
           Step(n, p) == IF path[n] = "." \/ (path[n] = "" /\ n > 1) THEN p
                         ELSE IF path[n] = ".." /\ ~IsUp(p) THEN SubSeq(p, 1, Len(p) - 1)
                         ELSE Append(p, path[n])
           IsUpTo(f) == f = [n \in 0..N |-> IF n = 0 THEN <<>> ELSE Step(n, f[n - 1])]
           upTo == CHOOSE f : IsUpTo(f)
<1>1. N \in Nat /\ \A n \in 1..N : path[n] \in STRING
  OBVIOUS
<1>2. ASSUME NEW n \in 1..N, NEW p \in Seq(STRING)
      PROVE  Step(n, p) \in Seq(STRING)
  <2>1. SubSeq(p, 1, Len(p) - 1) \in Seq(STRING)
    <3>1. Len(p) \in Nat /\ \A k \in 1..Len(p) - 1 : p[k] \in STRING
      OBVIOUS
    <3> QED
      BY <3>1, SubSeqProperties
  <2>2. Append(p, path[n]) \in Seq(STRING)
    BY <1>1, AppendProperties
  <2> HIDE DEF IsUp
  <2> QED
    BY <2>1, <2>2
<1>3. Resolved(path) = upTo[N]
  BY DEF Resolved
<1> HIDE DEF Step, N
<1>4. \E f : IsUpTo(f)
  <2> DEFINE step == [n \in 1..N |-> [p \in Seq(STRING) |-> Step(n, p)]]
  <2>1. step \in [1..N -> [Seq(STRING) -> Seq(STRING)]]
    BY <1>2
  <2>2. \A n \in 1..N : \A p \in Seq(STRING) : step[n][p] = Step(n, p)
    OBVIOUS
  <2> HIDE DEF step
  <2>3. PICK g : AlongPath(g, N, step)
    BY <1>1, <2>1, AlongPathExists
  <2>4. \A n \in 0..N : g[n] = IF n = 0 THEN <<>> ELSE Step(n, g[n - 1])
    <3>1. \A n \in 1..N : g[n - 1] \in Seq(STRING) /\ g[n] = step[n][g[n - 1]]
      BY <1>1, <2>3 DEF AlongPath
    <3>2. \A n \in 0..N : n # 0 => n \in 1..N
      BY <1>1
    <3>3. g[0] = <<>>
      BY <2>3 DEF AlongPath
    <3> QED
      BY <2>2, <3>1, <3>2, <3>3
  <2>5. IsUpTo(g)
    <3>1. g = [n \in 0..N |-> g[n]]
      BY <2>3 DEF AlongPath
    <3> QED
      BY <2>4, <3>1
  <2> HIDE DEF IsUpTo
  <2> QED
    BY <2>5
<1>5. IsUpTo(upTo)
  <2> HIDE DEF IsUpTo
  <2> QED
    BY <1>4
<1> HIDE DEF upTo
<1>6. \A n \in 0..N : upTo[n] = IF n = 0 THEN <<>> ELSE Step(n, upTo[n - 1])
  BY <1>5
<1> HIDE DEF IsUpTo
<1> DEFINE T == {n \in 0..N : upTo[n] \in Seq(STRING)}
<1>7. 0 \in T
  <2>1. 0 \in 0..N
    BY <1>1
  <2>2. upTo[0] = <<>>
    BY <1>6, <2>1
  <2> QED
    BY <2>1, <2>2, EmptySeq
<1>8. ASSUME NEW n \in 0..N, n \in T, n + 1 \in 0..N
      PROVE  n + 1 \in T
  <2>1. n + 1 \in 1..N /\ (n + 1) - 1 = n /\ n + 1 # 0
    BY <1>1, <1>8
  <2>2. upTo[n + 1] = Step(n + 1, upTo[n])
    BY <1>6, <1>8, <2>1
  <2> QED
    BY <1>2, <1>8, <2>1, <2>2
<1> HIDE DEF T
<1>9. 0..N \subseteq T
  BY <1>1, <1>7, <1>8, Rounds
<1> QED
  BY <1>1, <1>3, <1>9 DEF T

\* The path of a selector that covers a component is a part of the component's, up to
\* wildcards.
LEMMA CoversPath ==
  ASSUME NEW s \in Selectors, NEW c \in Components, Covers(s, c),
         s.kind \notin {"unknown", "file"}, s.form # "opaque"
  PROVE  /\ s.path \in Seq(STRING) /\ c.path \in Seq(STRING) /\ Len(s.path) <= Len(c.path)
         /\ \A k \in 1..Len(s.path) : s.path[k] = c.path[k] \/ s.path[k] = "*"
         /\ s.kind # "json_path" => Len(s.path) = Len(c.path)
<1>1. s.path \in Seq(STRING) /\ c.path \in Seq(STRING) /\ s.form = "plain"
  BY ImpactAssumption DEF WellFormed, Forms
<1>2. PathMeant(s) = s.path /\ DOMAIN s.path = 1..Len(s.path)
  BY <1>1 DEF PathMeant
<1> QED
  BY <1>1, <1>2 DEF Covers

\* What the code compares of a file selector is the path of the file, or the directory,
\* that it means.
LEMMA CoversFile ==
  ASSUME NEW s \in Selectors, NEW c \in Components, Covers(s, c),
         s.kind = "file", s.form # "opaque", ~NotNormalized(s)
  PROVE  /\ NormalizeFile(s) \in [kind : {"file"}, path : Seq(STRING), form : {"plain", "directory"}]
         /\ c.path \in Seq(STRING)
         /\ Len(NormalizeFile(s).path) <= Len(c.path)
         /\ \A k \in 1..Len(NormalizeFile(s).path) : NormalizeFile(s).path[k] = c.path[k]
         /\ NormalizeFile(s).form = "plain" => Len(NormalizeFile(s).path) = Len(c.path)
         /\ NormalizeFile(s).form = "directory" => Len(NormalizeFile(s).path) < Len(c.path)
<1>1. /\ s \in [kind : Kinds, path : Seq(STRING), form : Forms] /\ s.kind = "file"
      /\ s.form \in {"plain", "directory"} /\ c.path \in Seq(STRING)
  BY ImpactAssumption DEF WellFormed, Forms
<1> DEFINE path == Resolved(s.path)
           n    == [s EXCEPT !.path = path]
<1>2. path \in Seq(STRING)
  BY <1>1, ResolvedType
<1>3. NormalizeFile(s) = n
  BY <1>1 DEF NotNormalized
<1> HIDE DEF path
<1>4. n \in [kind : {"file"}, path : Seq(STRING), form : {"plain", "directory"}]
  BY <1>1, <1>2
<1>5. n.path = path /\ n.form = s.form
  BY <1>1
<1>6. PathMeant(s) = path
  BY <1>1 DEF PathMeant, path
<1>7. /\ Len(path) <= Len(c.path)
      /\ \A k \in 1..Len(path) : path[k] = c.path[k]
      /\ s.form = "plain" => Len(path) = Len(c.path)
      /\ s.form = "directory" => Len(path) < Len(c.path)
  BY <1>1, <1>2, <1>6 DEF Covers
<1> QED
  BY <1>1, <1>3, <1>4, <1>5, <1>7

LEMMA FilesThatOverlap ==
  ASSUME NEW s \in Selectors, NEW r \in Selectors, NEW c \in Components,
         Covers(s, c), Covers(r, c), s.kind = "file", r.kind = "file", ~Missed(s, r)
  PROVE  FilesIntersect(s, r)
<1> DEFINE l == NormalizeFile(s)
           d == NormalizeFile(r)
<1>1. CASE s.form # "opaque" /\ r.form # "opaque"
  <2>1. /\ l \in [kind : {"file"}, path : Seq(STRING), form : {"plain", "directory"}]
        /\ d \in [kind : {"file"}, path : Seq(STRING), form : {"plain", "directory"}]
        /\ c.path \in Seq(STRING)
        /\ Len(l.path) <= Len(c.path) /\ Len(d.path) <= Len(c.path)
        /\ l.form = "plain" => Len(l.path) = Len(c.path)
        /\ d.form = "plain" => Len(d.path) = Len(c.path)
        /\ l.form = "directory" => Len(l.path) < Len(c.path)
        /\ d.form = "directory" => Len(d.path) < Len(c.path)
        /\ \A k \in 1..Len(l.path) : l.path[k] = c.path[k]
        /\ \A k \in 1..Len(d.path) : d.path[k] = c.path[k]
    BY <1>1, CoversFile DEF Missed
  <2>2. \/ l = d
        \/ l.form = "directory" /\ Under(d, l)
        \/ l.form # "directory" /\ d.form = "directory" /\ Under(l, d)
    <3>1. l.form = "directory" /\ d.form = "directory" => l = d \/ ~Under(l, d)
      BY DEF Missed, NestedDirectories
    <3> HIDE DEF l, d
    <3>2. /\ Len(l.path) \in Nat /\ Len(d.path) \in Nat /\ Len(c.path) \in Nat
          /\ DOMAIN l.path = 1..Len(l.path) /\ DOMAIN d.path = 1..Len(d.path)
      BY <2>1
    <3>3. ASSUME Len(l.path) <= Len(d.path)
          PROVE  \A k \in DOMAIN l.path : k \in DOMAIN d.path /\ d.path[k] = l.path[k]
      BY <2>1, <3>2, <3>3
    <3>4. ASSUME Len(d.path) <= Len(l.path)
          PROVE  \A k \in DOMAIN d.path : k \in DOMAIN l.path /\ l.path[k] = d.path[k]
      BY <2>1, <3>2, <3>4
    <3>5. CASE l.form = "plain" /\ d.form = "plain"
      <4>1. Len(l.path) = Len(d.path) /\ \A k \in 1..Len(l.path) : l.path[k] = d.path[k]
        BY <2>1, <3>2, <3>5
      <4>2. l.path = d.path
        BY <2>1, <4>1
      <4> QED
        BY <2>1, <3>5, <4>2
    <3>6. CASE l.form = "directory" /\ d.form = "plain"
      BY <2>1, <3>2, <3>3, <3>6 DEF Under
    <3>7. CASE l.form = "plain" /\ d.form = "directory"
      BY <2>1, <3>2, <3>4, <3>7 DEF Under
    <3>8. CASE l.form = "directory" /\ d.form = "directory"
      <4>1. Under(l, d) \/ Under(d, l)
        BY <2>1, <3>2, <3>3, <3>4, <3>8 DEF Under
      <4> QED
        BY <3>1, <3>8, <4>1
    <3> QED
      BY <2>1, <3>5, <3>6, <3>7, <3>8
  <2> QED
    BY <2>2 DEF FilesIntersect
<1>2. CASE "opaque" \in {s.form, r.form}
  <2>1. ASSUME NEW x \in Selectors, x.kind = "file", x.form = "opaque"
        PROVE  NormalizeFile(x).form = "opaque"
    <3>1. x \in [kind : Kinds, path : Seq(STRING), form : Forms] /\ x.path # <<>>
      BY <2>1, ImpactAssumption DEF WellFormed
    <3> QED
      BY <2>1, <3>1 DEF NormalizeFile
  <2> QED
    BY <1>2, <2>1 DEF FilesIntersect
<1> QED
  BY <1>1, <1>2

LEMMA JsonPathsThatOverlap ==
  ASSUME NEW s \in Selectors, NEW r \in Selectors, NEW c \in Components,
         Covers(s, c), Covers(r, c), s.kind = "json_path", r.kind = "json_path",
         s.form # "opaque", r.form # "opaque", ~DottedUnderWildcard(s, r)
  PROVE  \A k \in DOMAIN TokensOfPath(s.path) \intersect DOMAIN TokensOfPath(r.path) :
            TokensMatch(TokensOfPath(s.path)[k], TokensOfPath(r.path)[k])
<1>1. /\ s.path \in Seq(STRING) /\ r.path \in Seq(STRING) /\ c.path \in Seq(STRING)
      /\ Len(s.path) <= Len(c.path) /\ Len(r.path) <= Len(c.path)
      /\ \A k \in 1..Len(s.path) : s.path[k] = c.path[k] \/ s.path[k] = "*"
      /\ \A k \in 1..Len(r.path) : r.path[k] = c.path[k] \/ r.path[k] = "*"
  BY CoversPath
<1>2. ASSUME NEW x \in STRING, NEW y \in STRING, x = y \/ "*" \in {x, y},
             x = "*" => y \notin DOMAIN Dotted, y = "*" => x \notin DOMAIN Dotted
      PROVE  /\ Len(PartsOf(x)) = Len(PartsOf(y))
             /\ \A j \in 1..Len(PartsOf(x)) : TokensMatch(PartsOf(x)[j], PartsOf(y)[j])
  <2>1. CASE x = y
    BY <2>1 DEF TokensMatch
  <2>2. CASE x # y
    <3>1. PartsOf(x) = <<x>> /\ PartsOf(y) = <<y>>
      BY <1>2, <2>2, ImpactAssumption DEF PartsOf
    <3> QED
      BY <1>2, <2>2, <3>1 DEF TokensMatch
  <2> QED
    BY <2>1, <2>2
<1>3. ASSUME NEW k \in (1..Len(s.path)) \intersect (1..Len(r.path))
      PROVE  /\ s.path[k] \in STRING /\ r.path[k] \in STRING
             /\ s.path[k] = r.path[k] \/ "*" \in {s.path[k], r.path[k]}
             /\ s.path[k] = "*" => r.path[k] \notin DOMAIN Dotted
             /\ r.path[k] = "*" => s.path[k] \notin DOMAIN Dotted
  BY <1>1 DEF DottedUnderWildcard
<1>4. CASE Len(s.path) <= Len(r.path)
  <2>1. \A k \in 1..Len(s.path) : k \in (1..Len(s.path)) \intersect (1..Len(r.path))
    BY <1>1, <1>4
  <2>2. \A k \in 1..Len(s.path) :
           /\ Len(PartsOf(s.path[k])) = Len(PartsOf(r.path[k]))
           /\ \A j \in 1..Len(PartsOf(s.path[k])) :
                 TokensMatch(PartsOf(s.path[k])[j], PartsOf(r.path[k])[j])
    BY <1>2, <1>3, <2>1
  <2> QED
    BY <1>1, <1>4, <2>2, TokensOfMatchingKeys
<1>5. CASE Len(r.path) <= Len(s.path)
  <2>1. \A k \in 1..Len(r.path) : k \in (1..Len(s.path)) \intersect (1..Len(r.path))
    BY <1>1, <1>5
  <2>2. \A k \in 1..Len(r.path) :
           /\ Len(PartsOf(r.path[k])) = Len(PartsOf(s.path[k]))
           /\ \A j \in 1..Len(PartsOf(r.path[k])) :
                 TokensMatch(PartsOf(r.path[k])[j], PartsOf(s.path[k])[j])
    BY <1>2, <1>3, <2>1
  <2>3. \A k \in DOMAIN TokensOfPath(r.path) \intersect DOMAIN TokensOfPath(s.path) :
           TokensMatch(TokensOfPath(r.path)[k], TokensOfPath(s.path)[k])
    BY <1>1, <1>5, <2>2, TokensOfMatchingKeys
  <2> QED
    BY <2>3 DEF TokensMatch
<1> QED
  BY <1>1, <1>4, <1>5

\* The test for intersection has no false negatives but the named ones.
LEMMA IntersectIfOverlap ==
  ASSUME NEW s \in Selectors, NEW r \in Selectors, Overlap(s, r), ~Missed(s, r)
  PROVE  SelectorsIntersect(s, r)
<1>1. PICK c \in Components : Covers(s, c) /\ Covers(r, c)
  BY DEF Overlap
<1>2. CASE "unknown" \in {s.kind, r.kind}
  BY <1>2 DEF SelectorsIntersect
<1>3. CASE s.kind # "unknown" /\ r.kind # "unknown"
  <2>1. s.kind = r.kind /\ s.kind = c.kind
    BY <1>1, <1>3 DEF Covers
  <2>2. CASE s.kind = "file"
    BY <1>1, <2>1, <2>2, FilesThatOverlap DEF SelectorsIntersect
  <2>3. CASE s.kind = "json_path"
    <3>1. CASE "opaque" \in {s.form, r.form}
      BY <2>1, <2>3, <3>1 DEF SelectorsIntersect, JsonPathsIntersect
    <3>2. CASE s.form # "opaque" /\ r.form # "opaque"
      <4>1. ~DottedUnderWildcard(s, r)
        BY DEF Missed
      <4>2. \A k \in DOMAIN TokensOfPath(s.path) \intersect DOMAIN TokensOfPath(r.path) :
               TokensMatch(TokensOfPath(s.path)[k], TokensOfPath(r.path)[k])
        BY <1>1, <2>1, <2>3, <3>2, <4>1, JsonPathsThatOverlap
      <4>3. JsonPathsIntersect(s, r)
        BY <4>2 DEF JsonPathsIntersect
      <4> QED
        BY <2>1, <2>3, <4>3 DEF SelectorsIntersect
    <3> QED
      BY <3>1, <3>2
  <2>4. CASE s.kind \in {"table_column", "symbol", "record"}
    <3>1. s.form = "plain" /\ r.form = "plain"
      BY <2>1, <2>4, ImpactAssumption DEF WellFormed, Forms
    <3>2. /\ Len(s.path) = Len(r.path)
          /\ DOMAIN s.path = 1..Len(s.path) /\ DOMAIN r.path = 1..Len(r.path)
          /\ \A k \in 1..Len(s.path) : s.path[k] = c.path[k] \/ s.path[k] = "*"
          /\ \A k \in 1..Len(r.path) : r.path[k] = c.path[k] \/ r.path[k] = "*"
      <4>1. /\ Len(s.path) = Len(c.path) /\ DOMAIN s.path = 1..Len(s.path)
            /\ \A k \in 1..Len(s.path) : s.path[k] = c.path[k] \/ s.path[k] = "*"
        BY <1>1, <2>4, <3>1, CoversPath, LenProperties
      <4>2. /\ Len(r.path) = Len(c.path) /\ DOMAIN r.path = 1..Len(r.path)
            /\ \A k \in 1..Len(r.path) : r.path[k] = c.path[k] \/ r.path[k] = "*"
        <5>1. r.kind \notin {"unknown", "file", "json_path"} /\ r.form # "opaque"
          BY <2>1, <2>4, <3>1
        <5> QED
          BY <1>1, <5>1, CoversPath, LenProperties
      <4> QED
        BY <4>1, <4>2
    <3>3. CASE s.kind = "table_column"
      <4>1. DottedSelectorsIntersect(s, r)
        BY <3>2 DEF DottedSelectorsIntersect, TokensMatch
      <4> QED
        BY <2>1, <3>3, <4>1 DEF SelectorsIntersect
    <3>4. CASE s.kind \in {"symbol", "record"}
      <4>1. Len(s.path) = 1 /\ Len(r.path) = 1 /\ s.path \in Seq(STRING) /\ r.path \in Seq(STRING)
        BY <2>1, <3>4, ImpactAssumption DEF WellFormed
      <4>2. s.path = <<s.path[1]>> /\ r.path = <<r.path[1]>>
        BY <4>1
      <4>3. s.path[1] = "*" \/ r.path[1] = "*" \/ s.path[1] = r.path[1]
        BY <3>2, <4>1
      <4>4. <<"*">> \in {s.path, r.path} \/ s.path = r.path
        BY <4>2, <4>3
      <4> QED
        BY <2>1, <3>4, <4>4 DEF SelectorsIntersect
    <3> QED
      BY <2>4, <3>3, <3>4
  <2> QED
    BY <1>3, <2>2, <2>3, <2>4, ImpactAssumption DEF WellFormed, Kinds
<1> QED
  BY <1>2, <1>3

\* A version that depends on a component that the delta covers is affected.
THEOREM OverlapsAreReached == Spec => []OverlapsReached
<1>1. TypeOK /\ NothingMissed => OverlapsReached
  <2> SUFFICES ASSUME TypeOK, NothingMissed, Done, NEW e \in graph, NEW s \in delta,
                      DirectlyConcerned(e), Overlap(s, e.selector),
                      ~Missed(s, e.selector)
               PROVE  IsAffected(e.target)
    BY DEF OverlapsReached
  <2>1. s \in Selectors /\ e.selector \in Selectors
    BY DEF TypeOK, Edge
  <2>2. SelectorsIntersect(s, e.selector)
    BY <2>1, IntersectIfOverlap
  <2>3. s \in selectors[e.source] /\ e.target \notin unchanged
    BY DEF NothingMissed, DirectlyConcerned
  <2>4. Flow(e, s) \subseteq selectors[e.target]
    BY <2>2, <2>3 DEF NothingMissed
  <2>5. Flow(e, s) = {UnknownSelector}
    BY DEF DirectlyConcerned, Flow
  <2> QED
    BY <2>4, <2>5 DEF IsAffected
<1> QED
  BY <1>1, TypeCorrect, ImpactIsComplete, PTL

-----------------------------------------------------------------------------
(***************************************************************************)
(* Searches                                                                *)
(***************************************************************************)

\* The search back from a version finds all that it is explained by.
LEMMA BackFromIsClosed ==
  ASSUME TypeOK, NEW v \in Versions
  PROVE  /\ v \in BackFrom(v) /\ BackFrom(v) \subseteq Versions
         /\ \A e \in reasons :
               e.source # Source /\ e.target \in BackFrom(v) => e.source \in BackFrom(v)
<1> DEFINE N == Cardinality(Versions)
           Before(X) == {w \in Versions \ {Source} : \E e \in reasons : e.source = w /\ e.target \in X}
           IsBack(f) == f = [n \in 0..N |-> IF n = 0 THEN {v} ELSE f[n - 1] \union Before(f[n - 1])]
           back == CHOOSE f : IsBack(f)
<1>1. N \in Nat /\ IsFiniteSet(Versions)
  BY ImpactAssumption, FS_CardinalityType
<1>2. BackFrom(v) = back[N]
  BY DEF BackFrom
<1>3. \A X \in SUBSET Versions : Before(X) \in SUBSET Versions
  OBVIOUS
<1> HIDE DEF Before
<1>4. \E f : IsBack(f)
  <2> DEFINE parts == SUBSET Versions
             start == {v}
             grow  == [X \in parts |-> X \union Before(X)]
  <2>1. grow \in [parts -> parts] /\ start \in parts
    BY <1>3
  <2>2. \A X \in parts : grow[X] = X \union Before(X)
    OBVIOUS
  <2>3. 0 \in Nat /\ N \in Nat /\ 0 <= N
    BY <1>1
  <2> HIDE DEF grow, N, parts, start, IsBack, back
  <2>4. PICK f : Iterates(f, 0, N, parts, start, grow)
    BY <2>1, <2>3, IteratesExist
  <2>5. \A n \in 0..N : n # 0 => f[n] = f[n - 1] \union Before(f[n - 1])
    <3>1. \A n \in 0..N : n # 0 => f[n - 1] \in parts
      BY <1>1, <2>4 DEF Iterates
    <3> QED
      BY <2>2, <2>4, <3>1 DEF Iterates
  <2>6. IsBack(f)
    BY <2>4, <2>5 DEF start, IsBack, Iterates
  <2> QED
    BY <2>6
<1>5. IsBack(back)
  <2> HIDE DEF IsBack
  <2> QED
    BY <1>4
<1> HIDE DEF back, N
<1>6. back[0] = {v} /\ \A n \in 0..N : n # 0 => back[n] = back[n - 1] \union Before(back[n - 1])
  <2>1. \A n \in 0..N : back[n] = IF n = 0 THEN {v} ELSE back[n - 1] \union Before(back[n - 1])
    BY <1>5
  <2>2. 0 \in 0..N
    BY <1>1
  <2> HIDE DEF IsBack
  <2> QED
    BY <2>1, <2>2
<1>7. \A n \in 0..N : n + 1 \in 0..N => back[n + 1] = back[n] \union Before(back[n])
  BY <1>1, <1>6
<1>8. DOMAIN back = 0..N
  BY <1>5
<1>9. \A n \in 0..N : back[n] \in SUBSET Versions
  <2> DEFINE T == {n \in 0..N : back[n] \in SUBSET Versions}
  <2>1. 0 \in T
    BY <1>1, <1>6
  <2>2. \A n \in 0..N : n \in T /\ n + 1 \in 0..N => n + 1 \in T
    BY <1>3, <1>7
  <2> HIDE DEF T
  <2>3. 0..N \subseteq T
    BY <1>1, <2>1, <2>2, Rounds
  <2> QED
    BY <2>3 DEF T
<1>10. \A n \in 0..N : back[n] \subseteq back[N]
  <2> DEFINE T == {n \in 0..N : \A k \in 0..n : back[k] \subseteq back[n]}
  <2>1. 0 \in T
    BY <1>1
  <2>2. ASSUME NEW n \in 0..N, n \in T, n + 1 \in 0..N
        PROVE  n + 1 \in T
    <3>1. back[n] \subseteq back[n + 1]
      BY <1>7, <2>2
    <3>2. \A k \in 0..(n + 1) : k = n + 1 \/ k \in 0..n
      BY <1>1
    <3> QED
      BY <2>2, <3>1, <3>2
  <2> HIDE DEF T
  <2>3. N \in T
    BY <1>1, <2>1, <2>2, Rounds
  <2> QED
    BY <2>3 DEF T
<1>11. PICK n \in 0..N : n + 1 \in 0..N /\ back[n] = back[n + 1]
  <2> SUFFICES ASSUME \A n \in 0..N : n + 1 \in 0..N => back[n] # back[n + 1]
               PROVE  FALSE
    OBVIOUS
  <2>1. back \in [0..N -> SUBSET Versions]
    BY <1>5, <1>8, <1>9
  <2>2. Cardinality(back[0]) > 0
    <3>1. Cardinality({v}) = 1
      BY FS_Singleton
    <3> QED
      BY <1>6, <3>1
  <2>3. \A n \in 0..N : n + 1 \in 0..N => back[n] \subseteq back[n + 1] /\ back[n] # back[n + 1]
    BY <1>7
  <2>4. Cardinality(back[N]) > N
    BY <1>1, <2>1, <2>2, <2>3, RoundsCount
  <2>5. Cardinality(back[N]) <= N /\ Cardinality(back[N]) \in Nat
    BY <1>1, <1>9, FS_Subset, FS_CardinalityType DEF N
  <2> QED
    BY <1>1, <2>4, <2>5
<1>12. \A m \in n..N : back[m] = back[n]
  <2> DEFINE T == {m \in n..N : back[m] = back[n]}
  <2>1. n \in Nat /\ n \in T
    BY <1>1
  <2>2. ASSUME NEW m \in n..N, m \in T, m + 1 \in n..N
        PROVE  m + 1 \in T
    <3>1. m \in 0..N /\ m + 1 \in 0..N
      BY <1>1, <2>1, <2>2
    <3>2. back[m + 1] = back[m] \union Before(back[m]) /\ back[n + 1] = back[n] \union Before(back[n])
      BY <1>7, <1>11, <3>1
    <3> QED
      BY <1>11, <2>2, <3>2
  <2> HIDE DEF T
  <2>3. n..N \subseteq T
    BY <1>1, <2>1, <2>2, Rounds
  <2> QED
    BY <2>3 DEF T
<1>13. Before(back[N]) \subseteq back[N]
  <2>1. N \in n..N /\ N # n
    BY <1>1, <1>11
  <2>2. back[N] = back[n]
    BY <1>12, <2>1
  <2> QED
    BY <1>7, <1>11, <2>2
<1>14. v \in back[N] /\ back[N] \in SUBSET Versions
  BY <1>1, <1>6, <1>9, <1>10
<1>15. ASSUME NEW e \in reasons, e.source # Source, e.target \in back[N]
       PROVE  e.source \in back[N]
  <2>1. e.source \in Versions
    BY EdgeType DEF TypeOK
  <2> QED
    BY <1>13, <1>15, <2>1 DEF Before
<1> QED
  BY <1>2, <1>14, <1>15

\* Whatever the plan tells to recompute is explained and can be started.
THEOREM StepsExplained == Spec => []StepsAreExplained
<1>1. ASSUME TypeOK, Explained, NEW v \in Versions \ {Source}, IsAffected(v)
      PROVE  \E e \in reasons : /\ e.target = v /\ e.source \in Versions /\ IsAffected(e.source)
                                /\ generation[e.source] < generation[v]
                                /\ e.source # Source => generation[e.source] > 0
  <2>1. PICK e \in reasons : /\ e.target = v /\ IsAffected(e.source)
                             /\ generation[e.source] < generation[v]
    BY <1>1 DEF Explained
  <2>2. e.source \in Versions
    BY <1>1, EdgeType DEF TypeOK
  <2>3. ASSUME e.source # Source
        PROVE  generation[e.source] > 0
    <3>1. PICK f \in reasons : generation[f.source] < generation[e.source] /\ f \in graph
      BY <1>1, <2>1, <2>2, <2>3 DEF Explained, TypeOK
    <3>2. f.source \in Versions
      BY <1>1, <3>1, EdgeType
    <3> QED
      BY <1>1, <2>2, <3>1, <3>2 DEF TypeOK
  <2> QED
    BY <2>1, <2>2, <2>3
<1>2. ASSUME TypeOK, Explained, NEW v \in Versions \ {Source}, IsAffected(v)
      PROVE  Explanations(v) # {}
  <2> DEFINE Seen == {w \in BackFrom(v) \ {Source} : IsAffected(w)}
             Generations == {generation[w] : w \in Seen}
  <2>1. Seen \subseteq Versions \ {Source} /\ v \in Seen
    BY <1>2, BackFromIsClosed
  <2>2. PICK w \in Seen : \A x \in Seen : generation[w] <= generation[x]
    <3>1. Generations \in SUBSET Nat /\ Generations # {}
      BY <1>2, <2>1 DEF TypeOK
    <3>2. PICK g \in Generations : \A h \in Generations : g <= h
      <4> HIDE DEF Generations
      <4> QED
        BY <3>1, LeastOf
    <3> QED
      BY <3>2
  <2>3. PICK e \in reasons : /\ e.target = w /\ e.source \in Versions /\ IsAffected(e.source)
                             /\ generation[e.source] < generation[w]
    BY <1>1, <1>2, <2>1, <2>2
  <2>4. e.source \notin Seen
    BY <1>2, <2>1, <2>2, <2>3 DEF TypeOK
  <2>5. e.source = Source
    BY <1>2, <2>2, <2>3, <2>4, BackFromIsClosed
  <2> QED
    BY <2>2, <2>3, <2>5 DEF Explanations
<1>3. ASSUME TypeOK, Explained, NEW step \in RecomputationSteps
      PROVE  /\ Explanations(step.version) # {}
             /\ \/ Source \in step.dependsOn
                \/ \E other \in RecomputationSteps :
                      other.version \in step.dependsOn /\ other.generation < step.generation
  <2>1. PICK v \in Versions \ {Source} :
           /\ IsAffected(v) /\ step.version = v
           /\ step.generation = IF generation[v] = 0 THEN 1 ELSE generation[v]
           /\ step.dependsOn = {e.source : e \in {f \in graph : f.target = v /\ IsAffected(f.source)}}
    BY DEF RecomputationSteps
  <2>2. PICK e \in reasons : /\ e.target = v /\ e.source \in Versions /\ IsAffected(e.source)
                             /\ generation[e.source] < generation[v]
                             /\ e.source # Source => generation[e.source] > 0
    BY <1>1, <1>3, <2>1
  <2>3. e.source \in step.dependsOn
    BY <1>3, <2>1, <2>2 DEF TypeOK
  <2>4. step.generation = generation[v] /\ generation[v] \in Nat /\ generation[e.source] \in Nat
    BY <1>3, <2>1, <2>2 DEF TypeOK
  <2>5. ASSUME e.source # Source
        PROVE  \E other \in RecomputationSteps :
                  other.version \in step.dependsOn /\ other.generation < step.generation
    <3> DEFINE u == e.source
               other == [version    |-> u,
                         generation |-> IF generation[u] = 0 THEN 1 ELSE generation[u],
                         dependsOn  |-> {g.source : g \in {f \in graph : f.target = u /\ IsAffected(f.source)}}]
    <3>1. other \in RecomputationSteps
      BY <2>2, <2>5 DEF RecomputationSteps
    <3>2. other.version = u /\ other.generation = generation[u]
      BY <2>2, <2>4, <2>5
    <3> HIDE DEF other
    <3> QED
      BY <2>2, <2>3, <2>4, <3>1, <3>2
  <2> QED
    BY <1>2, <1>3, <2>1, <2>3, <2>5
<1>4. TypeOK /\ Explained => StepsAreExplained
  BY <1>3 DEF StepsAreExplained
<1> QED
  BY <1>4, TypeCorrect, ImpactIsExplained, PTL

-----------------------------------------------------------------------------
(* The lineage graph: any versions, inserts and readers.                   *)

Closed(edges, part) == \A e \in edges : e[1] \in part => e[2] \in part

\* What is reached is the least set that has its edges' targets.
LEMMA ReachedIsLeast ==
  ASSUME NEW v \in OutputVersions, NEW edges \in SUBSET Edges
  PROVE  /\ ReachedFrom(edges, v) \subseteq OutputVersions
         /\ v \in ReachedFrom(edges, v)
         /\ Closed(edges, ReachedFrom(edges, v))
         /\ \A part \in SUBSET OutputVersions :
               v \in part /\ Closed(edges, part) => ReachedFrom(edges, v) \subseteq part
<1> DEFINE Reached(part) ==
             /\ v \in part
             /\ \A e \in edges : e[1] \in part => e[2] \in part
             /\ \A less \in SUBSET part :
                   v \in less /\ (\A e \in edges : e[1] \in less => e[2] \in less) => less = part
<1>1. \E part \in SUBSET OutputVersions : Reached(part)
  <2> DEFINE all == {x \in OutputVersions :
                       \A part \in SUBSET OutputVersions : v \in part /\ Closed(edges, part) => x \in part}
  <2>1. v \in all
    OBVIOUS
  <2>2. \A e \in edges : e[1] \in all => e[2] \in all
    BY DEF Closed, Edges
  <2>3. \A less \in SUBSET all : v \in less /\ (\A e \in edges : e[1] \in less => e[2] \in less) => less = all
    BY DEF Closed
  <2> WITNESS all \in SUBSET OutputVersions
  <2> QED
    BY <2>1, <2>2, <2>3
<1>2. ReachedFrom(edges, v) \in SUBSET OutputVersions /\ Reached(ReachedFrom(edges, v))
  BY <1>1 DEF ReachedFrom
<1>3. ASSUME NEW part \in SUBSET OutputVersions, v \in part, Closed(edges, part)
      PROVE  ReachedFrom(edges, v) \subseteq part
  <2> DEFINE less == ReachedFrom(edges, v) \intersect part
  <2>1. v \in less /\ \A e \in edges : e[1] \in less => e[2] \in less
    BY <1>2, <1>3 DEF Closed
  <2>2. less = ReachedFrom(edges, v)
    BY <1>2, <2>1
  <2> QED
    BY <2>2
<1> QED
  BY <1>2, <1>3 DEF Closed

\* The work list of a reader: what it has yet to expand, or has expanded, is what its
\* edges lead to, and nothing that was there when it began is missing.
Reads(r) ==
  LET reader == readers[r]
      met    == reader.expanded \union reader.queue
  IN  /\ SourceOf[r] \in met
      /\ first[r] \union reader.found \subseteq StoredEdges
      /\ \A e \in first[r] : e[1] \in reader.expanded => e \in reader.found
      /\ \A e \in reader.found : e[1] \in reader.expanded /\ e[2] \in met
      /\ \A part \in SUBSET OutputVersions :
            SourceOf[r] \in part /\ Closed(reader.found, part) => met \subseteq part
      /\ reader.at = "done" => reader.queue = {}

ReadInv == /\ GraphTypeOK
           /\ \A r \in Readers : IF readers[r].at = "idle" THEN readers[r] = NoReader ELSE Reads(r)

LEMMA ReadInit == GraphInit => ReadInv
BY DEF GraphInit, ReadInv, GraphTypeOK, NoReader, Reader

LEMMA StoredAreEdges ==
  ASSUME GraphTypeOK
  PROVE  StoredEdges \in SUBSET Edges
BY GraphAssumption DEF StoredEdges

\* An insert leaves the readers alone.
LEMMA InsertsKeepReads ==
  ASSUME ReadInv, NEW i \in Inserts, CheckEdge(i) \/ CommitEdge(i) \/ DropEdge(i)
  PROVE  ReadInv'
<1>1. UNCHANGED <<readers, first>> /\ StoredEdges \subseteq StoredEdges'
  BY DEF CheckEdge, CommitEdge, DropEdge, StoredEdges, ReadInv, GraphTypeOK
<1>2. GraphTypeOK'
  BY StoredAreEdges DEF ReadInv, GraphTypeOK, CheckEdge, CommitEdge, DropEdge
<1>3. ASSUME NEW r \in Readers, Reads(r) PROVE Reads(r)'
  BY <1>1, <1>3 DEF Reads, Closed
<1> QED
  BY <1>1, <1>2, <1>3 DEF ReadInv

\* A step of one reader leaves the others alone.
LEMMA OneReader ==
  ASSUME ReadInv, NEW r \in Readers, NEW new \in Reader, NEW was \in SUBSET Edges,
         readers' = [readers EXCEPT ![r] = new], first' = [first EXCEPT ![r] = was],
         UNCHANGED <<insertAt, saw>>, new.at # "idle", Reads(r)'
  PROVE  ReadInv'
<1>1. GraphTypeOK' /\ readers'[r] = new
  BY DEF ReadInv, GraphTypeOK
<1>2. ASSUME NEW q \in Readers \ {r}
      PROVE  IF readers'[q].at = "idle" THEN readers'[q] = NoReader ELSE Reads(q)'
  <2>1. readers'[q] = readers[q] /\ first'[q] = first[q] /\ StoredEdges' = StoredEdges
    BY DEF ReadInv, GraphTypeOK, StoredEdges
  <2>2. Reads(q) => Reads(q)'
    BY <2>1 DEF Reads, Closed
  <2> QED
    BY <2>1, <2>2 DEF ReadInv
<1> QED
  BY <1>1, <1>2 DEF ReadInv

LEMMA BeginKeepsReads ==
  ASSUME ReadInv, NEW r \in Readers, BeginReading(r)
  PROVE  ReadInv'
<1> DEFINE new == [readers[r] EXCEPT !.at = "reading", !.queue = {SourceOf[r]}]
<1>1. SourceOf[r] \in OutputVersions /\ StoredEdges \in SUBSET Edges /\ readers[r] = NoReader
  BY GraphAssumption, StoredAreEdges DEF ReadInv, BeginReading
<1>2. /\ new = [at |-> "reading", queue |-> {SourceOf[r]}, expanded |-> {}, found |-> {}]
      /\ new \in Reader
  <2>1. new = [at |-> "reading", queue |-> {SourceOf[r]}, expanded |-> {}, found |-> {}]
    <3>1. new = [NoReader EXCEPT !.at = "reading", !.queue = {SourceOf[r]}]
      BY <1>1
    <3> HIDE DEF new
    <3> QED
      BY <3>1 DEF NoReader
  <2>2. {SourceOf[r]} \in SUBSET OutputVersions /\ {} \in SUBSET OutputVersions /\ {} \in SUBSET Edges
    BY <1>1
  <2> HIDE DEF new
  <2> QED
    BY <2>1, <2>2 DEF Reader
<1>3. /\ readers' = [readers EXCEPT ![r] = new] /\ first' = [first EXCEPT ![r] = StoredEdges]
      /\ UNCHANGED <<insertAt, saw>>
  BY DEF BeginReading
<1> HIDE DEF new
<1>4. readers'[r] = new /\ first'[r] = StoredEdges /\ StoredEdges' = StoredEdges
  BY <1>3 DEF ReadInv, GraphTypeOK, StoredEdges
<1>5. Reads(r)'
  BY <1>1, <1>2, <1>4 DEF Reads
<1> QED
  BY <1>1, <1>2, <1>3, <1>5, OneReader

LEMMA ExpandKeepsReads ==
  ASSUME ReadInv, NEW r \in Readers, NEW v \in OutputVersions, Expand(r, v)
  PROVE  ReadInv'
<1> DEFINE old      == readers[r]
           expanded == old.expanded \union {v}
           found    == old.found \union {e \in StoredEdges : e[1] = v}
           reached  == Targets(StoredEdges, v)
           after    == QueueAfter(old.queue, v, reached, expanded)
           new      == [at       |-> IF Cardinality(found) > MaxEdges THEN "too large" ELSE "reading",
                        queue    |-> after, expanded |-> expanded, found |-> found]
<1>1. /\ old \in Reader /\ old.at = "reading" /\ v \in old.queue /\ Reads(r)
      /\ StoredEdges \in SUBSET Edges /\ first \in [Readers -> SUBSET Edges]
      /\ readers' = [readers EXCEPT ![r] = new] /\ UNCHANGED <<insertAt, saw, first>>
  BY StoredAreEdges DEF ReadInv, GraphTypeOK, Expand
<1>2. \A w : w \in reached <=> \E e \in StoredEdges : e[1] = v /\ e[2] = w
  BY DEF Targets
<1>3. reached \subseteq OutputVersions
  <2>1. \A e \in StoredEdges : e[2] \in OutputVersions
    BY <1>1 DEF Edges
  <2> HIDE DEF reached
  <2> QED
    BY <1>2, <2>1
<1>4. expanded \union after = old.expanded \union old.queue \union reached
  BY <1>1 DEF QueueAfter
<1>5. after \subseteq OutputVersions
  BY <1>1, <1>3 DEF QueueAfter, Reader
<1>6. new \in Reader /\ new.at # "idle" /\ new.at # "done"
  BY <1>1, <1>5 DEF Reader
<1>7. /\ readers'[r] = new /\ first'[r] = first[r] /\ StoredEdges' = StoredEdges
      /\ first' = [first EXCEPT ![r] = first[r]]
  BY <1>1 DEF ReadInv, GraphTypeOK, StoredEdges
<1>8. new.expanded = expanded /\ new.queue = after /\ new.found = found
  OBVIOUS
<1> HIDE DEF new, after, reached
<1>9. \A e \in first[r] : e[1] \in expanded => e \in found
  BY <1>1 DEF Reads
<1>10. \A e \in found : e[1] \in expanded /\ e[2] \in expanded \union after
  BY <1>1, <1>2, <1>4 DEF Reads
<1>11. ASSUME NEW part \in SUBSET OutputVersions, SourceOf[r] \in part, Closed(found, part)
       PROVE  expanded \union after \subseteq part
  <2>1. Closed(old.found, part)
    BY <1>11 DEF Closed
  <2>2. old.expanded \union old.queue \subseteq part
    BY <1>1, <1>11, <2>1 DEF Reads
  <2>3. reached \subseteq part
    BY <1>1, <1>2, <1>11, <2>2 DEF Closed
  <2> QED
    BY <1>4, <2>2, <2>3
<1>12. SourceOf[r] \in expanded \union after /\ first[r] \union found \subseteq StoredEdges
  BY <1>1, <1>4 DEF Reads
<1> HIDE DEF found, expanded
<1>13. Reads(r)'
  BY <1>6, <1>7, <1>8, <1>9, <1>10, <1>11, <1>12 DEF Reads
<1> QED
  BY <1>1, <1>6, <1>7, <1>13, OneReader DEF ReadInv, GraphTypeOK

LEMMA EndKeepsReads ==
  ASSUME ReadInv, NEW r \in Readers, EndReading(r)
  PROVE  ReadInv'
<1> DEFINE new == [readers[r] EXCEPT !.at = "done"]
<1>1. /\ readers[r] \in Reader /\ Reads(r) /\ readers[r].queue = {} /\ first \in [Readers -> SUBSET Edges]
      /\ readers' = [readers EXCEPT ![r] = new] /\ UNCHANGED <<insertAt, saw, first>>
  BY DEF ReadInv, GraphTypeOK, EndReading
<1>2. /\ new \in Reader /\ new.at = "done" /\ new.queue = {} /\ new.queue = readers[r].queue
      /\ new.expanded = readers[r].expanded /\ new.found = readers[r].found
  BY <1>1 DEF Reader
<1> HIDE DEF new
<1>3. /\ readers'[r] = new /\ first'[r] = first[r] /\ StoredEdges' = StoredEdges
      /\ first' = [first EXCEPT ![r] = first[r]] /\ first[r] \in SUBSET Edges
  BY <1>1 DEF ReadInv, GraphTypeOK, StoredEdges
<1>4. Reads(r)'
  BY <1>1, <1>2, <1>3 DEF Reads, Closed
<1> QED
  BY <1>1, <1>2, <1>3, <1>4, OneReader

LEMMA ReadStep == ReadInv /\ [GraphNext]_graphVars => ReadInv'
<1> SUFFICES ASSUME ReadInv, [GraphNext]_graphVars PROVE ReadInv'
  OBVIOUS
<1>1. CASE UNCHANGED graphVars
  <2>1. UNCHANGED <<insertAt, saw, readers, first>>
    BY <1>1 DEF graphVars
  <2> QED
    BY <2>1 DEF ReadInv, GraphTypeOK, Reads, Closed, StoredEdges
<1> QED
  BY <1>1, InsertsKeepReads, BeginKeepsReads, ExpandKeepsReads, EndKeepsReads DEF GraphNext

\* What the requests that write and read the graph keep.
THEOREM ReadInvariant == GraphSpec => []ReadInv
<1> QED
  BY ReadInit, ReadStep, PTL DEF GraphSpec

\* A read of the graph, one statement per version, misses nothing that was there when
\* it began and returns nothing that it did not reach by what it returns
\* (reachableEdges, listOutgoing).
THEOREM ReadsBetween == GraphSpec => []ReadsAGraphBetween
<1>1. ASSUME ReadInv, NEW r \in Readers, readers[r].at = "done"
      PROVE  LET found == readers[r].found
             IN  /\ Starting(first[r], ReachedFrom(first[r], SourceOf[r])) \subseteq found
                 /\ found \subseteq Starting(StoredEdges, ReachedFrom(found, SourceOf[r]))
  <2> DEFINE expanded == readers[r].expanded
             found    == readers[r].found
  <2>1. /\ Reads(r) /\ readers[r] \in Reader /\ first[r] \in SUBSET Edges
        /\ SourceOf[r] \in OutputVersions /\ readers[r].queue = {}
    BY <1>1, GraphAssumption DEF ReadInv, GraphTypeOK, Reads
  <2>2. expanded \in SUBSET OutputVersions /\ found \in SUBSET Edges
    BY <2>1 DEF Reader
  <2>3. SourceOf[r] \in expanded /\ Closed(first[r], expanded)
    BY <2>1 DEF Reads, Closed
  <2>4. ReachedFrom(first[r], SourceOf[r]) \subseteq expanded
    BY <2>1, <2>2, <2>3, ReachedIsLeast
  <2>5. Starting(first[r], ReachedFrom(first[r], SourceOf[r])) \subseteq found
    BY <2>1, <2>4 DEF Reads, Starting
  <2>6. expanded \subseteq ReachedFrom(found, SourceOf[r])
    BY <2>1, <2>2, ReachedIsLeast DEF Reads
  <2>7. found \subseteq Starting(StoredEdges, ReachedFrom(found, SourceOf[r]))
    BY <2>1, <2>6 DEF Reads, Starting
  <2> QED
    BY <2>5, <2>7
<1>2. ReadInv => ReadsAGraphBetween
  BY <1>1 DEF ReadsAGraphBetween
<1> QED
  BY <1>2, ReadInvariant, PTL

-----------------------------------------------------------------------------
(* Cycles of edges.                                                        *)

\* The search for descendants reaches what a short way leads to: in more rounds than a
\* set of edges has others, it reaches the start of e from its end, if e is on a cycle.
LEMMA DescendantsReach ==
  ASSUME NEW cycle \in SUBSET Edges, IsFiniteSet(cycle), Cardinality(cycle) <= MaxDepth + 1,
         NEW edges \in SUBSET Edges, NEW e \in cycle, cycle \ {e} \subseteq edges,
         e[1] \in ReachedFrom(cycle, e[2])
  PROVE  e[1] \in Descendants(edges, e[2])
<1> DEFINE v == e[2]
           After(X) == X \union UNION {Targets(edges, w) : w \in X}
           IsWithin(f) == f = [n \in 1..MaxDepth |->
                                 IF n = 1 THEN Targets(edges, v)
                                 ELSE f[n - 1] \union UNION {Targets(edges, w) : w \in f[n - 1]}]
           within == CHOOSE f : IsWithin(f)
<1>1. /\ MaxDepth \in Nat /\ MaxDepth >= 1 /\ v \in OutputVersions /\ e[1] \in OutputVersions
      /\ e[1] # v /\ e \in Edges
  BY GraphAssumption DEF Edges
<1>2. Descendants(edges, v) = within[MaxDepth] \ {v}
  BY DEF Descendants
<1>3. \A w, x : x \in Targets(edges, w) <=> \E f \in edges : f[1] = w /\ f[2] = x
  BY DEF Targets
<1>4. \A w : Targets(edges, w) \subseteq OutputVersions
  <2>1. \A f \in edges : f[2] \in OutputVersions
    BY DEF Edges
  <2> QED
    BY <1>3, <2>1
<1>5. \E f : IsWithin(f)
  <2> DEFINE parts == SUBSET OutputVersions
             start == Targets(edges, v)
             grow  == [X \in parts |-> After(X)]
  <2>1. \A X \in parts : After(X) \in parts
    BY <1>4
  <2>2. grow \in [parts -> parts] /\ start \in parts
    BY <1>4, <2>1
  <2>3. \A X \in parts : grow[X] = After(X)
    OBVIOUS
  <2>4. 1 \in Nat /\ MaxDepth \in Nat /\ 1 <= MaxDepth
    BY <1>1
  <2> HIDE DEF grow, parts, start, IsWithin, within, After
  <2>5. PICK f : Iterates(f, 1, MaxDepth, parts, start, grow)
    BY <2>2, <2>4, IteratesExist
  <2>6. \A n \in 1..MaxDepth : n # 1 => f[n] = After(f[n - 1])
    <3>1. \A n \in 1..MaxDepth : n # 1 => f[n - 1] \in parts
      BY <2>4, <2>5 DEF Iterates
    <3> QED
      BY <2>3, <2>5, <3>1 DEF Iterates
  <2>7. f \in [1..MaxDepth -> parts] /\ f[1] = start
    BY <2>5 DEF Iterates
  <2>8. \A n \in 1..MaxDepth : f[n] = IF n = 1 THEN start ELSE After(f[n - 1])
    BY <2>6, <2>7
  <2>9. f = [n \in 1..MaxDepth |-> IF n = 1 THEN start ELSE After(f[n - 1])]
    BY <2>7, <2>8
  <2> QED
    BY <2>9 DEF IsWithin, start, After
<1>6. IsWithin(within)
  <2> HIDE DEF IsWithin
  <2> QED
    BY <1>5
<1> HIDE DEF within
<1>7. \A n \in 1..MaxDepth : within[n] = IF n = 1 THEN Targets(edges, v) ELSE After(within[n - 1])
  BY <1>6
<1> HIDE DEF IsWithin, After
<1>8. within[1] = Targets(edges, v)
  <2>1. 1 \in 1..MaxDepth
    BY <1>1
  <2> QED
    BY <1>7, <2>1
<1>9. \A n \in 1..MaxDepth : n + 1 \in 1..MaxDepth => within[n + 1] = After(within[n])
  <2>1. \A n \in 1..MaxDepth : n + 1 # 1 /\ (n + 1) - 1 = n
    BY <1>1
  <2> QED
    BY <1>7, <2>1
<1>10. \A n \in 1..MaxDepth : within[n] \subseteq within[MaxDepth]
  <2> DEFINE T == {n \in 1..MaxDepth : \A k \in 1..n : within[k] \subseteq within[n]}
  <2>1. 1 \in T
    BY <1>1
  <2>2. ASSUME NEW n \in 1..MaxDepth, n \in T, n + 1 \in 1..MaxDepth
        PROVE  n + 1 \in T
    <3>1. within[n] \subseteq within[n + 1]
      BY <1>9, <2>2 DEF After
    <3>2. \A k \in 1..(n + 1) : k = n + 1 \/ k \in 1..n
      BY <1>1
    <3> QED
      BY <2>2, <3>1, <3>2
  <2> HIDE DEF T
  <2>3. MaxDepth \in T
    BY <1>1, <2>1, <2>2, Rounds
  <2> QED
    BY <2>3 DEF T
<1>11. \A n \in 1..MaxDepth : Targets(edges, v) \subseteq within[n]
  <2> DEFINE T == {n \in 1..MaxDepth : Targets(edges, v) \subseteq within[n]}
  <2>1. 1 \in T
    BY <1>1, <1>8
  <2>2. ASSUME NEW n \in 1..MaxDepth, n \in T, n + 1 \in 1..MaxDepth
        PROVE  n + 1 \in T
    BY <1>9, <2>2 DEF After
  <2> HIDE DEF T
  <2>3. 1..MaxDepth \subseteq T
    BY <1>1, <2>1, <2>2, Rounds
  <2> QED
    BY <2>3 DEF T
<1>12. \A n \in 1..MaxDepth : \A f \in edges :
          f[1] \in within[n] /\ n + 1 \in 1..MaxDepth => f[2] \in within[n + 1]
  BY <1>3, <1>9 DEF After
<1> SUFFICES ASSUME e[1] \notin within[MaxDepth]
             PROVE  FALSE
  BY <1>1, <1>2
<1> DEFINE Found(n) == {f \in cycle : f[2] \in within[n] \union {v}}
<1>13. ASSUME NEW n \in 1..MaxDepth
       PROVE  \E f \in cycle \ {e} : f[1] \in within[n] \union {v} /\ f[2] \notin within[n] \union {v}
  <2> DEFINE part == (within[n] \union {v}) \intersect OutputVersions
  <2>1. e[1] \notin part
    BY <1>1, <1>10
  <2>2. ~Closed(cycle, part)
    BY <1>1, <2>1, ReachedIsLeast
  <2>3. PICK f \in cycle : f[1] \in part /\ f[2] \notin part
    BY <2>2 DEF Closed
  <2>4. f[2] \in OutputVersions
    BY <2>3 DEF Edges
  <2> QED
    BY <2>1, <2>3, <2>4
<1>14. ASSUME NEW n \in 1..MaxDepth, n + 1 \in 1..MaxDepth
       PROVE  Found(n) \subseteq Found(n + 1) /\ Found(n) # Found(n + 1)
  <2>1. within[n] \subseteq within[n + 1]
    BY <1>9, <1>14 DEF After
  <2>2. PICK f \in cycle \ {e} : f[1] \in within[n] \union {v} /\ f[2] \notin within[n] \union {v}
    BY <1>13
  <2>3. f[1] # v
    BY <1>3, <1>11, <2>2
  <2>4. f[2] \in within[n + 1]
    BY <1>12, <1>14, <2>2, <2>3
  <2> QED
    BY <2>1, <2>2, <2>4
<1>15. Cardinality(Found(1)) > 1
  <2>1. e \in Found(1)
    OBVIOUS
  <2>2. PICK f \in cycle \ {e} : f[1] = v
    <3>1. e[1] \notin {v} /\ {v} \in SUBSET OutputVersions /\ v \in {v}
      BY <1>1
    <3>2. ~Closed(cycle, {v})
      BY <1>1, <3>1, ReachedIsLeast
    <3> QED
      BY <3>1, <3>2 DEF Closed
  <2>3. f \in Found(1)
    BY <1>3, <1>8, <2>2
  <2>4. IsFiniteSet(Found(1)) /\ Cardinality({e}) = 1 /\ IsFiniteSet({e})
    BY FS_Subset, FS_Singleton
  <2>5. {e} \in SUBSET Found(1) /\ {e} # Found(1)
    BY <2>1, <2>2, <2>3
  <2> HIDE DEF Found
  <2>6. Cardinality({e}) <= Cardinality(Found(1)) /\ Cardinality({e}) # Cardinality(Found(1))
    BY <2>4, <2>5, FS_Subset
  <2>7. Cardinality(Found(1)) \in Nat
    BY <2>4, FS_CardinalityType
  <2> QED
    BY <2>4, <2>6, <2>7
<1>16. Cardinality(Found(MaxDepth)) > MaxDepth
  <2> DEFINE found == [n \in 1..MaxDepth |-> Found(n)]
  <2>1. found \in [1..MaxDepth -> SUBSET cycle]
    OBVIOUS
  <2>2. \A n \in 1..MaxDepth : found[n] = Found(n)
    OBVIOUS
  <2> HIDE DEF found, Found
  <2>3. Cardinality(found[1]) > 1
    BY <1>1, <1>15, <2>2
  <2>4. \A n \in 1..MaxDepth : n + 1 \in 1..MaxDepth =>
           found[n] \subseteq found[n + 1] /\ found[n] # found[n + 1]
    BY <1>14, <2>2
  <2>5. 1 \in Nat /\ MaxDepth \in Nat /\ 1 <= MaxDepth /\ MaxDepth \in 1..MaxDepth
    BY <1>1
  <2>6. Cardinality(found[MaxDepth]) > MaxDepth
    BY <2>1, <2>3, <2>4, <2>5, RoundsCount
  <2> QED
    BY <2>2, <2>5, <2>6
<1>17. Cardinality(Found(MaxDepth)) < Cardinality(cycle)
  <2>1. Found(MaxDepth) \in SUBSET cycle /\ Found(MaxDepth) # cycle
    BY <1>1, <1>13
  <2> HIDE DEF Found
  <2>2. /\ Cardinality(Found(MaxDepth)) <= Cardinality(cycle)
        /\ Cardinality(Found(MaxDepth)) # Cardinality(cycle)
        /\ IsFiniteSet(Found(MaxDepth))
    BY <2>1, FS_Subset
  <2>3. Cardinality(Found(MaxDepth)) \in Nat /\ Cardinality(cycle) \in Nat
    BY <2>2, FS_CardinalityType
  <2> QED
    BY <2>2, <2>3
<1> HIDE DEF Found
<1>18. Cardinality(Found(MaxDepth)) \in Nat /\ Cardinality(cycle) \in Nat
  <2>1. IsFiniteSet(Found(MaxDepth))
    BY FS_Subset DEF Found
  <2> QED
    BY <2>1, FS_CardinalityType
<1> QED
  BY <1>1, <1>16, <1>17, <1>18

\* What the inserts have checked: what each saw was stored and still is, of two inserts
\* one saw all that the other did, and each stored edge has an insert that did not see
\* it there already.
CheckedInv ==
  /\ GraphTypeOK
  /\ \A i \in Inserts : saw[i] \subseteq StoredEdges
  /\ \A i, j \in Inserts : saw[i] \subseteq saw[j] \/ saw[j] \subseteq saw[i]
  /\ \A i \in Inserts : insertAt[i] # "new" => EdgeOf[i][1] \notin Descendants(saw[i], EdgeOf[i][2])
  /\ \A e \in StoredEdges : \E i \in Inserts :
        insertAt[i] = "stored" /\ EdgeOf[i] = e /\ e \notin saw[i]

LEMMA CheckedInit == GraphInit => CheckedInv
<1> SUFFICES ASSUME GraphInit PROVE CheckedInv
  OBVIOUS
<1>1. \A i \in Inserts : saw[i] = {} /\ insertAt[i] = "new"
  BY DEF GraphInit
<1>2. StoredEdges = {}
  BY <1>1 DEF StoredEdges
<1>3. GraphTypeOK
  BY ReadInit DEF ReadInv
<1> QED
  BY <1>1, <1>2, <1>3 DEF CheckedInv

LEMMA CheckedStep ==
  ASSUME CheckedInv, GraphTypeOK', [GraphNext]_graphVars
  PROVE  CheckedInv'
<1>1. CASE UNCHANGED <<insertAt, saw>>
  BY <1>1 DEF CheckedInv, StoredEdges
<1>2. ASSUME NEW i \in Inserts, CheckEdge(i)
      PROVE  CheckedInv'
  <2>1. /\ insertAt'[i] = "checked" /\ saw'[i] = StoredEdges /\ insertAt[i] = "new"
        /\ \A j \in Inserts \ {i} : insertAt'[j] = insertAt[j] /\ saw'[j] = saw[j]
        /\ EdgeOf[i][1] \notin Descendants(StoredEdges, EdgeOf[i][2])
    BY <1>2 DEF CheckEdge, CheckedInv, GraphTypeOK
  <2>2. StoredEdges' = StoredEdges
    BY <2>1 DEF StoredEdges
  <2>3. \A j \in Inserts : saw'[j] \subseteq StoredEdges
    BY <2>1 DEF CheckedInv
  <2>4. \A j, k \in Inserts : saw'[j] \subseteq saw'[k] \/ saw'[k] \subseteq saw'[j]
    BY <2>1, <2>3 DEF CheckedInv
  <2>5. \A j \in Inserts : insertAt'[j] # "new" => EdgeOf[j][1] \notin Descendants(saw'[j], EdgeOf[j][2])
    BY <2>1 DEF CheckedInv
  <2>6. \A e \in StoredEdges : \E j \in Inserts :
           insertAt'[j] = "stored" /\ EdgeOf[j] = e /\ e \notin saw'[j]
    BY <2>1 DEF CheckedInv
  <2> QED
    BY <2>2, <2>3, <2>4, <2>5, <2>6 DEF CheckedInv
<1>3. ASSUME NEW i \in Inserts, CommitEdge(i)
      PROVE  CheckedInv'
  <2>1. /\ insertAt'[i] = "stored" /\ insertAt[i] = "checked" /\ saw' = saw
        /\ \A j \in Inserts \ {i} : insertAt'[j] = insertAt[j]
    BY <1>3 DEF CommitEdge, CheckedInv, GraphTypeOK
  <2>2. StoredEdges' = StoredEdges \union {EdgeOf[i]}
    BY <2>1 DEF StoredEdges
  <2>3. \A e \in StoredEdges' : \E j \in Inserts :
           insertAt'[j] = "stored" /\ EdgeOf[j] = e /\ e \notin saw[j]
    <3> SUFFICES ASSUME NEW e \in StoredEdges'
                 PROVE  \E j \in Inserts : insertAt'[j] = "stored" /\ EdgeOf[j] = e /\ e \notin saw[j]
      OBVIOUS
    <3>1. CASE e \in StoredEdges
      BY <2>1, <3>1 DEF CheckedInv
    <3>2. CASE e \notin StoredEdges
      BY <2>1, <2>2, <3>2 DEF CheckedInv
    <3> QED
      BY <3>1, <3>2
  <2>4. \A j \in Inserts : insertAt'[j] # "new" => insertAt[j] # "new"
    BY <2>1
  <2> QED
    BY <2>1, <2>2, <2>3, <2>4 DEF CheckedInv
<1>4. ASSUME NEW i \in Inserts, DropEdge(i)
      PROVE  CheckedInv'
  <2>1. /\ insertAt'[i] = "new" /\ insertAt[i] = "checked" /\ saw'[i] = {}
        /\ \A j \in Inserts \ {i} : insertAt'[j] = insertAt[j] /\ saw'[j] = saw[j]
    BY <1>4 DEF DropEdge, CheckedInv, GraphTypeOK
  <2>2. StoredEdges' = StoredEdges
    BY <2>1 DEF StoredEdges
  <2>3. \A j, k \in Inserts : saw'[j] \subseteq saw'[k] \/ saw'[k] \subseteq saw'[j]
    BY <2>1 DEF CheckedInv
  <2>4. \A e \in StoredEdges : \E j \in Inserts :
           insertAt'[j] = "stored" /\ EdgeOf[j] = e /\ e \notin saw'[j]
    BY <2>1 DEF CheckedInv
  <2>5. \A j \in Inserts : saw'[j] \subseteq StoredEdges
    BY <2>1 DEF CheckedInv
  <2>6. \A j \in Inserts : insertAt'[j] # "new" => EdgeOf[j][1] \notin Descendants(saw'[j], EdgeOf[j][2])
    BY <2>1 DEF CheckedInv
  <2> QED
    BY <2>2, <2>3, <2>4, <2>5, <2>6 DEF CheckedInv
<1> QED
  BY <1>1, <1>2, <1>3, <1>4 DEF GraphNext, graphVars, BeginReading, Expand, EndReading

\* The graph has a cycle only if two of its edges were checked each before the other was
\* stored, or if the cycle is longer than the search follows.
THEOREM CyclesOverlap == GraphSpec => []CyclesNeedOverlap
<1>1. ASSUME CheckedInv, NEW cycle \in SUBSET StoredEdges, SimpleCycle(cycle),
             ~(Cardinality(cycle) > MaxDepth + 1),
             \A i, j \in Inserts : ~ /\ insertAt[i] = "stored" /\ insertAt[j] = "stored"
                                     /\ {EdgeOf[i], EdgeOf[j]} \subseteq cycle
                                     /\ EdgeOf[i] \notin saw[j] /\ EdgeOf[j] \notin saw[i]
                                     /\ i # j
      PROVE  FALSE
  <2> DEFINE Firsts == {i \in Inserts : /\ insertAt[i] = "stored" /\ EdgeOf[i] \in cycle
                                        /\ EdgeOf[i] \notin saw[i]}
             Unseen(i) == Edges \ saw[i]
             sizes == {Cardinality(Unseen(i)) : i \in Firsts}
  <2>1. StoredEdges \in SUBSET Edges /\ cycle \in SUBSET Edges
    BY <1>1, StoredAreEdges DEF CheckedInv
  <2>2. IsFiniteSet(Edges)
    <3>1. IsFiniteSet(OutputVersions \X OutputVersions)
      BY GraphAssumption, FS_Product
    <3> QED
      BY <3>1, FS_Subset DEF Edges
  <2>3. IsFiniteSet(cycle) /\ Cardinality(cycle) <= MaxDepth + 1
    <3>1. IsFiniteSet(cycle)
      BY <2>1, <2>2, FS_Subset
    <3>2. Cardinality(cycle) \in Nat /\ MaxDepth \in Nat
      BY <3>1, FS_CardinalityType, GraphAssumption
    <3> QED
      BY <1>1, <3>1, <3>2
  <2>4. \A e \in cycle : \E i \in Firsts : EdgeOf[i] = e
    BY <1>1 DEF CheckedInv
  <2>5. \A i \in Inserts : IsFiniteSet(Unseen(i)) /\ Cardinality(Unseen(i)) \in Nat
    <3> SUFFICES ASSUME NEW i \in Inserts
                 PROVE  IsFiniteSet(Unseen(i)) /\ Cardinality(Unseen(i)) \in Nat
      OBVIOUS
    <3>1. IsFiniteSet(Unseen(i))
      BY <2>2, FS_Subset
    <3> QED
      BY <3>1, FS_CardinalityType
  <2> HIDE DEF Unseen
  <2>6. PICK i \in Firsts : \A j \in Firsts : Cardinality(Unseen(i)) <= Cardinality(Unseen(j))
    <3>1. Firsts # {}
      BY <1>1, <2>4 DEF SimpleCycle
    <3>2. sizes \in SUBSET Nat /\ sizes # {}
      BY <2>5, <3>1
    <3>3. PICK n \in sizes : \A m \in sizes : n <= m
      <4> HIDE DEF sizes
      <4> QED
        BY <3>2, LeastOf
    <3> QED
      BY <3>3
  <2> DEFINE e == EdgeOf[i]
  <2>7. cycle \ {e} \subseteq saw[i]
    <3> SUFFICES ASSUME NEW f \in cycle, f # e, f \notin saw[i]
                 PROVE  FALSE
      OBVIOUS
    <3>1. PICK j \in Firsts : EdgeOf[j] = f
      BY <2>4
    <3>2. i # j /\ e \in saw[j] /\ e \notin saw[i]
      BY <1>1, <3>1
    <3>3. saw[i] \subseteq saw[j] /\ saw[j] \in SUBSET Edges
      BY <1>1, <2>1, <3>2 DEF CheckedInv
    <3>4. Unseen(j) \in SUBSET Unseen(i) /\ Unseen(j) # Unseen(i)
      BY <3>2, <3>3 DEF Unseen
    <3>5. Cardinality(Unseen(j)) <= Cardinality(Unseen(i)) /\ Cardinality(Unseen(j)) # Cardinality(Unseen(i))
      BY <2>5, <3>4, FS_Subset
    <3> QED
      BY <2>5, <2>6, <3>1, <3>5
  <2>8. e \in cycle /\ saw[i] \in SUBSET Edges /\ e[1] \in ReachedFrom(cycle, e[2])
    BY <1>1, <2>1 DEF SimpleCycle, CheckedInv
  <2>9. e[1] \in Descendants(saw[i], e[2])
    BY <2>1, <2>3, <2>7, <2>8, DescendantsReach
  <2>10. e[1] \notin Descendants(saw[i], e[2])
    BY <1>1 DEF CheckedInv
  <2> QED
    BY <2>9, <2>10
<1>2. CheckedInv => CyclesNeedOverlap
  BY <1>1 DEF CyclesNeedOverlap
<1>3. ReadInv' => GraphTypeOK'
  BY DEF ReadInv
<1> QED
  BY <1>2, <1>3, CheckedInit, CheckedStep, ReadInvariant, PTL DEF GraphSpec
=============================================================================
