-------------------------- MODULE IngestionProofs ---------------------------
(***************************************************************************)
(* Proofs about telemetry on its way in: the rows of an OTLP trace agree   *)
(* with its spans, for any spans and exports; the batches of the SDK are   *)
(* stored at most once and none is dropped, for any number of batches,     *)
(* attempts and crashes.                                                   *)
(***************************************************************************)
EXTENDS Ingestion, FiniteSetTheorems, SequenceTheorems, WellFoundedInduction, TLAPS

-----------------------------------------------------------------------------
(* Sets of numbers.                                                        *)

LEMMA LeastOf ==
    ASSUME NEW T \in SUBSET Nat, T # {}
    PROVE  \E n \in T : \A m \in T : n <= m
<1> DEFINE Initial == {1..n : n \in T}
<1>1. Initial \subseteq FiniteSubsetsOf(Nat)
  <2> SUFFICES ASSUME NEW n \in T PROVE 1..n \in FiniteSubsetsOf(Nat)
    OBVIOUS
  <2>1. IsFiniteSet(1..n)
    BY FS_Interval
  <2> QED
    BY <2>1 DEF FiniteSubsetsOf
<1>2. Initial # {}
  OBVIOUS
<1>3. PICK least \in Initial : \A y \in Initial : <<y, least>> \notin StrictSubsetOrdering(Nat)
  <2> HIDE DEF Initial
  <2> QED
    BY <1>1, <1>2, FS_StrictSubsetOrderingWellFounded, WFMin
<1>4. PICK n \in T : least = 1..n
  OBVIOUS
<1>5. ASSUME NEW m \in T, m < n PROVE FALSE
  <2>1. 1..m \subseteq 1..n /\ n \in 1..n /\ n \notin 1..m
    BY <1>5
  <2>2. <<1..m, 1..n>> \in StrictSubsetOrdering(Nat)
    BY <2>1 DEF StrictSubsetOrdering
  <2> QED
    BY <1>3, <1>4, <2>2
<1> QED
  BY <1>4, <1>5

\* A set without a greatest element would have a smallest part like it.
LEMMA GreatestOf ==
    ASSUME NEW T \in SUBSET Nat, T # {}, IsFiniteSet(T)
    PROVE  \E n \in T : \A m \in T : m <= n
<1> DEFINE Bad == {U \in SUBSET T : U # {} /\ \A n \in U : \E m \in U : ~(m <= n)}
<1>1. Bad = {}
  <2> SUFFICES ASSUME Bad # {} PROVE FALSE
    OBVIOUS
  <2>1. Bad \subseteq FiniteSubsetsOf(T)
    BY FS_Subset DEF FiniteSubsetsOf
  <2>2. PICK U \in Bad : \A V \in Bad : <<V, U>> \notin StrictSubsetOrdering(T)
    <3> HIDE DEF Bad
    <3> QED
      BY <2>1, FS_StrictSubsetOrderingWellFounded, WFMin
  <2>3. PICK n \in U : TRUE
    OBVIOUS
  <2>4. <<U \ {n}, U>> \in StrictSubsetOrdering(T)
    BY <2>3 DEF StrictSubsetOrdering
  <2>5. U \ {n} \notin Bad
    BY <2>2, <2>4
  <2>6. CASE U \ {n} = {}
    BY <2>3, <2>6
  <2>7. CASE U \ {n} # {}
    <3>1. PICK k \in U \ {n} : \A m \in U \ {n} : m <= k
      BY <2>5, <2>7
    <3> QED
      BY <2>3, <3>1
  <2> QED
    BY <2>6, <2>7
<1> QED
  BY <1>1

-----------------------------------------------------------------------------
(* The merge of exports.                                                   *)

\* The end of a trace that is not there is 0, and so below every end.
MergeInv == /\ MergeTypeOK /\ ParentsLinked /\ TraceAgrees
            /\ trace.status = "ABSENT" => trace.to = 0

\* What an export says of its spans.
LEMMA ExportedReports ==
    ASSUME NEW e \in Exports
    PROVE  /\ Contents(e) \subseteq Spans
           /\ \A s \in Contents(e) : ReportOf[e][s] \in Reports
           /\ Verdict(e) \in {"SUCCEEDED", "FAILED"}
           /\ Earliest(e) \in Nat
           /\ \E s \in Contents(e) : ReportOf[e][s].from = Earliest(e)
           /\ \A s \in Contents(e) : Earliest(e) <= ReportOf[e][s].from
           /\ Latest(e) \in Nat
           /\ \E s \in Contents(e) : ReportOf[e][s].to = Latest(e)
           /\ \A s \in Contents(e) : ReportOf[e][s].to <= Latest(e)
<1> DEFINE Froms == {ReportOf[e][s].from : s \in Contents(e)}
           Tos   == {ReportOf[e][s].to : s \in Contents(e)}
<1>1. /\ Contents(e) \subseteq Spans /\ Contents(e) # {} /\ IsFiniteSet(Contents(e))
      /\ \A s \in Contents(e) : ReportOf[e][s] \in Reports
  BY MergeAssumption DEF Contents
<1>2. Froms \in SUBSET Nat /\ Froms # {} /\ Tos \in SUBSET Nat /\ Tos # {}
  BY <1>1 DEF Reports
<1>3. \E t \in Froms : \A s \in Contents(e) : t <= ReportOf[e][s].from
  <2>1. PICK t \in Froms : \A u \in Froms : t <= u
    <3> HIDE DEF Froms
    <3> QED
      BY <1>2, LeastOf
  <2> QED
    BY <2>1
<1>4. Earliest(e) \in Froms /\ \A s \in Contents(e) : Earliest(e) <= ReportOf[e][s].from
  BY <1>3 DEF Earliest
<1>5. IsFiniteSet(Tos)
  <2>1. [s \in Contents(e) |-> ReportOf[e][s].to] \in Surjection(Contents(e), Tos)
    BY DEF Surjection
  <2> QED
    BY <1>1, <2>1, FS_Surjection
<1>6. \E t \in Tos : \A s \in Contents(e) : t >= ReportOf[e][s].to
  <2>1. PICK t \in Tos : \A u \in Tos : u <= t
    <3> HIDE DEF Tos
    <3> QED
      BY <1>2, <1>5, GreatestOf
  <2>2. t \in Nat /\ \A s \in Contents(e) : ReportOf[e][s].to \in Nat
    BY <1>1, <1>2 DEF Reports
  <2> QED
    BY <2>1, <2>2
<1>7. Latest(e) \in Tos /\ \A s \in Contents(e) : Latest(e) >= ReportOf[e][s].to
  BY <1>6 DEF Latest
<1>8. \A s \in Contents(e) : Latest(e) >= ReportOf[e][s].to => ReportOf[e][s].to <= Latest(e)
  BY <1>1, <1>2, <1>7 DEF Reports
<1>9. Verdict(e) \in {"SUCCEEDED", "FAILED"}
  BY DEF Verdict
<1> QED
  BY <1>1, <1>2, <1>4, <1>7, <1>8, <1>9
LEMMA MergeInvInit == MergeInit => MergeInv
  BY MergeAssumption DEF MergeInit, MergeInv, MergeTypeOK, SpanRow, AbsentSpan, TraceRow, SpanStatuses,
     ParentsLinked, TraceAgrees, Present, Stored

\* What an export makes of the row of a span.
LEMMA ExportedSpans ==
    ASSUME MergeInv, NEW e \in Exports, Export(e), NEW s \in Spans
    PROVE  /\ spans'[s] \in SpanRow
           /\ Stored(spans', s) <=> Stored(spans, s) \/ s \in Contents(e)
           /\ spans'[s].status = Upserted(e)[s].status
           /\ spans'[s].from = Upserted(e)[s].from
           /\ spans'[s].to = Upserted(e)[s].to
           /\ spans'[s].parent = IF s \in Present' /\ ParentOf[s] \in Present'
                                  THEN ParentOf[s] ELSE NoSpan
<1> DEFINE up     == Upserted(e)
           linked == Linked(up, e)
<1>1. /\ \A q \in Spans : spans[q] \in SpanRow
      /\ \A q \in Contents(e) : ReportOf[e][q] \in Reports
      /\ Contents(e) \subseteq Spans
  BY ExportedReports DEF MergeInv, MergeTypeOK
<1>2. /\ ParentOf \in [Spans -> Spans \union {NoSpan}] /\ NoSpan \notin Spans
  BY MergeAssumption
<1>3. \A q \in Spans :
         /\ up[q] \in SpanRow
         /\ up[q].parent = spans[q].parent
         /\ Stored(up, q) <=> Stored(spans, q) \/ q \in Contents(e)
  <2> SUFFICES ASSUME NEW q \in Spans
               PROVE  /\ up[q] \in SpanRow
                      /\ up[q].parent = spans[q].parent
                      /\ Stored(up, q) <=> Stored(spans, q) \/ q \in Contents(e)
    OBVIOUS
  <2>1. CASE q \notin Contents(e)
    BY <1>1, <2>1 DEF Upserted, Stored
  <2>2. CASE q \in Contents(e) /\ spans[q].status = "ABSENT"
    <3>1. up[q] = [status |-> ReportOf[e][q].status, from |-> ReportOf[e][q].from,
                   to |-> ReportOf[e][q].to, parent |-> NoSpan]
      BY <2>2 DEF Upserted, MergedSpan
    <3>2. spans[q].parent = NoSpan
      BY <2>2 DEF MergeInv, ParentsLinked, Present, Stored
    <3> QED
      BY <1>1, <2>2, <3>1, <3>2 DEF Stored, SpanRow, Reports, SpanStatuses
  <2>3. CASE q \in Contents(e) /\ spans[q].status # "ABSENT"
    <3>1. up[q] = [status |-> SpanStatus(spans[q].status, ReportOf[e][q].status),
                   from   |-> Least(spans[q].from, ReportOf[e][q].from),
                   to     |-> Greatest(spans[q].to, ReportOf[e][q].to),
                   parent |-> spans[q].parent]
      BY <2>3 DEF Upserted, MergedSpan
    <3> QED
      BY <1>1, <2>3, <3>1 DEF Stored, SpanRow, Reports, SpanStatuses, SpanStatus, Least, Greatest
  <2> QED
    BY <2>1, <2>2, <2>3
<1> HIDE DEF up
<1>4. \A q \in Spans :
         /\ linked[q] \in SpanRow
         /\ linked[q].status = up[q].status /\ linked[q].from = up[q].from /\ linked[q].to = up[q].to
         /\ linked[q].parent = IF q \in Contents(e) /\ Stored(up, ParentOf[q]) THEN ParentOf[q]
                                ELSE up[q].parent
         /\ Stored(linked, q) <=> Stored(up, q)
  BY <1>2, <1>3 DEF Linked, Stored, SpanRow
<1> HIDE DEF linked
<1>5. \A q \in Spans :
         /\ spans'[q] \in SpanRow
         /\ spans'[q].status = linked[q].status /\ spans'[q].from = linked[q].from
         /\ spans'[q].to = linked[q].to
         /\ spans'[q].parent = IF Stored(linked, q) /\ linked[q].parent = NoSpan
                                  /\ Stored(linked, ParentOf[q])
                               THEN ParentOf[q] ELSE linked[q].parent
         /\ Stored(spans', q) <=> Stored(linked, q)
  <2>1. spans' = Repaired(linked)
    BY DEF Export, up, linked
  <2> QED
    BY <1>2, <1>4, <2>1 DEF Repaired, Stored, SpanRow
<1>6. /\ ParentOf[s] \in Spans => (Stored(linked, ParentOf[s]) <=> Stored(up, ParentOf[s]))
      /\ ParentOf[s] \notin Spans => ~Stored(linked, ParentOf[s]) /\ ~Stored(up, ParentOf[s])
  BY <1>4 DEF Stored
<1>7. spans[s].parent = IF Stored(spans, s) /\ Stored(spans, ParentOf[s]) THEN ParentOf[s] ELSE NoSpan
  BY DEF MergeInv, ParentsLinked, Present, Stored
<1>8. /\ \A q \in Spans : q \in Present' <=> Stored(up, q)
      /\ ParentOf[s] \in Present' <=> Stored(up, ParentOf[s])
  BY <1>2, <1>4, <1>5 DEF Present, Stored
<1>9. Stored(spans, ParentOf[s]) => Stored(up, ParentOf[s])
  BY <1>3 DEF Stored
<1>10. spans'[s].parent = IF s \in Present' /\ ParentOf[s] \in Present' THEN ParentOf[s] ELSE NoSpan
  BY <1>2, <1>3, <1>4, <1>5, <1>6, <1>7, <1>8, <1>9
<1> QED
  BY <1>3, <1>4, <1>5, <1>10 DEF up
LEMMA ExportKeepsInv ==
    ASSUME MergeInv, NEW e \in Exports, Export(e)
    PROVE  MergeInv'
<1>1. \A s \in Spans :
         /\ spans'[s] \in SpanRow
         /\ s \in Present' <=> s \in Present \/ s \in Contents(e)
         /\ s \notin Contents(e) =>
               /\ spans'[s].status = spans[s].status
               /\ spans'[s].from = spans[s].from
               /\ spans'[s].to = spans[s].to
  BY ExportedSpans DEF Present, Upserted
<1>2. /\ \A s \in Spans : spans[s] \in SpanRow
      /\ \A s \in Contents(e) : ReportOf[e][s] \in Reports /\ s \in Spans
      /\ trace \in TraceRow /\ Earliest(e) \in Nat /\ Latest(e) \in Nat
  BY ExportedReports DEF MergeInv, MergeTypeOK
<1>3. \A s \in Contents(e) :
         IF s \in Present
         THEN /\ spans'[s].status = SpanStatus(spans[s].status, ReportOf[e][s].status)
              /\ spans'[s].from = Least(spans[s].from, ReportOf[e][s].from)
              /\ spans'[s].to = Greatest(spans[s].to, ReportOf[e][s].to)
         ELSE /\ spans'[s].status = ReportOf[e][s].status
              /\ spans'[s].from = ReportOf[e][s].from
              /\ spans'[s].to = ReportOf[e][s].to
  BY <1>2, ExportedSpans DEF Present, Stored, Upserted, MergedSpan
<1>4. trace'.status = Verdict(e) /\ trace'.to = Greatest(trace.to, Latest(e))
      /\ trace'.from = IF trace.status = "ABSENT" THEN Earliest(e) ELSE Least(trace.from, Earliest(e))
  BY DEF Export, MergedTrace
<1>5. MergeTypeOK'
  <2>1. spans' = [s \in Spans |-> spans'[s]]
    BY DEF Export, Repaired
  <2>2. trace' \in TraceRow
    BY <1>2, ExportedReports DEF Export, MergedTrace, TraceRow, Least, Greatest
  <2> QED
    BY <1>1, <2>1, <2>2 DEF MergeTypeOK
<1>6. ParentsLinked'
  BY ExportedSpans DEF ParentsLinked
<1>7. Present' # {} /\ trace'.status # "ABSENT"
  BY <1>1, <1>2, <1>4, ExportedReports
<1>8. trace'.status = "FAILED" <=> \E s \in Present' : spans'[s].status = "ERROR"
  <2>1. ASSUME NEW s \in Present', spans'[s].status = "ERROR" PROVE trace'.status = "FAILED"
    <3>1. CASE s \in Present /\ spans[s].status = "ERROR"
      BY <1>4, <3>1 DEF MergeInv, TraceAgrees, Verdict
    <3>2. CASE s \in Contents(e) /\ ReportOf[e][s].status = "ERROR"
      BY <1>4, <3>2 DEF Verdict
    <3> QED
      BY <1>1, <1>3, <2>1, <3>1, <3>2 DEF SpanStatus, Present
  <2>2. ASSUME trace'.status = "FAILED" PROVE \E s \in Present' : spans'[s].status = "ERROR"
    <3>1. CASE trace.status = "FAILED"
      <4>1. PICK s \in Present : spans[s].status = "ERROR"
        BY <3>1 DEF MergeInv, TraceAgrees
      <4>2. s \in Spans /\ s \in Present'
        BY <1>1 DEF Present
      <4>3. spans'[s].status = "ERROR"
        BY <1>1, <1>3, <4>1, <4>2 DEF SpanStatus
      <4> QED
        BY <4>2, <4>3
    <3>2. CASE \E s \in Contents(e) : ReportOf[e][s].status = "ERROR"
      BY <1>1, <1>2, <1>3, <3>2 DEF SpanStatus
    <3> QED
      BY <1>4, <2>2, <3>1, <3>2 DEF Verdict
  <2> QED
    BY <2>1, <2>2
<1>9. \A s \in Present' : trace'.from <= spans'[s].from /\ spans'[s].to <= trace'.to
  <2> SUFFICES ASSUME NEW s \in Present'
               PROVE  trace'.from <= spans'[s].from /\ spans'[s].to <= trace'.to
    OBVIOUS
  <2>1. s \in Spans
    BY DEF Present
  <2>2. s \in Present =>
           /\ trace.status # "ABSENT"
           /\ trace.from <= spans[s].from /\ spans[s].to <= trace.to
    BY DEF MergeInv, TraceAgrees
  <2>3. s \in Contents(e) => Earliest(e) <= ReportOf[e][s].from /\ ReportOf[e][s].to <= Latest(e)
    BY ExportedReports
  <2>4. /\ spans[s].from \in Nat /\ spans[s].to \in Nat /\ trace.from \in Nat /\ trace.to \in Nat
        /\ s \in Contents(e) => ReportOf[e][s].from \in Nat /\ ReportOf[e][s].to \in Nat
    BY <1>2, <2>1 DEF SpanRow, TraceRow, Reports
  <2> QED
    BY <1>1, <1>2, <1>3, <1>4, <2>1, <2>2, <2>3, <2>4 DEF Least, Greatest
<1>10. \E s \in Present' : trace'.from = spans'[s].from
  <2>1. PICK q \in Contents(e) : ReportOf[e][q].from = Earliest(e)
    BY ExportedReports
  <2>2. q \in Present' /\ q \in Spans /\ trace'.from <= spans'[q].from
    BY <1>1, <1>2, <1>9
  <2>3. CASE trace'.from = Earliest(e)
    BY <1>2, <1>3, <2>1, <2>2, <2>3 DEF Least, SpanRow, Reports
  <2>4. CASE trace.status # "ABSENT" /\ trace'.from = trace.from
    <3>1. PICK s \in Present : trace.from = spans[s].from
      BY <2>4 DEF MergeInv, TraceAgrees
    <3>2. s \in Spans /\ s \in Present' /\ trace'.from <= spans'[s].from
      BY <1>1, <1>9 DEF Present
    <3> QED
      BY <1>1, <1>2, <1>3, <2>4, <3>1, <3>2 DEF Least, SpanRow, Reports
  <2> QED
    BY <1>4, <2>3, <2>4 DEF Least
<1>11. \E s \in Present' : trace'.to = spans'[s].to
  <2>1. PICK q \in Contents(e) : ReportOf[e][q].to = Latest(e)
    BY ExportedReports
  <2>2. q \in Present' /\ q \in Spans /\ spans'[q].to <= trace'.to
    BY <1>1, <1>2, <1>9
  <2>3. CASE trace'.to = Latest(e)
    BY <1>2, <1>3, <2>1, <2>2, <2>3 DEF Greatest, SpanRow, Reports
  <2>4. CASE trace'.to = trace.to /\ trace'.to # Latest(e)
    <3>1. trace.to # 0
      BY <1>2, <1>4, <2>4 DEF Greatest, TraceRow
    <3>2. Present # {}
      BY <3>1 DEF MergeInv, TraceAgrees
    <3>3. PICK s \in Present : trace.to = spans[s].to
      BY <3>2 DEF MergeInv, TraceAgrees
    <3>4. s \in Spans /\ s \in Present' /\ spans'[s].to <= trace'.to
      BY <1>1, <1>9 DEF Present
    <3> QED
      BY <1>1, <1>2, <1>3, <2>4, <3>3, <3>4 DEF Greatest, SpanRow, Reports
  <2> QED
    BY <1>4, <2>3, <2>4 DEF Greatest
<1> QED
  BY <1>5, <1>6, <1>7, <1>8, <1>9, <1>10, <1>11 DEF MergeInv, TraceAgrees
LEMMA MergeStep == MergeInv /\ [MergeNext]_mergeVars => MergeInv'
<1> SUFFICES ASSUME MergeInv, [MergeNext]_mergeVars PROVE MergeInv'
  OBVIOUS
<1>1. CASE UNCHANGED mergeVars
  BY <1>1 DEF mergeVars, MergeInv, MergeTypeOK, ParentsLinked, TraceAgrees, Present, Stored
<1>2. CASE MergeNext
  BY <1>2, ExportKeepsInv DEF MergeNext
<1> QED
  BY <1>1, <1>2

LEMMA AlwaysMergeInv == MergeSpec => []MergeInv
<1> QED
  BY MergeInvInit, MergeStep, PTL DEF MergeSpec

\* Whatever the SDK, the API and its crashes do, the rows of a trace are only merged.
LEMMA IngestionMerges == IngestionSpec => MergeSpec
<1>1. IngestionInit => MergeInit
  BY DEF IngestionInit
<1>2. [IngestionNext]_vars => [MergeNext]_mergeVars
  <2> SUFFICES ASSUME [IngestionNext]_vars PROVE [MergeNext]_mergeVars
    OBVIOUS
  <2>1. CASE UNCHANGED vars
    BY <2>1 DEF vars, mergeVars
  <2>2. CASE MergeNext
    BY <2>2
  <2>3. CASE \E b \in Batches : Ingest(b) \/ Enqueue(b)
    BY <2>3 DEF Ingest, Enqueue
  <2>4. CASE StartFlush \/ RemoveCompleted \/ Crash
    BY <2>4 DEF StartFlush, RemoveCompleted, Crash
  <2>5. CASE \E q \in requests : Disconnect(q) \/ Lose(q) \/ ServerStep(q)
    BY <2>5 DEF Disconnect, Lose, ServerStep, Begin, Replay, Commit, Reject, Abort
  <2> QED
    BY <2>1, <2>2, <2>3, <2>4, <2>5 DEF IngestionNext
<1> QED
  BY <1>1, <1>2, PTL DEF IngestionSpec, IngestionSafety, MergeSpec

\* A stored span points to its parent as soon as both are stored, in whatever exports
\* and order they came, also while the SDK and the API do anything else (persistTrace).
THEOREM ParentsAreLinked == IngestionSpec => []ParentsLinked
<1>1. MergeInv => ParentsLinked
  BY DEF MergeInv
<1> QED
  BY <1>1, AlwaysMergeInv, IngestionMerges, PTL

\* The row of a trace says what its spans say, although each export only merges its own
\* part into it (persistTrace).
THEOREM TracesAgree == IngestionSpec => []TraceAgrees
<1>1. MergeInv => TraceAgrees
  BY DEF MergeInv
<1> QED
  BY <1>1, AlwaysMergeInv, IngestionMerges, PTL
-----------------------------------------------------------------------------
(* The buffer of the SDK.                                                  *)

\* What is kept of the buffer is all there, and nothing else is.
LEMMA KeptStays ==
    ASSUME buffer \in Seq(Batches), NEW gone
    PROVE  /\ Without(gone) \in Seq(Batches)
           /\ \A i \in 1..Len(buffer) : buffer[i] \notin gone =>
                 \E n \in 1..Len(Without(gone)) : Without(gone)[n] = buffer[i]
<1> DEFINE kept     == {i \in 1..Len(buffer) : buffer[i] \notin gone}
           below(i) == {j \in kept : j <= i}
           rank     == [i \in kept |-> Cardinality(below(i))]
           size     == Cardinality(kept)
           place(n) == CHOOSE i \in kept : Cardinality(below(i)) = n
<1>1. IsFiniteSet(kept) /\ size \in Nat /\ kept \subseteq Nat
  <2>1. IsFiniteSet(1..Len(buffer)) /\ 1..Len(buffer) \subseteq Nat
    BY LenProperties, FS_Interval
  <2>2. IsFiniteSet(kept)
    BY <2>1, FS_Subset
  <2> QED
    BY <2>1, <2>2, FS_CardinalityType
<1>2. \A i \in kept : /\ IsFiniteSet(below(i)) /\ Cardinality(below(i)) \in 1..size
  <2> SUFFICES ASSUME NEW i \in kept
               PROVE  IsFiniteSet(below(i)) /\ Cardinality(below(i)) \in 1..size
    OBVIOUS
  <2>1. below(i) \subseteq kept /\ i \in below(i)
    BY <1>1
  <2> HIDE DEF kept, below
  <2>2. IsFiniteSet(below(i)) /\ Cardinality(below(i)) <= size
    BY <1>1, <2>1, FS_Subset
  <2>3. Cardinality(below(i)) \in Nat /\ Cardinality(below(i)) # 0
    BY <2>1, <2>2, FS_CardinalityType, FS_EmptySet
  <2> QED
    BY <1>1, <2>2, <2>3
<1>3. \A i, j \in kept : Cardinality(below(i)) = Cardinality(below(j)) => i = j
  <2>1. ASSUME NEW i \in kept, NEW j \in kept, i < j
        PROVE  Cardinality(below(i)) # Cardinality(below(j))
    <3>1. below(i) \subseteq below(j) /\ j \in below(j) /\ j \notin below(i)
      BY <1>1, <2>1
    <3> QED
      BY <1>2, <3>1, FS_Subset
  <2> QED
    BY <1>1, <2>1
<1>4. \A n \in 1..size : \E i \in kept : Cardinality(below(i)) = n
  <2>1. rank \in Injection(kept, 1..size)
    BY <1>2, <1>3 DEF Injection, IsInjective
  <2>2. IsFiniteSet(1..size) /\ Cardinality(1..size) = size
    BY <1>1, FS_Interval
  <2>3. rank \in Surjection(kept, 1..size)
    <3> HIDE DEF kept, rank
    <3> QED
      BY <1>1, <2>1, <2>2, FS_Injection
  <2> QED
    BY <2>3 DEF Surjection
<1>5. \A n \in 1..size : place(n) \in kept /\ Cardinality(below(place(n))) = n
  BY <1>4
<1>6. Without(gone) = [n \in 1..size |-> buffer[place(n)]]
  BY DEF Without
<1> HIDE DEF kept, size, place, rank, below
<1>7. \A n \in 1..size : buffer[place(n)] \in Batches
  BY <1>5, ElementOfSeq DEF kept
<1>8. Without(gone) \in Seq(Batches) /\ Len(Without(gone)) = size
  BY <1>1, <1>6, <1>7
<1>9. ASSUME NEW i \in 1..Len(buffer), buffer[i] \notin gone
      PROVE  \E n \in 1..Len(Without(gone)) : Without(gone)[n] = buffer[i]
  <2>1. i \in kept
    BY <1>9 DEF kept
  <2>2. Cardinality(below(i)) \in 1..size
    BY <1>2, <2>1
  <2>3. place(Cardinality(below(i))) = i
    BY <1>3, <1>5, <2>1, <2>2
  <2> QED
    BY <1>6, <1>8, <2>2, <2>3
<1> QED
  BY <1>8, <1>9
-----------------------------------------------------------------------------
(* The batches of the SDK.                                                 *)

\* A batch was stored once if its key is recorded, and never otherwise.
KeysTell == \A b \in Batches : ran[b] = IF b \in keys THEN 1 ELSE 0

\* A batch has one transaction at a time, and none any more when its key is recorded.
OneTransaction == \A q \in requests : q.at = "running" =>
    /\ q.batch \notin keys
    /\ \A r \in requests : r.at = "running" /\ r.batch = q.batch => r = q

\* The flush waits for the answer to one request, about the first batch it has to send.
OneFlushed ==
    /\ flush.at = "sending" => flush.todo # <<>>
    /\ \A q \in requests : q.by = "flush" =>
          /\ flush.at = "sending" /\ q.batch = Head(flush.todo)
          /\ \A r \in requests : r.by = "flush" => r = q

\* What the flush will remove is stored.
FlushedIsStored == flush.done \subseteq keys

\* What the application was told is so.
CallsTold == \A b \in Batches :
    /\ calls[b].at = "accepted" => b \in keys
    /\ calls[b].at = "buffered" => b \in keys \/ \E i \in 1..Len(buffer) : buffer[i] = b

ServerTyped ==
    /\ keys \subseteq Batches /\ ran \in [Batches -> Nat] /\ crashes \in 0..MaxCrashes
    /\ rows \subseteq UNION {{EventsOf[b][i] : i \in 1..Len(EventsOf[b])} : b \in Batches}

IngestionInv == /\ MergeInv /\ IngestionTypeOK /\ KeysTell /\ OneTransaction
                /\ OneFlushed /\ FlushedIsStored /\ CallsTold

LEMMA IdleFlushTyped == IdleFlush \in Flush
<1>1. 0 \in 0..MaxSends
  BY IngestionAssumption
<1>2. <<>> \in Seq(Batches)
  BY EmptySeq
<1> QED
  BY <1>1, <1>2 DEF IdleFlush, Flush

LEMMA IngestionInvInit == IngestionInit => IngestionInv
<1> SUFFICES ASSUME IngestionInit PROVE IngestionInv
  OBVIOUS
<1>1. MergeInv
  BY MergeInvInit DEF IngestionInit
<1>2. IdleCall \in Call /\ IdleFlush \in Flush
  BY IngestionAssumption, EmptySeq DEF IdleCall, Call, IdleFlush, Flush
<1>3. IngestionTypeOK
  BY <1>1, <1>2, IngestionAssumption, EmptySeq DEF IngestionInit, IngestionTypeOK, MergeInv
<1>4. KeysTell /\ OneTransaction /\ OneFlushed /\ FlushedIsStored /\ CallsTold
  BY DEF IngestionInit, KeysTell, OneTransaction, OneFlushed, FlushedIsStored, CallsTold, IdleCall, IdleFlush
<1> QED
  BY <1>1, <1>3, <1>4 DEF IngestionInv

Results == {"ok", "network", "retryable", "permanent"}

\* A call is told that its batch is accepted only by an answer that says so.
LEMMA CallAnswered ==
    ASSUME IngestionInv, NEW b \in Batches, NEW result \in Results
    PROVE  /\ AfterCall(b, result) \in Call /\ AfterCall(b, result).at # "buffered"
           /\ AfterCall(b, result).at = "accepted" => result = "ok"
<1>1. calls[b] \in Call /\ MaxSends \in Nat \ {0}
  BY IngestionAssumption DEF IngestionInv, IngestionTypeOK
<1>2. CASE Retried(result, calls[b].sends)
  BY <1>1, <1>2 DEF AfterCall, Retried, Call
<1>3. CASE ~Retried(result, calls[b].sends)
  BY <1>1, <1>3 DEF AfterCall, Call, Results
<1> QED
  BY <1>2, <1>3

\* A flush counts as done only what an answer says is stored.
LEMMA FlushAnswered ==
    ASSUME IngestionInv, flush.at = "sending", NEW result \in Results
    PROVE  /\ AfterFlush(result) \in Flush
           /\ AfterFlush(result).at = "sending" => AfterFlush(result).todo # <<>>
           /\ AfterFlush(result).done \subseteq
                 flush.done \union (IF result = "ok" THEN {Head(flush.todo)} ELSE {})
<1>1. /\ flush \in Flush /\ flush.todo \in Seq(Batches) /\ flush.todo # <<>>
      /\ MaxSends \in Nat \ {0}
  BY IngestionAssumption DEF IngestionInv, IngestionTypeOK, OneFlushed, Flush
<1>2. Head(flush.todo) \in Batches /\ Tail(flush.todo) \in Seq(Batches)
  BY <1>1, HeadTailProperties
<1>8. Len(Tail(flush.todo)) = Len(flush.todo) - 1 /\ Len(flush.todo) \in Nat \ {0}
  BY <1>1, HeadTailProperties, EmptySeq
<1>3. CASE Retried(result, flush.sends)
  <2>1. AfterFlush(result) = [flush EXCEPT !.sends = @ + 1]
    BY <1>3 DEF AfterFlush, Retried
  <2> QED
    BY <1>1, <1>3, <2>1 DEF Retried, Flush
<1>4. CASE result = "ok" /\ Len(flush.todo) > 1
  <2>1. AfterFlush(result) = [flush EXCEPT !.todo = Tail(@), !.done = @ \union {Head(flush.todo)},
                                           !.sends = 1]
    BY <1>4 DEF AfterFlush, Retried
  <2>2. Len(<<>>) = 0 /\ Len(Tail(flush.todo)) # 0
    <3>1. Len(<<>>) = 0
      BY EmptySeq
    <3>2. Len(Tail(flush.todo)) # 0
      <4> DEFINE long == Len(flush.todo)
                 less == Len(Tail(flush.todo))
      <4>1. less = long - 1 /\ long \in Nat /\ long > 1
        BY <1>4, <1>8
      <4> HIDE DEF long, less
      <4>2. less # 0
        BY <4>1
      <4> QED
        BY <4>2 DEF less
    <3> QED
      BY <3>1, <3>2
  <2>3. Tail(flush.todo) # <<>>
    BY <2>2
  <2> DEFINE sent == [flush EXCEPT !.todo = Tail(@), !.done = @ \union {Head(flush.todo)}, !.sends = 1]
  <2>4. /\ sent.at = "sending" /\ sent.todo = Tail(flush.todo)
        /\ sent.done = flush.done \union {Head(flush.todo)}
    BY <1>1 DEF Flush
  <2>5. sent \in Flush
    <3>1. flush \in [at : {"idle", "sending", "removing"}, todo : Seq(Batches), done : SUBSET Batches,
                     sends : 0..MaxSends]
      BY <1>1 DEF Flush
    <3>2. flush.done \union {Head(flush.todo)} \in SUBSET Batches /\ 1 \in 0..MaxSends
      BY <1>1, <1>2 DEF Flush
    <3> DEFINE head == Head(flush.todo)
               tail == Tail(flush.todo)
    <3> HIDE DEF head, tail
    <3>3. tail \in Seq(Batches) /\ flush.done \union {head} \in SUBSET Batches
      BY <1>2, <3>2 DEF head, tail
    <3>4. [flush EXCEPT !.todo = tail, !.done = @ \union {head}, !.sends = 1] \in Flush
      BY <3>1, <3>2, <3>3 DEF Flush
    <3> QED
      BY <3>4 DEF head, tail
  <2> QED
    BY <1>4, <2>1, <2>3, <2>4, <2>5
<1>5. CASE result = "ok" /\ Len(flush.todo) <= 1
  <2>1. AfterFlush(result) = [flush EXCEPT !.at = "removing", !.todo = <<>>,
                                 !.done = @ \union {Head(flush.todo)}, !.sends = 0]
    BY <1>5 DEF AfterFlush, Retried
  <2> DEFINE sent == [flush EXCEPT !.at = "removing", !.todo = <<>>,
                                   !.done = @ \union {Head(flush.todo)}, !.sends = 0]
  <2>2. sent.at = "removing" /\ sent.done = flush.done \union {Head(flush.todo)}
    BY <1>1 DEF Flush
  <2>3. sent \in Flush
    <3>1. flush.done \union {Head(flush.todo)} \in SUBSET Batches /\ 0 \in 0..MaxSends
      BY <1>1, <1>2 DEF Flush
    <3>2. <<>> \in Seq(Batches)
      BY EmptySeq
    <3> DEFINE none == <<>>
    <3> HIDE DEF none
    <3>3. none \in Seq(Batches)
      BY <3>2 DEF none
    <3>4. [flush EXCEPT !.at = "removing", !.todo = none, !.done = @ \union {Head(flush.todo)},
                        !.sends = 0] \in Flush
      BY <1>1, <3>1, <3>3 DEF Flush
    <3> QED
      BY <3>4 DEF none
  <2> QED
    BY <1>5, <2>1, <2>2, <2>3
<1>6. CASE result = "permanent"
  BY <1>1, <1>6, EmptySeq DEF AfterFlush, Retried, IdleFlush, Flush
<1>7. CASE result \in {"network", "retryable"} /\ ~Retried(result, flush.sends)
  <2>1. AfterFlush(result) = [at |-> "removing", todo |-> <<>>, done |-> Completed, sends |-> 0]
    BY <1>7 DEF AfterFlush
  <2> QED
    BY <1>1, <1>7, <2>1, EmptySeq DEF Completed, Flush
<1> QED
  BY <1>3, <1>4, <1>5, <1>6, <1>7 DEF Results

\* An answer, or the end of waiting for one, keeps the invariant, if an answer that says
\* the batch is stored is true, and what remains of the request belongs to nobody.
LEMMA AnswerKeepsInv ==
    ASSUME IngestionInv, NEW q \in requests, NEW result \in Results, NEW kept, Answer(q, result, kept),
           kept \subseteq {[q EXCEPT !.by = "nobody"]},
           result = "ok" => q.batch \in keys',
           ServerTyped',
           MergeInv', KeysTell', keys \subseteq keys',
           \/ keys' = keys
           \/ keys' = keys \union {q.batch} /\ q.at = "running" /\ kept = {}
    PROVE  IngestionInv'
<1>1. /\ requests \subseteq Request /\ calls \in [Batches -> Call] /\ flush \in Flush
      /\ buffer \in Seq(Batches) /\ q \in Request /\ q.batch \in Batches
  BY DEF IngestionInv, IngestionTypeOK, Request
<1>2. /\ kept \subseteq Request
      /\ \A r \in kept : r.by = "nobody" /\ r.at = q.at /\ r.batch = q.batch
  BY <1>1 DEF Request
<1>3. /\ buffer' = buffer
      /\ calls' = IF q.by = "call" THEN [calls EXCEPT ![q.batch] = AfterCall(q.batch, result)] ELSE calls
      /\ flush' = IF q.by = "flush" THEN AfterFlush(result) ELSE flush
  BY <1>1 DEF Answer, clientVars, Request
<1> DEFINE NextSent(r) ==
              /\ r \in Request /\ r.at = "wire"
              /\ r.by = "flush" => q.by = "flush" /\ flush'.at = "sending" /\ r.batch = Head(flush'.todo)
<1>4. \E more \in SUBSET Request : /\ requests' = (requests \ {q}) \union kept \union more
                                   /\ \A r, t \in more : NextSent(r) /\ t = r
  <2>1. CASE q.by = "call"
    <3> DEFINE again == IF AfterCall(q.batch, result).at = "sending" THEN {Sent(q.batch, "call")} ELSE {}
    <3>1. Sent(q.batch, "call") \in Request /\ Sent(q.batch, "call").at = "wire"
          /\ Sent(q.batch, "call").by = "call"
      BY <1>1 DEF Sent, Request
    <3>2. requests' = (requests \ {q}) \union kept \union again
      BY <2>1 DEF Answer
    <3>3. \A r, t \in again : NextSent(r) /\ t = r
      BY <3>1
    <3>4. again \in SUBSET Request
      BY <3>1
    <3> HIDE DEF again, NextSent
    <3> WITNESS again \in SUBSET Request
    <3> QED
      BY <3>2, <3>3
  <2>2. CASE q.by = "flush"
    <3>1. flush.at = "sending"
      BY <2>2 DEF IngestionInv, OneFlushed
    <3>2. flush' \in Flush /\ (flush'.at = "sending" => flush'.todo # <<>>)
      BY <1>3, <2>2, <3>1, FlushAnswered
    <3> DEFINE again == IF flush'.at = "sending" THEN {Sent(Head(flush'.todo), "flush")} ELSE {}
    <3>3. flush'.at = "sending" => Head(flush'.todo) \in Batches
      BY <3>2, HeadTailProperties DEF Flush
    <3>4. requests' = (requests \ {q}) \union kept \union again
      BY <1>3, <2>2 DEF Answer
    <3>5. \A r, t \in again : NextSent(r) /\ t = r
      BY <2>2, <3>3 DEF Sent, Request
    <3>6. again \in SUBSET Request
      BY <3>3 DEF Sent, Request
    <3> HIDE DEF again, NextSent
    <3> WITNESS again \in SUBSET Request
    <3> QED
      BY <3>4, <3>5
  <2>3. CASE q.by = "nobody"
    <3>1. requests' = (requests \ {q}) \union kept \union {}
      BY <2>3 DEF Answer
    <3> HIDE DEF NextSent
    <3> WITNESS {} \in SUBSET Request
    <3> QED
      BY <3>1
  <2> QED
    BY <1>1, <2>1, <2>2, <2>3 DEF Request
<1>5. PICK more \in SUBSET Request : /\ requests' = (requests \ {q}) \union kept \union more
                                     /\ \A r, t \in more : NextSent(r) /\ t = r
  BY <1>4
<1>6. /\ flush' \in Flush /\ (flush'.at = "sending" => flush'.todo # <<>>)
      /\ flush'.done \subseteq keys'
  <2>1. CASE q.by = "flush"
    <3>1. flush.at = "sending" /\ q.batch = Head(flush.todo) /\ flush.done \subseteq keys
      BY <2>1 DEF IngestionInv, OneFlushed, FlushedIsStored
    <3>2. flush'.done \subseteq flush.done \union (IF result = "ok" THEN {Head(flush.todo)} ELSE {})
      BY <1>3, <2>1, <3>1, FlushAnswered
    <3> QED
      BY <1>3, <2>1, <3>1, <3>2, FlushAnswered
  <2>2. CASE q.by # "flush"
    BY <1>1, <1>3, <2>2 DEF IngestionInv, OneFlushed, FlushedIsStored
  <2> QED
    BY <2>1, <2>2
<1>7. IngestionTypeOK'
  <2>1. calls' \in [Batches -> Call]
    BY <1>1, <1>3, CallAnswered
  <2> QED
    BY <1>1, <1>2, <1>3, <1>5, <1>6, <2>1 DEF ServerTyped, MergeInv, IngestionTypeOK
<1>8. OneTransaction'
  <2> SUFFICES ASSUME NEW r \in requests', r.at = "running"
               PROVE  /\ r.batch \notin keys'
                      /\ \A s \in requests' : s.at = "running" /\ s.batch = r.batch => s = r
    BY DEF OneTransaction
  <2>1. \A s \in requests' : s.at = "running" =>
           s \in requests \ {q} \/ (s \in kept /\ q.at = "running")
    BY <1>2, <1>5
  <2>2. \A s \in requests : s.at = "running" =>
           /\ s.batch \notin keys
           /\ \A t \in requests : t.at = "running" /\ t.batch = s.batch => t = s
    BY DEF IngestionInv, OneTransaction
  <2>3. CASE r \in kept
    BY <1>2, <2>1, <2>2, <2>3
  <2>4. CASE r \in requests \ {q}
    BY <1>2, <2>1, <2>2, <2>4
  <2> QED
    BY <2>1, <2>3, <2>4
<1>9. OneFlushed'
  <2>1. \A r \in requests' : r.by = "flush" => r \in requests \ {q} \/ r \in more
    BY <1>2, <1>5
  <2>2. CASE q.by = "flush"
    <3>1. \A r \in requests' : r.by = "flush" => r \in more
      BY <2>1, <2>2 DEF IngestionInv, OneFlushed
    <3> QED
      BY <1>5, <1>6, <3>1 DEF OneFlushed, Sent
  <2>3. CASE q.by # "flush"
    <3>1. \A r \in requests' : r.by = "flush" => r \in requests
      BY <1>5, <2>1, <2>3
    <3>2. flush' = flush
      BY <1>3, <2>3
    <3> QED
      BY <3>1, <3>2 DEF IngestionInv, OneFlushed
  <2> QED
    BY <2>2, <2>3
<1>10. CallsTold'
  <2> SUFFICES ASSUME NEW b \in Batches
               PROVE  /\ calls'[b].at = "accepted" => b \in keys'
                      /\ calls'[b].at = "buffered" =>
                            b \in keys' \/ \E i \in 1..Len(buffer) : buffer[i] = b
    BY <1>3 DEF CallsTold
  <2>1. CASE q.by = "call" /\ b = q.batch
    <3>1. calls'[b] = AfterCall(b, result)
      BY <1>1, <1>3, <2>1
    <3> QED
      BY <2>1, <3>1, CallAnswered
  <2>2. CASE ~(q.by = "call" /\ b = q.batch)
    BY <1>1, <1>3, <2>2 DEF IngestionInv, CallsTold
  <2> QED
    BY <2>1, <2>2
<1> QED
  BY <1>6, <1>7, <1>8, <1>9, <1>10 DEF IngestionInv, FlushedIsStored

LEMMA CallsKeepInv ==
    ASSUME IngestionInv, NEW b \in Batches, Ingest(b) \/ Enqueue(b)
    PROVE  IngestionInv'
<1>1. /\ requests \subseteq Request /\ calls \in [Batches -> Call] /\ buffer \in Seq(Batches)
      /\ MaxSends \in Nat \ {0}
  BY IngestionAssumption DEF IngestionInv, IngestionTypeOK
<1>2. MergeInv' /\ KeysTell' /\ keys' = keys /\ flush' = flush
  BY DEF Ingest, Enqueue, serverVars, mergeVars, IngestionInv, MergeInv, MergeTypeOK, ParentsLinked,
     TraceAgrees, Present, Stored, KeysTell
<1>3. CASE Ingest(b)
  <2>1. [at |-> "sending", sends |-> 1] \in Call /\ Sent(b, "call") \in Request
    BY <1>1 DEF Call, Sent, Request
  <2>2. IngestionTypeOK'
    BY <1>1, <1>2, <1>3, <2>1 DEF IngestionInv, IngestionTypeOK, MergeInv, Ingest, serverVars
  <2>3. OneTransaction' /\ OneFlushed' /\ FlushedIsStored'
    BY <1>2, <1>3 DEF IngestionInv, OneTransaction, OneFlushed, FlushedIsStored, Ingest, Sent
  <2>4. CallsTold'
    BY <1>1, <1>2, <1>3 DEF IngestionInv, CallsTold, Ingest
  <2> QED
    BY <1>2, <2>2, <2>3, <2>4 DEF IngestionInv
<1>4. CASE Enqueue(b)
  <2>1. [at |-> "buffered", sends |-> 0] \in Call
    BY <1>1 DEF Call
  <2>2. /\ buffer' \in Seq(Batches) /\ Len(buffer') = Len(buffer) + 1 /\ buffer'[Len(buffer) + 1] = b
        /\ \A i \in 1..Len(buffer) : buffer'[i] = buffer[i]
    BY <1>1, <1>4, AppendProperties DEF Enqueue
  <2>3. Len(buffer) \in Nat
    BY <1>1, LenProperties
  <2>4. IngestionTypeOK'
    BY <1>1, <1>2, <1>4, <2>1, <2>2 DEF IngestionInv, IngestionTypeOK, MergeInv, Enqueue, serverVars
  <2>5. OneTransaction' /\ OneFlushed' /\ FlushedIsStored'
    BY <1>2, <1>4 DEF IngestionInv, OneTransaction, OneFlushed, FlushedIsStored, Enqueue
  <2>6. CallsTold'
    <3> SUFFICES ASSUME NEW c \in Batches
                 PROVE  /\ calls'[c].at = "accepted" => c \in keys
                        /\ calls'[c].at = "buffered" =>
                              c \in keys \/ \E i \in 1..Len(buffer') : buffer'[i] = c
      BY <1>2 DEF CallsTold
    <3>1. CASE c = b
      BY <1>1, <1>4, <2>2, <2>3, <3>1 DEF Enqueue
    <3>2. CASE c # b
      <4>1. calls'[c] = calls[c]
        BY <1>1, <1>4, <3>2 DEF Enqueue
      <4>2. \A i \in 1..Len(buffer) : i \in 1..Len(buffer') /\ buffer'[i] = buffer[i]
        BY <2>2, <2>3
      <4> QED
        BY <4>1, <4>2 DEF IngestionInv, CallsTold
    <3> QED
      BY <3>1, <3>2
  <2> QED
    BY <1>2, <2>4, <2>5, <2>6 DEF IngestionInv
<1> QED
  BY <1>3, <1>4

LEMMA FlushKeepsInv ==
    ASSUME IngestionInv, StartFlush \/ RemoveCompleted
    PROVE  IngestionInv'
<1>1. /\ requests \subseteq Request /\ calls \in [Batches -> Call] /\ buffer \in Seq(Batches)
      /\ flush \in Flush /\ MaxSends \in Nat \ {0}
  BY IngestionAssumption DEF IngestionInv, IngestionTypeOK
<1>2. MergeInv' /\ KeysTell' /\ keys' = keys /\ calls' = calls
  BY DEF StartFlush, RemoveCompleted, serverVars, mergeVars, IngestionInv, MergeInv, MergeTypeOK,
     ParentsLinked, TraceAgrees, Present, Stored, KeysTell
<1>3. CASE StartFlush
  <2>1. buffer # <<>> /\ Head(buffer) \in Batches
    BY <1>1, <1>3, HeadTailProperties DEF StartFlush
  <2>2. flush' = [at |-> "sending", todo |-> buffer, done |-> {}, sends |-> 1]
    BY <1>3 DEF StartFlush, Peeked
  <2>3. flush' \in Flush
    BY <1>1, <2>2 DEF Flush
  <2>4. requests' = requests \union {Sent(Head(buffer), "flush")}
    BY <1>3 DEF StartFlush, Peeked
  <2>5. IngestionTypeOK'
    <3>1. Sent(Head(buffer), "flush") \in Request
      BY <2>1 DEF Sent, Request
    <3> QED
      BY <1>2, <1>3, <2>3, <2>4, <3>1 DEF IngestionInv, IngestionTypeOK, MergeInv, StartFlush, serverVars
  <2>6. OneTransaction'
    BY <1>2, <2>4 DEF IngestionInv, OneTransaction, Sent
  <2>7. OneFlushed'
    <3>1. \A q \in requests : q.by # "flush"
      BY <1>3 DEF IngestionInv, OneFlushed, StartFlush
    <3> QED
      BY <2>1, <2>2, <2>4, <3>1 DEF OneFlushed, Sent
  <2>8. FlushedIsStored' /\ CallsTold'
    BY <1>2, <1>3, <2>2 DEF IngestionInv, FlushedIsStored, CallsTold, StartFlush
  <2> QED
    BY <1>2, <2>5, <2>6, <2>7, <2>8 DEF IngestionInv
<1>4. CASE RemoveCompleted
  <2>1. /\ buffer' \in Seq(Batches)
        /\ \A i \in 1..Len(buffer) : buffer[i] \notin flush.done =>
              \E n \in 1..Len(buffer') : buffer'[n] = buffer[i]
    BY <1>1, <1>4, KeptStays DEF RemoveCompleted
  <2>2. flush' = IdleFlush /\ IdleFlush \in Flush /\ requests' = requests
    BY <1>4, IdleFlushTyped DEF RemoveCompleted
  <2>3. IngestionTypeOK'
    BY <1>1, <1>2, <1>4, <2>1, <2>2 DEF IngestionInv, IngestionTypeOK, MergeInv, RemoveCompleted, serverVars
  <2>4. OneTransaction' /\ OneFlushed' /\ FlushedIsStored'
    BY <1>2, <1>4, <2>2 DEF IngestionInv, OneTransaction, OneFlushed, FlushedIsStored, RemoveCompleted, IdleFlush
  <2>5. CallsTold'
    <3> SUFFICES ASSUME NEW b \in Batches, NEW i \in 1..Len(buffer), buffer[i] = b, b \notin keys
                 PROVE  \E n \in 1..Len(buffer') : buffer'[n] = b
      BY <1>2 DEF IngestionInv, CallsTold
    <3> QED
      BY <2>1 DEF IngestionInv, FlushedIsStored
  <2> QED
    BY <1>2, <2>3, <2>4, <2>5 DEF IngestionInv
<1> QED
  BY <1>3, <1>4

LEMMA CrashKeepsInv ==
    ASSUME IngestionInv, Crash
    PROVE  IngestionInv'
<1>1. /\ requests \subseteq Request /\ calls \in [Batches -> Call] /\ crashes \in 0..MaxCrashes
      /\ MaxCrashes \in Nat /\ MaxSends \in Nat \ {0}
  BY IngestionAssumption DEF IngestionInv, IngestionTypeOK
<1>2. MergeInv' /\ KeysTell' /\ keys' = keys /\ buffer' = buffer
  BY DEF Crash, serverVars, mergeVars, IngestionInv, MergeInv, MergeTypeOK,
     ParentsLinked, TraceAgrees, Present, Stored, KeysTell
<1>3. \A q \in requests : /\ [q EXCEPT !.by = "nobody"] \in Request
                          /\ [q EXCEPT !.by = "nobody"].by = "nobody"
                          /\ [q EXCEPT !.by = "nobody"].at = q.at
                          /\ [q EXCEPT !.by = "nobody"].batch = q.batch
  BY <1>1 DEF Request
<1>4. flush' = IdleFlush /\ IdleFlush \in Flush
  BY IdleFlushTyped DEF Crash
<1>5. \A b \in Batches : calls'[b] = calls[b] \/ calls'[b] = [at |-> "unknown", sends |-> 0]
  BY DEF Crash
<1>6. IngestionTypeOK'
  <2>1. [at |-> "unknown", sends |-> 0] \in Call
    BY <1>1 DEF Call
  <2>2. calls' \in [Batches -> Call]
    BY <1>1, <2>1 DEF Crash
  <2>3. requests' \subseteq Request /\ crashes' \in 0..MaxCrashes
    BY <1>1, <1>3 DEF Crash
  <2> QED
    BY <1>2, <1>4, <2>2, <2>3 DEF IngestionInv, IngestionTypeOK, MergeInv, Crash, serverVars
<1>7. OneTransaction' /\ OneFlushed'
  <2>1. \A r \in requests' : \E q \in requests : r = [q EXCEPT !.by = "nobody"]
    BY DEF Crash
  <2>2. \A r \in requests' : r.by = "nobody"
    BY <2>1, <1>3
  <2>3. OneFlushed'
    BY <2>2, <1>4 DEF OneFlushed, IdleFlush
  <2>4. ASSUME NEW r \in requests', r.at = "running"
        PROVE  /\ r.batch \notin keys
               /\ \A s \in requests' : s.at = "running" /\ s.batch = r.batch => s = r
    <3>1. PICK q \in requests : r = [q EXCEPT !.by = "nobody"]
      BY <2>1
    <3>2. q.at = "running" /\ q.batch = r.batch /\ q.batch \notin keys
      BY <1>3, <2>4, <3>1 DEF IngestionInv, OneTransaction
    <3>3. ASSUME NEW s \in requests', s.at = "running", s.batch = r.batch
          PROVE  s = r
      <4>1. PICK p \in requests : s = [p EXCEPT !.by = "nobody"]
        BY <2>1
      <4>2. p.at = "running" /\ p.batch = q.batch
        BY <1>3, <3>2, <3>3, <4>1
      <4>3. p = q
        BY <3>2, <4>2 DEF IngestionInv, OneTransaction
      <4> QED
        BY <3>1, <4>1, <4>3
    <3> QED
      BY <3>2, <3>3
  <2>5. OneTransaction'
    BY <1>2, <2>4 DEF OneTransaction
  <2> QED
    BY <2>3, <2>5
<1>8. FlushedIsStored' /\ CallsTold'
  BY <1>2, <1>4, <1>5 DEF IngestionInv, FlushedIsStored, CallsTold, IdleFlush
<1> QED
  BY <1>2, <1>6, <1>7, <1>8 DEF IngestionInv

LEMMA RequestsKeepInv ==
    ASSUME IngestionInv, NEW q \in requests, Disconnect(q) \/ Lose(q) \/ ServerStep(q)
    PROVE  IngestionInv'
<1>1. /\ q \in Request /\ requests \subseteq Request /\ q.batch \in Batches
      /\ ran \in [Batches -> Nat] /\ keys \subseteq Batches
  BY DEF IngestionInv, IngestionTypeOK, Request
<1>2. MergeInv'
  BY DEF Disconnect, Lose, ServerStep, Begin, Replay, Commit, Reject, Abort, mergeVars, IngestionInv,
     MergeInv, MergeTypeOK, ParentsLinked, TraceAgrees, Present, Stored
<1>3. ASSUME UNCHANGED serverVars, UNCHANGED crashes PROVE ServerTyped' /\ KeysTell' /\ keys' = keys
  BY <1>3 DEF IngestionInv, IngestionTypeOK, ServerTyped, KeysTell, serverVars
<1>4. CASE Disconnect(q)
  BY <1>2, <1>3, <1>4, AnswerKeepsInv DEF Disconnect, Results
<1>5. CASE Lose(q)
  BY <1>2, <1>3, <1>5, AnswerKeepsInv DEF Lose, Results
<1>6. CASE Begin(q)
  <2> DEFINE r == [q EXCEPT !.at = "running"]
  <2>1. r \in Request /\ r.at = "running" /\ r.by = q.by /\ r.batch = q.batch
    BY <1>1 DEF Request
  <2>2. requests' = (requests \ {q}) \union {r} /\ UNCHANGED clientVars /\ UNCHANGED serverVars
        /\ UNCHANGED crashes
    BY <1>6 DEF Begin
  <2> HIDE DEF r
  <2>3. IngestionTypeOK'
    BY <1>1, <1>2, <2>1, <2>2 DEF IngestionInv, IngestionTypeOK, MergeInv, clientVars, serverVars
  <2>4. OneTransaction'
    <3>1. q.batch \notin keys /\ \A s \in requests : ~(s.batch = q.batch /\ s.at = "running")
      BY <1>6 DEF Begin, KeyFree
    <3> QED
      BY <2>1, <2>2, <3>1 DEF IngestionInv, OneTransaction, serverVars
  <2>5. OneFlushed' /\ FlushedIsStored' /\ CallsTold'
    BY <2>1, <2>2 DEF IngestionInv, OneFlushed, FlushedIsStored, CallsTold, clientVars, serverVars
  <2> QED
    BY <1>2, <1>3, <2>2, <2>3, <2>4, <2>5 DEF IngestionInv
<1>7. CASE Replay(q)
  BY <1>2, <1>3, <1>7, AnswerKeepsInv DEF Replay, Served, Results
<1>8. CASE Commit(q)
  <2>1. keys' = keys \union {q.batch} /\ q.at = "running" /\ Answer(q, "ok", {})
    BY <1>8 DEF Commit
  <2>2. q.batch \notin keys
    BY <2>1 DEF IngestionInv, OneTransaction
  <2>3. KeysTell' /\ ran' \in [Batches -> Nat]
    BY <1>1, <1>8, <2>1, <2>2 DEF IngestionInv, KeysTell, Commit
  <2>4. EventsBefore(q.batch, Len(EventsOf[q.batch]) + 1) =
           {EventsOf[q.batch][i] : i \in 1..Len(EventsOf[q.batch])}
    <3>1. (Len(EventsOf[q.batch]) + 1) - 1 = Len(EventsOf[q.batch])
      BY <1>1, IngestionAssumption
    <3> QED
      BY <3>1 DEF EventsBefore
  <2>5. ServerTyped'
    <3>1. keys' \subseteq Batches
      BY <1>1, <2>1
    <3>2. crashes' \in 0..MaxCrashes
      BY <1>8 DEF Commit, IngestionInv, IngestionTypeOK
    <3>3. rows' = rows \union EventsBefore(q.batch, Len(EventsOf[q.batch]) + 1)
      BY <1>8 DEF Commit
    <3>4. rows' \subseteq UNION {{EventsOf[b][i] : i \in 1..Len(EventsOf[b])} : b \in Batches}
      <4> DEFINE S(b) == {EventsOf[b][i] : i \in 1..Len(EventsOf[b])}
      <4>1. rows \subseteq UNION {S(b) : b \in Batches}
        BY DEF IngestionInv, IngestionTypeOK
      <4>2. S(q.batch) \in {S(b) : b \in Batches}
        BY <1>1
      <4>3. rows' = rows \union S(q.batch)
        BY <2>4, <3>3
      <4> HIDE DEF S
      <4>4. rows' \subseteq UNION {S(b) : b \in Batches}
        BY <4>1, <4>2, <4>3
      <4> QED
        BY <4>4 DEF S
    <3> QED
      BY <2>3, <3>1, <3>2, <3>4 DEF ServerTyped
  <2> QED
    BY <1>2, <2>1, <2>3, <2>5, AnswerKeepsInv DEF Results
<1>9. CASE Reject(q)
  BY <1>2, <1>3, <1>9, AnswerKeepsInv DEF Reject, Results
<1>10. CASE Abort(q)
  <2>1. PICK result \in {"network", "retryable", "permanent"} : Answer(q, result, {})
    BY <1>10 DEF Abort
  <2>2. UNCHANGED serverVars /\ UNCHANGED crashes
    BY <1>10 DEF Abort
  <2> QED
    BY <1>2, <1>3, <2>1, <2>2, AnswerKeepsInv DEF Results
<1> QED
  BY <1>4, <1>5, <1>6, <1>7, <1>8, <1>9, <1>10 DEF ServerStep

LEMMA IngestionStep == IngestionInv /\ [IngestionNext]_vars => IngestionInv'
<1> SUFFICES ASSUME IngestionInv, [IngestionNext]_vars PROVE IngestionInv'
  OBVIOUS
<1>1. ASSUME UNCHANGED <<clientVars, requests, serverVars, crashes>>, MergeInv' PROVE IngestionInv'
  <2>1. IngestionTypeOK'
    BY <1>1 DEF IngestionInv, IngestionTypeOK, MergeInv, clientVars, serverVars
  <2>2. KeysTell' /\ OneTransaction' /\ OneFlushed'
    BY <1>1 DEF IngestionInv, KeysTell, OneTransaction, OneFlushed, clientVars, serverVars
  <2>3. FlushedIsStored' /\ CallsTold'
    BY <1>1 DEF IngestionInv, FlushedIsStored, CallsTold, clientVars, serverVars
  <2> QED
    BY <1>1, <2>1, <2>2, <2>3 DEF IngestionInv
<1>2. CASE UNCHANGED vars \/ (MergeNext /\ UNCHANGED <<clientVars, requests, serverVars, crashes>>)
  <2>1. UNCHANGED <<clientVars, requests, serverVars, crashes>> /\ [MergeNext]_mergeVars
    BY <1>2 DEF vars, clientVars, serverVars, mergeVars
  <2> QED
    BY <1>1, <2>1, MergeStep DEF IngestionInv
<1>3. CASE \E b \in Batches : Ingest(b) \/ Enqueue(b)
  BY <1>3, CallsKeepInv
<1>4. CASE StartFlush \/ RemoveCompleted
  BY <1>4, FlushKeepsInv
<1>5. CASE Crash
  BY <1>5, CrashKeepsInv
<1>6. CASE \E q \in requests : Disconnect(q) \/ Lose(q) \/ ServerStep(q)
  BY <1>6, RequestsKeepInv
<1> QED
  BY <1>2, <1>3, <1>4, <1>5, <1>6 DEF IngestionNext

LEMMA AlwaysIngestionInv == IngestionSpec => []IngestionInv
<1> QED
  BY IngestionInvInit, IngestionStep, PTL DEF IngestionSpec, IngestionSafety

\* Every variable of the client, the API and the trace keeps its type.
THEOREM IngestionTypeCorrect == IngestionSpec => []IngestionTypeOK
<1>1. IngestionInv => IngestionTypeOK
  BY DEF IngestionInv
<1> QED
  BY <1>1, AlwaysIngestionInv, PTL

\* The events of a batch are stored at most once, whichever calls, flushes and restarted
\* applications send it and however many copies the API works on (idempotentMutation).
THEOREM BatchesStoredOnce == IngestionSpec => []StoredOnce
<1>1. IngestionInv => StoredOnce
  BY DEF IngestionInv, KeysTell, StoredOnce
<1> QED
  BY <1>1, AlwaysIngestionInv, PTL

\* A batch the application was told is accepted is stored; one it was told is buffered is
\* stored or in the buffer (ingestBatch, flushOffline, FileOfflineBuffer).
THEOREM BatchesNotDropped == IngestionSpec => []NothingDropped
<1>1. IngestionInv => NothingDropped
  BY DEF IngestionInv, KeysTell, CallsTold, NothingDropped
<1> QED
  BY <1>1, AlwaysIngestionInv, PTL
=============================================================================
