---------------------------- MODULE StoreProofs ------------------------------
(***************************************************************************)
(* Proofs about five components that share nothing: the event log,         *)
(* listings of rows, the migration jobs, the API keys and the artifact     *)
(* store.                                                                  *)
(***************************************************************************)
EXTENDS EventLog, Listing, Migrations, ApiKeys, ArtifactStore,
        FiniteSetTheorems, SequenceTheorems, WellFoundedInduction, TLAPS

-----------------------------------------------------------------------------
(* Extremes of finite sets.                                                *)

\* A finite set without an extreme element would have a smallest part like it.
LEMMA ExtremeOf ==
    ASSUME NEW S, S # {}, IsFiniteSet(S), NEW R,
           \A x, y, z \in S : <<x, y>> \in R /\ <<y, z>> \in R => <<x, z>> \in R,
           \A x, y \in S : x = y \/ <<x, y>> \in R \/ <<y, x>> \in R
    PROVE  \E x \in S : \A y \in S \ {x} : <<x, y>> \in R
<1> DEFINE Bad == {U \in SUBSET S : U # {} /\ \A x \in U : \E y \in U \ {x} : <<x, y>> \notin R}
<1>1. Bad = {}
  <2> SUFFICES ASSUME Bad # {} PROVE FALSE
    OBVIOUS
  <2>1. Bad \subseteq FiniteSubsetsOf(S)
    BY FS_Subset DEF FiniteSubsetsOf
  <2>2. PICK U \in Bad : \A V \in Bad : <<V, U>> \notin StrictSubsetOrdering(S)
    <3> HIDE DEF Bad
    <3> QED
      BY <2>1, FS_StrictSubsetOrderingWellFounded, WFMin
  <2>3. PICK u \in U : TRUE
    OBVIOUS
  <2>4. <<U \ {u}, U>> \in StrictSubsetOrdering(S)
    BY <2>3 DEF StrictSubsetOrdering
  <2>5. U \ {u} \notin Bad
    BY <2>2, <2>4
  <2>6. CASE U \ {u} = {}
    BY <2>3, <2>6
  <2>7. CASE U \ {u} # {}
    <3>1. PICK x \in U \ {u} : \A y \in (U \ {u}) \ {x} : <<x, y>> \in R
      BY <2>5, <2>7
    <3>2. CASE <<x, u>> \in R
      BY <2>3, <3>1, <3>2
    <3>3. CASE <<u, x>> \in R
      <4>1. \A y \in U \ {u} : <<u, y>> \in R
        BY <2>3, <3>1, <3>3
      <4> QED
        BY <2>3, <4>1
    <3> QED
      BY <2>3, <3>1, <3>2, <3>3
  <2> QED
    BY <2>6, <2>7
<1> QED
  BY <1>1

-----------------------------------------------------------------------------
(* The event log: any transactions of any projects, appending to any logs  *)
(* in any order.                                                           *)

\* A transaction has made a part of its appends, and none before it begins.
MadeInOrder == \A t \in Transactions :
    /\ made[t] <= Len(AppendsOf[t])
    /\ phaseOf[t] = "new" => made[t] = 0

\* One transaction holds the lock of a log.
OneHolder == \A t, u \in Transactions, log \in Aggregates \union {Audit} :
    Holds(t, log) /\ Holds(u, log) => t = u

\* The rows of a transaction are there until it rolls back, and it took the lock for them.
RowsTook ==
    /\ \A e \in events : phaseOf[e.by] \in {"active", "committed"} /\ Took(e.by, e.log)
    /\ \A e \in trail : phaseOf[e.by] \in {"active", "committed"} /\ Took(e.by, Audit)

\* The events of a log.
LoggedIn(log, part) == {e \in part : e.log = log}

Numbered(part) == {e.sequence : e \in part} = 1..Cardinality(part)

\* The events of a log are numbered without a gap, with and without the ones that are
\* not committed.
SequencesNumbered == \A log \in Aggregates :
    /\ Numbered(LoggedIn(log, events))
    /\ Numbered(LoggedIn(log, Committed(events)))

\* Two entries of a project follow the same one.
Forked(e, f) == e # f /\ e.previous = f.previous /\ ProjectOf[e.by] = ProjectOf[f.by]

\* The chain, with and without the entry that is not committed.
Chained ==
    /\ \A e, f \in trail : e.by = f.by \/ e.id = f.id => e = f
    /\ \A e \in trail : e.previous # NoEntry => phaseOf[e.previous] = "committed" /\ e.previous # e.by
    /\ \A e, f \in trail : Forked(e, f) =>
          \E g \in {e, f}, p \in trail : /\ p.by = e.previous /\ phaseOf[p.by] = "committed"
                                        /\ SortsBelow(g, p)

LogInv == /\ LogTypeOK /\ IsFiniteSet(events) /\ IsFiniteSet(trail)
          /\ MadeInOrder /\ OneHolder /\ RowsTook /\ SequencesNumbered /\ Chained

\* ORDER BY created_at DESC, id DESC LIMIT 1 finds the newest entry, if there is one.
LEMMA NewestFound ==
    ASSUME LogTypeOK, NEW part \in SUBSET trail, IsFiniteSet(part), part # {},
           \A e, f \in part : e.id = f.id => e = f
    PROVE  \E e \in part : /\ Newest(part) = e.by
                           /\ \A f \in part \ {e} : SortsBelow(f, e)
<1>1. \A e \in part : began[e.by] \in Nat /\ e.id \in Nat
  BY DEF LogTypeOK, Entry
<1> DEFINE R == {p \in part \X part : SortsBelow(p[2], p[1])}
<1>2. \A e, f \in part : <<e, f>> \in R <=> SortsBelow(f, e)
  OBVIOUS
<1> HIDE DEF R
<1>3. \A e, f, g \in part : SortsBelow(f, e) /\ SortsBelow(g, f) => SortsBelow(g, e)
  BY <1>1 DEF SortsBelow
<1>4. \A e, f \in part : e = f \/ SortsBelow(f, e) \/ SortsBelow(e, f)
  BY <1>1 DEF SortsBelow
<1>5. \E e \in part : \A f \in part \ {e} : SortsBelow(f, e)
  <2>1. /\ \A e, f, g \in part : <<e, f>> \in R /\ <<f, g>> \in R => <<e, g>> \in R
        /\ \A e, f \in part : e = f \/ <<e, f>> \in R \/ <<f, e>> \in R
    BY <1>2, <1>3, <1>4
  <2>2. PICK e \in part : \A f \in part \ {e} : <<e, f>> \in R
    BY <2>1, ExtremeOf
  <2> QED
    BY <1>2, <2>2
<1> QED
  BY <1>5 DEF Newest

\* One more row, with the number after the greatest, keeps rows numbered.
LEMMA OneMoreNumbered ==
    ASSUME NEW part, IsFiniteSet(part), Numbered(part), NEW e, e.sequence = Cardinality(part) + 1
    PROVE  Numbered(part \union {e})
<1>1. Cardinality(part) \in Nat
  BY FS_CardinalityType
<1>2. e \notin part
  <2>1. e \in part => e.sequence \in 1..Cardinality(part)
    BY DEF Numbered
  <2> QED
    BY <1>1, <2>1
<1>3. Cardinality(part \union {e}) = Cardinality(part) + 1
  BY <1>2, FS_AddElement
<1>4. {f.sequence : f \in part \union {e}} = {f.sequence : f \in part} \union {e.sequence}
  OBVIOUS
<1> QED
  BY <1>1, <1>3, <1>4 DEF Numbered

\* The number that is given next.
LEMMA NextIsNumbered ==
    ASSUME NEW t \in Transactions, NEW log, IsFiniteSet(LoggedIn(log, events)),
           Numbered(LoggedIn(log, events)),
           LoggedIn(log, Visible(t, events)) = LoggedIn(log, events)
    PROVE  NextSequence(t, log) = Cardinality(LoggedIn(log, events)) + 1
<1> DEFINE n == Cardinality(LoggedIn(log, events))
           taken == {e.sequence : e \in {f \in Visible(t, events) : f.log = log}}
<1>1. n \in Nat
  BY FS_CardinalityType
<1>2. taken = 1..n
  BY DEF Numbered, LoggedIn
<1> HIDE DEF n
<1>3. NextSequence(t, log) = IF taken = {} THEN 1 ELSE (CHOOSE k \in taken : \A m \in taken : m <= k) + 1
  BY DEF NextSequence
<1> HIDE DEF taken
<1>4. CASE n = 0
  BY <1>2, <1>3, <1>4 DEF n
<1>5. CASE n # 0
  <2>1. n \in taken /\ taken # {} /\ \A m \in taken : m <= n
    BY <1>1, <1>2, <1>5
  <2>2. \A k \in taken : (\A m \in taken : m <= k) => k = n
    BY <1>1, <1>2, <2>1
  <2>3. (CHOOSE k \in taken : \A m \in taken : m <= k) = n
    BY <2>1, <2>2
  <2> QED
    BY <1>3, <2>1, <2>3 DEF n
<1> QED
  BY <1>4, <1>5

LEMMA LogInvInit == LogInit => LogInv
<1> SUFFICES ASSUME LogInit PROVE LogInv
  OBVIOUS
<1>1. IsFiniteSet(events) /\ IsFiniteSet(trail)
  BY FS_EmptySet DEF LogInit
<1>2. \A t \in Transactions : AppendsOf[t] \in Seq(Aggregates \union {Audit}) /\ Len(AppendsOf[t]) \in Nat
  BY EventLogAssumption, LenProperties
<1>3. LogTypeOK /\ MadeInOrder /\ OneHolder
  BY <1>2 DEF LogInit, LogTypeOK, MadeInOrder, OneHolder, Holds
<1>4. RowsTook /\ Chained
  BY DEF LogInit, RowsTook, Chained
<1>5. SequencesNumbered
  <2>1. LoggedIn("a", {}) = {} /\ Numbered({})
    BY FS_EmptySet DEF LoggedIn, Numbered
  <2> QED
    BY <2>1 DEF LogInit, SequencesNumbered, LoggedIn, Committed
<1> QED
  BY <1>1, <1>3, <1>4, <1>5 DEF LogInv

LEMMA BeginKeepsLog ==
    ASSUME LogInv, NEW t \in Transactions, BeginTransaction(t)
    PROVE  LogInv'
<1>1. /\ phaseOf \in [Transactions -> {"new", "active", "committed", "aborted"}]
      /\ began \in [Transactions -> Nat] /\ clock \in Nat /\ made \in [Transactions -> Nat]
      /\ events \subseteq Event /\ trail \subseteq Entry
  BY DEF LogInv, LogTypeOK
<1>2. /\ phaseOf[t] = "new" /\ made[t] = 0 /\ phaseOf' = [phaseOf EXCEPT ![t] = "active"]
      /\ began' = [began EXCEPT ![t] = clock] /\ clock' \in {clock, clock + 1}
      /\ made' = made /\ events' = events /\ trail' = trail
  BY DEF BeginTransaction, LogInv, MadeInOrder
<1>3. \A log : ~Took(t, log) /\ \A u : Took(u, log)' = Took(u, log)
  BY <1>2 DEF Took
<1>4. \A u \in Transactions : \A log : Holds(u, log)' => u # t /\ Holds(u, log)
  BY <1>1, <1>2, <1>3 DEF Holds
<1>5. /\ \A e \in events : e.by \in Transactions /\ e.by # t
      /\ \A e \in trail : e.by \in Transactions /\ e.by # t
  BY <1>1, <1>3 DEF LogInv, RowsTook, Event, Entry
<1>6. LogTypeOK' /\ MadeInOrder'
  BY <1>1, <1>2 DEF LogInv, LogTypeOK, MadeInOrder
<1>7. OneHolder'
  BY <1>4 DEF LogInv, OneHolder
<1>8. RowsTook'
  BY <1>1, <1>2, <1>3, <1>5 DEF LogInv, RowsTook
<1>9. SequencesNumbered'
  <2>1. Committed(events)' = Committed(events)
    BY <1>1, <1>2, <1>5 DEF Committed
  <2> QED
    BY <1>2, <2>1 DEF LogInv, SequencesNumbered, Numbered, LoggedIn
<1>10. Chained'
  <2>1. \A e \in trail : e.previous # NoEntry => e.previous \in Transactions /\ e.previous # t
    BY <1>1, <1>2 DEF LogInv, Chained, Entry
  <2> QED
    BY <1>1, <1>2, <1>5, <2>1 DEF LogInv, Chained, Forked, SortsBelow
<1> QED
  BY <1>2, <1>6, <1>7, <1>8, <1>9, <1>10 DEF LogInv

\* What an append leaves to be shown: of its own log, that it is numbered or chained.
LEMMA AppendTakesLock ==
    ASSUME LogInv, NEW t \in Transactions, NEW log, log = Wants(t), Appending(t), Free(t, log),
           made' = [made EXCEPT ![t] = @ + 1], UNCHANGED <<clock, phaseOf, began>>
    PROVE  /\ MadeInOrder' /\ OneHolder'
           /\ made' \in [Transactions -> Nat]
           /\ Took(t, log)'
           /\ \A u \in Transactions : \A l : Took(u, l) => Took(u, l)'
<1>1. /\ phaseOf \in [Transactions -> {"new", "active", "committed", "aborted"}]
      /\ made \in [Transactions -> Nat]
  BY DEF LogInv, LogTypeOK
<1>2. /\ AppendsOf[t] \in Seq(Aggregates \union {Audit}) /\ Len(AppendsOf[t]) \in Nat
      /\ made[t] < Len(AppendsOf[t]) /\ made[t] \in Nat /\ phaseOf[t] = "active"
  BY <1>1, EventLogAssumption, LenProperties DEF Appending
<1>3. made' = [made EXCEPT ![t] = made[t] + 1] /\ AppendsOf[t][made[t] + 1] = log
  BY DEF Wants
<1>4. \A u \in Transactions : \A l : Took(u, l)' <=> Took(u, l) \/ (u = t /\ l = log)
  <2> SUFFICES ASSUME NEW u \in Transactions, NEW l
               PROVE  Took(u, l)' <=> Took(u, l) \/ (u = t /\ l = log)
    OBVIOUS
  <2>1. CASE u = t
    <3>1. made'[t] = made[t] + 1 /\ \A k : k \in 1..(made[t] + 1) <=> k \in 1..made[t] \/ k = made[t] + 1
      BY <1>1, <1>2, <1>3
    <3> QED
      BY <1>3, <2>1, <3>1 DEF Took
  <2>2. CASE u # t
    BY <1>1, <1>3, <2>2 DEF Took
  <2> QED
    BY <2>1, <2>2
<1>5. MadeInOrder'
  BY <1>1, <1>2 DEF LogInv, MadeInOrder
<1>6. OneHolder'
  BY <1>4 DEF LogInv, OneHolder, Free, Holds
<1> QED
  BY <1>1, <1>2, <1>3, <1>4, <1>5, <1>6

LEMMA LifecycleKeepsLog ==
    ASSUME LogInv, NEW t \in Transactions, NEW log, log = Wants(t), AppendLifecycleEvent(t)
    PROVE  LogInv'
<1> DEFINE e == [by |-> t, log |-> log, sequence |-> NextSequence(t, log)]
<1>1. /\ phaseOf \in [Transactions -> {"new", "active", "committed", "aborted"}]
      /\ events \subseteq Event /\ trail \subseteq Entry /\ made \in [Transactions -> Nat]
      /\ phaseOf[t] = "active" /\ log \in Aggregates /\ Free(t, log)
      /\ events' = events \union {e} /\ UNCHANGED <<clock, phaseOf, began, trail>>
  BY DEF LogInv, LogTypeOK, AppendLifecycleEvent, Appending
<1>2. /\ MadeInOrder' /\ OneHolder' /\ made' \in [Transactions -> Nat]
      /\ Took(t, log)' /\ \A u \in Transactions : \A l : Took(u, l) => Took(u, l)'
  BY <1>1, AppendTakesLock DEF AppendLifecycleEvent
<1>3. LoggedIn(log, Visible(t, events)) = LoggedIn(log, events)
  <2> SUFFICES ASSUME NEW f \in events, f.log = log
               PROVE  (f.by = t \/ phaseOf[f.by] = "committed") /\ ProjectOf[f.by] = ProjectOf[t]
    BY DEF LoggedIn, Visible
  <2>1. f.by \in Transactions /\ phaseOf[f.by] \in {"active", "committed"} /\ Took(f.by, log)
    BY <1>1 DEF LogInv, RowsTook, Event
  <2>2. f.by = t \/ phaseOf[f.by] = "committed"
    BY <1>1, <2>1 DEF Free, Holds
  <2>3. PICK k \in 1..made[f.by] : AppendsOf[f.by][k] = log
    BY <2>1 DEF Took
  <2>4. /\ k \in 1..Len(AppendsOf[f.by]) /\ made[t] + 1 \in 1..Len(AppendsOf[t])
        /\ AppendsOf[t][made[t] + 1] = log
    BY <1>1, <2>1, EventLogAssumption, LenProperties DEF LogInv, MadeInOrder, AppendLifecycleEvent, Appending, Wants
  <2>5. log # Audit
    BY <1>1, EventLogAssumption
  <2>6. ProjectOf[f.by] = ProjectOf[t]
    <3> DEFINE j == made[t] + 1
    <3>1. j \in 1..Len(AppendsOf[t]) /\ AppendsOf[f.by][k] = AppendsOf[t][j] /\ AppendsOf[f.by][k] # Audit
      BY <2>3, <2>4, <2>5
    <3> HIDE DEF j
    <3> QED
      BY <2>1, <2>4, <3>1, EventLogAssumption
  <2> QED
    BY <2>2, <2>6
<1>4. IsFiniteSet(LoggedIn(log, events)) /\ Numbered(LoggedIn(log, events))
  BY <1>1, FS_Subset DEF LogInv, LoggedIn, SequencesNumbered
<1>5. NextSequence(t, log) = Cardinality(LoggedIn(log, events)) + 1
  BY <1>3, <1>4, NextIsNumbered
<1>6. e \in Event /\ e.by = t /\ e.log = log /\ e.sequence = Cardinality(LoggedIn(log, events)) + 1
  BY <1>1, <1>4, <1>5, FS_CardinalityType DEF Event
<1> HIDE DEF e
<1>7. LogTypeOK' /\ IsFiniteSet(events')
  BY <1>1, <1>2, <1>6, FS_AddElement DEF LogInv, LogTypeOK
<1>8. RowsTook'
  BY <1>1, <1>2, <1>6 DEF LogInv, RowsTook, Event, Entry
<1>9. SequencesNumbered'
  <2>1. LoggedIn(log, events') = LoggedIn(log, events) \union {e}
    BY <1>1, <1>6 DEF LoggedIn
  <2>2. Numbered(LoggedIn(log, events'))
    BY <1>4, <1>6, <2>1, OneMoreNumbered
  <2>3. \A l \in Aggregates \ {log} : LoggedIn(l, events') = LoggedIn(l, events)
    BY <1>1, <1>6 DEF LoggedIn
  <2>4. Committed(events)' = Committed(events)
    BY <1>1, <1>6 DEF Committed
  <2>5. \A l \in Aggregates : Numbered(LoggedIn(l, events'))
    BY <2>2, <2>3 DEF LogInv, SequencesNumbered
  <2> QED
    BY <2>4, <2>5 DEF LogInv, SequencesNumbered, Numbered, LoggedIn
<1>10. Chained' /\ IsFiniteSet(trail')
  BY <1>1 DEF LogInv, Chained, Forked, SortsBelow
<1> QED
  BY <1>2, <1>7, <1>8, <1>9, <1>10 DEF LogInv

LEMMA AuditKeepsLog ==
    ASSUME LogInv, NEW t \in Transactions, AppendAuditEvent(t)
    PROVE  LogInv'
<1> DEFINE seen == Visible(t, trail)
<1>0. PICK id \in Ids \ {f.id : f \in trail} :
         trail' = trail \union {[by |-> t, id |-> id, previous |-> Newest(seen)]}
  BY DEF AppendAuditEvent
<1> DEFINE e == [by |-> t, id |-> id, previous |-> Newest(seen)]
<1>1. /\ phaseOf \in [Transactions -> {"new", "active", "committed", "aborted"}]
      /\ events \subseteq Event /\ trail \subseteq Entry /\ made \in [Transactions -> Nat]
      /\ phaseOf[t] = "active" /\ Wants(t) = Audit /\ Free(t, Audit)
      /\ trail' = trail \union {e} /\ UNCHANGED <<clock, phaseOf, began, events>>
  BY <1>0 DEF LogInv, LogTypeOK, AppendAuditEvent, AuditFree, Appending
<1>2. /\ MadeInOrder' /\ OneHolder' /\ made' \in [Transactions -> Nat]
      /\ Took(t, Audit)' /\ \A u \in Transactions : \A l : Took(u, l) => Took(u, l)'
  BY <1>1, AppendTakesLock DEF AppendAuditEvent
<1>3. ~Took(t, Audit)
  <2> SUFFICES ASSUME NEW k \in 1..made[t], AppendsOf[t][k] = Audit PROVE FALSE
    BY DEF Took
  <2>1. /\ k \in 1..Len(AppendsOf[t]) /\ made[t] + 1 \in 1..Len(AppendsOf[t]) /\ k # made[t] + 1
        /\ AppendsOf[t][made[t] + 1] = Audit
    BY <1>1, EventLogAssumption, LenProperties DEF AppendAuditEvent, Appending, Wants
  <2> QED
    BY <2>1, EventLogAssumption
<1>4. \A f \in trail : f.by \in Transactions /\ f.by # t /\ phaseOf[f.by] = "committed"
  BY <1>1, <1>3 DEF LogInv, RowsTook, Entry, Free, Holds
<1>5. seen = {f \in trail : ProjectOf[f.by] = ProjectOf[t]} /\ seen \subseteq trail /\ IsFiniteSet(seen)
  BY <1>4, FS_Subset DEF Visible, LogInv
<1>6. seen = {} => e.previous = NoEntry
  BY DEF Newest
<1>7. seen # {} => \E f \in seen : /\ e.previous = f.by
                                   /\ \A g \in seen \ {f} : SortsBelow(g, f)
  <2> HIDE DEF seen
  <2>1. \A f, g \in seen : f.id = g.id => f = g
    BY <1>5 DEF LogInv, Chained
  <2> QED
    BY <1>5, <2>1, NewestFound DEF LogInv
<1>8. e.by = t /\ e.id \in Nat /\ \A f \in trail : f.id # e.id
  BY <1>0, EventLogAssumption
<1> HIDE DEF seen
<1>9. e \in Entry
  <2>1. Newest(seen) \in Transactions \union {NoEntry}
    <3>1. CASE seen = {}
      BY <1>6, <3>1
    <3>2. CASE seen # {}
      BY <1>4, <1>5, <1>7, <3>2
    <3> QED
      BY <3>1, <3>2
  <2> QED
    BY <1>8, <2>1 DEF Entry
<1> HIDE DEF e
<1>10. LogTypeOK' /\ IsFiniteSet(trail')
  BY <1>1, <1>2, <1>9, FS_AddElement DEF LogInv, LogTypeOK
<1>11. RowsTook'
  BY <1>1, <1>2, <1>8 DEF LogInv, RowsTook, Event, Entry
<1>12. SequencesNumbered' /\ IsFiniteSet(events')
  BY <1>1 DEF LogInv, SequencesNumbered, Numbered, LoggedIn, Committed
<1>13. Chained'
  <2>1. e.previous # NoEntry => phaseOf[e.previous] = "committed" /\ e.previous # t
    BY <1>4, <1>5, <1>6, <1>7
  <2>2. ASSUME NEW f \in trail, f.previous = e.previous, ProjectOf[f.by] = ProjectOf[t]
        PROVE  \E p \in trail : p.by = e.previous /\ phaseOf[p.by] = "committed" /\ SortsBelow(f, p)
    <3>1. PICK g \in seen : e.previous = g.by /\ \A h \in seen \ {g} : SortsBelow(h, g)
      BY <1>5, <1>7, <2>2
    <3>2. g \in trail /\ g.by \in Transactions /\ g.by # NoEntry /\ phaseOf[g.by] = "committed"
      BY <1>4, <1>5, EventLogAssumption
    <3>3. f # g
      BY <2>2, <3>1, <3>2 DEF LogInv, Chained
    <3>4. f \in seen
      BY <1>5, <2>2
    <3> QED
      BY <3>1, <3>2, <3>3, <3>4
  <2>3. \A f, g \in trail' : f.by = g.by \/ f.id = g.id => f = g
    BY <1>1, <1>4, <1>8 DEF LogInv, Chained
  <2>4. \A f \in trail' : f.previous # NoEntry => phaseOf'[f.previous] = "committed" /\ f.previous # f.by
    BY <1>1, <1>8, <2>1 DEF LogInv, Chained
  <2>5. \A f, g : SortsBelow(f, g)' <=> SortsBelow(f, g)
    BY <1>1 DEF SortsBelow
  <2>6. ASSUME NEW f \in trail', NEW g \in trail', Forked(f, g)
        PROVE  \E h \in {f, g}, p \in trail : p.by = f.previous /\ phaseOf[p.by] = "committed" /\ SortsBelow(h, p)
    <3>1. CASE f \in trail /\ g \in trail
      BY <2>6, <3>1 DEF LogInv, Chained
    <3>2. CASE f = e /\ g \in trail
      BY <1>8, <2>2, <2>6, <3>2 DEF Forked
    <3>3. CASE g = e /\ f \in trail
      BY <1>8, <2>2, <2>6, <3>3 DEF Forked
    <3> QED
      BY <1>1, <2>6, <3>1, <3>2, <3>3 DEF Forked
  <2> QED
    BY <1>1, <2>3, <2>4, <2>5, <2>6 DEF Chained, Forked
<1> QED
  BY <1>2, <1>10, <1>11, <1>12, <1>13 DEF LogInv

\* The uncommitted events of a log are all of one transaction.
LEMMA EventsOfTheHolder ==
    ASSUME LogInv, NEW t \in Transactions, phaseOf[t] = "active", NEW log \in Aggregates
    PROVE  \/ {e \in LoggedIn(log, events) : e.by = t} = {}
           \/ LoggedIn(log, Committed(events)) = {e \in LoggedIn(log, events) : e.by # t}
<1> SUFFICES ASSUME NEW d \in LoggedIn(log, events), d.by = t
             PROVE  LoggedIn(log, Committed(events)) = {e \in LoggedIn(log, events) : e.by # t}
  OBVIOUS
<1>1. Holds(t, log)
  BY DEF LogInv, RowsTook, LoggedIn, Holds
<1>2. ASSUME NEW e \in LoggedIn(log, events), e.by # t PROVE phaseOf[e.by] = "committed"
  <2>1. e.by \in Transactions /\ Took(e.by, log) /\ phaseOf[e.by] \in {"active", "committed"}
    BY DEF LogInv, LogTypeOK, RowsTook, LoggedIn, Event
  <2> QED
    BY <1>1, <1>2, <2>1 DEF LogInv, OneHolder, Holds
<1> QED
  BY <1>2 DEF LoggedIn, Committed

LEMMA CommitKeepsLog ==
    ASSUME LogInv, NEW t \in Transactions, CommitTransaction(t)
    PROVE  LogInv'
<1>1. /\ phaseOf \in [Transactions -> {"new", "active", "committed", "aborted"}]
      /\ events \subseteq Event /\ trail \subseteq Entry
      /\ phaseOf[t] = "active" /\ phaseOf' = [phaseOf EXCEPT ![t] = "committed"]
      /\ UNCHANGED <<clock, began, made, events, trail>>
  BY DEF LogInv, LogTypeOK, CommitTransaction
<1>2. LogTypeOK' /\ MadeInOrder' /\ IsFiniteSet(events') /\ IsFiniteSet(trail')
  BY <1>1 DEF LogInv, LogTypeOK, MadeInOrder
<1>3. \A u, log : Took(u, log)' = Took(u, log)
  BY <1>1 DEF Took
<1>4. OneHolder'
  BY <1>1, <1>3 DEF LogInv, OneHolder, Holds
<1>5. RowsTook'
  BY <1>1, <1>3 DEF LogInv, RowsTook, Event, Entry
<1>6. SequencesNumbered'
  <2> SUFFICES ASSUME NEW log \in Aggregates
               PROVE  Numbered(LoggedIn(log, events)) /\ Numbered(LoggedIn(log, Committed(events)'))
    BY <1>1 DEF SequencesNumbered, Numbered, LoggedIn, Committed
  <2>1. Committed(events)' = Committed(events) \union {e \in events : e.by = t}
    BY <1>1 DEF Committed, Event
  <2>2. LoggedIn(log, Committed(events)') = LoggedIn(log, Committed(events)) \union {e \in LoggedIn(log, events) : e.by = t}
    BY <2>1 DEF LoggedIn
  <2>3. \/ LoggedIn(log, Committed(events)') = LoggedIn(log, Committed(events))
        \/ LoggedIn(log, Committed(events)') = LoggedIn(log, events)
    BY <1>1, <2>2, EventsOfTheHolder
  <2> QED
    BY <2>3 DEF LogInv, SequencesNumbered
<1>7. Chained'
  BY <1>1 DEF LogInv, Chained, Forked, Entry, SortsBelow
<1> QED
  BY <1>2, <1>4, <1>5, <1>6, <1>7 DEF LogInv

LEMMA RollBackKeepsLog ==
    ASSUME LogInv, NEW t \in Transactions, phaseOf[t] = "active", RollBack(t)
    PROVE  LogInv'
<1>1. /\ phaseOf \in [Transactions -> {"new", "active", "committed", "aborted"}]
      /\ events \subseteq Event /\ trail \subseteq Entry
      /\ phaseOf' = [phaseOf EXCEPT ![t] = "aborted"]
      /\ events' = {e \in events : e.by # t} /\ trail' = {e \in trail : e.by # t}
      /\ UNCHANGED <<clock, began, made>>
  BY DEF LogInv, LogTypeOK, RollBack
<1>2. LogTypeOK' /\ MadeInOrder' /\ IsFiniteSet(events') /\ IsFiniteSet(trail')
  BY <1>1, FS_Subset DEF LogInv, LogTypeOK, MadeInOrder
<1>3. \A u, log : Took(u, log)' = Took(u, log)
  BY <1>1 DEF Took
<1>4. OneHolder'
  BY <1>1, <1>3 DEF LogInv, OneHolder, Holds
<1>5. RowsTook'
  BY <1>1, <1>3 DEF LogInv, RowsTook, Event, Entry
<1>6. SequencesNumbered'
  <2> SUFFICES ASSUME NEW log \in Aggregates
               PROVE  Numbered(LoggedIn(log, events')) /\ Numbered(LoggedIn(log, Committed(events)'))
    BY DEF SequencesNumbered, Numbered, LoggedIn, Committed
  <2>1. Committed(events)' = Committed(events)
    BY <1>1 DEF Committed, Event
  <2>2. LoggedIn(log, events') = {e \in LoggedIn(log, events) : e.by # t}
    BY <1>1 DEF LoggedIn
  <2>3. \/ LoggedIn(log, events') = LoggedIn(log, events)
        \/ LoggedIn(log, events') = LoggedIn(log, Committed(events))
    BY <2>2, EventsOfTheHolder
  <2> QED
    BY <2>1, <2>3 DEF LogInv, SequencesNumbered
<1>7. Chained'
  BY <1>1 DEF LogInv, Chained, Forked, Entry, SortsBelow
<1> QED
  BY <1>2, <1>4, <1>5, <1>6, <1>7 DEF LogInv

LEMMA LogStep == LogInv /\ [LogNext]_logVars => LogInv'
<1> SUFFICES ASSUME LogInv, [LogNext]_logVars PROVE LogInv'
  OBVIOUS
<1>1. ASSUME NEW t \in Transactions, BeginTransaction(t) PROVE LogInv'
  BY <1>1, BeginKeepsLog
<1>2. ASSUME NEW t \in Transactions, TransactionStep(t) PROVE LogInv'
  BY <1>2, LifecycleKeepsLog, AuditKeepsLog, CommitKeepsLog, RollBackKeepsLog
     DEF TransactionStep, BreakDeadlock
<1>3. ASSUME NEW t \in Transactions, AbortTransaction(t) PROVE LogInv'
  BY <1>3, RollBackKeepsLog DEF AbortTransaction
<1>4. CASE UNCHANGED logVars
  <2>1. UNCHANGED <<clock, phaseOf, began, made, events, trail>>
    BY <1>4 DEF logVars
  <2>2. LogTypeOK' /\ MadeInOrder' /\ IsFiniteSet(events') /\ IsFiniteSet(trail')
    BY <2>1 DEF LogInv, LogTypeOK, MadeInOrder
  <2>3. OneHolder' /\ RowsTook'
    BY <2>1 DEF LogInv, OneHolder, RowsTook, Holds, Took
  <2>4. SequencesNumbered'
    BY <2>1 DEF LogInv, SequencesNumbered, Numbered, LoggedIn, Committed
  <2>5. Chained'
    BY <2>1 DEF LogInv, Chained, Forked, SortsBelow
  <2> QED
    BY <2>2, <2>3, <2>4, <2>5 DEF LogInv
<1> QED
  BY <1>1, <1>2, <1>3, <1>4 DEF LogNext

LEMMA AlwaysLogInv == LogSpec => []LogInv
<1> QED
  BY LogInvInit, LogStep, PTL DEF LogSpec

\* The clock, the phases of the transactions and their rows keep their types.
THEOREM LogTypeCorrect == LogSpec => []LogTypeOK
<1>1. LogInv => LogTypeOK
  BY DEF LogInv
<1> QED
  BY <1>1, AlwaysLogInv, PTL

\* The events of an aggregate that are committed are numbered without a gap or a
\* repetition, whoever appends to it and whoever rolls back (appendLifecycleEvent).
THEOREM SequencesHaveNoGap == LogSpec => []SequencesGapFree
<1>1. LogInv => SequencesGapFree
  BY DEF LogInv, SequencesNumbered, SequencesGapFree, Numbered, LoggedIn
<1> QED
  BY <1>1, AlwaysLogInv, PTL

\* An audit event follows a committed one of its project, and two follow the same one
\* only if one of the two is below it in the order by which appendAuditEvent finds the
\* newest: of a transaction that began earlier, or at its instant with a smaller id.
THEOREM ChainForks == LogSpec => []ChainForksOnlyOutOfOrder
<1>1. LogInv => ChainForksOnlyOutOfOrder
  BY DEF LogInv, Chained, Forked, ChainForksOnlyOutOfOrder, Committed
<1> QED
  BY <1>1, AlwaysLogInv, PTL

-----------------------------------------------------------------------------
(* Listings: any rows, page size and precision of a cursor.                *)

\* The order of a list: s comes before r.
Below(r, s) == startedAt[r] < startedAt[s] \/ (startedAt[r] = startedAt[s] /\ r < s)

Above(r, part) == {s \in part : Below(r, s)}

\* Only stored rows are listed, and they have an instant.
ListedAreStored == \A r \in Rows :
    /\ r \in present => rowIs[r] = "stored"
    /\ listed[r] # 0 => rowIs[r] = "stored"
    /\ rowIs[r] # "none" => startedAt[r] # 0

\* Nothing was read before the first page.
FreshCursor == listingIs = "idle" => cursor = FirstPage /\ listed = [r \in Rows |-> 0]

\* A row that keeps its place is listed once, and lies behind the cursor then.
ListedOnce == \A r \in Rows \ moved :
    /\ listed[r] <= 1
    /\ listingIs = "reading" /\ listed[r] = 1 => ~Beyond(r, cursor)

\* The millisecond of a row was cut short.
CutShort(r) == \E at \in turns : Truncated(at) <= startedAt[r] /\ startedAt[r] <= at

\* A row that was there and keeps its place was listed, or cut short, or is still to come.
NoneLost == listingIs # "idle" => \A r \in present \ moved :
    \/ listed[r] = 1 \/ CutShort(r)
    \/ listingIs = "reading" /\ Beyond(r, cursor)

ListingInv == ListingTypeOK /\ ListedAreStored /\ FreshCursor /\ ListedOnce /\ NoneLost

LEMMA BelowOrders ==
    ASSUME ListingTypeOK
    PROVE  /\ \A r, s, q \in Rows : Below(r, s) /\ Below(s, q) => Below(r, q)
           /\ \A r, s \in Rows : r = s \/ Below(r, s) \/ Below(s, r)
           /\ \A r, s \in Rows : ~(Below(r, s) /\ (r = s \/ Below(s, r)))
<1>1. startedAt \in [Rows -> Nat] /\ Rows \subseteq Nat
  BY ListingAssumption DEF ListingTypeOK
<1> QED
  BY <1>1 DEF Below

LEMMA BeyondIsBelow ==
    ASSUME NEW r, NEW s
    PROVE  Beyond(r, [at |-> startedAt[s], id |-> s]) <=> Below(r, s)
<1> QED
  BY DEF Beyond, Below

\* Rows have a first and a last one.
LEMMA ExtremeRows ==
    ASSUME ListingTypeOK, NEW part \in SUBSET Rows, part # {}
    PROVE  /\ \E r \in part : \A s \in part \ {r} : Below(r, s)
           /\ \E r \in part : \A s \in part \ {r} : Below(s, r)
<1>1. IsFiniteSet(part)
  BY ListingAssumption, FS_Subset
<1>2. \E r \in part : \A s \in part \ {r} : Below(r, s)
  <2> DEFINE R == {p \in part \X part : Below(p[1], p[2])}
  <2>1. \A r, s \in part : <<r, s>> \in R <=> Below(r, s)
    OBVIOUS
  <2> HIDE DEF R
  <2>2. /\ \A x, y, z \in part : <<x, y>> \in R /\ <<y, z>> \in R => <<x, z>> \in R
        /\ \A x, y \in part : x = y \/ <<x, y>> \in R \/ <<y, x>> \in R
    BY <2>1, BelowOrders
  <2>3. PICK r \in part : \A s \in part \ {r} : <<r, s>> \in R
    BY <1>1, <2>2, ExtremeOf
  <2> QED
    BY <2>1, <2>3
<1>3. \E r \in part : \A s \in part \ {r} : Below(s, r)
  <2> DEFINE R == {p \in part \X part : Below(p[2], p[1])}
  <2>1. \A r, s \in part : <<r, s>> \in R <=> Below(s, r)
    OBVIOUS
  <2> HIDE DEF R
  <2>2. /\ \A x, y, z \in part : <<x, y>> \in R /\ <<y, z>> \in R => <<x, z>> \in R
        /\ \A x, y \in part : x = y \/ <<x, y>> \in R \/ <<y, x>> \in R
    BY <2>1, BelowOrders
  <2>3. PICK r \in part : \A s \in part \ {r} : <<r, s>> \in R
    BY <1>1, <2>2, ExtremeOf
  <2> QED
    BY <2>1, <2>3
<1> QED
  BY <1>2, <1>3

LEMMA TopIs ==
    ASSUME NEW n, NEW part
    PROVE  Top(n, part) = {r \in part : Cardinality(Above(r, part)) < n}
<1>1. \A r \in part : {s \in part : Beyond(r, [at |-> startedAt[s], id |-> s])} = Above(r, part)
  BY BeyondIsBelow DEF Above
<1> QED
  BY <1>1 DEF Top

LEMMA AboveIsFinite ==
    ASSUME NEW part \in SUBSET Rows, NEW r
    PROVE  IsFiniteSet(Above(r, part)) /\ Cardinality(Above(r, part)) \in Nat
<1> QED
  BY ListingAssumption, FS_Subset, FS_CardinalityType DEF Above

\* What comes before one of the first n rows is one of them.
LEMMA TopIsFirst ==
    ASSUME ListingTypeOK, NEW n \in Nat, NEW part \in SUBSET Rows,
           NEW s \in Top(n, part), NEW r \in part, Below(s, r)
    PROVE  r \in Top(n, part)
<1>1. s \in part /\ Cardinality(Above(s, part)) < n
  BY TopIs
<1>2. Above(r, part) \subseteq Above(s, part)
  BY <1>1, BelowOrders DEF Above
<1>3. Cardinality(Above(r, part)) <= Cardinality(Above(s, part))
  BY <1>2, AboveIsFinite, FS_Subset
<1>4. Cardinality(Above(r, part)) < n
  BY <1>1, <1>3, AboveIsFinite
<1> QED
  BY <1>4, TopIs

\* If there are less than n, they are all there is.
LEMMA TopOfFew ==
    ASSUME ListingTypeOK, NEW n \in Nat, NEW part \in SUBSET Rows, Cardinality(Top(n, part)) < n
    PROVE  Top(n, part) = part
<1>1. Top(n, part) \subseteq part
  BY TopIs
<1> SUFFICES ASSUME part \ Top(n, part) # {} PROVE FALSE
  BY <1>1
<1>2. PICK r \in part \ Top(n, part) : \A s \in (part \ Top(n, part)) \ {r} : Below(s, r)
  <2> DEFINE rest == part \ Top(n, part)
  <2>1. rest \in SUBSET Rows /\ rest # {}
    OBVIOUS
  <2> HIDE DEF rest
  <2>2. \E r \in rest : \A s \in rest \ {r} : Below(s, r)
    BY <2>1, ExtremeRows
  <2> QED
    BY <2>2 DEF rest
<1>3. Above(r, part) \subseteq Top(n, part)
  BY <1>2, BelowOrders DEF Above
<1>4. IsFiniteSet(Top(n, part))
  BY <1>1, ListingAssumption, FS_Subset
<1>5. Cardinality(Above(r, part)) <= Cardinality(Top(n, part))
  BY <1>3, <1>4, FS_Subset
<1>6. Cardinality(Above(r, part)) \in Nat /\ Cardinality(Top(n, part)) \in Nat
  BY <1>4, AboveIsFinite, FS_CardinalityType
<1>7. Cardinality(Above(r, part)) < n
  BY <1>5, <1>6
<1> QED
  BY <1>2, <1>7, TopIs

\* What a statement finds.
Eligible == {r \in Rows : rowIs[r] = "stored" /\ Beyond(r, cursor)}
Page == Top(Limit, Fetched(Eligible))
LastOfPage == CHOOSE r \in Page : \A s \in Page \ {r} : Beyond(r, [at |-> startedAt[s], id |-> s])

LEMMA PageIsFirst ==
    ASSUME ListingTypeOK
    PROVE  /\ Page \subseteq Eligible
           /\ Cardinality(Fetched(Eligible)) <= Limit => Page = Eligible
           /\ Cardinality(Fetched(Eligible)) > Limit =>
                 /\ LastOfPage \in Page
                 /\ \A s \in Page \ {LastOfPage} : Below(LastOfPage, s)
                 /\ \A r \in Eligible \ Page : Below(r, LastOfPage)
<1>1. Eligible \in SUBSET Rows /\ Limit \in Nat /\ Limit # 0
  BY ListingAssumption DEF Eligible
<1>2. Fetched(Eligible) = Top(Limit + 1, Eligible) /\ Fetched(Eligible) \subseteq Eligible
  BY TopIs DEF Fetched
<1>3. Page \subseteq Fetched(Eligible)
  BY TopIs DEF Page
<1>4. IsFiniteSet(Fetched(Eligible)) /\ Cardinality(Fetched(Eligible)) \in Nat
  BY <1>1, <1>2, ListingAssumption, FS_Subset, FS_CardinalityType
<1>5. ASSUME Cardinality(Fetched(Eligible)) <= Limit
      PROVE  Page = Eligible
  <2>1. Fetched(Eligible) = Eligible
    BY <1>1, <1>2, <1>4, <1>5, TopOfFew
  <2>2. ASSUME NEW r \in Eligible PROVE Cardinality(Above(r, Eligible)) < Limit
    <3>1. Above(r, Eligible) \subseteq Eligible \ {r}
      BY <1>1, BelowOrders DEF Above
    <3>2. IsFiniteSet(Eligible \ {r}) /\ Cardinality(Eligible \ {r}) = Cardinality(Eligible) - 1
      BY <1>4, <2>1, FS_RemoveElement
    <3>3. Cardinality(Above(r, Eligible)) <= Cardinality(Eligible) - 1
      BY <3>1, <3>2, FS_Subset
    <3> QED
      BY <1>1, <1>4, <1>5, <2>1, <3>3, AboveIsFinite
  <2> QED
    BY <2>1, <2>2, TopIs DEF Page
<1>6. ASSUME Cardinality(Fetched(Eligible)) > Limit
      PROVE  /\ LastOfPage \in Page
             /\ \A s \in Page \ {LastOfPage} : Below(LastOfPage, s)
             /\ \A r \in Eligible \ Page : Below(r, LastOfPage)
  <2>1. Fetched(Eligible) # {} /\ Fetched(Eligible) \in SUBSET Rows
    BY <1>1, <1>2, <1>4, <1>6, FS_EmptySet
  <2>2. PICK h \in Fetched(Eligible) : \A s \in Fetched(Eligible) \ {h} : Below(s, h)
    BY <2>1, ExtremeRows
  <2>3. Above(h, Fetched(Eligible)) = {}
    BY <2>1, <2>2, BelowOrders DEF Above
  <2>4. Page # {} /\ Page \in SUBSET Rows
    BY <1>1, <1>3, <2>1, <2>3, FS_EmptySet, TopIs DEF Page
  <2>5. \E r \in Page : \A s \in Page \ {r} : Below(r, s)
    BY <2>4, ExtremeRows
  <2>6. LastOfPage \in Page /\ \A s \in Page \ {LastOfPage} : Below(LastOfPage, s)
    BY <2>5, BeyondIsBelow DEF LastOfPage
  <2>7. ASSUME NEW r \in Eligible \ Page, ~Below(r, LastOfPage)
        PROVE  FALSE
    <3>1. Below(LastOfPage, r)
      BY <1>1, <2>4, <2>6, <2>7, BelowOrders
    <3>2. r \in Fetched(Eligible)
      BY <1>1, <1>2, <1>3, <2>6, <3>1, TopIsFirst
    <3> QED
      BY <1>1, <2>1, <2>6, <2>7, <3>1, <3>2, TopIsFirst DEF Page
  <2> QED
    BY <2>6, <2>7
<1> QED
  BY <1>2, <1>3, <1>5, <1>6

\* toISOString cuts off less than what there is.
LEMMA CutIsEarlier ==
    ASSUME NEW at \in Nat
    PROVE  Truncated(at) \in 0..at
<1>1. Millisecond \in Nat \ {0}
  BY ListingAssumption
<1> DEFINE n == at \div Millisecond
           k == at % Millisecond
<1>2. n \in Nat /\ k \in 0..(Millisecond - 1) /\ at = Millisecond * n + k
  BY <1>1
<1>3. Millisecond * n \in Nat
  BY <1>1, <1>2
<1> HIDE DEF n
<1>4. Truncated(at) = at - k
  BY DEF Truncated
<1> HIDE DEF k
<1> DEFINE p == Millisecond * n
<1> HIDE DEF p
<1>5. p \in Nat /\ at = p + k /\ k \in Nat
  BY <1>1, <1>2, <1>3 DEF p
<1> QED
  BY <1>4, <1>5

LEMMA ListingInvInit == ListingInit => ListingInv
<1> SUFFICES ASSUME ListingInit PROVE ListingInv
  OBVIOUS
<1>1. ListingTypeOK
  BY ListingAssumption DEF ListingInit, ListingTypeOK, FirstPage
<1>2. ListedAreStored /\ FreshCursor /\ ListedOnce /\ NoneLost
  BY DEF ListingInit, ListedAreStored, FreshCursor, ListedOnce, NoneLost
<1> QED
  BY <1>1, <1>2 DEF ListingInv

\* What the database does leaves the listing alone, and the place of a row that was
\* there, but for a trace that is moved.
LEMMA RowsKeepListing ==
    ASSUME ListingInv, NEW r, ClockTicks \/ (r \in Rows /\ (InsertRow(r) \/ CommitRow(r) \/ MergeTrace(r)))
    PROVE  ListingInv'
<1>1. /\ tick \in 1..LastTick /\ LastTick \in Nat \ {0}
      /\ rowIs \in [Rows -> {"none", "open", "stored"}] /\ startedAt \in [Rows -> 0..LastTick]
      /\ listed \in [Rows -> Nat] /\ present \subseteq Rows /\ moved \subseteq Rows
      /\ UNCHANGED <<listingIs, cursor, listed, present, turns>>
  BY ListingAssumption DEF ListingInv, ListingTypeOK, InsertRow, CommitRow, MergeTrace, ClockTicks
<1>2. /\ tick' \in 1..LastTick /\ rowIs' \in [Rows -> {"none", "open", "stored"}]
      /\ startedAt' \in [Rows -> 0..LastTick] /\ moved' \subseteq Rows /\ moved \subseteq moved'
  <2>1. CASE r \in Rows /\ InsertRow(r)
    BY <1>1, <2>1 DEF InsertRow
  <2>2. CASE r \in Rows /\ CommitRow(r)
    BY <1>1, <2>2 DEF CommitRow
  <2>3. CASE r \in Rows /\ MergeTrace(r)
    <3>1. \A at \in 1..(startedAt[r] - 1) : at \in 0..LastTick
      BY <1>1, <2>3
    <3> QED
      BY <1>1, <2>3, <3>1 DEF MergeTrace
  <2>4. CASE ClockTicks
    BY <1>1, <2>4 DEF ClockTicks
  <2> QED
    BY <2>1, <2>2, <2>3, <2>4
<1>3. \A s \in Rows : /\ rowIs[s] = "stored" => rowIs'[s] = "stored" /\ (s \notin moved' => startedAt'[s] = startedAt[s])
                      /\ rowIs'[s] # "none" => startedAt'[s] # 0
  <2>1. CASE r \in Rows /\ InsertRow(r)
    BY <1>1, <2>1 DEF InsertRow, ListingInv, ListedAreStored
  <2>2. CASE r \in Rows /\ CommitRow(r)
    BY <1>1, <2>2 DEF CommitRow, ListingInv, ListedAreStored
  <2>3. CASE r \in Rows /\ MergeTrace(r)
    BY <1>1, <2>3 DEF MergeTrace, ListingInv, ListedAreStored
  <2>4. CASE ClockTicks
    BY <1>1, <2>4 DEF ClockTicks, ListingInv, ListedAreStored
  <2> QED
    BY <2>1, <2>2, <2>3, <2>4
<1>4. ListingTypeOK' /\ FreshCursor'
  BY <1>1, <1>2 DEF ListingInv, ListingTypeOK, FreshCursor, FirstPage
<1>5. ListedAreStored'
  BY <1>1, <1>3 DEF ListingInv, ListedAreStored
<1>6. ListedOnce'
  <2> SUFFICES ASSUME NEW s \in Rows \ moved'
               PROVE  listed[s] <= 1 /\ (listingIs = "reading" /\ listed[s] = 1 => ~Beyond(s, cursor)')
    BY <1>1 DEF ListedOnce
  <2>1. s \notin moved /\ listed[s] <= 1
    BY <1>2 DEF ListingInv, ListedOnce
  <2>2. listed[s] = 1 => startedAt'[s] = startedAt[s]
    BY <1>3 DEF ListingInv, ListedAreStored
  <2> QED
    BY <1>1, <2>1, <2>2 DEF ListingInv, ListedOnce, Beyond
<1>7. NoneLost'
  <2> SUFFICES ASSUME listingIs # "idle", NEW s \in present \ moved'
               PROVE  \/ listed[s] = 1 \/ CutShort(s)'
                      \/ listingIs = "reading" /\ Beyond(s, cursor)'
    BY <1>1 DEF NoneLost
  <2>1. s \notin moved /\ startedAt'[s] = startedAt[s]
    BY <1>1, <1>2, <1>3 DEF ListingInv, ListedAreStored
  <2> QED
    BY <1>1, <2>1 DEF ListingInv, NoneLost, Beyond, CutShort
<1> QED
  BY <1>4, <1>5, <1>6, <1>7 DEF ListingInv

LEMMA BeginKeepsListing ==
    ASSUME ListingInv, BeginListing
    PROVE  ListingInv'
<1>1. /\ ListingTypeOK /\ listingIs = "idle" /\ listingIs' = "reading" /\ moved' = {}
      /\ present' = {r \in Rows : rowIs[r] = "stored"}
      /\ UNCHANGED <<tick, rowIs, startedAt, cursor, listed, turns>>
      /\ cursor = FirstPage /\ listed = [r \in Rows |-> 0]
  BY DEF BeginListing, ListingInv, FreshCursor
<1>2. ListingTypeOK' /\ ListedAreStored' /\ FreshCursor' /\ ListedOnce'
  BY <1>1 DEF ListingInv, ListingTypeOK, ListedAreStored, FreshCursor, ListedOnce
<1>3. \A r \in Rows : Beyond(r, cursor)'
  <2>1. LastTick \in Nat /\ \A r \in Rows : startedAt[r] \in 0..LastTick
    BY <1>1, ListingAssumption DEF ListingTypeOK
  <2> QED
    BY <1>1, <2>1 DEF Beyond, FirstPage
<1>4. NoneLost'
  BY <1>1, <1>3 DEF NoneLost
<1> QED
  BY <1>2, <1>4 DEF ListingInv

LEMMA PageKeepsListing ==
    ASSUME ListingInv, NextPage
    PROVE  ListingInv'
<1>1. /\ ListingTypeOK /\ listingIs = "reading"
      /\ rowIs \in [Rows -> {"none", "open", "stored"}] /\ startedAt \in [Rows -> 0..LastTick]
      /\ listed \in [Rows -> Nat] /\ present \subseteq Rows /\ Rows \subseteq Nat /\ LastTick \in Nat \ {0}
      /\ turns \subseteq 1..LastTick /\ cursor.at \in 0..(LastTick + 1) /\ cursor.id \in Rows \union {0}
      /\ cursor = [at |-> cursor.at, id |-> cursor.id]
      /\ UNCHANGED <<tick, rowIs, startedAt, present, moved>>
  BY ListingAssumption DEF ListingInv, ListingTypeOK, NextPage
<1>2. /\ listed' = [r \in Rows |-> IF r \in Page THEN listed[r] + 1 ELSE listed[r]]
      /\ IF Cardinality(Fetched(Eligible)) > Limit
         THEN /\ cursor' = [at |-> Truncated(startedAt[LastOfPage]), id |-> LastOfPage]
              /\ turns' = turns \union {startedAt[LastOfPage]} /\ listingIs' = "reading"
         ELSE listingIs' = "done" /\ cursor' = cursor /\ turns' = turns
  BY <1>1 DEF NextPage, Page, Eligible, LastOfPage
<1>3. Page \subseteq Eligible /\ Eligible \subseteq Rows /\ \A r \in Eligible : rowIs[r] = "stored" /\ Beyond(r, cursor)
  BY <1>1, PageIsFirst DEF Eligible
<1>4. listed' \in [Rows -> Nat]
  BY <1>1, <1>2
<1>5. ListedAreStored'
  BY <1>1, <1>2, <1>3 DEF ListingInv, ListedAreStored
<1>6. \A r \in Rows \ moved : listed'[r] <= 1 /\ (r \in Page => listed'[r] = 1)
  BY <1>1, <1>2, <1>3 DEF ListingInv, ListedOnce
<1>7. CASE Cardinality(Fetched(Eligible)) > Limit
  <2>1. /\ LastOfPage \in Page /\ \A s \in Page \ {LastOfPage} : Below(LastOfPage, s)
        /\ \A r \in Eligible \ Page : Below(r, LastOfPage)
    BY <1>1, <1>7, PageIsFirst
  <2> DEFINE last == LastOfPage
  <2>2. /\ last \in Rows /\ last \in Nat /\ startedAt[last] \in 1..LastTick
        /\ Truncated(startedAt[last]) \in 0..startedAt[last]
    BY <1>1, <1>3, <2>1, CutIsEarlier DEF ListingInv, ListedAreStored
  <2>3. /\ cursor'.at = Truncated(startedAt[last]) /\ cursor'.id = last
        /\ turns' = turns \union {startedAt[last]} /\ listingIs' = "reading"
        /\ cursor' = [at |-> cursor'.at, id |-> cursor'.id]
    BY <1>2, <1>7
  <2> HIDE DEF last
  <2>4. ListingTypeOK' /\ FreshCursor'
    <3>1. cursor' \in [at : 0..(LastTick + 1), id : Rows \union {0}]
      BY <1>1, <2>2, <2>3
    <3> QED
      BY <1>1, <1>4, <2>2, <2>3, <3>1 DEF ListingTypeOK, FreshCursor
  <2>5. ASSUME NEW r \in Rows, Beyond(r, cursor)'
        PROVE  Below(r, last)
    BY <1>1, <2>2, <2>3, <2>5 DEF Beyond, Below
  <2>6. ASSUME NEW r \in Rows, Below(r, last)
        PROVE  Beyond(r, cursor)
    <3>1. Beyond(last, cursor)
      BY <1>3, <2>1 DEF last
    <3> QED
      BY <1>1, <2>2, <2>6, <3>1 DEF Beyond, Below
  <2>7. ListedOnce'
    <3> SUFFICES ASSUME NEW r \in Rows \ moved, listed'[r] = 1, Beyond(r, cursor)'
                 PROVE  FALSE
      BY <1>1, <1>6, <2>3 DEF ListedOnce
    <3>1. Below(r, last) /\ Beyond(r, cursor)
      BY <2>5, <2>6
    <3>2. r \notin Page
      BY <1>1, <2>1, <2>2, <3>1, BelowOrders DEF last
    <3> QED
      BY <1>1, <1>2, <3>1, <3>2 DEF ListingInv, ListedOnce
  <2>8. NoneLost'
    <3> SUFFICES ASSUME NEW r \in present \ moved, listed'[r] # 1, ~CutShort(r)'
                 PROVE  Beyond(r, cursor)'
      BY <1>1, <2>3 DEF NoneLost
    <3>1. r \notin Page /\ listed[r] # 1
      BY <1>1, <1>2, <1>6
    <3>2. ~CutShort(r)
      BY <1>1, <2>3 DEF CutShort, Truncated
    <3>3. r \in Eligible
      BY <1>1, <3>1, <3>2 DEF ListingInv, NoneLost, Eligible, ListedAreStored
    <3>4. Below(r, last)
      BY <2>1, <3>1, <3>3 DEF last
    <3>5. ~(Truncated(startedAt[last]) <= startedAt[r] /\ startedAt[r] <= startedAt[last])
      BY <1>1, <2>3 DEF CutShort, Truncated
    <3> QED
      BY <1>1, <2>2, <2>3, <3>4, <3>5 DEF Beyond, Below
  <2> QED
    BY <1>5, <2>4, <2>7, <2>8 DEF ListingInv
<1>8. CASE ~(Cardinality(Fetched(Eligible)) > Limit)
  <2>1. listingIs' = "done" /\ cursor' = cursor /\ turns' = turns
    BY <1>2, <1>8
  <2>2. Page = Eligible
    <3>1. Cardinality(Fetched(Eligible)) \in Nat /\ Limit \in Nat
      BY ListingAssumption, FS_Subset, FS_CardinalityType, TopIs, <1>3 DEF Fetched
    <3> QED
      BY <1>1, <1>8, <3>1, PageIsFirst
  <2>3. ListingTypeOK' /\ FreshCursor' /\ ListedOnce'
    BY <1>1, <1>4, <1>6, <2>1 DEF ListingTypeOK, FreshCursor, ListedOnce
  <2>4. NoneLost'
    <3> SUFFICES ASSUME NEW r \in present \ moved, listed'[r] # 1
                 PROVE  CutShort(r)'
      BY <1>1, <2>1 DEF NoneLost
    <3>1. r \notin Eligible /\ listed[r] # 1
      BY <1>1, <1>2, <1>6, <2>2
    <3> QED
      BY <1>1, <2>1, <3>1 DEF ListingInv, NoneLost, Eligible, ListedAreStored, CutShort, Truncated
  <2> QED
    BY <1>5, <2>3, <2>4 DEF ListingInv
<1> QED
  BY <1>7, <1>8

LEMMA ListingStep == ListingInv /\ [ListingNext]_listingVars => ListingInv'
<1> SUFFICES ASSUME ListingInv, [ListingNext]_listingVars PROVE ListingInv'
  OBVIOUS
<1>1. CASE ClockTicks
  BY <1>1, RowsKeepListing
<1>2. CASE UNCHANGED listingVars
  <2>1. UNCHANGED <<tick, rowIs, startedAt, listingIs, cursor, listed, present, moved, turns>>
    BY <1>2 DEF listingVars
  <2> QED
    BY <2>1 DEF ListingInv, ListingTypeOK, ListedAreStored, FreshCursor, ListedOnce, NoneLost, Beyond,
       CutShort, Truncated, FirstPage
<1> QED
  BY <1>1, <1>2, RowsKeepListing, BeginKeepsListing, PageKeepsListing DEF ListingNext

LEMMA AlwaysListingInv == ListingSpec => []ListingInv
<1> QED
  BY ListingInvInit, ListingStep, PTL DEF ListingSpec

\* The rows, the cursor and what was listed keep their types; the cursor is an instant.
THEOREM ListingTypeCorrect == ListingSpec => []ListingTypeOK
<1>1. ListingInv => ListingTypeOK
  BY DEF ListingInv
<1> QED
  BY <1>1, AlwaysListingInv, PTL

\* A client that follows the cursors to the end has every row that was stored all the
\* time in its place, once, but for rows of the millisecond in which a page ended.
THEOREM SkippedInMillisecondOnly == ListingSpec => []SkippedOnlyWithinMillisecond
<1>1. ListingInv => SkippedOnlyWithinMillisecond
  BY DEF ListingInv, NoneLost, ListedOnce, CutShort, SkippedOnlyWithinMillisecond
<1> QED
  BY <1>1, AlwaysListingInv, PTL

-----------------------------------------------------------------------------
(* Migrations: any number of jobs and any packages of files, also ones     *)
(* that disagree about a file.                                             *)

\* The lock of the ledger is held by one job.
OneLocked == \A m, n \in Migrators :
    migrators[m].at = "locked" /\ migrators[n].at = "locked" => m = n

\* What a job has applied in its transaction: files of the part of its package that
\* it has gone through, each once, under keys that are free; and all of that part is
\* there, or was when it began.
OwnSound(m) ==
    LET own == migrators[m].own
    IN  /\ migrators[m].next # 0
        /\ \A i \in 1..Len(own) :
              /\ \E k \in 1..Len(PackageOf[m]) : k < migrators[m].next /\ own[i] = PackageOf[m][k]
              /\ KeyIsFree(own[i], ledger)
        /\ \A i, j \in 1..Len(own) : i # j => own[i].version # own[j].version

OwnComplete(m) ==
    LET own == migrators[m].own
    IN  \A k \in 1..Len(PackageOf[m]) : k < migrators[m].next =>
           \/ PackageOf[m][k] \in ledger
           \/ \E i \in 1..Len(own) : own[i] = PackageOf[m][k]

\* Whatever is in the ledger came with the whole package of a job.
WholePackages == \A f \in ledger : \E n \in Migrators : f \in FilesOf(n) /\ FilesOf(n) \subseteq ledger

MigrationInv ==
    /\ MigrationsTypeOK
    /\ EachAppliedOnce
    /\ OneLocked
    /\ \A m \in Migrators : migrators[m].snapshot \subseteq ledger
    /\ \A m \in Migrators : IF migrators[m].at = "locked" THEN OwnSound(m) /\ OwnComplete(m)
                            ELSE migrators[m].own = <<>> /\ migrators[m].next = 1
    /\ WholePackages

LEMMA Packages ==
    ASSUME NEW m \in Migrators
    PROVE  /\ PackageOf[m] \in Seq(File)
           /\ Len(PackageOf[m]) \in Nat \ {0}
           /\ \A i \in 1..Len(PackageOf[m]) : PackageOf[m][i] \in File
           /\ \A i, j \in 1..Len(PackageOf[m]) :
                 i < j => PackageOf[m][i].version < PackageOf[m][j].version
<1>1. PackageOf[m] \in Seq(File) /\ PackageOf[m] # <<>>
  BY MigrationsAssumption
<1>2. Len(PackageOf[m]) \in Nat \ {0}
  BY <1>1, EmptySeq, LenProperties
<1> QED
  BY <1>1, <1>2, ElementOfSeq, MigrationsAssumption

LEMMA MigrationInvInit == MigrationsInit => MigrationInv
<1> SUFFICES ASSUME MigrationsInit PROVE MigrationInv
  OBVIOUS
<1>1. MigrationsTypeOK
  BY EmptySeq DEF MigrationsInit, MigrationsTypeOK, Migrator, NotRunning
<1>2. EachAppliedOnce
  BY DEF MigrationsInit, EachAppliedOnce
<1>3. OneLocked /\ WholePackages
  BY DEF MigrationsInit, OneLocked, WholePackages, NotRunning
<1> QED
  BY <1>1, <1>2, <1>3 DEF MigrationsInit, MigrationInv, NotRunning

\* A job that moves on without the lock, or gives it back, leaves the others alone.
LEMMA WithoutLock ==
    ASSUME MigrationInv, NEW m \in Migrators, NEW job \in Migrator,
           migrators' = [migrators EXCEPT ![m] = job], UNCHANGED <<ledger, schema>>,
           job.at # "locked", job.own = <<>>, job.next = 1, job.snapshot \subseteq ledger
    PROVE  MigrationInv'
<1>1. /\ migrators'[m] = job
      /\ \A n \in Migrators : n # m => migrators'[n] = migrators[n]
      /\ migrators' \in [Migrators -> Migrator]
  BY DEF MigrationInv, MigrationsTypeOK
<1>2. MigrationsTypeOK' /\ EachAppliedOnce' /\ WholePackages'
  <2>1. MigrationsTypeOK'
    BY <1>1 DEF MigrationInv, MigrationsTypeOK, FilesOf
  <2>2. EachAppliedOnce'
    BY DEF MigrationInv, EachAppliedOnce
  <2>3. WholePackages'
    BY DEF MigrationInv, WholePackages, FilesOf
  <2> QED
    BY <2>1, <2>2, <2>3
<1>3. OneLocked'
  BY <1>1 DEF MigrationInv, OneLocked
<1>4. \A n \in Migrators : migrators'[n].snapshot \subseteq ledger'
  BY <1>1 DEF MigrationInv
<1>5. \A n \in Migrators : IF migrators'[n].at = "locked" THEN OwnSound(n)' /\ OwnComplete(n)'
                           ELSE migrators'[n].own = <<>> /\ migrators'[n].next = 1
  <2> SUFFICES ASSUME NEW n \in Migrators
               PROVE  IF migrators'[n].at = "locked" THEN OwnSound(n)' /\ OwnComplete(n)'
                      ELSE migrators'[n].own = <<>> /\ migrators'[n].next = 1
    OBVIOUS
  <2>1. CASE n = m
    BY <1>1, <2>1
  <2>2. CASE n # m
    BY <1>1, <2>2 DEF MigrationInv, OwnSound, OwnComplete, KeyIsFree
  <2> QED
    BY <2>1, <2>2
<1> QED
  BY <1>2, <1>3, <1>4, <1>5 DEF MigrationInv

\* A job that takes the lock, or goes on under it.
LEMMA UnderLock ==
    ASSUME MigrationInv, NEW m \in Migrators, NEW job \in Migrator,
           migrators' = [migrators EXCEPT ![m] = job], UNCHANGED <<ledger, schema>>,
           job.at = "locked", job.snapshot = migrators[m].snapshot,
           \A n \in Migrators : migrators[n].at = "locked" => n = m,
           OwnSound(m)', OwnComplete(m)'
    PROVE  MigrationInv'
<1>1. /\ migrators'[m] = job
      /\ \A n \in Migrators : n # m => migrators'[n] = migrators[n]
      /\ migrators' \in [Migrators -> Migrator]
  BY DEF MigrationInv, MigrationsTypeOK
<1>2. MigrationsTypeOK' /\ EachAppliedOnce' /\ WholePackages'
  <2>1. MigrationsTypeOK'
    BY <1>1 DEF MigrationInv, MigrationsTypeOK, FilesOf
  <2>2. EachAppliedOnce'
    BY DEF MigrationInv, EachAppliedOnce
  <2>3. WholePackages'
    BY DEF MigrationInv, WholePackages, FilesOf
  <2> QED
    BY <2>1, <2>2, <2>3
<1>3. OneLocked'
  BY <1>1 DEF MigrationInv, OneLocked
<1>4. \A n \in Migrators : migrators'[n].snapshot \subseteq ledger'
  BY <1>1 DEF MigrationInv
<1>5. \A n \in Migrators \ {m} : /\ migrators'[n].at # "locked"
                                 /\ migrators'[n].own = <<>> /\ migrators'[n].next = 1
  BY <1>1 DEF MigrationInv
<1> QED
  BY <1>1, <1>2, <1>3, <1>4, <1>5 DEF MigrationInv

LEMMA MigrateKeepsInv ==
    ASSUME MigrationInv, NEW m \in Migrators, MigrateFile(m)
    PROVE  MigrationInv'
<1> DEFINE job   == migrators[m]
           f     == PackageOf[m][job.next]
           known == {g \in job.snapshot : g.version = f.version}
<1>1. job.at = "locked" /\ job.next <= Len(PackageOf[m]) /\ UNCHANGED <<ledger, schema>>
  BY DEF MigrateFile
<1>2. job \in Migrator /\ job.next \in Nat /\ job.own \in Seq(File) /\ job.snapshot \in SUBSET File
  BY DEF MigrationInv, MigrationsTypeOK, Migrator
<1>3. OwnSound(m) /\ OwnComplete(m) /\ job.snapshot \subseteq ledger
  BY <1>1 DEF MigrationInv
<1>4. \A n \in Migrators : migrators[n].at = "locked" => n = m
  BY <1>1 DEF MigrationInv, OneLocked
<1>5. \A at \in {"modified", "conflict"} :
         migrators' = [migrators EXCEPT ![m] = [NotRunning EXCEPT !.at = at]] => MigrationInv'
  <2> SUFFICES ASSUME NEW at \in {"modified", "conflict"},
                      migrators' = [migrators EXCEPT ![m] = [NotRunning EXCEPT !.at = at]]
               PROVE  MigrationInv'
    OBVIOUS
  <2> DEFINE end == [NotRunning EXCEPT !.at = at]
  <2>1. /\ end \in Migrator /\ end.at # "locked" /\ end.own = <<>> /\ end.next = 1
        /\ end.snapshot \subseteq ledger
    BY EmptySeq DEF NotRunning, Migrator
  <2> HIDE DEF end
  <2> QED
    BY <1>1, <2>1, WithoutLock DEF end
<1>6. CASE known = {f} /\ migrators' = [migrators EXCEPT ![m].next = @ + 1]
  <2> DEFINE new == [job EXCEPT !.next = job.next + 1]
  <2>1. /\ new \in Migrator /\ new.at = "locked" /\ new.snapshot = job.snapshot
        /\ new.own = job.own /\ new.next = job.next + 1
    BY <1>1, <1>2 DEF Migrator
  <2>2. migrators' = [migrators EXCEPT ![m] = new]
    BY <1>6
  <2>3. migrators'[m] = new
    BY <2>2 DEF MigrationInv, MigrationsTypeOK
  <2>4. f \in ledger
    BY <1>3, <1>6
  <2> HIDE DEF new
  <2>5. OwnSound(m)'
    <3>1. \A i \in 1..Len(new.own) :
             /\ \E k \in 1..Len(PackageOf[m]) : k < new.next /\ new.own[i] = PackageOf[m][k]
             /\ KeyIsFree(new.own[i], ledger)
      <4> SUFFICES ASSUME NEW i \in 1..Len(job.own)
                   PROVE  /\ \E k \in 1..Len(PackageOf[m]) : k < new.next /\ job.own[i] = PackageOf[m][k]
                          /\ KeyIsFree(job.own[i], ledger)
        BY <2>1
      <4>1. KeyIsFree(job.own[i], ledger)
        BY <1>3 DEF OwnSound
      <4>2. PICK k \in 1..Len(PackageOf[m]) : k < job.next /\ job.own[i] = PackageOf[m][k]
        BY <1>3 DEF OwnSound
      <4>3. k < new.next
        BY <1>2, <2>1, <4>2, Packages
      <4> QED
        BY <4>1, <4>2, <4>3
    <3>2. \A i, j \in 1..Len(new.own) : i # j => new.own[i].version # new.own[j].version
      BY <1>3, <2>1 DEF OwnSound
    <3>3. new.next # 0
      BY <1>2, <2>1
    <3> QED
      BY <1>1, <2>3, <3>1, <3>2, <3>3, SMT DEF OwnSound, KeyIsFree
  <2>6. OwnComplete(m)'
    <3>1. \A k \in 1..Len(PackageOf[m]) : k < new.next =>
             PackageOf[m][k] \in ledger \/ \E i \in 1..Len(new.own) : new.own[i] = PackageOf[m][k]
      <4> SUFFICES ASSUME NEW k \in 1..Len(PackageOf[m]), k < new.next
                   PROVE  PackageOf[m][k] \in ledger
                          \/ \E i \in 1..Len(new.own) : new.own[i] = PackageOf[m][k]
        OBVIOUS
      <4>1. CASE k < job.next
        BY <1>3, <2>1, <4>1 DEF OwnComplete
      <4>2. CASE k = job.next
        BY <2>4, <4>2
      <4>3. k \in Nat
        BY Packages
      <4> QED
        BY <1>2, <2>1, <4>1, <4>2, <4>3
    <3> QED
      BY <1>1, <2>3, <3>1 DEF OwnComplete
  <2> QED
    BY <1>1, <1>4, <2>1, <2>2, <2>5, <2>6, UnderLock
<1>7. CASE /\ KeyIsFree(f, ledger)
           /\ migrators' = [migrators EXCEPT ![m].next = @ + 1, ![m].own = Append(@, f)]
  <2> DEFINE further == [job EXCEPT !.next = job.next + 1]
             new   == [further EXCEPT !.own = Append(job.own, f)]
  <2>1. f \in File /\ job.next \in 1..Len(PackageOf[m])
    BY <1>1, <1>2, <1>3, Packages DEF OwnSound
  <2>a. Append(job.own, f) \in Seq(File)
    BY <1>2, <2>1, AppendProperties
  <2>2. /\ new \in Migrator /\ new.at = "locked" /\ new.snapshot = job.snapshot
        /\ new.own = Append(job.own, f) /\ new.next = job.next + 1
    <3>1. /\ further \in Migrator /\ further.at = "locked" /\ further.snapshot = job.snapshot
          /\ further.next = job.next + 1
      BY <1>1, <1>2 DEF Migrator
    <3> HIDE DEF further
    <3> QED
      BY <2>a, <3>1 DEF Migrator
  <2>3. migrators' = [migrators EXCEPT ![m] = new]
    BY <1>7
  <2>4. migrators'[m] = new
    BY <2>3 DEF MigrationInv, MigrationsTypeOK
  <2>5. /\ Len(new.own) = Len(job.own) + 1 /\ Len(job.own) \in Nat
        /\ \A i \in 1..Len(job.own) : new.own[i] = job.own[i]
        /\ new.own[Len(job.own) + 1] = f
    BY <1>2, <2>1, <2>2, AppendProperties, LenProperties
  <2> HIDE DEF new
  <2>6. \A i \in 1..Len(new.own) :
           /\ \E k \in 1..Len(PackageOf[m]) : k < new.next /\ new.own[i] = PackageOf[m][k]
           /\ KeyIsFree(new.own[i], ledger)
    <3> SUFFICES ASSUME NEW i \in 1..Len(new.own)
                 PROVE  /\ \E k \in 1..Len(PackageOf[m]) : k < new.next /\ new.own[i] = PackageOf[m][k]
                        /\ KeyIsFree(new.own[i], ledger)
      OBVIOUS
    <3>1. CASE i \in 1..Len(job.own)
      <4>1. PICK k \in 1..Len(PackageOf[m]) : k < job.next /\ job.own[i] = PackageOf[m][k]
        BY <1>3, <3>1 DEF OwnSound
      <4>2. KeyIsFree(job.own[i], ledger)
        BY <1>3, <3>1 DEF OwnSound
      <4>3. k < new.next
        BY <1>2, <2>2, <4>1, Packages
      <4> QED
        BY <2>5, <3>1, <4>1, <4>2, <4>3
    <3>2. CASE i = Len(job.own) + 1
      BY <1>2, <1>7, <2>1, <2>2, <2>5, <3>2
    <3> QED
      BY <2>5, <3>1, <3>2
  <2>7. \A i \in 1..Len(job.own) : job.own[i].version # f.version
    <3> SUFFICES ASSUME NEW i \in 1..Len(job.own) PROVE job.own[i].version # f.version
      OBVIOUS
    <3>1. PICK k \in 1..Len(PackageOf[m]) : k < job.next /\ job.own[i] = PackageOf[m][k]
      BY <1>3 DEF OwnSound
    <3>2. PackageOf[m][k].version < f.version
      BY <2>1, <3>1, Packages
    <3>3. PackageOf[m][k].version \in Nat /\ f.version \in Nat
      BY <2>1, <3>1, Packages DEF File
    <3> QED
      BY <3>1, <3>2, <3>3
  <2>8. \A i, j \in 1..Len(new.own) : i # j => new.own[i].version # new.own[j].version
    <3>1. \A i, j \in 1..Len(job.own) : i # j => job.own[i].version # job.own[j].version
      BY <1>3 DEF OwnSound
    <3> SUFFICES ASSUME NEW i \in 1..Len(new.own), NEW j \in 1..Len(new.own), i # j
                 PROVE  new.own[i].version # new.own[j].version
      OBVIOUS
    <3> DEFINE own == job.own  w == new.own
    <3>2. /\ Len(own) \in Nat /\ i \in 1..(Len(own) + 1) /\ j \in 1..(Len(own) + 1)
          /\ \A k \in 1..Len(own) : w[k] = own[k] /\ own[k].version # f.version
          /\ w[Len(own) + 1] = f
      BY <2>5, <2>7
    <3>3. \A a, b \in 1..Len(own) : a # b => own[a].version # own[b].version
      BY <3>1
    <3> HIDE DEF own, w, f, job
    <3>4. w[i].version # w[j].version
      BY <3>2, <3>3
    <3> QED
      BY <3>4 DEF w
  <2>9. OwnSound(m)'
    <3>1. new.next # 0
      BY <1>2, <2>2
    <3> HIDE DEF job, f
    <3> QED
      BY <1>1, <2>4, <2>6, <2>8, <3>1, SMT DEF OwnSound, KeyIsFree
  <2>10. \A k \in 1..Len(PackageOf[m]) : k < new.next =>
            PackageOf[m][k] \in ledger \/ \E i \in 1..Len(new.own) : new.own[i] = PackageOf[m][k]
    <3> SUFFICES ASSUME NEW k \in 1..Len(PackageOf[m]), k < new.next
                 PROVE  PackageOf[m][k] \in ledger
                        \/ \E i \in 1..Len(new.own) : new.own[i] = PackageOf[m][k]
      OBVIOUS
    <3>1. CASE k < job.next
      <4>1. CASE PackageOf[m][k] \in ledger
        BY <4>1
      <4>2. CASE \E i \in 1..Len(job.own) : job.own[i] = PackageOf[m][k]
        <5>1. PICK i \in 1..Len(job.own) : job.own[i] = PackageOf[m][k]
          BY <4>2
        <5>2. i \in 1..Len(new.own) /\ new.own[i] = PackageOf[m][k]
          BY <2>5, <5>1
        <5> QED
          BY <5>2
      <4> QED
        BY <1>3, <3>1, <4>1, <4>2 DEF OwnComplete
    <3>2. CASE k = job.next
      BY <2>5, <3>2
    <3>3. k \in Nat
      BY Packages
    <3> QED
      BY <1>2, <2>2, <3>1, <3>2, <3>3
  <2>11. OwnComplete(m)'
    BY <1>1, <2>4, <2>10 DEF OwnComplete
  <2> QED
    BY <1>1, <1>4, <2>2, <2>3, <2>9, <2>11, UnderLock
<1> QED
  BY <1>1, <1>5, <1>6, <1>7 DEF MigrateFile

LEMMA LockKeepsInv ==
    ASSUME MigrationInv, NEW m \in Migrators, LockMigrations(m)
    PROVE  MigrationInv'
<1> DEFINE new == [migrators[m] EXCEPT !.at = "locked"]
<1>1. /\ migrators[m] \in Migrator
      /\ migrators[m].own = <<>> /\ migrators[m].next = 1
  BY DEF LockMigrations, MigrationInv, MigrationsTypeOK
<1>2. /\ new \in Migrator /\ new.at = "locked" /\ new.snapshot = migrators[m].snapshot
      /\ new.own = <<>> /\ new.next = 1
  BY <1>1 DEF Migrator
<1>3. migrators' = [migrators EXCEPT ![m] = new] /\ UNCHANGED <<ledger, schema>>
  BY DEF LockMigrations
<1>4. migrators'[m] = new
  BY <1>3 DEF MigrationInv, MigrationsTypeOK
<1> HIDE DEF new
<1>5. OwnSound(m)' /\ OwnComplete(m)'
  BY <1>2, <1>4, EmptySeq, Packages DEF OwnSound, OwnComplete
<1> QED
  BY <1>2, <1>3, <1>5, UnderLock DEF LockMigrations

LEMMA CommitKeepsInv ==
    ASSUME MigrationInv, NEW m \in Migrators, CommitMigration(m)
    PROVE  MigrationInv'
<1> DEFINE own == migrators[m].own
           new == {own[i] : i \in 1..Len(own)}
           end == [NotRunning EXCEPT !.at = "done"]
<1>1. /\ migrators[m].at = "locked" /\ migrators[m].next > Len(PackageOf[m])
      /\ ledger' = ledger \union new /\ schema' = schema \o own
      /\ migrators' = [migrators EXCEPT ![m] = end]
  BY DEF CommitMigration
<1>2. own \in Seq(File) /\ schema \in Seq(File) /\ migrators[m].next \in Nat
  BY DEF MigrationInv, MigrationsTypeOK, Migrator
<1>3. OwnSound(m) /\ OwnComplete(m)
  BY <1>1 DEF MigrationInv
<1>4. new \subseteq FilesOf(m) /\ FilesOf(m) \subseteq ledger'
  <2>1. new \subseteq FilesOf(m)
    BY <1>3 DEF OwnSound, FilesOf
  <2>2. \A k \in 1..Len(PackageOf[m]) : PackageOf[m][k] \in ledger'
    <3> SUFFICES ASSUME NEW k \in 1..Len(PackageOf[m]) PROVE PackageOf[m][k] \in ledger'
      OBVIOUS
    <3>1. k < migrators[m].next
      BY <1>1, <1>2, Packages
    <3>2. PackageOf[m][k] \in ledger \/ \E i \in 1..Len(own) : own[i] = PackageOf[m][k]
      BY <1>3, <3>1 DEF OwnComplete
    <3> QED
      BY <1>1, <3>2
  <2> QED
    BY <2>1, <2>2 DEF FilesOf
<1>5. end \in Migrator /\ end.at # "locked" /\ end.own = <<>> /\ end.next = 1 /\ end.snapshot = {}
  BY EmptySeq DEF NotRunning, Migrator
<1>6. /\ migrators'[m] = end
      /\ \A n \in Migrators : n # m => migrators'[n] = migrators[n]
      /\ migrators' \in [Migrators -> Migrator]
  BY <1>1, <1>5 DEF MigrationInv, MigrationsTypeOK
<1>7. /\ schema \o own \in Seq(File)
      /\ Len(schema \o own) = Len(schema) + Len(own)
      /\ Len(schema) \in Nat /\ Len(own) \in Nat
      /\ \A i \in 1..Len(schema) : (schema \o own)[i] = schema[i]
      /\ \A i \in 1..Len(own) : (schema \o own)[Len(schema) + i] = own[i]
  BY <1>2, ConcatProperties, LenProperties
<1>8. MigrationsTypeOK'
  BY <1>1, <1>4, <1>6, <1>7 DEF MigrationInv, MigrationsTypeOK
<1>9. EachAppliedOnce'
  <2>1. \A i \in 1..(Len(schema) + Len(own)) :
           \/ i \in 1..Len(schema)
           \/ \E j \in 1..Len(own) : i = Len(schema) + j
    <3> SUFFICES ASSUME NEW i \in 1..(Len(schema) + Len(own)), i \notin 1..Len(schema)
                 PROVE  \E j \in 1..Len(own) : i = Len(schema) + j
      OBVIOUS
    <3>1. i - Len(schema) \in 1..Len(own) /\ i = Len(schema) + (i - Len(schema))
      BY <1>7
    <3> QED
      BY <3>1
  <2>2. \A i \in 1..Len(schema), j \in 1..Len(own) : schema[i].version # own[j].version
    BY <1>3 DEF OwnSound, KeyIsFree, MigrationInv, EachAppliedOnce
  <2>3. \A i, j \in 1..Len(schema') : i # j => schema'[i].version # schema'[j].version
    <3> SUFFICES ASSUME NEW i \in 1..Len(schema'), NEW j \in 1..Len(schema'), i # j
                 PROVE  schema'[i].version # schema'[j].version
      OBVIOUS
    <3>1. i \in 1..(Len(schema) + Len(own)) /\ j \in 1..(Len(schema) + Len(own))
      BY <1>1, <1>7
    <3>2. CASE i \in 1..Len(schema) /\ j \in 1..Len(schema)
      BY <1>1, <1>7, <3>2 DEF MigrationInv, EachAppliedOnce
    <3>3. CASE i \in 1..Len(schema) /\ j \notin 1..Len(schema)
      BY <1>1, <1>7, <2>1, <2>2, <3>1, <3>3
    <3>4. CASE i \notin 1..Len(schema) /\ j \in 1..Len(schema)
      BY <1>1, <1>7, <2>1, <2>2, <3>1, <3>4
    <3>5. CASE i \notin 1..Len(schema) /\ j \notin 1..Len(schema)
      <4>1. PICK a \in 1..Len(own) : i = Len(schema) + a
        BY <2>1, <3>1, <3>5
      <4>2. PICK b \in 1..Len(own) : j = Len(schema) + b
        BY <2>1, <3>1, <3>5
      <4> QED
        BY <1>1, <1>3, <1>7, <4>1, <4>2 DEF OwnSound
    <3> QED
      BY <3>2, <3>3, <3>4, <3>5
  <2>4. ledger' = {schema'[i] : i \in 1..Len(schema')}
    <3>1. ASSUME NEW f \in ledger' PROVE \E i \in 1..Len(schema') : f = schema'[i]
      <4>1. CASE f \in ledger
        <5>1. PICK i \in 1..Len(schema) : f = schema[i]
          BY <4>1 DEF MigrationInv, EachAppliedOnce
        <5>2. i \in 1..Len(schema') /\ schema'[i] = f
          BY <1>1, <1>7, <5>1
        <5> QED
          BY <5>2
      <4>2. CASE f \in new
        <5>1. PICK i \in 1..Len(own) : f = own[i]
          BY <4>2
        <5>2. Len(schema) + i \in 1..Len(schema') /\ schema'[Len(schema) + i] = f
          BY <1>1, <1>7, <5>1
        <5> QED
          BY <5>2
      <4> QED
        BY <1>1, <4>1, <4>2
    <3>2. ASSUME NEW i \in 1..Len(schema') PROVE schema'[i] \in ledger'
      <4>1. CASE i \in 1..Len(schema)
        BY <1>1, <1>7, <4>1 DEF MigrationInv, EachAppliedOnce
      <4>2. CASE i \notin 1..Len(schema)
        BY <1>1, <1>7, <2>1, <4>2
      <4> QED
        BY <4>1, <4>2
    <3> QED
      BY <3>1, <3>2
  <2> QED
    BY <2>3, <2>4 DEF EachAppliedOnce
<1>10. OneLocked'
  BY <1>5, <1>6 DEF MigrationInv, OneLocked
<1>11. \A n \in Migrators : migrators'[n].snapshot \subseteq ledger'
  BY <1>1, <1>5, <1>6 DEF MigrationInv
<1>12. \A n \in Migrators : migrators'[n].at # "locked" /\ migrators'[n].own = <<>> /\ migrators'[n].next = 1
  BY <1>1, <1>5, <1>6 DEF MigrationInv, OneLocked
<1>13. WholePackages'
  <2>1. \A f \in ledger : \E n \in Migrators : f \in FilesOf(n) /\ FilesOf(n) \subseteq ledger'
    BY <1>1 DEF MigrationInv, WholePackages
  <2> QED
    BY <1>1, <1>4, <2>1 DEF WholePackages, FilesOf
<1> QED
  BY <1>8, <1>9, <1>10, <1>11, <1>12, <1>13 DEF MigrationInv

LEMMA OthersKeepInv ==
    ASSUME MigrationInv, NEW m \in Migrators, BeginMigration(m) \/ RunAgain(m)
    PROVE  MigrationInv'
<1>1. CASE BeginMigration(m)
  <2> DEFINE new == [NotRunning EXCEPT !.at = "begun", !.snapshot = ledger]
  <2>1. ledger \subseteq File
    BY Packages DEF MigrationInv, MigrationsTypeOK, FilesOf
  <2>2. /\ new \in Migrator /\ new.at # "locked" /\ new.own = <<>> /\ new.next = 1
        /\ new.snapshot \subseteq ledger
    BY <2>1, EmptySeq DEF NotRunning, Migrator
  <2>3. migrators' = [migrators EXCEPT ![m] = new] /\ UNCHANGED <<ledger, schema>>
    BY <1>1 DEF BeginMigration
  <2> HIDE DEF new
  <2> QED
    BY <2>2, <2>3, WithoutLock
<1>2. CASE RunAgain(m)
  <2>1. /\ NotRunning \in Migrator /\ NotRunning.at # "locked" /\ NotRunning.own = <<>>
        /\ NotRunning.next = 1 /\ NotRunning.snapshot \subseteq ledger
    BY EmptySeq DEF NotRunning, Migrator
  <2> QED
    BY <1>2, <2>1, WithoutLock DEF RunAgain
<1> QED
  BY <1>1, <1>2

LEMMA MigrationStep == MigrationInv /\ [MigrationsNext]_migrationVars => MigrationInv'
<1> SUFFICES ASSUME MigrationInv, [MigrationsNext]_migrationVars PROVE MigrationInv'
  OBVIOUS
<1>1. CASE UNCHANGED migrationVars
  <2>1. ledger' = ledger /\ schema' = schema /\ migrators' = migrators
    BY <1>1 DEF migrationVars
  <2>2. MigrationsTypeOK' /\ EachAppliedOnce' /\ OneLocked' /\ WholePackages'
    BY <2>1 DEF MigrationInv, MigrationsTypeOK, EachAppliedOnce, OneLocked, WholePackages, FilesOf
  <2>3. ASSUME NEW m \in Migrators, migrators[m].at = "locked"
        PROVE  OwnSound(m)' /\ OwnComplete(m)'
    <3>1. OwnSound(m) /\ OwnComplete(m)
      BY <2>3 DEF MigrationInv
    <3>2. OwnSound(m)'
      BY <2>1, <3>1 DEF OwnSound, KeyIsFree
    <3> QED
      BY <2>1, <3>1, <3>2 DEF OwnComplete
  <2> QED
    BY <2>1, <2>2, <2>3 DEF MigrationInv
<1>2. ASSUME NEW m \in Migrators,
             BeginMigration(m) \/ LockMigrations(m) \/ MigrateFile(m) \/ CommitMigration(m)
             \/ RunAgain(m)
      PROVE  MigrationInv'
  BY <1>2, OthersKeepInv, LockKeepsInv, MigrateKeepsInv, CommitKeepsInv
<1> QED
  BY <1>1, <1>2 DEF MigrationsNext

LEMMA AlwaysMigrationInv == MigrationsSpec => []MigrationInv
<1> QED
  BY MigrationInvInit, MigrationStep, PTL DEF MigrationsSpec

-----------------------------------------------------------------------------

\* No migration takes effect twice, whatever builds the jobs are of and however often
\* they crash and are run again.
THEOREM AppliedOnce == MigrationsSpec => []EachAppliedOnce
<1>1. MigrationInv => EachAppliedOnce
  BY DEF MigrationInv
<1> QED
  BY <1>1, AlwaysMigrationInv, PTL

\* Readiness by the newest file is as good as a look at all of them, but for a build
\* with other files before it: a job commits its whole package or nothing.
THEOREM ReadinessIsSound == MigrationsSpec => []ReadyMeansComplete
<1>1. MigrationInv => ReadyMeansComplete
  <2> SUFFICES ASSUME MigrationInv, NEW m \in Migrators, SchemaReady(m)
               PROVE  \/ FilesOf(m) \subseteq ledger
                      \/ \E n \in Migrators :
                            /\ SchemaReady(n) /\ ~(FilesOf(m) \subseteq FilesOf(n))
                            /\ PackageOf[m][Len(PackageOf[m])] \in FilesOf(n)
    BY DEF ReadyMeansComplete
  <2>1. PICK n \in Migrators : /\ PackageOf[m][Len(PackageOf[m])] \in FilesOf(n)
                               /\ FilesOf(n) \subseteq ledger
    BY DEF MigrationInv, WholePackages, SchemaReady
  <2>2. SchemaReady(n)
    BY <2>1, Packages DEF SchemaReady, FilesOf
  <2> QED
    BY <2>1, <2>2
<1> QED
  BY <1>1, AlwaysMigrationInv, PTL
\* The ledger, the schema and the jobs are well typed.
THEOREM MigrationsTypeCorrect == MigrationsSpec => []MigrationsTypeOK
<1>1. MigrationInv => MigrationsTypeOK
  BY DEF MigrationInv
<1> QED
  BY <1>1, AlwaysMigrationInv, PTL

-----------------------------------------------------------------------------
(* API keys: any keys, requests, permissions and roles.                    *)

\* What a request may do is what its key may do: the permissions of a row never
\* change after the insert, whatever happens to the row.
PrincipalsAsStored ==
    \A q \in Requests : principals[q] # NoKey =>
        /\ principals[q].subjectId \in Created
        /\ principals[q].permissions = rows[principals[q].subjectId].permissions

CreatorsAreStored == \A k \in Created : rows[k].createdBy \in Created \cup {NoKey}

\* GrantsWithinCreators alone is not inductive: a new key gets what the principal of
\* the request has, which says nothing of the row of its creator.
KeysInv == KeysTypeOK /\ PrincipalsAsStored /\ CreatorsAreStored /\ GrantsWithinCreators

-------------------------------------------------------------------------------

\* An insert adds a row and leaves the others alone.
LEMMA InsertAddsARow ==
    ASSUME KeysTypeOK, NEW k \in Keys \ Created, NEW row \in Row, Insert(k, row)
    PROVE  /\ Created' = Created \cup {k}
           /\ rows' \in [Created' -> Row]
           /\ Created' \subseteq Keys
           /\ rows'[k] = row
           /\ \A j \in Created : rows'[j] = rows[j]
<1>1. rows' = [j \in Created \cup {k} |-> IF j = k THEN row ELSE rows[j]]
  BY DEF Insert
<1>2. Created' = Created \cup {k}
  BY <1>1 DEF Created
<1> QED
  BY <1>1, <1>2 DEF KeysTypeOK

\* An insert of a row that its creator may grant keeps the invariant.
LEMMA InsertKeepsInv ==
    ASSUME KeysInv, NEW k \in Keys \ Created, NEW row \in Row, Insert(k, row),
           \/ row.createdBy = NoKey
           \/ /\ row.createdBy \in Created
              /\ row.permissions \subseteq rows[row.createdBy].permissions,
           \/ UNCHANGED principals
           \/ \E q \in Requests : Answer(q)
    PROVE  KeysInv'
<1> USE DEF KeysInv
<1>1. /\ Created' = Created \cup {k}
      /\ rows' \in [Created' -> Row]
      /\ Created' \subseteq Keys
      /\ rows'[k] = row
      /\ \A j \in Created : rows'[j] = rows[j]
  BY InsertAddsARow
<1>2. \A q \in Requests : principals'[q] = NoKey \/ principals'[q] = principals[q]
  BY DEF Answer, KeysTypeOK
<1>3. KeysTypeOK'
  <2>1. principals' \in [Requests -> {NoKey} \cup
                            [subjectId : Keys, permissions : SUBSET Permissions]]
    BY DEF KeysTypeOK, Answer
  <2> QED
    BY <1>1, <2>1 DEF KeysTypeOK
<1>4. PrincipalsAsStored'
  BY <1>1, <1>2 DEF PrincipalsAsStored
<1>5. CreatorsAreStored'
  BY <1>1 DEF CreatorsAreStored
<1>6. GrantsWithinCreators'
  <2> SUFFICES ASSUME NEW j \in Created', rows'[j].createdBy # NoKey
               PROVE  rows'[j].permissions \subseteq rows'[rows'[j].createdBy].permissions
    BY DEF GrantsWithinCreators
  <2>1. CASE j = k
    BY <1>1, <2>1
  <2>2. CASE j # k
    <3>1. j \in Created /\ rows'[j] = rows[j]
      BY <1>1, <2>2
    <3>2. rows[j].createdBy \in Created
      BY <3>1 DEF CreatorsAreStored
    <3> QED
      BY <1>1, <3>1, <3>2 DEF GrantsWithinCreators
  <2> QED
    BY <2>1, <2>2
<1> QED
  BY <1>3, <1>4, <1>5, <1>6

\* Revocation and expiry touch none of the fields the invariant speaks of.
LEMMA MarkKeepsInv ==
    ASSUME KeysInv, NEW k \in Created,
           \/ rows' = [rows EXCEPT ![k].revoked = TRUE]
           \/ rows' = [rows EXCEPT ![k].expired = TRUE],
           \/ UNCHANGED principals
           \/ \E q \in Requests : Answer(q)
    PROVE  KeysInv'
<1> USE DEF KeysInv
<1>1. /\ Created' = Created
      /\ rows' \in [Created -> Row]
      /\ \A j \in Created : /\ rows'[j].permissions = rows[j].permissions
                            /\ rows'[j].createdBy = rows[j].createdBy
  <2>1. rows \in [Created -> Row] /\ rows[k] \in Row
    BY DEF KeysTypeOK
  <2>2. PICK row \in Row : /\ rows' = [rows EXCEPT ![k] = row]
                           /\ row.permissions = rows[k].permissions
                           /\ row.createdBy = rows[k].createdBy
    <3>1. CASE rows' = [rows EXCEPT ![k].revoked = TRUE]
      <4> DEFINE new == [rows[k] EXCEPT !.revoked = TRUE]
      <4>1. new \in Row /\ new.permissions = rows[k].permissions
                        /\ new.createdBy = rows[k].createdBy
        BY <2>1 DEF Row
      <4>2. rows' = [rows EXCEPT ![k] = new]
        BY <3>1, Zenon
      <4> QED
        BY <4>1, <4>2, Zenon
    <3>2. CASE rows' = [rows EXCEPT ![k].expired = TRUE]
      <4> DEFINE new == [rows[k] EXCEPT !.expired = TRUE]
      <4>1. new \in Row /\ new.permissions = rows[k].permissions
                        /\ new.createdBy = rows[k].createdBy
        BY <2>1 DEF Row
      <4>2. rows' = [rows EXCEPT ![k] = new]
        BY <3>2, Zenon
      <4> QED
        BY <4>1, <4>2, Zenon
    <3> QED
      BY <3>1, <3>2, Zenon
  <2> QED
    BY <2>1, <2>2 DEF Created
<1>2. \A q \in Requests : principals'[q] = NoKey \/ principals'[q] = principals[q]
  BY DEF Answer, KeysTypeOK
<1>3. KeysTypeOK'
  BY <1>1 DEF KeysTypeOK, Answer
<1>4. PrincipalsAsStored' /\ CreatorsAreStored'
  BY <1>1, <1>2 DEF PrincipalsAsStored, CreatorsAreStored
<1>5. GrantsWithinCreators'
  BY <1>1 DEF GrantsWithinCreators, CreatorsAreStored
<1> QED
  BY <1>3, <1>4, <1>5

LEMMA KeysInvInit == KeysInit => KeysInv
  BY DEF KeysInit, KeysInv, KeysTypeOK, PrincipalsAsStored, CreatorsAreStored,
         GrantsWithinCreators, Created

LEMMA KeysInvNext == KeysInv /\ [KeysNext]_keyVars => KeysInv'
<1> SUFFICES ASSUME KeysInv, [KeysNext]_keyVars PROVE KeysInv'
  OBVIOUS
<1> USE ApiKeysAssumption
<1>1. CASE Seed
  <2>1. PICK k \in Keys \ Created :
           Insert(k, [permissions |-> Permissions, createdBy |-> NoKey,
                      expires |-> FALSE, expired |-> FALSE, revoked |-> FALSE])
    BY <1>1 DEF Seed
  <2> DEFINE row == [permissions |-> Permissions, createdBy |-> NoKey,
                     expires |-> FALSE, expired |-> FALSE, revoked |-> FALSE]
  <2>2. row \in Row /\ row.createdBy = NoKey /\ UNCHANGED principals
    BY <1>1 DEF Row, Seed
  <2> HIDE DEF row
  <2> QED
    BY <2>1, <2>2, InsertKeepsInv DEF row
<1>2. ASSUME NEW q \in Requests, Authenticate(q) PROVE KeysInv'
  <2>1. PICK k \in Created : principals' = [principals EXCEPT
                   ![q] = [subjectId |-> k, permissions |-> rows[k].permissions]]
    BY <1>2 DEF Authenticate, Working
  <2>2. k \in Keys /\ rows[k].permissions \in SUBSET Permissions
    BY DEF KeysInv, KeysTypeOK, Row
  <2>3. UNCHANGED rows /\ UNCHANGED Created
    BY <1>2 DEF Authenticate, Created
  <2>4. KeysTypeOK'
    BY <2>1, <2>2, <2>3 DEF KeysInv, KeysTypeOK
  <2>5. PrincipalsAsStored'
    BY <2>1, <2>2, <2>3 DEF KeysInv, KeysTypeOK, PrincipalsAsStored
  <2> QED
    BY <2>3, <2>4, <2>5 DEF KeysInv, CreatorsAreStored, GrantsWithinCreators
<1>3. ASSUME NEW q \in Requests, Create(q) PROVE KeysInv'
  <2>1. PICK k \in Keys \ Created, expires \in BOOLEAN,
             requested \in Grantable(principals[q].permissions) :
           Insert(k, [permissions |-> requested, createdBy |-> principals[q].subjectId,
                      expires |-> expires, expired |-> FALSE, revoked |-> FALSE])
    BY <1>3 DEF Create
  <2> DEFINE row == [permissions |-> requested, createdBy |-> principals[q].subjectId,
                     expires |-> expires, expired |-> FALSE, revoked |-> FALSE]
  <2>2. principals[q] # NoKey
    BY <1>3 DEF Create, Authorized
  <2>3. /\ principals[q].subjectId \in Created
        /\ principals[q].permissions = rows[principals[q].subjectId].permissions
    BY <2>2 DEF KeysInv, PrincipalsAsStored
  <2>4. requested \in SUBSET Permissions /\ requested \subseteq principals[q].permissions
    BY DEF Grantable
  <2>5. /\ row \in Row
        /\ row.createdBy \in Created
        /\ row.permissions \subseteq rows[row.createdBy].permissions
    BY <2>3, <2>4 DEF Row, KeysInv, KeysTypeOK
  <2>6. Answer(q)
    BY <1>3 DEF Create
  <2> HIDE DEF row
  <2> QED
    BY <2>1, <2>5, <2>6, InsertKeepsInv DEF row
<1>4. ASSUME NEW q \in Requests, Revoke(q) PROVE KeysInv'
  BY <1>4, MarkKeepsInv DEF Revoke, Revocable
<1>5. ASSUME NEW q \in Requests, AnswerOnly(q) PROVE KeysInv'
  <2>1. UNCHANGED rows /\ UNCHANGED Created
    BY <1>5 DEF AnswerOnly, Created
  <2>2. \A r \in Requests : principals'[r] = NoKey \/ principals'[r] = principals[r]
    BY <1>5 DEF AnswerOnly, Answer, KeysInv, KeysTypeOK
  <2>3. KeysTypeOK'
    BY <1>5, <2>1 DEF AnswerOnly, Answer, KeysInv, KeysTypeOK
  <2> QED
    BY <2>1, <2>2, <2>3 DEF KeysInv, PrincipalsAsStored, CreatorsAreStored, GrantsWithinCreators
<1>6. ASSUME NEW k \in Keys, Expire(k) PROVE KeysInv'
  BY <1>6, MarkKeepsInv DEF Expire
<1>7. CASE UNCHANGED keyVars
  BY <1>7 DEF keyVars, KeysInv, KeysTypeOK, PrincipalsAsStored, CreatorsAreStored,
              GrantsWithinCreators, Created
<1> QED
  BY <1>1, <1>2, <1>3, <1>4, <1>5, <1>6, <1>7 DEF KeysNext

LEMMA KeysInvAlways == KeysSpec => []KeysInv
<1> QED
  BY KeysInvInit, KeysInvNext, PTL DEF KeysSpec

\* Whatever the seed command, the requests and time do, a key has no permission that
\* its creator does not have, and so none that a seeded key does not have.
THEOREM GrantsStayWithin == KeysSpec => []GrantsWithinCreators
<1>1. KeysInv => GrantsWithinCreators
  BY DEF KeysInv
<1> QED
  BY <1>1, KeysInvAlways, PTL

-------------------------------------------------------------------------------

\* Only a revocation or an expiry takes a key that manages keys away.
LEMMA OthersKeepManagers ==
    ASSUME KeysInv, NEW k \in Keys, CanManage(k), k \in Created', rows'[k] = rows[k]
    PROVE  CanManage(k)'
  BY DEF CanManage, Working

LEMMA StepsAsideOnly == KeysInv /\ [KeysNext]_keyVars => [LastManagerStepsOnlyAside]_keyVars
<1> SUFFICES ASSUME KeysInv, KeysNext,
                    \E k \in Keys : CanManage(k), ~\E k \in Keys : CanManage(k)'
             PROVE  \/ \E k \in Created : rows'[k].expired /\ ~rows[k].expired
                    \/ \E q \in Requests : /\ principals[q] # NoKey
                                           /\ principals'[q] = NoKey
                                           /\ \/ ~Working(principals[q].subjectId)
                                              \/ rows'[principals[q].subjectId].revoked
  BY DEF LastManagerStepsOnlyAside, Answered
<1> PICK m \in Keys : CanManage(m)
  OBVIOUS
<1>0. m \in Created
  BY DEF CanManage, Working
<1> USE ApiKeysAssumption
<1>1. CASE Seed
  <2>1. PICK k \in Keys \ Created :
           Insert(k, [permissions |-> Permissions, createdBy |-> NoKey,
                      expires |-> FALSE, expired |-> FALSE, revoked |-> FALSE])
    BY <1>1 DEF Seed
  <2>2. m \in Created' /\ rows'[m] = rows[m]
    BY <1>0, <2>1 DEF Insert, Created
  <2> QED
    BY <2>2, OthersKeepManagers
<1>2. ASSUME NEW q \in Requests, Create(q) PROVE FALSE
  <2>1. PICK k \in Keys \ Created, expires \in BOOLEAN,
             requested \in Grantable(principals[q].permissions) :
           Insert(k, [permissions |-> requested, createdBy |-> principals[q].subjectId,
                      expires |-> expires, expired |-> FALSE, revoked |-> FALSE])
    BY <1>2 DEF Create
  <2>2. m \in Created' /\ rows'[m] = rows[m]
    BY <1>0, <2>1 DEF Insert, Created
  <2> QED
    BY <2>2, OthersKeepManagers
<1>3. ASSUME NEW q \in Requests, Authenticate(q) \/ AnswerOnly(q) PROVE FALSE
  <2>1. m \in Created' /\ rows'[m] = rows[m]
    BY <1>0, <1>3 DEF Authenticate, AnswerOnly, Created
  <2> QED
    BY <2>1, OthersKeepManagers
<1>4. ASSUME NEW q \in Requests, Revoke(q), Working(principals[q].subjectId),
             ~rows'[principals[q].subjectId].revoked
      PROVE  FALSE
  \* The key of the request itself is left, and it manages keys.
  <2>0. PICK own \in Created : /\ own = principals[q].subjectId
                               /\ principals[q].permissions = rows[own].permissions
    BY <1>4 DEF Revoke, Authorized, KeysInv, PrincipalsAsStored
  <2>1. PICK k \in Created : k # own /\ rows' = [rows EXCEPT ![k].revoked = TRUE]
    <3>1. PICK k \in Created : rows' = [rows EXCEPT ![k].revoked = TRUE]
      BY <1>4 DEF Revoke, Revocable
    <3>2. rows[k] \in Row
      BY DEF KeysInv, KeysTypeOK
    <3>3. rows'[k].revoked
      BY <3>1, <3>2 DEF KeysInv, KeysTypeOK, Row
    <3> QED
      BY <1>4, <2>0, <3>1, <3>3
  <2>2. own \in Created /\ principals[q].permissions = rows[own].permissions
    BY <2>0
  <2>3. own \in Keys /\ CanManage(own)
    BY <1>4, <2>0 DEF CanManage, Revoke, Authorized, KeysInv, KeysTypeOK
  <2>4. own \in Created' /\ rows'[own] = rows[own]
    BY <2>1, <2>2 DEF KeysInv, KeysTypeOK, Created
  <2>5. CanManage(own)'
    BY <2>3, <2>4, OthersKeepManagers
  <2> QED
    BY <2>3, <2>5
<1>5. ASSUME NEW q \in Requests, Revoke(q)
      PROVE  /\ principals[q] # NoKey
             /\ principals'[q] = NoKey
  BY <1>5 DEF Revoke, Authorized, Answer, KeysInv, KeysTypeOK
<1>6. ASSUME NEW k \in Keys, Expire(k)
      PROVE  k \in Created /\ rows'[k].expired /\ ~rows[k].expired
  BY <1>6 DEF Expire, KeysInv, KeysTypeOK, Row
<1> QED
  BY <1>1, <1>2, <1>3, <1>4, <1>5, <1>6 DEF KeysNext

\* A project never loses its last key that can manage keys, but to an expiry, to a
\* request that authenticated with a key which has been revoked or has expired since,
\* or to a request that revokes the key it came with.
THEOREM ManagersRemain == KeysSpec => ManagerStepsOnlyAside
<1> QED
  BY KeysInvAlways, StepsAsideOnly, PTL DEF KeysSpec, ManagerStepsOnlyAside

-----------------------------------------------------------------------------
(***************************************************************************)
(* The artifact store: any artifacts, any number of uploads and garbage    *)
(* collections, and any retention.                                         *)
(***************************************************************************)

\* The upload has put this chunk, or found it.
HasPut(u, c) == /\ uploads[u].artifact # NoArtifact
                /\ c \in ChunksOf[uploads[u].artifact] \ uploads[u].todo

\* By now the oldest chunk of the upload is so old that the age will say so.
TooOld(u) == uploads[u].oldest + Retention < instant

\* The chunks an upload has put are still there, with the LastModified it saw or a
\* later one, or deleted by a collection that had listed a former object.
UploadSafe(u) ==
    /\ uploads[u].oldest <= instant
    /\ \A c \in Chunks : HasPut(u, c) =>
          (Stored(c) /\ uploads[u].oldest <= written[c]) \/ TooOld(u) \/ c \in lost

\* A manifest that a scan may miss was finalized after its start: on chunks that are
\* still as they were then, or on one of them that was too old.
ScanSafe(g) ==
    scans[g].at = "manifests" =>
        /\ scans[g].since <= instant /\ instant <= scans[g].since + ScanTime
        /\ \A a \in manifests \ scans[g].listed : \A c \in ChunksOf[a] :
              \/ Stored(c) /\ scans[g].since <= age[a] + written[c]
              \/ Retention < age[a] + ScanTime
              \/ c \in lost

\* A candidate that was not put again has outlived the retention, or is gone; no young
\* artifact names it, and none that an upload is about to finalize.
CandidatesSafe(g) ==
    scans[g].at = "deleting" =>
        \A c \in scans[g].candidates \ renewed[g] :
            /\ Stored(c) => written[c] + Retention < instant
            /\ \A a \in manifests : c \in ChunksOf[a] => Retention < age[a] + ScanTime
            /\ \A u \in Uploaders : HasPut(u, c) => TooOld(u)

LostAreAbsent == \A c \in lost : ~Stored(c)

StoreInv ==
    /\ StoreTypeOK
    /\ YoungArtifactsSurvive
    /\ LostAreAbsent
    /\ \A u \in Uploaders : UploadSafe(u)
    /\ \A g \in Collectors : ScanSafe(g) /\ CandidatesSafe(g)

USE DEF Stored, Absent

LEMMA StoreInvInit == StoreInit => StoreInv
<1> SUFFICES ASSUME StoreInit PROVE StoreInv
  OBVIOUS
<1>1. StoreTypeOK
  BY StoreAssumption DEF StoreInit, StoreTypeOK, Upload, NoUpload, Scan, NoScan
<1>2. YoungArtifactsSurvive /\ LostAreAbsent
  BY DEF StoreInit, YoungArtifactsSurvive, LostAreAbsent
<1>3. \A u \in Uploaders : UploadSafe(u)
  BY DEF StoreInit, UploadSafe, HasPut, NoUpload
<1>4. \A g \in Collectors : ScanSafe(g) /\ CandidatesSafe(g)
  BY DEF StoreInit, ScanSafe, CandidatesSafe, NoScan
<1> QED
  BY <1>1, <1>2, <1>3, <1>4 DEF StoreInv

\* What the type invariant says of the numbers that are compared.
LEMMA Numbers ==
    ASSUME StoreTypeOK
    PROVE  /\ instant \in Nat \ {0} /\ Retention \in Nat /\ ScanTime \in Nat /\ MaxTime \in Nat
           /\ \A c \in Chunks : written[c] \in Nat /\ written[c] <= instant
           /\ \A u \in Uploaders : uploads[u] \in Upload /\ uploads[u].oldest \in Nat
           /\ \A g \in Collectors : scans[g] \in Scan /\ scans[g].since \in Nat
           /\ \A a \in Artifacts : age[a] \in Nat /\ ChunksOf[a] \in SUBSET Chunks
BY StoreAssumption DEF StoreTypeOK, Upload, Scan

\* A step that leaves the chunks, the manifests and the clock alone and with which no
\* upload has put more than before, none with an older chunk.
LEMMA UploadsShrink ==
    ASSUME StoreInv, UNCHANGED <<instant, written, manifests, scans, history>>,
           \A u \in Uploaders : \/ uploads'[u] = uploads[u]
                                 \/ /\ uploads'[u].oldest <= instant
                                    /\ \A c \in Chunks : ~HasPut(u, c)'
    PROVE  /\ YoungArtifactsSurvive' /\ LostAreAbsent'
           /\ \A u \in Uploaders : UploadSafe(u)'
           /\ \A g \in Collectors : ScanSafe(g)' /\ CandidatesSafe(g)'
<1>1. YoungArtifactsSurvive' /\ LostAreAbsent'
  BY DEF StoreInv, YoungArtifactsSurvive, LostAreAbsent, history
<1>2. ASSUME NEW u \in Uploaders PROVE UploadSafe(u)'
  BY <1>2 DEF StoreInv, UploadSafe, HasPut, TooOld, history
<1>3. ASSUME NEW g \in Collectors PROVE ScanSafe(g)' /\ CandidatesSafe(g)'
  <2>1. ScanSafe(g)'
    BY <1>3 DEF StoreInv, ScanSafe, history
  <2>2. \A u \in Uploaders, c \in Chunks : HasPut(u, c)' => HasPut(u, c) /\ uploads'[u] = uploads[u]
    BY DEF HasPut
  <2>3. scans[g].candidates \subseteq Chunks
    BY DEF StoreInv, StoreTypeOK, Scan
  <2>4. CandidatesSafe(g)'
    BY <1>3, <2>2, <2>3 DEF StoreInv, CandidatesSafe, TooOld, history
  <2> QED
    BY <2>1, <2>4
<1> QED
  BY <1>1, <1>2, <1>3

\* A step of a collection that deletes nothing.
LEMMA ScansOnly ==
    ASSUME StoreInv, UNCHANGED <<instant, written, manifests, uploads, age, lost>>
    PROVE  /\ YoungArtifactsSurvive' /\ LostAreAbsent'
           /\ \A u \in Uploaders : UploadSafe(u)'
           /\ \A u \in Uploaders, c \in Chunks : HasPut(u, c)' = HasPut(u, c) /\ TooOld(u)' = TooOld(u)
           /\ \A g \in Collectors : scans'[g] = scans[g] /\ renewed'[g] = renewed[g] =>
                                        ScanSafe(g)' /\ CandidatesSafe(g)'
<1>1. YoungArtifactsSurvive' /\ LostAreAbsent'
  BY DEF StoreInv, YoungArtifactsSurvive, LostAreAbsent
<1>2. \A u \in Uploaders : UploadSafe(u)'
  BY DEF StoreInv, UploadSafe, HasPut, TooOld
<1>3. \A u \in Uploaders, c \in Chunks : HasPut(u, c)' = HasPut(u, c) /\ TooOld(u)' = TooOld(u)
  BY DEF HasPut, TooOld
<1>4. ASSUME NEW g \in Collectors, scans'[g] = scans[g], renewed'[g] = renewed[g]
      PROVE  ScanSafe(g)' /\ CandidatesSafe(g)'
  <2>1. scans[g].candidates \subseteq Chunks
    BY DEF StoreInv, StoreTypeOK, Scan
  <2> QED
    BY <1>3, <1>4, <2>1 DEF StoreInv, ScanSafe, CandidatesSafe
<1> QED
  BY <1>1, <1>2, <1>3, <1>4

-----------------------------------------------------------------------------
(* The steps of an upload.                                                 *)

LEMMA BeginKeepsInv ==
    ASSUME StoreInv, NEW u \in Uploaders, NEW a \in Artifacts, BeginUpload(u, a)
    PROVE  StoreInv'
<1> DEFINE new == [artifact |-> a, todo |-> ChunksOf[a], oldest |-> instant]
<1>1. /\ uploads' = [uploads EXCEPT ![u] = new]
      /\ UNCHANGED <<instant, written, manifests, scans, history>>
  BY DEF BeginUpload
<1>2. StoreTypeOK
  BY DEF StoreInv
<1>3. new \in Upload /\ new.oldest <= instant
  BY <1>2, Numbers DEF Upload
<1>4. StoreTypeOK'
  BY <1>1, <1>2, <1>3 DEF StoreTypeOK, history
<1>5. \A v \in Uploaders : uploads'[v] = uploads[v] \/ (v = u /\ uploads'[u] = new)
  BY <1>1, <1>2 DEF StoreTypeOK
<1>6. \A v \in Uploaders : \/ uploads'[v] = uploads[v]
                            \/ /\ uploads'[v].oldest <= instant
                               /\ \A c \in Chunks : ~HasPut(v, c)'
  BY <1>3, <1>5 DEF HasPut
<1> QED
  BY <1>1, <1>4, <1>6, UploadsShrink DEF StoreInv

LEMMA FailKeepsInv ==
    ASSUME StoreInv, NEW u \in Uploaders, FailUpload(u)
    PROVE  StoreInv'
<1>1. /\ uploads' = [uploads EXCEPT ![u] = NoUpload]
      /\ UNCHANGED <<instant, written, manifests, scans, history>>
  BY DEF FailUpload
<1>2. StoreTypeOK
  BY DEF StoreInv
<1>3. StoreTypeOK'
  BY <1>1, <1>2 DEF StoreTypeOK, Upload, NoUpload, history
<1>4. \A v \in Uploaders : \/ uploads'[v] = uploads[v]
                            \/ /\ uploads'[v].oldest <= instant
                               /\ \A c \in Chunks : ~HasPut(v, c)'
  BY <1>1, <1>2, Numbers DEF StoreTypeOK, HasPut, NoUpload
<1> QED
  BY <1>1, <1>3, <1>4, UploadsShrink DEF StoreInv

LEMMA PutKeepsInv ==
    ASSUME StoreInv, NEW u \in Uploaders, NEW c \in Chunks, PutChunk(u, c)
    PROVE  StoreInv'
<1> DEFINE old == uploads[u].oldest
<1>1. /\ written' = [written EXCEPT ![c] = AfterPut(c)]
      /\ uploads' = [uploads EXCEPT ![u].todo = @ \ {c},
                            ![u].oldest = IF AfterPut(c) < @ THEN AfterPut(c) ELSE @]
      /\ renewed' = IF Stored(c) THEN renewed
                    ELSE [g \in Collectors |->
                            renewed[g] \union ({c} \intersect scans[g].candidates)]
      /\ lost' = lost \ {c}
      /\ UNCHANGED <<instant, manifests, scans, age>>
  BY DEF PutChunk
<1>2. StoreTypeOK
  BY DEF StoreInv
<1>3. /\ AfterPut(c) \in Nat \ {0} /\ AfterPut(c) <= instant
      /\ Stored(c) => AfterPut(c) = written[c]
  BY <1>2, Numbers DEF AfterPut
<1>4. /\ \A d \in Chunks : Stored(d) => written'[d] = written[d] /\ Stored(d)'
      /\ \A d \in Chunks : written'[d] \in Nat /\ written'[d] <= instant
      /\ written'[c] = AfterPut(c)
      /\ written' \in [Chunks -> 0..instant]
  BY <1>1, <1>2, <1>3, Numbers DEF StoreTypeOK
<1>5. /\ uploads'[u].artifact = uploads[u].artifact
      /\ uploads'[u].todo = uploads[u].todo \ {c}
      /\ uploads'[u].oldest \in Nat
      /\ uploads'[u].oldest <= old /\ uploads'[u].oldest <= AfterPut(c)
      /\ \A v \in Uploaders : v # u => uploads'[v] = uploads[v]
      /\ uploads' \in [Uploaders -> Upload]
  <2>1. /\ uploads[u] \in Upload /\ old \in Nat
    BY <1>2, <1>3, Numbers
  <2> DEFINE put    == [uploads[u] EXCEPT !.todo = uploads[u].todo \ {c}]
             oldest == IF AfterPut(c) < old THEN AfterPut(c) ELSE old
             new    == [put EXCEPT !.oldest = oldest]
  <2>2. /\ put \in Upload /\ put.artifact = uploads[u].artifact
        /\ put.todo = uploads[u].todo \ {c} /\ put.oldest = old
    BY <2>1 DEF Upload
  <2>3. uploads' = [uploads EXCEPT ![u] = new]
    BY <1>1
  <2>4. oldest \in Nat /\ oldest <= old /\ oldest <= AfterPut(c)
    BY <1>3, <2>1
  <2> HIDE DEF put, oldest
  <2>5. /\ new \in Upload /\ new.artifact = uploads[u].artifact
        /\ new.todo = uploads[u].todo \ {c} /\ new.oldest = oldest
    BY <2>2, <2>4 DEF Upload
  <2> HIDE DEF new
  <2>6. /\ uploads'[u] = new /\ \A v \in Uploaders : v # u => uploads'[v] = uploads[v]
        /\ uploads' \in [Uploaders -> Upload]
    BY <1>2, <2>3, <2>5 DEF StoreTypeOK
  <2> QED
    BY <2>4, <2>5, <2>6
<1>6. StoreTypeOK'
  <2>1. renewed' \in [Collectors -> SUBSET Chunks] /\ lost' \subseteq Chunks
    BY <1>1, <1>2 DEF StoreTypeOK
  <2> QED
    BY <1>1, <1>2, <1>4, <1>5, <2>1 DEF StoreTypeOK
<1>7. YoungArtifactsSurvive' /\ LostAreAbsent'
  <2>1. \A d \in Chunks : Stored(d) \/ d \in lost => Stored(d)' \/ d \in lost'
    BY <1>1, <1>3, <1>4
  <2>2. YoungArtifactsSurvive'
    BY <1>1, <1>2, <2>1, Numbers DEF StoreInv, YoungArtifactsSurvive, StoreTypeOK
  <2>3. \A d \in Chunks : d # c => written'[d] = written[d]
    BY <1>1, <1>2 DEF StoreTypeOK
  <2>4. LostAreAbsent'
    BY <1>1, <1>2, <2>3 DEF StoreInv, LostAreAbsent, StoreTypeOK
  <2> QED
    BY <2>2, <2>4
<1>8. ASSUME NEW v \in Uploaders
      PROVE  /\ uploads'[v].oldest \in Nat /\ uploads'[v].oldest <= uploads[v].oldest
             /\ \A d \in Chunks : HasPut(v, d)' => HasPut(v, d) \/ (v = u /\ d = c)
             /\ TooOld(v) => TooOld(v)'
  <2>1. uploads[v].oldest \in Nat /\ uploads'[v].oldest \in Nat
        /\ uploads'[v].oldest <= uploads[v].oldest
    BY <1>2, <1>5, Numbers
  <2>2. \A d \in Chunks : HasPut(v, d)' => HasPut(v, d) \/ (v = u /\ d = c)
    BY <1>5 DEF HasPut
  <2>3. TooOld(v) => TooOld(v)'
    BY <1>1, <1>2, <2>1, Numbers DEF TooOld
  <2> QED
    BY <2>1, <2>2, <2>3
<1>9. ASSUME NEW v \in Uploaders PROVE UploadSafe(v)'
  <2>1. UploadSafe(v)
    BY DEF StoreInv
  <2>2. uploads'[v].oldest <= instant
    BY <1>2, <1>8, <2>1, Numbers DEF UploadSafe
  <2>3. ASSUME NEW d \in Chunks, HasPut(v, d)'
        PROVE  \/ Stored(d)' /\ uploads'[v].oldest <= written'[d]
               \/ TooOld(v)' \/ d \in lost'
    <3>1. CASE d = c /\ v = u
      BY <1>3, <1>4, <1>5, <3>1
    <3>2. CASE HasPut(v, d)
      <4>1. (Stored(d) /\ uploads[v].oldest <= written[d]) \/ TooOld(v) \/ d \in lost
        BY <2>1, <3>2 DEF UploadSafe
      <4>2. CASE Stored(d) /\ uploads[v].oldest <= written[d]
        BY <1>2, <1>4, <1>8, <4>2, Numbers
      <4>3. CASE TooOld(v)
        BY <1>8, <4>3
      <4>4. CASE d \in lost /\ d # c
        BY <1>1, <4>4
      <4>5. CASE d \in lost /\ d = c
        <5>1. written'[c] = instant /\ instant # 0
          BY <1>2, <1>4, <4>5, Numbers DEF StoreInv, LostAreAbsent, AfterPut
        <5> QED
          BY <2>2, <4>5, <5>1
      <4> QED
        BY <4>1, <4>2, <4>3, <4>4, <4>5
    <3> QED
      BY <1>8, <2>3, <3>1, <3>2
  <2> QED
    BY <1>1, <2>2, <2>3 DEF UploadSafe
<1>10. ASSUME NEW g \in Collectors PROVE ScanSafe(g)'
  <2> SUFFICES ASSUME scans[g].at = "manifests",
                      NEW a \in manifests \ scans[g].listed, NEW d \in ChunksOf[a]
               PROVE  \/ Stored(d)' /\ scans[g].since <= age[a] + written'[d]
                      \/ Retention < age[a] + ScanTime \/ d \in lost'
    BY <1>1 DEF StoreInv, ScanSafe
  <2>1. a \in Artifacts /\ d \in Chunks
    BY <1>2, StoreAssumption DEF StoreTypeOK
  <2>2. /\ scans[g].since <= instant
        /\ \/ Stored(d) /\ scans[g].since <= age[a] + written[d]
           \/ Retention < age[a] + ScanTime \/ d \in lost
    BY DEF StoreInv, ScanSafe
  <2>3. CASE d \in lost /\ d = c
    <3>1. written'[d] = instant /\ instant \in Nat \ {0} /\ age[a] \in Nat
          /\ scans[g].since \in Nat
      BY <1>2, <1>4, <2>1, <2>3, Numbers DEF StoreInv, LostAreAbsent, AfterPut
    <3> QED
      BY <2>2, <3>1
  <2> QED
    BY <1>1, <1>4, <2>1, <2>2, <2>3
<1>11. ASSUME NEW g \in Collectors PROVE CandidatesSafe(g)'
  <2> SUFFICES ASSUME scans[g].at = "deleting", NEW d \in scans[g].candidates \ renewed'[g]
               PROVE  /\ Stored(d)' => written'[d] + Retention < instant
                      /\ \A a \in manifests : d \in ChunksOf[a] => Retention < age[a] + ScanTime
                      /\ \A v \in Uploaders : HasPut(v, d)' => TooOld(v)'
    BY <1>1 DEF CandidatesSafe
  <2>1. d \in Chunks /\ d \notin renewed[g] /\ (d = c => Stored(c))
    BY <1>1, <1>2 DEF StoreTypeOK, Scan
  <2>2. /\ Stored(d) => written[d] + Retention < instant
        /\ \A a \in manifests : d \in ChunksOf[a] => Retention < age[a] + ScanTime
        /\ \A v \in Uploaders : HasPut(v, d) => TooOld(v)
    BY <2>1 DEF StoreInv, CandidatesSafe
  <2>3. written'[d] = written[d]
    BY <1>1, <1>2, <1>4, <2>1 DEF StoreTypeOK
  <2>4. ASSUME NEW v \in Uploaders, HasPut(v, d)' PROVE TooOld(v)'
    <3>1. CASE HasPut(v, d)
      BY <1>8, <2>2, <3>1
    <3>2. CASE v = u /\ d = c
      <4>1. /\ written[c] + Retention < instant /\ uploads'[v].oldest <= written[c]
            /\ uploads'[v].oldest \in Nat
        BY <1>3, <1>5, <2>1, <2>2, <3>2
      <4> QED
        BY <1>1, <1>2, <4>1, Numbers DEF TooOld
    <3> QED
      BY <1>8, <2>1, <2>4, <3>1, <3>2
  <2> QED
    BY <2>2, <2>3, <2>4
<1> QED
  BY <1>6, <1>7, <1>9, <1>10, <1>11 DEF StoreInv

LEMMA FinalizeKeepsInv ==
    ASSUME StoreInv, NEW u \in Uploaders, Finalize(u)
    PROVE  StoreInv'
<1> DEFINE a   == uploads[u].artifact
           old == instant - uploads[u].oldest
<1>1. /\ a # NoArtifact /\ uploads[u].todo = {}
      /\ manifests' = manifests \union {a}
      /\ age' = IF a \in manifests THEN age ELSE [age EXCEPT ![a] = old]
      /\ uploads' = [uploads EXCEPT ![u] = NoUpload]
      /\ UNCHANGED <<instant, written, scans, renewed, lost>>
  BY DEF Finalize
<1>2. StoreTypeOK /\ UploadSafe(u)
  BY DEF StoreInv
<1>3. a \in Artifacts /\ uploads[u].oldest \in Nat /\ uploads[u].oldest <= instant /\ old \in Nat
  BY <1>1, <1>2, Numbers DEF UploadSafe, Upload
<1>4. \A c \in ChunksOf[a] :
         /\ HasPut(u, c)
         /\ \/ Stored(c) /\ uploads[u].oldest <= written[c]
            \/ uploads[u].oldest + Retention < instant
            \/ c \in lost
  <2>1. ChunksOf[a] \subseteq Chunks
    BY <1>3, StoreAssumption
  <2> QED
    BY <1>1, <1>2, <2>1 DEF UploadSafe, HasPut, TooOld
<1>5. /\ \A b \in manifests : age'[b] = age[b]
      /\ a \notin manifests => age'[a] = old
      /\ age' \in [Artifacts -> Nat]
  BY <1>1, <1>2, <1>3 DEF StoreTypeOK
<1>6. \A v \in Uploaders : uploads'[v] = uploads[v] \/ uploads'[v] = NoUpload
  BY <1>1, <1>2 DEF StoreTypeOK
<1>7. StoreTypeOK'
  BY <1>1, <1>2, <1>3, <1>5 DEF StoreTypeOK, Upload, NoUpload
<1>8. YoungArtifactsSurvive'
  <2> SUFFICES ASSUME NEW b \in manifests', age'[b] + ScanTime <= Retention, NEW c \in ChunksOf[b]
               PROVE  Stored(c) \/ c \in lost
    BY <1>1 DEF YoungArtifactsSurvive
  <2>1. CASE b \in manifests
    BY <1>1, <1>5, <2>1 DEF StoreInv, YoungArtifactsSurvive
  <2>2. CASE b \notin manifests
    <3>1. b = a /\ age'[b] = old
      BY <1>1, <1>5, <2>2
    <3>2. ~(uploads[u].oldest + Retention < instant)
      BY <1>2, <1>3, <3>1, Numbers
    <3> QED
      BY <1>4, <3>1, <3>2
  <2> QED
    BY <2>1, <2>2
<1>9. \A v \in Uploaders : UploadSafe(v)'
  BY <1>1, <1>2, <1>6, Numbers DEF StoreInv, UploadSafe, HasPut, TooOld, NoUpload
<1>10. \A g \in Collectors : ScanSafe(g)'
  <2> SUFFICES ASSUME NEW g \in Collectors, scans[g].at = "manifests" PROVE ScanSafe(g)'
    BY <1>1 DEF ScanSafe
  <2>1. ScanSafe(g)
    BY DEF StoreInv
  <2>2. scans[g].since <= instant
    BY <2>1 DEF ScanSafe
  <2>3. ASSUME NEW b \in manifests' \ scans[g].listed, NEW c \in ChunksOf[b]
        PROVE  \/ Stored(c) /\ scans[g].since <= age'[b] + written[c]
               \/ Retention < age'[b] + ScanTime \/ c \in lost
    <3>1. CASE b \in manifests
      BY <1>5, <2>1, <2>3, <3>1 DEF ScanSafe
    <3>2. CASE b \notin manifests
      <4>1. b = a /\ age'[b] = instant - uploads[u].oldest
        BY <1>1, <1>5, <2>3, <3>2
      <4>2. c \in Chunks /\ written[c] \in Nat /\ scans[g].since \in Nat /\ instant \in Nat
        BY <1>2, <1>3, <2>3, <4>1, Numbers
      <4>3. Retention \in Nat /\ ScanTime \in Nat
        BY StoreAssumption
      <4> QED
        BY <1>3, <1>4, <2>2, <2>3, <4>1, <4>2, <4>3
    <3> QED
      BY <3>1, <3>2
  <2> QED
    BY <1>1, <2>1, <2>3 DEF ScanSafe
<1>11. \A g \in Collectors : CandidatesSafe(g)'
  <2> SUFFICES ASSUME NEW g \in Collectors, scans[g].at = "deleting",
                      NEW c \in scans[g].candidates \ renewed[g]
               PROVE  /\ \A b \in manifests' : c \in ChunksOf[b] => Retention < age'[b] + ScanTime
                      /\ \A v \in Uploaders : HasPut(v, c)' => TooOld(v)'
    BY <1>1 DEF StoreInv, CandidatesSafe
  <2>1. /\ \A b \in manifests : c \in ChunksOf[b] => Retention < age[b] + ScanTime
        /\ \A v \in Uploaders : HasPut(v, c) => TooOld(v)
    BY DEF StoreInv, CandidatesSafe
  <2>2. ASSUME NEW b \in manifests', c \in ChunksOf[b] PROVE Retention < age'[b] + ScanTime
    <3>1. CASE b \in manifests
      BY <1>5, <2>1, <2>2, <3>1
    <3>2. CASE b \notin manifests
      <4>1. b = a /\ age'[b] = instant - uploads[u].oldest
        BY <1>1, <1>5, <2>2, <3>2
      <4>2. uploads[u].oldest + Retention < instant
        BY <1>4, <2>1, <2>2, <4>1 DEF TooOld
      <4>3. instant \in Nat /\ Retention \in Nat /\ ScanTime \in Nat
        BY <1>2, Numbers
      <4> QED
        BY <1>3, <4>1, <4>2, <4>3
    <3> QED
      BY <3>1, <3>2
  <2>3. ASSUME NEW v \in Uploaders, HasPut(v, c)' PROVE TooOld(v)'
    BY <1>1, <1>6, <2>1, <2>3 DEF HasPut, TooOld, NoUpload
  <2> QED
    BY <2>2, <2>3
<1>12. LostAreAbsent'
  BY <1>1 DEF StoreInv, LostAreAbsent
<1> QED
  BY <1>7, <1>8, <1>9, <1>10, <1>11, <1>12 DEF StoreInv

-----------------------------------------------------------------------------
(* The steps of a collection.                                              *)

LEMMA StartKeepsInv ==
    ASSUME StoreInv, NEW g \in Collectors, StartScan(g)
    PROVE  StoreInv'
<1> DEFINE new == [NoScan EXCEPT !.at = "manifests", !.since = instant, !.listed = manifests]
<1>1. scans' = [scans EXCEPT ![g] = new] /\ UNCHANGED <<instant, written, manifests, uploads, history>>
  BY DEF StartScan
<1>2. StoreTypeOK
  BY DEF StoreInv
<1>3. /\ new \in Scan /\ new.at = "manifests" /\ new.since = instant /\ new.listed = manifests
  BY <1>2, Numbers DEF NoScan, Scan, StoreTypeOK
<1> HIDE DEF new
<1>4. StoreTypeOK'
  BY <1>1, <1>2, <1>3 DEF StoreTypeOK, history
<1>5. YoungArtifactsSurvive' /\ LostAreAbsent' /\ \A u \in Uploaders : UploadSafe(u)'
  BY <1>1, ScansOnly DEF history
<1>6. \A h \in Collectors : ScanSafe(h)' /\ CandidatesSafe(h)'
  <2> SUFFICES ASSUME NEW h \in Collectors PROVE ScanSafe(h)' /\ CandidatesSafe(h)'
    OBVIOUS
  <2>1. CASE h = g
    <3>1. scans'[h] = new
      BY <1>1, <1>2, <2>1 DEF StoreTypeOK
    <3> QED
      BY <1>1, <1>2, <1>3, <3>1, Numbers DEF ScanSafe, CandidatesSafe
  <2>2. CASE h # g
    <3>1. scans'[h] = scans[h]
      BY <1>1, <1>2, <2>2 DEF StoreTypeOK
    <3> QED
      BY <1>1, <3>1, ScansOnly DEF history
  <2> QED
    BY <2>1, <2>2
<1> QED
  BY <1>4, <1>5, <1>6 DEF StoreInv

LEMMA ReadKeepsInv ==
    ASSUME StoreInv, NEW g \in Collectors, NEW a \in Artifacts, ReadManifest(g, a)
    PROVE  StoreInv'
<1>1. /\ scans' = [scans EXCEPT ![g].read = @ \union {a}]
      /\ UNCHANGED <<instant, written, manifests, uploads, history>>
  BY DEF ReadManifest
<1>2. StoreTypeOK
  BY DEF StoreInv
<1>3. StoreTypeOK'
  BY <1>1, <1>2 DEF StoreTypeOK, Scan, history
<1>4. YoungArtifactsSurvive' /\ LostAreAbsent' /\ \A u \in Uploaders : UploadSafe(u)'
  BY <1>1, ScansOnly DEF history
<1>5. \A h \in Collectors : /\ scans'[h].at = scans[h].at /\ scans'[h].since = scans[h].since
                            /\ scans'[h].listed = scans[h].listed
                            /\ scans'[h].candidates = scans[h].candidates
  BY <1>1, <1>2 DEF StoreTypeOK, Scan
<1>6. \A h \in Collectors : ScanSafe(h)' /\ CandidatesSafe(h)'
  <2> SUFFICES ASSUME NEW h \in Collectors PROVE ScanSafe(h)' /\ CandidatesSafe(h)'
    OBVIOUS
  <2>1. scans[h].candidates \subseteq Chunks
    BY <1>2 DEF StoreTypeOK, Scan
  <2>2. \A u \in Uploaders, c \in Chunks : HasPut(u, c)' = HasPut(u, c) /\ TooOld(u)' = TooOld(u)
    BY <1>1 DEF HasPut, TooOld
  <2> QED
    BY <1>1, <1>5, <2>1, <2>2 DEF StoreInv, ScanSafe, CandidatesSafe, history
<1> QED
  BY <1>3, <1>4, <1>6 DEF StoreInv

LEMMA ListKeepsInv ==
    ASSUME StoreInv, NEW g \in Collectors, ListChunks(g)
    PROVE  StoreInv'
<1> DEFINE old == {c \in Chunks \ Reachable(g) : Stored(c) /\ OldEnough(c)}
           new == [NoScan EXCEPT !.at = "deleting", !.candidates = old]
<1>1. /\ scans[g].at = "manifests" /\ AllListed(g)
      /\ scans' = [scans EXCEPT ![g] = new]
      /\ renewed' = [renewed EXCEPT ![g] = {}]
      /\ UNCHANGED <<instant, written, manifests, uploads, age, lost>>
  BY DEF ListChunks
<1>2. StoreTypeOK
  BY DEF StoreInv
<1>3. new \in Scan /\ new.at = "deleting" /\ new.candidates = old
  BY DEF NoScan, Scan
<1> HIDE DEF new
<1>4. StoreTypeOK'
  BY <1>1, <1>2, <1>3 DEF StoreTypeOK
<1>5. YoungArtifactsSurvive' /\ LostAreAbsent' /\ \A u \in Uploaders : UploadSafe(u)'
  BY <1>1, ScansOnly
<1>6. ASSUME NEW c \in old
      PROVE  /\ written[c] + Retention < instant
             /\ \A a \in manifests : c \in ChunksOf[a] => Retention < age[a] + ScanTime
             /\ \A u \in Uploaders : HasPut(u, c) => TooOld(u)
  <2>1. c \in Chunks /\ Stored(c) /\ written[c] + Retention < instant
    BY <1>2, <1>6, Numbers DEF OldEnough
  <2>2. ASSUME NEW a \in manifests, c \in ChunksOf[a] PROVE Retention < age[a] + ScanTime
    <3>1. a \notin scans[g].read
      BY <1>6, <2>2 DEF Reachable
    <3>2. a \in manifests \ scans[g].listed
      BY <1>1, <3>1 DEF AllListed
    <3>3. /\ instant <= scans[g].since + ScanTime
          /\ scans[g].since <= age[a] + written[c] \/ Retention < age[a] + ScanTime
      BY <1>1, <2>1, <2>2, <3>2 DEF StoreInv, ScanSafe, LostAreAbsent
    <3>4. a \in Artifacts
      BY <1>2 DEF StoreTypeOK
    <3>5. /\ instant \in Nat /\ Retention \in Nat /\ ScanTime \in Nat /\ written[c] \in Nat
          /\ age[a] \in Nat /\ scans[g].since \in Nat
      BY <1>2, <2>1, <3>4, Numbers
    <3> QED
      BY <2>1, <3>3, <3>5
  <2>3. ASSUME NEW u \in Uploaders, HasPut(u, c) PROVE TooOld(u)
    <3>1. uploads[u].oldest <= written[c] \/ TooOld(u)
      BY <2>1, <2>3 DEF StoreInv, UploadSafe, LostAreAbsent
    <3>2. /\ instant \in Nat /\ Retention \in Nat /\ written[c] \in Nat
          /\ uploads[u].oldest \in Nat
      BY <1>2, <2>1, Numbers
    <3> QED
      BY <2>1, <3>1, <3>2 DEF TooOld
  <2> QED
    BY <2>1, <2>2, <2>3
<1>7. \A h \in Collectors : ScanSafe(h)' /\ CandidatesSafe(h)'
  <2> SUFFICES ASSUME NEW h \in Collectors PROVE ScanSafe(h)' /\ CandidatesSafe(h)'
    OBVIOUS
  <2>1. CASE h = g
    <3>1. scans'[h] = new
      BY <1>1, <1>2, <2>1 DEF StoreTypeOK
    <3>2. ScanSafe(h)'
      BY <1>3, <3>1 DEF ScanSafe
    <3> HIDE DEF old
    <3>3. old \subseteq Chunks
      BY DEF old
    <3>4. \A u \in Uploaders, c \in Chunks : HasPut(u, c)' = HasPut(u, c) /\ TooOld(u)' = TooOld(u)
      BY <1>1 DEF HasPut, TooOld
    <3>5. CandidatesSafe(h)'
      BY <1>1, <1>3, <1>6, <3>1, <3>3, <3>4 DEF CandidatesSafe
    <3> QED
      BY <3>2, <3>5
  <2>2. CASE h # g
    <3>1. scans'[h] = scans[h] /\ renewed'[h] = renewed[h]
      BY <1>1, <1>2, <2>2 DEF StoreTypeOK
    <3> QED
      BY <1>1, <3>1, ScansOnly
  <2> QED
    BY <2>1, <2>2
<1> QED
  BY <1>4, <1>5, <1>7 DEF StoreInv

LEMMA DeleteKeepsInv ==
    ASSUME StoreInv, NEW g \in Collectors, NEW c \in Chunks, DeleteChunk(g, c)
    PROVE  StoreInv'
<1>1. /\ scans[g].at = "deleting" /\ c \in scans[g].candidates
      /\ written' = [written EXCEPT ![c] = Absent]
      /\ scans' = [scans EXCEPT ![g].candidates = @ \ {c}]
      /\ renewed' = [renewed EXCEPT ![g] = @ \ {c}]
      /\ lost' = IF Stored(c) /\ c \in renewed[g] THEN lost \union {c} ELSE lost
      /\ UNCHANGED <<instant, manifests, uploads, age>>
  BY DEF DeleteChunk
<1>2. StoreTypeOK
  BY DEF StoreInv
\* Deleting an object that the collection had listed hurts no young artifact.
<1>3. \/ ~Stored(c)
      \/ c \in lost'
      \/ /\ \A a \in manifests : c \in ChunksOf[a] => Retention < age[a] + ScanTime
         /\ \A u \in Uploaders : HasPut(u, c) => TooOld(u)
         /\ written[c] + Retention < instant
  BY <1>1 DEF StoreInv, CandidatesSafe
<1>4. /\ \A d \in Chunks : d # c => written'[d] = written[d]
      /\ written'[c] = Absent /\ lost \subseteq lost' /\ lost' \subseteq lost \union {c}
  BY <1>1, <1>2 DEF StoreTypeOK
<1>5. /\ scans'[g].at = "deleting" /\ scans'[g].candidates = scans[g].candidates \ {c}
      /\ renewed'[g] = renewed[g] \ {c}
      /\ scans' \in [Collectors -> Scan]
      /\ \A h \in Collectors : h # g => scans'[h] = scans[h] /\ renewed'[h] = renewed[h]
  BY <1>1, <1>2 DEF StoreTypeOK, Scan
<1>6. StoreTypeOK'
  BY <1>1, <1>2, <1>4, <1>5, Numbers DEF StoreTypeOK
<1>7. YoungArtifactsSurvive' /\ LostAreAbsent'
  <2>1. ASSUME NEW a \in manifests, age[a] + ScanTime <= Retention, NEW d \in ChunksOf[a]
        PROVE  Stored(d)' \/ d \in lost'
    <3>1. a \in Artifacts /\ d \in Chunks
      BY <1>2, StoreAssumption DEF StoreTypeOK
    <3>2. Stored(d) \/ d \in lost
      BY <2>1 DEF StoreInv, YoungArtifactsSurvive
    <3>3. CASE d = c
      <4>1. ~(Retention < age[a] + ScanTime)
        BY <1>2, <2>1, <3>1, Numbers
      <4> QED
        BY <1>3, <1>4, <2>1, <3>2, <3>3, <4>1
    <3> QED
      BY <1>4, <3>1, <3>2, <3>3
  <2>2. YoungArtifactsSurvive'
    BY <1>1, <2>1 DEF YoungArtifactsSurvive
  <2>3. LostAreAbsent'
    BY <1>2, <1>4 DEF StoreInv, LostAreAbsent, StoreTypeOK
  <2> QED
    BY <2>2, <2>3
<1>8. \A u \in Uploaders : UploadSafe(u)'
  <2> SUFFICES ASSUME NEW u \in Uploaders, NEW d \in Chunks, HasPut(u, d)
               PROVE  \/ Stored(d)' /\ uploads[u].oldest <= written'[d]
                      \/ TooOld(u) \/ d \in lost'
    BY <1>1 DEF StoreInv, UploadSafe, HasPut, TooOld
  <2>1. (Stored(d) /\ uploads[u].oldest <= written[d]) \/ TooOld(u) \/ d \in lost
    BY DEF StoreInv, UploadSafe
  <2> QED
    BY <1>3, <1>4, <2>1
<1>9. ASSUME NEW h \in Collectors PROVE ScanSafe(h)'
  <2> SUFFICES ASSUME scans[h].at = "manifests",
                      NEW a \in manifests \ scans[h].listed, NEW d \in ChunksOf[a]
               PROVE  \/ Stored(d)' /\ scans[h].since <= age[a] + written'[d]
                      \/ Retention < age[a] + ScanTime \/ d \in lost'
    BY <1>1, <1>5 DEF StoreInv, ScanSafe
  <2>1. a \in Artifacts /\ d \in Chunks
    BY <1>2, StoreAssumption DEF StoreTypeOK
  <2>2. /\ instant <= scans[h].since + ScanTime /\ scans[h].since <= instant
        /\ \/ Stored(d) /\ scans[h].since <= age[a] + written[d]
           \/ Retention < age[a] + ScanTime \/ d \in lost
    BY DEF StoreInv, ScanSafe
  <2> QED
    BY <1>3, <1>4, <2>1, <2>2
<1>10. ASSUME NEW h \in Collectors PROVE CandidatesSafe(h)'
  <2> SUFFICES ASSUME scans[h].at = "deleting", NEW d \in scans'[h].candidates \ renewed'[h]
               PROVE  /\ Stored(d)' => written'[d] + Retention < instant
                      /\ \A a \in manifests : d \in ChunksOf[a] => Retention < age[a] + ScanTime
                      /\ \A u \in Uploaders : HasPut(u, d) => TooOld(u)
    BY <1>1, <1>5 DEF CandidatesSafe, HasPut, TooOld
  <2>1. d \in scans[h].candidates \ renewed[h] /\ d \in Chunks
    BY <1>2, <1>5 DEF StoreTypeOK, Scan
  <2> QED
    BY <1>4, <2>1 DEF StoreInv, CandidatesSafe
<1> QED
  BY <1>6, <1>7, <1>8, <1>9, <1>10 DEF StoreInv

LEMMA StopKeepsInv ==
    ASSUME StoreInv, NEW g \in Collectors, StopScan(g)
    PROVE  StoreInv'
<1>1. /\ scans' = [scans EXCEPT ![g] = NoScan]
      /\ renewed' = [renewed EXCEPT ![g] = {}]
      /\ UNCHANGED <<instant, written, manifests, uploads, age, lost>>
  BY DEF StopScan
<1>2. StoreTypeOK
  BY DEF StoreInv
<1>3. StoreTypeOK'
  BY <1>1, <1>2 DEF StoreTypeOK, NoScan, Scan
<1>4. YoungArtifactsSurvive' /\ LostAreAbsent' /\ \A u \in Uploaders : UploadSafe(u)'
  BY <1>1, ScansOnly
<1>5. ASSUME NEW h \in Collectors PROVE ScanSafe(h)' /\ CandidatesSafe(h)'
  <2>1. CASE h = g
    <3>1. scans'[h].at = "idle"
      BY <1>1, <1>2, <2>1 DEF StoreTypeOK, NoScan
    <3> QED
      BY <3>1 DEF ScanSafe, CandidatesSafe
  <2>2. CASE h # g
    <3>1. scans'[h] = scans[h] /\ renewed'[h] = renewed[h]
      BY <1>1, <1>2, <2>2 DEF StoreTypeOK
    <3> QED
      BY <1>1, <3>1, ScansOnly
  <2> QED
    BY <2>1, <2>2
<1> QED
  BY <1>3, <1>4, <1>5 DEF StoreInv

LEMMA TickKeepsInv ==
    ASSUME StoreInv, Tick
    PROVE  StoreInv'
<1>1. /\ instant <= MaxTime /\ instant' = instant + 1
      /\ \A g \in Collectors : scans[g].at = "manifests" => instant < scans[g].since + ScanTime
      /\ UNCHANGED <<written, manifests, uploads, scans, history>>
  BY DEF Tick
<1>2. StoreTypeOK
  BY DEF StoreInv
<1>3. instant \in Nat /\ Retention \in Nat /\ ScanTime \in Nat
  BY <1>2, Numbers
<1>4. StoreTypeOK'
  <2>1. 0..instant \subseteq 0..(instant + 1) /\ instant + 1 \in 1..(MaxTime + 1)
    BY <1>1, <1>3, StoreAssumption
  <2> QED
    BY <1>1, <1>2, <2>1 DEF StoreTypeOK, history
<1>5. YoungArtifactsSurvive' /\ LostAreAbsent'
  BY <1>1 DEF StoreInv, YoungArtifactsSurvive, LostAreAbsent, history
<1>6. ASSUME NEW u \in Uploaders
      PROVE  /\ uploads[u].oldest \in Nat /\ (TooOld(u) => TooOld(u)')
             /\ \A c \in Chunks : HasPut(u, c)' = HasPut(u, c)
  <2>1. uploads[u].oldest \in Nat
    BY <1>2, Numbers
  <2> QED
    BY <1>1, <1>3, <2>1 DEF TooOld, HasPut
<1>7. ASSUME NEW u \in Uploaders PROVE UploadSafe(u)'
  <2>1. UploadSafe(u)
    BY DEF StoreInv
  <2> QED
    BY <1>1, <1>3, <1>6, <2>1 DEF UploadSafe, history
<1>8. ASSUME NEW g \in Collectors PROVE ScanSafe(g)' /\ CandidatesSafe(g)'
  <2>1. ScanSafe(g) /\ CandidatesSafe(g) /\ scans[g].since \in Nat
    BY <1>2, Numbers DEF StoreInv
  <2>2. ScanSafe(g)'
    BY <1>1, <1>3, <2>1 DEF ScanSafe, history
  <2>3. \A c \in scans[g].candidates : c \in Chunks /\ written[c] \in Nat
    BY <1>2, Numbers DEF Scan
  <2>4. CandidatesSafe(g)'
    BY <1>1, <1>3, <1>6, <2>1, <2>3 DEF CandidatesSafe, history
  <2> QED
    BY <2>2, <2>4
<1> QED
  BY <1>4, <1>5, <1>7, <1>8 DEF StoreInv

LEMMA StoreStep == StoreInv /\ [StoreNext]_storeVars => StoreInv'
<1> SUFFICES ASSUME StoreInv, [StoreNext]_storeVars PROVE StoreInv'
  OBVIOUS
<1>1. CASE UNCHANGED storeVars
  BY <1>1 DEF storeVars, history, StoreInv, StoreTypeOK, YoungArtifactsSurvive, LostAreAbsent,
     UploadSafe, HasPut, TooOld, ScanSafe, CandidatesSafe
<1>2. ASSUME NEW u \in Uploaders, UploadStep(u) PROVE StoreInv'
  <2>1. CASE \E a \in Artifacts : BeginUpload(u, a)
    BY <2>1, BeginKeepsInv
  <2>2. CASE \E c \in Chunks : PutChunk(u, c)
    BY <2>2, PutKeepsInv
  <2>3. CASE Finalize(u)
    BY <2>3, FinalizeKeepsInv
  <2>4. CASE FailUpload(u)
    BY <2>4, FailKeepsInv
  <2> QED
    BY <1>2, <2>1, <2>2, <2>3, <2>4 DEF UploadStep
<1>3. ASSUME NEW g \in Collectors, ScanStep(g) PROVE StoreInv'
  <2>1. CASE StartScan(g)
    BY <2>1, StartKeepsInv
  <2>2. CASE \E a \in Artifacts : ReadManifest(g, a)
    BY <2>2, ReadKeepsInv
  <2>3. CASE ListChunks(g)
    BY <2>3, ListKeepsInv
  <2>4. CASE \E c \in Chunks : DeleteChunk(g, c)
    BY <2>4, DeleteKeepsInv
  <2>5. CASE StopScan(g)
    BY <2>5, StopKeepsInv
  <2> QED
    BY <1>3, <2>1, <2>2, <2>3, <2>4, <2>5 DEF ScanStep
<1>4. CASE Tick
  BY <1>4, TickKeepsInv
<1> QED
  BY <1>1, <1>2, <1>3, <1>4 DEF StoreNext

\* An artifact that was finalized on chunks young enough stays readable, however many
\* uploads and collections run, but for a chunk that a collection deletes in the place of
\* the former object it listed: the cutoff of collectGarbage is late enough for every
\* manifest that its listing may have missed, those of the other collections' times too.
THEOREM YoungArtifactsAreSafe == StoreSpec => []YoungArtifactsSurvive
<1>1. StoreInv => YoungArtifactsSurvive
  BY DEF StoreInv
<1> QED
  BY <1>1, StoreInvInit, StoreStep, PTL DEF StoreSpec

\* The type invariant of the store.
THEOREM ArtifactTypeCorrect == StoreSpec => []StoreTypeOK
<1>1. StoreInv => StoreTypeOK
  BY DEF StoreInv
<1> QED
  BY <1>1, StoreInvInit, StoreStep, PTL DEF StoreSpec
=============================================================================
