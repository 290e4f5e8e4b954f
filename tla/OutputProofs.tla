---------------------------- MODULE OutputProofs ----------------------------
(***************************************************************************)
(* Proofs about promotion and invalidation, for any number of versions,    *)
(* heads, Evidence records and concurrent requests.                        *)
(***************************************************************************)
EXTENDS OutputLifecycle, TLAPS

\* What a step leaves alone: all but promo, and all but inval.
KeepsAllButPromo == UNCHANGED <<state, evidence, expired, heads, fences, inval, reverified>>
KeepsAllButInval == UNCHANGED <<state, evidence, expired, heads, fences, promo, reverified>>

\* The reads of a promotion: it stays the promotion of its version, and the
\* records it knows as passing are those it knew or those that pass now.
Reads(p) ==
    /\ promo[p] # NoPromotion
    /\ \E q \in Promotion :
          /\ promo' = [promo EXCEPT ![p] = q]
          /\ q.version = promo[p].version /\ q.seen = promo[p].seen
          /\ q.branch = promo[p].branch
          /\ q.passing \in {promo[p].passing,
                            {f \in Fingerprints : Key[f].subject = promo[p].version
                                                  /\ evidence[f] = "PASS"}}

LEMMA PromotionType ==
  ASSUME TypeOK, NEW p \in Promoters
  PROVE  /\ promo[p].at # "idle" => promo[p] \in Promotion
         /\ promo[p] # NoPromotion => promo[p] \in Promotion
         /\ promo[p] \in Promotion => promo[p] # NoPromotion
BY DEF TypeOK, Promotion, NoPromotion, PromotionSteps

LEMMA InvalidationType ==
  ASSUME TypeOK, NEW i \in Invalidators
  PROVE  /\ inval[i].at # "idle" => inval[i] \in Invalidation
         /\ inval[i] # NoInvalidation => inval[i] \in Invalidation
         /\ inval[i] \in Invalidation => inval[i] # NoInvalidation
BY DEF TypeOK, Invalidation, NoInvalidation

LEMMA HeadOfType ==
  ASSUME TypeOK, NEW p \in Promoters, promo[p] \in Promotion
  PROVE  HeadOf(p) \in Heads
BY OutputAssumption DEF HeadOf, Heads, Promotion

LEMMA ReadsTogether ==
  ASSUME TypeOK, NEW p \in Promoters,
         ReadHead(p) \/ AcquireFence(p) \/ PresentFence(p) \/ ReadEvidence(p)
  PROVE  Reads(p) /\ KeepsAllButPromo
<1> DEFINE now == {f \in Fingerprints : Key[f].subject = promo[p].version
                                        /\ evidence[f] = "PASS"}
<1>1. promo[p] \in Promotion /\ promo[p] # NoPromotion
  BY PromotionType DEF ReadHead, AcquireFence, PresentFence, ReadEvidence
<1>2. heads[HeadOf(p)] \in Versions \union {None} /\ fences[HeadOf(p)] \in Nat
  BY <1>1, HeadOfType DEF TypeOK
<1>3. CASE ReadHead(p)
  <2> DEFINE q == [promo[p] EXCEPT !.at = "fence", !.expected = heads[HeadOf(p)]]
  <2>1. q \in Promotion
    BY <1>1, <1>2 DEF Promotion, PromotionSteps
  <2>2. promo' = [promo EXCEPT ![p] = q]
    BY <1>3, <1>1 DEF ReadHead, TypeOK
  <2>3. /\ q.version = promo[p].version /\ q.seen = promo[p].seen
        /\ q.branch = promo[p].branch
        /\ q.passing \in {promo[p].passing, now}
    BY <1>1 DEF Promotion
  <2> HIDE DEF q
  <2>4. Reads(p)
    BY <1>1, <2>1, <2>2, <2>3 DEF Reads
  <2> QED
    BY <1>3, <2>4 DEF ReadHead, KeepsAllButPromo
<1>4. CASE AcquireFence(p)
  <2> DEFINE q == [promo[p] EXCEPT !.at = "evidence", !.token = fences[HeadOf(p)] + 1]
  <2>1. q \in Promotion
    <3>1. ASSUME NEW n \in Nat PROVE [promo[p] EXCEPT !.at = "evidence", !.token = n] \in Promotion
      BY <1>1 DEF Promotion, PromotionSteps
    <3>2. fences[HeadOf(p)] + 1 \in Nat
      BY <1>2
    <3> QED
      BY <3>1, <3>2, Zenon
  <2>2. promo' = [promo EXCEPT ![p] = q]
    BY <1>4, <1>1 DEF AcquireFence, TypeOK
  <2>3. /\ q.version = promo[p].version /\ q.seen = promo[p].seen
        /\ q.branch = promo[p].branch
        /\ q.passing \in {promo[p].passing, now}
    BY <1>1 DEF Promotion
  <2> HIDE DEF q
  <2>4. Reads(p)
    BY <1>1, <2>1, <2>2, <2>3 DEF Reads
  <2> QED
    BY <1>4, <2>4 DEF AcquireFence, KeepsAllButPromo
<1>5. CASE PresentFence(p)
  <2> DEFINE q == [promo[p] EXCEPT !.at = "evidence", !.token = fences[HeadOf(p)]]
  <2>1. q \in Promotion
    BY <1>1, <1>2 DEF Promotion, PromotionSteps
  <2>2. promo' = [promo EXCEPT ![p] = q]
    BY <1>5, <1>1 DEF PresentFence, TypeOK
  <2>3. /\ q.version = promo[p].version /\ q.seen = promo[p].seen
        /\ q.branch = promo[p].branch
        /\ q.passing \in {promo[p].passing, now}
    BY <1>1 DEF Promotion
  <2> HIDE DEF q
  <2>4. Reads(p)
    BY <1>1, <2>1, <2>2, <2>3 DEF Reads
  <2> QED
    BY <1>5, <2>4 DEF PresentFence, KeepsAllButPromo
<1>6. CASE ReadEvidence(p)
  <2> DEFINE q == [promo[p] EXCEPT !.at = "commit", !.passing = now]
  <2>1. q \in Promotion
    BY <1>1, <1>2 DEF Promotion, PromotionSteps
  <2>2. promo' = [promo EXCEPT ![p] = q]
    BY <1>6, <1>1 DEF ReadEvidence, TypeOK
  <2>3. /\ q.version = promo[p].version /\ q.seen = promo[p].seen
        /\ q.branch = promo[p].branch
        /\ q.passing \in {promo[p].passing, now}
    BY <1>1 DEF Promotion
  <2> HIDE DEF q
  <2>4. Reads(p)
    BY <1>1, <2>1, <2>2, <2>3 DEF Reads
  <2> QED
    BY <1>6, <2>4 DEF ReadEvidence, KeepsAllButPromo
<1> QED
  BY <1>3, <1>4, <1>5, <1>6

\* A step of Next, its promotion reads taken together.
Steps ==
    \/ \E v \in Versions : CreateOutput(v)
    \/ \E v \in Versions : Finalize(v)
    \/ \E f \in Fingerprints, verdict \in Verdicts : RecordEvidence(f, verdict)
    \/ \E f \in Fingerprints : Expire(f)
    \/ \E p \in Promoters, v \in Versions, b \in Branches,
          policy \in Policies \union {None},
          required \in (SUBSET Verifiers) \ {{}}, presented \in BOOLEAN :
          BeginPromotion(p, v, b, policy, required, presented)
    \/ \E p \in Promoters : Reads(p) /\ KeepsAllButPromo
    \/ \E p \in Promoters : CommitPromotion(p)
    \/ \E p \in Promoters : AbortPromotion(p)
    \/ \E i \in Invalidators, u \in Versions : BeginInvalidation(i, u)
    \/ \E i \in Invalidators : ReadAffectedEvidence(i)
    \/ \E i \in Invalidators : CommitInvalidation(i)
    \/ \E i \in Invalidators : AbortInvalidation(i)

LEMMA NextTakenApart ==
  ASSUME TypeOK, Next
  PROVE  Steps
BY ReadsTogether DEF Next, PromotionNext, InvalidationNext, Steps

\* The state of a version after an invalidation commits.
LEMMA CommitInvalidationState ==
  ASSUME TypeOK, NEW i \in Invalidators, CommitInvalidation(i), NEW v \in Versions
  PROVE  \/ /\ state'[v] = state[v]
            /\ v \in inval[i].affected => inval[i].seen[v] \in Withdrawn
         \/ /\ v \in inval[i].affected
            /\ state[v] = inval[i].seen[v]
            /\ inval[i].seen[v] # "INVALIDATED"
            /\ state'[v] \in Withdrawn
BY DEF CommitInvalidation, Planned, TransitionTarget, Withdrawn, TypeOK

-----------------------------------------------------------------------------
LEMMA TypeStep ==
  ASSUME TypeOK, [Next]_vars
  PROVE  TypeOK'
<1>1. CASE UNCHANGED vars
  BY <1>1 DEF vars, TypeOK
<1>2. CASE Steps
  <2>1. CASE \E v \in Versions : CreateOutput(v)
    BY <2>1 DEF CreateOutput, TypeOK, States
  <2>2. CASE \E v \in Versions : Finalize(v)
    BY <2>2 DEF Finalize, TypeOK, States
  <2>3. CASE \E f \in Fingerprints, verdict \in Verdicts : RecordEvidence(f, verdict)
    BY <2>3 DEF RecordEvidence, TypeOK
  <2>4. CASE \E f \in Fingerprints : Expire(f)
    BY <2>4 DEF Expire, TypeOK
  <2>5. CASE \E p \in Promoters, v \in Versions, b \in Branches,
               policy \in Policies \union {None},
               required \in (SUBSET Verifiers) \ {{}}, presented \in BOOLEAN :
               BeginPromotion(p, v, b, policy, required, presented)
    <3>1. PICK p \in Promoters, v \in Versions, b \in Branches,
               policy \in Policies \union {None},
               required \in (SUBSET Verifiers) \ {{}}, presented \in BOOLEAN :
               BeginPromotion(p, v, b, policy, required, presented)
      BY <2>5
    <3> DEFINE q == [at |-> "head", version |-> v, branch |-> b, policy |-> policy,
                     required |-> required, presented |-> presented, seen |-> state[v],
                     expected |-> None, token |-> 0, passing |-> {}]
    <3>2. q \in Promotion
      BY DEF Promotion, PromotionSteps, TypeOK
    <3>3. promo' = [promo EXCEPT ![p] = q] /\ KeepsAllButPromo
      BY <3>1 DEF BeginPromotion, KeepsAllButPromo
    <3> HIDE DEF q
    <3> QED
      BY <3>2, <3>3 DEF KeepsAllButPromo, TypeOK
  <2>6. CASE \E p \in Promoters : Reads(p) /\ KeepsAllButPromo
    BY <2>6 DEF Reads, KeepsAllButPromo, TypeOK
  <2>7. CASE \E p \in Promoters : CommitPromotion(p)
    <3>1. PICK p \in Promoters : CommitPromotion(p)
      BY <2>7
    <3>2. promo[p] \in Promotion
      BY <3>1, PromotionType DEF CommitPromotion, TransitionsAllowed
    <3>3. HeadOf(p) \in Heads /\ promo[p].version \in Versions /\ promo[p].token \in Nat
      BY <3>2, HeadOfType DEF Promotion
    <3>4. /\ state' \in [Versions -> States]
          /\ heads' \in [Heads -> Versions \union {None}]
          /\ fences' \in [Heads -> Nat]
          /\ reverified' \subseteq Versions
      BY <3>1, <3>3 DEF CommitPromotion, TransitionsAllowed, TypeOK, States
    <3>5. promo' \in [Promoters -> Promotion \union {NoPromotion}]
      BY <3>1 DEF CommitPromotion, TransitionsAllowed, TypeOK
    <3> QED
      BY <3>1, <3>4, <3>5 DEF CommitPromotion, TransitionsAllowed, TypeOK
  <2>8. CASE \E p \in Promoters : AbortPromotion(p)
    BY <2>8 DEF AbortPromotion, TypeOK
  <2>9. CASE \E i \in Invalidators, u \in Versions : BeginInvalidation(i, u)
    <3>1. PICK i \in Invalidators, u \in Versions : BeginInvalidation(i, u)
      BY <2>9
    <3> DEFINE r == [at |-> "evidence", source |-> u,
                     affected |-> {v \in Affected[u] : Exists(v)},
                     seen |-> state, dirty |-> {}]
    <3>2. r \in Invalidation
      BY OutputAssumption DEF Invalidation, TypeOK
    <3>3. inval' = [inval EXCEPT ![i] = r] /\ KeepsAllButInval
      BY <3>1 DEF BeginInvalidation, KeepsAllButInval
    <3> HIDE DEF r
    <3> QED
      BY <3>2, <3>3 DEF KeepsAllButInval, TypeOK
  <2>10. CASE \E i \in Invalidators : ReadAffectedEvidence(i)
    <3>1. PICK i \in Invalidators : ReadAffectedEvidence(i)
      BY <2>10
    <3> DEFINE dirty == {v \in inval[i].affected : \E f \in Fingerprints :
                            Key[f].subject = v /\ evidence[f] \in {"PASS", "FAIL"}}
               r == [inval[i] EXCEPT !.at = "commit", !.dirty = dirty]
    <3>2. inval[i] \in Invalidation
      BY <3>1, InvalidationType DEF ReadAffectedEvidence
    <3>3. r \in Invalidation
      BY <3>2 DEF Invalidation
    <3>4. inval' = [inval EXCEPT ![i] = r] /\ KeepsAllButInval
      BY <3>1 DEF ReadAffectedEvidence, KeepsAllButInval, TypeOK
    <3> HIDE DEF r
    <3> QED
      BY <3>3, <3>4 DEF KeepsAllButInval, TypeOK
  <2>11. CASE \E i \in Invalidators : CommitInvalidation(i)
    <3>1. PICK i \in Invalidators : CommitInvalidation(i)
      BY <2>11
    <3>2. state' \in [Versions -> States]
      BY <3>1 DEF CommitInvalidation, TransitionTarget, TypeOK, States
    <3>3. evidence' \in [Fingerprints -> Verdicts \union {"none"}]
      BY <3>1 DEF CommitInvalidation, TypeOK, Verdicts
    <3> QED
      BY <3>1, <3>2, <3>3 DEF CommitInvalidation, TypeOK
  <2>12. CASE \E i \in Invalidators : AbortInvalidation(i)
    BY <2>12 DEF AbortInvalidation, TypeOK
  <2> QED
    BY <1>2, <2>1, <2>2, <2>3, <2>4, <2>5, <2>6, <2>7, <2>8, <2>9, <2>10, <2>11, <2>12
    DEF Steps
<1> QED
  BY <1>1, <1>2, NextTakenApart

LEMMA TypeInit == Init => TypeOK
BY DEF Init, TypeOK, States

\* Every reachable state is well typed: no request leaves a row of another shape,
\* and fencing tokens are natural numbers.
THEOREM TypeCorrect == Spec => []TypeOK
BY TypeInit, TypeStep, PTL DEF Spec
-----------------------------------------------------------------------------
(***************************************************************************)
(* What the requests in progress know.  A version that is unverified has   *)
(* been so since it was created, so that what a request read of it before  *)
(* still holds: this is what makes the conditional updates sufficient.     *)
(***************************************************************************)

\* The records that a promotion read as passing still do while its version has
\* not been verified.
PassingStillPasses ==
    \A p \in Promoters : promo[p] # NoPromotion =>
        /\ Exists(promo[p].version)
        /\ \A f \in promo[p].passing :
              /\ Key[f].subject = promo[p].version
              /\ state[promo[p].version] \in Unverified => evidence[f] = "PASS"

\* A version that is unverified, or promoted and never taken out of STALE, was
\* not withdrawn when an invalidation read it.
SeenBeforeWithdrawal ==
    \A i \in Invalidators : inval[i] # NoInvalidation =>
        /\ inval[i].dirty \subseteq inval[i].affected
        /\ \A v \in inval[i].affected :
              /\ Exists(v)
              /\ state[v] \in Unverified => inval[i].seen[v] \in Unverified
              /\ (state[v] = "PROMOTED" /\ v \notin reverified) =>
                    inval[i].seen[v] \in Unverified \union {"PROMOTED"}

RequestInv == PassingStillPasses /\ SeenBeforeWithdrawal

\* A version does not become absent, and becomes unverified only by its creation.
LEMMA StateStep ==
  ASSUME TypeOK, Steps, NEW v \in Versions
  PROVE  /\ Exists(v) => Exists(v)'
         /\ Exists(v) /\ state'[v] \in Unverified => state[v] \in Unverified
<1>1. CASE \E p \in Promoters : CommitPromotion(p)
  <2> PICK p \in Promoters : CommitPromotion(p)
    BY <1>1
  <2> QED
    BY DEF CommitPromotion, TransitionsAllowed, TypeOK, Exists, Unverified
<1>2. CASE \E i \in Invalidators : CommitInvalidation(i)
  <2> PICK i \in Invalidators : CommitInvalidation(i)
    BY <1>2
  <2>1. \/ state'[v] = state[v]
        \/ state'[v] \in Withdrawn
    BY CommitInvalidationState
  <2> QED
    BY <2>1 DEF Exists, Unverified, Withdrawn
<1>3. CASE \/ \E u \in Versions : CreateOutput(u)
           \/ \E u \in Versions : Finalize(u)
  BY <1>3 DEF CreateOutput, Finalize, TypeOK, Exists, Unverified
<1>4. CASE UNCHANGED state
  BY <1>4 DEF Exists
<1> QED
  BY <1>1, <1>2, <1>3, <1>4
  DEF Steps, RecordEvidence, Expire, BeginPromotion, KeepsAllButPromo, AbortPromotion,
      BeginInvalidation, ReadAffectedEvidence, AbortInvalidation

\* The Evidence of a version that stays unverified is not withdrawn: an
\* invalidation that marks it stale moves its subject too.
LEMMA EvidenceStep ==
  ASSUME TypeOK, Steps, SeenBeforeWithdrawal, NEW f \in Fingerprints,
         evidence[f] = "PASS", state'[Key[f].subject] \in Unverified
  PROVE  evidence'[f] = "PASS"
<1>1. CASE \E i \in Invalidators : CommitInvalidation(i)
  <2> PICK i \in Invalidators : CommitInvalidation(i)
    BY <1>1
  <2> DEFINE v == Key[f].subject
  <2>1. v \in Versions
    BY OutputAssumption
  <2>2. inval[i] # NoInvalidation
    BY DEF CommitInvalidation, NoInvalidation
  <2>3. v \notin inval[i].dirty
    <3> SUFFICES ASSUME v \in inval[i].dirty PROVE FALSE
      OBVIOUS
    <3>1. v \in inval[i].affected
      BY <2>2 DEF SeenBeforeWithdrawal
    <3>2. state'[v] = state[v] /\ inval[i].seen[v] \in Withdrawn
      BY <2>1, <3>1, CommitInvalidationState DEF Unverified, Withdrawn
    <3> QED
      BY <2>2, <3>1, <3>2 DEF SeenBeforeWithdrawal, Unverified, Withdrawn
  <2> QED
    BY <2>3 DEF CommitInvalidation, TypeOK
<1>2. CASE \E g \in Fingerprints, verdict \in Verdicts : RecordEvidence(g, verdict)
  BY <1>2 DEF RecordEvidence, TypeOK
<1>3. CASE UNCHANGED evidence
  BY <1>3
<1> QED
  BY <1>1, <1>2, <1>3
  DEF Steps, CreateOutput, Finalize, Expire, BeginPromotion, KeepsAllButPromo,
      CommitPromotion, TransitionsAllowed, AbortPromotion, BeginInvalidation, ReadAffectedEvidence,
      AbortInvalidation

LEMMA PassingStep ==
  ASSUME TypeOK, Steps, RequestInv
  PROVE  PassingStillPasses'
<1> SUFFICES ASSUME NEW p \in Promoters, promo'[p] # NoPromotion
             PROVE  /\ Exists(promo[p].version)'
                    /\ \A f \in promo'[p].passing :
                          /\ Key[f].subject = promo'[p].version
                          /\ state'[promo'[p].version] \in Unverified =>
                                evidence'[f] = "PASS"
  BY DEF PassingStillPasses
<1>1. CASE promo'[p] = promo[p]
  <2>1. promo[p] \in Promotion /\ promo[p].version \in Versions
        /\ promo[p].passing \subseteq Fingerprints
    BY <1>1, PromotionType DEF Promotion
  <2>2. Exists(promo[p].version) /\ \A f \in promo[p].passing :
              /\ Key[f].subject = promo[p].version
              /\ state[promo[p].version] \in Unverified => evidence[f] = "PASS"
    BY <1>1 DEF RequestInv, PassingStillPasses
  <2>3. Exists(promo[p].version)'
    BY <1>1, <2>1, <2>2, StateStep DEF Exists
  <2>4. ASSUME NEW f \in promo[p].passing, state'[promo[p].version] \in Unverified
        PROVE  evidence'[f] = "PASS"
    BY <2>1, <2>2, <2>4, StateStep, EvidenceStep DEF RequestInv
  <2> QED
    BY <1>1, <2>2, <2>3, <2>4
<1>2. CASE \E v \in Versions, b \in Branches, policy \in Policies \union {None},
              required \in (SUBSET Verifiers) \ {{}}, presented \in BOOLEAN :
              BeginPromotion(p, v, b, policy, required, presented)
  <2>1. /\ promo'[p].passing = {} /\ promo'[p].version \in Versions
        /\ Exists(promo'[p].version) /\ state' = state
    BY <1>2 DEF BeginPromotion, TypeOK
  <2> QED
    BY <2>1 DEF Exists
<1>3. CASE Reads(p) /\ KeepsAllButPromo
  <2>1. promo[p] # NoPromotion /\ promo[p] \in Promotion
    BY <1>3, PromotionType DEF Reads
  <2>2. PICK q \in Promotion :
          /\ promo' = [promo EXCEPT ![p] = q]
          /\ q.version = promo[p].version
          /\ q.passing \in {promo[p].passing,
                            {f \in Fingerprints : Key[f].subject = promo[p].version
                                                  /\ evidence[f] = "PASS"}}
    BY <1>3 DEF Reads
  <2>3. promo'[p] = q /\ state' = state /\ evidence' = evidence
    BY <1>3, <2>2 DEF KeepsAllButPromo, TypeOK
  <2>4. Exists(promo[p].version) /\ \A f \in promo[p].passing :
              /\ Key[f].subject = promo[p].version
              /\ state[promo[p].version] \in Unverified => evidence[f] = "PASS"
    BY <2>1 DEF RequestInv, PassingStillPasses
  <2> QED
    BY <2>2, <2>3, <2>4 DEF Exists
<1>4. CASE \E q \in Promoters, v \in Versions, b \in Branches,
              policy \in Policies \union {None},
              required \in (SUBSET Verifiers) \ {{}}, presented \in BOOLEAN :
              BeginPromotion(q, v, b, policy, required, presented)
  <2> PICK q \in Promoters, v \in Versions, b \in Branches,
           policy \in Policies \union {None},
           required \in (SUBSET Verifiers) \ {{}}, presented \in BOOLEAN :
           BeginPromotion(q, v, b, policy, required, presented)
    BY <1>4
  <2>1. CASE q = p
    BY <1>2, <2>1
  <2>2. CASE q # p
    <3>1. promo'[p] = promo[p]
      BY <2>2 DEF BeginPromotion, TypeOK
    <3> QED
      BY <1>1, <3>1
  <2> QED
    BY <2>1, <2>2
<1>5. CASE \E q \in Promoters : Reads(q) /\ KeepsAllButPromo
  BY <1>1, <1>3, <1>5 DEF Reads, TypeOK
<1>6. CASE \E q \in Promoters : CommitPromotion(q) \/ AbortPromotion(q)
  BY <1>1, <1>6 DEF CommitPromotion, TransitionsAllowed, AbortPromotion, TypeOK
<1>7. CASE UNCHANGED promo
  BY <1>1, <1>7
<1> QED
  BY <1>4, <1>5, <1>6, <1>7
  DEF Steps, CreateOutput, Finalize, RecordEvidence, Expire, BeginInvalidation,
      ReadAffectedEvidence, CommitInvalidation, AbortInvalidation

LEMMA SeenStep ==
  ASSUME TypeOK, Steps, RequestInv
  PROVE  SeenBeforeWithdrawal'
<1> SUFFICES ASSUME NEW i \in Invalidators, inval'[i] # NoInvalidation
             PROVE  /\ inval'[i].dirty \subseteq inval'[i].affected
                    /\ \A v \in inval'[i].affected :
                          /\ Exists(v)'
                          /\ state'[v] \in Unverified => inval'[i].seen[v] \in Unverified
                          /\ (state'[v] = "PROMOTED" /\ v \notin reverified') =>
                                inval'[i].seen[v] \in Unverified \union {"PROMOTED"}
  BY DEF SeenBeforeWithdrawal
<1>1. CASE \E u \in Versions : BeginInvalidation(i, u)
  <2>1. PICK u \in Versions : BeginInvalidation(i, u)
    BY <1>1
  <2>2. /\ inval'[i].affected = {v \in Affected[u] : Exists(v)}
        /\ inval'[i].seen = state /\ inval'[i].dirty = {}
        /\ state' = state
    BY <2>1 DEF BeginInvalidation, TypeOK
  <2> QED
    BY <2>2 DEF Exists
<1>2. CASE ReadAffectedEvidence(i)
  <2>1. inval[i] \in Invalidation /\ inval[i] # NoInvalidation
    BY <1>2, InvalidationType DEF ReadAffectedEvidence
  <2>2. /\ inval'[i].affected = inval[i].affected /\ inval'[i].seen = inval[i].seen
        /\ inval'[i].dirty \subseteq inval[i].affected
        /\ state' = state /\ reverified' = reverified
    BY <1>2, <2>1 DEF ReadAffectedEvidence, TypeOK, Invalidation
  <2> QED
    BY <2>1, <2>2 DEF RequestInv, SeenBeforeWithdrawal, Exists
<1>3. CASE inval'[i] = inval[i]
  <2>1. /\ inval[i] # NoInvalidation
        /\ inval[i].affected \subseteq Versions
    BY <1>3, InvalidationType DEF Invalidation
  <2>2. ASSUME NEW v \in inval[i].affected
        PROVE  /\ v \in Versions /\ Exists(v)
               /\ state[v] \in Unverified => inval[i].seen[v] \in Unverified
               /\ (state[v] = "PROMOTED" /\ v \notin reverified) =>
                     inval[i].seen[v] \in Unverified \union {"PROMOTED"}
    BY <2>1 DEF RequestInv, SeenBeforeWithdrawal
  <2>3. ASSUME NEW v \in inval[i].affected
        PROVE  /\ Exists(v)'
               /\ state'[v] \in Unverified => inval[i].seen[v] \in Unverified
    BY <2>2, StateStep
  <2>4. ASSUME NEW v \in inval[i].affected, state'[v] = "PROMOTED", v \notin reverified'
        PROVE  inval[i].seen[v] \in Unverified \union {"PROMOTED"}
    <3>1. v \notin reverified /\ (state[v] = "PROMOTED" \/ state[v] \in Unverified)
      <4>1. CASE \E p \in Promoters : CommitPromotion(p)
        <5> PICK p \in Promoters : CommitPromotion(p)
          BY <4>1
        <5>1. v \notin reverified
          BY <2>4 DEF CommitPromotion, TransitionsAllowed
        <5>2. CASE promo[p].version = v
          BY <2>4, <5>1, <5>2 DEF CommitPromotion, TransitionsAllowed, StateUnchanged
        <5>3. CASE promo[p].version # v
          BY <2>2, <2>4, <5>1, <5>3 DEF CommitPromotion, TransitionsAllowed, TypeOK
        <5> QED
          BY <5>2, <5>3
      <4>2. CASE \E k \in Invalidators : CommitInvalidation(k)
        <5> PICK k \in Invalidators : CommitInvalidation(k)
          BY <4>2
        <5>1. state'[v] = state[v]
          BY <2>2, <2>4, CommitInvalidationState DEF Withdrawn
        <5> QED
          BY <2>4, <5>1 DEF CommitInvalidation
      <4>3. CASE \/ \E u \in Versions : CreateOutput(u)
                 \/ \E u \in Versions : Finalize(u)
        BY <2>2, <2>4, <4>3 DEF CreateOutput, Finalize, TypeOK
      <4>4. CASE UNCHANGED <<state, reverified>>
        BY <2>4, <4>4
      <4> QED
        BY <4>1, <4>2, <4>3, <4>4
        DEF Steps, RecordEvidence, Expire, BeginPromotion, KeepsAllButPromo, AbortPromotion,
            BeginInvalidation, ReadAffectedEvidence, AbortInvalidation
    <3> QED
      BY <2>2, <3>1
  <2>5. inval[i].dirty \subseteq inval[i].affected
    BY <2>1 DEF RequestInv, SeenBeforeWithdrawal
  <2> QED
    BY <1>3, <2>3, <2>4, <2>5
<1> QED
  BY <1>1, <1>2, <1>3
  DEF Steps, CreateOutput, Finalize, RecordEvidence, Expire, BeginPromotion, KeepsAllButPromo,
      CommitPromotion, TransitionsAllowed, AbortPromotion, BeginInvalidation, ReadAffectedEvidence,
      CommitInvalidation, AbortInvalidation, TypeOK

LEMMA RequestStep ==
  ASSUME TypeOK, RequestInv, [Next]_vars
  PROVE  RequestInv'
<1>1. CASE UNCHANGED vars
  BY <1>1 DEF vars, RequestInv, PassingStillPasses, SeenBeforeWithdrawal, Exists
<1>2. CASE Next
  BY <1>2, NextTakenApart, PassingStep, SeenStep DEF RequestInv
<1> QED
  BY <1>1, <1>2

\* What a request read of a version holds for as long as the version has not been
\* verified or withdrawn.
THEOREM RequestsStayInformed == Spec => []RequestInv
<1>1. Init => RequestInv
  BY DEF Init, RequestInv, PassingStillPasses, SeenBeforeWithdrawal
<1> QED
  BY <1>1, RequestStep, TypeCorrect, PTL DEF Spec
-----------------------------------------------------------------------------
(***************************************************************************)
(* Safety                                                                  *)
(***************************************************************************)

\* A promotion that commits from an unverified state finds its Evidence passing
\* and unexpired.
LEMMA CommitFindsEvidence ==
  ASSUME TypeOK, PassingStillPasses, NEW p \in Promoters, CommitPromotion(p),
         state[promo[p].version] \in Unverified
  PROVE  \E f \in Fingerprints \ expired :
            /\ Key[f].subject = promo[p].version
            /\ evidence[f] = "PASS"
            /\ Output[promo[p].version].policy \in {None, Key[f].policy}
<1>1. promo[p] \in Promotion /\ promo[p] # NoPromotion
  BY PromotionType DEF CommitPromotion, TransitionsAllowed
<1>2. PICK t \in promo[p].required : TRUE
  BY <1>1 DEF Promotion
<1>3. PICK f \in promo[p].passing \ expired : Key[f].policy = PolicyInForce(p)
  BY <1>2 DEF CommitPromotion, TransitionsAllowed, PolicyApproves
<1>4. f \in Fingerprints
  BY <1>1, <1>3 DEF Promotion
<1>5. Output[promo[p].version].policy \in {None, PolicyInForce(p)}
  BY DEF CommitPromotion, TransitionsAllowed, PolicyApproves
<1>6. Key[f].subject = promo[p].version /\ evidence[f] = "PASS"
  BY <1>1, <1>3 DEF PassingStillPasses
<1> QED
  BY <1>3, <1>4, <1>5, <1>6

LEMMA SupportStep ==
  ASSUME TypeOK, Steps, RequestInv, FirstPromotionIsSupported
  PROVE  FirstPromotionIsSupported'
<1> SUFFICES ASSUME NEW v \in Versions, v \notin reverified', state'[v] = "PROMOTED"
             PROVE  Supported(v)'
  BY DEF FirstPromotionIsSupported
<1>1. CASE \E p \in Promoters : CommitPromotion(p)
  <2> PICK p \in Promoters : CommitPromotion(p)
    BY <1>1
  <2>1. evidence' = evidence /\ v \notin reverified
    BY DEF CommitPromotion, TransitionsAllowed
  <2>2. CASE promo[p].version = v
    <3>1. state[v] \in Unverified
      BY <2>2 DEF CommitPromotion, TransitionsAllowed, StateUnchanged
    <3> QED
      BY <2>1, <2>2, <3>1, CommitFindsEvidence DEF RequestInv, Supported
  <2>3. CASE promo[p].version # v
    <3>1. state[v] = "PROMOTED"
      BY <2>3 DEF CommitPromotion, TransitionsAllowed, TypeOK
    <3> QED
      BY <2>1, <3>1 DEF FirstPromotionIsSupported, Supported
  <2> QED
    BY <2>2, <2>3
<1>2. CASE \E i \in Invalidators : CommitInvalidation(i)
  <2> PICK i \in Invalidators : CommitInvalidation(i)
    BY <1>2
  <2>1. /\ state[v] = "PROMOTED" /\ v \notin reverified
        /\ v \in inval[i].affected => inval[i].seen[v] \in Withdrawn
    BY CommitInvalidationState DEF Withdrawn, CommitInvalidation
  <2>2. inval[i] # NoInvalidation
    BY DEF CommitInvalidation, NoInvalidation
  <2>3. v \notin inval[i].dirty
    BY <2>1, <2>2 DEF RequestInv, SeenBeforeWithdrawal, Unverified, Withdrawn
  <2>4. PICK f \in Fingerprints : /\ Key[f].subject = v /\ evidence[f] = "PASS"
                                  /\ Output[v].policy \in {None, Key[f].policy}
    BY <2>1 DEF FirstPromotionIsSupported, Supported
  <2>5. evidence'[f] = "PASS"
    BY <2>3, <2>4 DEF CommitInvalidation
  <2> QED
    BY <2>4, <2>5 DEF Supported
<1>3. CASE \E f \in Fingerprints, verdict \in Verdicts : RecordEvidence(f, verdict)
  <2> PICK f \in Fingerprints, verdict \in Verdicts : RecordEvidence(f, verdict)
    BY <1>3
  <2>1. state[v] = "PROMOTED" /\ v \notin reverified
    BY DEF RecordEvidence
  <2>2. PICK g \in Fingerprints : /\ Key[g].subject = v /\ evidence[g] = "PASS"
                                  /\ Output[v].policy \in {None, Key[g].policy}
    BY <2>1 DEF FirstPromotionIsSupported, Supported
  <2>3. evidence'[g] = "PASS"
    BY <2>2 DEF RecordEvidence, TypeOK
  <2> QED
    BY <2>2, <2>3 DEF Supported
<1>4. CASE \/ \E u \in Versions : CreateOutput(u)
           \/ \E u \in Versions : Finalize(u)
  <2>1. state[v] = "PROMOTED" /\ v \notin reverified /\ evidence' = evidence
    BY <1>4 DEF CreateOutput, Finalize, TypeOK
  <2> QED
    BY <2>1 DEF FirstPromotionIsSupported, Supported
<1>5. CASE UNCHANGED <<state, evidence, reverified>>
  BY <1>5 DEF FirstPromotionIsSupported, Supported
<1> QED
  BY <1>1, <1>2, <1>3, <1>4, <1>5
  DEF Steps, Expire, BeginPromotion, KeepsAllButPromo, AbortPromotion,
      BeginInvalidation, ReadAffectedEvidence, AbortInvalidation

\* The Evidence of a version promoted for the first time is withdrawn only
\* together with the version, however promotions and invalidations interleave.
THEOREM FirstPromotionSupported == Spec => []FirstPromotionIsSupported
<1>1. Init => FirstPromotionIsSupported
  BY DEF Init, FirstPromotionIsSupported
<1>2. TypeOK /\ RequestInv /\ FirstPromotionIsSupported /\ [Next]_vars
        => FirstPromotionIsSupported'
  <2>1. CASE UNCHANGED vars
    BY <2>1 DEF vars, FirstPromotionIsSupported, Supported
  <2>2. CASE Next
    BY <2>2, NextTakenApart, SupportStep
  <2> QED
    BY <2>1, <2>2
<1> QED
  BY <1>1, <1>2, TypeCorrect, RequestsStayInformed, PTL DEF Spec

\* At the first promotion of a version the Evidence still passes at the moment of the
\* commit, not only when it was read, and had not expired when it was decided on.
THEOREM FirstPromotionFresh == Spec => FirstPromotionUsesFreshEvidence
<1>1. TypeOK /\ RequestInv /\ [Next]_vars =>
        [\A v \in Versions : state[v] \in Unverified => PromotedOnFreshEvidence(v)]_vars
  <2> SUFFICES ASSUME TypeOK, RequestInv, Next, NEW v \in Versions,
                      state[v] \in Unverified, state'[v] = "PROMOTED"
               PROVE  \E f \in Fingerprints \ expired :
                         Key[f].subject = v /\ evidence[f] = "PASS"
    BY DEF PromotedOnFreshEvidence
  <2>1. Steps
    BY NextTakenApart
  <2>2. CASE \E p \in Promoters : CommitPromotion(p)
    <3> PICK p \in Promoters : CommitPromotion(p)
      BY <2>2
    <3>1. promo[p].version = v
      BY DEF CommitPromotion, TransitionsAllowed, TypeOK, Unverified
    <3> QED
      BY <3>1, CommitFindsEvidence DEF RequestInv
  <2>3. CASE \E i \in Invalidators : CommitInvalidation(i)
    BY <2>3, CommitInvalidationState DEF Withdrawn, Unverified
  <2>4. CASE \/ \E u \in Versions : CreateOutput(u)
             \/ \E u \in Versions : Finalize(u)
    BY <2>4 DEF CreateOutput, Finalize, TypeOK, Unverified
  <2>5. CASE UNCHANGED state
    BY <2>5 DEF Unverified
  <2> QED
    BY <2>1, <2>2, <2>3, <2>4, <2>5
    DEF Steps, RecordEvidence, Expire, BeginPromotion, KeepsAllButPromo, AbortPromotion,
        BeginInvalidation, ReadAffectedEvidence, AbortInvalidation
<1> QED
  BY <1>1, TypeCorrect, RequestsStayInformed, PTL DEF Spec, FirstPromotionUsesFreshEvidence

\* What a step does to the state of a version.
LEMMA StateMoves ==
  ASSUME TypeOK, Steps, NEW v \in Versions
  PROVE  \/ state'[v] = state[v]
         \/ state[v] \in {"absent", "CREATED"} /\ state'[v] = "STAGED"
         \/ state[v] # "INVALIDATED" /\ state'[v] \in Withdrawn
         \/ /\ state[v] \in Unverified \union {"STALE"} /\ state'[v] = "PROMOTED"
            /\ \A u \in Output[v].parents : Exists(u)
<1>1. CASE \E p \in Promoters : CommitPromotion(p)
  <2> PICK p \in Promoters : CommitPromotion(p)
    BY <1>1
  <2>1. CASE promo[p].version = v
    BY <2>1 DEF CommitPromotion, TransitionsAllowed, StateUnchanged, ProvenanceComplete, TypeOK
  <2>2. CASE promo[p].version # v
    BY <2>2 DEF CommitPromotion, TransitionsAllowed, TypeOK
  <2> QED
    BY <2>1, <2>2
<1>2. CASE \E i \in Invalidators : CommitInvalidation(i)
  BY <1>2, CommitInvalidationState
<1>3. CASE \/ \E u \in Versions : CreateOutput(u)
           \/ \E u \in Versions : Finalize(u)
  BY <1>3 DEF CreateOutput, Finalize, TypeOK, Exists
<1>4. CASE UNCHANGED state
  BY <1>4
<1> QED
  BY <1>1, <1>2, <1>3, <1>4
  DEF Steps, RecordEvidence, Expire, BeginPromotion, KeepsAllButPromo, AbortPromotion,
      BeginInvalidation, ReadAffectedEvidence, AbortInvalidation

\* A version once INVALIDATED stays so: no promotion that read it before brings it
\* back, and no other invalidation softens it to STALE.
THEOREM InvalidationIsFinal == Spec => InvalidatedIsFinal
<1>1. TypeOK /\ [Next]_vars =>
        [\A v \in Versions : state[v] = "INVALIDATED" => state'[v] = "INVALIDATED"]_vars
  BY NextTakenApart, StateMoves DEF Unverified
<1> QED
  BY <1>1, TypeCorrect, PTL DEF Spec, InvalidatedIsFinal

\* A version is promoted only when all its parents are in the project, and they
\* stay there.
THEOREM ProvenanceKept == Spec => []PromotedHasProvenance
<1>1. Init => PromotedHasProvenance
  BY DEF Init, PromotedHasProvenance
<1>2. TypeOK /\ PromotedHasProvenance /\ [Next]_vars => PromotedHasProvenance'
  <2> SUFFICES ASSUME TypeOK, PromotedHasProvenance, [Next]_vars,
                      NEW v \in Versions, state'[v] = "PROMOTED",
                      NEW u \in Output[v].parents
               PROVE  Exists(u)'
    BY DEF PromotedHasProvenance
  <2>1. u \in Versions
    BY OutputAssumption
  <2>2. CASE UNCHANGED vars
    BY <2>2 DEF vars, PromotedHasProvenance, Exists
  <2>3. CASE Next
    <3>1. Steps
      BY <2>3, NextTakenApart
    <3>2. Exists(u)
      BY <3>1, StateMoves DEF PromotedHasProvenance, Withdrawn
    <3> QED
      BY <2>1, <3>1, <3>2, StateStep
  <2> QED
    BY <2>2, <2>3
<1> QED
  BY <1>1, <1>2, TypeCorrect, PTL DEF Spec

\* A head names a version of its own logical id that was promoted, whatever happens
\* to the version afterwards: no transaction moves the one without the other.
THEOREM HeadsPublished == Spec => []HeadsArePublished
<1>1. Init => HeadsArePublished
  BY DEF Init, HeadsArePublished
<1>2. TypeOK /\ HeadsArePublished /\ [Next]_vars => HeadsArePublished'
  <2> SUFFICES ASSUME TypeOK, HeadsArePublished, [Next]_vars,
                      NEW h \in Heads, heads'[h] # None
               PROVE  /\ Output[heads'[h]].logical = h[1]
                      /\ state'[heads'[h]] \in {"PROMOTED"} \union Withdrawn
    BY DEF HeadsArePublished
  <2>1. CASE heads'[h] = heads[h]
    <3>1. heads[h] \in Versions
      BY <2>1 DEF TypeOK
    <3>2. Output[heads[h]].logical = h[1]
          /\ state[heads[h]] \in {"PROMOTED"} \union Withdrawn
      BY <2>1 DEF HeadsArePublished
    <3>3. state'[heads[h]] \in {"PROMOTED"} \union Withdrawn
      <4>1. CASE UNCHANGED vars
        BY <3>2, <4>1 DEF vars
      <4>2. CASE Next
        BY <3>1, <3>2, <4>2, NextTakenApart, StateMoves DEF Withdrawn
      <4> QED
        BY <4>1, <4>2
    <3> QED
      BY <2>1, <3>2, <3>3
  <2>2. CASE \E p \in Promoters : CommitPromotion(p) /\ heads'[h] # heads[h]
    <3>1. PICK p \in Promoters : CommitPromotion(p) /\ heads'[h] # heads[h]
      BY <2>2
    <3>2. HeadOf(p) = h /\ heads'[h] = promo[p].version
      BY <3>1 DEF CommitPromotion, TransitionsAllowed, TypeOK
    <3>3. promo[p].version \in Versions
      BY <3>1, PromotionType DEF CommitPromotion, TransitionsAllowed, Promotion
    <3>4. state'[promo[p].version] = "PROMOTED"
      BY <3>1, <3>3 DEF CommitPromotion, TransitionsAllowed, TypeOK
    <3> QED
      BY <3>2, <3>4 DEF HeadOf
  <2> QED
    BY <2>1, <2>2, NextTakenApart
    DEF vars, Steps, CreateOutput, Finalize, RecordEvidence, Expire, BeginPromotion,
        KeepsAllButPromo, AbortPromotion, BeginInvalidation, ReadAffectedEvidence,
        CommitInvalidation, AbortInvalidation
<1> QED
  BY <1>1, <1>2, TypeCorrect, PTL DEF Spec

\* Of the requests that expect the same head one replaces it: the head moves only
\* from the version that the request moving it had read.
THEOREM HeadsMoveFromExpected == Spec => HeadMovesFromExpected
<1> DEFINE Moves(h) == \E p \in Promoters :
              /\ promo[p].at = "commit"
              /\ promo'[p] = NoPromotion
              /\ HeadOf(p) = h
              /\ promo[p].expected = heads[h]
              /\ promo[p].version = heads'[h]
<1>1. TypeOK /\ [Next]_vars => [\A h \in Heads : heads'[h] # heads[h] => Moves(h)]_vars
  <2> SUFFICES ASSUME TypeOK, Next, NEW h \in Heads, heads'[h] # heads[h]
               PROVE  Moves(h)
    OBVIOUS
  <2>1. CASE \E p \in Promoters : CommitPromotion(p)
    <3> PICK p \in Promoters : CommitPromotion(p)
      BY <2>1
    <3>1. HeadOf(p) = h /\ heads'[h] = promo[p].version
      BY DEF CommitPromotion, TransitionsAllowed, TypeOK
    <3>2. promo[p].at = "commit" /\ promo'[p] = NoPromotion
          /\ promo[p].expected = heads[h]
      BY <3>1 DEF CommitPromotion, TransitionsAllowed, HeadUnchanged, TypeOK
    <3> QED
      BY <3>1, <3>2
  <2> QED
    BY <2>1, NextTakenApart
    DEF Steps, CreateOutput, Finalize, RecordEvidence, Expire, BeginPromotion,
        KeepsAllButPromo, AbortPromotion, BeginInvalidation, ReadAffectedEvidence,
        CommitInvalidation, AbortInvalidation
<1> QED
  BY <1>1, TypeCorrect, PTL DEF Spec, HeadMovesFromExpected

\* What an invalidation in progress read as INVALIDATED is INVALIDATED.
SeenInvalidated ==
    \A i \in Invalidators : inval[i] # NoInvalidation =>
        \A v \in Versions : inval[i].seen[v] = "INVALIDATED" => state[v] = "INVALIDATED"

LEMMA SeenInvalidatedStep ==
  ASSUME TypeOK, Steps, SeenInvalidated
  PROVE  SeenInvalidated'
<1> SUFFICES ASSUME NEW i \in Invalidators, inval'[i] # NoInvalidation, NEW v \in Versions,
                    inval'[i].seen[v] = "INVALIDATED"
             PROVE  state'[v] = "INVALIDATED"
  BY DEF SeenInvalidated
<1>1. CASE \E u \in Versions : BeginInvalidation(i, u)
  BY <1>1 DEF BeginInvalidation, TypeOK
<1>2. CASE inval'[i].seen = inval[i].seen /\ inval[i] # NoInvalidation
  BY <1>2, StateMoves DEF SeenInvalidated, Unverified
<1>3. CASE ReadAffectedEvidence(i)
  <2>1. inval[i] \in Invalidation /\ inval[i] # NoInvalidation
    BY <1>3, InvalidationType DEF ReadAffectedEvidence
  <2>2. inval'[i].seen = inval[i].seen
    BY <1>3, <2>1 DEF ReadAffectedEvidence, TypeOK, Invalidation
  <2> QED
    BY <1>2, <2>1, <2>2
<1>4. CASE inval'[i] = inval[i]
  BY <1>2, <1>4
<1>5. CASE \E k \in Invalidators : CommitInvalidation(k) \/ AbortInvalidation(k)
  <2>1. inval'[i] = inval[i]
    BY <1>5 DEF CommitInvalidation, AbortInvalidation, TypeOK
  <2> QED
    BY <1>4, <2>1
<1>6. CASE \E k \in Invalidators : ReadAffectedEvidence(k)
  <2>1. ReadAffectedEvidence(i) \/ inval'[i] = inval[i]
    BY <1>6 DEF ReadAffectedEvidence, TypeOK
  <2> QED
    BY <1>3, <1>4, <2>1
<1>7. CASE \E k \in Invalidators, u \in Versions : BeginInvalidation(k, u)
  <2>1. (\E u \in Versions : BeginInvalidation(i, u)) \/ inval'[i] = inval[i]
    BY <1>7 DEF BeginInvalidation, TypeOK
  <2> QED
    BY <1>1, <1>4, <2>1
<1>8. CASE UNCHANGED inval
  BY <1>4, <1>8
<1> QED
  BY <1>5, <1>6, <1>7, <1>8
  DEF Steps, CreateOutput, Finalize, RecordEvidence, Expire, BeginPromotion, KeepsAllButPromo,
      CommitPromotion, TransitionsAllowed, AbortPromotion

\* An invalidation that takes effect leaves no version it concerns current, unless it
\* had read it as STALE, and none of the Evidence it read as passing, whatever
\* promotions and other invalidations committed since.
THEOREM InvalidationsReach == Spec => InvalidationReaches
<1>1. Init => SeenInvalidated
  BY DEF Init, SeenInvalidated
<1>2. TypeOK /\ SeenInvalidated /\ [Next]_vars => SeenInvalidated'
  <2>1. CASE UNCHANGED vars
    BY <2>1 DEF vars, SeenInvalidated
  <2>2. CASE Next
    BY <2>2, NextTakenApart, SeenInvalidatedStep
  <2> QED
    BY <2>1, <2>2
<1> DEFINE Ends(i) == /\ inval[i].at = "commit" /\ inval'[i] = NoInvalidation
                      /\ <<state, evidence>>' # <<state, evidence>>
           Reaches(i) ==
               /\ \A v \in inval[i].affected :
                     inval[i].seen[v] # "STALE" => state'[v] \in Withdrawn
               /\ \A f \in Fingerprints :
                     Key[f].subject \in inval[i].dirty => evidence'[f] # "PASS"
<1>3. TypeOK /\ SeenInvalidated /\ [Next]_vars =>
        [\A i \in Invalidators : Ends(i) => Reaches(i)]_vars
  <2> SUFFICES ASSUME TypeOK, SeenInvalidated, Next, NEW i \in Invalidators, Ends(i)
               PROVE  Reaches(i)
    OBVIOUS
  <2>1. inval[i] \in Invalidation /\ inval[i] # NoInvalidation
    BY InvalidationType
  <2>2. CommitInvalidation(i)
    <3>1. inval'[i] # inval[i]
      BY <2>1
    <3> QED
      BY <3>1, NextTakenApart
      DEF Steps, CreateOutput, Finalize, RecordEvidence, Expire, BeginPromotion,
          KeepsAllButPromo, CommitPromotion, TransitionsAllowed, AbortPromotion, BeginInvalidation,
          ReadAffectedEvidence, CommitInvalidation, AbortInvalidation, TypeOK
  <2>3. ASSUME NEW v \in inval[i].affected, inval[i].seen[v] # "STALE"
        PROVE  state'[v] \in Withdrawn
    <3>1. v \in Versions
      BY <2>1 DEF Invalidation
    <3>2. inval[i].seen[v] \in Withdrawn => state[v] = "INVALIDATED"
      BY <2>1, <2>3, <3>1 DEF SeenInvalidated, Withdrawn
    <3> QED
      BY <2>2, <3>1, <3>2, CommitInvalidationState DEF Withdrawn
  <2>4. ASSUME NEW f \in Fingerprints, Key[f].subject \in inval[i].dirty
        PROVE  evidence'[f] # "PASS"
    BY <2>2, <2>4 DEF CommitInvalidation, TypeOK
  <2> QED
    BY <2>3, <2>4
<1> QED
  BY <1>1, <1>2, <1>3, TypeCorrect, PTL DEF Spec, InvalidationReaches
============================================================================
