-------------------------- MODULE OutputLifecycle --------------------------
(***************************************************************************)
(* The life of Output versions as the API changes it: creation and        *)
(* finalisation, recording of Evidence, promotion to a logical head and    *)
(* invalidation of a version with everything derived from it               *)
(* (apps/api/src/routes/outputs.ts, routes/lineage.ts, with the rules of   *)
(* packages/lifecycle, packages/lineage and the tables of packages/db).    *)
(*                                                                         *)
(* Promotion and invalidation are PostgreSQL transactions at READ          *)
(* COMMITTED: every SELECT is a step of its own that sees what is          *)
(* committed when it runs, and other transactions commit in between.  All  *)
(* writes of a transaction are one step, its commit: each UPDATE is        *)
(* guarded by the value it expects and keeps its row locked until the      *)
(* commit, so that its guard still holds there.  The one lock that matters *)
(* earlier is that of the fence row, which is taken before the Evidence is *)
(* read: it is modelled as held from AcquireFence on.  A transaction may   *)
(* end without effect at any time (a failed check, a lost connection).     *)
(***************************************************************************)
EXTENDS Integers, FiniteSets

CONSTANTS
    Versions,       \* version ids of Outputs
    Logicals,       \* logical ids: the Outputs that versions are versions of
    Branches,       \* branch names
    Policies,       \* policy versions
    Verifiers,      \* verifier types
    Fingerprints,   \* Evidence fingerprints: one identifies one Evidence record
    None,           \* SQL NULL: no policy version, no head
    Output,         \* what is fixed for a version: logical id, parents, policy
    Key,            \* what a fingerprint is computed from, and whether it expires
    Affected,       \* the versions an invalidation of a version concerns
    Imported,       \* versions stored in state CREATED, not through the API
    Promoters,      \* concurrent promotion requests
    Invalidators    \* concurrent invalidation requests

ASSUME OutputAssumption ==
    /\ None \notin Versions \union Policies
    /\ Output \in [Versions -> [logical : Logicals, parents : SUBSET Versions,
                                policy : Policies \union {None}]]
    /\ Key \in [Fingerprints -> [subject : Versions, verifier : Verifiers,
                                 policy : Policies \union {None}, expires : BOOLEAN]]
    /\ Affected \in [Versions -> SUBSET Versions]
    /\ \A v \in Versions : v \in Affected[v]
    /\ Imported \subseteq Versions

(***************************************************************************)
(* The states of an Output.  "absent" is a version not yet created.        *)
(* VERIFIED, APPROVED and COMMITTED are passed through inside one          *)
(* promotion, and no route leads to REJECTED, CONSUMED or SUPERSEDED.      *)
(***************************************************************************)
States == {"absent", "CREATED", "STAGED", "PROMOTED", "STALE", "INVALIDATED"}
Unverified == {"CREATED", "STAGED"}
Withdrawn  == {"STALE", "INVALIDATED"}

\* FAIL stands for UNKNOWN too: neither satisfies a requirement, neither is STALE.
Verdicts == {"PASS", "FAIL", "STALE"}

Heads == Logicals \X Branches

VARIABLES
    state,       \* lifecycle state of each version
    evidence,    \* verdict of each Evidence record, "none" before it exists
    expired,     \* the records whose expiresAt has passed
    heads,       \* the version each logical head names, or None
    fences,      \* committed fencing token of each head, 0 before the first
    promo,       \* the promotion transactions in progress
    inval,       \* the invalidation transactions in progress
    reverified   \* history: versions that a promotion took out of STALE

vars == <<state, evidence, expired, heads, fences, promo, inval, reverified>>

PromotionSteps == {"head", "fence", "evidence", "commit"}
NoPromotion == [at |-> "idle"]
Promotion ==
    [at : PromotionSteps, version : Versions, branch : Branches,
     policy : Policies \union {None}, required : (SUBSET Verifiers) \ {{}},
     presented : BOOLEAN, seen : States, expected : Versions \union {None},
     token : Nat, passing : SUBSET Fingerprints]

NoInvalidation == [at |-> "idle"]
Invalidation ==
    [at : {"evidence", "commit"}, source : Versions, affected : SUBSET Versions,
     seen : [Versions -> States], dirty : SUBSET Versions]

TypeOK ==
    /\ state \in [Versions -> States]
    /\ evidence \in [Fingerprints -> Verdicts \union {"none"}]
    /\ expired \subseteq Fingerprints
    /\ heads \in [Heads -> Versions \union {None}]
    /\ fences \in [Heads -> Nat]
    /\ promo \in [Promoters -> Promotion \union {NoPromotion}]
    /\ inval \in [Invalidators -> Invalidation \union {NoInvalidation}]
    /\ reverified \subseteq Versions

Init ==
    /\ state = [v \in Versions |-> IF v \in Imported THEN "CREATED" ELSE "absent"]
    /\ evidence = [f \in Fingerprints |-> "none"]
    /\ expired = {}
    /\ heads = [h \in Heads |-> None]
    /\ fences = [h \in Heads |-> 0]
    /\ promo = [p \in Promoters |-> NoPromotion]
    /\ inval = [i \in Invalidators |-> NoInvalidation]
    /\ reverified = {}

Exists(v) == state[v] # "absent"

-----------------------------------------------------------------------------
(***************************************************************************)
(* Creation, finalisation and Evidence                                     *)
(***************************************************************************)

\* Mutant: creating a version anew replaces its row.
CreateOutputUpsert(v) ==
    /\ \A p \in Output[v].parents : Exists(p)
    /\ state' = [state EXCEPT ![v] = "STAGED"]
    /\ UNCHANGED <<evidence, expired, heads, fences, promo, inval, reverified>>

\* The row is inserted as CREATED and staged in the same transaction.
CreateOutput(v) ==
    /\ ~Exists(v)
    /\ \A p \in Output[v].parents : Exists(p)
    /\ state' = [state EXCEPT ![v] = "STAGED"]
    /\ UNCHANGED <<evidence, expired, heads, fences, promo, inval, reverified>>

\* A version in any other state is answered as it is.
Finalize(v) ==
    /\ state[v] = "CREATED"
    /\ state' = [state EXCEPT ![v] = "STAGED"]
    /\ UNCHANGED <<evidence, expired, heads, fences, promo, inval, reverified>>

\* Evidence is accepted in every state of its subject; (subject, fingerprint)
\* is unique, so that the same verification is recorded once.
RecordEvidence(f, verdict) ==
    /\ Exists(Key[f].subject)
    /\ evidence[f] = "none"
    /\ evidence' = [evidence EXCEPT ![f] = verdict]
    /\ UNCHANGED <<state, expired, heads, fences, promo, inval, reverified>>

\* Time passes the expiresAt of a record.
Expire(f) ==
    /\ Key[f].expires
    /\ evidence[f] # "none"
    /\ f \notin expired
    /\ expired' = expired \union {f}
    /\ UNCHANGED <<state, evidence, heads, fences, promo, inval, reverified>>

-----------------------------------------------------------------------------
(***************************************************************************)
(* Promotion                                                               *)
(***************************************************************************)
HeadOf(p) == <<Output[promo[p].version].logical, promo[p].branch>>

\* The policy version a promotion is evaluated under: the one its request
\* names, or else the Output's own.
PolicyInForce(p) ==
    IF promo[p].policy # None THEN promo[p].policy
                              ELSE Output[promo[p].version].policy

\* Mutant: expiry is judged when the Evidence is read, not when it is used.
PolicyApprovesAnyAge(p) ==
    /\ \A t \in promo[p].required : \E f \in promo[p].passing :
          Key[f].verifier = t /\ Key[f].policy = PolicyInForce(p)
    /\ Output[promo[p].version].policy \in {None, PolicyInForce(p)}

\* Each required verifier type has a fresh and passing record of this policy
\* version, and an Output that carries a policy version is judged by that one.
\* Expiry is judged by the clock at the time of the decision, the verdict by the
\* records read before.
PolicyApproves(p) ==
    /\ \A t \in promo[p].required : \E f \in promo[p].passing \ expired :
          Key[f].verifier = t /\ Key[f].policy = PolicyInForce(p)
    /\ Output[promo[p].version].policy \in {None, PolicyInForce(p)}

\* The first read of the transaction.  A version already PROMOTED is answered as
\* it is, whatever the branch and the expected head: nothing changes.
BeginPromotion(p, v, b, policy, required, presented) ==
    /\ promo[p] = NoPromotion
    /\ Exists(v)
    /\ state[v] # "PROMOTED"
    /\ promo' = [promo EXCEPT ![p] =
          [at |-> "head", version |-> v, branch |-> b, policy |-> policy,
           required |-> required, presented |-> presented, seen |-> state[v],
           expected |-> None, token |-> 0, passing |-> {}]]
    /\ UNCHANGED <<state, evidence, expired, heads, fences, inval, reverified>>

\* A request whose expectedHeadVersionId is not the head read here is refused.
ReadHead(p) ==
    /\ promo[p].at = "head"
    /\ promo' = [promo EXCEPT ![p].at = "fence", ![p].expected = heads[HeadOf(p)]]
    /\ UNCHANGED <<state, evidence, expired, heads, fences, inval, reverified>>

HoldsFence(p) ==
    /\ promo[p].at \in {"evidence", "commit"}
    /\ ~promo[p].presented

\* Without a token in the request the fence row is upserted, which waits for any
\* transaction that did so and has not ended.
AcquireFence(p) ==
    /\ promo[p].at = "fence"
    /\ ~promo[p].presented
    /\ \A q \in Promoters : HoldsFence(q) => HeadOf(q) # HeadOf(p)
    /\ promo' = [promo EXCEPT ![p].at = "evidence", ![p].token = fences[HeadOf(p)] + 1]
    /\ UNCHANGED <<state, evidence, expired, heads, fences, inval, reverified>>

\* A token in the request must be the committed one, and its lease unexpired.
PresentFence(p) ==
    /\ promo[p].at = "fence"
    /\ promo[p].presented
    /\ fences[HeadOf(p)] > 0
    /\ promo' = [promo EXCEPT ![p].at = "evidence", ![p].token = fences[HeadOf(p)]]
    /\ UNCHANGED <<state, evidence, expired, heads, fences, inval, reverified>>

ReadEvidence(p) ==
    /\ promo[p].at = "evidence"
    /\ promo' = [promo EXCEPT
          ![p].at = "commit",
          ![p].passing = {f \in Fingerprints : Key[f].subject = promo[p].version
                                               /\ evidence[f] = "PASS"}]
    /\ UNCHANGED <<state, evidence, expired, heads, fences, inval, reverified>>

\* Mutant: an update, swap or check without its condition.
Unconditional(p) == TRUE

\* The first transition of the promotion finds the state its transaction read.
StateUnchanged(p) == state[promo[p].version] = promo[p].seen

\* The head swap finds the expected head.
HeadUnchanged(p) == heads[HeadOf(p)] = promo[p].expected

ProvenanceComplete(p) == \A v \in Output[promo[p].version].parents : Exists(v)

\* What transitionOutput asks on the way from the state that was read to PROMOTED:
\* that there is a way, the approval of the policy to verify, approve and promote, and
\* the parents to commit.  The token and the head it compares as well are given to it
\* as the request's own, that were compared before.
TransitionsAllowed(p) ==
    /\ promo[p].seen \in Unverified \union {"STALE"}
    /\ PolicyApproves(p)
    /\ ProvenanceComplete(p)

(***************************************************************************)
(* CREATED is staged, STAGED and STALE are verified, approved, committed;  *)
(* the head is swapped and the version promoted.  Every transition is      *)
(* conditional on the state of the one before, the first on the state read *)
(* by BeginPromotion.                                                      *)
(***************************************************************************)
CommitPromotion(p) ==
    LET v == promo[p].version
        h == HeadOf(p)
    IN  /\ promo[p].at = "commit"
        /\ TransitionsAllowed(p)
        /\ StateUnchanged(p)
        /\ HeadUnchanged(p)
        /\ state' = [state EXCEPT ![v] = "PROMOTED"]
        /\ heads' = [heads EXCEPT ![h] = v]
        /\ fences' = IF promo[p].presented THEN fences
                     ELSE [fences EXCEPT ![h] = promo[p].token]
        /\ reverified' = IF promo[p].seen = "STALE" THEN reverified \union {v}
                                                    ELSE reverified
        /\ promo' = [promo EXCEPT ![p] = NoPromotion]
        /\ UNCHANGED <<evidence, expired, inval>>

\* The transaction is rolled back: a check failed or its connection was lost.
AbortPromotion(p) ==
    /\ promo[p] # NoPromotion
    /\ promo' = [promo EXCEPT ![p] = NoPromotion]
    /\ UNCHANGED <<state, evidence, expired, heads, fences, inval, reverified>>

-----------------------------------------------------------------------------
(***************************************************************************)
(* Invalidation                                                            *)
(***************************************************************************)

TransitionTarget(i, v) == IF v = inval[i].source THEN "INVALIDATED" ELSE "STALE"

\* Mutant: what is published is not withdrawn.
PlannedUnpublished(i) ==
    {v \in inval[i].affected :
        inval[i].seen[v] \notin {"PROMOTED", "INVALIDATED", TransitionTarget(i, v)}}

\* The versions to move to their target; the others are left alone.
Planned(i) ==
    {v \in inval[i].affected :
        inval[i].seen[v] \notin {"INVALIDATED", TransitionTarget(i, v)}}

\* The source is looked up and the affected Outputs are read.
BeginInvalidation(i, u) ==
    /\ inval[i] = NoInvalidation
    /\ Exists(u)
    /\ inval' = [inval EXCEPT ![i] =
          [at |-> "evidence", source |-> u,
           affected |-> {v \in Affected[u] : Exists(v)},
           seen |-> state, dirty |-> {}]]
    /\ UNCHANGED <<state, evidence, expired, heads, fences, promo, reverified>>

\* Their Evidence is read next: dirty are the versions that have a record whose
\* verdict is not STALE.
ReadAffectedEvidence(i) ==
    /\ inval[i].at = "evidence"
    /\ inval' = [inval EXCEPT
          ![i].at = "commit",
          ![i].dirty = {v \in inval[i].affected : \E f \in Fingerprints :
                           Key[f].subject = v /\ evidence[f] \in {"PASS", "FAIL"}}]
    /\ UNCHANGED <<state, evidence, expired, heads, fences, promo, reverified>>

\* Each planned transition is conditional on the state read; the Evidence of a
\* dirty version is marked stale as it stands now, whatever its subject's state.
CommitInvalidation(i) ==
    /\ inval[i].at = "commit"
    /\ \A v \in Planned(i) : state[v] = inval[i].seen[v]
    /\ state' = [v \in Versions |-> IF v \in Planned(i) THEN TransitionTarget(i, v)
                                                        ELSE state[v]]
    /\ evidence' = [f \in Fingerprints |->
          IF Key[f].subject \in inval[i].dirty /\ evidence[f] # "none"
          THEN "STALE" ELSE evidence[f]]
    /\ inval' = [inval EXCEPT ![i] = NoInvalidation]
    /\ UNCHANGED <<expired, heads, fences, promo, reverified>>

AbortInvalidation(i) ==
    /\ inval[i] # NoInvalidation
    /\ inval' = [inval EXCEPT ![i] = NoInvalidation]
    /\ UNCHANGED <<state, evidence, expired, heads, fences, promo, reverified>>

-----------------------------------------------------------------------------
PromotionNext(p) ==
    \/ \E v \in Versions, b \in Branches, policy \in Policies \union {None},
          required \in (SUBSET Verifiers) \ {{}}, presented \in BOOLEAN :
          BeginPromotion(p, v, b, policy, required, presented)
    \/ ReadHead(p)
    \/ AcquireFence(p)
    \/ PresentFence(p)
    \/ ReadEvidence(p)
    \/ CommitPromotion(p)
    \/ AbortPromotion(p)

InvalidationNext(i) ==
    \/ \E u \in Versions : BeginInvalidation(i, u)
    \/ ReadAffectedEvidence(i)
    \/ CommitInvalidation(i)
    \/ AbortInvalidation(i)

Next ==
    \/ \E v \in Versions : CreateOutput(v)
    \/ \E v \in Versions : Finalize(v)
    \/ \E f \in Fingerprints, verdict \in Verdicts : RecordEvidence(f, verdict)
    \/ \E f \in Fingerprints : Expire(f)
    \/ \E p \in Promoters : PromotionNext(p)
    \/ \E i \in Invalidators : InvalidationNext(i)

Spec == Init /\ [][Next]_vars

-----------------------------------------------------------------------------
(***************************************************************************)
(* Properties                                                              *)
(***************************************************************************)

\* A logical head names a version of its own logical id that was promoted, and
\* that has been left where it is or withdrawn since: whatever transactions
\* interleave, the head swap and the promotion of the version commit together
\* (outputs.ts:743-773).
HeadsArePublished ==
    \A h \in Heads : heads[h] # None =>
        /\ Output[heads[h]].logical = h[1]
        /\ state[heads[h]] \in {"PROMOTED"} \union Withdrawn

\* Some record still passes for v, under the policy version the Output carries.
Supported(v) ==
    \E f \in Fingerprints :
        /\ Key[f].subject = v
        /\ evidence[f] = "PASS"
        /\ Output[v].policy \in {None, Key[f].policy}

\* A version that is PROMOTED, and was never promoted out of STALE, still has
\* passing Evidence: an invalidation withdraws it only together with the version,
\* however it races the promotion, because both are conditional on the state of
\* the version (outputs.ts:151-166, lineage.ts:430-446).
FirstPromotionIsSupported ==
    \A v \in Versions \ reverified : state[v] = "PROMOTED" => Supported(v)

\* A version promoted has all its parents in the project (provenance closure at
\* COMMITTED, outputs.ts:717-736), even one that did not come through the API.
PromotedHasProvenance ==
    \A v \in Versions : state[v] = "PROMOTED" => \A u \in Output[v].parents : Exists(u)

\* An INVALIDATED version stays so: no promotion that read an earlier state
\* brings it back, no later invalidation softens it to STALE.
InvalidatedIsFinal ==
    [][\A v \in Versions : state[v] = "INVALIDATED" => state'[v] = "INVALIDATED"]_vars

\* The step that makes a version PROMOTED finds passing Evidence of it, not only at
\* the time when the transaction read it. It has not expired at that step, which is
\* the one that decides (outputs.ts:147): the clock is read there, some statements
\* before the commit.
PromotedOnFreshEvidence(v) ==
    state'[v] = "PROMOTED" =>
        \E f \in Fingerprints \ expired : Key[f].subject = v /\ evidence[f] = "PASS"

\* So it is whenever a version is promoted for the first time.
FirstPromotionUsesFreshEvidence ==
    [][\A v \in Versions : state[v] \in Unverified => PromotedOnFreshEvidence(v)]_vars

\* "A policy-gated Output cannot be promoted without required fresh Evidence"
\* (guideline.md:467), for every promotion.  It fails: a STALE version is not
\* updated by a second invalidation, which withdraws new Evidence of it without
\* the promotion in progress finding the version changed.
PromotionUsesFreshEvidence ==
    [][\A v \in Versions : state[v] # "PROMOTED" => PromotedOnFreshEvidence(v)]_vars

\* "Exactly one candidate can replace a given expected head" (docs/decisions/
\* 0002): a head only ever moves away from the version that the request which
\* moves it had read as its expected head.
HeadMovesFromExpected ==
    [][\A h \in Heads : heads'[h] # heads[h] =>
          \E p \in Promoters :
              /\ promo[p].at = "commit"
              /\ promo'[p] = NoPromotion
              /\ HeadOf(p) = h
              /\ promo[p].expected = heads[h]
              /\ promo[p].version = heads'[h]]_vars

\* An invalidation that takes effect leaves none of the versions it concerns
\* current, except one that it read as STALE already, and none of their Evidence
\* that it read as passing.
InvalidationReaches ==
    [][\A i \in Invalidators :
          (/\ inval[i].at = "commit" /\ inval'[i] = NoInvalidation
           /\ <<state, evidence>>' # <<state, evidence>>) =>
          /\ \A v \in inval[i].affected :
                inval[i].seen[v] # "STALE" => state'[v] \in Withdrawn
          /\ \A f \in Fingerprints :
                Key[f].subject \in inval[i].dirty => evidence'[f] # "PASS"]_vars

============================================================================
