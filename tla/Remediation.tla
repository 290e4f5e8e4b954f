----------------------------- MODULE Remediation -----------------------------
(***************************************************************************)
(* Effects of the manual connector, the only one this build installs: an   *)
(* operator performs the write and records receipts, the worker only marks *)
(* the effect as waiting for one, and an invalidation of the source output *)
(* leaves obligations that operators work off.                             *)
(*                                                                         *)
(* A request reads its rows, without locks, some statements before its     *)
(* transaction writes: one action reads, another one is the transaction as *)
(* it commits.  What was written before an error is rolled back.           *)
(***************************************************************************)
EXTENDS EffectStatus, FiniteSets

CONSTANTS
    Intents,       \* effect intents
    Versions,      \* output versions
    SourceOf,      \* the version an intent was prepared from
    Affected,      \* the versions an impact of each version covers, itself included
    Irreversible,  \* the intents of reversibility R3
    HighRisk,      \* the intents of risk HIGH or CRITICAL
    Requests       \* concurrent requests and jobs

ASSUME RemediationAssumption ==
    /\ SourceOf \in [Intents -> Versions]
    /\ Affected \in [Versions -> SUBSET Versions]
    /\ \A v \in Versions : v \in Affected[v]
    /\ Irreversible \subseteq Intents /\ HighRisk \subseteq Intents

VARIABLES
    outputs,      \* lifecycle state of each version, as far as effects ask for it
    intents,      \* effect_intents: the status
    settled,      \* effect_receipts: the intents with one that settles them: a receipt
                  \* that says success, or a manual one whatever it says
    obligations,  \* remediation_obligations: one for each intent at most
    requests,     \* what each request read, and is about to do
    late          \* history: intents that were settled too late to be read

vars == <<outputs, intents, settled, obligations, requests, late>>

\* receiptOutcome
ReceiptOutcomes == {"COMMITTED", "FAILED", "RECONCILIATION_REQUIRED"}

\* REMEDIATION_STATUS_TRANSITIONS; NONE is an obligation that does not exist.
Steps ==
    [NONE             |-> {"OPEN", "PENDING_APPROVAL"},
     OPEN             |-> {"PENDING_APPROVAL", "IN_PROGRESS", "WAIVED"},
     PENDING_APPROVAL |-> {"IN_PROGRESS", "WAIVED"},
     IN_PROGRESS      |-> {"PENDING_APPROVAL", "RESOLVED", "WAIVED"},
     RESOLVED         |-> {},
     WAIVED           |-> {}]

Obligation == [status : DOMAIN Steps, approved : BOOLEAN]
Owed(i)    == obligations[i].status # "NONE"

Idle == [kind |-> "idle"]
Starts(r, request)  == requests[r] = Idle /\ requests' = [requests EXCEPT ![r] = request]
Pending(r, kind)    == requests[r].kind = kind
Answered(r)         == requests' = [requests EXCEPT ![r] = Idle]

\* terminalStatus
Terminal(i) == IF i \in Irreversible THEN "IRREVERSIBLE_COMMITTED" ELSE "COMMITTED"

Init ==
    /\ outputs = [v \in Versions |-> "PROMOTED"]
    /\ intents = [i \in Intents |-> "ABSENT"]
    /\ settled = {}
    /\ obligations = [i \in Intents |-> [status |-> "NONE", approved |-> FALSE]]
    /\ requests = [r \in Requests |-> Idle]
    /\ late = {}

-----------------------------------------------------------------------------
(* Operators named ...Unchecked, ...ByRisk, ...All and the like are faulty *)
(* variants of the definition that follows them.                           *)

\* A request that the code answers with an error, or that finds nothing to do.
Refuse(r) ==
    /\ requests[r] # Idle
    /\ Answered(r)
    /\ UNCHANGED <<outputs, intents, settled, obligations, late>>

\* prepare: the source must be valid when it is read.
BeginPrepare(r, i) ==
    /\ outputs[SourceOf[i]] = "PROMOTED"
    /\ Starts(r, [kind |-> "prepare", intent |-> i])
    /\ UNCHANGED <<outputs, intents, settled, obligations, late>>

Prepare(r) ==
    /\ Pending(r, "prepare")
    /\ intents[requests[r].intent] = "ABSENT"
    /\ intents' = [intents EXCEPT ![requests[r].intent] = "PREPARED"]
    /\ Answered(r)
    /\ UNCHANGED <<outputs, settled, obligations, late>>

\* What a receipt makes of its intent.
After(i, outcome) == IF outcome = "COMMITTED" THEN Terminal(i) ELSE outcome

\* From a status that has no direct way the API goes by way of EXECUTING, and the
\* store by way of RECONCILIATION_REQUIRED.
Reaches(between, seen, next) ==
    \/ seen = next
    \/ seen \in {"PREPARED", "FAILED"} /\ Legal(seen, between) /\ Legal(between, next)
    \/ seen \notin {"PREPARED", "FAILED"} /\ Legal(seen, next)

\* POST receipts: any outcome, from any status that the next one is legal from.
BeginReceipt(r, i) ==
    \E outcome \in ReceiptOutcomes :
        /\ Reaches("EXECUTING", intents[i], After(i, outcome))
        /\ Starts(r, [kind |-> "receipt", intent |-> i, seen |-> intents[i], outcome |-> outcome])
        /\ UNCHANGED <<outputs, intents, settled, obligations, late>>

\* ManualReceiptService.record: externalStatus is any string, and nobody looks at it.
BeginManualReceipt(r, i) ==
    /\ intents[i] \in {"PREPARED", "EXECUTING", "FAILED", "RECONCILIATION_REQUIRED"}
    /\ Reaches("RECONCILIATION_REQUIRED", intents[i], Terminal(i))
    /\ Starts(r, [kind |-> "manual", intent |-> i, seen |-> intents[i]])
    /\ UNCHANGED <<outputs, intents, settled, obligations, late>>

CasUnchecked(i, seen) == TRUE

\* updateStatus: a compare-and-set on the status that was read.
Cas(i, seen) == intents[i] = seen

\* A receipt that no invalidation of the source could read any more.
TooLate(i) ==
    \/ outputs[SourceOf[i]] # "PROMOTED"
    \/ \E r \in Requests : Pending(r, "invalidate") /\ SourceOf[i] \in DOMAIN requests[r].states

\* A receipt that settles its intent is appended.
Settles(i) ==
    /\ settled' = settled \cup {i}
    /\ late' = IF i \notin settled /\ TooLate(i) THEN late \cup {i} ELSE late

\* The receipt and the status are one transaction: if the status has moved on,
\* neither is written.  A receipt that repeats the status is only appended.
RecordReceipt(r) ==
    /\ Pending(r, "receipt")
    /\ LET i       == requests[r].intent
           seen    == requests[r].seen
           outcome == requests[r].outcome
           next    == After(i, outcome)
       IN  /\ \/ seen = next /\ UNCHANGED intents
              \/ /\ seen # next
                 /\ Cas(i, seen)
                 /\ intents' = [intents EXCEPT ![i] = next]
           /\ \/ outcome = "COMMITTED" /\ Settles(i)
              \/ outcome # "COMMITTED" /\ UNCHANGED <<settled, late>>
    /\ Answered(r)
    /\ UNCHANGED <<outputs, obligations>>

\* recordManualReceipt: the status becomes the terminal one, and no one looks at
\* what the receipt says: one that says FAILED settles its intent as well.
RecordManualReceipt(r) ==
    /\ Pending(r, "manual")
    /\ LET i == requests[r].intent
       IN  /\ Cas(i, requests[r].seen)
           /\ intents' = [intents EXCEPT ![i] = Terminal(i)]
           /\ Settles(i)
    /\ Answered(r)
    /\ UNCHANGED <<outputs, obligations>>

\* POST reconcile, and moveToReconciliation of a job of a manual connector:
\* what is known to have happened is left alone.
BeginReconcile(r, i) ==
    /\ Legal(intents[i], "RECONCILIATION_REQUIRED")
    /\ Starts(r, [kind |-> "reconcile", intent |-> i, seen |-> intents[i]])
    /\ UNCHANGED <<outputs, intents, settled, obligations, late>>

Reconcile(r) ==
    /\ Pending(r, "reconcile")
    /\ Cas(requests[r].intent, requests[r].seen)
    /\ intents' = [intents EXCEPT ![requests[r].intent] = "RECONCILIATION_REQUIRED"]
    /\ Answered(r)
    /\ UNCHANGED <<outputs, settled, obligations, late>>

-----------------------------------------------------------------------------
(* Invalidation.                                                           *)

OfSourceOnly(v) == {i \in Intents : SourceOf[i] = v /\ intents[i] # "ABSENT"}

\* allAffectedRecords: the intents of every affected version.
AffectedIntents(v) == {i \in Intents : SourceOf[i] \in Affected[v] /\ intents[i] # "ABSENT"}

BeginInvalidate(r, v) ==
    /\ Starts(r, [kind |-> "invalidate", version |-> v,
                  states |-> [w \in Affected[v] |-> outputs[w]],
                  effects |-> [i \in AffectedIntents(v) |-> intents[i]]])
    /\ UNCHANGED <<outputs, intents, settled, obligations, late>>

\* transitionTargetState; the state itself means that there is no transition.
TargetState(w, source, state) ==
    IF state = "INVALIDATED" THEN state ELSE IF w = source THEN "INVALIDATED" ELSE "STALE"

\* EXTERNAL_REALITY_STATUSES
ExternalReality == {"COMMITTED", "COMPENSATION_PENDING", "COMPENSATED", "REMEDIATION_REQUIRED",
                    "IRREVERSIBLE_COMMITTED", "RECONCILIATION_REQUIRED"}

Owing(effects) == {i \in DOMAIN effects : effects[i] \in ExternalReality}

ApprovalByRisk(i) == i \in HighRisk

\* remediationFor
RequiresHumanApproval(i) == i \in HighRisk \/ i \in Irreversible

\* remediationObligations.create: the row that exists keeps its status.
Upsert(i) ==
    IF Owed(i) THEN obligations[i]
    ELSE [obligations[i] EXCEPT !.status = IF RequiresHumanApproval(i) THEN "PENDING_APPROVAL"
                                                                       ELSE "OPEN"]

MarkedAll(effects) == {i \in DOMAIN effects : Cas(i, effects[i])}

\* The effects whose status is moved on; that one has changed is ignored.
Marked(effects) ==
    {i \in Owing(effects) :
        effects[i] \notin {"REMEDIATION_REQUIRED", "COMPENSATED"} /\ Cas(i, effects[i])}

Invalidate(r) ==
    /\ Pending(r, "invalidate")
    /\ LET version == requests[r].version
           states  == requests[r].states
           effects == requests[r].effects
           target  == [w \in DOMAIN states |-> TargetState(w, version, states[w])]
       IN  /\ \A w \in DOMAIN states : target[w] # states[w] => outputs[w] = states[w]
           /\ outputs' = [w \in Versions |->
                 IF w \in DOMAIN states /\ target[w] # states[w] THEN target[w] ELSE outputs[w]]
           /\ obligations' = [i \in Intents |->
                 IF i \in Owing(effects) THEN Upsert(i) ELSE obligations[i]]
           /\ intents' = [i \in Intents |->
                 IF i \in Marked(effects) THEN "REMEDIATION_REQUIRED" ELSE intents[i]]
    /\ Answered(r)
    /\ UNCHANGED <<settled, late>>

\* A version with new Evidence is promoted again (OutputLifecycle).
Repromote(v) ==
    /\ outputs[v] = "STALE"
    /\ outputs' = [outputs EXCEPT ![v] = "PROMOTED"]
    /\ UNCHANGED <<intents, settled, obligations, requests, late>>

-----------------------------------------------------------------------------
(* Operators work obligations off.                                         *)

\* The status an operator saw on the page is the one the request expects.
BeginStep(r, i) ==
    \E next \in Steps[obligations[i].status] :
        /\ Owed(i)
        /\ Starts(r, [kind |-> "step", intent |-> i,
                      expected |-> obligations[i].status, next |-> next])
        /\ UNCHANGED <<outputs, intents, settled, obligations, late>>

AsExpectedUnchecked(i, expected) == TRUE

\* remediationObligations.updateStatus: a compare-and-set on the expected status.
AsExpected(i, expected) == obligations[i].status = expected

\* Leaving PENDING_APPROVAL records who approved.
Step(r) ==
    /\ Pending(r, "step")
    /\ LET i        == requests[r].intent
           expected == requests[r].expected
           next     == requests[r].next
       IN  /\ AsExpected(i, expected)
           /\ obligations' = [obligations EXCEPT ![i] =
                 [status   |-> next,
                  approved |-> \/ obligations[i].approved
                               \/ /\ expected = "PENDING_APPROVAL"
                                  /\ next \in {"IN_PROGRESS", "WAIVED"}]]
    /\ Answered(r)
    /\ UNCHANGED <<outputs, intents, settled, late>>

-----------------------------------------------------------------------------
Begin(r) ==
    \/ \E i \in Intents : \/ BeginPrepare(r, i)
                          \/ BeginReceipt(r, i)
                          \/ BeginManualReceipt(r, i)
                          \/ BeginReconcile(r, i)
                          \/ BeginStep(r, i)
    \/ \E v \in Versions : BeginInvalidate(r, v)

End(r) == \/ Prepare(r) \/ RecordReceipt(r) \/ RecordManualReceipt(r) \/ Reconcile(r)
          \/ Invalidate(r) \/ Step(r) \/ Refuse(r)

Next == \/ \E r \in Requests : Begin(r) \/ End(r)
        \/ \E v \in Versions : Repromote(v)

Spec == Init /\ [][Next]_vars

-----------------------------------------------------------------------------
(* Properties.                                                             *)

TypeOK ==
    /\ outputs \in [Versions -> {"PROMOTED", "STALE", "INVALIDATED"}]
    /\ intents \in [Intents -> EffectStatuses]
    /\ settled \subseteq Intents
    /\ obligations \in [Intents -> Obligation]
    /\ late \subseteq Intents

\* Status and receipts tell the same story, however requests that read an older
\* status end: an effect is shown as committed only with a receipt of a success, or with
\* a manual one, which the service takes for a success whatever it says; and once such
\* a receipt is recorded no later receipt of a failure, no reconcile request and no job
\* makes the effect look open or failed again (POST receipts, effects.ts;
\* recordManualReceipt, effect-store.ts).
StatusTellsReceipts == \A i \in Intents :
    /\ intents[i] \in {"COMMITTED", "IRREVERSIBLE_COMMITTED"} => i \in settled
    /\ i \in settled => intents[i] \in {Terminal(i), "REMEDIATION_REQUIRED"}

\* An effect that asks for remediation has an obligation that operators can see,
\* although the two are written by different statements, and the status by a
\* compare-and-set whose miss is ignored (lineage.ts, invalidate).
RemediationIsOwed == \A i \in Intents :
    intents[i] = "REMEDIATION_REQUIRED" => Owed(i)

\* Invalidating a source later leaves an obligation for every committed effect of
\* the source and of what was derived from it, unless the receipt that settled it was
\* recorded while or after the invalidation read the effects (createInvalidationPlan).
CommittedIsOwed == \A i \in Intents :
    i \in settled /\ outputs[SourceOf[i]] # "PROMOTED" /\ i \notin late
        => Owed(i)

\* Remediation of a high-risk or irreversible effect is approved before it is
\* worked on or settled, on every way through the statuses and however often the
\* source is invalidated again (remediationFor, POST remediations/:id/transition).
ApprovedBeforeWork == \A i \in Intents :
    /\ i \in HighRisk \cup Irreversible
    /\ obligations[i].status \in {"IN_PROGRESS", "RESOLVED", "WAIVED"}
    => obligations[i].approved

\* Whatever operators and invalidations do at the same time, an obligation moves
\* along REMEDIATION_STATUS_TRANSITIONS only: none is lost, and a resolved or
\* waived one stays so.
LegalObligations == [][\A i \in Intents :
    obligations'[i].status # obligations[i].status
        => obligations'[i].status \in Steps[obligations[i].status]]_vars
=============================================================================
