-------------------------- MODULE RemediationProofs --------------------------
(***************************************************************************)
(* Proofs about receipts, invalidations and remediation obligations, for   *)
(* any number of effects, versions and requests at a time, and any impact. *)
(***************************************************************************)
EXTENDS Remediation, TLAPS

OutputStates == {"PROMOTED", "STALE", "INVALIDATED"}

\* What a request may hold between its reads and its writes: a receipt follows a way
\* that was legal from the status it saw, a reconcile request one to
\* RECONCILIATION_REQUIRED, and the step of an operator a step of an obligation.
Receipts ==
    {q \in [kind : {"receipt"}, intent : Intents, seen : EffectStatuses, outcome : ReceiptOutcomes] :
        \/ q.seen \in {"PREPARED", "FAILED"}
        \/ q.seen = After(q.intent, q.outcome)
        \/ Legal(q.seen, After(q.intent, q.outcome))}

ManualReceipts ==
    {q \in [kind : {"manual"}, intent : Intents, seen : EffectStatuses] :
        /\ q.seen \in {"PREPARED", "EXECUTING", "FAILED", "RECONCILIATION_REQUIRED"}
        /\ q.seen \in {"PREPARED", "FAILED"} \/ Legal(q.seen, Terminal(q.intent))}

Reconciles ==
    {q \in [kind : {"reconcile"}, intent : Intents, seen : EffectStatuses] :
        Legal(q.seen, "RECONCILIATION_REQUIRED")}

OperatorSteps ==
    {q \in [kind : {"step"}, intent : Intents, expected : DOMAIN Steps, next : DOMAIN Steps] :
        q.expected # "NONE" /\ q.next \in Steps[q.expected]}

Invalidations ==
    UNION {[kind : {"invalidate"}, version : {v}, states : [Affected[v] -> OutputStates],
            effects : UNION {[read -> EffectStatuses] : read \in SUBSET Intents}] : v \in Versions}

Request == {Idle} \union [kind : {"prepare"}, intent : Intents]
                  \union Receipts \union ManualReceipts \union Reconciles
                  \union OperatorSteps \union Invalidations

RequestsTyped == requests \in [Requests -> Request]

\* A receipt that repeats a success was preceded by one.
RepeatsAreKnown == \A r \in Requests :
    /\ Pending(r, "receipt")
    /\ requests[r].seen \in {"COMMITTED", "IRREVERSIBLE_COMMITTED"}
    => requests[r].intent \in settled

\* An obligation that needs an approval waits for it, or has it.
WaitsForApproval == \A i \in Intents :
    RequiresHumanApproval(i) =>
        \/ obligations[i].status \in {"NONE", "PENDING_APPROVAL"}
        \/ obligations[i].approved

\* An invalidation under way has read every success that is not too late for it.
ReadsSuccesses == \A r \in Requests, i \in Intents :
    /\ Pending(r, "invalidate")
    /\ SourceOf[i] \in DOMAIN requests[r].states
    /\ i \in settled \ late
    => i \in Owing(requests[r].effects)

RemediationInv ==
    /\ TypeOK /\ RequestsTyped
    /\ RepeatsAreKnown /\ StatusTellsReceipts
    /\ RemediationIsOwed
    /\ WaitsForApproval
    /\ ReadsSuccesses /\ CommittedIsOwed

-----------------------------------------------------------------------------
(* The two machines, as facts that the steps cite.                         *)

LEMMA StatusNames ==
    EffectStatuses = {"ABSENT", "PREPARED", "EXECUTING", "COMMITTED", "FAILED",
                      "COMPENSATION_PENDING", "COMPENSATED", "REMEDIATION_REQUIRED",
                      "IRREVERSIBLE_COMMITTED", "RECONCILIATION_REQUIRED"}
  BY DEF EffectStatuses, Successors

LEMMA StepNames ==
    DOMAIN Steps = {"NONE", "OPEN", "PENDING_APPROVAL", "IN_PROGRESS", "RESOLVED", "WAIVED"}
  BY DEF Steps

\* What is known to have happened is left alone.
LEMMA SettledStays ==
    ASSUME NEW seen \in {"ABSENT", "COMMITTED", "IRREVERSIBLE_COMMITTED", "REMEDIATION_REQUIRED"},
           NEW next \in {"COMMITTED", "IRREVERSIBLE_COMMITTED", "FAILED", "RECONCILIATION_REQUIRED"}
    PROVE  ~Legal(seen, next)
  BY DEF Legal, Successors

LEMMA Afterwards ==
    ASSUME NEW i \in Intents, NEW outcome \in ReceiptOutcomes
    PROVE  /\ Terminal(i) \in {"COMMITTED", "IRREVERSIBLE_COMMITTED"}
           /\ After(i, outcome) \in EffectStatuses
           /\ outcome = "COMMITTED" => After(i, outcome) = Terminal(i)
           /\ outcome # "COMMITTED" => After(i, outcome) \in {"FAILED", "RECONCILIATION_REQUIRED"}
  BY StatusNames DEF After, Terminal, ReceiptOutcomes

LEMMA StepsFollow ==
    ASSUME NEW from \in DOMAIN Steps, NEW to \in Steps[from]
    PROVE  /\ to \in DOMAIN Steps
           /\ to # "NONE"
           /\ from # "NONE" => to # "OPEN"
           /\ from \notin {"NONE", "RESOLVED", "WAIVED"} \/ from = "NONE"
  BY StepNames DEF Steps

-----------------------------------------------------------------------------
(* Requests.                                                               *)

\* A request by its kind.
LEMMA ByKind ==
    ASSUME RequestsTyped, NEW r \in Requests
    PROVE  /\ Pending(r, "prepare") => requests[r] \in [kind : {"prepare"}, intent : Intents]
           /\ Pending(r, "receipt") => requests[r] \in Receipts
           /\ Pending(r, "manual") => requests[r] \in ManualReceipts
           /\ Pending(r, "reconcile") => requests[r] \in Reconciles
           /\ Pending(r, "step") => requests[r] \in OperatorSteps
           /\ Pending(r, "invalidate") => requests[r] \in Invalidations
<1>1. requests[r] \in Request
  BY DEF RequestsTyped
<1> QED
  BY <1>1 DEF Request, Idle, Pending, Receipts, ManualReceipts, Reconciles, OperatorSteps, Invalidations

rows == <<outputs, intents, settled, obligations, late>>

\* The parts of the invariant that speak of the rows alone.
RowsInv == TypeOK /\ StatusTellsReceipts /\ RemediationIsOwed /\ WaitsForApproval /\ CommittedIsOwed

LEMMA RowsUntouched == RowsInv /\ UNCHANGED rows => RowsInv'
  BY DEF RowsInv, rows, TypeOK, StatusTellsReceipts, RemediationIsOwed, WaitsForApproval,
         CommittedIsOwed, Owed, Terminal, RequiresHumanApproval

\* A request that ends takes nothing with it but what it held.
LEMMA Answering ==
    ASSUME RequestsTyped, NEW r \in Requests, Answered(r)
    PROVE  /\ RequestsTyped'
           /\ \A q \in Requests : requests'[q] \in {Idle, requests[q]}
  BY DEF RequestsTyped, Answered, Request

\* A request that begins leaves the others as they are.
LEMMA Starting ==
    ASSUME RequestsTyped, NEW r \in Requests, NEW request \in Request, Starts(r, request)
    PROVE  /\ RequestsTyped'
           /\ requests'[r] = request
           /\ \A q \in Requests : q # r => requests'[q] = requests[q]
  BY DEF RequestsTyped, Starts

\* What holds of every pending request holds on while some are answered, as long as
\* receipts of successes and lateness are only added where they belong.
LEMMA AnsweringKeepsReads ==
    ASSUME RemediationInv, NEW r \in Requests, Answered(r),
           settled \subseteq settled', late \subseteq late',
           \A i \in Intents : i \in settled' \ settled /\ TooLate(i) => i \in late'
    PROVE  RequestsTyped' /\ RepeatsAreKnown' /\ ReadsSuccesses'
<1>1. /\ RequestsTyped'
      /\ \A q \in Requests : requests'[q] \in {Idle, requests[q]}
  BY Answering DEF RemediationInv
<1>2. \A q \in Requests : Pending(q, "receipt")' \/ Pending(q, "invalidate")'
                             => requests'[q] = requests[q]
  BY <1>1 DEF Pending, Idle
<1>3. RepeatsAreKnown'
  BY <1>2 DEF RemediationInv, RepeatsAreKnown, Pending
<1>4. ReadsSuccesses'
  <2> SUFFICES ASSUME NEW q \in Requests, NEW i \in Intents,
                      Pending(q, "invalidate")',
                      SourceOf[i] \in DOMAIN requests'[q].states,
                      i \in settled' \ late'
               PROVE  i \in Owing(requests'[q].effects)
    BY DEF ReadsSuccesses, Owing
  <2>1. requests'[q] = requests[q] /\ Pending(q, "invalidate")
    BY <1>2 DEF Pending
  <2>2. i \in settled
    BY <2>1 DEF TooLate
  <2> QED
    BY <2>1, <2>2 DEF RemediationInv, ReadsSuccesses
<1> QED
  BY <1>1, <1>3, <1>4

-----------------------------------------------------------------------------
(* Reads.                                                                  *)

LEMMA BeginningKeepsInv ==
    ASSUME RemediationInv, NEW r \in Requests, NEW request \in Request, Starts(r, request),
           UNCHANGED rows,
           /\ request.kind = "receipt"
           /\ request.seen \in {"COMMITTED", "IRREVERSIBLE_COMMITTED"}
           => request.intent \in settled,
           request.kind = "invalidate" =>
               \A i \in settled : SourceOf[i] \in DOMAIN request.states => i \in Owing(request.effects)
    PROVE  RemediationInv'
<1>1. /\ RequestsTyped'
      /\ requests'[r] = request
      /\ \A q \in Requests : q # r => requests'[q] = requests[q]
  BY Starting DEF RemediationInv
<1>2. RepeatsAreKnown'
  BY <1>1 DEF RemediationInv, RepeatsAreKnown, Pending, rows
<1>3. ReadsSuccesses'
  BY <1>1 DEF RemediationInv, ReadsSuccesses, Pending, rows, Owing
<1> QED
  BY <1>1, <1>2, <1>3, RowsUntouched DEF RemediationInv, RowsInv

LEMMA ReceiptBegins ==
    ASSUME RemediationInv, NEW r \in Requests, NEW i \in Intents, NEW outcome \in ReceiptOutcomes,
           Starts(r, [kind |-> "receipt", intent |-> i, seen |-> intents[i], outcome |-> outcome]),
           UNCHANGED rows,
           \/ intents[i] \in {"PREPARED", "FAILED"}
           \/ intents[i] = After(i, outcome)
           \/ Legal(intents[i], After(i, outcome))
    PROVE  RemediationInv'
<1> DEFINE request == [kind |-> "receipt", intent |-> i, seen |-> intents[i], outcome |-> outcome]
<1>1. request \in Request
  BY DEF RemediationInv, TypeOK, Request, Receipts
<1>2. request.seen \in {"COMMITTED", "IRREVERSIBLE_COMMITTED"} => request.intent \in settled
  BY DEF RemediationInv, StatusTellsReceipts
<1>3. Starts(r, request) /\ UNCHANGED rows /\ request.kind = "receipt"
  BY DEF rows
<1> HIDE DEF request
<1> QED
  BY <1>1, <1>2, <1>3, BeginningKeepsInv

LEMMA BeginKeepsInv ==
    ASSUME RemediationInv, NEW r \in Requests, Begin(r)
    PROVE  RemediationInv'
<1>1. ASSUME NEW i \in Intents, BeginPrepare(r, i) PROVE RemediationInv'
  <2> DEFINE request == [kind |-> "prepare", intent |-> i]
  <2>1. request \in Request /\ request.kind = "prepare" /\ Starts(r, request) /\ UNCHANGED rows
    BY <1>1 DEF Request, BeginPrepare, rows
  <2> HIDE DEF request
  <2> QED
    BY <2>1, BeginningKeepsInv
<1>2. ASSUME NEW i \in Intents, BeginReceipt(r, i) PROVE RemediationInv'
  <2>1. PICK outcome \in ReceiptOutcomes :
           /\ Reaches("EXECUTING", intents[i], After(i, outcome))
           /\ Starts(r, [kind |-> "receipt", intent |-> i, seen |-> intents[i], outcome |-> outcome])
           /\ UNCHANGED rows
    BY <1>2 DEF BeginReceipt, rows
  <2> QED
    BY <2>1, ReceiptBegins DEF Reaches
<1>3. ASSUME NEW i \in Intents, BeginManualReceipt(r, i) PROVE RemediationInv'
  <2> DEFINE request == [kind |-> "manual", intent |-> i, seen |-> intents[i]]
  <2>1. intents[i] \in {"PREPARED", "FAILED"} \/ Legal(intents[i], Terminal(i))
    BY <1>3 DEF BeginManualReceipt, Reaches, Terminal
  <2>2. request \in ManualReceipts
    BY <1>3, <2>1 DEF BeginManualReceipt, RemediationInv, TypeOK, ManualReceipts
  <2>3. request \in Request /\ request.kind = "manual"
    BY <2>2 DEF Request
  <2>4. Starts(r, request) /\ UNCHANGED rows
    BY <1>3 DEF BeginManualReceipt, rows
  <2> HIDE DEF request
  <2> QED
    BY <2>3, <2>4, BeginningKeepsInv
<1>4. ASSUME NEW i \in Intents, BeginReconcile(r, i) PROVE RemediationInv'
  <2> DEFINE request == [kind |-> "reconcile", intent |-> i, seen |-> intents[i]]
  <2>1. request \in Request
    BY <1>4 DEF BeginReconcile, Request, Reconciles, RemediationInv, TypeOK
  <2>2. request.kind = "reconcile" /\ Starts(r, request) /\ UNCHANGED rows
    BY <1>4 DEF BeginReconcile, rows
  <2> HIDE DEF request
  <2> QED
    BY <2>1, <2>2, BeginningKeepsInv
<1>5. ASSUME NEW i \in Intents, BeginStep(r, i) PROVE RemediationInv'
  <2>1. PICK next \in Steps[obligations[i].status] :
           /\ Owed(i)
           /\ Starts(r, [kind |-> "step", intent |-> i,
                         expected |-> obligations[i].status, next |-> next])
           /\ UNCHANGED rows
    BY <1>5 DEF BeginStep, rows
  <2> DEFINE request == [kind |-> "step", intent |-> i,
                         expected |-> obligations[i].status, next |-> next]
  <2>2. obligations[i].status \in DOMAIN Steps
    BY DEF RemediationInv, TypeOK, Obligation
  <2>3. request \in OperatorSteps
    BY <2>1, <2>2, StepsFollow DEF OperatorSteps, Owed
  <2>4. request \in Request /\ request.kind = "step"
    BY <2>3 DEF Request
  <2> HIDE DEF request
  <2> QED
    BY <2>1, <2>4, BeginningKeepsInv DEF request
<1>6. ASSUME NEW v \in Versions, BeginInvalidate(r, v) PROVE RemediationInv'
  <2> DEFINE states  == [w \in Affected[v] |-> outputs[w]]
             effects == [i \in AffectedIntents(v) |-> intents[i]]
             request == [kind |-> "invalidate", version |-> v, states |-> states, effects |-> effects]
  <2>1. states \in [Affected[v] -> OutputStates] /\ DOMAIN states = Affected[v]
    BY RemediationAssumption DEF RemediationInv, TypeOK, OutputStates
  <2>2. AffectedIntents(v) \in SUBSET Intents /\ effects \in [AffectedIntents(v) -> EffectStatuses]
    BY DEF AffectedIntents, RemediationInv, TypeOK
  <2>3. \A i \in settled : SourceOf[i] \in Affected[v] => i \in Owing(effects)
    <3> SUFFICES ASSUME NEW i \in settled, SourceOf[i] \in Affected[v]
                 PROVE  i \in AffectedIntents(v) /\ intents[i] \in ExternalReality
      BY DEF Owing
    <3>1. i \in Intents /\ intents[i] \in {"COMMITTED", "IRREVERSIBLE_COMMITTED", "REMEDIATION_REQUIRED"}
      BY DEF RemediationInv, TypeOK, StatusTellsReceipts, Terminal
    <3> QED
      BY <3>1 DEF AffectedIntents, ExternalReality
  <2>4. Starts(r, request) /\ UNCHANGED rows
    BY <1>6 DEF BeginInvalidate, rows
  <2> HIDE DEF states, effects
  <2>5. request \in Invalidations
    BY <2>1, <2>2 DEF Invalidations
  <2>6. request \in Request /\ request.kind = "invalidate"
    BY <2>5 DEF Request
  <2>7. \A i \in settled : SourceOf[i] \in DOMAIN request.states => i \in Owing(request.effects)
    BY <2>1, <2>3
  <2> HIDE DEF request
  <2> QED
    BY <2>4, <2>6, <2>7, BeginningKeepsInv
<1> QED
  BY <1>1, <1>2, <1>3, <1>4, <1>5, <1>6 DEF Begin

-----------------------------------------------------------------------------
(* Writes.                                                                 *)

LEMMA PrepareKeepsInv ==
    ASSUME RemediationInv, NEW r \in Requests, Prepare(r)
    PROVE  RemediationInv'
<1> DEFINE i == requests[r].intent
<1>1. requests[r] \in [kind : {"prepare"}, intent : Intents]
  BY ByKind DEF Prepare, RemediationInv
<1>2. i \in Intents /\ intents[i] = "ABSENT" /\ intents' = [intents EXCEPT ![i] = "PREPARED"]
  BY <1>1 DEF Prepare
<1>3. UNCHANGED <<outputs, settled, obligations, late>> /\ Answered(r)
  BY DEF Prepare
<1> HIDE DEF i
<1>4. i \notin settled
  BY <1>2 DEF RemediationInv, StatusTellsReceipts, Terminal
<1>5. TypeOK'
  BY <1>2, <1>3, StatusNames DEF RemediationInv, TypeOK
<1>6. StatusTellsReceipts' /\ RemediationIsOwed'
  BY <1>2, <1>3, <1>4 DEF RemediationInv, TypeOK, StatusTellsReceipts, RemediationIsOwed, Owed, Terminal
<1>7. WaitsForApproval' /\ CommittedIsOwed'
  BY <1>3 DEF RemediationInv, WaitsForApproval, CommittedIsOwed, RequiresHumanApproval, Owed
<1> QED
  BY <1>3, <1>5, <1>6, <1>7, AnsweringKeepsReads DEF RemediationInv

LEMMA ReceiptKeepsInv ==
    ASSUME RemediationInv, NEW r \in Requests, RecordReceipt(r)
    PROVE  RemediationInv'
<1> DEFINE i       == requests[r].intent
           seen    == requests[r].seen
           outcome == requests[r].outcome
           next    == After(i, outcome)
<1>1. requests[r] \in Receipts
  BY ByKind DEF RecordReceipt, RemediationInv
<1>2. i \in Intents /\ seen \in EffectStatuses /\ outcome \in ReceiptOutcomes
  BY <1>1 DEF Receipts
<1>3. seen \in {"PREPARED", "FAILED"} \/ seen = next \/ Legal(seen, next)
  BY <1>1 DEF Receipts
<1>4. \/ UNCHANGED intents /\ seen = next
      \/ seen # next /\ intents[i] = seen /\ intents' = [intents EXCEPT ![i] = next]
  BY DEF RecordReceipt, Cas
<1>5. /\ settled' = IF outcome = "COMMITTED" THEN settled \union {i} ELSE settled
      /\ late' = IF outcome = "COMMITTED" /\ i \notin settled /\ TooLate(i) THEN late \union {i}
                                                                          ELSE late
  BY DEF RecordReceipt, Settles
<1>6. Answered(r) /\ UNCHANGED <<outputs, obligations>>
  BY DEF RecordReceipt
<1>7. seen \in {"COMMITTED", "IRREVERSIBLE_COMMITTED"} => i \in settled
  BY DEF RecordReceipt, RemediationInv, RepeatsAreKnown
<1>8. /\ next \in EffectStatuses
      /\ Terminal(i) \in {"COMMITTED", "IRREVERSIBLE_COMMITTED"}
      /\ outcome = "COMMITTED" => next = Terminal(i)
      /\ outcome # "COMMITTED" => next \in {"FAILED", "RECONCILIATION_REQUIRED"}
  BY <1>2, Afterwards
<1> HIDE DEF i, seen, outcome, next
\* A status that is known to be settled does not move.
<1>9. intents[i] \in {Terminal(i), "REMEDIATION_REQUIRED"} => UNCHANGED intents
  BY <1>3, <1>4, <1>8, SettledStays
<1>10. TypeOK'
  <2>1. settled' \subseteq Intents
    BY <1>2 DEF i, outcome, RecordReceipt, Settles, RemediationInv, TypeOK
  <2> QED
    BY <1>2, <1>4, <1>5, <1>6, <1>8, <2>1 DEF RemediationInv, TypeOK
<1>11. StatusTellsReceipts'
  <2> SUFFICES ASSUME NEW k \in Intents
               PROVE  /\ intents'[k] \in {"COMMITTED", "IRREVERSIBLE_COMMITTED"} => k \in settled'
                      /\ k \in settled' => intents'[k] \in {Terminal(k), "REMEDIATION_REQUIRED"}
    BY DEF StatusTellsReceipts, Terminal
  <2>1. /\ intents[k] \in {"COMMITTED", "IRREVERSIBLE_COMMITTED"} => k \in settled
        /\ k \in settled => intents[k] \in {Terminal(k), "REMEDIATION_REQUIRED"}
    BY DEF RemediationInv, StatusTellsReceipts
  <2>2. CASE k # i
    <3>1. intents'[k] = intents[k]
      BY <1>2, <1>4, <2>2 DEF RemediationInv, TypeOK
    <3>2. k \in settled' <=> k \in settled
      BY <1>5, <2>2
    <3> QED
      BY <2>1, <3>1, <3>2
  <2>3. CASE k = i
    <3>1. CASE i \in settled
      BY <1>5, <1>9, <2>1, <2>3, <3>1
    <3>2. CASE i \notin settled
      <4>1. outcome = "COMMITTED" => seen # next
        BY <1>7, <1>8, <2>1, <2>3, <3>2
      <4>2. CASE outcome = "COMMITTED"
        BY <1>2, <1>4, <1>5, <1>8, <2>3, <4>1, <4>2 DEF RemediationInv, TypeOK
      <4>3. CASE outcome # "COMMITTED"
        BY <1>2, <1>4, <1>5, <1>8, <2>1, <2>3, <3>2, <4>3 DEF RemediationInv, TypeOK
      <4> QED
        BY <4>2, <4>3
    <3> QED
      BY <3>1, <3>2
  <2> QED
    BY <2>2, <2>3
<1>12. RemediationIsOwed'
  <2>1. next # "REMEDIATION_REQUIRED"
    BY <1>8
  <2> QED
    BY <1>2, <1>4, <1>6, <2>1 DEF RemediationInv, TypeOK, RemediationIsOwed, Owed
<1>13. WaitsForApproval'
  BY <1>6 DEF RemediationInv, WaitsForApproval, RequiresHumanApproval
<1>14. CommittedIsOwed'
  BY <1>5, <1>6 DEF RemediationInv, CommittedIsOwed, Owed, TooLate
<1>15. /\ settled \subseteq settled' /\ late \subseteq late'
       /\ \A k \in Intents : k \in settled' \ settled /\ TooLate(k) => k \in late'
  BY <1>5
<1> QED
  BY <1>6, <1>10, <1>11, <1>12, <1>13, <1>14, <1>15, AnsweringKeepsReads DEF RemediationInv

\* A manual receipt makes the effect a settled one, from a status that is not.
LEMMA ManualReceiptKeepsInv ==
    ASSUME RemediationInv, NEW r \in Requests, RecordManualReceipt(r)
    PROVE  RemediationInv'
<1> DEFINE i == requests[r].intent
<1>1. requests[r] \in ManualReceipts
  BY ByKind DEF RecordManualReceipt, RemediationInv
<1>2. /\ i \in Intents
      /\ intents[i] \in {"PREPARED", "EXECUTING", "FAILED", "RECONCILIATION_REQUIRED"}
      /\ intents' = [intents EXCEPT ![i] = Terminal(i)]
  BY <1>1 DEF ManualReceipts, RecordManualReceipt, Cas
<1>3. /\ settled' = settled \union {i}
      /\ late' = IF i \notin settled /\ TooLate(i) THEN late \union {i} ELSE late
  BY DEF RecordManualReceipt, Settles
<1>4. Answered(r) /\ UNCHANGED <<outputs, obligations>>
  BY DEF RecordManualReceipt
<1> HIDE DEF i
<1>5. Terminal(i) \in EffectStatuses /\ Terminal(i) \in {"COMMITTED", "IRREVERSIBLE_COMMITTED"}
  BY StatusNames DEF Terminal
<1>6. TypeOK'
  BY <1>2, <1>3, <1>4, <1>5 DEF RemediationInv, TypeOK
<1>7. \A k \in Intents : intents'[k] = IF k = i THEN Terminal(i) ELSE intents[k]
  BY <1>2 DEF RemediationInv, TypeOK
<1>8. StatusTellsReceipts'
  <2> SUFFICES ASSUME NEW k \in Intents
               PROVE  /\ intents'[k] \in {"COMMITTED", "IRREVERSIBLE_COMMITTED"} => k \in settled'
                      /\ k \in settled' => intents'[k] \in {Terminal(k), "REMEDIATION_REQUIRED"}
    BY DEF StatusTellsReceipts, Terminal
  <2> QED
    BY <1>3, <1>7 DEF RemediationInv, StatusTellsReceipts
<1>9. RemediationIsOwed'
  BY <1>4, <1>5, <1>7 DEF RemediationInv, RemediationIsOwed, Owed
<1>10. WaitsForApproval'
  BY <1>4 DEF RemediationInv, WaitsForApproval, RequiresHumanApproval
<1>11. CommittedIsOwed'
  BY <1>3, <1>4 DEF RemediationInv, CommittedIsOwed, Owed, TooLate
<1>12. /\ settled \subseteq settled' /\ late \subseteq late'
       /\ \A k \in Intents : k \in settled' \ settled /\ TooLate(k) => k \in late'
  BY <1>3
<1> QED
  BY <1>4, <1>6, <1>8, <1>9, <1>10, <1>11, <1>12, AnsweringKeepsReads DEF RemediationInv

LEMMA ReconcileKeepsInv ==
    ASSUME RemediationInv, NEW r \in Requests, Reconcile(r)
    PROVE  RemediationInv'
<1> DEFINE i == requests[r].intent
<1>1. requests[r] \in Reconciles
  BY ByKind DEF Reconcile, RemediationInv
<1>2. /\ i \in Intents
      /\ Legal(intents[i], "RECONCILIATION_REQUIRED")
      /\ intents' = [intents EXCEPT ![i] = "RECONCILIATION_REQUIRED"]
  BY <1>1 DEF Reconcile, Reconciles, Cas
<1>3. UNCHANGED <<outputs, settled, obligations, late>> /\ Answered(r)
  BY DEF Reconcile
<1> HIDE DEF i
<1>4. i \notin settled
  BY <1>2, SettledStays DEF RemediationInv, StatusTellsReceipts, Terminal
<1>5. TypeOK'
  BY <1>2, <1>3, StatusNames DEF RemediationInv, TypeOK
<1>6. StatusTellsReceipts' /\ RemediationIsOwed'
  BY <1>2, <1>3, <1>4 DEF RemediationInv, TypeOK, StatusTellsReceipts, RemediationIsOwed, Owed, Terminal
<1>7. WaitsForApproval' /\ CommittedIsOwed'
  BY <1>3 DEF RemediationInv, WaitsForApproval, CommittedIsOwed, RequiresHumanApproval, Owed
<1> QED
  BY <1>3, <1>5, <1>6, <1>7, AnsweringKeepsReads DEF RemediationInv

LEMMA StepKeepsInv ==
    ASSUME RemediationInv, NEW r \in Requests, Step(r)
    PROVE  RemediationInv'
<1> DEFINE i        == requests[r].intent
           expected == requests[r].expected
           next     == requests[r].next
<1>1. requests[r] \in OperatorSteps
  BY ByKind DEF Step, RemediationInv
<1>2. i \in Intents /\ expected \in DOMAIN Steps /\ expected # "NONE" /\ next \in Steps[expected]
  BY <1>1 DEF OperatorSteps
<1>3. PICK approved \in BOOLEAN :
         /\ obligations' = [obligations EXCEPT ![i] = [status |-> next, approved |-> approved]]
         /\ obligations[i].approved => approved
         /\ expected = "PENDING_APPROVAL" => (next \in {"IN_PROGRESS", "WAIVED"} => approved)
  BY DEF Step, RemediationInv, TypeOK, Obligation
<1>4. obligations[i].status = expected
  BY DEF Step, AsExpected
<1>5. UNCHANGED <<outputs, intents, settled, late>> /\ Answered(r)
  BY DEF Step
<1> HIDE DEF i, expected, next
<1>6. next \in DOMAIN Steps /\ next # "NONE" /\ next # "OPEN"
  BY <1>2, StepsFollow
<1>7. TypeOK'
  BY <1>2, <1>3, <1>5, <1>6 DEF RemediationInv, TypeOK, Obligation
<1>8. \A k \in Intents : k # i => obligations'[k] = obligations[k]
  BY <1>3 DEF RemediationInv, TypeOK
<1>9. obligations'[i].status = next
  BY <1>2, <1>3 DEF RemediationInv, TypeOK
<1>10. RemediationIsOwed' /\ CommittedIsOwed'
  BY <1>5, <1>6, <1>8, <1>9 DEF RemediationInv, RemediationIsOwed, CommittedIsOwed, Owed
<1>11. WaitsForApproval'
  <2>1. next \in {"PENDING_APPROVAL", "IN_PROGRESS", "WAIVED", "RESOLVED"}
    BY <1>6, StepNames
  <2>2. expected = "PENDING_APPROVAL" => next \in {"IN_PROGRESS", "WAIVED"}
    BY <1>2 DEF Steps
  <2>3. (obligations[i].approved \/ expected = "PENDING_APPROVAL") => approved
    BY <1>3, <2>2, Zenon
  <2>4. RequiresHumanApproval(i) => obligations'[i].approved
    <3>1. obligations'[i] = [status |-> next, approved |-> approved]
      BY <1>2, <1>3 DEF RemediationInv, TypeOK
    <3>2. obligations'[i].approved = approved
      BY <3>1
    <3>3. RequiresHumanApproval(i) => obligations[i].approved \/ expected = "PENDING_APPROVAL"
      BY <1>2, <1>4 DEF RemediationInv, WaitsForApproval
    <3> QED
      BY <2>3, <3>2, <3>3, Zenon
  <2> QED
    BY <1>8, <2>4 DEF RemediationInv, WaitsForApproval, RequiresHumanApproval
<1>12. StatusTellsReceipts'
  BY <1>5 DEF RemediationInv, StatusTellsReceipts, Terminal
<1> QED
  BY <1>5, <1>7, <1>10, <1>11, <1>12, AnsweringKeepsReads DEF RemediationInv

LEMMA InvalidateKeepsInv ==
    ASSUME RemediationInv, NEW r \in Requests, Invalidate(r)
    PROVE  RemediationInv'
<1> DEFINE version == requests[r].version
           states  == requests[r].states
           effects == requests[r].effects
           target  == [w \in DOMAIN states |-> TargetState(w, version, states[w])]
<1>1. PICK v \in Versions, read \in SUBSET Intents :
         /\ states \in [Affected[v] -> OutputStates]
         /\ effects \in [read -> EffectStatuses]
  <2>1. requests[r] \in Invalidations
    BY ByKind DEF Invalidate, RemediationInv
  <2> QED
    BY <2>1 DEF Invalidations
<1>2. /\ outputs' = [w \in Versions |->
             IF w \in DOMAIN states /\ target[w] # states[w] THEN target[w] ELSE outputs[w]]
      /\ obligations' = [i \in Intents |->
             IF i \in Owing(effects) THEN Upsert(i) ELSE obligations[i]]
      /\ intents' = [i \in Intents |->
             IF i \in Marked(effects) THEN "REMEDIATION_REQUIRED" ELSE intents[i]]
  BY DEF Invalidate
<1>3. Answered(r) /\ UNCHANGED <<settled, late>>
  BY DEF Invalidate
<1>4. \A i \in settled \ late : SourceOf[i] \in DOMAIN states => i \in Owing(effects)
  BY DEF Invalidate, RemediationInv, ReadsSuccesses, TypeOK
<1>5. \A w \in DOMAIN states : target[w] \in OutputStates
  BY <1>1 DEF TargetState, OutputStates
<1> HIDE DEF version, states, effects, target
\* Obligations are added, and never taken away or reset.
<1>6. \A i \in Intents :
         /\ obligations'[i] \in Obligation
         /\ Owed(i) => obligations'[i] = obligations[i]
         /\ i \in Owing(effects) => Owed(i)'
         /\ RequiresHumanApproval(i) =>
               obligations'[i].status = "PENDING_APPROVAL" \/ obligations'[i] = obligations[i]
  <2> SUFFICES ASSUME NEW i \in Intents
               PROVE  /\ obligations'[i] \in Obligation
                      /\ Owed(i) => obligations'[i] = obligations[i]
                      /\ i \in Owing(effects) => Owed(i)'
                      /\ RequiresHumanApproval(i) => \/ obligations'[i].status = "PENDING_APPROVAL"
                                                    \/ obligations'[i] = obligations[i]
    OBVIOUS
  <2>1. obligations[i] \in Obligation
    BY DEF RemediationInv, TypeOK
  <2>2. obligations'[i] = IF i \in Owing(effects) THEN Upsert(i) ELSE obligations[i]
    BY <1>2
  <2> DEFINE new == Upsert(i)
  <2>3. /\ new \in Obligation
        /\ new.status # "NONE"
        /\ Owed(i) => new = obligations[i]
        /\ RequiresHumanApproval(i) => new.status = "PENDING_APPROVAL" \/ new = obligations[i]
    BY <2>1, StepNames DEF Upsert, Obligation, Owed
  <2> HIDE DEF new
  <2> QED
    BY <2>1, <2>2, <2>3 DEF Owed, new
<1>7. TypeOK'
  <2>1. outputs' \in [Versions -> {"PROMOTED", "STALE", "INVALIDATED"}]
    BY <1>2, <1>5 DEF RemediationInv, TypeOK, OutputStates
  <2>2. intents' \in [Intents -> EffectStatuses]
    BY <1>2, StatusNames DEF RemediationInv, TypeOK
  <2>3. obligations' \in [Intents -> Obligation]
    BY <1>2, <1>6
  <2> QED
    BY <1>3, <2>1, <2>2, <2>3 DEF RemediationInv, TypeOK
<1>8. \A i \in Intents : \/ intents'[i] = intents[i]
                         \/ i \in Owing(effects) /\ intents'[i] = "REMEDIATION_REQUIRED"
  BY <1>2 DEF Marked
<1>9. StatusTellsReceipts'
  BY <1>3, <1>8 DEF RemediationInv, StatusTellsReceipts, Terminal
<1>10. RemediationIsOwed'
  BY <1>6, <1>8 DEF RemediationInv, RemediationIsOwed, Owed
<1>11. WaitsForApproval'
  BY <1>6 DEF RemediationInv, WaitsForApproval, RequiresHumanApproval
<1>12. CommittedIsOwed'
  <2> SUFFICES ASSUME NEW i \in Intents, i \in settled, outputs'[SourceOf[i]] # "PROMOTED",
                      i \notin late
               PROVE  Owed(i)'
    BY <1>3 DEF CommittedIsOwed, Owed
  <2>1. SourceOf[i] \in Versions
    BY RemediationAssumption
  <2>2. CASE SourceOf[i] \in DOMAIN states
    BY <1>4, <1>6, <2>2
  <2>3. CASE SourceOf[i] \notin DOMAIN states
    BY <1>2, <1>6, <2>1, <2>3 DEF RemediationInv, CommittedIsOwed, Owed
  <2> QED
    BY <2>2, <2>3
<1> QED
  BY <1>3, <1>7, <1>9, <1>10, <1>11, <1>12, AnsweringKeepsReads DEF RemediationInv

LEMMA RefuseKeepsInv ==
    ASSUME RemediationInv, NEW r \in Requests, Refuse(r)
    PROVE  RemediationInv'
<1>1. Answered(r) /\ UNCHANGED rows
  BY DEF Refuse, rows
<1>2. RequestsTyped' /\ RepeatsAreKnown' /\ ReadsSuccesses'
  BY <1>1, AnsweringKeepsReads DEF rows
<1> QED
  BY <1>1, <1>2, RowsUntouched DEF RemediationInv, RowsInv

\* A promotion of what had become stale takes no obligation away.
LEMMA RepromoteKeepsInv ==
    ASSUME RemediationInv, NEW v \in Versions, Repromote(v)
    PROVE  RemediationInv'
<1>1. /\ outputs' = [outputs EXCEPT ![v] = "PROMOTED"]
      /\ UNCHANGED <<intents, settled, obligations, requests, late>>
  BY DEF Repromote
<1>2. TypeOK' /\ CommittedIsOwed'
  BY <1>1, RemediationAssumption DEF RemediationInv, TypeOK, CommittedIsOwed, Owed
<1>3. StatusTellsReceipts' /\ RemediationIsOwed' /\ WaitsForApproval'
  BY <1>1 DEF RemediationInv, StatusTellsReceipts, RemediationIsOwed, WaitsForApproval, Owed,
              Terminal, RequiresHumanApproval
<1>4. RequestsTyped' /\ RepeatsAreKnown' /\ ReadsSuccesses'
  BY <1>1 DEF RemediationInv, RequestsTyped, RepeatsAreKnown, ReadsSuccesses, Pending, Owing
<1> QED
  BY <1>2, <1>3, <1>4 DEF RemediationInv

-----------------------------------------------------------------------------
(* The theorems.                                                           *)

LEMMA RemediationInvInit == Init => RemediationInv
<1> SUFFICES ASSUME Init PROVE RemediationInv
  OBVIOUS
<1>1. TypeOK
  BY StatusNames, StepNames DEF Init, TypeOK, Obligation
<1>2. \A r \in Requests : requests[r] = Idle
  BY DEF Init
<1>3. RequestsTyped
  BY <1>2 DEF Init, RequestsTyped, Request
<1>4. RepeatsAreKnown /\ ReadsSuccesses
  BY <1>2 DEF RepeatsAreKnown, ReadsSuccesses, Pending, Idle
<1>5. StatusTellsReceipts /\ RemediationIsOwed /\ WaitsForApproval /\ CommittedIsOwed
  BY DEF Init, StatusTellsReceipts, RemediationIsOwed, WaitsForApproval, CommittedIsOwed
<1> QED
  BY <1>1, <1>3, <1>4, <1>5 DEF RemediationInv

LEMMA RemediationInvNext == RemediationInv /\ [Next]_vars => RemediationInv'
<1> SUFFICES ASSUME RemediationInv, [Next]_vars PROVE RemediationInv'
  OBVIOUS
<1>1. ASSUME NEW r \in Requests, Begin(r) PROVE RemediationInv'
  BY <1>1, BeginKeepsInv
<1>2. ASSUME NEW r \in Requests, End(r) PROVE RemediationInv'
  BY <1>2, PrepareKeepsInv, ReceiptKeepsInv, ManualReceiptKeepsInv, ReconcileKeepsInv,
     InvalidateKeepsInv, StepKeepsInv,
     RefuseKeepsInv DEF End
<1>3. ASSUME NEW v \in Versions, Repromote(v) PROVE RemediationInv'
  BY <1>3, RepromoteKeepsInv
<1>4. CASE UNCHANGED vars
  <2>1. UNCHANGED rows /\ UNCHANGED requests
    BY <1>4 DEF vars, rows
  <2>2. RequestsTyped' /\ RepeatsAreKnown' /\ ReadsSuccesses'
    BY <2>1 DEF RemediationInv, rows, RequestsTyped, RepeatsAreKnown, ReadsSuccesses, Pending, Owing
  <2> QED
    BY <2>1, <2>2, RowsUntouched DEF RemediationInv, RowsInv
<1> QED
  BY <1>1, <1>2, <1>3, <1>4 DEF Next

LEMMA RemediationInvAlways == Spec => []RemediationInv
<1> QED
  BY RemediationInvInit, RemediationInvNext, PTL DEF Spec

\* The status of an effect and its receipts tell one story, for any number of effects
\* and of requests that end on what they read earlier.
THEOREM StatusAndReceiptsAgree == Spec => []StatusTellsReceipts
<1>1. RemediationInv => StatusTellsReceipts
  BY DEF RemediationInv
<1> QED
  BY <1>1, RemediationInvAlways, PTL

\* An effect that asks for remediation has its obligation.
THEOREM ObligationBesideStatus == Spec => []RemediationIsOwed
<1>1. RemediationInv => RemediationIsOwed
  BY DEF RemediationInv
<1> QED
  BY <1>1, RemediationInvAlways, PTL

\* Whatever an invalidation affects, every committed effect of it is owed a
\* remediation, but those whose success came too late for it to be read.
THEOREM InvalidationLeavesObligations == Spec => []CommittedIsOwed
<1>1. RemediationInv => CommittedIsOwed
  BY DEF RemediationInv
<1> QED
  BY <1>1, RemediationInvAlways, PTL

\* No sequence of steps and invalidations reaches the remediation of a high-risk or
\* irreversible effect without its approval.
THEOREM ApprovalComesFirst == Spec => []ApprovedBeforeWork
<1>1. RemediationInv => ApprovedBeforeWork
  <2> SUFFICES ASSUME RemediationInv, NEW i \in Intents, i \in HighRisk \cup Irreversible,
                      obligations[i].status \in {"IN_PROGRESS", "RESOLVED", "WAIVED"}
               PROVE  obligations[i].approved
    BY DEF ApprovedBeforeWork
  <2>1. RequiresHumanApproval(i)
    BY DEF RequiresHumanApproval
  <2> QED
    BY <2>1 DEF RemediationInv, WaitsForApproval
<1> QED
  BY <1>1, RemediationInvAlways, PTL

LEMMA ObligationStep ==
    ASSUME RemediationInv, [Next]_vars, NEW i \in Intents,
           obligations'[i].status # obligations[i].status
    PROVE  obligations'[i].status \in Steps[obligations[i].status]
<1>1. obligations[i].status \in DOMAIN Steps
  BY DEF RemediationInv, TypeOK, Obligation
<1>2. ~UNCHANGED obligations
  OBVIOUS
<1>3. PICK r \in Requests : Invalidate(r) \/ Step(r)
  BY <1>2 DEF Next, vars, Begin, End, Refuse, BeginPrepare, BeginReceipt, BeginManualReceipt,
              BeginReconcile, BeginStep, BeginInvalidate, Prepare, RecordReceipt, RecordManualReceipt,
              Reconcile, Repromote
<1>4. CASE Invalidate(r)
  <2>1. obligations'[i] \in {Upsert(i), obligations[i]}
    BY <1>4 DEF Invalidate
  <2>2. Upsert(i).status # obligations[i].status =>
           /\ obligations[i].status = "NONE"
           /\ Upsert(i).status \in {"OPEN", "PENDING_APPROVAL"}
    BY DEF Upsert, Owed, RemediationInv, TypeOK, Obligation
  <2> QED
    BY <2>1, <2>2 DEF Steps
<1>5. CASE Step(r)
  <2>1. requests[r] \in OperatorSteps
    BY <1>5, ByKind DEF Step, RemediationInv
  <2> DEFINE k == requests[r].intent
  <2>2. /\ k \in Intents
        /\ requests[r].next \in Steps[requests[r].expected]
        /\ obligations[k].status = requests[r].expected
    BY <1>5, <2>1 DEF OperatorSteps, Step, AsExpected
  <2>3. PICK approved : obligations' = [obligations EXCEPT
                           ![k] = [status |-> requests[r].next, approved |-> approved]]
    BY <1>5 DEF Step
  <2> HIDE DEF k
  <2>4. i = k
    BY <2>3 DEF RemediationInv, TypeOK
  <2>5. obligations'[i].status = requests[r].next
    BY <2>2, <2>3, <2>4 DEF RemediationInv, TypeOK
  <2> QED
    BY <2>2, <2>4, <2>5
<1> QED
  BY <1>3, <1>4, <1>5

\* An obligation moves along its transitions only, and a settled one stays settled.
THEOREM ObligationsFollowSteps == Spec => LegalObligations
<1>1. RemediationInv /\ [Next]_vars =>
         [\A i \in Intents : obligations'[i].status # obligations[i].status
             => obligations'[i].status \in Steps[obligations[i].status]]_vars
  BY ObligationStep
<1> QED
  BY <1>1, RemediationInvAlways, PTL DEF Spec, LegalObligations
\* The rows and the requests under way are well typed.
THEOREM TypeCorrect == Spec => []TypeOK
<1>1. RemediationInv => TypeOK
  BY DEF RemediationInv
<1> QED
  BY <1>1, RemediationInvAlways, PTL
=============================================================================
