---------------------------- MODULE EffectStatus -----------------------------
(* The status machine of an external effect (packages/lifecycle/src/        *)
(* effects.ts), which workers, the API and invalidations share.             *)

(* EFFECT_INTENT_TRANSITIONS; ABSENT is an intent not prepared yet.        *)
Successors ==
  [ABSENT                  |-> {},
   PREPARED                |-> {"EXECUTING", "FAILED", "RECONCILIATION_REQUIRED"},
   EXECUTING               |-> {"COMMITTED", "FAILED", "IRREVERSIBLE_COMMITTED",
                                "RECONCILIATION_REQUIRED"},
   COMMITTED               |-> {"COMPENSATION_PENDING", "REMEDIATION_REQUIRED"},
   FAILED                  |-> {"EXECUTING", "RECONCILIATION_REQUIRED"},
   COMPENSATION_PENDING    |-> {"COMPENSATED", "REMEDIATION_REQUIRED",
                                "RECONCILIATION_REQUIRED"},
   COMPENSATED             |-> {},
   REMEDIATION_REQUIRED    |-> {"COMPENSATION_PENDING", "COMPENSATED"},
   IRREVERSIBLE_COMMITTED  |-> {"REMEDIATION_REQUIRED"},
   RECONCILIATION_REQUIRED |-> {"EXECUTING", "COMMITTED", "FAILED", "COMPENSATION_PENDING",
                                "REMEDIATION_REQUIRED", "IRREVERSIBLE_COMMITTED"}]

EffectStatuses == DOMAIN Successors

LegalUnchecked(from, to) == TRUE

\* canTransitionEffectIntent
Legal(from, to) == to \in Successors[from]
=============================================================================
