------------------------------ MODULE JobContract ------------------------------
(***************************************************************************)
(* What the durable queue promises about one job to whoever enqueues it:   *)
(* it is attempted at most Limit times, one attempt at a time, it is given *)
(* back only while attempts are left, and it settles once.                 *)
(***************************************************************************)
EXTENDS Integers

CONSTANT Limit   \* max_attempts of the job

VARIABLES
  stage,   \* "absent", "waiting", "attempt", "done" or "dead"
  tries    \* attempts begun so far

contractVars == <<stage, tries>>

ContractInit == stage = "absent" /\ tries = 0

Offer ==
  /\ stage = "absent"
  /\ stage' = "waiting"
  /\ UNCHANGED tries

Attempt ==
  /\ stage = "waiting" /\ tries < Limit
  /\ stage' = "attempt"
  /\ tries' = tries + 1

GiveBack ==
  /\ stage = "attempt" /\ tries < Limit
  /\ stage' = "waiting"
  /\ UNCHANGED tries

Settle ==
  /\ stage = "attempt"
  /\ stage' \in {"done", "dead"}
  /\ UNCHANGED tries

ContractNext == Offer \/ Attempt \/ GiveBack \/ Settle

ContractSafety == ContractInit /\ [][ContractNext]_contractVars

\* An offered job settles.  (Not stated as fairness of the actions above: the
\* stage is an expression over the queue's variables, and TLC cannot evaluate
\* ENABLED of an action on it.)
ContractProgress == stage # "absent" ~> stage \in {"done", "dead"}

ContractSpec == ContractSafety /\ ContractProgress
================================================================================
