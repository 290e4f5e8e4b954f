----------------------------- MODULE MCOutputs -----------------------------
(* Two versions of one Output, v2 derived from v1 and stored outside the API. *)
EXTENDS OutputLifecycle, TLC

CONSTANTS v1, v2, doc, policyA, sql, f1, g1

\* v1 carries a policy version, v2 does not.
MCOutput == v1 :> [logical |-> doc, parents |-> {},   policy |-> policyA]
         @@ v2 :> [logical |-> doc, parents |-> {v1}, policy |-> None]

\* One record each; that of v2 expires.
MCKey == f1 :> [subject |-> v1, verifier |-> sql, policy |-> policyA, expires |-> FALSE]
      @@ g1 :> [subject |-> v2, verifier |-> sql, policy |-> None, expires |-> TRUE]

MCAffected == v1 :> {v1, v2} @@ v2 :> {v2}

RequestSymmetry == Permutations(Promoters)
============================================================================
