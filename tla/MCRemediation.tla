---------------------------- MODULE MCRemediation ----------------------------
(* An irreversible effect of low risk prepared from v1, and a reversible one *)
(* from v2, which is derived from v1.                                        *)
EXTENDS Remediation, TLC

CONSTANTS i1, i2, v1, v2, r1, r2

MCSourceOf == i1 :> v1 @@ i2 :> v2
MCAffected == v1 :> {v1, v2} @@ v2 :> {v2}
MCSymmetry == Permutations({r1, r2})
=============================================================================
