--------------------------- MODULE MCWorkerRuntime ---------------------------
(* Two worker processes, one of them with two slots: locked_by cannot tell   *)
(* those apart, only the fencing token can.                                  *)
EXTENDS WorkerRuntime

CONSTANTS w1, w2, s1, s2, s3, t1

MCWorkerOf == [s \in Slots |-> IF s = s3 THEN w2 ELSE w1]
MCTenantOf == [j \in Jobs |-> t1]
==============================================================================
