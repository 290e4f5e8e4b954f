-------------------------- MODULE MCEffectExecution --------------------------
(* One resource, one worker process, and jobs named for the call that        *)
(* enqueues them: jc commits i1, jr reconciles it, jx compensates it.        *)
EXTENDS EffectExecution, TLC

CONSTANTS i1, r1, w1, jc, jr, jx

MCWorkerOf   == [s \in Slots |-> w1]
MCResourceOf == [i \in Intents |-> r1]
MCIntentOf   == [j \in Jobs |-> i1]
MCOriginOf   == [j \in Jobs |-> IF j = jc THEN "commit"
                                ELSE IF j = jr THEN "reconcile" ELSE "compensation"]

SlotSymmetry == Permutations(Slots)
==============================================================================
