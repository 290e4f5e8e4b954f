---------------------------- MODULE MCIngestion -----------------------------
(* b1 creates a run, a trace and its root span; b2 adds a span that has no   *)
(* identifier of its own.  Beside them an OTLP trace: a root p, its child c  *)
(* and the child d of c, in exports of which the last repeats the root,      *)
(* ended later and in error.                                                 *)
EXTENDS Ingestion, TLC

CONSTANTS b1, b2, p, c, d, e1, e2, e3

MCEventsOf ==
    b1 :> <<[type |-> "run", id |-> 1], [type |-> "trace", id |-> 2, run |-> 1],
            [type |-> "span", id |-> 3, trace |-> 2, parent |-> None]>>
 @@ b2 :> <<[type |-> "span", id |-> None, trace |-> 2, parent |-> 3]>>

MCParentOf == p :> NoSpan @@ c :> p @@ d :> c
At(status, from, to) == [status |-> status, from |-> from, to |-> to]
MCReportOf == e1 :> (p :> At("OK", 2, 5))
           @@ e2 :> (c :> At("UNSET", 3, 4) @@ d :> At("OK", 1, 3))
           @@ e3 :> (p :> At("ERROR", 2, 6) @@ d :> At("UNSET", 1, 2))
=============================================================================
