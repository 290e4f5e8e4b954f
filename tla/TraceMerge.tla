----------------------------- MODULE TraceMerge -----------------------------
(***************************************************************************)
(* POST /v1/otlp/v1/traces (apps/api/src/routes/otlp.ts): the spans of one *)
(* trace arrive in exports that may come in any order, more than once, or  *)
(* not at all, and each is merged into the rows that are there.            *)
(*                                                                         *)
(* The first statement of persistTrace writes the row of the trace and so  *)
(* locks it until the transaction ends: the exports of one trace commit    *)
(* one after the other, and one export is one step.  Left out are the      *)
(* columns that no other row depends on: the names (those of the last      *)
(* export), the models, the attributes and the usage.                      *)
(***************************************************************************)
EXTENDS Integers, FiniteSets

CONSTANTS
    Spans,     \* the spans of the trace
    ParentOf,  \* the parent a span names in its attributes, or NoSpan
    NoSpan,
    Exports,   \* the export requests
    ReportOf   \* what an export says of each span that it contains

SpanStatuses == {"UNSET", "OK", "ERROR"}
Reports      == [status : SpanStatuses, from : Nat, to : Nat]

ASSUME MergeAssumption ==
    /\ NoSpan \notin Spans
    /\ ParentOf \in [Spans -> Spans \union {NoSpan}]
    /\ \A e \in Exports : /\ DOMAIN ReportOf[e] \subseteq Spans
                          /\ DOMAIN ReportOf[e] # {} /\ IsFiniteSet(DOMAIN ReportOf[e])
                          /\ ReportOf[e] \in [DOMAIN ReportOf[e] -> Reports]

VARIABLES
    spans,     \* the rows of the spans
    trace      \* the row of the trace

mergeVars == <<spans, trace>>

SpanRow    == [status : SpanStatuses \union {"ABSENT"}, from : Nat, to : Nat,
               parent : Spans \union {NoSpan}]
AbsentSpan == [status |-> "ABSENT", from |-> 0, to |-> 0, parent |-> NoSpan]
TraceRow   == [status : {"ABSENT", "SUCCEEDED", "FAILED"}, from : Nat, to : Nat]

MergeTypeOK ==
    /\ spans \in [Spans -> SpanRow]
    /\ trace \in TraceRow

MergeInit ==
    /\ spans = [s \in Spans |-> AbsentSpan]
    /\ trace = [status |-> "ABSENT", from |-> 0, to |-> 0]

Least(x, y)    == IF x < y THEN x ELSE y
Greatest(x, y) == IF x > y THEN x ELSE y

Contents(e) == DOMAIN ReportOf[e]
Stored(rows, s) == s \in Spans /\ rows[s].status # "ABSENT"

\* An error is not taken back; otherwise the last status stands.
SpanStatus(old, new) == IF "ERROR" \in {old, new} THEN "ERROR" ELSE new

\* INSERT ... ON CONFLICT (id) DO UPDATE.
MergedSpan(s, report) ==
    IF spans[s].status = "ABSENT"
      THEN [status |-> report.status, from |-> report.from, to |-> report.to,
            parent |-> NoSpan]
      ELSE [status |-> SpanStatus(spans[s].status, report.status),
            from   |-> Least(spans[s].from, report.from),
            to     |-> Greatest(spans[s].to, report.to),
            parent |-> spans[s].parent]

Upserted(e) ==
    [s \in Spans |-> IF s \in Contents(e) THEN MergedSpan(s, ReportOf[e][s]) ELSE spans[s]]

\* The spans of the export get their parents, if those are there.
Linked(rows, e) ==
    [s \in Spans |-> IF s \in Contents(e) /\ Stored(rows, ParentOf[s])
                       THEN [rows[s] EXCEPT !.parent = ParentOf[s]]
                       ELSE rows[s]]

\* A faulty variant: the spans stored before are not looked at again.
RepairedNot(rows) == rows

\* A span that came before its parent gets it now.
Repaired(rows) ==
    [s \in Spans |-> IF Stored(rows, s) /\ rows[s].parent = NoSpan /\ Stored(rows, ParentOf[s])
                       THEN [rows[s] EXCEPT !.parent = ParentOf[s]]
                       ELSE rows[s]]

\* A faulty variant: the verdict is that of the last export.
VerdictOfLast(e) ==
    IF \E s \in Contents(e) : ReportOf[e][s].status = "ERROR" THEN "FAILED" ELSE "SUCCEEDED"

Verdict(e) ==
    IF \/ trace.status = "FAILED"
       \/ \E s \in Contents(e) : ReportOf[e][s].status = "ERROR"
      THEN "FAILED" ELSE "SUCCEEDED"

Earliest(e) == CHOOSE t \in {ReportOf[e][s].from : s \in Contents(e)} :
                   \A s \in Contents(e) : t <= ReportOf[e][s].from
Latest(e)   == CHOOSE t \in {ReportOf[e][s].to : s \in Contents(e)} :
                   \A s \in Contents(e) : t >= ReportOf[e][s].to

MergedTrace(e) ==
    [status |-> Verdict(e),
     from   |-> IF trace.status = "ABSENT" THEN Earliest(e) ELSE Least(trace.from, Earliest(e)),
     to     |-> Greatest(trace.to, Latest(e))]

\* persistTrace.  An export sent again is merged again.
Export(e) ==
    /\ spans' = Repaired(Linked(Upserted(e), e))
    /\ trace' = MergedTrace(e)

MergeNext == \E e \in Exports : Export(e)

MergeSpec == MergeInit /\ [][MergeNext]_mergeVars

-----------------------------------------------------------------------------
Present == {s \in Spans : Stored(spans, s)}

(***************************************************************************)
(* A stored span points to its parent as soon as both are stored, in       *)
(* whatever exports and order they came (otlp.ts, the two UPDATEs of       *)
(* parent_span_id).                                                        *)
(***************************************************************************)
ParentsLinked ==
    \A s \in Spans :
        spans[s].parent = IF s \in Present /\ ParentOf[s] \in Present THEN ParentOf[s] ELSE NoSpan

(***************************************************************************)
(* The row of the trace says what its spans say: it is FAILED exactly if   *)
(* one of them is in error, and it begins with the first and ends with the *)
(* last of them, although it is never computed from them.                  *)
(***************************************************************************)
TraceAgrees ==
    /\ trace.status = "ABSENT" <=> Present = {}
    /\ trace.status = "FAILED" <=> \E s \in Present : spans[s].status = "ERROR"
    /\ Present # {} => /\ \E s \in Present : trace.from = spans[s].from
                       /\ \E s \in Present : trace.to = spans[s].to
                       /\ \A s \in Present : trace.from <= spans[s].from /\ spans[s].to <= trace.to
=============================================================================
