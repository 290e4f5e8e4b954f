------------------------------ MODULE MCImpact ------------------------------
(* The analysis of a source and two versions that may depend on it and on one *)
(* another; or the graph of four versions that requests build and read.       *)
EXTENDS ImpactAnalysis, LineageGraph, TLC

CONSTANTS source, left, right, far, i1, i2, i3, i4, i5, r1

VARIABLE component

Json(path)      == [kind |-> "json_path", path |-> path, form |-> "plain"]
Column(path)    == [kind |-> "table_column", path |-> path, form |-> "plain"]
File(path)      == [kind |-> "file", path |-> path, form |-> "plain"]
Directory(path) == [kind |-> "file", path |-> path, form |-> "directory"]
Symbol(name)    == [kind |-> "symbol", path |-> <<name>>, form |-> "plain"]
Glob            == [kind |-> "file", path |-> <<"*">>, form |-> "opaque"]

MCDotted == "b.c" :> <<"b", "c">>

MCSelectors ==
    {UnknownSelector, Json(<<"refund">>), Json(<<"refund", "limit">>), Json(<<"*", "name">>),
     Json(<<"b.c", "name">>),
     Column(<<"orders", "*">>), Column(<<"orders", "total">>),
     Symbol("main"), Symbol("*"), File(<<"src", "main">>), File(<<".", "src", "", "main">>),
     File(<<"docs", "..", "src", "main">>),
     Directory(<<"src">>), Directory(<<"src", "lib">>), Directory(<<".">>), Glob}

MCComponents ==
    {[kind |-> "json_path", path |-> p] :
        p \in {<<"refund">>, <<"refund", "limit">>, <<"refund", "name">>, <<"user", "name">>,
               <<"b.c", "name">>}}
    \union {[kind |-> "table_column", path |-> p] :
        p \in {<<"orders", "total">>, <<"orders", "id">>}}
    \union {[kind |-> "symbol", path |-> <<name>>] : name \in {"main", "init"}}
    \union {[kind |-> "file", path |-> p] :
        p \in {<<"src", "main">>, <<"src", "lib", "util">>, <<"docs", "index">>}}

\* narrow keeps a changed limit and rejects everything else.
MCTransfer ==
    [t \in {"narrow"} |-> [s \in MCSelectors |->
        IF s \in {Json(<<"refund", "limit">>), UnknownSelector}
        THEN {Json(<<"refund", "limit">>)} ELSE {}]]

At(id, from, to, selector, transfer) ==
    [id |-> id, source |-> from, target |-> to, selector |-> selector, transfer |-> transfer]

Choices(edges) == {{}} \union {{e} : e \in edges}

\* Each of the edges is there with one of the selectors, or not at all.
MCGraphs ==
    {a \union b \union c \union d \union f :
        a \in Choices({At(1, source, left, s, "none") : s \in MCSelectors}),
        b \in Choices({At(2, source, right, s, t) :
                  s \in {UnknownSelector, Json(<<"refund">>)}, t \in {"none", "narrow"}}),
        c \in Choices({At(3, left, right, UnknownSelector, "none"),
                       At(3, left, right, Json(<<"refund", "limit">>), "missing")}),
        d \in Choices({At(4, right, left, Json(<<"refund">>), "narrow"),
                       At(4, right, left, Column(<<"orders", "total">>), "none")}),
        f \in Choices({At(5, left, source, UnknownSelector, "none")})}

MCDeltas == {{s} : s \in MCSelectors}
            \union {{Json(<<"refund", "limit">>), Column(<<"orders", "*">>)},
                    {Json(<<"*", "name">>), File(<<"src", "main">>)}}

MCStable == {{}, {right}}

\* A cycle of three edges and one of four.
MCEdgeOf   == i1 :> <<source, left>> @@ i2 :> <<left, right>> @@ i3 :> <<right, source>>
           @@ i4 :> <<right, far>> @@ i5 :> <<far, source>>
MCSourceOf == r1 :> right

MCInit ==
    /\ component \in {"analysis", "graph"}
    /\ Init
    /\ component = "graph" => graph = {} /\ delta = {UnknownSelector} /\ unchanged = {}
    /\ GraphInit

Analyse == component = "analysis" /\ Next /\ UNCHANGED <<component, graphVars>>

MCNext == \/ Analyse
          \/ component = "graph" /\ GraphNext /\ UNCHANGED <<component, vars>>

MCSpec == MCInit /\ [][MCNext]_<<component, vars, graphVars>> /\ WF_<<component, vars, graphVars>>(Analyse)

AnalysisTerminates == component = "analysis" => Terminates
============================================================================
