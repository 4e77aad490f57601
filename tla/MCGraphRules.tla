----------------------------- MODULE MCGraphRules -----------------------------
(***************************************************************************)
(* A small instance of GraphRules: rows whose nodes are all, some or none  *)
(* with the light polish on and off, one with stages of its own, and       *)
(* drawings of five steps with the ties users get wrong, one with a budget *)
(* of its own and one with a budget nobody defined.                        *)
(***************************************************************************)
EXTENDS GraphRules, SequencesExt

\* Rows of pipeline_configs: all nodes, some, none, and stages of their own.
RowOf(nodes, stages, precheck, polish, loop) ==
    [nodes |-> nodes, stages |-> stages, precheck |-> precheck, polish |-> polish,
     loop |-> loop, graph |-> NoGraph]

SomeRows ==
    {RowOf(n, {}, FALSE, p, FALSE) : n \in {{}, {"planner", "extractor"}}, p \in BOOLEAN}
    \cup {RowOf({"writer"}, {}, FALSE, FALSE, TRUE),
          RowOf({"planner", "editor"}, {}, TRUE, FALSE, TRUE),
          RowOf({"planner"}, {<<"editor", "style_repair">>, <<"planner", "outline">>,
                       <<"validator", "pre_editor">>, <<"editor", "review">>}, FALSE, FALSE, TRUE)}

\* The verdicts are written in the order of default_graph, or backwards.
DrawnStep(id, role, next, on) ==
    [id |-> id, role |-> role, next |-> next, on |-> on,
     order |-> IF role = "final" THEN Reverse(VerdictOrder) ELSE VerdictOrder]
OwnBudget(to, out) == Budgeted(to, "own", FALSE, out)
WithBudget(to, out) == [Budgeted(to, "rewrite", FALSE, out) EXCEPT !.exhausted = out]

\* A short graph with every required role: what the Editor and the final check
\* do with a text they refuse, and which step is listed first.
Drawing(rewrite, fail, ahead, first) ==
    LET draft  == DrawnStep("d", "draft", PlainEdge("r"), NoHandlers)
        review == DrawnStep("r", "review", ahead, On("rewrite", rewrite))
        final  == DrawnStep("f", "final", PlainEdge("p"),
                     [v \in {"blocked", "fail"} |-> IF v = "fail" THEN fail ELSE PlainEdge("@pause:validator")])
        rest   == << DrawnStep("p", "publish", PlainEdge("x"), On("blocked", PlainEdge("@pause:validator"))),
                     DrawnStep("x", "postprocess", NoEdge, NoHandlers) >>
    IN  [entry |-> "d", budgets |-> {},
         steps |-> (IF first = "d" THEN <<draft, review, final>> ELSE <<review, final, draft>>) \o rest]

SomeDrawings ==
    {Drawing(rewrite, PlainEdge("@retry_chapter"), PlainEdge("f"), first) :
       rewrite \in {PlainEdge("d"), WithBudget("d", "f")}, first \in {"d", "r"}}
    \cup {Drawing(WithBudget("d", "r"), WithBudget("d", "@pause:validator"), ahead, "r") :
       ahead \in {PlainEdge("f"), WithBudget("d", "f")}}
    \cup {Drawing([PlainEdge("f") EXCEPT !.looping = TRUE, !.exhausted = "d"],
                  PlainEdge("@retry_chapter"), PlainEdge("f"), "d"),
          Drawing(WithBudget("d", "f"), PlainEdge("nowhere"), PlainEdge("f"), "d"),
          [Drawing(OwnBudget("d", "f"), PlainEdge("@retry_chapter"), OwnBudget("d", "f"), "d")
             EXCEPT !.budgets = {"own"}],
          Drawing(OwnBudget("d", "f"), PlainEdge("@retry_chapter"), PlainEdge("f"), "d"),
          [entry |-> "d", budgets |-> {}, steps |-> << DrawnStep("d", "poet", PlainEdge("d"), NoHandlers) >>]}
==============================================================================
