---------------------------- MODULE ChapterGraph ----------------------------
(***************************************************************************)
(* The stage graph of one chapter, as data (services/chapter_graph.py),    *)
(* and the three questions the interpreter asks of it                      *)
(* (worker_support/chapter_graph_runner.py): which edge a verdict takes,   *)
(* whether the edge's budget is spent, and where the edge then leads.      *)
(* A graph is a function from step ids to steps; its entry is "plan".      *)
(***************************************************************************)
EXTENDS Integers, Sequences

Verdict == {"ok", "rewrite", "skipped", "empty", "blocked", "fail"}

\* The names of the agents: what jobs.current_step holds and a pause may name.
Anchor == {"planner", "writer", "editor", "validator", "extractor"}

\* Targets that end a walk of the graph: the pauses carry their anchor.
PauseAnchor == [t \in {"@pause:planner", "@pause:editor", "@pause:validator"} |->
                  CASE t = "@pause:planner" -> "planner"
                    [] t = "@pause:editor"  -> "editor"
                    [] OTHER                -> "validator"]

Target(id) == [goto |-> id, budget |-> "none", looping |-> FALSE, exhausted |-> "@done"]

\* An edge with a budget; "looping" is disabled_when = enable_editor_loop.
Budgeted(id, budget, looping, exhausted) ==
    [goto |-> id, budget |-> budget, looping |-> looping, exhausted |-> exhausted]

NoHandlers == [v \in {} |-> Target("@done")]
On(v, edge) == [w \in {v} |-> edge]

(***************************************************************************)
(* default_graph: a skeleton in execution order from which the configured  *)
(* stages are kept, and the rewrite, block and retry edges laid over it.   *)
(* conf has the switches has_editor, has_style_repair and                  *)
(* validation_before_editor as fields editor, style and precheck.          *)
(***************************************************************************)
Skeleton == << "plan", "loop_head", "draft", "pre_check", "review",
               "post_check", "polish", "final_check", "publish", "post" >>

Present(conf, id) ==
    CASE id = "pre_check"                -> conf.precheck
      [] id \in {"review", "post_check"} -> conf.editor
      [] id = "polish"                   -> conf.editor /\ conf.style
      [] OTHER                           -> TRUE

After(conf, id) ==
    LET here  == CHOOSE i \in DOMAIN Skeleton : Skeleton[i] = id
        later == {i \in DOMAIN Skeleton : i > here /\ Present(conf, Skeleton[i])}
    IN  IF later = {} THEN "@done"
        ELSE Skeleton[CHOOSE i \in later : \A j \in later : i <= j]

LoopExit(conf) == IF Present(conf, "polish") THEN "polish" ELSE "final_check"

Handlers(conf, id) ==
    CASE id = "plan"      -> On("empty", Target("@pause:planner"))
      [] id = "loop_head" -> On("skipped", Target(After(conf, "draft")))
      [] id = "review"    -> On("rewrite", Budgeted("loop_head", "rewrite", TRUE, "force_fix"))
      [] id = "force_fix" -> On("skipped", Target("@pause:editor"))
      [] id = "post_check" ->
           On("rewrite", Budgeted("loop_head", "rewrite", FALSE, LoopExit(conf)))
      [] id = "final_check" ->
           [v \in {"blocked", "fail"} |->
              IF v = "blocked" THEN Target("@pause:validator")
              ELSE Budgeted("@retry_chapter", "attempt", FALSE, "@pause:validator")]
      [] id = "publish" -> On("blocked", Target("@pause:validator"))
      [] OTHER -> NoHandlers

\* Mutant: the forced correction goes back to the Editor.
NextEdgeReviewsAgain(conf, id) ==
    CASE id = "plan"       -> Budgeted("loop_head", "rewrite", FALSE, LoopExit(conf))
      [] id = "loop_head"  -> Target("draft")
      [] id = "force_fix"  -> Target("loop_head")
      [] id = "post_check" -> Target(LoopExit(conf))
      [] OTHER -> Target(After(conf, id))

NextEdge(conf, id) ==
    CASE id = "plan"      -> Budgeted("loop_head", "rewrite", FALSE, LoopExit(conf))
      [] id = "loop_head" -> Target("draft")
      [] id \in {"force_fix", "post_check"} -> Target(LoopExit(conf))
      [] OTHER -> Target(After(conf, id))

StepIds(conf) ==
    {Skeleton[i] : i \in {k \in DOMAIN Skeleton : Present(conf, Skeleton[k])}}
    \cup (IF conf.editor THEN {"force_fix"} ELSE {})

DefaultGraph(conf) ==
    [id \in StepIds(conf) |-> [next |-> NextEdge(conf, id), on |-> Handlers(conf, id)]]

(***************************************************************************)
(* The interpreter.  state has the counters the budgets name: rewrite_count*)
(* against max_rewrites, attempt against 3; loopEnabled is                 *)
(* enable_editor_loop.  The counters belong to the steps, an edge only     *)
(* compares them.                                                          *)
(***************************************************************************)
EdgeFor(step, v) == IF v \in DOMAIN step.on THEN step.on[v] ELSE step.next

\* Mutant: one rewrite too many.
BudgetExhaustedLate(edge, state) ==
    \/ edge.looping /\ ~state.loopEnabled
    \/ edge.budget = "rewrite" /\ state.rewriteCount > state.maxRewrites
    \/ edge.budget = "attempt" /\ state.attempt >= 3

BudgetExhausted(edge, state) ==
    \/ edge.looping /\ ~state.loopEnabled
    \/ edge.budget = "rewrite" /\ state.rewriteCount >= state.maxRewrites
    \/ edge.budget = "attempt" /\ state.attempt >= 3

ResolveEdge(edge, state) ==
    IF BudgetExhausted(edge, state) THEN edge.exhausted ELSE edge.goto
=============================================================================
