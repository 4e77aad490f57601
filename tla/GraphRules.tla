------------------------------ MODULE GraphRules ------------------------------
(***************************************************************************)
(* The graphs users draw for a workflow: what is accepted when a graph is  *)
(* saved, and what a chapter makes of the graph and of the stages, which   *)
(* are saved in other columns and by other requests.                       *)
(*                                                                         *)
(* src/services/chapter_graph.py (parse_graph, validate_graph),            *)
(* pipeline_stages.py, pipeline_ordering.py, pipeline_config_service.py    *)
(* and worker_support/pipeline_runtime.py.  ChapterGraph has the default   *)
(* graph and the resolution of an edge.  Of a step only its verdict, its   *)
(* counters and the move of the chapter's pipeline step are kept           *)
(* (ChapterRun has the rest, for the default graph).  A workflow changes   *)
(* between chapters: a chapter loads it when it is entered.  The cap of    *)
(* 200 steps is left out: a walk that meets it goes round here.            *)
(***************************************************************************)
EXTENDS ChapterGraph, FiniteSetsExt

CONSTANTS
    Rows,           \* pipeline_configs as they may be: see RowOf
    Drawings,       \* graphs a user may send
    RewriteLimit,   \* runtime.max_rewrites
    AttemptLimit    \* bound: whole-chapter runs

\* What a pause, a walk that ended and an edge that is not drawn are called here:
\* no step's id.
SpecialTarget == {"@done", "@retry_chapter"} \cup {"@pause:planner", "@pause:writer",
                  "@pause:editor", "@pause:validator", "@pause:extractor"}
NoId == SpecialTarget \cup {"none", "idle", "@refused"}

\* A graph as it is drawn: the entry, the budgets it defines itself by their
\* names, and steps by their place in the list. A step has its edges in the order
\* in which the verdicts are written, and all verdicts have a place in it. An edge
\* that is not drawn is NoEdge, an exhaustion that is not is "none".
IsEdge(e) == e = Budgeted(e.goto, e.budget, e.looping, e.exhausted) /\ e.looping \in BOOLEAN
IsStep(s) ==
    /\ s = [id |-> s.id, role |-> s.role, next |-> s.next, on |-> s.on, order |-> s.order]
    /\ s.id \notin NoId /\ IsEdge(s.next)
    /\ \A v \in Verdict : \E k \in 1..6 : s.order[k] = v
    /\ s.on = [v \in DOMAIN s.on |-> s.on[v]] /\ \A v \in DOMAIN s.on : IsEdge(s.on[v])
IsDrawing(g) ==
    /\ g = [entry |-> g.entry, budgets |-> g.budgets, steps |-> g.steps]
    /\ g.steps = [i \in DOMAIN g.steps |-> g.steps[i]]
    /\ DOMAIN g.steps \subseteq Nat \ {0} /\ IsFiniteSet(DOMAIN g.steps)
    /\ \A i \in DOMAIN g.steps : IsStep(g.steps[i])

ASSUME GraphRulesAssumption ==
    /\ RewriteLimit \in Nat \ {0} /\ AttemptLimit \in Nat \ {0}
    /\ \A raw \in Drawings : IsDrawing(raw)
    /\ \A r \in Rows : r = [nodes |-> r.nodes, stages |-> r.stages, precheck |-> r.precheck,
                           polish |-> r.polish, loop |-> r.loop,
                           graph |-> [entry |-> "none", budgets |-> {}, steps |-> <<>>]]

VARIABLES
    flowRow,        \* the workflow's row of pipeline_configs
    refusedOwn, \* history: the editor's own graph was refused
    walk        \* the chapter under way

ruleVars == <<flowRow, refusedOwn, walk>>

(***************************************************************************)
(* Stages.  A stage is <<agent, role>>; their order in a list says nothing *)
(* (agent_order, from_stages), so a list of stages is a set.               *)
(***************************************************************************)
AgentOfRole == [r \in {"outline", "draft", "pre_editor", "review", "force_revise",
                       "post_edit", "style_repair", "final", "postprocess",
                       "context_refresh", "publish"} |->
    CASE r = "outline" -> "planner"
      [] r = "draft"   -> "writer"
      [] r \in {"review", "force_revise", "style_repair"} -> "editor"
      [] r \in {"pre_editor", "post_edit", "final"}       -> "validator"
      [] r = "postprocess" -> "extractor"
      [] OTHER -> "none"]

ValidStage == {<<AgentOfRole[r], r>> :
                  r \in DOMAIN AgentOfRole \ {"force_revise", "context_refresh", "publish"}}

StagesOfNodes(nodes, precheck) ==
    LET has(a) == nodes = {} \/ a \in nodes
        Kept(role) ==
            CASE role = "outline"     -> has("planner")
              [] role = "pre_editor"  -> precheck
              [] role \in {"review", "post_edit", "style_repair"} -> has("editor")
              [] role = "postprocess" -> has("extractor")
              [] OTHER -> TRUE
    IN  {s \in ValidStage : Kept(s[2])}

ParsedStages(raw) == raw \cap ValidStage

NormalizedStages(stages) ==
    LET reviewed == <<"editor", "review">> \in stages
    IN  {s \in stages : reviewed \/ s[2] \notin {"style_repair", "post_edit"}}
        \cup {<<"writer", "draft">>, <<"validator", "final">>}

StagesOfRow(r) ==
    LET parsed == ParsedStages(r.stages)
    IN  NormalizedStages(IF parsed # {} THEN parsed ELSE StagesOfNodes(r.nodes, r.precheck))

\* get_pipeline_config: under enable_light_polish the Editor joins the nodes
\* and the plan is made of them; no nodes at all no longer means all of them.
PlanOfRow(r) ==
    IF r.polish THEN StagesOfNodes(r.nodes \cup {"editor"}, r.precheck) ELSE StagesOfRow(r)

InPlan(r, role) == <<AgentOfRole[role], role>> \in PlanOfRow(r)

\* The one order a chapter's steps have, and of these the ones of the agents
\* there are (StagePlan.agent_order, pipeline_order_from_nodes).
CanonicalOrder == <<"outline", "writing", "editing", "validating", "extracting", "published">>
StepOfAgent == [a \in Anchor |->
    CASE a = "planner" -> "outline"
      [] a = "writer"  -> "writing"
      [] a = "editor"  -> "editing"
      [] a = "validator" -> "validating"
      [] OTHER -> "extracting"]

OrderOfAgents(agents) == {StepOfAgent[a] : a \in agents \cap Anchor} \cup {"published"}

\* Mutant: the order of the nodes column, which the stages replaced.
OrderOfNodes(r) == OrderOfAgents(IF r.nodes = {} THEN Anchor ELSE r.nodes)

OrderOfRow(r) == OrderOfAgents({s[1] : s \in PlanOfRow(r)})

(***************************************************************************)
(* Graphs as they are parsed.                                              *)
(***************************************************************************)
NoEdge == Target("none")
NoGraph == [entry |-> "none", budgets |-> {}, steps |-> <<>>]
PlainEdge(to) == Budgeted(to, "none", FALSE, "none")

ParsedStep(s) ==
    [s EXCEPT !.next = IF s.next = NoEdge THEN PlainEdge("@done") ELSE s.next,
              !.on = [v \in {w \in DOMAIN s.on : w \in Verdict /\ s.on[w] # NoEdge} |-> s.on[v]]]

\* parse_graph: of the steps of an id the first one with a role; NoGraph when no
\* step is left.
ParsedGraph(raw) ==
    LET known == {i \in DOMAIN raw.steps : raw.steps[i].role \in DOMAIN AgentOfRole}
        kept == {i \in known : \A j \in known : j < i => raw.steps[j].id # raw.steps[i].id}
        first == CHOOSE i \in kept : \A j \in kept : i <= j
    IN  IF kept = {} THEN NoGraph
        ELSE [entry |-> IF \E i \in kept : raw.steps[i].id = raw.entry
                        THEN raw.entry ELSE raw.steps[first].id,
              budgets |-> raw.budgets,
              steps |-> [i \in kept |-> ParsedStep(raw.steps[i])]]

IdsOf(g) == {g.steps[i].id : i \in DOMAIN g.steps}
StepOf(g, id) == g.steps[CHOOSE i \in DOMAIN g.steps : g.steps[i].id = id]

\* The edges of a step, and an edge's targets.
EdgesOf(s) == {s.next} \cup {s.on[v] : v \in DOMAIN s.on}
TargetsOf(edge) == {edge.goto} \cup ({edge.exhausted} \ {"none"})

(***************************************************************************)
(* _unguarded_cycles: a depth-first visit in three colours, from the steps *)
(* in the order they are listed.  What a visit is given and what it leaves *)
(* is which steps are black and whether an arrow to a grey step had no     *)
(* budget.                                                                 *)
(***************************************************************************)
\* Mutant: only the way to the next step is followed.
EdgeAhead(s, k) == s.next

\* The edge to the next step, and those of the verdicts as they are written; one
\* that is not there takes the edge to the next step once more.
EdgeAt(s, k) == IF k = 1 THEN s.next ELSE EdgeFor(s, s.order[k - 1])
EdgePlaces == 7

\* An arrow to a step; the grey ones are here, and deeper are the visits of one
\* more step below.
TargetSeen(g, found, edge, target, here, deeper) ==
    IF target \notin IdsOf(g) THEN found
    ELSE IF target \in here THEN [found EXCEPT !.open = @ \/ edge.budget = "none"]
    ELSE IF target \in found.black THEN found
    ELSE deeper[<<target, here, found>>]

EdgeSeen(g, found, edge, here, deeper) ==
    TargetSeen(g, TargetSeen(g, found, edge, edge.goto, here, deeper),
               edge, edge.exhausted, here, deeper)

\* What visits find, and a visit: the step, what is grey, and what was found before.
Finds(g) == [black : SUBSET IdsOf(g), open : BOOLEAN]
Visits(g) == IdsOf(g) \X (SUBSET IdsOf(g)) \X Finds(g)

\* What the last n edges of a step add to what was found.
Along(g, step, here, deeper) ==
    LET along[n \in 0..EdgePlaces] ==
            IF n = 0 THEN [found \in Finds(g) |-> found]
            ELSE [found \in Finds(g) |->
                    along[n - 1][EdgeSeen(g, found, EdgeAt(step, EdgePlaces + 1 - n), here, deeper)]]
    IN  along

Visited(g, v, deeper) ==
    LET here == v[2] \cup {v[1]}
    IN  [Along(g, StepOf(g, v[1]), here, deeper)[EdgePlaces][v[3]] EXCEPT !.black = @ \cup {v[1]}]

\* The visits below which there are n more at most. There are no more on the way
\* than there are steps, so the last of these is never asked for.
VisitsOf(g) ==
    LET visit[n \in 0..Max(DOMAIN g.steps)] ==
            IF n = 0 THEN [v \in Visits(g) |-> [v[3] EXCEPT !.open = TRUE]]
            ELSE [v \in Visits(g) |-> Visited(g, v, visit[n - 1])]
    IN  visit

\* What is found from the first p places on.
FoundOf(g) ==
    LET last == Max(DOMAIN g.steps)
        from[p \in 0..last] ==
            IF p = 0 THEN [black |-> {}, open |-> FALSE]
            ELSE LET found == from[p - 1] IN
                 IF p \notin DOMAIN g.steps \/ g.steps[p].id \in found.black THEN found
                 ELSE VisitsOf(g)[last][<<g.steps[p].id, {}, found>>]
    IN  from

CyclesGuarded(g) == ~FoundOf(g)[Max(DOMAIN g.steps)].open

RequiredRoles == {"draft", "final", "publish", "postprocess"}
MustHandle(role) ==
    CASE role = "outline"      -> {"empty"}
      [] role = "review"       -> {"rewrite"}
      [] role = "force_revise" -> {"skipped"}
      [] role = "final"        -> {"blocked", "fail"}
      [] role = "publish"      -> {"blocked"}
      [] OTHER -> {}

\* validate_graph finds nothing wrong.
Accepted(g) ==
    /\ \A i \in DOMAIN g.steps : \A edge \in EdgesOf(g.steps[i]) :
          /\ TargetsOf(edge) \subseteq IdsOf(g) \cup SpecialTarget
          /\ edge.budget # "none" => edge.budget \in {"rewrite", "attempt"} \cup g.budgets /\ edge.exhausted # "none"
    /\ RequiredRoles \subseteq {g.steps[i].role : i \in DOMAIN g.steps}
    /\ \A i \in DOMAIN g.steps : MustHandle(g.steps[i].role) \subseteq DOMAIN g.steps[i].on
    /\ CyclesGuarded(g)

\* default_graph, as the editor lists it and as a chapter walks it.
Listing == <<"plan", "loop_head", "draft", "pre_check", "review", "force_fix",
             "post_check", "polish", "final_check", "publish", "post">>
RoleOfId(id) ==
    CASE id = "plan"       -> "outline"    [] id = "loop_head"   -> "context_refresh"
      [] id = "draft"      -> "draft"      [] id = "pre_check"   -> "pre_editor"
      [] id = "review"     -> "review"     [] id = "force_fix"   -> "force_revise"
      [] id = "post_check" -> "post_edit"  [] id = "polish"      -> "style_repair"
      [] id = "final_check" -> "final"     [] id = "publish"     -> "publish"
      [] OTHER -> "postprocess"

VerdictOrder == <<"empty", "skipped", "rewrite", "blocked", "fail", "ok">>
Drawn(edge) == IF edge.budget = "none" THEN [edge EXCEPT !.exhausted = "none"] ELSE edge
DerivedStep(conf, id) ==
    [id |-> id, role |-> RoleOfId(id), next |-> Drawn(NextEdge(conf, id)),
     on |-> [v \in DOMAIN Handlers(conf, id) |-> Drawn(Handlers(conf, id)[v])],
     order |-> VerdictOrder]

ConfOf(stages) ==
    LET has(role) == \E s \in stages : s[2] = role
    IN  [editor |-> has("review"), style |-> has("style_repair"), precheck |-> has("pre_editor")]

DerivedGraph(stages) ==
    [entry |-> "plan", budgets |-> {},
     steps |-> [i \in {j \in DOMAIN Listing : Listing[j] \in StepIds(ConfOf(stages))} |->
                   DerivedStep(ConfOf(stages), Listing[i])]]

\* graph_for_config: what the editor shows of a row, and what a chapter runs.
GraphFor(r, stages) ==
    IF ParsedGraph(r.graph) # NoGraph THEN ParsedGraph(r.graph) ELSE DerivedGraph(stages)
GraphShown(r) == GraphFor(r, StagesOfRow(r))
GraphRun(r) == GraphFor(r, PlanOfRow(r))

----------------------------------------------------------------------------
(***************************************************************************)
(* The requests, and a chapter under the workflow.                         *)
(***************************************************************************)
NoWalk == [at |-> "idle", since |-> {}, start |-> "none", pstep |-> "none",
           rewrites |-> 0, attempt |-> 0]

RulesInit ==
    /\ flowRow \in Rows
    /\ refusedOwn = FALSE
    /\ walk = NoWalk

\* validate_graph_payload, for a drawing and for the graph that was shown.
SaveGraph(raw) ==
    LET g == ParsedGraph(raw) IN
    /\ flowRow' = IF g # NoGraph /\ Accepted(g) THEN [flowRow EXCEPT !.graph = raw] ELSE flowRow
    /\ refusedOwn' = (refusedOwn \/ (raw = GraphShown(flowRow) /\ ~Accepted(g)))
    /\ UNCHANGED walk

\* _validate_pipeline_update: what is left of the stages is saved.
SaveStages(raw) ==
    /\ walk = NoWalk
    /\ ParsedStages(raw) # {}
    /\ flowRow' = [flowRow EXCEPT !.stages = NormalizedStages(ParsedStages(raw))]
    /\ UNCHANGED <<refusedOwn, walk>>

\* The chapter is entered at an anchor; with a draft, from the validator the
\* write-edit cluster is skipped by a rewrite count at its limit.
EnterWalk(start, rewrites, attempt) ==
    walk' = [at |-> GraphRun(flowRow).entry, since |-> {}, start |-> start,
             pstep |-> StepOfAgent[start], attempt |-> attempt,
             rewrites |-> IF start = "validator" THEN RewriteLimit ELSE rewrites]

StartChapter(start, rewrites) ==
    /\ walk = NoWalk
    /\ EnterWalk(start, rewrites, 1)
    /\ UNCHANGED <<flowRow, refusedOwn>>

\* validate_pipeline_transition, under the order of the stages.
Forward(from, to) ==
    /\ {from, to} \subseteq OrderOfRow(flowRow)
    /\ \E i, j \in DOMAIN CanonicalOrder :
          CanonicalOrder[i] = from /\ CanonicalOrder[j] = to /\ i <= j

\* The moves without allow_resume, and PipelineStateError out of them.
MoveRefused(role, verdict) ==
    \/ role = "outline" /\ verdict = "ok" /\ walk.start = "planner" /\ ~Forward(walk.pstep, "writing")
    \/ role = "review" /\ ~Forward(walk.pstep, "editing")
    \/ role = "postprocess" /\ InPlan(flowRow, "postprocess") /\ ~Forward("extracting", "extracting")

MovedTo(role, verdict) ==
    CASE role = "outline" /\ verdict = "ok" /\ walk.start # "validator" ->
           IF walk.start = "editor" THEN {"writing", "editing"} ELSE {"writing"}
      [] role = "draft"       -> {"writing"}
      [] role = "review"      -> {"editing"}
      [] role = "final"       -> {IF verdict = "fail" THEN "writing" ELSE "validating"}
      [] role = "postprocess" -> {"extracting"}
      [] OTHER                -> {walk.pstep}

\* Past its limit a counter tells no more.
OneMore(n) == IF n > RewriteLimit THEN n ELSE n + 1

\* What the adapter of a role may answer, with the rewrite count it leaves.
Leaving(n, verdicts) == {<<v, n>> : v \in verdicts}
OutlineAnswers == Leaving(walk.rewrites, {"ok", "empty"})
SkippableAnswers == Leaving(walk.rewrites, {"ok", "skipped"})
ReviewAnswers == Leaving(walk.rewrites, {"ok"}) \cup Leaving(OneMore(walk.rewrites), {"rewrite"})
PostEditAnswers ==
    Leaving(walk.rewrites, {"ok"}) \cup
    Leaving(OneMore(walk.rewrites), {IF walk.rewrites + 1 >= RewriteLimit THEN "blocked" ELSE "rewrite"})
FinalAnswers == Leaving(walk.rewrites, {"ok", IF walk.attempt >= 3 THEN "blocked" ELSE "fail"})
PublishAnswers == Leaving(walk.rewrites, {"ok", "blocked"})

StepAnswers(role) ==
    CASE role = "outline"   -> OutlineAnswers
      [] role = "review"    -> ReviewAnswers
      [] role = "post_edit" -> PostEditAnswers
      [] role = "final"     -> FinalAnswers
      [] role = "publish"   -> PublishAnswers
      [] role \in {"context_refresh", "force_revise", "style_repair"} -> SkippableAnswers
      [] OTHER              -> Leaving(walk.rewrites, {"ok"})

\* Where an edge leads. A budget of the graph's own may name any counter and any
\* limit: it is spent or it is not.
Destinations(edge, own, state) ==
    IF edge.budget \in own /\ (edge.looping => state.loopEnabled)
    THEN {edge.goto, edge.exhausted}
    ELSE {ResolveEdge(edge, state)}

RunStep ==
    /\ walk.at \notin {"idle", "@refused"} \cup SpecialTarget
    /\ LET step == StepOf(GraphRun(flowRow), walk.at)
           own  == GraphRun(flowRow).budgets
       IN
       \E answer \in StepAnswers(step.role) :
         LET verdict == answer[1]
             edge    == EdgeFor(step, verdict)
             state   == [rewriteCount |-> answer[2], maxRewrites |-> RewriteLimit,
                         attempt |-> walk.attempt, loopEnabled |-> flowRow.loop \/ flowRow.polish]
         IN  IF MoveRefused(step.role, verdict)
             THEN walk' = [walk EXCEPT !.at = "@refused"]
             ELSE \E p \in MovedTo(step.role, verdict), to \in Destinations(edge, own, state) :
                    walk' = [walk EXCEPT !.at = IF to = "none" THEN "@done" ELSE to,
                                         !.pstep = p, !.rewrites = answer[2],
                                         !.since = IF edge.budget = "none" THEN @ \cup {step.id} ELSE {}]
    /\ UNCHANGED <<flowRow, refusedOwn>>

\* @retry_chapter: the chapter is entered again, at the writer.
RunAgain ==
    /\ walk.at = "@retry_chapter" /\ walk.attempt < AttemptLimit
    /\ EnterWalk("writer", walk.rewrites, walk.attempt + 1)
    /\ UNCHANGED <<flowRow, refusedOwn>>

LeaveWalk ==
    /\ walk.at \in {"@refused"} \cup (SpecialTarget \ {"@retry_chapter"})
    /\ walk' = NoWalk
    /\ UNCHANGED <<flowRow, refusedOwn>>

RulesNext ==
    \/ walk = NoWalk /\ \E raw \in Drawings \cup {GraphShown(flowRow)} : SaveGraph(raw)
    \/ \E r \in Rows : SaveStages(r.stages)
    \/ \E start \in {"planner", "writer", "editor", "validator"}, n \in {0, RewriteLimit} : StartChapter(start, n)
    \/ RunStep
    \/ RunAgain
    \/ LeaveWalk

RulesSpec == RulesInit /\ [][RulesNext]_ruleVars

----------------------------------------------------------------------------
(* Properties.                                                             *)

\* What _unguarded_cycles is for: under a graph that was accepted a step runs
\* again only after an edge with a budget was taken, whatever the verdicts and
\* however the steps are listed and tied; and the graph the editor shows of a
\* workflow is never refused when it is sent back.  The way out of a budget that is
\* spent counts as well, as it does in the check: a loop closed by on_exhausted, or
\* by a budget of the graph's own that nothing spends, is ended only by the
\* interpreter's limit of steps.
LoopsPassABudget == walk.at \notin walk.since /\ ~refusedOwn

\* A chapter under a graph of the code's own making is never refused a move by
\* the order of the stages that graph was made from, but for one case: a chapter
\* started at the planner whose stages have none is refused the outline's move to
\* "writing".  (A graph of the user's own and the stages are saved apart, and may
\* contradict each other.)
OwnOrderIsKept ==
    walk.at = "@refused" =>
        \/ ParsedGraph(flowRow.graph) # NoGraph
        \/ walk.start = "planner" /\ ~InPlan(flowRow, "outline")
=============================================================================
