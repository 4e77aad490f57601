------------------------------- MODULE Workflows -------------------------------
(***************************************************************************)
(* Workflows, nodes and prompt templates as users edit them, and whether   *)
(* the chapters of projects find what they need.                           *)
(*                                                                         *)
(* src/services/workflow_admin_service.py, system_configs_service.py,      *)
(* workflow_nodes.py, project_service.py and, on the side of a chapter,    *)
(* pipeline_config_service, chapter_graph_runner and prompt_templates.     *)
(* Every request reads and checks first and commits later, with no lock:   *)
(* one request may be split there, with others in between. Of a graph the  *)
(* model keeps one step that may name a node; the other steps run built-in *)
(* nodes. A prompt category is named after a workflow.                     *)
(***************************************************************************)
EXTENDS Naturals, FiniteSets

CONSTANTS
    BuiltinFlows, CustomFlows,  \* names of workflows
    Clones,                     \* those of the user's own that are there at first
    Roles,                      \* roles of steps that have a prompt
    CustomPrompt,               \* a prompt of the user's own
    CustomNodes,                \* nodes of the user's own
    Projects,
    MaxRequests                 \* bound: requests

ASSUME WorkflowsAssumption ==
    /\ BuiltinFlows \intersect CustomFlows = {} /\ CustomPrompt \notin Roles
    /\ Clones \subseteq CustomFlows /\ MaxRequests \in Nat
    /\ Roles # {} /\ "none" \notin Roles

VARIABLES
    flows,      \* pipeline_configs: name -> category, and the role and node of a step
    nodes,      \* workflow_nodes: id -> role and prompt
    prompts,    \* prompt_templates: <<name, category>>
    projects,   \* project -> its novel_format
    pending,    \* the request that has been checked and not committed
    requests,
    crossed,    \* history: what requests counted on and others took away meanwhile
    disturbed   \* history: workflows the user has made unable to find a prompt

flowVars == <<flows, nodes, prompts, projects, pending, requests, crossed, disturbed>>

Flows == BuiltinFlows \cup CustomFlows
NoFlow == [category |-> "none", role |-> "none", node |-> "none"]
BuiltinNode == "none"
NoNode == [role |-> "none", prompt |-> "none"]
OwnPrompt == "none"
NoProject == "none"
NoRequest == [op |-> "none"]
Nothing == [made |-> NoFlow, prompts |-> {}]
NonePending == [request |-> NoRequest, read |-> Nothing]

\* ROLE_PRIMARY_PROMPT: a role's prompt has its name here.
PromptNames == Roles \cup {CustomPrompt}

\* REQUIRED_PROMPT_TEMPLATES.
Required == Roles \X BuiltinFlows

Builtin(f) == f \in BuiltinFlows
FlowExists(f) == flows[f] # NoFlow
NodeExists(n) == n # BuiltinNode => nodes[n] # NoNode
AnyRole == CHOOSE r \in Roles : TRUE

WorkflowsInit ==
    /\ flows = [f \in Flows |-> IF f \in BuiltinFlows \cup Clones
                   THEN [category |-> f, role |-> AnyRole, node |-> BuiltinNode] ELSE NoFlow]
    /\ prompts = Roles \X (BuiltinFlows \cup Clones)
    /\ nodes = [n \in CustomNodes |-> NoNode]
    /\ projects = [p \in Projects |-> NoProject]
    /\ pending = NonePending /\ requests = 0
    /\ crossed = {} /\ disturbed = {}

-----------------------------------------------------------------------------
(* What a chapter of a workflow loads.                                     *)

\* prompt_overrides_for: the prompt of the step's node in place of the primary
\* one of the node's role; it reaches the step only if that role is the step's.
PromptOf(s, nod) ==
    IF s.node = BuiltinNode \/ nod[s.node] = NoNode THEN s.role
    ELSE IF nod[s.node].prompt # OwnPrompt /\ nod[s.node].role = s.role
    THEN nod[s.node].prompt ELSE s.role

Loaded(s, nod) == {<<r, s.category>> : r \in Roles \ {s.role}}
                     \cup {<<PromptOf(s, nod), s.category>>}

\* get_pipeline_config finds the row, load_prompt_template every template.
CanLoad(f, fl, nod, pr) == fl[f] # NoFlow /\ Loaded(fl[f], nod) \subseteq pr

-----------------------------------------------------------------------------
(* Requests: what is checked.                                              *)

Users(f) == {p \in Projects : projects[p] = f}

\* validate_graph_payload: the node is there and has the role of the step.
StepValid(role, n) == n # BuiltinNode => nodes[n] # NoNode /\ nodes[n].role = role

CopyOf(f, target) == {<<t[1], target>> : t \in {u \in prompts : u[2] = flows[f].category}}

\* create_workflow: a clone with a copy of the prompts, which must not be empty,
\* a clone that shares them, or a new one on a category that has some.
CreatesFlow(q) ==
    /\ q.op = "create flow" /\ ~FlowExists(q.flow)
    /\ \/ q.mode = "copy" /\ FlowExists(q.from) /\ CopyOf(q.from, q.flow) # {}
       \/ q.mode = "share" /\ FlowExists(q.from)
       \/ q.mode = "new" /\ \E t \in prompts : t[2] = q.from
    /\ q.mode # "new" => StepValid(flows[q.from].role, flows[q.from].node)

\* update_pipeline_config: a graph or a category; the category is not checked.
UpdatesFlow(q) ==
    /\ q.op = "update flow" /\ FlowExists(q.flow)
    /\ StepValid(q.role, q.node)

\* Mutant: a workflow in use may be deleted.
DeletesAny(q) == q.op = "delete flow" /\ FlowExists(q.flow) /\ ~Builtin(q.flow)

\* delete_workflow: not a built-in one, and not one that projects use.
DeletesFlow(q) ==
    /\ q.op = "delete flow" /\ FlowExists(q.flow)
    /\ ~Builtin(q.flow) /\ Users(q.flow) = {}

\* create_node and update_node: whether the prompt exists is not checked, and
\* neither are the graphs that use the node.
WritesNode(q) ==
    \/ q.op = "create node" /\ ~NodeExists(q.node)
    \/ q.op = "update node" /\ NodeExists(q.node)

\* delete_node: not while a graph names it.
DeletesNode(q) ==
    /\ q.op = "delete node" /\ NodeExists(q.node)
    /\ \A f \in Flows : flows[f].node # q.node

CreatesPrompt(q) == q.op = "create prompt" /\ <<q.name, q.category>> \notin prompts

\* delete_prompt_template: not a required one, and not one a node names.
DeletesPrompt(q) ==
    /\ q.op = "delete prompt" /\ <<q.name, q.category>> \in prompts \ Required
    /\ \A n \in CustomNodes : nodes[n].prompt # q.name

\* create_project: the workflow must be there.
CreatesProject(q) ==
    q.op = "create project" /\ projects[q.project] = NoProject /\ FlowExists(q.flow)

Checked(q) ==
    \/ CreatesFlow(q) \/ UpdatesFlow(q) \/ DeletesFlow(q)
    \/ WritesNode(q) \/ DeletesNode(q)
    \/ CreatesPrompt(q) \/ DeletesPrompt(q) \/ CreatesProject(q)

Requests ==
    [op : {"create flow"}, flow : CustomFlows, from : Flows, mode : {"copy", "share", "new"}]
    \cup [op : {"update flow"}, flow : Flows, category : Flows, role : Roles,
          node : CustomNodes \cup {BuiltinNode}]
    \cup [op : {"delete flow"}, flow : Flows]
    \cup [op : {"create node", "update node"}, node : CustomNodes, role : Roles,
          prompt : {OwnPrompt, CustomPrompt}]
    \cup [op : {"delete node"}, node : CustomNodes]
    \cup [op : {"create prompt", "delete prompt"}, name : PromptNames, category : Flows]
    \cup [op : {"create project"}, project : Projects, flow : Flows]

-----------------------------------------------------------------------------
(* Requests: what is written.                                              *)

\* Mutant: the prompts of a category go with any workflow that uses it.
DroppingAll(q) == {t \in prompts : t[2] = flows[q.flow].category}

\* A workflow that has its own category takes it along when it is deleted.
Dropped(q) ==
    IF flows[q.flow].category = q.flow THEN {t \in prompts : t[2] = q.flow} ELSE {}

\* The row of a workflow that is created: of the category from, or a clone of from.
Made(q) ==
    IF q.mode = "new" THEN [category |-> q.from, role |-> AnyRole, node |-> BuiltinNode]
    ELSE [flows[q.from] EXCEPT !.category = IF q.mode = "copy" THEN q.flow ELSE @]

\* What a request has read of other rows and writes with its own: the row that is
\* cloned, and the prompts that are copied or go.
ReadFor(q) ==
    [made |-> IF q.op = "create flow" THEN Made(q) ELSE NoFlow,
     prompts |-> IF q.op = "create flow" /\ q.mode = "copy" THEN CopyOf(q.from, q.flow)
                 ELSE IF q.op = "delete flow" THEN Dropped(q) ELSE {}]

FlowsAfter(q, read) ==
    CASE q.op = "create flow" -> [flows EXCEPT ![q.flow] = read.made]
      [] q.op = "update flow" ->
           [flows EXCEPT ![q.flow] = [category |-> q.category, role |-> q.role, node |-> q.node]]
      [] q.op = "delete flow" -> [flows EXCEPT ![q.flow] = NoFlow]
      [] OTHER -> flows

NodesAfter(q) ==
    CASE q.op \in {"create node", "update node"} ->
           [nodes EXCEPT ![q.node] = [role |-> q.role, prompt |-> q.prompt]]
      [] q.op = "delete node" -> [nodes EXCEPT ![q.node] = NoNode]
      [] OTHER -> nodes

PromptsAfter(q, read) ==
    CASE q.op = "create flow" -> prompts \cup read.prompts
      [] q.op = "delete flow" -> prompts \ read.prompts
      [] q.op = "create prompt" -> prompts \cup {<<q.name, q.category>>}
      [] q.op = "delete prompt" -> prompts \ {<<q.name, q.category>>}
      [] OTHER -> prompts

ProjectsAfter(q) ==
    IF q.op = "create project" THEN [projects EXCEPT ![q.project] = q.flow] ELSE projects

\* History. A request disturbs the workflows that could load before it and cannot
\* after it; it may do so as one of the four that are not guarded: a category set
\* by hand, a template of a category of one's own deleted, a node given a prompt
\* the category lacks, the category of a shared workflow going with its owner. A
\* workflow made out of a disturbed category is disturbed as well, and so is a clone
\* whose prompts went while it was being made.
Unguarded(q) ==
    \/ q.op \in {"update flow", "delete prompt", "create node", "update node"}
    \/ q.op = "delete flow" /\ \E f \in Flows \ {q.flow} : flows[f].category = q.flow

Disturbs(q, read) ==
    {f \in Flows : /\ FlowsAfter(q, read)[f] # NoFlow
                   /\ ~CanLoad(f, FlowsAfter(q, read), NodesAfter(q), PromptsAfter(q, read))
                   /\ \/ Unguarded(q)
                      \/ q.op = "create flow" /\ f = q.flow /\
                            (q.mode = "new" \/ q.from \in disturbed \/ <<"clone", f>> \in crossed)}

WriteRows(q, read) ==
    /\ flows' = FlowsAfter(q, read)
    /\ nodes' = NodesAfter(q)
    /\ prompts' = PromptsAfter(q, read)
    /\ projects' = ProjectsAfter(q)
    /\ disturbed' = disturbed \cup Disturbs(q, read)

\* History. What a request has found there and its row goes on to name, and what a
\* request deletes.
CountsOn(q, read) ==
    CASE q.op = "create project" -> {<<"flow", q.flow>>}
      [] q.op = "create flow"    -> {<<"node", read.made.node>>}
      [] q.op = "update flow"    -> {<<"node", q.node>>}
      [] OTHER -> {}

TakesAway(q) ==
    CASE q.op = "delete flow" -> {<<"flow", q.flow>>}
      [] q.op = "delete node" -> {<<"node", q.node>>}
      [] OTHER -> {}

\* A prompt of the clone that p is making goes, or the node of it gets another.
Undercuts(q, p, clone) ==
    /\ p.op = "create flow"
    /\ \/ q.op = "delete prompt" /\ q.category = clone.category
       \/ q.op = "delete flow" /\ q.flow = clone.category
       \/ q.op \in {"create node", "update node"} /\ q.node = clone.node

\* What becomes uncertain when q commits between the check of p and its commit.
Crossing(q, p, read) ==
    (CountsOn(p, read) \cap TakesAway(q)) \cup (CountsOn(q, ReadFor(q)) \cap TakesAway(p))
        \cup {<<"clone", f>> : f \in {g \in CustomFlows : Undercuts(q, p, read.made) /\ g = p.flow}}

-----------------------------------------------------------------------------

\* A request that nothing comes between.
Request(q) ==
    /\ requests < MaxRequests /\ requests' = requests + 1
    /\ Checked(q) /\ WriteRows(q, ReadFor(q))
    /\ crossed' = crossed \cup Crossing(q, pending.request, pending.read)
    /\ UNCHANGED pending

\* A request that has passed its checks, with its session still open.
Check(q) ==
    /\ requests < MaxRequests /\ requests' = requests + 1
    /\ pending = NonePending /\ Checked(q)
    /\ pending' = [request |-> q, read |-> ReadFor(q)]
    /\ UNCHANGED <<flows, nodes, prompts, projects, crossed, disturbed>>

\* A row that another has deleted, or made under the same key, fails the commit.
Gone(q) ==
    \/ q.op \in {"update flow", "delete flow"} /\ ~FlowExists(q.flow)
    \/ q.op \in {"update node", "delete node"} /\ ~NodeExists(q.node)
    \/ q.op = "create flow" /\ FlowExists(q.flow)
    \/ q.op = "create node" /\ NodeExists(q.node)
    \/ q.op = "create project" /\ projects[q.project] # NoProject

Commit ==
    /\ pending # NonePending /\ pending' = NonePending
    /\ IF Gone(pending.request) THEN UNCHANGED <<flows, nodes, prompts, projects, disturbed>>
       ELSE WriteRows(pending.request, pending.read)
    /\ UNCHANGED <<requests, crossed>>

WorkflowsNext == (\E q \in Requests : Request(q) \/ Check(q)) \/ Commit

WorkflowsSpec == WorkflowsInit /\ [][WorkflowsNext]_flowVars

-----------------------------------------------------------------------------
(* Properties.                                                             *)

\* The workflow of a project is there and a graph names no node that is not: what
\* deletions refuse (workflow_admin_service.py:8-10 and delete_node) and what is
\* accepted fit together however requests overlap, but for the workflow or node
\* that one request deleted while another that had found it there, or came to use
\* it, was under way; for the checks take no lock.
InUseIsThere ==
    /\ \A p \in Projects : projects[p] # NoProject =>
          FlowExists(projects[p]) \/ <<"flow", projects[p]>> \in crossed
    /\ \A f \in Flows : FlowExists(f) =>
          NodeExists(flows[f].node) \/ <<"node", flows[f].node>> \in crossed

\* A workflow is made able to load all its prompts and stays so, except after the
\* four edits that are not guarded, or when its node or the prompts it was cloned
\* from went while it was being made: no other creation, deletion or clone, of any
\* workflow, node, prompt or project and in any overlap, takes a template from it.
\* The required templates of the built-in categories stay whatever happens.
PromptsAreThere ==
    /\ Required \subseteq prompts
    /\ \A f \in Flows \ disturbed :
          FlowExists(f) /\ <<"node", flows[f].node>> \notin crossed =>
             CanLoad(f, flows, nodes, prompts)
=============================================================================
