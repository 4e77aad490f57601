--------------------------- MODULE Workflows_proofs ---------------------------
(***************************************************************************)
(* Proofs about Workflows, for any workflows, roles, nodes and projects:   *)
(* how much of what a request has checked still holds when it commits,     *)
(* whatever has come between.  And about GraphRules, for any rows,         *)
(* drawings and limits: what the search for loops without a budget         *)
(* guarantees a chapter, and what becomes of the graph the code makes.     *)
(***************************************************************************)
EXTENDS Workflows, GraphRules, FiniteSetTheorems, WellFoundedInduction, TLAPS

-----------------------------------------------------------------------------
(* The inductive invariant.                                                *)

Steps == [category : Flows, role : Roles, node : CustomNodes \cup {BuiltinNode}]
NodeRows == [role : Roles, prompt : {OwnPrompt, CustomPrompt}]

FlowTypes ==
    /\ flows \in [Flows -> Steps \cup {NoFlow}]
    /\ nodes \in [CustomNodes -> NodeRows \cup {NoNode}]
    /\ projects \in [Projects -> Flows \cup {NoProject}]
    /\ pending # NonePending => pending.request \in Requests
    /\ pending.request.op = "create flow" => pending.read.made \in Steps

\* Which workflows are built in and which templates required never changes, so
\* what was checked of it holds at the commit whatever has come between.
SparesBuiltin(q, read) ==
    /\ q.op = "delete flow" => \A t \in read.prompts : t[2] \notin BuiltinFlows
    /\ q.op = "delete prompt" => <<q.name, q.category>> \notin Required

\* What was found there is there, or it was deleted meanwhile.
FlowThere(f) == FlowExists(f) \/ <<"flow", f>> \in crossed
NodeThere(n) == NodeExists(n) \/ <<"node", n>> \in crossed

\* What a chapter of the row loads is among the prompts.
RowLoads(row, among) == <<"node", row.node>> \notin crossed => Loaded(row, nodes) \subseteq among

\* A clone finds its prompts, those copied with it included.
CloneLoads(q, read) ==
    q.mode # "new" /\ q.from \notin disturbed /\ <<"clone", q.flow>> \notin crossed =>
        RowLoads(read.made, prompts \cup read.prompts)

\* How much of what a request has checked holds until it commits, whatever comes
\* between.
Holds(q, read) ==
    /\ SparesBuiltin(q, read)
    /\ q.op = "create project" => FlowThere(q.flow)
    /\ q.op = "update flow" => NodeThere(q.node)
    /\ q.op = "create flow" => NodeThere(read.made.node) /\ CloneLoads(q, read)
    /\ q.op = "delete flow" => /\ \A p \in Projects : projects[p] = q.flow => <<"flow", q.flow>> \in crossed
                               /\ \A t \in read.prompts : t[2] = q.flow
    /\ q.op = "delete node" =>
          \A f \in Flows : FlowExists(f) /\ flows[f].node = q.node => <<"node", q.node>> \in crossed

PendingSound == pending # NonePending => Holds(pending.request, pending.read)

InUse ==
    /\ \A p \in Projects : projects[p] # NoProject => FlowThere(projects[p])
    /\ \A f \in Flows : FlowExists(f) => NodeThere(flows[f].node)

Loads == \A f \in Flows \ disturbed : FlowExists(f) => RowLoads(flows[f], prompts)

FlowsInv == FlowTypes /\ PendingSound /\ Required \subseteq prompts /\ InUse /\ Loads

LEMMA Kinds ==
    ASSUME NEW q \in Requests
    PROVE  /\ q.op \in {"create flow", "update flow", "delete flow", "create node",
                        "update node", "delete node", "create prompt", "delete prompt",
                        "create project"}
           /\ q.op = "create flow" => /\ q.flow \in CustomFlows /\ q.from \in Flows
                                      /\ q.mode \in {"copy", "share", "new"}
           /\ q.op = "update flow" => /\ q.flow \in Flows /\ q.category \in Flows
                                      /\ q.role \in Roles
                                      /\ q.node \in CustomNodes \cup {BuiltinNode}
           /\ q.op = "delete flow" => q.flow \in Flows
           /\ q.op \in {"create node", "update node"} =>
                /\ q.node \in CustomNodes /\ q.role \in Roles
                /\ q.prompt \in {OwnPrompt, CustomPrompt}
           /\ q.op = "delete node" => q.node \in CustomNodes
           /\ q.op = "create project" => q.project \in Projects /\ q.flow \in Flows
           /\ q # NoRequest
<1>0. q.op # "none" => q # NoRequest
  BY DEF NoRequest
<1>1. CASE q \in [op : {"create flow"}, flow : CustomFlows, from : Flows,
                  mode : {"copy", "share", "new"}]
  <2>1. q.op = "create flow" /\ q.flow \in CustomFlows /\ q.from \in Flows
      /\ q.mode \in {"copy", "share", "new"}
    BY <1>1
  <2> QED BY <2>1, <1>0
<1>2. CASE q \in [op : {"update flow"}, flow : Flows, category : Flows, role : Roles,
                  node : CustomNodes \cup {BuiltinNode}]
  <2>1. q.op = "update flow" /\ q.flow \in Flows /\ q.category \in Flows /\ q.role \in Roles
      /\ q.node \in CustomNodes \cup {BuiltinNode}
    BY <1>2
  <2> QED BY <2>1, <1>0
<1>3. CASE q \in [op : {"delete flow"}, flow : Flows]
  <2>1. q.op = "delete flow" /\ q.flow \in Flows
    BY <1>3
  <2> QED BY <2>1, <1>0
<1>4. CASE q \in [op : {"create node", "update node"}, node : CustomNodes, role : Roles,
                  prompt : {OwnPrompt, CustomPrompt}]
  <2>1. q.op \in {"create node", "update node"} /\ q.node \in CustomNodes /\ q.role \in Roles
      /\ q.prompt \in {OwnPrompt, CustomPrompt}
    BY <1>4
  <2> QED BY <2>1, <1>0
<1>5. CASE q \in [op : {"delete node"}, node : CustomNodes]
  <2>1. q.op = "delete node" /\ q.node \in CustomNodes
    BY <1>5
  <2> QED BY <2>1, <1>0
<1>6. CASE q \in [op : {"create prompt", "delete prompt"}, name : PromptNames, category : Flows]
  <2>1. q.op \in {"create prompt", "delete prompt"}
    BY <1>6
  <2> QED BY <2>1, <1>0
<1>7. CASE q \in [op : {"create project"}, project : Projects, flow : Flows]
  <2>1. q.op = "create project" /\ q.project \in Projects /\ q.flow \in Flows
    BY <1>7
  <2> QED BY <2>1, <1>0
<1> QED BY <1>1, <1>2, <1>3, <1>4, <1>5, <1>6, <1>7 DEF Requests

\* What is there is not what stands for nothing.
LEMMA RowsDiffer ==
    /\ \A s \in Steps : s # NoFlow
    /\ \A n \in NodeRows : n # NoNode
BY WorkflowsAssumption DEF Steps, NodeRows, NoFlow, NoNode

\* The row of a workflow that is created.
LEMMA MadeRow ==
    ASSUME FlowTypes, NEW q \in Requests, q.op = "create flow", CreatesFlow(q)
    PROVE  /\ Made(q) \in Steps /\ q.flow \in Flows
           /\ FlowsAfter(q, ReadFor(q)) = [flows EXCEPT ![q.flow] = Made(q)]
           /\ q.mode = "new" => Made(q).node = BuiltinNode
           /\ q.mode # "new" => /\ flows[q.from] \in Steps
                                /\ Made(q).node = flows[q.from].node
                                /\ Made(q).role = flows[q.from].role
           /\ q.mode = "copy" => Made(q).category = q.flow
           /\ q.mode = "share" => Made(q) = flows[q.from]
<1>1. /\ q.flow \in CustomFlows /\ q.from \in Flows /\ q.flow \in Flows
      /\ q.mode \in {"copy", "share", "new"}
  BY Kinds DEF Flows
<1>2. AnyRole \in Roles
  BY WorkflowsAssumption DEF AnyRole
<1>3. PICK s : s = flows[q.from]
  OBVIOUS
<1>4. q.mode # "new" => s \in Steps
  BY <1>1, <1>3 DEF FlowTypes, CreatesFlow, FlowExists
<1>5. CASE q.mode = "new"
  <2>1. Made(q) = [category |-> q.from, role |-> AnyRole, node |-> BuiltinNode]
    BY <1>5 DEF Made
  <2>2. FlowsAfter(q, ReadFor(q)) = [flows EXCEPT ![q.flow] = Made(q)]
    BY <1>5 DEF FlowsAfter, ReadFor
  <2>3. PICK c \in Flows, r \in Roles : c = q.from /\ r = AnyRole
    BY <1>1, <1>2
  <2>4. Made(q) = [category |-> c, role |-> r, node |-> BuiltinNode]
    BY <2>1, <2>3
  <2>5. Made(q) \in Steps /\ Made(q).node = BuiltinNode
    <3>1. PICK t : t = [category |-> c, role |-> r, node |-> BuiltinNode]
      OBVIOUS
    <3>2. t \in Steps
      BY <3>1 DEF Steps
    <3>3. t.node = BuiltinNode
      BY <3>1
    <3> QED BY <2>4, <3>1, <3>2, <3>3
  <2> QED BY <1>1, <1>5, <2>2, <2>5
<1>6. CASE q.mode = "copy"
  <2>1. Made(q) = [s EXCEPT !.category = q.flow]
    BY <1>3, <1>6 DEF Made
  <2>2. FlowsAfter(q, ReadFor(q)) = [flows EXCEPT ![q.flow] = Made(q)]
    BY <1>6 DEF FlowsAfter, ReadFor
  <2> QED BY <1>1, <1>3, <1>4, <1>6, <2>1, <2>2 DEF Steps
<1>7. CASE q.mode = "share"
  <2>1. Made(q) = [s EXCEPT !.category = @]
    BY <1>3, <1>7 DEF Made
  <2>2. FlowsAfter(q, ReadFor(q)) = [flows EXCEPT ![q.flow] = Made(q)]
    BY <1>7 DEF FlowsAfter, ReadFor
  <2>3. Made(q) = s
    BY <1>4, <1>7, <2>1 DEF Steps
  <2> QED BY <1>1, <1>3, <1>4, <1>7, <2>2, <2>3 DEF Steps
<1> QED BY <1>1, <1>5, <1>6, <1>7

LEMMA TypesKept ==
    ASSUME FlowTypes, NEW q \in Requests, NEW read, WriteRows(q, read),
           q.op = "create flow" => read.made \in Steps
    PROVE  /\ flows' \in [Flows -> Steps \cup {NoFlow}]
           /\ nodes' \in [CustomNodes -> NodeRows \cup {NoNode}]
           /\ projects' \in [Projects -> Flows \cup {NoProject}]
<1>1. flows' \in [Flows -> Steps \cup {NoFlow}]
  <2>1. CASE q.op = "create flow"
    <3>1. flows' = [flows EXCEPT ![q.flow] = read.made]
      BY <2>1 DEF WriteRows, FlowsAfter
    <3> QED BY <2>1, <3>1 DEF FlowTypes
  <2>2. CASE q.op = "update flow"
    <3>1. PICK s : s = [category |-> q.category, role |-> q.role, node |-> q.node]
      OBVIOUS
    <3>2. s \in Steps /\ q.flow \in Flows
      BY <2>2, <3>1, Kinds DEF Steps
    <3>3. flows' = [flows EXCEPT ![q.flow] = s]
      BY <2>2, <3>1 DEF WriteRows, FlowsAfter
    <3> QED BY <3>2, <3>3 DEF FlowTypes
  <2>3. CASE q.op = "delete flow"
    <3>1. flows' = [flows EXCEPT ![q.flow] = NoFlow]
      BY <2>3 DEF WriteRows, FlowsAfter
    <3> QED BY <3>1 DEF FlowTypes
  <2>4. CASE q.op \notin {"create flow", "update flow", "delete flow"}
    BY <2>4 DEF WriteRows, FlowsAfter, FlowTypes
  <2> QED BY <2>1, <2>2, <2>3, <2>4
<1>2. nodes' \in [CustomNodes -> NodeRows \cup {NoNode}]
  <2>1. CASE q.op \in {"create node", "update node"}
    <3>1. PICK n : n = [role |-> q.role, prompt |-> q.prompt]
      OBVIOUS
    <3>2. n \in NodeRows
      BY <2>1, <3>1, Kinds DEF NodeRows
    <3>3. nodes' = [nodes EXCEPT ![q.node] = n]
      BY <2>1, <3>1 DEF WriteRows, NodesAfter
    <3> QED BY <3>2, <3>3 DEF FlowTypes
  <2>2. CASE q.op = "delete node"
    <3>1. nodes' = [nodes EXCEPT ![q.node] = NoNode]
      BY <2>2 DEF WriteRows, NodesAfter
    <3> QED BY <3>1 DEF FlowTypes
  <2>3. CASE q.op \notin {"create node", "update node", "delete node"}
    BY <2>3 DEF WriteRows, NodesAfter, FlowTypes
  <2> QED BY <2>1, <2>2, <2>3
<1>3. projects' \in [Projects -> Flows \cup {NoProject}]
  BY Kinds DEF WriteRows, ProjectsAfter, FlowTypes
<1> QED BY <1>1, <1>2, <1>3

\* Which check a request that passed its checks has passed.
LEMMA Passes ==
    ASSUME NEW q, Checked(q)
    PROVE  /\ q.op = "create flow" => CreatesFlow(q)
           /\ q.op = "update flow" => UpdatesFlow(q)
           /\ q.op = "delete flow" => DeletesFlow(q)
           /\ q.op \in {"create node", "update node"} => WritesNode(q)
           /\ q.op = "delete node" => DeletesNode(q)
           /\ q.op = "create prompt" => CreatesPrompt(q)
           /\ q.op = "delete prompt" => DeletesPrompt(q)
           /\ q.op = "create project" => CreatesProject(q)
BY DEF Checked, CreatesFlow, UpdatesFlow, DeletesFlow, WritesNode, DeletesNode,
       CreatesPrompt, DeletesPrompt, CreatesProject

\* What one request writes of each table, by its kind.
LEMMA Writes ==
    ASSUME NEW q \in Requests, NEW read, WriteRows(q, read)
    PROVE  /\ q.op = "create flow" => /\ flows' = [flows EXCEPT ![q.flow] = read.made]
                                      /\ nodes' = nodes /\ projects' = projects
                                      /\ prompts' = prompts \cup read.prompts
           /\ q.op = "update flow" =>
                 /\ flows' = [flows EXCEPT ![q.flow] =
                                [category |-> q.category, role |-> q.role, node |-> q.node]]
                 /\ nodes' = nodes /\ projects' = projects /\ prompts' = prompts
           /\ q.op = "delete flow" => /\ flows' = [flows EXCEPT ![q.flow] = NoFlow]
                                      /\ nodes' = nodes /\ projects' = projects
                                      /\ prompts' = prompts \ read.prompts
           /\ q.op \in {"create node", "update node"} =>
                 /\ nodes' = [nodes EXCEPT ![q.node] = [role |-> q.role, prompt |-> q.prompt]]
                 /\ flows' = flows /\ projects' = projects /\ prompts' = prompts
           /\ q.op = "delete node" => /\ nodes' = [nodes EXCEPT ![q.node] = NoNode]
                                      /\ flows' = flows /\ projects' = projects /\ prompts' = prompts
           /\ q.op = "create prompt" => /\ prompts \subseteq prompts'
                                        /\ flows' = flows /\ nodes' = nodes /\ projects' = projects
           /\ q.op = "delete prompt" => /\ prompts' = prompts \ {<<q.name, q.category>>}
                                        /\ flows' = flows /\ nodes' = nodes /\ projects' = projects
           /\ q.op = "create project" => /\ projects' = [projects EXCEPT ![q.project] = q.flow]
                                         /\ flows' = flows /\ nodes' = nodes /\ prompts' = prompts
BY DEF WriteRows, FlowsAfter, NodesAfter, PromptsAfter, ProjectsAfter

\* The node of every row is one of the nodes or the built-in one.
NodesNamed == \A f \in Flows : flows[f] # NoFlow => flows[f].node \in CustomNodes \cup {BuiltinNode}

LEMMA NamesNodes == FlowTypes => NodesNamed
BY DEF FlowTypes, Steps, NodesNamed

\* The workflows and nodes in use stay.
LEMMA InUseKept ==
    ASSUME FlowTypes, InUse, NEW q \in Requests, NEW read, Holds(q, read), WriteRows(q, read),
           q.op = "create flow" => read.made \in Steps, crossed \subseteq crossed'
    PROVE  InUse'
<1> USE DEF InUse, FlowThere, NodeThere, FlowExists, NodeExists
<1>1. CASE q.op = "create flow"
  <2>1. PICK s : s = read.made
    OBVIOUS
  <2>2. /\ s \in Steps /\ q.flow \in Flows /\ flows' = [flows EXCEPT ![q.flow] = s]
        /\ nodes' = nodes /\ projects' = projects /\ NodeThere(s.node)
    BY <1>1, <2>1, Writes, Kinds DEF Holds, Flows
  <2> QED BY <2>2, RowsDiffer DEF FlowTypes
<1>2. CASE q.op = "update flow"
  <2>1. PICK s : s = [category |-> q.category, role |-> q.role, node |-> q.node]
    OBVIOUS
  <2>2. /\ s \in Steps /\ s.node = q.node /\ flows' = [flows EXCEPT ![q.flow] = s]
        /\ nodes' = nodes /\ projects' = projects
    BY <1>2, <2>1, Writes, Kinds DEF Steps
  <2>3. NodeThere(s.node)
    BY <1>2, <2>2 DEF Holds
  <2> QED BY <2>2, <2>3, RowsDiffer DEF FlowTypes
<1>3. CASE q.op = "delete flow"
  <2>1. /\ flows' = [flows EXCEPT ![q.flow] = NoFlow]
        /\ nodes' = nodes /\ projects' = projects
        /\ \A p \in Projects : projects[p] = q.flow => <<"flow", q.flow>> \in crossed
    BY <1>3, Writes DEF Holds
  <2> QED BY <2>1 DEF FlowTypes
<1>4. CASE q.op \in {"create node", "update node"}
  <2>1. PICK n : n = [role |-> q.role, prompt |-> q.prompt]
    OBVIOUS
  <2>2. /\ n \in NodeRows /\ nodes' = [nodes EXCEPT ![q.node] = n]
        /\ flows' = flows /\ projects' = projects
    BY <1>4, <2>1, Writes, Kinds DEF NodeRows
  <2>3. \A m \in CustomNodes : nodes[m] # NoNode => nodes'[m] # NoNode
    BY <2>2, RowsDiffer DEF FlowTypes
  <2>4. NodesNamed
    BY NamesNodes
  <2> QED BY <2>2, <2>3, <2>4 DEF NodesNamed
<1>5. CASE q.op = "delete node"
  <2>1. /\ nodes' = [nodes EXCEPT ![q.node] = NoNode]
        /\ flows' = flows /\ projects' = projects
        /\ \A f \in Flows : FlowExists(f) /\ flows[f].node = q.node => <<"node", q.node>> \in crossed
    BY <1>5, Writes DEF Holds
  <2>2. \A m \in CustomNodes \ {q.node} : nodes'[m] = nodes[m]
    BY <2>1 DEF FlowTypes
  <2>3. NodesNamed
    BY NamesNodes
  <2> QED BY <2>1, <2>2, <2>3 DEF NodesNamed
<1>6. CASE q.op = "create project"
  <2>1. /\ projects' = [projects EXCEPT ![q.project] = q.flow]
        /\ flows' = flows /\ nodes' = nodes /\ FlowThere(q.flow)
    BY <1>6, Writes DEF Holds
  <2> QED BY <2>1 DEF FlowTypes
<1>7. CASE q.op \in {"create prompt", "delete prompt"}
  <2>1. flows' = flows /\ nodes' = nodes /\ projects' = projects
    BY <1>7, Writes
  <2> QED BY <2>1
<1> QED BY <1>1, <1>2, <1>3, <1>4, <1>5, <1>6, <1>7, Kinds

\* What a row loads is of its category, and depends on its own node only.
LEMMA LoadedIs ==
    ASSUME NEW s
    PROVE  /\ \A t \in Loaded(s, nodes) : t[2] = s.category
           /\ s.node = BuiltinNode \/ nodes'[s.node] = nodes[s.node] =>
                 Loaded(s, nodes') = Loaded(s, nodes)
<1>1. \A t \in Loaded(s, nodes) : t[2] = s.category
  BY DEF Loaded
<1>2. ASSUME s.node = BuiltinNode \/ nodes'[s.node] = nodes[s.node]
      PROVE  Loaded(s, nodes') = Loaded(s, nodes)
  <2>1. PromptOf(s, nodes') = PromptOf(s, nodes)
    BY <1>2 DEF PromptOf
  <2> QED BY <2>1 DEF Loaded
<1> QED BY <1>1, <1>2

\* A workflow that the request has not disturbed loads what it needs.
LEMMA LoadsKept ==
    ASSUME FlowTypes, Loads, NEW q \in Requests, NEW read, Holds(q, read), WriteRows(q, read),
           q.op = "create flow" => read.made \in Steps, crossed \subseteq crossed'
    PROVE  Loads'
<1> SUFFICES ASSUME NEW f \in Flows, f \notin disturbed', flows'[f] # NoFlow,
                    <<"node", flows'[f].node>> \notin crossed',
                    ~(Loaded(flows'[f], nodes') \subseteq prompts')
             PROVE  FALSE
  BY DEF Loads, FlowExists, RowLoads
<1>1. /\ f \notin disturbed /\ ~Unguarded(q)
      /\ q.op = "create flow" /\ f = q.flow =>
            q.mode # "new" /\ q.from \notin disturbed /\ <<"clone", f>> \notin crossed
  BY DEF WriteRows, Disturbs, CanLoad
<1>2. PICK s : s = flows[f]
  OBVIOUS
<1>3. s # NoFlow /\ <<"node", s.node>> \notin crossed => Loaded(s, nodes) \subseteq prompts
  BY <1>1, <1>2 DEF Loads, FlowExists, RowLoads
<1>4. s # NoFlow => s \in Steps
  BY <1>2 DEF FlowTypes
<1>5. CASE q.op = "create flow" /\ f # q.flow
  <2>1. flows'[f] = s /\ nodes' = nodes /\ prompts \subseteq prompts'
    BY <1>2, <1>5, Writes DEF FlowTypes
  <2> QED BY <1>3, <2>1
<1>6. CASE q.op = "create flow" /\ f = q.flow
  <2>1. PICK t : t = read.made
    OBVIOUS
  <2>2. /\ flows' = [flows EXCEPT ![f] = t] /\ nodes' = nodes
        /\ prompts' = prompts \cup read.prompts
    BY <1>6, <2>1, Writes
  <2>3. RowLoads(t, prompts \cup read.prompts)
    BY <1>1, <1>6, <2>1 DEF Holds, CloneLoads
  <2>4. flows'[f] = t
    BY <2>2 DEF FlowTypes
  <2> QED BY <2>2, <2>3, <2>4 DEF RowLoads
<1>7. CASE q.op = "delete flow"
  <2>1. /\ \A g \in Flows \ {q.flow} : flows[g].category # q.flow
        /\ nodes' = nodes /\ flows' = [flows EXCEPT ![q.flow] = NoFlow]
        /\ prompts' = prompts \ read.prompts /\ q.flow \in Flows
        /\ \A t \in read.prompts : t[2] = q.flow
    BY <1>1, <1>7, Kinds, Writes DEF Unguarded, Holds
  <2>2. f # q.flow /\ flows'[f] = s
    BY <1>2, <2>1 DEF FlowTypes
  <2>3. Loaded(s, nodes) \subseteq prompts /\ s.category # q.flow
    BY <1>2, <1>3, <2>1, <2>2
  <2>4. \A t \in Loaded(s, nodes) : t[2] = s.category
    BY LoadedIs
  <2> QED BY <2>1, <2>2, <2>3, <2>4
<1>8. CASE q.op = "delete node"
  <2>1. /\ nodes' = [nodes EXCEPT ![q.node] = NoNode] /\ flows' = flows /\ prompts' = prompts
        /\ s # NoFlow /\ s.node = q.node => <<"node", q.node>> \in crossed
    BY <1>2, <1>8, Writes DEF Holds, FlowExists
  <2>2. s \in Steps /\ s.node # q.node
    BY <1>2, <1>4, <2>1
  <2>3. s.node = BuiltinNode \/ nodes'[s.node] = nodes[s.node]
    BY <2>1, <2>2 DEF FlowTypes, Steps
  <2>4. Loaded(s, nodes') = Loaded(s, nodes)
    BY <2>3, LoadedIs
  <2> QED BY <1>2, <1>3, <2>1, <2>4
<1>9. CASE q.op \in {"create prompt", "create project"}
  <2>1. nodes' = nodes /\ flows' = flows /\ prompts \subseteq prompts'
    BY <1>9, Writes
  <2> QED BY <1>2, <1>3, <2>1
<1> QED BY <1>1, <1>5, <1>6, <1>7, <1>8, <1>9, Kinds DEF Unguarded

\* The required templates are in categories that no request drops.
LEMMA RequiredKept ==
    ASSUME Required \subseteq prompts, NEW q \in Requests, NEW read,
           SparesBuiltin(q, read), WriteRows(q, read)
    PROVE  Required \subseteq prompts'
<1>1. \A t \in Required : t[2] \in BuiltinFlows
  BY DEF Required
<1>2. CASE q.op = "delete flow"
  <2>1. \A t \in read.prompts : t[2] \notin BuiltinFlows
    BY <1>2 DEF SparesBuiltin
  <2>2. prompts' = prompts \ read.prompts
    BY <1>2 DEF WriteRows, PromptsAfter
  <2> QED BY <1>1, <2>1, <2>2
<1>3. CASE q.op = "delete prompt"
  <2>1. prompts' = prompts \ {<<q.name, q.category>>}
    BY <1>3 DEF WriteRows, PromptsAfter
  <2> QED BY <1>3, <2>1 DEF SparesBuiltin
<1>4. CASE q.op \notin {"delete flow", "delete prompt"}
  BY <1>4 DEF WriteRows, PromptsAfter
<1> QED BY <1>2, <1>3, <1>4

LEMMA CheckedSpares ==
    ASSUME NEW q, Checked(q)
    PROVE  SparesBuiltin(q, ReadFor(q))
<1>1. CASE q.op = "delete flow"
  <2>1. q.flow \notin BuiltinFlows
    BY <1>1, Passes DEF DeletesFlow, Builtin
  <2>2. ReadFor(q).prompts = Dropped(q)
    BY <1>1 DEF ReadFor
  <2>3. \A t \in Dropped(q) : t[2] = q.flow
    BY DEF Dropped
  <2> QED BY <1>1, <2>1, <2>2, <2>3 DEF SparesBuiltin
<1>2. CASE q.op # "delete flow"
  BY <1>2, Passes DEF DeletesPrompt, SparesBuiltin
<1> QED BY <1>1, <1>2

LEMMA MadeTyped ==
    ASSUME FlowTypes, NEW q \in Requests, Checked(q), NEW read, read = ReadFor(q)
    PROVE  q.op = "create flow" => read.made \in Steps
<1>1. q.op = "create flow" => Made(q) \in Steps
  BY Passes, MadeRow
<1>2. q.op = "create flow" => read.made = Made(q)
  BY DEF ReadFor
<1> QED BY <1>1, <1>2

\* A request that has just been checked.
LEMMA CheckedHolds ==
    ASSUME FlowTypes, InUse, Loads, NEW q \in Requests, Checked(q), NEW read, read = ReadFor(q)
    PROVE  Holds(q, read)
<1>1. SparesBuiltin(q, read)
  BY CheckedSpares
<1>2. q.op = "create project" => FlowThere(q.flow)
  BY Passes DEF CreatesProject, FlowThere
<1>3. q.op = "update flow" => NodeThere(q.node)
  BY Passes DEF UpdatesFlow, StepValid, NodeThere, NodeExists
<1>4. ASSUME q.op = "create flow"
      PROVE  NodeThere(read.made.node) /\ CloneLoads(q, read)
  <2>1. CreatesFlow(q) /\ read.made = Made(q) /\ q.from \in Flows
    BY <1>4, Passes, Kinds DEF ReadFor
  <2>2. NodeThere(read.made.node)
    BY <1>4, <2>1, MadeRow DEF CreatesFlow, StepValid, NodeThere, NodeExists
  <2>3. ASSUME q.mode # "new", q.from \notin disturbed, <<"node", read.made.node>> \notin crossed
        PROVE  Loaded(read.made, nodes) \subseteq prompts \cup read.prompts
    <3>1. PICK s : s = flows[q.from]
      OBVIOUS
    <3>2. PICK t : t = read.made
      OBVIOUS
    <3>3. s # NoFlow /\ s.node = t.node /\ s.role = t.role /\ q.mode \in {"copy", "share"}
      BY <1>4, <2>1, <2>3, <3>1, <3>2, MadeRow, Kinds DEF CreatesFlow, FlowExists
    <3>4. Loaded(s, nodes) \subseteq prompts
      BY <2>1, <2>3, <3>1, <3>2, <3>3 DEF Loads, FlowExists, RowLoads
    <3>5. CASE q.mode = "share"
      <4>1. t = s
        BY <1>4, <2>1, <3>1, <3>2, <3>5, MadeRow
      <4> QED BY <3>2, <3>4, <4>1
    <3>6. CASE q.mode = "copy"
      <4>1. t.category = q.flow /\ read.prompts = CopyOf(q.from, q.flow)
        BY <1>4, <2>1, <3>2, <3>6, MadeRow DEF ReadFor
      <4>2. \A n : <<n, s.category>> \in prompts => <<n, q.flow>> \in read.prompts
        BY <3>1, <4>1 DEF CopyOf
      <4>3. PromptOf(t, nodes) = PromptOf(s, nodes)
        BY <3>3 DEF PromptOf
      <4>4. /\ \A r \in Roles \ {s.role} : <<r, s.category>> \in prompts
            /\ <<PromptOf(s, nodes), s.category>> \in prompts
        BY <3>4 DEF Loaded
      <4>5. Loaded(t, nodes) \subseteq read.prompts
        BY <3>3, <4>1, <4>2, <4>3, <4>4 DEF Loaded
      <4> QED BY <3>2, <4>5
    <3> QED BY <3>3, <3>5, <3>6
  <2> QED BY <2>2, <2>3 DEF CloneLoads, RowLoads
<1>5. ASSUME q.op = "delete flow"
      PROVE  /\ \A p \in Projects : projects[p] = q.flow => <<"flow", q.flow>> \in crossed
             /\ \A t \in read.prompts : t[2] = q.flow
  <2>1. Users(q.flow) = {} /\ read.prompts = Dropped(q)
    BY <1>5, Passes DEF DeletesFlow, ReadFor
  <2> QED BY <2>1 DEF Users, Dropped
<1>6. q.op = "delete node" => \A f \in Flows : flows[f].node # q.node
  BY Passes DEF DeletesNode
<1> QED BY <1>1, <1>2, <1>3, <1>4, <1>5, <1>6 DEF Holds

\* What two requests make uncertain.
LEMMA CrossingIs ==
    ASSUME NEW q, NEW p, NEW read
    PROVE  /\ CountsOn(p, read) \cap TakesAway(q) \subseteq Crossing(q, p, read)
           /\ CountsOn(q, ReadFor(q)) \cap TakesAway(p) \subseteq Crossing(q, p, read)
           /\ Undercuts(q, p, read.made) /\ p.flow \in CustomFlows =>
                 <<"clone", p.flow>> \in Crossing(q, p, read)
BY DEF Crossing

\* A workflow or node that was found there is still, or was taken away.
LEMMA FlowThereKept ==
    ASSUME FlowTypes, NEW q \in Requests, NEW read, WriteRows(q, read), crossed \subseteq crossed',
           q.op = "create flow" => read.made \in Steps,
           NEW f \in Flows, FlowThere(f), <<"flow", f>> \in TakesAway(q) => <<"flow", f>> \in crossed'
    PROVE  FlowThere(f)'
<1>1. CASE <<"flow", f>> \in crossed
  BY <1>1 DEF FlowThere
<1>2. CASE flows[f] # NoFlow
  <2>1. CASE q.op = "create flow"
    <3>1. PICK s \in Steps : s = read.made
      BY <2>1
    <3>2. flows' = [flows EXCEPT ![q.flow] = s]
      BY <2>1, <3>1, Writes
    <3> QED BY <1>2, <3>2, RowsDiffer DEF FlowThere, FlowExists, FlowTypes
  <2>2. CASE q.op = "update flow"
    <3>1. PICK s : s = [category |-> q.category, role |-> q.role, node |-> q.node]
      OBVIOUS
    <3>2. s \in Steps /\ flows' = [flows EXCEPT ![q.flow] = s]
      BY <2>2, <3>1, Writes, Kinds DEF Steps
    <3> QED BY <1>2, <3>2, RowsDiffer DEF FlowThere, FlowExists, FlowTypes
  <2>3. CASE q.op = "delete flow"
    <3>1. f = q.flow => <<"flow", f>> \in crossed'
      BY <2>3 DEF TakesAway
    <3>2. flows' = [flows EXCEPT ![q.flow] = NoFlow]
      BY <2>3, Writes
    <3> QED BY <1>2, <3>1, <3>2 DEF FlowThere, FlowExists, FlowTypes
  <2>4. CASE q.op \notin {"create flow", "update flow", "delete flow"}
    <3>1. flows' = flows
      BY <2>4, Writes, Kinds
    <3> QED BY <1>2, <3>1 DEF FlowThere, FlowExists
  <2> QED BY <2>1, <2>2, <2>3, <2>4
<1> QED BY <1>1, <1>2 DEF FlowThere, FlowExists

LEMMA NodeThereKept ==
    ASSUME FlowTypes, NEW q \in Requests, NEW read, WriteRows(q, read), crossed \subseteq crossed',
           NEW n \in CustomNodes \cup {BuiltinNode}, NodeThere(n),
           <<"node", n>> \in TakesAway(q) => <<"node", n>> \in crossed'
    PROVE  NodeThere(n)'
<1>1. CASE <<"node", n>> \in crossed \/ n = BuiltinNode
  BY <1>1 DEF NodeThere, NodeExists
<1>2. CASE n # BuiltinNode /\ nodes[n] # NoNode
  <2>1. CASE q.op \in {"create node", "update node"}
    <3>1. PICK m : m = [role |-> q.role, prompt |-> q.prompt]
      OBVIOUS
    <3>2. m \in NodeRows /\ nodes' = [nodes EXCEPT ![q.node] = m]
      BY <2>1, <3>1, Writes, Kinds DEF NodeRows
    <3> QED BY <1>2, <3>2, RowsDiffer DEF NodeThere, NodeExists, FlowTypes
  <2>2. CASE q.op = "delete node"
    <3>1. n = q.node => <<"node", n>> \in crossed'
      BY <2>2 DEF TakesAway
    <3>2. nodes' = [nodes EXCEPT ![q.node] = NoNode]
      BY <2>2, Writes
    <3> QED BY <1>2, <3>1, <3>2 DEF NodeThere, NodeExists, FlowTypes
  <2>3. CASE q.op \notin {"create node", "update node", "delete node"}
    <3>1. nodes' = nodes
      BY <2>3, Writes, Kinds
    <3> QED BY <1>2, <3>1 DEF NodeThere, NodeExists
  <2> QED BY <2>1, <2>2, <2>3
<1> QED BY <1>1, <1>2 DEF NodeThere, NodeExists

\* A workflow that is deleted takes only prompts of its own category.
SparesOthers(q, read) == q.op = "delete flow" => \A t \in read.prompts : t[2] = q.flow

\* A clone under way keeps its prompts, unless they are taken from under it.
LEMMA CloneLoadsKept ==
    ASSUME FlowTypes, NEW q \in Requests, NEW read, WriteRows(q, read), crossed \subseteq crossed',
           SparesOthers(q, read), disturbed \subseteq disturbed',
           NEW p \in Requests, p.op = "create flow", NEW mine, mine.made \in Steps, CloneLoads(p, mine),
           Undercuts(q, p, mine.made) => <<"clone", p.flow>> \in crossed',
           <<"node", mine.made.node>> \in TakesAway(q) => <<"node", mine.made.node>> \in crossed'
    PROVE  CloneLoads(p, mine)'
<1> SUFFICES ASSUME p.mode # "new", p.from \notin disturbed', <<"clone", p.flow>> \notin crossed',
                    <<"node", mine.made.node>> \notin crossed'
             PROVE  Loaded(mine.made, nodes') \subseteq prompts' \cup mine.prompts
  BY DEF CloneLoads, RowLoads
<1>1. PICK s \in Steps : s = mine.made
  OBVIOUS
<1>2. Loaded(s, nodes) \subseteq prompts \cup mine.prompts
  BY <1>1 DEF CloneLoads, RowLoads
<1>3. /\ q.op = "delete prompt" => q.category # s.category
      /\ q.op = "delete flow" => q.flow # s.category
      /\ q.op \in {"create node", "update node"} => q.node # s.node
  BY <1>1 DEF Undercuts
<1>4. q.op = "delete node" => q.node # s.node
  BY <1>1 DEF TakesAway
<1>5. Loaded(s, nodes') = Loaded(s, nodes)
  <2>1. s.node \in CustomNodes \cup {BuiltinNode}
    BY DEF Steps
  <2>2. s.node = BuiltinNode \/ nodes'[s.node] = nodes[s.node]
    BY <1>3, <1>4, <2>1, Writes, Kinds DEF FlowTypes
  <2> QED BY <2>2, LoadedIs
<1>6. \A t \in Loaded(s, nodes) : t[2] = s.category
  BY LoadedIs
<1>7. ASSUME NEW t \in prompts, t[2] = s.category
      PROVE  t \in prompts'
  <2>1. CASE q.op = "delete prompt"
    <3>1. t # <<q.name, q.category>>
      <4>1. q.category # s.category
        BY <1>3, <2>1
      <4>2. PICK pair : pair = <<q.name, q.category>>
        OBVIOUS
      <4>3. pair[2] = q.category
        BY <4>2
      <4>4. t # pair
        BY <1>7, <4>1, <4>3, Zenon
      <4> QED BY <4>2, <4>4
    <3>2. prompts' = prompts \ {<<q.name, q.category>>}
      BY <2>1, Writes
    <3> QED BY <3>1, <3>2
  <2>2. CASE q.op = "delete flow"
    <3>1. t \notin read.prompts
      BY <1>3, <1>7, <2>2 DEF SparesOthers
    <3>2. prompts' = prompts \ read.prompts
      BY <2>2, Writes
    <3> QED BY <3>1, <3>2
  <2>3. CASE q.op \notin {"delete prompt", "delete flow"}
    <3>1. prompts \subseteq prompts'
      BY <2>3 DEF WriteRows, PromptsAfter
    <3> QED BY <3>1
  <2> QED BY <2>1, <2>2, <2>3
<1> QED BY <1>1, <1>2, <1>5, <1>6, <1>7

\* What a request under way holds survives a request that nothing comes between.
LEMMA HoldsKept ==
    ASSUME FlowTypes, InUse, Loads, NEW q \in Requests, Checked(q), WriteRows(q, ReadFor(q)),
           NEW p \in Requests, NEW read, Holds(p, read), p.op = "create flow" => read.made \in Steps,
           crossed' = crossed \cup Crossing(q, p, read)
    PROVE  Holds(p, read)'
<1>1. PICK his : his = ReadFor(q)
  OBVIOUS
<1>2. /\ WriteRows(q, his) /\ crossed \subseteq crossed' /\ disturbed \subseteq disturbed'
      /\ q.op = "create flow" => his.made \in Steps
      /\ Holds(q, his)
  BY <1>1, CheckedHolds, MadeTyped DEF WriteRows
<1>3. \A e \in TakesAway(q) : e \in CountsOn(p, read) => e \in crossed'
  BY CrossingIs
<1>4. \A e \in TakesAway(p) : e \in CountsOn(q, his) => e \in crossed'
  BY <1>1, CrossingIs
<1>5. SparesBuiltin(p, read)'
  BY DEF Holds, SparesBuiltin, Required
<1>6. ASSUME p.op = "create project"
      PROVE  FlowThere(p.flow)'
  <2>1. FlowThere(p.flow) /\ p.flow \in Flows /\ <<"flow", p.flow>> \in CountsOn(p, read)
    BY <1>6, Kinds DEF Holds, CountsOn
  <2> QED BY <1>2, <1>3, <2>1, FlowThereKept
<1>7. ASSUME p.op = "update flow"
      PROVE  NodeThere(p.node)'
  <2>1. /\ NodeThere(p.node) /\ p.node \in CustomNodes \cup {BuiltinNode}
        /\ <<"node", p.node>> \in CountsOn(p, read)
    BY <1>7, Kinds DEF Holds, CountsOn
  <2> QED BY <1>2, <1>3, <2>1, NodeThereKept
<1>8. ASSUME p.op = "create flow"
      PROVE  NodeThere(read.made.node)' /\ CloneLoads(p, read)'
  <2>1. PICK s \in Steps : s = read.made
    BY <1>8
  <2>2. /\ NodeThere(s.node) /\ s.node \in CustomNodes \cup {BuiltinNode}
        /\ <<"node", s.node>> \in CountsOn(p, read) /\ CloneLoads(p, read)
    BY <1>8, <2>1 DEF Holds, CountsOn, Steps
  <2>3. NodeThere(s.node)'
    BY <1>2, <1>3, <2>2, NodeThereKept
  <2>4. Undercuts(q, p, read.made) => <<"clone", p.flow>> \in crossed'
    BY <1>8, CrossingIs, Kinds
  <2>5. SparesOthers(q, his)
    BY <1>2 DEF Holds, SparesOthers
  <2>6. CloneLoads(p, read)'
    BY <1>2, <1>3, <1>8, <2>1, <2>2, <2>4, <2>5, CloneLoadsKept
  <2> QED BY <2>1, <2>3, <2>6
<1>9. ASSUME p.op = "delete flow"
      PROVE  /\ \A j \in Projects : projects'[j] = p.flow => <<"flow", p.flow>> \in crossed'
             /\ \A t \in read.prompts : t[2] = p.flow
  <2>1. /\ \A j \in Projects : projects[j] = p.flow => <<"flow", p.flow>> \in crossed
        /\ \A t \in read.prompts : t[2] = p.flow
        /\ <<"flow", p.flow>> \in TakesAway(p)
    BY <1>9 DEF Holds, TakesAway
  <2>2. CASE q.op = "create project"
    <3>1. projects' = [projects EXCEPT ![q.project] = q.flow]
      BY <1>2, <2>2, Writes
    <3>2. q.flow = p.flow => <<"flow", p.flow>> \in crossed'
      BY <1>4, <2>1, <2>2 DEF CountsOn
    <3> QED BY <1>2, <2>1, <3>1, <3>2 DEF FlowTypes
  <2>3. CASE q.op # "create project"
    <3>1. projects' = projects
      BY <1>2, <2>3, Writes, Kinds
    <3> QED BY <1>2, <2>1, <3>1
  <2> QED BY <2>2, <2>3
<1>10. ASSUME p.op = "delete node"
       PROVE  \A f \in Flows : flows'[f] # NoFlow /\ flows'[f].node = p.node =>
                                <<"node", p.node>> \in crossed'
  <2>1. /\ \A f \in Flows : flows[f] # NoFlow /\ flows[f].node = p.node => <<"node", p.node>> \in crossed
        /\ <<"node", p.node>> \in TakesAway(p)
    BY <1>10 DEF Holds, TakesAway, FlowExists
  <2>2. CASE q.op = "create flow"
    <3>1. flows' = [flows EXCEPT ![q.flow] = his.made]
      BY <1>2, <2>2, Writes
    <3>2. his.made.node = p.node => <<"node", p.node>> \in crossed'
      BY <1>4, <2>1, <2>2 DEF CountsOn
    <3> QED BY <1>2, <2>1, <3>1, <3>2 DEF FlowTypes
  <2>3. CASE q.op = "update flow"
    <3>1. PICK s : s = [category |-> q.category, role |-> q.role, node |-> q.node]
      OBVIOUS
    <3>2. flows' = [flows EXCEPT ![q.flow] = s] /\ s.node = q.node
      BY <1>2, <2>3, <3>1, Writes
    <3>3. q.node = p.node => <<"node", p.node>> \in crossed'
      BY <1>4, <2>1, <2>3 DEF CountsOn
    <3> QED BY <1>2, <2>1, <3>2, <3>3 DEF FlowTypes
  <2>4. CASE q.op = "delete flow"
    <3>1. flows' = [flows EXCEPT ![q.flow] = NoFlow]
      BY <1>2, <2>4, Writes
    <3> QED BY <1>2, <2>1, <3>1 DEF FlowTypes
  <2>5. CASE q.op \notin {"create flow", "update flow", "delete flow"}
    <3>1. flows' = flows
      BY <1>2, <2>5, Writes, Kinds
    <3> QED BY <1>2, <2>1, <3>1
  <2> QED BY <2>2, <2>3, <2>4, <2>5
<1> QED BY <1>5, <1>6, <1>7, <1>8, <1>9, <1>10 DEF Holds, FlowExists

-----------------------------------------------------------------------------
(* The specification.                                                      *)

LEMMA FlowsInvStarts == WorkflowsInit => FlowsInv
<1> SUFFICES ASSUME WorkflowsInit PROVE FlowsInv
  OBVIOUS
<1>1. AnyRole \in Roles
  BY WorkflowsAssumption DEF AnyRole
<1>2. PICK row \in [Flows -> Steps] :
        \A f \in Flows : row[f] = [category |-> f, role |-> AnyRole, node |-> BuiltinNode]
  <2>1. \A f \in Flows : [category |-> f, role |-> AnyRole, node |-> BuiltinNode] \in Steps
    BY <1>1 DEF Steps
  <2>2. PICK row : row = [f \in Flows |->
                            [category |-> f, role |-> AnyRole, node |-> BuiltinNode]]
    OBVIOUS
  <2> QED BY <2>1, <2>2
<1>3. /\ flows = [f \in Flows |-> IF f \in BuiltinFlows \cup Clones THEN row[f] ELSE NoFlow]
      /\ prompts = Roles \X (BuiltinFlows \cup Clones)
      /\ nodes = [n \in CustomNodes |-> NoNode]
      /\ projects = [p \in Projects |-> NoProject]
      /\ pending = NonePending /\ crossed = {}
  <2>1. \A f \in Flows : row[f] = [category |-> f, role |-> AnyRole, node |-> BuiltinNode]
    BY <1>2
  <2> QED BY <2>1 DEF WorkflowsInit
<1>4. FlowTypes /\ PendingSound
  BY <1>2, <1>3 DEF FlowTypes, PendingSound, NonePending, NoRequest
<1>5. Required \subseteq prompts
  BY <1>3 DEF Required
<1>6. InUse
  BY <1>2, <1>3 DEF InUse, NodeThere, FlowExists, NodeExists
<1>7. Loads
  <2> SUFFICES ASSUME NEW f \in Flows, flows[f] # NoFlow PROVE Loaded(flows[f], nodes) \subseteq prompts
    BY DEF Loads, FlowExists, RowLoads
  <2>1. f \in BuiltinFlows \cup Clones /\ flows[f] = row[f]
    BY <1>3
  <2>2. PICK s : s = flows[f]
    OBVIOUS
  <2>3. s.category = f /\ s.role \in Roles /\ s.node = BuiltinNode
    BY <1>1, <1>2, <2>1, <2>2
  <2>4. PromptOf(s, nodes) = s.role
    BY <2>3 DEF PromptOf
  <2>5. Loaded(s, nodes) \subseteq prompts
    BY <1>3, <2>1, <2>3, <2>4 DEF Loaded
  <2> QED BY <2>2, <2>5
<1> QED BY <1>4, <1>5, <1>6, <1>7 DEF FlowsInv

\* A step that leaves the rows and what is crossed keeps what is said of them.
LEMMA SameRows ==
    ASSUME UNCHANGED <<flows, nodes, prompts, projects, crossed, disturbed>>
    PROVE  /\ InUse' <=> InUse
           /\ Loads' <=> Loads
           /\ \A q, read : Holds(q, read)' <=> Holds(q, read)
<1>1. InUse' <=> InUse
  BY DEF InUse, FlowThere, NodeThere, FlowExists, NodeExists
<1>2. Loads' <=> Loads
  BY DEF Loads, FlowExists, RowLoads
<1>3. ASSUME NEW q, NEW read
      PROVE  Holds(q, read)' <=> Holds(q, read)
  BY DEF Holds, SparesBuiltin, Required, FlowThere, NodeThere, FlowExists, NodeExists,
         CloneLoads, RowLoads
<1> QED BY <1>1, <1>2, <1>3

LEMMA FlowsInvKept == FlowsInv /\ [WorkflowsNext]_flowVars => FlowsInv'
<1> SUFFICES ASSUME FlowsInv, [WorkflowsNext]_flowVars PROVE FlowsInv'
  OBVIOUS
<1>1. FlowTypes /\ PendingSound /\ Required \subseteq prompts /\ InUse /\ Loads
  BY DEF FlowsInv
<1>2. ASSUME NEW q \in Requests, Request(q)
      PROVE  FlowsInv'
  <2>1. /\ Checked(q) /\ WriteRows(q, ReadFor(q)) /\ pending' = pending
        /\ crossed' = crossed \cup Crossing(q, pending.request, pending.read)
    BY <1>2 DEF Request
  <2>2. PICK read : read = ReadFor(q)
    OBVIOUS
  <2>3. /\ WriteRows(q, read) /\ Holds(q, read) /\ crossed \subseteq crossed'
        /\ q.op = "create flow" => read.made \in Steps
    BY <1>1, <2>1, <2>2, CheckedHolds, MadeTyped
  <2>4. FlowTypes'
    <3>1. /\ flows' \in [Flows -> Steps \cup {NoFlow}]
          /\ nodes' \in [CustomNodes -> NodeRows \cup {NoNode}]
          /\ projects' \in [Projects -> Flows \cup {NoProject}]
      BY <1>1, <2>3, TypesKept
    <3> QED BY <1>1, <2>1, <3>1 DEF FlowTypes
  <2>5. PendingSound'
    <3>1. ASSUME pending # NonePending
          PROVE  Holds(pending.request, pending.read)'
      <4>1. PICK p : p = pending.request
        OBVIOUS
      <4>2. PICK mine : mine = pending.read
        OBVIOUS
      <4>3. /\ p \in Requests /\ Holds(p, mine)
            /\ p.op = "create flow" => mine.made \in Steps
            /\ crossed' = crossed \cup Crossing(q, p, mine)
        BY <1>1, <2>1, <3>1, <4>1, <4>2 DEF FlowTypes, PendingSound
      <4>4. Holds(p, mine)'
        BY <1>1, <2>1, <4>3, HoldsKept
      <4>5. pending'.request = p /\ pending'.read = mine
        BY <2>1, <4>1, <4>2
      <4> QED BY <2>1, <4>1, <4>2, <4>4
    <3> QED BY <2>1, <3>1 DEF PendingSound
  <2>6. (Required \subseteq prompts)'
    BY <1>1, <2>3, RequiredKept DEF Required, Holds
  <2>7. InUse' /\ Loads'
    BY <1>1, <2>3, InUseKept, LoadsKept
  <2> QED BY <2>4, <2>5, <2>6, <2>7 DEF FlowsInv
<1>3. ASSUME NEW q \in Requests, Check(q)
      PROVE  FlowsInv'
  <2>1. PICK read : read = ReadFor(q)
    OBVIOUS
  <2>2. /\ Checked(q) /\ pending' = [request |-> q, read |-> read]
        /\ UNCHANGED <<flows, nodes, prompts, projects, crossed, disturbed>>
    BY <1>3, <2>1 DEF Check
  <2>3. /\ pending'.request = q /\ pending'.read = read
        /\ q.op = "create flow" => read.made \in Steps
    BY <1>1, <2>1, <2>2, MadeTyped
  <2>4. FlowTypes'
    BY <1>1, <2>2, <2>3 DEF FlowTypes
  <2>5. Holds(q, read)'
    BY <1>1, <2>1, <2>2, CheckedHolds, SameRows
  <2>6. PendingSound'
    <3>1. Holds(pending.request, pending.read)' <=> Holds(q, read)'
      BY <2>3 DEF Holds, SparesBuiltin, FlowThere, NodeThere, CloneLoads, RowLoads
    <3> QED BY <2>5, <3>1 DEF PendingSound
  <2> QED BY <1>1, <2>2, <2>4, <2>6, SameRows DEF FlowsInv, Required
<1>4. CASE Commit
  <2>1. PICK q : q = pending.request
    OBVIOUS
  <2>2. PICK read : read = pending.read
    OBVIOUS
  <2>3. /\ pending # NonePending /\ pending' = NonePending /\ crossed' = crossed
        /\ q \in Requests /\ Holds(q, read)
        /\ q.op = "create flow" => read.made \in Steps
    <3>1. /\ pending # NonePending /\ pending' = NonePending /\ crossed' = crossed
      BY <1>4 DEF Commit
    <3>2. Holds(q, read)
      BY <1>1, <2>1, <2>2, <3>1 DEF PendingSound
    <3>3. q.op = "create flow" => read.made \in Steps
      BY <1>1, <2>1, <2>2 DEF FlowTypes
    <3>4. q \in Requests
      BY <1>1, <2>1, <3>1 DEF FlowTypes
    <3> QED BY <3>1, <3>2, <3>3, <3>4
  <2>4. PendingSound' /\ pending'.request.op # "create flow"
    BY <2>3 DEF PendingSound, NonePending, NoRequest
  <2>5. CASE UNCHANGED <<flows, nodes, prompts, projects, disturbed>>
    <3>1. FlowTypes'
      BY <1>1, <2>3, <2>4, <2>5 DEF FlowTypes
    <3> QED BY <1>1, <2>3, <2>4, <2>5, <3>1, SameRows DEF FlowsInv, Required
  <2>6. CASE WriteRows(q, read)
    <3>1. (Required \subseteq prompts)'
      BY <1>1, <2>3, <2>6, RequiredKept DEF Required, Holds
    <3>2. InUse' /\ Loads'
      BY <1>1, <2>3, <2>6, InUseKept, LoadsKept
    <3>3. FlowTypes'
      <4>1. /\ flows' \in [Flows -> Steps \cup {NoFlow}]
            /\ nodes' \in [CustomNodes -> NodeRows \cup {NoNode}]
            /\ projects' \in [Projects -> Flows \cup {NoProject}]
        BY <1>1, <2>3, <2>6, TypesKept
      <4> QED BY <1>1, <2>3, <2>4, <4>1 DEF FlowTypes
    <3> QED BY <2>4, <3>1, <3>2, <3>3 DEF FlowsInv
  <2> QED BY <1>4, <2>1, <2>2, <2>5, <2>6 DEF Commit
<1>5. CASE UNCHANGED flowVars
  <2>1. UNCHANGED <<flows, nodes, prompts, projects, pending, crossed, disturbed>>
    BY <1>5 DEF flowVars
  <2>2. FlowTypes'
    BY <1>1, <2>1 DEF FlowTypes
  <2>3. PendingSound'
    <3>1. PICK q : q = pending.request
      OBVIOUS
    <3>2. PICK read : read = pending.read
      OBVIOUS
    <3>3. pending'.request = q /\ pending'.read = read
      BY <2>1, <3>1, <3>2
    <3>4. Holds(q, read)' <=> Holds(q, read)
      BY <2>1, SameRows
    <3>5. Holds(pending.request, pending.read)' <=> Holds(q, read)'
      BY <3>3 DEF Holds, SparesBuiltin, FlowThere, NodeThere, CloneLoads, RowLoads
    <3> QED BY <1>1, <2>1, <3>1, <3>2, <3>4, <3>5 DEF PendingSound
  <2> QED BY <1>1, <2>1, <2>2, <2>3, SameRows DEF FlowsInv, Required
<1> QED BY <1>2, <1>3, <1>4, <1>5 DEF WorkflowsNext

LEMMA FlowsInvHolds == WorkflowsSpec => []FlowsInv
BY FlowsInvStarts, FlowsInvKept, PTL DEF WorkflowsSpec

\* For any workflows, nodes and projects, and however requests overlap: the
\* workflow of a project is there, and a graph names no node that is not, but for
\* a workflow or node deleted while another request that counted on it was under
\* way (delete_workflow, delete_node, validate_graph_payload, _resolve_workflow).
THEOREM WorkflowsInUseStay == WorkflowsSpec => []InUseIsThere
<1>1. FlowsInv => InUseIsThere
  BY DEF FlowsInv, InUse, FlowThere, NodeThere, InUseIsThere
<1> QED BY <1>1, FlowsInvHolds, PTL

\* For any workflows, roles and prompts, and however requests overlap: the required
\* templates of the built-in categories stay, and a workflow no unguarded edit has
\* disturbed and whose node was not deleted from under it finds every template it
\* needs (get_pipeline_config, load_prompt_template).
THEOREM TemplatesStay == WorkflowsSpec => []PromptsAreThere
<1>1. FlowsInv => PromptsAreThere
  BY DEF FlowsInv, Loads, RowLoads, FlowExists, CanLoad, PromptsAreThere
<1> QED BY <1>1, FlowsInvHolds, PTL

-----------------------------------------------------------------------------
(***************************************************************************)
(* GraphRules.                                                             *)
(*                                                                         *)
(* The search visits steps in depth first order.  That what it leaves      *)
(* black is ordered, so that an arrow without a budget only leads down, is *)
(* kept by every visit in which it met no such arrow to a step that is     *)
(* grey: a visit puts its step above all that is black by then.  The order *)
(* is then the measure of a walk between two edges with a budget.          *)
(*                                                                         *)
(* First, numbers: least and greatest ones, and functions defined along    *)
(* them.                                                                   *)
(***************************************************************************)
\* Less is well-founded, as WellFoundedInduction has it.
LEMMA LessThanPair ==
    ASSUME NEW y \in Nat, NEW x \in Nat, y < x
    PROVE  <<y, x>> \in OpToRel(<, Nat)
  <1> DEFINE p == <<y, x>>
  <1>1. p \in Nat \X Nat /\ p[1] = y /\ p[2] = x
    OBVIOUS
  <1>2. p[1] < p[2]
    BY <1>1
  <1> HIDE DEF p
  <1>3. p \in OpToRel(<, Nat)
    BY <1>1, <1>2, Zenon DEF OpToRel
  <1> QED
    BY <1>3 DEF p

\* A set of numbers has a least one, and a bounded one a greatest.
LEMMA LeastOf ==
    ASSUME NEW S, S \subseteq Nat, S # {}
    PROVE  \E x \in S : \A y \in S : x <= y
  <1>1. PICK x \in S : \A y \in S : ~ (<<y, x>> \in OpToRel(<, Nat))
    BY NatLessThanWellFounded, WFMin, Zenon
  <1>2. ASSUME NEW y \in S
        PROVE  x <= y
    <2>1. x \in Nat /\ y \in Nat
      OBVIOUS
    <2>2. ~ (y < x)
      BY <1>1, <2>1, LessThanPair, Zenon
    <2> QED BY <2>1, <2>2
  <1> QED BY <1>2

\* What holds at the start, and after each number when at that number, holds at
\* all of them.
LEMMA Upwards ==
    ASSUME NEW n \in Nat, NEW S, 0 \in S,
           \A i \in 0..n : i < n /\ i \in S => i + 1 \in S
    PROVE  \A i \in 0..n : i \in S
  <1> DEFINE R == {i \in 0..n : i \notin S}
  <1>1. SUFFICES ASSUME R # {} PROVE FALSE
    OBVIOUS
  <1>2. R \subseteq Nat
    OBVIOUS
  <1>3. PICK x \in R : \A y \in R : x <= y
    <2> HIDE DEF R
    <2> QED BY <1>1, <1>2, LeastOf
  <1>4. x \in 0..n /\ x # 0 /\ x \notin S
    OBVIOUS
  <1>5. x - 1 \in 0..n /\ x - 1 < n /\ ~ (x <= x - 1)
    BY <1>4
  <1>6. x - 1 \in S
    BY <1>3, <1>5
  <1>7. (x - 1) + 1 \in S
    BY <1>5, <1>6
  <1> QED BY <1>4, <1>7

\* A finite set of numbers is bounded.
LEMMA FiniteIsBounded ==
    ASSUME NEW S, S \subseteq Nat, IsFiniteSet(S)
    PROVE  \E b \in Nat : \A x \in S : x <= b
  <1>1. PICK n \in Nat : ExistsSurjection(1..n, S)
    BY FS_NatSurjection
  <1>2. PICK f \in [1..n -> S] : \A x \in S : \E k \in 1..n : f[k] = x
    BY <1>1 DEF ExistsSurjection, Surjection
  <1> DEFINE K == {k \in 0..n : \E b \in Nat : \A j \in 1..k : f[j] <= b}
  <1>3. 0 \in K
    OBVIOUS
  <1>4. ASSUME NEW k \in 0..n, k < n, k \in K
        PROVE  k + 1 \in K
    <2>1. PICK b \in Nat : \A j \in 1..k : f[j] <= b
      BY <1>4
    <2>6. k \in Nat /\ k + 1 \in 1..n
      BY <1>4
    <2>2. f[k + 1] \in Nat
      BY <2>6
    <2>3. PICK a \in Nat : b <= a /\ f[k + 1] <= a
      <3>1. CASE b <= f[k + 1]
        BY <2>2, <3>1
      <3>2. CASE ~ (b <= f[k + 1])
        BY <2>2, <3>2
      <3> QED BY <3>1, <3>2
    <2>4. ASSUME NEW j \in 1..(k + 1)
          PROVE  f[j] <= a
      <3>1. CASE j = k + 1
        BY <2>3, <3>1
      <3>2. CASE j # k + 1
        <4>1. j \in 1..k /\ j \in 1..n
          BY <1>4, <3>2
        <4>2. f[j] <= b /\ f[j] \in Nat
          BY <2>1, <4>1
        <4> QED BY <2>3, <4>2
      <3> QED BY <3>1, <3>2
    <2>5. k + 1 \in 0..n
      BY <1>4
    <2> QED BY <2>4, <2>5
  <1>5. n \in K
    <2> HIDE DEF K
    <2>1. \A i \in 0..n : i \in K
      BY <1>3, <1>4, Upwards
    <2> QED BY <2>1
  <1>6. PICK b \in Nat : \A j \in 1..n : f[j] <= b
    BY <1>5
  <1> QED BY <1>2, <1>6

LEMMA GreatestOf ==
    ASSUME NEW S, S \subseteq Nat, S # {}, NEW n \in Nat, \A x \in S : x <= n
    PROVE  \E m \in S : \A x \in S : x <= m
  <1> DEFINE T == {n - x : x \in S}
  <1>1. T \subseteq Nat /\ T # {}
    <2>1. ASSUME NEW x \in S PROVE n - x \in Nat
      <3>1. x \in Nat /\ x <= n
        OBVIOUS
      <3> QED BY <3>1
    <2> QED BY <2>1
  <1>2. PICK d \in T : \A y \in T : d <= y
    <2> HIDE DEF T
    <2> QED BY <1>1, LeastOf
  <1>3. PICK m \in S : d = n - m
    OBVIOUS
  <1>4. ASSUME NEW x \in S
        PROVE  x <= m
    <2>1. n - x \in T
      OBVIOUS
    <2>2. n - m <= n - x
      BY <1>2, <1>3, <2>1
    <2>3. x \in Nat /\ m \in Nat
      OBVIOUS
    <2> QED BY <2>2, <2>3
  <1> QED BY <1>4

\* So the greatest of a finite set of numbers is one, as FiniteSetsExt defines it.
LEMMA MaxOf ==
    ASSUME NEW S, S \subseteq Nat, S # {}, NEW n \in Nat, \A x \in S : x <= n
    PROVE  Max(S) \in S /\ \A x \in S : x <= Max(S)
  <1>1. \E m \in S : \A x \in S : m >= x
    <2>1. PICK m \in S : \A x \in S : x <= m
      BY GreatestOf
    <2>2. \A x \in S : m >= x
      BY <2>1
    <2> QED BY <2>2
  <1>2. Max(S) \in S /\ \A x \in S : Max(S) >= x
    BY <1>1 DEF Max
  <1> QED BY <1>2

IsIteration(f, s, n, g) == f = [i \in 0..n |-> IF i = 0 THEN s ELSE g[<<i, f[i - 1]>>]]

\* A function that is defined by steps is there when a step leads from state to state.
LEMMA Iterates ==
    ASSUME NEW S, NEW s \in S, NEW n \in Nat, NEW g,
           \A i \in 1..n : \A x \in S : g[<<i, x>>] \in S
    PROVE  \E f \in [0..n -> S] : IsIteration(f, s, n, g)
  <1> DEFINE Good(m, f) == f[0] = s /\ \A i \in 1..m : f[i] = g[<<i, f[i - 1]>>]
             M == {m \in 0..n : \E f \in [0..m -> S] : Good(m, f)}
  <1>1. 0 \in M
    <2> DEFINE f == [i \in 0..0 |-> s]
    <2>1. f \in [0..0 -> S] /\ f[0] = s
      OBVIOUS
    <2> HIDE DEF f
    <2>2. Good(0, f)
      BY <2>1
    <2> QED BY <2>1, <2>2
  <1>2. ASSUME NEW m \in 0..n, m < n, m \in M
        PROVE  m + 1 \in M
    <2>1. PICK f \in [0..m -> S] : Good(m, f)
      BY <1>2
    <2> DEFINE h == [i \in 0..(m + 1) |-> IF i <= m THEN f[i] ELSE g[<<m + 1, f[m]>>]]
    <2>2. m \in Nat /\ m \in 0..m /\ m + 1 \in 1..n /\ m + 1 \in 0..n
      BY <1>2
    <2>3. g[<<m + 1, f[m]>>] \in S
      BY <2>2
    <2>4. h \in [0..(m + 1) -> S]
      BY <2>2, <2>3
    <2>5. \A i \in 0..m : h[i] = f[i]
      BY <2>2
    <2>6. h[m + 1] = g[<<m + 1, f[m]>>]
      BY <2>2
    <2> HIDE DEF h
    <2>7. h[0] = s
      BY <2>1, <2>2, <2>5
    <2>8. ASSUME NEW i \in 1..(m + 1)
          PROVE  h[i] = g[<<i, h[i - 1]>>]
      <3>1. CASE i <= m
        <4>1. i \in 1..m /\ i \in 0..m /\ i - 1 \in 0..m
          BY <2>2, <3>1
        <4> QED BY <2>1, <2>5, <4>1
      <3>2. CASE ~ (i <= m)
        <4>1. i = m + 1 /\ i - 1 = m
          BY <2>2, <3>2
        <4> QED BY <2>2, <2>5, <2>6, <4>1
      <3> QED BY <3>1, <3>2
    <2>9. Good(m + 1, h)
      BY <2>7, <2>8
    <2> HIDE DEF Good
    <2> QED BY <2>2, <2>4, <2>9
  <1>3. n \in M
    <2> HIDE DEF M
    <2>1. \A i \in 0..n : i \in M
      BY <1>1, <1>2, Upwards
    <2> QED BY <2>1
  <1>4. PICK f \in [0..n -> S] : Good(n, f)
    BY <1>3
  <1> DEFINE r == [i \in 0..n |-> IF i = 0 THEN s ELSE g[<<i, f[i - 1]>>]]
  <1>5. \A i \in 0..n : f[i] = r[i]
    <2> TAKE i \in 0..n
    <2>1. CASE i = 0
      BY <1>4, <2>1
    <2>2. CASE i # 0
      <3>1. i \in 1..n
        BY <2>2
      <3> QED BY <1>4, <2>2, <3>1
    <2> QED BY <2>1, <2>2
  <1>6. f = r
    <2>1. f = [i \in 0..n |-> f[i]]
      OBVIOUS
    <2>2. r = [i \in 0..n |-> r[i]]
      OBVIOUS
    <2> HIDE DEF r
    <2> QED BY <1>5, <2>1, <2>2
  <1>7. IsIteration(f, s, n, g)
    BY <1>6 DEF IsIteration
  <1> QED BY <1>7

-----------------------------------------------------------------------------
(* GraphRules: what the search for loops without a budget says.            *)

\* A graph as parse_graph leaves it.
IsGraph(g) ==
    /\ IsDrawing(g) /\ DOMAIN g.steps # {} /\ g.entry \in IdsOf(g)
    /\ \A i \in DOMAIN g.steps : DOMAIN g.steps[i].on \subseteq Verdict
    /\ \A i, j \in DOMAIN g.steps : g.steps[i].id = g.steps[j].id => i = j

\* The steps an edge leads to without a budget, and those a step does.
Free(g, edge) == IF edge.budget = "none" THEN {edge.goto, edge.exhausted} \cap IdsOf(g) ELSE {}
FreeOf(g, step) == UNION {Free(g, EdgeAt(step, k)) : k \in 1..7}
FreeFrom(g, id) == FreeOf(g, StepOf(g, id))

\* From a step of B such arrows only lead down.
Ranked(g, B, rank, bound) ==
    \A s \in B : rank[s] < bound /\ \A t \in FreeFrom(g, s) : t \in B /\ rank[t] < rank[s]
Ordered(g, B) == \E rank \in [IdsOf(g) -> Nat], bound \in Nat : Ranked(g, B, rank, bound)

\* What a part of the search makes of what was found before: T is black then.
Grows(g, f, r, T) ==
    /\ r \in Finds(g)
    /\ r.open \/ /\ ~f.open /\ f.black \subseteq r.black /\ T \subseteq r.black
                 /\ Ordered(g, f.black) => Ordered(g, r.black)

Sound(g, deeper) ==
    /\ deeper \in [Visits(g) -> Finds(g)]
    /\ \A v \in Visits(g) : Grows(g, v[3], deeper[v], {v[1]})

\* What a part of the search that finds nothing, and two parts in turn, make of it.
LEMMA GrowsNot ==
    ASSUME NEW g, NEW f \in Finds(g)
    PROVE  Grows(g, f, f, {})
  <1>1. f.open \in BOOLEAN
    BY DEF Finds
  <1> QED BY <1>1 DEF Grows

LEMMA GrowsOn ==
    ASSUME NEW g, NEW f, NEW r, NEW q, NEW T, NEW U, Grows(g, f, r, T), Grows(g, r, q, U)
    PROVE  Grows(g, f, q, T \cup U)
  <1>1. CASE q.open
    BY <1>1 DEF Grows
  <1>2. CASE ~q.open
    <2>1. /\ ~r.open /\ r.black \subseteq q.black /\ U \subseteq q.black
          /\ Ordered(g, r.black) => Ordered(g, q.black)
      BY <1>2 DEF Grows
    <2>2. /\ ~f.open /\ f.black \subseteq r.black /\ T \subseteq r.black
          /\ Ordered(g, f.black) => Ordered(g, r.black)
      BY <2>1 DEF Grows
    <2>3. q \in Finds(g)
      BY DEF Grows
    <2>4. f.black \subseteq q.black /\ T \cup U \subseteq q.black
      BY <2>1, <2>2
    <2> QED BY <2>1, <2>2, <2>3, <2>4 DEF Grows
  <1> QED BY <1>1, <1>2

\* An arrow: to a grey step with a budget or to a black one nothing is added, and to
\* a white one there is a visit.
LEMMA TargetGrows ==
    ASSUME NEW g, NEW f \in Finds(g), NEW edge, NEW target, NEW here \in SUBSET IdsOf(g),
           NEW deeper, Sound(g, deeper)
    PROVE  Grows(g, f, TargetSeen(g, f, edge, target, here, deeper),
                 IF edge.budget = "none" THEN {target} \cap IdsOf(g) ELSE {})
  <1> DEFINE r == TargetSeen(g, f, edge, target, here, deeper)
             T == IF edge.budget = "none" THEN {target} \cap IdsOf(g) ELSE {}
  <1> SUFFICES Grows(g, f, r, T)
    OBVIOUS
  <1>0. f.open \in BOOLEAN /\ f.black \in SUBSET IdsOf(g)
        /\ f = [black |-> f.black, open |-> f.open]
    BY DEF Finds
  <1>1. CASE target \notin IdsOf(g)
    <2>1. r = f /\ T \subseteq f.black
      BY <1>1 DEF TargetSeen
    <2> HIDE DEF r, T
    <2> QED BY <2>1, <1>0 DEF Grows
  <1>2. CASE target \in IdsOf(g) /\ target \in here
    <2>1. r = [f EXCEPT !.open = f.open \/ edge.budget = "none"]
      BY <1>2 DEF TargetSeen
    <2>2. r = [black |-> f.black, open |-> (f.open \/ edge.budget = "none")]
      BY <1>0, <2>1
    <2>3. r \in Finds(g)
      BY <1>0, <2>2 DEF Finds
    <2>4. r.black = f.black /\ r.open = (f.open \/ edge.budget = "none")
      BY <2>2
    <2>5. r.open \/ (~f.open /\ edge.budget # "none")
      BY <2>4, Zenon
    <2>6. edge.budget # "none" => T = {}
      OBVIOUS
    <2> HIDE DEF r, T
    <2> QED BY <2>3, <2>4, <2>5, <2>6 DEF Grows
  <1>3. CASE target \in IdsOf(g) /\ target \notin here /\ target \in f.black
    <2>1. r = f /\ T \subseteq f.black
      BY <1>3 DEF TargetSeen
    <2> HIDE DEF r, T
    <2> QED BY <2>1, <1>0 DEF Grows
  <1>4. CASE target \in IdsOf(g) /\ target \notin here /\ target \notin f.black
    <2> DEFINE v == <<target, here, f>>
    <2>1. r = deeper[v]
      BY <1>4 DEF TargetSeen
    <2>2. v \in Visits(g) /\ v[3] = f /\ v[1] = target
      BY <1>4 DEF Visits
    <2> HIDE DEF v
    <2>3. Grows(g, f, deeper[v], {target})
      BY <2>2 DEF Sound
    <2>4. T \subseteq {target}
      OBVIOUS
    <2> HIDE DEF r, T
    <2> QED BY <2>1, <2>3, <2>4 DEF Grows
  <1> QED BY <1>1, <1>2, <1>3, <1>4

\* An edge, whose free arrows then lead to black steps.
LEMMA EdgeGrows ==
    ASSUME NEW g, NEW f \in Finds(g), NEW edge, NEW here \in SUBSET IdsOf(g),
           NEW deeper, Sound(g, deeper)
    PROVE  Grows(g, f, EdgeSeen(g, f, edge, here, deeper), Free(g, edge))
  <1> DEFINE T(t) == IF edge.budget = "none" THEN {t} \cap IdsOf(g) ELSE {}
             r == TargetSeen(g, f, edge, edge.goto, here, deeper)
             q == TargetSeen(g, r, edge, edge.exhausted, here, deeper)
  <1>1. Grows(g, f, r, T(edge.goto))
    BY TargetGrows
  <1>2. r \in Finds(g)
    BY <1>1 DEF Grows
  <1> HIDE DEF r
  <1>3. Grows(g, r, q, T(edge.exhausted))
    BY <1>2, TargetGrows
  <1>4. EdgeSeen(g, f, edge, here, deeper) = q
    BY DEF EdgeSeen, r
  <1>5. Free(g, edge) = T(edge.goto) \cup T(edge.exhausted)
    BY DEF Free
  <1> HIDE DEF q, T
  <1>6. Grows(g, f, q, T(edge.goto) \cup T(edge.exhausted))
    BY <1>1, <1>3, GrowsOn
  <1> QED BY <1>4, <1>5, <1>6

LEMMA SevenEdges == EdgePlaces = 7
  BY DEF EdgePlaces

\* The search over the edges of a step, edge by edge.
ByEdges(g, step, here, deeper, along) ==
    /\ along[0] = [f \in Finds(g) |-> f]
    /\ \A n \in 1..7 : along[n] = [f \in Finds(g) |->
           along[n - 1][EdgeSeen(g, f, EdgeAt(step, 8 - n), here, deeper)]]

LEMMA AlongIs ==
    ASSUME NEW g, NEW step, NEW here \in SUBSET IdsOf(g), NEW deeper, Sound(g, deeper)
    PROVE  ByEdges(g, step, here, deeper, Along(g, step, here, deeper))
  <1> DEFINE F == Finds(g)
             E(f, n) == EdgeSeen(g, f, EdgeAt(step, EdgePlaces + 1 - n), here, deeper)
             s == [f \in F |-> f]
             h == [p \in (1..7) \X [F -> F] |-> [f \in F |-> p[2][E(f, p[1])]]]
             along[n \in 0..EdgePlaces] ==
               IF n = 0 THEN s ELSE [f \in F |-> along[n - 1][E(f, n)]]
  <1>1. Along(g, step, here, deeper) = along
    BY DEF Along
  <1>2. along = CHOOSE a : a = [n \in 0..7 |-> IF n = 0 THEN s ELSE [f \in F |-> a[n - 1][E(f, n)]]]
    BY SevenEdges
  <1>3. \A f \in F : \A n : E(f, n) \in F
    BY EdgeGrows DEF Grows
  <1> HIDE DEF along, h, E, F
  <1>4. s \in [F -> F]
    OBVIOUS
  <1>5. \A n \in 1..7 : \A x \in [F -> F] :
          h[<<n, x>>] = [f \in F |-> x[E(f, n)]] /\ h[<<n, x>>] \in [F -> F]
    <2> TAKE n \in 1..7
    <2> TAKE x \in [F -> F]
    <2>1. <<n, x>> \in (1..7) \X [F -> F]
      OBVIOUS
    <2>2. h[<<n, x>>] = [f \in F |-> x[E(f, n)]]
      BY <2>1 DEF h
    <2>3. \A f \in F : x[E(f, n)] \in F
      BY <1>3
    <2> QED BY <2>2, <2>3
  <1> HIDE DEF s
  <1>6. PICK a \in [0..7 -> [F -> F]] : IsIteration(a, s, 7, h)
    <2>1. \A n \in 1..7 : \A x \in [F -> F] : h[<<n, x>>] \in [F -> F]
      BY <1>5
    <2>2. 7 \in Nat
      OBVIOUS
    <2> QED BY <1>4, <2>1, <2>2, Iterates
  <1>7. a = [n \in 0..7 |-> IF n = 0 THEN s ELSE [f \in F |-> a[n - 1][E(f, n)]]]
    <2>1. ASSUME NEW n \in 0..7
          PROVE  (IF n = 0 THEN s ELSE h[<<n, a[n - 1]>>])
                   = (IF n = 0 THEN s ELSE [f \in F |-> a[n - 1][E(f, n)]])
      <3>1. CASE n = 0
        BY <3>1
      <3>2. CASE n # 0
        <4>1. n \in 1..7 /\ n - 1 \in 0..7
          BY <3>2
        <4>2. a[n - 1] \in [F -> F]
          BY <1>6, <4>1
        <4>3. h[<<n, a[n - 1]>>] = [f \in F |-> a[n - 1][E(f, n)]]
          BY <1>5, <4>1, <4>2
        <4> QED BY <3>2, <4>3
      <3> QED BY <3>1, <3>2
    <2>2. a = [n \in 0..7 |-> IF n = 0 THEN s ELSE h[<<n, a[n - 1]>>]]
      BY <1>6 DEF IsIteration
    <2> QED BY <2>1, <2>2
  <1>8. along = [n \in 0..7 |-> IF n = 0 THEN s ELSE [f \in F |-> along[n - 1][E(f, n)]]]
    BY <1>2, <1>7
  <1>9. along[0] = s
    BY <1>8
  <1>10. ASSUME NEW n \in 1..7
         PROVE  along[n] = [f \in F |-> along[n - 1][E(f, n)]]
    <2>1. n \in 0..7 /\ n # 0
      OBVIOUS
    <2> QED BY <1>8, <2>1
  <1>11. \A n \in 1..7 : EdgePlaces + 1 - n = 8 - n
    BY SevenEdges
  <1>12. \A f, n : n \in 1..7 => E(f, n) = EdgeSeen(g, f, EdgeAt(step, 8 - n), here, deeper)
    BY <1>11 DEF E
  <1>13. ASSUME NEW n \in 1..7
         PROVE  along[n] = [f \in F |-> along[n - 1][EdgeSeen(g, f, EdgeAt(step, 8 - n), here, deeper)]]
    <2>1. along[n] = [f \in F |-> along[n - 1][E(f, n)]]
      BY <1>10
    <2>2. \A f \in F : along[n - 1][E(f, n)]
                         = along[n - 1][EdgeSeen(g, f, EdgeAt(step, 8 - n), here, deeper)]
      BY <1>12
    <2> QED BY <2>1, <2>2
  <1>14. ByEdges(g, step, here, deeper, along)
    BY <1>9, <1>13 DEF ByEdges, s, F
  <1> QED BY <1>1, <1>14

\* All edges of a step.
LEMMA AlongGrows ==
    ASSUME NEW g, NEW step, NEW here \in SUBSET IdsOf(g), NEW deeper, Sound(g, deeper),
           NEW f \in Finds(g)
    PROVE  Grows(g, f, Along(g, step, here, deeper)[7][f], FreeOf(g, step))
  <1> DEFINE along == Along(g, step, here, deeper)
             T(n) == UNION {Free(g, EdgeAt(step, k)) : k \in (8 - n)..7}
             S == {n \in 0..7 : \A x \in Finds(g) : Grows(g, x, along[n][x], T(n))}
  <1>0. ByEdges(g, step, here, deeper, along)
    BY AlongIs
  <1> HIDE DEF along
  <1>1. along[0] = [x \in Finds(g) |-> x]
    BY <1>0, Zenon DEF ByEdges
  <1>2. \A n \in 1..7 : along[n] = [x \in Finds(g) |->
            along[n - 1][EdgeSeen(g, x, EdgeAt(step, 8 - n), here, deeper)]]
    BY <1>0, Zenon DEF ByEdges
  <1>3. 0 \in S
    <2>1. T(0) = {}
      OBVIOUS
    <2> HIDE DEF T
    <2>2. \A x \in Finds(g) : Grows(g, x, along[0][x], T(0))
      BY <1>1, <2>1, GrowsNot
    <2> QED BY <2>2
  <1>4. ASSUME NEW n \in 0..7, n < 7, n \in S
        PROVE  n + 1 \in S
    <2>1. n + 1 \in 1..7 /\ n + 1 \in 0..7 /\ (n + 1) - 1 = n /\ 8 - (n + 1) = 7 - n
      BY <1>4
    <2>2. T(n + 1) = Free(g, EdgeAt(step, 7 - n)) \cup T(n)
      <3>1. (8 - (n + 1))..7 = {7 - n} \cup (8 - n)..7
        BY <1>4
      <3> QED BY <3>1
    <2> HIDE DEF T
    <2>3. ASSUME NEW x \in Finds(g)
          PROVE  Grows(g, x, along[n + 1][x], T(n + 1))
      <3> DEFINE y == EdgeSeen(g, x, EdgeAt(step, 7 - n), here, deeper)
      <3>1. Grows(g, x, y, Free(g, EdgeAt(step, 7 - n)))
        BY EdgeGrows
      <3>2. along[n + 1][x] = along[n][y]
        BY <1>2, <2>1
      <3> HIDE DEF y
      <3>3. y \in Finds(g)
        BY <3>1 DEF Grows
      <3>4. Grows(g, y, along[n][y], T(n))
        BY <1>4, <3>3
      <3> QED BY <3>1, <3>2, <3>4, <2>2, GrowsOn
    <2> QED BY <2>1, <2>3
  <1>5. 7 \in S
    <2> HIDE DEF S
    <2>1. \A n \in 0..7 : n \in S
      BY <1>3, <1>4, Upwards
    <2> QED BY <2>1
  <1>6. T(7) = FreeOf(g, step)
    BY DEF FreeOf
  <1>7. Grows(g, f, along[7][f], T(7))
    <2> HIDE DEF T
    <2> QED BY <1>5
  <1> QED BY <1>6, <1>7 DEF along

\* A step whose arrows all lead to black steps joins them above.
LEMMA OrderedWith ==
    ASSUME NEW g, NEW B \in SUBSET IdsOf(g), NEW id \in IdsOf(g), Ordered(g, B),
           FreeFrom(g, id) \subseteq B
    PROVE  Ordered(g, B \cup {id})
  <1>1. CASE id \in B
    <2>1. B \cup {id} = B
      BY <1>1
    <2> QED BY <2>1
  <1>2. CASE id \notin B
    <2>1. PICK rank \in [IdsOf(g) -> Nat], bound \in Nat : Ranked(g, B, rank, bound)
      BY DEF Ordered
    <2> DEFINE up == [rank EXCEPT ![id] = bound]
    <2>2. up \in [IdsOf(g) -> Nat] /\ up[id] = bound /\ \A s \in B : up[s] = rank[s]
      BY <1>2
    <2> HIDE DEF up
    <2>3. bound + 1 \in Nat /\ bound < bound + 1
      OBVIOUS
    <2>4. ASSUME NEW s \in B \cup {id}
          PROVE  up[s] < bound + 1 /\ \A t \in FreeFrom(g, s) : t \in B \cup {id} /\ up[t] < up[s]
      <3>1. CASE s \in B
        <4>1. rank[s] < bound /\ rank[s] \in Nat /\ up[s] = rank[s]
          BY <2>1, <2>2, <3>1 DEF Ranked
        <4>2. \A t \in FreeFrom(g, s) : t \in B /\ rank[t] < rank[s]
          BY <2>1, <3>1 DEF Ranked
        <4>3. \A t \in FreeFrom(g, s) : up[t] = rank[t]
          BY <2>2, <4>2
        <4> QED BY <4>1, <4>2, <4>3, <2>3
      <3>2. CASE s = id
        <4>1. \A t \in FreeFrom(g, s) : t \in B /\ rank[t] < bound
          BY <2>1, <3>2 DEF Ranked
        <4> QED BY <4>1, <3>2, <2>2, <2>3
      <3> QED BY <3>1, <3>2
    <2>5. Ranked(g, B \cup {id}, up, bound + 1)
      BY <2>4 DEF Ranked
    <2> QED BY <2>2, <2>3, <2>5 DEF Ordered
  <1> QED BY <1>1, <1>2

\* A visit, if the ones below are sound.
LEMMA VisitGrows ==
    ASSUME NEW g, NEW deeper, Sound(g, deeper), NEW v \in Visits(g)
    PROVE  Grows(g, v[3], Visited(g, v, deeper), {v[1]})
  <1> DEFINE here == v[2] \cup {v[1]}
             step == StepOf(g, v[1])
             a == Along(g, step, here, deeper)[7][v[3]]
             r == [black |-> a.black \cup {v[1]}, open |-> a.open]
  <1>1. v[1] \in IdsOf(g) /\ here \in SUBSET IdsOf(g) /\ v[3] \in Finds(g)
    BY DEF Visits
  <1>2. Grows(g, v[3], a, FreeFrom(g, v[1]))
    <2>1. FreeFrom(g, v[1]) = FreeOf(g, step)
      BY DEF FreeFrom
    <2> DEFINE x == v[3]
    <2>2. x \in Finds(g)
      BY <1>1
    <2> HIDE DEF here, step, x
    <2>3. Grows(g, x, Along(g, step, here, deeper)[7][x], FreeOf(g, step))
      BY <1>1, <2>2, AlongGrows
    <2> QED BY <2>1, <2>3 DEF x
  <1>3. Visited(g, v, deeper) = [a EXCEPT !.black = a.black \cup {v[1]}]
    BY SevenEdges DEF Visited
  <1> HIDE DEF a
  <1>4. a \in Finds(g)
    BY <1>2 DEF Grows
  <1>5. a = [black |-> a.black, open |-> a.open] /\ a.black \in SUBSET IdsOf(g) /\ a.open \in BOOLEAN
    BY <1>4 DEF Finds
  <1>6. Visited(g, v, deeper) = r
    BY <1>3, <1>5
  <1>7. r \in Finds(g) /\ r.open = a.open /\ r.black = a.black \cup {v[1]}
    BY <1>1, <1>5 DEF Finds
  <1> HIDE DEF r
  <1>8. CASE r.open
    BY <1>6, <1>7, <1>8 DEF Grows
  <1>9. CASE ~r.open
    <2>0. ~a.open
      BY <1>7, <1>9, Zenon
    <2>1. /\ ~v[3].open /\ v[3].black \subseteq a.black /\ FreeFrom(g, v[1]) \subseteq a.black
          /\ Ordered(g, v[3].black) => Ordered(g, a.black)
      BY <1>2, <2>0 DEF Grows
    <2>2. Ordered(g, a.black) => Ordered(g, r.black)
      BY <1>1, <1>5, <1>7, <2>1, OrderedWith
    <2>3. v[3].black \subseteq r.black /\ {v[1]} \subseteq r.black
      BY <1>7, <2>1
    <2> QED BY <1>6, <1>7, <2>1, <2>2, <2>3 DEF Grows
  <1> QED BY <1>8, <1>9

LastPlace(g) == Max(DOMAIN g.steps)

\* The last place steps are listed at.
LEMMA LastPlaceIs ==
    ASSUME NEW g, IsGraph(g)
    PROVE  /\ LastPlace(g) \in Nat /\ LastPlace(g) \in DOMAIN g.steps
           /\ \A i \in DOMAIN g.steps : i \in 1..LastPlace(g)
  <1> DEFINE D == DOMAIN g.steps
  <1>1. D \subseteq Nat \ {0} /\ IsFiniteSet(D) /\ D # {}
    BY DEF IsGraph, IsDrawing
  <1> HIDE DEF D
  <1>2. PICK b \in Nat : \A x \in D : x <= b
    BY <1>1, FiniteIsBounded
  <1>3. Max(D) \in D /\ \A x \in D : x <= Max(D)
    BY <1>1, <1>2, MaxOf
  <1>4. \A x \in D : x \in 1..Max(D)
    BY <1>1, <1>3
  <1> QED BY <1>1, <1>3, <1>4 DEF D, LastPlace

\* The searches below a step, level by level.
ByLevels(g, visit) ==
    /\ visit[0] = [v \in Visits(g) |-> [v[3] EXCEPT !.open = TRUE]]
    /\ \A n \in 1..LastPlace(g) : visit[n] = [v \in Visits(g) |-> Visited(g, v, visit[n - 1])]

LEMMA VisitsAre ==
    ASSUME NEW g, IsGraph(g)
    PROVE  /\ ByLevels(g, VisitsOf(g))
           /\ \A n \in 0..LastPlace(g) : Sound(g, VisitsOf(g)[n])
  <1> DEFINE last == LastPlace(g)
             V == Visits(g)
             s == [v \in V |-> [v[3] EXCEPT !.open = TRUE]]
             D == {d \in [V -> Finds(g)] : Sound(g, d)}
             h == [p \in (1..last) \X D |-> [v \in V |-> Visited(g, v, p[2])]]
             visit[n \in 0..last] == IF n = 0 THEN s ELSE [v \in V |-> Visited(g, v, visit[n - 1])]
  <1>1. VisitsOf(g) = visit
    BY DEF VisitsOf, LastPlace
  <1>2. visit = CHOOSE a : a = [n \in 0..last |-> IF n = 0 THEN s ELSE [v \in V |-> Visited(g, v, a[n - 1])]]
    OBVIOUS
  <1>3. last \in Nat
    BY LastPlaceIs
  <1>4. s \in D
    <2>1. ASSUME NEW v \in V
          PROVE  s[v] \in Finds(g) /\ s[v].open = TRUE
      <3>1. v[3] \in Finds(g)
        BY DEF Visits
      <3>2. v[3] = [black |-> v[3].black, open |-> v[3].open] /\ v[3].black \in SUBSET IdsOf(g)
        BY <3>1 DEF Finds
      <3>3. s[v] = [black |-> v[3].black, open |-> TRUE]
        BY <3>2
      <3> HIDE DEF s
      <3> QED BY <3>2, <3>3 DEF Finds
    <2>2. s \in [V -> Finds(g)]
      <3>1. s = [v \in V |-> s[v]]
        OBVIOUS
      <3> HIDE DEF s
      <3> QED BY <2>1, <3>1
    <2> HIDE DEF s
    <2>3. \A v \in V : Grows(g, v[3], s[v], {v[1]})
      BY <2>1 DEF Grows
    <2>4. Sound(g, s)
      BY <2>2, <2>3 DEF Sound
    <2> QED BY <2>2, <2>4
  <1> HIDE DEF s, visit, last, h
  <1>5. \A n \in 1..last : \A x \in D :
          h[<<n, x>>] = [v \in V |-> Visited(g, v, x)] /\ h[<<n, x>>] \in D
    <2> TAKE n \in 1..last
    <2> TAKE x \in D
    <2>1. <<n, x>> \in (1..last) \X D
      OBVIOUS
    <2>2. h[<<n, x>>] = [v \in V |-> Visited(g, v, x)]
      BY <2>1 DEF h
    <2>3. \A v \in V : Grows(g, v[3], Visited(g, v, x), {v[1]})
      BY VisitGrows
    <2>4. \A v \in V : Visited(g, v, x) \in Finds(g)
      BY <2>3 DEF Grows
    <2> DEFINE d == [v \in V |-> Visited(g, v, x)]
    <2>5. d \in [V -> Finds(g)] /\ \A v \in V : d[v] = Visited(g, v, x)
      BY <2>4
    <2> HIDE DEF d
    <2>6. Sound(g, d)
      BY <2>3, <2>5 DEF Sound
    <2> QED BY <2>2, <2>5, <2>6 DEF d
  <1> HIDE DEF D, V
  <1>6. PICK a \in [0..last -> D] : IsIteration(a, s, last, h)
    <2>1. \A n \in 1..last : \A x \in D : h[<<n, x>>] \in D
      BY <1>5
    <2> QED BY <1>3, <1>4, <2>1, Iterates
  <1>7. a = [n \in 0..last |-> IF n = 0 THEN s ELSE [v \in V |-> Visited(g, v, a[n - 1])]]
    <2>1. ASSUME NEW n \in 0..last
          PROVE  (IF n = 0 THEN s ELSE h[<<n, a[n - 1]>>])
                   = (IF n = 0 THEN s ELSE [v \in V |-> Visited(g, v, a[n - 1])])
      <3>1. CASE n = 0
        BY <3>1
      <3>2. CASE n # 0
        <4>1. n \in 1..last /\ n - 1 \in 0..last
          BY <1>3, <3>2
        <4>2. a[n - 1] \in D
          BY <1>6, <4>1
        <4>3. h[<<n, a[n - 1]>>] = [v \in V |-> Visited(g, v, a[n - 1])]
          BY <1>5, <4>1, <4>2
        <4> QED BY <3>2, <4>3
      <3> QED BY <3>1, <3>2
    <2>2. a = [n \in 0..last |-> IF n = 0 THEN s ELSE h[<<n, a[n - 1]>>]]
      BY <1>6 DEF IsIteration
    <2> QED BY <2>1, <2>2
  <1>8. visit = [n \in 0..last |-> IF n = 0 THEN s ELSE [v \in V |-> Visited(g, v, visit[n - 1])]]
    BY <1>2, <1>7
  <1>9. visit[0] = s
    BY <1>3, <1>8
  <1>10. ASSUME NEW n \in 1..last
         PROVE  visit[n] = [v \in V |-> Visited(g, v, visit[n - 1])]
    <2>1. n \in 0..last /\ n # 0
      BY <1>3
    <2> QED BY <1>8, <2>1
  <1>11. ByLevels(g, visit)
    BY <1>9, <1>10 DEF ByLevels, last, V, s
  <1>12. \A n \in 0..last : visit[n] \in D
    <2> DEFINE S == {n \in 0..last : visit[n] \in D}
    <2>1. 0 \in S
      BY <1>3, <1>4, <1>9
    <2>2. ASSUME NEW n \in 0..last, n < last, n \in S
          PROVE  n + 1 \in S
      <3>1. n + 1 \in 1..last /\ (n + 1) - 1 = n /\ n + 1 \in 0..last
        BY <1>3, <2>2
      <3>2. visit[n + 1] = [v \in V |-> Visited(g, v, visit[n])]
        BY <1>10, <3>1
      <3>3. visit[n + 1] = h[<<n + 1, visit[n]>>] /\ h[<<n + 1, visit[n]>>] \in D
        BY <1>5, <2>2, <3>1, <3>2
      <3> QED BY <3>1, <3>3
    <2> HIDE DEF S
    <2>3. \A n \in 0..last : n \in S
      BY <1>3, <2>1, <2>2, Upwards
    <2> QED BY <2>3 DEF S
  <1> QED BY <1>1, <1>11, <1>12 DEF D, last

\* What is found at a place: nothing, or what the visit of its step finds.
FoundAt(g, p, found) ==
    IF p \notin DOMAIN g.steps \/ g.steps[p].id \in found.black THEN found
    ELSE VisitsOf(g)[LastPlace(g)][<<g.steps[p].id, {}, found>>]

ByPlaces(g, from) ==
    /\ from[0] = [black |-> {}, open |-> FALSE]
    /\ \A p \in 1..LastPlace(g) : from[p] = FoundAt(g, p, from[p - 1])

\* The id at a place is one of the ids.
LEMMA IdOf ==
    ASSUME NEW g, NEW i \in DOMAIN g.steps
    PROVE  g.steps[i].id \in IdsOf(g)
  BY DEF IdsOf

\* From place to place what is found grows.
LEMMA FoundGrows ==
    ASSUME NEW g, IsGraph(g), NEW p, NEW f \in Finds(g)
    PROVE  Grows(g, f, FoundAt(g, p, f), IF p \in DOMAIN g.steps THEN {g.steps[p].id} ELSE {})
  <1> DEFINE T == IF p \in DOMAIN g.steps THEN {g.steps[p].id} ELSE {}
             r == FoundAt(g, p, f)
  <1> SUFFICES Grows(g, f, r, T)
    OBVIOUS
  <1>0. f.open \in BOOLEAN
    BY DEF Finds
  <1>1. CASE p \notin DOMAIN g.steps \/ g.steps[p].id \in f.black
    <2>1. r = f /\ T \subseteq f.black
      BY <1>1 DEF FoundAt
    <2> HIDE DEF r, T
    <2> QED BY <1>0, <2>1 DEF Grows
  <1>2. CASE p \in DOMAIN g.steps /\ g.steps[p].id \notin f.black
    <2> DEFINE v == <<g.steps[p].id, {}, f>>
    <2>1. v \in Visits(g) /\ v[1] = g.steps[p].id /\ v[3] = f
      BY <1>2, IdOf DEF Visits
    <2>2. r = VisitsOf(g)[LastPlace(g)][v] /\ T = {v[1]}
      BY <1>2 DEF FoundAt
    <2> HIDE DEF v, r, T
    <2>3. LastPlace(g) \in 0..LastPlace(g)
      BY LastPlaceIs
    <2>4. Sound(g, VisitsOf(g)[LastPlace(g)])
      BY <2>3, VisitsAre
    <2> QED BY <2>1, <2>2, <2>4 DEF Sound
  <1> QED BY <1>1, <1>2

\* What FoundOf is, from place to place.
LEMMA FoundIs ==
    ASSUME NEW g, IsGraph(g)
    PROVE  ByPlaces(g, FoundOf(g))
  <1> DEFINE last == LastPlace(g)
             s == [black |-> {}, open |-> FALSE]
             F == Finds(g)
             h == [p \in (1..last) \X F |-> FoundAt(g, p[1], p[2])]
             from[p \in 0..last] == IF p = 0 THEN s ELSE FoundAt(g, p, from[p - 1])
  <1>1. FoundOf(g) = from
    BY DEF FoundOf, LastPlace, FoundAt
  <1>2. from = CHOOSE a : a = [n \in 0..last |-> IF n = 0 THEN s ELSE FoundAt(g, n, a[n - 1])]
    OBVIOUS
  <1>3. last \in Nat
    BY LastPlaceIs
  <1>4. s \in F
    BY DEF Finds
  <1> HIDE DEF s, from, last, h, F
  <1>5. \A n \in 1..last : \A x \in F : h[<<n, x>>] = FoundAt(g, n, x) /\ h[<<n, x>>] \in F
    <2> TAKE n \in 1..last
    <2> TAKE x \in F
    <2>1. <<n, x>> \in (1..last) \X F
      OBVIOUS
    <2>2. h[<<n, x>>] = FoundAt(g, n, x)
      BY <2>1 DEF h
    <2>3. FoundAt(g, n, x) \in F
      BY FoundGrows DEF Grows, F
    <2> QED BY <2>2, <2>3
  <1>6. PICK a \in [0..last -> F] : IsIteration(a, s, last, h)
    <2>1. \A n \in 1..last : \A x \in F : h[<<n, x>>] \in F
      BY <1>5
    <2> QED BY <1>3, <1>4, <2>1, Iterates
  <1>7. a = [n \in 0..last |-> IF n = 0 THEN s ELSE FoundAt(g, n, a[n - 1])]
    <2>1. ASSUME NEW n \in 0..last
          PROVE  (IF n = 0 THEN s ELSE h[<<n, a[n - 1]>>])
                   = (IF n = 0 THEN s ELSE FoundAt(g, n, a[n - 1]))
      <3>1. CASE n = 0
        BY <3>1
      <3>2. CASE n # 0
        <4>1. n \in 1..last /\ n - 1 \in 0..last
          BY <1>3, <3>2
        <4> QED BY <1>5, <1>6, <3>2, <4>1
      <3> QED BY <3>1, <3>2
    <2>2. a = [n \in 0..last |-> IF n = 0 THEN s ELSE h[<<n, a[n - 1]>>]]
      BY <1>6 DEF IsIteration
    <2> QED BY <2>1, <2>2
  <1>8. from = [n \in 0..last |-> IF n = 0 THEN s ELSE FoundAt(g, n, from[n - 1])]
    BY <1>2, <1>7
  <1>9. from[0] = s
    BY <1>3, <1>8
  <1>10. ASSUME NEW n \in 1..last
         PROVE  from[n] = FoundAt(g, n, from[n - 1])
    <2>1. n \in 0..last /\ n # 0
      BY <1>3
    <2> QED BY <1>8, <2>1
  <1> QED BY <1>1, <1>9, <1>10 DEF ByPlaces, last, s

\* A graph in which the search finds no loop without a budget has none, however its
\* steps are listed and tied: there is an order of the steps in which arrows
\* without a budget only lead down (_unguarded_cycles).
THEOREM GuardedIsOrdered ==
    ASSUME NEW g, IsGraph(g), CyclesGuarded(g)
    PROVE  Ordered(g, IdsOf(g))
  <1> DEFINE from == FoundOf(g)
             last == LastPlace(g)
             Before(p) == {g.steps[i].id : i \in {j \in DOMAIN g.steps : j <= p}}
             S == {p \in 0..last :
                     /\ from[p] \in Finds(g)
                     /\ ~from[p].open => Before(p) \subseteq from[p].black /\ Ordered(g, from[p].black)}
  <1>1. last \in Nat /\ \A i \in DOMAIN g.steps : i \in 1..last
    BY LastPlaceIs
  <1>2. ByPlaces(g, from)
    BY FoundIs
  <1> HIDE DEF from, last
  <1>3. from[0] = [black |-> {}, open |-> FALSE]
    BY <1>2, Zenon DEF ByPlaces
  <1>4. \A p \in 1..last : from[p] = FoundAt(g, p, from[p - 1])
    BY <1>2, Zenon DEF ByPlaces, last
  <1>5. 0 \in S
    <2>1. Before(0) = {}
      BY <1>1
    <2>2. from[0] \in Finds(g)
      BY <1>3 DEF Finds
    <2>3. Ordered(g, {})
      <3> DEFINE rank == [id \in IdsOf(g) |-> 0]
      <3>1. rank \in [IdsOf(g) -> Nat] /\ Ranked(g, {}, rank, 0)
        BY DEF Ranked
      <3> QED BY <3>1 DEF Ordered
    <2> HIDE DEF Before
    <2> QED BY <1>1, <1>3, <2>1, <2>2, <2>3
  <1>6. ASSUME NEW p \in 0..last, p < last, p \in S
        PROVE  p + 1 \in S
    <2> DEFINE T == IF p + 1 \in DOMAIN g.steps THEN {g.steps[p + 1].id} ELSE {}
    <2>1. p + 1 \in 1..last /\ p + 1 \in 0..last /\ (p + 1) - 1 = p
      BY <1>1, <1>6
    <2>2. Before(p + 1) \subseteq Before(p) \cup T
      <3>1. \A j \in DOMAIN g.steps : j <= p + 1 => j <= p \/ j = p + 1
        BY <1>1, <1>6
      <3> QED BY <3>1
    <2>3. from[p + 1] = FoundAt(g, p + 1, from[p])
      BY <1>4, <2>1
    <2>4. Grows(g, from[p], from[p + 1], T)
      BY <1>6, <2>3, FoundGrows
    <2> HIDE DEF Before, T
    <2>5. from[p + 1] \in Finds(g)
      BY <2>4 DEF Grows
    <2>6. ASSUME ~from[p + 1].open
          PROVE  Before(p + 1) \subseteq from[p + 1].black /\ Ordered(g, from[p + 1].black)
      <3>1. /\ ~from[p].open /\ from[p].black \subseteq from[p + 1].black /\ T \subseteq from[p + 1].black
            /\ Ordered(g, from[p].black) => Ordered(g, from[p + 1].black)
        BY <2>4, <2>6 DEF Grows
      <3>2. Before(p) \subseteq from[p].black /\ Ordered(g, from[p].black)
        BY <1>6, <3>1
      <3> QED BY <2>2, <3>1, <3>2
    <2> QED BY <2>1, <2>5, <2>6
  <1>7. last \in S
    <2> HIDE DEF S
    <2>1. \A p \in 0..last : p \in S
      BY <1>1, <1>5, <1>6, Upwards
    <2> QED BY <1>1, <2>1
  <1>8. ~from[last].open
    BY DEF CyclesGuarded, from, last, LastPlace
  <1>9. Before(last) \subseteq from[last].black /\ Ordered(g, from[last].black)
        /\ from[last] \in Finds(g)
    BY <1>7, <1>8
  <1>10. Before(last) = IdsOf(g)
    BY <1>1 DEF IdsOf
  <1>11. from[last].black = IdsOf(g)
    BY <1>9, <1>10 DEF Finds
  <1> QED BY <1>9, <1>11

-----------------------------------------------------------------------------
(* GraphRules: what parse_graph makes of a drawing, and of its own work.   *)

\* Nothing is left for parse_graph to drop or to fill in.
Clean(g) ==
    \A i \in DOMAIN g.steps :
        /\ g.steps[i].role \in DOMAIN AgentOfRole /\ g.steps[i].next # NoEdge
        /\ \A v \in DOMAIN g.steps[i].on : g.steps[i].on[v] # NoEdge

\* A step as parse_graph leaves it.
LEMMA ParsedStepIs ==
    ASSUME NEW s, IsStep(s)
    PROVE  /\ IsStep(ParsedStep(s)) /\ ParsedStep(s).id = s.id /\ ParsedStep(s).role = s.role
           /\ ParsedStep(s).next # NoEdge
           /\ DOMAIN ParsedStep(s).on \subseteq Verdict
           /\ \A v \in DOMAIN ParsedStep(s).on : ParsedStep(s).on[v] # NoEdge
           /\ s.next # NoEdge /\ DOMAIN s.on \subseteq Verdict
              /\ (\A v \in DOMAIN s.on : s.on[v] # NoEdge) => ParsedStep(s) = s
  <1> DEFINE V == {w \in DOMAIN s.on : w \in Verdict /\ s.on[w] # NoEdge}
             on == [v \in V |-> s.on[v]]
             next == IF s.next = NoEdge THEN PlainEdge("@done") ELSE s.next
             r == [id |-> s.id, role |-> s.role, next |-> next, on |-> on, order |-> s.order]
  <1>1. s = [id |-> s.id, role |-> s.role, next |-> s.next, on |-> s.on, order |-> s.order]
    BY DEF IsStep
  <1>2. ParsedStep(s) = [s EXCEPT !.next = next, !.on = on]
    BY DEF ParsedStep
  <1>3. DOMAIN on = V /\ on = [v \in DOMAIN on |-> on[v]] /\ \A v \in V : on[v] = s.on[v]
    OBVIOUS
  <1>4. IsEdge(next) /\ next # NoEdge
    <2> DEFINE e == PlainEdge("@done")
    <2>1. e = [goto |-> "@done", budget |-> "none", looping |-> FALSE, exhausted |-> "none"]
      BY DEF PlainEdge, Budgeted
    <2> HIDE DEF e
    <2>0. e = Budgeted(e.goto, e.budget, e.looping, e.exhausted) /\ e.looping \in BOOLEAN /\ e.goto = "@done"
      BY <2>1 DEF Budgeted
    <2>4. NoEdge.goto = "none"
      BY DEF NoEdge, Target
    <2>2. IsEdge(e) /\ e # NoEdge
      BY <2>0, <2>4 DEF IsEdge
    <2>3. IsEdge(s.next)
      BY DEF IsStep
    <2> QED BY <2>2, <2>3 DEF e
  <1> HIDE DEF next
  <1>5. ParsedStep(s) = r
    BY <1>1, <1>2
  <1>6. V \subseteq Verdict /\ \A v \in V : IsEdge(s.on[v]) /\ s.on[v] # NoEdge
    BY DEF IsStep
  <1> HIDE DEF on, V
  <1>7. IsStep(r)
    <2>1. r.id = s.id /\ r.role = s.role /\ r.next = next /\ r.on = on /\ r.order = s.order
      OBVIOUS
    <2>2. s.id \notin NoId /\ \A v \in Verdict : \E k \in 1..6 : s.order[k] = v
      BY DEF IsStep
    <2>3. \A v \in DOMAIN on : IsEdge(on[v])
      BY <1>3, <1>6
    <2>4. r = [id |-> r.id, role |-> r.role, next |-> r.next, on |-> r.on, order |-> r.order]
      OBVIOUS
    <2> HIDE DEF r
    <2> QED BY <1>3, <1>4, <1>6, <2>1, <2>2, <2>3, <2>4 DEF IsStep
  <1>8. ASSUME s.next # NoEdge, DOMAIN s.on \subseteq Verdict, \A v \in DOMAIN s.on : s.on[v] # NoEdge
        PROVE  r = s
    <2>1. next = s.next
      BY <1>8 DEF next
    <2>2. V = DOMAIN s.on
      BY <1>8 DEF V
    <2>3. s.on = [v \in DOMAIN s.on |-> s.on[v]]
      BY DEF IsStep
    <2>4. on = s.on
      BY <2>2, <2>3 DEF on
    <2> QED BY <1>1, <2>1, <2>4
  <1> QED BY <1>3, <1>4, <1>5, <1>6, <1>7, <1>8

Kept(raw) ==
    {i \in DOMAIN raw.steps :
        /\ raw.steps[i].role \in DOMAIN AgentOfRole
        /\ \A j \in DOMAIN raw.steps :
             raw.steps[j].role \in DOMAIN AgentOfRole /\ j < i => raw.steps[j].id # raw.steps[i].id}

LEMMA ParsedIs ==
    ASSUME NEW raw
    PROVE  ParsedGraph(raw) =
             IF Kept(raw) = {} THEN NoGraph
             ELSE [entry |-> IF \E i \in Kept(raw) : raw.steps[i].id = raw.entry THEN raw.entry
                             ELSE raw.steps[CHOOSE i \in Kept(raw) : \A j \in Kept(raw) : i <= j].id,
                   budgets |-> raw.budgets,
                   steps |-> [i \in Kept(raw) |-> ParsedStep(raw.steps[i])]]
  <1> DEFINE known == {i \in DOMAIN raw.steps : raw.steps[i].role \in DOMAIN AgentOfRole}
             kept == {i \in known : \A j \in known : j < i => raw.steps[j].id # raw.steps[i].id}
  <1>1. kept = Kept(raw)
    BY DEF Kept
  <1> HIDE DEF kept
  <1> QED BY <1>1 DEF ParsedGraph, kept

\* What is parsed is a graph, with nothing left to fill in.
LEMMA ParsedIsGraph ==
    ASSUME NEW raw, IsDrawing(raw), ParsedGraph(raw) # NoGraph
    PROVE  IsGraph(ParsedGraph(raw)) /\ Clean(ParsedGraph(raw))
  <1> DEFINE g == ParsedGraph(raw)
             K == Kept(raw)
             first == CHOOSE i \in K : \A j \in K : i <= j
             entry == IF \E i \in K : raw.steps[i].id = raw.entry THEN raw.entry ELSE raw.steps[first].id
             steps == [i \in K |-> ParsedStep(raw.steps[i])]
  <1>1. K # {} /\ g = [entry |-> entry, budgets |-> raw.budgets, steps |-> steps]
    BY ParsedIs
  <1>2. K \subseteq DOMAIN raw.steps /\ \A i \in K : IsStep(raw.steps[i])
        /\ raw.steps[i].role \in DOMAIN AgentOfRole
    BY DEF Kept, IsDrawing
  <1>3. K \subseteq Nat \ {0} /\ IsFiniteSet(K)
    BY <1>2, FS_Subset DEF IsDrawing
  <1>4. \A i, j \in K : raw.steps[i].id = raw.steps[j].id => i = j
    <2> SUFFICES ASSUME NEW i \in K, NEW j \in K, raw.steps[i].id = raw.steps[j].id PROVE i = j
      OBVIOUS
    <2>1. ~ (i < j) /\ ~ (j < i)
      BY <1>2 DEF Kept
    <2> QED BY <1>3, <2>1
  <1>5. \E i \in K : entry = raw.steps[i].id
    <2>1. first \in K
      BY <1>1, <1>3, LeastOf
    <2> HIDE DEF first
    <2> QED BY <2>1
  <1> HIDE DEF K, entry
  <1>6. g.entry = entry /\ g.budgets = raw.budgets /\ g.steps = steps /\ DOMAIN steps = K
    BY <1>1
  <1>7. \A i \in K : steps[i] = ParsedStep(raw.steps[i])
    OBVIOUS
  <1>8. steps = [i \in K |-> steps[i]]
    OBVIOUS
  <1> HIDE DEF g, steps
  <1>9. \A i \in K : IsStep(steps[i]) /\ steps[i].id = raw.steps[i].id
          /\ steps[i].role = raw.steps[i].role /\ steps[i].next # NoEdge
          /\ DOMAIN steps[i].on \subseteq Verdict /\ \A v \in DOMAIN steps[i].on : steps[i].on[v] # NoEdge
    BY <1>2, <1>7, ParsedStepIs
  <1>10. entry \in IdsOf(g)
    <2>1. PICK i \in K : entry = raw.steps[i].id
      BY <1>5
    <2> QED BY <1>6, <1>9, <2>1, IdOf
  <1>11. IsDrawing(g)
    BY <1>1, <1>3, <1>6, <1>8, <1>9, <1>10 DEF IsDrawing
  <1>12. \A i, j \in DOMAIN g.steps : g.steps[i].id = g.steps[j].id => i = j
    BY <1>4, <1>6, <1>9
  <1>13. IsGraph(g)
    BY <1>1, <1>6, <1>9, <1>10, <1>11, <1>12 DEF IsGraph
  <1>14. Clean(g)
    BY <1>2, <1>6, <1>9 DEF Clean
  <1> QED BY <1>13, <1>14 DEF g

\* parse_graph changes nothing in what it has parsed.
LEMMA ParsedAgain ==
    ASSUME NEW g, IsGraph(g), Clean(g)
    PROVE  ParsedGraph(g) = g /\ g # NoGraph
  <1> DEFINE K == Kept(g)
             steps == [i \in K |-> ParsedStep(g.steps[i])]
  <1>1. K = DOMAIN g.steps
    <2>1. \A i, j \in DOMAIN g.steps : j < i => g.steps[j].id # g.steps[i].id
      <3>1. DOMAIN g.steps \subseteq Nat
        BY DEF IsGraph, IsDrawing
      <3>2. \A i, j \in DOMAIN g.steps : j < i => i # j
        BY <3>1
      <3> QED BY <3>2 DEF IsGraph
    <2> QED BY <2>1 DEF Kept, Clean
  <1> HIDE DEF K
  <1>2. K # {} /\ \E i \in K : g.steps[i].id = g.entry
    BY <1>1 DEF IsGraph, IdsOf
  <1>3. ParsedGraph(g) = [entry |-> g.entry, budgets |-> g.budgets, steps |-> steps]
    BY <1>2, ParsedIs DEF K
  <1>4. \A i \in K : ParsedStep(g.steps[i]) = g.steps[i]
    <2> TAKE i \in K
    <2>1. IsStep(g.steps[i]) /\ DOMAIN g.steps[i].on \subseteq Verdict
      BY <1>1 DEF IsGraph, IsDrawing
    <2>2. g.steps[i].next # NoEdge /\ \A v \in DOMAIN g.steps[i].on : g.steps[i].on[v] # NoEdge
      BY <1>1 DEF Clean
    <2> QED BY <2>1, <2>2, ParsedStepIs
  <1>5. g = [entry |-> g.entry, budgets |-> g.budgets, steps |-> g.steps] /\ g.steps = [i \in DOMAIN g.steps |-> g.steps[i]]
    BY DEF IsGraph, IsDrawing
  <1>6. steps = g.steps
    <2>1. steps = [i \in K |-> g.steps[i]]
      BY <1>4
    <2> HIDE DEF steps
    <2> QED BY <1>1, <1>5, <2>1
  <1>7. ParsedGraph(g) = g
    BY <1>3, <1>5, <1>6
  <1>8. g # NoGraph
    <2>1. NoGraph.steps = <<>> /\ DOMAIN NoGraph.steps = {}
      BY DEF NoGraph
    <2> QED BY <1>1, <1>2, <2>1
  <1> QED BY <1>7, <1>8

-----------------------------------------------------------------------------
(* GraphRules: the graph of the code's own making.                         *)

Confs == [editor : BOOLEAN, style : BOOLEAN, precheck : BOOLEAN]

LEMMA ConfIs == ASSUME NEW stages PROVE ConfOf(stages) \in Confs
  <1> DEFINE has(role) == \E s \in stages : s[2] = role
  <1>1. \A role : has(role) \in BOOLEAN
    OBVIOUS
  <1>2. ConfOf(stages) = [editor |-> has("review"), style |-> has("style_repair"),
                          precheck |-> has("pre_editor")]
    BY DEF ConfOf
  <1> HIDE DEF has
  <1> QED BY <1>1, <1>2 DEF Confs

LEMMA Names ==
    /\ DOMAIN Listing = 1..11 /\ DOMAIN Skeleton = 1..10
    /\ Listing[1] = "plan" /\ Listing[2] = "loop_head" /\ Listing[3] = "draft"
    /\ Listing[4] = "pre_check" /\ Listing[5] = "review" /\ Listing[6] = "force_fix"
    /\ Listing[7] = "post_check" /\ Listing[8] = "polish" /\ Listing[9] = "final_check"
    /\ Listing[10] = "publish" /\ Listing[11] = "post"
    /\ Skeleton[1] = "plan" /\ Skeleton[2] = "loop_head" /\ Skeleton[3] = "draft"
    /\ Skeleton[4] = "pre_check" /\ Skeleton[5] = "review" /\ Skeleton[6] = "post_check"
    /\ Skeleton[7] = "polish" /\ Skeleton[8] = "final_check" /\ Skeleton[9] = "publish"
    /\ Skeleton[10] = "post"
  BY DEF Listing, Skeleton

LEMMA NamesDiffer ==
    /\ \A p, q \in 1..11 : Listing[p] = Listing[q] => p = q
    /\ \A p, q \in 1..10 : Skeleton[p] = Skeleton[q] => p = q
    /\ \A p \in 1..11 : Listing[p] \notin NoId
  BY DEF Listing, Skeleton, NoId, SpecialTarget

\* Where a stage of the skeleton is listed: the forced correction comes between.
LEMMA Listed ==
    /\ \A m \in 1..5 : Listing[m] = Skeleton[m]
    /\ \A m \in 6..10 : m + 1 \in 7..11 /\ Listing[m + 1] = Skeleton[m]
  BY Names

\* The steps of the graph the code makes.
LEMMA StepSet ==
    ASSUME NEW c \in Confs, NEW id
    PROVE  id \in StepIds(c) <=>
             \/ id \in {"plan", "loop_head", "draft", "final_check", "publish", "post"}
             \/ id = "pre_check" /\ c.precheck
             \/ id \in {"review", "post_check", "force_fix"} /\ c.editor
             \/ id = "polish" /\ c.editor /\ c.style
  <1> DEFINE S == {Skeleton[i] : i \in {k \in DOMAIN Skeleton : Present(c, Skeleton[k])}}
  <1>1. id \in S <=> \E k \in 1..10 : Present(c, Skeleton[k]) /\ id = Skeleton[k]
    BY DEF Skeleton
  <1>2. (\E k \in 1..10 : Present(c, Skeleton[k]) /\ id = Skeleton[k])
        <=> Present(c, id) /\ id \in {"plan", "loop_head", "draft", "pre_check", "review",
                  "post_check", "polish", "final_check", "publish", "post"}
    BY DEF Skeleton
  <1>3. /\ id = "pre_check" => (Present(c, id) <=> c.precheck)
        /\ id \in {"review", "post_check"} => (Present(c, id) <=> c.editor)
        /\ id = "polish" => (Present(c, id) <=> c.editor /\ c.style)
        /\ id \in {"plan", "loop_head", "draft", "final_check", "publish", "post"}
             => Present(c, id)
    BY DEF Present, Confs
  <1>4. id \in StepIds(c) <=> id \in S \/ (c.editor /\ id = "force_fix")
    BY DEF StepIds, Confs
  <1> HIDE DEF S
  <1> QED BY <1>1, <1>2, <1>3, <1>4

\* t is a step of the graph listed after the place p.
Later(c, p, t) == t \in StepIds(c) /\ \E q \in 1..11 : p < q /\ Listing[q] = t

\* The step after one, and the way out of the loop, are listed later.
LEMMA AfterIsLater ==
    ASSUME NEW c \in Confs, NEW p \in 1..11, Listing[p] # "force_fix"
    PROVE  After(c, Listing[p]) = "@done" \/ Later(c, p, After(c, Listing[p]))
  <1>1. p # 6
    BY Names
  <1>2. PICK i \in 1..10 : /\ Skeleton[i] = Listing[p]
                           /\ \A m \in 1..10 : i < m => \E q \in 1..11 : p < q /\ Listing[q] = Skeleton[m]
    <2>1. CASE p \in 1..5
      <3>1. p \in 1..10 /\ Skeleton[p] = Listing[p]
        BY <2>1, Listed
      <3>2. ASSUME NEW m \in 1..10, p < m
            PROVE  \E q \in 1..11 : p < q /\ Listing[q] = Skeleton[m]
        <4>1. CASE m \in 1..5
          <5>1. m \in 1..11 /\ Listing[m] = Skeleton[m]
            BY <4>1, Listed
          <5> QED BY <3>2, <5>1
        <4>2. CASE m \in 6..10
          <5>1. m + 1 \in 1..11 /\ Listing[m + 1] = Skeleton[m] /\ p < m + 1
            BY <2>1, <4>2, Listed
          <5> QED BY <5>1
        <4> QED BY <4>1, <4>2
      <3> QED BY <3>1, <3>2
    <2>2. CASE p \in 7..11
      <3>1. p - 1 \in 6..10 /\ p - 1 \in 1..10 /\ (p - 1) + 1 = p
        BY <2>2
      <3>2. Skeleton[p - 1] = Listing[p]
        BY <3>1, Listed
      <3>3. ASSUME NEW m \in 1..10, p - 1 < m
            PROVE  \E q \in 1..11 : p < q /\ Listing[q] = Skeleton[m]
        <4>1. m \in 6..10 /\ p < m + 1
          BY <2>2, <3>3
        <4>2. m + 1 \in 1..11 /\ Listing[m + 1] = Skeleton[m]
          BY <4>1, Listed
        <4> QED BY <4>1, <4>2
      <3> QED BY <3>1, <3>2, <3>3
    <2> QED BY <1>1, <2>1, <2>2
  <1> DEFINE here == CHOOSE x \in DOMAIN Skeleton : Skeleton[x] = Listing[p]
             later == {x \in DOMAIN Skeleton : x > here /\ Present(c, Skeleton[x])}
             first == CHOOSE x \in later : \A y \in later : x <= y
  <1>3. here = i
    BY <1>2, Names, NamesDiffer
  <1>4. After(c, Listing[p]) = IF later = {} THEN "@done" ELSE Skeleton[first]
    BY DEF After
  <1> HIDE DEF here
  <1>5. later \subseteq Nat /\ \A m \in later : m \in 1..10 /\ i < m /\ Present(c, Skeleton[m])
    BY <1>3, Names
  <1>6. CASE later = {}
    BY <1>4, <1>6
  <1>7. CASE later # {}
    <2>1. first \in later
      <3> HIDE DEF later
      <3> QED BY <1>5, <1>7, LeastOf
    <2> HIDE DEF first, later
    <2>2. first \in 1..10 /\ i < first /\ Present(c, Skeleton[first])
      BY <1>5, <2>1
    <2>3. Skeleton[first] \in StepIds(c)
      BY <2>2, Names DEF StepIds
    <2>4. \E q \in 1..11 : p < q /\ Listing[q] = Skeleton[first]
      BY <1>2, <2>2
    <2> QED BY <1>4, <1>7, <2>3, <2>4 DEF Later
  <1> QED BY <1>6, <1>7

LEMMA ExitIsLater ==
    ASSUME NEW c \in Confs, NEW p \in 1..7
    PROVE  Later(c, p, LoopExit(c))
  <1>1. Present(c, "polish") <=> c.editor /\ c.style
    BY DEF Present, Confs
  <1>2. CASE Present(c, "polish")
    <2>1. LoopExit(c) = "polish" /\ "polish" \in StepIds(c)
      BY <1>1, <1>2, StepSet DEF LoopExit
    <2>2. 8 \in 1..11 /\ p < 8 /\ Listing[8] = "polish"
      BY Names
    <2> QED BY <2>1, <2>2 DEF Later
  <1>3. CASE ~Present(c, "polish")
    <2>1. LoopExit(c) = "final_check" /\ "final_check" \in StepIds(c)
      BY <1>3, StepSet DEF LoopExit
    <2>2. 9 \in 1..11 /\ p < 9 /\ Listing[9] = "final_check"
      BY Names
    <2> QED BY <2>1, <2>2 DEF Later
  <1> QED BY <1>2, <1>3

\* An edge of the step at place p: it leads out, on, or with a budget back to the
\* head of the loop.
Leads(c, p, budget, t) ==
    t \in SpecialTarget \/ Later(c, p, t) \/ (t = "loop_head" /\ budget # "none" /\ p \in 3..7)
Onward(c, p, e) ==
    /\ IsEdge(e) /\ Leads(c, p, e.budget, e.goto)
    /\ e.budget \in {"none", "rewrite", "attempt"}
    /\ \/ e.exhausted = "none" /\ e.budget = "none"
       \/ Leads(c, p, e.budget, e.exhausted)

\* Edges of the kinds default_graph makes.
LEMMA PlainOnward ==
    ASSUME NEW c, NEW p, NEW t, t \in SpecialTarget \/ Later(c, p, t)
    PROVE  Onward(c, p, Drawn(Target(t)))
  <1> DEFINE x == Target(t)
             e == Drawn(x)
  <1>1. x = [goto |-> t, budget |-> "none", looping |-> FALSE, exhausted |-> "@done"]
    BY DEF Target
  <1> HIDE DEF x
  <1>2. e = [x EXCEPT !.exhausted = "none"]
    BY <1>1 DEF Drawn
  <1>3. e = [goto |-> t, budget |-> "none", looping |-> FALSE, exhausted |-> "none"]
    BY <1>1, <1>2
  <1> HIDE DEF e
  <1>4. IsEdge(e) /\ e.goto = t /\ e.budget = "none" /\ e.exhausted = "none"
    BY <1>3 DEF IsEdge, Budgeted
  <1> QED BY <1>4 DEF Onward, Leads, e, x

LEMMA BudgetOnward ==
    ASSUME NEW c, NEW p, NEW t, NEW u, NEW budget \in {"rewrite", "attempt"},
           NEW looping \in BOOLEAN, Leads(c, p, budget, t), Leads(c, p, budget, u)
    PROVE  Onward(c, p, Drawn(Budgeted(t, budget, looping, u)))
  <1> DEFINE e == Budgeted(t, budget, looping, u)
  <1>1. e = [goto |-> t, budget |-> budget, looping |-> looping, exhausted |-> u]
    BY DEF Budgeted
  <1>2. IsEdge(e) /\ e.goto = t /\ e.budget = budget /\ e.exhausted = u
    BY <1>1 DEF IsEdge, Budgeted
  <1> HIDE DEF e
  <1>3. Drawn(e) = e
    BY <1>2 DEF Drawn
  <1> QED BY <1>2, <1>3 DEF Onward, e

\* The edges of a step of this graph.
EdgesLead(c, p) ==
    /\ Onward(c, p, Drawn(NextEdge(c, Listing[p])))
    /\ \A v \in DOMAIN Handlers(c, Listing[p]) :
          v \in Verdict /\ Onward(c, p, Drawn(Handlers(c, Listing[p])[v]))
    /\ MustHandle(RoleOfId(Listing[p])) \subseteq DOMAIN Handlers(c, Listing[p])

\* A step with one verdict of its own, and one without.
LEMMA OneHandler ==
    ASSUME NEW c, NEW p, NEW v \in Verdict, NEW e,
           Onward(c, p, Drawn(NextEdge(c, Listing[p]))),
           Handlers(c, Listing[p]) = On(v, e), Onward(c, p, Drawn(e)),
           MustHandle(RoleOfId(Listing[p])) \subseteq {v}
    PROVE  EdgesLead(c, p)
  <1>1. DOMAIN On(v, e) = {v} /\ On(v, e)[v] = e
    BY DEF On
  <1> QED BY <1>1 DEF EdgesLead

LEMMA NoHandler ==
    ASSUME NEW c, NEW p, Onward(c, p, Drawn(NextEdge(c, Listing[p]))),
           Handlers(c, Listing[p]) = NoHandlers, MustHandle(RoleOfId(Listing[p])) = {}
    PROVE  EdgesLead(c, p)
  <1>1. DOMAIN NoHandlers = {}
    BY DEF NoHandlers
  <1> QED BY <1>1 DEF EdgesLead

\* All edges default_graph lays lead on, out, or with a budget to the loop.
LEMMA EdgesAreOnward ==
    ASSUME NEW c \in Confs, NEW p \in 1..11, Listing[p] \in StepIds(c)
    PROVE  EdgesLead(c, p)
  <1>0. /\ \A q \in 1..11 : Listing[q] # "force_fix" =>
             After(c, Listing[q]) = "@done" \/ Later(c, q, After(c, Listing[q]))
        /\ \A q \in 1..7 : Later(c, q, LoopExit(c))
    BY AfterIsLater, ExitIsLater
  <1>s. {"@done", "@retry_chapter", "@pause:planner", "@pause:editor", "@pause:validator"}
           \subseteq SpecialTarget
    BY DEF SpecialTarget
  <1>v. {"ok", "rewrite", "skipped", "empty", "blocked", "fail"} = Verdict
    BY DEF Verdict
  <1>n. ASSUME Listing[p] \notin {"plan", "loop_head", "force_fix", "post_check"}
        PROVE  Onward(c, p, Drawn(NextEdge(c, Listing[p])))
    <2>1. NextEdge(c, Listing[p]) = Target(After(c, Listing[p]))
      BY <1>n DEF NextEdge
    <2>2. After(c, Listing[p]) \in SpecialTarget \/ Later(c, p, After(c, Listing[p]))
      BY <1>0, <1>s, <1>n
    <2> QED BY <2>1, <2>2, PlainOnward
  <1>h. Leads(c, 1, "rewrite", "loop_head") /\ Leads(c, 5, "rewrite", "loop_head")
        /\ Leads(c, 7, "rewrite", "loop_head")
    <2>1. Later(c, 1, "loop_head")
      <3>1. 2 \in 1..11 /\ 1 < 2 /\ Listing[2] = "loop_head" /\ "loop_head" \in StepIds(c)
        BY Names, StepSet
      <3> QED BY <3>1 DEF Later
    <2> QED BY <2>1 DEF Leads
  <1>e. Leads(c, 1, "rewrite", LoopExit(c)) /\ Leads(c, 7, "rewrite", LoopExit(c))
    BY <1>0 DEF Leads
  <1>1. CASE p = 1
    <2>1. Listing[p] = "plan" /\ MustHandle(RoleOfId("plan")) = {"empty"}
      BY <1>1, Names DEF MustHandle, RoleOfId
    <2>2. /\ NextEdge(c, "plan") = Budgeted("loop_head", "rewrite", FALSE, LoopExit(c))
          /\ Handlers(c, "plan") = On("empty", Target("@pause:planner"))
      BY DEF NextEdge, Handlers
    <2>3. Onward(c, p, Drawn(NextEdge(c, "plan"))) /\ Onward(c, p, Drawn(Target("@pause:planner")))
      BY <1>1, <1>e, <1>h, <1>s, <2>2, BudgetOnward, PlainOnward
    <2> QED BY <1>v, <2>1, <2>2, <2>3, OneHandler
  <1>2. CASE p = 2
    <2>1. Listing[p] = "loop_head" /\ MustHandle(RoleOfId("loop_head")) = {} /\ Listing[3] = "draft"
      BY <1>2, Names DEF MustHandle, RoleOfId
    <2>2. /\ NextEdge(c, "loop_head") = Target("draft")
          /\ Handlers(c, "loop_head") = On("skipped", Target(After(c, "draft")))
      BY DEF NextEdge, Handlers
    <2>3. Later(c, 2, "draft")
      <3>1. 3 \in 1..11 /\ 2 < 3 /\ "draft" \in StepIds(c)
        BY StepSet
      <3> QED BY <2>1, <3>1 DEF Later
    <2>4. After(c, "draft") \in SpecialTarget \/ Later(c, 2, After(c, "draft"))
      <3>1. 3 \in 1..11 /\ \A q \in 1..11 : 3 < q => 2 < q
        OBVIOUS
      <3>2. After(c, "draft") = "@done" \/ Later(c, 3, After(c, "draft"))
        BY <1>0, <2>1, <3>1
      <3> QED BY <1>s, <3>1, <3>2 DEF Later
    <2>5. Onward(c, p, Drawn(Target("draft"))) /\ Onward(c, p, Drawn(Target(After(c, "draft"))))
      BY <1>2, <2>3, <2>4, PlainOnward
    <2> QED BY <1>v, <2>1, <2>2, <2>5, OneHandler
  <1>3. CASE p \in {3, 4, 8, 11}
    <2>1. Listing[p] \in {"draft", "pre_check", "polish", "post"}
      BY <1>3, Names
    <2>2. MustHandle(RoleOfId(Listing[p])) = {} /\ Handlers(c, Listing[p]) = NoHandlers
      BY <2>1 DEF MustHandle, RoleOfId, Handlers
    <2> QED BY <1>n, <2>1, <2>2, NoHandler
  <1>4. CASE p = 5
    <2>1. Listing[p] = "review" /\ MustHandle(RoleOfId("review")) = {"rewrite"} /\ Listing[6] = "force_fix"
      BY <1>4, Names DEF MustHandle, RoleOfId
    <2>2. Handlers(c, "review") = On("rewrite", Budgeted("loop_head", "rewrite", TRUE, "force_fix"))
      BY DEF Handlers
    <2>3. Later(c, 5, "force_fix")
      <3>1. 6 \in 1..11 /\ 5 < 6 /\ "force_fix" \in StepIds(c)
        BY <2>1, StepSet
      <3> QED BY <2>1, <3>1 DEF Later
    <2>4. Leads(c, 5, "rewrite", "force_fix")
      BY <2>3 DEF Leads
    <2>5. Onward(c, p, Drawn(Budgeted("loop_head", "rewrite", TRUE, "force_fix")))
      BY <1>4, <1>h, <2>4, BudgetOnward
    <2> QED BY <1>n, <1>v, <2>1, <2>2, <2>5, OneHandler
  <1>5. CASE p = 6
    <2>1. Listing[p] = "force_fix" /\ MustHandle(RoleOfId("force_fix")) = {"skipped"}
      BY <1>5, Names DEF MustHandle, RoleOfId
    <2>2. /\ NextEdge(c, "force_fix") = Target(LoopExit(c))
          /\ Handlers(c, "force_fix") = On("skipped", Target("@pause:editor"))
      BY DEF NextEdge, Handlers
    <2>3. Onward(c, p, Drawn(Target(LoopExit(c)))) /\ Onward(c, p, Drawn(Target("@pause:editor")))
      BY <1>0, <1>5, <1>s, PlainOnward
    <2> QED BY <1>v, <2>1, <2>2, <2>3, OneHandler
  <1>6. CASE p = 7
    <2>1. Listing[p] = "post_check" /\ MustHandle(RoleOfId("post_check")) = {}
      BY <1>6, Names DEF MustHandle, RoleOfId
    <2>2. /\ NextEdge(c, "post_check") = Target(LoopExit(c))
          /\ Handlers(c, "post_check") = On("rewrite", Budgeted("loop_head", "rewrite", FALSE, LoopExit(c)))
      BY DEF NextEdge, Handlers
    <2>3. Onward(c, p, Drawn(Target(LoopExit(c))))
      BY <1>0, <1>6, PlainOnward
    <2>4. Onward(c, p, Drawn(Budgeted("loop_head", "rewrite", FALSE, LoopExit(c))))
      BY <1>6, <1>e, <1>h, BudgetOnward
    <2> QED BY <1>v, <2>1, <2>2, <2>3, <2>4, OneHandler
  <1>7. CASE p = 9
    <2>1. Listing[p] = "final_check" /\ MustHandle(RoleOfId("final_check")) = {"blocked", "fail"}
      BY <1>7, Names DEF MustHandle, RoleOfId
    <2> DEFINE h == Handlers(c, "final_check")
               again == Budgeted("@retry_chapter", "attempt", FALSE, "@pause:validator")
    <2>2. h = [v \in {"blocked", "fail"} |-> IF v = "blocked" THEN Target("@pause:validator") ELSE again]
      BY DEF Handlers
    <2>3. DOMAIN h = {"blocked", "fail"} /\ h["blocked"] = Target("@pause:validator") /\ h["fail"] = again
      BY <2>2
    <2>4. Leads(c, p, "attempt", "@retry_chapter") /\ Leads(c, p, "attempt", "@pause:validator")
      BY <1>s DEF Leads
    <2>5. Onward(c, p, Drawn(Target("@pause:validator"))) /\ Onward(c, p, Drawn(again))
      BY <1>s, <2>4, PlainOnward, BudgetOnward
    <2>6. Onward(c, p, Drawn(NextEdge(c, Listing[p])))
      BY <1>n, <2>1
    <2> HIDE DEF h, again
    <2>7. \A v \in DOMAIN h : v \in Verdict /\ Onward(c, p, Drawn(h[v]))
      BY <1>v, <2>3, <2>5
    <2> QED BY <2>1, <2>3, <2>6, <2>7 DEF EdgesLead, h
  <1>8. CASE p = 10
    <2>1. Listing[p] = "publish" /\ MustHandle(RoleOfId("publish")) = {"blocked"}
      BY <1>8, Names DEF MustHandle, RoleOfId
    <2>2. Handlers(c, "publish") = On("blocked", Target("@pause:validator"))
      BY DEF Handlers
    <2>3. Onward(c, p, Drawn(Target("@pause:validator")))
      BY <1>s, PlainOnward
    <2> QED BY <1>n, <1>v, <2>1, <2>2, <2>3, OneHandler
  <1>9. p \in {1, 2, 3, 4, 5, 6, 7, 8, 9, 10, 11}
    OBVIOUS
  <1> QED BY <1>1, <1>2, <1>3, <1>4, <1>5, <1>6, <1>7, <1>8, <1>9

Places(c) == {j \in 1..11 : Listing[j] \in StepIds(c)}

DerivedFrom(c, g) ==
    /\ g.entry = "plan" /\ g.budgets = {} /\ DOMAIN g.steps = Places(c)
    /\ \A j \in Places(c) : g.steps[j] = DerivedStep(c, Listing[j])

LEMMA DerivedIs ==
    ASSUME NEW stages
    PROVE  DerivedFrom(ConfOf(stages), DerivedGraph(stages))
  <1> DEFINE c == ConfOf(stages)
             P == {j \in DOMAIN Listing : Listing[j] \in StepIds(c)}
  <1>1. P = Places(c)
    BY Names DEF Places
  <1> HIDE DEF c
  <1>2. DerivedGraph(stages) = [entry |-> "plan", budgets |-> {}, steps |-> [i \in P |-> DerivedStep(c, Listing[i])]]
    BY DEF DerivedGraph, c
  <1> HIDE DEF P
  <1>3. DerivedFrom(c, DerivedGraph(stages))
    BY <1>1, <1>2 DEF DerivedFrom
  <1> QED BY <1>3 DEF c

\* Steps that are always there.
LEMMA SomePlaces ==
    ASSUME NEW c \in Confs
    PROVE  {1, 2, 3, 9, 10, 11} \subseteq Places(c)
  <1>1. \A j \in {1, 2, 3, 9, 10, 11} : j \in 1..11 /\ Listing[j] \in StepIds(c)
    BY Names, StepSet
  <1> QED BY <1>1 DEF Places

StepLeads(c, p, s) ==
    /\ s = [id |-> s.id, role |-> s.role, next |-> s.next, on |-> s.on, order |-> s.order]
    /\ s.order = VerdictOrder
    /\ s.id = Listing[p] /\ s.role = RoleOfId(Listing[p]) /\ s.role \in DOMAIN AgentOfRole
    /\ Onward(c, p, s.next) /\ s.on = [v \in DOMAIN s.on |-> s.on[v]]
    /\ DOMAIN s.on \subseteq Verdict /\ MustHandle(s.role) \subseteq DOMAIN s.on
    /\ \A v \in DOMAIN s.on : Onward(c, p, s.on[v])

LEMMA DerivedStepIs ==
    ASSUME NEW c \in Confs, NEW p \in Places(c), NEW s, s = DerivedStep(c, Listing[p])
    PROVE  StepLeads(c, p, s)
  <1> DEFINE id == Listing[p]
             H == Handlers(c, id)
             on == [v \in DOMAIN H |-> Drawn(H[v])]
  <1>1. s = [id |-> id, role |-> RoleOfId(id), next |-> Drawn(NextEdge(c, id)), on |-> on,
             order |-> VerdictOrder]
    BY DEF DerivedStep
  <1>2. p \in 1..11 /\ Listing[p] \in StepIds(c)
    BY DEF Places
  <1>3. EdgesLead(c, p)
    BY <1>2, EdgesAreOnward
  <1>4. /\ Onward(c, p, Drawn(NextEdge(c, id)))
        /\ \A v \in DOMAIN H : v \in Verdict /\ Onward(c, p, Drawn(H[v]))
        /\ MustHandle(RoleOfId(id)) \subseteq DOMAIN H
    BY <1>3, Zenon DEF EdgesLead
  <1>5. RoleOfId(id) \in DOMAIN AgentOfRole
    <2> HIDE DEF id
    <2>1. DOMAIN AgentOfRole = {"outline", "draft", "pre_editor", "review", "force_revise",
                       "post_edit", "style_repair", "final", "postprocess",
                       "context_refresh", "publish"}
      BY DEF AgentOfRole
    <2> QED BY <2>1 DEF RoleOfId
  <1> HIDE DEF H, id
  <1>6. DOMAIN on = DOMAIN H /\ (\A v \in DOMAIN H : on[v] = Drawn(H[v]))
        /\ on = [v \in DOMAIN on |-> on[v]]
    OBVIOUS
  <1> HIDE DEF on
  <1>7. s.id = id /\ s.role = RoleOfId(id) /\ s.next = Drawn(NextEdge(c, id)) /\ s.on = on
        /\ s = [id |-> s.id, role |-> s.role, next |-> s.next, on |-> s.on, order |-> s.order]
        /\ s.order = VerdictOrder
    BY <1>1
  <1>8. \A v \in DOMAIN on : v \in Verdict /\ Onward(c, p, on[v])
    BY <1>4, <1>6
  <1> QED BY <1>4, <1>5, <1>6, <1>7, <1>8 DEF id, StepLeads

LEMMA LaterPlace ==
    ASSUME NEW c, NEW p \in Places(c), NEW t, Later(c, p, t)
    PROVE  \E q \in Places(c) : p < q /\ Listing[q] = t
  BY DEF Later, Places

\* An edge that is not drawn has no target, and none of the two is a name for that.
LEMMA OnwardTells ==
    ASSUME NEW c, NEW p, NEW e, Onward(c, p, e)
    PROVE  IsEdge(e) /\ e.goto # "none" /\ e # NoEdge /\ (e.budget # "none" => e.exhausted # "none")
  <1>1. "none" \notin SpecialTarget
    BY DEF SpecialTarget
  <1>2. \A t : Later(c, p, t) => t # "none"
    BY NamesDiffer DEF Later, NoId
  <1>3. \A t : Leads(c, p, e.budget, t) => t # "none"
    BY <1>1, <1>2 DEF Leads
  <1>4. e.goto # "none" /\ (e.budget # "none" => e.exhausted # "none")
    BY <1>3 DEF Onward
  <1>5. NoEdge.goto = "none"
    BY DEF NoEdge, Target
  <1> QED BY <1>4, <1>5 DEF Onward

\* Every verdict has its place in the order of the default graph.
LEMMA AllVerdicts == \A v \in Verdict : \E k \in 1..6 : VerdictOrder[k] = v
  BY DEF Verdict, VerdictOrder

\* The graph the code makes is one as parse_graph leaves it.
LEMMA DerivedIsGraph ==
    ASSUME NEW c \in Confs, NEW g, DerivedFrom(c, g), g = [entry |-> g.entry, budgets |-> g.budgets, steps |-> g.steps],
           g.steps = [i \in DOMAIN g.steps |-> g.steps[i]]
    PROVE  /\ IsGraph(g) /\ Clean(g)
           /\ IdsOf(g) = {Listing[j] : j \in Places(c)}
           /\ \A p \in Places(c) : g.steps[p].id = Listing[p]
  <1> DEFINE P == Places(c)
  <1>1. P \subseteq Nat \ {0} /\ P \subseteq 1..11 /\ IsFiniteSet(P) /\ 1 \in P
    <2>1. P \subseteq 1..11
      BY DEF Places
    <2>2. 1 \in P
      BY SomePlaces
    <2>3. 1 \in Int /\ 11 \in Int
      OBVIOUS
    <2>4. IsFiniteSet(1..11)
      BY <2>3, FS_Interval
    <2> QED BY <2>1, <2>2, <2>4, FS_Subset
  <1>2. ASSUME NEW j \in P
        PROVE  /\ IsStep(g.steps[j]) /\ g.steps[j].id = Listing[j]
               /\ DOMAIN g.steps[j].on \subseteq Verdict /\ g.steps[j].role \in DOMAIN AgentOfRole
               /\ g.steps[j].next # NoEdge /\ \A v \in DOMAIN g.steps[j].on : g.steps[j].on[v] # NoEdge
    <2> DEFINE s == g.steps[j]
    <2>1. s = DerivedStep(c, Listing[j])
      BY DEF DerivedFrom
    <2> HIDE DEF s
    <2>2. /\ s = [id |-> s.id, role |-> s.role, next |-> s.next, on |-> s.on, order |-> s.order]
          /\ s.order = VerdictOrder
          /\ s.id = Listing[j] /\ s.role \in DOMAIN AgentOfRole
          /\ Onward(c, j, s.next) /\ s.on = [v \in DOMAIN s.on |-> s.on[v]]
          /\ DOMAIN s.on \subseteq Verdict
          /\ \A v \in DOMAIN s.on : Onward(c, j, s.on[v])
      BY <2>1, DerivedStepIs DEF StepLeads
    <2>3. IsEdge(s.next) /\ s.next # NoEdge /\ \A v \in DOMAIN s.on : IsEdge(s.on[v]) /\ s.on[v] # NoEdge
      BY <2>2, OnwardTells
    <2>4. s.id \notin NoId
      BY <1>1, <2>2, NamesDiffer
    <2>5. IsStep(s)
      BY <2>2, <2>3, <2>4, AllVerdicts DEF IsStep
    <2> QED BY <2>2, <2>3, <2>5 DEF s
  <1>3. DOMAIN g.steps = P /\ g.entry = "plan"
    BY DEF DerivedFrom
  <1>4. IdsOf(g) = {Listing[j] : j \in P}
    BY <1>2, <1>3 DEF IdsOf
  <1>5. "plan" \in IdsOf(g)
    BY <1>1, <1>4, Names
  <1>6. IsDrawing(g)
    BY <1>1, <1>2, <1>3 DEF IsDrawing
  <1>7. \A i, j \in P : g.steps[i].id = g.steps[j].id => i = j
    BY <1>1, <1>2, NamesDiffer
  <1>8. IsGraph(g)
    BY <1>1, <1>2, <1>3, <1>5, <1>6, <1>7 DEF IsGraph
  <1>9. Clean(g)
    BY <1>2, <1>3 DEF Clean
  <1> QED BY <1>2, <1>4, <1>8, <1>9

\* A graph that the code makes of some stages.
Derived(c, g) ==
    /\ c \in Confs /\ DerivedFrom(c, g) /\ g = [entry |-> g.entry, budgets |-> g.budgets, steps |-> g.steps]
    /\ g.steps = [i \in DOMAIN g.steps |-> g.steps[i]]

LEMMA DerivedGraphIs ==
    ASSUME NEW stages
    PROVE  Derived(ConfOf(stages), DerivedGraph(stages))
  <1> DEFINE c == ConfOf(stages)
             P == {j \in DOMAIN Listing : Listing[j] \in StepIds(c)}
             steps == [i \in P |-> DerivedStep(c, Listing[i])]
             g == [entry |-> "plan", budgets |-> {}, steps |-> steps]
  <1>1. DerivedGraph(stages) = g
    BY DEF DerivedGraph
  <1>2. steps = [i \in DOMAIN steps |-> steps[i]]
    OBVIOUS
  <1> HIDE DEF steps
  <1>3. g.entry = "plan" /\ g.steps = steps
    OBVIOUS
  <1> HIDE DEF g
  <1>4. g = [entry |-> g.entry, budgets |-> g.budgets, steps |-> g.steps]
    BY <1>3 DEF g
  <1>5. DerivedFrom(c, g) /\ c \in Confs
    BY <1>1, DerivedIs, ConfIs
  <1> QED BY <1>1, <1>2, <1>3, <1>4, <1>5 DEF Derived

IdsFrom(c, g) == IdsOf(g) = {Listing[j] : j \in Places(c)}
StepFrom(c, g, p) == StepOf(g, Listing[p]) = g.steps[p] /\ g.steps[p] = DerivedStep(c, Listing[p])

LEMMA DerivedFacts ==
    ASSUME NEW c, NEW g, Derived(c, g)
    PROVE  IsGraph(g) /\ Clean(g) /\ IdsFrom(c, g)
           /\ \A p \in Places(c) : StepFrom(c, g, p)
  <1>0. c \in Confs /\ DerivedFrom(c, g) /\ g = [entry |-> g.entry, budgets |-> g.budgets, steps |-> g.steps]
        /\ g.steps = [i \in DOMAIN g.steps |-> g.steps[i]]
    BY Zenon DEF Derived
  <1>1. /\ IsGraph(g) /\ Clean(g)
        /\ IdsOf(g) = {Listing[j] : j \in Places(c)}
        /\ \A p \in Places(c) : g.steps[p].id = Listing[p]
    BY <1>0, DerivedIsGraph
  <1>2. IdsFrom(c, g)
    BY <1>1 DEF IdsFrom
  <1>3. DOMAIN g.steps = Places(c) /\ \A j \in Places(c) : g.steps[j] = DerivedStep(c, Listing[j])
    BY <1>0 DEF DerivedFrom
  <1>4. ASSUME NEW p \in Places(c)
        PROVE  StepOf(g, Listing[p]) = g.steps[p]
    <2> DEFINE i == CHOOSE i \in DOMAIN g.steps : g.steps[i].id = Listing[p]
    <2>1. i \in DOMAIN g.steps /\ g.steps[i].id = Listing[p]
      BY <1>1, <1>3
    <2>2. StepOf(g, Listing[p]) = g.steps[i]
      BY DEF StepOf
    <2> HIDE DEF i
    <2>3. i \in Places(c) /\ Listing[i] = Listing[p]
      BY <1>1, <1>3, <2>1
    <2>4. i = p
      BY <2>3, NamesDiffer DEF Places
    <2> QED BY <2>2, <2>4
  <1> QED BY <1>1, <1>2, <1>3, <1>4 DEF StepFrom

\* The edges of the first step lead out or to the head of the loop.
Enters(e) == e.goto = "loop_head" \/ (e.goto \in SpecialTarget /\ e.exhausted = "none")

\* All edges of a step lead on.
LEMMA StepEdges ==
    ASSUME NEW c, NEW g, Derived(c, g), NEW p \in Places(c)
    PROVE  \A e \in EdgesOf(StepOf(g, Listing[p])) : Onward(c, p, e)
  <1> DEFINE s == StepOf(g, Listing[p])
  <1>1. s = DerivedStep(c, Listing[p]) /\ c \in Confs
    BY DerivedFacts DEF StepFrom, Derived
  <1> HIDE DEF s
  <1>2. Onward(c, p, s.next) /\ \A v \in DOMAIN s.on : Onward(c, p, s.on[v])
    BY <1>1, DerivedStepIs DEF StepLeads
  <1> QED BY <1>2 DEF EdgesOf, s

LEMMA EdgeAtIs ==
    ASSUME NEW s, NEW k
    PROVE  EdgeAt(s, k) \in EdgesOf(s)
  BY DEF EdgeAt, EdgeFor, EdgesOf

LEMMA PlanEnters ==
    ASSUME NEW c, NEW g, Derived(c, g)
    PROVE  \A e \in EdgesOf(StepOf(g, Listing[1])) : Enters(e)
  <1> DEFINE s == StepOf(g, Listing[1])
             pause == Target("@pause:planner")
             loop == Budgeted("loop_head", "rewrite", FALSE, LoopExit(c))
             on == [v \in DOMAIN Handlers(c, "plan") |-> Drawn(Handlers(c, "plan")[v])]
  <1>0. 1 \in Places(c) /\ Listing[1] = "plan"
    BY SomePlaces, Names DEF Derived
  <1>1. s = DerivedStep(c, "plan")
    BY <1>0, DerivedFacts DEF StepFrom
  <1>2. /\ NextEdge(c, "plan") = loop
        /\ Handlers(c, "plan") = On("empty", pause)
    BY DEF NextEdge, Handlers
  <1>3. DOMAIN On("empty", pause) = {"empty"} /\ On("empty", pause)["empty"] = pause
    BY DEF On
  <1>4. pause = [goto |-> "@pause:planner", budget |-> "none", looping |-> FALSE, exhausted |-> "@done"]
    BY DEF Target
  <1>5. loop = [goto |-> "loop_head", budget |-> "rewrite", looping |-> FALSE, exhausted |-> LoopExit(c)]
    BY DEF Budgeted
  <1> HIDE DEF pause, loop
  <1>6. Drawn(pause) = [pause EXCEPT !.exhausted = "none"]
    BY <1>4 DEF Drawn
  <1>7. Drawn(pause) = [goto |-> "@pause:planner", budget |-> "none", looping |-> FALSE, exhausted |-> "none"]
    BY <1>4, <1>6
  <1>8. Drawn(loop) = loop
    BY <1>5 DEF Drawn
  <1>9. Enters(Drawn(pause)) /\ Enters(Drawn(loop))
    BY <1>5, <1>7, <1>8 DEF Enters, SpecialTarget
  <1>10. DOMAIN on = {"empty"} /\ on["empty"] = Drawn(pause)
    BY <1>2, <1>3
  <1> HIDE DEF s
  <1>11. s = [id |-> "plan", role |-> RoleOfId("plan"), next |-> Drawn(NextEdge(c, "plan")), on |-> on,
              order |-> VerdictOrder]
    BY <1>1 DEF DerivedStep
  <1> HIDE DEF on
  <1>12. s.next = Drawn(loop) /\ s.on = on
    BY <1>2, <1>11
  <1>13. \A e \in EdgesOf(s) : e = Drawn(loop) \/ e = Drawn(pause)
    BY <1>10, <1>12 DEF EdgesOf
  <1> QED BY <1>9, <1>13 DEF s

\* A visit of a step of this graph, n levels being left below it: what is grey is
\* before the step, and the head of the loop has been reached by then.
Proper(c, n, v, p) ==
    /\ v[1] = Listing[p] /\ 12 <= n + p /\ v[2] \subseteq {Listing[q] : q \in 1..(p - 1)}
    /\ p > 2 => "loop_head" \in v[2] \cup v[3].black
    /\ ~v[3].open

Stays(g, f, r) == r \in Finds(g) /\ ~r.open /\ f.black \subseteq r.black

Safe(c, g, n, deeper) ==
    \A v \in Visits(g), p \in Places(c) : Proper(c, n, v, p) => Stays(g, v[3], deeper[v])

\* The head of the loop has been reached, or is what the first step leads to.
Headed(g, p, here, f, t) ==
    "loop_head" \in here \cup f.black \/ (p = 1 /\ (t = "loop_head" \/ t \notin IdsOf(g)))

\* At place p, with these grey and n levels left below.
AtPlace(c, g, p, n, here, deeper) ==
    /\ Derived(c, g) /\ p \in Places(c) /\ n \in Nat /\ 12 <= n + 1 + p
    /\ here \subseteq {Listing[q] : q \in 1..p} /\ here \subseteq IdsOf(g)
    /\ Sound(g, deeper) /\ Safe(c, g, n, deeper)

Arrives(g, f, r, here, t) == Stays(g, f, r) /\ (t = "loop_head" => t \in here \cup r.black)

\* An arrow from a place: the search stays without a find, and the head of the loop
\* is behind it when the arrow led there.
LEMMA TargetSafe ==
    ASSUME NEW c, NEW g, NEW p, NEW n, NEW here, NEW deeper, AtPlace(c, g, p, n, here, deeper),
           NEW f \in Finds(g), ~f.open, NEW e, NEW t, Leads(c, p, e.budget, t) \/ t = "none",
           Headed(g, p, here, f, t)
    PROVE  Arrives(g, f, TargetSeen(g, f, e, t, here, deeper), here, t)
  <1> USE DEF Arrives
  <1> SUFFICES ASSUME Derived(c, g), p \in Places(c), n \in Nat, 12 <= n + 1 + p,
                      here \subseteq {Listing[q] : q \in 1..p}, here \subseteq IdsOf(g),
                      Sound(g, deeper), Safe(c, g, n, deeper)
               PROVE  Arrives(g, f, TargetSeen(g, f, e, t, here, deeper), here, t)
    BY Zenon DEF AtPlace
  <1> DEFINE r == TargetSeen(g, f, e, t, here, deeper)
  <1>0. IdsOf(g) = {Listing[j] : j \in Places(c)} /\ c \in Confs /\ Places(c) \subseteq 1..11
    BY DerivedFacts DEF IdsFrom, Derived, Places
  <1>1. f.black \in SUBSET IdsOf(g) /\ f = [black |-> f.black, open |-> f.open] /\ f.open \in BOOLEAN
    BY DEF Finds
  <1>2. "loop_head" \in IdsOf(g)
    BY <1>0, SomePlaces, Names
  <1>3. CASE t \notin IdsOf(g) \/ (t \notin here /\ t \in f.black)
    <2>1. r = f
      BY <1>3 DEF TargetSeen
    <2> HIDE DEF r
    <2> QED BY <1>2, <1>3, <2>1 DEF Stays, r
  <1>4. ASSUME t \in IdsOf(g)
        PROVE  Later(c, p, t) \/ (t = "loop_head" /\ e.budget # "none" /\ p \in 3..7)
    <2>1. t \notin SpecialTarget /\ t # "none"
      BY <1>0, <1>4, NamesDiffer DEF NoId
    <2> QED BY <2>1 DEF Leads
  <1>5. CASE t \in IdsOf(g) /\ t \in here
    <2>1. ~Later(c, p, t)
      <3>1. PICK q \in 1..p : t = Listing[q]
        BY <1>5
      <3>2. q \in 1..11 /\ \A x \in 1..11 : p < x => x # q
        BY <1>0, <3>1
      <3>3. \A x \in 1..11 : p < x => Listing[x] # t
        BY <3>1, <3>2, NamesDiffer
      <3> QED BY <3>3 DEF Later
    <2>2. e.budget # "none"
      BY <1>4, <1>5, <2>1
    <2>3. r = [f EXCEPT !.open = f.open \/ e.budget = "none"]
      BY <1>5 DEF TargetSeen
    <2>4. r = [black |-> f.black, open |-> (f.open \/ e.budget = "none")]
      BY <1>1, <2>3
    <2>5. r.black = f.black /\ r.open = (f.open \/ e.budget = "none")
      BY <2>4
    <2>6. ~r.open
      BY <2>2, <2>5, Zenon
    <2>7. r \in Finds(g)
      BY <1>1, <2>4 DEF Finds
    <2> HIDE DEF r
    <2> QED BY <1>5, <2>5, <2>6, <2>7 DEF Stays, r
  <1>6. CASE t \in IdsOf(g) /\ t \notin here /\ t \notin f.black
    <2> DEFINE v == <<t, here, f>>
    <2>1. r = deeper[v]
      BY <1>6 DEF TargetSeen
    <2>2. v \in Visits(g) /\ v[1] = t /\ v[2] = here /\ v[3] = f
      BY <1>6 DEF Visits
    <2>3. Later(c, p, t)
      <3>1. CASE t = "loop_head" /\ p \in 3..7
        BY <1>6, <3>1 DEF Headed
      <3> QED BY <1>4, <1>6, <3>1
    <2>4. PICK q \in Places(c) : p < q /\ Listing[q] = t
      BY <2>3, LaterPlace
    <2>5. p \in 1..11 /\ q \in 1..11
      BY <1>0
    <2>6. 12 <= n + q /\ 1..p \subseteq 1..(q - 1)
      BY <2>4, <2>5
    <2>7. q > 2 => "loop_head" \in here \cup f.black
      <3>1. CASE p = 1 /\ t = "loop_head"
        <4>1. q = 2
          BY <2>4, <2>5, <3>1, Names, NamesDiffer
        <4> QED BY <4>1
      <3> QED BY <1>6, <3>1 DEF Headed
    <2> HIDE DEF v, r
    <2>8. v[2] \subseteq {Listing[x] : x \in 1..(q - 1)}
      BY <2>2, <2>6
    <2>9. Proper(c, n, v, q)
      BY <2>2, <2>4, <2>6, <2>7, <2>8 DEF Proper
    <2>10. Stays(g, f, deeper[v])
      BY <2>2, <2>9 DEF Safe
    <2>11. Grows(g, f, deeper[v], {t})
      BY <2>2 DEF Sound
    <2>12. t \in deeper[v].black
      BY <2>10, <2>11 DEF Grows, Stays
    <2> QED BY <2>1, <2>10, <2>12 DEF r
  <1> QED BY <1>3, <1>5, <1>6

\* An edge keeps what its step has reached.
Passable(c, p, e) == Onward(c, p, e) /\ (p = 1 => Enters(e))

LEMMA EdgeSafe ==
    ASSUME NEW c, NEW g, NEW p, NEW n, NEW here, NEW deeper, AtPlace(c, g, p, n, here, deeper),
           NEW f \in Finds(g), ~f.open, p = 1 \/ "loop_head" \in here \cup f.black,
           NEW e, Passable(c, p, e)
    PROVE  Stays(g, f, EdgeSeen(g, f, e, here, deeper))
  <1> DEFINE r == TargetSeen(g, f, e, e.goto, here, deeper)
             q == TargetSeen(g, r, e, e.exhausted, here, deeper)
  <1>0. IdsOf(g) = {Listing[j] : j \in Places(c)} /\ Places(c) \subseteq 1..11
    BY DerivedFacts DEF IdsFrom, Places, AtPlace
  <1>1. Leads(c, p, e.budget, e.goto) /\ (Leads(c, p, e.budget, e.exhausted) \/ e.exhausted = "none")
    BY DEF Onward, Passable
  <1>2. \A t : t \in SpecialTarget \/ t = "none" => t \notin IdsOf(g)
    BY <1>0, NamesDiffer DEF NoId
  <1>3. Headed(g, p, here, f, e.goto)
    BY <1>2 DEF Headed, Passable, Enters
  <1>4. Arrives(g, f, r, here, e.goto)
    BY <1>1, <1>3, TargetSafe
  <1> HIDE DEF r
  <1>5. r \in Finds(g) /\ ~r.open /\ f.black \subseteq r.black
        /\ (e.goto = "loop_head" => "loop_head" \in here \cup r.black)
    BY <1>4 DEF Arrives, Stays
  <1>6. Headed(g, p, here, r, e.exhausted)
    BY <1>2, <1>5 DEF Headed, Passable, Enters
  <1>7. Arrives(g, r, q, here, e.exhausted)
    BY <1>1, <1>5, <1>6, TargetSafe
  <1> HIDE DEF q
  <1>8. Stays(g, f, q)
    BY <1>5, <1>7 DEF Arrives, Stays
  <1> QED BY <1>8 DEF EdgeSeen, q, r

\* All edges of a step, and a visit of it.
LEMMA AlongSafe ==
    ASSUME NEW c, NEW g, NEW p, NEW n, NEW here, NEW deeper, AtPlace(c, g, p, n, here, deeper),
           NEW f \in Finds(g), ~f.open, p = 1 \/ "loop_head" \in here \cup f.black
    PROVE  Stays(g, f, Along(g, StepOf(g, Listing[p]), here, deeper)[7][f])
  <1> DEFINE step == StepOf(g, Listing[p])
             along == Along(g, step, here, deeper)
             Fit(x) == x \in Finds(g) /\ ~x.open /\ (p = 1 \/ "loop_head" \in here \cup x.black)
             S == {k \in 0..7 : \A x : Fit(x) => Stays(g, x, along[k][x])}
  <1>0. Derived(c, g) /\ p \in Places(c) /\ here \in SUBSET IdsOf(g) /\ Sound(g, deeper)
    BY DEF AtPlace
  <1>1. ByEdges(g, step, here, deeper, along)
    BY <1>0, AlongIs
  <1>2. \A k \in 1..7 : Passable(c, p, EdgeAt(step, k))
    BY <1>0, EdgeAtIs, StepEdges, PlanEnters DEF Passable
  <1> HIDE DEF along, step
  <1>3. along[0] = [x \in Finds(g) |-> x]
    BY <1>1, Zenon DEF ByEdges
  <1>4. \A k \in 1..7 : along[k] = [x \in Finds(g) |->
            along[k - 1][EdgeSeen(g, x, EdgeAt(step, 8 - k), here, deeper)]]
    BY <1>1, Zenon DEF ByEdges
  <1>5. 0 \in S
    BY <1>3 DEF Stays
  <1>6. ASSUME NEW k \in 0..7, k < 7, k \in S
        PROVE  k + 1 \in S
    <2>1. k + 1 \in 1..7 /\ k + 1 \in 0..7 /\ (k + 1) - 1 = k /\ 8 - (k + 1) \in 1..7
      BY <1>6
    <2>2. ASSUME NEW x, Fit(x)
          PROVE  Stays(g, x, along[k + 1][x])
      <3> DEFINE y == EdgeSeen(g, x, EdgeAt(step, 8 - (k + 1)), here, deeper)
      <3>1. Passable(c, p, EdgeAt(step, 8 - (k + 1)))
        BY <1>2, <2>1
      <3>2. x \in Finds(g) /\ ~x.open /\ (p = 1 \/ "loop_head" \in here \cup x.black)
        BY <2>2
      <3>3. Stays(g, x, y)
        BY <3>1, <3>2, EdgeSafe
      <3>4. along[k + 1][x] = along[k][y]
        BY <1>4, <2>1, <3>2
      <3> HIDE DEF y
      <3>5. Fit(y)
        BY <3>2, <3>3 DEF Stays
      <3> HIDE DEF Fit
      <3>6. Stays(g, y, along[k][y])
        BY <1>6, <3>5
      <3> QED BY <3>3, <3>4, <3>6 DEF Stays
    <2> QED BY <2>1, <2>2
  <1>7. 7 \in S
    <2> HIDE DEF S
    <2>1. \A k \in 0..7 : k \in S
      BY <1>5, <1>6, Upwards
    <2> QED BY <2>1
  <1> QED BY <1>7 DEF along, step

LEMMA VisitSafe ==
    ASSUME NEW c, NEW g, Derived(c, g), NEW n \in Nat, NEW deeper, Sound(g, deeper),
           Safe(c, g, n, deeper), NEW v \in Visits(g), NEW p \in Places(c), Proper(c, n + 1, v, p)
    PROVE  Stays(g, v[3], Visited(g, v, deeper))
  <1> DEFINE here == v[2] \cup {v[1]}
             f == v[3]
             a == Along(g, StepOf(g, v[1]), here, deeper)[7][f]
  <1>0. /\ v[1] = Listing[p] /\ 12 <= n + 1 + p /\ v[2] \subseteq {Listing[q] : q \in 1..(p - 1)}
        /\ p > 2 => "loop_head" \in v[2] \cup f.black
        /\ ~f.open
    BY DEF Proper
  <1>1. v[1] \in IdsOf(g) /\ v[2] \subseteq IdsOf(g) /\ f \in Finds(g)
    BY DEF Visits
  <1>2. p \in 1..11
    BY DEF Places
  <1>3. here \subseteq {Listing[q] : q \in 1..p} /\ here \subseteq IdsOf(g)
    <2>1. 1..(p - 1) \subseteq 1..p /\ p \in 1..p
      BY <1>2
    <2> QED BY <1>0, <1>1, <2>1
  <1>4. p = 1 \/ "loop_head" \in here \cup f.black
    <2>1. CASE p = 2
      BY <1>0, <2>1, Names
    <2>2. CASE p > 2
      BY <1>0, <2>2
    <2> QED BY <1>2, <2>1, <2>2
  <1>5. Visited(g, v, deeper) = [a EXCEPT !.black = a.black \cup {v[1]}]
    BY SevenEdges DEF Visited
  <1> HIDE DEF here, f
  <1>6. AtPlace(c, g, p, n, here, deeper)
    BY <1>0, <1>3 DEF AtPlace
  <1>7. Stays(g, f, a)
    BY <1>0, <1>1, <1>4, <1>6, AlongSafe
  <1> HIDE DEF a
  <1>8. a = [black |-> a.black, open |-> a.open] /\ a.black \in SUBSET IdsOf(g) /\ a.open \in BOOLEAN
        /\ ~a.open /\ f.black \subseteq a.black
    BY <1>7 DEF Stays, Finds
  <1>9. Visited(g, v, deeper) = [black |-> a.black \cup {v[1]}, open |-> a.open]
    BY <1>5, <1>8
  <1> DEFINE r == [black |-> a.black \cup {v[1]}, open |-> a.open]
  <1>10. r.black = a.black \cup {v[1]} /\ r.open = a.open /\ r \in Finds(g)
    BY <1>1, <1>8 DEF Finds
  <1> HIDE DEF r
  <1>11. ~r.open
    BY <1>8, <1>10, Zenon
  <1>12. Stays(g, f, r)
    BY <1>8, <1>10, <1>11 DEF Stays
  <1> QED BY <1>9, <1>12 DEF f, r

\* Visits at any level.
LEMMA LevelsSafe ==
    ASSUME NEW c, NEW g, Derived(c, g)
    PROVE  LastPlace(g) = 11 /\ Safe(c, g, 11, VisitsOf(g)[11])
  <1> DEFINE visit == VisitsOf(g)
             S == {n \in 0..11 : Safe(c, g, n, visit[n])}
  <1>0. IsGraph(g) /\ DOMAIN g.steps = Places(c) /\ c \in Confs
    BY DerivedFacts DEF Derived, DerivedFrom
  <1>1. LastPlace(g) = 11
    <2>1. /\ LastPlace(g) \in Places(c) /\ \A i \in Places(c) : i \in 1..LastPlace(g)
      BY <1>0, LastPlaceIs
    <2>2. 11 \in Places(c) /\ Places(c) \subseteq 1..11
      BY <1>0, SomePlaces DEF Places
    <2> QED BY <2>1, <2>2
  <1>2. ByLevels(g, visit) /\ \A n \in 0..LastPlace(g) : Sound(g, visit[n])
    BY <1>0, VisitsAre
  <1> HIDE DEF visit
  <1>3. \A n \in 1..11 : visit[n] = [v \in Visits(g) |-> Visited(g, v, visit[n - 1])]
    BY <1>1, <1>2 DEF ByLevels
  <1>4. 0 \in S
    <2>1. \A p \in Places(c) : ~ (12 <= 0 + p)
      BY DEF Places
    <2>2. Safe(c, g, 0, visit[0])
      BY <2>1 DEF Safe, Proper
    <2> QED BY <2>2
  <1>5. ASSUME NEW n \in 0..11, n < 11, n \in S
        PROVE  n + 1 \in S
    <2>1. n + 1 \in 1..11 /\ n + 1 \in 0..11 /\ (n + 1) - 1 = n /\ n \in Nat
      BY <1>5
    <2>2. Sound(g, visit[n]) /\ Safe(c, g, n, visit[n])
      BY <1>1, <1>2, <1>5
    <2>3. ASSUME NEW v \in Visits(g), NEW p \in Places(c), Proper(c, n + 1, v, p)
          PROVE  Stays(g, v[3], visit[n + 1][v])
      <3>1. visit[n + 1][v] = Visited(g, v, visit[n])
        BY <1>3, <2>1
      <3> QED BY <2>1, <2>2, <2>3, <3>1, VisitSafe
    <2>4. Safe(c, g, n + 1, visit[n + 1])
      BY <2>3 DEF Safe
    <2> QED BY <2>1, <2>4
  <1>6. 11 \in S
    <2> HIDE DEF S
    <2>1. 11 \in Nat
      OBVIOUS
    <2>2. \A n \in 0..11 : n \in S
      BY <1>4, <1>5, <2>1, Upwards
    <2> QED BY <2>2
  <1> QED BY <1>1, <1>6 DEF visit

\* The search finds nothing in such a graph.
LEMMA DerivedIsGuarded ==
    ASSUME NEW c, NEW g, Derived(c, g)
    PROVE  CyclesGuarded(g)
  <1> DEFINE from == FoundOf(g)
             Done(p) == {Listing[i] : i \in {j \in Places(c) : j <= p}}
             S == {p \in 0..11 : from[p] \in Finds(g) /\ ~from[p].open /\ Done(p) \subseteq from[p].black}
  <1>0. /\ IsGraph(g) /\ DOMAIN g.steps = Places(c) /\ c \in Confs
        /\ IdsOf(g) = {Listing[j] : j \in Places(c)} /\ Places(c) \subseteq 1..11
    BY DerivedFacts DEF Derived, DerivedFrom, IdsFrom, Places
  <1>i. \A p \in Places(c) : g.steps[p].id = Listing[p]
    BY DerivedIsGraph DEF Derived
  <1>1. LastPlace(g) = 11 /\ Safe(c, g, 11, VisitsOf(g)[11])
    BY LevelsSafe
  <1>2. ByPlaces(g, from)
    BY <1>0, FoundIs
  <1> HIDE DEF from
  <1>3. /\ from[0] = [black |-> {}, open |-> FALSE]
        /\ \A p \in 1..11 : from[p] = FoundAt(g, p, from[p - 1])
    BY <1>1, <1>2 DEF ByPlaces
  <1>4. 0 \in S
    <2>1. Done(0) = {}
      BY <1>0
    <2>2. from[0] \in Finds(g) /\ ~from[0].open
      BY <1>3 DEF Finds
    <2> HIDE DEF Done
    <2> QED BY <2>1, <2>2
  <1>5. ASSUME NEW p \in 0..11, p < 11, p \in S
        PROVE  p + 1 \in S
    <2> DEFINE f == from[p]
               k == p + 1
    <2>1. k \in 1..11 /\ k \in 0..11 /\ k - 1 = p
      BY <1>5
    <2>2. from[k] = FoundAt(g, k, f)
      BY <1>3, <2>1
    <2>3. f \in Finds(g) /\ ~f.open /\ Done(p) \subseteq f.black
      BY <1>5
    <2>4. Done(k) \subseteq Done(p) \cup (IF k \in Places(c) THEN {Listing[k]} ELSE {})
      <3>1. \A j \in Places(c) : j <= k => j <= p \/ j = k
        BY <1>0, <1>5
      <3> QED BY <3>1
    <2>5. Grows(g, f, FoundAt(g, k, f), IF k \in DOMAIN g.steps THEN {g.steps[k].id} ELSE {})
      BY <1>0, <2>3, FoundGrows
    <2>6. Stays(g, f, from[k])
      <3>1. CASE k \notin Places(c) \/ Listing[k] \in f.black
        <4>1. from[k] = f
          BY <1>0, <1>i, <2>2, <3>1 DEF FoundAt
        <4> QED BY <2>3, <4>1 DEF Stays
      <3>2. CASE k \in Places(c) /\ Listing[k] \notin f.black
        <4> DEFINE v == <<Listing[k], {}, f>>
        <4>1. from[k] = VisitsOf(g)[11][v]
          BY <1>0, <1>i, <1>1, <2>2, <3>2 DEF FoundAt
        <4>2. v \in Visits(g) /\ v[1] = Listing[k] /\ v[2] = {} /\ v[3] = f
          BY <1>0, <2>3, <3>2 DEF Visits
        <4>3. k > 2 => "loop_head" \in f.black
          <5>1. 2 \in Places(c) /\ Listing[2] = "loop_head"
            BY <1>0, SomePlaces, Names
          <5>2. k > 2 => 2 <= p
            BY <1>5
          <5> QED BY <2>3, <5>1, <5>2
        <4> HIDE DEF v, f
        <4>4. 12 <= 11 + k
          BY <2>1
        <4>5. Proper(c, 11, v, k)
          BY <2>3, <4>2, <4>3, <4>4 DEF Proper
        <4> QED BY <1>1, <3>2, <4>1, <4>2, <4>5 DEF Safe
      <3> QED BY <3>1, <3>2
    <2>7. Done(k) \subseteq from[k].black
      <3>1. (IF k \in Places(c) THEN {Listing[k]} ELSE {}) \subseteq from[k].black
        <4>1. CASE k \in Places(c)
          <5>1. {Listing[k]} \subseteq from[k].black
            BY <1>0, <1>i, <2>2, <2>5, <2>6, <4>1 DEF Grows, Stays
          <5> QED BY <4>1, <5>1
        <4> QED BY <4>1
      <3> HIDE DEF Done
      <3> QED BY <2>3, <2>4, <2>6, <3>1 DEF Stays
    <2> HIDE DEF Done
    <2> QED BY <2>1, <2>6, <2>7 DEF Stays
  <1>6. 11 \in S
    <2> HIDE DEF S
    <2>1. 11 \in Nat
      OBVIOUS
    <2>2. \A p \in 0..11 : p \in S
      BY <1>4, <1>5, <2>1, Upwards
    <2> QED BY <2>2
  <1> QED BY <1>1, <1>6 DEF CyclesGuarded, from, LastPlace

\* The graph that the editor shows for some stages, any of them, is accepted when it
\* is saved (default_graph, validate_graph).
THEOREM DerivedIsAccepted ==
    ASSUME NEW c, NEW g, Derived(c, g)
    PROVE  Accepted(g)
  <1>0. /\ DOMAIN g.steps = Places(c) /\ c \in Confs
        /\ IdsOf(g) = {Listing[j] : j \in Places(c)} /\ Places(c) \subseteq 1..11
    BY DerivedFacts DEF Derived, DerivedFrom, IdsFrom, Places
  <1>1. ASSUME NEW p \in Places(c)
        PROVE  /\ \A edge \in EdgesOf(g.steps[p]) : Onward(c, p, edge)
               /\ MustHandle(g.steps[p].role) \subseteq DOMAIN g.steps[p].on
               /\ g.steps[p].role = RoleOfId(Listing[p])
    <2>1. g.steps[p] = DerivedStep(c, Listing[p]) /\ StepOf(g, Listing[p]) = g.steps[p]
      BY DerivedFacts DEF StepFrom
    <2>2. \A edge \in EdgesOf(StepOf(g, Listing[p])) : Onward(c, p, edge)
      BY StepEdges
    <2> DEFINE s == g.steps[p]
    <2>3. s = DerivedStep(c, Listing[p])
      BY <2>1
    <2> HIDE DEF s
    <2>4. StepLeads(c, p, s)
      BY <1>0, <2>3, DerivedStepIs
    <2>5. s.role = RoleOfId(Listing[p]) /\ MustHandle(s.role) \subseteq DOMAIN s.on
      BY <2>4 DEF StepLeads
    <2> QED BY <2>1, <2>2, <2>5 DEF s
  <1>2. ASSUME NEW p \in Places(c), NEW edge \in EdgesOf(g.steps[p])
        PROVE  /\ TargetsOf(edge) \subseteq IdsOf(g) \cup SpecialTarget
               /\ edge.budget # "none" => edge.budget \in {"rewrite", "attempt"} /\ edge.exhausted # "none"
    <2>1. Onward(c, p, edge)
      BY <1>1
    <2>2. "loop_head" \in IdsOf(g)
      BY <1>0, SomePlaces, Names
    <2>3. \A t : Later(c, p, t) => t \in IdsOf(g)
      BY <1>0 DEF Later, Places
    <2>4. \A t : Leads(c, p, edge.budget, t) => t \in IdsOf(g) \cup SpecialTarget
      BY <2>2, <2>3 DEF Leads
    <2>5. TargetsOf(edge) \subseteq IdsOf(g) \cup SpecialTarget
      BY <2>1, <2>4 DEF Onward, TargetsOf
    <2> QED BY <2>1, <2>5, OnwardTells DEF Onward
  <1>3. RequiredRoles \subseteq {g.steps[i].role : i \in DOMAIN g.steps}
    <2>1. {3, 9, 10, 11} \subseteq Places(c)
      BY <1>0, SomePlaces
    <2>2. /\ RoleOfId(Listing[3]) = "draft" /\ RoleOfId(Listing[9]) = "final"
          /\ RoleOfId(Listing[10]) = "publish" /\ RoleOfId(Listing[11]) = "postprocess"
      BY Names DEF RoleOfId
    <2> QED BY <1>0, <1>1, <2>1, <2>2 DEF RequiredRoles
  <1>4. CyclesGuarded(g)
    BY DerivedIsGuarded
  <1> QED BY <1>0, <1>1, <1>2, <1>3, <1>4 DEF Accepted

----------------------------------------------------------------------------
(***************************************************************************)
(* The workflow's row.  A graph of the user's own that a row holds was     *)
(* accepted, so that whatever a chapter runs orders its loops; and what    *)
(* the editor shows is parsed as it is, so that it is accepted again.      *)
(***************************************************************************)
Fine(g) == IsGraph(g) /\ Clean(g) /\ Accepted(g)

RowInv(r) ==
    /\ r = [nodes |-> r.nodes, stages |-> r.stages, precheck |-> r.precheck,
            polish |-> r.polish, loop |-> r.loop, graph |-> r.graph]
    /\ ParsedGraph(r.graph) # NoGraph => Fine(ParsedGraph(r.graph))

\* No graph is parsed where none is.
LEMMA NothingParsed == ParsedGraph(NoGraph) = NoGraph
  <1>1. DOMAIN NoGraph.steps = {}
    BY DEF NoGraph
  <1>2. Kept(NoGraph) = {}
    BY <1>1 DEF Kept
  <1> QED BY <1>2, ParsedIs

\* What is shown and what is run is a graph that is accepted.
LEMMA GraphForIsFine ==
    ASSUME NEW r, RowInv(r), NEW stages
    PROVE  Fine(GraphFor(r, stages))
  <1>1. CASE ParsedGraph(r.graph) # NoGraph
    BY <1>1 DEF GraphFor, RowInv
  <1>2. CASE ParsedGraph(r.graph) = NoGraph
    <2>1. GraphFor(r, stages) = DerivedGraph(stages)
      BY <1>2 DEF GraphFor
    <2>2. Derived(ConfOf(stages), DerivedGraph(stages))
      BY DerivedGraphIs
    <2>3. Fine(DerivedGraph(stages))
      BY <2>2, DerivedFacts, DerivedIsAccepted DEF Fine
    <2> QED BY <2>1, <2>3
  <1> QED BY <1>1, <1>2

\* A row, at the start and after a save.
LEMMA RowStarts ==
    ASSUME NEW r \in Rows
    PROVE  RowInv(r)
  <1>1. r = [nodes |-> r.nodes, stages |-> r.stages, precheck |-> r.precheck,
             polish |-> r.polish, loop |-> r.loop, graph |-> NoGraph]
    BY GraphRulesAssumption DEF NoGraph
  <1> DEFINE none == NoGraph
  <1>2. ParsedGraph(none) = none
    BY NothingParsed
  <1> HIDE DEF none
  <1>3. r = [nodes |-> r.nodes, stages |-> r.stages, precheck |-> r.precheck,
             polish |-> r.polish, loop |-> r.loop, graph |-> none]
    BY <1>1 DEF none
  <1>4. r.graph = none
    BY <1>3
  <1>5. ParsedGraph(r.graph) = NoGraph
    BY <1>2, <1>4 DEF none
  <1> QED BY <1>3, <1>4, <1>5 DEF RowInv

\* A graph a request sends: one that was drawn, or the one that was shown.
LEMMA SaveGraphKeepsRow ==
    ASSUME RowInv(flowRow), NEW raw \in Drawings \cup {GraphShown(flowRow)}, SaveGraph(raw)
    PROVE  RowInv(flowRow') /\ (raw = GraphShown(flowRow) => Accepted(ParsedGraph(raw)))
  <1> DEFINE g == ParsedGraph(raw)
  <1>1. Fine(GraphShown(flowRow))
    BY GraphForIsFine DEF GraphShown
  <1>2. raw = GraphShown(flowRow) => g = raw /\ Fine(g)
    BY <1>1, ParsedAgain DEF Fine
  <1>3. g # NoGraph => IsGraph(g) /\ Clean(g)
    BY <1>2, ParsedIsGraph, GraphRulesAssumption DEF Fine
  <1>4. flowRow' = IF g # NoGraph /\ Accepted(g) THEN [flowRow EXCEPT !.graph = raw] ELSE flowRow
    BY DEF SaveGraph
  <1>5. ASSUME g # NoGraph, Accepted(g)
        PROVE  RowInv(flowRow')
    <2> DEFINE new == flowRow'
    <2>1. new = [flowRow EXCEPT !.graph = raw]
      BY <1>4, <1>5
    <2>2. flowRow = [nodes |-> flowRow.nodes, stages |-> flowRow.stages, precheck |-> flowRow.precheck,
                     polish |-> flowRow.polish, loop |-> flowRow.loop, graph |-> flowRow.graph]
      BY Zenon DEF RowInv
    <2> HIDE DEF new
    <2>3. new = [nodes |-> flowRow.nodes, stages |-> flowRow.stages, precheck |-> flowRow.precheck,
                 polish |-> flowRow.polish, loop |-> flowRow.loop, graph |-> raw]
      BY <2>1, <2>2
    <2>4. new.graph = raw /\ new = [nodes |-> new.nodes, stages |-> new.stages, precheck |-> new.precheck,
                 polish |-> new.polish, loop |-> new.loop, graph |-> new.graph]
      BY <2>3
    <2>5. Fine(ParsedGraph(new.graph))
      BY <1>3, <1>5, <2>4 DEF Fine
    <2>6. RowInv(new)
      BY <2>4, <2>5 DEF RowInv
    <2> QED BY <2>6 DEF new
  <1>6. RowInv(flowRow')
    <2>1. CASE g # NoGraph /\ Accepted(g)
      BY <1>5, <2>1
    <2>2. CASE ~(g # NoGraph /\ Accepted(g))
      <3>1. flowRow' = flowRow
        BY <1>4, <2>2, Zenon
      <3> QED BY <3>1
    <2> QED BY <2>1, <2>2
  <1> QED BY <1>2, <1>6 DEF Fine

LEMMA SaveStagesKeepsRow ==
    ASSUME RowInv(flowRow), NEW raw, SaveStages(raw)
    PROVE  RowInv(flowRow')
  <1> DEFINE new == flowRow'
             stages == NormalizedStages(ParsedStages(raw))
  <1>1. new = [flowRow EXCEPT !.stages = stages]
    BY DEF SaveStages
  <1>2. flowRow = [nodes |-> flowRow.nodes, stages |-> flowRow.stages, precheck |-> flowRow.precheck,
                   polish |-> flowRow.polish, loop |-> flowRow.loop, graph |-> flowRow.graph]
    BY Zenon DEF RowInv
  <1> HIDE DEF new, stages
  <1>3. new = [nodes |-> flowRow.nodes, stages |-> stages, precheck |-> flowRow.precheck,
               polish |-> flowRow.polish, loop |-> flowRow.loop, graph |-> flowRow.graph]
    BY <1>1, <1>2
  <1>4. new.graph = flowRow.graph /\ new = [nodes |-> new.nodes, stages |-> new.stages,
               precheck |-> new.precheck, polish |-> new.polish, loop |-> new.loop, graph |-> new.graph]
    BY <1>3
  <1>5. RowInv(new)
    BY <1>4 DEF RowInv
  <1> QED BY <1>5 DEF new

----------------------------------------------------------------------------
(***************************************************************************)
(* The walk.  Since the last edge with a budget it only went down in an    *)
(* order the graph has.                                                    *)
(***************************************************************************)
Descends(g, at, since) ==
    /\ at \in IdsOf(g) \cup SpecialTarget \cup {"@refused"} /\ since \subseteq IdsOf(g)
    /\ \E rank \in [IdsOf(g) -> Nat], bound \in Nat :
          /\ Ranked(g, IdsOf(g), rank, bound)
          /\ at \in IdsOf(g) => \A s \in since : rank[at] < rank[s]

\* The ids of a graph are no targets, and name its steps.
LEMMA NamesOfSteps ==
    ASSUME NEW g, IsGraph(g)
    PROVE  /\ IdsOf(g) \cap NoId = {}
           /\ \A id \in IdsOf(g) : /\ StepOf(g, id).id = id /\ IsStep(StepOf(g, id))
                                  /\ \E i \in DOMAIN g.steps : StepOf(g, id) = g.steps[i]
  <1>0. \A i \in DOMAIN g.steps : IsStep(g.steps[i])
    BY DEF IsGraph, IsDrawing
  <1>1. \A i \in DOMAIN g.steps : g.steps[i].id \notin NoId
    BY <1>0 DEF IsStep
  <1>2. ASSUME NEW id \in IdsOf(g)
        PROVE  /\ StepOf(g, id).id = id /\ IsStep(StepOf(g, id))
               /\ \E i \in DOMAIN g.steps : StepOf(g, id) = g.steps[i]
    <2> DEFINE k == CHOOSE i \in DOMAIN g.steps : g.steps[i].id = id
    <2>1. \E i \in DOMAIN g.steps : g.steps[i].id = id
      BY DEF IdsOf
    <2>2. k \in DOMAIN g.steps /\ g.steps[k].id = id
      BY <2>1
    <2>3. StepOf(g, id) = g.steps[k]
      BY DEF StepOf
    <2> HIDE DEF k
    <2> QED BY <1>0, <2>2, <2>3
  <1>3. IdsOf(g) \cap NoId = {}
    BY <1>1 DEF IdsOf
  <1> QED BY <1>2, <1>3

\* A walk begins anywhere, with nothing behind it.
LEMMA Starts ==
    ASSUME NEW g, Fine(g), NEW at \in IdsOf(g) \cup SpecialTarget \cup {"@refused"}
    PROVE  Descends(g, at, {})
  <1>1. Ordered(g, IdsOf(g))
    BY GuardedIsOrdered DEF Fine, Accepted
  <1> QED BY <1>1 DEF Ordered, Descends

\* A verdict takes an edge the search has followed.
LEMMA VerdictIsSeen ==
    ASSUME NEW s, IsStep(s), NEW v \in Verdict
    PROVE  /\ \E k \in 1..7 : EdgeFor(s, v) = EdgeAt(s, k)
           /\ EdgeFor(s, v) \in EdgesOf(s)
  <1>1. PICK k \in 1..6 : s.order[k] = v
    BY DEF IsStep
  <1>2. k + 1 \in 1..7 /\ k + 1 # 1 /\ (k + 1) - 1 = k
    OBVIOUS
  <1>3. EdgeAt(s, k + 1) = EdgeFor(s, v)
    BY <1>1, <1>2 DEF EdgeAt
  <1>4. EdgeFor(s, v) \in EdgesOf(s)
    BY DEF EdgeFor, EdgesOf
  <1> QED BY <1>2, <1>3, <1>4

\* An edge that was accepted leads to a step or out.
LEMMA EdgesAccepted ==
    ASSUME NEW g, Fine(g), NEW at \in IdsOf(g), NEW e \in EdgesOf(StepOf(g, at)),
           NEW to \in {e.goto, e.exhausted}
    PROVE  to \in IdsOf(g) \cup SpecialTarget \cup {"none"}
  <1>1. PICK i \in DOMAIN g.steps : StepOf(g, at) = g.steps[i]
    BY NamesOfSteps DEF Fine
  <1>2. TargetsOf(e) \subseteq IdsOf(g) \cup SpecialTarget
    BY <1>1 DEF Fine, Accepted
  <1> QED BY <1>2 DEF TargetsOf

Arrived(to) == IF to = "none" THEN "@done" ELSE to

\* A step goes down, or starts afresh over an edge with a budget.
LEMMA StepDescends ==
    ASSUME NEW g, Fine(g), NEW at \in IdsOf(g), NEW since, Descends(g, at, since),
           NEW v \in Verdict, NEW e, e = EdgeFor(StepOf(g, at), v), NEW to \in {e.goto, e.exhausted}
    PROVE  Descends(g, Arrived(to), IF e.budget = "none" THEN since \cup {at} ELSE {})
  <1>1. e \in EdgesOf(StepOf(g, at)) /\ \E k \in 1..7 : e = EdgeAt(StepOf(g, at), k)
    <2>1. IsStep(StepOf(g, at))
      BY NamesOfSteps DEF Fine
    <2> QED BY <2>1, VerdictIsSeen
  <1>2. to \in IdsOf(g) \cup SpecialTarget \cup {"none"} /\ "@done" \in SpecialTarget
    BY <1>1, EdgesAccepted DEF SpecialTarget
  <1>3. Arrived(to) \in IdsOf(g) \cup SpecialTarget \cup {"@refused"}
    BY <1>2 DEF Arrived
  <1>4. "none" \notin IdsOf(g) /\ "@done" \notin IdsOf(g)
    BY NamesOfSteps DEF Fine, NoId, SpecialTarget
  <1>5. CASE e.budget # "none"
    BY <1>3, <1>5, Starts
  <1>6. CASE e.budget = "none"
    <2>1. PICK rank \in [IdsOf(g) -> Nat], bound \in Nat :
             /\ Ranked(g, IdsOf(g), rank, bound) /\ \A s \in since : rank[at] < rank[s]
      BY DEF Descends
    <2>2. Arrived(to) \in IdsOf(g) => Arrived(to) = to /\ to \in FreeFrom(g, at)
      BY <1>1, <1>4, <1>6 DEF Arrived, FreeFrom, FreeOf, Free
    <2>3. Arrived(to) \in IdsOf(g) => rank[Arrived(to)] < rank[at]
      BY <2>1, <2>2 DEF Ranked
    <2>4. since \cup {at} \subseteq IdsOf(g)
      BY DEF Descends
    <2>5. Arrived(to) \in IdsOf(g) => \A s \in since \cup {at} : rank[Arrived(to)] < rank[s]
      <3> SUFFICES ASSUME Arrived(to) \in IdsOf(g), NEW s \in since \cup {at}
                   PROVE  rank[Arrived(to)] < rank[s]
        OBVIOUS
      <3> DEFINE a == rank[Arrived(to)]
                 b == rank[at]
                 d == rank[s]
      <3>1. a \in Nat /\ b \in Nat /\ d \in Nat
        BY <2>4
      <3>2. a < b /\ (b < d \/ b = d)
        BY <2>1, <2>3
      <3> HIDE DEF a, b, d
      <3>3. a < d
        BY <3>1, <3>2
      <3> QED BY <3>3 DEF a, d
    <2> QED BY <1>3, <1>6, <2>1, <2>4, <2>5 DEF Descends
  <1> QED BY <1>5, <1>6

WalkForm(w) == w = [at |-> w.at, since |-> w.since, start |-> w.start, pstep |-> w.pstep,
                    rewrites |-> w.rewrites, attempt |-> w.attempt]

\* Adapters answer with verdicts.
LEMMA AnswersAre ==
    ASSUME NEW role, NEW answer \in StepAnswers(role)
    PROVE  answer[1] \in Verdict
  <1>1. ASSUME NEW n, NEW vs, vs \subseteq Verdict, NEW a \in Leaving(n, vs)
        PROVE  a[1] \in Verdict
    BY <1>1 DEF Leaving
  <1>2. {"ok", "empty"} \subseteq Verdict /\ {"ok", "skipped"} \subseteq Verdict /\ {"ok"} \subseteq Verdict
        /\ {"ok", IF walk.attempt >= 3 THEN "blocked" ELSE "fail"} \subseteq Verdict
        /\ {"ok", "blocked"} \subseteq Verdict /\ {"rewrite"} \subseteq Verdict
        /\ {IF walk.rewrites + 1 >= RewriteLimit THEN "blocked" ELSE "rewrite"} \subseteq Verdict
    BY DEF Verdict
  <1>3. \E n : \E vs \in SUBSET Verdict : answer \in Leaving(n, vs)
    <2>1. CASE answer \in OutlineAnswers
      BY <1>2, <2>1 DEF OutlineAnswers
    <2>2. CASE answer \in SkippableAnswers
      BY <1>2, <2>2 DEF SkippableAnswers
    <2>3. CASE answer \in ReviewAnswers
      BY <1>2, <2>3 DEF ReviewAnswers
    <2>4. CASE answer \in PostEditAnswers
      BY <1>2, <2>4 DEF PostEditAnswers
    <2>5. CASE answer \in FinalAnswers
      BY <1>2, <2>5 DEF FinalAnswers
    <2>6. CASE answer \in PublishAnswers
      BY <1>2, <2>6 DEF PublishAnswers
    <2>7. CASE answer \in Leaving(walk.rewrites, {"ok"})
      BY <1>2, <2>7
    <2> QED BY <2>1, <2>2, <2>3, <2>4, <2>5, <2>6, <2>7 DEF StepAnswers
  <1> QED BY <1>1, <1>3

LEMMA NoWalkIs == NoWalk.at = "idle" /\ WalkForm(NoWalk)
  BY DEF NoWalk, WalkForm

\* What a step that is not refused leaves.
StepLeaves(step, answer, w) ==
    LET edge  == EdgeFor(step, answer[1])
        state == [rewriteCount |-> answer[2], maxRewrites |-> RewriteLimit,
                  attempt |-> walk.attempt, loopEnabled |-> flowRow.loop \/ flowRow.polish]
    IN  /\ WalkForm(w) /\ w.start = walk.start /\ w.attempt = walk.attempt
        /\ \E to \in Destinations(edge, GraphRun(flowRow).budgets, state) : w.at = Arrived(to)
        /\ w.rewrites = answer[2]
        /\ w.pstep \in MovedTo(step.role, answer[1])
        /\ w.since = IF edge.budget = "none" THEN walk.since \cup {step.id} ELSE {}

StepRefused(step, answer, w) ==
    /\ MoveRefused(step.role, answer[1])
    /\ WalkForm(w) /\ w.at = "@refused" /\ w.since = walk.since /\ w.start = walk.start

\* The two ways a step ends.
LEMMA RunStepIs ==
    ASSUME RunStep, WalkForm(walk)
    PROVE  /\ walk.at \notin {"idle", "@refused"} \cup SpecialTarget /\ flowRow' = flowRow
           /\ refusedOwn' = refusedOwn
           /\ \E answer \in StepAnswers(StepOf(GraphRun(flowRow), walk.at).role) :
                 \/ StepRefused(StepOf(GraphRun(flowRow), walk.at), answer, walk')
                 \/ StepLeaves(StepOf(GraphRun(flowRow), walk.at), answer, walk')
  <1> DEFINE step == StepOf(GraphRun(flowRow), walk.at)
             loops == flowRow.loop \/ flowRow.polish
             edge(a) == EdgeFor(step, a[1])
             state(a) == [rewriteCount |-> a[2], maxRewrites |-> RewriteLimit,
                          attempt |-> walk.attempt, loopEnabled |-> loops]
             own == GraphRun(flowRow).budgets
             since(a) == IF edge(a).budget = "none" THEN walk.since \cup {step.id} ELSE {}
  <1>1. PICK answer \in StepAnswers(step.role) :
           IF MoveRefused(step.role, answer[1])
           THEN walk' = [walk EXCEPT !.at = "@refused"]
           ELSE \E p \in MovedTo(step.role, answer[1]), to \in Destinations(edge(answer), own, state(answer)) :
                  walk' = [walk EXCEPT !.at = IF to = "none" THEN "@done" ELSE to,
                                       !.pstep = p, !.rewrites = answer[2],
                                       !.since = since(answer)]
    BY Zenon DEF RunStep
  <1>2. CASE MoveRefused(step.role, answer[1])
    <2> DEFINE new == walk'
    <2>1. new = [walk EXCEPT !.at = "@refused"]
      BY <1>1, <1>2
    <2> HIDE DEF new
    <2>2. WalkForm(new) /\ new.at = "@refused" /\ new.since = walk.since /\ new.start = walk.start
      BY <2>1 DEF WalkForm
    <2>3. StepRefused(step, answer, new)
      BY <1>2, <2>2 DEF StepRefused
    <2> QED BY <2>3 DEF new, RunStep
  <1>3. CASE ~MoveRefused(step.role, answer[1])
    <2> DEFINE new == walk'
               past == since(answer)
    <2>0. PICK p \in MovedTo(step.role, answer[1]), to \in Destinations(edge(answer), own, state(answer)) :
             new = [walk EXCEPT !.at = IF to = "none" THEN "@done" ELSE to,
                                !.pstep = p, !.rewrites = answer[2], !.since = past]
      BY <1>1, <1>3, Zenon
    <2> DEFINE there == Arrived(to)
    <2>1. new = [walk EXCEPT !.at = there, !.pstep = p, !.rewrites = answer[2], !.since = past]
      BY <2>0 DEF Arrived
    <2> HIDE DEF new, there, past
    <2>2. WalkForm(new) /\ new.at = there /\ new.since = past /\ new.pstep = p
          /\ new.rewrites = answer[2] /\ new.start = walk.start /\ new.attempt = walk.attempt
      BY <2>1 DEF WalkForm
    <2>3. \E t \in Destinations(edge(answer), own, state(answer)) : there = Arrived(t)
      BY DEF there
    <2>4. \E t \in Destinations(edge(answer), own, state(answer)) : new.at = Arrived(t)
      BY <2>2, <2>3
    <2>5. StepLeaves(step, answer, new)
      BY <2>2, <2>4, Zenon DEF StepLeaves, past
    <2> QED BY <2>5 DEF new, RunStep
  <1> QED BY <1>2, <1>3

----------------------------------------------------------------------------
(***************************************************************************)
(* LoopsPassABudget.                                                       *)
(***************************************************************************)
WalkInv ==
    /\ WalkForm(walk)
    /\ walk = NoWalk \/ Descends(GraphRun(flowRow), walk.at, walk.since)

LoopsInv == RowInv(flowRow) /\ ~refusedOwn /\ WalkInv

LEMMA LoopsInvHolds == LoopsInv => LoopsPassABudget
  <1> SUFFICES ASSUME LoopsInv
               PROVE  walk.at \notin walk.since
    BY DEF LoopsInv, LoopsPassABudget
  <1> DEFINE g == GraphRun(flowRow)
  <1>1. CASE walk = NoWalk
    BY <1>1 DEF NoWalk
  <1>2. CASE Descends(g, walk.at, walk.since)
    <2>1. PICK rank \in [IdsOf(g) -> Nat] :
             /\ walk.since \subseteq IdsOf(g)
             /\ walk.at \in IdsOf(g) => \A s \in walk.since : rank[walk.at] < rank[s]
      BY <1>2 DEF Descends
    <2>2. walk.at \in IdsOf(g) => rank[walk.at] \in Nat
      OBVIOUS
    <2> QED BY <2>1, <2>2
  <1> QED BY <1>1, <1>2 DEF LoopsInv, WalkInv

LEMMA LoopsStart == RulesInit => LoopsInv
  BY RowStarts, NoWalkIs DEF RulesInit, LoopsInv, WalkInv

\* A chapter that is entered.
LEMMA EnteredIs ==
    ASSUME NEW start, NEW rewrites, NEW attempt, EnterWalk(start, rewrites, attempt)
    PROVE  /\ WalkForm(walk') /\ walk'.at = GraphRun(flowRow).entry /\ walk'.since = {}
           /\ walk'.start = start /\ walk'.pstep = StepOfAgent[start]
           /\ walk'.rewrites = IF start = "validator" THEN RewriteLimit ELSE rewrites
  <1> DEFINE new == walk'
             at == GraphRun(flowRow).entry
             pstep == StepOfAgent[start]
             count == IF start = "validator" THEN RewriteLimit ELSE rewrites
  <1>1. new = [at |-> at, since |-> {}, start |-> start, pstep |-> pstep, attempt |-> attempt,
               rewrites |-> count]
    BY DEF EnterWalk
  <1> HIDE DEF new, at, pstep, count
  <1>2. WalkForm(new) /\ new.at = at /\ new.since = {} /\ new.start = start /\ new.pstep = pstep
        /\ new.rewrites = count
    BY <1>1 DEF WalkForm
  <1> QED BY <1>2 DEF new, at, pstep, count

LEMMA EntersOrdered ==
    ASSUME RowInv(flowRow), flowRow' = flowRow, NEW start, NEW rewrites, NEW attempt,
           EnterWalk(start, rewrites, attempt)
    PROVE  WalkInv'
  <1> DEFINE g == GraphRun(flowRow)
  <1>1. Fine(g)
    BY GraphForIsFine DEF GraphRun
  <1>2. g.entry \in IdsOf(g)
    BY <1>1 DEF Fine, IsGraph
  <1>3. WalkForm(walk') /\ walk'.at = g.entry /\ walk'.since = {}
    BY EnteredIs
  <1>4. Descends(g, walk'.at, walk'.since)
    BY <1>1, <1>2, <1>3, Starts
  <1>5. GraphRun(flowRow') = g
    OBVIOUS
  <1> QED BY <1>3, <1>4, <1>5 DEF WalkInv

\* A walk is only waiting or on its way.
LEMMA OnTheWay ==
    ASSUME LoopsInv, walk.at \notin {"idle", "@refused"} \cup SpecialTarget
    PROVE  /\ Fine(GraphRun(flowRow)) /\ walk.at \in IdsOf(GraphRun(flowRow))
           /\ Descends(GraphRun(flowRow), walk.at, walk.since) /\ WalkForm(walk)
  <1>1. Fine(GraphRun(flowRow))
    BY GraphForIsFine DEF GraphRun, LoopsInv
  <1>2. walk # NoWalk
    BY NoWalkIs
  <1> QED BY <1>1, <1>2 DEF LoopsInv, WalkInv, Descends

LEMMA ResolvedIs ==
    ASSUME NEW edge, NEW own, NEW state, NEW to \in Destinations(edge, own, state)
    PROVE  to \in {edge.goto, edge.exhausted}
  BY DEF Destinations, ResolveEdge

\* A step keeps to the order of the graph.
LEMMA RunStepOrdered ==
    ASSUME LoopsInv, RunStep
    PROVE  WalkInv'
  <1> DEFINE g == GraphRun(flowRow)
             step == StepOf(g, walk.at)
  <1>1. /\ walk.at \notin {"idle", "@refused"} \cup SpecialTarget /\ flowRow' = flowRow
        /\ \E answer \in StepAnswers(step.role) :
              StepRefused(step, answer, walk') \/ StepLeaves(step, answer, walk')
    BY RunStepIs DEF LoopsInv, WalkInv
  <1>2. Fine(g) /\ walk.at \in IdsOf(g) /\ Descends(g, walk.at, walk.since)
    BY <1>1, OnTheWay
  <1>3. step.id = walk.at
    BY <1>2, NamesOfSteps DEF Fine
  <1>4. PICK answer \in StepAnswers(step.role) :
           StepRefused(step, answer, walk') \/ StepLeaves(step, answer, walk')
    BY <1>1
  <1>5. CASE StepRefused(step, answer, walk')
    <2>1. WalkForm(walk') /\ walk'.at = "@refused" /\ walk'.since = walk.since
      BY <1>5 DEF StepRefused
    <2>2. "@refused" \notin IdsOf(g)
      BY <1>2, NamesOfSteps DEF Fine, NoId
    <2>3. Descends(g, walk'.at, walk'.since)
      BY <1>2, <2>1, <2>2 DEF Descends
    <2> QED BY <1>1, <2>1, <2>3 DEF WalkInv
  <1>6. CASE StepLeaves(step, answer, walk')
    <2> DEFINE edge == EdgeFor(step, answer[1])
               state == [rewriteCount |-> answer[2], maxRewrites |-> RewriteLimit,
                         attempt |-> walk.attempt, loopEnabled |-> flowRow.loop \/ flowRow.polish]
               past == IF edge.budget = "none" THEN walk.since \cup {walk.at} ELSE {}
    <2>0. PICK to \in Destinations(edge, g.budgets, state) : walk'.at = Arrived(to)
      BY <1>6 DEF StepLeaves
    <2>1. WalkForm(walk') /\ walk'.at = Arrived(to) /\ walk'.since = past
      BY <1>3, <1>6, <2>0 DEF StepLeaves
    <2>2. answer[1] \in Verdict
      BY AnswersAre
    <2>3. to \in {edge.goto, edge.exhausted}
      BY ResolvedIs
    <2>4. edge = EdgeFor(StepOf(g, walk.at), answer[1])
      OBVIOUS
    <2> HIDE DEF edge, g
    <2>5. Descends(g, Arrived(to), past)
      BY <1>2, <2>2, <2>3, <2>4, StepDescends
    <2>6. Descends(g, walk'.at, walk'.since)
      BY <2>1, <2>5
    <2> QED BY <1>1, <2>1, <2>6 DEF WalkInv, g
  <1> QED BY <1>4, <1>5, <1>6

LEMMA LoopsKept == LoopsInv /\ [RulesNext]_ruleVars => LoopsInv'
  <1> SUFFICES ASSUME LoopsInv, [RulesNext]_ruleVars
               PROVE  LoopsInv'
    OBVIOUS
  <1>0. RowInv(flowRow) /\ ~refusedOwn /\ WalkInv
    BY DEF LoopsInv
  <1>1. ASSUME walk = NoWalk, NEW raw \in Drawings \cup {GraphShown(flowRow)}, SaveGraph(raw)
        PROVE  LoopsInv'
    <2>1. RowInv(flowRow') /\ (raw = GraphShown(flowRow) => Accepted(ParsedGraph(raw)))
      BY <1>0, <1>1, SaveGraphKeepsRow
    <2>2. walk' = walk
      BY <1>1 DEF SaveGraph
    <2>3. ~refusedOwn'
      BY <1>0, <1>1, <2>1, Zenon DEF SaveGraph
    <2>4. WalkInv'
      BY <1>0, <1>1, <2>2 DEF WalkInv
    <2> QED BY <2>1, <2>3, <2>4 DEF LoopsInv
  <1>2. ASSUME NEW raw, SaveStages(raw)
        PROVE  LoopsInv'
    <2>1. RowInv(flowRow')
      BY <1>0, <1>2, SaveStagesKeepsRow
    <2>2. walk = NoWalk /\ walk' = walk /\ refusedOwn' = refusedOwn
      BY <1>2 DEF SaveStages
    <2>3. WalkInv'
      BY <1>0, <2>2 DEF WalkInv
    <2> QED BY <1>0, <2>1, <2>2, <2>3 DEF LoopsInv
  <1>3. ASSUME NEW start, NEW n, StartChapter(start, n)
        PROVE  LoopsInv'
    <2>1. flowRow' = flowRow /\ refusedOwn' = refusedOwn /\ EnterWalk(start, n, 1)
      BY <1>3 DEF StartChapter
    <2>2. WalkInv'
      BY <1>0, <2>1, EntersOrdered
    <2> QED BY <1>0, <2>1, <2>2 DEF LoopsInv
  <1>4. CASE RunStep
    <2>1. flowRow' = flowRow /\ refusedOwn' = refusedOwn
      BY <1>0, <1>4, RunStepIs DEF WalkInv
    <2> QED BY <1>0, <1>4, <2>1, RunStepOrdered DEF LoopsInv
  <1>5. CASE RunAgain
    <2>1. flowRow' = flowRow /\ refusedOwn' = refusedOwn
          /\ EnterWalk("writer", walk.rewrites, walk.attempt + 1)
      BY <1>5 DEF RunAgain
    <2>2. WalkInv'
      BY <1>0, <2>1, EntersOrdered
    <2> QED BY <1>0, <2>1, <2>2 DEF LoopsInv
  <1>6. CASE LeaveWalk
    <2>1. walk' = NoWalk /\ flowRow' = flowRow /\ refusedOwn' = refusedOwn
      BY <1>6 DEF LeaveWalk
    <2> QED BY <1>0, <2>1, NoWalkIs DEF LoopsInv, WalkInv
  <1>7. CASE UNCHANGED ruleVars
    BY <1>7 DEF ruleVars, LoopsInv, WalkInv
  <1> QED BY <1>1, <1>2, <1>3, <1>4, <1>5, <1>6, <1>7 DEF RulesNext

\* Whatever graph a user draws, with the verdicts of a step in any order and budgets
\* of its own, once it was accepted a chapter runs a step again only after an edge
\* with a budget was taken, as its goto or as the way out when it is spent; and the
\* graph the editor shows is accepted when it is sent back (_unguarded_cycles,
\* validate_graph, default_graph).
THEOREM LoopsAlwaysPassABudget == RulesSpec => []LoopsPassABudget
  <1>1. RulesInit => LoopsInv
    BY LoopsStart
  <1>2. LoopsInv /\ [RulesNext]_ruleVars => LoopsInv'
    BY LoopsKept
  <1>3. LoopsInv => LoopsPassABudget
    BY LoopsInvHolds
  <1> QED BY <1>1, <1>2, <1>3, PTL DEF RulesSpec

----------------------------------------------------------------------------
(***************************************************************************)
(* OwnOrderIsKept.  A graph the code makes is only left for a later place, *)
(* or for the head of the loop; and where the chapter's pipeline step      *)
(* stands on the way to the Editor.                                        *)
(***************************************************************************)
Undrawn == ParsedGraph(flowRow.graph) = NoGraph
PlannedRow == Undrawn /\ (InPlan(flowRow, "outline") \/ walk.start # "planner")
OwnConf == ConfOf(PlanOfRow(flowRow))

\* Where a chapter is, when its graph is of the code's making.
InOrder(at, pstep, start, rewrites) ==
    /\ at # "@refused"
    /\ at = "plan" => /\ start \in {"planner", "writer", "editor", "validator"}
                      /\ pstep = StepOfAgent[start]
                      /\ start = "validator" => rewrites = RewriteLimit
    /\ \A p \in 2..7 : at = Listing[p] => pstep \in {"writing", "editing"}

PlacedInv ==
    PlannedRow /\ walk # NoWalk => InOrder(walk.at, walk.pstep, walk.start, walk.rewrites)

OrderInv == LoopsInv /\ PlacedInv

\* What a chapter runs then.
LEMMA OwnGraphIs ==
    ASSUME Undrawn
    PROVE  Derived(OwnConf, GraphRun(flowRow)) /\ OwnConf \in Confs
  <1>1. GraphRun(flowRow) = DerivedGraph(PlanOfRow(flowRow))
    BY DEF Undrawn, GraphRun, GraphFor
  <1> QED BY <1>1, DerivedGraphIs, ConfIs DEF OwnConf

\* The stages a plan is made of, and the steps of their agents.
LEMMA PlanIsValid ==
    /\ PlanOfRow(flowRow) \subseteq ValidStage
    /\ <<"writer", "draft">> \in PlanOfRow(flowRow)
  <1>1. DOMAIN AgentOfRole = {"outline", "draft", "pre_editor", "review", "force_revise",
                       "post_edit", "style_repair", "final", "postprocess",
                       "context_refresh", "publish"}
    BY DEF AgentOfRole
  <1>2. AgentOfRole["draft"] = "writer" /\ AgentOfRole["final"] = "validator"
    BY DEF AgentOfRole
  <1>3. <<"writer", "draft">> \in ValidStage /\ <<"validator", "final">> \in ValidStage
    BY <1>1, <1>2 DEF ValidStage
  <1>4. \A agents, precheck : /\ StagesOfNodes(agents, precheck) \subseteq ValidStage
                              /\ <<"writer", "draft">> \in StagesOfNodes(agents, precheck)
    BY <1>3 DEF StagesOfNodes
  <1>5. \A stages : stages \subseteq ValidStage =>
           /\ NormalizedStages(stages) \subseteq ValidStage
           /\ <<"writer", "draft">> \in NormalizedStages(stages)
    BY <1>3 DEF NormalizedStages
  <1>6. \A raw : ParsedStages(raw) \subseteq ValidStage
    BY DEF ParsedStages
  <1>7. StagesOfRow(flowRow) \subseteq ValidStage /\ <<"writer", "draft">> \in StagesOfRow(flowRow)
    <2> DEFINE parsed == ParsedStages(flowRow.stages)
               stages == IF parsed # {} THEN parsed ELSE StagesOfNodes(flowRow.nodes, flowRow.precheck)
    <2>1. stages \subseteq ValidStage
      BY <1>4, <1>6
    <2>2. StagesOfRow(flowRow) = NormalizedStages(stages)
      BY DEF StagesOfRow
    <2> HIDE DEF stages
    <2> QED BY <1>5, <2>1, <2>2
  <1> QED BY <1>4, <1>7 DEF PlanOfRow

\* The pipeline steps that the order of such a row has.
LEMMA PlannedSteps ==
    ASSUME PlannedRow
    PROVE  /\ "writing" \in OrderOfRow(flowRow)
           /\ walk.start = "planner" => "outline" \in OrderOfRow(flowRow)
           /\ OwnConf.editor => "editing" \in OrderOfRow(flowRow)
           /\ InPlan(flowRow, "postprocess") => "extracting" \in OrderOfRow(flowRow)
  <1> DEFINE plan == PlanOfRow(flowRow)
  <1>0. /\ AgentOfRole["outline"] = "planner" /\ AgentOfRole["postprocess"] = "extractor"
        /\ AgentOfRole["review"] = "editor"
    BY DEF AgentOfRole
  <1>1. \A s \in plan : s[1] \in Anchor => StepOfAgent[s[1]] \in OrderOfRow(flowRow)
    BY DEF OrderOfRow, OrderOfAgents
  <1>2. {"planner", "writer", "editor", "extractor"} \subseteq Anchor
        /\ StepOfAgent["planner"] = "outline" /\ StepOfAgent["writer"] = "writing"
        /\ StepOfAgent["editor"] = "editing" /\ StepOfAgent["extractor"] = "extracting"
    BY DEF StepOfAgent, Anchor
  <1>3. \A a \in Anchor : \A role : <<a, role>> \in plan => StepOfAgent[a] \in OrderOfRow(flowRow)
    BY <1>1
  <1>4. <<"writer", "draft">> \in plan /\ (walk.start = "planner" => <<"planner", "outline">> \in plan)
    BY <1>0, PlanIsValid DEF PlannedRow, InPlan
  <1>5. "writing" \in OrderOfRow(flowRow) /\ (walk.start = "planner" => "outline" \in OrderOfRow(flowRow))
    BY <1>2, <1>3, <1>4
  <1>6. InPlan(flowRow, "postprocess") => "extracting" \in OrderOfRow(flowRow)
    BY <1>0, <1>2, <1>3 DEF InPlan
  <1>7. ASSUME OwnConf.editor
        PROVE  "editing" \in OrderOfRow(flowRow)
    <2>1. PICK s \in plan : s[2] = "review"
      <3> DEFINE has(role) == \E s \in plan : s[2] = role
      <3>1. OwnConf = [editor |-> has("review"), style |-> has("style_repair"), precheck |-> has("pre_editor")]
        BY DEF OwnConf, ConfOf
      <3> HIDE DEF has
      <3>2. OwnConf.editor = has("review")
        BY <3>1
      <3> QED BY <1>7, <3>2, Zenon DEF has
    <2>2. s \in ValidStage
      BY PlanIsValid
    <2>3. s[1] = "editor"
      BY <1>0, <2>1, <2>2 DEF ValidStage
    <2> QED BY <1>1, <1>2, <2>3
  <1> QED BY <1>5, <1>6, <1>7

LEMMA CanonicalIs ==
    /\ DOMAIN CanonicalOrder = 1..6
    /\ CanonicalOrder[1] = "outline" /\ CanonicalOrder[2] = "writing" /\ CanonicalOrder[3] = "editing"
    /\ CanonicalOrder[4] = "validating" /\ CanonicalOrder[5] = "extracting"
  BY DEF CanonicalOrder

\* A move to a place not before.
LEMMA ForwardIs ==
    ASSUME NEW i \in 1..6, NEW j \in 1..6, i <= j,
           {CanonicalOrder[i], CanonicalOrder[j]} \subseteq OrderOfRow(flowRow)
    PROVE  Forward(CanonicalOrder[i], CanonicalOrder[j])
  BY CanonicalIs DEF Forward

LEMMA RolesOfPlaces ==
    /\ RoleOfId(Listing[1]) = "outline" /\ RoleOfId(Listing[2]) = "context_refresh"
    /\ RoleOfId(Listing[3]) = "draft" /\ RoleOfId(Listing[4]) = "pre_editor"
    /\ RoleOfId(Listing[5]) = "review" /\ RoleOfId(Listing[6]) = "force_revise"
    /\ RoleOfId(Listing[7]) = "post_edit" /\ RoleOfId(Listing[8]) = "style_repair"
    /\ RoleOfId(Listing[9]) = "final" /\ RoleOfId(Listing[10]) = "publish"
    /\ RoleOfId(Listing[11]) = "postprocess"
  BY Names DEF RoleOfId

\* No step is refused its move.
LEMMA NotRefused ==
    ASSUME PlannedRow, NEW p \in Places(OwnConf), walk.at = Listing[p],
           InOrder(walk.at, walk.pstep, walk.start, walk.rewrites), NEW verdict
    PROVE  ~MoveRefused(RoleOfId(Listing[p]), verdict)
  <1> DEFINE role == RoleOfId(Listing[p])
  <1>0. p \in 1..11 /\ Listing[p] \in StepIds(OwnConf) /\ OwnConf \in Confs
    BY OwnGraphIs DEF Places, PlannedRow
  <1>1. /\ role = "outline" => p = 1
        /\ role = "review" => p = 5
    BY <1>0, RolesOfPlaces
  <1>2. ASSUME role = "outline", walk.start = "planner"
        PROVE  Forward(walk.pstep, "writing")
    <2>1. walk.pstep = "outline"
      BY <1>1, <1>2, Names DEF InOrder, StepOfAgent, Anchor
    <2>2. Forward(CanonicalOrder[1], CanonicalOrder[2])
      BY <1>2, PlannedSteps, CanonicalIs, ForwardIs
    <2> QED BY <2>1, <2>2, CanonicalIs
  <1>3. ASSUME role = "review"
        PROVE  Forward(walk.pstep, "editing")
    <2>1. walk.pstep \in {"writing", "editing"}
      BY <1>1, <1>3 DEF InOrder
    <2>2. OwnConf.editor
      BY <1>0, <1>1, <1>3, StepSet, Names
    <2>3. Forward(CanonicalOrder[2], CanonicalOrder[3]) /\ Forward(CanonicalOrder[3], CanonicalOrder[3])
      BY <2>2, PlannedSteps, CanonicalIs, ForwardIs
    <2> QED BY <2>1, <2>3, CanonicalIs
  <1>4. ASSUME InPlan(flowRow, "postprocess")
        PROVE  Forward("extracting", "extracting")
    <2>1. Forward(CanonicalOrder[5], CanonicalOrder[5])
      BY <1>4, PlannedSteps, CanonicalIs, ForwardIs
    <2> QED BY <2>1, CanonicalIs
  <1> QED BY <1>2, <1>3, <1>4 DEF MoveRefused

\* Where an edge of the step at place p leads: to the loop only from within.
LEMMA OnwardArrives ==
    ASSUME NEW c, NEW p \in 1..11, NEW e, Onward(c, p, e), NEW to \in {e.goto, e.exhausted}
    PROVE  /\ Arrived(to) \notin {"@refused", "plan"}
           /\ p > 7 => \A q \in 2..7 : Arrived(to) # Listing[q]
  <1>1. to = "none" \/ Leads(c, p, e.budget, to)
    BY DEF Onward
  <1>2. CASE to = "none" \/ to \in SpecialTarget
    <2>1. Arrived(to) \in SpecialTarget
      BY <1>2 DEF Arrived, SpecialTarget
    <2>2. "@refused" \notin SpecialTarget /\ "plan" \notin SpecialTarget
      BY DEF SpecialTarget
    <2>3. \A q \in 2..7 : Listing[q] \notin SpecialTarget
      BY NamesDiffer DEF NoId
    <2> QED BY <2>1, <2>2, <2>3
  <1>3. ASSUME NEW q \in 1..11, p < q, Listing[q] = to
        PROVE  /\ Arrived(to) \notin {"@refused", "plan"}
               /\ p > 7 => \A m \in 2..7 : Arrived(to) # Listing[m]
    <2>1. to \notin NoId
      BY <1>3, NamesDiffer
    <2>2. Arrived(to) = Listing[q] /\ to # "@refused"
      BY <1>3, <2>1 DEF Arrived, NoId
    <2>3. q # 1 /\ \A m \in 2..7 : p > 7 => m # q
      BY <1>3
    <2> QED BY <1>3, <2>2, <2>3, NamesDiffer, Names
  <1>4. CASE to = "loop_head" /\ p \in 3..7
    BY <1>4 DEF Arrived
  <1> QED BY <1>1, <1>2, <1>3, <1>4 DEF Leads, Later

\* Between the writer and the Editor the pipeline step stays with the two.
LEMMA InTheLoop ==
    ASSUME NEW p \in 2..7, walk.pstep \in {"writing", "editing"}, NEW verdict,
           NEW pstep \in MovedTo(RoleOfId(Listing[p]), verdict)
    PROVE  pstep \in {"writing", "editing"}
  <1>1. RoleOfId(Listing[p]) \in {"context_refresh", "draft", "pre_editor", "review",
                                  "force_revise", "post_edit"}
    BY RolesOfPlaces
  <1> QED BY <1>1 DEF MovedTo

\* The first step leads into the loop only when it was not entered at the Validator.
PlanEdges(c, s) ==
    /\ EdgeFor(s, "empty").goto = "@pause:planner" /\ EdgeFor(s, "empty").exhausted = "none"
    /\ EdgeFor(s, "ok").budget = "rewrite" /\ EdgeFor(s, "ok").exhausted = LoopExit(c)

LEMMA PlanEdgesAre ==
    ASSUME NEW c, NEW g, Derived(c, g)
    PROVE  PlanEdges(c, StepOf(g, "plan"))
  <1> DEFINE s == StepOf(g, "plan")
             pause == Target("@pause:planner")
             loop == Budgeted("loop_head", "rewrite", FALSE, LoopExit(c))
             on == [v \in DOMAIN Handlers(c, "plan") |-> Drawn(Handlers(c, "plan")[v])]
  <1>0. 1 \in Places(c) /\ Listing[1] = "plan"
    BY SomePlaces, Names DEF Derived
  <1>1. s = DerivedStep(c, "plan")
    BY <1>0, DerivedFacts DEF StepFrom
  <1>2. /\ NextEdge(c, "plan") = loop
        /\ Handlers(c, "plan") = On("empty", pause)
    BY DEF NextEdge, Handlers
  <1>3. DOMAIN On("empty", pause) = {"empty"} /\ On("empty", pause)["empty"] = pause
    BY DEF On
  <1>4. pause = [goto |-> "@pause:planner", budget |-> "none", looping |-> FALSE, exhausted |-> "@done"]
    BY DEF Target
  <1>5. loop = [goto |-> "loop_head", budget |-> "rewrite", looping |-> FALSE, exhausted |-> LoopExit(c)]
    BY DEF Budgeted
  <1> HIDE DEF pause, loop
  <1>6. Drawn(pause) = [pause EXCEPT !.exhausted = "none"]
    BY <1>4 DEF Drawn
  <1>7. Drawn(pause).goto = "@pause:planner" /\ Drawn(pause).exhausted = "none"
    BY <1>4, <1>6
  <1>8. Drawn(loop).budget = "rewrite" /\ Drawn(loop).exhausted = LoopExit(c)
    BY <1>5 DEF Drawn
  <1>9. s = [id |-> "plan", role |-> RoleOfId("plan"), next |-> Drawn(loop), on |-> on,
             order |-> VerdictOrder]
    BY <1>1, <1>2 DEF DerivedStep
  <1>10. DOMAIN on = {"empty"} /\ on["empty"] = Drawn(pause)
    BY <1>2, <1>3
  <1> HIDE DEF on, s
  <1>11. s.next = Drawn(loop) /\ s.on = on
    BY <1>9
  <1>12. EdgeFor(s, "ok") = Drawn(loop) /\ EdgeFor(s, "empty") = Drawn(pause)
    BY <1>10, <1>11 DEF EdgeFor
  <1> QED BY <1>7, <1>8, <1>12 DEF PlanEdges, s

\* From the first step.
LEMMA FromThePlan ==
    ASSUME PlannedRow, walk.at = "plan", InOrder(walk.at, walk.pstep, walk.start, walk.rewrites),
           NEW answer \in StepAnswers("outline"), NEW w,
           StepLeaves(StepOf(GraphRun(flowRow), "plan"), answer, w),
           StepOf(GraphRun(flowRow), "plan").role = "outline"
    PROVE  \A q \in 2..7 : w.at = Listing[q] => w.pstep \in {"writing", "editing"}
  <1> DEFINE s == StepOf(GraphRun(flowRow), "plan")
             edge == EdgeFor(s, answer[1])
             state == [rewriteCount |-> answer[2], maxRewrites |-> RewriteLimit,
                       attempt |-> walk.attempt, loopEnabled |-> flowRow.loop \/ flowRow.polish]
             to == ResolveEdge(edge, state)
  <1>0. Destinations(edge, GraphRun(flowRow).budgets, state) = {to}
    BY OwnGraphIs DEF Derived, DerivedFrom, Destinations, PlannedRow
  <1>1. w.at = Arrived(to) /\ w.pstep \in MovedTo("outline", answer[1])
    BY <1>0 DEF StepLeaves
  <1>2. answer[1] \in {"ok", "empty"} /\ answer[2] = walk.rewrites
    BY DEF StepAnswers, OutlineAnswers, Leaving
  <1>3. PlanEdges(OwnConf, s)
    BY OwnGraphIs, PlanEdgesAre DEF PlannedRow
  <1>4. CASE answer[1] = "empty"
    <2>1. to \in {"@pause:planner", "none"}
      BY <1>3, <1>4 DEF PlanEdges, ResolveEdge
    <2>2. Arrived(to) \in NoId
      BY <2>1 DEF Arrived, NoId, SpecialTarget
    <2> QED BY <1>1, <2>2, NamesDiffer
  <1>5. CASE answer[1] = "ok" /\ walk.start = "validator"
    <2>1. walk.rewrites = RewriteLimit /\ edge.budget = "rewrite" /\ edge.exhausted = LoopExit(OwnConf)
      BY <1>3, <1>5 DEF PlanEdges, InOrder
    <2>2. state.rewriteCount = RewriteLimit /\ state.maxRewrites = RewriteLimit
      BY <1>2, <2>1
    <2>3. RewriteLimit >= RewriteLimit
      BY GraphRulesAssumption
    <2> HIDE DEF state, edge
    <2>4. BudgetExhausted(edge, state)
      BY <2>1, <2>2, <2>3 DEF BudgetExhausted
    <2>5. to = LoopExit(OwnConf)
      BY <2>1, <2>4 DEF ResolveEdge
    <2>6. to \in {Listing[8], Listing[9]} /\ to # "none"
      BY <2>5, Names DEF LoopExit
    <2> QED BY <1>1, <2>6, NamesDiffer DEF Arrived
  <1>6. CASE answer[1] = "ok" /\ walk.start # "validator"
    BY <1>1, <1>6 DEF MovedTo
  <1> QED BY <1>2, <1>4, <1>5, <1>6

\* A step leaves the chapter in order, and so does an entry.
LEMMA RunStepPlaced ==
    ASSUME OrderInv, RunStep, PlannedRow, walk # NoWalk
    PROVE  InOrder(walk'.at, walk'.pstep, walk'.start, walk'.rewrites)
  <1> DEFINE g == GraphRun(flowRow)
             c == OwnConf
             step == StepOf(g, walk.at)
  <1>1. LoopsInv /\ InOrder(walk.at, walk.pstep, walk.start, walk.rewrites)
    BY DEF OrderInv, PlacedInv
  <1>2. /\ walk.at \notin {"idle", "@refused"} \cup SpecialTarget
        /\ \E answer \in StepAnswers(step.role) :
              StepRefused(step, answer, walk') \/ StepLeaves(step, answer, walk')
    BY <1>1, RunStepIs DEF LoopsInv, WalkInv
  <1>3. walk.at \in IdsOf(g)
    BY <1>1, <1>2, OnTheWay
  <1>4. Derived(c, g) /\ c \in Confs
    BY OwnGraphIs DEF PlannedRow
  <1>5. PICK p \in Places(c) : walk.at = Listing[p]
    BY <1>3, <1>4, DerivedFacts DEF IdsFrom
  <1>6. p \in 1..11
    BY DEF Places
  <1>7. step = DerivedStep(c, Listing[p])
    BY <1>4, <1>5, DerivedFacts DEF StepFrom
  <1>8. step.role = RoleOfId(Listing[p])
    BY <1>7 DEF DerivedStep
  <1>9. PICK answer \in StepAnswers(step.role) :
           StepRefused(step, answer, walk') \/ StepLeaves(step, answer, walk')
    BY <1>2
  <1>10. ~MoveRefused(step.role, answer[1])
    BY <1>1, <1>5, <1>8, NotRefused
  <1>11. StepLeaves(step, answer, walk')
    BY <1>9, <1>10 DEF StepRefused
  <1> DEFINE edge == EdgeFor(step, answer[1])
             state == [rewriteCount |-> answer[2], maxRewrites |-> RewriteLimit,
                       attempt |-> walk.attempt, loopEnabled |-> flowRow.loop \/ flowRow.polish]
  <1>0. PICK to \in Destinations(edge, g.budgets, state) : walk'.at = Arrived(to)
    BY <1>11 DEF StepLeaves
  <1>12. walk'.at = Arrived(to) /\ walk'.pstep \in MovedTo(step.role, answer[1])
    BY <1>0, <1>11 DEF StepLeaves
  <1>13. edge \in EdgesOf(StepOf(g, Listing[p])) /\ to \in {edge.goto, edge.exhausted}
    <2>1. IsStep(step)
      BY <1>1, <1>2, OnTheWay, NamesOfSteps DEF Fine
    <2>2. answer[1] \in Verdict
      BY AnswersAre
    <2>3. edge \in EdgesOf(StepOf(g, Listing[p]))
      BY <1>5, <2>1, <2>2, VerdictIsSeen
    <2>4. to \in {edge.goto, edge.exhausted}
      BY ResolvedIs
    <2> QED BY <2>3, <2>4
  <1>14. Onward(c, p, edge)
    BY <1>4, <1>13, StepEdges
  <1> HIDE DEF edge
  <1>15. /\ Arrived(to) \notin {"@refused", "plan"}
         /\ p > 7 => \A q \in 2..7 : Arrived(to) # Listing[q]
    BY <1>6, <1>13, <1>14, OnwardArrives
  <1>16. \A q \in 2..7 : walk'.at = Listing[q] => walk'.pstep \in {"writing", "editing"}
    <2>1. CASE p = 1
      <3>1. walk.at = "plan" /\ step.role = "outline"
        BY <1>5, <1>8, <2>1, Names, RolesOfPlaces
      <3>2. step = StepOf(GraphRun(flowRow), "plan")
        BY <3>1
      <3> QED BY <1>1, <1>9, <1>11, <3>1, <3>2, FromThePlan
    <2>2. CASE p \in 2..7
      <3>1. walk.pstep \in {"writing", "editing"}
        BY <1>1, <1>5, <2>2 DEF InOrder
      <3>2. walk'.pstep \in MovedTo(RoleOfId(Listing[p]), answer[1])
        BY <1>8, <1>12
      <3>3. walk'.pstep \in {"writing", "editing"}
        BY <2>2, <3>1, <3>2, InTheLoop
      <3> QED BY <3>3
    <2>3. CASE p > 7
      BY <1>12, <1>15, <2>3
    <2> QED BY <1>6, <2>1, <2>2, <2>3
  <1> QED BY <1>12, <1>15, <1>16 DEF InOrder

LEMMA EntersPlaced ==
    ASSUME Undrawn, NEW start \in {"planner", "writer", "editor", "validator"}, NEW n, NEW attempt,
           EnterWalk(start, n, attempt)
    PROVE  InOrder(walk'.at, walk'.pstep, walk'.start, walk'.rewrites)
  <1>1. Derived(OwnConf, GraphRun(flowRow))
    BY OwnGraphIs
  <1>2. GraphRun(flowRow).entry = "plan"
    BY <1>1 DEF Derived, DerivedFrom
  <1>3. \A q \in 2..7 : Listing[q] # "plan"
    BY Names, NamesDiffer
  <1> QED BY <1>2, <1>3, EnteredIs DEF InOrder

LEMMA OrderKept == OrderInv /\ [RulesNext]_ruleVars => OrderInv'
  <1> SUFFICES ASSUME OrderInv, [RulesNext]_ruleVars
               PROVE  OrderInv'
    OBVIOUS
  <1>0. LoopsInv /\ PlacedInv /\ LoopsInv'
    BY LoopsKept DEF OrderInv
  <1>1. CASE walk = NoWalk /\ walk' = walk
    BY <1>0, <1>1 DEF OrderInv, PlacedInv
  <1>2. ASSUME NEW start \in {"planner", "writer", "editor", "validator"}, NEW n, NEW attempt,
               EnterWalk(start, n, attempt), flowRow' = flowRow
        PROVE  OrderInv'
    <2>1. PlannedRow' => Undrawn
      BY <1>2 DEF PlannedRow, Undrawn
    <2>2. Undrawn => InOrder(walk'.at, walk'.pstep, walk'.start, walk'.rewrites)
      BY <1>2, EntersPlaced
    <2> QED BY <1>0, <2>1, <2>2 DEF OrderInv, PlacedInv
  <1>3. CASE RunStep
    <2>1. flowRow' = flowRow /\ walk # NoWalk
      BY <1>0, <1>3, RunStepIs, NoWalkIs DEF LoopsInv, WalkInv
    <2>2. PlannedRow' => PlannedRow
      BY <1>0, <1>3, <2>1, RunStepIs
         DEF LoopsInv, WalkInv, StepRefused, StepLeaves, PlannedRow, Undrawn, InPlan, PlanOfRow, StagesOfRow
    <2>3. PlannedRow => InOrder(walk'.at, walk'.pstep, walk'.start, walk'.rewrites)
      BY <1>3, <2>1, RunStepPlaced
    <2> QED BY <1>0, <2>2, <2>3 DEF OrderInv, PlacedInv
  <1>4. CASE LeaveWalk
    <2>1. walk' = NoWalk
      BY <1>4 DEF LeaveWalk
    <2> QED BY <1>0, <2>1 DEF OrderInv, PlacedInv, NoWalk
  <1>5. CASE UNCHANGED ruleVars
    BY <1>0, <1>5 DEF ruleVars, OrderInv, PlacedInv, PlannedRow, Undrawn, InPlan, PlanOfRow, StagesOfRow
  <1>6. CASE walk = NoWalk /\ \E raw \in Drawings \cup {GraphShown(flowRow)} : SaveGraph(raw)
    BY <1>1, <1>6 DEF SaveGraph
  <1>7. CASE \E r \in Rows : SaveStages(r.stages)
    BY <1>1, <1>7 DEF SaveStages
  <1>8. CASE \E start \in {"planner", "writer", "editor", "validator"}, n \in {0, RewriteLimit} :
                StartChapter(start, n)
    BY <1>2, <1>8 DEF StartChapter
  <1>9. CASE RunAgain
    BY <1>2, <1>9 DEF RunAgain
  <1> QED BY <1>3, <1>4, <1>5, <1>6, <1>7, <1>8, <1>9 DEF RulesNext

\* A chapter under a graph the code has made of the stages is never refused a move
\* by the order of those stages, whatever the rows, the anchor it is entered at and
\* the verdicts (default_graph, validate_pipeline_transition): but for a chapter
\* that starts at the planner when the stages have none.
THEOREM OwnOrderIsAlwaysKept == RulesSpec => []OwnOrderIsKept
  <1>1. RulesInit => OrderInv
    BY LoopsStart DEF RulesInit, OrderInv, PlacedInv
  <1>2. OrderInv /\ [RulesNext]_ruleVars => OrderInv'
    BY OrderKept
  <1>3. OrderInv => OwnOrderIsKept
    BY DEF OrderInv, PlacedInv, InOrder, OwnOrderIsKept, PlannedRow, Undrawn, NoWalk
  <1> QED BY <1>1, <1>2, <1>3, PTL DEF RulesSpec
===============================================================================
