---------------------------- MODULE MCChapterRun ----------------------------
(* Instances of ChapterRun for TLC: the workflows a chapter is run under.  *)
EXTENDS ChapterRun

Workflow(editor, style, precheck, loop, force) ==
    [editor |-> editor, style |-> style, precheck |-> precheck,
     loop |-> loop, force |-> force]

\* Everything on, as the fallback configuration has it; nothing forced,
\* without the polish; the editor loop off; no editor, with and without the
\* validation before it.
Workflows == {Workflow(TRUE, TRUE, TRUE, TRUE, TRUE),
              Workflow(TRUE, FALSE, FALSE, TRUE, FALSE),
              Workflow(TRUE, FALSE, FALSE, FALSE, TRUE),
              Workflow(FALSE, FALSE, TRUE, TRUE, TRUE),
              Workflow(FALSE, FALSE, FALSE, TRUE, TRUE)}

FullWorkflow == {Workflow(TRUE, TRUE, TRUE, TRUE, TRUE)}

\* Every loop of the graph, with the fewest other steps.
LoopsWorkflow == {Workflow(TRUE, FALSE, FALSE, TRUE, TRUE)}
=============================================================================
