----------------------------- MODULE ChapterRun -----------------------------
(***************************************************************************)
(* One chapter, from the claim of its generate job to its publication: the *)
(* walk of the stage graph, the steps it runs, the ways a step breaks, and *)
(* what a pause, a resume or an edit by the user makes of it.              *)
(*                                                                         *)
(* The chapter's row exists twice: db is what PostgreSQL holds, row the    *)
(* session's copy, written at each commit and lost with the process.       *)
(* A text is an identity, taken up to the leading white space that the     *)
(* validator strips; an identity no row and no run holds is used again.    *)
(* The history variable seen records what the properties speak of; no step *)
(* reads it.                                                               *)
(***************************************************************************)
EXTENDS Integers, FiniteSets, ChapterGraph

CONSTANTS
    Configs,      \* workflow configurations: the switches of PipelineRuntime
    MaxRewrites,  \* max_rewrites, at least 1 (load_generation_pipeline_runtime)
    MaxSteps,     \* MAX_STEPS_PER_CHAPTER
    Texts         \* identities of texts (bound: more than can be held at once)

NoText == 0

ASSUME ConfigAssumption ==
    Configs \subseteq [editor : BOOLEAN, style : BOOLEAN, precheck : BOOLEAN,
                       loop : BOOLEAN, force : BOOLEAN]
ASSUME LimitAssumption == MaxRewrites \in Nat \ {0} /\ MaxSteps \in Nat
ASSUME TextAssumption ==
    /\ Texts \subseteq Nat \ {NoText}
    /\ IsFiniteSet(Texts) => Cardinality(Texts) > 9

VARIABLES
    conf,      \* the workflow the chapter runs under
    job,       \* jobs.status and jobs.current_step
    row, db,   \* the chapter: the session's copy, and what is committed
    run,       \* the blackboard ChapterRunState and the interpreter's place
    retries,   \* json_error_retries of the batch runner, for this chapter
    seen       \* the history of the current run, see NothingSeen

vars == << conf, job, row, db, run, retries, seen >>

ChapterStatus == {"absent", "draft", "validated", "audit_failed", "post_processing",
                  "postprocess_failed", "pending_review", "published", "failed"}

\* PIPELINE_ORDER; "none" is the step of a chapter without a row.
PipelineStep == << "none", "outline", "writing", "editing", "validating",
                   "extracting", "published" >>

\* JOB_STEP_TO_PIPELINE_STEP; a name that is not an agent stands for itself.
PipelineStepOf(jobStep) ==
    CASE jobStep = "planner"   -> "outline"
      [] jobStep = "writer"    -> "writing"
      [] jobStep = "editor"    -> "editing"
      [] jobStep = "validator" -> "validating"
      [] jobStep = "extractor" -> "extracting"
      [] OTHER                 -> jobStep

\* validate_pipeline_transition refuses to go back unless allow_resume.
IsBackward(from, to) ==
    \E i, j \in DOMAIN PipelineStep :
        PipelineStep[i] = to /\ PipelineStep[j] = from /\ i < j

----------------------------------------------------------------------------
(* Texts.                                                                  *)

Graph == DefaultGraph(conf)

NoResult == [given |-> FALSE, text |-> NoText, passed |-> FALSE, block |-> FALSE]
Judged(t, ok) == [given |-> TRUE, text |-> t, passed |-> ok, block |-> FALSE]

\* "a or b" of Python, and the text a reader of the row would be given.
Or(a, b) == IF a # NoText THEN a ELSE b
EffectiveContent(r) == Or(r.content, Or(r.edited, r.draft))
Current == Or(run.edited, run.draft)

HeldBy(r) == {r.draft, r.edited, r.content}
Held == HeldBy(row) \cup HeldBy(db) \cup {run.draft, run.edited, run.latest.text}
NewText == CHOOSE t \in Texts \ Held : \A u \in Texts \ Held : t <= u

\* A validator passes or fails a text as it likes, but never an empty one.
Verdicts(t) == IF t = NoText THEN {FALSE} ELSE BOOLEAN

\* passed: texts that passed a comprehensive validation in this walk; rejected:
\* texts the Editor sent back in this run and nobody has corrected; reviewed:
\* has the Editor answered in this walk; blank: it began without content.
NothingSeen == [passed |-> {}, rejected |-> {}, reviewed |-> FALSE, blank |-> TRUE]

\* The history after a step, of the texts that are still held.
Remember(passed, rejected) ==
    seen' = [seen EXCEPT !.passed = passed \cap Held', !.rejected = rejected \cap Held']
Forget == Remember(seen.passed, seen.rejected)
NotePassed(t, ok) ==
    Remember(IF ok THEN seen.passed \cup {t} ELSE seen.passed, seen.rejected)

----------------------------------------------------------------------------
(* The session and the end of a run.                                       *)

NoRow == [status |-> "absent", pstep |-> "none", draft |-> NoText, edited |-> NoText,
          content |-> NoText, count |-> 0, outline |-> "none"]

AtStep(id, attempt) ==
    [at |-> id, attempt |-> attempt, start |-> "planner", executed |-> 0,
     draft |-> NoText, edited |-> NoText, count |-> 0, decision |-> "rewrite",
     latest |-> NoResult, skip |-> FALSE, polished |-> FALSE]

Idle == AtStep("idle", 1)
Entering(attempt) == AtStep("enter", attempt)

Commit(r) == row' = r /\ db' = r

\* The run is over: its session is gone, and the row is what was committed.
EndRun == run' = Idle /\ retries' = 0 /\ seen' = NothingSeen

Paused == job.status = "paused"

\* fail_job on the session's copy, which says running: the rest of the
\* session is committed with it.
FailRun(j, r) ==
    /\ job' = [j EXCEPT !.status = "failed"]
    /\ Commit(r)
    /\ EndRun

\* Where the verdict v leads, with the blackboard as the step left it.
Follow(st, v) ==
    run' = [st EXCEPT
        !.executed = @ + 1,
        !.at = ResolveEdge(EdgeFor(Graph[run.at], v),
                 [loopEnabled |-> conf.loop, rewriteCount |-> st.count,
                  maxRewrites |-> MaxRewrites, attempt |-> st.attempt])]

At(id) == run.at = id /\ run.executed < MaxSteps

----------------------------------------------------------------------------
(* Entering the chapter: _process_single_chapter up to the graph.          *)

HasContent(r) == EffectiveContent(r) # NoText

\* resolve_generation_start_state.
StartStep ==
    LET known == IF job.step = "editor" /\ ~conf.editor
                 THEN IF HasContent(row) THEN "validator" ELSE "writer"
                 ELSE job.step
    IN  IF known = "planner" /\ row.outline # "none" /\ row.draft = NoText
        THEN "writer" ELSE known

\* Mutant: the pipeline step is not wound back.
PreparedRowKeepsStep(start) ==
    CASE row.status = "absent" -> [row EXCEPT !.status = "draft", !.pstep = "outline"]
      [] row.status # "absent" /\ start \in {"validator", "extractor"} ->
           [row EXCEPT !.pstep = PipelineStepOf(start)]
      [] OTHER -> [row EXCEPT !.status = "draft"]

\* set_job_step (which allows a resume to go back), then
\* prepare_chapter_for_step: the row exists afterwards, and is a draft again
\* unless the run starts at the validator or the extractor.
PreparedRow(start) ==
    LET entry == IF start = "planner" THEN "outline" ELSE "writing"
    IN  IF row.status # "absent" /\ start \in {"validator", "extractor"}
        THEN [row EXCEPT !.pstep = PipelineStepOf(start)]
        ELSE [row EXCEPT !.status = "draft", !.pstep = entry]

ResumesExtractor(start, r) ==
    start = "extractor" /\ r.status \in {"postprocess_failed", "post_processing", "validated"}

\* Mutant: a resume at the Editor writes the chapter anew.
InitialPassRewrites(start, r) ==
    LET skip == start \in {"validator", "extractor"} /\ r.draft # NoText
    IN  [AtStep("plan", run.attempt) EXCEPT
            !.start = start, !.skip = skip,
            !.draft = r.draft, !.edited = r.edited,
            !.count = IF skip THEN MaxRewrites ELSE r.count,
            !.decision = IF skip THEN "none" ELSE "rewrite"]

\* initial_generation_loop_state: a resume behind the Editor is sent past the
\* write-edit cluster by a spent rewrite budget, and a resume at the Editor
\* keeps the draft.
InitialPass(start, r) ==
    LET skip == start \in {"validator", "extractor"} /\ r.draft # NoText
    IN  [AtStep("plan", run.attempt) EXCEPT
            !.start = start, !.skip = skip,
            !.draft = r.draft, !.edited = r.edited,
            !.count = IF skip THEN MaxRewrites ELSE r.count,
            !.decision = IF skip THEN "none"
                         ELSE IF start = "editor" THEN "keep" ELSE "rewrite"]

EnterChapter ==
    /\ run.at = "enter" /\ ~Paused
    /\ row.status # "pending_review"
    /\ LET start == StartStep
           r     == PreparedRow(start)
       IN /\ job' = [job EXCEPT !.step = start]
          /\ Commit(r)
          /\ seen' = [NothingSeen EXCEPT !.rejected = seen.rejected,
                                          !.blank = r.content = NoText]
          /\ run' = IF ResumesExtractor(start, r)
                    THEN [AtStep("post", run.attempt) EXCEPT !.start = start]
                    ELSE InitialPass(start, r)
    /\ UNCHANGED << conf, retries >>

\* A chapter that waits for a review pauses its job, at the chapter's
\* pipeline step: a name of that vocabulary, not an agent's.
EnterPendingReview ==
    /\ run.at = "enter" /\ ~Paused
    /\ row.status = "pending_review"
    /\ job' = [status |-> "paused", step |-> row.pstep]
    /\ EndRun
    /\ UNCHANGED << conf, row, db >>

----------------------------------------------------------------------------
(* The steps.  Those that call check_paused do so first and then anchor    *)
(* the job and commit; StepStarted is the job and the row at that point.   *)

Checked == {"draft", "review", "final_check", "post"}

JobAnchor(id) ==
    CASE id = "draft"       -> "writer"
      [] id = "review"      -> "editor"
      [] id = "final_check" -> "validator"
      [] OTHER              -> "extractor"

StartedJob(id) == IF id \in Checked THEN [job EXCEPT !.step = JobAnchor(id)] ELSE job
StartedRow(id) ==
    CASE id = "post" -> [row EXCEPT !.status = "post_processing", !.pstep = "extracting"]
      [] id \in Checked \ {"post"} -> [row EXCEPT !.pstep = PipelineStepOf(JobAnchor(id))]
      [] OTHER -> row

\* PipelineStateError out of set_job_step without allow_resume: at the review,
\* and at the end of an outline that the run started from.
Refused(id) ==
    \/ id = "review" /\ IsBackward(row.pstep, "editing")
    \/ id = "plan" /\ run.start = "planner" /\ IsBackward(row.pstep, "writing")

Starts(id) == At(id) /\ ~Refused(id) /\ (id \in Checked => ~Paused)

\* run_outline: an outline there is is used unless the run starts at the
\* planner; one without a summary ("bare") is saved before it is refused.
Plans == run.start = "planner" \/ row.outline = "none"

PlanEmpty ==
    /\ At("plan")
    /\ Plans \/ row.outline = "bare"
    /\ Commit([row EXCEPT !.outline = "bare"])
    /\ Follow(run, "empty")
    /\ UNCHANGED << conf, job, retries, seen >>

\* The cluster's anchor is the Editor when a draft is kept.
Plan ==
    /\ Starts("plan")
    /\ Plans \/ row.outline = "full"
    /\ LET fromPlanner == run.start = "planner"
           anchor == IF run.start = "editor" /\ run.draft # NoText /\ conf.editor
                     THEN "editor" ELSE "writer"
           saved == [row EXCEPT !.outline = "full",
                                !.pstep = IF fromPlanner THEN "writing" ELSE @]
           anchored == [saved EXCEPT !.pstep = PipelineStepOf(anchor)]
       IN \/ /\ run.skip
             /\ Commit(saved) /\ UNCHANGED job
             /\ Follow(run, "ok") /\ UNCHANGED << retries, seen >>
          \/ /\ ~run.skip /\ ~Paused
             /\ Commit(anchored) /\ job' = [job EXCEPT !.step = anchor]
             /\ Follow(run, "ok") /\ UNCHANGED << retries, seen >>
          \/ /\ ~run.skip /\ Paused
             /\ Commit(saved)
             /\ job' = [job EXCEPT !.step = IF fromPlanner THEN "writer" ELSE @]
             /\ EndRun
    /\ UNCHANGED conf

\* run_context_refresh.
LoopHead ==
    /\ At("loop_head")
    /\ Follow([run EXCEPT !.latest = NoResult],
              IF run.decision = "rewrite" THEN "ok" ELSE "skipped")
    /\ UNCHANGED << conf, job, row, db, retries, seen >>

\* run_writer_draft: of the candidates for a key chapter the first with the
\* best score, else the only one.
WritersText == NewText

\* run_draft and save_writer_draft: the blackboard forgets the edited text of
\* the last draft, the row keeps it.
Draft ==
    /\ Starts("draft")
    /\ job' = StartedJob("draft")
    /\ Commit([StartedRow("draft") EXCEPT !.draft = WritersText])
    /\ Follow([run EXCEPT !.draft = WritersText, !.edited = NoText], "ok")
    /\ Forget
    /\ UNCHANGED << conf, retries >>

\* What run_pre_editor leaves on the blackboard.
PreChecked(ok) == [run EXCEPT !.latest = Judged(Current, ok)]

\* mark_editor_skipped.
EditorSkipped(r) == [r EXCEPT !.draft = run.draft, !.edited = run.edited]

\* run_pre_editor_validation: quick rules when an Editor follows, a comprehensive
\* validation and mark_editor_skipped when none does.
PreCheck ==
    /\ At("pre_check")
    /\ \E ok \in Verdicts(Current) :
         /\ Follow(PreChecked(ok), "ok")
         /\ IF conf.editor THEN UNCHANGED << row, db >>
            ELSE Commit(EditorSkipped(row))
         /\ NotePassed(Current, ok /\ ~conf.editor)
    /\ UNCHANGED << conf, job, retries >>

ReviewSeen(rejected) ==
    seen' = [seen EXCEPT !.reviewed = TRUE, !.passed = @ \cap Held',
                         !.rejected = rejected \cap Held']

\* run_editor_review: the Editor returns the draft or a text of its own.
EditorsTexts == {run.draft, NewText}

\* resolve_editor_decision_from_result: "proceed" and "revise" go on alike. A
\* hard issue of the Editor's sends even the first draft back.
EditorDecisions == {"keep", "rewrite"}

\* apply_editor_revision, and mark_editor_rewrite of a draft sent back.
Revised(r, edited) == [r EXCEPT !.draft = run.draft, !.edited = edited]
SentBack(r) == [r EXCEPT !.count = run.count + 1, !.status = "draft"]

\* run_review.  An accepted review is not committed before the next step
\* commits.
Review ==
    /\ Starts("review")
    /\ job' = StartedJob("review")
    /\ \E edited \in EditorsTexts, decision \in EditorDecisions :
         LET r  == Revised(StartedRow("review"), edited)
             st == [run EXCEPT !.edited = edited, !.decision = decision]
         IN \/ /\ decision = "keep"
               /\ row' = r /\ db' = StartedRow("review")
               /\ Follow(st, "ok")
               /\ ReviewSeen(seen.rejected \ {run.draft, edited})
            \/ /\ decision = "rewrite"
               /\ Commit(SentBack(r))
               /\ Follow([st EXCEPT !.count = @ + 1], "rewrite")
               /\ ReviewSeen(seen.rejected \cup {run.draft, edited})
    /\ UNCHANGED << conf, retries >>

\* run_force_editor_revision: the draft again, or a corrected text.
CorrectedTexts == {run.draft, NewText}

\* run_force_revise: without enable_force_correction the chapter is left to
\* the user.  The corrected text has to be validated afresh.
ForceFixDisabled ==
    /\ At("force_fix") /\ ~conf.force
    /\ Follow(run, "skipped")
    /\ UNCHANGED << conf, job, row, db, retries, seen >>

\* Mutant: the verdict on the text before the correction is kept.
ForceFixKeepsVerdict ==
    /\ At("force_fix") /\ conf.force
    /\ \E edited \in CorrectedTexts :
         /\ Commit([row EXCEPT !.edited = edited])
         /\ Follow([run EXCEPT !.edited = edited, !.decision = "keep"], "ok")
         /\ Remember(seen.passed, seen.rejected \ {edited})
    /\ UNCHANGED << conf, job, retries >>

ForceFix ==
    /\ At("force_fix") /\ conf.force
    /\ \E edited \in CorrectedTexts :
         /\ Commit([row EXCEPT !.edited = edited])
         /\ Follow([run EXCEPT !.edited = edited, !.decision = "keep",
                               !.latest = NoResult], "ok")
         /\ Remember(seen.passed, seen.rejected \ {edited})
    /\ UNCHANGED << conf, job, retries >>

\* The Editor's local repair of a text that failed and the validation after
\* it: of its observations or its actions, as often as the research overrides
\* ask for it, or (_run_a5_polisher) once in a walk.
LocalRepairs == {TRUE} \X {FALSE} \X {Current, NewText}
PolisherRepairs == IF run.polished THEN {} ELSE {TRUE} \X {TRUE} \X {Current, NewText}

\* run_post_edit_validation judges the text, or what a repair made of it.
PostChecked == ({FALSE} \X {FALSE} \X {Current}) \cup LocalRepairs \cup PolisherRepairs

\* What run_post_edit leaves on the blackboard.
PostEdited(repaired, polish, text, result) ==
    [run EXCEPT !.latest = result, !.polished = @ \/ polish,
                !.edited = IF repaired THEN text ELSE @]

\* _accepted_outcome, with _commit_accepted_repair.
PostCheckPasses ==
    /\ At("post_check")
    /\ \E repaired, polish \in BOOLEAN, text \in {Current, NewText} :
         /\ << repaired, polish, text >> \in PostChecked /\ text # NoText
         /\ Commit([row EXCEPT !.count = run.count, !.edited = IF repaired THEN text ELSE @])
         /\ Follow([PostEdited(repaired, polish, text, Judged(text, TRUE))
                      EXCEPT !.decision = "keep"], "ok")
         /\ NotePassed(text, TRUE)
    /\ UNCHANGED << conf, job, retries >>

\* _terminal_block_outcome, when the last rewrite is spent.
Blocked(st) == [st EXCEPT !.latest.block = TRUE, !.decision = "blocked"]

\* A failure spends one rewrite.
PostCheckFails ==
    /\ At("post_check")
    /\ \E repaired, polish \in BOOLEAN, text \in {Current, NewText} :
         LET count == run.count + 1
             st == [PostEdited(repaired, polish, text, Judged(text, FALSE))
                      EXCEPT !.count = count]
         IN /\ << repaired, polish, text >> \in PostChecked
            /\ Commit([row EXCEPT !.count = count, !.status = "draft",
                                  !.edited = IF repaired THEN text ELSE @])
            /\ IF count >= MaxRewrites THEN Follow(Blocked(st), "blocked")
               ELSE Follow([st EXCEPT !.decision = "rewrite"], "rewrite")
    /\ Forget
    /\ UNCHANGED << conf, job, retries >>

\* run_style_repair_step: the detector may leave the text alone.
PolishSkipped ==
    /\ At("polish")
    /\ Follow(run, "skipped")
    /\ UNCHANGED << conf, job, row, db, retries, seen >>

\* Mutant: the verdict on the text before the polishing is kept.
PolishKeepsVerdict ==
    /\ At("polish")
    /\ \E edited \in {Current, NewText} :
         /\ Commit([row EXCEPT !.edited = edited])
         /\ Follow([run EXCEPT !.edited = edited], "ok")
         /\ Forget
    /\ UNCHANGED << conf, job, retries >>

Polish ==
    /\ At("polish")
    /\ \E edited \in {Current, NewText} :
         /\ Commit([row EXCEPT !.edited = edited])
         /\ Follow([run EXCEPT !.edited = edited, !.latest = NoResult], "ok")
         /\ Forget
    /\ UNCHANGED << conf, job, retries >>

\* What the final validation judges: the result at hand, or the text of the
\* row, of which the content of an earlier publication or edit comes first.
\* (The code's skip_revalidation is never taken: EnterChapter has sent such a
\* chapter to post-processing.)
FinalResults ==
    IF run.latest.given THEN {run.latest}
    ELSE LET text == EffectiveContent(row)
         IN  {Judged(text, ok) : ok \in Verdicts(text)}

\* apply_cleaned_validator_fields puts the text that was judged in the place
\* of each text the row has.
Cleaned(r, text) ==
    [r EXCEPT !.edited = IF @ = NoText THEN NoText ELSE text,
              !.draft  = IF @ = NoText THEN NoText ELSE text]

\* run_final and run_final_validator_flow.
FinalCheckPasses ==
    /\ Starts("final_check")
    /\ job' = StartedJob("final_check")
    /\ \E result \in FinalResults :
         /\ result.passed
         /\ row' = Cleaned(StartedRow("final_check"), result.text)
         /\ db' = StartedRow("final_check")
         /\ Follow(run, IF result.block THEN "blocked" ELSE "ok")
         /\ NotePassed(result.text, ~run.latest.given)
    /\ UNCHANGED << conf, retries >>

FinalCheckFails ==
    /\ Starts("final_check")
    /\ job' = StartedJob("final_check")
    /\ \E result \in FinalResults :
         LET r == Cleaned(StartedRow("final_check"), result.text)
         IN /\ ~result.passed
            /\ IF run.attempt >= 3
               THEN /\ Commit([r EXCEPT !.status = "draft"])
                    /\ Follow(run, "blocked")
               ELSE /\ Commit([r EXCEPT !.status = "draft", !.pstep = "writing"])
                    /\ Follow(run, IF result.block THEN "blocked" ELSE "fail")
    /\ UNCHANGED << conf, retries, seen >>

\* run_publish and finalize_validated_chapter.
Publish ==
    /\ At("publish")
    /\ Commit([row EXCEPT !.content = Or(row.edited, row.draft),
                          !.status = "validated", !.pstep = "validating"])
    /\ Follow(run, "ok")
    /\ UNCHANGED << conf, job, retries, seen >>

Published(r)     == [r EXCEPT !.status = "published", !.pstep = "published"]
PendingReview(r) == [r EXCEPT !.status = "pending_review"]

\* run_chapter_post_processing: extraction and publication are one commit.
PostPublishes ==
    /\ Starts("post")
    /\ job' = StartedJob("post")
    /\ Commit(Published(StartedRow("post")))
    /\ Follow(run, "ok")
    /\ UNCHANGED << conf, retries, seen >>

PostNeedsReview ==
    /\ Starts("post")
    /\ job' = [status |-> "paused", step |-> "extractor"]
    /\ Commit(PendingReview(StartedRow("post")))
    /\ Follow(run, "ok")
    /\ UNCHANGED << conf, retries, seen >>

PostTimesOut ==
    /\ Starts("post")
    /\ FailRun(StartedJob("post"),
               [StartedRow("post") EXCEPT !.status = "postprocess_failed"])
    /\ UNCHANGED conf

----------------------------------------------------------------------------
(* How a walk ends: _process_single_chapter and the batch loop.            *)

\* OUTCOME_PAUSE.
PauseAtAnchor ==
    /\ run.at \in DOMAIN PauseAnchor
    /\ job' = [status |-> "paused", step |-> PauseAnchor[run.at]]
    /\ Commit(row) /\ EndRun
    /\ UNCHANGED conf

\* Mutant: the attempts are not counted.
RetryChapterUncounted ==
    /\ run.at = "@retry_chapter" /\ ~Paused
    /\ job' = [job EXCEPT !.step = "writer"]
    /\ Commit(row)
    /\ run' = Entering(run.attempt)
    /\ UNCHANGED << conf, retries, seen >>

\* OUTCOME_RETRY: the chapter is entered again, at the Writer.
RetryChapter ==
    /\ run.at = "@retry_chapter" /\ ~Paused
    /\ job' = [job EXCEPT !.step = "writer"]
    /\ Commit(row)
    /\ run' = Entering(run.attempt + 1)
    /\ UNCHANGED << conf, retries, seen >>

\* The walk is done: the batch loop leaves a paused job where it is and takes
\* any other job past this chapter.
LeaveChapter ==
    /\ run.at = "@done"
    /\ job' = IF Paused THEN job ELSE [status |-> "completed", step |-> "planner"]
    /\ Commit(row) /\ EndRun
    /\ UNCHANGED conf

\* check_paused, at the entry, before a checked step and before a retry; the
\* post-processing looks twice, the second time with its row committed.
StopForPause ==
    /\ Paused
    /\ run.at \in Checked \cup {"enter", "@retry_chapter"}
    /\ run.at \in Checked => run.executed < MaxSteps
    /\ db' \in {db} \cup {StartedRow(id) : id \in {run.at} \cap {"post"}}
    /\ row' = db' /\ EndRun
    /\ UNCHANGED << conf, job >>

----------------------------------------------------------------------------
(* Failures of a step.                                                     *)

CallsModel ==
    {"plan", "draft", "pre_check", "review", "force_fix", "post_check", "polish",
     "final_check", "post"}

\* What a step may have committed when it breaks: its anchor, the outline, the
\* text of the local repair.
Midway ==
    CASE run.at \in Checked -> {StartedRow(run.at)}
      [] run.at = "plan" /\ Plans -> {[row EXCEPT !.outline = "full"]}
      [] run.at = "post_check" /\ ~run.polished -> {[row EXCEPT !.edited = NewText]}
      [] OTHER -> {}
Broken == Midway \cup (IF run.at \in Checked THEN {} ELSE {row})

\* The step does not begin: MAX_STEPS_PER_CHAPTER, or set_job_step refuses.
OutOfSteps == run.at \in StepIds(conf) /\ run.executed >= MaxSteps
CannotStart == OutOfSteps \/ (Refused(run.at) /\ ~Paused)

\* Any error but a JSON one fails the job, where the step had got to.
StepFails ==
    /\ \/ CannotStart /\ FailRun(job, row)
       \/ /\ ~CannotStart /\ run.at \in CallsModel /\ Starts(run.at)
          /\ \E r \in Broken : FailRun(StartedJob(run.at), r)
    /\ UNCHANGED conf

\* What a dying process may leave committed: in a step, what stood before it
\* or its anchor; the post-processing commits its row before its job.
Points == {<< job, db >>}
          \cup (IF Starts(run.at) THEN {StartedJob(run.at)} \X Midway ELSE {})
          \cup (IF Starts("post") THEN {job} \X Midway ELSE {})

\* The orphan sweep marks a chapter it finds in its post-processing; the API's
\* startup recovery ends the job and leaves the chapter.
Swept(j, r) ==
    IF ~Paused /\ j.step = "extractor" /\ r.status = "post_processing"
    THEN {r, [r EXCEPT !.status = "postprocess_failed"]} ELSE {r}

\* The process dies; the job is failed afterwards, unless the user paused it.
Crash ==
    /\ run.at # "idle"
    /\ \E point \in Points :
         LET j == point[1]
             r == point[2]
         IN /\ job' = IF Paused THEN j ELSE [j EXCEPT !.status = "failed"]
            /\ db' \in Swept(j, r)
    /\ row' = db' /\ EndRun
    /\ UNCHANGED conf

----------------------------------------------------------------------------
(* handle_json_parsing_error: an agent's answer does not parse.  The Writer *)
(* answers in prose; the quick rules and a kept outline ask no one.         *)

EditorJson == run.at \in {"review", "force_fix", "post_check", "polish"}
UsableText(r) == Or(r.edited, Or(r.draft, r.content))

JsonFails ==
    /\ run.at \in CallsModel \ {"draft"} /\ Starts(run.at)
    /\ run.at = "pre_check" => ~conf.editor
    /\ run.at = "plan" => Plans
Unanswered == IF run.at = "plan" THEN {row} ELSE Broken

\* _mark_retry: twice, from the Planner.  The batch loop's next turn merges
\* the job's copy, which says running, over a pause made meanwhile.
JsonRetry ==
    \E r \in Unanswered :
        /\ JsonFails /\ retries < 2
        /\ retries' = retries + 1
        /\ Commit([r EXCEPT !.status = "draft"])
        /\ job' = [status |-> "running", step |-> "planner"]
        /\ run' = Entering(1)
        /\ UNCHANGED << conf, seen >>

\* _schedule_editor_schema_rewrite: the third time, if the Editor's answer
\* breaks its schema, once more from the Writer.
JsonEditorRewrite ==
    \E r \in Unanswered :
        /\ JsonFails /\ EditorJson /\ retries = 2 /\ UsableText(r) # NoText
        /\ retries' = retries + 1
        /\ Commit([r EXCEPT !.status = "draft", !.edited = NoText, !.pstep = "writing"])
        /\ job' = [status |-> "running", step |-> "writer"]
        /\ run' = Entering(1)
        /\ UNCHANGED << conf, seen >>

\* _force_save_usable_text: any other answer, and an Editor's that is not JSON
\* at all (_is_editor_schema_error); the text there is is published.
ForceSaved(r) ==
    [r EXCEPT !.content = UsableText(r), !.status = "validated", !.pstep = "validating"]

JsonForceSave ==
    /\ \E r \in Unanswered :
         /\ JsonFails /\ retries >= 2 /\ UsableText(r) # NoText
         /\ \/ /\ \/ Commit(Published(ForceSaved(r))) /\ run' = AtStep("@done", 1)
                  \/ Commit(PendingReview(ForceSaved(r))) /\ run' = Entering(1)
               /\ job' = [StartedJob(run.at) EXCEPT !.status = "running"]
               /\ retries' = retries + 1 /\ Forget
            \/ FailRun(StartedJob(run.at), ForceSaved(r))
    /\ UNCHANGED conf

\* _fail_without_usable_text: the answer is kept as the chapter's error.
GivenUp(r) == [r EXCEPT !.status = "failed"]

\* That, or _fail_after_editor_schema_rewrite.
JsonGivesUp ==
    \E r \in Unanswered :
        /\ JsonFails
        /\ \/ retries >= 2 /\ UsableText(r) = NoText
           \/ retries >= 3 /\ EditorJson
        /\ FailRun(StartedJob(run.at), GivenUp(r))
        /\ UNCHANGED conf

----------------------------------------------------------------------------
(* The user.  Edits and reviews are taken between runs only (bound).       *)

\* pause_project.
UserPauses ==
    /\ run.at # "idle" /\ job.status = "running"
    /\ job' = [job EXCEPT !.status = "paused"]
    /\ UNCHANGED << conf, row, db, run, retries, seen >>

\* resume_project, reset_job_for_resume, and the claim that follows: a job
\* stopped at the validator restarts at the Writer with one rewrite opened.
UserResumes ==
    /\ run.at = "idle" /\ job.status \in {"paused", "failed"}
    /\ LET blocked == job.step = "validator"
       IN /\ job' = [status |-> "running",
                     step |-> IF blocked THEN "writer" ELSE job.step]
          /\ Commit([db EXCEPT !.count = IF blocked /\ @ > 0 THEN @ - 1 ELSE @])
    /\ run' = Entering(1)
    /\ UNCHANGED << conf, retries, seen >>

\* validate_and_apply_chapter_edit.
UserEdits ==
    /\ run.at = "idle" /\ db.status \notin {"absent", "published"}
    /\ \E status \in {"validated", "audit_failed"} :
         Commit([db EXCEPT !.edited = NewText, !.content = NewText,
                           !.status = status, !.pstep = "validating"])
    /\ UNCHANGED << conf, job, run, retries, seen >>

\* publish_reviewed_extractor_chapter.
UserPublishesReviewed ==
    /\ run.at = "idle" /\ db.status = "pending_review"
    /\ Commit(Published([db EXCEPT !.content = EffectiveContent(db)]))
    /\ UNCHANGED << conf, job, run, retries, seen >>

----------------------------------------------------------------------------
Init ==
    /\ conf \in Configs
    /\ job = [status |-> "running", step |-> "planner"]
    /\ row = NoRow /\ db = NoRow
    /\ run = Entering(1)
    /\ retries = 0
    /\ seen = NothingSeen

Enter  == EnterChapter \/ EnterPendingReview
Write  == Plan \/ PlanEmpty \/ LoopHead \/ Draft
Edit   == PreCheck \/ Review \/ ForceFixDisabled \/ ForceFix \/ Polish \/ PolishSkipped
Check  == PostCheckPasses \/ PostCheckFails \/ FinalCheckPasses \/ FinalCheckFails
Settle == Publish \/ PostPublishes \/ PostNeedsReview \/ PostTimesOut
Leave  == PauseAtAnchor \/ RetryChapter \/ LeaveChapter \/ StopForPause

RunStep == Enter \/ Write \/ Edit \/ Check \/ Settle \/ Leave
Failure == StepFails \/ Crash \/ JsonRetry \/ JsonEditorRewrite \/ JsonForceSave
           \/ JsonGivesUp
User    == UserPauses \/ UserResumes \/ UserEdits \/ UserPublishesReviewed

Next == RunStep \/ Failure \/ User

Spec == Init /\ [][Next]_vars

\* A worker's task that can take its next step takes it; nobody has to pause,
\* resume or edit, and nothing has to fail.
FairSpec == Spec /\ WF_vars(RunStep)
----------------------------------------------------------------------------
(* Properties.                                                             *)

TextOrNone == Texts \cup {NoText}

RowType == [status : ChapterStatus,
            pstep : {PipelineStep[i] : i \in DOMAIN PipelineStep},
            draft : TextOrNone, edited : TextOrNone, content : TextOrNone,
            count : 0..MaxRewrites, outline : {"none", "bare", "full"}]

RunType == [at : CallsModel \cup {"idle", "enter", "loop_head", "publish", "@done",
                                  "@retry_chapter"} \cup DOMAIN PauseAnchor,
            attempt : 1..3, start : Anchor \cup {"validating", "extracting"}, executed : 0..MaxSteps,
            draft : TextOrNone, edited : TextOrNone, count : 0..MaxRewrites,
            decision : {"rewrite", "keep", "blocked", "none"},
            latest : [given : BOOLEAN, text : TextOrNone, passed : BOOLEAN, block : BOOLEAN],
            skip : BOOLEAN, polished : BOOLEAN]

\* Types and ranges: among them, that neither the row's nor the run's count of
\* rewrites ever exceeds the budget, and that a chapter is attempted at most
\* three times in a run (mark_editor_rewrite, the attempt budget).
TypeOK ==
    /\ conf \in Configs
    /\ job \in [status : {"running", "paused", "failed", "completed"},
                step : Anchor \cup {"validating", "extracting"}]
    /\ row \in RowType /\ db \in RowType /\ run \in RunType
    /\ retries \in 0..4
    /\ seen \in [passed : SUBSET Texts, rejected : SUBSET TextOrNone,
                 reviewed : BOOLEAN, blank : BOOLEAN]

\* What run_publish makes the content of a chapter has passed a comprehensive
\* validation as it is: never the quick rules only, never the verdict on
\* another text (run_final reuses latest_validator_result).
PublishedTextPassed == [][Publish => row'.content \in seen.passed]_vars

\* On a chapter that had no content when the run entered it, run_publish takes
\* the newest text the run has, with the polishing and the correction done
\* after the last validation, and never one of an earlier stage.
NewestTextPublished == [][Publish /\ seen.blank => row'.content = Current]_vars

\* No walk of the default graph, whatever the verdicts, comes to the step
\* limit: every loop is cut by its budget (run_chapter_graph).
ConvergesWithinLimit == ~OutOfSteps

\* set_job_step never refuses a step the graph leads to, whatever step a
\* restart, a retry or an edit has left the chapter's row at.
NeverStepsBack == ~Refused(run.at)

\* A run that restarts at the Editor does not write over the draft before the
\* Editor has read it (run_outline: or the resume would overwrite a text the
\* user has already seen).
ResumedDraftReviewed ==
    [][Draft /\ run.start = "editor" /\ run.draft # NoText => seen.reviewed]_vars

\* A run that is started comes to an end: published, paused or failed.
RunSettles == (run.at # "idle") ~> (run.at = "idle")

\* "Published chapters are terminal": once committed as published, a chapter
\* keeps its status and its content (chapter_progress.is_frozen).
PublishedIsFrozen ==
    [][db.status = "published" => db'.status = "published" /\ db'.content = db.content]_vars

\* run_publish does not settle a text that the Editor has sent back and that
\* neither a rewrite nor a forced correction has replaced (run_force_revise).
RejectedNotPublished == [][Publish => row'.content \notin seen.rejected]_vars
=============================================================================
