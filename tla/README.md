# story-loom: TLA+ models, checks and proofs

story-loom ("Novel Assistant") writes serial novels with a pipeline of language
model agents: a planner outlines a chapter, a writer drafts it, an editor reviews
it, a validator checks it against rules and facts, an extractor files what it
changed in the world and publishes it. It is a FastAPI application with an
asyncio worker (in the API's process or in processes of its own), PostgreSQL and
a Chroma vector store. This directory holds TLA+ modules for its concurrent
core, the TLC configurations that model-check them, and theorems proved with
TLAPS. Paths below are relative to `src/`.

## 1. Inventory

| component | state it keeps | operations | how it interacts |
|---|---|---|---|
| Job scheduler (`worker_support/orchestrator.py`) | `jobs` rows | `poll_jobs`, `claim_pending_jobs`, `process_job`, `check_paused` | claims rows under row locks, starts a task per row, asks the registry for free capacity |
| Task registry (`task_registry.py`) | one dict per process: job id -> asyncio task | `register` (cancel the old task and wait), `cancel_and_wait`, `reap_finished`, `is_active` | called by the scheduler, the sweep, and the API's rewrite and cancel |
| Orphan cleaner, startup recovery | none | sweep of stale running rows; reset at the API's start | change rows other processes are using |
| Project commands (`services/pipeline_commands.py`, `pipeline_service.py`) | `jobs`, `novels` | generate, pause, resume, rewrite | the user, at any time, beside the worker |
| Worker administration (`worker_admin_service.py`) | `jobs`, the tunable `worker_claim_paused` | pause/resume claiming, cancel, retry | read and commit are separate |
| Batch runner (`generation_job_batch_runner.py`) | chapters left, JSON retries per chapter | bootstrap of the skeleton, chapter loop, its handlers | the session's copies of job and novel against the rows |
| Status rules (`pipeline_transitions.py`) | none | fail/pause/cancel/complete, `set_job_step` with its order check | used by all of the above |
| Single-chapter runner (`generate_job_runner.py`) | the blackboard `ChapterRunState` | entry and resume policy, outcome of a walk | runs the graph, writes the chapter row |
| Chapter graph and interpreter (`services/chapter_graph.py`, `chapter_graph_runner.py`) | the graph (data), the place in it, step count | `default_graph`, `resolve_edge`, `run_chapter_graph`, parse and validate | asks the steps for verdicts |
| Chapter steps (`chapter_steps.py` and the flows it calls) | row and blackboard | eleven adapters, outline to post-processing | agents, database, status rules |
| JSON error recovery | retries | retry, Editor rewrite, forced save, give up | winds job and chapter back, or publishes |
| Post-processing and publication (`knowledge_merger.py`, `chapter_publish.py`, `post_processing_job.py`) | chapter, knowledge tables, outbox rows | extraction, review gate, promotion, publication, background job | inside the chapter's task, a background job or a user's review |
| Chapter administration (`chapter_service.py`, `chapter_deletion.py`, ...) | chapters and what hangs on them | edit, review, publish, delete the last one | the user, beside a running job or an extraction |
| Vector outbox (`vector_outbox_worker.py`, `storage_repair.py`) | outbox rows, Chroma, branch locks | enqueue, claim, lease, sync, retry, recovery, clean-up, withdrawal | a loop in each worker, a script, and the routes that archive and delete |
| Vector store (`vector_chroma.py`, `vector_retrieval.py`) | one executor thread, a start time, a generation | run with timeout, leave a hung thread behind | every coroutine of a process |
| Character cards (`character_card_service.py`, ...) | cards, states, links, digests, past payloads | observe, edit, roll back, show to a writer | extractions and users |
| Character branches (`character_branch_service.py`, ...) | branches, their chapters and jobs | create, generate, edit, archive, cancel, retry, recover | users and the branch worker |
| Novel memory (`novel_memory_*.py`) | atoms, doctrines, evidence, scenes | review, promote, decide, delete, recall | written by extractions, read by prompts |
| Workflow administration (`workflow_admin_service.py`, `workflow_nodes.py`, `system_configs_service.py`) | workflows, nodes, prompt templates | create, clone, edit, delete | users; checks and commits without locks |
| Graph and stages of a workflow (`chapter_graph.py`, `pipeline_stages.py`, `pipeline_config_service.py`) | two columns of a row | save and validate, expand, load at a chapter's entry | the interpreter walks what users drew |
| Configuration caches (`config_versions.py`, `runtime_tunables_service.py`, `prompt_templates.py`, `settings_store.py`) | a per-process copy of a table and its stamp | check, load, install, expire, clear | other processes write the tables |
| Model calls (`agents/base.py`, `llm_streaming.py`, `llm_json.py`) | attempts, parser of a stream | retry, correct the address, switch to the backup, fall back to text | every agent |
| Prompt assembly and continuity (`continuity_contract.py`, `chapter_continuity.py`, `context_compaction.py`, `memory_manager.py`) | stored outline, the run's outline, facts | split and check an outline, build a handoff, compact it, cut a manuscript | planner, writer and validator read different copies |
| Experiment recorder, frontend, migrations | - | - | inputs or observers of the above |

What is hard here, and makes the properties worth stating:

* **two copies of every row.** Sessions live for hours with `expire_on_commit`
  off; a task decides on a copy, flushes only what it changed, and the user
  changes the row meanwhile.
* **cancellation is asynchronous.** A job can be claimed again while its former
  task unwinds, and the wait for it has a time limit; registries are per process.
* **processes die** between any two commits, and a sweep that judges by age must
  not kill a slow task.
* **three nested loops** write a chapter (rewrites, attempts, JSON retries), each
  with its counter elsewhere, and a resume re-enters them anywhere.
* **verdicts are reused** for texts that a later step changes.
* **copies follow their source** (vector index, caches, stored outlines) each in its own
  way, with retries, leases and deletions in between.
* **history is kept sparsely** (states of cards, superseded facts) and is asked for
  "as of chapter n" after late, repeated and deleted chapters.

`PROJECT.json` lists the hazards at their lines with the properties that cover
each, or the reason why none does.

## 2. Modules

### PipelineTransitions, JobControl: the life of generate jobs

`PipelineTransitions` has the status rules as operators. `JobControl` models the
rows of a set of projects, any number of worker processes, their registries,
tasks running `process_job`, and the user's commands.

| code | model |
|---|---|
| `jobs.status`, `novels.status`, age of `updated_at`, `worker_claim_paused` | `status`, `novel`, `stale`, `claimPaused` |
| a process, `_active_tasks`, `poll_jobs`' locals, its cached tunable | `up`, `registry`, `claimed`, `joining`, `seesPaused` |
| an asyncio task, the session's copies, chapters left | `pc`, `job`, `host`, `mem`, `memNovel`, `rounds` |
| a pass of `poll_jobs`; `create_task` + `register`; end of its wait | `PollClaim`, `PollSpawn`, `PollRegister` |
| `process_job`, bootstrap, loop top with its merge, a chapter's outcomes, the handlers | `Start`, `Bootstrap*`, `LoopTop`, `TargetReached`, `PickChapter`, `Checkpoint`, `Chapter*`, `PostProcessingTimeout`, `FinishBatch`, `FailBatch*` |
| generate, pause, resume, claim switch (one transaction each) | `Generate`, `Pause`, `Resume`, `ToggleClaim` |
| cancel, retry, rewrite (cancel the task, wait, read, commit) | `BeginRequest`, `RequestReads`, `RequestWrites` |
| orphan sweep, death and start of a process | `OrphanSweep`, `Crash`, `Restart` |

A commit of a task goes through `Flush(row, old, new)`: an attribute the session
did not change is not written. That is what makes a lost pause visible, and why
most stale copies are harmless.

### ChapterGraph, ChapterRun: one chapter

`ChapterGraph` is the default stage graph as a function from step ids to steps,
built from the workflow's switches as `default_graph` builds it, and the
interpreter's questions: which edge a verdict takes, whether its budget is spent,
where it leads. `ChapterRun` is one chapter from the claim of its job to its
publication.

| code | model |
|---|---|
| the switches of `PipelineRuntime` | `conf` (a CONSTANT set of them) |
| `jobs.status`, `current_step` | `job` |
| the chapter row, in the session and committed | `row`, `db` |
| `ChapterRunState`, the interpreter's `step_id` and `executed` | `run` |
| `json_error_retries` | `retries` |
| entry of `_process_single_chapter`, start policy, `prepare_chapter_for_step` | `EnterChapter`, `EnterPendingReview` |
| the adapters, one action per verdict group | `Plan`, `PlanEmpty`, `LoopHead`, `Draft`, `PreCheck`, `Review`, `ForceFix*`, `PostCheck*`, `Polish*`, `FinalCheck*`, `Publish`, `Post*` |
| outcomes of the walk and of the batch loop | `PauseAtAnchor`, `RetryChapter`, `LeaveChapter` |
| `check_paused` raising | `StopForPause` |
| an exception in a step, before or after what it commits | `StepFails` |
| death of the process, then sweep or startup recovery | `Crash` |
| `handle_json_parsing_error` | `JsonRetry`, `JsonEditorRewrite`, `JsonForceSave`, `JsonGivesUp` |
| the user | `UserPauses`, `UserResumes`, `UserEdits`, `UserPublishesReviewed` |

A text is an identity, not a string; two texts are the same when they differ at
most in the leading white space the validator strips. A validator may pass or
fail any text except the empty one, which it fails; an agent may return the text
it was given or a new one. `seen` is a history variable read by properties only:
the texts that passed a comprehensive validation in this walk, those the Editor
rejected in this run, whether the Editor answered, and whether the chapter was
blank at entry.

`ChapterRun` and `JobControl` meet at the job: a step of a task in `JobControl` between `pick`
and `after` is a whole run of `ChapterRun`, abstracted to its outcomes.

### DeliveryPromise, VectorOutbox: the queue of projections

`DeliveryPromise` is the abstract queue: a record is owed, settled only when all
it holds is in the index, given up only after the allowed failures, dropped
unsettled only with its scope. `VectorOutbox` is what the code does, and
`QueueKeepsPromise` is the refinement.

| code | model |
|---|---|
| `vector_outbox` rows, `started_at` older than the lease | `row` (`st`, `retries`, `old`) |
| the collections: per item, the row whose content they show | `index` |
| branch, chapter and project rows, and the clean-up after their commit | `branch`, `chapter`, `project`: `ArchiveBranch`/`ClearBranch`, `DeleteChapter`/`ClearChapter`, `DeleteProject`/`ClearProject` |
| a session of a loop or of `reconcile_storage.py` | `drain[d]`: `pc`, the claimed ids, what is left to write, the count it read |
| `FOR UPDATE` on the branch | `branchLock` |
| claim; read; lock; one upsert per item; commit | `Claim`, `Fetch`, `LockBranch`, `Write`, `CommitDone`, `CommitFailed` |
| start-time recovery, the script's reset, purge, a dead process | `StartPoller`, `StartScript`, `Purge`, `Stop`, `LeaseExpires` |

A row is read once per sync: a later commit overwrites whatever another session
did to it meanwhile, and an update of a deleted row ends the loop (`Dead`).

### The other services

| module | what it is about | code |
|---|---|---|
| `ChromaExecutor` | calls to Chroma: lock, thread, timeout, and the thread that is left behind; `_run_tracked`'s tests and assignments are steps of their own, age is counted in ticks | `vector_chroma.py` |
| `BranchLife` | branches of one character at one anchor and their jobs: an edit reads and commits in two steps, a walk is begin, check and end | `character_branch_service.py`, `character_branch_generation*.py` |
| `CharacterCards` | cards, their sparse history of states, links, digests, rollback, the writer's view; an extraction lists and applies in two steps | `character_*_service.py`, `character_context.py` |
| `Canon` | candidates, review against accepted facts, promotion, doctrines, evidence, the publication of the chapter, decisions, deletion, recall; what a loop over patches records is defined by the place of each patch among them | `knowledge_merger.py`, `novel_memory_*.py`, `chapter_*.py` |
| `LlmStream` | one streamed answer, cut anywhere, with `<think>` parts | `llm_streaming.py`, `llm_responses.py` |
| `LlmCall` | attempts of a call: active provider, corrected address, backup, JSON fallback, beside a change of settings | `agents/base.py`, `llm_json.py` |
| `Workflows` | workflows, nodes, templates, projects; a request checks and commits in two steps and keeps what it read between them (`pending`) | `workflow_admin_service.py`, `workflow_nodes.py`, `system_configs_service.py` |
| `ChapterContract` | what an outline leaves unknown, from planner to writer, validator and the next chapter | `continuity_contract*.py`, `chapter_continuity.py` |
| `HandoffLedger` | the ledgers of the handoff of any chapter, read under limits, and their compaction; a ledger is a set of items, their order is `ItemBefore` | `chapter_continuity.py`, `context_compaction.py` |
| `GraphRules` (on `ChapterGraph`) | parsing, validation and cycle check of drawn graphs, and walks of chapters under graph and stages saved apart | `chapter_graph.py`, `pipeline_stages.py`, `pipeline_config_service.py` |
| `ConfigCache` | stamps and caches of tunables, prompts and settings, with loads in flight | `config_versions.py`, `runtime_tunables_service.py`, `settings_store.py` |
| `ManuscriptSuffix` | the suffix of a short manuscript, from lengths read first and texts read later | `memory_manager.py`, `short_story_context.py` |

`HandoffLedger` takes its facts from an action that does to them what `Canon`
does; `ChapterContract` hands on what `ChapterRun` publishes; `LlmStream` is what
one attempt of `LlmCall` receives. Those are the interfaces; the modules share no
variable, and `MCServices` runs them one at a time: a behaviour picks a `part` and
takes only its steps, so that the states add up instead of multiplying.

## 3. What the runs show

| run | instance | result |
|---|---|---|
| `JobsOneProcess` | API with its worker, 1 novel, 2 rows, 3 tasks, 2 slots, 3 commands, 1 crash, slow chapters, registration waits that time out | one task per job; the sweep spares live tasks; no completed job is redone by a step that has not asked for it |
| `JobsTwoNovels` | separate worker, 2 novels, 1 slot, 3 commands, 1 crash | never more tasks than `max_concurrent_jobs`, although rows and tasks disagree |
| `JobsLive` | separate worker, 2 novels, 3 rows of which the claim looks at one, 1 slot, fairness, 3 commands, 1 crash | a running row does not run for ever; a queued row of a generating novel is claimed, unless claiming is paused or the rows the claim looks at are all of novels that do not generate |
| `ChapterWalks` | 5 workflows, 2 rewrites, 3 attempts, every failure, crash, pause, resume, edit | a walk takes at most 15 steps; no step is refused by the order check; what `run_publish` settles has passed a comprehensive validation, and is the newest text of a chapter that began blank; a resume at the Editor keeps the draft |
| `ChapterSettles` | all loops of the graph, 1 rewrite, fairness of the worker's steps | a run ends, whatever the verdicts |
| `Services` | the thirteen parts below, each by itself | see the next table |
| `JobsPauseLost` | 2 commands | **violated**: a task's stale copy is merged over the user's pause |
| `JobsDatabaseError` | 1 command | **violated**: a novel stays generating with no job after a database error |
| `JobsTwoWorkers` | 2 worker processes | **violated**: pause and resume put the same job in two processes |
| `ChapterFrozen` | full workflow | **violated**: a published chapter is entered again and rewritten |
| `ChapterRejected` | full workflow | **violated**: a text the Editor rejected is published after a JSON retry |
| `CanonReplaced` | two chapters, two extractions | **violated**: an automatic review that rejects everything still supersedes the fact it keeps |

The last six are disagreements between the code and its own comments and
documents; `PROJECT.json` ("findings") quotes the line and tells the path.

What `Services` shows, part by part:

| part | instance | result |
|---|---|---|
| outbox | one loop, one run of the script, 2 rows, 1 item, 2 tries, 1 crash or withdrawal | `QueueKeepsPromise` (refinement), `ArchivedStaysEmpty`; under fairness of the loops `QueueDrains`: a pending row is delivered, fails or is withdrawn unless a dead process holds it or no loop is left |
| chroma | 2 callers, timeouts of 1 tick, 1 recycling | `JudgedByRunningCall`: a hung thread is left behind, a working one is not, until an abandoned one has written the shared start |
| branch | 2 branches, 2 jobs | `ActiveBranchIsUnique` and `ArchivedIsFinal`, except for an edit that read before the archive. As the code stands no walk reaches the state after it (see below) |
| cards | 2 cards, 2 names, 2 chapters, 2 extractions, 1 edit | `SparseHistoryIsExact`, `WriterSeesNoFuture`, `NewcomersAreLinked` |
| canon | 3 statements on 2 keys, 2 chapters, 2 sessions, 3 acts, scores 0 and 1 | `CanonWasPublished`, `NothingBeyondLast`, `RecallShowsNewest` |
| stream | tags of 3 characters, replies of at most 4 tags, letters and half tags, chunks of 1 and 2 | `AnswerIsVisibleText`: exactly the visible text, however it was cut |
| call | retries 0 to 2, 2 hosts with and without `/v1`, 1 change of settings | `EveryProviderIsAsked`; `NothingIsRare`: a call returns nothing in two cases only |
| workflow | a built-in and 2 custom workflows, 1 node, 3 requests, each of which may commit between another's check and commit | `InUseIsThere`, `PromptsAreThere`, but for what was deleted while a request that counted on it was under way |
| contract | 1 matter, 2 rounds, 1 edit of the outline | `CluesStayClues`, `OneContract` |
| handoff | 3 keys, 3 chapters, 4 statements, limits of 2 and 3, the handoff of every chapter | `LedgerIsCurrent`: what is inherited is the newest; a ledger is the book as of one point, also when the limit cuts; a prompt shows an unbroken stretch |
| graph | 11 drawings, some with a budget of their own or one they name without defining it, 7 rows, 2 rewrites, 3 attempts | `LoopsPassABudget`, `OwnOrderIsKept` |
| config | 3 tables, 2 keys, 2 readers, 2 or 3 writes, writers between commit and cache | `CachesAreCurrent`, row by row |
| suffix | 3 sections of 5 shapes, 1 edit | `SuffixIsEnough` |

Several of these hold only under a condition the property names (a history
variable such as `revived`, `crossed`, `mismatched`, `orderly`, `late`). Each condition is a
way in which the code really fails; it is stated as narrowly as TLC allows, and
section 6 lists the failures.

### Bounds, and why they are enough

* `Tasks`, `MaxRounds`, `MaxCommands`, `MaxCrashes` bound `JobControl`. Three
  tasks are an old one, its replacement and one of another job; three commands
  are a start, a stop and a second start (the shortest history in which a row is
  claimed twice), one crash is enough to orphan a row or leave a claim without a
  task. TLC takes tasks as a symmetry set in the safety runs, never in the run
  with liveness. `ScanLimit` (`max(4 * limit, 32)` in the code) is the number of
  rows in the safety runs, where a cut would only take claims away, and 1 of 3 rows
  in `JobsLive`, where it decides who starves.
* `ChapterRun` has no bound on the number of events: any number of pauses,
  crashes, edits and retries may happen, and the state space is finite because
  the identity of a text that nobody holds any more is used again. The eleven
  `Texts` of `ChapterWalks` are more than the nine a state can hold (`TextAssumption`).
* `MaxRewrites` is 2, the code's default (`pipeline_runtime.py:53-57`), in
  `ChapterWalks`; 1 elsewhere. `MaxSteps` is 15 in `ChapterWalks`, against 200
  in the code: with it the step limit is never met, and with 14 it is, so 15 is
  the longest walk for two rewrites.
* Workflow switches are fixed while a chapter runs (the code loads them at each
  entry). The five instances are: everything on; nothing forced, without the
  polish; editor loop off; no editor with, and without, a validation before it.
* A job's batch is one chapter in `ChapterRun`; edits and reviews by the user
  happen between runs; the Writer's answer is not empty; `has_extractor = FALSE`,
  custom graphs and job parameters such as `use_existing_outline` are left out.
* `Services`: limits are as small as they can be with one item on each side
  (`ClaimLimit` 1 with 2 rows, `MaxRetries` 2, `EvidenceLimit` 3 with 4 statements,
  `AtomLimit` 1 with 2 keys, 2 chapters so that one is earlier and one later).
  Two sessions, callers or branches are a race; a third would repeat one of the
  two. `MaxUpsets` 1 is a crash or a withdrawal in a run of the outbox: the two
  together are what the proof of section 4 covers. The time of `ChromaExecutor`
  is counted to the threshold; `MaxChanges`, `MaxEdits`, `MaxRequests`,
  `MaxOutlineEdits`, `MaxActs`, `MaxTextEdits` count what users do.
* `CHECK_DEADLOCK FALSE` everywhere: a system whose jobs are done and whose users
  do nothing stops.

### Fairness

`JobControl!Fairness`: loops and coroutines run on, time passes (a row that
nobody touches becomes stale), requests in flight are served, a dead process is
started again. Not fair: users, crashes, and the commits inside a chapter, which
end because every model call has a timeout. `ChapterRun!FairSpec`: weak fairness
of `RunStep`, the steps of the worker's own task. No failure has to happen and no
user has to act; `RunSettles` holds against verdicts that always send back.

`VectorOutbox!OutboxFairness`: a loop that is up takes its next step. It is all
`QueueDrains` needs: a process that was stopped need not come back, leases need
not run out, and a call to the index may always fail. `MCServices` adds it for
the part of the outbox; in the other parts the loops are not up.

## 4. What is proved

`JobControl_proofs`, for every set of projects, rows, workers and tasks and every
value of the tunables, from the assumptions named in `JobControl` (row numbers
are naturals with a last one; markers such as `NoTask` are not members; bounds
are naturals):

* `TypeCorrect`: `Spec => [](TypeOK /\ TypeInv)`. `TypeOK` is not inductive: a
  step that copies the row of its job is well typed only because the job of a
  task, of a claim and of a request is a row that exists, and rows are never
  deleted; `rounds - 1` is a natural only because a task at the loop top has a
  round left. `TypeInv` adds exactly these facts (`TaskInv`, `ClaimInv`,
  `RequestInv`).
* `WithinConcurrency`: `Spec => []ConcurrencyBounded`, for any number of worker
  processes. `ConcurrencyBounded` counts tasks and says nothing of the registry
  that keeps them apart, so it is strengthened to `OwnerInv(w)` for every process
  `w`, whatever the others do: a running task of the process is registered or is
  the one `poll_jobs` is registering (`OwnersKnown`); an entry is a task of that
  job and that process (`EntriesTrue`); while a task waits to be registered, its
  job stays claimed and the task it replaces runs no more (`HandoverSafe`); a
  claimed row is fresh (`ClaimsFresh`); and the jobs that are active or claimed
  are no more than `MaxConcurrent` (`SlotsBounded`). The count is of active AND
  claimed jobs: `poll_jobs` counts active ones only, and that is enough because
  it claims again only after it has registered all it claimed. `FewBefore` is the
  counting argument of a claim (a set each of whose members has fewer than `c`
  before it has at most `c`), `OwnTasksDiffer` and `OwnTasksPlaced` say that the
  job is an injection from a process's running tasks into its places.
* `ProcessSingleWriter`: no process ever runs two tasks of one job, for any number
  of processes, from the same invariant.
* `OneWorkerSingleWriter` and `OneWorkerOrphanSparesLive`: with one worker process,
  `Spec => []SingleWriter`, and the action property `OrphanSparesLive`, which needs
  `ClaimsFresh`: without it the sweep could fail the row under a task that is not
  registered yet.
* `OneWorkerCompletedNotRedone`: with one worker process, `CompletedNotRedone`,
  another action property. A task writes its session's copy over the row, so what
  has to be invariant is that it knows of the completion (`CompletionKnown`): a
  task past its start whose row is completed holds a completed copy, and one that
  is at work on a chapter holds a running one. Only the task itself completes its
  row, and there is no other (`SoleWriter`).

The restriction to one process in the last three is not a convenience:
`JobsTwoWorkers` shows that `SingleWriter` is false with two.

`OldestIn` and `NewestIn` (a set of row numbers has a first and a last) rest on the
library's well-foundedness of the naturals.

`ChapterRun_proofs`, for every set of workflow switches, every set of texts that is
infinite or has more than nine (a state holds at most nine, and a step may need a
new one) and every `MaxRewrites > 0`:

* `InvariantHolds`: `Spec => []IInv`, the inductive invariant, one lemma per step of
  the graph and per way to leave, fail or resume. `RowsSound` relates the session's
  row to the committed one. `WalkInv` is nine conjuncts: where the walk may be under
  its switches and budgets (`OnGraph`), which pipeline step it has left behind
  (`StepKept`), what a waiting chapter and spent retries mean (`Waiting`), that a
  draft is there behind the Writer (`DraftThere`), what is carried from a resume to
  the loop (`Carried`), that blackboard and row hold the same texts (`Synced`), that
  a passed verdict is about the text it will publish (`Passed`), that a resumed draft
  is unread until the Editor answers (`Resumed`), and that the steps taken and the
  most that may be left are bounded (`Converging`).
* `TypeCorrect`, `StepsNeverRefused` (`NeverStepsBack`), `ValidatedTextPublished`
  (`PublishedTextPassed`), `NewestPublished` (`NewestTextPublished`),
  `EditorReadsFirst` (`ResumedDraftReviewed`): its consequences. The last three are
  action properties, and rest on `Passed`, `Synced` and `Resumed`: none of them is
  inductive without `Carried`, because a resume re-enters the loop at any step.
* `Converges`: `MaxSteps >= 5 * MaxRewrites + 5` implies `[]ConvergesWithinLimit`, by
  the measure in `Converging`. With `MAX_STEPS_PER_CHAPTER = 200` that is any
  `max_rewrite` up to 39; the code sets no upper limit to `max_rewrite`, hence the
  hypothesis.

`VectorOutbox_proofs`, for every number of rows, items, loops, runs of the script,
crashes and every `MaxRetries > 0`, from `OutboxAssumption` and
`NobodyAssumption` (the mark of a free lock is not a loop):

* `OutboxInvariant`: `OutboxSpec => []OutboxInv`, the inductive invariant.
  `OutboxTypeOK` alone is not inductive: a retry count stays in its range only
  because a row that may be tried has failed fewer than `MaxRetries` times
  (`RowOK`), and because the count a session works with was read from such a row
  (`DrainOK`), whatever has become of the row since. `DrainOK` also says what a
  session knows: the rows it holds were written, and all items of the current row
  that are not in `left` have reached the index. `LockInv` says that a session at
  work on a branch's row holds the branch, and that a held branch is open and its
  project kept.
* `OutboxTypeCorrect`, `ArchivedCollectionStaysEmpty`: its consequences.
  `ArchivedStaysEmpty` needs `LockInv`: the lock is what orders a write after an
  archive.
* `OutboxKeepsPromise`: `OutboxSpec => Promises!PSpec`, the refinement. Each action
  maps to one of the promise or to a stutter: `Enqueue` to `Promise`, `Write` to
  `Show` when it completes a row, `CommitDone` to `Settle` (by `DrainOK` all items
  are in the index, although the row may have been reset, failed or deleted
  meanwhile), `CommitFailed` to `Fail`, `StartScript` to `Renew`, `Purge` to
  `Forget`, archive and deletions to `Withdraw`, and so does a loop that finds its
  branch archived.

`OldestOf` (a set of claimed rows has an oldest) rests on the well-foundedness of
the naturals.

`Characters_proofs`, two parts. `BranchLife`, for any number of branches and jobs and
from no assumption:

* `BranchInvariant`: `BranchSpec => []BranchInv`. `JobKnown` and `Owned` say that
  jobs, chapters and edits belong to branches that were created, so that what
  stops a job or saves an edit never brings a branch into being beside an active
  one; `OneActive` is the property without cardinalities.
* `OneActiveBranch`: `ActiveBranchIsUnique`, from `OneActive` and the library's
  facts about the cardinality of the empty set and of singletons.
* `ArchivedBranchStays`: `ArchivedIsFinal`, an action property.

`CharacterCards`, for any finite set of cards, any names, states, chapters and edits,
and updates of any number in an extraction:

* `CardsInvariant`: `CardsSpec => []CardsInv`. Rows are what was seen; a chapter
  that was seen without a row of its own has the state of the row before it
  (`RowsAreSeen`); and a card that no hand has redated has its state from no later
  chapter than its last, which is in the tables what it was when the cards were
  listed (`DatesHold`).
* What an extraction does is defined by recursion over its updates. `Upwards` (what
  holds of 0, and of each number's successor, holds up to any number) replaces the
  induction, for it speaks of a set and not of an operator; `Standing` is what holds
  between two updates: a card the session knew is called what it was called, a
  newcomer has a name nobody had (`NamesKept`), and a card was noted once at most
  (`NotedAtMostOnce`), because the names of the updates differ and no newcomer takes
  the name of a later update (`SameFound`). `AppliedDoes` says what one update may do.
* `HistoryIsExact` (`SparseHistoryIsExact`) and `WriterIsShownThePast`
  (`WriterSeesNoFuture`) follow from the invariant, `NewcomersGetLinked`
  (`NewcomersAreLinked`) from the invariant and `NewcomersLinked`. The attempt to
  prove the last one showed that it is false with three names, where TLC had two: a
  card the user renames between the listing and the commit is still known to the
  session by its old name, and a newcomer that names the new one is not linked to
  it. The property says so now (`NamesAsListed`).

`Workflows_proofs`, two parts. `Workflows`, for any number of workflows, nodes, roles, prompts and projects
(the names that stand for nothing are not among them, and there is a role):
`WorkflowsInUseStay` (`InUseIsThere`) and `TemplatesStay` (`PromptsAreThere`), from
`FlowsInv`. A request commits what it decided on an earlier read, so the invariant
speaks of the request in flight (`PendingSound`): `Holds` says how much of its check
survives whatever commits before it does. A name it counts on is there or in
`crossed`; what it deletes is used by nobody, or only by what is in `crossed`; the
prompts it clones are there unless its clone is. `HoldsKept` is that for every
pair of requests; `CrossingIs` is what a commit in between adds to `crossed`.

`GraphRules`, for any rows, drawings and limits. Its assumptions say what a drawing
is made of, that the ids of its steps are none of the targets that leave a graph,
and that there is at least one rewrite and one attempt:

* `GuardedIsOrdered`: when the search of `_unguarded_cycles` finds nothing, there is an
  order of the graph's steps in which arrows without a budget only lead down, however
  steps are listed, verdicts written and budgets named. The search is a visit in a visit, so its invariant is
  about visits by the number that may lie below them: `Sound` says that a visit whose
  step was white leaves it black, keeps what was black, and, when it found no arrow
  to a grey step, has an order of all that is black if there was one before. The
  step of the visit goes on top (`OrderedWith`): its arrows lead to black steps.
* `DerivedIsAccepted`: the graph the code makes of any stages passes `validate_graph`.
  Its edges lead to steps listed later, or back to `loop_head` with a budget
  (`Onward`). `Safe` says of a visit which steps may be grey, by their place in the
  list, and that beyond the first two places the head of the loop has been reached,
  so that no arrow back begins a visit and there are levels enough below each.
* `LoopsAlwaysPassABudget` (`LoopsPassABudget`), from `LoopsInv`: what a row holds was
  accepted or is nothing, what the editor shows is parsed as it is (`ParsedAgain`), and
  `Descends`: since the last edge with a budget a walk has only gone down in the
  order of its graph. The property alone is not inductive: that a step did not run
  since says nothing of the next one.
* `OwnOrderIsAlwaysKept` (`OwnOrderIsKept`), from `OrderInv`: under a graph of the code's
  making, a chapter between the writer and the Editor stands at writing or editing
  (`InOrder`), for the loop is only entered from the first step, past which a chapter
  that begins at the Validator is sent by its rewrite count; and an agent whose
  stage is in the plan has its step in the order (`PlannedSteps`). The one start that
  is refused, at the planner without a planner's stage, is named in the property.

`Calls_proofs`, three parts:

* for any settings and answers and any budget of attempts: `ProvidersAsked`
  (`EveryProviderIsAsked`) and `AlmostAlwaysSomething` (`NothingIsRare`), from
  `LlmInv`. `Attempting` is what is true at the top of the loop of `call_llm`: who has been
  asked so far, by the attempt's number and the address it is about to take
  (`AtActive`, `AtBackup`).
* for any reply, any two tags and chunks of any length: `AnswerShowsVisibleText`
  (`AnswerIsVisibleText`), from `StreamInv`. The reader of a whole reply
  (`ReadingOf`) goes through it by characters, the parser by buffers; `AtPlace` says
  that a parser has read the reply up to a place, has put what the reader keeps up
  to there, and holds the rest of what has arrived. A round keeps that and either
  passes a tag or leaves less than a tag (`RoundWithTag`, `RoundWithoutTag`: what is
  held back is the longest end that could begin the tag, so no tag is skipped, and
  what it was cut from can begin none). The loop ends with less than a tag held
  back (`ProcessedPlaces`), and what is held back is then what the reader of the
  part that has arrived would keep of it (`VisibleIs`), which is what flush adds;
* for any number of callers, threads, timeouts and any threshold: `JudgedFairly`
  (`JudgedByRunningCall`), from `ChromaInv`: threads of later generations are idle,
  and while nobody clobbered it the shared start is that of the call in the current
  thread (`StartIsKnown`).

`Continuity_proofs`, four parts:

* `ChapterContract`, for any matters and bounds: `CluesAreKept` (`CluesStayClues`)
  and `ContractsAgree` (`OneContract`). The lemma behind both is `SanitizedTwice`:
  making the contract of an outline that has been through one changes nothing. `Copies` says
  which of the planned, stored and working outlines may differ, and after what.
* `HandoffLedger`, for any keys and limits: `LedgersAreCurrent` (`LedgerIsCurrent`).
  The invariant is only that versions grow with time and facts are finitely many;
  the content is in the lemmas about the operators, and none assumes that all facts
  are read: a fact that a limited read leaves out comes after all it reads, as many
  as the limit (`NotRead`), so that a ledger tells the book's beginning up to one
  point (`LedgerTells`); what a chapter inherits is read newest first
  (`ReadIsNewest`); the last few and the first few of a ledger are a stretch of it
  (`LastFewAreLast`, `FirstFewAreFirst`), at all three levels (`ShownOfLedger`).
* `Canon`, for any statements, chapters and sessions: `OnlyPublishedIsCanon`
  (`CanonWasPublished`) and `NothingLeftBehind` (`NothingBeyondLast`). `Referring` is
  the second without its condition on a deletion: sessions, atoms, doctrines,
  evidence and the last appearance refer to chapters that exist, all the time.
  `RecallIsCurrent` (`RecallShowsNewest`), for any scores and budget, rests on a second
  invariant, `AtomsApart`: two atoms of a key have two versions, whatever patches one
  extraction yields, so that "the newest" is one atom. What is read before a row of
  the cut pool is in the pool (`PoolIsTop`). The budget is a matter of counting: all
  facts shown come before the last of them (`ShownInBudget`), and the first key that
  went without would have as many shown before it as the budget allows
  (`NoKeyGoesWithout`). The keys' order is the assumption that their names have one.
* `ManuscriptSuffix`, for any number of sections, any lengths, budget, slack and edits:
  `LastChaptersAreEnough` (`SuffixIsEnough`). A manuscript is the set of its characters
  by place, so that its length is a cardinality and its last characters are those
  with few behind them. What is behind enough of a text says nothing about its end
  (`LastOfEnough`); a read leaves what the session gives as it is (`SessionKeeps`), so
  an edit between the queries cannot part the two renderings; and the estimate is
  what is rendered and the other blanks at most (`EstimateIsClose`), which is the
  slack. `SuffixInv` has what the lengths promised: nothing before the start when
  they were not enough, and an estimate beyond the budget when they were.

`ConfigCache_proofs`, for any finite set of keys and any number of readers and
writes: `CachesStayCurrent` (`CachesAreCurrent`), from `ConfigInv`. A stamp is a count of
rows and a latest time, and says nothing of contents; that equal stamps mean equal
tables (`SameStamp`) holds among the tables a table HAS BEEN, as long as no commit
comes later than one of a later time. So the invariant speaks of its past: there is a set of tables,
the present one among them, in which equal stamps mean equal tables; the cache is a
copy of a member of it, row by row, but for the rows told apart in `mismatched` and
`ahead` (`CopyOf`), and so is every read in flight (`History`). Rows read ahead of the
stamp do no harm while the table does not have that stamp (`AheadOfStamp`), which a
commit cannot give back (`CommitLeavesKnown`) and a deletion can: it moves them to
`mismatched`. `OnTheWay` is the settings' part, where there is no stamp: nothing is
cleared while a read is under way.

The proof modules have one lemma per action or per kind of action, and lemmas for
what a step keeps of the rows, sessions, jobs and texts it does not move (`OwnerInvKept`, `Kept`,
`SessionKept`, `LockKept`, `StepKeeps`). Constants have the assumptions that their
modules name and no others.

Only model-checked, and why (every other property of a passing run is a theorem):

* the liveness properties (`RunningEnds`, `QueuedIsClaimed`, `RunSettles`,
  `QueueDrains`): fairness and ENABLED are beyond the prover.

## 5. Plan

*Done:* `PipelineTransitions`, `JobControl` and its proofs; `ChapterGraph`,
`ChapterRun`; `DeliveryPromise`, `VectorOutbox`, their refinement and its proof;
publication and memory (`Canon`); cards; branches and their proofs; the rules of graphs; the
caches; model calls; workflow administration; the continuity of chapters.

*Proved:* all that the runs check of `JobControl` except liveness, of `ChapterRun`
except liveness, of `VectorOutbox` except liveness, of `BranchLife`,
`CharacterCards`, `Workflows`, `LlmCall`, `LlmStream`, `ChromaExecutor`, `ChapterContract`,
`HandoffLedger`, `ConfigCache`, `ManuscriptSuffix`, `GraphRules` and `Canon`.

Next:

1. `JobExecution`: the abstract promise of `JobControl` (a job is queued, held by
   at most one runner, and ends) and the refinement from `JobControl` with one
   worker, as a theorem from `OwnerInv`.
2. The walk of a branch chapter (the branch variants of the steps), which
   `BranchLife` has as one step.
3. Edits, reviews and deletion of chapters beside a generating job, in one module
   with the chapter's row.

## 6. Not modelled, and known failures

* The agents' prompts and the text of their answers: nondeterministic inputs.
* `transition_to` of the status rules, which no caller uses, and
  `validate_state_consistency`, which cannot raise where it is called: with a job
  and at most a novel, right after the job was given a status other than running.
* Job types other than generate, post-processing and branch generation; the branch
  variants of the chapter steps.
* Drawn steps whose ids are targets that leave a graph (`@done` and the like): the
  code does not refuse them; `GraphRules` assumes there are none.
* Embedding, how a recall scores a text and what it reads beside facts; wording, token estimates and
  scene ranking of prompts; arcs, importance and statuses of cards; the metadata
  and listings of workflows.
* Reads for display, streaming to the browser, logging, usage accounting,
  experiments, the frontend, migrations.
* Single steps although the code has an await inside: `OrphanSweep`, `Generate`,
  and an extraction's transaction in `Canon` (two of them over one memory key wait
  for each other at the first insert).

Failures the models reach, which properties exclude by name or no run is spent on:

* `LlmCall`: with no retries, or one and a backup at the same bare address, a call
  returns nothing (`base.py:140`), and `call_llm_json` then raises on it.
* `BranchLife`: `outcome.decision` does not exist
  (`character_branch_generation_flow.py:284`), and after a rollback the handler's
  reads raise (312, 316): branch and chapter stay generating beside a failed job.
  No branch reaches ready, so `ActiveBranchIsUnique` is not put to the test by a
  second creation after a finished one. An edit that read a branch before its
  archive brings it back.
* `VectorOutbox`: a loop whose row was deleted meanwhile ends (`poll_vector_outbox`
  has no handler); rows of a dead process wait for a start of a worker, and for
  their lease; a retried older row overwrites a newer one's content; a sync may
  recreate the collection of a deleted project outside branches.
* `ChromaExecutor`: an abandoned thread that still writes the shared start makes
  the next judgement wrong.
* `CharacterCards`: late extractions, deleted chapters and redated cards show a
  state of a later chapter; an extraction that equals the previous state returns
  early and leaves a stale row of its own chapter. A newcomer is not linked to a card
  that was renamed after the listing, and a card the session knew is not linked to a
  newcomer it names that is created later in the batch (only newcomers are linked
  once more).
* `Canon`: late extraction of an older chapter supersedes newer facts; deleting a
  chapter does not bring back what its facts superseded.
* `Workflows`: the checks take no lock. A workflow or node deleted while a request
  that counted on it is under way leaves a project without its workflow or a graph
  without its node, and a clone may be made of prompts that went meanwhile; an edit
  of a template's category or a node's prompt is not checked at all.
* `GraphRules`: a drawn graph whose steps and stages disagree fails every chapter
  at `set_job_step`, and so do stages without a planner under the graph the code
  derives: the walk enters at the plan all the same, and the outline's move to
  writing is refused (`chapter_steps.py:198`). Whether a graph is accepted depends on
  the order in which its steps are listed and its verdicts written. A loop closed
  by the `on_exhausted` exit of a budgeted edge, or one whose budget is the graph's
  own and never spent, passes the cycle check; only the interpreter's 200 steps
  end it.
* `JobControl`: the claim reads the `max(4 * limit, 32)` oldest pending rows and
  asks about their novels afterwards (`orchestrator.py:231`). As many older rows of
  novels that are not generating starve every younger job; nothing retires them.
  `QueuedIsClaimed` names the case (`CutOff`), and `JobsLive` reaches it.
* `ChapterContract`: only required events are checked against the unknown; key
  events and changes of state reach the writer and are handed on as completed.
* `HandoffLedger`: when a book has more facts than the evidence query reads, the ones
  it does not read are the newest (`chapter_continuity.py:684-692` reads in ascending
  order); the third level of compaction drops newest items. The query has no bound
  on chapters, so an earlier chapter that is run again is told later facts in its
  ledgers; only what it inherits is of the chapters before it.
* `ConfigCache`: a commit later than one of a later time leaves the stamp as it
  was; overlapping loads of prompts leave an old text under a new stamp, and a row
  read ahead of the stamp is under the table's again when a deletion brings that
  stamp back. `config_versions.py:34` promises that any change moves the stamp; each
  of the three lasts until the next change.
* `ManuscriptSuffix`: a chapter of plain spaces has no length and yet a header,
  which the suffix lacks.

And in `ChapterRun` and `JobControl`: a final check that judges the content of an earlier edit; an attempt with
a spent rewrite budget that judges the same text again; a block of the post-edit
check that the polish undoes; an extractor's unparsable answer that sends a
validated chapter back to the planner; an outline without a summary that pauses
every resume; a forced save after an Editor's answer that was not JSON; a restart
of the API that pauses a novel whose job is queued; a recovered JSON failure that
makes the batch one chapter longer.

## 7. Running

    tlc -config JobsOneProcess.cfg MCJobControl.tla
    tlc -config ChapterWalks.cfg MCChapterRun.tla
    tlc -config Services.cfg MCServices.tla
    tlapm JobControl_proofs.tla
    tlapm ChapterRun_proofs.tla
    tlapm VectorOutbox_proofs.tla

and so on for the other modules named `*_proofs`.

A definition preceded by "Mutant:" is a wrong variant of the one it stands
before; nothing uses it but the experiments listed under "mutants" in
`PROJECT.json`, which show that each property fails when the code is changed so.
