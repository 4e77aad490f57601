----------------------------- MODULE JobControl -----------------------------
(***************************************************************************)
(* The life of the generate jobs of a set of projects: the durable rows,   *)
(* the worker processes that claim and run them, the user's commands, and  *)
(* the two sweeps that clean up after a dead process.                      *)
(*                                                                         *)
(* A running job has TWO statuses: the row in PostgreSQL and the copy the  *)
(* task's session holds.  Sessions are created with expire_on_commit off   *)
(* and flush only the attributes that changed since they were loaded, so a *)
(* task that holds a stale copy writes it over whatever the row has become *)
(* (Flush), and one that does not change its copy writes nothing.          *)
(***************************************************************************)
EXTENDS Integers, FiniteSets, PipelineTransitions

CONSTANTS
    Projects,        \* the novels
    Jobs,            \* rows of the jobs table, numbered in creation order
    ProjectOf,       \* the project of each row
    Workers,         \* processes that run start_worker_loops
    ApiHost,         \* the worker in the API's own process, or NoWorker
    Tasks,           \* asyncio.Task objects that may exist at a time (bound)
    NoTask, NoJob, NoWorker,
    MaxConcurrent,   \* runtime tunable max_concurrent_jobs
    ScanLimit,       \* pending rows one claim looks at: max(4 * limit, 32)
    WaitMayTimeOut,  \* may a cancelled task outlive the 10 s registration wait?
    SlowChapters,    \* may a running task leave its row untouched beyond the
                     \* stale threshold (one very long LLM call)?
    MaxRounds,       \* bound on the chapter attempts of one task
    MaxCommands,     \* bound on the user's requests
    MaxCrashes       \* bound on the deaths of processes

ASSUME JobsAssumption ==
    /\ Jobs \subseteq Nat /\ NoJob \notin Jobs
    /\ \E last \in Jobs : \A j \in Jobs : j <= last
ASSUME ProjectAssumption == ProjectOf \in [Jobs -> Projects]
ASSUME HostAssumption == NoWorker \notin Workers /\ ApiHost \in Workers \cup {NoWorker}
ASSUME TaskAssumption == NoTask \notin Tasks
ASSUME BoundAssumption ==
    /\ MaxConcurrent \in Nat
    /\ ScanLimit \in Nat
    /\ MaxRounds \in Nat \ {0}
    /\ MaxCommands \in Nat
    /\ MaxCrashes \in Nat
    /\ WaitMayTimeOut \in BOOLEAN /\ SlowChapters \in BOOLEAN

VARIABLES
    \* --- PostgreSQL ---
    status,      \* jobs.status, "none" for a row not created yet
    novel,       \* novels.status
    stale,       \* is jobs.updated_at older than stale_job_threshold_seconds?
    claimPaused, \* runtime tunable worker_claim_paused
    \* --- worker processes ---
    up,          \* is the process alive?
    registry,    \* task_registry._active_tasks of each process
    claimed,     \* ids poll_jobs has claimed and not yet given a task
    joining,     \* the task poll_jobs is waiting to register, or NoTask
    seesPaused,  \* each process's cached copy of worker_claim_paused
    \* --- asyncio tasks running process_job ---
    pc, job, host,
    mem,         \* the session's copy of jobs.status
    memNovel,    \* the session's copy of novels.status
    rounds,      \* chapter attempts left
    \* --- the two-phase request in flight in the API process ---
    request,     \* the endpoint, its next step, the task it waits for, its copies
    \* --- bounds ---
    commands, crashes

dbVars     == <<status, novel, stale, claimPaused>>
workerVars == <<up, registry, claimed, joining, seesPaused>>
taskVars   == <<pc, job, host, mem, memNovel, rounds>>
budget     == <<commands, crashes>>
vars == <<dbVars, workerVars, taskVars, request, budget>>

-----------------------------------------------------------------------------
(* Rows, sessions and tasks *)

Exists(j) == status[j] # "none"
JobsOf(p) == {j \in Jobs : ProjectOf[j] = p}

\* The first row of a set in creation order, and the last.
Oldest(S) == CHOOSE j \in S : \A k \in S : j <= k
Newest(S) == CHOOSE j \in S : \A k \in S : j >= k

\* uq_jobs_active_generate_project admits an active row j beside rows st.
IndexAdmits(st, j) ==
    \A k \in JobsOf(ProjectOf[j]) \ {j} : st[k] \notin ActiveStatus

\* What the row holds after a session whose copy was `old` assigns `new`:
\* an attribute that did not change is not part of the UPDATE.
Flush(row, old, new) == IF new = old THEN row ELSE new

\* process_job is running its own code in this task ...
Working(t) == pc[t] \notin {"free", "unwinding", "done"}
\* ... and the task is not finished: task.done() is FALSE.
Live(t) == pc[t] \notin {"free", "done"}

\* Mutant: the test of task.done() is inverted.
IsActiveInverted(w, j) == registry[w][j] # NoTask /\ ~Live(registry[w][j])

\* task_registry.is_active: this process runs a task for the job.
IsActive(w, j) == registry[w][j] # NoTask /\ Live(registry[w][j])
\* Mutant: the running rows are counted instead of the tasks.
ActiveRows(w) == {j \in Jobs : IsActive(w, j) /\ status[j] = "running"}

\* task_registry.active_count after reap_finished.
Active(w) == {j \in Jobs : IsActive(w, j)}

Labels == {"free", "start", "bootstrap", "loop", "pick", "chapter", "after", "finish",
           "failing", "unwinding", "done"}

RowsOK ==
    /\ status \in [Jobs -> JobStatus \cup {"none"}]
    /\ novel \in [Projects -> NovelStatus]
    /\ stale \in [Jobs -> BOOLEAN]
    /\ claimPaused \in BOOLEAN

WorkersOK ==
    /\ up \in [Workers -> BOOLEAN]
    /\ registry \in [Workers -> [Jobs -> Tasks \cup {NoTask}]]
    /\ claimed \in [Workers -> SUBSET Jobs]
    /\ joining \in [Workers -> Tasks \cup {NoTask}]
    /\ seesPaused \in [Workers -> BOOLEAN]

TasksOK ==
    /\ pc \in [Tasks -> Labels]
    /\ job \in [Tasks -> Jobs \cup {NoJob}]
    /\ host \in [Tasks -> Workers \cup {NoWorker}]
    /\ mem \in [Tasks -> JobStatus \cup {"none"}]
    /\ memNovel \in [Tasks -> NovelStatus]
    /\ rounds \in [Tasks -> 0..MaxRounds]

RequestOK ==
    request \in [at: {"idle", "read", "write"},
                 cmd: {"none", "cancel", "retry", "rewrite"},
                 job: Jobs \cup {NoJob},
                 task: Tasks \cup {NoTask},
                 seen: [Jobs -> JobStatus \cup {"none"}],
                 seenNovel: NovelStatus]

TypeOK ==
    /\ RowsOK /\ WorkersOK /\ TasksOK /\ RequestOK
    /\ commands \in 0..MaxCommands
    /\ crashes \in 0..MaxCrashes

NoRequest == [at |-> "idle", cmd |-> "none", job |-> NoJob, task |-> NoTask,
              seen |-> [j \in Jobs |-> "none"], seenNovel |-> "planning"]

\* A fresh installation: novels being planned, no job row, workers polling.
Init ==
    /\ status = [j \in Jobs |-> "none"]
    /\ novel = [p \in Projects |-> "planning"]
    /\ stale = [j \in Jobs |-> FALSE]
    /\ claimPaused = FALSE
    /\ up = [w \in Workers |-> TRUE]
    /\ registry = [w \in Workers |-> [j \in Jobs |-> NoTask]]
    /\ claimed = [w \in Workers |-> {}]
    /\ joining = [w \in Workers |-> NoTask]
    /\ seesPaused = [w \in Workers |-> FALSE]
    /\ pc = [t \in Tasks |-> "free"]
    /\ job = [t \in Tasks |-> NoJob]
    /\ host = [t \in Tasks |-> NoWorker]
    /\ mem = [t \in Tasks |-> "none"]
    /\ memNovel = [t \in Tasks |-> "planning"]
    /\ rounds = [t \in Tasks |-> 0]
    /\ request = NoRequest
    /\ commands = 0
    /\ crashes = 0

-----------------------------------------------------------------------------
(* poll_jobs: reap, claim, create a task per claimed job and register it *)

\* One pass of the loop: reap_finished drops the finished tasks, the free
\* capacity is what max_concurrent_jobs leaves, and the oldest pending rows
\* whose novel is generating become running in one transaction.  Only the
\* ScanLimit oldest pending rows are looked at, eligible or not.
PollClaim(w) ==
    LET finished == {t \in Tasks : pc[t] = "done" /\ host[t] = w}
        pending  == {j \in Jobs : status[j] = "pending"}
        scanned  == {j \in pending : Cardinality({k \in pending : k < j}) < ScanLimit}
        eligible == {j \in scanned : novel[ProjectOf[j]] = "generating"}
        capacity == MaxConcurrent - Cardinality(Active(w))
        taken    == IF seesPaused[w] THEN {}
                    ELSE {j \in eligible :
                            Cardinality({k \in eligible : k < j}) < capacity}
    IN
    /\ up[w] /\ claimed[w] = {}
    /\ taken # {} \/ finished # {}
    /\ status' = [j \in Jobs |-> IF j \in taken THEN "running" ELSE status[j]]
    /\ stale' = [j \in Jobs |-> stale[j] /\ j \notin taken]
    /\ claimed' = [claimed EXCEPT ![w] = taken]
    /\ registry' = [registry EXCEPT ![w] =
                      [j \in Jobs |-> IF @[j] \in finished THEN NoTask ELSE @[j]]]
    /\ pc' = [t \in Tasks |-> IF t \in finished THEN "free" ELSE pc[t]]
    /\ job' = [t \in Tasks |-> IF t \in finished THEN NoJob ELSE job[t]]
    /\ host' = [t \in Tasks |-> IF t \in finished THEN NoWorker ELSE host[t]]
    /\ UNCHANGED <<novel, claimPaused, up, joining, seesPaused, mem, memNovel,
                   rounds, request, budget>>

\* create_task, then register up to its first await: a live task of the same
\* job is cancelled and waited for, otherwise the new one is registered.
PollSpawn(w) ==
    /\ up[w] /\ claimed[w] # {} /\ joining[w] = NoTask
    /\ \E t \in Tasks :
          LET j == Oldest(claimed[w])
              old == registry[w][j]
              waits == IsActive(w, j)
          IN
          /\ pc[t] = "free"
          /\ pc' = [u \in Tasks |-> CASE u = t -> "start"
                                     [] u # t /\ waits /\ u = old -> "unwinding"
                                     [] OTHER -> pc[u]]
          /\ job' = [job EXCEPT ![t] = j]
          /\ host' = [host EXCEPT ![t] = w]
          /\ rounds' = [rounds EXCEPT ![t] = MaxRounds]
          /\ joining' = [joining EXCEPT ![w] = IF waits THEN t ELSE NoTask]
          /\ claimed' = [claimed EXCEPT ![w] = IF waits THEN @ ELSE @ \ {j}]
          /\ registry' = IF waits THEN registry
                         ELSE [registry EXCEPT ![w][j] = t]
    /\ UNCHANGED <<dbVars, up, seesPaused, mem, memNovel, request, budget>>

\* The wait of register ends, because the old task is done or after 10 s, and
\* the entry is replaced.
PollRegister(w) ==
    LET t == joining[w] IN
    /\ up[w] /\ t # NoTask
    /\ IsActive(w, job[t]) => WaitMayTimeOut
    /\ registry' = [registry EXCEPT ![w][job[t]] = t]
    /\ joining' = [joining EXCEPT ![w] = NoTask]
    /\ claimed' = [claimed EXCEPT ![w] = @ \ {job[t]}]
    /\ UNCHANGED <<dbVars, up, seesPaused, taskVars, request, budget>>

\* Mutant: only the switch to paused reaches the cache.
RefreshOnPause(w) ==
    /\ up[w] /\ claimPaused /\ ~seesPaused[w]
    /\ seesPaused' = [seesPaused EXCEPT ![w] = TRUE]
    /\ UNCHANGED <<dbVars, up, registry, claimed, joining, taskVars, request, budget>>

\* ensure_fresh: a read of a tunable after the cache's TTL reloads the table.
RefreshTunables(w) ==
    /\ up[w] /\ seesPaused[w] # claimPaused
    /\ seesPaused' = [seesPaused EXCEPT ![w] = claimPaused]
    /\ UNCHANGED <<dbVars, up, registry, claimed, joining, taskVars, request, budget>>
-----------------------------------------------------------------------------
(* process_job and process_generate_job: one asyncio task *)

Row(t)      == status[job[t]]
NovelRow(t) == novel[ProjectOf[job[t]]]

\* A commit of the task's session that leaves the two rows holding s and n.
\* Every UPDATE of a job row refreshes updated_at.
Write(t, s, n) ==
    /\ status' = [status EXCEPT ![job[t]] = s]
    /\ novel' = [novel EXCEPT ![ProjectOf[job[t]]] = n]
    /\ stale' = [stale EXCEPT ![job[t]] = FALSE]
    /\ UNCHANGED <<claimPaused, workerVars, budget>>

NoWrite == UNCHANGED <<dbVars, workerVars, budget>>

\* The task goes on at l with the session's copies s and n.
Goto(t, l, s, n) ==
    /\ pc' = [pc EXCEPT ![t] = l]
    /\ mem' = [mem EXCEPT ![t] = s]
    /\ memNovel' = [memNovel EXCEPT ![t] = n]
    /\ UNCHANGED <<job, host>>

\* The coroutine returns or raises.  The Task object stays, done, while the
\* registry or poll_jobs still refers to it; a request that waits for it goes on.
Ends(t) ==
    LET kept == registry[host[t]][job[t]] = t \/ joining[host[t]] = t IN
    /\ pc' = [pc EXCEPT ![t] = IF kept THEN "done" ELSE "free"]
    /\ job' = [job EXCEPT ![t] = IF kept THEN @ ELSE NoJob]
    /\ host' = [host EXCEPT ![t] = IF kept THEN @ ELSE NoWorker]
    /\ mem' = [mem EXCEPT ![t] = "none"]
    /\ memNovel' = [memNovel EXCEPT ![t] = "planning"]
    /\ rounds' = [rounds EXCEPT ![t] = 0]
    /\ request' = [request EXCEPT !.task = IF @ = t THEN NoTask ELSE @]

\* process_job loads the row whatever its status (already_running = True);
\* process_generate_job loads the novel.  Only the job that created the project
\* carries bootstrap_skeleton; before the skeleton is asked for, the novel is
\* committed as generating.
Start(t) ==
    /\ pc[t] = "start"
    /\ \/ /\ Goto(t, "loop", Row(t), NovelRow(t))
          /\ NoWrite
       \/ /\ job[t] = Oldest(JobsOf(ProjectOf[job[t]]))
          /\ Goto(t, "bootstrap", Row(t), "generating")
          /\ Write(t, Row(t), "generating")
    /\ UNCHANGED <<rounds, request>>

\* The skeleton is ready and the novel is in auto mode.
BootstrapContinues(t) ==
    /\ pc[t] = "bootstrap"
    /\ Goto(t, "loop", mem[t], memNovel[t])
    /\ Write(t, Row(t), NovelRow(t))
    /\ UNCHANGED <<rounds, request>>

\* The skeleton is ready and waits for the user's review.
BootstrapPauses(t) ==
    /\ pc[t] = "bootstrap"
    /\ Write(t, Flush(Row(t), mem[t], PauseJob(mem[t])), "paused")
    /\ Ends(t)

\* The skeleton could not be made.
BootstrapFails(t) ==
    /\ pc[t] = "bootstrap"
    /\ Write(t, Flush(Row(t), mem[t], FailJob(mem[t])), "paused")
    /\ Ends(t)

\* The handler of process_job: after the rollback the row is read again, and
\* only a running job is failed.
Rescue(t) ==
    /\ Write(t, IF Row(t) = "running" THEN "failed" ELSE Row(t), NovelRow(t))
    /\ Ends(t)

\* The top of the batch loop empties the session and merges the job and the
\* novel back: what merge finds in the rows is replaced by the session's copies.
\* An active copy may meet the unique index.
LoopTop(t) ==
    /\ pc[t] = "loop"
    /\ IF mem[t] # Row(t) /\ mem[t] \in ActiveStatus /\ ~IndexAdmits(status, job[t])
       THEN Rescue(t)
       ELSE /\ IF mem[t] = Row(t) /\ memNovel[t] = NovelRow(t)
               THEN NoWrite
               ELSE Write(t, mem[t], memNovel[t])
            /\ Goto(t, "pick", mem[t], memNovel[t])
            /\ UNCHANGED <<rounds, request>>

\* The next chapter lies beyond target_chapters.
TargetReached(t) ==
    /\ pc[t] = "pick"
    /\ Write(t, Flush(Row(t), mem[t], CompleteJob(mem[t])),
                Flush(NovelRow(t), memNovel[t], "completed"))
    /\ Ends(t)

\* refresh(job), then process_single_chapter up to its first commit.  The
\* refresh and the first check_paused read the same row, as one step.
PickChapter(t) ==
    /\ pc[t] = "pick"
    /\ CASE Row(t) = "paused" -> NoWrite /\ Ends(t)
         [] Row(t) = "running" ->
              /\ Goto(t, "chapter", Row(t), memNovel[t])
              /\ rounds' = [rounds EXCEPT ![t] = @ - 1]
              /\ Write(t, Row(t), NovelRow(t))
              /\ UNCHANGED request
         [] OTHER -> /\ Goto(t, "failing", Row(t), memNovel[t])
                     /\ NoWrite
                     /\ UNCHANGED <<rounds, request>>

\* check_paused between the steps of the chapter: a pause ends the task, and
\* any other status than running is an error.  A running row lets it go on.
Checkpoint(t) ==
    /\ pc[t] = "chapter" /\ Row(t) # "running"
    /\ NoWrite
    /\ IF Row(t) = "paused" THEN Ends(t)
       ELSE Goto(t, "failing", mem[t], memNovel[t]) /\ UNCHANGED <<rounds, request>>

\* A step of the chapter commits the job's current_step or its chapter's text.
ChapterCommit(t) ==
    /\ pc[t] = "chapter" /\ stale[job[t]]
    /\ Write(t, Row(t), NovelRow(t))
    /\ UNCHANGED <<taskVars, request>>

\* The chapter stops for the user: it waits for a review (with its novel), or
\* the graph ended in a pause (the novel is left to the batch loop).
ChapterPauses(t) ==
    /\ pc[t] = "chapter"
    /\ \E n \in {"paused", memNovel[t]} :
          /\ Write(t, Flush(Row(t), mem[t], PauseJob(mem[t])),
                      Flush(NovelRow(t), memNovel[t], n))
          /\ Goto(t, "after", PauseJob(mem[t]), n)
    /\ UNCHANGED <<rounds, request>>

ChapterEnds(t) ==
    /\ pc[t] = "chapter"
    /\ Goto(t, "after", mem[t], memNovel[t])
    /\ NoWrite
    /\ UNCHANGED <<rounds, request>>

\* An agent's answer could not be parsed: try again (the job is set running and
\* the novel generating), save what there is and go on, or give up.
ChapterJsonError(t) ==
    /\ pc[t] = "chapter"
    /\ \/ /\ rounds[t] > 0
          /\ \/ /\ Write(t, Flush(Row(t), mem[t], "running"),
                            Flush(NovelRow(t), memNovel[t], "generating"))
                /\ Goto(t, "loop", "running", "generating")
             \/ /\ Write(t, Row(t), NovelRow(t))
                /\ Goto(t, "loop", mem[t], memNovel[t])
          /\ UNCHANGED <<rounds, request>>
       \/ /\ Write(t, Flush(Row(t), mem[t], FailJob(mem[t])),
                      Flush(NovelRow(t), memNovel[t], "paused"))
          /\ Ends(t)

\* Any other exception of the chapter.
ChapterRaises(t) ==
    /\ pc[t] = "chapter"
    /\ Goto(t, "failing", mem[t], memNovel[t])
    /\ NoWrite
    /\ UNCHANGED <<rounds, request>>

\* The extractor took too long: the session is rolled back and the failure is
\* assigned whatever the job's status was.
PostProcessingTimeout(t) ==
    /\ pc[t] = "chapter"
    /\ Write(t, "failed", "paused")
    /\ Ends(t)

\* Mutant: the batch goes on whatever was written.
BatchUnbounded(t) == TRUE

\* chapters_written < batch_size, within the bound on chapter attempts.
BatchRemains(t) == rounds[t] > 0

\* refresh(novel), refresh(job): the batch goes on only with a novel that is
\* not paused and a job that is neither paused nor finished; a paused job takes
\* its novel with it.
AfterChapter(t) ==
    /\ pc[t] = "after"
    /\ IF NovelRow(t) = "paused" \/ Row(t) \in {"paused", "failed", "completed"}
       THEN /\ IF Row(t) = "paused" /\ NovelRow(t) # "paused"
               THEN Write(t, Row(t), "paused")
               ELSE NoWrite
            /\ Ends(t)
       ELSE /\ Write(t, Row(t), NovelRow(t))
            /\ \/ Goto(t, "finish", Row(t), NovelRow(t))
               \/ BatchRemains(t) /\ Goto(t, "loop", Row(t), NovelRow(t))
            /\ UNCHANGED <<rounds, request>>

\* The batch is complete: the novel is done if all its chapters are published.
FinishBatch(t) ==
    /\ pc[t] = "finish"
    /\ \E n \in {"paused", "completed"} :
          Write(t, Flush(Row(t), mem[t], CompleteJob(mem[t])),
                   Flush(NovelRow(t), memNovel[t], CompleteNovel(mem[t], n)))
    /\ Ends(t)

\* The batch loop's handler fails the job it holds and pauses the novel, and
\* process_job's handler then fails a row that is still running.
FailBatch(t) ==
    /\ pc[t] = "failing"
    /\ LET s == Flush(Row(t), mem[t], FailJob(mem[t]))
       IN Write(t, IF s = "running" THEN "failed" ELSE s,
                   Flush(NovelRow(t), memNovel[t], "paused"))
    /\ Ends(t)

\* The exception was the database's: the session cannot be used, the batch
\* loop's handler raises too, and only process_job's handler writes.
FailBatchDatabase(t) ==
    /\ pc[t] = "failing"
    /\ Rescue(t)

\* CancelledError reaches the task at its next await and nothing catches it.
Unwind(t) ==
    /\ pc[t] = "unwinding"
    /\ NoWrite
    /\ Ends(t)

TaskAdvances(t) ==
    \/ Start(t) \/ BootstrapContinues(t) \/ BootstrapPauses(t) \/ BootstrapFails(t)
    \/ LoopTop(t) \/ TargetReached(t) \/ PickChapter(t) \/ Checkpoint(t)
    \/ ChapterPauses(t) \/ ChapterEnds(t) \/ ChapterJsonError(t) \/ ChapterRaises(t)
    \/ PostProcessingTimeout(t) \/ AfterChapter(t) \/ FinishBatch(t)
    \/ FailBatch(t) \/ FailBatchDatabase(t) \/ Unwind(t)
-----------------------------------------------------------------------------
(* Death, restart and the sweeps over stale running rows *)

\* The process dies, or shuts down: cancel_all_and_wait cancels its tasks, which
\* write nothing.  Running rows stay running.  A request it was serving is lost.
Crash(w) ==
    LET lost == {t \in Tasks : host[t] = w} IN
    /\ up[w] /\ crashes < MaxCrashes
    /\ up' = [up EXCEPT ![w] = FALSE]
    /\ registry' = [registry EXCEPT ![w] = [j \in Jobs |-> NoTask]]
    /\ claimed' = [claimed EXCEPT ![w] = {}]
    /\ joining' = [joining EXCEPT ![w] = NoTask]
    /\ seesPaused' = [seesPaused EXCEPT ![w] = FALSE]
    /\ pc' = [t \in Tasks |-> IF t \in lost THEN "free" ELSE pc[t]]
    /\ job' = [t \in Tasks |-> IF t \in lost THEN NoJob ELSE job[t]]
    /\ host' = [t \in Tasks |-> IF t \in lost THEN NoWorker ELSE host[t]]
    /\ mem' = [t \in Tasks |-> IF t \in lost THEN "none" ELSE mem[t]]
    /\ memNovel' = [t \in Tasks |-> IF t \in lost THEN "planning" ELSE memNovel[t]]
    /\ rounds' = [t \in Tasks |-> IF t \in lost THEN 0 ELSE rounds[t]]
    /\ request' = IF w = ApiHost THEN NoRequest ELSE request
    /\ crashes' = crashes + 1
    /\ UNCHANGED <<dbVars, commands>>

StaleRunning == {j \in Jobs : status[j] = "running" /\ stale[j]}

\* The rows J become failed, and the novels P leave generating.
FailRows(J, P) ==
    /\ status' = [j \in Jobs |-> IF j \in J THEN "failed" ELSE status[j]]
    /\ stale' = [j \in Jobs |-> stale[j] /\ j \notin J]
    /\ novel' = [p \in Projects |->
                    IF novel[p] = "generating" /\ p \in P THEN "paused" ELSE novel[p]]
    /\ UNCHANGED claimPaused

\* The API's own process runs reset_stale_running_jobs: without a fresh running
\* row EVERY generating novel is paused.  A separate worker runs the orphan
\* sweep with an empty registry.  Then the loops start; the first read of the
\* tunables finds an expired cache.
Restart(w) ==
    /\ ~up[w]
    /\ up' = [up EXCEPT ![w] = TRUE]
    /\ seesPaused' = [seesPaused EXCEPT ![w] = claimPaused]
    /\ IF w = ApiHost
       THEN FailRows(StaleRunning,
                     IF \E j \in Jobs : status[j] = "running" /\ ~stale[j]
                     THEN {} ELSE Projects)
       ELSE FailRows(StaleRunning, {ProjectOf[j] : j \in StaleRunning})
    /\ UNCHANGED <<registry, claimed, joining, taskVars, request, budget>>

\* Mutants: the process's own tasks are not looked up; the look-up is inverted.
OrphansByAge(w) == StaleRunning
OrphansInverted(w) == {j \in StaleRunning : IsActive(w, j)}

\* cleanup_orphaned_jobs_periodic: a stale running row this process has no
\* task for is failed and its novel leaves generating.
Orphans(w) == {j \in StaleRunning : ~IsActive(w, j)}

OrphanSweep(w) ==
    /\ up[w] /\ Orphans(w) # {}
    /\ FailRows(Orphans(w), {ProjectOf[j] : j \in Orphans(w)})
    /\ UNCHANGED <<workerVars, taskVars, request, budget>>

\* stale_job_threshold_seconds pass without an UPDATE of the row.  The poll
\* loop does not sit on a claim that long.
Age(j) ==
    /\ status[j] = "running" /\ ~stale[j]
    /\ \A w \in Workers : j \notin claimed[w]
    /\ (\E t \in Tasks : Working(t) /\ job[t] = j) => SlowChapters
    /\ stale' = [stale EXCEPT ![j] = TRUE]
    /\ UNCHANGED <<status, novel, claimPaused, workerVars, taskVars, request, budget>>

-----------------------------------------------------------------------------
(* The user's commands *)

ApiUp == ApiHost \in {w \in Workers : up[w]} \cup {NoWorker}

\* A command the API accepts, counted against the bound.
Command ==
    /\ ApiUp /\ commands < MaxCommands
    /\ commands' = commands + 1
    /\ UNCHANGED <<crashes, claimPaused, taskVars, workerVars, request>>

Existing(p) == {j \in JobsOf(p) : Exists(j)}
HasActive(p) == \E j \in Existing(p) : status[j] \in ActiveStatus

\* The row j becomes pending and its novel generating.
Enqueue(j) ==
    /\ status' = [status EXCEPT ![j] = "pending"]
    /\ stale' = [stale EXCEPT ![j] = FALSE]
    /\ novel' = [novel EXCEPT ![ProjectOf[j]] = "generating"]

\* create_project and generate (and a rewrite when there is no row): a new row,
\* refused while a row is active.
Generate(p) ==
    /\ Command /\ ~HasActive(p)
    /\ JobsOf(p) # Existing(p)
    /\ Enqueue(Oldest(JobsOf(p) \ Existing(p)))

\* pause_project: every active row of the project, and the novel.
Pause(p) ==
    LET J == {j \in JobsOf(p) : status[j] \in ActiveStatus} IN
    /\ Command /\ Existing(p) # {}
    /\ status' = [j \in Jobs |-> IF j \in J THEN PauseJob(status[j]) ELSE status[j]]
    /\ stale' = [j \in Jobs |-> stale[j] /\ j \notin J]
    /\ novel' = [novel EXCEPT ![p] = "paused"]

\* Mutant: a resume takes any job that is not active.
ResumableInactive == JobStatus \ ActiveStatus

\* reset_job_for_resume is for these; after any other status a new row is made.
Resumable == {"paused", "failed"}

\* resume_project: the latest row if it is paused or failed, else a new one.
\* While the latest row is active nothing changes, the novel included; when an
\* older row is active the unique index refuses the commit.
Resume(p) ==
    LET latest == Newest(Existing(p)) IN
    /\ Command /\ Existing(p) # {} /\ ~HasActive(p)
    /\ IF status[latest] \in Resumable
       THEN Enqueue(latest)
       ELSE /\ JobsOf(p) # Existing(p)
            /\ Enqueue(Oldest(JobsOf(p) \ Existing(p)))

\* pause-claim and resume-claim; a worker in the API's process sees it at once.
ToggleClaim ==
    /\ ApiUp /\ commands < MaxCommands
    /\ commands' = commands + 1
    /\ claimPaused' = ~claimPaused
    /\ seesPaused' = [w \in Workers |-> IF w = ApiHost THEN ~claimPaused ELSE seesPaused[w]]
    /\ UNCHANGED <<status, novel, stale, crashes, up, registry, claimed, joining,
                   taskVars, request>>

\* The endpoints cancel, retry and rewrite.  Cancel and rewrite first cancel the
\* task the API's own process runs for the job, and wait for it.
BeginRequest(cmd, j) ==
    LET cancels == cmd # "retry" /\ ApiHost # NoWorker /\ IsActive(ApiHost, j)
        old == registry[ApiHost][j]
    IN
    /\ ApiUp /\ commands < MaxCommands
    /\ request = NoRequest
    /\ Exists(j)
    /\ cmd = "rewrite" => j = Newest(Existing(ProjectOf[j]))
    /\ commands' = commands + 1
    /\ request' = [NoRequest EXCEPT !.at = "read", !.cmd = cmd, !.job = j,
                                    !.task = IF cancels THEN old ELSE NoTask]
    /\ pc' = IF cancels THEN [pc EXCEPT ![old] = "unwinding"] ELSE pc
    /\ UNCHANGED <<dbVars, workerVars, job, host, mem, memNovel, rounds, crashes>>

\* What the services refuse once they have loaded the job.
Refused(cmd, s) ==
    \/ cmd = "cancel" /\ s \in {"completed", "failed", "cancelled"}
    \/ cmd = "retry" /\ s \in ActiveStatus \cup {"completed"}

\* The service loads the rows, and a refused request ends here, after the task
\* was cancelled; so does the rewrite of a published chapter, whichever chapter
\* that is.  A rewrite takes the job that is now the latest.
RequestReads ==
    LET p == ProjectOf[request.job]
        target == IF request.cmd = "rewrite" THEN Newest(Existing(p)) ELSE request.job
    IN
    /\ ApiUp /\ request.at = "read"
    /\ request.task = NoTask \/ WaitMayTimeOut
    /\ \/ /\ Refused(request.cmd, status[target]) \/ request.cmd = "rewrite"
          /\ request' = NoRequest
       \/ /\ ~Refused(request.cmd, status[target])
          /\ request' = [request EXCEPT !.at = "write", !.job = target, !.task = NoTask,
                                        !.seen = status, !.seenNovel = novel[p]]
    /\ UNCHANGED <<dbVars, workerVars, taskVars, budget>>

\* The rows as the service's session flushes them.
Requested ==
    LET j == request.job
        others == {k \in JobsOf(ProjectOf[j]) \ {j} :
                      request.seen[k] \in {"failed", "pending", "running"}}
    IN
    CASE request.cmd = "cancel" -> [status EXCEPT ![j] = "cancelled"]
      [] request.cmd = "retry"  -> [status EXCEPT ![j] = "pending"]
      [] request.cmd = "rewrite" ->
           [k \in Jobs |-> CASE k = j -> Flush(status[k], request.seen[k], "pending")
                             [] k \in others -> "cancelled"
                             [] OTHER -> status[k]]

\* The commit.  The rows are updated in the order of their random ids, so the
\* unique index may refuse a job that becomes active before another is cancelled.
RequestWrites ==
    LET j == request.job
        p == ProjectOf[j]
        s == IF request.cmd = "cancel" THEN CancelJob(request.seen[j]) ELSE "pending"
        n == IF s = "pending" THEN "generating"
             ELSE IF request.seenNovel = "generating" THEN "paused" ELSE request.seenNovel
        activates == s = "pending" /\ Requested[j] # status[j]
    IN
    /\ ApiUp /\ request.at = "write"
    /\ request' = NoRequest
    /\ \/ /\ activates /\ ~IndexAdmits(status, j)
          /\ UNCHANGED dbVars
       \/ /\ activates => IndexAdmits(Requested, j)
          /\ status' = Requested
          /\ stale' = [k \in Jobs |-> stale[k] /\ Requested[k] = status[k] /\ k # j]
          /\ novel' = [novel EXCEPT ![p] = Flush(@, request.seenNovel, n)]
          /\ UNCHANGED claimPaused
    /\ UNCHANGED <<workerVars, taskVars, budget>>

-----------------------------------------------------------------------------

WorkerStep(w) ==
    PollClaim(w) \/ PollSpawn(w) \/ PollRegister(w) \/ RefreshTunables(w) \/ OrphanSweep(w)

UserCommand ==
    \/ \E p \in Projects : Generate(p) \/ Pause(p) \/ Resume(p)
    \/ ToggleClaim
    \/ \E cmd \in {"cancel", "retry", "rewrite"}, j \in Jobs : BeginRequest(cmd, j)

Next ==
    \/ \E w \in Workers : WorkerStep(w) \/ Crash(w) \/ Restart(w)
    \/ \E t \in Tasks : TaskAdvances(t) \/ ChapterCommit(t)
    \/ \E j \in Jobs : Age(j)
    \/ UserCommand
    \/ RequestReads \/ RequestWrites

\* What the event loop and the operator give: the loops and the coroutines run
\* on, time passes, a dead process is started again.  Nothing makes a user act
\* or a process die, and a chapter is not committing for ever: every LLM call
\* of it has a timeout.
Fairness ==
    /\ \A w \in Workers : /\ WF_vars(PollClaim(w)) /\ WF_vars(PollSpawn(w))
                          /\ WF_vars(PollRegister(w)) /\ WF_vars(RefreshTunables(w))
                          /\ WF_vars(OrphanSweep(w)) /\ WF_vars(Restart(w))
    /\ \A t \in Tasks : WF_vars(TaskAdvances(t))
    /\ \A j \in Jobs : WF_vars(Age(j))
    /\ WF_vars(RequestReads) /\ WF_vars(RequestWrites)

Spec == Init /\ [][Next]_vars
FairSpec == Spec /\ Fairness
-----------------------------------------------------------------------------
(* Properties *)

\* No two tasks run the same job at a time: the same chapter is not written by
\* an old and a new task (task_registry.register, the rewrite endpoint).
SingleWriter ==
    \A t, u \in Tasks : Working(t) /\ Working(u) /\ job[t] = job[u] => t = u

\* A process never runs more tasks than max_concurrent_jobs, however claims,
\* cancellations, re-registrations and the reaping interleave.
ConcurrencyBounded ==
    \A w \in Workers :
        Cardinality({t \in Tasks : Working(t) /\ host[t] = w}) <= MaxConcurrent

\* The orphan sweep never fails a job under the task that is running it, not
\* even when one LLM call outlasts the stale threshold (is_active).
OrphanSparesLive ==
    [][\A w \in Workers, t \in Tasks :
          OrphanSweep(w) /\ Working(t) => status'[job[t]] = status[job[t]]]_vars

\* A completed job is never queued or run again by a task that is still winding
\* down, by a sweep, a claim or a resume.  Only the commit of a retry or a rewrite
\* that read the row earlier can.
CompletedNotRedone ==
    [][\A j \in Jobs : status[j] = "completed" /\ status'[j] \in ActiveStatus
                          => request.at = "write"]_vars

\* A running row never stays running for ever, whatever died meanwhile: its
\* task ends, or the orphan sweep finds it.
RunningEnds == \A j \in Jobs : status[j] = "running" ~> status[j] # "running"

\* The ScanLimit rows the claim looks at are all older than j and will not pass
\* its gate, for their novels are not generating.
CutOff(j) ==
    Cardinality({k \in Jobs : /\ k < j /\ status[k] = "pending"
                              /\ novel[ProjectOf[k]] # "generating"}) >= ScanLimit

\* A queued job of a generating novel is taken up, unless claiming is paused or
\* the LIMIT of claim_pending_jobs, which comes before its gate, cuts it off: then
\* it starves until somebody acts on the older rows.  Nothing else keeps a job
\* waiting: older rows that do pass the gate are claimed and make room.
QueuedIsClaimed ==
    \A j \in Jobs :
        status[j] = "pending" /\ novel[ProjectOf[j]] = "generating"
            ~> \/ status[j] # "pending"
               \/ novel[ProjectOf[j]] # "generating"
               \/ claimPaused
               \/ CutOff(j)

\* The user's word on a job stands until the user says otherwise: no step of a
\* task makes anything else of a paused or cancelled row (check_paused, and the
\* handler of process_job).
UserDecisionStands ==
    [][\A t \in Tasks, j \in Jobs :
          TaskAdvances(t) /\ status[j] \in {"paused", "cancelled"}
              => status'[j] = status[j]]_vars

\* A generating novel has a job to generate it, or ceases to be generating.
GeneratingHasJob ==
    \A p \in Projects : novel[p] = "generating" ~> novel[p] # "generating" \/ HasActive(p)
=============================================================================
