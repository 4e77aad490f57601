-------------------------- MODULE JobControl_proofs --------------------------
(***************************************************************************)
(* Proofs about JobControl, for every set of projects, rows, workers and   *)
(* tasks and every value of the tunables: type correctness; that a process *)
(* runs no two tasks of a job and no more tasks than it may; and, for a    *)
(* deployment with one worker process, that no two tasks at all run the    *)
(* same job, that the sweep spares what runs and that what was completed   *)
(* is not done again.                                                      *)
(***************************************************************************)
EXTENDS JobControl, FiniteSetTheorems, WellFoundedInduction, TLAPS

\* The library's order on the naturals, unfolded.
LEMMA LessThanPair ==
    ASSUME NEW x \in Nat, NEW y \in Nat, y < x
    PROVE  <<y, x>> \in OpToRel(<, Nat)
<1> DEFINE p == <<y, x>>
<1>1. p \in Nat \X Nat /\ p[1] = y /\ p[2] = x
  OBVIOUS
<1>2. p[1] < p[2]
  BY <1>1
<1> HIDE DEF p
<1>3. p \in OpToRel(<, Nat)
  BY <1>1, <1>2, Zenon DEF OpToRel
<1> QED
  BY <1>3 DEF p

\* A set of rows has a first row (what poll_jobs spawns next).
LEMMA OldestIn ==
    ASSUME NEW S, S \subseteq Jobs, S # {}
    PROVE  Oldest(S) \in S /\ \A k \in S : Oldest(S) <= k
<1>1. S \subseteq Nat
  BY JobsAssumption
<1>2. \E x \in S : \A y \in S : ~ (<<y, x>> \in OpToRel(<, Nat))
  BY <1>1, NatLessThanWellFounded, WFMin, Zenon
<1>3. PICK x \in S : \A y \in S : ~ (<<y, x>> \in OpToRel(<, Nat))
  BY <1>2
<1>4. ASSUME NEW y \in S
      PROVE  x <= y
  <2>1. x \in Nat /\ y \in Nat
    BY <1>1
  <2>2. ~ (y < x)
    BY <1>3, <2>1, LessThanPair, Zenon
  <2> QED BY <2>1, <2>2
<1> QED
  BY <1>4 DEF Oldest

\* ... and a last row (what resume_project and the rewrite endpoint take).
LEMMA NewestIn ==
    ASSUME NEW S, S \subseteq Jobs, S # {}
    PROVE  Newest(S) \in S /\ \A k \in S : Newest(S) >= k
<1>1. PICK last \in Jobs : \A j \in Jobs : j <= last
  BY JobsAssumption
<1> DEFINE T == {last - j : j \in S}
<1>2. S \subseteq Nat /\ last \in Nat /\ \A j \in S : j <= last
  BY <1>1, JobsAssumption
<1>3. T \subseteq Nat /\ T # {}
  <2>1. ASSUME NEW j \in S
        PROVE  last - j \in Nat
    <3>1. j \in Nat /\ last \in Nat /\ j <= last
      BY <1>2
    <3> QED BY <3>1
  <2> QED BY <2>1
<1>4. \E x \in T : \A y \in T : ~ (<<y, x>> \in OpToRel(<, Nat))
  <2> HIDE DEF T
  <2> QED BY <1>3, NatLessThanWellFounded, WFMin, Zenon
<1>5. PICK x \in T : \A y \in T : ~ (<<y, x>> \in OpToRel(<, Nat))
  BY <1>4
<1>6. ASSUME NEW y \in T
      PROVE  x <= y
  <2> HIDE DEF T
  <2>1. x \in Nat /\ y \in Nat
    BY <1>3
  <2>2. ~ (y < x)
    BY <1>5, <2>1, LessThanPair, Zenon
  <2> QED BY <2>1, <2>2
<1>7. PICK m \in S : x = last - m
  OBVIOUS
<1>8. \A k \in S : m >= k
  <2> SUFFICES ASSUME NEW k \in S PROVE m >= k
    OBVIOUS
  <2>1. last - m <= last - k
    BY <1>6, <1>7
  <2> QED BY <2>1, <1>2
<1> QED
  BY <1>8 DEF Newest

-----------------------------------------------------------------------------
(* Type correctness.  TypeOK alone is not inductive: a step that copies the *)
(* row of its job, or counts a round down, is well typed only because the   *)
(* job of a task, of a claim and of a request is a row that exists, and     *)
(* because a round is left whenever one is taken.                           *)

TaskInv ==
    \A t \in Tasks :
        /\ pc[t] # "free" => job[t] \in Jobs /\ host[t] \in Workers /\ Exists(job[t])
        /\ Working(t) /\ pc[t] # "start" => mem[t] \in JobStatus
        /\ pc[t] \in {"start", "bootstrap", "loop", "pick"} => rounds[t] > 0

ClaimInv == \A w \in Workers : \A j \in claimed[w] : Exists(j)

RequestInv ==
    request.at # "idle" =>
        request.job \in Jobs /\ Exists(request.job) /\ request.cmd # "none"

\* What the database and the processes hold, what the tasks hold, and the request.
StoreInv ==
    /\ RowsOK /\ WorkersOK /\ ClaimInv
    /\ commands \in 0..MaxCommands
    /\ crashes \in 0..MaxCrashes
TasksInv == TasksOK /\ TaskInv
AskInv == RequestOK /\ RequestInv

TypeInv == StoreInv /\ TasksInv /\ AskInv

\* No step deletes a row.
RowsKept == \A j \in Jobs : Exists(j) => status'[j] # "none"

LEMMA TypeInvInit == Init => TypeInv
<1> SUFFICES ASSUME Init PROVE TypeInv
  OBVIOUS
<1>1. RowsOK /\ WorkersOK /\ ClaimInv
  BY DEF Init, RowsOK, WorkersOK, ClaimInv, NovelStatus
<1>2. commands \in 0..MaxCommands /\ crashes \in 0..MaxCrashes
  BY BoundAssumption DEF Init
<1>3. TasksOK
  BY BoundAssumption DEF Init, TasksOK, Labels, NovelStatus
<1>4. TaskInv
  BY DEF Init, TaskInv, Working
<1>5. AskInv
  BY DEF Init, AskInv, RequestOK, RequestInv, NoRequest, NovelStatus
<1> QED
  BY <1>1, <1>2, <1>3, <1>4, <1>5 DEF TypeInv, StoreInv, TasksInv

\* The status rules return statuses.
LEMMA RulesTyped ==
    ASSUME NEW s \in JobStatus, NEW n \in NovelStatus
    PROVE  /\ FailJob(s) \in JobStatus /\ PauseJob(s) \in JobStatus
           /\ CancelJob(s) \in JobStatus /\ CompleteJob(s) \in JobStatus
           /\ CompleteNovel(s, n) \in NovelStatus
BY DEF FailJob, PauseJob, CancelJob, CompleteJob, CompleteNovel, JobStatus, NovelStatus

\* What a task finds in the rows and in its session.
LEMMA CopiesTyped ==
    ASSUME TypeInv, NEW t \in Tasks, pc[t] # "free"
    PROVE  /\ job[t] \in Jobs /\ host[t] \in Workers
           /\ Row(t) \in JobStatus /\ NovelRow(t) \in NovelStatus
           /\ memNovel[t] \in NovelStatus
           /\ Working(t) /\ pc[t] # "start" => mem[t] \in JobStatus
BY ProjectAssumption
   DEF TypeInv, StoreInv, TasksInv, RowsOK, TasksOK, TaskInv, Exists, Row, NovelRow

LEMMA WriteTyped ==
    ASSUME TypeInv, NEW t \in Tasks, pc[t] # "free",
           NEW s \in JobStatus, NEW n \in NovelStatus, Write(t, s, n)
    PROVE  StoreInv' /\ RowsKept
<1>1. RowsKept
  BY DEF TypeInv, StoreInv, RowsOK, Write, RowsKept, Exists, JobStatus
<1>2. RowsOK'
  BY DEF TypeInv, StoreInv, RowsOK, Write
<1>3. WorkersOK' /\ ClaimInv'
  BY <1>1 DEF TypeInv, StoreInv, WorkersOK, ClaimInv, Write, workerVars, RowsKept, Exists
<1> QED
  BY <1>1, <1>2, <1>3 DEF TypeInv, StoreInv, Write, budget

LEMMA NoWriteTyped ==
    ASSUME TypeInv, NoWrite
    PROVE  StoreInv' /\ RowsKept
BY DEF TypeInv, StoreInv, RowsOK, WorkersOK, ClaimInv, NoWrite, dbVars, workerVars, budget,
       RowsKept, Exists

LEMMA GotoTyped ==
    ASSUME TypeInv, NEW t \in Tasks, pc[t] # "free", RowsKept,
           NEW l \in Labels \ {"free", "start", "unwinding", "done"},
           NEW s \in JobStatus, NEW n \in NovelStatus, Goto(t, l, s, n),
           rounds' \in [Tasks -> 0..MaxRounds],
           \A u \in Tasks \ {t} : rounds'[u] = rounds[u],
           l \in {"bootstrap", "loop", "pick"} => rounds'[t] > 0,
           UNCHANGED request
    PROVE  TasksInv' /\ AskInv'
<1>1. TasksOK'
  BY DEF TypeInv, TasksInv, TasksOK, Goto
<1>2. TaskInv'
  BY DEF TypeInv, TasksInv, TasksOK, TaskInv, Goto, Working, RowsKept, Exists
<1>3. AskInv'
  BY DEF TypeInv, AskInv, RequestOK, RequestInv, RowsKept, Exists
<1> QED
  BY <1>1, <1>2, <1>3 DEF TasksInv

LEMMA EndsTyped ==
    ASSUME TypeInv, NEW t \in Tasks, pc[t] # "free", RowsKept, Ends(t)
    PROVE  TasksInv' /\ AskInv'
<1>1. TasksOK'
  BY BoundAssumption DEF TypeInv, TasksInv, TasksOK, Ends, Labels, NovelStatus
<1>2. TaskInv'
  BY DEF TypeInv, TasksInv, TasksOK, TaskInv, Ends, Working, RowsKept, Exists
<1>3. AskInv'
  BY DEF TypeInv, AskInv, RequestOK, RequestInv, Ends, RowsKept, Exists
<1> QED
  BY <1>1, <1>2, <1>3 DEF TasksInv

-----------------------------------------------------------------------------
(* The steps of a task *)

LEMMA TaskTyped ==
    ASSUME TypeInv, NEW t \in Tasks, TaskAdvances(t)
    PROVE  TypeInv' /\ RowsKept
<1> USE DEF Labels
<1>0. pc[t] # "free"
  BY DEF TaskAdvances, Start, BootstrapContinues, BootstrapPauses, BootstrapFails, LoopTop,
         TargetReached, PickChapter, Checkpoint, ChapterPauses, ChapterEnds,
         ChapterJsonError, ChapterRaises, PostProcessingTimeout, AfterChapter, FinishBatch,
         FailBatch, FailBatchDatabase, Unwind
<1>1. /\ job[t] \in Jobs
      /\ Row(t) \in JobStatus /\ NovelRow(t) \in NovelStatus /\ memNovel[t] \in NovelStatus
      /\ Working(t) /\ pc[t] # "start" => mem[t] \in JobStatus
  BY <1>0, CopiesTyped
<1>2. /\ rounds \in [Tasks -> 0..MaxRounds]
      /\ pc[t] \in {"start", "bootstrap", "loop", "pick"} => rounds[t] > 0
  BY DEF TypeInv, TasksInv, TasksOK, TaskInv
<1>3. {"generating", "paused", "completed"} \subseteq NovelStatus
      /\ {"running", "failed"} \subseteq JobStatus
  BY DEF NovelStatus, JobStatus
<1>4. StoreInv' /\ TasksInv' /\ AskInv' => TypeInv'
  BY DEF TypeInv
<1>5. ASSUME NEW s \in JobStatus, NEW n \in NovelStatus, Write(t, s, n), Ends(t)
      PROVE  TypeInv' /\ RowsKept
  BY <1>0, <1>4, <1>5, WriteTyped, EndsTyped
<1>6. ASSUME NoWrite, Ends(t)
      PROVE  TypeInv' /\ RowsKept
  BY <1>0, <1>4, <1>6, NoWriteTyped, EndsTyped
<1>7. ASSUME StoreInv', RowsKept,
             NEW l \in Labels \ {"free", "start", "unwinding", "done"},
             NEW s \in JobStatus, NEW n \in NovelStatus, Goto(t, l, s, n),
             UNCHANGED <<rounds, request>>,
             l \in {"bootstrap", "loop", "pick"} => rounds[t] > 0
      PROVE  TypeInv' /\ RowsKept
  BY <1>0, <1>2, <1>4, <1>7, GotoTyped
<1>8. ASSUME Rescue(t)
      PROVE  TypeInv' /\ RowsKept
  BY <1>1, <1>3, <1>5, <1>8 DEF Rescue
<1>9. CASE Start(t)
  <2>1. CASE Goto(t, "loop", Row(t), NovelRow(t)) /\ NoWrite
    BY <1>1, <1>2, <1>7, <1>9, <2>1, NoWriteTyped DEF Start
  <2>2. CASE Goto(t, "bootstrap", Row(t), "generating") /\ Write(t, Row(t), "generating")
    BY <1>0, <1>1, <1>2, <1>3, <1>7, <1>9, <2>2, WriteTyped DEF Start
  <2> QED BY <1>9, <2>1, <2>2 DEF Start
<1>10. CASE BootstrapContinues(t)
  BY <1>0, <1>1, <1>2, <1>7, <1>10, WriteTyped DEF BootstrapContinues, Working
<1>11. CASE BootstrapPauses(t)
  BY <1>1, <1>3, <1>5, <1>11, RulesTyped DEF BootstrapPauses, Working, Flush
<1>12. CASE BootstrapFails(t)
  BY <1>1, <1>3, <1>5, <1>12, RulesTyped DEF BootstrapFails, Working, Flush
<1>13. CASE LoopTop(t)
  <2>1. CASE Rescue(t)
    BY <1>8, <2>1
  <2>2. CASE /\ NoWrite \/ Write(t, mem[t], memNovel[t])
             /\ Goto(t, "pick", mem[t], memNovel[t])
             /\ UNCHANGED <<rounds, request>>
    BY <1>0, <1>1, <1>2, <1>7, <1>13, <2>2, NoWriteTyped, WriteTyped DEF LoopTop, Working
  <2> QED BY <1>13, <2>1, <2>2 DEF LoopTop
<1>14. CASE TargetReached(t)
  BY <1>1, <1>3, <1>5, <1>14, RulesTyped DEF TargetReached, Working, Flush
<1>15. CASE PickChapter(t)
  <2>1. CASE Row(t) = "paused"
    BY <1>6, <1>15, <2>1 DEF PickChapter
  <2>2. CASE Row(t) = "running"
    <3>1. /\ Goto(t, "chapter", Row(t), memNovel[t])
          /\ rounds' = [rounds EXCEPT ![t] = @ - 1]
          /\ Write(t, Row(t), NovelRow(t))
          /\ UNCHANGED request
          /\ pc[t] = "pick"
      BY <1>15, <2>2 DEF PickChapter
    <3>2. StoreInv' /\ RowsKept
      BY <1>0, <1>1, <3>1, WriteTyped
    <3>3. /\ rounds' \in [Tasks -> 0..MaxRounds]
          /\ \A u \in Tasks \ {t} : rounds'[u] = rounds[u]
      BY <1>2, <3>1, BoundAssumption
    <3> QED
      BY <1>0, <1>1, <1>4, <3>1, <3>2, <3>3, GotoTyped
  <2>3. CASE Row(t) \notin {"paused", "running"}
    BY <1>1, <1>7, <1>15, <2>3, NoWriteTyped DEF PickChapter
  <2> QED BY <2>1, <2>2, <2>3
<1>16. CASE Checkpoint(t)
  BY <1>1, <1>6, <1>7, <1>16, NoWriteTyped DEF Checkpoint, Working
<1>17. CASE ChapterPauses(t)
  BY <1>0, <1>1, <1>3, <1>7, <1>17, WriteTyped, RulesTyped DEF ChapterPauses, Working, Flush
<1>18. CASE ChapterEnds(t)
  BY <1>1, <1>7, <1>18, NoWriteTyped DEF ChapterEnds, Working
<1>19. CASE ChapterJsonError(t)
  <2>0. pc[t] = "chapter" /\ mem[t] \in JobStatus
    BY <1>1, <1>19 DEF ChapterJsonError, Working
  <2>1. CASE /\ rounds[t] > 0 /\ UNCHANGED <<rounds, request>>
             /\ Write(t, Flush(Row(t), mem[t], "running"),
                         Flush(NovelRow(t), memNovel[t], "generating"))
             /\ Goto(t, "loop", "running", "generating")
    BY <1>0, <1>1, <1>3, <1>7, <2>1, WriteTyped DEF Flush
  <2>2. CASE /\ rounds[t] > 0 /\ UNCHANGED <<rounds, request>>
             /\ Write(t, Row(t), NovelRow(t))
             /\ Goto(t, "loop", mem[t], memNovel[t])
    BY <1>0, <1>1, <1>7, <2>0, <2>2, WriteTyped
  <2>3. CASE /\ Write(t, Flush(Row(t), mem[t], FailJob(mem[t])),
                         Flush(NovelRow(t), memNovel[t], "paused"))
             /\ Ends(t)
    BY <1>1, <1>3, <1>5, <2>0, <2>3, RulesTyped DEF Flush
  <2> QED BY <1>19, <2>1, <2>2, <2>3 DEF ChapterJsonError
<1>20. CASE ChapterRaises(t)
  BY <1>1, <1>7, <1>20, NoWriteTyped DEF ChapterRaises, Working
<1>21. CASE PostProcessingTimeout(t)
  BY <1>3, <1>5, <1>21 DEF PostProcessingTimeout
<1>22. CASE AfterChapter(t)
  <2>1. CASE (NoWrite \/ Write(t, Row(t), "paused")) /\ Ends(t)
    BY <1>1, <1>3, <1>5, <1>6, <2>1
  <2>2. CASE /\ Write(t, Row(t), NovelRow(t)) /\ UNCHANGED <<rounds, request>>
             /\ \/ Goto(t, "finish", Row(t), NovelRow(t))
                \/ rounds[t] > 0 /\ Goto(t, "loop", Row(t), NovelRow(t))
    BY <1>0, <1>1, <1>7, <2>2, WriteTyped
  <2> QED BY <1>22, <2>1, <2>2 DEF AfterChapter, BatchRemains
<1>23. CASE FinishBatch(t)
  BY <1>1, <1>3, <1>5, <1>23, RulesTyped DEF FinishBatch, Working, Flush
<1>24. CASE FailBatch(t)
  BY <1>1, <1>3, <1>5, <1>24, RulesTyped DEF FailBatch, Working, Flush
<1>25. CASE FailBatchDatabase(t)
  BY <1>8, <1>25 DEF FailBatchDatabase
<1>26. CASE Unwind(t)
  BY <1>6, <1>26 DEF Unwind
<1> QED
  BY <1>9, <1>10, <1>11, <1>12, <1>13, <1>14, <1>15, <1>16, <1>17, <1>18, <1>19, <1>20,
     <1>21, <1>22, <1>23, <1>24, <1>25, <1>26 DEF TaskAdvances

-----------------------------------------------------------------------------
(* The steps of the processes, of time and of the user *)

\* A step that leaves the request alone, or the tasks, keeps what is said of them.
LEMMA AskKept ==
    ASSUME TypeInv, RowsKept, UNCHANGED request
    PROVE  AskInv'
BY DEF TypeInv, AskInv, RequestOK, RequestInv, RowsKept, Exists

LEMMA TasksKept ==
    ASSUME TypeInv, RowsKept, UNCHANGED taskVars
    PROVE  TasksInv'
BY DEF TypeInv, TasksInv, TasksOK, TaskInv, Working, taskVars, RowsKept, Exists

LEMMA WorkersKept ==
    ASSUME TypeInv, RowsKept, UNCHANGED workerVars
    PROVE  WorkersOK' /\ ClaimInv'
BY DEF TypeInv, StoreInv, WorkersOK, ClaimInv, workerVars, RowsKept, Exists

LEMMA StatusWritten ==
    ASSUME TypeInv, \A j \in Jobs : status'[j] = status[j] \/ status'[j] \in JobStatus
    PROVE  RowsKept
BY DEF RowsKept, Exists, JobStatus

LEMMA WorkerTyped ==
    ASSUME TypeInv, NEW w \in Workers, WorkerStep(w)
    PROVE  TypeInv' /\ RowsKept
<1>1. CASE PollClaim(w)
  <2> DEFINE finished == {t \in Tasks : pc[t] = "done" /\ host[t] = w}
  <2>1. PICK taken \in SUBSET Jobs :
             /\ \A j \in taken : status[j] = "pending"
             /\ status' = [j \in Jobs |-> IF j \in taken THEN "running" ELSE status[j]]
             /\ stale' = [j \in Jobs |-> stale[j] /\ j \notin taken]
             /\ claimed' = [claimed EXCEPT ![w] = taken]
    BY <1>1, Zenon DEF PollClaim
  <2>2. RowsKept
    BY <2>1 DEF RowsKept, Exists
  <2>3. RowsOK'
    BY <1>1, <2>1 DEF PollClaim, TypeInv, StoreInv, RowsOK, JobStatus
  <2>4. WorkersOK'
    BY <1>1, <2>1 DEF PollClaim, TypeInv, StoreInv, WorkersOK
  <2>5. ClaimInv'
    BY <1>1, <2>1, <2>2 DEF TypeInv, StoreInv, WorkersOK, ClaimInv, RowsKept, Exists
  <2>6. TasksOK'
    BY <1>1 DEF PollClaim, TypeInv, TasksInv, TasksOK, Labels
  <2>7. TaskInv'
    <3>1. /\ pc' = [t \in Tasks |-> IF t \in finished THEN "free" ELSE pc[t]]
          /\ job' = [t \in Tasks |-> IF t \in finished THEN NoJob ELSE job[t]]
          /\ host' = [t \in Tasks |-> IF t \in finished THEN NoWorker ELSE host[t]]
          /\ UNCHANGED <<mem, rounds>>
      BY <1>1, Zenon DEF PollClaim
    <3> QED
      BY <2>2, <3>1 DEF TypeInv, TasksInv, TasksOK, TaskInv, Working, RowsKept, Exists
  <2>8. AskInv'
    BY <1>1, <2>2, AskKept DEF PollClaim
  <2> QED
    BY <1>1, <2>2, <2>3, <2>4, <2>5, <2>6, <2>7, <2>8
       DEF PollClaim, TypeInv, StoreInv, TasksInv, budget
<1>2. CASE PollSpawn(w)
  <2>1. claimed[w] \subseteq Jobs /\ claimed[w] # {}
    BY <1>2 DEF PollSpawn, TypeInv, StoreInv, WorkersOK
  <2> DEFINE j == Oldest(claimed[w])
             old == registry[w][j]
             waits == IsActive(w, j)
  <2>2. j \in Jobs /\ Exists(j)
    BY <2>1, OldestIn DEF TypeInv, StoreInv, ClaimInv
  <2>3. PICK t \in Tasks :
          /\ pc[t] = "free"
          /\ pc' = [u \in Tasks |-> CASE u = t -> "start"
                                     [] u # t /\ waits /\ u = old -> "unwinding"
                                     [] OTHER -> pc[u]]
          /\ job' = [job EXCEPT ![t] = j]
          /\ host' = [host EXCEPT ![t] = w]
          /\ rounds' = [rounds EXCEPT ![t] = MaxRounds]
          /\ joining' = [joining EXCEPT ![w] = IF waits THEN t ELSE NoTask]
          /\ claimed' = [claimed EXCEPT ![w] = IF waits THEN @ ELSE @ \ {j}]
          /\ registry' = IF waits THEN registry
                         ELSE [registry EXCEPT ![w][j] = t]
    BY <1>2 DEF PollSpawn
  <2>4. waits => old \in Tasks /\ pc[old] # "free"
    BY <2>2 DEF IsActive, Live, TypeInv, StoreInv, WorkersOK
  <2>5. RowsKept
    BY <1>2 DEF PollSpawn, RowsKept, Exists, dbVars
  <2> HIDE DEF j, old, waits
  <2>6. RowsOK'
    BY <1>2 DEF PollSpawn, dbVars, TypeInv, StoreInv, RowsOK
  <2>7. WorkersOK'
    BY <1>2, <2>2, <2>3 DEF PollSpawn, TypeInv, StoreInv, WorkersOK
  <2>8. ClaimInv'
    BY <1>2, <2>3, <2>5 DEF TypeInv, StoreInv, WorkersOK, ClaimInv, RowsKept, Exists
  <2>9. TasksOK'
    BY <1>2, <2>2, <2>3, BoundAssumption DEF PollSpawn, TypeInv, TasksInv, TasksOK, Labels
  <2>10. TaskInv'
    BY <1>2, <2>2, <2>3, <2>4, <2>5, BoundAssumption
       DEF PollSpawn, TypeInv, TasksInv, TasksOK, TaskInv, Working, RowsKept, Exists
  <2>11. AskInv'
    BY <1>2, <2>5, AskKept DEF PollSpawn
  <2> QED
    BY <1>2, <2>5, <2>6, <2>7, <2>8, <2>9, <2>10, <2>11
       DEF PollSpawn, TypeInv, StoreInv, TasksInv, budget
<1>3. CASE PollRegister(w)
  <2>1. RowsKept /\ RowsOK'
    BY <1>3 DEF PollRegister, RowsKept, Exists, dbVars, TypeInv, StoreInv, RowsOK
  <2>2. WorkersOK'
    BY <1>3 DEF PollRegister, TypeInv, StoreInv, WorkersOK
  <2>3. ClaimInv'
    BY <1>3, <2>1 DEF PollRegister, TypeInv, StoreInv, WorkersOK, ClaimInv, RowsKept, Exists
  <2> QED
    BY <1>3, <2>1, <2>2, <2>3, AskKept, TasksKept
       DEF PollRegister, TypeInv, StoreInv, budget
<1>4. CASE RefreshTunables(w)
  <2>1. RowsKept /\ RowsOK'
    BY <1>4 DEF RefreshTunables, RowsKept, Exists, dbVars, TypeInv, StoreInv, RowsOK
  <2>2. WorkersOK' /\ ClaimInv'
    BY <1>4, <2>1
       DEF RefreshTunables, TypeInv, StoreInv, RowsOK, WorkersOK, ClaimInv, RowsKept, Exists
  <2> QED
    BY <1>4, <2>1, <2>2, AskKept, TasksKept DEF RefreshTunables, TypeInv, StoreInv, budget
<1>5. CASE OrphanSweep(w)
  <2>1. RowsKept
    BY <1>5 DEF OrphanSweep, FailRows, RowsKept, Exists
  <2>2. RowsOK'
    BY <1>5 DEF OrphanSweep, FailRows, TypeInv, StoreInv, RowsOK, JobStatus, NovelStatus
  <2> QED
    BY <1>5, <2>1, <2>2, AskKept, TasksKept, WorkersKept
       DEF OrphanSweep, TypeInv, StoreInv, budget
<1> QED
  BY <1>1, <1>2, <1>3, <1>4, <1>5 DEF WorkerStep

\* The death of a process and what its successor, or time, does to the rows.
LEMMA ProcessTyped ==
    ASSUME TypeInv, NEW w \in Workers, Crash(w) \/ Restart(w)
    PROVE  TypeInv' /\ RowsKept
<1>1. CASE Crash(w)
  <2>1. RowsKept /\ RowsOK'
    BY <1>1 DEF Crash, RowsKept, Exists, dbVars, TypeInv, StoreInv, RowsOK
  <2>2. WorkersOK' /\ ClaimInv'
    BY <1>1, <2>1
       DEF Crash, TypeInv, StoreInv, WorkersOK, ClaimInv, RowsKept, Exists
  <2>3. TasksOK'
    BY <1>1, BoundAssumption
       DEF Crash, TypeInv, TasksInv, TasksOK, Labels, NovelStatus
  <2>4. TaskInv'
    BY <1>1, <2>1
       DEF Crash, TypeInv, TasksInv, TasksOK, TaskInv, Working, RowsKept, Exists
  <2>5. AskInv'
    <3>1. CASE request' = request
      BY <2>1, <3>1, AskKept
    <3>2. CASE request' = NoRequest
      BY <3>2 DEF AskInv, RequestOK, RequestInv, NoRequest, NovelStatus
    <3> QED BY <1>1, <3>1, <3>2 DEF Crash
  <2>6. commands' \in 0..MaxCommands /\ crashes' \in 0..MaxCrashes
    BY <1>1, BoundAssumption DEF Crash, TypeInv, StoreInv
  <2> QED
    BY <2>1, <2>2, <2>3, <2>4, <2>5, <2>6 DEF TypeInv, StoreInv, TasksInv
<1>2. CASE Restart(w)
  <2>1. PICK J \in SUBSET Jobs, P \in SUBSET Projects : FailRows(J, P)
    BY <1>2, ProjectAssumption DEF Restart, StaleRunning
  <2>2. RowsKept
    BY <2>1 DEF FailRows, RowsKept, Exists
  <2>3. RowsOK'
    BY <2>1 DEF FailRows, TypeInv, StoreInv, RowsOK, JobStatus, NovelStatus
  <2>4. WorkersOK' /\ ClaimInv'
    BY <1>2, <2>2
       DEF Restart, TypeInv, StoreInv, RowsOK, WorkersOK, ClaimInv, RowsKept, Exists
  <2> QED
    BY <1>2, <2>2, <2>3, <2>4, AskKept, TasksKept DEF Restart, TypeInv, StoreInv, budget
<1> QED
  BY <1>1, <1>2

LEMMA RowTyped ==
    ASSUME TypeInv,
           (\E t \in Tasks : ChapterCommit(t)) \/ (\E j \in Jobs : Age(j))
    PROVE  TypeInv' /\ RowsKept
<1>1. ASSUME NEW t \in Tasks, ChapterCommit(t)
      PROVE  TypeInv' /\ RowsKept
  <2>1. pc[t] # "free" /\ Write(t, Row(t), NovelRow(t)) /\ UNCHANGED <<taskVars, request>>
    BY <1>1 DEF ChapterCommit
  <2>2. StoreInv' /\ RowsKept
    BY <2>1, CopiesTyped, WriteTyped
  <2> QED BY <2>1, <2>2, AskKept, TasksKept DEF TypeInv
<1>2. ASSUME NEW j \in Jobs, Age(j)
      PROVE  TypeInv' /\ RowsKept
  <2>1. RowsKept /\ RowsOK'
    BY <1>2 DEF Age, RowsKept, Exists, TypeInv, StoreInv, RowsOK
  <2> QED
    BY <1>2, <2>1, AskKept, TasksKept, WorkersKept DEF Age, TypeInv, StoreInv, budget
<1> QED
  BY <1>1, <1>2

LEMMA CommandTyped ==
    ASSUME TypeInv, UserCommand
    PROVE  TypeInv' /\ RowsKept
<1>1. ASSUME Command, RowsKept, RowsOK'
      PROVE  TypeInv' /\ RowsKept
  <2>1. UNCHANGED <<crashes, taskVars, workerVars, request>> /\ commands' \in 0..MaxCommands
    BY <1>1, BoundAssumption DEF Command, TypeInv, StoreInv
  <2> QED
    BY <1>1, <2>1, AskKept, TasksKept, WorkersKept DEF TypeInv, StoreInv
<1>2. ASSUME Command, NEW j, Enqueue(j)
      PROVE  TypeInv' /\ RowsKept
  <2>1. RowsKept
    BY <1>2, StatusWritten DEF Enqueue, TypeInv, StoreInv, RowsOK, JobStatus
  <2>2. RowsOK'
    BY <1>2 DEF Enqueue, Command, TypeInv, StoreInv, RowsOK, JobStatus, NovelStatus
  <2> QED BY <1>1, <1>2, <2>1, <2>2
<1>3. ASSUME NEW p \in Projects, Generate(p)
      PROVE  TypeInv' /\ RowsKept
  BY <1>2, <1>3 DEF Generate
<1>4. ASSUME NEW p \in Projects, Pause(p)
      PROVE  TypeInv' /\ RowsKept
  <2>1. RowsKept
    BY <1>4 DEF Pause, RowsKept, Exists, PauseJob
  <2>2. RowsOK'
    BY <1>4
       DEF Pause, Command, PauseJob, TypeInv, StoreInv, RowsOK, JobStatus, NovelStatus
  <2> QED BY <1>1, <1>4, <2>1, <2>2 DEF Pause
<1>5. ASSUME NEW p \in Projects, Resume(p)
      PROVE  TypeInv' /\ RowsKept
  BY <1>2, <1>5 DEF Resume
<1>6. CASE ToggleClaim
  <2>1. RowsKept /\ RowsOK'
    BY <1>6 DEF ToggleClaim, RowsKept, Exists, TypeInv, StoreInv, RowsOK
  <2>2. WorkersOK' /\ ClaimInv'
    BY <1>6, <2>1
       DEF ToggleClaim, TypeInv, StoreInv, RowsOK, WorkersOK, ClaimInv, RowsKept, Exists
  <2>3. commands' \in 0..MaxCommands /\ crashes' \in 0..MaxCrashes
    BY <1>6, BoundAssumption DEF ToggleClaim, TypeInv, StoreInv
  <2> QED
    BY <1>6, <2>1, <2>2, <2>3, AskKept, TasksKept DEF ToggleClaim, TypeInv, StoreInv
<1>7. ASSUME NEW cmd \in {"cancel", "retry", "rewrite"}, NEW j \in Jobs,
             BeginRequest(cmd, j)
      PROVE  TypeInv' /\ RowsKept
  <2> DEFINE cancels == cmd # "retry" /\ ApiHost # NoWorker /\ IsActive(ApiHost, j)
             old == registry[ApiHost][j]
  <2>1. RowsKept /\ RowsOK' /\ WorkersOK' /\ ClaimInv'
    <3>1. RowsKept
      BY <1>7 DEF BeginRequest, RowsKept, Exists, dbVars
    <3> QED
      BY <1>7, <3>1, WorkersKept DEF BeginRequest, dbVars, TypeInv, StoreInv, RowsOK
  <2>2. cancels => old \in Tasks /\ pc[old] # "free"
    BY HostAssumption DEF IsActive, Live, TypeInv, StoreInv, WorkersOK
  <2>3. /\ pc' = IF cancels THEN [pc EXCEPT ![old] = "unwinding"] ELSE pc
        /\ request' = [NoRequest EXCEPT !.at = "read", !.cmd = cmd, !.job = j,
                                        !.task = IF cancels THEN old ELSE NoTask]
        /\ UNCHANGED <<job, host, mem, memNovel, rounds>>
        /\ Exists(j)
    BY <1>7 DEF BeginRequest
  <2> HIDE DEF cancels, old
  <2>4. TasksOK'
    BY <2>3 DEF TypeInv, TasksInv, TasksOK, Labels
  <2>5. TaskInv'
    BY <2>1, <2>2, <2>3 DEF TypeInv, TasksInv, TasksOK, TaskInv, Working, RowsKept, Exists
  <2>6. AskInv'
    <3>1. request' = [at |-> "read", cmd |-> cmd, job |-> j,
                      task |-> IF cancels THEN old ELSE NoTask,
                      seen |-> [k \in Jobs |-> "none"], seenNovel |-> "planning"]
      BY <2>3 DEF NoRequest
    <3>2. (IF cancels THEN old ELSE NoTask) \in Tasks \cup {NoTask}
      BY <2>2
    <3>3. RequestOK'
      BY <3>1, <3>2 DEF RequestOK, NovelStatus
    <3>4. RequestInv'
      BY <2>1, <2>3, <3>1 DEF RequestInv, RowsKept, Exists
    <3> QED BY <3>3, <3>4 DEF AskInv
  <2>7. commands' \in 0..MaxCommands /\ crashes' \in 0..MaxCrashes
    BY <1>7, BoundAssumption DEF BeginRequest, TypeInv, StoreInv
  <2> QED
    BY <2>1, <2>4, <2>5, <2>6, <2>7 DEF TypeInv, StoreInv, TasksInv
<1> QED
  BY <1>3, <1>4, <1>5, <1>6, <1>7 DEF UserCommand

LEMMA RequestTyped ==
    ASSUME TypeInv, RequestReads \/ RequestWrites
    PROVE  TypeInv' /\ RowsKept
<1>1. CASE RequestReads
  <2> DEFINE p == ProjectOf[request.job]
             target == IF request.cmd = "rewrite" THEN Newest(Existing(p)) ELSE request.job
  <2>1. RowsKept /\ StoreInv'
    BY <1>1
       DEF RequestReads, RowsKept, Exists, dbVars, workerVars, budget,
           TypeInv, StoreInv, RowsOK, WorkersOK, ClaimInv
  <2>2. request.job \in Jobs /\ Exists(request.job) /\ request.cmd # "none"
    BY <1>1 DEF RequestReads, TypeInv, AskInv, RequestInv
  <2>3. target \in Jobs /\ Exists(target)
    <3>1. request.job \in Existing(p) /\ Existing(p) \subseteq Jobs
      BY <2>2 DEF Existing, JobsOf
    <3>2. Newest(Existing(p)) \in Existing(p)
      BY <3>1, NewestIn, Zenon
    <3> QED BY <2>2, <3>1, <3>2 DEF Existing
  <2>4. \/ request' = NoRequest
        \/ request' = [request EXCEPT !.at = "write", !.job = target, !.task = NoTask,
                                      !.seen = status, !.seenNovel = novel[p]]
    BY <1>1 DEF RequestReads
  <2>5. novel[p] \in NovelStatus
    BY <2>2, ProjectAssumption DEF TypeInv, StoreInv, RowsOK
  <2> HIDE DEF p, target
  <2>6. AskInv'
    <3>1. CASE request' = NoRequest
      BY <3>1 DEF AskInv, RequestOK, RequestInv, NoRequest, NovelStatus
    <3>2. CASE request' = [request EXCEPT !.at = "write", !.job = target, !.task = NoTask,
                                          !.seen = status, !.seenNovel = novel[p]]
      <4>1. request' = [at |-> "write", cmd |-> request.cmd, job |-> target,
                        task |-> NoTask, seen |-> status, seenNovel |-> novel[p]]
        BY <3>2 DEF TypeInv, AskInv, RequestOK
      <4>2. request.cmd \in {"cancel", "retry", "rewrite"}
        BY <2>2 DEF TypeInv, AskInv, RequestOK
      <4>3. RequestOK'
        BY <2>3, <2>5, <4>1, <4>2 DEF TypeInv, StoreInv, RowsOK, RequestOK
      <4>4. RequestInv'
        BY <2>1, <2>3, <4>1, <4>2 DEF RequestInv, RowsKept, Exists
      <4> QED BY <4>3, <4>4 DEF AskInv
    <3> QED BY <2>4, <3>1, <3>2
  <2> QED
    BY <1>1, <2>1, <2>6, TasksKept DEF RequestReads, TypeInv
<1>2. CASE RequestWrites
  <2>1. request.job \in Jobs /\ request.cmd \in {"cancel", "retry", "rewrite"}
    BY <1>2 DEF RequestWrites, TypeInv, AskInv, RequestOK, RequestInv
  <2>2. /\ Requested \in [Jobs -> JobStatus \cup {"none"}]
        /\ \A j \in Jobs : Requested[j] = status[j] \/ Requested[j] \in JobStatus
    BY <2>1 DEF Requested, Flush, TypeInv, StoreInv, RowsOK, JobStatus
  <2>3. RowsKept
    BY <1>2, <2>2, StatusWritten DEF RequestWrites, dbVars
  <2>4. RowsOK'
    <3>1. CASE UNCHANGED dbVars
      BY <3>1 DEF dbVars, TypeInv, StoreInv, RowsOK
    <3>2. CASE ~ UNCHANGED dbVars
      <4>1. PICK n \in NovelStatus :
              novel' = [novel EXCEPT ![ProjectOf[request.job]] =
                                        Flush(@, request.seenNovel, n)]
        BY <1>2, <3>2
           DEF RequestWrites, TypeInv, AskInv, RequestOK, NovelStatus
      <4>2. /\ status' = Requested /\ UNCHANGED claimPaused
            /\ stale' = [k \in Jobs |-> stale[k] /\ Requested[k] = status[k]
                                                 /\ k # request.job]
        BY <1>2, <3>2, Zenon DEF RequestWrites
      <4> QED BY <2>2, <4>1, <4>2 DEF Flush, TypeInv, StoreInv, RowsOK
    <3> QED BY <3>1, <3>2
  <2>5. AskInv'
    BY <1>2 DEF RequestWrites, AskInv, RequestOK, RequestInv, NoRequest, NovelStatus
  <2> QED
    BY <1>2, <2>3, <2>4, <2>5, TasksKept, WorkersKept
       DEF RequestWrites, TypeInv, StoreInv, budget
<1> QED
  BY <1>1, <1>2

LEMMA StepTyped ==
    ASSUME TypeInv, [Next]_vars
    PROVE  TypeInv'
<1>1. CASE Next
  BY <1>1, TaskTyped, WorkerTyped, ProcessTyped, RowTyped, CommandTyped, RequestTyped DEF Next
<1>2. CASE UNCHANGED vars
  BY <1>2
     DEF vars, dbVars, workerVars, taskVars, budget, TypeInv, StoreInv, TasksInv, AskInv,
         RowsOK, WorkersOK, TasksOK, RequestOK, ClaimInv, TaskInv, RequestInv, Working, Exists
<1> QED BY <1>1, <1>2

\* Every reachable state is well typed, and what a task, a claim or a request
\* refers to is a row that exists.
THEOREM TypeCorrect == Spec => [](TypeOK /\ TypeInv)
<1>1. Init => TypeInv
  BY TypeInvInit
<1>2. TypeInv /\ [Next]_vars => TypeInv'
  BY StepTyped
<1>3. TypeInv => TypeOK
  BY DEF TypeInv, StoreInv, TasksInv, AskInv, TypeOK
<1> QED
  BY <1>1, <1>2, <1>3, PTL DEF Spec

-----------------------------------------------------------------------------
(* The registry of a process.  What a process knows of its own tasks holds   *)
(* whatever the other processes do: a task that runs is the registered one,  *)
(* or the one poll_jobs is about to register, and then the registered one    *)
(* has been cancelled.                                                       *)

\* Every task that runs in the process is registered, or waits to be.
OwnersKnown(w) ==
    \A t \in Tasks : Working(t) /\ host[t] = w => registry[w][job[t]] = t \/ joining[w] = t

\* An entry of the registry is a task of its job and of its process that has
\* not been forgotten.
EntriesTrue(w) ==
    \A j \in Jobs : registry[w][j] # NoTask =>
        /\ job[registry[w][j]] = j /\ host[registry[w][j]] = w
        /\ pc[registry[w][j]] # "free"

\* While a task waits to be registered its job is still claimed, and the task
\* it replaces does not run any more.
HandoverSafe(w) ==
    joining[w] # NoTask =>
        /\ pc[joining[w]] # "free" /\ host[joining[w]] = w
        /\ job[joining[w]] \in claimed[w]
        /\ registry[w][job[joining[w]]] # joining[w]
        /\ registry[w][job[joining[w]]] # NoTask
               => ~Working(registry[w][job[joining[w]]])

\* A claim is younger than the stale threshold.
ClaimsFresh(w) == \A j \in claimed[w] : ~stale[j]

\* The jobs that hold or await a place, and the limit on them.
Slots(w) == Active(w) \cup claimed[w]
SlotsBounded(w) == Cardinality(Slots(w)) <= MaxConcurrent

RegistryInv(w) == OwnersKnown(w) /\ EntriesTrue(w) /\ HandoverSafe(w) /\ ClaimsFresh(w)
OwnerInv(w) == RegistryInv(w) /\ SlotsBounded(w)

\* There are finitely many rows.
LEMMA JobsFinite == IsFiniteSet(Jobs)
<1>1. PICK last \in Jobs : \A j \in Jobs : j <= last
  BY JobsAssumption
<1> QED
  BY <1>1, JobsAssumption, FS_BoundedSetOfNaturals

\* A set of rows is as small as the number of its members that come before
\* each of them: what a claim takes, row by row, is within its capacity.
LEMMA FewBefore ==
    ASSUME NEW S \in SUBSET Jobs, NEW T \in SUBSET S, NEW c \in Nat,
           \A j \in T : Cardinality({k \in S : k < j}) < c
    PROVE  Cardinality(T) <= c
<1>1. IsFiniteSet(S) /\ IsFiniteSet(T)
  BY JobsFinite, FS_Subset
<1>2. CASE T = {}
  BY <1>2, FS_EmptySet
<1>3. CASE T # {}
  <2>1. PICK m \in T : \A k \in T : m >= k
    BY <1>3, NewestIn
  <2> DEFINE before == {k \in S : k < m}
  <2>2. T \ {m} \in SUBSET before
    <3> SUFFICES ASSUME NEW k \in T, k # m PROVE k < m
      OBVIOUS
    <3>1. k \in Nat /\ m \in Nat /\ m >= k
      BY <2>1, JobsAssumption
    <3> QED BY <3>1
  <2>3. IsFiniteSet(before)
    BY <1>1, FS_Subset
  <2>4. Cardinality(before) < c
    BY <2>1
  <2> HIDE DEF before
  <2>5. Cardinality(T \ {m}) <= Cardinality(before)
    BY <2>2, <2>3, FS_Subset
  <2>6. Cardinality(T \ {m}) = Cardinality(T) - 1
    BY <1>1, <2>1, FS_RemoveElement
  <2>7. Cardinality(T) \in Nat /\ Cardinality(before) \in Nat
    BY <1>1, <2>3, FS_CardinalityType
  <2> QED BY <2>4, <2>5, <2>6, <2>7
<1> QED
  BY <1>2, <1>3

\* A step that gives no further job a place keeps the limit.
LEMMA SlotsKept ==
    ASSUME NEW w \in Workers, TypeInv, SlotsBounded(w), Slots(w)' \subseteq Slots(w)
    PROVE  SlotsBounded(w)'
<1>1. Slots(w) \subseteq Jobs
  BY DEF Slots, Active, TypeInv, StoreInv, WorkersOK
<1> DEFINE before == Slots(w)
           after  == Slots(w)'
<1>2. IsFiniteSet(before) /\ IsFiniteSet(after)
  BY <1>1, JobsFinite, FS_Subset
<1>3. Cardinality(after) <= Cardinality(before)
  BY <1>2, FS_Subset
<1>4. Cardinality(after) \in Nat /\ Cardinality(before) \in Nat
  BY <1>2, FS_CardinalityType
<1>5. Cardinality(before) <= MaxConcurrent
  BY DEF SlotsBounded
<1> HIDE DEF before, after
<1>6. Cardinality(after) <= MaxConcurrent
  BY <1>3, <1>4, <1>5, BoundAssumption
<1> QED
  BY <1>6 DEF after, SlotsBounded

\* The tasks that run in a process are the tasks of different jobs, ...
LEMMA OwnTasksDiffer ==
    ASSUME NEW w \in Workers, TypeInv, RegistryInv(w),
           NEW t \in Tasks, NEW u \in Tasks,
           Working(t), Working(u), host[t] = w, host[u] = w, job[t] = job[u]
    PROVE  t = u
<1>1. t # NoTask /\ u # NoTask
  BY TaskAssumption
<1>2. CASE registry[w][job[t]] = t
  BY <1>1, <1>2 DEF RegistryInv, OwnersKnown, HandoverSafe
<1>3. CASE joining[w] = t
  BY <1>1, <1>3 DEF RegistryInv, OwnersKnown, HandoverSafe
<1> QED
  BY <1>2, <1>3 DEF RegistryInv, OwnersKnown

\* ... each of which has a place.
LEMMA OwnTasksPlaced ==
    ASSUME NEW w \in Workers, TypeInv, RegistryInv(w),
           NEW t \in Tasks, Working(t), host[t] = w
    PROVE  job[t] \in Slots(w)
<1>1. job[t] \in Jobs /\ t # NoTask
  BY TaskAssumption DEF TypeInv, TasksInv, TaskInv, Working
<1>2. CASE registry[w][job[t]] = t
  BY <1>1, <1>2 DEF Slots, Active, IsActive, Live, Working
<1>3. CASE joining[w] = t
  BY <1>1, <1>3 DEF RegistryInv, HandoverSafe, Slots
<1> QED
  BY <1>2, <1>3 DEF RegistryInv, OwnersKnown

LEMMA OwnTasksBounded ==
    ASSUME NEW w \in Workers, TypeInv, OwnerInv(w)
    PROVE  Cardinality({t \in Tasks : Working(t) /\ host[t] = w}) <= MaxConcurrent
<1> DEFINE W == {t \in Tasks : Working(t) /\ host[t] = w}
           f == [t \in W |-> job[t]]
<1>1. f \in Injection(W, Slots(w))
  <2>1. f \in [W -> Slots(w)]
    BY OwnTasksPlaced DEF OwnerInv
  <2>2. ASSUME NEW t \in W, NEW u \in W, f[t] = f[u]
        PROVE  t = u
    <3>1. job[t] = job[u]
      BY <2>2
    <3> HIDE DEF f
    <3> QED BY <3>1, OwnTasksDiffer DEF OwnerInv
  <2> HIDE DEF f, W
  <2> QED BY <2>1, <2>2 DEF Injection, IsInjective
<1>2. IsFiniteSet(Slots(w))
  BY JobsFinite, FS_Subset DEF Slots, Active, TypeInv, StoreInv, WorkersOK
<1> HIDE DEF W, f
<1>3. IsFiniteSet(W) /\ Cardinality(W) <= Cardinality(Slots(w))
  BY <1>1, <1>2, FS_Injection
<1>4. Cardinality(W) \in Nat /\ Cardinality(Slots(w)) \in Nat
  BY <1>2, <1>3, FS_CardinalityType
<1>5. Cardinality(W) <= MaxConcurrent
  BY <1>3, <1>4, BoundAssumption DEF OwnerInv, SlotsBounded
<1> QED
  BY <1>5 DEF W

LEMMA TaskMoves ==
    ASSUME TypeInv, NEW t \in Tasks, TaskAdvances(t)
    PROVE  /\ pc[t] # "free" /\ UNCHANGED workerVars
           /\ \A j \in Jobs : stale'[j] => stale[j]
           /\ \/ Ends(t)
              \/ /\ Working(t) /\ UNCHANGED <<job, host>>
                 /\ \E l \in Labels \ {"free", "unwinding", "done"} :
                       pc' = [pc EXCEPT ![t] = l]
<1> USE DEF Labels
<1>1. \A s, n : Write(t, s, n) =>
         UNCHANGED workerVars /\ \A j \in Jobs : stale'[j] => stale[j]
  BY DEF Write, TypeInv, StoreInv, RowsOK
<1>2. NoWrite => UNCHANGED workerVars /\ \A j \in Jobs : stale'[j] => stale[j]
  BY DEF NoWrite, dbVars
<1>3. \A l, s, n : Goto(t, l, s, n) => pc' = [pc EXCEPT ![t] = l] /\ UNCHANGED <<job, host>>
  BY DEF Goto
<1>4. CASE Start(t) \/ BootstrapContinues(t) \/ BootstrapPauses(t) \/ BootstrapFails(t)
  BY <1>1, <1>2, <1>3, <1>4
     DEF Start, BootstrapContinues, BootstrapPauses, BootstrapFails, Working
<1>5. CASE LoopTop(t) \/ TargetReached(t)
  BY <1>1, <1>2, <1>3, <1>5 DEF LoopTop, TargetReached, Rescue, Working
<1>6. CASE PickChapter(t) \/ Checkpoint(t)
  BY <1>1, <1>2, <1>3, <1>6 DEF PickChapter, Checkpoint, Working
<1>7. CASE ChapterPauses(t) \/ ChapterEnds(t) \/ ChapterJsonError(t) \/ ChapterRaises(t)
           \/ PostProcessingTimeout(t)
  BY <1>1, <1>2, <1>3, <1>7
     DEF ChapterPauses, ChapterEnds, ChapterJsonError, ChapterRaises, PostProcessingTimeout,
         Working
<1>8. CASE AfterChapter(t) \/ FinishBatch(t) \/ FailBatch(t) \/ FailBatchDatabase(t)
           \/ Unwind(t)
  BY <1>1, <1>2, <1>3, <1>8
     DEF AfterChapter, FinishBatch, FailBatch, FailBatchDatabase, Unwind, Rescue, Working
<1> QED
  BY <1>4, <1>5, <1>6, <1>7, <1>8 DEF TaskAdvances

LEMMA OwnerInvInit ==
    ASSUME NEW w \in Workers, Init
    PROVE  OwnerInv(w)
<1>1. RegistryInv(w)
  BY DEF Init, RegistryInv, OwnersKnown, EntriesTrue, HandoverSafe, ClaimsFresh, Working
<1>2. Slots(w) = {}
  BY DEF Init, Slots, Active, IsActive
<1> QED
  BY <1>1, <1>2, FS_EmptySet, BoundAssumption DEF OwnerInv, SlotsBounded

\* What the registry of w says survives every step that leaves it alone and in
\* which a task of it may stop to run, but is not forgotten and does not rise.
LEMMA OwnerInvKept ==
    ASSUME NEW w \in Workers, TypeInv, OwnerInv(w),
           registry'[w] = registry[w], claimed'[w] = claimed[w], joining'[w] = joining[w],
           \A j \in claimed[w] : stale'[j] => stale[j],
           \A t \in Tasks :
              Working(t)' /\ host'[t] = w => Working(t) /\ host[t] = w /\ job'[t] = job[t],
           \A t \in Tasks :
              /\ (\E j \in Jobs : registry[w][j] = t) \/ joining[w] = t
              /\ host[t] = w /\ pc[t] # "free"
              => /\ pc'[t] # "free" /\ job'[t] = job[t] /\ host'[t] = w
                 /\ pc[t] = "done" => pc'[t] = "done"
    PROVE  OwnerInv(w)'
<1> USE DEF OwnerInv, RegistryInv
<1>0. /\ registry[w] \in [Jobs -> Tasks \cup {NoTask}]
      /\ joining[w] \in Tasks \cup {NoTask} /\ claimed[w] \subseteq Jobs
  BY DEF TypeInv, StoreInv, WorkersOK
<1>1. OwnersKnown(w)'
  BY DEF OwnersKnown
<1>2. EntriesTrue(w)'
  BY <1>0 DEF EntriesTrue
<1>3. HandoverSafe(w)'
  <2>1. PICK t \in Tasks \cup {NoTask} : t = joining[w]
    BY <1>0
  <2>2. CASE t = NoTask
    BY <2>1, <2>2 DEF HandoverSafe
  <2>3. CASE t # NoTask
    <3>1. /\ pc[t] # "free" /\ host[t] = w /\ job[t] \in claimed[w]
          /\ registry[w][job[t]] # t
          /\ registry[w][job[t]] # NoTask => ~Working(registry[w][job[t]])
      BY <2>1, <2>3 DEF HandoverSafe
    <3>2. pc'[t] # "free" /\ host'[t] = w /\ job'[t] = job[t]
      BY <2>1, <2>3, <3>1
    <3>3. PICK old \in Tasks \cup {NoTask} : old = registry[w][job[t]]
      BY <1>0, <3>1
    <3>4. ASSUME old # NoTask
          PROVE  ~Working(old)'
      <4>1. host[old] = w /\ pc[old] # "free" /\ ~Working(old) /\ old \in Tasks
        BY <1>0, <3>1, <3>3, <3>4 DEF EntriesTrue
      <4>2. host'[old] = w
        BY <1>0, <3>1, <3>3, <4>1
      <4> QED BY <4>1, <4>2
    <3> QED BY <2>1, <2>3, <3>1, <3>2, <3>3, <3>4 DEF HandoverSafe, Working
  <2> QED BY <2>2, <2>3
<1>4. ClaimsFresh(w)'
  BY DEF ClaimsFresh
<1>5. Slots(w)' \subseteq Slots(w)
  <2> SUFFICES ASSUME NEW j \in Jobs, IsActive(w, j)'
               PROVE  IsActive(w, j)
    BY DEF Slots, Active
  <2> DEFINE t == registry[w][j]
  <2>1. t # NoTask /\ pc'[t] \notin {"free", "done"} /\ t \in Tasks
    BY <1>0 DEF IsActive, Live
  <2>2. host[t] = w /\ pc[t] # "free"
    BY <2>1 DEF EntriesTrue
  <2>3. pc[t] # "done"
    BY <2>1, <2>2
  <2> QED BY <2>1, <2>2, <2>3 DEF IsActive, Live
<1>6. SlotsBounded(w)'
  BY <1>5, SlotsKept
<1> QED
  BY <1>1, <1>2, <1>3, <1>4, <1>6

LEMMA TaskOwned ==
    ASSUME NEW w \in Workers, TypeInv, OwnerInv(w),
           NEW t \in Tasks, TaskAdvances(t)
    PROVE  OwnerInv(w)'
<1>1. /\ pc[t] # "free" /\ UNCHANGED <<registry, claimed, joining>>
      /\ \A j \in Jobs : stale'[j] => stale[j]
  BY TaskMoves DEF workerVars
<1>2. claimed[w] \subseteq Jobs
  BY DEF TypeInv, StoreInv, WorkersOK
<1>3. /\ pc \in [Tasks -> Labels] /\ job \in [Tasks -> Jobs \cup {NoJob}]
      /\ host \in [Tasks -> Workers \cup {NoWorker}]
  BY DEF TypeInv, TasksInv, TasksOK
<1>4. CASE Ends(t)
  <2> DEFINE kept == registry[host[t]][job[t]] = t \/ joining[host[t]] = t
  <2>1. /\ pc' = [pc EXCEPT ![t] = IF kept THEN "done" ELSE "free"]
        /\ job' = [job EXCEPT ![t] = IF kept THEN @ ELSE NoJob]
        /\ host' = [host EXCEPT ![t] = IF kept THEN @ ELSE NoWorker]
    BY <1>4 DEF Ends
  <2>2. ASSUME NEW j \in Jobs, registry[w][j] = t
        PROVE  j = job[t]
    BY <2>2, TaskAssumption DEF OwnerInv, RegistryInv, EntriesTrue
  <2>3. ((\E j \in Jobs : registry[w][j] = t) \/ joining[w] = t) /\ host[t] = w => kept
    BY <2>2
  <2> HIDE DEF kept
  <2>4. \A u \in Tasks : Working(u)' => Working(u) /\ host'[u] = host[u] /\ job'[u] = job[u]
    BY <1>3, <2>1 DEF Working
  <2>5. ASSUME NEW u \in Tasks, pc[u] # "free", host[u] = w,
               (\E j \in Jobs : registry[w][j] = u) \/ joining[w] = u
        PROVE  /\ pc'[u] # "free" /\ job'[u] = job[u] /\ host'[u] = w
               /\ pc[u] = "done" => pc'[u] = "done"
    <3>1. CASE u = t
      <4>1. kept
        BY <2>3, <2>5, <3>1
      <4> QED BY <1>3, <2>1, <2>5, <3>1, <4>1
    <3>2. CASE u # t
      BY <1>3, <2>1, <2>5, <3>2
    <3> QED BY <3>1, <3>2
  <2> QED
    BY <1>1, <1>2, <2>4, <2>5, OwnerInvKept
<1>5. CASE /\ Working(t) /\ UNCHANGED <<job, host>>
           /\ \E l \in Labels \ {"free", "unwinding", "done"} : pc' = [pc EXCEPT ![t] = l]
  <2>1. \A u \in Tasks : Working(u)' => Working(u)
    BY <1>3, <1>5 DEF Working
  <2>2. \A u \in Tasks : /\ pc[u] # "free" => pc'[u] # "free"
                         /\ pc[u] = "done" => pc'[u] = "done"
    BY <1>3, <1>5 DEF Working
  <2> QED
    BY <1>1, <1>2, <1>5, <2>1, <2>2, OwnerInvKept
<1> QED
  BY <1>4, <1>5, TaskMoves

\* poll_jobs of the process itself: a pass of the loop ...
LEMMA ClaimOwned ==
    ASSUME NEW w \in Workers, TypeInv, OwnerInv(w), PollClaim(w)
    PROVE  OwnerInv(w)'
<1> USE DEF OwnerInv, RegistryInv
<1>0. /\ registry[w] \in [Jobs -> Tasks \cup {NoTask}]
      /\ pc \in [Tasks -> Labels] /\ job \in [Tasks -> Jobs \cup {NoJob}]
      /\ host \in [Tasks -> Workers \cup {NoWorker}]
      /\ stale \in [Jobs -> BOOLEAN]
      /\ \A t \in Tasks : pc[t] # "free" => job[t] \in Jobs
  BY DEF TypeInv, StoreInv, RowsOK, WorkersOK, TasksInv, TasksOK, TaskInv
<1> DEFINE finished == {t \in Tasks : pc[t] = "done" /\ host[t] = w}
           pending  == {j \in Jobs : status[j] = "pending"}
           scanned  == {j \in pending : Cardinality({k \in pending : k < j}) < ScanLimit}
           eligible == {j \in scanned : novel[ProjectOf[j]] = "generating"}
           capacity == MaxConcurrent - Cardinality(Active(w))
           taken    == IF seesPaused[w] THEN {}
                       ELSE {j \in eligible :
                               Cardinality({k \in eligible : k < j}) < capacity}
<1>1. /\ claimed[w] = {}
      /\ stale' = [j \in Jobs |-> stale[j] /\ j \notin taken]
      /\ claimed' = [claimed EXCEPT ![w] = taken]
      /\ registry' = [registry EXCEPT ![w] =
                        [j \in Jobs |-> IF registry[w][j] \in finished THEN NoTask
                                        ELSE registry[w][j]]]
      /\ pc' = [t \in Tasks |-> IF t \in finished THEN "free" ELSE pc[t]]
      /\ job' = [t \in Tasks |-> IF t \in finished THEN NoJob ELSE job[t]]
      /\ host' = [t \in Tasks |-> IF t \in finished THEN NoWorker ELSE host[t]]
      /\ UNCHANGED joining
  BY Zenon DEF PollClaim
<1>2. eligible \in SUBSET Jobs /\ taken \in SUBSET eligible
  OBVIOUS
<1>3. capacity \in Nat => \A j \in taken : Cardinality({k \in eligible : k < j}) < capacity
  OBVIOUS
<1>4. taken # {} => capacity \in Nat
  <2> SUFFICES ASSUME NEW j \in taken PROVE capacity \in Nat
    OBVIOUS
  <2>1. Cardinality({k \in eligible : k < j}) < capacity
    OBVIOUS
  <2>2. Active(w) \subseteq Jobs /\ {k \in eligible : k < j} \subseteq Jobs
    BY DEF Active
  <2>3. Cardinality(Active(w)) \in Nat /\ Cardinality({k \in eligible : k < j}) \in Nat
    BY <2>2, JobsFinite, FS_Subset, FS_CardinalityType
  <2> HIDE DEF eligible, taken
  <2> QED BY <2>1, <2>3, BoundAssumption
<1>5. capacity = MaxConcurrent - Cardinality(Active(w))
  OBVIOUS
<1> HIDE DEF finished, pending, scanned, eligible, taken, capacity
<1>6. claimed'[w] = taken /\ joining[w] = NoTask /\ joining'[w] = NoTask
  BY <1>1 DEF HandoverSafe, TypeInv, StoreInv, WorkersOK
<1>7. registry'[w] = [j \in Jobs |-> IF registry[w][j] \in finished THEN NoTask
                                     ELSE registry[w][j]]
  BY <1>1 DEF TypeInv, StoreInv, WorkersOK
<1>8. OwnersKnown(w)'
  <2> SUFFICES ASSUME NEW t \in Tasks, Working(t)', host'[t] = w
               PROVE  registry'[w][job'[t]] = t
    BY DEF OwnersKnown
  <2>1. t \notin finished /\ Working(t) /\ job'[t] = job[t] /\ host[t] = w
    BY <1>0, <1>1, HostAssumption DEF Working
  <2>2. registry[w][job[t]] = t /\ job[t] \in Jobs
    BY <1>0, <1>6, <2>1, TaskAssumption DEF OwnersKnown, Working
  <2> QED BY <1>7, <2>1, <2>2
<1>9. EntriesTrue(w)'
  BY <1>0, <1>1, <1>7 DEF EntriesTrue
<1>10. HandoverSafe(w)'
  BY <1>6 DEF HandoverSafe
<1>11. ClaimsFresh(w)'
  BY <1>0, <1>1, <1>2, <1>6 DEF ClaimsFresh
<1>12. Active(w)' \subseteq Active(w)
  <2> SUFFICES ASSUME NEW j \in Jobs, IsActive(w, j)'
               PROVE  IsActive(w, j)
    BY DEF Active
  <2>1. registry'[w][j] # NoTask /\ pc'[registry'[w][j]] \notin {"free", "done"}
    BY DEF IsActive, Live
  <2>2. registry'[w][j] = registry[w][j] /\ registry[w][j] \in Tasks \ finished
    BY <1>0, <1>7, <2>1
  <2> QED BY <1>1, <2>1, <2>2 DEF IsActive, Live
<1>13. SlotsBounded(w)'
  <2>1. CASE taken = {}
    <3>1. Slots(w)' \subseteq Slots(w)
      BY <1>6, <1>12, <2>1 DEF Slots
    <3> QED BY <3>1, SlotsKept
  <2>2. CASE taken # {}
    <3>1. capacity \in Nat /\ Cardinality(taken) <= capacity
      BY <1>2, <1>3, <1>4, <2>2, FewBefore
    <3>2. Active(w) \subseteq Jobs /\ taken \subseteq Jobs
      BY <1>2 DEF Active
    <3> DEFINE before == Active(w)
               after  == Slots(w)'
    <3>3. after \subseteq before \cup taken
      BY <1>6, <1>12 DEF Slots
    <3>4. IsFiniteSet(before) /\ IsFiniteSet(taken)
      BY <3>2, JobsFinite, FS_Subset
    <3>5. capacity = MaxConcurrent - Cardinality(before)
      BY <1>5
    <3> HIDE DEF before, after
    <3>6. /\ IsFiniteSet(before \cup taken)
          /\ Cardinality(before \cup taken)
               = Cardinality(before) + Cardinality(taken) - Cardinality(before \cap taken)
      BY <3>4, FS_Union
    <3>7. IsFiniteSet(after) /\ Cardinality(after) <= Cardinality(before \cup taken)
      BY <3>3, <3>6, FS_Subset
    <3>8. IsFiniteSet(before \cap taken)
      BY <3>4, FS_Intersection
    <3>9. /\ Cardinality(before) \in Nat /\ Cardinality(taken) \in Nat
          /\ Cardinality(before \cap taken) \in Nat /\ Cardinality(after) \in Nat
          /\ Cardinality(before \cup taken) \in Nat
      BY <3>4, <3>6, <3>7, <3>8, FS_CardinalityType
    <3>10. Cardinality(after) <= MaxConcurrent
      BY <3>1, <3>5, <3>6, <3>7, <3>9, BoundAssumption
    <3> QED BY <3>10 DEF after, SlotsBounded
  <2> QED BY <2>1, <2>2
<1> QED
  BY <1>8, <1>9, <1>10, <1>11, <1>13

\* ... a task for the oldest claim ...
LEMMA SpawnOwned ==
    ASSUME NEW w \in Workers, TypeInv, OwnerInv(w), PollSpawn(w)
    PROVE  OwnerInv(w)'
<1> USE DEF OwnerInv, RegistryInv
<1>0. /\ registry[w] \in [Jobs -> Tasks \cup {NoTask}] /\ claimed[w] \subseteq Jobs
      /\ pc \in [Tasks -> Labels] /\ job \in [Tasks -> Jobs \cup {NoJob}]
      /\ host \in [Tasks -> Workers \cup {NoWorker}]
      /\ \A t \in Tasks : pc[t] # "free" => job[t] \in Jobs
  BY DEF TypeInv, StoreInv, WorkersOK, TasksInv, TasksOK, TaskInv
<1> DEFINE j     == Oldest(claimed[w])
           old   == registry[w][j]
           waits == IsActive(w, j)
<1>1. j \in Jobs /\ j \in claimed[w]
  BY <1>0, OldestIn DEF PollSpawn
<1>2. old = registry[w][j] /\ old \in Tasks \cup {NoTask}
  BY <1>0, <1>1
<1>4. PICK t \in Tasks :
          /\ pc[t] = "free"
          /\ pc' = [u \in Tasks |-> CASE u = t -> "start"
                                     [] u # t /\ waits /\ u = old -> "unwinding"
                                     [] OTHER -> pc[u]]
          /\ job' = [job EXCEPT ![t] = j]
          /\ host' = [host EXCEPT ![t] = w]
          /\ joining' = [joining EXCEPT ![w] = IF waits THEN t ELSE NoTask]
          /\ claimed' = [claimed EXCEPT ![w] = IF waits THEN @ ELSE @ \ {j}]
          /\ registry' = IF waits THEN registry ELSE [registry EXCEPT ![w][j] = t]
  BY DEF PollSpawn
<1>5. /\ joining[w] = NoTask /\ UNCHANGED stale
      /\ joining'[w] = IF waits THEN t ELSE NoTask
      /\ claimed'[w] = IF waits THEN claimed[w] ELSE claimed[w] \ {j}
      /\ registry'[w] = IF waits THEN registry[w] ELSE [registry[w] EXCEPT ![j] = t]
  BY <1>0, <1>4 DEF PollSpawn, dbVars, TypeInv, StoreInv, WorkersOK
<1>6. waits => old \in Tasks /\ pc[old] \notin {"free", "done"}
  BY <1>2 DEF IsActive, Live
<1>7. ~waits => old = NoTask \/ pc[old] \in {"free", "done"}
  BY <1>2 DEF IsActive, Live
<1> HIDE DEF j, old, waits
<1>8. \A k \in Jobs : registry[w][k] # t
  BY <1>4, TaskAssumption DEF EntriesTrue
<1>9. /\ job'[t] = j /\ host'[t] = w
      /\ \A u \in Tasks \ {t} : job'[u] = job[u] /\ host'[u] = host[u]
  BY <1>0, <1>4
<1>10. OwnersKnown(w)'
  <2> SUFFICES ASSUME NEW u \in Tasks, Working(u)', host'[u] = w
               PROVE  registry'[w][job'[u]] = u \/ joining'[w] = u
    BY DEF OwnersKnown
  <2>1. CASE u = t
    BY <1>0, <1>1, <1>5, <1>9, <2>1
  <2>2. CASE u # t
    <3>1. Working(u) /\ ~(waits /\ u = old) /\ host[u] = w
      BY <1>4, <1>9, <2>2 DEF Working
    <3>2. registry[w][job[u]] = u /\ job[u] \in Jobs
      BY <1>0, <1>5, <3>1, TaskAssumption DEF OwnersKnown, Working
    <3>3. CASE waits
      BY <1>5, <1>9, <2>2, <3>2, <3>3
    <3>4. CASE ~waits
      <4>1. job[u] # j
        BY <1>2, <1>7, <3>1, <3>2, <3>4, TaskAssumption DEF Working
      <4> QED BY <1>0, <1>5, <1>9, <2>2, <3>2, <3>4, <4>1
    <3> QED BY <3>3, <3>4
  <2> QED BY <2>1, <2>2
<1>11. EntriesTrue(w)'
  <2> SUFFICES ASSUME NEW k \in Jobs, NEW u \in Tasks, registry'[w][k] = u
               PROVE  job'[u] = k /\ host'[u] = w /\ pc'[u] # "free"
    BY <1>0, <1>5 DEF EntriesTrue
  <2>1. CASE u = t
    <3>1. k = j
      BY <1>0, <1>5, <1>8, <2>1
    <3> QED BY <1>4, <1>9, <2>1, <3>1
  <2>2. CASE u # t
    <3>1. registry[w][k] = u
      BY <1>0, <1>5, <2>2
    <3>2. job[u] = k /\ host[u] = w /\ pc[u] # "free"
      BY <3>1, TaskAssumption DEF EntriesTrue
    <3> QED BY <1>4, <1>9, <2>2, <3>2
  <2> QED BY <2>1, <2>2
<1>12. HandoverSafe(w)'
  <2>1. CASE waits
    <3>1. joining'[w] = t /\ claimed'[w] = claimed[w] /\ registry'[w] = registry[w]
      BY <1>5, <2>1
    <3>2. pc'[t] = "start" /\ old # t /\ pc'[old] = "unwinding"
      BY <1>2, <1>4, <1>6, <1>8, <2>1
    <3> QED BY <1>1, <1>2, <1>9, <3>1, <3>2 DEF HandoverSafe, Working
  <2>2. CASE ~waits
    BY <1>5, <2>2 DEF HandoverSafe
  <2> QED BY <2>1, <2>2
<1>13. ClaimsFresh(w)'
  BY <1>5 DEF ClaimsFresh
<1>14. Slots(w)' \subseteq Slots(w)
  <2>1. claimed'[w] \subseteq claimed[w]
    BY <1>5
  <2>2. ASSUME NEW k \in Jobs, IsActive(w, k)', k # j
        PROVE  IsActive(w, k)
    <3>1. registry'[w][k] = registry[w][k]
      BY <1>0, <1>5, <2>2
    <3>2. PICK u \in Tasks : u = registry[w][k]
      BY <1>0, <2>2, <3>1 DEF IsActive
    <3>3. u # t /\ pc'[u] \notin {"free", "done"}
      BY <1>8, <2>2, <3>1, <3>2 DEF IsActive, Live
    <3>4. pc[u] \notin {"free", "done"}
      BY <1>4, <1>6, <3>3
    <3> QED BY <3>2, <3>4, TaskAssumption DEF IsActive, Live
  <2> QED BY <1>1, <2>1, <2>2 DEF Slots, Active
<1>15. SlotsBounded(w)'
  BY <1>14, SlotsKept
<1> QED
  BY <1>10, <1>11, <1>12, <1>13, <1>15

\* ... and the end of the wait for the task it replaces.
LEMMA RegisterOwned ==
    ASSUME NEW w \in Workers, TypeInv, OwnerInv(w), PollRegister(w)
    PROVE  OwnerInv(w)'
<1> USE DEF OwnerInv, RegistryInv
<1>0. /\ registry[w] \in [Jobs -> Tasks \cup {NoTask}] /\ claimed[w] \subseteq Jobs
      /\ joining[w] \in Tasks \cup {NoTask}
      /\ \A t \in Tasks : pc[t] # "free" => job[t] \in Jobs
  BY DEF TypeInv, StoreInv, WorkersOK, TasksInv, TaskInv
<1>1. PICK t \in Tasks : t = joining[w]
  BY <1>0 DEF PollRegister
<1>2. /\ pc[t] # "free" /\ host[t] = w /\ job[t] \in claimed[w] /\ job[t] \in Jobs
      /\ UNCHANGED <<pc, job, host, stale>>
  BY <1>0, <1>1 DEF PollRegister, HandoverSafe, taskVars, dbVars
<1>3. /\ registry'[w] = [registry[w] EXCEPT ![job[t]] = t]
      /\ joining'[w] = NoTask /\ claimed'[w] = claimed[w] \ {job[t]}
  BY <1>0, <1>1 DEF PollRegister, TypeInv, StoreInv, WorkersOK
<1>4. registry[w][job[t]] = NoTask \/ ~Working(registry[w][job[t]])
  BY <1>1, <1>2, TaskAssumption DEF HandoverSafe
<1>5. OwnersKnown(w)'
  BY <1>0, <1>1, <1>2, <1>3, <1>4, TaskAssumption DEF OwnersKnown, Working
<1>6. EntriesTrue(w)'
  BY <1>0, <1>2, <1>3 DEF EntriesTrue
<1>7. HandoverSafe(w)' /\ ClaimsFresh(w)'
  BY <1>2, <1>3 DEF HandoverSafe, ClaimsFresh
<1>8. Slots(w)' \subseteq Slots(w)
  <2>1. claimed'[w] \subseteq claimed[w]
    BY <1>3
  <2>2. ASSUME NEW k \in Jobs, IsActive(w, k)', k # job[t]
        PROVE  IsActive(w, k)
    BY <1>0, <1>2, <1>3, <2>2 DEF IsActive, Live
  <2> QED BY <1>2, <2>1, <2>2 DEF Slots, Active
<1>9. SlotsBounded(w)'
  BY <1>8, SlotsKept
<1> QED
  BY <1>5, <1>6, <1>7, <1>9

\* What another process does disturbs nothing.
LEMMA ElsewhereOwned ==
    ASSUME NEW w \in Workers, NEW v \in Workers, v # w, TypeInv, OwnerInv(w), OwnerInv(v),
           PollClaim(v) \/ PollSpawn(v) \/ PollRegister(v) \/ Crash(v)
    PROVE  OwnerInv(w)'
<1>0. /\ registry \in [Workers -> [Jobs -> Tasks \cup {NoTask}]]
      /\ claimed \in [Workers -> SUBSET Jobs] /\ joining \in [Workers -> Tasks \cup {NoTask}]
      /\ pc \in [Tasks -> Labels] /\ job \in [Tasks -> Jobs \cup {NoJob}]
      /\ host \in [Tasks -> Workers \cup {NoWorker}]
      /\ stale \in [Jobs -> BOOLEAN]
  BY DEF TypeInv, StoreInv, RowsOK, WorkersOK, TasksInv, TasksOK
<1>1. /\ registry'[w] = registry[w] /\ claimed'[w] = claimed[w] /\ joining'[w] = joining[w]
  <2>1. CASE PollClaim(v)
    BY <1>0, <2>1 DEF PollClaim
  <2>2. CASE PollSpawn(v)
    BY <1>0, <2>2 DEF PollSpawn
  <2>3. CASE PollRegister(v)
    BY <1>0, <2>3 DEF PollRegister
  <2>4. CASE Crash(v)
    BY <1>0, <2>4 DEF Crash
  <2> QED BY <2>1, <2>2, <2>3, <2>4
<1>2. \A j \in Jobs : stale'[j] => stale[j]
  BY <1>0, Zenon DEF PollClaim, PollSpawn, PollRegister, Crash, dbVars
<1>3. /\ \A t \in Tasks :
            Working(t)' /\ host'[t] = w => Working(t) /\ host[t] = w /\ job'[t] = job[t]
      /\ \A t \in Tasks :
            host[t] = w /\ pc[t] # "free"
            => /\ pc'[t] # "free" /\ job'[t] = job[t] /\ host'[t] = w
               /\ pc[t] = "done" => pc'[t] = "done"
  <2>1. CASE PollClaim(v)
    <3>1. PICK finished \in SUBSET Tasks :
              /\ finished = {t \in Tasks : pc[t] = "done" /\ host[t] = v}
              /\ pc' = [t \in Tasks |-> IF t \in finished THEN "free" ELSE pc[t]]
              /\ job' = [t \in Tasks |-> IF t \in finished THEN NoJob ELSE job[t]]
              /\ host' = [t \in Tasks |-> IF t \in finished THEN NoWorker ELSE host[t]]
      BY <2>1, Zenon DEF PollClaim
    <3> QED BY <1>0, <3>1, HostAssumption DEF Working
  <2>2. CASE PollSpawn(v)
    <3> DEFINE j     == Oldest(claimed[v])
               old   == registry[v][j]
               waits == IsActive(v, j)
    <3>1. j \in Jobs
      BY <1>0, <2>2, OldestIn DEF PollSpawn
    <3>2. old = registry[v][j] /\ old \in Tasks \cup {NoTask}
      BY <1>0, <3>1
    <3>4. PICK t \in Tasks :
              /\ pc[t] = "free"
              /\ pc' = [u \in Tasks |-> CASE u = t -> "start"
                                         [] u # t /\ waits /\ u = old -> "unwinding"
                                         [] OTHER -> pc[u]]
              /\ job' = [job EXCEPT ![t] = j]
              /\ host' = [host EXCEPT ![t] = v]
      BY <2>2 DEF PollSpawn
    <3>5. waits => host[old] = v
      BY <3>1 DEF IsActive, OwnerInv, RegistryInv, EntriesTrue
    <3> HIDE DEF j, old, waits
    <3> QED BY <1>0, <3>4, <3>5 DEF Working
  <2>3. CASE PollRegister(v)
    BY <2>3 DEF PollRegister, taskVars, Working
  <2>4. CASE Crash(v)
    <3>1. PICK lost \in SUBSET Tasks :
              /\ lost = {t \in Tasks : host[t] = v}
              /\ pc' = [t \in Tasks |-> IF t \in lost THEN "free" ELSE pc[t]]
              /\ job' = [t \in Tasks |-> IF t \in lost THEN NoJob ELSE job[t]]
              /\ host' = [t \in Tasks |-> IF t \in lost THEN NoWorker ELSE host[t]]
      BY <2>4, Zenon DEF Crash
    <3> QED BY <1>0, <3>1, HostAssumption DEF Working
  <2> QED BY <2>1, <2>2, <2>3, <2>4
<1>4. claimed[w] \subseteq Jobs
  BY <1>0
<1> QED
  BY <1>1, <1>2, <1>3, <1>4, OwnerInvKept

LEMMA WorkerOwned ==
    ASSUME NEW w \in Workers, TypeInv, \A v \in Workers : OwnerInv(v),
           NEW v \in Workers, WorkerStep(v)
    PROVE  OwnerInv(w)'
<1>0. claimed[w] \subseteq Jobs /\ stale \in [Jobs -> BOOLEAN]
  BY DEF TypeInv, StoreInv, RowsOK, WorkersOK
<1>1. CASE PollClaim(v) \/ PollSpawn(v) \/ PollRegister(v)
  <2>1. CASE v = w
    BY <1>1, <2>1, ClaimOwned, SpawnOwned, RegisterOwned
  <2>2. CASE v # w
    BY <1>1, <2>2, ElsewhereOwned
  <2> QED BY <2>1, <2>2
<1>2. CASE RefreshTunables(v)
  <2>1. UNCHANGED <<registry, claimed, joining, stale, pc, job, host>>
    BY <1>2 DEF RefreshTunables, taskVars, dbVars
  <2> QED BY <1>0, <2>1, OwnerInvKept DEF Working
<1>3. CASE OrphanSweep(v)
  <2>1. UNCHANGED <<registry, claimed, joining, pc, job, host>>
        /\ \A j \in Jobs : stale'[j] => stale[j]
    BY <1>0, <1>3 DEF OrphanSweep, FailRows, taskVars, workerVars
  <2> QED BY <1>0, <2>1, OwnerInvKept DEF Working
<1> QED
  BY <1>1, <1>2, <1>3 DEF WorkerStep

\* The process dies: nothing is left to know.
LEMMA CrashOwned ==
    ASSUME NEW w \in Workers, TypeInv, Crash(w)
    PROVE  OwnerInv(w)'
<1>0. host \in [Tasks -> Workers \cup {NoWorker}]
  BY DEF TypeInv, TasksInv, TasksOK
<1>1. /\ registry'[w] = [j \in Jobs |-> NoTask] /\ claimed'[w] = {}
      /\ joining'[w] = NoTask
  BY DEF Crash, TypeInv, StoreInv, WorkersOK
<1>2. \A t \in Tasks : host'[t] # w
  BY <1>0, HostAssumption DEF Crash
<1>3. RegistryInv(w)'
  BY <1>1, <1>2 DEF RegistryInv, OwnersKnown, EntriesTrue, HandoverSafe, ClaimsFresh
<1>4. Slots(w)' = {}
  BY <1>1 DEF Slots, Active, IsActive
<1>5. SlotsBounded(w)'
  BY <1>4, FS_EmptySet, BoundAssumption DEF SlotsBounded
<1> QED
  BY <1>3, <1>5 DEF OwnerInv

LEMMA OthersOwned ==
    ASSUME NEW w \in Workers, TypeInv, \A v \in Workers : OwnerInv(v),
           \/ \E v \in Workers : Crash(v) \/ Restart(v)
           \/ \E t \in Tasks : ChapterCommit(t)
           \/ \E j \in Jobs : Age(j)
           \/ UserCommand \/ RequestReads \/ RequestWrites
    PROVE  OwnerInv(w)'
<1>0. /\ claimed[w] \subseteq Jobs /\ OwnerInv(w)
      /\ registry \in [Workers -> [Jobs -> Tasks \cup {NoTask}]]
      /\ pc \in [Tasks -> Labels] /\ stale \in [Jobs -> BOOLEAN]
  BY DEF TypeInv, StoreInv, RowsOK, WorkersOK, TasksInv, TasksOK
<1>1. ASSUME UNCHANGED <<registry, claimed, joining, pc, job, host>>,
             \A j \in claimed[w] : stale'[j] => stale[j]
      PROVE  OwnerInv(w)'
  BY <1>0, <1>1, OwnerInvKept DEF Working
<1>2. ASSUME NEW v \in Workers, Crash(v)
      PROVE  OwnerInv(w)'
  BY <1>2, CrashOwned, ElsewhereOwned
<1>3. ASSUME NEW v \in Workers, Restart(v)
      PROVE  OwnerInv(w)'
  BY <1>0, <1>1, <1>3 DEF Restart, FailRows, taskVars
<1>4. ASSUME NEW t \in Tasks, ChapterCommit(t)
      PROVE  OwnerInv(w)'
  BY <1>0, <1>1, <1>4 DEF ChapterCommit, Write, taskVars, workerVars
<1>5. ASSUME NEW j \in Jobs, Age(j)
      PROVE  OwnerInv(w)'
  <2>1. \A k \in claimed[w] : stale'[k] => stale[k]
    BY <1>0, <1>5 DEF Age
  <2> QED BY <1>1, <1>5, <2>1 DEF Age, taskVars, workerVars
<1>6. ASSUME NEW p \in Projects, Generate(p) \/ Pause(p) \/ Resume(p)
      PROVE  OwnerInv(w)'
  <2>1. UNCHANGED <<registry, claimed, joining, pc, job, host>>
    BY <1>6 DEF Generate, Pause, Resume, Command, taskVars, workerVars
  <2>2. \A k \in Jobs : stale'[k] => stale[k]
    BY <1>0, <1>6 DEF Generate, Pause, Resume, Enqueue
  <2> QED BY <1>0, <1>1, <2>1, <2>2
<1>7. CASE ToggleClaim
  BY <1>0, <1>1, <1>7 DEF ToggleClaim, taskVars
<1>8. ASSUME NEW cmd \in {"cancel", "retry", "rewrite"}, NEW j \in Jobs,
             BeginRequest(cmd, j)
      PROVE  OwnerInv(w)'
  <2> DEFINE cancels == cmd # "retry" /\ ApiHost # NoWorker /\ IsActive(ApiHost, j)
             old == registry[ApiHost][j]
  <2>1. /\ pc' = IF cancels THEN [pc EXCEPT ![old] = "unwinding"] ELSE pc
        /\ UNCHANGED <<registry, claimed, joining, stale, job, host>>
    BY <1>8 DEF BeginRequest, workerVars, dbVars
  <2>2. cancels => pc[old] # "done"
    BY DEF IsActive, Live
  <2> HIDE DEF cancels, old
  <2>3. \A t \in Tasks : /\ Working(t)' => Working(t)
                         /\ pc[t] # "free" => pc'[t] # "free"
                         /\ pc[t] = "done" => pc'[t] = "done"
    BY <1>0, <2>1, <2>2 DEF Working
  <2> QED BY <1>0, <2>1, <2>3, OwnerInvKept
<1>9. CASE RequestReads
  BY <1>0, <1>1, <1>9 DEF RequestReads, dbVars, taskVars, workerVars
<1>10. CASE RequestWrites
  <2>1. \A k \in Jobs : stale'[k] => stale[k]
    BY <1>10 DEF RequestWrites, dbVars
  <2> QED BY <1>0, <1>1, <1>10, <2>1 DEF RequestWrites, taskVars, workerVars
<1> QED
  BY <1>2, <1>3, <1>4, <1>5, <1>6, <1>7, <1>8, <1>9, <1>10 DEF UserCommand

Owned == \A w \in Workers : OwnerInv(w)

LEMMA StepOwned ==
    ASSUME TypeInv, Owned, [Next]_vars
    PROVE  Owned'
<1> SUFFICES ASSUME NEW w \in Workers
             PROVE  OwnerInv(w)'
  BY DEF Owned
<1>0. \A v \in Workers : OwnerInv(v)
  BY DEF Owned
<1>1. CASE Next
  BY <1>0, <1>1, TaskOwned, WorkerOwned, OthersOwned DEF Next
<1>2. CASE UNCHANGED vars
  BY <1>0, <1>2, OwnerInvKept
     DEF vars, dbVars, workerVars, taskVars, Working, TypeInv, StoreInv, WorkersOK
<1> QED BY <1>1, <1>2

LEMMA SpecOwned == Spec => [](TypeInv /\ Owned)
<1>1. Init => TypeInv /\ Owned
  BY TypeInvInit, OwnerInvInit DEF Owned
<1>2. TypeInv /\ Owned /\ [Next]_vars => (TypeInv /\ Owned)'
  BY StepTyped, StepOwned
<1> QED
  BY <1>1, <1>2, PTL DEF Spec

\* However many processes there are, and however claims, cancellations that
\* time out, re-registrations, crashes and the reaping interleave, none runs more
\* tasks than max_concurrent_jobs.
THEOREM WithinConcurrency == Spec => []ConcurrencyBounded
<1>1. TypeInv /\ Owned => ConcurrencyBounded
  BY OwnTasksBounded DEF Owned, ConcurrencyBounded
<1> QED
  BY <1>1, SpecOwned, PTL

\* A process never runs two tasks of a job, whatever other processes do.
OneTaskPerJobOfAProcess ==
    \A t, u \in Tasks :
        Working(t) /\ Working(u) /\ job[t] = job[u] /\ host[t] = host[u] => t = u

\* The registry keeps the tasks of a process apart, whatever the other processes
\* claim, cancel, sweep or lose.
THEOREM ProcessSingleWriter == Spec => []OneTaskPerJobOfAProcess
<1>1. TypeInv /\ Owned => OneTaskPerJobOfAProcess
  <2> SUFFICES ASSUME TypeInv, Owned, NEW t \in Tasks, NEW u \in Tasks,
                      Working(t), Working(u), job[t] = job[u], host[t] = host[u]
               PROVE  t = u
    BY DEF OneTaskPerJobOfAProcess
  <2>1. host[t] \in Workers
    BY DEF TypeInv, TasksInv, TaskInv, Working
  <2> QED BY <2>1, OwnTasksDiffer DEF Owned, OwnerInv
<1> QED
  BY <1>1, SpecOwned, PTL

LEMMA SoleWriter ==
    ASSUME NEW w, Workers = {w}, TypeInv, Owned
    PROVE  SingleWriter
<1> SUFFICES ASSUME NEW t \in Tasks, NEW u \in Tasks,
                    Working(t), Working(u), job[t] = job[u]
             PROVE  t = u
  BY DEF SingleWriter
<1>1. host[t] = w /\ host[u] = w
  BY DEF TypeInv, TasksInv, TaskInv, Working
<1> QED
  BY <1>1, OwnTasksDiffer DEF Owned, OwnerInv

\* With one worker process, no two tasks ever run the same job, however often
\* it is claimed again, cancelled, crashed under or swept: the registry is enough.
THEOREM OneWorkerSingleWriter ==
    ASSUME NEW w, Workers = {w}
    PROVE  Spec => []SingleWriter
<1>1. TypeInv /\ Owned => SingleWriter
  BY SoleWriter
<1> QED
  BY <1>1, SpecOwned, PTL

\* With one worker process, the orphan sweep never fails the row of a running
\* task, registered or about to be, however long its row went untouched.
THEOREM OneWorkerOrphanSparesLive ==
    ASSUME NEW sole, Workers = {sole}
    PROVE  Spec => OrphanSparesLive
<1> DEFINE Spared == \A w \in Workers, t \in Tasks :
                        OrphanSweep(w) /\ Working(t) => status'[job[t]] = status[job[t]]
<1>1. TypeInv /\ Owned => Spared
  <2> SUFFICES ASSUME TypeInv, OwnerInv(sole), NEW t \in Tasks, OrphanSweep(sole), Working(t)
               PROVE  status'[job[t]] = status[job[t]]
    BY DEF Owned
  <2>1. job[t] \in Jobs /\ host[t] = sole
    BY DEF TypeInv, TasksInv, TaskInv, Working
  <2>2. job[t] \notin Orphans(sole)
    <3>1. CASE registry[sole][job[t]] = t
      BY <3>1, TaskAssumption DEF Orphans, IsActive, Live, Working
    <3>2. CASE joining[sole] = t
      BY <3>2, TaskAssumption
         DEF OwnerInv, RegistryInv, HandoverSafe, ClaimsFresh, Orphans, StaleRunning
    <3> QED BY <2>1, <3>1, <3>2 DEF OwnerInv, RegistryInv, OwnersKnown
  <2> QED BY <2>1, <2>2 DEF OrphanSweep, FailRows
<1>2. TypeInv /\ Owned => [Spared]_vars
  BY <1>1
<1>3. OrphanSparesLive <=> [][Spared]_vars
  BY DEF OrphanSparesLive
<1> HIDE DEF Spared
<1> QED
  BY <1>2, <1>3, SpecOwned, PTL

-----------------------------------------------------------------------------
(* One worker process: what a session knows of the completion of its job.    *)

\* A task at work knows when its job is completed, for it is the only one that
\* can complete it; and it works on a chapter only with a job it holds as running.
CompletionKnown ==
    \A t \in Tasks : Working(t) =>
        /\ pc[t] = "chapter" => mem[t] = "running"
        /\ pc[t] # "start" /\ status[job[t]] = "completed" => mem[t] = "completed"

\* No row that was completed is queued or running again.
StaysCompleted ==
    \A j \in Jobs : status[j] = "completed" => status'[j] \notin ActiveStatus

LEMMA CompletionInit == Init => CompletionKnown
BY DEF Init, CompletionKnown, Working

\* Steps that complete no row and move no task into its code keep it.
LEMMA CompletionKept ==
    ASSUME TypeInv, CompletionKnown,
           \A j \in Jobs : status'[j] = "completed" => status[j] = "completed",
           \A t \in Tasks : Working(t)' =>
              \/ pc'[t] = "start"
              \/ Working(t) /\ pc'[t] = pc[t] /\ job'[t] = job[t] /\ mem'[t] = mem[t]
    PROVE  CompletionKnown'
<1>1. \A t \in Tasks : Working(t) => job[t] \in Jobs
  BY DEF TypeInv, TasksInv, TaskInv, Working
<1> QED
  BY <1>1 DEF CompletionKnown, Working

\* What the move of a task does to the row of its job, and what it then knows.
LEMMA TaskCompletes ==
    ASSUME TypeInv, CompletionKnown, NEW t \in Tasks, TaskAdvances(t)
    PROVE  /\ \A j \in Jobs : j # job[t] => status'[j] = status[j]
           /\ status[job[t]] = "completed" => status'[job[t]] \notin ActiveStatus
           /\ Working(t)' =>
                 /\ pc'[t] = "chapter" => mem'[t] = "running"
                 /\ pc'[t] # "start" /\ status'[job[t]] = "completed" => mem'[t] = "completed"
<1>0. /\ pc \in [Tasks -> Labels] /\ mem \in [Tasks -> JobStatus \cup {"none"}]
      /\ status \in [Jobs -> JobStatus \cup {"none"}]
      /\ pc[t] # "free" => job[t] \in Jobs
      /\ Working(t) => /\ pc[t] = "chapter" => mem[t] = "running"
                       /\ pc[t] # "start" /\ Row(t) = "completed" => mem[t] = "completed"
  BY DEF TypeInv, StoreInv, RowsOK, TasksInv, TasksOK, TaskInv, CompletionKnown, Row
<1>1. ASSUME NEW s, NEW n, Write(t, s, n), pc[t] # "free"
      PROVE  /\ \A j \in Jobs : j # job[t] => status'[j] = status[j]
             /\ status'[job[t]] = s
  BY <1>0, <1>1 DEF Write
<1>2. ASSUME NoWrite
      PROVE  \A j \in Jobs \cup {job[t]} : status'[j] = status[j]
  BY <1>2 DEF NoWrite, dbVars
<1>3. ASSUME NEW l, NEW s, NEW n, Goto(t, l, s, n)
      PROVE  pc'[t] = l /\ mem'[t] = s
  BY <1>0, <1>3 DEF Goto
<1>4. Ends(t) => ~Working(t)'
  BY <1>0 DEF Ends, Working
<1> USE DEF Row, Flush, ActiveStatus
<1>5. CASE Start(t)
  BY <1>0, <1>1, <1>2, <1>3, <1>5 DEF Start
<1>6. CASE BootstrapContinues(t) \/ BootstrapPauses(t) \/ BootstrapFails(t)
  BY <1>0, <1>1, <1>3, <1>4, <1>6
     DEF BootstrapContinues, BootstrapPauses, BootstrapFails, PauseJob, FailJob, Working
<1>7. CASE LoopTop(t)
  BY <1>0, <1>1, <1>2, <1>3, <1>4, <1>7 DEF LoopTop, Rescue, Working
<1>8. CASE TargetReached(t)
  BY <1>0, <1>1, <1>4, <1>8 DEF TargetReached, CompleteJob, Working
<1>9. CASE PickChapter(t)
  BY <1>0, <1>1, <1>2, <1>3, <1>4, <1>9 DEF PickChapter, Working
<1>10. CASE Checkpoint(t)
  BY <1>0, <1>2, <1>3, <1>4, <1>10 DEF Checkpoint, Working
<1>11. CASE ChapterPauses(t) \/ ChapterEnds(t) \/ ChapterRaises(t) \/ PostProcessingTimeout(t)
  BY <1>0, <1>1, <1>2, <1>3, <1>4, <1>11
     DEF ChapterPauses, ChapterEnds, ChapterRaises, PostProcessingTimeout, PauseJob, Working
<1>12. CASE ChapterJsonError(t)
  BY <1>0, <1>1, <1>3, <1>4, <1>12 DEF ChapterJsonError, FailJob, Working
<1>13. CASE AfterChapter(t)
  BY <1>0, <1>1, <1>2, <1>3, <1>4, <1>13 DEF AfterChapter, Working
<1>14. CASE FinishBatch(t)
  BY <1>0, <1>1, <1>4, <1>14 DEF FinishBatch, CompleteJob, Working
<1>15. CASE FailBatch(t)
  BY <1>0, <1>1, <1>4, <1>15 DEF FailBatch, FailJob, Working
<1>16. CASE FailBatchDatabase(t)
  BY <1>0, <1>1, <1>4, <1>16 DEF FailBatchDatabase, Rescue, Working
<1>17. CASE Unwind(t)
  BY <1>0, <1>2, <1>4, <1>17 DEF Unwind, Working
<1> QED
  BY <1>5, <1>6, <1>7, <1>8, <1>9, <1>10, <1>11, <1>12, <1>13, <1>14, <1>15, <1>16, <1>17
     DEF TaskAdvances

\* A task moves alone, and one that is unwinding writes nothing.
LEMMA TaskAlone ==
    ASSUME TypeInv, NEW t \in Tasks, TaskAdvances(t)
    PROVE  /\ \A u \in Tasks \ {t} : pc'[u] = pc[u] /\ job'[u] = job[u] /\ mem'[u] = mem[u]
           /\ Working(t) \/ UNCHANGED status
<1>0. /\ pc \in [Tasks -> Labels] /\ mem \in [Tasks -> JobStatus \cup {"none"}]
      /\ job \in [Tasks -> Jobs \cup {NoJob}]
  BY DEF TypeInv, TasksInv, TasksOK
<1> DEFINE Alone == \A u \in Tasks \ {t} : /\ pc'[u] = pc[u] /\ job'[u] = job[u]
                                           /\ mem'[u] = mem[u]
<1>1. \A l, s, n : Goto(t, l, s, n) => Alone
  BY <1>0 DEF Goto
<1>2. Ends(t) => Alone
  BY <1>0 DEF Ends
<1> HIDE DEF Alone
<1>3. CASE Start(t) \/ BootstrapContinues(t) \/ BootstrapPauses(t) \/ BootstrapFails(t)
  <2>1. Alone
    BY <1>1, <1>2, <1>3 DEF Start, BootstrapContinues, BootstrapPauses, BootstrapFails
  <2> QED BY <1>3, <2>1
       DEF Alone, Start, BootstrapContinues, BootstrapPauses, BootstrapFails, Working
<1>4. CASE LoopTop(t) \/ TargetReached(t) \/ PickChapter(t) \/ Checkpoint(t)
  <2>1. Alone
    BY <1>1, <1>2, <1>4 DEF LoopTop, Rescue, TargetReached, PickChapter, Checkpoint
  <2> QED BY <1>4, <2>1 DEF Alone, LoopTop, TargetReached, PickChapter, Checkpoint, Working
<1>5. CASE ChapterPauses(t) \/ ChapterEnds(t) \/ ChapterJsonError(t) \/ ChapterRaises(t)
           \/ PostProcessingTimeout(t)
  <2>1. Alone
    BY <1>1, <1>2, <1>5 DEF ChapterPauses, ChapterEnds, ChapterJsonError, ChapterRaises,
                            PostProcessingTimeout
  <2> QED BY <1>5, <2>1 DEF Alone, ChapterPauses, ChapterEnds, ChapterJsonError, ChapterRaises,
                            PostProcessingTimeout, Working
<1>6. CASE AfterChapter(t) \/ FinishBatch(t) \/ FailBatch(t) \/ FailBatchDatabase(t)
  <2>1. Alone
    BY <1>1, <1>2, <1>6 DEF AfterChapter, FinishBatch, FailBatch, FailBatchDatabase, Rescue
  <2> QED BY <1>6, <2>1 DEF Alone, AfterChapter, FinishBatch, FailBatch, FailBatchDatabase,
                            Working
<1>7. CASE Unwind(t)
  BY <1>2, <1>7 DEF Alone, Unwind, NoWrite, dbVars
<1> QED
  BY <1>3, <1>4, <1>5, <1>6, <1>7 DEF TaskAdvances

LEMMA TaskSettles ==
    ASSUME NEW w, Workers = {w}, TypeInv, Owned, CompletionKnown,
           NEW t \in Tasks, TaskAdvances(t)
    PROVE  CompletionKnown' /\ StaysCompleted
<1>1. /\ \A j \in Jobs : j # job[t] => status'[j] = status[j]
      /\ status[job[t]] = "completed" => status'[job[t]] \notin ActiveStatus
      /\ Working(t)' =>
            /\ pc'[t] = "chapter" => mem'[t] = "running"
            /\ pc'[t] # "start" /\ status'[job[t]] = "completed" => mem'[t] = "completed"
  BY TaskCompletes
<1>2. StaysCompleted
  BY <1>1 DEF StaysCompleted, ActiveStatus
<1>3. ASSUME NEW u \in Tasks, u # t, Working(u)'
      PROVE  /\ Working(u) /\ status'[job[u]] = status[job[u]]
             /\ pc'[u] = pc[u] /\ job'[u] = job[u] /\ mem'[u] = mem[u]
  <2>1. pc'[u] = pc[u] /\ job'[u] = job[u] /\ mem'[u] = mem[u]
    BY <1>3, TaskAlone
  <2>2. Working(u) /\ job[u] \in Jobs
    BY <1>3, <2>1 DEF Working, TypeInv, TasksInv, TaskInv
  <2>3. CASE Working(t)
    <3>1. job[u] # job[t]
      BY <1>3, <2>2, <2>3, SoleWriter DEF SingleWriter
    <3> QED BY <1>1, <2>1, <2>2, <3>1
  <2>4. CASE UNCHANGED status
    BY <2>1, <2>2, <2>4
  <2> QED BY <2>3, <2>4, TaskAlone
<1>4. ASSUME Working(t)'
      PROVE  job'[t] = job[t]
  BY <1>4, TaskMoves DEF Ends, Working, TypeInv, TasksInv, TasksOK
<1>5. CompletionKnown'
  <2> SUFFICES ASSUME NEW u \in Tasks, Working(u)'
               PROVE  /\ pc'[u] = "chapter" => mem'[u] = "running"
                      /\ pc'[u] # "start" /\ status'[job'[u]] = "completed"
                             => mem'[u] = "completed"
    BY DEF CompletionKnown
  <2>1. CASE u = t
    BY <1>1, <1>4, <2>1
  <2>2. CASE u # t
    BY <1>3, <2>2 DEF CompletionKnown
  <2> QED BY <2>1, <2>2
<1> QED
  BY <1>2, <1>5

\* A claim takes pending rows only; the sweeps fail running ones.
LEMMA WorkerSettles ==
    ASSUME TypeInv, CompletionKnown, NEW w \in Workers,
           WorkerStep(w) \/ Crash(w) \/ Restart(w)
    PROVE  CompletionKnown' /\ StaysCompleted
<1>0. /\ pc \in [Tasks -> Labels] /\ job \in [Tasks -> Jobs \cup {NoJob}]
      /\ mem \in [Tasks -> JobStatus \cup {"none"}]
  BY DEF TypeInv, TasksInv, TasksOK
<1>1. ASSUME \A j \in Jobs : \/ status'[j] = status[j]
                             \/ status[j] # "completed" /\ status'[j] # "completed"
      PROVE  /\ StaysCompleted
             /\ \A j \in Jobs : status'[j] = "completed" => status[j] = "completed"
  BY <1>1 DEF StaysCompleted, ActiveStatus
<1>2. CASE PollClaim(w)
  <2>1. PICK taken \in SUBSET Jobs, finished \in SUBSET Tasks :
          /\ status' = [j \in Jobs |-> IF j \in taken THEN "running" ELSE status[j]]
          /\ \A j \in taken : status[j] = "pending"
          /\ pc' = [t \in Tasks |-> IF t \in finished THEN "free" ELSE pc[t]]
          /\ job' = [t \in Tasks |-> IF t \in finished THEN NoJob ELSE job[t]]
          /\ UNCHANGED mem
    <3> DEFINE finished == {t \in Tasks : pc[t] = "done" /\ host[t] = w}
               pending  == {j \in Jobs : status[j] = "pending"}
               scanned  == {j \in pending : Cardinality({k \in pending : k < j}) < ScanLimit}
               eligible == {j \in scanned : novel[ProjectOf[j]] = "generating"}
               capacity == MaxConcurrent - Cardinality(Active(w))
               taken    == IF seesPaused[w] THEN {}
                           ELSE {j \in eligible :
                                   Cardinality({k \in eligible : k < j}) < capacity}
    <3>1. /\ status' = [j \in Jobs |-> IF j \in taken THEN "running" ELSE status[j]]
          /\ pc' = [t \in Tasks |-> IF t \in finished THEN "free" ELSE pc[t]]
          /\ job' = [t \in Tasks |-> IF t \in finished THEN NoJob ELSE job[t]]
          /\ UNCHANGED mem
      BY <1>2, Zenon DEF PollClaim
    <3>2. taken \in SUBSET Jobs /\ \A j \in taken : status[j] = "pending"
      OBVIOUS
    <3>3. finished \in SUBSET Tasks
      OBVIOUS
    <3> HIDE DEF taken, finished
    <3> QED BY <3>1, <3>2, <3>3
  <2>2. \A t \in Tasks : Working(t)' =>
           Working(t) /\ pc'[t] = pc[t] /\ job'[t] = job[t] /\ mem'[t] = mem[t]
    BY <1>0, <2>1 DEF Working
  <2>3. \A j \in Jobs : \/ status'[j] = status[j]
                        \/ status[j] # "completed" /\ status'[j] # "completed"
    BY <2>1
  <2> QED BY <1>1, <2>2, <2>3, CompletionKept
<1>3. CASE PollSpawn(w)
  <2>1. PICK t \in Tasks :
          /\ \A u \in Tasks : pc'[u] = pc[u] \/ pc'[u] = "unwinding" \/ u = t
          /\ pc'[t] = "start" /\ \A u \in Tasks : u # t => job'[u] = job[u]
          /\ UNCHANGED <<status, mem>>
    BY <1>0, <1>3 DEF PollSpawn, dbVars
  <2>2. \A u \in Tasks : Working(u)' =>
           \/ pc'[u] = "start"
           \/ Working(u) /\ pc'[u] = pc[u] /\ job'[u] = job[u] /\ mem'[u] = mem[u]
    BY <2>1 DEF Working
  <2>3. \A j \in Jobs : status'[j] = status[j]
    BY <2>1
  <2> QED BY <1>1, <2>2, <2>3, CompletionKept
<1>4. CASE PollRegister(w) \/ RefreshTunables(w)
  <2>1. UNCHANGED <<status, pc, job, mem>>
    BY <1>4 DEF PollRegister, RefreshTunables, dbVars, taskVars
  <2>2. \A j \in Jobs : status'[j] = status[j]
    BY <2>1
  <2> QED BY <1>1, <2>1, <2>2, CompletionKept DEF Working
<1>5. CASE OrphanSweep(w) \/ Restart(w)
  <2>1. /\ UNCHANGED <<pc, job, mem>>
        /\ \E P : FailRows(Orphans(w), P) \/ FailRows(StaleRunning, P)
    BY <1>5 DEF OrphanSweep, Restart, taskVars
  <2>2. \A j \in Jobs : \/ status'[j] = status[j]
                        \/ status[j] # "completed" /\ status'[j] # "completed"
    BY <2>1 DEF FailRows, Orphans, StaleRunning
  <2> QED BY <1>1, <2>1, <2>2, CompletionKept DEF Working
<1>6. CASE Crash(w)
  <2>1. \A t \in Tasks : Working(t)' =>
           Working(t) /\ pc'[t] = pc[t] /\ job'[t] = job[t] /\ mem'[t] = mem[t]
    BY <1>0, <1>6 DEF Crash, Working
  <2>2. \A j \in Jobs : status'[j] = status[j]
    BY <1>6 DEF Crash, dbVars
  <2> QED BY <1>1, <2>1, <2>2, CompletionKept
<1> QED
  BY <1>2, <1>3, <1>4, <1>5, <1>6 DEF WorkerStep

\* Users and time: only the commit of a request revives a completed row.
LEMMA OthersSettle ==
    ASSUME TypeInv, CompletionKnown,
           \/ \E t \in Tasks : ChapterCommit(t)
           \/ \E j \in Jobs : Age(j)
           \/ UserCommand \/ RequestReads \/ RequestWrites
    PROVE  CompletionKnown' /\ (StaysCompleted \/ request.at = "write")
<1>0. /\ pc \in [Tasks -> Labels] /\ status \in [Jobs -> JobStatus \cup {"none"}]
      /\ \A t \in Tasks : pc[t] # "free" => job[t] \in Jobs
  BY DEF TypeInv, StoreInv, RowsOK, TasksInv, TasksOK, TaskInv
<1>1. ASSUME UNCHANGED <<status, pc, job, mem>>
      PROVE  CompletionKnown' /\ StaysCompleted
  BY <1>1, CompletionKept DEF StaysCompleted, ActiveStatus, Working
<1>2. ASSUME NEW t \in Tasks, ChapterCommit(t)
      PROVE  CompletionKnown' /\ StaysCompleted
  <2>1. UNCHANGED <<pc, job, mem>> /\ status' = status
    BY <1>0, <1>2 DEF ChapterCommit, Write, Row, taskVars
  <2> QED BY <1>1, <2>1
<1>3. ASSUME NEW j \in Jobs, Age(j)
      PROVE  CompletionKnown' /\ StaysCompleted
  BY <1>1, <1>3 DEF Age, taskVars
<1>4. ASSUME NEW p \in Projects, Generate(p) \/ Pause(p) \/ Resume(p)
      PROVE  CompletionKnown' /\ StaysCompleted
  <2>1. UNCHANGED <<pc, job, mem>>
    BY <1>4 DEF Generate, Pause, Resume, Command, taskVars
  <2>2. \A j \in Jobs : \/ status'[j] = status[j]
                        \/ status[j] # "completed" /\ status'[j] # "completed"
    <3>1. CASE Generate(p)
      <4>1. JobsOf(p) \ Existing(p) # {} /\ JobsOf(p) \ Existing(p) \subseteq Jobs
        BY <3>1 DEF Generate, Existing, JobsOf
      <4>2. PICK k \in JobsOf(p) \ Existing(p) : k = Oldest(JobsOf(p) \ Existing(p))
        BY <4>1, OldestIn
      <4> QED BY <1>0, <3>1, <4>2 DEF Generate, Enqueue, Existing, Exists
    <3>2. CASE Pause(p)
      BY <3>2 DEF Pause, PauseJob, ActiveStatus
    <3>3. CASE Resume(p)
      <4>1. CASE status[Newest(Existing(p))] \in Resumable
        BY <1>0, <3>3, <4>1 DEF Resume, Enqueue, Resumable
      <4>2. CASE status[Newest(Existing(p))] \notin Resumable
        <5>1. JobsOf(p) \ Existing(p) # {} /\ JobsOf(p) \ Existing(p) \subseteq Jobs
          BY <3>3, <4>2 DEF Resume, Existing, JobsOf
        <5>2. PICK k \in JobsOf(p) \ Existing(p) : k = Oldest(JobsOf(p) \ Existing(p))
          BY <5>1, OldestIn
        <5> QED BY <1>0, <3>3, <4>2, <5>2 DEF Resume, Enqueue, Existing, Exists
      <4> QED BY <4>1, <4>2
    <3> QED BY <1>4, <3>1, <3>2, <3>3
  <2>3. StaysCompleted
    BY <2>2 DEF StaysCompleted, ActiveStatus
  <2> QED BY <2>1, <2>2, <2>3, CompletionKept DEF Working
<1>5. CASE ToggleClaim
  BY <1>1, <1>5 DEF ToggleClaim, taskVars
<1>6. ASSUME NEW cmd \in {"cancel", "retry", "rewrite"}, NEW j \in Jobs,
             BeginRequest(cmd, j)
      PROVE  CompletionKnown' /\ StaysCompleted
  <2> DEFINE old == registry[ApiHost][j]
  <2>1. /\ pc' = pc \/ pc' = [pc EXCEPT ![old] = "unwinding"]
        /\ UNCHANGED <<status, job, mem>>
    BY <1>6 DEF BeginRequest, dbVars
  <2> HIDE DEF old
  <2>2. \A t \in Tasks : Working(t)' =>
           Working(t) /\ pc'[t] = pc[t] /\ job'[t] = job[t] /\ mem'[t] = mem[t]
    BY <1>0, <2>1 DEF Working
  <2>3. StaysCompleted /\ \A k \in Jobs : status'[k] = "completed" => status[k] = "completed"
    BY <2>1 DEF StaysCompleted, ActiveStatus
  <2> QED BY <2>2, <2>3, CompletionKept
<1>7. CASE RequestReads
  BY <1>1, <1>7 DEF RequestReads, dbVars, taskVars
<1>8. CASE RequestWrites
  <2>1. request.at = "write" /\ UNCHANGED <<pc, job, mem>>
    BY <1>8 DEF RequestWrites, taskVars
  <2>2. \A k \in Jobs : status'[k] = "completed" => status[k] = "completed"
    <3>1. CASE status' = status
      BY <3>1
    <3>2. CASE status' = Requested
      <4>1. request.cmd \in {"cancel", "retry", "rewrite"}
        BY <2>1 DEF TypeInv, AskInv, RequestInv, RequestOK
      <4>2. CASE request.cmd = "cancel"
        BY <1>0, <3>2, <4>2 DEF Requested
      <4>3. CASE request.cmd = "retry"
        BY <1>0, <3>2, <4>3 DEF Requested
      <4>4. CASE request.cmd = "rewrite"
        <5> DEFINE others == {k \in JobsOf(ProjectOf[request.job]) \ {request.job} :
                                 request.seen[k] \in {"failed", "pending", "running"}}
        <5>1. status' = [k \in Jobs |->
                 CASE k = request.job -> Flush(status[k], request.seen[k], "pending")
                   [] k \in others -> "cancelled"
                   [] OTHER -> status[k]]
          BY <3>2, <4>4, Zenon DEF Requested
        <5>2. request.job \notin others
          OBVIOUS
        <5> HIDE DEF others
        <5> QED BY <5>1, <5>2 DEF Flush
      <4> QED BY <4>1, <4>2, <4>3, <4>4
    <3> QED BY <1>8, <3>1, <3>2 DEF RequestWrites, dbVars
  <2> QED BY <2>1, <2>2, CompletionKept DEF Working
<1> QED
  BY <1>2, <1>3, <1>4, <1>5, <1>6, <1>7, <1>8 DEF UserCommand

\* With one worker process, nothing but the commit of a retry or a rewrite that
\* read the row earlier queues a completed job again: no task that holds a copy
\* from before, no sweep, claim or resume does.
THEOREM OneWorkerCompletedNotRedone ==
    ASSUME NEW w, Workers = {w}
    PROVE  Spec => CompletedNotRedone
<1> DEFINE Stands == StaysCompleted \/ request.at = "write"
<1>1. TypeInv /\ Owned /\ CompletionKnown /\ Next => CompletionKnown' /\ Stands
  BY TaskSettles, WorkerSettles, OthersSettle DEF Next
<1>2. TypeInv /\ CompletionKnown /\ UNCHANGED vars => CompletionKnown'
  BY CompletionKept DEF vars, dbVars, taskVars, Working
<1>3. [Stands]_vars <=> [\A j \in Jobs : status[j] = "completed" /\ status'[j] \in ActiveStatus
                                            => request.at = "write"]_vars
  BY DEF StaysCompleted
<1>4. TypeInv /\ Owned /\ CompletionKnown /\ [Next]_vars => CompletionKnown' /\ [Stands]_vars
  BY <1>1, <1>2
<1>5. CompletedNotRedone <=> [][Stands]_vars
  BY <1>3, PTL DEF CompletedNotRedone
<1> HIDE DEF Stands
<1> QED
  BY <1>4, <1>5, CompletionInit, SpecOwned, PTL DEF Spec
=============================================================================
