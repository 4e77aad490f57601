------------------------------ MODULE BranchLife ------------------------------
(***************************************************************************)
(* The life of a character's branches: created at an anchor chapter,       *)
(* generated by jobs, edited, archived; and what stops their jobs.         *)
(*                                                                         *)
(* src/services/character_branch_service.py, character_branch_generation,  *)
(* routers/character_branches.py and worker_support/                       *)
(* character_branch_generation_flow.py. All branches here have the same    *)
(* character, arc and anchor. Each has the one chapter that is written     *)
(* next: as the code stands, the pointer to it never moves (see WalkEnds). *)
(***************************************************************************)
EXTENDS Naturals, FiniteSets

CONSTANTS
    Branches,       \* branches of one character, arc and anchor
    BranchJobs      \* bound: jobs ever queued for them

VARIABLES
    branchRow,      \* branch -> its status, "none" before it is created
    branchChapter,  \* branch -> status of its next chapter, "none" before it exists
    branchJob,      \* job -> status, branch and where its handler is
    edit,           \* branch -> the status an edit in flight has read, "none"
    revived         \* history: an edit has brought a branch back from the archive

branchVars == <<branchRow, branchChapter, branchJob, edit, revived>>

BranchStatuses == {"pending", "generating", "draft", "ready", "failed", "archived"}
ActiveStatuses == {"pending", "generating", "draft"}
NoJob == [st |-> "NEW", of |-> "none", pc |-> "none"]
\* The row enqueue_branch_generation adds in its caller's transaction.
QueuedJob(b) == [st |-> "PENDING", of |-> b, pc |-> "none"]

BranchInit ==
    /\ branchRow = [b \in Branches |-> "none"]
    /\ branchChapter = [b \in Branches |-> "none"]
    /\ branchJob = [j \in BranchJobs |-> NoJob]
    /\ edit = [b \in Branches |-> "none"]
    /\ revived = FALSE

JobsOf(b) == {j \in BranchJobs : branchJob[j].of = b}
Status(j) == branchJob[j].st

-----------------------------------------------------------------------------
(* The user's commands.                                                    *)

\* Mutant: a branch that is being written does not count as a duplicate.
ForgetfulDuplicate(b) ==
    \E a \in Branches \ {b} : branchRow[a] \in {"pending", "generating"}

Duplicate(b) == \E a \in Branches \ {b} : branchRow[a] \in ActiveStatuses

\* create_character_branch, under the lock of the character's card.
CreateBranch(b) ==
    /\ branchRow[b] = "none" /\ ~Duplicate(b)
    /\ branchRow' = [branchRow EXCEPT ![b] = "pending"]
    /\ UNCHANGED <<branchChapter, branchJob, edit, revived>>

\* transition_branch_status: what a status may become.
Allowed(from, to) ==
    \/ from = to
    \/ to = "generating" /\ from \in BranchStatuses \ {"archived"}
    \/ to = "archived" /\ from # "none"
    \/ to \in {"draft", "ready", "failed"} /\ from = "generating"
    \/ to = "ready" /\ from = "draft"

\* Mutant: the status is not looked at.
GenerateAnyway(b) ==
    /\ branchRow[b] # "none"
    /\ \E j \in BranchJobs :
          /\ Status(j) = "NEW" /\ \A k \in BranchJobs : k < j => Status(k) # "NEW"
          /\ branchJob' = [branchJob EXCEPT ![j] = QueuedJob(b)]
    /\ branchRow' = [branchRow EXCEPT ![b] = "generating"]
    /\ UNCHANGED <<branchChapter, edit, revived>>

\* post_generate_character_branch, under the branch's lock.
GenerateBranch(b) ==
    /\ branchRow[b] \in {"pending", "draft", "failed", "ready"}
    /\ Allowed(branchRow[b], "generating")
    /\ \E j \in BranchJobs :
          /\ Status(j) = "NEW" /\ \A k \in BranchJobs : k < j => Status(k) # "NEW"
          /\ branchJob' = [branchJob EXCEPT ![j] = QueuedJob(b)]
    /\ branchRow' = [branchRow EXCEPT ![b] = "generating"]
    /\ UNCHANGED <<branchChapter, edit, revived>>

\* get_branch_chapter: an edit needs a row that a run has made.
HasBranchChapter(b) == branchChapter[b] # "none"

\* patch_character_branch_chapter reads the branch without its lock ...
ReadForEdit(b) ==
    /\ HasBranchChapter(b) /\ edit[b] = "none"
    /\ branchRow[b] # "archived"
    /\ edit' = [edit EXCEPT ![b] = branchRow[b]]
    /\ UNCHANGED <<branchRow, branchChapter, branchJob, revived>>

\* ... and makes it a draft later; a status that already was draft when it was
\* read is not written.
CommitEdit(b) ==
    /\ edit[b] # "none"
    /\ branchChapter' = [branchChapter EXCEPT ![b] = "draft"]
    /\ branchRow' = [branchRow EXCEPT ![b] = IF edit[b] = "draft" THEN @ ELSE "draft"]
    /\ revived' = (revived \/ (branchRow[b] = "archived" /\ edit[b] # "draft"))
    /\ edit' = [edit EXCEPT ![b] = "none"]
    /\ UNCHANGED branchJob

\* What stopping a job leaves: a draft that can be generated again.
Stopped(b) == IF branchRow[b] = "archived" THEN "archived" ELSE "draft"
StoppedChapter(b) ==
    IF branchRow[b] # "archived" /\ branchChapter[b] = "generating"
    THEN "draft" ELSE branchChapter[b]

\* post_archive_character_branch: under the branch's lock the tasks of this
\* process are cancelled, the jobs are cancelled and the branch is archived.
ArchiveBranchRow(b) ==
    /\ branchRow[b] # "none" /\ Allowed(branchRow[b], "archived")
    /\ LET active == {j \in JobsOf(b) : Status(j) \in {"PENDING", "RUNNING"}} IN
       /\ \E here \in SUBSET active :
             branchJob' = [j \in BranchJobs |->
                IF j \notin active THEN branchJob[j]
                ELSE [branchJob[j] EXCEPT !.st = "CANCELLED",
                                          !.pc = IF j \in here THEN "none" ELSE @]]
       /\ branchChapter' = [branchChapter EXCEPT ![b] =
                               IF active # {} THEN StoppedChapter(b) ELSE @]
    /\ branchRow' = [branchRow EXCEPT ![b] = "archived"]
    /\ UNCHANGED <<edit, revived>>

\* Mutant: stopping a job makes a draft of whatever the branch is.
StopAnyBranch(j, status, pc) ==
    LET b == branchJob[j].of IN
    /\ branchJob' = [branchJob EXCEPT ![j].st = status, ![j].pc = pc]
    /\ branchRow' = [branchRow EXCEPT ![b] = "draft"]
    /\ branchChapter' = [branchChapter EXCEPT ![b] = StoppedChapter(b)]
    /\ UNCHANGED <<edit, revived>>

\* stop_character_branch_job, with the status its caller gives the job.
StopBranchJob(j, status, pc) ==
    LET b == branchJob[j].of IN
    /\ branchJob' = [branchJob EXCEPT ![j].st = status, ![j].pc = pc]
    /\ branchRow' = [branchRow EXCEPT ![b] = Stopped(b)]
    /\ branchChapter' = [branchChapter EXCEPT ![b] = StoppedChapter(b)]
    /\ UNCHANGED <<edit, revived>>

\* worker_admin_service.cancel_job, after the task was stopped if it is one of
\* this process.
CancelBranchJob(j) ==
    /\ Status(j) \in {"PENDING", "RUNNING"}
    /\ \E pc \in {branchJob[j].pc, "none"} : StopBranchJob(j, "CANCELLED", pc)

\* worker_admin_service.retry_job: the branch is not looked at.
RetryBranchJob(j) ==
    /\ Status(j) \in {"FAILED", "CANCELLED"}
    /\ branchJob[j].pc = "none"     \* one handler for a job: see SingleWriter
    /\ branchJob' = [branchJob EXCEPT ![j].st = "PENDING"]
    /\ UNCHANGED <<branchRow, branchChapter, edit, revived>>

\* The process of a running job dies, and the sweep finds the stale row.
BranchWorkerDies(j) ==
    /\ Status(j) = "RUNNING" /\ branchJob[j].pc # "none"
    /\ branchJob' = [branchJob EXCEPT ![j].pc = "none"]
    /\ UNCHANGED <<branchRow, branchChapter, edit, revived>>

RecoverBranchJob(j) ==
    Status(j) = "RUNNING" /\ branchJob[j].pc = "none" /\ StopBranchJob(j, "FAILED", "none")

-----------------------------------------------------------------------------
(* The job's handler.                                                      *)

ClaimBranchJob(j) ==
    /\ Status(j) = "PENDING"
    /\ branchJob' = [branchJob EXCEPT ![j].st = "RUNNING", ![j].pc = "begin"]
    /\ UNCHANGED <<branchRow, branchChapter, edit, revived>>

\* How process_job ends a handler that raised: a job still running has failed.
\* Both handlers of process_character_branch_job raise themselves, when they
\* read job.id after their rollback, before they touch the branch.
Raised(j) == [branchJob EXCEPT ![j].pc = "none",
                               ![j].st = IF @ = "RUNNING" THEN "FAILED" ELSE @]

\* The job or the branch was stopped: the checkpoint raises.
Aborted(j) == Status(j) # "RUNNING"

\* create_or_get_branch_chapter: the run makes the row unless an earlier one
\* did, and takes it over whatever its status.
BegunChapter(b) == [branchChapter EXCEPT ![b] = "generating"]

BeginWalk(j) ==
    /\ branchJob[j].pc = "begin"
    /\ LET b == branchJob[j].of IN
       IF Aborted(j) \/ branchRow[b] = "archived"
       THEN branchJob' = Raised(j) /\ UNCHANGED branchChapter
       ELSE /\ branchJob' = [branchJob EXCEPT ![j].pc = "check"]
            /\ branchChapter' = BegunChapter(b)
    /\ UNCHANGED <<branchRow, edit, revived>>

\* Before the walk, without the lock: only the job's status is read anew.
CheckWalk(j) ==
    /\ branchJob[j].pc = "check"
    /\ branchJob' = IF Aborted(j) THEN Raised(j)
                    ELSE [branchJob EXCEPT ![j].pc = "walk"]
    /\ UNCHANGED <<branchRow, branchChapter, edit, revived>>

\* The chapter has been walked through its graph, or the walk was stopped. The
\* handler asks the outcome for a field it does not have, and raises.
WalkEnds(j, kind) ==
    /\ branchJob[j].pc = "walk"
    /\ kind \in {"completed", "stopped"}
    /\ branchJob' = Raised(j)
    /\ UNCHANGED <<branchRow, branchChapter, edit, revived>>

-----------------------------------------------------------------------------
BranchNext ==
    \/ \E b \in Branches : \/ CreateBranch(b) \/ GenerateBranch(b) \/ ReadForEdit(b)
                           \/ CommitEdit(b) \/ ArchiveBranchRow(b)
    \/ \E j \in BranchJobs : \/ CancelBranchJob(j) \/ RetryBranchJob(j)
                             \/ BranchWorkerDies(j) \/ RecoverBranchJob(j)
                             \/ ClaimBranchJob(j) \/ BeginWalk(j) \/ CheckWalk(j)
                             \/ \E kind \in {"completed", "stopped"} : WalkEnds(j, kind)

BranchSpec == BranchInit /\ [][BranchNext]_branchVars

-----------------------------------------------------------------------------
\* Unless an edit that had read the branch before it was archived brings one
\* back, a character has at most one active branch for an arc and an anchor:
\* the duplicates create_character_branch refuses never arise by another way.
ActiveBranchIsUnique ==
    ~revived => Cardinality({b \in Branches : branchRow[b] \in ActiveStatuses}) <= 1

\* Nothing but such an edit changes an archived branch: not a job retried after
\* the archive, not a task that is still walking, not a late recovery.
ArchivedIsFinal ==
    [][\A b \in Branches :
         branchRow[b] = "archived" => branchRow'[b] = "archived" \/ edit[b] # "none"]_branchVars
=============================================================================
