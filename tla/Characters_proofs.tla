-------------------------- MODULE Characters_proofs ----------------------------
(***************************************************************************)
(* Proofs about characters. BranchLife, for any number of branches and     *)
(* jobs: an archived branch stays archived, and a character has at most    *)
(* one active branch at an anchor, unless an edit in flight brings one     *)
(* back. CharacterCards, for any cards, names, chapters and updates: the   *)
(* sparse history of states answers exactly, a writer is shown nothing of  *)
(* the future, and newcomers are linked to the cards they name.            *)
(***************************************************************************)
EXTENDS BranchLife, CharacterCards, FiniteSetTheorems, WellFoundedInduction, TLAPS

-----------------------------------------------------------------------------
(* The inductive invariant.                                                *)

Steps == {"none", "begin", "check", "walk"}
JobRow == [st : {"NEW", "PENDING", "RUNNING", "FAILED", "CANCELLED"},
           of : Branches \cup {"none"}, pc : Steps]

\* As the code stands no walk ends with a branch that is ready or has failed.
RowStates == {"none", "archived"} \cup ActiveStatuses

BranchTypes ==
    /\ branchRow \in [Branches -> RowStates]
    /\ branchChapter \in [Branches -> {"none", "generating", "draft"}]
    /\ branchJob \in [BranchJobs -> JobRow]
    /\ edit \in [Branches -> RowStates]
    /\ revived \in BOOLEAN

\* Jobs, chapters and edits belong to branches that were created.
JobKnown(j) ==
    /\ Status(j) # "NEW" => /\ branchJob[j].of \in Branches
                            /\ branchRow[branchJob[j].of] # "none"
    /\ Status(j) = "NEW" => branchJob[j].pc = "none"
Owned(b) ==
    /\ branchChapter[b] # "none" => branchRow[b] # "none"
    /\ edit[b] # "none" => branchRow[b] # "none"

OneActive ==
    ~revived => \A a, b \in Branches :
        branchRow[a] \in ActiveStatuses /\ branchRow[b] \in ActiveStatuses => a = b

BranchInv ==
    /\ BranchTypes
    /\ \A j \in BranchJobs : JobKnown(j)
    /\ \A b \in Branches : Owned(b)
    /\ OneActive

LEMMA BranchInvStarts == BranchInit => BranchInv
<1> SUFFICES ASSUME BranchInit PROVE BranchInv
  OBVIOUS
<1>1. NoJob \in JobRow /\ NoJob.st = "NEW" /\ NoJob.pc = "none"
  BY DEF NoJob, JobRow, Steps
<1>2. BranchTypes
  BY <1>1 DEF BranchInit, BranchTypes, RowStates
<1>3. \A j \in BranchJobs : JobKnown(j)
  BY <1>1 DEF BranchInit, JobKnown, Status
<1>4. (\A b \in Branches : Owned(b)) /\ OneActive
  BY DEF BranchInit, Owned, OneActive, ActiveStatuses
<1> QED
  BY <1>2, <1>3, <1>4 DEF BranchInv

-----------------------------------------------------------------------------
(* What a step may do to a branch's row, and what follows.                 *)

\* A branch that was created is not forgotten, and one that is not active does
\* not become active, but for an edit that brings it back.
Kept(b) ==
    /\ branchRow[b] # "none" => branchRow'[b] # "none"
    /\ branchRow'[b] \in ActiveStatuses => branchRow[b] \in ActiveStatuses \/ revived'

LEMMA StepKeeps ==
    ASSUME BranchInv, BranchTypes', revived => revived', \A b \in Branches : Kept(b),
           \A j \in BranchJobs :
              \/ branchJob'[j] = branchJob[j]
              \/ JobKnown(j)'
              \/ /\ Status(j) # "NEW" /\ branchJob'[j].of = branchJob[j].of
                 /\ branchJob'[j].st # "NEW",
           \A b \in Branches :
              /\ branchChapter'[b] = branchChapter[b] \/ branchRow'[b] # "none"
              /\ edit'[b] \in {"none", edit[b]} \/ branchRow'[b] # "none"
    PROVE  BranchInv'
<1>1. \A j \in BranchJobs : JobKnown(j)'
  BY DEF BranchInv, BranchTypes, JobKnown, Status, Kept
<1>2. \A b \in Branches : Owned(b)'
  BY DEF BranchInv, Owned, Kept
<1>3. OneActive'
  BY DEF BranchInv, OneActive, Kept
<1> QED
  BY <1>1, <1>2, <1>3 DEF BranchInv

\* Jobs change their status or their place, never their branch.
LEMMA JobMoved ==
    ASSUME BranchTypes, NEW j \in BranchJobs,
           NEW st \in {"NEW", "PENDING", "RUNNING", "FAILED", "CANCELLED"}, NEW pc \in Steps,
           branchJob' = [branchJob EXCEPT ![j].st = st, ![j].pc = pc]
    PROVE  /\ branchJob' \in [BranchJobs -> JobRow]
           /\ branchJob'[j].st = st /\ branchJob'[j].of = branchJob[j].of
           /\ \A k \in BranchJobs : k # j => branchJob'[k] = branchJob[k]
<1>1. PICK x : x = [branchJob[j] EXCEPT !.st = st, !.pc = pc]
  OBVIOUS
<1>2. branchJob[j] \in JobRow
  BY DEF BranchTypes
<1>3. x \in JobRow /\ x.st = st /\ x.of = branchJob[j].of
  BY <1>1, <1>2 DEF JobRow
<1>4. branchJob' = [branchJob EXCEPT ![j] = x]
  BY <1>1
<1> QED
  BY <1>3, <1>4 DEF BranchTypes

LEMMA CreateStep ==
    ASSUME BranchInv, NEW b \in Branches, CreateBranch(b)
    PROVE  BranchInv'
<1>1. /\ branchRow[b] = "none" /\ branchRow' = [branchRow EXCEPT ![b] = "pending"]
      /\ branchChapter' = branchChapter /\ branchJob' = branchJob /\ edit' = edit
      /\ revived' = revived
      /\ \A a \in Branches \ {b} : branchRow[a] \notin ActiveStatuses
  BY DEF CreateBranch, Duplicate
<1>2. BranchTypes'
  BY <1>1 DEF BranchInv, BranchTypes, RowStates, ActiveStatuses
<1>3. \A a \in Branches : branchRow'[a] = IF a = b THEN "pending" ELSE branchRow[a]
  BY <1>1 DEF BranchInv, BranchTypes
<1>4. \A j \in BranchJobs : JobKnown(j)'
  BY <1>1, <1>3 DEF BranchInv, JobKnown, Status
<1>5. \A a \in Branches : Owned(a)'
  BY <1>1, <1>3 DEF BranchInv, Owned
<1>6. OneActive'
  BY <1>1, <1>3 DEF OneActive
<1> QED
  BY <1>2, <1>4, <1>5, <1>6 DEF BranchInv

LEMMA GenerateStep ==
    ASSUME BranchInv, NEW b \in Branches, GenerateBranch(b)
    PROVE  BranchInv'
<1>1. PICK j \in BranchJobs : branchJob' = [branchJob EXCEPT ![j] = QueuedJob(b)]
  BY DEF GenerateBranch
<1>2. /\ branchRow[b] \in {"pending", "draft"}
      /\ branchRow' = [branchRow EXCEPT ![b] = "generating"]
      /\ branchChapter' = branchChapter /\ edit' = edit /\ revived' = revived
  BY DEF GenerateBranch, BranchInv, BranchTypes, RowStates, ActiveStatuses
<1>3. QueuedJob(b) \in JobRow /\ QueuedJob(b).st = "PENDING" /\ QueuedJob(b).of = b
  BY DEF QueuedJob, JobRow, Steps
<1>4. /\ \A a \in Branches : branchRow'[a] = IF a = b THEN "generating" ELSE branchRow[a]
      /\ \A k \in BranchJobs : branchJob'[k] = IF k = j THEN QueuedJob(b) ELSE branchJob[k]
  BY <1>1, <1>2 DEF BranchInv, BranchTypes
<1>5. BranchTypes'
  BY <1>1, <1>2, <1>3 DEF BranchInv, BranchTypes, RowStates, ActiveStatuses
<1>6. \A a \in Branches : Kept(a)
  BY <1>2, <1>4 DEF Kept, ActiveStatuses
<1>7. JobKnown(j)'
  BY <1>3, <1>4 DEF JobKnown, Status
<1> QED
  BY <1>2, <1>4, <1>5, <1>6, <1>7, StepKeeps

LEMMA EditStep ==
    ASSUME BranchInv, NEW b \in Branches, ReadForEdit(b) \/ CommitEdit(b)
    PROVE  BranchInv'
<1>1. CASE ReadForEdit(b)
  <2>1. /\ branchRow' = branchRow /\ branchChapter' = branchChapter
        /\ branchJob' = branchJob /\ revived' = revived
        /\ edit' = [edit EXCEPT ![b] = branchRow[b]] /\ branchChapter[b] # "none"
    BY <1>1 DEF ReadForEdit, HasBranchChapter
  <2>2. BranchTypes'
    BY <2>1 DEF BranchInv, BranchTypes
  <2>3. \A a \in Branches : Kept(a)
    BY <2>1 DEF Kept
  <2>4. \A a \in Branches : edit'[a] = edit[a] \/ branchRow'[a] # "none"
    BY <2>1 DEF BranchInv, BranchTypes, Owned
  <2> QED
    BY <2>1, <2>2, <2>3, <2>4, StepKeeps
<1>2. CASE CommitEdit(b)
  <2>1. /\ edit[b] # "none"
        /\ branchChapter' = [branchChapter EXCEPT ![b] = "draft"]
        /\ branchRow' = [branchRow EXCEPT
                           ![b] = IF edit[b] = "draft" THEN branchRow[b] ELSE "draft"]
        /\ revived' = (revived \/ (branchRow[b] = "archived" /\ edit[b] # "draft"))
        /\ edit' = [edit EXCEPT ![b] = "none"] /\ branchJob' = branchJob
    BY <1>2 DEF CommitEdit
  <2>2. branchRow[b] # "none"
    BY <2>1 DEF BranchInv, Owned
  <2>3. BranchTypes'
    BY <2>1 DEF BranchInv, BranchTypes, RowStates, ActiveStatuses
  <2>4. \A a \in Branches : a # b => /\ branchRow'[a] = branchRow[a] /\ edit'[a] = edit[a]
                                     /\ branchChapter'[a] = branchChapter[a]
    BY <2>1 DEF BranchInv, BranchTypes
  <2>5. branchRow'[b] = (IF edit[b] = "draft" THEN branchRow[b] ELSE "draft")
        /\ edit'[b] = "none"
    BY <2>1 DEF BranchInv, BranchTypes
  <2>6. branchRow[b] \in ActiveStatuses \/ branchRow[b] = "archived"
    BY <2>2 DEF BranchInv, BranchTypes, RowStates
  <2>7. Kept(b)
    <3>1. branchRow'[b] # "none"
      BY <2>2, <2>5
    <3>2. branchRow'[b] # branchRow[b] => edit[b] # "draft"
      BY <2>5
    <3>3. branchRow[b] = "archived" /\ edit[b] # "draft" => revived'
      BY <2>1
    <3> QED
      BY <2>6, <3>1, <3>2, <3>3 DEF Kept
  <2>8. \A a \in Branches : Kept(a)
    BY <2>4, <2>7 DEF Kept
  <2>9. revived => revived'
    BY <2>1
  <2> QED
    BY <2>1, <2>2, <2>3, <2>4, <2>5, <2>8, <2>9, StepKeeps DEF Kept
<1> QED
  BY <1>1, <1>2

LEMMA ArchiveStep ==
    ASSUME BranchInv, NEW b \in Branches, ArchiveBranchRow(b)
    PROVE  BranchInv'
<1> DEFINE active == {j \in JobsOf(b) : Status(j) \in {"PENDING", "RUNNING"}}
<1>1. PICK here \in SUBSET active :
          branchJob' = [j \in BranchJobs |->
             IF j \notin active THEN branchJob[j]
             ELSE [branchJob[j] EXCEPT !.st = "CANCELLED",
                                       !.pc = IF j \in here THEN "none" ELSE @]]
  BY DEF ArchiveBranchRow
<1>2. /\ branchRow[b] # "none" /\ branchRow' = [branchRow EXCEPT ![b] = "archived"]
      /\ edit' = edit /\ revived' = revived
      /\ branchChapter' = [branchChapter EXCEPT
                             ![b] = IF active # {} THEN StoppedChapter(b) ELSE branchChapter[b]]
  BY DEF ArchiveBranchRow
<1>3. \A j \in BranchJobs :
        /\ branchJob'[j] \in JobRow
        /\ \/ branchJob'[j] = branchJob[j]
           \/ /\ Status(j) # "NEW" /\ branchJob'[j].of = branchJob[j].of
              /\ branchJob'[j].st # "NEW"
  <2> SUFFICES ASSUME NEW j \in BranchJobs
               PROVE  /\ branchJob'[j] \in JobRow
                      /\ \/ branchJob'[j] = branchJob[j]
                         \/ /\ Status(j) # "NEW" /\ branchJob'[j].of = branchJob[j].of
                            /\ branchJob'[j].st # "NEW"
    OBVIOUS
  <2>1. branchJob[j] \in JobRow
    BY DEF BranchInv, BranchTypes
  <2>2. CASE j \notin active
    BY <1>1, <2>1, <2>2
  <2>3. CASE j \in active
    <3>1. PICK pc : pc = (IF j \in here THEN "none" ELSE branchJob[j].pc)
      OBVIOUS
    <3>2. branchJob'[j] = [branchJob[j] EXCEPT !.st = "CANCELLED", !.pc = pc]
      BY <1>1, <2>3, <3>1
    <3>3. pc \in Steps
      BY <2>1, <3>1 DEF JobRow, Steps
    <3>4. Status(j) # "NEW"
      BY <2>3 DEF Status
    <3> QED BY <2>1, <3>2, <3>3, <3>4 DEF JobRow
  <2> QED BY <2>2, <2>3
<1>4. branchJob' \in [BranchJobs -> JobRow]
  BY <1>1, <1>3
<1> HIDE DEF active
<1>5. BranchTypes'
  BY <1>2, <1>4 DEF BranchInv, BranchTypes, RowStates, StoppedChapter
<1>6. \A a \in Branches : branchRow'[a] = IF a = b THEN "archived" ELSE branchRow[a]
  BY <1>2 DEF BranchInv, BranchTypes
<1>7. \A a \in Branches : branchChapter'[a] = branchChapter[a] \/ branchRow'[a] # "none"
  BY <1>2, <1>6 DEF BranchInv, BranchTypes
<1>8. \A a \in Branches : Kept(a)
  BY <1>2, <1>6 DEF Kept, ActiveStatuses
<1> QED
  BY <1>2, <1>3, <1>5, <1>7, <1>8, StepKeeps

LEMMA StopStep ==
    ASSUME BranchInv, NEW j \in BranchJobs, Status(j) # "NEW",
           NEW st \in {"FAILED", "CANCELLED"}, NEW pc \in Steps, StopBranchJob(j, st, pc)
    PROVE  BranchInv'
<1>1. PICK b \in Branches : b = branchJob[j].of /\ branchRow[b] # "none"
  BY DEF BranchInv, JobKnown
<1>2. /\ branchJob' = [branchJob EXCEPT ![j].st = st, ![j].pc = pc]
      /\ branchRow' = [branchRow EXCEPT ![b] = Stopped(b)]
      /\ branchChapter' = [branchChapter EXCEPT ![b] = StoppedChapter(b)]
      /\ edit' = edit /\ revived' = revived
  BY <1>1 DEF StopBranchJob
<1>3. Stopped(b) \in {"archived", "draft"}
      /\ (Stopped(b) = "draft" => branchRow[b] \in ActiveStatuses)
  BY <1>1 DEF Stopped, BranchInv, BranchTypes, RowStates
<1>4. /\ branchJob' \in [BranchJobs -> JobRow]
      /\ branchJob'[j].st = st /\ branchJob'[j].of = branchJob[j].of
      /\ \A k \in BranchJobs : k # j => branchJob'[k] = branchJob[k]
  BY <1>2, JobMoved DEF BranchInv
<1>5. BranchTypes'
  BY <1>2, <1>3, <1>4 DEF BranchInv, BranchTypes, RowStates, ActiveStatuses, StoppedChapter
<1>6. \A a \in Branches : branchRow'[a] = IF a = b THEN Stopped(b) ELSE branchRow[a]
  BY <1>2 DEF BranchInv, BranchTypes
<1>7. \A a \in Branches : Kept(a)
  BY <1>1, <1>3, <1>6 DEF Kept, ActiveStatuses
<1>8. \A a \in Branches : branchChapter'[a] = branchChapter[a] \/ branchRow'[a] # "none"
  BY <1>1, <1>2, <1>3, <1>6 DEF BranchInv, BranchTypes
<1> QED
  BY <1>2, <1>4, <1>5, <1>7, <1>8, StepKeeps

\* A step of a job or of its handler that leaves the branches alone: the job
\* stays with its branch.
Moved(j) ==
    /\ branchJob' \in [BranchJobs -> JobRow]
    /\ branchJob'[j].st # "NEW" /\ branchJob'[j].of = branchJob[j].of
    /\ \A k \in BranchJobs : k # j => branchJob'[k] = branchJob[k]

LEMMA RowMoved ==
    ASSUME BranchTypes, NEW j \in BranchJobs, NEW x \in JobRow,
           x.st # "NEW", x.of = branchJob[j].of, branchJob' = [branchJob EXCEPT ![j] = x]
    PROVE  Moved(j)
  BY DEF BranchTypes, Moved

LEMMA RaisedMoves ==
    ASSUME BranchTypes, NEW j \in BranchJobs, Status(j) # "NEW", branchJob' = Raised(j)
    PROVE  Moved(j)
<1>1. branchJob[j] \in JobRow /\ branchJob \in [BranchJobs -> JobRow]
  BY DEF BranchTypes
<1>2. PICK st : st = (IF branchJob[j].st = "RUNNING" THEN "FAILED" ELSE branchJob[j].st)
  OBVIOUS
<1>3. PICK x : x = [branchJob[j] EXCEPT !.pc = "none", !.st = st]
  OBVIOUS
<1>4. x \in JobRow /\ x.st # "NEW" /\ x.of = branchJob[j].of
  BY <1>1, <1>2, <1>3 DEF JobRow, Steps, Status
<1>5. [branchJob[j] EXCEPT !.pc = "none"].st = branchJob[j].st
  BY <1>1 DEF JobRow
<1>6. branchJob' = [branchJob EXCEPT ![j] = x]
  BY <1>1, <1>2, <1>3, <1>5 DEF Raised
<1> QED
  BY <1>4, <1>6, RowMoved

LEMMA MovedKeeps ==
    ASSUME BranchInv, NEW j \in BranchJobs, Status(j) # "NEW", Moved(j),
           branchRow' = branchRow, edit' = edit, revived' = revived,
           \/ branchChapter' = branchChapter
           \/ branchChapter' = [branchChapter EXCEPT ![branchJob[j].of] = "generating"]
    PROVE  BranchInv'
<1>1. PICK b \in Branches : b = branchJob[j].of /\ branchRow[b] # "none"
  BY DEF BranchInv, JobKnown
<1>2. BranchTypes'
  BY <1>1 DEF BranchInv, BranchTypes, Moved
<1>3. \A a \in Branches : Kept(a)
  BY DEF Kept
<1>4. \A a \in Branches : branchChapter'[a] = branchChapter[a] \/ branchRow'[a] # "none"
  BY <1>1 DEF BranchInv, BranchTypes
<1> QED
  BY <1>2, <1>3, <1>4, StepKeeps DEF Moved

LEMMA HandlerStep ==
    ASSUME BranchInv, NEW j \in BranchJobs,
           \/ RetryBranchJob(j) \/ BranchWorkerDies(j) \/ ClaimBranchJob(j)
           \/ BeginWalk(j) \/ CheckWalk(j) \/ \E kind \in {"completed", "stopped"} : WalkEnds(j, kind)
    PROVE  BranchInv'
<1>1. branchJob[j] \in JobRow /\ branchJob \in [BranchJobs -> JobRow] /\ JobKnown(j)
  BY DEF BranchInv, BranchTypes
<1>2. Status(j) # "NEW"
  BY <1>1 DEF JobKnown, Status, RetryBranchJob, BranchWorkerDies, ClaimBranchJob, BeginWalk,
              CheckWalk, WalkEnds
<1>3. edit' = edit /\ revived' = revived /\ branchRow' = branchRow
      /\ \/ branchChapter' = branchChapter
         \/ branchChapter' = [branchChapter EXCEPT ![branchJob[j].of] = "generating"]
  BY DEF RetryBranchJob, BranchWorkerDies, ClaimBranchJob, BeginWalk, CheckWalk, WalkEnds,
         BegunChapter
<1>4. CASE RetryBranchJob(j)
  <2>1. PICK x : x = [branchJob[j] EXCEPT !.st = "PENDING"]
    OBVIOUS
  <2>2. x \in JobRow /\ x.st # "NEW" /\ x.of = branchJob[j].of
    BY <1>1, <2>1 DEF JobRow
  <2>3. branchJob' = [branchJob EXCEPT ![j] = x]
    BY <1>4, <2>1 DEF RetryBranchJob
  <2> QED
    BY <1>2, <1>3, <2>2, <2>3, RowMoved, MovedKeeps DEF BranchInv
<1>5. ASSUME NEW pc \in Steps, branchJob' = [branchJob EXCEPT ![j].pc = pc]
      PROVE  BranchInv'
  <2>1. PICK x : x = [branchJob[j] EXCEPT !.pc = pc]
    OBVIOUS
  <2>2. x \in JobRow /\ x.st # "NEW" /\ x.of = branchJob[j].of
    BY <1>1, <1>2, <2>1 DEF JobRow, Status
  <2>3. branchJob' = [branchJob EXCEPT ![j] = x]
    BY <1>5, <2>1
  <2> QED
    BY <1>2, <1>3, <2>2, <2>3, RowMoved, MovedKeeps DEF BranchInv
<1>6. CASE ClaimBranchJob(j)
  <2>1. PICK x : x = [branchJob[j] EXCEPT !.st = "RUNNING", !.pc = "begin"]
    OBVIOUS
  <2>2. x \in JobRow /\ x.st # "NEW" /\ x.of = branchJob[j].of
    BY <1>1, <2>1 DEF JobRow, Steps
  <2>3. branchJob' = [branchJob EXCEPT ![j] = x]
    BY <1>6, <2>1 DEF ClaimBranchJob
  <2> QED
    BY <1>2, <1>3, <2>2, <2>3, RowMoved, MovedKeeps DEF BranchInv
<1>7. ASSUME branchJob' = Raised(j) PROVE BranchInv'
  BY <1>2, <1>3, <1>7, RaisedMoves, MovedKeeps DEF BranchInv
<1>8. CASE BranchWorkerDies(j)
  BY <1>5, <1>8 DEF BranchWorkerDies, Steps
<1>9. CASE BeginWalk(j)
  BY <1>5, <1>7, <1>9 DEF BeginWalk, Steps
<1>10. CASE CheckWalk(j)
  BY <1>5, <1>7, <1>10 DEF CheckWalk, Steps
<1>11. CASE \E kind \in {"completed", "stopped"} : WalkEnds(j, kind)
  BY <1>7, <1>11 DEF WalkEnds
<1> QED
  BY <1>4, <1>6, <1>8, <1>9, <1>10, <1>11

LEMMA BranchInvKept == BranchInv /\ [BranchNext]_branchVars => BranchInv'
<1> SUFFICES ASSUME BranchInv, [BranchNext]_branchVars PROVE BranchInv'
  OBVIOUS
<1>1. CASE UNCHANGED branchVars
  BY <1>1 DEF branchVars, BranchInv, BranchTypes, JobKnown, Owned, OneActive, Status
<1>2. ASSUME NEW b \in Branches, \/ CreateBranch(b) \/ GenerateBranch(b) \/ ReadForEdit(b)
                                 \/ CommitEdit(b) \/ ArchiveBranchRow(b)
      PROVE  BranchInv'
  BY <1>2, CreateStep, GenerateStep, EditStep, ArchiveStep
<1>3. ASSUME NEW j \in BranchJobs, CancelBranchJob(j) \/ RecoverBranchJob(j)
      PROVE  BranchInv'
  <2>1. branchJob[j].pc \in Steps /\ "none" \in Steps
    BY DEF BranchInv, BranchTypes, JobRow, Steps
  <2>2. CASE CancelBranchJob(j)
    BY <2>1, <2>2, StopStep DEF CancelBranchJob
  <2>3. CASE RecoverBranchJob(j)
    BY <2>1, <2>3, StopStep DEF RecoverBranchJob
  <2> QED
    BY <1>3, <2>2, <2>3
<1> QED
  BY <1>1, <1>2, <1>3, HandlerStep DEF BranchNext

THEOREM BranchInvariant == BranchSpec => []BranchInv
  BY BranchInvStarts, BranchInvKept, PTL DEF BranchSpec

-----------------------------------------------------------------------------
(* The two properties.                                                     *)

\* Whatever order the commands, the handlers, the cancels and the recoveries
\* come in, a character has at most one active branch for an arc and an anchor,
\* unless an edit brought an archived one back (create_character_branch,
\* transition_branch_status, stop_character_branch_job).
THEOREM OneActiveBranch == BranchSpec => []ActiveBranchIsUnique
<1>1. BranchInv => ActiveBranchIsUnique
  <2> SUFFICES ASSUME BranchInv, ~revived
               PROVE  Cardinality({b \in Branches : branchRow[b] \in ActiveStatuses}) <= 1
    BY DEF ActiveBranchIsUnique
  <2>1. PICK A : A = {b \in Branches : branchRow[b] \in ActiveStatuses}
    OBVIOUS
  <2>2. \A a, b \in A : a = b
    BY <2>1 DEF BranchInv, OneActive
  <2>3. ASSUME A = {} PROVE Cardinality(A) <= 1
    <3>1. Cardinality({}) = 0
      BY FS_EmptySet
    <3> QED
      BY <2>3, <3>1
  <2>4. ASSUME NEW a \in A PROVE Cardinality(A) <= 1
    <3>1. A = {a}
      BY <2>2
    <3>2. Cardinality({a}) = 1
      BY FS_Singleton
    <3> QED
      BY <3>1, <3>2
  <2>5. Cardinality(A) <= 1
    BY <2>3, <2>4
  <2> QED
    BY <2>1, <2>5
<1> QED
  BY <1>1, BranchInvariant, PTL

\* No job brings an archived branch back: not one retried after the archive, not
\* a walk that goes on, not a late recovery; only an edit that had read the
\* branch before does (archive_character_branch, stop_character_branch_job).
THEOREM ArchivedBranchStays == BranchSpec => ArchivedIsFinal
<1> DEFINE Final == \A b \in Branches :
              branchRow[b] = "archived" => branchRow'[b] = "archived" \/ edit[b] # "none"
<1>1. BranchInv /\ [BranchNext]_branchVars => [Final]_branchVars
  <2> SUFFICES ASSUME BranchInv, BranchNext, NEW b \in Branches, branchRow[b] = "archived",
                      edit[b] = "none"
               PROVE  branchRow'[b] = "archived"
    OBVIOUS
  <2>1. branchRow \in [Branches -> RowStates]
    BY DEF BranchInv, BranchTypes
  <2>2. ASSUME NEW a \in Branches, \/ CreateBranch(a) \/ GenerateBranch(a) \/ ReadForEdit(a)
                                   \/ CommitEdit(a) \/ ArchiveBranchRow(a)
        PROVE  branchRow'[b] = "archived"
    BY <2>1, <2>2 DEF CreateBranch, GenerateBranch, ReadForEdit, CommitEdit, ArchiveBranchRow
  <2>3. ASSUME NEW j \in BranchJobs, NEW st, NEW pc, StopBranchJob(j, st, pc)
        PROVE  branchRow'[b] = "archived"
    BY <2>1, <2>3 DEF StopBranchJob, Stopped
  <2>4. ASSUME NEW j \in BranchJobs, CancelBranchJob(j) \/ RecoverBranchJob(j)
        PROVE  branchRow'[b] = "archived"
    BY <2>3, <2>4 DEF CancelBranchJob, RecoverBranchJob
  <2>5. ASSUME NEW j \in BranchJobs,
               \/ RetryBranchJob(j) \/ BranchWorkerDies(j) \/ ClaimBranchJob(j)
               \/ BeginWalk(j) \/ CheckWalk(j)
               \/ \E kind \in {"completed", "stopped"} : WalkEnds(j, kind)
        PROVE  branchRow' = branchRow
    BY <2>5 DEF RetryBranchJob, BranchWorkerDies, ClaimBranchJob, BeginWalk, CheckWalk, WalkEnds
  <2> QED
    BY <2>2, <2>4, <2>5 DEF BranchNext
<1> QED
  BY <1>1, BranchInvariant, PTL DEF BranchSpec, ArchivedIsFinal

-----------------------------------------------------------------------------
(* Counting up, and what Find finds.                                       *)

LEMMA LessThanPair ==
    ASSUME NEW y \in Nat, NEW x \in Nat, y < x
    PROVE  <<y, x>> \in OpToRel(<, Nat)
  <1> DEFINE p == <<y, x>>
  <1>1. p \in Nat \X Nat /\ p[1] = y /\ p[2] = x
    OBVIOUS
  <1>2. p[1] < p[2]
    BY <1>1
  <1> HIDE DEF p
  <1>3. p \in OpToRel(<, Nat)
    BY <1>1, <1>2, Zenon DEF OpToRel
  <1> QED
    BY <1>3 DEF p

LEMMA LeastOf ==
    ASSUME NEW S, S \subseteq Nat, S # {}
    PROVE  \E x \in S : \A y \in S : x <= y
  <1>1. PICK x \in S : \A y \in S : ~ (<<y, x>> \in OpToRel(<, Nat))
    BY NatLessThanWellFounded, WFMin, Zenon
  <1>2. ASSUME NEW y \in S
        PROVE  x <= y
    <2>1. x \in Nat /\ y \in Nat
      OBVIOUS
    <2>2. ~ (y < x)
      BY <1>1, <2>1, LessThanPair, Zenon
    <2> QED BY <2>1, <2>2
  <1> QED BY <1>2

\* What holds at the start, and after each number when at that number, holds at
\* all of them.
LEMMA Upwards ==
    ASSUME NEW n \in Nat, NEW S, 0 \in S,
           \A i \in 0..n : i < n /\ i \in S => i + 1 \in S
    PROVE  \A i \in 0..n : i \in S
  <1> DEFINE R == {i \in 0..n : i \notin S}
  <1>1. SUFFICES ASSUME R # {} PROVE FALSE
    OBVIOUS
  <1>2. R \subseteq Nat
    OBVIOUS
  <1>3. PICK x \in R : \A y \in R : x <= y
    <2> HIDE DEF R
    <2> QED BY <1>1, <1>2, LeastOf
  <1>4. x \in 0..n /\ x # 0 /\ x \notin S
    OBVIOUS
  <1>5. x - 1 \in 0..n /\ x - 1 < n /\ ~ (x <= x - 1)
    BY <1>4
  <1>6. x - 1 \in S
    BY <1>3, <1>5
  <1>7. (x - 1) + 1 \in S
    BY <1>5, <1>6
  <1> QED BY <1>4, <1>7

\* A finite set of numbers is bounded.
LEMMA FiniteIsBounded ==
    ASSUME NEW S, S \subseteq Nat, IsFiniteSet(S)
    PROVE  \E b \in Nat : \A x \in S : x <= b
  <1>1. PICK n \in Nat : ExistsSurjection(1..n, S)
    BY FS_NatSurjection
  <1>2. PICK f \in [1..n -> S] : \A x \in S : \E k \in 1..n : f[k] = x
    BY <1>1 DEF ExistsSurjection, Surjection
  <1> DEFINE K == {k \in 0..n : \E b \in Nat : \A j \in 1..k : f[j] <= b}
  <1>3. 0 \in K
    OBVIOUS
  <1>4. ASSUME NEW k \in 0..n, k < n, k \in K
        PROVE  k + 1 \in K
    <2>1. PICK b \in Nat : \A j \in 1..k : f[j] <= b
      BY <1>4
    <2>6. k \in Nat /\ k + 1 \in 1..n
      BY <1>4
    <2>2. f[k + 1] \in Nat
      BY <2>6
    <2>3. PICK a \in Nat : b <= a /\ f[k + 1] <= a
      <3>1. CASE b <= f[k + 1]
        BY <2>2, <3>1
      <3>2. CASE ~ (b <= f[k + 1])
        BY <2>2, <3>2
      <3> QED BY <3>1, <3>2
    <2>4. ASSUME NEW j \in 1..(k + 1)
          PROVE  f[j] <= a
      <3>1. CASE j = k + 1
        BY <2>3, <3>1
      <3>2. CASE j # k + 1
        <4>1. j \in 1..k /\ j \in 1..n
          BY <1>4, <3>2
        <4>2. f[j] <= b /\ f[j] \in Nat
          BY <2>1, <4>1
        <4> QED BY <2>3, <4>2
      <3> QED BY <3>1, <3>2
    <2>5. k + 1 \in 0..n
      BY <1>4
    <2> QED BY <2>4, <2>5
  <1>5. n \in K
    <2> HIDE DEF K
    <2>1. \A i \in 0..n : i \in K
      BY <1>3, <1>4, Upwards
    <2> QED BY <2>1
  <1>6. PICK b \in Nat : \A j \in 1..n : f[j] <= b
    BY <1>5
  <1> QED BY <1>2, <1>6

LEMMA GreatestOf ==
    ASSUME NEW S, S \subseteq Nat, S # {}, NEW n \in Nat, \A x \in S : x <= n
    PROVE  \E m \in S : \A x \in S : x <= m
  <1> DEFINE T == {n - x : x \in S}
  <1>1. T \subseteq Nat /\ T # {}
    <2>1. ASSUME NEW x \in S PROVE n - x \in Nat
      <3>1. x \in Nat /\ x <= n
        OBVIOUS
      <3> QED BY <3>1
    <2> QED BY <2>1
  <1>2. PICK d \in T : \A y \in T : d <= y
    <2> HIDE DEF T
    <2> QED BY <1>1, LeastOf
  <1>3. PICK m \in S : d = n - m
    OBVIOUS
  <1>4. ASSUME NEW x \in S
        PROVE  x <= m
    <2>1. n - x \in T
      OBVIOUS
    <2>2. n - m <= n - x
      BY <1>2, <1>3, <2>1
    <2>3. x \in Nat /\ m \in Nat
      OBVIOUS
    <2> QED BY <2>2, <2>3
  <1> QED BY <1>4

\* A set of numbers has its latest; that is all the model asks of Latest.
LEMMA LatestOf ==
    ASSUME NEW S, S \subseteq Nat, S # {}, IsFiniteSet(S)
    PROVE  Latest(S) \in S /\ \A x \in S : x <= Latest(S)
  <1>1. PICK b \in Nat : \A x \in S : x <= b
    BY FiniteIsBounded
  <1>2. \E m \in S : \A x \in S : x <= m
    BY <1>1, GreatestOf
  <1> QED BY <1>2 DEF Latest

\* What Find finds is a card of that name, and it finds none only if there is
\* none.
LEMMA FindFinds ==
    ASSUME NEW view, NEW n, NEW high \in BOOLEAN
    PROVE  /\ Holders(view, n) = {} => Find(view, n, high) = 0
           /\ Holders(view, n) # {} =>
                /\ Find(view, n, high) \in Holders(view, n)
                /\ Find(view, n, high) \in Cards
                /\ \A d \in Holders(view, n) :
                      IF high THEN d <= Find(view, n, high) ELSE Find(view, n, high) <= d
           /\ Find(view, n, high) = 0 <=> Holders(view, n) = {}
  <1> DEFINE H == Holders(view, n)
  <1>1. H \subseteq Cards /\ H \subseteq Nat /\ IsFiniteSet(H) /\ 0 \notin Cards
    BY CardsAssumption, FS_Subset DEF Holders
  <1>2. Find(view, n, high) = IF H = {} THEN 0
          ELSE CHOOSE c \in H : \A d \in H : IF high THEN d <= c ELSE c <= d
    BY DEF Find
  <1> HIDE DEF H
  <1>3. ASSUME H # {}
        PROVE  \E c \in H : \A d \in H : IF high THEN d <= c ELSE c <= d
    <2>1. PICK b \in Nat : \A x \in H : x <= b
      BY <1>1, FiniteIsBounded
    <2>2. \E m \in H : \A x \in H : x <= m
      BY <1>1, <1>3, <2>1, GreatestOf
    <2>3. \E m \in H : \A x \in H : m <= x
      BY <1>1, <1>3, LeastOf
    <2>4. CASE high
      BY <2>2, <2>4
    <2>5. CASE ~high
      BY <2>3, <2>5
    <2> QED BY <2>4, <2>5
  <1>4. H # {} => /\ Find(view, n, high) \in H
                  /\ \A d \in H : IF high THEN d <= Find(view, n, high)
                                  ELSE Find(view, n, high) <= d
    BY <1>2, <1>3
  <1>5. H = {} => Find(view, n, high) = 0
    BY <1>2
  <1> QED
    BY <1>1, <1>4, <1>5 DEF H

\* Nothing but the holders of the name matters.
LEMMA SameHoldersSameFind ==
    ASSUME NEW v, NEW w, NEW n, NEW high, Holders(v, n) = Holders(w, n)
    PROVE  Find(v, n, high) = Find(w, n, high)
  BY DEF Find

\* A name that both orders resolve to one card is that card's alone.
LEMMA FoundByBothIsAlone ==
    ASSUME NEW view, NEW n, NEW t \in Cards,
           Find(view, n, TRUE) = t, Find(view, n, FALSE) = t
    PROVE  Holders(view, n) = {t}
  <1>1. 0 \notin Cards /\ Cards \subseteq Nat
    BY CardsAssumption
  <1>2. Holders(view, n) # {}
    BY <1>1, FindFinds
  <1>3. t \in Holders(view, n) /\ \A d \in Holders(view, n) : d <= t /\ t <= d
    BY <1>2, FindFinds
  <1>4. Holders(view, n) \subseteq Cards
    BY DEF Holders
  <1>5. \A d \in Holders(view, n) : d = t
    BY <1>1, <1>3, <1>4
  <1> QED BY <1>3, <1>5

-----------------------------------------------------------------------------
(* Types.                                                                  *)

Told == CardStates \cup {Blank, NoState}
CardRecords ==
    {r \in [name : CardNames \cup {NoName}, aliases : SUBSET CardNames, state : Told,
            last : 0..CardChapters, links : SUBSET CardNames] :
        r = Unborn \/ r.name \in CardNames}
History == [Cards -> [1..CardChapters -> Told]]
Tables == [card : [Cards -> CardRecords], row : History,
           link : [Cards -> [Cards -> Nat]],
           digest : [Cards -> SUBSET (Cards \X (CardNames \cup {NoName}))],
           past : [Cards -> SUBSET CardRecords]]
Sessions == [db : Tables, mem : [Cards -> CardRecords], born : SUBSET Cards,
             ok : BOOLEAN, seen : History, origin : [Cards -> Nat]]

LEMMA UnbornIsRecord == Unborn \in CardRecords
  BY CardsAssumption DEF CardRecords, Unborn, Told

LEMMA NameTellsUnborn ==
    ASSUME NEW r \in CardRecords
    PROVE  r = Unborn <=> r.name = NoName
  BY CardsAssumption DEF CardRecords, Unborn

\* A written column that equals the one in memory is left as it is.
LEMMA WrittenColumns ==
    ASSUME NEW old \in CardRecords, NEW new \in CardRecords, NEW cur \in CardRecords,
           new.name # NoName, cur.name # NoName
    PROVE  LET w == [f \in DOMAIN new |-> IF new[f] # old[f] THEN new[f] ELSE cur[f]]
           IN /\ w \in CardRecords
              /\ w.name = IF new.name # old.name THEN new.name ELSE cur.name
              /\ w.aliases = IF new.aliases # old.aliases THEN new.aliases ELSE cur.aliases
              /\ w.state = IF new.state # old.state THEN new.state ELSE cur.state
              /\ w.last = IF new.last # old.last THEN new.last ELSE cur.last
              /\ w.links = IF new.links # old.links THEN new.links ELSE cur.links
              /\ new = old => w = cur
              /\ old = cur => w = new
  <1> DEFINE w == [f \in DOMAIN new |-> IF new[f] # old[f] THEN new[f] ELSE cur[f]]
             D == {"name", "aliases", "state", "last", "links"}
             R == [name : CardNames \cup {NoName}, aliases : SUBSET CardNames,
                   state : Told, last : 0..CardChapters, links : SUBSET CardNames]
  <1>1. old \in R /\ new \in R /\ cur \in R
    BY DEF CardRecords
  <1>2. DOMAIN new = D /\ DOMAIN cur = D /\ DOMAIN old = D
    BY <1>1
  <1>3. w = [f \in D |-> IF new[f] # old[f] THEN new[f] ELSE cur[f]]
    BY <1>2
  <1>4. /\ w.name = IF new.name # old.name THEN new.name ELSE cur.name
        /\ w.aliases = IF new.aliases # old.aliases THEN new.aliases ELSE cur.aliases
        /\ w.state = IF new.state # old.state THEN new.state ELSE cur.state
        /\ w.last = IF new.last # old.last THEN new.last ELSE cur.last
        /\ w.links = IF new.links # old.links THEN new.links ELSE cur.links
    BY <1>3
  <1>5. w = [name |-> w.name, aliases |-> w.aliases, state |-> w.state,
             last |-> w.last, links |-> w.links]
    BY <1>3
  <1>6. w \in R
    <2>1. /\ w.name \in CardNames \cup {NoName} /\ w.aliases \in SUBSET CardNames
          /\ w.state \in Told /\ w.last \in 0..CardChapters
          /\ w.links \in SUBSET CardNames
      BY <1>1, <1>4
    <2> HIDE DEF w
    <2> QED BY <1>5, <2>1
  <1>7. new.name \in CardNames /\ cur.name \in CardNames
    BY DEF CardRecords, Unborn
  <1>8. w \in CardRecords
    BY <1>4, <1>6, <1>7 DEF CardRecords
  <1>9. new = old => w = cur
    <2>1. ASSUME new = old PROVE w = [f \in D |-> cur[f]]
      BY <1>3, <2>1
    <2>2. cur = [f \in D |-> cur[f]]
      BY <1>1
    <2> QED BY <2>1, <2>2
  <1>10. old = cur => w = new
    <2>1. ASSUME old = cur PROVE w = [f \in D |-> new[f]]
      BY <1>3, <2>1
    <2>2. new = [f \in D |-> new[f]]
      BY <1>1
    <2> QED BY <2>1, <2>2
  <1> QED BY <1>4, <1>8, <1>9, <1>10

-----------------------------------------------------------------------------
(* The steps of a session.                                                 *)

LEMMA ViewIsRecords ==
    ASSUME NEW s \in Sessions
    PROVE  View(s) \in [Cards -> CardRecords]
  <1>1. s.db.card \in [Cards -> CardRecords] /\ s.mem \in [Cards -> CardRecords]
    BY DEF Sessions, Tables
  <1> QED BY <1>1 DEF View

\* What is in memory and in the tables of a session, links and digests apart.
Alike(s, a) ==
    /\ a.db.card = s.db.card /\ a.db.row = s.db.row /\ a.db.past = s.db.past
    /\ a.mem = s.mem /\ a.born = s.born /\ a.ok = s.ok
    /\ a.seen = s.seen /\ a.origin = s.origin

LEMMA LinkedKeeps ==
    ASSUME NEW s \in Sessions, NEW C, NEW ch \in Nat, NEW high
    PROVE  Linked(s, C, ch, high) \in Sessions /\ Alike(s, Linked(s, C, ch, high))
  <1> DEFINE view == View(s)
             wanted(c) == {Find(view, n, high) : n \in view[c].links} \ {0, c}
             L == [c \in Cards |-> IF c \notin C THEN s.db.link[c]
                   ELSE [t \in Cards |-> IF t \notin wanted(c) THEN 0
                          ELSE IF s.db.link[c][t] # 0 THEN s.db.link[c][t] ELSE ch]]
  <1>1. s.db \in Tables /\ s.db.link \in [Cards -> [Cards -> Nat]]
    BY DEF Sessions, Tables
  <1>2. Linked(s, C, ch, high) = [s EXCEPT !.db.link = L]
    BY DEF Linked
  <1>3. L \in [Cards -> [Cards -> Nat]]
    <2> HIDE DEF wanted
    <2> QED BY <1>1
  <1> HIDE DEF L
  <1>4. [s EXCEPT !.db.link = L] \in Sessions
    BY <1>3 DEF Sessions, Tables
  <1>5. Alike(s, [s EXCEPT !.db.link = L])
    BY <1>1 DEF Alike, Sessions, Tables
  <1> QED BY <1>2, <1>4, <1>5

LEMMA DigestedKeeps ==
    ASSUME NEW s \in Sessions, NEW C
    PROVE  /\ Digested(s, C) \in Sessions /\ Alike(s, Digested(s, C))
           /\ Digested(s, C).db.link = s.db.link
  <1> DEFINE D == [c \in Cards |-> IF c \notin C THEN s.db.digest[c]
                   ELSE {<<t, s.db.card[t].name>> : t \in {u \in Cards : s.db.link[c][u] # 0}}]
  <1>1. /\ s.db \in Tables
        /\ s.db.digest \in [Cards -> SUBSET (Cards \X (CardNames \cup {NoName}))]
        /\ s.db.card \in [Cards -> CardRecords]
    BY DEF Sessions, Tables
  <1>2. Digested(s, C) = [s EXCEPT !.db.digest = D]
    BY DEF Digested
  <1>3. \A t \in Cards : s.db.card[t].name \in CardNames \cup {NoName}
    BY <1>1 DEF CardRecords
  <1>4. D \in [Cards -> SUBSET (Cards \X (CardNames \cup {NoName}))]
    BY <1>1, <1>3
  <1> HIDE DEF D
  <1>5. [s EXCEPT !.db.digest = D] \in Sessions
    BY <1>4 DEF Sessions, Tables
  <1>6. /\ Alike(s, [s EXCEPT !.db.digest = D])
        /\ [s EXCEPT !.db.digest = D].db.link = s.db.link
    BY <1>1 DEF Alike, Sessions, Tables
  <1> QED BY <1>2, <1>5, <1>6

LEMMA SettledKeeps ==
    ASSUME NEW s \in Sessions, NEW C, NEW ch \in Nat, NEW high
    PROVE  Settled(s, C, ch, high) \in Sessions /\ Alike(s, Settled(s, C, ch, high))
  <1> DEFINE l == Linked(s, C, ch, high)
  <1>1. l \in Sessions /\ Alike(s, l)
    BY LinkedKeeps
  <1>2. Settled(s, C, ch, high) = Digested(l, C)
    BY DEF Settled
  <1> HIDE DEF l
  <1>3. Digested(l, C) \in Sessions /\ Alike(l, Digested(l, C))
    BY <1>1, DigestedKeeps
  <1> QED BY <1>1, <1>2, <1>3 DEF Alike

\* What a card becomes when it is written: the columns of old that new changes,
\* the others as they are in cur.
Columns(w, old, new, cur) ==
    /\ w \in CardRecords
    /\ w.name = IF new.name # old.name THEN new.name ELSE cur.name
    /\ w.aliases = IF new.aliases # old.aliases THEN new.aliases ELSE cur.aliases
    /\ w.state = IF new.state # old.state THEN new.state ELSE cur.state
    /\ w.last = IF new.last # old.last THEN new.last ELSE cur.last
    /\ w.links = IF new.links # old.links THEN new.links ELSE cur.links
    /\ new = old => w = cur
    /\ old = cur => w = new

LEMMA WrittenCard ==
    ASSUME NEW s \in Sessions, NEW c \in Cards, NEW new \in CardRecords,
           new.name # NoName, s.db.card[c].name # NoName
    PROVE  \E w \in CardRecords :
             /\ Columns(w, View(s)[c], new, s.db.card[c])
             /\ Written(s, c, new) = [s EXCEPT !.mem[c] = new, !.db.card[c] = w]
             /\ Written(s, c, new) \in Sessions
  <1> DEFINE old == View(s)[c]
             cur == s.db.card[c]
             w == [f \in DOMAIN new |-> IF new[f] # old[f] THEN new[f] ELSE cur[f]]
  <1>1. /\ s.db.card \in [Cards -> CardRecords] /\ s.mem \in [Cards -> CardRecords]
        /\ s.db \in Tables
    BY DEF Sessions, Tables
  <1>2. old \in CardRecords /\ cur \in CardRecords
    BY <1>1, ViewIsRecords
  <1>3. Written(s, c, new) = [s EXCEPT !.mem[c] = new, !.db.card[c] = w]
    BY <1>1 DEF Written
  <1>4. Columns(w, old, new, cur)
    <2> HIDE DEF old, cur
    <2>1. cur.name # NoName
      BY DEF cur
    <2> QED BY <1>2, <2>1, WrittenColumns DEF Columns
  <1> HIDE DEF w, old, cur
  <1>5. w \in CardRecords
    BY <1>4 DEF Columns
  <1>6. [s EXCEPT !.mem[c] = new, !.db.card[c] = w] \in Sessions
    BY <1>1, <1>5 DEF Sessions, Tables
  <1>7. Written(s, c, new) \in Sessions
    BY <1>3, <1>6
  <1> QED BY <1>3, <1>4, <1>5, <1>7 DEF old, cur

\* A card written over, with its payload kept; a card written as it is; a row.
Rewritten(s, a, c, new) ==
    /\ \E w \in CardRecords : /\ Columns(w, View(s)[c], new, s.db.card[c])
                              /\ a.db.card = [s.db.card EXCEPT ![c] = w]
    /\ a.mem = [s.mem EXCEPT ![c] = new]
    /\ a.db.row = s.db.row /\ a.born = s.born
    /\ a.seen = s.seen /\ a.origin = s.origin
    /\ \A d \in Cards : \A p \in a.db.past[d] : p \in s.db.past[d] \/ p = View(s)[c]
Placed(s, a, c, new) ==
    /\ a.db.card = [s.db.card EXCEPT ![c] = new] /\ a.mem = [s.mem EXCEPT ![c] = new]
    /\ a.db.row = s.db.row /\ a.db.past = s.db.past /\ a.born = s.born
    /\ a.seen = s.seen /\ a.origin = s.origin
RowKept(s, a, c, ch, state) ==
    /\ a.db.card = s.db.card /\ a.mem = s.mem
    /\ a.db.row = IF StateAt(s.db, c, ch - 1) = state THEN s.db.row
                  ELSE [s.db.row EXCEPT ![c][ch] = state]
    /\ a.db.past = s.db.past /\ a.born = s.born
    /\ a.seen = s.seen /\ a.origin = s.origin

\* update_character_card writes the card, and remembers what was known of it.
LEMMA UpdatedCard ==
    ASSUME NEW s \in Sessions, NEW c \in Cards, NEW new \in CardRecords,
           new.name # NoName, s.db.card[c].name # NoName, NEW ch \in Nat, NEW high,
           NEW a, a = Updated(s, c, new, ch, high)
    PROVE  a \in Sessions /\ Rewritten(s, a, c, new)
  <1> DEFINE old == View(s)[c]
             kept == IF new = old THEN s ELSE [s EXCEPT !.db.past[c] = @ \cup {old}]
             written == Written(kept, c, new)
  <1>1. /\ s.db \in Tables /\ s.db.past \in [Cards -> SUBSET CardRecords]
        /\ old \in CardRecords
    BY ViewIsRecords DEF Sessions, Tables
  <1>2. kept \in Sessions
    <2>1. [s EXCEPT !.db.past[c] = @ \cup {old}] \in Sessions
      <3> HIDE DEF old
      <3> QED BY <1>1 DEF Sessions, Tables
    <2> QED BY <2>1
  <1>3. /\ kept.db.card = s.db.card /\ kept.db.row = s.db.row
        /\ kept.mem = s.mem /\ kept.born = s.born
        /\ kept.seen = s.seen /\ kept.origin = s.origin
        /\ \A d \in Cards : \A p \in kept.db.past[d] : p \in s.db.past[d] \/ p = old
    <2> HIDE DEF old
    <2> QED BY <1>1 DEF Sessions, Tables
  <1>4. View(kept)[c] = old
    BY <1>3 DEF View
  <1>5. a = Settled(written, {c}, ch, high)
    BY DEF Updated
  <1> HIDE DEF kept, old
  <1>6. PICK w \in CardRecords :
          /\ Columns(w, old, new, kept.db.card[c])
          /\ written = [kept EXCEPT !.mem[c] = new, !.db.card[c] = w]
          /\ written \in Sessions
    BY <1>2, <1>3, <1>4, WrittenCard
  <1>7. /\ written.db.card = [s.db.card EXCEPT ![c] = w]
        /\ written.mem = [s.mem EXCEPT ![c] = new]
        /\ written.db.row = s.db.row /\ written.born = s.born
        /\ written.seen = s.seen /\ written.origin = s.origin
        /\ written.db.past = kept.db.past
    <2>1. kept.db \in Tables
      BY <1>2 DEF Sessions
    <2> HIDE DEF written
    <2> QED BY <1>2, <1>3, <1>6, <2>1 DEF Sessions, Tables
  <1> HIDE DEF written
  <1>8. a \in Sessions /\ Alike(written, a)
    BY <1>5, <1>6, SettledKeeps
  <1>9. \E x \in CardRecords : /\ Columns(x, old, new, s.db.card[c])
                               /\ a.db.card = [s.db.card EXCEPT ![c] = x]
    BY <1>3, <1>6, <1>7, <1>8 DEF Alike
  <1>10. \A d \in Cards : \A p \in a.db.past[d] : p \in s.db.past[d] \/ p = old
    BY <1>3, <1>7, <1>8 DEF Alike
  <1> QED BY <1>7, <1>8, <1>9, <1>10 DEF Alike, old, Rewritten

\* create_character_card writes the new card.
LEMMA CreatedCard ==
    ASSUME NEW s \in Sessions, NEW c \in Cards, NEW new \in CardRecords, NEW high,
           NEW a, a = Created(s, c, new, high)
    PROVE  a \in Sessions /\ Placed(s, a, c, new)
  <1> DEFINE b == [s EXCEPT !.mem[c] = new, !.db.card[c] = new]
  <1>1. s.db \in Tables
    BY DEF Sessions
  <1>2. b \in Sessions
    BY <1>1 DEF Sessions, Tables
  <1>3. /\ b.db.card = [s.db.card EXCEPT ![c] = new]
        /\ b.mem = [s.mem EXCEPT ![c] = new]
        /\ b.db.row = s.db.row /\ b.db.past = s.db.past /\ b.born = s.born
        /\ b.seen = s.seen /\ b.origin = s.origin
    BY <1>1 DEF Sessions, Tables
  <1>4. a = Settled(b, {c}, 1, high)
    BY DEF Created
  <1> HIDE DEF b
  <1>5. a \in Sessions /\ Alike(b, a)
    BY <1>2, <1>4, SettledKeeps
  <1> QED BY <1>3, <1>5 DEF Alike, Placed

\* record_chapter_state_if_changed of the state the card has in memory already:
\* the row is all it may write.
LEMMA StateKeptCard ==
    ASSUME NEW s \in Sessions, NEW c \in Cards, NEW ch \in 1..CardChapters,
           NEW state \in Told, NEW high,
           s.mem[c].name # NoName, s.db.card[c].name # NoName,
           s.mem[c].state = state, s.mem[c].last = ch,
           NEW a, a = StateKept(s, c, ch, state, high)
    PROVE  a \in Sessions /\ RowKept(s, a, c, ch, state)
  <1>1. CASE StateAt(s.db, c, ch - 1) = state
    <2>1. a = s
      BY <1>1 DEF StateKept
    <2> QED BY <1>1, <2>1 DEF RowKept
  <1>2. CASE StateAt(s.db, c, ch - 1) # state
    <2> DEFINE R == [s.db.row EXCEPT ![c][ch] = state]
               b == [s EXCEPT !.db.row[c][ch] = state]
               new == [View(s)[c] EXCEPT !.state = state, !.last = ch]
               written == Written(b, c, new)
    <2>1. /\ s.db \in Tables /\ s.db.row \in History /\ s.mem \in [Cards -> CardRecords]
          /\ s.db.card \in [Cards -> CardRecords]
      BY DEF Sessions, Tables
    <2>2. R \in History
      BY <2>1 DEF History
    <2>3. b = [s EXCEPT !.db.row = R]
      BY <2>1 DEF Sessions, Tables
    <2>4. /\ b \in Sessions
          /\ b.db.card = s.db.card /\ b.mem = s.mem /\ b.db.row = R
          /\ b.db.past = s.db.past /\ b.born = s.born
          /\ b.seen = s.seen /\ b.origin = s.origin
      <3> HIDE DEF R, b
      <3> QED BY <2>1, <2>2, <2>3 DEF Sessions, Tables
    <2>5. View(s)[c] = s.mem[c] /\ View(b)[c] = s.mem[c]
      <3>1. s.mem[c] # Unborn
        BY DEF Unborn
      <3> HIDE DEF b
      <3> QED BY <2>4, <3>1 DEF View
    <2>6. new = s.mem[c] /\ new \in CardRecords
      <3>1. s.mem[c] \in CardRecords
        BY <2>1
      <3>2. [s.mem[c] EXCEPT !.state = state, !.last = ch] = s.mem[c]
        BY <3>1 DEF CardRecords
      <3> QED BY <2>5, <3>1, <3>2
    <2>7. a = Settled(written, {c}, ch, high)
      BY <1>2 DEF StateKept
    <2> HIDE DEF b, new, R
    <2>8. PICK w \in CardRecords :
            /\ Columns(w, s.mem[c], new, s.db.card[c])
            /\ written = [b EXCEPT !.mem[c] = new, !.db.card[c] = w]
            /\ written \in Sessions
      BY <2>4, <2>5, <2>6, WrittenCard
    <2>9. w = s.db.card[c]
      BY <2>6, <2>8 DEF Columns
    <2>10. /\ written.db.card = s.db.card /\ written.mem = s.mem /\ written.db.row = R
           /\ written.db.past = s.db.past /\ written.born = s.born
           /\ written.seen = s.seen /\ written.origin = s.origin
      <3>1. [s.mem EXCEPT ![c] = new] = s.mem /\ [s.db.card EXCEPT ![c] = w] = s.db.card
        BY <2>1, <2>6, <2>9
      <3>2. b.db \in Tables
        BY <2>4 DEF Sessions
      <3> HIDE DEF written
      <3> QED BY <2>4, <2>8, <3>1, <3>2 DEF Sessions, Tables
    <2> HIDE DEF written
    <2>11. a \in Sessions /\ Alike(written, a)
      BY <2>7, <2>8, SettledKeeps
    <2> QED BY <1>2, <2>10, <2>11 DEF Alike, R, RowKept
  <1> QED BY <1>1, <1>2

-----------------------------------------------------------------------------
(* What one update of an extraction does.                                  *)

\* The rows and histories, when a state of a card is noted, and when none is.
Noted(s, a, c, ch, state) ==
    /\ a.seen = [s.seen EXCEPT ![c][ch] = state]
    /\ a.origin = [s.origin EXCEPT ![c] = ch]
    /\ a.db.row = IF StateAt(s.db, c, ch - 1) = state THEN s.db.row
                  ELSE [s.db.row EXCEPT ![c][ch] = state]
Unnoted(s, a) == a.seen = s.seen /\ a.origin = s.origin /\ a.db.row = s.db.row

\* A newcomer, and a known card under a new state.
Entered(s, a, c, u, ch) ==
    \E r \in CardRecords :
        /\ s.db.card[c] = Unborn
        /\ r.name = u.name /\ r.aliases = {} /\ r.last = ch /\ r.state \in Told \ {NoState}
        /\ a.mem = [s.mem EXCEPT ![c] = r] /\ a.db.card = [s.db.card EXCEPT ![c] = r]
        /\ a.born = s.born \cup {c}
        /\ Noted(s, a, c, ch, r.state)
Revised(s, a, c, ch) ==
    \E new, w \in CardRecords :
        /\ new.name = s.mem[c].name /\ new.aliases = s.mem[c].aliases /\ new.last = ch
        /\ Columns(w, s.mem[c], new, s.db.card[c])
        /\ a.mem = [s.mem EXCEPT ![c] = new] /\ a.db.card = [s.db.card EXCEPT ![c] = w]
        /\ a.born = s.born
        /\ Unnoted(s, a) \/ \E state \in Told \ {NoState} : Noted(s, a, c, ch, state)
Idled(s, a) ==
    /\ a.mem = s.mem /\ a.db.card = s.db.card /\ a.born = s.born /\ Unnoted(s, a)

\* A card in memory is in the tables.
Firm(s) == \A c \in Cards : s.mem[c].name # NoName => s.db.card[c].name # NoName
PastIsNamed(db) == \A c \in Cards : \A p \in db.past[c] : p.name # NoName

\* The records Applied makes: a newcomer's, and a known card's under an update.
IsNewcomer(r, u, ch) ==
    r = [Unborn EXCEPT !.name = u.name, !.last = ch, !.links = Relations(u),
                       !.state = IF u.says = Same THEN Blank ELSE u.says]
IsNext(next, old, u) == next = IF u.says = Same THEN old.state ELSE u.says
IsChanged(r, old, u, next, ch) ==
    r = [old EXCEPT !.links = @ \cup Relations(u), !.state = next, !.last = ch]

RecordOf(r, n, A, x, d, L) ==
    r = [name |-> n, aliases |-> A, state |-> x, last |-> d, links |-> L]

LEMMA MakesARecord ==
    ASSUME NEW n \in CardNames, NEW A \in SUBSET CardNames, NEW x \in Told,
           NEW d \in 0..CardChapters, NEW L \in SUBSET CardNames,
           NEW r, RecordOf(r, n, A, x, d, L)
    PROVE  /\ r \in CardRecords /\ r.name = n /\ r.name # NoName /\ r.aliases = A
           /\ r.state = x /\ r.last = d
  <1>2. r.name = n /\ r.aliases = A /\ r.state = x /\ r.last = d
    BY DEF RecordOf
  <1> QED BY <1>2, CardsAssumption DEF CardRecords, RecordOf

LEMMA NewcomerRecord ==
    ASSUME NEW u \in Updates, NEW ch \in 1..CardChapters,
           NEW r, IsNewcomer(r, u, ch)
    PROVE  /\ r \in CardRecords /\ r.name = u.name /\ r.name # NoName
           /\ r.aliases = {} /\ r.last = ch /\ r.state \in Told \ {NoState}
  <1> DEFINE x == IF u.says = Same THEN Blank ELSE u.says
             L == Relations(u)
  <1>1. /\ u.name \in CardNames /\ u.says \in CardStates \cup {Same}
        /\ u.to \in CardNames \cup {NoName}
    BY DEF Updates
  <1>2. L \in SUBSET CardNames
    BY <1>1 DEF Relations
  <1>3. x \in Told \ {NoState}
    BY <1>1, CardsAssumption DEF Told, Blank, NoState
  <1>4. RecordOf(r, u.name, {}, x, ch, L)
    BY DEF Unborn, IsNewcomer, RecordOf
  <1> HIDE DEF x, L
  <1>5. {} \in SUBSET CardNames /\ x \in Told /\ ch \in 0..CardChapters
    BY <1>3
  <1>6. /\ r \in CardRecords /\ r.name = u.name /\ r.name # NoName /\ r.aliases = {}
        /\ r.state = x /\ r.last = ch
    BY <1>1, <1>2, <1>4, <1>5, MakesARecord
  <1> QED BY <1>3, <1>6

LEMMA ChangedRecord ==
    ASSUME NEW u \in Updates, NEW ch \in 1..CardChapters,
           NEW old \in CardRecords, old.name # NoName,
           NEW next, IsNext(next, old, u), NEW r, IsChanged(r, old, u, next, ch)
    PROVE  /\ r \in CardRecords /\ r.name = old.name /\ r.aliases = old.aliases
           /\ r.last = ch /\ r.state = next
           /\ next \in Told /\ (u.says # Same => next \in Told \ {NoState})
  <1> DEFINE L == old.links \cup Relations(u)
  <1>1. /\ u.says \in CardStates \cup {Same} /\ u.to \in CardNames \cup {NoName}
        /\ old.name \in CardNames /\ old.aliases \in SUBSET CardNames
        /\ old.links \in SUBSET CardNames /\ old.state \in Told
    BY DEF Updates, CardRecords, Unborn
  <1>2. L \in SUBSET CardNames /\ next \in Told
    BY <1>1 DEF Relations, Told, IsNext
  <1>3. u.says # Same => next \in Told \ {NoState}
    BY <1>1, <1>2, CardsAssumption DEF IsNext
  <1>4. RecordOf(r, old.name, old.aliases, next, ch, L)
    BY DEF CardRecords, IsChanged, RecordOf
  <1> HIDE DEF L
  <1>6. ch \in 0..CardChapters
    OBVIOUS
  <1>5. /\ r \in CardRecords /\ r.name = old.name /\ r.name # NoName
        /\ r.aliases = old.aliases /\ r.state = next /\ r.last = ch
    BY <1>1, <1>2, <1>4, <1>6, MakesARecord
  <1> QED BY <1>2, <1>3, <1>5

LEMMA NewcomerEnters ==
    ASSUME NEW s \in Sessions, NEW ch \in 1..CardChapters, NEW u, NEW high,
           NEW c \in Cards, s.db.card[c] = Unborn, s.mem[c] = Unborn, PastIsNamed(s.db),
           NEW r \in CardRecords, r.name = u.name, r.name # NoName,
           r.aliases = {}, r.last = ch, r.state \in Told \ {NoState}
    PROVE  LET a == Observed(StateKept(Created([s EXCEPT !.born = @ \cup {c}], c, r, high),
                                       c, ch, r.state, high), c, ch, r.state)
           IN a \in Sessions /\ Entered(s, a, c, u, ch) /\ PastIsNamed(a.db)
  <1> DEFINE b == [s EXCEPT !.born = @ \cup {c}]
             d == Created(b, c, r, high)
             e == StateKept(d, c, ch, r.state, high)
             a == Observed(e, c, ch, r.state)
  <1>6. /\ b \in Sessions /\ b.db = s.db /\ b.mem = s.mem /\ b.born = s.born \cup {c}
        /\ b.seen = s.seen /\ b.origin = s.origin
    BY DEF Sessions
  <1>15. /\ d = Created(b, c, r, high)
         /\ e = StateKept(d, c, ch, r.state, high)
         /\ a = Observed(e, c, ch, r.state)
    OBVIOUS
  <1> HIDE DEF a, b, d, e
  <1>7. /\ d \in Sessions
        /\ d.db.card = [s.db.card EXCEPT ![c] = r]
        /\ d.mem = [s.mem EXCEPT ![c] = r]
        /\ d.db.row = s.db.row /\ d.db.past = s.db.past /\ d.born = s.born \cup {c}
        /\ d.seen = s.seen /\ d.origin = s.origin
    <2>1. d \in Sessions /\ Placed(b, d, c, r)
      BY <1>6, <1>15, CreatedCard
    <2> QED BY <1>6, <2>1 DEF Placed
  <1>8. d.mem[c] = r /\ d.db.card[c] = r
    BY <1>7 DEF Sessions, Tables
  <1>9. /\ e \in Sessions
        /\ e.db.card = d.db.card /\ e.mem = d.mem
        /\ e.db.row = IF StateAt(d.db, c, ch - 1) = r.state THEN d.db.row
                      ELSE [d.db.row EXCEPT ![c][ch] = r.state]
        /\ e.db.past = d.db.past /\ e.born = d.born
        /\ e.seen = d.seen /\ e.origin = d.origin
    <2>1. r.state \in Told /\ d.mem[c].name # NoName /\ d.db.card[c].name # NoName
      BY <1>8
    <2>2. d.mem[c].state = r.state /\ d.mem[c].last = ch
      BY <1>8
    <2>3. e \in Sessions /\ RowKept(d, e, c, ch, r.state)
      BY <1>7, <1>15, <2>1, <2>2, StateKeptCard
    <2> QED BY <2>3 DEF RowKept
  <1>10. StateAt(d.db, c, ch - 1) = StateAt(s.db, c, ch - 1)
    BY <1>7 DEF StateAt
  <1>11. /\ a \in Sessions /\ a.db = e.db /\ a.mem = e.mem /\ a.born = e.born
         /\ a.seen = [e.seen EXCEPT ![c][ch] = r.state]
         /\ a.origin = [e.origin EXCEPT ![c] = ch]
    <2>1. /\ e.seen \in History /\ e.origin \in [Cards -> Nat] /\ ch \in Nat
          /\ r.state \in Told
      BY <1>9, CardsAssumption DEF Sessions
    <2>2. /\ [e.seen EXCEPT ![c][ch] = r.state] \in History
          /\ [e.origin EXCEPT ![c] = ch] \in [Cards -> Nat]
      BY <2>1 DEF History
    <2>3. a = [e EXCEPT !.seen[c][ch] = r.state, !.origin[c] = ch]
      BY <1>15 DEF Observed
    <2> QED BY <1>9, <2>1, <2>2, <2>3 DEF Sessions
  <1>12. Noted(s, a, c, ch, r.state)
    BY <1>7, <1>9, <1>10, <1>11 DEF Noted
  <1>13. Entered(s, a, c, u, ch)
    BY <1>7, <1>9, <1>11, <1>12, Zenon DEF Entered
  <1>14. PastIsNamed(a.db)
    BY <1>7, <1>9, <1>11 DEF PastIsNamed
  <1> QED BY <1>11, <1>13, <1>14 DEF a, b, d, e

LEMMA KnownIsRevised ==
    ASSUME NEW s \in Sessions, NEW ch \in 1..CardChapters, NEW says, NEW high,
           NEW c \in Cards, s.mem[c].name # NoName, s.db.card[c].name # NoName,
           PastIsNamed(s.db), NEW next \in Told, says # Same => next # NoState,
           NEW changed \in CardRecords, changed.name = s.mem[c].name,
           changed.aliases = s.mem[c].aliases, changed.last = ch, changed.state = next
    PROVE  LET updated == Updated(s, c, changed, ch, high)
               a == IF says = Same THEN updated
                    ELSE Observed(StateKept(updated, c, ch, next, high), c, ch, next)
           IN a \in Sessions /\ Revised(s, a, c, ch) /\ PastIsNamed(a.db)
  <1> DEFINE updated == Updated(s, c, changed, ch, high)
             e == StateKept(updated, c, ch, next, high)
             noted == Observed(e, c, ch, next)
             old == s.mem[c]
  <1>4. changed.name # NoName /\ old.name # NoName
    OBVIOUS
  <1>5. View(s)[c] = old
    BY DEF View, Unborn
  <1> HIDE DEF old
  <1>6. /\ updated \in Sessions
        /\ \E w \in CardRecords : /\ Columns(w, old, changed, s.db.card[c])
                                  /\ updated.db.card = [s.db.card EXCEPT ![c] = w]
        /\ updated.mem = [s.mem EXCEPT ![c] = changed]
        /\ updated.db.row = s.db.row /\ updated.born = s.born
        /\ updated.seen = s.seen /\ updated.origin = s.origin
        /\ \A d \in Cards : \A p \in updated.db.past[d] : p \in s.db.past[d] \/ p = old
    <2>1. ch \in Nat
      BY CardsAssumption
    <2>2. updated \in Sessions /\ Rewritten(s, updated, c, changed)
      <3>1. updated = Updated(s, c, changed, ch, high)
        OBVIOUS
      <3> HIDE DEF updated
      <3> QED BY <1>4, <2>1, <3>1, UpdatedCard
    <2> HIDE DEF updated
    <2> QED BY <1>5, <2>2 DEF Rewritten
  <1> HIDE DEF updated
  <1>7. PICK w \in CardRecords : /\ Columns(w, old, changed, s.db.card[c])
                                 /\ updated.db.card = [s.db.card EXCEPT ![c] = w]
    BY <1>6
  <1>8. w.name # NoName /\ PastIsNamed(updated.db)
    BY <1>4, <1>6, <1>7 DEF Columns, PastIsNamed, old
  <1>9. updated.mem[c] = changed /\ updated.db.card[c] = w
    BY <1>6, <1>7 DEF Sessions, Tables
  <1>10. CASE says = Same
    <2>1. Unnoted(s, updated)
      BY <1>6 DEF Unnoted
    <2>2. Revised(s, updated, c, ch)
      BY <1>6, <1>7, <2>1, Zenon DEF Revised, old
    <2> QED BY <1>6, <1>8, <1>10, <2>2 DEF updated
  <1>11. CASE says # Same
    <2>1. /\ e \in Sessions
          /\ e.db.card = updated.db.card /\ e.mem = updated.mem
          /\ e.db.row = IF StateAt(updated.db, c, ch - 1) = next THEN updated.db.row
                        ELSE [updated.db.row EXCEPT ![c][ch] = next]
          /\ e.db.past = updated.db.past /\ e.born = updated.born
          /\ e.seen = updated.seen /\ e.origin = updated.origin
      <3>1. updated.mem[c].name # NoName /\ updated.db.card[c].name # NoName
        BY <1>4, <1>8, <1>9
      <3>2. updated.mem[c].state = next /\ updated.mem[c].last = ch
        BY <1>9
      <3>3. e = StateKept(updated, c, ch, next, high)
        OBVIOUS
      <3> HIDE DEF e
      <3>4. e \in Sessions /\ RowKept(updated, e, c, ch, next)
        BY <1>6, <3>1, <3>2, <3>3, StateKeptCard
      <3> QED BY <3>4 DEF RowKept
    <2>2. StateAt(updated.db, c, ch - 1) = StateAt(s.db, c, ch - 1)
      BY <1>6 DEF StateAt
    <2> HIDE DEF e
    <2>3. /\ noted \in Sessions /\ noted.db = e.db /\ noted.mem = e.mem /\ noted.born = e.born
          /\ noted.seen = [e.seen EXCEPT ![c][ch] = next]
          /\ noted.origin = [e.origin EXCEPT ![c] = ch]
      <3>1. e.seen \in History /\ e.origin \in [Cards -> Nat] /\ ch \in Nat
        BY <2>1, CardsAssumption DEF Sessions
      <3>2. /\ [e.seen EXCEPT ![c][ch] = next] \in History
            /\ [e.origin EXCEPT ![c] = ch] \in [Cards -> Nat]
        BY <3>1 DEF History
      <3> QED BY <2>1, <3>2 DEF Observed, Sessions
    <2> HIDE DEF noted
    <2>4. next \in Told \ {NoState}
      BY <1>11
    <2>5. Noted(s, noted, c, ch, next)
      BY <1>6, <2>1, <2>2, <2>3 DEF Noted
    <2>6. Revised(s, noted, c, ch)
      <3>1. changed.name = s.mem[c].name /\ changed.aliases = s.mem[c].aliases
        OBVIOUS
      <3>2. Columns(w, s.mem[c], changed, s.db.card[c])
        BY <1>7 DEF old
      <3>3. /\ noted.mem = [s.mem EXCEPT ![c] = changed]
            /\ noted.db.card = [s.db.card EXCEPT ![c] = w] /\ noted.born = s.born
        BY <1>6, <1>7, <2>1, <2>3
      <3>4. \E state \in Told \ {NoState} : Noted(s, noted, c, ch, state)
        BY <2>4, <2>5
      <3>5. changed.last = ch
        OBVIOUS
      <3> QED BY <1>4, <3>1, <3>2, <3>3, <3>4, <3>5, Zenon DEF Revised
    <2>7. PastIsNamed(noted.db)
      BY <1>8, <2>1, <2>3 DEF PastIsNamed
    <2> QED BY <1>11, <2>3, <2>6, <2>7 DEF updated, e, noted
  <1> QED BY <1>10, <1>11

\* An update leaves things as they are, enters a newcomer or revises the card it finds.
Effect(s, a, ch, u, high) ==
    LET known == Find(s.mem, u.name, high)
    IN \/ Idled(s, a)
       \/ known = 0 /\ \E c \in Cards : Entered(s, a, c, u, ch)
       \/ known \in Cards /\ Revised(s, a, known, ch)

LEMMA AppliedDoes ==
    ASSUME NEW s \in Sessions, NEW ch \in 1..CardChapters, NEW u \in Updates,
           NEW high \in BOOLEAN, Firm(s), PastIsNamed(s.db)
    PROVE  LET a == Applied(s, ch, u, high)
           IN a \in Sessions /\ PastIsNamed(a.db) /\ Effect(s, a, ch, u, high)
  <1> DEFINE a == Applied(s, ch, u, high)
             known == Find(s.mem, u.name, high)
             unborn == {d \in Cards : s.db.card[d] = Unborn}
             c == Latest(unborn)
             r == [Unborn EXCEPT !.name = u.name, !.last = ch, !.links = Relations(u),
                                 !.state = IF u.says = Same THEN Blank ELSE u.says]
             next == IF u.says = Same THEN s.mem[known].state ELSE u.says
             changed == [s.mem[known] EXCEPT !.links = @ \cup Relations(u),
                                             !.state = next, !.last = ch]
             updated == Updated(s, known, changed, ch, high)
             entered == Observed(StateKept(Created([s EXCEPT !.born = @ \cup {c}], c, r, high),
                                           c, ch, r.state, high), c, ch, r.state)
             revised == IF u.says = Same THEN updated
                        ELSE Observed(StateKept(updated, known, ch, next, high), known, ch, next)
             still == ~s.ok \/ (known = 0 /\ (~u.data \/ unborn = {}))
             failed == [s EXCEPT !.ok = FALSE]
  <1>1. a = IF still THEN s
            ELSE CASE known = 0 /\ NameTaken(s, u.name) -> failed
                   [] known = 0 /\ ~NameTaken(s, u.name) -> entered
                   [] known # 0 /\ u.says = Same -> updated
                   [] known # 0 /\ u.says # Same ->
                        Observed(StateKept(updated, known, ch, next, high), known, ch, next)
    BY DEF Applied
  <1> HIDE DEF a
  <1>2. Idled(s, s)
    BY DEF Idled, Unnoted
  <1>3. CASE still
    <2>1. a = s
      BY <1>1, <1>3
    <2> QED BY <1>2, <2>1 DEF a, Effect
  <1>4. CASE ~still /\ known = 0 /\ NameTaken(s, u.name)
    <2>1. a = failed
      BY <1>1, <1>4
    <2>2. failed \in Sessions /\ Idled(s, failed) /\ failed.db = s.db
      BY DEF Sessions, Idled, Unnoted
    <2>3. PastIsNamed(failed.db)
      BY <2>2
    <2> QED BY <2>1, <2>2, <2>3 DEF a, Effect
  <1>5. CASE ~still /\ known = 0 /\ ~NameTaken(s, u.name)
    <2>1. a = entered
      <3> HIDE DEF still, entered, failed, updated, known
      <3> QED BY <1>1, <1>5
    <2>2. unborn # {} /\ unborn \subseteq Cards
      BY <1>5
    <2>3. c \in unborn
      <3> HIDE DEF unborn
      <3>1. unborn \subseteq Nat /\ IsFiniteSet(unborn)
        BY <2>2, CardsAssumption, FS_Subset
      <3> QED BY <2>2, <3>1, LatestOf
    <2> HIDE DEF c
    <2>4. c \in Cards /\ s.db.card[c] = Unborn
      BY <2>3
    <2>5. s.mem[c] = Unborn
      <3>1. s.mem[c].name = NoName /\ s.mem[c] \in CardRecords
        BY <2>4 DEF Firm, Unborn, Sessions
      <3> QED BY <3>1, NameTellsUnborn
    <2>6. entered \in Sessions /\ Entered(s, entered, c, u, ch) /\ PastIsNamed(entered.db)
      <3> HIDE DEF r
      <3>1. /\ r \in CardRecords /\ r.name = u.name /\ r.name # NoName
            /\ r.aliases = {} /\ r.last = ch /\ r.state \in Told \ {NoState}
        <4>1. IsNewcomer(r, u, ch)
          BY DEF r, IsNewcomer
        <4> QED BY <4>1, NewcomerRecord
      <3> QED BY <2>4, <2>5, <3>1, NewcomerEnters
    <2> HIDE DEF entered, known
    <2>7. /\ a \in Sessions /\ PastIsNamed(a.db) /\ known = 0
          /\ \E d \in Cards : Entered(s, a, d, u, ch)
      BY <1>5, <2>1, <2>4, <2>6
    <2> QED BY <2>7 DEF a, known, Effect
  <1>6. CASE ~still /\ known # 0
    <2>1. a = revised
      <3> HIDE DEF still, entered, failed, updated, known, next
      <3> QED BY <1>1, <1>6
    <2>2. known \in Holders(s.mem, u.name) /\ known \in Cards
      BY <1>6, FindFinds
    <2> HIDE DEF known
    <2>3. u.name \in CardNames
      BY DEF Updates
    <2>4. s.mem[known].name # NoName
      <3>1. s.mem[known] # Unborn
        BY <2>2, <2>3, CardsAssumption DEF Holders, Unborn
      <3>2. s.mem[known] \in CardRecords
        BY <2>2 DEF Sessions
      <3> QED BY <3>1, <3>2, NameTellsUnborn
    <2>5. s.db.card[known].name # NoName
      BY <2>2, <2>4 DEF Firm
    <2>6. revised \in Sessions /\ Revised(s, revised, known, ch) /\ PastIsNamed(revised.db)
      <3>1. s.mem[known] \in CardRecords
        BY <2>2 DEF Sessions
      <3> HIDE DEF next, changed
      <3>2. /\ changed \in CardRecords /\ changed.name = s.mem[known].name
            /\ changed.aliases = s.mem[known].aliases /\ changed.last = ch
            /\ changed.state = next /\ next \in Told
            /\ u.says # Same => next # NoState
        <4>1. IsNext(next, s.mem[known], u)
          BY DEF next, IsNext
        <4>2. IsChanged(changed, s.mem[known], u, next, ch)
          BY DEF changed, IsChanged
        <4> QED BY <2>4, <3>1, <4>1, <4>2, ChangedRecord
      <3> QED BY <2>2, <2>4, <2>5, <3>2, KnownIsRevised
    <2> HIDE DEF revised
    <2>7. /\ a \in Sessions /\ PastIsNamed(a.db) /\ known \in Cards
          /\ Revised(s, a, known, ch)
      BY <2>1, <2>2, <2>6
    <2> QED BY <2>7 DEF a, known, Effect
  <1> QED BY <1>3, <1>4, <1>5, <1>6

-----------------------------------------------------------------------------
(* An extraction, update by update.                                        *)

\* The sessions between the updates.
Between(f, s, ch, us, high, n) ==
    f = [i \in 0..n |-> IF i = 0 THEN s ELSE Applied(f[i - 1], ch, us[i], high)]

LEMMA BetweenExists ==
    ASSUME NEW s, NEW ch, NEW us, NEW high, NEW n \in Nat
    PROVE  \E f : Between(f, s, ch, us, high, n)
  <1> DEFINE M == {m \in 0..n : \E f : Between(f, s, ch, us, high, m)}
  <1>1. 0 \in M
    <2> DEFINE g == [i \in 0..0 |-> s]
    <2>1. g = [i \in 0..0 |-> IF i = 0 THEN s ELSE Applied(g[i - 1], ch, us[i], high)]
      OBVIOUS
    <2>2. Between(g, s, ch, us, high, 0)
      BY <2>1 DEF Between
    <2> QED BY <2>2
  <1>2. ASSUME NEW m \in 0..n, m < n, m \in M
        PROVE  m + 1 \in M
    <2>1. PICK f : Between(f, s, ch, us, high, m)
      BY <1>2
    <2> DEFINE new == Applied(f[m], ch, us[m + 1], high)
               g == [i \in 0..(m + 1) |-> IF i <= m THEN f[i] ELSE new]
               h == [i \in 0..(m + 1) |-> IF i = 0 THEN s
                                          ELSE Applied(g[i - 1], ch, us[i], high)]
    <2>2. ASSUME NEW i \in 0..(m + 1) PROVE g[i] = h[i]
      <3>1. m \in Nat
        OBVIOUS
      <3>2. CASE i = 0
        <4>1. 0 \in 0..m /\ f[0] = s
          BY <2>1, <3>1 DEF Between
        <4> HIDE DEF new
        <4> QED BY <3>1, <3>2, <4>1
      <3>3. CASE i # 0 /\ i <= m
        <4>1. /\ i \in 0..m /\ i - 1 \in 0..m /\ i - 1 \in 0..(m + 1)
              /\ i <= m /\ i - 1 <= m
          BY <3>1, <3>3
        <4>2. f[i] = Applied(f[i - 1], ch, us[i], high)
          BY <2>1, <3>3, <4>1 DEF Between
        <4>3. g[i - 1] = f[i - 1] /\ g[i] = f[i]
          <5> HIDE DEF new
          <5> QED BY <4>1
        <4>4. h[i] = Applied(g[i - 1], ch, us[i], high)
          <5> HIDE DEF g
          <5> QED BY <3>3
        <4> QED BY <4>2, <4>3, <4>4
      <3>4. CASE i # 0 /\ ~ (i <= m)
        <4>1. i = m + 1 /\ i - 1 = m /\ m \in 0..(m + 1)
          BY <3>1, <3>4
        <4>2. g[m] = f[m]
          <5> HIDE DEF new
          <5> QED BY <3>1, <4>1
        <4>3. g[i] = new
          <5> HIDE DEF new
          <5> QED BY <3>4
        <4>4. h[i] = Applied(g[i - 1], ch, us[i], high)
          <5> HIDE DEF g
          <5> QED BY <3>4
        <4>5. h[i] = Applied(g[m], ch, us[m + 1], high)
          <5> HIDE DEF g, h
          <5> QED BY <4>1, <4>4
        <4> QED BY <4>2, <4>3, <4>5
      <3> QED BY <3>2, <3>3, <3>4
    <2>3. g = h
      <3>1. g = [i \in 0..(m + 1) |-> g[i]] /\ h = [i \in 0..(m + 1) |-> h[i]]
        OBVIOUS
      <3> HIDE DEF g, h
      <3> QED BY <2>2, <3>1
    <2>4. Between(g, s, ch, us, high, m + 1)
      <3>1. g = [i \in 0..(m + 1) |-> IF i = 0 THEN s
                                      ELSE Applied(g[i - 1], ch, us[i], high)]
        BY <2>3
      <3> HIDE DEF g
      <3> QED BY <3>1 DEF Between
    <2>5. m + 1 \in 0..n
      BY <1>2
    <2> HIDE DEF g
    <2> QED BY <2>4, <2>5
  <1>3. n \in M
    <2> HIDE DEF M
    <2>1. \A i \in 0..n : i \in M
      BY <1>1, <1>2, Upwards
    <2> QED BY <2>1
  <1> QED BY <1>3

LEMMA AfterUpdatesIsLast ==
    ASSUME NEW s, NEW ch, NEW us \in Seq(Updates), NEW high
    PROVE  \E f : /\ Between(f, s, ch, us, high, Len(us))
                  /\ AfterUpdates(s, ch, us, high) = f[Len(us)]
  <1> DEFINE n == Len(us)
             after[i \in 0..n] == IF i = 0 THEN s ELSE Applied(after[i - 1], ch, us[i], high)
  <1>1. AfterUpdates(s, ch, us, high) = after[n]
    BY DEF AfterUpdates
  <1>2. n \in Nat
    OBVIOUS
  <1>3. after = CHOOSE f : f = [i \in 0..n |-> IF i = 0 THEN s
                                             ELSE Applied(f[i - 1], ch, us[i], high)]
    OBVIOUS
  <1> HIDE DEF after
  <1>4. \E f : f = [i \in 0..n |-> IF i = 0 THEN s ELSE Applied(f[i - 1], ch, us[i], high)]
    <2> HIDE DEF n
    <2>1. PICK f : Between(f, s, ch, us, high, n)
      BY <1>2, BetweenExists, Zenon
    <2>2. f = [i \in 0..n |-> IF i = 0 THEN s ELSE Applied(f[i - 1], ch, us[i], high)]
      BY <2>1 DEF Between
    <2> QED BY <2>2, Zenon
  <1>5. after = [i \in 0..n |-> IF i = 0 THEN s ELSE Applied(after[i - 1], ch, us[i], high)]
    BY <1>3, <1>4
  <1>6. Between(after, s, ch, us, high, n)
    BY <1>5 DEF Between
  <1> QED BY <1>1, <1>6

\* Who is who between the updates: a card the session knew is called what it was
\* called, and a newcomer has a name that nobody had.
NewName(s, r, us, i) ==
    \E j \in 1..i : r.name = us[j].name /\ Holders(s.mem, us[j].name) = {}
NamesKept(s, t, us, i) ==
    /\ t \in Sessions /\ PastIsNamed(t.db) /\ Firm(t)
    /\ \A c \in Cards \ t.born :
          /\ t.db.card[c].name = s.db.card[c].name
          /\ t.db.card[c].aliases = s.db.card[c].aliases
          /\ t.mem[c].name = s.mem[c].name /\ t.mem[c].aliases = s.mem[c].aliases
    /\ \A c \in t.born :
          /\ s.db.card[c].name = NoName
          /\ t.mem[c] = t.db.card[c] /\ t.mem[c].aliases = {}
          /\ NewName(s, t.mem[c], us, i)

NamesDiffer(us) == \A i, j \in DOMAIN us : i # j => us[i].name # us[j].name

\* No newcomer is known by the name of a later update, so the names find the cards
\* they found at the start.
LEMMA SameFound ==
    ASSUME NEW us \in Seq(Updates), NamesDiffer(us), NEW i \in 0..Len(us), i < Len(us),
           NEW s \in Sessions, Firm(s), NEW t, NamesKept(s, t, us, i)
    PROVE  Holders(t.mem, us[i + 1].name) = Holders(s.mem, us[i + 1].name)
           /\ Holders(t.mem, us[i + 1].name) \cap t.born = {}
  <1> DEFINE n == us[i + 1].name
  <1>1. /\ i + 1 \in DOMAIN us /\ us[i + 1] \in Updates
        /\ \A j \in 1..i : j \in DOMAIN us /\ j # i + 1
    OBVIOUS
  <1>2. n \in CardNames /\ n # NoName
    BY <1>1, CardsAssumption DEF Updates
  <1>3. \A j \in 1..i : us[j].name # n
    BY <1>1 DEF NamesDiffer
  <1> HIDE DEF n
  <1>4. ASSUME NEW c \in t.born
        PROVE  c \notin Holders(t.mem, n) /\ c \notin Holders(s.mem, n)
    <2>5. NewName(s, t.mem[c], us, i)
      BY <1>4 DEF NamesKept
    <2>1. t.mem[c].name # n /\ t.mem[c].aliases = {} /\ s.db.card[c].name = NoName
      BY <1>3, <1>4, <2>5 DEF NamesKept, NewName
    <2>2. c \in Cards
      BY <1>4 DEF NamesKept, Sessions
    <2>3. s.mem[c].name = NoName /\ s.mem[c] \in CardRecords
      BY <2>1, <2>2 DEF Firm, Sessions
    <2>4. s.mem[c] = Unborn
      BY <2>3, NameTellsUnborn
    <2> QED BY <1>2, <2>1, <2>4 DEF Holders, Unborn
  <1>5. ASSUME NEW c \in Cards, c \notin t.born
        PROVE  c \in Holders(t.mem, n) <=> c \in Holders(s.mem, n)
    BY <1>5 DEF NamesKept, Holders
  <1>6. Holders(t.mem, n) \subseteq Cards /\ Holders(s.mem, n) \subseteq Cards
    BY DEF Holders
  <1> QED
    BY <1>4, <1>5, <1>6 DEF n

LEMMA NamesStayKept ==
    ASSUME NEW us \in Seq(Updates), NamesDiffer(us), NEW i \in 0..Len(us), i < Len(us),
           NEW ch \in 1..CardChapters, NEW high \in BOOLEAN,
           NEW s \in Sessions, Firm(s), NEW t, NamesKept(s, t, us, i),
           NEW a, a = Applied(t, ch, us[i + 1], high)
    PROVE  NamesKept(s, a, us, i + 1)
  <1> DEFINE u == us[i + 1]
             known == Find(t.mem, u.name, high)
  <1>1. u \in Updates /\ t \in Sessions /\ Firm(t) /\ PastIsNamed(t.db) /\ i \in Nat
    BY DEF NamesKept
  <1>2. Holders(t.mem, u.name) = Holders(s.mem, u.name)
        /\ Holders(t.mem, u.name) \cap t.born = {}
    BY SameFound
  <1>3. u.name # NoName
    BY <1>1, CardsAssumption DEF Updates
  <1>4. /\ a \in Sessions /\ PastIsNamed(a.db)
        /\ \/ Idled(t, a)
           \/ known = 0 /\ \E c \in Cards : Entered(t, a, c, u, ch)
           \/ known \in Cards /\ Revised(t, a, known, ch)
    <2> HIDE DEF u
    <2>1. a = Applied(t, ch, u, high)
      BY DEF u
    <2>2. a \in Sessions /\ PastIsNamed(a.db) /\ Effect(t, a, ch, u, high)
      BY <1>1, <2>1, AppliedDoes
    <2> QED BY <2>2 DEF Effect
  <1>5. /\ known = 0 => Holders(s.mem, u.name) = {}
        /\ known \in Cards => known \notin t.born
    <2> HIDE DEF u
    <2>1. known = 0 <=> Holders(t.mem, u.name) = {}
      BY FindFinds
    <2>2. known # 0 => known \in Holders(t.mem, u.name)
      BY <2>1, FindFinds
    <2>3. 0 \notin Cards
      BY CardsAssumption
    <2> QED BY <1>2, <2>1, <2>2, <2>3
  <1> HIDE DEF u, known
  <1>6. \A r : NewName(s, r, us, i) => NewName(s, r, us, i + 1)
    <2>1. \A j \in 1..i : j \in 1..(i + 1)
      BY <1>1
    <2> QED BY <2>1 DEF NewName
  <1>7. CASE Idled(t, a)
    <2>1. a.mem = t.mem /\ a.db.card = t.db.card /\ a.born = t.born
      BY <1>7 DEF Idled
    <2>2. Firm(a)
      BY <1>1, <2>1 DEF Firm
    <2> QED BY <1>4, <1>6, <2>1, <2>2 DEF NamesKept
  <1>8. ASSUME known = 0, NEW c \in Cards, Entered(t, a, c, u, ch)
        PROVE  NamesKept(s, a, us, i + 1)
    <2>1. PICK r \in CardRecords :
            /\ t.db.card[c] = Unborn /\ r.name = u.name /\ r.aliases = {}
            /\ a.mem = [t.mem EXCEPT ![c] = r] /\ a.db.card = [t.db.card EXCEPT ![c] = r]
            /\ a.born = t.born \cup {c}
      BY <1>8 DEF Entered
    <2>2. t.mem \in [Cards -> CardRecords] /\ t.db.card \in [Cards -> CardRecords]
      BY <1>1 DEF Sessions, Tables
    <2>3. /\ a.mem[c] = r /\ a.db.card[c] = r
          /\ \A d \in Cards : d # c => a.mem[d] = t.mem[d] /\ a.db.card[d] = t.db.card[d]
      BY <2>1, <2>2
    <2>4. t.db.card[c].name = NoName
      BY <2>1 DEF Unborn
    <2>5. c \notin t.born
      <3>1. ASSUME c \in t.born PROVE FALSE
        <4>4. NewName(s, t.mem[c], us, i) /\ t.mem[c] = t.db.card[c]
          BY <3>1 DEF NamesKept
        <4>1. PICK j \in 1..i : t.mem[c].name = us[j].name /\ t.mem[c] = t.db.card[c]
          BY <4>4 DEF NewName
        <4>2. us[j] \in Updates
          BY <1>1, <4>1
        <4>3. us[j].name # NoName
          BY <4>2, CardsAssumption DEF Updates
        <4> QED BY <2>4, <4>1, <4>3
      <3> QED BY <3>1
    <2>6. s.db.card[c].name = NoName
      BY <2>4, <2>5 DEF NamesKept
    <2>7. Firm(a)
      BY <1>1, <1>3, <2>1, <2>3 DEF Firm
    <2>8. ASSUME NEW d \in Cards, d \notin a.born
          PROVE  /\ a.db.card[d].name = s.db.card[d].name
                 /\ a.db.card[d].aliases = s.db.card[d].aliases
                 /\ a.mem[d].name = s.mem[d].name /\ a.mem[d].aliases = s.mem[d].aliases
      <3>1. d # c /\ d \notin t.born
        BY <2>1, <2>8
      <3>2. a.mem[d] = t.mem[d] /\ a.db.card[d] = t.db.card[d]
        BY <2>3, <3>1
      <3> QED BY <3>1, <3>2 DEF NamesKept
    <2>9. ASSUME NEW d \in a.born
          PROVE  /\ s.db.card[d].name = NoName
                 /\ a.mem[d] = a.db.card[d] /\ a.mem[d].aliases = {}
                 /\ NewName(s, a.mem[d], us, i + 1)
      <3>1. CASE d = c
        <4>1. i + 1 \in 1..(i + 1) /\ a.mem[d].name = us[i + 1].name
              /\ Holders(s.mem, us[i + 1].name) = {}
          BY <1>1, <1>5, <1>8, <2>1, <2>3, <3>1 DEF u
        <4>2. NewName(s, a.mem[d], us, i + 1)
          BY <4>1 DEF NewName
        <4> QED BY <2>1, <2>3, <2>6, <3>1, <4>2
      <3>2. CASE d # c
        <4>1. d \in t.born /\ d \in Cards
          BY <2>1, <2>9, <3>2, <1>1 DEF Sessions
        <4>2. a.mem[d] = t.mem[d] /\ a.db.card[d] = t.db.card[d]
          BY <2>3, <3>2, <4>1
        <4> QED BY <1>6, <4>1, <4>2 DEF NamesKept
      <3> QED BY <3>1, <3>2
    <2> QED BY <1>4, <2>7, <2>8, <2>9 DEF NamesKept
  <1>9. ASSUME known \in Cards, Revised(t, a, known, ch)
        PROVE  NamesKept(s, a, us, i + 1)
    <2>1. PICK new \in CardRecords, w \in CardRecords :
            /\ new.name = t.mem[known].name /\ new.aliases = t.mem[known].aliases
            /\ Columns(w, t.mem[known], new, t.db.card[known])
            /\ a.mem = [t.mem EXCEPT ![known] = new]
            /\ a.db.card = [t.db.card EXCEPT ![known] = w] /\ a.born = t.born
      BY <1>9 DEF Revised
    <2>2. t.mem \in [Cards -> CardRecords] /\ t.db.card \in [Cards -> CardRecords]
      BY <1>1 DEF Sessions, Tables
    <2>3. /\ a.mem[known] = new /\ a.db.card[known] = w
          /\ \A d \in Cards : d # known => a.mem[d] = t.mem[d] /\ a.db.card[d] = t.db.card[d]
      BY <1>9, <2>1, <2>2
    <2>4. w.name = t.db.card[known].name /\ w.aliases = t.db.card[known].aliases
      BY <2>1 DEF Columns
    <2>5. \A d \in Cards :
             /\ a.db.card[d].name = t.db.card[d].name
             /\ a.db.card[d].aliases = t.db.card[d].aliases
             /\ a.mem[d].name = t.mem[d].name /\ a.mem[d].aliases = t.mem[d].aliases
      BY <2>1, <2>3, <2>4
    <2>6. Firm(a)
      BY <1>1, <2>5 DEF Firm
    <2>7. ASSUME NEW d \in a.born
          PROVE  /\ s.db.card[d].name = NoName
                 /\ a.mem[d] = a.db.card[d] /\ a.mem[d].aliases = {}
                 /\ NewName(s, a.mem[d], us, i + 1)
      <3>1. d \in t.born /\ d \in Cards /\ d # known
        BY <1>1, <1>5, <1>9, <2>1, <2>7 DEF Sessions
      <3>2. a.mem[d] = t.mem[d] /\ a.db.card[d] = t.db.card[d]
        BY <2>3, <3>1
      <3> QED BY <1>6, <3>1, <3>2 DEF NamesKept
    <2>8. \A d \in Cards \ a.born :
             /\ a.db.card[d].name = s.db.card[d].name
             /\ a.db.card[d].aliases = s.db.card[d].aliases
             /\ a.mem[d].name = s.mem[d].name /\ a.mem[d].aliases = s.mem[d].aliases
      BY <2>1, <2>5 DEF NamesKept
    <2> QED BY <1>4, <2>6, <2>7, <2>8 DEF NamesKept
  <1> QED
    BY <1>4, <1>7, <1>8, <1>9

\* Once per card: either a card's rows and what was seen of it are as they were, or
\* one update, of those so far, has noted its state.
NotedOnce(s, t, c, ch) ==
    \E x \in Told \ {NoState} :
        /\ t.seen[c] = [s.seen[c] EXCEPT ![ch] = x]
        /\ \/ t.db.row[c] = [s.db.row[c] EXCEPT ![ch] = x]
           \/ t.db.row[c] = s.db.row[c] /\ StateAt(s.db, c, ch - 1) = x
Untold(s, t, c) == t.db.row[c] = s.db.row[c] /\ t.seen[c] = s.seen[c]
NotedAtMostOnce(s, t, us, ch, high, i) ==
    \A c \in Cards :
        \/ Untold(s, t, c)
        \/ /\ c \in t.born \/ \E j \in 1..i : c = Find(s.mem, us[j].name, high)
           /\ NotedOnce(s, t, c, ch)

CardsDiffer(s, us, high) ==
    \A i, j \in DOMAIN us :
        i # j => Find(s.mem, us[i].name, high) = 0
                 \/ Find(s.mem, us[i].name, high) # Find(s.mem, us[j].name, high)

LEMMA SameRowsSameState ==
    ASSUME NEW s, NEW t, NEW c, NEW n, t.db.row[c] = s.db.row[c]
    PROVE  StateAt(t.db, c, n) = StateAt(s.db, c, n)
  BY DEF StateAt

\* What noting a state of c does to the cards.
LEMMA NotedCards ==
    ASSUME NEW t \in Sessions, NEW a, NEW c \in Cards, NEW ch \in 1..CardChapters,
           NEW x \in Told \ {NoState}, Noted(t, a, c, ch, x)
    PROVE  /\ \A d \in Cards \ {c} : Untold(t, a, d)
           /\ \A s : Untold(s, t, c) => NotedOnce(s, a, c, ch)
  <1>1. t.db.row \in History /\ t.seen \in History
    BY DEF Sessions, Tables
  <1>2. ASSUME NEW d \in Cards \ {c}
        PROVE  a.db.row[d] = t.db.row[d] /\ a.seen[d] = t.seen[d]
    BY <1>1 DEF Noted, History
  <1>3. a.seen[c] = [t.seen[c] EXCEPT ![ch] = x]
    BY <1>1 DEF Noted, History
  <1>4. CASE StateAt(t.db, c, ch - 1) = x
    <2>1. a.db.row[c] = t.db.row[c]
      BY <1>4 DEF Noted
    <2>2. ASSUME NEW s, Untold(s, t, c)
          PROVE  NotedOnce(s, a, c, ch)
      <3>1. StateAt(s.db, c, ch - 1) = x
        BY <1>4, <2>2, SameRowsSameState DEF Untold
      <3>2. a.seen[c] = [s.seen[c] EXCEPT ![ch] = x] /\ a.db.row[c] = s.db.row[c]
        BY <1>3, <2>1, <2>2 DEF Untold
      <3> QED BY <3>1, <3>2 DEF NotedOnce
    <2> QED BY <1>2, <2>2 DEF Untold
  <1>5. CASE StateAt(t.db, c, ch - 1) # x
    <2>1. a.db.row = [t.db.row EXCEPT ![c][ch] = x]
      BY <1>5 DEF Noted
    <2>2. a.db.row[c] = [t.db.row[c] EXCEPT ![ch] = x]
      BY <1>1, <2>1 DEF History
    <2>3. ASSUME NEW s, Untold(s, t, c)
          PROVE  NotedOnce(s, a, c, ch)
      <3>1. /\ a.seen[c] = [s.seen[c] EXCEPT ![ch] = x]
            /\ a.db.row[c] = [s.db.row[c] EXCEPT ![ch] = x]
        BY <1>3, <2>2, <2>3 DEF Untold
      <3> QED BY <3>1 DEF NotedOnce
    <2> QED BY <1>2, <2>3 DEF Untold
  <1> QED BY <1>4, <1>5

LEMMA StaysNotedOnce ==
    ASSUME NEW us \in Seq(Updates), NamesDiffer(us), NEW i \in 0..Len(us), i < Len(us),
           NEW ch \in 1..CardChapters, NEW high \in BOOLEAN,
           NEW s \in Sessions, Firm(s), CardsDiffer(s, us, high),
           NEW t, NamesKept(s, t, us, i), NotedAtMostOnce(s, t, us, ch, high, i),
           NEW a, a = Applied(t, ch, us[i + 1], high)
    PROVE  NotedAtMostOnce(s, a, us, ch, high, i + 1)
  <1> DEFINE u == us[i + 1]
             known == Find(t.mem, u.name, high)
             Upto(k, c) == \E j \in 1..k : c = Find(s.mem, us[j].name, high)
  <1>1. u \in Updates /\ t \in Sessions /\ Firm(t) /\ PastIsNamed(t.db) /\ i \in Nat
    BY DEF NamesKept
  <1>2. /\ known = Find(s.mem, u.name, high)
        /\ known \in Cards => known \notin t.born
    <2>1. Holders(t.mem, u.name) = Holders(s.mem, u.name)
          /\ Holders(t.mem, u.name) \cap t.born = {}
      BY SameFound
    <2> HIDE DEF u
    <2>2. 0 \notin Cards
      BY CardsAssumption
    <2>3. known # 0 => known \in Holders(t.mem, u.name)
      BY FindFinds
    <2> QED BY <2>1, <2>2, <2>3, SameHoldersSameFind
  <1>3. Effect(t, a, ch, u, high)
    <2> HIDE DEF u
    <2>1. a = Applied(t, ch, u, high)
      BY DEF u
    <2> QED BY <1>1, <2>1, AppliedDoes
  <1>4. \A c : Upto(i, c) => Upto(i + 1, c)
    <2>1. \A j \in 1..i : j \in 1..(i + 1)
      BY <1>1
    <2> QED BY <2>1
  <1>5. \A c \in Cards : Upto(i, c) => c # known
    <2>1. ASSUME NEW c \in Cards, NEW j \in 1..i, c = Find(s.mem, us[j].name, high)
          PROVE  c # known
      <3>1. j \in DOMAIN us /\ i + 1 \in DOMAIN us /\ j # i + 1
        OBVIOUS
      <3>2. c # 0
        BY CardsAssumption
      <3> QED BY <1>2, <2>1, <3>1, <3>2 DEF CardsDiffer
    <2> QED BY <2>1
  <1>6. \A c \in Cards : \/ Untold(s, t, c)
                         \/ (c \in t.born \/ Upto(i, c)) /\ NotedOnce(s, t, c, ch)
    BY DEF NotedAtMostOnce
  <1>7. SUFFICES \A c \in Cards :
                    \/ Untold(s, a, c)
                    \/ (c \in a.born \/ Upto(i + 1, c)) /\ NotedOnce(s, a, c, ch)
    BY DEF NotedAtMostOnce
  <1>8. \A c \in Cards : Untold(t, a, c) =>
            /\ Untold(s, t, c) => Untold(s, a, c)
            /\ NotedOnce(s, t, c, ch) => NotedOnce(s, a, c, ch)
    BY DEF Untold, NotedOnce
  <1>9. ASSUME NEW c \in Cards, NEW x \in Told \ {NoState}, Noted(t, a, c, ch, x),
               Untold(s, t, c), c \in a.born \/ c = known, t.born \subseteq a.born
        PROVE  \A d \in Cards : \/ Untold(s, a, d)
                                \/ (d \in a.born \/ Upto(i + 1, d)) /\ NotedOnce(s, a, d, ch)
    <2>1. /\ \A d \in Cards \ {c} : Untold(t, a, d)
          /\ NotedOnce(s, a, c, ch)
      BY <1>1, <1>9, NotedCards
    <2>2. c \in a.born \/ Upto(i + 1, c)
      <3>1. i + 1 \in 1..(i + 1)
        BY <1>1
      <3> QED BY <1>2, <1>9, <3>1 DEF u
    <2> HIDE DEF Upto, known, u
    <2> QED BY <1>4, <1>6, <1>8, <1>9, <2>1, <2>2
  <1>10. CASE Idled(t, a)
    <2>1. a.born = t.born /\ \A c \in Cards : Untold(t, a, c)
      BY <1>10 DEF Idled, Unnoted, Untold
    <2> HIDE DEF Upto
    <2> QED BY <1>4, <1>6, <1>8, <2>1
  <1>11. ASSUME known = 0, NEW c \in Cards, Entered(t, a, c, u, ch)
         PROVE  \A d \in Cards : \/ Untold(s, a, d)
                                 \/ (d \in a.born \/ Upto(i + 1, d)) /\ NotedOnce(s, a, d, ch)
    <2> HIDE DEF u, known
    <2>1. PICK x \in Told \ {NoState} :
            /\ t.db.card[c] = Unborn /\ a.born = t.born \cup {c} /\ Noted(t, a, c, ch, x)
      BY <1>11 DEF Entered
    <2>2. c \notin t.born
      <3>1. ASSUME c \in t.born PROVE FALSE
        <4>1. NewName(s, t.mem[c], us, i) /\ t.mem[c] = t.db.card[c]
          BY <3>1 DEF NamesKept
        <4>2. PICK j \in 1..i : t.db.card[c].name = us[j].name
          BY <4>1 DEF NewName
        <4>3. us[j] \in Updates
          BY <1>1, <4>2
        <4>4. us[j].name # NoName /\ t.db.card[c].name = NoName
          BY <2>1, <4>3, CardsAssumption DEF Updates, Unborn
        <4> QED BY <4>2, <4>4
      <3> QED BY <3>1
    <2>3. ~Upto(i, c)
      <3>1. ASSUME NEW j \in 1..i, c = Find(s.mem, us[j].name, high)
            PROVE  FALSE
        <4>1. c \in Holders(s.mem, us[j].name)
          <5>1. c # 0
            BY CardsAssumption
          <5> QED BY <3>1, <5>1, FindFinds
        <4>2. us[j] \in Updates
          BY <1>1, <3>1
        <4>3. us[j].name # NoName
          BY <4>2, CardsAssumption DEF Updates
        <4>4. s.mem[c] # Unborn
          BY <4>1, <4>2, <4>3 DEF Holders, Unborn
        <4>5. s.mem[c].name # NoName
          BY <4>4, NameTellsUnborn DEF Sessions
        <4>6. s.db.card[c].name # NoName
          BY <4>5 DEF Firm
        <4>7. t.db.card[c].name = s.db.card[c].name
          BY <2>2 DEF NamesKept
        <4> QED BY <2>1, <4>6, <4>7 DEF Unborn
      <3> QED BY <3>1
    <2>4. Untold(s, t, c)
      BY <1>6, <2>2, <2>3
    <2> HIDE DEF Upto
    <2> QED BY <1>9, <2>1, <2>4
  <1>12. ASSUME known \in Cards, Revised(t, a, known, ch)
         PROVE  \A d \in Cards : \/ Untold(s, a, d)
                                 \/ (d \in a.born \/ Upto(i + 1, d)) /\ NotedOnce(s, a, d, ch)
    <2>1. Untold(s, t, known)
      BY <1>2, <1>5, <1>6, <1>12
    <2>2. a.born = t.born
          /\ (Unnoted(t, a) \/ \E x \in Told \ {NoState} : Noted(t, a, known, ch, x))
      <3> HIDE DEF known
      <3> QED BY <1>12 DEF Revised
    <2> HIDE DEF Upto, known
    <2>3. CASE Unnoted(t, a)
      <3>1. \A c \in Cards : Untold(t, a, c)
        BY <2>3 DEF Unnoted, Untold
      <3> QED BY <1>4, <1>6, <1>8, <2>2, <3>1
    <2>4. CASE \E x \in Told \ {NoState} : Noted(t, a, known, ch, x)
      BY <1>9, <1>12, <2>1, <2>2, <2>4
    <2> QED BY <2>2, <2>3, <2>4
  <1> HIDE DEF Upto, known, u
  <1> QED
    BY <1>3, <1>10, <1>11, <1>12 DEF Effect, known

\* A card's last chapter: its state is of no later one, and it is the same in memory.
Dated(t, c, ch) ==
    /\ t.origin[c] <= t.db.card[c].last /\ t.db.card[c].last <= ch
    /\ t.mem[c].name # NoName => t.mem[c].last = t.db.card[c].last

LEMMA StaysDated ==
    ASSUME NEW t \in Sessions, Firm(t), PastIsNamed(t.db), NEW u \in Updates,
           NEW ch \in 1..CardChapters, NEW high \in BOOLEAN, NEW d \in Cards, Dated(t, d, ch),
           NEW a, a = Applied(t, ch, u, high)
    PROVE  Dated(a, d, ch)
  <1> DEFINE known == Find(t.mem, u.name, high)
  <1>1. Effect(t, a, ch, u, high)
    BY AppliedDoes
  <1>2. /\ t.mem \in [Cards -> CardRecords] /\ t.db.card \in [Cards -> CardRecords]
        /\ t.origin \in [Cards -> Nat] /\ ch \in Nat
    BY CardsAssumption DEF Sessions, Tables
  <1>3. t.db.card[d].last \in Nat
    BY <1>2 DEF CardRecords
  <1>4. CASE Idled(t, a)
    BY <1>4 DEF Idled, Unnoted, Dated
  <1>5. ASSUME NEW c \in Cards, Entered(t, a, c, u, ch)
        PROVE  Dated(a, d, ch)
    <2>1. PICK r \in CardRecords :
            /\ r.last = ch /\ a.mem = [t.mem EXCEPT ![c] = r]
            /\ a.db.card = [t.db.card EXCEPT ![c] = r]
            /\ a.origin = [t.origin EXCEPT ![c] = ch]
      BY <1>5 DEF Entered, Noted
    <2>2. CASE d = c
      <3>1. a.mem[d] = r /\ a.db.card[d] = r /\ a.origin[d] = ch
        BY <1>2, <2>1, <2>2
      <3> QED BY <1>2, <2>1, <3>1 DEF Dated
    <2>3. CASE d # c
      <3>1. a.mem[d] = t.mem[d] /\ a.db.card[d] = t.db.card[d] /\ a.origin[d] = t.origin[d]
        BY <1>2, <2>1, <2>3
      <3> QED BY <3>1 DEF Dated
    <2> QED BY <2>2, <2>3
  <1>6. ASSUME known \in Cards, known # 0, Revised(t, a, known, ch)
        PROVE  Dated(a, d, ch)
    <2>1. known \in Holders(t.mem, u.name) /\ u.name # NoName
      <3>1. u.name # NoName
        BY CardsAssumption DEF Updates
      <3> QED BY <1>6, <3>1, FindFinds
    <2>2. t.mem[known].name # NoName
      <3>1. t.mem[known] # Unborn /\ t.mem[known] \in CardRecords
        BY <1>2, <1>6, <2>1 DEF Holders, Unborn, Updates
      <3> QED BY <3>1, NameTellsUnborn
    <2> HIDE DEF known
    <2>3. PICK new \in CardRecords, w \in CardRecords :
            /\ new.last = ch /\ Columns(w, t.mem[known], new, t.db.card[known])
            /\ a.mem = [t.mem EXCEPT ![known] = new]
            /\ a.db.card = [t.db.card EXCEPT ![known] = w]
            /\ Unnoted(t, a) \/ \E x \in Told \ {NoState} : Noted(t, a, known, ch, x)
      BY <1>6 DEF Revised
    <2>4. a.origin = t.origin \/ a.origin = [t.origin EXCEPT ![known] = ch]
      BY <2>3 DEF Noted, Unnoted
    <2>5. CASE d = known
      <3>1. a.mem[d] = new /\ a.db.card[d] = w
        BY <1>2, <2>3, <2>5
      <3>2. w.last = ch
        BY <2>2, <2>3, <2>5 DEF Columns, Dated
      <3>3. a.origin[d] = t.origin[d] \/ a.origin[d] = ch
        BY <1>2, <2>4, <2>5
      <3>4. t.origin[d] \in Nat /\ t.origin[d] <= t.db.card[d].last /\ t.db.card[d].last <= ch
        BY <1>2 DEF Dated
      <3>5. a.origin[d] <= ch /\ ch <= ch
        BY <1>2, <1>3, <3>3, <3>4
      <3> QED BY <2>3, <3>1, <3>2, <3>5 DEF Dated
    <2>6. CASE d # known
      <3>1. a.mem[d] = t.mem[d] /\ a.db.card[d] = t.db.card[d] /\ a.origin[d] = t.origin[d]
        BY <1>2, <2>3, <2>4, <2>6
      <3> QED BY <3>1 DEF Dated
    <2> QED BY <2>5, <2>6
  <1>7. 0 \notin Cards
    BY CardsAssumption
  <1> QED
    BY <1>1, <1>4, <1>5, <1>6, <1>7 DEF Effect

\* The session after i updates.
Standing(s, t, us, ch, high, i) ==
    /\ NamesKept(s, t, us, i)
    /\ CardsDiffer(s, us, high) => NotedAtMostOnce(s, t, us, ch, high, i)
    /\ \A c \in Cards : Dated(s, c, ch) => Dated(t, c, ch)

LEMMA UpdatesStand ==
    ASSUME NEW s \in Sessions, s.born = {}, Firm(s), PastIsNamed(s.db),
           NEW us \in Seq(Updates), NamesDiffer(us),
           NEW ch \in 1..CardChapters, NEW high \in BOOLEAN
    PROVE  Standing(s, AfterUpdates(s, ch, us, high), us, ch, high, Len(us))
  <1> DEFINE n == Len(us)
  <1>1. PICK f : /\ Between(f, s, ch, us, high, n)
                 /\ AfterUpdates(s, ch, us, high) = f[n]
    BY AfterUpdatesIsLast
  <1>2. n \in Nat
    OBVIOUS
  <1> DEFINE K == {i \in 0..n : Standing(s, f[i], us, ch, high, i)}
  <1>3. 0 \in K
    <2>1. 0 \in 0..n /\ f[0] = s
      BY <1>1, <1>2 DEF Between
    <2>2. NamesKept(s, s, us, 0)
      BY DEF NamesKept
    <2>3. NotedAtMostOnce(s, s, us, ch, high, 0)
      BY DEF NotedAtMostOnce, Untold
    <2> QED BY <2>1, <2>2, <2>3 DEF Standing
  <1>4. ASSUME NEW i \in 0..n, i < n, i \in K
        PROVE  i + 1 \in K
    <2>1. i + 1 \in 0..n /\ i + 1 # 0 /\ (i + 1) - 1 = i /\ i \in 0..Len(us) /\ i < Len(us)
      BY <1>4
    <2>2. f[i + 1] = Applied(f[i], ch, us[i + 1], high)
      <3>1. f[i + 1] = Applied(f[(i + 1) - 1], ch, us[i + 1], high)
        <4> HIDE DEF n
        <4> QED BY <1>1, <2>1 DEF Between
      <3> QED BY <2>1, <3>1
    <2>3. Standing(s, f[i], us, ch, high, i)
      BY <1>4
    <2> HIDE DEF K, n
    <2> DEFINE t == f[i]
               a == f[i + 1]
    <2>4. NamesKept(s, t, us, i) /\ a = Applied(t, ch, us[i + 1], high)
      BY <2>2, <2>3 DEF Standing
    <2>5. NamesKept(s, a, us, i + 1)
      <3> HIDE DEF t, a
      <3> QED BY <2>1, <2>4, NamesStayKept
    <2>6. ASSUME CardsDiffer(s, us, high)
          PROVE  NotedAtMostOnce(s, a, us, ch, high, i + 1)
      <3>1. NotedAtMostOnce(s, t, us, ch, high, i)
        BY <2>3, <2>6 DEF Standing
      <3> HIDE DEF t, a
      <3> QED BY <2>1, <2>4, <2>6, <3>1, StaysNotedOnce
    <2>7. ASSUME NEW c \in Cards, Dated(s, c, ch)
          PROVE  Dated(a, c, ch)
      <3>1. Dated(t, c, ch)
        BY <2>3, <2>7 DEF Standing
      <3>2. t \in Sessions /\ Firm(t) /\ PastIsNamed(t.db)
        BY <2>4 DEF NamesKept
      <3> DEFINE u == us[i + 1]
      <3>3. u \in Updates /\ a = Applied(t, ch, u, high)
        BY <2>1, <2>4
      <3> HIDE DEF t, a, u
      <3> QED BY <3>1, <3>2, <3>3, StaysDated
    <2>8. Standing(s, a, us, ch, high, i + 1)
      BY <2>5, <2>6, <2>7 DEF Standing
    <2> QED BY <2>1, <2>8 DEF K
  <1>5. n \in K
    <2> HIDE DEF K, n
    <2>1. \A i \in 0..n : i \in K
      BY <1>2, <1>3, <1>4, Upwards
    <2> QED BY <1>2, <2>1
  <1> QED
    BY <1>1, <1>5

\* Linking a card links it to whom it names.
LEMMA LinkedIsLinked ==
    ASSUME NEW s \in Sessions, NEW C, NEW ch \in Nat, ch # 0, NEW high,
           NEW c \in Cards, c \in C, NEW n \in View(s)[c].links,
           NEW t \in Cards, t # c, Find(View(s), n, high) = t
    PROVE  Settled(s, C, ch, high).db.link[c][t] # 0
  <1> DEFINE wanted(e) == {Find(View(s), m, high) : m \in View(s)[e].links} \ {0, e}
             L == [e \in Cards |-> IF e \notin C THEN s.db.link[e]
                   ELSE [x \in Cards |-> IF x \notin wanted(e) THEN 0
                          ELSE IF s.db.link[e][x] # 0 THEN s.db.link[e][x] ELSE ch]]
             l == Linked(s, C, ch, high)
  <1>1. l = [s EXCEPT !.db.link = L]
    BY DEF Linked
  <1>2. l \in Sessions
    BY LinkedKeeps
  <1>3. Settled(s, C, ch, high) = Digested(l, C)
    BY DEF Settled
  <1>4. t \in wanted(c)
    BY CardsAssumption
  <1>5. L[c][t] # 0
    <2> HIDE DEF wanted
    <2> QED BY <1>4
  <1>6. l.db.link = L
    <2> HIDE DEF L, l
    <2> QED BY <1>1 DEF Sessions, Tables
  <1> HIDE DEF L, l
  <1>7. Digested(l, C).db.link = l.db.link
    BY <1>2, DigestedKeeps
  <1> QED BY <1>3, <1>5, <1>6, <1>7

\* A card that is no newcomer is called in the tables what the session calls it.
CalledAsRead(s, t) ==
    \/ s.db.card[t].name = NoName
    \/ \A d \in Cards : s.mem[d].name # NoName =>
          /\ s.mem[d].name = s.db.card[d].name
          /\ s.mem[d].aliases = s.db.card[d].aliases

\* The newcomers of an extraction know each other, and the others as the session
\* knows them.
LEMMA NewcomersLinked ==
    ASSUME NEW s \in Sessions, s.born = {}, Firm(s), PastIsNamed(s.db),
           NEW us \in Seq(Updates), NamesDiffer(us),
           NEW ch \in 1..CardChapters, NEW high \in BOOLEAN,
           NEW a, a = Batched(s, ch, us, high),
           NEW c \in Cards, s.db.card[c].name = NoName, a.db.card[c].name # NoName,
           NEW n \in a.db.card[c].links, NEW t \in Cards, t # c,
           Holders(a.db.card, n) = {t},
           CalledAsRead(s, t)
    PROVE  a.db.link[c][t] # 0
  <1> DEFINE e == AfterUpdates(s, ch, us, high)
             V == View(e)
  <1>1. NamesKept(s, e, us, Len(us))
    BY UpdatesStand DEF Standing
  <1>2. a = Settled(e, e.born, ch, high)
    BY DEF Batched
  <1> HIDE DEF e
  <1>3. e \in Sessions /\ ch \in Nat /\ ch # 0
    BY <1>1, CardsAssumption DEF NamesKept
  <1>4. a.db.card = e.db.card
    BY <1>2, <1>3, SettledKeeps DEF Alike
  <1>5. e.mem \in [Cards -> CardRecords] /\ e.db.card \in [Cards -> CardRecords]
        /\ e.born \subseteq Cards /\ s.mem \in [Cards -> CardRecords]
        /\ s.db.card \in [Cards -> CardRecords]
    BY <1>3 DEF Sessions, Tables
  <1>6. c \in e.born
    BY <1>1, <1>4 DEF NamesKept
  <1>7. \A d \in Cards : V[d] = IF e.mem[d].name = NoName THEN e.db.card[d] ELSE e.mem[d]
    BY <1>5, NameTellsUnborn DEF View
  <1>8. \A d \in e.born : /\ e.mem[d] = e.db.card[d] /\ e.mem[d].aliases = {}
                          /\ e.mem[d].name # NoName
    <2>1. ASSUME NEW d \in e.born
          PROVE  e.mem[d].name # NoName
      <3>1. NewName(s, e.mem[d], us, Len(us))
        BY <1>1 DEF NamesKept
      <3>2. PICK j \in 1..Len(us) : e.mem[d].name = us[j].name
        BY <3>1 DEF NewName
      <3>3. us[j] \in Updates
        OBVIOUS
      <3> QED BY <3>2, <3>3, CardsAssumption DEF Updates
    <2> QED BY <1>1, <2>1 DEF NamesKept
  <1> HIDE DEF V
  <1>9. n \in V[c].links /\ n \in CardNames
    <2>1. V[c] = e.db.card[c]
      BY <1>5, <1>6, <1>7, <1>8
    <2>2. e.db.card[c].links \subseteq CardNames
      BY <1>5 DEF CardRecords
    <2> QED BY <1>4, <2>1, <2>2
  <1>10. ASSUME NEW d \in Cards
         PROVE  d \in Holders(V, n) <=> d \in Holders(e.db.card, n)
    <2>1. CASE d \in e.born \/ e.mem[d].name = NoName
      <3>1. V[d] = e.db.card[d]
        BY <1>7, <1>8, <2>1
      <3> QED BY <3>1 DEF Holders
    <2>2. CASE d \notin e.born /\ e.mem[d].name # NoName
      <3>1. /\ e.db.card[d].name = s.db.card[d].name
            /\ e.db.card[d].aliases = s.db.card[d].aliases
            /\ e.mem[d].name = s.mem[d].name /\ e.mem[d].aliases = s.mem[d].aliases
        BY <1>1, <2>2 DEF NamesKept
      <3>2. V[d] = e.mem[d]
        BY <1>7, <2>2
      <3>3. CASE \A x \in Cards : s.mem[x].name # NoName =>
                   /\ s.mem[x].name = s.db.card[x].name
                   /\ s.mem[x].aliases = s.db.card[x].aliases
        <4>1. e.mem[d].name = e.db.card[d].name /\ e.mem[d].aliases = e.db.card[d].aliases
          BY <2>2, <3>1, <3>3
        <4> QED BY <3>2, <4>1 DEF Holders
      <3>4. CASE s.db.card[t].name = NoName
        <4>1. t \in Holders(e.db.card, n)
          BY <1>4
        <4>2. e.db.card[t].name # NoName
          <5>1. e.db.card[t] # Unborn
            BY <1>9, <4>1, CardsAssumption DEF Holders, Unborn
          <5> QED BY <1>5, <5>1, NameTellsUnborn
        <4>3. t \in e.born
          BY <1>1, <3>4, <4>2 DEF NamesKept
        <4>4. e.mem[t].name = n /\ e.mem[t] = e.db.card[t]
          BY <1>8, <4>1, <4>3 DEF Holders
        <4>5. NewName(s, e.mem[t], us, Len(us))
          BY <1>1, <4>3 DEF NamesKept
        <4>6. Holders(s.mem, n) = {}
          BY <4>4, <4>5 DEF NewName
        <4>7. d \notin Holders(V, n)
          BY <3>1, <3>2, <4>6 DEF Holders
        <4>8. d # t
          BY <2>2, <4>3
        <4>9. d \notin Holders(e.db.card, n)
          BY <1>4, <4>8
        <4> QED BY <4>7, <4>9
      <3> QED BY <3>3, <3>4 DEF CalledAsRead
    <2> QED BY <2>1, <2>2
  <1>11. Holders(V, n) = {t}
    <2>1. Holders(V, n) \subseteq Cards /\ Holders(e.db.card, n) = {t}
      BY <1>4 DEF Holders
    <2> QED BY <1>10, <2>1
  <1>12. Find(V, n, high) = t
    BY <1>11, FindFinds
  <1>13. Settled(e, e.born, ch, high).db.link[c][t] # 0
    <2>1. n \in View(e)[c].links /\ Find(View(e), n, high) = t
      BY <1>9, <1>12 DEF V
    <2> QED BY <1>3, <1>6, <2>1, LinkedIsLinked
  <1> QED BY <1>2, <1>13

-----------------------------------------------------------------------------
(* The inductive invariant of the cards.                                   *)

CardTypes ==
    /\ cast \in Tables /\ chapters \in 0..CardChapters
    /\ batch.read \in [Cards -> CardRecords]
    /\ batch # NoBatch => /\ batch.ch \in 1..CardChapters
                          /\ batch.updates \in Seq(Updates) /\ NamesDiffer(batch.updates)
    /\ seen \in History /\ origin \in [Cards -> Nat]
    /\ orderly \in BOOLEAN /\ meddled \subseteq Cards

\* What was listed is in the tables, and payloads were kept of cards that existed.
ReadIsThere == \A c \in Cards : batch.read[c].name # NoName => cast.card[c].name # NoName

\* Rows are what was seen; where a row was spared, the row before says the same;
\* and of chapters to come there is nothing.
RowsAreSeen(c) ==
    \A d \in 1..CardChapters :
        /\ d > chapters => cast.row[c][d] = NoState /\ seen[c][d] = NoState
        /\ cast.row[c][d] # NoState => seen[c][d] = cast.row[c][d]
        /\ seen[c][d] # NoState /\ cast.row[c][d] = NoState =>
              StateAt(cast, c, d - 1) = seen[c][d]

\* Of a card that no hand has redated.
DatesHold(c) ==
    /\ origin[c] <= cast.card[c].last /\ cast.card[c].last <= chapters
    /\ batch.read[c].name # NoName => batch.read[c].last = cast.card[c].last

CardsInv ==
    /\ CardTypes /\ ReadIsThere /\ PastIsNamed(cast)
    /\ orderly => /\ \A c \in Cards : RowsAreSeen(c)
                  /\ \A c \in Cards \ meddled : DatesHold(c)

LEMMA FreshIsSession ==
    ASSUME CardTypes, PastIsNamed(cast)
    PROVE  /\ Fresh \in Sessions /\ Fresh.db = cast /\ View(Fresh) = cast.card
           /\ PastIsNamed(Fresh.db)
  <1>1. [c \in Cards |-> Unborn] \in [Cards -> CardRecords]
    BY UnbornIsRecord
  <1>2. Fresh \in Sessions
    BY <1>1 DEF Fresh, Session, Sessions, CardTypes
  <1>3. Fresh.db = cast /\ Fresh.mem = [c \in Cards |-> Unborn]
    BY DEF Fresh, Session
  <1>4. cast.card = [c \in Cards |-> cast.card[c]]
    BY DEF CardTypes, Tables
  <1> HIDE DEF Fresh
  <1>5. View(Fresh) = [c \in Cards |-> cast.card[c]]
    BY <1>3 DEF View
  <1> QED BY <1>2, <1>3, <1>4, <1>5

LEMMA ListedIsSession ==
    ASSUME CardTypes, PastIsNamed(cast), ReadIsThere
    PROVE  LET s == Session(batch.read)
           IN /\ s \in Sessions /\ Firm(s) /\ PastIsNamed(s.db) /\ s.born = {}
              /\ s.db = cast /\ s.mem = batch.read /\ s.seen = seen /\ s.origin = origin
  <1>1. Session(batch.read) \in Sessions
    BY DEF Session, Sessions, CardTypes
  <1> QED BY <1>1 DEF Session, Firm, ReadIsThere

\* The chapters up to n with a row, and with a state that was seen.
RowsUpTo(db, c, n) == {d \in 1..n : db.row[c][d] # NoState}
SeenUpTo(c, n) == {d \in 1..n : seen[c][d] # NoState}

LEMMA LatestUpTo ==
    ASSUME NEW n \in Nat, NEW R, R \subseteq 1..n, R # {}
    PROVE  Latest(R) \in R /\ \A d \in R : d <= Latest(R)
  <1>1. IsFiniteSet(1..n) /\ 1..n \subseteq Nat
    BY FS_Interval
  <1>2. IsFiniteSet(R)
    BY <1>1, FS_Subset
  <1> QED BY <1>1, <1>2, LatestOf

LEMMA StateAtRow ==
    ASSUME NEW db, NEW c, NEW n \in Nat
    PROVE  /\ RowsUpTo(db, c, n) = {} => StateAt(db, c, n) = NoState
           /\ RowsUpTo(db, c, n) # {} =>
                /\ StateAt(db, c, n) = db.row[c][Latest(RowsUpTo(db, c, n))]
                /\ Latest(RowsUpTo(db, c, n)) \in RowsUpTo(db, c, n)
                /\ \A d \in RowsUpTo(db, c, n) : d <= Latest(RowsUpTo(db, c, n))
  <1>1. StateAt(db, c, n) = IF RowsUpTo(db, c, n) = {} THEN NoState
                            ELSE db.row[c][Latest(RowsUpTo(db, c, n))]
    BY DEF StateAt, RowsUpTo
  <1>2. RowsUpTo(db, c, n) \subseteq 1..n
    BY DEF RowsUpTo
  <1> QED BY <1>1, <1>2, LatestUpTo

LEMMA SameRowsBelow ==
    ASSUME NEW p, NEW q, NEW c, NEW n \in Nat, \A d \in 1..n : p.row[c][d] = q.row[c][d]
    PROVE  StateAt(p, c, n) = StateAt(q, c, n)
  <1>1. RowsUpTo(p, c, n) = RowsUpTo(q, c, n)
    BY DEF RowsUpTo
  <1>2. \A d \in RowsUpTo(p, c, n) : p.row[c][d] = q.row[c][d]
    BY DEF RowsUpTo
  <1> QED BY <1>1, <1>2, StateAtRow

\* The sparse history is exact.
LEMMA RowsSeenIsExact ==
    ASSUME CardTypes, NEW c \in Cards, RowsAreSeen(c), NEW n \in 1..chapters
    PROVE  StateAt(cast, c, n) = IF SeenUpTo(c, n) = {} THEN NoState
                                 ELSE seen[c][Latest(SeenUpTo(c, n))]
  <1> DEFINE S == SeenUpTo(c, n)
             R == RowsUpTo(cast, c, n)
  <1>1. n \in Nat /\ \A d \in 1..n : d \in 1..CardChapters /\ d \in Nat /\ d - 1 \in Nat
    BY CardsAssumption DEF CardTypes
  <1>2. R \subseteq S /\ S \subseteq 1..n
    BY <1>1 DEF RowsAreSeen, RowsUpTo, SeenUpTo
  <1>3. CASE S = {}
    <2>1. R = {}
      BY <1>2, <1>3
    <2>2. StateAt(cast, c, n) = NoState
      BY <1>1, <2>1, StateAtRow
    <2> QED BY <1>3, <2>2
  <1>4. CASE S # {}
    <2> DEFINE m == Latest(S)
    <2>1. m \in S /\ \A d \in S : d <= m
      <3> HIDE DEF S
      <3> QED BY <1>1, <1>2, <1>4, LatestUpTo
    <2> HIDE DEF m
    <2>2. m \in 1..n /\ m \in 1..CardChapters /\ seen[c][m] # NoState
      BY <1>1, <2>1 DEF SeenUpTo
    <2>3. CASE cast.row[c][m] # NoState
      <3>1. m \in R /\ \A d \in R : d <= m
        BY <1>2, <2>1, <2>2, <2>3 DEF RowsUpTo
      <3>2. Latest(R) \in R /\ m <= Latest(R) /\ StateAt(cast, c, n) = cast.row[c][Latest(R)]
        <4> HIDE DEF S
        <4> QED BY <1>1, <3>1, StateAtRow
      <3>3. Latest(R) = m
        <4>1. Latest(R) \in Nat /\ Latest(R) <= m /\ m \in Nat
          BY <1>1, <1>2, <2>2, <3>1, <3>2
        <4> QED BY <3>2, <4>1
      <3>4. seen[c][m] = cast.row[c][m]
        BY <2>2, <2>3 DEF RowsAreSeen
      <3> QED BY <1>4, <3>2, <3>3, <3>4 DEF m
    <2>4. CASE cast.row[c][m] = NoState
      <3>1. StateAt(cast, c, m - 1) = seen[c][m] /\ m - 1 \in Nat
        BY <1>1, <2>2, <2>4 DEF RowsAreSeen
      <3>2. R = RowsUpTo(cast, c, m - 1)
        <4>1. ASSUME NEW d \in R PROVE d \in 1..(m - 1) /\ cast.row[c][d] # NoState
          <5>1. d \in S /\ d \in 1..n /\ d # m /\ cast.row[c][d] # NoState
            BY <1>2, <2>4 DEF RowsUpTo
          <5>2. d <= m
            BY <2>1, <5>1
          <5> QED BY <2>2, <5>1, <5>2
        <4>2. ASSUME NEW d \in 1..(m - 1), cast.row[c][d] # NoState PROVE d \in R
          BY <1>1, <2>2, <4>2 DEF RowsUpTo
        <4> QED BY <4>1, <4>2 DEF RowsUpTo
      <3>3. StateAt(cast, c, n) = StateAt(cast, c, m - 1)
        BY <1>1, <3>1, <3>2, StateAtRow
      <3> QED BY <1>4, <3>1, <3>3 DEF m
    <2> QED BY <2>3, <2>4
  <1> QED BY <1>3, <1>4

-----------------------------------------------------------------------------
(* The invariant holds at the start and is kept by each action.            *)

LEMMA NoBatchIsUnborn ==
    /\ NoBatch.read \in [Cards -> CardRecords] /\ NoBatch.ch = 0
    /\ \A c \in Cards : NoBatch.read[c].name = NoName
  BY UnbornIsRecord DEF NoBatch, Unborn

LEMMA CardsInvStarts == CardsInit => CardsInv
  <1> SUFFICES ASSUME CardsInit PROVE CardsInv
    OBVIOUS
  <1>1. /\ cast.card = [c \in Cards |-> Unborn] /\ chapters = 0 /\ batch = NoBatch
        /\ cast.row = [c \in Cards |-> [d \in 1..CardChapters |-> NoState]]
        /\ seen = [c \in Cards |-> [d \in 1..CardChapters |-> NoState]]
        /\ origin = [c \in Cards |-> 0] /\ orderly = TRUE /\ meddled = {}
        /\ cast.past = [c \in Cards |-> {}]
    BY DEF CardsInit
  <1>2. cast \in Tables
    <2>1. NoState \in Told
      BY DEF Told
    <2>2. [c \in Cards |-> [d \in 1..CardChapters |-> NoState]] \in History
      BY <2>1 DEF History
    <2>3. [c \in Cards |-> Unborn] \in [Cards -> CardRecords]
      BY UnbornIsRecord
    <2> QED BY <2>2, <2>3 DEF CardsInit, Tables
  <1>3. CardTypes
    <2>1. seen \in History
      BY <1>1, <1>2 DEF Tables
    <2>2. chapters \in 0..CardChapters /\ origin \in [Cards -> Nat]
      BY <1>1, CardsAssumption
    <2> QED BY <1>1, <1>2, <2>1, <2>2, NoBatchIsUnborn DEF CardTypes
  <1>4. ReadIsThere /\ PastIsNamed(cast)
    BY <1>1, NoBatchIsUnborn DEF ReadIsThere, PastIsNamed
  <1>5. \A c \in Cards : RowsAreSeen(c)
    BY <1>1 DEF RowsAreSeen
  <1>6. \A c \in Cards : DatesHold(c)
    BY <1>1, NoBatchIsUnborn DEF DatesHold, Unborn
  <1> QED BY <1>3, <1>4, <1>5, <1>6 DEF CardsInv

LEMMA ListingKeeps ==
    ASSUME CardsInv, NEW ch \in 1..CardChapters, NEW us \in Batches, ListCards(ch, us)
    PROVE  CardsInv'
  <1>1. /\ batch' = [ch |-> ch, updates |-> us, read |-> cast.card]
        /\ UNCHANGED <<cast, chapters, seen, origin, orderly, meddled>>
    BY DEF ListCards
  <1>2. us \in Seq(Updates) /\ NamesDiffer(us)
    BY DEF Batches, SeqOf, NamesDiffer
  <1>3. batch'.ch = ch /\ batch'.updates = us /\ batch'.read = cast.card
    BY <1>1
  <1>4. CardTypes'
    BY <1>1, <1>2, <1>3 DEF CardsInv, CardTypes, Tables
  <1>5. ReadIsThere' /\ PastIsNamed(cast)'
    BY <1>1, <1>3 DEF ReadIsThere, CardsInv, PastIsNamed
  <1>6. \A c : RowsAreSeen(c)' <=> RowsAreSeen(c)
    BY <1>1 DEF RowsAreSeen, StateAt
  <1>7. \A c : DatesHold(c) => DatesHold(c)'
    BY <1>1, <1>3 DEF DatesHold
  <1> QED BY <1>1, <1>4, <1>5, <1>6, <1>7 DEF CardsInv

\* What is left of a session by an extraction.
LEMMA BatchStands ==
    ASSUME CardsInv, batch # NoBatch, NEW high \in BOOLEAN,
           NEW a, a = Batched(Session(batch.read), batch.ch, batch.updates, high)
    PROVE  /\ a \in Sessions /\ PastIsNamed(a.db)
           /\ CardsDiffer(Session(batch.read), batch.updates, high) =>
                 \A c \in Cards :
                    Untold(Session(batch.read), a, c) \/ NotedOnce(Session(batch.read), a, c, batch.ch)
           /\ \A c \in Cards : Dated(Session(batch.read), c, batch.ch) =>
                 a.origin[c] <= a.db.card[c].last /\ a.db.card[c].last <= batch.ch
  <1> DEFINE s == Session(batch.read)
             e == AfterUpdates(s, batch.ch, batch.updates, high)
  <1>1. s \in Sessions /\ Firm(s) /\ PastIsNamed(s.db) /\ s.born = {}
    BY ListedIsSession DEF CardsInv
  <1>2. batch.ch \in 1..CardChapters /\ batch.updates \in Seq(Updates)
        /\ NamesDiffer(batch.updates)
    BY DEF CardsInv, CardTypes
  <1> HIDE DEF s
  <1>3. Standing(s, e, batch.updates, batch.ch, high, Len(batch.updates))
    BY <1>1, <1>2, UpdatesStand
  <1>4. a = Settled(e, e.born, batch.ch, high)
    BY DEF Batched, s
  <1> HIDE DEF e
  <1>5. e \in Sessions /\ PastIsNamed(e.db) /\ batch.ch \in Nat
    BY <1>2, <1>3, CardsAssumption DEF Standing, NamesKept
  <1>6. a \in Sessions /\ Alike(e, a)
    BY <1>4, <1>5, SettledKeeps
  <1>7. PastIsNamed(a.db)
    BY <1>5, <1>6 DEF Alike, PastIsNamed
  <1>8. ASSUME CardsDiffer(s, batch.updates, high), NEW c \in Cards
        PROVE  Untold(s, a, c) \/ NotedOnce(s, a, c, batch.ch)
    <2>1. Untold(s, e, c) \/ NotedOnce(s, e, c, batch.ch)
      BY <1>3, <1>8 DEF Standing, NotedAtMostOnce
    <2> QED BY <1>6, <2>1 DEF Alike, Untold, NotedOnce
  <1>9. ASSUME NEW c \in Cards, Dated(s, c, batch.ch)
        PROVE  a.origin[c] <= a.db.card[c].last /\ a.db.card[c].last <= batch.ch
    <2>1. Dated(e, c, batch.ch)
      BY <1>3, <1>9 DEF Standing
    <2> QED BY <1>6, <2>1 DEF Alike, Dated
  <1> QED BY <1>6, <1>7, <1>8, <1>9 DEF s

\* Rows and histories of a card no action has touched.
LEMMA RowsStaySeen ==
    ASSUME CardTypes, NEW c \in Cards, RowsAreSeen(c), chapters' \in Nat, chapters <= chapters',
           cast'.row[c] = cast.row[c], seen'[c] = seen[c]
    PROVE  RowsAreSeen(c)'
  <1> SUFFICES ASSUME NEW d \in 1..CardChapters
               PROVE  /\ d > chapters' => cast'.row[c][d] = NoState /\ seen'[c][d] = NoState
                      /\ cast'.row[c][d] # NoState => seen'[c][d] = cast'.row[c][d]
                      /\ seen'[c][d] # NoState /\ cast'.row[c][d] = NoState =>
                            StateAt(cast', c, d - 1) = seen'[c][d]
    BY DEF RowsAreSeen
  <1>1. d - 1 \in Nat /\ d \in Nat /\ chapters \in Nat
    BY CardsAssumption DEF CardTypes
  <1>2. StateAt(cast', c, d - 1) = StateAt(cast, c, d - 1)
    BY <1>1, SameRowsBelow
  <1>3. d > chapters' => d > chapters
    BY <1>1
  <1> QED BY <1>2, <1>3 DEF RowsAreSeen

LEMMA NotingKeepsRows ==
    ASSUME CardTypes, NEW c \in Cards, RowsAreSeen(c), chapters + 1 \in 1..CardChapters,
           chapters' = chapters + 1, NEW x \in Told \ {NoState},
           seen'[c] = [seen[c] EXCEPT ![chapters + 1] = x],
           \/ cast'.row[c] = [cast.row[c] EXCEPT ![chapters + 1] = x]
           \/ cast'.row[c] = cast.row[c] /\ StateAt(cast, c, chapters) = x
    PROVE  RowsAreSeen(c)'
  <1> SUFFICES ASSUME NEW d \in 1..CardChapters
               PROVE  /\ d > chapters' => cast'.row[c][d] = NoState /\ seen'[c][d] = NoState
                      /\ cast'.row[c][d] # NoState => seen'[c][d] = cast'.row[c][d]
                      /\ seen'[c][d] # NoState /\ cast'.row[c][d] = NoState =>
                            StateAt(cast', c, d - 1) = seen'[c][d]
    BY DEF RowsAreSeen
  <1>1. d - 1 \in Nat /\ d \in Nat /\ chapters \in Nat
    BY CardsAssumption DEF CardTypes
  <1>2. seen[c] \in [1..CardChapters -> Told] /\ cast.row[c] \in [1..CardChapters -> Told]
    BY DEF CardTypes, History, Tables
  <1>3. /\ seen'[c][chapters + 1] = x
        /\ \A b \in 1..CardChapters : b # chapters + 1 => /\ seen'[c][b] = seen[c][b]
                                                          /\ cast'.row[c][b] = cast.row[c][b]
    BY <1>2
  <1>4. d <= chapters + 1 => StateAt(cast', c, d - 1) = StateAt(cast, c, d - 1)
    <2> SUFFICES ASSUME d <= chapters + 1
                 PROVE  \A b \in 1..(d - 1) : cast'.row[c][b] = cast.row[c][b]
      BY <1>1, SameRowsBelow
    <2> TAKE b \in 1..(d - 1)
    <2>1. b \in 1..CardChapters /\ b # chapters + 1
      BY <1>1, CardsAssumption
    <2> QED BY <1>3, <2>1
  <1>5. CASE d > chapters + 1
    BY <1>1, <1>3, <1>5 DEF RowsAreSeen
  <1>6. CASE d < chapters + 1
    BY <1>1, <1>3, <1>4, <1>6 DEF RowsAreSeen
  <1>7. CASE d = chapters + 1
    <2>1. cast.row[c][d] = NoState
      BY <1>1, <1>7 DEF RowsAreSeen
    <2>2. d - 1 = chapters
      BY <1>1, <1>7
    <2>3. \/ cast'.row[c][d] = x
          \/ cast'.row[c][d] = NoState /\ StateAt(cast, c, d - 1) = x
      BY <1>2, <1>7, <2>1, <2>2
    <2> QED BY <1>1, <1>3, <1>4, <1>7, <2>3
  <1> QED BY <1>1, <1>5, <1>6, <1>7

LEMMA ApplyingKeeps ==
    ASSUME CardsInv, ApplyBatch
    PROVE  CardsInv'
  <1>1. batch # NoBatch /\ batch' = NoBatch /\ meddled' = meddled
    BY DEF ApplyBatch
  <1>2. PICK high \in BOOLEAN :
          LET s == Batched(Session(batch.read), batch.ch, batch.updates, high) IN
          IF s.ok
          THEN /\ cast' = s.db /\ seen' = s.seen /\ origin' = s.origin
               /\ orderly' = (orderly /\ batch.ch = chapters + 1 /\ OneNameEach)
               /\ chapters' = IF batch.ch > chapters THEN batch.ch ELSE chapters
          ELSE UNCHANGED <<cast, seen, origin, orderly, chapters>>
    BY DEF ApplyBatch
  <1> DEFINE a == Batched(Session(batch.read), batch.ch, batch.updates, high)
             z == Session(batch.read)
             ch == batch.ch
  <1>3. /\ a \in Sessions /\ PastIsNamed(a.db)
        /\ CardsDiffer(z, batch.updates, high) =>
              \A c \in Cards : Untold(z, a, c) \/ NotedOnce(z, a, c, ch)
        /\ \A c \in Cards : Dated(z, c, ch) =>
              a.origin[c] <= a.db.card[c].last /\ a.db.card[c].last <= ch
    BY <1>1, BatchStands
  <1>4. \/ /\ cast' = a.db /\ seen' = a.seen /\ origin' = a.origin
           /\ orderly' = (orderly /\ ch = chapters + 1 /\ OneNameEach)
           /\ chapters' = IF ch > chapters THEN ch ELSE chapters
        \/ UNCHANGED <<cast, seen, origin, orderly, chapters>>
    BY <1>2
  <1>5. /\ z.db = cast /\ z.mem = batch.read /\ z.seen = seen /\ z.origin = origin
    BY DEF Session
  <1> HIDE DEF a, z
  <1>6. ch \in 1..CardChapters /\ ch \in Nat /\ chapters \in 0..CardChapters /\ chapters \in Nat
    BY <1>1, CardsAssumption DEF CardsInv, CardTypes
  <1>7. CardTypes'
    <2>3. /\ cast \in Tables /\ seen \in History /\ origin \in [Cards -> Nat]
          /\ orderly \in BOOLEAN
      BY DEF CardsInv, CardTypes
    <2>4. a.db \in Tables /\ a.seen \in History /\ a.origin \in [Cards -> Nat]
      BY <1>3 DEF Sessions
    <2>5. chapters' \in 0..CardChapters
      BY <1>4, <1>6
    <2>6. orderly' \in BOOLEAN
      <3>1. CASE orderly' = orderly
        BY <2>3, <3>1
      <3>2. CASE orderly' = (orderly /\ ch = chapters + 1 /\ OneNameEach)
        BY <3>2, Zenon
      <3> QED BY <1>4, <3>1, <3>2
    <2>1. /\ cast' \in Tables /\ seen' \in History /\ origin' \in [Cards -> Nat]
          /\ chapters' \in 0..CardChapters /\ orderly' \in BOOLEAN
      BY <1>4, <2>3, <2>4, <2>5, <2>6
    <2> QED BY <1>1, <2>1, NoBatchIsUnborn DEF CardsInv, CardTypes
  <1>8. ReadIsThere'
    BY <1>1, NoBatchIsUnborn DEF ReadIsThere
  <1>9. PastIsNamed(cast)'
    BY <1>3, <1>4 DEF CardsInv, PastIsNamed
  <1>10. CASE UNCHANGED <<cast, seen, origin, orderly, chapters>>
    <2>1. \A c : RowsAreSeen(c)' <=> RowsAreSeen(c)
      BY <1>10 DEF RowsAreSeen, StateAt
    <2>2. \A c \in Cards : DatesHold(c) => DatesHold(c)'
      BY <1>1, <1>10, NoBatchIsUnborn DEF DatesHold
    <2> QED BY <1>1, <1>7, <1>8, <1>9, <1>10, <2>1, <2>2 DEF CardsInv
  <1>11. CASE /\ cast' = a.db /\ seen' = a.seen /\ origin' = a.origin
              /\ orderly' = (orderly /\ ch = chapters + 1 /\ OneNameEach)
              /\ chapters' = IF ch > chapters THEN ch ELSE chapters
    <2>1. SUFFICES ASSUME orderly'
                   PROVE  /\ \A c \in Cards : RowsAreSeen(c)'
                          /\ \A c \in Cards \ meddled : DatesHold(c)'
      BY <1>1, <1>7, <1>8, <1>9 DEF CardsInv
    <2>6. orderly /\ ch = chapters + 1 /\ OneNameEach
      BY <1>11, <2>1, Zenon
    <2>2. orderly /\ ch = chapters + 1 /\ OneNameEach /\ chapters' = chapters + 1
      BY <1>6, <1>11, <2>6
    <2>3. CardsDiffer(z, batch.updates, high)
      BY <1>5, <2>2 DEF OneNameEach, CardsDiffer
    <2>4. ASSUME NEW c \in Cards
          PROVE  RowsAreSeen(c)'
      <3>1. CardTypes /\ RowsAreSeen(c)
        BY <2>2 DEF CardsInv
      <3>2. CASE Untold(z, a, c)
        BY <1>5, <1>6, <1>11, <2>2, <3>1, <3>2, RowsStaySeen DEF Untold
      <3>3. CASE NotedOnce(z, a, c, ch)
        <4>1. PICK x \in Told \ {NoState} :
                 /\ seen'[c] = [seen[c] EXCEPT ![ch] = x]
                 /\ \/ cast'.row[c] = [cast.row[c] EXCEPT ![ch] = x]
                    \/ cast'.row[c] = cast.row[c] /\ StateAt(cast, c, ch - 1) = x
          BY <1>5, <1>11, <3>3 DEF NotedOnce
        <4>2. ch - 1 = chapters
          BY <1>6, <2>2
        <4> QED BY <1>6, <2>2, <3>1, <4>1, <4>2, NotingKeepsRows
      <3> QED BY <1>3, <2>3, <3>2, <3>3
    <2>5. ASSUME NEW c \in Cards \ meddled
          PROVE  DatesHold(c)'
      <3>1. DatesHold(c)
        BY <2>2 DEF CardsInv
      <3>2. cast.card[c].last \in Nat
        BY DEF CardsInv, CardTypes, Tables, CardRecords
      <3>3. Dated(z, c, ch)
        BY <1>5, <1>6, <2>2, <3>1, <3>2 DEF DatesHold, Dated
      <3>4. origin'[c] <= cast'.card[c].last /\ cast'.card[c].last <= chapters'
        BY <1>3, <1>11, <2>2, <3>3
      <3> QED BY <1>1, <3>4, NoBatchIsUnborn DEF DatesHold
    <2> QED BY <2>4, <2>5
  <1> QED BY <1>4, <1>10, <1>11

\* The user.
LEMMA GeneratedRecord ==
    ASSUME NEW n, NEW x, NEW L,
           NEW r, r = [Unborn EXCEPT !.name = n, !.state = x, !.links = L]
    PROVE  RecordOf(r, n, {}, x, 0, L)
  BY DEF RecordOf, Unborn

LEMMA GeneratingKeeps ==
    ASSUME CardsInv, NEW n \in CardNames, NEW x \in CardStates, NEW L \in SUBSET CardNames,
           GenerateCard(n, x, L)
    PROVE  CardsInv'
  <1> DEFINE r == [Unborn EXCEPT !.name = n, !.state = x, !.links = L]
  <1>1. PICK c \in Cards, high \in BOOLEAN :
          /\ cast.card[c] = Unborn
          /\ cast' = LET s == Created(Fresh, c, r, high)
                         living == {d \in Cards : s.db.card[d] # Unborn}
                     IN Settled(s, living, 1, high).db
    BY DEF GenerateCard
  <1>2. UNCHANGED <<chapters, batch, seen, origin, orderly, meddled>>
    BY DEF GenerateCard
  <1>3. RecordOf(r, n, {}, x, 0, L)
    <2> SUFFICES ASSUME NEW q, q = r PROVE RecordOf(q, n, {}, x, 0, L)
      OBVIOUS
    <2> QED BY GeneratedRecord
  <1> DEFINE s == Created(Fresh, c, r, high)
             living == {d \in Cards : s.db.card[d] # Unborn}
             a == Settled(s, living, 1, high)
  <1>4. cast' = a.db
    BY <1>1
  <1> HIDE DEF r
  <1>5. x \in Told /\ 0 \in 0..CardChapters /\ {} \in SUBSET CardNames
    BY CardsAssumption DEF Told
  <1>6. r \in CardRecords /\ r.name # NoName /\ r.last = 0
    BY <1>3, <1>5, MakesARecord
  <1>7. Fresh \in Sessions /\ Fresh.db = cast
    BY FreshIsSession DEF CardsInv
  <1>8. s \in Sessions /\ Placed(Fresh, s, c, r)
    BY <1>6, <1>7, CreatedCard
  <1> HIDE DEF s, living
  <1>9. a \in Sessions /\ Alike(s, a)
    BY <1>8, SettledKeeps
  <1>10. /\ cast' \in Tables /\ cast'.card = [cast.card EXCEPT ![c] = r]
         /\ cast'.row = cast.row /\ cast'.past = cast.past
    BY <1>4, <1>7, <1>8, <1>9 DEF Alike, Placed, Sessions
  <1>11. cast.card \in [Cards -> CardRecords]
    BY DEF CardsInv, CardTypes, Tables
  <1>12. CardTypes'
    BY <1>2, <1>10 DEF CardsInv, CardTypes
  <1>13. ReadIsThere'
    BY <1>2, <1>6, <1>10, <1>11 DEF CardsInv, ReadIsThere
  <1>14. PastIsNamed(cast)'
    BY <1>10 DEF CardsInv, PastIsNamed
  <1>15. \A d : RowsAreSeen(d)' <=> RowsAreSeen(d)
    BY <1>2, <1>10 DEF RowsAreSeen, StateAt
  <1>16. ASSUME NEW d \in Cards, DatesHold(d)
         PROVE  DatesHold(d)'
    <2>1. CASE d = c
      <3>1. cast.card[c].last = 0 /\ cast.card[c].name = NoName
        BY <1>1 DEF Unborn
      <3>2. batch.read[c].name = NoName
        BY <3>1 DEF CardsInv, ReadIsThere
      <3>3. cast'.card[c].last = cast.card[c].last
        BY <1>6, <1>10, <1>11, <3>1
      <3> QED BY <1>2, <1>16, <2>1, <3>2, <3>3 DEF DatesHold
    <2>2. CASE d # c
      <3>1. cast'.card[d] = cast.card[d]
        BY <1>10, <1>11, <2>2
      <3> QED BY <1>2, <1>16, <3>1 DEF DatesHold
    <2> QED BY <2>1, <2>2
  <1> QED
    BY <1>2, <1>12, <1>13, <1>14, <1>15, <1>16 DEF CardsInv

LEMMA PatchingKeeps ==
    ASSUME CardsInv, NEW c \in Cards, NEW new \in CardRecords, new.name # NoName,
           NEW from \in Nat, PatchCard(c, new, from)
    PROVE  CardsInv'
  <1>1. /\ cast.card[c] # Unborn
        /\ origin' = IF new.state = cast.card[c].state THEN origin ELSE [origin EXCEPT ![c] = 0]
        /\ meddled' = IF new.last = cast.card[c].last THEN meddled ELSE meddled \cup {c}
        /\ UNCHANGED <<chapters, batch, seen, orderly>>
    BY DEF PatchCard
  <1>2. PICK high \in BOOLEAN : cast' = Updated(Fresh, c, new, from, high).db
    BY DEF PatchCard
  <1> DEFINE a == Updated(Fresh, c, new, from, high)
             old == cast.card[c]
  <1>3. cast.card \in [Cards -> CardRecords] /\ old \in CardRecords /\ old.name # NoName
    BY <1>1, NameTellsUnborn DEF CardsInv, CardTypes, Tables
  <1>4. Fresh \in Sessions /\ Fresh.db = cast /\ View(Fresh) = cast.card
    BY FreshIsSession DEF CardsInv
  <1>5. a \in Sessions /\ Rewritten(Fresh, a, c, new)
    BY <1>3, <1>4, UpdatedCard
  <1> HIDE DEF a, old
  <1>6. PICK w \in CardRecords : /\ Columns(w, old, new, old)
                                 /\ a.db.card = [cast.card EXCEPT ![c] = w]
    BY <1>4, <1>5 DEF Rewritten, old
  <1>7. w = new
    BY <1>6 DEF Columns
  <1>8. /\ cast' \in Tables /\ cast'.row = cast.row
        /\ cast'.card = [cast.card EXCEPT ![c] = new]
        /\ \A d \in Cards : \A p \in cast'.past[d] : p \in cast.past[d] \/ p = old
    BY <1>2, <1>4, <1>5, <1>6, <1>7 DEF Rewritten, Sessions, a, old
  <1>9. origin \in [Cards -> Nat] /\ origin' \in [Cards -> Nat]
    BY <1>1 DEF CardsInv, CardTypes
  <1>10. meddled \subseteq meddled' /\ meddled' \subseteq Cards
    BY <1>1 DEF CardsInv, CardTypes
  <1>11. CardTypes'
    BY <1>1, <1>8, <1>9, <1>10 DEF CardsInv, CardTypes
  <1>12. ReadIsThere'
    BY <1>1, <1>3, <1>8 DEF CardsInv, ReadIsThere
  <1>13. PastIsNamed(cast)'
    BY <1>3, <1>8 DEF CardsInv, PastIsNamed
  <1>14. \A d : RowsAreSeen(d)' <=> RowsAreSeen(d)
    BY <1>1, <1>8 DEF RowsAreSeen, StateAt
  <1>15. ASSUME NEW d \in Cards \ meddled', DatesHold(d)
         PROVE  DatesHold(d)'
    <2>1. cast'.card[d].last = cast.card[d].last
      <3>1. CASE d = c
        <4>1. new.last = cast.card[c].last
          BY <1>1, <1>15, <3>1
        <4> QED BY <1>3, <1>8, <3>1, <4>1
      <3>2. CASE d # c
        BY <1>3, <1>8, <3>2
      <3> QED BY <3>1, <3>2
    <2>2. origin'[d] = origin[d] \/ origin'[d] = 0
      BY <1>1, <1>9
    <2>3. cast.card[d].last \in Nat
      BY <1>3 DEF CardRecords
    <2> QED BY <1>1, <1>9, <1>15, <2>1, <2>2, <2>3 DEF DatesHold
  <1> QED
    BY <1>1, <1>10, <1>11, <1>12, <1>13, <1>14, <1>15 DEF CardsInv

\* What users make of a card is a card of that kind.
LEMMA PatchesAreRecords ==
    ASSUME CardsInv, NEW c \in Cards, cast.card[c] # Unborn, NEW new,
           \/ new \in Patched(c)
           \/ new = Relinked(c)
           \/ \E p \in cast.past[c] : new = RolledBack(cast.card[c], p)
    PROVE  new \in CardRecords /\ new.name # NoName
  <1> DEFINE old == cast.card[c]
  <1>1. old \in CardRecords /\ old.name # NoName
    BY NameTellsUnborn DEF CardsInv, CardTypes, Tables
  <1>2. /\ old.name \in CardNames /\ old.aliases \in SUBSET CardNames /\ old.state \in Told
        /\ old.last \in 0..CardChapters /\ old.links \in SUBSET CardNames
    BY <1>1 DEF CardRecords, Unborn
  <1>3. SUFFICES \E n \in CardNames, A \in SUBSET CardNames, x \in Told,
                    d \in 0..CardChapters, L \in SUBSET CardNames : RecordOf(new, n, A, x, d, L)
    BY MakesARecord
  <1>4. CASE new = Relinked(c)
    <2> DEFINE L == CardNames \ {old.name}
    <2>1. RecordOf(new, old.name, old.aliases, old.state, old.last, L)
      BY <1>1, <1>4 DEF RecordOf, Relinked, CardRecords
    <2>2. L \in SUBSET CardNames
      OBVIOUS
    <2> HIDE DEF L, old
    <2> QED BY <1>2, <2>1, <2>2
  <1>5. CASE new \in Patched(c)
    <2>1. CASE \E n \in CardNames : new = Renamed(old, n)
      <3>1. PICK n \in CardNames : new = Renamed(old, n)
        BY <2>1
      <3> DEFINE A == old.aliases \cup {old.name}
      <3>2. RecordOf(new, n, A, old.state, old.last, old.links)
        BY <1>1, <3>1 DEF RecordOf, Renamed, CardRecords
      <3>3. A \in SUBSET CardNames
        BY <1>2
      <3> HIDE DEF A, old
      <3> QED BY <1>2, <3>2, <3>3
    <2>2. CASE \E n \in CardNames : new = [old EXCEPT !.aliases = {n}]
      <3>1. PICK n \in CardNames : new = [old EXCEPT !.aliases = {n}]
        BY <2>2
      <3>2. RecordOf(new, old.name, {n}, old.state, old.last, old.links)
        BY <1>1, <3>1 DEF RecordOf, CardRecords
      <3> HIDE DEF old
      <3> QED BY <1>2, <3>2
    <2>3. CASE \E x \in CardStates : new = [old EXCEPT !.state = x]
      <3>1. PICK x \in CardStates : new = [old EXCEPT !.state = x]
        BY <2>3
      <3>2. RecordOf(new, old.name, old.aliases, x, old.last, old.links)
        BY <1>1, <3>1 DEF RecordOf, CardRecords
      <3>3. x \in Told
        BY DEF Told
      <3> HIDE DEF old
      <3> QED BY <1>2, <3>2, <3>3
    <2>4. CASE \E d \in 1..CardChapters : new = [old EXCEPT !.last = d]
      <3>1. PICK d \in 1..CardChapters : new = [old EXCEPT !.last = d]
        BY <2>4
      <3>2. RecordOf(new, old.name, old.aliases, old.state, d, old.links)
        BY <1>1, <3>1 DEF RecordOf, CardRecords
      <3>3. d \in 0..CardChapters
        BY CardsAssumption
      <3> HIDE DEF old
      <3> QED BY <1>2, <3>2, <3>3
    <2> QED BY <1>4, <1>5, <2>1, <2>2, <2>3, <2>4 DEF Patched
  <1>6. CASE \E p \in cast.past[c] : new = RolledBack(old, p)
    <2>1. PICK p \in cast.past[c] : new = RolledBack(old, p)
      BY <1>6
    <2>2. p \in CardRecords /\ p.name # NoName
      BY <2>1 DEF CardsInv, CardTypes, Tables, PastIsNamed
    <2>3. /\ p.name \in CardNames /\ p.aliases \in SUBSET CardNames /\ p.state \in Told
          /\ p.last \in 0..CardChapters /\ p.links \in SUBSET CardNames
      BY <2>2 DEF CardRecords, Unborn
    <2> DEFINE A == IF p.name = old.name THEN p.aliases ELSE Renamed(old, p.name).aliases
               d == IF p.last = 0 THEN old.last ELSE p.last
    <2>4. RecordOf(new, p.name, A, p.state, d, p.links)
      BY <2>1, <2>2 DEF RecordOf, RolledBack, CardRecords
    <2>5. A \in SUBSET CardNames
      <3>1. Renamed(old, p.name).aliases = old.aliases \cup {old.name}
        BY <1>1 DEF Renamed, CardRecords
      <3> QED BY <1>2, <2>3, <3>1
    <2>6. d \in 0..CardChapters
      BY <1>2, <2>3
    <2> HIDE DEF A, d, old
    <2> QED BY <2>3, <2>4, <2>5, <2>6
  <1> QED BY <1>4, <1>5, <1>6

\* Deleting a chapter redates the cards last seen in it, and no others.
LEMMA DeletedCards ==
    ASSUME CardsInv, DeleteCardsChapter, NEW c \in Cards, cast.card[c].last # chapters
    PROVE  cast'.card[c] = cast.card[c]
  BY DEF DeleteCardsChapter, CardsInv, CardTypes, Tables

LEMMA DeletingKeeps ==
    ASSUME CardsInv, DeleteCardsChapter
    PROVE  CardsInv'
  <1> DEFINE rows == [c \in Cards |-> [cast.row[c] EXCEPT ![chapters] = NoState]]
             left(c) == {d \in 1..CardChapters : rows[c][d] # NoState}
             card == [c \in Cards |-> IF cast.card[c].last # chapters THEN cast.card[c]
                        ELSE [cast.card[c] EXCEPT !.last = Latest({0} \cup left(c))]]
             link == [c \in Cards |-> [t \in Cards |->
                        IF cast.link[c][t] >= chapters THEN 0 ELSE cast.link[c][t]]]
  <1>1. /\ chapters > 0
        /\ cast' = [cast EXCEPT !.row = rows, !.card = card, !.link = link]
        /\ meddled' = meddled \cup {c \in Cards : \/ seen[c][chapters] # NoState
                                                  \/ cast.card[c].last = chapters}
        /\ seen' = [c \in Cards |-> [seen[c] EXCEPT ![chapters] = NoState]]
        /\ batch' = IF batch.ch = chapters THEN NoBatch ELSE batch
        /\ chapters' = chapters - 1
        /\ UNCHANGED <<origin, orderly>>
    BY DEF DeleteCardsChapter
  <1>2. /\ cast \in Tables /\ cast.card \in [Cards -> CardRecords] /\ cast.row \in History
        /\ cast.link \in [Cards -> [Cards -> Nat]] /\ seen \in History
        /\ chapters \in 1..CardChapters /\ CardChapters \in Nat
    BY <1>1, CardsAssumption DEF CardsInv, CardTypes, Tables
  <1>3. rows \in History
    BY <1>2 DEF History, Told
  <1>4. seen' \in History
    BY <1>1, <1>2 DEF History, Told
  <1>5. /\ card \in [Cards -> CardRecords]
        /\ \A c \in Cards : /\ card[c].name = cast.card[c].name
                            /\ cast.card[c].last # chapters => card[c] = cast.card[c]
    <2> HIDE DEF rows
    <2>1. ASSUME NEW c \in Cards
          PROVE  Latest({0} \cup left(c)) \in 0..CardChapters
      <3>1. /\ {0} \cup left(c) \subseteq 0..CardChapters
            /\ IsFiniteSet(0..CardChapters) /\ 0..CardChapters \subseteq Nat
        BY <1>2, FS_Interval
      <3>2. IsFiniteSet({0} \cup left(c)) /\ {0} \cup left(c) \subseteq Nat
        <4> HIDE DEF left
        <4>1. IsFiniteSet({0} \cup left(c))
          BY <3>1, FS_Subset
        <4> QED BY <3>1, <4>1
      <3>3. Latest({0} \cup left(c)) \in {0} \cup left(c)
        <4> HIDE DEF left
        <4> QED BY <3>2, LatestOf
      <3> QED BY <3>1, <3>3
    <2> HIDE DEF left
    <2>2. ASSUME NEW c \in Cards
          PROVE  /\ card[c] \in CardRecords /\ card[c].name = cast.card[c].name
                 /\ cast.card[c].last # chapters => card[c] = cast.card[c]
      <3>1. CASE cast.card[c].last # chapters
        BY <1>2, <3>1
      <3>2. CASE cast.card[c].last = chapters
        <4> DEFINE old == cast.card[c]
                   l == Latest({0} \cup left(c))
        <4>1. card[c] = [old EXCEPT !.last = l]
          BY <3>2
        <4>2. l \in 0..CardChapters
          BY <2>1
        <4>3. old \in CardRecords /\ old # Unborn
          BY <1>2, <3>2 DEF Unborn
        <4> HIDE DEF old, l, card
        <4>4. card[c] \in CardRecords /\ card[c].name = old.name
          BY <4>1, <4>2, <4>3 DEF CardRecords
        <4> QED BY <3>2, <4>4 DEF old
      <3> QED BY <3>1, <3>2
    <2>3. card = [c \in Cards |-> card[c]]
      OBVIOUS
    <2> HIDE DEF card
    <2> QED BY <2>2, <2>3
  <1>6. link \in [Cards -> [Cards -> Nat]]
    BY <1>2
  <1> HIDE DEF card, link, left
  <1>7. cast' \in Tables /\ cast'.card = card /\ cast'.row = rows /\ cast'.past = cast.past
    <2> HIDE DEF rows
    <2> QED BY <1>1, <1>2, <1>3, <1>5, <1>6 DEF Tables
  <1>8. /\ batch'.read \in [Cards -> CardRecords]
        /\ \A c \in Cards : batch'.read[c].name # NoName => batch'.read[c] = batch.read[c]
    BY <1>1, NoBatchIsUnborn DEF CardsInv, CardTypes
  <1>9. CardTypes'
    <2>1. batch' # NoBatch => batch' = batch
      BY <1>1
    <2>2. chapters' \in 0..CardChapters
      BY <1>1, <1>2
    <2>3. meddled' \subseteq Cards
      BY <1>1 DEF CardsInv, CardTypes
    <2> QED BY <1>1, <1>4, <1>7, <1>8, <2>1, <2>2, <2>3 DEF CardsInv, CardTypes
  <1>10. ReadIsThere'
    BY <1>5, <1>7, <1>8 DEF CardsInv, ReadIsThere
  <1>11. PastIsNamed(cast)'
    BY <1>7 DEF CardsInv, PastIsNamed
  <1>12. ASSUME NEW c \in Cards, RowsAreSeen(c)
         PROVE  RowsAreSeen(c)'
    <2> SUFFICES ASSUME NEW d \in 1..CardChapters
                 PROVE  /\ d > chapters' => cast'.row[c][d] = NoState /\ seen'[c][d] = NoState
                        /\ cast'.row[c][d] # NoState => seen'[c][d] = cast'.row[c][d]
                        /\ seen'[c][d] # NoState /\ cast'.row[c][d] = NoState =>
                              StateAt(cast', c, d - 1) = seen'[c][d]
      BY DEF RowsAreSeen
    <2>1. /\ \A b \in 1..CardChapters :
               cast'.row[c][b] = IF b = chapters THEN NoState ELSE cast.row[c][b]
          /\ \A b \in 1..CardChapters :
               seen'[c][b] = IF b = chapters THEN NoState ELSE seen[c][b]
      BY <1>1, <1>2, <1>7 DEF History
    <2>2. CASE d < chapters
      <3>1. \A b \in 1..(d - 1) : cast'.row[c][b] = cast.row[c][b]
        BY <1>2, <2>1, <2>2
      <3>2. StateAt(cast', c, d - 1) = StateAt(cast, c, d - 1)
        BY <3>1, SameRowsBelow
      <3>3. ~ (d > chapters') /\ d # chapters
        BY <1>1, <1>2, <2>2
      <3> QED BY <1>12, <2>1, <3>2, <3>3 DEF RowsAreSeen
    <2>3. CASE d = chapters
      BY <2>1, <2>3
    <2>4. CASE d > chapters
      <3>1. cast.row[c][d] = NoState /\ seen[c][d] = NoState
        BY <1>12, <2>4 DEF RowsAreSeen
      <3> QED BY <2>1, <3>1
    <2> QED BY <1>2, <2>2, <2>3, <2>4
  <1>13. ASSUME NEW c \in Cards \ meddled', DatesHold(c)
         PROVE  DatesHold(c)'
    <2>1. cast.card[c].last # chapters
      BY <1>1, <1>13
    <2>2. cast'.card[c] = cast.card[c]
      BY <1>5, <1>7, <2>1
    <2>3. cast.card[c].last \in Nat
      BY <1>2 DEF CardRecords
    <2>4. cast'.card[c].last <= chapters'
      <3>1. cast.card[c].last <= chapters
        BY <1>13 DEF DatesHold
      <3> DEFINE l == cast.card[c].last
      <3>2. l \in Nat /\ l <= chapters /\ l # chapters /\ chapters \in Nat
        BY <1>2, <2>1, <2>3, <3>1
      <3> HIDE DEF l
      <3>3. l <= chapters - 1
        BY <3>2
      <3> QED BY <1>1, <2>2, <3>3 DEF l
    <2> QED BY <1>1, <1>8, <1>13, <2>2, <2>4 DEF DatesHold
  <1> QED
    BY <1>1, <1>9, <1>10, <1>11, <1>12, <1>13 DEF CardsInv

LEMMA CardsStepKeeps ==
    ASSUME CardsInv, CardsNext
    PROVE  CardsInv'
  <1>1. ASSUME NEW ch \in 1..CardChapters, NEW us \in Batches, ListCards(ch, us)
        PROVE  CardsInv'
    BY <1>1, ListingKeeps
  <1>2. CASE ApplyBatch
    BY <1>2, ApplyingKeeps
  <1>3. ASSUME NEW n \in CardNames, NEW x \in CardStates, NEW links \in SUBSET CardNames,
               GenerateCard(n, x, links \ {n})
        PROVE  CardsInv'
    <2> DEFINE L == links \ {n}
    <2>1. L \in SUBSET CardNames
      OBVIOUS
    <2>2. GenerateCard(n, x, L)
      BY <1>3
    <2> HIDE DEF L
    <2> QED BY <2>1, <2>2, GeneratingKeeps
  <1>4. ASSUME NEW c \in Cards, NEW new, NEW from \in Nat, PatchCard(c, new, from),
               \/ new \in Patched(c)
               \/ new = Relinked(c)
               \/ \E p \in cast.past[c] : new = RolledBack(cast.card[c], p)
        PROVE  CardsInv'
    <2>1. cast.card[c] # Unborn
      BY <1>4 DEF PatchCard
    <2>2. new \in CardRecords /\ new.name # NoName
      BY <1>4, <2>1, PatchesAreRecords
    <2> QED BY <1>4, <2>2, PatchingKeeps
  <1>5. ASSUME NEW c \in Cards, NEW new \in Patched(c), PatchCard(c, new, 1)
        PROVE  CardsInv'
    BY <1>4, <1>5
  <1>6. ASSUME NEW c \in Cards, NEW from \in 2..CardChapters, PatchCard(c, Relinked(c), from)
        PROVE  CardsInv'
    <2>1. from \in Nat
      BY CardsAssumption
    <2> SUFFICES ASSUME NEW new, new = Relinked(c) PROVE CardsInv'
      OBVIOUS
    <2> QED BY <1>4, <1>6, <2>1
  <1>7. ASSUME NEW c \in Cards, NEW p \in cast.past[c], RollbackCard(c, p)
        PROVE  CardsInv'
    <2> SUFFICES ASSUME NEW new, new = RolledBack(cast.card[c], p) PROVE CardsInv'
      OBVIOUS
    <2>1. PatchCard(c, new, 1)
      BY <1>7 DEF RollbackCard
    <2> QED BY <1>4, <2>1
  <1>8. CASE DeleteCardsChapter
    BY <1>8, DeletingKeeps
  <1> QED
    BY <1>1, <1>2, <1>3, <1>5, <1>6, <1>7, <1>8, Zenon DEF CardsNext

\* The invariant of the cards is one: types, what the session read is there, rows
\* and dates.
THEOREM CardsInvariant == CardsSpec => []CardsInv
  <1>1. CardsInit => CardsInv
    BY CardsInvStarts
  <1>2. CardsInv /\ [CardsNext]_cardVars => CardsInv'
    <2> SUFFICES ASSUME CardsInv, [CardsNext]_cardVars PROVE CardsInv'
      OBVIOUS
    <2>1. CASE CardsNext
      BY <2>1, CardsStepKeeps
    <2>2. CASE UNCHANGED cardVars
      <3>1. UNCHANGED <<cast, chapters, batch, seen, origin, orderly, meddled>>
        BY <2>2 DEF cardVars
      <3>2. CardTypes'
        BY <3>1 DEF CardsInv, CardTypes
      <3>3. ReadIsThere' /\ PastIsNamed(cast)'
        BY <3>1 DEF CardsInv, ReadIsThere, PastIsNamed
      <3>4. \A c : (RowsAreSeen(c)' <=> RowsAreSeen(c)) /\ (DatesHold(c)' <=> DatesHold(c))
        BY <3>1 DEF RowsAreSeen, DatesHold, StateAt
      <3> QED BY <3>1, <3>2, <3>3, <3>4 DEF CardsInv
    <2> QED BY <2>1, <2>2
  <1> QED BY <1>1, <1>2, PTL DEF CardsSpec

\* The sparse history answers exactly: a chapter without a row of its own had the
\* state of the row before, so the latest row up to a chapter is what the last
\* extraction up to it arrived at.
THEOREM HistoryIsExact == CardsSpec => []SparseHistoryIsExact
  <1>1. CardsInv => SparseHistoryIsExact
    <2> SUFFICES ASSUME CardsInv, orderly, NEW c \in Cards, NEW ch \in 1..chapters
                 PROVE  LET S == {d \in 1..ch : seen[c][d] # NoState}
                        IN StateAt(cast, c, ch) = IF S = {} THEN NoState ELSE seen[c][Latest(S)]
      BY DEF SparseHistoryIsExact
    <2>1. StateAt(cast, c, ch) = IF SeenUpTo(c, ch) = {} THEN NoState
                                 ELSE seen[c][Latest(SeenUpTo(c, ch))]
      BY RowsSeenIsExact DEF CardsInv
    <2> QED BY <2>1 DEF SeenUpTo
  <1> QED BY <1>1, CardsInvariant, PTL

\* The writer is shown no state of its own chapter or a later one: a card whose
\* last appearance is early enough has its state from no later chapter.
THEOREM WriterIsShownThePast == CardsSpec => []WriterSeesNoFuture
  <1>1. CardsInv => WriterSeesNoFuture
    <2> SUFFICES ASSUME CardsInv, orderly, NEW c \in Cards \ meddled,
                        NEW n \in 1..(chapters + 1), ShownAsIs(c, n)
                 PROVE  origin[c] <= n - 1
      BY DEF WriterSeesNoFuture
    <2>1. origin[c] <= cast.card[c].last
      BY DEF CardsInv, DatesHold
    <2>2. ~ (cast.card[c].last > n - 1)
      BY DEF ShownAsIs, Future
    <2>3. cast.card[c].last \in Nat /\ origin[c] \in Nat /\ n \in Nat
      BY CardsAssumption DEF CardsInv, CardTypes, Tables, CardRecords
    <2> QED BY <2>1, <2>2, <2>3
  <1> QED BY <1>1, CardsInvariant, PTL

\* A card an extraction creates is linked to every other card it names, those the
\* same extraction created after it included.
THEOREM NewcomersGetLinked == CardsSpec => NewcomersAreLinked
  <1> DEFINE New(c) ==
          batch # NoBatch /\ batch' = NoBatch /\ cast.card[c] = Unborn /\ cast'.card[c] # Unborn =>
            \A n \in cast'.card[c].links :
                LET t == Find(cast'.card, n, TRUE)
                    u == Find(cast'.card, n, FALSE)
                IN t \notin {0, c} /\ t = u /\ (cast.card[t] = Unborn \/ NamesAsListed) =>
                       cast'.link[c][t] # 0
  <1>1. CardsInv /\ [CardsNext]_cardVars => [\A c \in Cards : New(c)]_cardVars
    <2> SUFFICES ASSUME CardsInv, CardsNext, NEW c \in Cards,
                        batch # NoBatch, batch' = NoBatch,
                        cast.card[c] = Unborn, cast'.card[c] # Unborn,
                        NEW n \in cast'.card[c].links, NEW t,
                        t = Find(cast'.card, n, TRUE), t = Find(cast'.card, n, FALSE),
                        t \notin {0, c}, cast.card[t] = Unborn \/ NamesAsListed
                 PROVE  cast'.link[c][t] # 0
      BY Zenon
    <2>1. ApplyBatch
      <3>1. CASE ApplyBatch
        BY <3>1
      <3>2. ASSUME NEW ch \in 1..CardChapters, NEW us \in Batches, ListCards(ch, us)
            PROVE  FALSE
        BY <3>2 DEF ListCards
      <3>3. ASSUME NEW m \in CardNames, NEW x \in CardStates, NEW L, GenerateCard(m, x, L)
            PROVE  FALSE
        BY <3>3 DEF GenerateCard
      <3>4. ASSUME NEW d \in Cards, NEW new, NEW from, PatchCard(d, new, from)
            PROVE  FALSE
        BY <3>4 DEF PatchCard
      <3>5. CASE DeleteCardsChapter
        <4>1. CardsInv'
          BY CardsStepKeeps
        <4>2. \A d \in Cards : cast.card[d].last # chapters => cast'.card[d] = cast.card[d]
          BY <3>5, DeletedCards
        <4>3. cast.card[c].last = 0 /\ chapters > 0
          BY <3>5 DEF Unborn, DeleteCardsChapter
        <4> QED BY <4>2, <4>3
      <3> QED BY <3>1, <3>2, <3>3, <3>4, <3>5, Zenon DEF CardsNext, RollbackCard
    <2>2. PICK high \in BOOLEAN :
             \/ cast' = Batched(Session(batch.read), batch.ch, batch.updates, high).db
             \/ cast' = cast
      BY <2>1 DEF ApplyBatch
    <2> DEFINE s == Session(batch.read)
               a == Batched(s, batch.ch, batch.updates, high)
    <2>3. cast' = a.db
      BY <2>2
    <2>4. s \in Sessions /\ Firm(s) /\ PastIsNamed(s.db) /\ s.born = {}
          /\ s.db = cast /\ s.mem = batch.read
      BY ListedIsSession DEF CardsInv
    <2>5. batch.ch \in 1..CardChapters /\ batch.updates \in Seq(Updates)
          /\ NamesDiffer(batch.updates)
      BY DEF CardsInv, CardTypes
    <2>6. CardsInv'
      BY CardsStepKeeps
    <2>7. cast.card \in [Cards -> CardRecords] /\ cast'.card \in [Cards -> CardRecords]
      BY <2>6 DEF CardsInv, CardTypes, Tables
    <2>8. t \in Cards
      BY FindFinds
    <2>9. Holders(cast'.card, n) = {t}
      BY <2>8, FoundByBothIsAlone
    <2>10. cast.card[c].name = NoName /\ cast'.card[c].name # NoName
      BY <2>7, NameTellsUnborn
    <2>11. \/ cast.card[t].name = NoName
           \/ \A d \in Cards : batch.read[d].name # NoName =>
                /\ batch.read[d].name = cast.card[d].name
                /\ batch.read[d].aliases = cast.card[d].aliases
      <3>1. \A d \in Cards : batch.read[d].name # NoName => batch.read[d] # Unborn
        BY DEF Unborn
      <3>2. cast.card[t] = Unborn => cast.card[t].name = NoName
        BY <2>7, <2>8, NameTellsUnborn
      <3> QED BY <3>1, <3>2 DEF NamesAsListed
    <2> SUFFICES ASSUME NEW b, b = a PROVE cast'.link[c][t] # 0
      OBVIOUS
    <2>12. b = Batched(s, batch.ch, batch.updates, high) /\ cast' = b.db
      BY <2>3
    <2> HIDE DEF s, a
    <2>13. CalledAsRead(s, t)
      BY <2>4, <2>11 DEF CalledAsRead
    <2>14. /\ s.db.card[c].name = NoName /\ b.db.card[c].name # NoName
           /\ n \in b.db.card[c].links /\ Holders(b.db.card, n) = {t} /\ t # c
      BY <2>4, <2>9, <2>10, <2>12
    <2>15. b.db.link[c][t] # 0
      BY <2>4, <2>5, <2>8, <2>12, <2>13, <2>14, NewcomersLinked
    <2> QED BY <2>12, <2>15
  <1> QED BY <1>1, CardsInvariant, PTL DEF CardsSpec, NewcomersAreLinked

=============================================================================
