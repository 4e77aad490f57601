----------------------------- MODULE VectorOutbox -----------------------------
(***************************************************************************)
(* The vector outbox: rows written with the data they project, claimed by  *)
(* polling loops and copied to the vector index.                           *)
(*                                                                         *)
(* src/worker_support/vector_outbox_worker.py, services/storage_repair.py, *)
(* scripts/reconcile_storage.py, the writers of rows, and the operations   *)
(* that withdraw what rows project: archiving a branch, deleting a chapter *)
(* and deleting the project.                                               *)
(*                                                                         *)
(* A row is a record of the table; its number is the order of creation.    *)
(* The index keeps, for an item of a scope, the row whose content it       *)
(* shows. Calls to the index are atomic and ordered (one thread runs them, *)
(* see ChromaExecutor); a call that fails may have had its effect.         *)
(***************************************************************************)
EXTENDS Naturals, FiniteSets

CONSTANTS
    MaxRows,        \* bound: rows ever written
    OutboxItems,    \* items a row may hold
    Pollers,        \* the polling loops of worker processes
    Scripts,        \* runs of the reconciliation script
    ClaimLimit,     \* rows one claim takes at most
    MaxRetries,     \* VectorOutbox.max_retries
    MaxUpsets,      \* bound: crashes and withdrawn scopes in a run
    QueuedScopes,   \* bound: the scopes rows are written for
    RepairedRows    \* bound: rows in a run with a script

\* What a row belongs to: a branch, a chapter, or the project alone.
OutboxScopes == {"branch", "chapter", "book"}

ASSUME OutboxAssumption ==
    /\ MaxRows \in Nat /\ ClaimLimit \in Nat \ {0}
    /\ MaxRetries \in Nat \ {0}
    /\ MaxUpsets \in Nat /\ RepairedRows \in Nat
    /\ QueuedScopes \subseteq OutboxScopes
    /\ Pollers \cap Scripts = {}

Drains == Pollers \cup Scripts
RowIds == 1..MaxRows
Nobody == "nobody"

ASSUME NobodyAssumption == Nobody \notin Drains

VARIABLES
    row,        \* row id -> the row of the table
    index,      \* scope -> item -> the row it shows, 0 if absent
    branch,     \* "open", "archived" (committed), "cleared"
    chapter,    \* "kept", "deleted" (committed), "cleared"
    project,    \* "kept", "deleted" (committed), "cleared"
    drain,      \* loop or script -> where it is
    branchLock, \* who holds the branch's row
    reached,    \* history: row id -> items that have reached the index
    failed,     \* history: row id -> failed attempts
    stops

outboxVars == <<row, index, branch, chapter, project, drain, branchLock,
                reached, failed, stops>>

RowStatuses == {"NEW", "PENDING", "SYNCING", "DONE", "FAILED", "GONE"}
\* A row of the table, "old" once its lease has run out; "NEW" before it is
\* written, "GONE" after it is deleted.
Row == [st : RowStatuses, scope : OutboxScopes, items : SUBSET OutboxItems,
        retries : 0..MaxRetries, old : BOOLEAN]
NewRow == [st |-> "NEW", scope |-> "book", items |-> {}, retries |-> 0, old |-> FALSE]
WithStatus(S) == {r \in RowIds : row[r].st \in S}
\* The rows R, deleted.
Without(R) == [r \in RowIds |-> IF r \in R THEN [row[r] EXCEPT !.st = "GONE"] ELSE row[r]]

\* Scopes withdrawn so far.
Withdrawn ==
    Cardinality({v \in {"branch", "chapter", "project"} :
                   CASE v = "branch" -> branch # "open"
                     [] v = "chapter" -> chapter # "kept"
                     [] v = "project" -> project # "kept"})

\* A session's work: the claimed rows still to do, oldest first, the items of the
\* first one still to write and the retry count read with it.
DrainState == [pc : {"down", "dead", "ready", "fetch", "lock", "write", "commit", "failed"},
               todo : SUBSET RowIds, left : SUBSET OutboxItems, retries : 0..MaxRetries]
Idle == [pc |-> "ready", todo |-> {}, left |-> {}, retries |-> 0]
Down == [Idle EXCEPT !.pc = "down"]
Dead == [Idle EXCEPT !.pc = "dead"]
Oldest(R) == CHOOSE r \in R : \A q \in R : r <= q
Current(d) == Oldest(drain[d].todo)

OutboxTypeOK ==
    /\ row \in [RowIds -> Row]
    /\ index \in [OutboxScopes -> [OutboxItems -> 0..MaxRows]]
    /\ branch \in {"open", "archived", "cleared"}
    /\ chapter \in {"kept", "deleted", "cleared"}
    /\ project \in {"kept", "deleted", "cleared"}
    /\ drain \in [Drains -> DrainState]
    /\ branchLock \in Drains \cup {Nobody}
    /\ reached \in [RowIds -> SUBSET OutboxItems]
    /\ failed \in [RowIds -> Nat]
    /\ stops \in 0..MaxUpsets

OutboxInit ==
    /\ row = [r \in RowIds |-> NewRow]
    /\ index = [s \in OutboxScopes |-> [i \in OutboxItems |-> 0]]
    /\ branch = "open" /\ chapter = "kept" /\ project = "kept"
    /\ drain = [d \in Drains |-> Down]
    /\ branchLock = Nobody
    /\ reached = [r \in RowIds |-> {}]
    /\ failed = [r \in RowIds |-> 0]
    /\ stops = 0

-----------------------------------------------------------------------------
(* The writers of rows.                                                    *)

Exists(s) ==
    /\ project = "kept"
    /\ s = "branch" => branch = "open"
    /\ s = "chapter" => chapter = "kept"

\* A scene block, a character's manifest or a branch chapter is saved, and a
\* row for its items with it, in the same transaction.
Enqueue(s, items) ==
    /\ Exists(s) /\ items # {}
    /\ \E r \in RowIds :
          /\ r > RepairedRows => \A d \in Scripts : drain[d].pc = "down"
          /\ row[r].st = "NEW" /\ \A q \in 1..(r - 1) : row[q].st # "NEW"
          /\ row' = [row EXCEPT ![r] = [NewRow EXCEPT !.st = "PENDING",
                                           !.scope = s, !.items = items]]
    /\ UNCHANGED <<index, branch, chapter, project, drain, branchLock,
                   reached, failed, stops>>

-----------------------------------------------------------------------------
(* The loops.                                                              *)

\* Rows whose lease has run out go back to the queue.
Recovered(r) ==
    IF r \in WithStatus({"SYNCING"}) /\ row[r].old
    THEN [row[r] EXCEPT !.st = "PENDING"] ELSE row[r]

\* A worker starts: it recovers leased rows once, then polls.
StartPoller(d) ==
    /\ drain[d].pc = "down"
    /\ row' = [r \in RowIds |-> Recovered(r)]
    /\ drain' = [drain EXCEPT ![d] = Idle]
    /\ UNCHANGED <<index, branch, chapter, project, branchLock,
                   reached, failed, stops>>

\* The script first returns failed and expired rows to the queue.
Reset(r) ==
    IF \/ r \in WithStatus({"FAILED"})
       \/ r \in WithStatus({"SYNCING"}) /\ row[r].old
    THEN [row[r] EXCEPT !.st = "PENDING", !.retries = 0] ELSE row[r]

StartScript(d) ==
    /\ drain[d].pc = "down"
    /\ \A r \in RowIds : r > RepairedRows => row[r].st = "NEW"
    /\ row' = [r \in RowIds |-> Reset(r)]
    /\ drain' = [drain EXCEPT ![d] = Idle]
    /\ UNCHANGED <<index, branch, chapter, project, branchLock,
                   reached, failed, stops>>

\* The oldest pending rows, as many as one claim takes.
OldestPending ==
    LET pending == WithStatus({"PENDING"})
    IN {r \in pending : Cardinality({q \in pending : q < r}) < ClaimLimit}

\* claim_vector_outboxes: one transaction.
Claim(d) ==
    /\ drain[d].pc = "ready"
    /\ OldestPending # {}
    /\ row' = [r \in RowIds |->
                 IF r \in OldestPending
                 THEN [row[r] EXCEPT !.st = "SYNCING", !.old = FALSE] ELSE row[r]]
    /\ drain' = [drain EXCEPT ![d] = [Idle EXCEPT !.pc = "fetch",
                                                  !.todo = OldestPending]]
    /\ UNCHANGED <<index, branch, chapter, project, branchLock,
                   reached, failed, stops>>

\* The script ends when nothing is pending.
ScriptEnds(d) ==
    /\ drain[d].pc = "ready" /\ WithStatus({"PENDING"}) = {}
    /\ drain' = [drain EXCEPT ![d] = Dead]
    /\ UNCHANGED <<row, index, branch, chapter, project, branchLock,
                   reached, failed, stops>>

\* What a loop does after its current row.
Onward(d) ==
    LET rest == drain[d].todo \ {Current(d)}
    IN IF rest = {} THEN Idle ELSE [Idle EXCEPT !.pc = "fetch", !.todo = rest]

\* The row is read; a row that is gone or no longer syncing is passed over,
\* one of a branch waits for the branch's lock.
Fetch(d) ==
    /\ drain[d].pc = "fetch"
    /\ LET r == Current(d) IN
       drain' = [drain EXCEPT ![d] =
          IF r \notin WithStatus({"SYNCING"}) THEN Onward(d)
          ELSE [@ EXCEPT !.pc = IF row[r].scope = "branch" THEN "lock" ELSE "write",
                         !.left = row[r].items, !.retries = row[r].retries]]
    /\ UNCHANGED <<row, index, branch, chapter, project, branchLock,
                   reached, failed, stops>>

\* Mutant: the branch's own status is not looked at under the lock.
LockUnchecked(d) ==
    /\ drain[d].pc = "lock" /\ branchLock = Nobody
    /\ branchLock' = d
    /\ drain' = [drain EXCEPT ![d].pc = "write"]
    /\ UNCHANGED <<row, index, branch, chapter, project,
                   reached, failed, stops>>

\* Under the lock the branch is read; the row is not read again (the session
\* answers with the object it has). A branch that is gone or archived takes
\* its row with it.
LockBranch(d) ==
    /\ drain[d].pc = "lock" /\ branchLock = Nobody
    /\ IF branch = "open" /\ project = "kept"
       THEN /\ branchLock' = d
            /\ drain' = [drain EXCEPT ![d].pc = "write"]
            /\ UNCHANGED row
       ELSE /\ drain' = [drain EXCEPT ![d] = Onward(d)]
            /\ row' = Without({Current(d)})
            /\ UNCHANGED branchLock
    /\ UNCHANGED <<index, branch, chapter, project, reached, failed, stops>>

\* One item is written to the index. A call that fails may have had its effect.
Write(d) ==
    /\ drain[d].pc = "write"
    /\ LET r == Current(d)
           i == CHOOSE i \in drain[d].left : TRUE
           more == drain[d].left \ {i}
       IN \/ /\ index' = [index EXCEPT ![row[r].scope][i] = r]
             /\ reached' = [reached EXCEPT ![r] = @ \cup {i}]
             /\ drain' = [drain EXCEPT ![d].left = more,
                              ![d].pc = IF more = {} THEN "commit" ELSE "write"]
          \/ /\ \/ /\ index' = [index EXCEPT ![row[r].scope][i] = r]
                   /\ reached' = [reached EXCEPT ![r] = @ \cup {i}]
                \/ UNCHANGED <<index, reached>>
             /\ drain' = [drain EXCEPT ![d].pc = "failed"]
    /\ UNCHANGED <<row, branch, chapter, project, branchLock, failed, stops>>

ReleasedBy(d) == IF branchLock = d THEN Nobody ELSE branchLock

\* The session writes its columns back. A row deleted meanwhile makes the
\* update match nothing: the error leaves the handler and ends the loop.
CommitRow(d, record) ==
    LET r == Current(d) IN
    /\ IF row[r].st = "GONE"
       THEN drain' = [drain EXCEPT ![d] = Dead] /\ UNCHANGED row
       ELSE /\ row' = [row EXCEPT ![r] = record]
            /\ drain' = [drain EXCEPT ![d] = Onward(d)]
    /\ branchLock' = ReleasedBy(d)
    /\ UNCHANGED <<index, branch, chapter, project, reached, stops>>

CommitDone(d) ==
    /\ drain[d].pc = "commit"
    /\ CommitRow(d, [row[Current(d)] EXCEPT !.st = "DONE"])
    /\ UNCHANGED failed

\* Mutant: done as soon as an item has been written.
CommitAnyway(d) ==
    /\ drain[d].pc = "failed"
    /\ CommitRow(d, [row[Current(d)] EXCEPT !.st = "DONE"])
    /\ UNCHANGED failed

\* Mutant: the failed attempt is not counted.
CommitUncounted(d) ==
    /\ drain[d].pc = "failed"
    /\ CommitRow(d, [row[Current(d)] EXCEPT !.st = "PENDING"])
    /\ UNCHANGED failed

\* Mutant: one attempt more than MaxRetries.
CommitFailedLate(d) ==
    /\ drain[d].pc = "failed"
    /\ LET tries == drain[d].retries + 1 IN
       CommitRow(d, [row[Current(d)] EXCEPT
                       !.st = IF tries > MaxRetries THEN "FAILED" ELSE "PENDING",
                       !.retries = tries])
    /\ failed' = IF row[Current(d)].st = "GONE" THEN failed
                 ELSE [failed EXCEPT ![Current(d)] = @ + 1]

\* A failed attempt is counted on the count the session has read.
CommitFailed(d) ==
    /\ drain[d].pc = "failed"
    /\ LET tries == drain[d].retries + 1 IN
       CommitRow(d, [row[Current(d)] EXCEPT
                       !.st = IF tries >= MaxRetries THEN "FAILED" ELSE "PENDING",
                       !.retries = tries])
    /\ failed' = IF row[Current(d)].st = "GONE" THEN failed
                 ELSE [failed EXCEPT ![Current(d)] = @ + 1]

\* Settled rows are purged after days, when no session can still hold them.
Purge(d) ==
    /\ drain[d].pc = "ready"
    /\ \E R \in SUBSET WithStatus({"DONE"}) :
          /\ R # {}
          /\ \A e \in Drains : drain[e].todo \cap R = {}
          /\ row' = Without(R)
    /\ UNCHANGED <<index, branch, chapter, project, drain, branchLock,
                   reached, failed, stops>>

\* A process stops, for whatever reason; its transaction goes with it.
Stop(d) ==
    /\ Withdrawn + stops < MaxUpsets /\ drain[d].pc # "down"
    /\ stops' = stops + 1
    /\ drain' = [drain EXCEPT ![d] = Down]
    /\ branchLock' = ReleasedBy(d)
    /\ UNCHANGED <<row, index, branch, chapter, project, reached, failed>>

\* A sync takes longer than its lease, or its process is no more.
LeaseExpires(r) ==
    /\ row[r].st = "SYNCING" /\ ~row[r].old
    /\ row' = [row EXCEPT ![r].old = TRUE]
    /\ UNCHANGED <<index, branch, chapter, project, drain, branchLock,
                   reached, failed, stops>>

-----------------------------------------------------------------------------
(* What withdraws scopes.                                                  *)

OfScope(s) == {r \in RowIds : row[r].scope = s /\ row[r].st \notin {"NEW", "GONE"}}

\* post_archive_character_branch holds the branch's lock while it discards what
\* is not yet projected and commits, and drops the collection after that.
ArchiveBranch ==
    /\ Withdrawn + stops < MaxUpsets /\ project = "kept" /\ branch = "open" /\ branchLock = Nobody
    /\ branch' = "archived"
    /\ row' = Without(OfScope("branch") \cap WithStatus({"PENDING", "SYNCING"}))
    /\ UNCHANGED <<index, chapter, project, drain, branchLock, reached, failed, stops>>

Emptied(S) == [s \in OutboxScopes |->
                 IF s \in S THEN [i \in OutboxItems |-> 0] ELSE index[s]]

ClearBranch ==
    /\ branch = "archived"
    /\ branch' = "cleared"
    /\ index' = Emptied({"branch"})
    /\ UNCHANGED <<row, chapter, project, drain, branchLock, reached, failed, stops>>

\* delete_chapter deletes the chapter's rows with it, whatever their status,
\* and its items from the index after the commit.
DeleteChapter ==
    /\ Withdrawn + stops < MaxUpsets /\ project = "kept" /\ chapter = "kept"
    /\ chapter' = "deleted"
    /\ row' = Without(OfScope("chapter"))
    /\ UNCHANGED <<index, branch, project, drain, branchLock, reached, failed, stops>>

ClearChapter ==
    /\ chapter = "deleted"
    /\ chapter' = "cleared"
    /\ index' = Emptied({"chapter"})
    /\ UNCHANGED <<row, branch, project, drain, branchLock, reached, failed, stops>>

\* delete_project_rows deletes the rows, then the branches. A loop that holds a
\* branch and wants to update one of these rows deadlocks with it; when the
\* database chooses the loop, its error ends the loop.
DeleteProject ==
    /\ Withdrawn + stops < MaxUpsets /\ project = "kept"
    /\ \/ branchLock = Nobody /\ UNCHANGED <<drain, branchLock>>
       \/ \E d \in Drains : /\ branchLock = d /\ drain[d].pc \in {"commit", "failed"}
                            /\ drain' = [drain EXCEPT ![d] = Dead]
                            /\ branchLock' = Nobody
    /\ project' = "deleted"
    /\ row' = Without(UNION {OfScope(s) : s \in OutboxScopes})
    /\ UNCHANGED <<index, branch, chapter, reached, failed, stops>>

\* delete_project_projections, after the commit.
ClearProject ==
    /\ project = "deleted"
    /\ project' = "cleared"
    /\ index' = Emptied(OutboxScopes)
    /\ UNCHANGED <<row, branch, chapter, drain, branchLock, reached, failed, stops>>

-----------------------------------------------------------------------------
Drain(d) == Claim(d) \/ Fetch(d) \/ LockBranch(d) \/ Write(d) \/ CommitDone(d)
            \/ CommitFailed(d)

OutboxNext ==
    \/ \E s \in QueuedScopes, items \in SUBSET OutboxItems : Enqueue(s, items)
    \/ \E d \in Drains : Drain(d) \/ Stop(d)
    \/ \E d \in Pollers : StartPoller(d) \/ Purge(d)
    \/ \E d \in Scripts : StartScript(d) \/ ScriptEnds(d)
    \/ \E r \in RowIds : LeaseExpires(r)
    \/ ArchiveBranch \/ ClearBranch \/ DeleteChapter \/ ClearChapter
    \/ DeleteProject \/ ClearProject

OutboxSpec == OutboxInit /\ [][OutboxNext]_outboxVars

\* A process that is up goes on: its loops take every step they can.
OutboxFairness == \A d \in Drains : WF_outboxVars(Drain(d))
OutboxFairSpec == OutboxSpec /\ OutboxFairness

-----------------------------------------------------------------------------
(* Properties.                                                             *)

\* Once an archived branch's collection is dropped nothing writes to it again,
\* although a loop may have read one of its rows before (the lock in
\* process_vector_outbox and in the archive route); the same for the branches
\* of a deleted project.
ArchivedStaysEmpty ==
    branch = "cleared" \/ project = "cleared" =>
        \A i \in OutboxItems : index["branch"][i] = 0

\* The queue keeps the promise of a durable queue: a row is DONE only when all
\* its items have reached the index, FAILED only after MaxRetries failures, and
\* disappears unsettled only with the branch, chapter or project it belongs to,
\* whatever crashes, expired leases, repairs and concurrent loops do.
StandingOf(st) ==
    CASE st = "NEW" -> "none"
      [] st \in {"PENDING", "SYNCING"} -> "owed"
      [] st = "DONE" -> "settled"
      [] st = "FAILED" -> "given_up"
      [] st = "GONE" -> "dropped"

Promises == INSTANCE DeliveryPromise WITH
    Records <- RowIds, Scopes <- OutboxScopes, Allowed <- MaxRetries,
    standing <- [r \in RowIds |-> StandingOf(row[r].st)],
    scopeOf <- [r \in RowIds |-> row[r].scope],
    shown <- {r \in RowIds : row[r].st # "NEW" /\ row[r].items \subseteq reached[r]},
    failures <- failed,
    withdrawn <- {s \in OutboxScopes :
                    \/ project # "kept"
                    \/ s = "branch" /\ branch # "open"
                    \/ s = "chapter" /\ chapter # "kept"}

QueueKeepsPromise == Promises!PSpec

\* A queued row is settled, given up or withdrawn, unless no loop is left or a
\* stopped process holds it: a row that fails every time cannot starve the
\* younger ones, because its failures are counted.
Up(d) == drain[d].pc \notin {"down", "dead"}
HeldByNobody(r) == row[r].st = "SYNCING"
                   /\ \A d \in Drains : r \notin drain[d].todo
QueueDrains ==
    \A r \in RowIds :
        row[r].st = "PENDING" ~> \/ row[r].st \in {"DONE", "FAILED", "GONE"}
                                 \/ HeldByNobody(r)
                                 \/ \A d \in Drains : ~Up(d)
=============================================================================
