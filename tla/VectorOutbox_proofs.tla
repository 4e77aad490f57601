------------------------- MODULE VectorOutbox_proofs -------------------------
(***************************************************************************)
(* Proofs about VectorOutbox, for any number of rows, items, loops and     *)
(* repair scripts and whatever stops or withdraws them: type correctness,  *)
(* that an archived branch's collection stays empty, and that the loops    *)
(* implement the durable queue of DeliveryPromise.                         *)
(***************************************************************************)
EXTENDS VectorOutbox, WellFoundedInduction, FiniteSetTheorems, TLAPS

-----------------------------------------------------------------------------
(* The inductive invariant.                                                *)

Working == {"lock", "write", "commit", "failed"}
Busy == {"fetch"} \cup Working

\* A row that may still be tried has failed fewer than MaxRetries times, and no
\* more often than it was tried; a row that was never written has reached nothing.
RowOK(r) ==
    /\ row[r].st # "NEW" => row[r].items # {}
    /\ row[r].st = "NEW" => reached[r] = {}
    /\ row[r].st \in {"NEW", "PENDING", "SYNCING"} => row[r].retries < MaxRetries
    /\ row[r].retries <= failed[r]

\* A session holds rows that were written; of the one it works on it knows the
\* retry count of some moment, and which items have reached the index.
DrainOK(d) ==
    /\ drain[d].pc \in Busy <=> drain[d].todo # {}
    /\ \A r \in drain[d].todo : row[r].st # "NEW"
    /\ drain[d].pc \in Working =>
          drain[d].retries < MaxRetries /\ drain[d].retries <= failed[Current(d)]
    /\ drain[d].pc = "lock" => row[Current(d)].scope = "branch"
    /\ drain[d].pc \in {"lock", "write"} => drain[d].left # {}
    /\ drain[d].pc = "commit" => drain[d].left = {}
    /\ drain[d].pc \in {"lock", "write", "commit"} =>
          row[Current(d)].items \subseteq drain[d].left \cup reached[Current(d)]

\* Whoever works on a branch's row holds the branch, and a branch is held only
\* while it is open and its project is kept.
LockOK(d) ==
    drain[d].pc \in {"write", "commit", "failed"} /\ row[Current(d)].scope = "branch"
        => branchLock = d
LockInv ==
    /\ \A d \in Drains : LockOK(d)
    /\ branchLock # Nobody => branch = "open" /\ project = "kept"

OutboxInv ==
    /\ OutboxTypeOK
    /\ \A r \in RowIds : RowOK(r)
    /\ \A d \in Drains : DrainOK(d)
    /\ LockInv
    /\ ArchivedStaysEmpty

-----------------------------------------------------------------------------
(* Rows in the order of their numbers.                                     *)

\* The library's order on the naturals, unfolded.
LEMMA LessThanPair ==
    ASSUME NEW x \in Nat, NEW y \in Nat, y < x
    PROVE  <<y, x>> \in OpToRel(<, Nat)
<1> DEFINE p == <<y, x>>
<1>1. p \in Nat \X Nat /\ p[1] = y /\ p[2] = x
  OBVIOUS
<1>2. p[1] < p[2]
  BY <1>1
<1> HIDE DEF p
<1>3. p \in OpToRel(<, Nat)
  BY <1>1, <1>2, Zenon DEF OpToRel
<1> QED
  BY <1>3 DEF p

\* A session that has rows to do has an oldest one.
LEMMA OldestOf ==
    ASSUME NEW R, R \subseteq RowIds, R # {}
    PROVE  Oldest(R) \in R
<1>1. R \subseteq Nat
  BY OutboxAssumption DEF RowIds
<1>2. PICK x \in R : \A y \in R : ~ (<<y, x>> \in OpToRel(<, Nat))
  BY <1>1, NatLessThanWellFounded, WFMin, Zenon
<1>3. ASSUME NEW y \in R
      PROVE  x <= y
  <2>1. x \in Nat /\ y \in Nat
    BY <1>1
  <2>2. ~ (y < x)
    BY <1>2, <2>1, LessThanPair, Zenon
  <2> QED BY <2>1, <2>2
<1> QED
  BY <1>3 DEF Oldest

LEMMA CurrentKnown ==
    ASSUME OutboxInv, NEW d \in Drains, drain[d].pc \in Busy
    PROVE  Current(d) \in drain[d].todo /\ Current(d) \in RowIds
  BY OldestOf DEF OutboxInv, OutboxTypeOK, DrainState, DrainOK, Current

-----------------------------------------------------------------------------
(* What a step keeps of the rows, and with that of every session it does   *)
(* not move.                                                               *)

Kept(r) ==
    /\ row[r].st # "NEW" => /\ row'[r].st # "NEW"
                            /\ row'[r].items = row[r].items
                            /\ row'[r].scope = row[r].scope
    /\ reached[r] \subseteq reached'[r]
    /\ failed[r] <= failed'[r]

LEMMA SessionKept ==
    ASSUME OutboxInv, OutboxTypeOK', \A r \in RowIds : Kept(r),
           NEW d \in Drains, drain'[d] = drain[d]
    PROVE  DrainOK(d)'
<1>1. Current(d)' = Current(d)
  BY DEF Current
<1>2. CASE drain[d].pc \notin Busy
  BY <1>2 DEF OutboxInv, DrainOK, Busy, Working
<1>3. CASE drain[d].pc \in Busy
  <2> DEFINE c == Current(d)
  <2>1. c \in drain[d].todo /\ c \in RowIds
    BY <1>3, CurrentKnown
  <2>2. Kept(c) /\ row[c].st # "NEW"
    BY <2>1 DEF OutboxInv, DrainOK
  <2>3. \A r \in drain[d].todo : Kept(r) /\ row[r].st # "NEW"
    BY DEF OutboxInv, OutboxTypeOK, DrainState, DrainOK
  <2>4. failed[c] \in Nat /\ failed'[c] \in Nat /\ drain[d].retries \in Nat
    BY <2>1, OutboxAssumption DEF OutboxInv, OutboxTypeOK, DrainState
  <2> HIDE DEF c
  <2>5. DrainOK(d)
    BY DEF OutboxInv
  <2> QED
    BY <1>1, <2>2, <2>3, <2>4, <2>5 DEF DrainOK, Kept, c
<1> QED
  BY <1>2, <1>3

\* The lock of a session that is not moved, as long as the lock stays.
LEMMA LockKept ==
    ASSUME OutboxInv, \A r \in RowIds : Kept(r), NEW d \in Drains,
           drain'[d] = drain[d], branchLock = d => branchLock' = d
    PROVE  LockOK(d)'
<1>1. Current(d)' = Current(d)
  BY DEF Current
<1>2. CASE drain[d].pc \notin {"write", "commit", "failed"}
  BY <1>2 DEF LockOK
<1>3. CASE drain[d].pc \in {"write", "commit", "failed"}
  <2>1. Current(d) \in drain[d].todo /\ Current(d) \in RowIds
    BY <1>3, CurrentKnown DEF Busy, Working
  <2>2. Kept(Current(d)) /\ row[Current(d)].st # "NEW"
    BY <2>1 DEF OutboxInv, DrainOK
  <2> QED
    BY <1>1, <2>2 DEF LockOK, OutboxInv, LockInv, Kept
<1> QED
  BY <1>2, <1>3

-----------------------------------------------------------------------------
(* Type correctness of every step.                                         *)

LEMMA RestTyped ==
    ASSUME OutboxInv, NEW d \in Drains
    PROVE  /\ Onward(d) \in DrainState
           /\ Onward(d).pc \in {"ready", "fetch"}
           /\ Onward(d).pc = "ready" <=> Onward(d).todo = {}
           /\ Onward(d).todo \subseteq drain[d].todo
<1> DEFINE rest == drain[d].todo \ {Current(d)}
<1>1. rest \subseteq RowIds /\ rest \subseteq drain[d].todo
  BY DEF OutboxInv, OutboxTypeOK, DrainState
<1>2. Onward(d) = [pc |-> IF rest = {} THEN "ready" ELSE "fetch", todo |-> rest,
                   left |-> {}, retries |-> 0]
  BY DEF Onward, Idle
<1>3. 0 \in 0..MaxRetries
  BY OutboxAssumption
<1> HIDE DEF rest
<1> QED
  BY <1>1, <1>2, <1>3 DEF DrainState

LEMMA TypeInit == OutboxInit => OutboxTypeOK
<1> SUFFICES ASSUME OutboxInit PROVE OutboxTypeOK
  OBVIOUS
<1>1. 0 \in 0..MaxRetries /\ 0 \in 0..MaxUpsets /\ 0 \in 0..MaxRows
  BY OutboxAssumption
<1>2. NewRow \in Row
  BY <1>1 DEF NewRow, Row, RowStatuses, OutboxScopes
<1>3. Down = [pc |-> "down", todo |-> {}, left |-> {}, retries |-> 0]
  BY DEF Down, Idle
<1>4. Down \in DrainState
  BY <1>1, <1>3 DEF DrainState
<1> QED
  BY <1>1, <1>2, <1>4 DEF OutboxInit, OutboxTypeOK

\* The forms in which a step rewrites a row.
LEMMA RowRewritten ==
    ASSUME NEW x \in Row
    PROVE  /\ \A st \in RowStatuses : [x EXCEPT !.st = st] \in Row
           /\ [x EXCEPT !.old = TRUE] \in Row
           /\ [x EXCEPT !.st = "SYNCING", !.old = FALSE] \in Row
           /\ \A st \in RowStatuses, n \in 0..MaxRetries :
                 [x EXCEPT !.st = st, !.retries = n] \in Row
  BY DEF Row, RowStatuses

LEMMA RowsTyped ==
    ASSUME OutboxInv, NEW R
    PROVE  /\ Without(R) \in [RowIds -> Row]
           /\ [r \in RowIds |-> Recovered(r)] \in [RowIds -> Row]
           /\ [r \in RowIds |-> Reset(r)] \in [RowIds -> Row]
           /\ [r \in RowIds |-> IF r \in OldestPending
                 THEN [row[r] EXCEPT !.st = "SYNCING", !.old = FALSE] ELSE row[r]]
              \in [RowIds -> Row]
<1>1. \A r \in RowIds : row[r] \in Row
  BY DEF OutboxInv, OutboxTypeOK
<1>2. 0 \in 0..MaxRetries
  BY OutboxAssumption
<1>3. \A r \in RowIds : /\ [row[r] EXCEPT !.st = "GONE"] \in Row
                        /\ [row[r] EXCEPT !.st = "PENDING"] \in Row
                        /\ [row[r] EXCEPT !.st = "PENDING", !.retries = 0] \in Row
                        /\ [row[r] EXCEPT !.st = "SYNCING", !.old = FALSE] \in Row
  BY <1>1, <1>2, RowRewritten DEF RowStatuses
<1> QED
  BY <1>1, <1>3 DEF Without, Recovered, Reset

\* The records some steps write, field by field.
LEMMA NewRowParts ==
    ASSUME NEW s, NEW items, NEW x,
           x = [NewRow EXCEPT !.st = "PENDING", !.scope = s, !.items = items]
    PROVE  x = [st |-> "PENDING", scope |-> s, items |-> items, retries |-> 0,
                old |-> FALSE]
  BY DEF NewRow

LEMMA ClaimParts ==
    ASSUME NEW R, NEW x, x = [Idle EXCEPT !.pc = "fetch", !.todo = R]
    PROVE  x = [pc |-> "fetch", todo |-> R, left |-> {}, retries |-> 0]
  BY DEF Idle

-----------------------------------------------------------------------------
(* Steps that move no session.                                             *)

LEMMA NoSessionMoved ==
    ASSUME OutboxInv, OutboxTypeOK', \A r \in RowIds : Kept(r), \A r \in RowIds : RowOK(r)',
           drain' = drain, branchLock' = branchLock,
           branchLock # Nobody => branch' = "open" /\ project' = "kept",
           ArchivedStaysEmpty'
    PROVE  OutboxInv'
<1>1. \A d \in Drains : DrainOK(d)'
  BY SessionKept
<1>2. \A d \in Drains : LockOK(d)'
  BY LockKept
<1> QED
  BY <1>1, <1>2 DEF OutboxInv, LockInv

LEMMA EnqueueStep ==
    ASSUME OutboxInv, NEW s \in QueuedScopes, NEW items \in SUBSET OutboxItems,
           Enqueue(s, items)
    PROVE  OutboxInv'
<1>1. PICK r \in RowIds :
          /\ row[r].st = "NEW"
          /\ row' = [row EXCEPT ![r] = [NewRow EXCEPT !.st = "PENDING", !.scope = s,
                                                      !.items = items]]
  BY DEF Enqueue
<1> DEFINE new == [st |-> "PENDING", scope |-> s, items |-> items, retries |-> 0,
                   old |-> FALSE]
<1>0. [NewRow EXCEPT !.st = "PENDING", !.scope = s, !.items = items] = new
  BY NewRowParts, Zenon
<1>2. row' = [row EXCEPT ![r] = new]
  BY <1>0, <1>1
<1>3. new \in Row /\ items # {} /\ new.retries < MaxRetries
  BY OutboxAssumption DEF Row, RowStatuses, Enqueue
<1>4. row \in [RowIds -> Row] /\ reached \in [RowIds -> SUBSET OutboxItems]
      /\ failed \in [RowIds -> Nat]
  BY DEF OutboxInv, OutboxTypeOK
<1>5. /\ index' = index /\ branch' = branch /\ chapter' = chapter /\ project' = project
      /\ drain' = drain /\ branchLock' = branchLock /\ reached' = reached
      /\ failed' = failed /\ stops' = stops
  BY DEF Enqueue
<1>6. new.st = "PENDING" /\ new.items = items /\ new.retries = 0
  OBVIOUS
<1> HIDE DEF new
<1>7. OutboxTypeOK'
  BY <1>2, <1>3, <1>4, <1>5 DEF OutboxInv, OutboxTypeOK
<1>8. \A q \in RowIds : Kept(q)
  BY <1>1, <1>2, <1>4, <1>5 DEF Kept
<1>9. \A q \in RowIds : RowOK(q)'
  BY <1>2, <1>3, <1>4, <1>5, <1>6 DEF OutboxInv, RowOK
<1> QED
  BY <1>5, <1>7, <1>8, <1>9, NoSessionMoved DEF OutboxInv, LockInv, ArchivedStaysEmpty

\* Rows whose state changes, and nothing else of them.
LEMMA StatesChanged ==
    ASSUME OutboxInv, row' \in [RowIds -> Row],
           \A r \in RowIds :
             /\ row'[r].items = row[r].items /\ row'[r].scope = row[r].scope
             /\ row'[r].st = "NEW" <=> row[r].st = "NEW"
             /\ row'[r].st \in {"PENDING", "SYNCING"} =>
                    row[r].st \in {"PENDING", "SYNCING"} \/ row'[r].retries = 0
             /\ row'[r].retries \in {0, row[r].retries},
           reached' = reached, failed' = failed
    PROVE  \A r \in RowIds : Kept(r) /\ RowOK(r)'
<1> SUFFICES ASSUME NEW r \in RowIds PROVE Kept(r) /\ RowOK(r)'
  OBVIOUS
<1>1. failed[r] \in Nat /\ row[r].retries \in Nat /\ row'[r].retries \in Nat
  BY OutboxAssumption DEF OutboxInv, OutboxTypeOK, Row
<1>2. RowOK(r)
  BY DEF OutboxInv
<1> QED
  BY <1>1, <1>2, OutboxAssumption DEF Kept, RowOK

LEMMA LeaseExpiresStep ==
    ASSUME OutboxInv, NEW r \in RowIds, LeaseExpires(r)
    PROVE  OutboxInv'
<1>1. row \in [RowIds -> Row] /\ row' = [row EXCEPT ![r] = [row[r] EXCEPT !.old = TRUE]]
  BY DEF OutboxInv, OutboxTypeOK, LeaseExpires
<1>2. [row[r] EXCEPT !.old = TRUE] \in Row /\ row' \in [RowIds -> Row]
  BY <1>1, RowRewritten
<1>3. /\ index' = index /\ branch' = branch /\ chapter' = chapter /\ project' = project
      /\ drain' = drain /\ branchLock' = branchLock /\ reached' = reached
      /\ failed' = failed /\ stops' = stops
  BY DEF LeaseExpires
<1>4. \A q \in RowIds : Kept(q) /\ RowOK(q)'
  <2>1. \A q \in RowIds : /\ row'[q].items = row[q].items /\ row'[q].scope = row[q].scope
                          /\ row'[q].st = row[q].st /\ row'[q].retries = row[q].retries
    BY <1>1 DEF Row
  <2> QED BY <1>2, <1>3, <2>1, StatesChanged
<1>5. OutboxTypeOK'
  BY <1>2, <1>3 DEF OutboxInv, OutboxTypeOK
<1> QED
  BY <1>3, <1>4, <1>5, NoSessionMoved DEF OutboxInv, LockInv, ArchivedStaysEmpty

\* Deleting rows: those that were never written are not deleted.
LEMMA Deleted ==
    ASSUME OutboxInv, NEW R, \A r \in R : row[r].st # "NEW", row' = Without(R),
           reached' = reached, failed' = failed
    PROVE  \A r \in RowIds : Kept(r) /\ RowOK(r)'
<1>1. row' \in [RowIds -> Row]
  BY RowsTyped
<1>2. \A r \in RowIds : /\ row'[r].items = row[r].items /\ row'[r].scope = row[r].scope
                        /\ row'[r].st = IF r \in R THEN "GONE" ELSE row[r].st
                        /\ row'[r].retries = row[r].retries
  BY DEF Without, Row, OutboxInv, OutboxTypeOK
<1> QED
  BY <1>1, <1>2, StatesChanged

\* Steps that delete rows and touch no session.
LEMMA DeletionStep ==
    ASSUME OutboxInv, NEW R, \A r \in R : row[r].st # "NEW",
           row' = Without(R), drain' = drain, branchLock' = branchLock,
           reached' = reached, failed' = failed, stops' = stops,
           index' = index \/ index' = Emptied({"branch"}) \/ index' = Emptied({"chapter"})
                          \/ index' = Emptied(OutboxScopes),
           branch' \in {"open", "archived", "cleared"},
           chapter' \in {"kept", "deleted", "cleared"},
           project' \in {"kept", "deleted", "cleared"},
           branchLock # Nobody => branch' = "open" /\ project' = "kept",
           ArchivedStaysEmpty'
    PROVE  OutboxInv'
<1>1. OutboxTypeOK'
  <2>1. row' \in [RowIds -> Row]
    BY RowsTyped
  <2>2. index' \in [OutboxScopes -> [OutboxItems -> 0..MaxRows]]
    BY OutboxAssumption DEF Emptied, OutboxInv, OutboxTypeOK
  <2> QED BY <2>1, <2>2 DEF OutboxInv, OutboxTypeOK
<1>2. \A r \in RowIds : Kept(r) /\ RowOK(r)'
  BY Deleted
<1> QED
  BY <1>1, <1>2, NoSessionMoved

LEMMA PurgeStep ==
    ASSUME OutboxInv, NEW d \in Drains, Purge(d)
    PROVE  OutboxInv'
<1>1. PICK R \in SUBSET WithStatus({"DONE"}) : row' = Without(R)
  BY DEF Purge
<1>2. \A r \in R : row[r].st # "NEW"
  BY DEF WithStatus
<1>3. /\ index' = index /\ branch' = branch /\ chapter' = chapter /\ project' = project
      /\ drain' = drain /\ branchLock' = branchLock /\ reached' = reached
      /\ failed' = failed /\ stops' = stops
  BY DEF Purge
<1> QED
  BY <1>1, <1>2, <1>3, DeletionStep DEF OutboxInv, OutboxTypeOK, LockInv, ArchivedStaysEmpty

\* The rows of a scope, all of them written.
LEMMA ScopeWritten ==
    /\ \A s \in OutboxScopes : \A r \in OfScope(s) : row[r].st # "NEW"
    /\ \A r \in UNION {OfScope(s) : s \in OutboxScopes} : row[r].st # "NEW"
  BY DEF OfScope

LEMMA WithdrawalStep ==
    ASSUME OutboxInv, ArchiveBranch \/ DeleteChapter
    PROVE  OutboxInv'
<1>1. CASE ArchiveBranch
  <2>1. \A r \in OfScope("branch") \cap WithStatus({"PENDING", "SYNCING"}) : row[r].st # "NEW"
    BY DEF OfScope
  <2>2. branchLock = Nobody /\ branch' = "archived" /\ project' = "kept" /\ index' = index
    BY <1>1 DEF ArchiveBranch
  <2>3. ArchivedStaysEmpty'
    BY <2>2 DEF ArchivedStaysEmpty
  <2> QED
    BY <1>1, <2>1, <2>2, <2>3, DeletionStep DEF ArchiveBranch, OutboxInv, OutboxTypeOK
<1>2. CASE DeleteChapter
  <2>1. \A r \in OfScope("chapter") : row[r].st # "NEW"
    BY DEF OfScope
  <2>2. branch' = branch /\ project' = project /\ index' = index
    BY <1>2 DEF DeleteChapter
  <2>3. ArchivedStaysEmpty'
    BY <2>2 DEF ArchivedStaysEmpty, OutboxInv
  <2> QED
    BY <1>2, <2>1, <2>2, <2>3, DeletionStep
       DEF DeleteChapter, OutboxInv, OutboxTypeOK, LockInv
<1> QED
  BY <1>1, <1>2

LEMMA ClearStep ==
    ASSUME OutboxInv, ClearBranch \/ ClearChapter \/ ClearProject
    PROVE  OutboxInv'
<1>1. row = Without({})
  BY DEF Without, OutboxInv, OutboxTypeOK
<1>2. /\ row' = row /\ drain' = drain /\ branchLock' = branchLock
      /\ reached' = reached /\ failed' = failed /\ stops' = stops
  BY DEF ClearBranch, ClearChapter, ClearProject
<1>3. "branch" \in OutboxScopes
  BY DEF OutboxScopes
<1>4. branchLock = Nobody \/ (branch = "open" /\ project = "kept")
  BY DEF OutboxInv, LockInv
<1>5. CASE ClearBranch
  <2>1. branch = "archived" /\ branch' = "cleared" /\ index' = Emptied({"branch"})
        /\ chapter' = chapter /\ project' = project
    BY <1>5 DEF ClearBranch
  <2>2. ArchivedStaysEmpty'
    BY <1>3, <2>1 DEF ArchivedStaysEmpty, Emptied
  <2> QED
    BY <1>1, <1>2, <1>4, <2>1, <2>2, DeletionStep DEF OutboxInv, OutboxTypeOK
<1>6. CASE ClearChapter
  <2>1. chapter' = "cleared" /\ index' = Emptied({"chapter"})
        /\ branch' = branch /\ project' = project
    BY <1>6 DEF ClearChapter
  <2>2. ArchivedStaysEmpty'
    BY <1>3, <2>1 DEF ArchivedStaysEmpty, Emptied, OutboxInv
  <2> QED
    BY <1>1, <1>2, <1>4, <2>1, <2>2, DeletionStep DEF OutboxInv, OutboxTypeOK
<1>7. CASE ClearProject
  <2>1. project = "deleted" /\ project' = "cleared" /\ index' = Emptied(OutboxScopes)
        /\ branch' = branch /\ chapter' = chapter
    BY <1>7 DEF ClearProject
  <2>2. ArchivedStaysEmpty'
    BY <1>3, <2>1 DEF ArchivedStaysEmpty, Emptied
  <2> QED
    BY <1>1, <1>2, <1>4, <2>1, <2>2, DeletionStep DEF OutboxInv, OutboxTypeOK
<1> QED
  BY <1>5, <1>6, <1>7

-----------------------------------------------------------------------------
(* Steps of one session.                                                   *)

LEMMA OneSession ==
    ASSUME OutboxInv, OutboxTypeOK', \A r \in RowIds : Kept(r) /\ RowOK(r)',
           NEW d \in Drains, NEW m, drain' = [drain EXCEPT ![d] = m],
           DrainOK(d)', LockOK(d)',
           branchLock' = branchLock \/ branchLock \in {Nobody, d},
           branchLock' # Nobody => branch' = "open" /\ project' = "kept",
           ArchivedStaysEmpty'
    PROVE  OutboxInv'
<1>1. \A e \in Drains \ {d} : drain'[e] = drain[e]
  BY DEF OutboxInv, OutboxTypeOK
<1>2. \A e \in Drains \ {d} : branchLock = e => branchLock' = e
  BY NobodyAssumption
<1>3. \A e \in Drains \ {d} : DrainOK(e)'
  BY <1>1, SessionKept
<1>4. \A e \in Drains \ {d} : LockOK(e)'
  BY <1>1, <1>2, LockKept
<1> QED
  BY <1>3, <1>4 DEF OutboxInv, LockInv

\* A session that does not work on a row has little to know.
LEMMA Resting ==
    ASSUME OutboxInv, \A r \in RowIds : Kept(r), NEW d \in Drains, NEW m \in DrainState,
           m.pc \in {"ready", "fetch", "down", "dead"}, m.pc = "fetch" <=> m.todo # {},
           m.todo \subseteq drain[d].todo, drain' = [drain EXCEPT ![d] = m]
    PROVE  DrainOK(d)' /\ LockOK(d)'
<1>1. drain'[d] = m /\ m.todo \subseteq RowIds
  BY DEF OutboxInv, OutboxTypeOK, DrainState
<1>2. \A r \in m.todo : row'[r].st # "NEW"
  BY <1>1 DEF OutboxInv, DrainOK, Kept
<1> QED
  BY <1>1, <1>2 DEF DrainOK, LockOK, Busy, Working

LEMMA Moved ==
    ASSUME OutboxInv, NEW d \in Drains, NEW m \in DrainState, drain' = [drain EXCEPT ![d] = m]
    PROVE  drain' \in [Drains -> DrainState]
  BY DEF OutboxInv, OutboxTypeOK

LEMMA RestSessions ==
    /\ Idle \in DrainState /\ Idle.pc = "ready" /\ Idle.todo = {}
    /\ Down \in DrainState /\ Down.pc = "down" /\ Down.todo = {}
    /\ Dead \in DrainState /\ Dead.pc = "dead" /\ Dead.todo = {}
<1>1. 0 \in 0..MaxRetries
  BY OutboxAssumption
<1>2. Down = [pc |-> "down", todo |-> {}, left |-> {}, retries |-> 0]
  BY DEF Down, Idle
<1>3. Dead = [pc |-> "dead", todo |-> {}, left |-> {}, retries |-> 0]
  BY DEF Dead, Idle
<1> QED
  BY <1>1, <1>2, <1>3 DEF Idle, DrainState

\* Nothing changes in the rows.
LEMMA RowsKept ==
    ASSUME OutboxInv, row' = row, reached' = reached, failed' = failed
    PROVE  \A r \in RowIds : Kept(r) /\ RowOK(r)'
<1>1. \A r \in RowIds : failed[r] \in Nat
  BY DEF OutboxInv, OutboxTypeOK
<1> QED
  BY <1>1 DEF OutboxInv, Kept, RowOK

LEMMA StartStep ==
    ASSUME OutboxInv, NEW d \in Drains, StartPoller(d) \/ StartScript(d)
    PROVE  OutboxInv'
<1>1. /\ index' = index /\ branch' = branch /\ chapter' = chapter /\ project' = project
      /\ drain' = [drain EXCEPT ![d] = Idle] /\ branchLock' = branchLock
      /\ reached' = reached /\ failed' = failed /\ stops' = stops
  BY DEF StartPoller, StartScript
<1>2. \/ row' = [r \in RowIds |-> Recovered(r)]
      \/ row' = [r \in RowIds |-> Reset(r)]
  BY DEF StartPoller, StartScript
<1>3. row' \in [RowIds -> Row]
  BY <1>2, RowsTyped
<1>4. \A r \in RowIds : Kept(r) /\ RowOK(r)'
  <2>1. \A r \in RowIds : row[r] \in Row
    BY DEF OutboxInv, OutboxTypeOK
  <2>2. \A r \in RowIds :
          /\ row'[r].items = row[r].items /\ row'[r].scope = row[r].scope
          /\ row'[r].st = "NEW" <=> row[r].st = "NEW"
          /\ row'[r].st \in {"PENDING", "SYNCING"} =>
                 row[r].st \in {"PENDING", "SYNCING"} \/ row'[r].retries = 0
          /\ row'[r].retries \in {0, row[r].retries}
    <3>1. CASE row' = [r \in RowIds |-> Recovered(r)]
      BY <2>1, <3>1 DEF Recovered, WithStatus, Row
    <3>2. CASE row' = [r \in RowIds |-> Reset(r)]
      BY <2>1, <3>2 DEF Reset, WithStatus, Row
    <3> QED BY <1>2, <3>1, <3>2
  <2> QED BY <1>1, <1>3, <2>2, StatesChanged
<1>5. OutboxTypeOK'
  BY <1>1, <1>3, Moved, RestSessions DEF OutboxInv, OutboxTypeOK
<1>6. DrainOK(d)' /\ LockOK(d)'
  BY <1>1, <1>4, Resting, RestSessions
<1> QED
  BY <1>1, <1>4, <1>5, <1>6, OneSession DEF OutboxInv, LockInv, ArchivedStaysEmpty

LEMMA ClaimStep ==
    ASSUME OutboxInv, NEW d \in Drains, Claim(d)
    PROVE  OutboxInv'
<1> DEFINE m == [pc |-> "fetch", todo |-> OldestPending, left |-> {}, retries |-> 0]
<1>1. /\ index' = index /\ branch' = branch /\ chapter' = chapter /\ project' = project
      /\ branchLock' = branchLock
      /\ reached' = reached /\ failed' = failed /\ stops' = stops
  BY DEF Claim
<1>2. OldestPending # {} /\ OldestPending \subseteq RowIds
      /\ \A r \in OldestPending : row[r].st = "PENDING"
  BY DEF Claim, OldestPending, WithStatus
<1>3. row' = [r \in RowIds |-> IF r \in OldestPending
                THEN [row[r] EXCEPT !.st = "SYNCING", !.old = FALSE] ELSE row[r]]
  BY DEF Claim
<1>4. row' \in [RowIds -> Row]
  BY <1>3, RowsTyped
<1>5. m \in DrainState /\ m.pc = "fetch" /\ m.todo = OldestPending
  BY <1>2, OutboxAssumption DEF DrainState
<1>6. drain' = [drain EXCEPT ![d] = m]
  <2>1. [Idle EXCEPT !.pc = "fetch", !.todo = OldestPending] = m
    BY ClaimParts, Zenon
  <2> QED BY <2>1 DEF Claim
<1> HIDE DEF m
<1>7. \A r \in RowIds : /\ row'[r].items = row[r].items /\ row'[r].scope = row[r].scope
                        /\ row'[r].retries = row[r].retries
                        /\ row'[r].st = IF r \in OldestPending THEN "SYNCING" ELSE row[r].st
  BY <1>3 DEF OutboxInv, OutboxTypeOK, Row
<1>8. \A r \in RowIds : Kept(r) /\ RowOK(r)'
  BY <1>1, <1>2, <1>4, <1>7, StatesChanged
<1>9. OutboxTypeOK'
  BY <1>1, <1>4, <1>5, <1>6, Moved DEF OutboxInv, OutboxTypeOK
<1>10. DrainOK(d)' /\ LockOK(d)'
  <2>1. drain'[d] = m
    BY <1>6 DEF OutboxInv, OutboxTypeOK
  <2>2. \A r \in OldestPending : row'[r].st # "NEW"
    BY <1>2, <1>7
  <2> QED BY <1>2, <1>5, <2>1, <2>2 DEF DrainOK, LockOK, Busy, Working
<1> QED
  BY <1>1, <1>6, <1>8, <1>9, <1>10, OneSession DEF OutboxInv, LockInv, ArchivedStaysEmpty

LEMMA EndStep ==
    ASSUME OutboxInv, NEW d \in Drains, ScriptEnds(d) \/ Stop(d)
    PROVE  OutboxInv'
<1>1. /\ row' = row /\ index' = index /\ branch' = branch /\ chapter' = chapter
      /\ project' = project /\ reached' = reached /\ failed' = failed
  BY DEF ScriptEnds, Stop
<1>2. PICK m \in {Dead, Down} : drain' = [drain EXCEPT ![d] = m]
  BY DEF ScriptEnds, Stop
<1>3. branchLock' = branchLock \/ (branchLock = d /\ branchLock' = Nobody)
  BY DEF ScriptEnds, Stop, ReleasedBy
<1>4. stops' \in 0..MaxUpsets
  <2>1. CASE ScriptEnds(d)
    BY <2>1 DEF ScriptEnds, OutboxInv, OutboxTypeOK
  <2>2. CASE Stop(d)
    <3>1. Withdrawn \in Nat
      <4>1. IsFiniteSet({"branch", "chapter", "project"})
        <5>1. IsFiniteSet({} \cup {"branch"})
          BY FS_EmptySet, FS_AddElement
        <5>2. IsFiniteSet(({} \cup {"branch"}) \cup {"chapter"})
          BY <5>1, FS_AddElement
        <5>3. IsFiniteSet((({} \cup {"branch"}) \cup {"chapter"}) \cup {"project"})
          BY <5>2, FS_AddElement
        <5>4. {"branch", "chapter", "project"}
                = (({} \cup {"branch"}) \cup {"chapter"}) \cup {"project"}
          OBVIOUS
        <5> QED BY <5>3, <5>4
      <4> QED BY <4>1, FS_Subset, FS_CardinalityType DEF Withdrawn
    <3> QED BY <2>2, <3>1, OutboxAssumption DEF Stop, OutboxInv, OutboxTypeOK
  <2> QED BY <2>1, <2>2
<1>5. m \in DrainState /\ m.pc \in {"down", "dead"} /\ m.todo = {}
  BY RestSessions
<1>6. OutboxTypeOK'
  BY <1>1, <1>2, <1>3, <1>4, <1>5, Moved DEF OutboxInv, OutboxTypeOK
<1>7. \A r \in RowIds : Kept(r) /\ RowOK(r)'
  BY <1>1, RowsKept
<1>8. DrainOK(d)' /\ LockOK(d)'
  BY <1>2, <1>5, <1>7, Resting
<1> QED
  BY <1>1, <1>2, <1>3, <1>6, <1>7, <1>8, OneSession
     DEF OutboxInv, LockInv, ArchivedStaysEmpty

LEMMA FetchStep ==
    ASSUME OutboxInv, NEW d \in Drains, Fetch(d)
    PROVE  OutboxInv'
<1> DEFINE c == Current(d)
<1>1. /\ row' = row /\ index' = index /\ branch' = branch /\ chapter' = chapter
      /\ project' = project /\ branchLock' = branchLock /\ reached' = reached
      /\ failed' = failed /\ stops' = stops
  BY DEF Fetch
<1>2. c \in drain[d].todo /\ c \in RowIds /\ drain[d] \in DrainState
      /\ row[c] \in Row /\ RowOK(c)
  BY CurrentKnown DEF Fetch, Busy, OutboxInv, OutboxTypeOK
<1>3. \A r \in RowIds : Kept(r) /\ RowOK(r)'
  BY <1>1, RowsKept
<1>4. CASE row[c].st # "SYNCING"
  <2>1. drain' = [drain EXCEPT ![d] = Onward(d)]
    BY <1>4 DEF Fetch, WithStatus
  <2>2. OutboxTypeOK'
    BY <1>1, <2>1, Moved, RestTyped DEF OutboxInv, OutboxTypeOK
  <2>3. DrainOK(d)' /\ LockOK(d)'
    BY <1>3, <2>1, RestTyped, Resting
  <2> QED
    BY <1>1, <1>3, <2>1, <2>2, <2>3, OneSession DEF OutboxInv, LockInv, ArchivedStaysEmpty
<1>5. CASE row[c].st = "SYNCING"
  <2> DEFINE m == [pc |-> IF row[c].scope = "branch" THEN "lock" ELSE "write",
                   todo |-> drain[d].todo, left |-> row[c].items,
                   retries |-> row[c].retries]
  <2>1. drain' = [drain EXCEPT ![d] = m]
    <3>1. drain' = [drain EXCEPT ![d] =
             [drain[d] EXCEPT !.pc = IF row[c].scope = "branch" THEN "lock" ELSE "write",
                              !.left = row[c].items, !.retries = row[c].retries]]
      BY <1>2, <1>5 DEF Fetch, WithStatus
    <3>2. PICK x : x = [drain[d] EXCEPT
             !.pc = IF row[c].scope = "branch" THEN "lock" ELSE "write",
             !.left = row[c].items, !.retries = row[c].retries]
      OBVIOUS
    <3>3. x = m
      BY <1>2, <3>2 DEF DrainState
    <3> QED BY <3>1, <3>2, <3>3
  <2>2. m \in DrainState
    BY <1>2 DEF DrainState, Row
  <2>3. OutboxTypeOK'
    BY <1>1, <2>1, <2>2, Moved DEF OutboxInv, OutboxTypeOK
  <2>4. drain'[d] = m /\ Current(d)' = c
    BY <2>1 DEF OutboxInv, OutboxTypeOK, Current
  <2>5. row[c].items # {} /\ row[c].retries < MaxRetries /\ row[c].retries <= failed[c]
    BY <1>2, <1>5 DEF RowOK
  <2>6. \A r \in drain[d].todo : row[r].st # "NEW"
    BY DEF OutboxInv, DrainOK
  <2> HIDE DEF c
  <2>7. DrainOK(d)' /\ LockOK(d)'
    BY <1>1, <1>2, <2>4, <2>5, <2>6 DEF DrainOK, LockOK, Busy, Working
  <2> QED
    BY <1>1, <1>3, <2>1, <2>3, <2>7, OneSession DEF OutboxInv, LockInv, ArchivedStaysEmpty
<1> QED
  BY <1>4, <1>5

LEMMA LockStep ==
    ASSUME OutboxInv, NEW d \in Drains, LockBranch(d)
    PROVE  OutboxInv'
<1> DEFINE c == Current(d)
<1>1. /\ index' = index /\ branch' = branch /\ chapter' = chapter /\ project' = project
      /\ reached' = reached /\ failed' = failed /\ stops' = stops
      /\ branchLock = Nobody /\ drain[d].pc = "lock"
  BY DEF LockBranch
<1>2. c \in drain[d].todo /\ c \in RowIds /\ drain[d] \in DrainState /\ row[c].st # "NEW"
      /\ DrainOK(d)
  BY <1>1, CurrentKnown DEF Busy, Working, OutboxInv, OutboxTypeOK, DrainOK
<1>3. CASE branch = "open" /\ project = "kept"
  <2> DEFINE m == [drain[d] EXCEPT !.pc = "write"]
  <2>1. branchLock' = d /\ drain' = [drain EXCEPT ![d] = m] /\ row' = row
    BY <1>3 DEF LockBranch
  <2>2. /\ m \in DrainState /\ m.pc = "write" /\ m.todo = drain[d].todo
        /\ m.left = drain[d].left /\ m.retries = drain[d].retries
    BY <1>2 DEF DrainState
  <2> HIDE DEF m
  <2>3. OutboxTypeOK'
    BY <1>1, <2>1, <2>2, Moved DEF OutboxInv, OutboxTypeOK
  <2>4. drain'[d] = m /\ Current(d)' = c
    BY <2>1, <2>2 DEF OutboxInv, OutboxTypeOK, Current
  <2>5. \A r \in RowIds : Kept(r) /\ RowOK(r)'
    BY <1>1, <2>1, RowsKept
  <2> HIDE DEF c
  <2>6. DrainOK(d)' /\ LockOK(d)'
    BY <1>1, <1>2, <2>1, <2>2, <2>4 DEF DrainOK, LockOK, Busy, Working, c
  <2>7. ArchivedStaysEmpty'
    BY <1>1 DEF OutboxInv, ArchivedStaysEmpty
  <2> QED
    BY <1>1, <1>3, <2>1, <2>3, <2>5, <2>6, <2>7, OneSession
<1>4. CASE ~ (branch = "open" /\ project = "kept")
  <2>1. /\ branchLock' = branchLock /\ drain' = [drain EXCEPT ![d] = Onward(d)]
        /\ row' = Without({c})
    BY <1>4 DEF LockBranch
  <2>2. \A r \in RowIds : Kept(r) /\ RowOK(r)'
    BY <1>1, <1>2, <2>1, Deleted
  <2>3. OutboxTypeOK'
    BY <1>1, <2>1, RowsTyped, RestTyped, Moved DEF OutboxInv, OutboxTypeOK
  <2>4. DrainOK(d)' /\ LockOK(d)'
    BY <2>1, <2>2, RestTyped, Resting
  <2> QED
    BY <1>1, <2>1, <2>2, <2>3, <2>4, OneSession DEF OutboxInv, LockInv, ArchivedStaysEmpty
<1> QED
  BY <1>3, <1>4

\* An item of the current row is written, or not: what both outcomes share.
LEMMA ItemWritten ==
    ASSUME OutboxInv, NEW d \in Drains, drain[d].pc = "write", NEW i \in OutboxItems,
           index' = [index EXCEPT ![row[Current(d)].scope][i] = Current(d)],
           reached' = [reached EXCEPT ![Current(d)] = @ \cup {i}],
           row' = row, branch' = branch, project' = project, failed' = failed
    PROVE  /\ index' \in [OutboxScopes -> [OutboxItems -> 0..MaxRows]]
           /\ reached' \in [RowIds -> SUBSET OutboxItems]
           /\ \A r \in RowIds : Kept(r) /\ RowOK(r)'
           /\ ArchivedStaysEmpty'
<1> DEFINE c == Current(d)
           sc == row[c].scope
<1>1. c \in drain[d].todo /\ c \in RowIds
  BY CurrentKnown DEF Busy, Working
<1>2. row[c].st # "NEW"
  BY <1>1 DEF OutboxInv, DrainOK
<1>3. sc \in OutboxScopes /\ c \in 0..MaxRows
  BY <1>1, OutboxAssumption DEF OutboxInv, OutboxTypeOK, Row, RowIds
<1>4. /\ index \in [OutboxScopes -> [OutboxItems -> 0..MaxRows]]
      /\ reached \in [RowIds -> SUBSET OutboxItems] /\ failed \in [RowIds -> Nat]
  BY DEF OutboxInv, OutboxTypeOK
<1>5. sc = "branch" => branch = "open" /\ project = "kept"
  BY NobodyAssumption DEF OutboxInv, LockInv, LockOK
<1>6. index' = [index EXCEPT ![sc] = [index[sc] EXCEPT ![i] = c]]
  OBVIOUS
<1>7. reached' = [reached EXCEPT ![c] = reached[c] \cup {i}]
  OBVIOUS
<1> HIDE DEF c, sc
<1>8. index' \in [OutboxScopes -> [OutboxItems -> 0..MaxRows]]
  <2>1. [index[sc] EXCEPT ![i] = c] \in [OutboxItems -> 0..MaxRows]
    BY <1>3, <1>4
  <2> QED BY <1>3, <1>4, <1>6, <2>1
<1>9. reached' \in [RowIds -> SUBSET OutboxItems]
  BY <1>1, <1>4, <1>7
<1>10. \A r \in RowIds : Kept(r) /\ RowOK(r)'
  BY <1>1, <1>2, <1>4, <1>7 DEF OutboxInv, Kept, RowOK
<1>11. ArchivedStaysEmpty'
  <2>1. CASE sc = "branch"
    BY <1>5, <2>1 DEF ArchivedStaysEmpty
  <2>2. CASE sc # "branch"
    <3>1. index'["branch"] = index["branch"]
      BY <1>4, <1>6, <2>2 DEF OutboxScopes
    <3> QED BY <3>1 DEF OutboxInv, ArchivedStaysEmpty
  <2> QED BY <2>1, <2>2
<1> QED
  BY <1>8, <1>9, <1>10, <1>11

LEMMA WriteStep ==
    ASSUME OutboxInv, NEW d \in Drains, Write(d)
    PROVE  OutboxInv'
<1> DEFINE c == Current(d)
           i == CHOOSE i \in drain[d].left : TRUE
           more == drain[d].left \ {i}
<1>1. /\ row' = row /\ branch' = branch /\ chapter' = chapter /\ project' = project
      /\ failed' = failed /\ stops' = stops
      /\ branchLock' = branchLock /\ drain[d].pc = "write"
  BY DEF Write
<1>2. c \in drain[d].todo /\ c \in RowIds /\ drain[d] \in DrainState /\ row[c].st # "NEW"
      /\ DrainOK(d) /\ LockOK(d)
  BY <1>1, CurrentKnown DEF Busy, Working, OutboxInv, OutboxTypeOK, DrainOK, LockInv
<1>3. i \in drain[d].left /\ i \in OutboxItems
  BY <1>1, <1>2 DEF DrainOK, DrainState
<1>4. CASE /\ index' = [index EXCEPT ![row[c].scope][i] = c]
           /\ reached' = [reached EXCEPT ![c] = @ \cup {i}]
           /\ drain' = [drain EXCEPT ![d] = [drain[d] EXCEPT !.left = more,
                                  !.pc = IF more = {} THEN "commit" ELSE "write"]]
  <2> DEFINE m == [drain[d] EXCEPT !.left = more,
                                   !.pc = IF more = {} THEN "commit" ELSE "write"]
  <2>1. /\ index' \in [OutboxScopes -> [OutboxItems -> 0..MaxRows]]
        /\ reached' \in [RowIds -> SUBSET OutboxItems]
        /\ \A r \in RowIds : Kept(r) /\ RowOK(r)'
        /\ ArchivedStaysEmpty'
    BY <1>1, <1>3, <1>4, ItemWritten
  <2>2. /\ m \in DrainState /\ m.pc = (IF more = {} THEN "commit" ELSE "write")
        /\ m.todo = drain[d].todo /\ m.left = more /\ m.retries = drain[d].retries
    BY <1>2 DEF DrainState
  <2>3. drain' = [drain EXCEPT ![d] = m]
    BY <1>4
  <2>4. reached'[c] = reached[c] \cup {i}
    BY <1>2, <1>4 DEF OutboxInv, OutboxTypeOK
  <2> HIDE DEF m
  <2>5. OutboxTypeOK'
    BY <1>1, <2>1, <2>2, <2>3, Moved DEF OutboxInv, OutboxTypeOK
  <2>6. drain'[d] = m /\ Current(d)' = c
    BY <2>2, <2>3 DEF OutboxInv, OutboxTypeOK, Current
  <2> HIDE DEF c
  <2>7. row[c].items \subseteq more \cup reached'[c]
    BY <1>1, <1>2, <2>4 DEF DrainOK, c
  <2>8. drain[d].todo # {} /\ (\A r \in drain[d].todo : row[r].st # "NEW")
        /\ drain[d].retries < MaxRetries /\ drain[d].retries <= failed[c]
        /\ (row[c].scope = "branch" => branchLock = d)
    BY <1>1, <1>2 DEF DrainOK, LockOK, Busy, Working, c
  <2> HIDE DEF more, i
  <2>9. DrainOK(d)' /\ LockOK(d)'
    BY <1>1, <1>2, <2>2, <2>6, <2>7, <2>8 DEF DrainOK, LockOK, Busy, Working
  <2> QED
    BY <1>1, <2>1, <2>3, <2>5, <2>9, OneSession DEF OutboxInv, LockInv
<1>5. CASE /\ \/ /\ index' = [index EXCEPT ![row[c].scope][i] = c]
                 /\ reached' = [reached EXCEPT ![c] = @ \cup {i}]
              \/ index' = index /\ reached' = reached
           /\ drain' = [drain EXCEPT ![d] = [drain[d] EXCEPT !.pc = "failed"]]
  <2> DEFINE m == [drain[d] EXCEPT !.pc = "failed"]
  <2>1. /\ index' \in [OutboxScopes -> [OutboxItems -> 0..MaxRows]]
        /\ reached' \in [RowIds -> SUBSET OutboxItems]
        /\ \A r \in RowIds : Kept(r) /\ RowOK(r)'
        /\ ArchivedStaysEmpty'
    <3>1. CASE index' = index /\ reached' = reached
      BY <1>1, <3>1, RowsKept DEF OutboxInv, OutboxTypeOK, ArchivedStaysEmpty
    <3> QED BY <1>1, <1>3, <1>5, <3>1, ItemWritten
  <2>2. /\ m \in DrainState /\ m.pc = "failed"
        /\ m.todo = drain[d].todo /\ m.left = drain[d].left /\ m.retries = drain[d].retries
    BY <1>2 DEF DrainState
  <2>3. drain' = [drain EXCEPT ![d] = m]
    BY <1>5
  <2> HIDE DEF m
  <2>5. OutboxTypeOK'
    BY <1>1, <2>1, <2>2, <2>3, Moved DEF OutboxInv, OutboxTypeOK
  <2>6. drain'[d] = m /\ Current(d)' = c
    BY <2>2, <2>3 DEF OutboxInv, OutboxTypeOK, Current
  <2> HIDE DEF c, i
  <2>9. DrainOK(d)' /\ LockOK(d)'
    BY <1>1, <1>2, <2>2, <2>6 DEF DrainOK, LockOK, Busy, Working, c
  <2> QED
    BY <1>1, <2>1, <2>3, <2>5, <2>9, OneSession DEF OutboxInv, LockInv
<1> QED
  BY <1>4, <1>5 DEF Write

LEMMA CommitStep ==
    ASSUME OutboxInv, NEW d \in Drains, CommitDone(d) \/ CommitFailed(d)
    PROVE  OutboxInv'
<1> DEFINE c == Current(d)
<1>1. /\ index' = index /\ branch' = branch /\ chapter' = chapter /\ project' = project
      /\ reached' = reached /\ stops' = stops
      /\ branchLock' = ReleasedBy(d) /\ drain[d].pc \in {"commit", "failed"}
  BY DEF CommitDone, CommitFailed, CommitRow
<1>2. c \in drain[d].todo /\ c \in RowIds /\ drain[d] \in DrainState /\ row[c].st # "NEW"
      /\ DrainOK(d) /\ row \in [RowIds -> Row] /\ failed \in [RowIds -> Nat]
  BY <1>1, CurrentKnown DEF Busy, Working, OutboxInv, OutboxTypeOK, DrainOK
<1>3. branchLock' \in {branchLock, Nobody} /\ (branchLock' # branchLock => branchLock = d)
  BY <1>1 DEF ReleasedBy
<1>4. ArchivedStaysEmpty'
  BY <1>1 DEF OutboxInv, ArchivedStaysEmpty
<1>5. CASE row[c].st = "GONE"
  <2>1. drain' = [drain EXCEPT ![d] = Dead] /\ row' = row /\ failed' = failed
    BY <1>5 DEF CommitDone, CommitFailed, CommitRow
  <2>2. \A r \in RowIds : Kept(r) /\ RowOK(r)'
    BY <1>1, <2>1, RowsKept
  <2>3. OutboxTypeOK'
    BY <1>1, <1>3, <2>1, Moved, RestSessions DEF OutboxInv, OutboxTypeOK
  <2>4. DrainOK(d)' /\ LockOK(d)'
    BY <2>1, <2>2, Resting, RestSessions
  <2> QED
    BY <1>1, <1>3, <1>4, <2>1, <2>2, <2>3, <2>4, OneSession DEF OutboxInv, LockInv
<1>6. CASE row[c].st # "GONE"
  <2>1. PICK record \in Row :
          /\ row' = [row EXCEPT ![c] = record] /\ drain' = [drain EXCEPT ![d] = Onward(d)]
          /\ record.items = row[c].items /\ record.scope = row[c].scope
          /\ record.st \in {"PENDING", "DONE", "FAILED"}
          /\ \/ record.st = "DONE" /\ record.retries = row[c].retries /\ failed' = failed
             \/ /\ record.retries = drain[d].retries + 1
                /\ record.st = "PENDING" => record.retries < MaxRetries
                /\ failed' = [failed EXCEPT ![c] = failed[c] + 1]
    <3>1. CASE CommitDone(d)
      <4> DEFINE record == [row[c] EXCEPT !.st = "DONE"]
      <4>1. row' = [row EXCEPT ![c] = record] /\ drain' = [drain EXCEPT ![d] = Onward(d)]
            /\ failed' = failed
        BY <1>6, <3>1 DEF CommitDone, CommitRow
      <4>2. record \in Row /\ record.items = row[c].items /\ record.scope = row[c].scope
            /\ record.st = "DONE" /\ record.retries = row[c].retries
        BY <1>2 DEF Row, RowStatuses
      <4> QED BY <4>1, <4>2
    <3>2. CASE CommitFailed(d)
      <4> DEFINE tries == drain[d].retries + 1
                 st == IF tries >= MaxRetries THEN "FAILED" ELSE "PENDING"
                 record == [row[c] EXCEPT !.st = st, !.retries = tries]
      <4>1. row' = [row EXCEPT ![c] = record] /\ drain' = [drain EXCEPT ![d] = Onward(d)]
            /\ failed' = [failed EXCEPT ![c] = failed[c] + 1]
        BY <1>6, <3>2 DEF CommitFailed, CommitRow
      <4>2. tries \in 0..MaxRetries
        <5>1. drain[d].retries < MaxRetries
          BY <1>1, <1>2 DEF DrainOK, Working
        <5> QED BY <1>2, <5>1, OutboxAssumption DEF DrainState
      <4>3. st \in {"PENDING", "FAILED"} /\ (st = "PENDING" => tries < MaxRetries)
        BY <4>2, OutboxAssumption
      <4> HIDE DEF tries, st
      <4>4. record \in Row /\ record.items = row[c].items /\ record.scope = row[c].scope
            /\ record.st = st /\ record.retries = tries
        BY <1>2, <4>2, <4>3 DEF Row, RowStatuses
      <4> HIDE DEF record
      <4> QED BY <4>1, <4>3, <4>4 DEF tries
    <3> QED BY <3>1, <3>2
  <2>2. \A r \in RowIds : Kept(r) /\ RowOK(r)'
    <3>1. PICK k \in RowIds : k = c
      BY <1>2
    <3>2. /\ row[k].st # "NEW" /\ row \in [RowIds -> Row] /\ failed \in [RowIds -> Nat]
          /\ row' = [row EXCEPT ![k] = record] /\ record \in Row
          /\ record.items = row[k].items /\ record.scope = row[k].scope
          /\ record.st \in {"PENDING", "DONE", "FAILED"}
          /\ \/ record.st = "DONE" /\ record.retries = row[k].retries /\ failed' = failed
             \/ /\ record.retries = drain[d].retries + 1
                /\ record.st = "PENDING" => record.retries < MaxRetries
                /\ failed' = [failed EXCEPT ![k] = failed[k] + 1]
      BY <1>2, <2>1, <3>1
    <3>3. drain[d].retries \in Nat /\ drain[d].retries <= failed[k]
      BY <1>1, <1>2, <3>1, OutboxAssumption DEF DrainState, DrainOK, Working
    <3> HIDE DEF c
    <3>4. ASSUME NEW r \in RowIds PROVE Kept(r) /\ RowOK(r)'
      <4>1. CASE r # k
        BY <1>1, <3>2, <4>1 DEF OutboxInv, Kept, RowOK
      <4>2. CASE r = k
        <5>1. row'[k] = record /\ reached'[k] = reached[k] /\ RowOK(k)
          BY <1>1, <3>2 DEF OutboxInv
        <5>2. record.retries \in Nat /\ failed[k] \in Nat
          BY <3>2, OutboxAssumption DEF Row
        <5>3. failed'[k] \in {failed[k], failed[k] + 1}
              /\ (record.st # "DONE" => failed'[k] = failed[k] + 1)
          BY <3>2
        <5>4. record.retries <= failed'[k]
          BY <3>2, <3>3, <5>1, <5>2, <5>3 DEF RowOK
        <5> QED BY <3>2, <4>2, <5>1, <5>2, <5>3, <5>4 DEF Kept, RowOK
      <4> QED BY <4>1, <4>2
    <3> QED BY <3>4
  <2>3. row' \in [RowIds -> Row] /\ failed' \in [RowIds -> Nat]
    BY <1>2, <2>1
  <2>4. OutboxTypeOK'
    BY <1>1, <1>3, <2>1, <2>3, Moved, RestTyped DEF OutboxInv, OutboxTypeOK
  <2>5. DrainOK(d)' /\ LockOK(d)'
    BY <2>1, <2>2, RestTyped, Resting
  <2> QED
    BY <1>1, <1>3, <1>4, <2>1, <2>2, <2>4, <2>5, OneSession DEF OutboxInv, LockInv
<1> QED
  BY <1>5, <1>6

LEMMA DeleteProjectStep ==
    ASSUME OutboxInv, DeleteProject
    PROVE  OutboxInv'
<1> DEFINE R == UNION {OfScope(s) : s \in OutboxScopes}
<1>1. /\ row' = Without(R) /\ project' = "deleted" /\ index' = index /\ branch' = branch
      /\ chapter' = chapter /\ reached' = reached /\ failed' = failed /\ stops' = stops
      /\ project = "kept"
  BY DEF DeleteProject
<1>2. \A r \in R : row[r].st # "NEW"
  BY ScopeWritten
<1>3. ArchivedStaysEmpty'
  BY <1>1 DEF OutboxInv, ArchivedStaysEmpty
<1> HIDE DEF R
<1>4. CASE branchLock = Nobody /\ drain' = drain /\ branchLock' = branchLock
  BY <1>1, <1>2, <1>3, <1>4, DeletionStep DEF OutboxInv, OutboxTypeOK
<1>5. CASE \E d \in Drains : /\ drain' = [drain EXCEPT ![d] = Dead]
                             /\ branchLock = d /\ branchLock' = Nobody
  <2>1. PICK d \in Drains : /\ drain' = [drain EXCEPT ![d] = Dead]
                           /\ branchLock = d /\ branchLock' = Nobody
    BY <1>5
  <2>2. \A r \in RowIds : Kept(r) /\ RowOK(r)'
    BY <1>1, <1>2, Deleted
  <2>3. OutboxTypeOK'
    BY <1>1, <2>1, RowsTyped, Moved, RestSessions DEF OutboxInv, OutboxTypeOK
  <2>4. DrainOK(d)' /\ LockOK(d)'
    BY <2>1, <2>2, Resting, RestSessions
  <2> QED
    BY <1>3, <2>1, <2>2, <2>3, <2>4, OneSession
<1> QED
  BY <1>4, <1>5 DEF DeleteProject

-----------------------------------------------------------------------------
(* The invariant.                                                          *)

LEMMA InvariantHolds == OutboxInit => OutboxInv
<1> SUFFICES ASSUME OutboxInit PROVE OutboxInv
  OBVIOUS
<1>1. OutboxTypeOK
  BY TypeInit
<1>2. /\ \A r \in RowIds : row[r] = NewRow /\ reached[r] = {} /\ failed[r] = 0
      /\ \A d \in Drains : drain[d] = Down
      /\ branch = "open" /\ project = "kept" /\ branchLock = Nobody
  BY DEF OutboxInit
<1>3. NewRow.st = "NEW" /\ NewRow.retries = 0
  BY DEF NewRow
<1>4. \A r \in RowIds : RowOK(r)
  BY <1>2, <1>3, OutboxAssumption DEF RowOK
<1>5. \A d \in Drains : DrainOK(d) /\ LockOK(d)
  BY <1>2, RestSessions DEF DrainOK, LockOK, Busy, Working
<1> QED
  BY <1>1, <1>2, <1>4, <1>5 DEF OutboxInv, LockInv, ArchivedStaysEmpty

LEMMA InvariantKept == OutboxInv /\ [OutboxNext]_outboxVars => OutboxInv'
<1> SUFFICES ASSUME OutboxInv, [OutboxNext]_outboxVars PROVE OutboxInv'
  OBVIOUS
<1>1. CASE UNCHANGED outboxVars
  BY <1>1 DEF outboxVars, OutboxInv, OutboxTypeOK, RowOK, DrainOK, LockInv, LockOK,
              ArchivedStaysEmpty, Current
<1>2. CASE \E s \in QueuedScopes, items \in SUBSET OutboxItems : Enqueue(s, items)
  BY <1>2, EnqueueStep
<1>3. ASSUME NEW d \in Drains, Drain(d) \/ Stop(d) PROVE OutboxInv'
  BY <1>3, ClaimStep, FetchStep, LockStep, WriteStep, CommitStep, EndStep DEF Drain
<1>4. ASSUME NEW d \in Pollers, StartPoller(d) \/ Purge(d) PROVE OutboxInv'
  BY <1>4, StartStep, PurgeStep DEF Drains
<1>5. ASSUME NEW d \in Scripts, StartScript(d) \/ ScriptEnds(d) PROVE OutboxInv'
  BY <1>5, StartStep, EndStep DEF Drains
<1>6. CASE \E r \in RowIds : LeaseExpires(r)
  BY <1>6, LeaseExpiresStep
<1>7. CASE ArchiveBranch \/ ClearBranch \/ DeleteChapter \/ ClearChapter
           \/ DeleteProject \/ ClearProject
  BY <1>7, WithdrawalStep, ClearStep, DeleteProjectStep
<1> QED
  BY <1>1, <1>2, <1>3, <1>4, <1>5, <1>6, <1>7 DEF OutboxNext

THEOREM OutboxInvariant == OutboxSpec => []OutboxInv
  BY InvariantHolds, InvariantKept, PTL DEF OutboxSpec

\* Every state of the table, the index, the scopes and the sessions is well formed.
THEOREM OutboxTypeCorrect == OutboxSpec => []OutboxTypeOK
<1>1. OutboxInv => OutboxTypeOK
  BY DEF OutboxInv
<1> QED
  BY <1>1, OutboxInvariant, PTL

\* Nothing is written to the collection of an archived branch after it was
\* dropped, nor to a deleted project's branches: the lock that loops and the
\* archive route share orders them (vector_outbox_worker.py, characters.py).
THEOREM ArchivedCollectionStaysEmpty == OutboxSpec => []ArchivedStaysEmpty
<1>1. OutboxInv => ArchivedStaysEmpty
  BY DEF OutboxInv
<1> QED
  BY <1>1, OutboxInvariant, PTL

-----------------------------------------------------------------------------
(* What the promise sees.                                                  *)

Standing == [r \in RowIds |-> StandingOf(row[r].st)]
ScopeOf == [r \in RowIds |-> row[r].scope]
Shown == {r \in RowIds : row[r].st # "NEW" /\ row[r].items \subseteq reached[r]}
GoneScopes ==
    {s \in OutboxScopes :
        \/ project # "kept"
        \/ s = "branch" /\ branch # "open"
        \/ s = "chapter" /\ chapter # "kept"}
Unseen == Standing' = Standing /\ ScopeOf' = ScopeOf /\ Shown' = Shown
          /\ failed' = failed /\ GoneScopes' = GoneScopes

LEMMA Stutters == Unseen => UNCHANGED Promises!promiseVars
  BY DEF Unseen, Promises!promiseVars, Standing, ScopeOf, Shown, GoneScopes

\* Each step of the promise, told by what it does to what the promise sees.
LEMMA AsPromise ==
    ASSUME NEW r \in RowIds, NEW s \in OutboxScopes, Standing[r] = "none",
           s \notin GoneScopes, Standing' = [Standing EXCEPT ![r] = "owed"],
           ScopeOf' = [ScopeOf EXCEPT ![r] = s], Shown' = Shown, failed' = failed,
           GoneScopes' = GoneScopes
    PROVE  Promises!PNext
<1>1. Promises!Promise(r, s)
  BY DEF Promises!Promise, Standing, ScopeOf, Shown, GoneScopes
<1> QED
  BY <1>1 DEF Promises!PNext

LEMMA AsShow ==
    ASSUME NEW r \in RowIds, Standing[r] # "none", Shown' = Shown \cup {r},
           Standing' = Standing, ScopeOf' = ScopeOf, failed' = failed,
           GoneScopes' = GoneScopes
    PROVE  Promises!PNext
<1>1. Promises!Show(r)
  BY DEF Promises!Show, Promises!Promised, Standing, ScopeOf, Shown, GoneScopes
<1> QED
  BY <1>1 DEF Promises!PNext

LEMMA AsSettle ==
    ASSUME NEW r \in RowIds, Standing[r] \in {"owed", "settled", "given_up"}, r \in Shown,
           Standing' = [Standing EXCEPT ![r] = "settled"], ScopeOf' = ScopeOf,
           Shown' = Shown, failed' = failed, GoneScopes' = GoneScopes
    PROVE  Promises!PNext
<1>1. Promises!Settle(r)
  BY DEF Promises!Settle, Standing, ScopeOf, Shown, GoneScopes
<1> QED
  BY <1>1 DEF Promises!PNext

LEMMA AsFail ==
    ASSUME NEW r \in RowIds, Standing[r] \in {"owed", "settled", "given_up"},
           failed' = [failed EXCEPT ![r] = @ + 1],
           \/ Standing' = [Standing EXCEPT ![r] = "owed"]
           \/ /\ failed'[r] >= MaxRetries
              /\ Standing' = [Standing EXCEPT ![r] = "given_up"],
           ScopeOf' = ScopeOf, Shown' = Shown, GoneScopes' = GoneScopes
    PROVE  Promises!PNext
<1>1. Promises!Fail(r)
  BY DEF Promises!Fail, Standing, ScopeOf, Shown, GoneScopes
<1> QED
  BY <1>1 DEF Promises!PNext

LEMMA AsRenew ==
    ASSUME Standing' = [r \in RowIds |->
                          IF Standing[r] = "given_up" THEN "owed" ELSE Standing[r]],
           ScopeOf' = ScopeOf, Shown' = Shown, failed' = failed, GoneScopes' = GoneScopes
    PROVE  Promises!PNext
<1>1. Promises!Renew
  BY DEF Promises!Renew, Standing, ScopeOf, Shown, GoneScopes
<1> QED
  BY <1>1 DEF Promises!PNext

LEMMA AsWithdraw ==
    ASSUME NEW S \in SUBSET OutboxScopes, NEW R \in SUBSET RowIds,
           GoneScopes' = GoneScopes \cup S,
           \A r \in R : Standing[r] # "none" /\ ScopeOf[r] \in GoneScopes',
           Standing' = [r \in RowIds |-> IF r \in R THEN "dropped" ELSE Standing[r]],
           ScopeOf' = ScopeOf, Shown' = Shown, failed' = failed
    PROVE  Promises!PNext
<1>1. Promises!Withdraw(S, R)
  BY DEF Promises!Withdraw, Promises!Promised, Standing, ScopeOf, Shown, GoneScopes
<1> QED
  BY <1>1 DEF Promises!PNext

LEMMA AsForget ==
    ASSUME NEW R \in SUBSET RowIds, \A r \in R : Standing[r] = "settled",
           Standing' = [r \in RowIds |-> IF r \in R THEN "dropped" ELSE Standing[r]],
           ScopeOf' = ScopeOf, Shown' = Shown, failed' = failed, GoneScopes' = GoneScopes
    PROVE  Promises!PNext
<1>1. Promises!Forget(R)
  BY DEF Promises!Forget, Standing, ScopeOf, Shown, GoneScopes
<1> QED
  BY <1>1 DEF Promises!PNext

-----------------------------------------------------------------------------
(* Every step of the loops is a step of the promise.                       *)

PromisedStep == [Promises!PNext]_(Promises!promiseVars)

\* The standing of a row, by its status.
LEMMA StandingIs ==
    \A r \in RowIds : Standing[r] = StandingOf(row[r].st) /\ ScopeOf[r] = row[r].scope
  BY DEF Standing, ScopeOf

LEMMA ScopesSeen ==
    ASSUME branch' = branch, chapter' = chapter, project' = project
    PROVE  GoneScopes' = GoneScopes
  BY DEF GoneScopes

\* Rows that keep their items and scopes are seen as before.
LEMMA RowsSeen ==
    ASSUME \A r \in RowIds :
             /\ row'[r].items = row[r].items /\ row'[r].scope = row[r].scope
             /\ row'[r].st = "NEW" <=> row[r].st = "NEW",
           reached' = reached
    PROVE  ScopeOf' = ScopeOf /\ Shown' = Shown
  BY DEF ScopeOf, Shown

LEMMA NothingSeen ==
    ASSUME row' = row, reached' = reached, failed' = failed, branch' = branch,
           chapter' = chapter, project' = project
    PROVE  PromisedStep
<1>1. Unseen
  BY ScopesSeen DEF Unseen, Standing, ScopeOf, Shown
<1> QED
  BY <1>1, Stutters DEF PromisedStep

LEMMA DeletionSeen ==
    ASSUME OutboxInv, NEW R \in SUBSET RowIds, \A r \in R : row[r].st # "NEW",
           row' = Without(R), reached' = reached
    PROVE  /\ Standing' = [r \in RowIds |-> IF r \in R THEN "dropped" ELSE Standing[r]]
           /\ ScopeOf' = ScopeOf /\ Shown' = Shown
<1>1. \A r \in RowIds : /\ row'[r].items = row[r].items /\ row'[r].scope = row[r].scope
                        /\ row'[r].st = IF r \in R THEN "GONE" ELSE row[r].st
  BY DEF Without, Row, OutboxInv, OutboxTypeOK
<1>2. StandingOf("GONE") = "dropped"
  BY DEF StandingOf
<1>3. Standing' = [r \in RowIds |-> IF r \in R THEN "dropped" ELSE Standing[r]]
  BY <1>1, <1>2 DEF Standing
<1> QED
  BY <1>1, <1>3, RowsSeen

LEMMA Written ==
    ASSUME NEW r \in RowIds, row[r].st # "NEW", OutboxInv
    PROVE  Standing[r] # "none"
  BY DEF Standing, StandingOf, OutboxInv, OutboxTypeOK, Row, RowStatuses

LEMMA EnqueuePromises ==
    ASSUME OutboxInv, NEW s \in QueuedScopes, NEW items \in SUBSET OutboxItems,
           Enqueue(s, items)
    PROVE  PromisedStep
<1>1. PICK r \in RowIds :
          /\ row[r].st = "NEW"
          /\ row' = [row EXCEPT ![r] = [NewRow EXCEPT !.st = "PENDING", !.scope = s,
                                                      !.items = items]]
  BY DEF Enqueue
<1>2. PICK new : new = [NewRow EXCEPT !.st = "PENDING", !.scope = s, !.items = items]
  OBVIOUS
<1>3. new.st = "PENDING" /\ new.scope = s /\ new.items = items
  BY <1>2 DEF NewRow
<1>4. row' = [row EXCEPT ![r] = new] /\ row \in [RowIds -> Row] /\ reached' = reached
      /\ failed' = failed /\ items # {}
  <2>1. row' = [row EXCEPT ![r] = new]
    BY <1>1, <1>2, Zenon
  <2> QED BY <2>1 DEF Enqueue, OutboxInv, OutboxTypeOK
<1>5. Standing[r] = "none" /\ Standing' = [Standing EXCEPT ![r] = "owed"]
  <2>1. StandingOf("NEW") = "none" /\ StandingOf("PENDING") = "owed"
    BY DEF StandingOf
  <2>2. \A q \in RowIds : StandingOf(row'[q].st)
                          = IF q = r THEN "owed" ELSE StandingOf(row[q].st)
    BY <1>3, <1>4, <2>1
  <2> QED BY <1>1, <2>1, <2>2 DEF Standing
<1>6. ScopeOf' = [ScopeOf EXCEPT ![r] = s]
  BY <1>3, <1>4 DEF ScopeOf
<1>7. Shown' = Shown
  <2>1. reached[r] = {}
    BY <1>1 DEF OutboxInv, RowOK
  <2>2. \A q \in RowIds : q \in Shown' <=> q \in Shown
    <3>1. row'[r] = new /\ (\A q \in RowIds : q # r => row'[q] = row[q])
      BY <1>4
    <3>2. r \notin Shown /\ r \notin Shown'
      BY <1>1, <1>3, <1>4, <2>1, <3>1 DEF Shown
    <3> QED BY <1>4, <3>1, <3>2 DEF Shown
  <2> QED BY <2>2 DEF Shown
<1>8. s \in OutboxScopes /\ s \notin GoneScopes /\ GoneScopes' = GoneScopes
  BY ScopesSeen, OutboxAssumption DEF Enqueue, Exists, GoneScopes
<1> QED
  BY <1>4, <1>5, <1>6, <1>7, <1>8, AsPromise DEF PromisedStep

LEMMA RequeuePromises ==
    ASSUME OutboxInv, NEW d \in Drains, StartPoller(d) \/ Claim(d) \/ StartScript(d)
    PROVE  PromisedStep
<1>1. reached' = reached /\ failed' = failed /\ GoneScopes' = GoneScopes
  BY ScopesSeen DEF StartPoller, Claim, StartScript
<1>2. \A r \in RowIds : row[r] \in Row
  BY DEF OutboxInv, OutboxTypeOK
<1>3. CASE StartPoller(d) \/ Claim(d)
  <2>1. \A r \in RowIds :
          /\ row'[r].items = row[r].items /\ row'[r].scope = row[r].scope
          /\ row'[r].st = row[r].st \/ {row'[r].st, row[r].st} = {"PENDING", "SYNCING"}
    <3>1. CASE StartPoller(d)
      BY <1>2, <3>1 DEF StartPoller, Recovered, WithStatus, Row
    <3>2. CASE Claim(d)
      <4>1. \A r \in OldestPending : row[r].st = "PENDING"
        BY DEF OldestPending, WithStatus
      <4> QED BY <1>2, <3>2, <4>1 DEF Claim, Row
    <3> QED BY <1>3, <3>1, <3>2
  <2>2. Standing' = Standing
    <3>1. \A r \in RowIds : StandingOf(row'[r].st) = StandingOf(row[r].st)
      BY <2>1 DEF StandingOf
    <3> QED BY <3>1 DEF Standing
  <2>3. ScopeOf' = ScopeOf /\ Shown' = Shown
    BY <1>1, <2>1, RowsSeen
  <2> QED BY <1>1, <2>2, <2>3, Stutters DEF Unseen, PromisedStep
<1>4. CASE StartScript(d)
  <2>1. row' = [r \in RowIds |-> Reset(r)]
    BY <1>4 DEF StartScript
  <2>2. \A r \in RowIds :
          /\ row'[r].items = row[r].items /\ row'[r].scope = row[r].scope
          /\ \/ row'[r].st = row[r].st /\ row[r].st # "FAILED"
             \/ row[r].st = "FAILED" /\ row'[r].st = "PENDING"
             \/ row[r].st = "SYNCING" /\ row'[r].st = "PENDING"
    BY <1>2, <2>1 DEF Reset, WithStatus, Row
  <2>3. Standing' = [r \in RowIds |->
                       IF Standing[r] = "given_up" THEN "owed" ELSE Standing[r]]
    BY <1>2, <2>2 DEF Standing, StandingOf, Row, RowStatuses
  <2>4. ScopeOf' = ScopeOf /\ Shown' = Shown
    BY <1>1, <2>2, RowsSeen
  <2> QED BY <1>1, <2>3, <2>4, AsRenew DEF PromisedStep
<1> QED
  BY <1>3, <1>4

LEMMA LockPromises ==
    ASSUME OutboxInv, NEW d \in Drains, LockBranch(d)
    PROVE  PromisedStep
<1>1. reached' = reached /\ failed' = failed /\ GoneScopes' = GoneScopes
      /\ drain[d].pc = "lock"
  BY ScopesSeen DEF LockBranch
<1>2. CASE branch = "open" /\ project = "kept"
  BY <1>2, NothingSeen DEF LockBranch
<1>3. CASE ~ (branch = "open" /\ project = "kept")
  <2>1. PICK c \in RowIds : c = Current(d)
    BY <1>1, CurrentKnown DEF Busy, Working
  <2>2. row[c].st # "NEW" /\ row[c].scope = "branch"
    BY <1>1, <2>1, CurrentKnown DEF Busy, Working, OutboxInv, DrainOK
  <2>3. row' = Without({c})
    BY <1>3, <2>1 DEF LockBranch
  <2>4. /\ Standing' = [r \in RowIds |-> IF r \in {c} THEN "dropped" ELSE Standing[r]]
        /\ ScopeOf' = ScopeOf /\ Shown' = Shown
    BY <1>1, <2>2, <2>3, DeletionSeen
  <2>5. ScopeOf[c] \in GoneScopes'
    <3>1. "branch" \in GoneScopes
      BY <1>3 DEF GoneScopes, OutboxScopes
    <3> QED BY <1>1, <2>2, <3>1, StandingIs
  <2>6. Standing[c] # "none"
    BY <2>2, Written
  <2>7. GoneScopes' = GoneScopes \cup {}
    BY <1>1
  <2> QED BY <1>1, <2>4, <2>5, <2>6, <2>7, AsWithdraw DEF PromisedStep
<1> QED
  BY <1>2, <1>3

LEMMA WritePromises ==
    ASSUME OutboxInv, NEW d \in Drains, Write(d)
    PROVE  PromisedStep
<1>1. /\ row' = row /\ failed' = failed /\ branch' = branch /\ chapter' = chapter
      /\ project' = project /\ drain[d].pc = "write"
  BY DEF Write
<1>2. PICK c \in RowIds : c = Current(d)
  BY <1>1, CurrentKnown DEF Busy, Working
<1>3. row[c].st # "NEW"
  BY <1>1, <1>2, CurrentKnown DEF Busy, Working, OutboxInv, DrainOK
<1>4. PICK i : reached' = reached \/ reached' = [reached EXCEPT ![c] = reached[c] \cup {i}]
  BY <1>2 DEF Write
<1>5. CASE reached' = reached
  BY <1>1, <1>5, NothingSeen
<1>6. CASE reached' = [reached EXCEPT ![c] = reached[c] \cup {i}]
  <2>1. Standing' = Standing /\ ScopeOf' = ScopeOf /\ GoneScopes' = GoneScopes
    BY <1>1, ScopesSeen DEF Standing, ScopeOf
  <2>2. Shown' \in {Shown, Shown \cup {c}}
    <3>1. reached'[c] = reached[c] \cup {i} /\ \A r \in RowIds : r # c => reached'[r] = reached[r]
      BY <1>6 DEF OutboxInv, OutboxTypeOK
    <3>2. \A r \in RowIds : r # c => (r \in Shown' <=> r \in Shown)
      BY <1>1, <3>1 DEF Shown
    <3>3. c \in Shown => c \in Shown'
      BY <1>1, <3>1 DEF Shown
    <3>4. Shown \subseteq RowIds /\ Shown' \subseteq RowIds
      BY DEF Shown
    <3>5. CASE c \in Shown'
      BY <3>2, <3>4, <3>5
    <3>6. CASE c \notin Shown'
      BY <3>2, <3>3, <3>4, <3>6
    <3> QED BY <3>5, <3>6
  <2>3. CASE Shown' = Shown
    BY <1>1, <2>1, <2>3, Stutters DEF Unseen, PromisedStep
  <2>4. CASE Shown' = Shown \cup {c}
    BY <1>1, <1>3, <2>1, <2>4, Written, AsShow DEF PromisedStep
  <2> QED BY <2>2, <2>3, <2>4
<1> QED
  BY <1>4, <1>5, <1>6

LEMMA CommitPromises ==
    ASSUME OutboxInv, NEW d \in Drains, CommitDone(d) \/ CommitFailed(d)
    PROVE  PromisedStep
<1>1. /\ reached' = reached /\ branch' = branch /\ chapter' = chapter /\ project' = project
      /\ drain[d].pc \in {"commit", "failed"}
  BY DEF CommitDone, CommitFailed, CommitRow
<1>2. PICK c \in RowIds : c = Current(d)
  BY <1>1, CurrentKnown DEF Busy, Working
<1>3. row[c].st # "NEW" /\ row \in [RowIds -> Row] /\ DrainOK(d) /\ drain[d] \in DrainState
      /\ failed \in [RowIds -> Nat]
  BY <1>1, <1>2, CurrentKnown DEF Busy, Working, OutboxInv, OutboxTypeOK, DrainOK
<1>4. GoneScopes' = GoneScopes
  BY <1>1, ScopesSeen
<1>5. CASE row[c].st = "GONE"
  <2>1. row' = row /\ failed' = failed
    BY <1>2, <1>5 DEF CommitDone, CommitFailed, CommitRow
  <2> QED BY <1>1, <2>1, NothingSeen
<1>6. CASE row[c].st # "GONE"
  <2>1. Standing[c] \in {"owed", "settled", "given_up"}
    BY <1>3, <1>6 DEF Standing, StandingOf, Row, RowStatuses
  <2>2. ASSUME NEW st \in {"PENDING", "DONE", "FAILED"}, NEW x,
               row' = [row EXCEPT ![c] = x], x.st = st, x.items = row[c].items,
               x.scope = row[c].scope
        PROVE  /\ Standing' = [Standing EXCEPT ![c] = StandingOf(st)]
               /\ ScopeOf' = ScopeOf /\ Shown' = Shown
    <3>1. row'[c] = x /\ (\A r \in RowIds : r # c => row'[r] = row[r])
      BY <1>3, <2>2
    <3>2. \A r \in RowIds :
             /\ row'[r].items = row[r].items /\ row'[r].scope = row[r].scope
             /\ row'[r].st = "NEW" <=> row[r].st = "NEW"
      BY <1>3, <2>2, <3>1
    <3>3. Standing' = [Standing EXCEPT ![c] = StandingOf(st)]
      <4>1. \A r \in RowIds : StandingOf(row'[r].st)
                              = IF r = c THEN StandingOf(st) ELSE StandingOf(row[r].st)
        BY <2>2, <3>1
      <4> QED BY <4>1 DEF Standing
    <3> QED BY <1>1, <3>2, <3>3, RowsSeen
  <2>3. CASE CommitDone(d)
    <3>1. PICK x : x = [row[c] EXCEPT !.st = "DONE"]
      OBVIOUS
    <3>2. x.st = "DONE" /\ x.items = row[c].items /\ x.scope = row[c].scope
      BY <1>3, <3>1 DEF Row
    <3>3. row' = [row EXCEPT ![c] = x] /\ failed' = failed
      BY <1>2, <1>6, <2>3, <3>1 DEF CommitDone, CommitRow
    <3>4. c \in Shown
      <4>1. drain[d].pc = "commit"
        BY <2>3 DEF CommitDone
      <4>2. row[c].items \subseteq reached[c]
        BY <1>2, <1>3, <4>1 DEF DrainOK
      <4> QED BY <1>3, <4>2 DEF Shown
    <3>5. StandingOf("DONE") = "settled"
      BY DEF StandingOf
    <3>6. /\ Standing' = [Standing EXCEPT ![c] = "settled"]
          /\ ScopeOf' = ScopeOf /\ Shown' = Shown
      BY <2>2, <3>2, <3>3, <3>5
    <3> QED BY <1>4, <2>1, <3>3, <3>4, <3>6, AsSettle DEF PromisedStep
  <2>4. CASE CommitFailed(d)
    <3> DEFINE tries == drain[d].retries + 1
               st == IF tries >= MaxRetries THEN "FAILED" ELSE "PENDING"
    <3>1. PICK x : x = [row[c] EXCEPT !.st = st, !.retries = tries]
      OBVIOUS
    <3>2. x.st = st /\ x.items = row[c].items /\ x.scope = row[c].scope
      BY <1>3, <3>1 DEF Row
    <3>3. row' = [row EXCEPT ![c] = x] /\ failed' = [failed EXCEPT ![c] = failed[c] + 1]
      BY <1>2, <1>6, <2>4, <3>1 DEF CommitFailed, CommitRow
    <3>4. /\ Standing' = [Standing EXCEPT ![c] = StandingOf(st)]
          /\ ScopeOf' = ScopeOf /\ Shown' = Shown
      <4>1. st \in {"PENDING", "DONE", "FAILED"}
        OBVIOUS
      <4> HIDE DEF st
      <4> QED BY <2>2, <3>2, <3>3, <4>1
    <3>5. st = "FAILED" => failed'[c] >= MaxRetries
      <4>1. drain[d].retries <= failed[c]
        BY <1>1, <1>2, <1>3 DEF DrainOK, Working
      <4>2. failed'[c] = failed[c] + 1
        BY <1>3, <3>3
      <4> QED BY <1>3, <4>1, <4>2, OutboxAssumption DEF DrainState
    <3>6. StandingOf(st) = (IF st = "FAILED" THEN "given_up" ELSE "owed")
      BY DEF StandingOf
    <3> HIDE DEF st
    <3>7. \/ Standing' = [Standing EXCEPT ![c] = "owed"]
          \/ /\ failed'[c] >= MaxRetries
             /\ Standing' = [Standing EXCEPT ![c] = "given_up"]
      BY <3>4, <3>5, <3>6
    <3> QED BY <1>4, <2>1, <3>3, <3>4, <3>7, AsFail DEF PromisedStep
  <2> QED BY <2>3, <2>4
<1> QED
  BY <1>5, <1>6

LEMMA PurgePromises ==
    ASSUME OutboxInv, NEW d \in Drains, Purge(d)
    PROVE  PromisedStep
<1>1. PICK R \in SUBSET WithStatus({"DONE"}) : row' = Without(R)
  BY DEF Purge
<1>2. R \subseteq RowIds /\ \A r \in R : row[r].st = "DONE"
  BY DEF WithStatus
<1>3. reached' = reached /\ failed' = failed /\ GoneScopes' = GoneScopes
  BY ScopesSeen DEF Purge
<1>4. \A r \in R : Standing[r] = "settled"
  BY <1>2 DEF Standing, StandingOf
<1>5. /\ Standing' = [r \in RowIds |-> IF r \in R THEN "dropped" ELSE Standing[r]]
      /\ ScopeOf' = ScopeOf /\ Shown' = Shown
  BY <1>1, <1>2, <1>3, DeletionSeen
<1> QED
  BY <1>2, <1>3, <1>4, <1>5, AsForget DEF PromisedStep

\* Rows that disappear with a scope that is withdrawn in the same step.
LEMMA ScopePromises ==
    ASSUME OutboxInv, NEW S \in SUBSET OutboxScopes, NEW R \in SUBSET RowIds,
           \A r \in R : row[r].st # "NEW" /\ row[r].scope \in S,
           row' = Without(R), GoneScopes' = GoneScopes \cup S,
           reached' = reached, failed' = failed
    PROVE  PromisedStep
<1>1. /\ Standing' = [r \in RowIds |-> IF r \in R THEN "dropped" ELSE Standing[r]]
      /\ ScopeOf' = ScopeOf /\ Shown' = Shown
  BY DeletionSeen
<1>2. \A r \in R : Standing[r] # "none" /\ ScopeOf[r] \in GoneScopes'
  BY Written, StandingIs
<1> QED
  BY <1>1, <1>2, AsWithdraw DEF PromisedStep

LEMMA WithdrawalPromises ==
    ASSUME OutboxInv, ArchiveBranch \/ DeleteChapter \/ DeleteProject
    PROVE  PromisedStep
<1>1. reached' = reached /\ failed' = failed
  BY DEF ArchiveBranch, DeleteChapter, DeleteProject
<1>2. CASE ArchiveBranch
  <2>1. GoneScopes' = GoneScopes \cup {"branch"} /\ {"branch"} \subseteq OutboxScopes
    BY <1>2 DEF ArchiveBranch, GoneScopes, OutboxScopes
  <2>2. PICK R \in SUBSET RowIds :
           R = OfScope("branch") \cap WithStatus({"PENDING", "SYNCING"})
    BY DEF OfScope
  <2>3. row' = Without(R) /\ \A r \in R : row[r].st # "NEW" /\ row[r].scope \in {"branch"}
    BY <1>2, <2>2 DEF ArchiveBranch, OfScope
  <2> QED BY <1>1, <2>1, <2>3, ScopePromises
<1>3. CASE DeleteChapter
  <2>1. GoneScopes' = GoneScopes \cup {"chapter"} /\ {"chapter"} \subseteq OutboxScopes
    BY <1>3 DEF DeleteChapter, GoneScopes, OutboxScopes
  <2>2. PICK R \in SUBSET RowIds : R = OfScope("chapter")
    BY DEF OfScope
  <2>3. row' = Without(R) /\ \A r \in R : row[r].st # "NEW" /\ row[r].scope \in {"chapter"}
    BY <1>3, <2>2 DEF DeleteChapter, OfScope
  <2> QED BY <1>1, <2>1, <2>3, ScopePromises
<1>4. CASE DeleteProject
  <2>1. GoneScopes' = GoneScopes \cup OutboxScopes
    BY <1>4 DEF DeleteProject, GoneScopes, OutboxScopes
  <2>2. PICK R \in SUBSET RowIds : R = UNION {OfScope(s) : s \in OutboxScopes}
    BY DEF OfScope
  <2>3. row' = Without(R)
    BY <1>4, <2>2 DEF DeleteProject
  <2>4. \A r \in R : row[r].st # "NEW" /\ row[r].scope \in OutboxScopes
    BY <2>2 DEF OfScope
  <2> QED BY <1>1, <2>1, <2>3, <2>4, ScopePromises
<1> QED
  BY <1>2, <1>3, <1>4

LEMMA SilentPromises ==
    ASSUME OutboxInv,
           \/ UNCHANGED outboxVars
           \/ \E d \in Drains : Fetch(d) \/ Stop(d) \/ ScriptEnds(d)
           \/ \E r \in RowIds : LeaseExpires(r)
           \/ ClearBranch \/ ClearChapter \/ ClearProject
    PROVE  PromisedStep
<1>1. CASE UNCHANGED outboxVars \/ \E d \in Drains : Fetch(d) \/ Stop(d) \/ ScriptEnds(d)
  BY <1>1, NothingSeen DEF outboxVars, Fetch, Stop, ScriptEnds
<1>2. ASSUME NEW q \in RowIds, LeaseExpires(q) PROVE PromisedStep
  <2>1. row' = [row EXCEPT ![q] = [row[q] EXCEPT !.old = TRUE]] /\ reached' = reached
        /\ failed' = failed /\ GoneScopes' = GoneScopes
    BY <1>2, ScopesSeen DEF LeaseExpires
  <2>2. \A r \in RowIds : /\ row'[r].items = row[r].items /\ row'[r].scope = row[r].scope
                          /\ row'[r].st = row[r].st
    BY <2>1 DEF OutboxInv, OutboxTypeOK, Row
  <2>3. Standing' = Standing
    BY <2>2 DEF Standing
  <2> QED BY <2>1, <2>2, <2>3, RowsSeen, Stutters DEF Unseen, PromisedStep
<1>3. CASE ClearBranch \/ ClearChapter \/ ClearProject
  <2>1. row' = row /\ reached' = reached /\ failed' = failed
    BY <1>3 DEF ClearBranch, ClearChapter, ClearProject
  <2>2. GoneScopes' = GoneScopes
    BY <1>3 DEF ClearBranch, ClearChapter, ClearProject, GoneScopes
  <2> QED BY <2>1, <2>2, Stutters DEF Unseen, Standing, ScopeOf, Shown, PromisedStep
<1> QED
  BY <1>1, <1>2, <1>3

LEMMA PromiseStarts == OutboxInit => Promises!PInit
<1> SUFFICES ASSUME OutboxInit PROVE Promises!PInit
  OBVIOUS
<1>1. \A r \in RowIds : row[r].st = "NEW" /\ row[r].scope = "book"
  BY DEF OutboxInit, NewRow
<1>2. StandingOf("NEW") = "none" /\ "book" \in OutboxScopes
  BY DEF StandingOf, OutboxScopes
<1> QED
  BY <1>1, <1>2 DEF Promises!PInit, OutboxInit

LEMMA PromiseSteps == OutboxInv /\ [OutboxNext]_outboxVars => PromisedStep
<1> SUFFICES ASSUME OutboxInv, [OutboxNext]_outboxVars PROVE PromisedStep
  OBVIOUS
<1>1. CASE UNCHANGED outboxVars
  BY <1>1, SilentPromises
<1>2. CASE \E s \in QueuedScopes, items \in SUBSET OutboxItems : Enqueue(s, items)
  BY <1>2, EnqueuePromises
<1>3. ASSUME NEW d \in Drains, Drain(d) \/ Stop(d) PROVE PromisedStep
  BY <1>3, RequeuePromises, LockPromises, WritePromises, CommitPromises, SilentPromises
     DEF Drain
<1>4. ASSUME NEW d \in Pollers, StartPoller(d) \/ Purge(d) PROVE PromisedStep
  BY <1>4, RequeuePromises, PurgePromises DEF Drains
<1>5. ASSUME NEW d \in Scripts, StartScript(d) \/ ScriptEnds(d) PROVE PromisedStep
  BY <1>5, RequeuePromises, SilentPromises DEF Drains
<1>6. CASE \E r \in RowIds : LeaseExpires(r)
  BY <1>6, SilentPromises
<1>7. CASE ArchiveBranch \/ ClearBranch \/ DeleteChapter \/ ClearChapter
           \/ DeleteProject \/ ClearProject
  BY <1>7, WithdrawalPromises, SilentPromises
<1> QED
  BY <1>1, <1>2, <1>3, <1>4, <1>5, <1>6, <1>7 DEF OutboxNext

\* The loops, the script, the routes and the crashes together implement a durable
\* queue: no row is settled before all its items are in the index, none is given
\* up before MaxRetries failures, and none disappears unsettled unless its branch,
\* chapter or project does (process_vector_outbox, cleanup_done_outboxes, the routes).
THEOREM OutboxKeepsPromise == OutboxSpec => QueueKeepsPromise
<1>1. OutboxInv /\ [OutboxNext]_outboxVars => [Promises!PNext]_(Promises!promiseVars)
  BY PromiseSteps DEF PromisedStep
<1> QED
  BY <1>1, OutboxInvariant, PromiseStarts, PTL DEF OutboxSpec, QueueKeepsPromise, Promises!PSpec
=============================================================================
