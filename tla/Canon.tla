--------------------------------- MODULE Canon ---------------------------------
(***************************************************************************)
(* What a published chapter adds to the novel's memory, and what is taken  *)
(* back when it is deleted: candidate atoms, their review against accepted *)
(* ones, doctrines, evidence, and what agents recall of them.              *)
(*                                                                         *)
(* src/services/knowledge_merger.py, novel_memory_*.py, chapter_publish,   *)
(* chapter_service, chapter_review, chapter_deletion and the worker's      *)
(* post_processing_job. An extraction reads its chapter, waits for the     *)
(* model, and writes everything in one transaction. The first insert of an *)
(* atom makes two transactions over one memory key wait for each other, so *)
(* the transaction is one step here.                                       *)
(***************************************************************************)
EXTENDS Naturals, FiniteSets, Sequences, SequencesExt

CONSTANTS
    MaxChapter,     \* bound: chapters
    Patches,        \* patches an extraction may yield (see Patch)
    MaxPatches,     \* bound: patches in one extraction
    MemSessions,    \* sessions: of jobs, of reviewed answers and of edits
    IdleChapters,   \* CANDIDATE_SWEEP_IDLE_CHAPTERS, the sweep enabled
    AtomLimit,      \* RecallBudget.atom_limit
    RecallScores,   \* bound: scores a query may give to a text
    MaxActs         \* bound: sessions, user's decisions and deletions in a run

ASSUME CanonAssumption ==
    /\ MaxChapter \in Nat \ {0} /\ MaxPatches \in Nat
    /\ IdleChapters \in Nat \ {0} /\ AtomLimit \in Nat \ {0} /\ MaxActs \in Nat
    /\ RecallScores \subseteq Nat
    /\ \A p \in Patches : p.key \in Nat    \* the place of its name in their order

\* A patch says something about a key. Its kind is what the review looks at:
\* an explicit replacement, a transition (append_progress, resolve, cancel), a
\* merge of an observed state, or none of these; its mark is the value of a hard
\* marker (rule_type, confirmed, frozen, locked), 0 when it carries none.
PatchKinds == {"replace", "transition", "observe", "plain"}
Chapters == 1..MaxChapter
\* Tables of rows that carry the chapter they come from.
MemTables == {"evidence", "conflict", "scene", "state"}

VARIABLES
    memChapter, \* chapter -> its status
    memJob,     \* chapters with a post-processing job that is pending or running
    atoms,      \* NovelMemoryAtom rows
    doctrines,  \* ProjectDoctrine rows
    sourced,    \* rows of the other tables: <<table, chapter>>
    lastSeen,   \* the character's last_appearance, 0 when none
    memSession, \* session -> the chapter it has read, for what, and if it still is
    autoReview, \* ENABLE_AUTO_EXTRACTOR_REVIEW, of the installation
    handmade,   \* history: atoms whose status the user has set
    vouched,    \* history: patches of extractions that published their chapter
    acts      \* bound

canonVars == <<memChapter, memJob, atoms, doctrines, sourced, lastSeen,
               memSession, autoReview, handmade, vouched, acts>>

NoSession == [ch |-> 0, via |-> "none", alive |-> FALSE]

CanonInit ==
    /\ memChapter = [c \in Chapters |-> "none"]
    /\ memJob = {}
    /\ atoms = {} /\ doctrines = {} /\ sourced = {} /\ lastSeen = 0
    /\ memSession = [e \in MemSessions |-> NoSession]
    /\ autoReview \in BOOLEAN
    /\ handmade = {} /\ vouched = {}
    /\ acts = 0

-----------------------------------------------------------------------------
(* Atoms.                                                                  *)

\* An atom is a row for a patch: the patch, the version its key had reached, the
\* chapter it was extracted from, its status and when it was last recalled.
Biggest(S) == CHOOSE n \in S : \A m \in S : m <= n
NextVersion(A, key) ==
    Biggest({0} \cup {a.ver : a \in {b \in A : b.patch.key = key}}) + 1

\* record_patch_atoms: a patch that was ever recorded for its key is found again,
\* whatever has become of its atom. The others become atoms in their order.
FirstRecorded(A, patches) ==
    {i \in DOMAIN patches : /\ \A a \in A : a.patch # patches[i]
                            /\ \A j \in 1..(i - 1) : patches[j] # patches[i]}

Recorded(A, ch, patches, i) ==
    LET before == {j \in FirstRecorded(A, patches) : j < i /\ patches[j].key = patches[i].key}
    IN [patch |-> patches[i], ver |-> NextVersion(A, patches[i].key) + Cardinality(before),
        ch |-> ch, st |-> "candidate", recalled |-> 0]

WithPatches(A, ch, patches) ==
    A \cup {Recorded(A, ch, patches, i) : i \in FirstRecorded(A, patches)}

\* _is_safe_atom_progression: all atoms here are generated, none is protected.
HardMarkChanged(p, q) == p.mark # 0 /\ q.mark # 0 /\ p.mark # q.mark
SafeProgression(p, q) ==
    \/ p.says = q.says
    \/ p.kind = "replace"
    \/ p.kind \in {"transition", "observe"} /\ ~HardMarkChanged(p, q)

\* The accepted atom a candidate is compared with: the one of the last version.
AcceptedFor(A, key) ==
    LET accepted == {a \in A : a.patch.key = key /\ a.st = "accepted"}
    IN {a \in accepted : \A b \in accepted : b.ver <= a.ver}

\* review_atom_candidates: an atom that is no candidate any more is not compared.
Against(A, a) == IF a.st = "candidate" THEN AcceptedFor(A, a.patch.key) ELSE {}
Conflicts(A, a) == \E b \in Against(A, a) : ~SafeProgression(a.patch, b.patch)

Marked(A, S, status) == (A \ S) \cup {[a EXCEPT !.st = status] : a \in S}

\* Mutant: candidates are promoted before they have been reviewed.
PromotedUnreviewed(A, mine, rejected) ==
    Marked(A, {a \in mine \ rejected : a.st = "candidate"}, "accepted")

\* promote_reviewed_atom_candidates, after the rejected candidates of the
\* automatic review: what a candidate was compared with gives way to it, also
\* when the candidate itself has just been rejected for another reason.
Promoted(A, mine, rejected) ==
    LET passing == {a \in mine : ~Conflicts(A, a)}
        replaced == {b \in A : \E a \in passing : b \in Against(A, a)
                                                  /\ b.patch.says # a.patch.says}
        accepted == {a \in passing : a.st = "candidate"} \ rejected
    IN Marked(Marked(Marked(A, rejected, "rejected"), replaced, "superseded"),
              accepted, "accepted")

\* sync_world_rule_doctrines for the atoms P that are accepted now, those of a
\* key in the order of their versions. What its active doctrine says when it is
\* an atom's turn:
Told(D, P, a) ==
    LET before == {b \in P : b.patch.key = a.patch.key /\ b.ver < a.ver}
    IN IF before = {} THEN {d.says : d \in {e \in D : e.key = a.patch.key /\ e.active}}
       ELSE {b.patch.says : b \in {c \in before : \A d \in before : d.ver <= c.ver}}

\* An atom that says something else adds a doctrine. The last one of its key is
\* the active one: the others were deactivated for it.
WithDoctrines(D, P) ==
    LET new == {a \in P : a.patch.says \notin Told(D, P, a)}
        keys == {a.patch.key : a \in new}
        last(a) == \A b \in new : b.patch.key = a.patch.key => b.ver <= a.ver
    IN {[d EXCEPT !.active = @ /\ d.key \notin keys] : d \in D}
       \cup {[key |-> a.patch.key, says |-> a.patch.says, ch |-> a.ch, active |-> last(a)]
               : a \in new}

\* sweep_stale_atom_candidates: candidates neither recalled nor written lately.
Swept(A, ch) ==
    LET lastUse(a) == IF a.recalled # 0 THEN a.recalled ELSE a.ch
    IN Marked(A, {a \in A : a.st = "candidate" /\ lastUse(a) + IdleChapters <= ch},
              "superseded")

-----------------------------------------------------------------------------
(* Chapters up to publication.                                             *)

Advanceable == {"published", "written", "extracting"}
MayBeReviewed == {"written", "flagged", "extracting"}

\* The next chapter that needs work is written (find_next_writable_chapter); one
\* that waits for a review is written anew.
WriteNext ==
    \E c \in Chapters :
       /\ memChapter[c] \notin Advanceable
       /\ \A d \in 1..(c - 1) : memChapter[d] \in Advanceable
       /\ memChapter' = [memChapter EXCEPT ![c] = "written"]
       /\ UNCHANGED <<memJob, atoms, doctrines, sourced, lastSeen, memSession,
                      autoReview, handmade, vouched, acts>>

\* One task runs a job.
JobWaits(c) ==
    c \in memJob /\ \A f \in MemSessions : memSession[f].via = "job" => memSession[f].ch # c

\* The commands refuse a published chapter.
CommandAllowed(c) == memChapter[c] \in MayBeReviewed

\* A session reads its chapter: the job that extracts it, a reviewed answer of the
\* extractor, or a command (edit_chapter, publish_chapter, a reviewed answer of
\* the editor).
OpenSession(e, c, via) ==
    /\ acts < MaxActs
    /\ memSession[e] = NoSession
    /\ IF via = "job" THEN JobWaits(c) ELSE CommandAllowed(c)
    /\ memSession' = [memSession EXCEPT ![e] = [ch |-> c, via |-> via, alive |-> TRUE]]
    /\ acts' = acts + 1
    /\ UNCHANGED <<memChapter, memJob, atoms, doctrines, sourced, lastSeen,
                   autoReview, handmade, vouched>>

\* A session comes to its end; a job with it.
Ended(e) ==
    /\ memSession' = [memSession EXCEPT ![e] = NoSession]
    /\ memJob' = IF memSession[e].via = "job" THEN memJob \ {memSession[e].ch} ELSE memJob

\* A command makes of its chapter a text to be validated, or queues its
\* extraction, without having looked at its status again.
WriteCommand(e, status) ==
    /\ memSession[e].via = "command" /\ memSession[e].alive
    /\ LET c == memSession[e].ch IN
       /\ memChapter' = [memChapter EXCEPT ![c] = status]
       /\ memJob' = IF status = "extracting" THEN memJob \cup {c} ELSE memJob
    /\ memSession' = [memSession EXCEPT ![e] = NoSession]
    /\ UNCHANGED <<atoms, doctrines, sourced, lastSeen, autoReview, handmade,
                   vouched, acts>>

\* A high-risk chapter is published by hand: its candidates stay candidates.
PublishReviewed(c) ==
    /\ memChapter[c] = "flagged"
    /\ memChapter' = [memChapter EXCEPT ![c] = "published"]
    /\ UNCHANGED <<memJob, atoms, doctrines, sourced, lastSeen, memSession,
                   autoReview, handmade, vouched, acts>>

-----------------------------------------------------------------------------
(* Extractions.                                                            *)

\* The extraction raises, times out or is cancelled, or its commit fails because
\* the chapter is gone or the job no longer runs: nothing of it stays. The job's
\* handler means to mark the chapter but raises itself (it reads the expired
\* job), so the chapter stays as it is.
AbortSession(e) ==
    /\ memSession[e] # NoSession
    /\ Ended(e)
    /\ UNCHANGED <<memChapter, atoms, doctrines, sourced, lastSeen, autoReview,
                   handmade, vouched, acts>>

\* A row of a deleted chapter or a job that no longer runs fails the commit.
MayCommit(e) ==
    /\ memSession[e].via \in {"job", "review"} /\ memSession[e].alive
    /\ memSession[e].via = "job" => memSession[e].ch \in memJob

\* Rows that are inserted once for what they say: evidence, conflicts, scenes.
EvidenceOf(c) == {<<"evidence", c>>}
ConflictsOf(c, issues) == IF issues THEN {<<"conflict", c>>} ELSE {}
SceneOf(c) == {<<"scene", c>>}

\* The character's cards: seen in chapters that have patches, its state changed
\* by an observed one (bound).
StatesOf(c, patches) ==
    IF \E i \in DOMAIN patches : patches[i].kind = "observe" THEN {<<"state", c>>} ELSE {}

\* _capture_evidence_and_atoms and review_atom_candidates: the atoms of this
\* extraction among all of them, and those in conflict.
Captured(e, patches) == WithPatches(atoms, memSession[e].ch, patches)
Mine(A, patches) == {a \in A : \E i \in DOMAIN patches : a.patch = patches[i]}
HardIssues(A, mine, hard) == hard \/ \E a \in mine : Conflicts(A, a)

\* Mutant: the candidates are accepted before the gate is looked at.
HoldAccepting(e, patches, hard) ==
    /\ MayCommit(e) /\ ~autoReview
    /\ LET c == memSession[e].ch
           A == Captured(e, patches)
       IN /\ HardIssues(A, Mine(A, patches), hard)
          /\ memChapter' = [memChapter EXCEPT ![c] = "flagged"]
          /\ atoms' = Promoted(A, Mine(A, patches), {})
          /\ sourced' = sourced \cup EvidenceOf(c) \cup ConflictsOf(c, TRUE)
    /\ Ended(e)
    /\ UNCHANGED <<doctrines, lastSeen, autoReview, handmade, vouched, acts>>

\* The gate, with the automatic review off: a hard issue leaves the candidates
\* as they are and asks for a review.
HoldForReview(e, patches, hard) ==
    /\ MayCommit(e) /\ ~autoReview
    /\ LET c == memSession[e].ch
           A == Captured(e, patches)
       IN /\ HardIssues(A, Mine(A, patches), hard)
          /\ memChapter' = [memChapter EXCEPT ![c] = "flagged"]
          /\ atoms' = A
          /\ sourced' = sourced \cup EvidenceOf(c) \cup ConflictsOf(c, TRUE)
    /\ Ended(e)
    /\ UNCHANGED <<doctrines, lastSeen, autoReview, handmade, vouched, acts>>

\* Publication, after the gate or with what the automatic review has rejected:
\* all candidates for a hard issue of the extractor's own, else the conflicting
\* ones.
Publish(e, patches, hard) ==
    /\ MayCommit(e)
    /\ LET c == memSession[e].ch
           A == Captured(e, patches)
           mine == Mine(A, patches)
           issues == HardIssues(A, mine, hard)
           candidates == {a \in mine : a.st = "candidate"}
           rejected == IF hard THEN candidates
                       ELSE {a \in candidates : Conflicts(A, a)}
           after == Promoted(A, mine, rejected)
           projected == {a \in Mine(after, patches) : a.st = "accepted"}
       IN /\ issues => autoReview
          /\ atoms' = Swept(after, c)
          /\ doctrines' = WithDoctrines(doctrines, projected)
          /\ memChapter' = [memChapter EXCEPT ![c] = "published"]
          /\ sourced' = sourced \cup EvidenceOf(c) \cup ConflictsOf(c, issues)
                          \cup SceneOf(c) \cup StatesOf(c, patches)
          /\ lastSeen' = IF patches = <<>> THEN lastSeen ELSE c
    /\ vouched' = IF hard THEN vouched ELSE vouched \cup ToSet(patches)
    /\ Ended(e)
    /\ UNCHANGED <<autoReview, handmade, acts>>

-----------------------------------------------------------------------------
(* Recall, and the user's own decisions.                                   *)

Newer(a, b) == a.ch > b.ch \/ (a.ch = b.ch /\ a.ver > b.ver)

\* The order rows are read in: the newest first, those of one chapter and
\* version by their keys.
ReadBefore(a, b) == Newer(a, b) \/ (~Newer(b, a) /\ a.patch.key < b.patch.key)

\* The rows a recall reads at chapter n: accepted and candidates that already
\* hold, at most four times the budget.
Pool(n) ==
    LET live == {a \in atoms : a.st \in {"accepted", "candidate"} /\ a.ch <= n}
    IN {a \in live : Cardinality({b \in live : ReadBefore(b, a)}) < 4 * AtomLimit}

\* rank_recall_items, with the score a query gives to what an atom says.
RanksBefore(a, b, score) ==
    \/ score[a.patch.says] > score[b.patch.says]
    \/ score[a.patch.says] = score[b.patch.says] /\ ReadBefore(a, b)

\* latest_atoms_by_key: of each key the newest atom, in the order in which the
\* keys first appear.
LatestByKey(A) ==
    {a \in A : \A b \in A : b.patch.key = a.patch.key => ~Newer(b, a)}

Appears(A, k, key, score) ==
    \E a \in A : a.patch.key = k /\ \A b \in A : b.patch.key = key => RanksBefore(a, b, score)
KeysBefore(A, key, score) ==
    {k \in {a.patch.key : a \in A} : Appears(A, k, key, score)}

Facts(n) == {a \in Pool(n) : a.st = "accepted"}

\* Mutant: of a key, the atom that ranks first.
ConfirmedFirst(n, score) ==
    {a \in Facts(n) :
        /\ \A b \in Facts(n) \ {a} : b.patch.key = a.patch.key => RanksBefore(a, b, score)
        /\ Cardinality(KeysBefore(Facts(n), a.patch.key, score)) < AtomLimit}

\* recall_novel_memory: the facts shown as confirmed.
Confirmed(n, score) ==
    {a \in LatestByKey(Facts(n)) :
        Cardinality(KeysBefore(Facts(n), a.patch.key, score)) < AtomLimit}

\* record_recall_hits: what was shown at chapter n is marked; candidates count.
RecallAt(n) ==
    /\ \E a \in Pool(n) : a.st = "candidate" /\ a.recalled # n
    /\ atoms' = (atoms \ Pool(n)) \cup {[a EXCEPT !.recalled = n] : a \in Pool(n)}
    /\ UNCHANGED <<memChapter, memJob, doctrines, sourced, lastSeen, memSession,
                   autoReview, handmade, vouched, acts>>

\* set_memory_atom_status: a candidate or an accepted atom, to any status.
DecideAtom(a, status) ==
    /\ acts < MaxActs
    /\ a \in atoms /\ a.st \in {"candidate", "accepted"} /\ status # a.st
    /\ atoms' = Marked(atoms, {a}, status)
    /\ handmade' = handmade \cup {a.patch}
    /\ acts' = acts + 1
    /\ UNCHANGED <<memChapter, memJob, doctrines, sourced, lastSeen, memSession,
                   autoReview, vouched>>

-----------------------------------------------------------------------------
(* Deleting a chapter.                                                     *)

LastChapter == Biggest({0} \cup {c \in Chapters : memChapter[c] # "none"})

\* Mutant: doctrines are left to the next publication.
KeptDoctrines(c) == doctrines

DoctrinesWithout(c) == {d \in doctrines : d.ch # c}

\* _delete_and_renumber: the row goes and those behind it move up. Behind the
\* last chapter there is none, so no other number changes.
ChaptersWithout(c) == [memChapter EXCEPT ![c] = "none"]

\* delete_chapter: the last one, with no job in the project.
DeleteLast(c) ==
    /\ acts < MaxActs
    /\ c = LastChapter /\ memJob = {}
    /\ memChapter' = ChaptersWithout(c)
    /\ atoms' = {a \in atoms : a.ch # c}
    /\ doctrines' = DoctrinesWithout(c)
    /\ sourced' = {r \in sourced : r[2] # c}
    /\ lastSeen' = IF lastSeen # c THEN lastSeen
                   ELSE Biggest({0} \cup {r[2] : r \in {q \in sourced' : q[1] = "state"}})
    /\ memSession' = [e \in MemSessions |-> IF memSession[e].ch = c
                                             THEN [memSession[e] EXCEPT !.alive = FALSE]
                                             ELSE memSession[e]]
    /\ acts' = acts + 1
    /\ UNCHANGED <<memJob, autoReview, handmade, vouched>>

\* A job is cancelled by its administrator while its task goes on.
CancelExtraction(c) ==
    /\ acts < MaxActs /\ c \in memJob
    /\ memJob' = memJob \ {c}
    /\ acts' = acts + 1
    /\ UNCHANGED <<memChapter, atoms, doctrines, sourced, lastSeen, memSession,
                   autoReview, handmade, vouched>>

-----------------------------------------------------------------------------
PatchLists == SeqOf(Patches, MaxPatches)

CanonNext ==
    \/ WriteNext
    \/ \E c \in Chapters :
          \/ PublishReviewed(c) \/ DeleteLast(c) \/ CancelExtraction(c) \/ RecallAt(c)
          \/ \E e \in MemSessions, via \in {"job", "review", "command"} :
                OpenSession(e, c, via)
    \/ \E e \in MemSessions :
          \/ AbortSession(e)
          \/ \E status \in {"written", "extracting"} : WriteCommand(e, status)
          \/ \E patches \in PatchLists, hard \in BOOLEAN :
                HoldForReview(e, patches, hard) \/ Publish(e, patches, hard)
    \/ \E a \in atoms, status \in {"accepted", "rejected", "superseded"} :
          DecideAtom(a, status)

CanonSpec == CanonInit /\ [][CanonNext]_canonVars

-----------------------------------------------------------------------------
(* Properties.                                                             *)

\* What is accepted was published, by an extraction without an issue of its
\* own: text that was never released is not canon, whatever aborts, repeated or
\* late extractions, reviews and deletions do (apply_extractor_updates; the
\* user's own decision is the one way around it).
CanonWasPublished ==
    \A a \in atoms :
        a.st = "accepted" /\ a.patch \notin handmade => a.patch \in vouched

\* After the last chapter is deleted nothing refers to it, although extractions
\* of it may still have been running, and its number may be used again.
NothingBeyondLast ==
    /\ \A a \in atoms : a.ch <= LastChapter
    /\ \A d \in doctrines : d.ch <= LastChapter
    /\ \A r \in sourced : r[2] <= LastChapter
    /\ lastSeen <= LastChapter

\* Whatever the query, a fact shown as confirmed is the newest accepted one of
\* its key that holds at the chapter, each key is shown once, and a key goes
\* without only when the budget is used up or rows read before it fill the pool.
Scores == [{p.says : p \in Patches} -> RecallScores]
RecallShowsNewest ==
    \A n \in Chapters, score \in Scores :
        LET shown == Confirmed(n, score)
            facts == {a \in atoms : a.st = "accepted" /\ a.ch <= n}
        IN /\ \A a \in shown : a \in facts /\ \A b \in facts \ {a} :
                 b.patch.key = a.patch.key => Newer(a, b)
           /\ Cardinality(shown) <= AtomLimit
           /\ Cardinality(shown) < AtomLimit =>
                 \A a \in facts \cap Pool(n) : \E b \in shown : b.patch.key = a.patch.key

\* "never overwrite a conflicting fact": an accepted fact goes only when another
\* of its key is accepted in its place, or with its chapter, or by the user.
FactsAreReplaced ==
    [][\A a \in atoms :
         a.st = "accepted" /\ acts' = acts /\ ~(\E b \in atoms' : b.patch = a.patch /\ b.st = "accepted")
            => \E b \in atoms' : /\ b.patch.key = a.patch.key /\ b.st = "accepted"
                                 /\ b.ver > a.ver]_canonVars
=============================================================================
