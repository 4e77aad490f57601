------------------------------ MODULE HandoffLedger ------------------------------
(***************************************************************************)
(* What the next chapter is told of the state of things: the ledgers that  *)
(* a handoff builds from the accepted facts, under limits on how many it   *)
(* reads, and what of them is left in a prompt that must be short.         *)
(*                                                                         *)
(* src/services/chapter_continuity.py, chapter_handoff_formatting.py and   *)
(* context_compaction.py, as memory_manager uses them. A fact is a key with *)
(* the chapter and the version of its statement; facts come from the canon *)
(* (Canon.tla), which accepts a new statement in place of the old one, or  *)
(* beside it when it says the same. All facts are taken to be of the types *)
(* that the evidence query selects, and all keys to name items.            *)
(***************************************************************************)
EXTENDS Naturals, FiniteSets, FiniteSetsExt

CONSTANTS
    ItemKeys,           \* memory keys, numbers for their order
    HandoffChapters,    \* bound: chapters of the book
    MaxStatements,      \* bound: facts ever accepted
    AtomsTaken,         \* facts of the last chapter a handoff reads
    EvidenceLimit,      \* facts of the book it reads
    ItemsShown          \* items in a prompt, by how short it must be

ASSUME LedgerAssumption ==
    /\ ItemKeys \subseteq Nat /\ HandoffChapters \in Nat /\ MaxStatements \in Nat
    /\ AtomsTaken \in Nat /\ EvidenceLimit \in Nat /\ ItemsShown \in [1..3 -> Nat]

VARIABLES
    facts,      \* the atoms of the main line, accepted (live) or superseded
    statements, \* how many there have been
    written     \* chapters published so far

ledgerVars == <<facts, statements, written>>

LedgerInit == facts = {} /\ statements = 0 /\ written = 0

-----------------------------------------------------------------------------
(* The canon, as far as the handoff sees it.                               *)

Live == {f \in facts : f.live}
NextStatement(key) == Max({f.version : f \in {g \in facts : g.key = key}} \cup {0}) + 1

\* A statement of a chapter that is out, accepted at its publication or later
\* by the user, instead of the accepted one of its key or beside it.
AcceptFact(key, chapter, instead) ==
    /\ statements < MaxStatements /\ chapter \in 1..written
    /\ facts' = {IF instead /\ f.key = key THEN [f EXCEPT !.live = FALSE] ELSE f : f \in facts}
           \cup {[key |-> key, chapter |-> chapter, version |-> NextStatement(key), live |-> TRUE]}
    /\ statements' = statements + 1
    /\ UNCHANGED written

PublishChapter ==
    /\ written < HandoffChapters /\ written' = written + 1
    /\ UNCHANGED <<facts, statements>>

\* The last chapter goes with its facts.
WithdrawChapter ==
    /\ written > 0 /\ written' = written - 1
    /\ facts' = {f \in facts : f.chapter # written}
    /\ UNCHANGED statements

LedgerNext ==
    \/ \E k \in ItemKeys, c \in 1..HandoffChapters, i \in BOOLEAN : AcceptFact(k, c, i)
    \/ PublishChapter \/ WithdrawChapter

LedgerSpec == LedgerInit /\ [][LedgerNext]_ledgerVars

-----------------------------------------------------------------------------
(* The handoff of a chapter.                                               *)

FactLess(f, g) == f.chapter < g.chapter \/ (f.chapter = g.chapter /\ f.version < g.version)

\* The statement a ledger shows: the last one in the order of chapters.
NewestFact(fs) == CHOOSE f \in fs : \A g \in fs : ~FactLess(f, g)

Keys(fs) == {f.key : f \in fs}
ByKey(fs) == {NewestFact({f \in fs : f.key = k}) : k \in Keys(fs)}

\* What a query with an order and a limit may return: ties are the database's.
Answers(fs, limit, Before(_, _)) ==
    {taken \in SUBSET fs :
        /\ Cardinality(taken) = Min({limit, Cardinality(fs)})
        /\ \A f \in taken, g \in fs \ taken : ~Before(g, f)}

\* build_chapter_handoff: the two queries for facts. The one for the ledgers knows
\* no chapter: it reads the first facts of the book, whatever chapter is handed to.
LastChapterFacts(next) ==
    LET Newer(f, g) == f.version > g.version
    IN Answers({f \in Live : f.chapter = next - 1}, AtomsTaken, Newer)

\* Mutant: in the order of versions, as in the query before it.
EvidenceByVersion ==
    LET Older(f, g) == f.version < g.version IN Answers(Live, EvidenceLimit, Older)

EvidenceFacts == Answers(Live, EvidenceLimit, FactLess)

\* build_inherited_state_ledger: what holds as the chapter opens.
InheritedState(read) == ByKey(read)

\* build_item_state_ledger, in the order of chapters and then of keys.
ItemLedger(read) == ByKey(read)
ItemBefore(f, g) == f.chapter < g.chapter \/ (f.chapter = g.chapter /\ f.key < g.key)

\* _assemble_chapter_handoff, of what it reads of the facts: the changes told of
\* the last chapter, what holds as the next one opens, and the two ledgers.
Handoff(read, evidence) ==
    [changes   |-> read,
     inherited |-> InheritedState(read),
     items     |-> ItemLedger(evidence),
     evidence  |-> ByKey(evidence)]

\* build_chapter_handoff for a chapter whose predecessor is out: the one to be
\* written, or one that is extracted again. The first takes over nothing.
Handoffs(next) ==
    IF next = 1
    THEN {[changes |-> {}, inherited |-> {}, items |-> {}, evidence |-> {}]}
    ELSE {Handoff(read, evidence) : read \in LastChapterFacts(next), evidence \in EvidenceFacts}

LastFew(items, n) == {f \in items : Cardinality({g \in items : ItemBefore(f, g)}) < n}
FirstFew(items, n) == {f \in items : Cardinality({g \in items : ItemBefore(g, f)}) < n}

\* _to_v30_compact_prompt: the last items of the ledger, fewer when the prompt
\* is too long, and when that is too long the first ones of these.
ShownItems(ledger, level) ==
    IF level < 3 THEN LastFew(ledger, ItemsShown[level])
    ELSE FirstFew(LastFew(ledger, ItemsShown[2]), ItemsShown[3])

-----------------------------------------------------------------------------
(* Properties.                                                             *)

\* A ledger tells a fact, or what was said of its key since.
Tells(ledger, g) == \E f \in ledger : f.key = g.key /\ ~FactLess(f, g)

\* What a chapter inherits of the one before it is the newest that the chapters
\* before it say, however few of that chapter's facts are read.
InheritsNewest(handoff, next) ==
    \A f \in handoff.inherited, g \in Live :
        g.key = f.key /\ g.chapter < next => ~FactLess(f, g)

\* A ledger is the state of the book as of some point in its order. A fact that
\* it does not tell is not before any that it shows, so no item of it is newer
\* than a change it misses; and that point is not reached before the limit.
TellsBeginning(ledger) ==
    \A g \in Live : Tells(ledger, g) \/
        /\ \A f \in ledger : ~FactLess(g, f)
        /\ Cardinality({h \in Live : ~FactLess(g, h)}) > EvidenceLimit

\* A prompt shows a stretch of the ledger: the end of it, and in the shortest
\* prompt one that may stop before the end.
ShowsStretch(items) ==
    \A level \in 1..3 : \A f \in ShownItems(items, level), g \in items :
        /\ f.chapter < g.chapter
        /\ level = 3 => \E h \in ShownItems(items, level) : g.chapter < h.chapter
        => g \in ShownItems(items, level)

\* The item ledger "takes precedence over vague memories of the text"
\* (evidence_boundaries of _assemble_chapter_handoff), so what it says must have
\* been true of the whole book at one time, never of one item later than of
\* another. It need not be the present: with more facts than are read the newest
\* ones are missing, and the shortest prompt drops the newest items it has.
LedgerIsCurrent ==
    \A next \in 1 .. written + 1 : \A handoff \in Handoffs(next) :
        /\ InheritsNewest(handoff, next)
        /\ next > 1 => TellsBeginning(handoff.items) /\ TellsBeginning(handoff.evidence)
        /\ ShowsStretch(handoff.items)
=============================================================================
