--------------------------- MODULE ManuscriptSuffix ---------------------------
(***************************************************************************)
(* The manuscript of a short story in a prompt: its last characters, for   *)
(* which only the last chapters are to be read.                            *)
(*                                                                         *)
(* src/services/memory_manager.py, _load_short_manuscript_suffix and the   *)
(* short path of _load_chapter_context; src/services/short_story_context.py*)
(* renders.  Lengths come from one query, texts from a second one, and a   *)
(* third one reads everything when the second fell short; the user edits   *)
(* chapters in between.  The session keeps a chapter as it first read it.  *)
(*                                                                         *)
(* A text is the number of its outer plain spaces, which btrim and strip   *)
(* take off, of the other blanks at its ends, which strip alone takes off, *)
(* and of its letters.  What is rendered is the set of its characters, each*)
(* with its section, its part of the block, its place there and the edit   *)
(* it is from; the first three of them order it.                           *)
(***************************************************************************)
EXTENDS Naturals, FiniteSets

CONSTANTS
    Sections,       \* bound: chapters before the one that is written
    SectionTexts,          \* [plain : Nat, odd : Nat, letters : Nat]
    HeaderLength,   \* of a block's first line, with its end
    MaxChars,       \* SHORT_MANUSCRIPT_CONTEXT_MAX_CHARS
    Slack,          \* _SHORT_SUFFIX_SLACK_CHARS
    MaxTextEdits    \* bound: edits while the context is built

Separator == 2

ASSUME SuffixAssumption ==
    /\ Sections \in Nat \ {0} /\ MaxChars \in Nat \ {0}
    /\ HeaderLength \in Nat /\ Slack \in Nat /\ MaxTextEdits \in Nat
    /\ \A t \in SectionTexts : {t.plain, t.odd, t.letters} \subseteq Nat

VARIABLES
    texts,      \* section -> its effective content
    edition,    \* section -> how often it was edited
    asking,     \* where the builder is
    held,       \* section -> what the session keeps of it, or NotHeld
    from,       \* the first section to be read, and whether that is enough
    tail,       \* what the prompt gets
    firstSeen   \* history: the texts as the first query saw them

suffixVars == <<texts, edition, asking, held, from, tail, firstSeen>>

SectionSet == 1..Sections
NotHeld == [text |-> [plain |-> 0, odd |-> 0, letters |-> 0], edition |-> MaxTextEdits + 1]
NotFrom == [section |-> 0, enough |-> FALSE]

Stored(k) == [text |-> texts[k], edition |-> edition[k]]

\* What a query in this session gives for the section.
InSession(k) == IF held[k] # NotHeld THEN held[k] ELSE Stored(k)

----------------------------------------------------------------------------
(* Rendering.                                                              *)

HasText(t) == t.plain + t.odd + t.letters > 0

\* The parts of a block, and what separates it from the next one.
Header == 0
Letters == 1
Gap == 2

Run(k, part, e, n) == {<<k, part, i, e>> : i \in 1..n}

Before(c, d) ==
    \/ c[1] < d[1]
    \/ c[1] = d[1] /\ c[2] < d[2]
    \/ c[1] = d[1] /\ c[2] = d[2] /\ c[3] < d[3]

\* short_block_prefix and the stripped text.
Block(k, seen) ==
    Run(k, Header, 0, HeaderLength) \cup Run(k, Letters, seen.edition, seen.text.letters)

\* Only between blocks.
GapAfter(k, blocks) == IF \E j \in blocks : j > k THEN Run(k, Gap, 0, Separator) ELSE {}

\* build_short_manuscript_context before it is cut: the blocks of the sections
\* from the given one that have a text in this session.
Shown(first) == {k \in SectionSet : k >= first /\ HasText(InSession(k).text)}
Rendered(first) ==
    UNION {Block(k, InSession(k)) \cup GapAfter(k, Shown(first)) : k \in Shown(first)}

LastOf(S, n) == {c \in S : Cardinality({d \in S : Before(c, d)}) < n}

\* build_short_manuscript_context: with a marker when something is cut.
Context(r) == [cut |-> Cardinality(r) > MaxChars, chars |-> LastOf(r, MaxChars)]

----------------------------------------------------------------------------
(* The estimate.                                                           *)

\* The length of a section that has one: btrim leaves the other blanks.
Estimated(k) == texts[k].odd + texts[k].letters

Listed == {k \in SectionSet : Estimated(k) > 0}

\* _pick_short_suffix_start: the length of the blocks from k on, counted by places.
EstimateFrom(k) ==
    LET taken == {j \in Listed : j >= k}
    IN Cardinality(UNION {Run(j, Header, 0, HeaderLength) \cup Run(j, Letters, 0, Estimated(j))
                             \cup GapAfter(j, taken) : j \in taken})

\* The last section from which the estimate is enough, or the first one.
PickStart ==
    LET enough == {k \in Listed : EstimateFrom(k) >= MaxChars + Slack}
    IN IF enough # {}
       THEN [section |-> CHOOSE k \in enough : \A j \in enough : j <= k, enough |-> TRUE]
       ELSE [section |-> CHOOSE k \in Listed : \A j \in Listed : k <= j, enough |-> FALSE]

----------------------------------------------------------------------------
SuffixInit ==
    /\ texts \in [SectionSet -> SectionTexts]
    /\ edition = [k \in SectionSet |-> 0]
    /\ asking = "idle"
    /\ held = [k \in SectionSet |-> NotHeld]
    /\ from = NotFrom
    /\ tail = Context({})
    /\ firstSeen = texts

\* The user saves another text of a section while the context is built.
EditText(k) ==
    /\ asking \notin {"idle", "done"} /\ edition[k] < MaxTextEdits
    /\ \A j \in SectionSet \ {k} : edition[j] = 0
    /\ texts' \in {[texts EXCEPT ![k] = t] : t \in SectionTexts}
    /\ edition' = [edition EXCEPT ![k] = @ + 1]
    /\ UNCHANGED <<asking, held, from, tail, firstSeen>>

\* _load_chapter_context: the chapter before is read for its ending.
ReadPrevious ==
    /\ asking = "idle"
    /\ asking' = "previous"
    /\ held' = [held EXCEPT ![Sections] = Stored(Sections)]
    /\ UNCHANGED <<texts, edition, from, tail, firstSeen>>

\* The first query, and the choice of the section to read from.
ReadLengths ==
    /\ asking = "previous"
    /\ firstSeen' = texts
    /\ IF Listed = {} THEN asking' = "done" /\ UNCHANGED from
       ELSE asking' = "lengths" /\ from' = PickStart
    /\ UNCHANGED <<texts, edition, held, tail>>

\* Mutant: what was read is taken whatever its length.
NeverShort(r) == FALSE

\* _rendered_short_blocks_len: the estimate was too small after all.
FallsShort(r) == from.enough /\ Cardinality(r) < MaxChars

\* The second query.
ReadTexts ==
    /\ asking = "lengths"
    /\ held' = [k \in SectionSet |-> IF k >= from.section THEN InSession(k) ELSE held[k]]
    /\ LET r == Rendered(from.section) IN
       IF FallsShort(r) THEN asking' = "short" /\ UNCHANGED tail
       ELSE asking' = "done" /\ tail' = Context(r)
    /\ UNCHANGED <<texts, edition, from, firstSeen>>

\* The third one.
ReadEverything ==
    /\ asking = "short"
    /\ held' = [k \in SectionSet |-> InSession(k)]
    /\ asking' = "done"
    /\ tail' = Context(Rendered(1))
    /\ UNCHANGED <<texts, edition, from, firstSeen>>

SuffixNext ==
    \/ \E k \in SectionSet : EditText(k)
    \/ ReadPrevious \/ ReadLengths \/ ReadTexts \/ ReadEverything

SuffixSpec == SuffixInit /\ [][SuffixNext]_suffixVars

----------------------------------------------------------------------------
(* Properties.                                                             *)

\* Everything, read at the end in the same session.
Whole == Context(Rendered(1))

\* A section the lengths did not list is shown nonetheless: it holds nothing
\* but plain spaces, whose header is rendered, or it got its text since.
Unlisted ==
    \E k \in SectionSet : /\ firstSeen[k].odd + firstSeen[k].letters = 0
                          /\ HasText(InSession(k).text)

\* The other blanks of all sections.
OddBlanks == UNION {{k} \X (1..texts[k].odd) : k \in SectionSet}

\* The comment on _SHORT_SUFFIX_SLACK_CHARS: what is read by lengths renders
\* as everything does.  The characters are the same, whatever the user edits
\* between the queries, unless a section the lengths left out has a block; the
\* mark that something was cut is the same too, while nothing is edited and
\* the other blanks of all sections are fewer than the slack.
SuffixIsEnough ==
    asking = "done" =>
        /\ ~Unlisted => tail.chars = Whole.chars
        /\ /\ ~Unlisted /\ \A k \in SectionSet : edition[k] = 0
           /\ Cardinality(OddBlanks) < Slack
           => tail.cut = Whole.cut
=============================================================================
