--------------------------- MODULE Continuity_proofs ---------------------------
(***************************************************************************)
(* Proofs about what one chapter leaves to the next: ChapterContract (the  *)
(* outline and the contracts made of it), HandoffLedger (the state of      *)
(* things in its handoff), Canon (what may be told as a fact at all) and   *)
(* ManuscriptSuffix (the end of the manuscript in the prompt).             *)
(***************************************************************************)
EXTENDS ChapterContract, HandoffLedger, Canon, ManuscriptSuffix,
        FiniteSetTheorems, WellFoundedInduction, TLAPS

-----------------------------------------------------------------------------
(* ChapterContract: a contract can be made twice.                          *)

LEMMA ContractFacts ==
    ASSUME NEW o \in Outlines \cup {NoOutline}
    PROVE  /\ Claimed(ContractOf(o).required, ContractOf(o).unknown) = {}
           /\ Demanded(o) = ContractOf(o).required \cup (ContractOf(o).uncertain \cap Demanded(o))
           /\ Demanded(o) \subseteq ContractOf(o).required \cup ContractOf(o).uncertain
  BY DEF ContractOf, Claimed, Moved

LEMMA OutlineFields ==
    ASSUME NEW o \in Outlines
    PROVE  /\ o.required \subseteq Events /\ o.key \subseteq Events
           /\ o.uncertain \subseteq Events /\ o.changes \subseteq Events
           /\ o.unknown \subseteq Matters
           /\ Demanded(o) \subseteq Events
           /\ ContractOf(o).required \subseteq Events
           /\ ContractOf(o).uncertain \subseteq Events
  BY DEF Outlines, Demanded, ContractOf, Moved

\* The outline of a contract: what the sanitizing writes into it.
LEMMA SanitizedFields ==
    ASSUME NEW o \in Outlines, ContractOf(o).uncertain # {}
    PROVE  /\ Sanitized(o) \in Outlines
           /\ Sanitized(o).required = ContractOf(o).required
           /\ Sanitized(o).key = ContractOf(o).required
           /\ Sanitized(o).uncertain = ContractOf(o).uncertain
           /\ Sanitized(o).changes = o.changes /\ Sanitized(o).unknown = o.unknown
  <1> DEFINE r == ContractOf(o).required
             u == ContractOf(o).uncertain
  <1>1. Sanitized(o) = [o EXCEPT !.required = r, !.key = r, !.uncertain = u]
    BY DEF Sanitized
  <1>2. r \in SUBSET Events /\ u \in SUBSET Events
    BY OutlineFields
  <1> HIDE DEF r, u
  <1> QED BY <1>1, <1>2 DEF Outlines, r, u

\* Making the contract of an outline that has been through one changes nothing
\* (build_chapter_contract, sanitize_outline_for_contract).
LEMMA SanitizedTwice ==
    ASSUME NEW o \in Outlines
    PROVE  /\ Sanitized(o) \in Outlines
           /\ ContractOf(Sanitized(o)) = ContractOf(o)
           /\ Sanitized(Sanitized(o)) = Sanitized(o)
           /\ Sanitized(o).unknown = o.unknown
  <1>1. CASE ContractOf(o).uncertain = {}
    BY <1>1 DEF Sanitized
  <1>2. CASE ContractOf(o).uncertain # {}
    <2> DEFINE s == Sanitized(o)
               c == ContractOf(o)
    <2>1. /\ s \in Outlines /\ s.required = c.required /\ s.key = c.required
          /\ s.uncertain = c.uncertain /\ s.changes = o.changes /\ s.unknown = o.unknown
      BY <1>2, SanitizedFields
    <2>2. c.unknown = o.unknown
      BY DEF ContractOf
    <2>3. Moved(c.required, o.unknown) = {}
      BY ContractFacts, <2>2 DEF Claimed, Moved
    <2>4. Demanded(s) = c.required
      BY <2>1 DEF Demanded
    <2> HIDE DEF s
    <2>5. ContractOf(s) = [required |-> c.required, uncertain |-> c.uncertain,
                           unknown |-> o.unknown]
      BY <2>1, <2>3, <2>4 DEF ContractOf
    <2>6. c = [required |-> c.required, uncertain |-> c.uncertain, unknown |-> c.unknown]
      BY DEF ContractOf
    <2>7. ContractOf(s) = c
      BY <2>2, <2>5, <2>6
    <2> HIDE DEF c
    <2>8. Sanitized(s) = [s EXCEPT !.required = c.required, !.key = c.required,
                                   !.uncertain = c.uncertain]
      BY <1>2, <2>7 DEF Sanitized, c
    <2>9. Sanitized(s) = s
      BY <2>1, <2>8 DEF Outlines
    <2> QED BY <2>1, <2>7, <2>9 DEF s, c
  <1> QED BY <1>1, <1>2

\* What the contract does not look at, of the outline as it was planned.
UncheckedOf(o) ==
    IF o.required # {} /\ Claimed(o.required, o.unknown) = {}
    THEN o.key \cup o.changes ELSE o.changes

\* The rest of an outline that has been through a contract claims nothing that
\* is unknown.
LEMMA OnlyUnchecked ==
    ASSUME NEW o \in Outlines
    PROVE  /\ Claimed(Completed(Sanitized(o)), o.unknown) \subseteq UncheckedOf(o)
           /\ Claimed(Sanitized(o).key, o.unknown) \subseteq UncheckedOf(o)
  <1> DEFINE c == ContractOf(o)
  <1>1. Moved(Demanded(o), o.unknown) \subseteq c.uncertain /\ c.unknown = o.unknown
    BY DEF ContractOf
  <1>2. CASE c.uncertain = {}
    <2>1. Claimed(Demanded(o), o.unknown) = {}
      BY <1>1, <1>2 DEF Claimed, Moved
    <2>2. Sanitized(o) = o
      BY <1>2 DEF Sanitized
    <2>3. CASE o.required # {}
      BY <2>1, <2>2, <2>3 DEF Demanded, UncheckedOf, Completed, Claimed
    <2>4. CASE o.required = {}
      BY <2>1, <2>2, <2>4 DEF Demanded, UncheckedOf, Completed, Claimed
    <2> QED BY <2>3, <2>4
  <1>3. CASE c.uncertain # {}
    <2>1. /\ Sanitized(o).required = c.required /\ Sanitized(o).key = c.required
          /\ Sanitized(o).changes = o.changes
      BY <1>3, SanitizedFields
    <2>2. Claimed(c.required, o.unknown) = {}
      BY <1>1, ContractFacts
    <2> HIDE DEF c
    <2> QED BY <2>1, <2>2 DEF UncheckedOf, Completed, Claimed
  <1> QED BY <1>2, <1>3

-----------------------------------------------------------------------------
(* ChapterContract: the inductive invariant.                               *)

\* What an agent has been given is a contract of something.
Given ==
    /\ \A a \in Agents : contracts[a] = NoContract
                         \/ \E o \in Outlines : contracts[a] = ContractOf(o)
    /\ Claimed(brief.actions, brief.unknown) = {}

ContractTypes ==
    /\ stored \in Outlines \cup {NoOutline} /\ planned \in Outlines \cup {NoOutline}
    /\ work \in Outlines \cup {NoOutline}
    /\ DOMAIN contracts = Agents
    /\ frozen \in BOOLEAN /\ overwritten \in BOOLEAN /\ outlineEdits \in Nat

\* Before the first plan there is nothing; after it every copy is the sanitized
\* plan, until the user edits the stored one. An edit outside a run is itself the
\* plan that the next run takes up.
NothingYet ==
    planned = NoOutline =>
        /\ stored = NoOutline /\ work = NoOutline /\ ~frozen
        /\ \A a \in Agents : contracts[a] = NoContract
        /\ brief.key = {} /\ outlineEdits = 0 /\ ~overwritten

Copies ==
    planned # NoOutline =>
        /\ stored # NoOutline
        /\ ~overwritten =>
              /\ work # NoOutline => work = Sanitized(planned)
              /\ \/ stored = Sanitized(planned)
                 \/ stored = planned /\ work = NoOutline /\ ~frozen
        /\ outlineEdits = 0 =>
              /\ ~overwritten /\ stored = Sanitized(planned)
              /\ \A a \in Agents : contracts[a] = NoContract
                                   \/ contracts[a] = ContractOf(planned)
              /\ \/ brief.key = {}
                 \/ brief.key = Sanitized(planned).key /\ brief.unknown = planned.unknown

ContractInv == ContractTypes /\ Given /\ NothingYet /\ Copies

LEMMA NotNoOutline == \A o \in Outlines : o # NoOutline
  <1> SUFFICES ASSUME NEW o \in Outlines, o = NoOutline PROVE FALSE
    OBVIOUS
  <1>1. o.unknown \subseteq Matters
    BY OutlineFields
  <1>2. o.unknown = {"no outline"}
    BY DEF NoOutline
  <1> QED BY <1>1, <1>2, ContractAssumption

LEMMA ContractInitially == ContractInit => ContractInv
  <1> SUFFICES ASSUME ContractInit PROVE ContractInv
    OBVIOUS
  <1>1. \A a \in Agents : contracts[a] = NoContract
    BY DEF ContractInit
  <1>2. Given
    BY <1>1 DEF ContractInit, Given, Claimed
  <1>3. ContractTypes
    BY DEF ContractInit, ContractTypes
  <1> QED BY <1>1, <1>2, <1>3 DEF ContractInit, ContractInv, NothingYet, Copies

\* A chapter is taken up with an outline.
LEMMA TakeUpKeeps ==
    ASSUME ContractInv, NEW o \in Outlines, TakeUp(o), ~frozen,
           planned' \in Outlines,
           UNCHANGED <<brief, frozen, outlineEdits, overwritten>>,
           ~overwritten => o = planned' \/ o = Sanitized(planned'),
           outlineEdits = 0 =>
              /\ planned # NoOutline => planned' = planned
              /\ o = planned' \/ o = Sanitized(planned')
    PROVE  ContractInv'
  <1>1. /\ work' = Sanitized(o) /\ stored' = Sanitized(o)
        /\ contracts' = [contracts EXCEPT !["planner"] = ContractOf(o)]
    BY DEF TakeUp
  <1>2. Sanitized(o) \in Outlines /\ Sanitized(o) # NoOutline /\ planned' # NoOutline
    BY SanitizedTwice, NotNoOutline
  <1>3. ContractTypes'
    BY <1>1, <1>2 DEF ContractInv, ContractTypes
  <1>4. \A a \in Agents : contracts'[a] = IF a = "planner" THEN ContractOf(o) ELSE contracts[a]
    BY <1>1 DEF ContractInv, ContractTypes
  <1>5. Given'
    BY <1>4 DEF ContractInv, Given
  <1>6. o = planned' \/ o = Sanitized(planned') =>
            Sanitized(o) = Sanitized(planned') /\ ContractOf(o) = ContractOf(planned')
    BY SanitizedTwice
  <1>7. Copies'
    <2>1. ASSUME ~overwritten'
          PROVE  work' = Sanitized(planned') /\ stored' = Sanitized(planned')
      BY <2>1, <1>1, <1>6
    <2>2. ASSUME outlineEdits' = 0
          PROVE  /\ ~overwritten' /\ stored' = Sanitized(planned')
                 /\ \A a \in Agents : contracts'[a] = NoContract
                                      \/ contracts'[a] = ContractOf(planned')
                 /\ \/ brief'.key = {}
                    \/ brief'.key = Sanitized(planned').key /\ brief'.unknown = planned'.unknown
      <3>1. outlineEdits = 0
        BY <2>2
      <3>2. CASE planned = NoOutline
        <4>1. /\ \A a \in Agents : contracts[a] = NoContract
              /\ brief.key = {} /\ ~overwritten
          BY <3>1, <3>2 DEF ContractInv, NothingYet
        <4> QED BY <4>1, <3>1, <1>1, <1>4, <1>6
      <3>3. CASE planned # NoOutline
        <4>1. /\ ~overwritten /\ planned' = planned
              /\ \A a \in Agents : contracts[a] = NoContract
                                   \/ contracts[a] = ContractOf(planned)
              /\ \/ brief.key = {}
                 \/ brief.key = Sanitized(planned).key /\ brief.unknown = planned.unknown
          BY <3>1, <3>3 DEF ContractInv, Copies
        <4> QED BY <4>1, <3>1, <1>1, <1>4, <1>6
      <3> QED BY <3>2, <3>3
    <2> QED BY <2>1, <2>2, <1>1, <1>2 DEF Copies
  <1> QED BY <1>2, <1>3, <1>5, <1>7 DEF ContractInv, NothingYet

\* The writer's context: its contract and its brief.
LEMMA WriterKeeps ==
    ASSUME ContractInv, WriterContext
    PROVE  ContractInv'
  <1>1. /\ work # NoOutline /\ work \in Outlines /\ stored' = stored /\ work' = work
        /\ contracts' = [contracts EXCEPT !["writer"] = ContractOf(work)]
        /\ brief' = BriefOf(work) /\ planned' = planned /\ frozen' = frozen
        /\ outlineEdits' = outlineEdits /\ overwritten' = overwritten
    BY DEF WriterContext, NotRunning, ContractInv, ContractTypes
  <1>2. planned # NoOutline /\ planned \in Outlines
    BY <1>1 DEF ContractInv, ContractTypes, NothingYet
  <1>3. ContractTypes'
    BY <1>1 DEF ContractInv, ContractTypes
  <1>4. \A a \in Agents : contracts'[a] = IF a = "writer" THEN ContractOf(work) ELSE contracts[a]
    BY <1>1 DEF ContractInv, ContractTypes
  <1>5. /\ brief'.key = Sanitized(work).key /\ brief'.actions = ContractOf(work).required
        /\ brief'.unknown = ContractOf(work).unknown
    BY <1>1 DEF BriefOf, ShownToWriter
  <1>6. Given'
    BY <1>1, <1>4, <1>5, ContractFacts DEF ContractInv, Given
  <1>7. NothingYet'
    BY <1>1, <1>2 DEF NothingYet
  <1>8. ASSUME outlineEdits' = 0
        PROVE  /\ ~overwritten' /\ stored' = Sanitized(planned')
               /\ \A a \in Agents : contracts'[a] = NoContract
                                    \/ contracts'[a] = ContractOf(planned')
               /\ brief'.key = Sanitized(planned').key /\ brief'.unknown = planned'.unknown
    <2>1. /\ ~overwritten /\ stored = Sanitized(planned) /\ work = Sanitized(planned)
          /\ \A a \in Agents : contracts[a] = NoContract \/ contracts[a] = ContractOf(planned)
      BY <1>1, <1>2, <1>8 DEF ContractInv, Copies
    <2>2. ContractOf(work) = ContractOf(planned) /\ Sanitized(work) = Sanitized(planned)
      BY <1>2, <2>1, SanitizedTwice
    <2>3. ContractOf(planned).unknown = planned.unknown
      BY DEF ContractOf
    <2> QED BY <1>1, <1>4, <1>5, <2>1, <2>2, <2>3
  <1>9. Copies'
    BY <1>1, <1>2, <1>8 DEF ContractInv, Copies
  <1> QED BY <1>3, <1>6, <1>7, <1>9 DEF ContractInv

LEMMA ValidationKeeps ==
    ASSUME ContractInv, Validation
    PROVE  ContractInv'
  <1>1. PICK o \in {work, stored} :
           contracts' = [contracts EXCEPT !["validator"] = ContractOf(Sanitized(o))]
    BY DEF Validation
  <1>2. /\ work # NoOutline /\ stored' = stored /\ work' = work /\ brief' = brief
        /\ planned' = planned /\ frozen' = frozen
        /\ outlineEdits' = outlineEdits /\ overwritten' = overwritten
    BY DEF Validation, NotRunning
  <1>3. planned # NoOutline /\ planned \in Outlines
    BY <1>2 DEF ContractInv, ContractTypes, NothingYet
  <1>4. o \in Outlines /\ ContractOf(Sanitized(o)) = ContractOf(o)
    <2>1. stored # NoOutline
      BY <1>3 DEF ContractInv, Copies
    <2>2. o \in Outlines
      BY <1>2, <2>1 DEF ContractInv, ContractTypes
    <2> QED BY <2>2, SanitizedTwice
  <1>5. \A a \in Agents : contracts'[a] = IF a = "validator" THEN ContractOf(o) ELSE contracts[a]
    BY <1>1, <1>4 DEF ContractInv, ContractTypes
  <1>6. ContractTypes'
    BY <1>1, <1>2 DEF ContractInv, ContractTypes
  <1>7. Given'
    BY <1>2, <1>4, <1>5 DEF ContractInv, Given
  <1>8. NothingYet'
    BY <1>2, <1>3 DEF NothingYet
  <1>9. ASSUME outlineEdits' = 0
        PROVE  /\ ~overwritten' /\ stored' = Sanitized(planned')
               /\ \A a \in Agents : contracts'[a] = NoContract
                                    \/ contracts'[a] = ContractOf(planned')
    <2>1. /\ ~overwritten /\ stored = Sanitized(planned) /\ work = Sanitized(planned)
          /\ \A a \in Agents : contracts[a] = NoContract \/ contracts[a] = ContractOf(planned)
      BY <1>2, <1>3, <1>9 DEF ContractInv, Copies
    <2>2. ContractOf(o) = ContractOf(planned)
      BY <1>3, <2>1, SanitizedTwice
    <2> QED BY <1>2, <1>5, <2>1, <2>2
  <1>10. Copies'
    BY <1>2, <1>3, <1>9 DEF ContractInv, Copies
  <1> QED BY <1>6, <1>7, <1>8, <1>10 DEF ContractInv

LEMMA LeaveKeeps ==
    ASSUME ContractInv, NEW published \in BOOLEAN, LeaveChapter(published)
    PROVE  ContractInv'
  <1>1. /\ work # NoOutline /\ work' = NoOutline /\ frozen' \in BOOLEAN
        /\ UNCHANGED <<planned, stored, contracts, brief, outlineEdits, overwritten>>
    BY DEF LeaveChapter, NotRunning
  <1>2. planned # NoOutline
    BY <1>1 DEF ContractInv, NothingYet
  <1>3. ContractTypes' /\ Given' /\ NothingYet'
    BY <1>1, <1>2 DEF ContractInv, ContractTypes, Given, NothingYet
  <1>4. Copies'
    BY <1>1, <1>2 DEF ContractInv, Copies
  <1> QED BY <1>3, <1>4 DEF ContractInv

LEMMA EditKeeps ==
    ASSUME ContractInv, NEW o \in Edited, EditOutline(o)
    PROVE  ContractInv'
  <1>1. /\ ~frozen /\ stored # NoOutline /\ stored' = o /\ planned' = o
        /\ outlineEdits' = outlineEdits + 1 /\ outlineEdits \in Nat
        /\ overwritten' = (overwritten \/ work # NoOutline)
        /\ UNCHANGED <<work, contracts, brief, frozen>>
    BY DEF EditOutline, NotRunning, ContractInv, ContractTypes
  <1>2. o \in Outlines
    <2>1. stored \in Outlines
      BY <1>1 DEF ContractInv, ContractTypes
    <2>2. ASSUME NEW k \in SUBSET Events PROVE [stored EXCEPT !.key = k] \in Outlines
      BY <2>1 DEF Outlines
    <2>3. ASSUME NEW u \in SUBSET Matters PROVE [stored EXCEPT !.unknown = u] \in Outlines
      BY <2>1 DEF Outlines
    <2> QED BY <2>2, <2>3 DEF Edited
  <1>3. o # NoOutline
    BY <1>2, NotNoOutline
  <1>4. overwritten' \in BOOLEAN /\ outlineEdits' \in Nat /\ outlineEdits' # 0
    BY <1>1
  <1>5. ContractTypes' /\ Given' /\ NothingYet'
    BY <1>1, <1>2, <1>3, <1>4 DEF ContractInv, ContractTypes, Given, NothingYet
  <1>6. Copies'
    <2>1. ~overwritten' => work' = NoOutline
      BY <1>1
    <2> QED BY <2>1, <1>1, <1>3, <1>4 DEF Copies
  <1> QED BY <1>5, <1>6 DEF ContractInv

LEMMA ContractStep == ContractInv /\ [ContractNext]_contractVars => ContractInv'
  <1> SUFFICES ASSUME ContractInv, [ContractNext]_contractVars PROVE ContractInv'
    OBVIOUS
  <1>1. ASSUME NEW o \in Proposals, PlanOutline(o) PROVE ContractInv'
    <2>1. o \in Outlines /\ planned' = o
      BY <1>1 DEF Proposals, PlanOutline
    <2>2. stored = NoOutline
      BY <1>1 DEF PlanOutline
    <2>3. planned = NoOutline
      BY <2>2 DEF ContractInv, Copies
    <2> QED BY <1>1, <2>1, <2>3, TakeUpKeeps DEF PlanOutline
  <1>2. CASE ReuseOutline
    <2>1. stored \in Outlines /\ planned' = planned /\ work = NoOutline
      BY <1>2 DEF ReuseOutline, NotRunning, ContractInv, ContractTypes
    <2>2. planned # NoOutline /\ planned \in Outlines
      BY <1>2 DEF ReuseOutline, ContractInv, ContractTypes, NothingYet
    <2>3. /\ ~overwritten => stored = planned \/ stored = Sanitized(planned)
          /\ outlineEdits = 0 => stored = Sanitized(planned)
      BY <2>2 DEF ContractInv, Copies
    <2> QED BY <1>2, <2>1, <2>2, <2>3, TakeUpKeeps DEF ReuseOutline
  <1>3. CASE WriterContext
    BY <1>3, WriterKeeps
  <1>4. CASE Validation
    BY <1>4, ValidationKeeps
  <1>5. ASSUME NEW published \in BOOLEAN, LeaveChapter(published) PROVE ContractInv'
    BY <1>5, LeaveKeeps
  <1>6. ASSUME NEW o \in Edited, EditOutline(o) PROVE ContractInv'
    BY <1>6, EditKeeps
  <1>7. CASE UNCHANGED contractVars
    BY <1>7 DEF contractVars, ContractInv, ContractTypes, Given, NothingYet, Copies
  <1> QED BY <1>1, <1>2, <1>3, <1>4, <1>5, <1>6, <1>7 DEF ContractNext

LEMMA CluesOfInv == ContractInv => CluesStayClues
  <1> SUFFICES ASSUME ContractInv PROVE CluesStayClues
    OBVIOUS
  <1>1. \A a \in Agents : Claimed(contracts[a].required, contracts[a].unknown) = {}
    <2>1. Claimed(NoContract.required, NoContract.unknown) = {}
      BY DEF Claimed, NoContract
    <2> QED BY <2>1, ContractFacts DEF ContractInv, Given
  <1>2. Claimed(brief.actions, brief.unknown) = {}
    BY DEF ContractInv, Given
  <1>3. CASE planned = NoOutline
    BY <1>1, <1>2, <1>3 DEF ContractInv, NothingYet, CluesStayClues, Claimed
  <1>4. CASE planned # NoOutline
    <2>1. planned \in Outlines /\ Unchecked = UncheckedOf(planned)
      BY <1>4 DEF ContractInv, ContractTypes, Unchecked, UncheckedOf
    <2>2. ASSUME outlineEdits = 0 PROVE Claimed(brief.key, brief.unknown) \subseteq Unchecked
      <3>1. \/ brief.key = {}
            \/ brief.key = Sanitized(planned).key /\ brief.unknown = planned.unknown
        BY <1>4, <2>2 DEF ContractInv, Copies
      <3> QED BY <3>1, <2>1, OnlyUnchecked DEF Claimed
    <2>3. ASSUME ~overwritten, frozen
          PROVE  Claimed(Completed(stored), stored.unknown) \subseteq Unchecked
      <3>1. stored = Sanitized(planned)
        BY <1>4, <2>3 DEF ContractInv, Copies
      <3>2. stored.unknown = planned.unknown
        BY <3>1, <2>1, SanitizedTwice
      <3> QED BY <3>1, <3>2, <2>1, OnlyUnchecked
    <2> QED BY <1>1, <1>2, <2>2, <2>3 DEF CluesStayClues
  <1> QED BY <1>3, <1>4

LEMMA OneContractOfInv == ContractInv => OneContract
  <1> SUFFICES ASSUME ContractInv, outlineEdits = 0, planned # NoOutline
               PROVE  LET given == {contracts[a] : a \in {b \in Agents : contracts[b] # NoContract}}
                      IN /\ \A c \in given : Demanded(planned) \subseteq c.required \cup c.uncertain
                         /\ Cardinality(given) <= 1
    BY DEF OneContract
  <1> DEFINE given == {contracts[a] : a \in {b \in Agents : contracts[b] # NoContract}}
  <1>1. \A c \in given : c = ContractOf(planned)
    BY DEF ContractInv, Copies
  <1>2. planned \in Outlines \cup {NoOutline}
    BY DEF ContractInv, ContractTypes
  <1>3. \A c \in given : Demanded(planned) \subseteq c.required \cup c.uncertain
    BY <1>1, <1>2, ContractFacts
  <1> HIDE DEF given
  <1>4. given = {} \/ given = {ContractOf(planned)}
    BY <1>1
  <1>5. Cardinality(given) = 0 \/ Cardinality(given) = 1
    BY <1>4, FS_EmptySet, FS_Singleton
  <1>6. Cardinality(given) <= 1
    BY <1>5
  <1> QED BY <1>3, <1>6 DEF given

\* Whatever the matters the story leaves open and however often a chapter is taken
\* up, stored and loaded again, no agent is told to bring about what its outline
\* leaves unknown, and only what the contract does not look at gets through
\* (continuity_contract.py, prepare_chapter_outline, the writer's and validator's
\* contexts).
THEOREM CluesAreKept == ContractSpec => []CluesStayClues
  BY ContractInitially, ContractStep, CluesOfInv, PTL DEF ContractSpec

\* Writer and validator go by one contract, and what was planned is required or
\* uncertain in it, because making the contract of an outline that has been through
\* one changes nothing.
THEOREM ContractsAgree == ContractSpec => []OneContract
  BY ContractInitially, ContractStep, OneContractOfInv, PTL DEF ContractSpec

-----------------------------------------------------------------------------
(* Greatest numbers of bounded sets.                                       *)

LEMMA LessThanPair ==
    ASSUME NEW y \in Nat, NEW x \in Nat, y < x
    PROVE  <<y, x>> \in OpToRel(<, Nat)
  <1> DEFINE p == <<y, x>>
  <1>1. p \in Nat \X Nat /\ p[1] = y /\ p[2] = x
    OBVIOUS
  <1>2. p[1] < p[2]
    BY <1>1
  <1> HIDE DEF p
  <1>3. p \in OpToRel(<, Nat)
    BY <1>1, <1>2, Zenon DEF OpToRel
  <1> QED
    BY <1>3 DEF p

LEMMA LeastOf ==
    ASSUME NEW S, S \subseteq Nat, S # {}
    PROVE  \E x \in S : \A y \in S : x <= y
  <1>1. PICK x \in S : \A y \in S : ~ (<<y, x>> \in OpToRel(<, Nat))
    BY NatLessThanWellFounded, WFMin, Zenon
  <1>2. ASSUME NEW y \in S
        PROVE  x <= y
    <2>1. x \in Nat /\ y \in Nat
      OBVIOUS
    <2>2. ~ (y < x)
      BY <1>1, <2>1, LessThanPair, Zenon
    <2> QED BY <2>1, <2>2
  <1> QED BY <1>2

LEMMA GreatestOf ==
    ASSUME NEW S, S \subseteq Nat, S # {}, NEW n \in Nat, \A x \in S : x <= n
    PROVE  \E m \in S : \A x \in S : x <= m
  <1> DEFINE T == {n - x : x \in S}
  <1>1. T \subseteq Nat /\ T # {}
    <2>1. ASSUME NEW x \in S PROVE n - x \in Nat
      <3>1. x \in Nat /\ x <= n
        OBVIOUS
      <3> QED BY <3>1
    <2> QED BY <2>1
  <1>2. PICK d \in T : \A y \in T : d <= y
    <2> HIDE DEF T
    <2> QED BY <1>1, LeastOf
  <1>3. PICK m \in S : d = n - m
    OBVIOUS
  <1>4. ASSUME NEW x \in S
        PROVE  x <= m
    <2>1. n - x \in T
      OBVIOUS
    <2>2. n - m <= n - x
      BY <1>2, <1>3, <2>1
    <2>3. x \in Nat /\ m \in Nat
      OBVIOUS
    <2> QED BY <2>2, <2>3
  <1> QED BY <1>4

LEMMA MaxOf ==
    ASSUME NEW S, S \subseteq Nat, S # {}, NEW n \in Nat, \A x \in S : x <= n
    PROVE  Max(S) \in S /\ \A x \in S : x <= Max(S)
  <1>1. \E m \in S : \A x \in S : m >= x
    <2>1. PICK m \in S : \A x \in S : x <= m
      BY GreatestOf
    <2>2. \A x \in S : m >= x
      BY <2>1
    <2> QED BY <2>2
  <1>2. Max(S) \in S /\ \A x \in S : Max(S) >= x
    BY <1>1 DEF Max
  <1> QED BY <1>2

LEMMA MinOfTwo ==
    ASSUME NEW a \in Nat, NEW b \in Nat
    PROVE  /\ Min({a, b}) \in {a, b}
           /\ b <= a => Min({a, b}) = b
  <1> DEFINE S == {a, b}
  <1>1. \E x \in S : \A y \in S : x <= y
    BY LeastOf
  <1>2. Min(S) \in S /\ \A y \in S : Min(S) <= y
    BY <1>1 DEF Min
  <1> QED BY <1>2

-----------------------------------------------------------------------------
(* HandoffLedger: the inductive invariant.                                 *)

FactRows == [key : ItemKeys, chapter : Nat, version : Nat, live : BOOLEAN]

\* The facts are of chapters that are out, and there are only so many.
LedgerInv ==
    /\ written \in Nat /\ statements \in Nat
    /\ facts \subseteq FactRows /\ IsFiniteSet(facts)
    /\ \A f \in facts : f.chapter \in 1..written /\ f.version <= statements

LEMMA AcceptKeeps ==
    ASSUME LedgerInv, NEW key \in ItemKeys, NEW chapter \in 1..HandoffChapters,
           NEW instead \in BOOLEAN, AcceptFact(key, chapter, instead)
    PROVE  LedgerInv'
  <1> DEFINE Left(f) == IF instead /\ f.key = key THEN [f EXCEPT !.live = FALSE] ELSE f
             kept == {Left(f) : f \in facts}
             mine == {g \in facts : g.key = key}
             versions == {f.version : f \in mine} \cup {0}
  <1>1. /\ written \in Nat /\ statements \in Nat /\ chapter \in 1..written
        /\ facts \subseteq FactRows /\ IsFiniteSet(facts)
        /\ \A f \in facts : f.chapter \in 1..written /\ f.version <= statements
        /\ statements' = statements + 1 /\ written' = written
    BY DEF LedgerInv, AcceptFact
  <1>2. PICK fact : fact = [key |-> key, chapter |-> chapter,
                            version |-> NextStatement(key), live |-> TRUE]
    OBVIOUS
  <1>3. facts' = kept \cup {fact}
    BY <1>2 DEF AcceptFact
  <1>4. NextStatement(key) \in Nat /\ NextStatement(key) <= statements + 1
    <2>1. versions \subseteq Nat /\ versions # {} /\ \A v \in versions : v <= statements
      BY <1>1 DEF FactRows
    <2>2. Max(versions) \in versions
      <3> HIDE DEF versions
      <3> QED BY <1>1, <2>1, MaxOf
    <2>3. Max(versions) \in Nat /\ Max(versions) <= statements
      BY <2>1, <2>2
    <2> QED BY <1>1, <2>3 DEF NextStatement
  <1>5. fact \in FactRows /\ fact.chapter = chapter /\ fact.version <= statements + 1
    BY <1>1, <1>2, <1>4 DEF FactRows
  <1>6. \A f \in facts : /\ Left(f) \in FactRows /\ Left(f).chapter = f.chapter
                         /\ Left(f).version = f.version
    BY <1>1 DEF FactRows
  <1>7. kept \subseteq FactRows
        /\ \A f \in kept : f.chapter \in 1..written /\ f.version <= statements
    BY <1>1, <1>6
  <1>8. IsFiniteSet(kept)
    <2> DEFINE map == [f \in facts |-> Left(f)]
    <2>1. map \in Surjection(facts, kept)
      BY DEF Surjection
    <2> HIDE DEF map, kept
    <2> QED BY <1>1, <2>1, FS_Surjection
  <1> HIDE DEF kept
  <1>9. IsFiniteSet(facts')
    BY <1>3, <1>8, FS_AddElement
  <1>10. \A f \in facts' : f \in FactRows /\ f.chapter \in 1..written
                           /\ f.version <= statements + 1
    <2>1. \A f \in kept : f.version \in Nat
      BY <1>7 DEF FactRows
    <2> QED BY <1>1, <1>3, <1>5, <1>7, <2>1
  <1> QED BY <1>1, <1>9, <1>10 DEF LedgerInv

LEMMA LedgerInitially == LedgerInit => LedgerInv
  BY FS_EmptySet DEF LedgerInit, LedgerInv

LEMMA LedgerStep == LedgerInv /\ [LedgerNext]_ledgerVars => LedgerInv'
  <1> SUFFICES ASSUME LedgerInv, [LedgerNext]_ledgerVars PROVE LedgerInv'
    OBVIOUS
  <1>1. ASSUME NEW k \in ItemKeys, NEW c \in 1..HandoffChapters, NEW i \in BOOLEAN,
               AcceptFact(k, c, i)
        PROVE  LedgerInv'
    BY <1>1, AcceptKeeps
  <1>2. CASE PublishChapter
    BY <1>2 DEF PublishChapter, LedgerInv
  <1>3. CASE WithdrawChapter
    <2>1. IsFiniteSet(facts')
      BY <1>3, FS_Subset DEF WithdrawChapter, LedgerInv
    <2> QED BY <1>3, <2>1 DEF WithdrawChapter, LedgerInv
  <1>4. CASE UNCHANGED ledgerVars
    BY <1>4 DEF ledgerVars, LedgerInv
  <1> QED BY <1>1, <1>2, <1>3, <1>4 DEF LedgerNext

-----------------------------------------------------------------------------
(* HandoffLedger: what a ledger shows of a key.                            *)

\* Among facts there is one that none comes behind.
LEMMA NewestIn ==
    ASSUME LedgerInv, NEW fs \in SUBSET facts, fs # {}
    PROVE  NewestFact(fs) \in fs /\ \A g \in fs : ~FactLess(NewestFact(fs), g)
  <1>1. /\ written \in Nat /\ statements \in Nat
        /\ \A f \in fs : /\ f.chapter \in Nat /\ f.version \in Nat
                         /\ f.chapter <= written /\ f.version <= statements
    BY DEF LedgerInv, FactRows
  <1> DEFINE chapters == {f.chapter : f \in fs}
  <1>2. PICK last \in chapters : \A c \in chapters : c <= last
    <2>1. chapters \subseteq Nat /\ chapters # {} /\ \A c \in chapters : c <= written
      BY <1>1
    <2> HIDE DEF chapters
    <2> QED BY <1>1, <2>1, GreatestOf
  <1> DEFINE late == {f \in fs : f.chapter = last}
             versions == {f.version : f \in late}
  <1>3. PICK top \in versions : \A v \in versions : v <= top
    <2>1. versions \subseteq Nat /\ versions # {} /\ \A v \in versions : v <= statements
      BY <1>1
    <2> HIDE DEF versions
    <2> QED BY <1>1, <2>1, GreatestOf
  <1>4. PICK f \in late : f.version = top
    OBVIOUS
  <1>5. ASSUME NEW g \in fs PROVE ~FactLess(f, g)
    <2>1. g.chapter <= last /\ f.chapter = last
      BY <1>2
    <2>2. g.chapter = last => g.version <= f.version
      BY <1>3, <1>4
    <2> QED BY <1>1, <2>1, <2>2 DEF FactLess
  <1>6. \E h \in fs : \A g \in fs : ~FactLess(h, g)
    BY <1>5
  <1> QED BY <1>6 DEF NewestFact

\* A ledger has every key of the facts it is made of, with the newest of them.
LEMMA ByKeyShows ==
    ASSUME LedgerInv, NEW fs \in SUBSET facts
    PROVE  /\ ByKey(fs) \subseteq fs
           /\ \A f \in ByKey(fs), g \in fs : g.key = f.key => ~FactLess(f, g)
           /\ Keys(ByKey(fs)) = Keys(fs)
  <1> DEFINE of(k) == {f \in fs : f.key = k}
  <1>1. ASSUME NEW k \in Keys(fs)
        PROVE  /\ NewestFact(of(k)) \in fs /\ NewestFact(of(k)).key = k
               /\ \A g \in fs : g.key = k => ~FactLess(NewestFact(of(k)), g)
    <2>1. of(k) \in SUBSET facts /\ of(k) # {}
      BY DEF Keys
    <2>2. NewestFact(of(k)) \in of(k) /\ \A g \in of(k) : ~FactLess(NewestFact(of(k)), g)
      <3> HIDE DEF of
      <3> QED BY <2>1, NewestIn
    <2> QED BY <2>2
  <1>2. \A f \in ByKey(fs) : \E k \in Keys(fs) : f = NewestFact(of(k))
    BY DEF ByKey
  <1>3. \A k \in Keys(fs) : NewestFact(of(k)) \in ByKey(fs)
    BY DEF ByKey
  <1> HIDE DEF of
  <1> QED BY <1>1, <1>2, <1>3 DEF Keys

LEMMA LiveFacts ==
    ASSUME LedgerInv
    PROVE  /\ Live \subseteq facts /\ IsFiniteSet(Live) /\ Cardinality(Live) \in Nat
           /\ \A f \in Live : f.chapter \in 1..written /\ f.version \in Nat
  <1>1. Live \in SUBSET facts
    BY DEF Live
  <1>2. IsFiniteSet(Live)
    BY <1>1, FS_Subset DEF LedgerInv
  <1> QED BY <1>1, <1>2, FS_CardinalityType DEF LedgerInv, FactRows

\* What the query for the ledgers did not read is before nothing that it read,
\* and if it read less than there is it read as much as it may.
LEMMA NotRead ==
    ASSUME LedgerInv, NEW evidence \in EvidenceFacts, NEW g \in Live \ evidence
    PROVE  /\ \A f \in evidence : ~FactLess(g, f)
           /\ Cardinality({h \in Live : ~FactLess(g, h)}) > EvidenceLimit
  <1> DEFINE upTo == {h \in Live : ~FactLess(g, h)}
  <1>1. evidence \in SUBSET Live /\ (\A f \in evidence : ~FactLess(g, f))
        /\ Cardinality(evidence) = Min({EvidenceLimit, Cardinality(Live)})
    BY DEF EvidenceFacts, Answers
  <1>2. IsFiniteSet(upTo) /\ IsFiniteSet(evidence) /\ IsFiniteSet(Live)
    BY <1>1, LiveFacts, FS_Subset
  <1>3. g \in upTo /\ evidence \subseteq upTo
    <2>1. g.chapter \in Nat /\ g.version \in Nat
      BY LiveFacts DEF LedgerInv
    <2>2. ~FactLess(g, g)
      BY <2>1 DEF FactLess
    <2> QED BY <1>1, <2>2
  <1> HIDE DEF upTo
  <1>4. /\ Cardinality(evidence) < Cardinality(upTo)
        /\ Cardinality(evidence) < Cardinality(Live)
        /\ Cardinality(evidence) \in Nat /\ Cardinality(upTo) \in Nat /\ Cardinality(Live) \in Nat
    <2>1. /\ Cardinality(evidence) <= Cardinality(upTo)
          /\ Cardinality(evidence) = Cardinality(upTo) => evidence = upTo
      BY <1>2, <1>3, FS_Subset
    <2>2. /\ Cardinality(evidence) <= Cardinality(Live)
          /\ Cardinality(evidence) = Cardinality(Live) => evidence = Live
      BY <1>1, <1>2, FS_Subset
    <2>3. Cardinality(evidence) \in Nat /\ Cardinality(upTo) \in Nat /\ Cardinality(Live) \in Nat
      BY <1>2, FS_CardinalityType
    <2>4. evidence # upTo /\ evidence # Live
      BY <1>3
    <2> QED BY <2>1, <2>2, <2>3, <2>4
  <1>5. Cardinality(evidence) = EvidenceLimit
    <2>1. Min({EvidenceLimit, Cardinality(Live)}) \in {EvidenceLimit, Cardinality(Live)}
      BY <1>4, LedgerAssumption, MinOfTwo
    <2> QED BY <1>1, <1>4, <2>1
  <1>6. Cardinality(upTo) > EvidenceLimit
    BY <1>4, <1>5
  <1> QED BY <1>1, <1>6 DEF upTo

LEMMA LedgerTells ==
    ASSUME LedgerInv, NEW evidence \in EvidenceFacts
    PROVE  TellsBeginning(ByKey(evidence))
  <1>1. evidence \subseteq Live /\ evidence \in SUBSET facts
    BY LiveFacts DEF EvidenceFacts, Answers
  <1>2. /\ ByKey(evidence) \subseteq evidence
        /\ \A f \in ByKey(evidence), g \in evidence : g.key = f.key => ~FactLess(f, g)
        /\ Keys(ByKey(evidence)) = Keys(evidence)
    BY <1>1, ByKeyShows
  <1>3. ASSUME NEW g \in evidence PROVE Tells(ByKey(evidence), g)
    <2>1. PICK f \in ByKey(evidence) : f.key = g.key
      <3>1. g.key \in Keys(ByKey(evidence))
        BY <1>2 DEF Keys
      <3> QED BY <3>1 DEF Keys
    <2> QED BY <1>2, <2>1 DEF Tells
  <1>4. ASSUME NEW g \in Live \ evidence
        PROVE  /\ \A f \in ByKey(evidence) : ~FactLess(g, f)
               /\ Cardinality({h \in Live : ~FactLess(g, h)}) > EvidenceLimit
    BY <1>2, NotRead
  <1> QED BY <1>3, <1>4 DEF TellsBeginning

\* Of the chapter before the newest statements are read first.
LEMMA ReadIsNewest ==
    ASSUME LedgerInv, NEW next \in Nat, NEW read \in LastChapterFacts(next), NEW f \in ByKey(read),
           NEW g \in Live, g.key = f.key, g.chapter < next
    PROVE  ~FactLess(f, g)
  <1> DEFINE last == {h \in Live : h.chapter = next - 1}
  <1>1. read \subseteq last /\ \A h \in read, k \in last \ read : ~(k.version > h.version)
    BY DEF LastChapterFacts, Answers
  <1>2. f \in read /\ \A h \in read : h.key = f.key => ~FactLess(f, h)
    BY <1>1, LiveFacts, ByKeyShows
  <1>3. SUFFICES ASSUME FactLess(f, g) PROVE FALSE
    OBVIOUS
  <1>4. f \in Live /\ f.chapter = next - 1 /\ f.version \in Nat /\ g.version \in Nat
        /\ g.chapter \in Nat
    BY <1>1, <1>2, LiveFacts DEF LedgerInv
  <1>5. g.chapter = next - 1 /\ f.version < g.version
    BY <1>3, <1>4 DEF FactLess
  <1>6. g \in last \ read
    BY <1>2, <1>3, <1>5
  <1> QED BY <1>1, <1>2, <1>4, <1>5, <1>6

\* What is shown of a ledger leaves out older items than it has.
LEMMA LastFewAreLast ==
    ASSUME NEW items, IsFiniteSet(items), items \subseteq FactRows, NEW n \in Nat,
           NEW f \in LastFew(items, n), NEW g \in items, f.chapter < g.chapter
    PROVE  g \in LastFew(items, n)
  <1> DEFINE After(x) == {h \in items : ItemBefore(x, h)}
  <1>1. f \in items /\ Cardinality(After(f)) < n
    BY DEF LastFew
  <1>2. \A x \in items : x.chapter \in Nat
    BY DEF FactRows
  <1>3. After(g) \subseteq After(f)
    BY <1>1, <1>2 DEF ItemBefore
  <1>4. IsFiniteSet(After(f))
    BY FS_Subset
  <1>5. /\ Cardinality(After(g)) <= Cardinality(After(f))
        /\ Cardinality(After(g)) \in Nat /\ Cardinality(After(f)) \in Nat
    <2> HIDE DEF After
    <2>1. IsFiniteSet(After(g)) /\ Cardinality(After(g)) <= Cardinality(After(f))
      BY <1>3, <1>4, FS_Subset
    <2> QED BY <1>4, <2>1, FS_CardinalityType
  <1>6. Cardinality(After(g)) < n
    BY <1>1, <1>5
  <1> QED BY <1>6 DEF LastFew

\* The first ones leave out newer items than they have.
LEMMA FirstFewAreFirst ==
    ASSUME NEW items, IsFiniteSet(items), items \subseteq FactRows, NEW n \in Nat,
           NEW h \in FirstFew(items, n), NEW g \in items, g.chapter < h.chapter
    PROVE  g \in FirstFew(items, n)
  <1> DEFINE Ahead(x) == {e \in items : ItemBefore(e, x)}
  <1>1. h \in items /\ Cardinality(Ahead(h)) < n
    BY DEF FirstFew
  <1>2. \A x \in items : x.chapter \in Nat
    BY DEF FactRows
  <1>3. Ahead(g) \subseteq Ahead(h)
    BY <1>1, <1>2 DEF ItemBefore
  <1>4. IsFiniteSet(Ahead(h))
    BY FS_Subset
  <1>5. /\ Cardinality(Ahead(g)) <= Cardinality(Ahead(h))
        /\ Cardinality(Ahead(g)) \in Nat /\ Cardinality(Ahead(h)) \in Nat
    <2> HIDE DEF Ahead
    <2>1. IsFiniteSet(Ahead(g)) /\ Cardinality(Ahead(g)) <= Cardinality(Ahead(h))
      BY <1>3, <1>4, FS_Subset
    <2> QED BY <1>4, <2>1, FS_CardinalityType
  <1>6. Cardinality(Ahead(g)) < n
    BY <1>1, <1>5
  <1> QED BY <1>6 DEF FirstFew

LEMMA ShownOfLedger ==
    ASSUME LedgerInv, NEW items \in SUBSET facts
    PROVE  ShowsStretch(items)
  <1>1. IsFiniteSet(items) /\ items \subseteq FactRows
    BY FS_Subset DEF LedgerInv
  <1>2. \A level \in 1..3 : ItemsShown[level] \in Nat
    BY LedgerAssumption
  <1> SUFFICES ASSUME NEW level \in 1..3, NEW f \in ShownItems(items, level), NEW g \in items,
                      f.chapter < g.chapter,
                      level = 3 => \E h \in ShownItems(items, level) : g.chapter < h.chapter
               PROVE  g \in ShownItems(items, level)
    BY DEF ShowsStretch
  <1>3. CASE level < 3
    <2>1. ShownItems(items, level) = LastFew(items, ItemsShown[level])
      BY <1>3 DEF ShownItems
    <2> QED BY <1>1, <1>2, <2>1, LastFewAreLast
  <1>4. CASE level = 3
    <2>1. PICK lastOnes : lastOnes = LastFew(items, ItemsShown[2])
      OBVIOUS
    <2>2. ShownItems(items, level) = FirstFew(lastOnes, ItemsShown[3])
      BY <1>4, <2>1 DEF ShownItems
    <2>3. lastOnes \subseteq items /\ IsFiniteSet(lastOnes)
      BY <1>1, <2>1, FS_Subset DEF LastFew
    <2>4. f \in lastOnes
      BY <2>2 DEF FirstFew
    <2>5. g \in lastOnes
      BY <1>1, <1>2, <2>1, <2>4, LastFewAreLast
    <2>6. PICK h \in FirstFew(lastOnes, ItemsShown[3]) : g.chapter < h.chapter
      BY <1>4, <2>2
    <2>7. lastOnes \subseteq FactRows
      BY <1>1, <2>3
    <2>8. g \in FirstFew(lastOnes, ItemsShown[3])
      BY <1>2, <2>3, <2>5, <2>6, <2>7, FirstFewAreFirst
    <2> QED BY <2>2, <2>8
  <1>5. level < 3 \/ level = 3
    OBVIOUS
  <1> QED BY <1>3, <1>4, <1>5

LEMMA CurrentOfInv == LedgerInv => LedgerIsCurrent
  <1> SUFFICES ASSUME LedgerInv, NEW next \in 1 .. written + 1, NEW handoff \in Handoffs(next)
               PROVE  /\ InheritsNewest(handoff, next)
                      /\ next > 1 => /\ TellsBeginning(handoff.items)
                                     /\ TellsBeginning(handoff.evidence)
                      /\ ShowsStretch(handoff.items)
    BY DEF LedgerIsCurrent
  <1>1. next \in Nat /\ next >= 1
    BY DEF LedgerInv
  <1>2. CASE next = 1
    <2>1. handoff = [changes |-> {}, inherited |-> {}, items |-> {}, evidence |-> {}]
      BY <1>2 DEF Handoffs
    <2>2. ShowsStretch({})
      BY ShownOfLedger
    <2> QED BY <1>2, <2>1, <2>2 DEF InheritsNewest
  <1>3. CASE next # 1
    <2>1. PICK read \in LastChapterFacts(next), evidence \in EvidenceFacts :
               handoff = Handoff(read, evidence)
      BY <1>3 DEF Handoffs
    <2>2. /\ handoff.inherited = ByKey(read) /\ handoff.items = ByKey(evidence)
          /\ handoff.evidence = ByKey(evidence)
      BY <2>1 DEF Handoff, InheritedState, ItemLedger
    <2>3. InheritsNewest(handoff, next)
      BY <1>1, <2>2, ReadIsNewest DEF InheritsNewest
    <2>4. TellsBeginning(handoff.items) /\ TellsBeginning(handoff.evidence)
      BY <2>2, LedgerTells
    <2>5. ShowsStretch(handoff.items)
      <3>1. evidence \in SUBSET facts
        BY LiveFacts DEF EvidenceFacts, Answers
      <3>2. ByKey(evidence) \in SUBSET facts
        BY <3>1, ByKeyShows
      <3> QED BY <2>2, <3>2, ShownOfLedger
    <2> QED BY <2>3, <2>4, <2>5
  <1> QED BY <1>2, <1>3

\* However many keys, chapters and limits: what a chapter inherits of the one
\* before it is the newest; the ledgers of a handoff are the state of the book as
\* of one point in its order, which is not before the limit of the query is
\* reached; and a prompt shows a stretch of the item ledger, up to its end but for
\* the shortest one (build_chapter_handoff, build_inherited_state_ledger,
\* build_item_state_ledger, _to_v30_compact_prompt).
THEOREM LedgersAreCurrent == LedgerSpec => []LedgerIsCurrent
  BY LedgerInitially, LedgerStep, CurrentOfInv, PTL DEF LedgerSpec

-----------------------------------------------------------------------------
(* Canon: the inductive invariant.                                         *)

Statuses == {"none", "written", "extracting", "flagged", "published"}
SessionRows == [ch : 0..MaxChapter, via : {"none", "job", "review", "command"},
                alive : BOOLEAN]

\* The chapters there are.
Existing == {c \in Chapters : memChapter[c] # "none"}

IsAtom(a) ==
    a = [patch |-> a.patch, ver |-> a.ver, ch |-> a.ch, st |-> a.st,
         recalled |-> a.recalled]
IsDoctrine(d) == d = [key |-> d.key, says |-> d.says, ch |-> d.ch, active |-> d.active]

CanonTypes ==
    /\ memChapter \in [Chapters -> Statuses]
    /\ memSession \in [MemSessions -> SessionRows]

\* What refers to a chapter refers to one that exists: a session that may still
\* write, a job, an atom, a doctrine, a row, the character's last appearance.
Referring ==
    /\ \A e \in MemSessions : memSession[e].alive => memSession[e].ch \in Existing
    /\ memJob \subseteq Existing
    /\ \A a \in atoms : IsAtom(a) /\ a.ch \in Existing
    /\ \A d \in doctrines : IsDoctrine(d) /\ d.ch \in Existing
    /\ \A r \in sourced : r[2] \in Existing
    /\ lastSeen \in Existing \cup {0}

CanonInv == CanonTypes /\ Referring /\ CanonWasPublished

-----------------------------------------------------------------------------
(* Canon: the operators on atoms and doctrines.                            *)

\* A step of an atom changes its status, or when it was recalled, not what it
\* says nor the chapter it is of.
LEMMA AtomFields ==
    ASSUME NEW a, IsAtom(a), NEW x
    PROVE  /\ IsAtom([a EXCEPT !.st = x]) /\ [a EXCEPT !.st = x].st = x
           /\ [a EXCEPT !.st = x].patch = a.patch /\ [a EXCEPT !.st = x].ch = a.ch
           /\ IsAtom([a EXCEPT !.recalled = x]) /\ [a EXCEPT !.recalled = x].st = a.st
           /\ [a EXCEPT !.recalled = x].patch = a.patch /\ [a EXCEPT !.recalled = x].ch = a.ch
  <1>1. PICK p, v, c, s, r : a = [patch |-> p, ver |-> v, ch |-> c, st |-> s, recalled |-> r]
    BY DEF IsAtom
  <1>2. [a EXCEPT !.st = x] = [patch |-> p, ver |-> v, ch |-> c, st |-> x, recalled |-> r]
    BY <1>1
  <1>3. [a EXCEPT !.recalled = x] = [patch |-> p, ver |-> v, ch |-> c, st |-> s, recalled |-> x]
    BY <1>1
  <1> QED BY <1>1, <1>2, <1>3 DEF IsAtom

LEMMA AtomVersion ==
    ASSUME NEW a, IsAtom(a), NEW x
    PROVE  [a EXCEPT !.st = x].ver = a.ver /\ [a EXCEPT !.recalled = x].ver = a.ver
  BY DEF IsAtom

\* Where a marked atom comes from.
LEMMA MarkedFrom ==
    ASSUME NEW A, NEW S, NEW status, NEW b \in Marked(A, S, status),
           \A a \in A \cup S : IsAtom(a)
    PROVE  /\ IsAtom(b)
           /\ \E a \in A \cup S : b.patch = a.patch /\ b.ch = a.ch
           /\ \/ b \in A /\ b \notin S
              \/ b.st = status /\ \E a \in S : b.patch = a.patch
  <1>1. CASE b \in A \ S
    BY <1>1
  <1>2. CASE b \in {[a EXCEPT !.st = status] : a \in S}
    <2>1. PICK a \in S : b = [a EXCEPT !.st = status]
      BY <1>2
    <2>2. IsAtom(a)
      OBVIOUS
    <2>3. /\ IsAtom([a EXCEPT !.st = status]) /\ [a EXCEPT !.st = status].st = status
          /\ [a EXCEPT !.st = status].patch = a.patch /\ [a EXCEPT !.st = status].ch = a.ch
      BY <2>2, AtomFields, Zenon
    <2>4. IsAtom(b) /\ b.st = status /\ b.patch = a.patch /\ b.ch = a.ch
      BY <2>1, <2>3, Zenon
    <2> QED BY <2>4
  <1> QED BY <1>1, <1>2 DEF Marked

\* Among the atoms of an extraction are the old ones and candidates of its own.
LEMMA CapturedFrom ==
    ASSUME NEW A, NEW ch, NEW patches, NEW b \in WithPatches(A, ch, patches)
    PROVE  \/ b \in A
           \/ IsAtom(b) /\ b.ch = ch /\ b.st = "candidate"
  <1>1. ASSUME NEW i \in FirstRecorded(A, patches)
        PROVE  /\ IsAtom(Recorded(A, ch, patches, i))
               /\ Recorded(A, ch, patches, i).ch = ch
               /\ Recorded(A, ch, patches, i).st = "candidate"
    BY DEF Recorded, IsAtom
  <1> QED BY <1>1 DEF WithPatches

\* What the review accepts is of the extraction, and nothing else becomes canon.
LEMMA PromotedFrom ==
    ASSUME NEW A, \A a \in A : IsAtom(a), NEW mine \in SUBSET A,
           NEW rejected \in SUBSET A, NEW b \in Promoted(A, mine, rejected)
    PROVE  /\ IsAtom(b) /\ \E a \in A : b.ch = a.ch
           /\ b.st = "accepted" =>
                 \/ b \in A
                 \/ \E a \in mine \ rejected : a.st = "candidate" /\ b.patch = a.patch
  <1> DEFINE passing == {a \in mine : ~Conflicts(A, a)}
             replaced == {c \in A : \E a \in passing : c \in Against(A, a)
                                                       /\ c.patch.says # a.patch.says}
             accepted == {a \in passing : a.st = "candidate"} \ rejected
             A1 == Marked(A, rejected, "rejected")
             A2 == Marked(A1, replaced, "superseded")
  <1>1. b \in Marked(A2, accepted, "accepted")
    BY DEF Promoted
  <1>2. replaced \subseteq A /\ accepted \subseteq A /\ accepted \subseteq mine \ rejected
        /\ \A a \in accepted : a.st = "candidate"
    OBVIOUS
  <1> HIDE DEF replaced, accepted, A1, A2
  <1>3. \A c \in A1 : /\ IsAtom(c) /\ \E a \in A : c.ch = a.ch
                      /\ c \in A \/ c.st = "rejected"
    <2> SUFFICES ASSUME NEW c \in A1
                 PROVE  /\ IsAtom(c) /\ \E a \in A : c.ch = a.ch
                        /\ c \in A \/ c.st = "rejected"
      OBVIOUS
    <2>1. c \in Marked(A, rejected, "rejected") /\ \A a \in A \cup rejected : IsAtom(a)
      BY DEF A1
    <2>2. /\ IsAtom(c) /\ \E a \in A \cup rejected : c.patch = a.patch /\ c.ch = a.ch
          /\ \/ c \in A /\ c \notin rejected
             \/ c.st = "rejected" /\ \E a \in rejected : c.patch = a.patch
      BY <2>1, MarkedFrom
    <2> QED BY <2>2
  <1>4. \A c \in A2 : /\ IsAtom(c) /\ \E a \in A : c.ch = a.ch
                      /\ c \in A \/ c.st \in {"rejected", "superseded"}
    <2> SUFFICES ASSUME NEW c \in A2
                 PROVE  /\ IsAtom(c) /\ \E a \in A : c.ch = a.ch
                        /\ c \in A \/ c.st \in {"rejected", "superseded"}
      OBVIOUS
    <2>1. c \in Marked(A1, replaced, "superseded") /\ \A a \in A1 \cup replaced : IsAtom(a)
      BY <1>2, <1>3 DEF A2
    <2>2. /\ IsAtom(c) /\ \E a \in A1 \cup replaced : c.patch = a.patch /\ c.ch = a.ch
          /\ \/ c \in A1 /\ c \notin replaced
             \/ c.st = "superseded" /\ \E a \in replaced : c.patch = a.patch
      BY <2>1, MarkedFrom
    <2> QED BY <2>2, <1>2, <1>3
  <1>5. \A a \in A2 \cup accepted : IsAtom(a)
    BY <1>2, <1>4
  <1>6. /\ IsAtom(b) /\ \E a \in A2 \cup accepted : b.patch = a.patch /\ b.ch = a.ch
        /\ \/ b \in A2 /\ b \notin accepted
           \/ b.st = "accepted" /\ \E a \in accepted : b.patch = a.patch
    BY <1>1, <1>5, MarkedFrom
  <1> QED BY <1>2, <1>4, <1>6

\* The doctrines after an extraction are the old ones, or of an accepted atom.
LEMMA DoctrinesFrom ==
    ASSUME NEW D, \A d \in D : IsDoctrine(d), NEW P, NEW b \in WithDoctrines(D, P)
    PROVE  IsDoctrine(b) /\ ((\E d \in D : b.ch = d.ch) \/ (\E a \in P : b.ch = a.ch))
  <1> DEFINE new == {a \in P : a.patch.says \notin Told(D, P, a)}
             keys == {a.patch.key : a \in new}
             last(a) == \A c \in new : c.patch.key = a.patch.key => c.ver <= a.ver
             of(a) == [key |-> a.patch.key, says |-> a.patch.says, ch |-> a.ch,
                       active |-> last(a)]
  <1>1. \/ \E d \in D : b = [d EXCEPT !.active = @ /\ d.key \notin keys]
        \/ \E a \in new : b = of(a)
    BY DEF WithDoctrines
  <1>2. CASE \E d \in D : b = [d EXCEPT !.active = @ /\ d.key \notin keys]
    <2>1. PICK d \in D : b = [d EXCEPT !.active = @ /\ d.key \notin keys]
      BY <1>2
    <2>2. PICK on : on = (d.active /\ d.key \notin keys)
      OBVIOUS
    <2> HIDE DEF keys
    <2>3. b = [d EXCEPT !.active = on]
      BY <2>1, <2>2
    <2>4. PICK k, s, c, v : d = [key |-> k, says |-> s, ch |-> c, active |-> v]
      BY DEF IsDoctrine
    <2>5. b = [key |-> k, says |-> s, ch |-> c, active |-> on]
      BY <2>3, <2>4
    <2> QED BY <2>4, <2>5 DEF IsDoctrine
  <1>3. CASE \E a \in new : b = of(a)
    <2>1. PICK a \in new : b = of(a)
      BY <1>3
    <2>2. PICK on : on = last(a)
      OBVIOUS
    <2>3. b = [key |-> a.patch.key, says |-> a.patch.says, ch |-> a.ch, active |-> on]
      BY <2>1, <2>2
    <2>4. a \in P
      OBVIOUS
    <2> HIDE DEF new, last
    <2>5. IsDoctrine(b)
      BY <2>3 DEF IsDoctrine
    <2>6. b.ch = a.ch
      BY <2>3
    <2> QED BY <2>4, <2>5, <2>6
  <1> QED BY <1>1, <1>2, <1>3

-----------------------------------------------------------------------------
(* Canon: the steps.                                                       *)

LEMMA CanonInitially == CanonInit => CanonInv
  <1> SUFFICES ASSUME CanonInit PROVE CanonInv
    OBVIOUS
  <1>1. CanonTypes
    BY CanonAssumption DEF CanonInit, CanonTypes, Statuses, SessionRows, NoSession
  <1>2. Referring
    BY DEF CanonInit, Referring, NoSession
  <1> QED BY <1>1, <1>2 DEF CanonInit, CanonInv, CanonWasPublished

\* Steps that create no chapter number anew and delete none.
LEMMA StatusSet ==
    ASSUME CanonInv, NEW c \in Chapters, NEW s \in Statuses \ {"none"},
           memChapter' = [memChapter EXCEPT ![c] = s]
    PROVE  /\ memChapter' \in [Chapters -> Statuses]
           /\ Existing \subseteq Existing' /\ c \in Existing'
  BY DEF CanonInv, CanonTypes, Existing

LEMMA SessionEnds ==
    ASSUME CanonInv, NEW e \in MemSessions, memSession' = [memSession EXCEPT ![e] = NoSession]
    PROVE  /\ memSession' \in [MemSessions -> SessionRows]
           /\ \A f \in MemSessions : memSession'[f].alive =>
                 memSession[f].alive /\ memSession'[f].ch = memSession[f].ch
  <1>1. NoSession \in SessionRows /\ ~NoSession.alive
    BY CanonAssumption DEF NoSession, SessionRows
  <1> QED BY <1>1 DEF CanonInv, CanonTypes

LEMMA WriteNextKeeps == CanonInv /\ WriteNext => CanonInv'
  <1> SUFFICES ASSUME CanonInv, WriteNext PROVE CanonInv'
    OBVIOUS
  <1>1. PICK c \in Chapters : memChapter' = [memChapter EXCEPT ![c] = "written"]
    BY DEF WriteNext
  <1>2. UNCHANGED <<memJob, atoms, doctrines, sourced, lastSeen, memSession, handmade, vouched>>
    BY DEF WriteNext
  <1>3. memChapter' \in [Chapters -> Statuses] /\ Existing \subseteq Existing'
    BY <1>1, StatusSet DEF Statuses
  <1>4. CanonTypes' /\ Referring'
    BY <1>2, <1>3 DEF CanonInv, CanonTypes, Referring
  <1>5. CanonWasPublished'
    BY <1>2 DEF CanonInv, CanonWasPublished
  <1> QED BY <1>4, <1>5 DEF CanonInv

LEMMA PublishReviewedKeeps ==
    ASSUME CanonInv, NEW c \in Chapters, PublishReviewed(c) PROVE CanonInv'
  <1>1. memChapter' = [memChapter EXCEPT ![c] = "published"]
        /\ UNCHANGED <<memJob, atoms, doctrines, sourced, lastSeen, memSession, handmade,
                       vouched>>
    BY DEF PublishReviewed
  <1>2. memChapter' \in [Chapters -> Statuses] /\ Existing \subseteq Existing'
    BY <1>1, StatusSet DEF Statuses
  <1>3. CanonTypes' /\ Referring'
    BY <1>1, <1>2 DEF CanonInv, CanonTypes, Referring
  <1>4. CanonWasPublished'
    BY <1>1 DEF CanonInv, CanonWasPublished
  <1> QED BY <1>3, <1>4 DEF CanonInv

LEMMA OpenKeeps ==
    ASSUME CanonInv, NEW e \in MemSessions, NEW c \in Chapters,
           NEW via \in {"job", "review", "command"}, OpenSession(e, c, via)
    PROVE  CanonInv'
  <1>1. PICK row : row = [ch |-> c, via |-> via, alive |-> TRUE]
    OBVIOUS
  <1>2. row \in SessionRows /\ row.ch = c
    BY <1>1, CanonAssumption DEF SessionRows, Chapters
  <1>3. /\ memSession' = [memSession EXCEPT ![e] = row]
        /\ UNCHANGED <<memChapter, memJob, atoms, doctrines, sourced, lastSeen, handmade,
                       vouched>>
    BY <1>1 DEF OpenSession
  <1>4. c \in Existing
    BY DEF OpenSession, JobWaits, CommandAllowed, MayBeReviewed, Existing, CanonInv, Referring
  <1>5. CanonTypes'
    BY <1>2, <1>3 DEF CanonInv, CanonTypes
  <1>6. \A f \in MemSessions : memSession'[f] = IF f = e THEN row ELSE memSession[f]
    BY <1>3 DEF CanonInv, CanonTypes
  <1>7. Existing' = Existing
    BY <1>3 DEF Existing
  <1>8. Referring'
    BY <1>2, <1>3, <1>4, <1>6, <1>7 DEF CanonInv, Referring
  <1>9. CanonWasPublished'
    BY <1>3 DEF CanonInv, CanonWasPublished
  <1> QED BY <1>5, <1>8, <1>9 DEF CanonInv

LEMMA AbortKeeps ==
    ASSUME CanonInv, NEW e \in MemSessions, AbortSession(e) PROVE CanonInv'
  <1>1. /\ memSession' = [memSession EXCEPT ![e] = NoSession] /\ memJob' \subseteq memJob
        /\ UNCHANGED <<memChapter, atoms, doctrines, sourced, lastSeen, handmade, vouched>>
    BY DEF AbortSession, Ended
  <1>2. /\ memSession' \in [MemSessions -> SessionRows]
        /\ \A f \in MemSessions : memSession'[f].alive =>
              memSession[f].alive /\ memSession'[f].ch = memSession[f].ch
    BY <1>1, SessionEnds
  <1>3. Existing' = Existing
    BY <1>1 DEF Existing
  <1>4. CanonTypes' /\ Referring'
    BY <1>1, <1>2, <1>3 DEF CanonInv, CanonTypes, Referring
  <1>5. CanonWasPublished'
    BY <1>1 DEF CanonInv, CanonWasPublished
  <1> QED BY <1>4, <1>5 DEF CanonInv

LEMMA CommandKeeps ==
    ASSUME CanonInv, NEW e \in MemSessions, NEW status \in {"written", "extracting"},
           WriteCommand(e, status)
    PROVE  CanonInv'
  <1> DEFINE c == memSession[e].ch
  <1>1. /\ memSession' = [memSession EXCEPT ![e] = NoSession]
        /\ memChapter' = [memChapter EXCEPT ![c] = status]
        /\ memJob' \subseteq memJob \cup {c}
        /\ UNCHANGED <<atoms, doctrines, sourced, lastSeen, handmade, vouched>>
        /\ memSession[e].alive
    BY DEF WriteCommand
  <1>2. c \in Existing /\ c \in Chapters
    BY <1>1 DEF CanonInv, Referring, Existing
  <1>3. /\ memSession' \in [MemSessions -> SessionRows]
        /\ \A f \in MemSessions : memSession'[f].alive =>
              memSession[f].alive /\ memSession'[f].ch = memSession[f].ch
    BY <1>1, SessionEnds
  <1> HIDE DEF c
  <1>4. memChapter' \in [Chapters -> Statuses] /\ Existing \subseteq Existing' /\ c \in Existing'
    BY <1>1, <1>2, StatusSet DEF Statuses
  <1>5. CanonTypes' /\ Referring'
    BY <1>1, <1>3, <1>4 DEF CanonInv, CanonTypes, Referring
  <1>6. CanonWasPublished'
    BY <1>1 DEF CanonInv, CanonWasPublished
  <1> QED BY <1>5, <1>6 DEF CanonInv

\* An extraction that holds its chapter for review or publishes it, by what
\* becomes of the atoms and the rows.
LEMMA ExtractionKeeps ==
    ASSUME CanonInv, NEW e \in MemSessions, MayCommit(e), Ended(e),
           NEW s \in Statuses \ {"none"},
           memChapter' = [memChapter EXCEPT ![memSession[e].ch] = s],
           \A a \in atoms' : IsAtom(a) /\ a.ch \in Existing,
           \A d \in doctrines' : IsDoctrine(d) /\ d.ch \in Existing,
           \A r \in sourced' : r \in sourced \/ r[2] = memSession[e].ch,
           lastSeen' \in {lastSeen, memSession[e].ch},
           CanonWasPublished'
    PROVE  CanonInv'
  <1> DEFINE c == memSession[e].ch
  <1>1. c \in Existing /\ c \in Chapters
    BY DEF MayCommit, CanonInv, Referring, Existing
  <1>2. memSession' = [memSession EXCEPT ![e] = NoSession] /\ memJob' \subseteq memJob
    BY DEF Ended
  <1>3. /\ memSession' \in [MemSessions -> SessionRows]
        /\ \A f \in MemSessions : memSession'[f].alive =>
              memSession[f].alive /\ memSession'[f].ch = memSession[f].ch
    BY <1>2, SessionEnds
  <1>4. memChapter' \in [Chapters -> Statuses] /\ Existing \subseteq Existing' /\ c \in Existing'
    BY <1>1, StatusSet
  <1>5. CanonTypes'
    BY <1>3, <1>4 DEF CanonTypes
  <1>6. Referring'
    BY <1>1, <1>2, <1>3, <1>4 DEF CanonInv, Referring
  <1> QED BY <1>5, <1>6 DEF CanonInv

\* All atoms an extraction works on, and its own among them.
LEMMA CapturedAtoms ==
    ASSUME CanonInv, NEW e \in MemSessions, MayCommit(e), NEW patches
    PROVE  /\ \A a \in Captured(e, patches) : IsAtom(a) /\ a.ch \in Existing
           /\ \A a \in Captured(e, patches) : a \in atoms \/ a.st = "candidate"
           /\ Mine(Captured(e, patches), patches) \subseteq Captured(e, patches)
           /\ \A a \in Mine(Captured(e, patches), patches) : a.patch \in ToSet(patches)
  <1>1. memSession[e].ch \in Existing
    BY DEF MayCommit, CanonInv, Referring
  <1>2. \A a \in atoms : IsAtom(a) /\ a.ch \in Existing
    BY DEF CanonInv, Referring
  <1> DEFINE A == Captured(e, patches)
  <1>3. A = WithPatches(atoms, memSession[e].ch, patches)
    BY DEF Captured
  <1>4. \A a \in A : a \in atoms \/ (IsAtom(a) /\ a.ch = memSession[e].ch /\ a.st = "candidate")
    BY <1>3, CapturedFrom
  <1> HIDE DEF A
  <1>5. Mine(A, patches) \subseteq A /\ \A a \in Mine(A, patches) : a.patch \in ToSet(patches)
    BY DEF Mine, ToSet
  <1> QED BY <1>1, <1>2, <1>4, <1>5 DEF A

LEMMA HoldKeeps ==
    ASSUME CanonInv, NEW e \in MemSessions, NEW patches, NEW hard, HoldForReview(e, patches, hard)
    PROVE  CanonInv'
  <1>1. /\ MayCommit(e) /\ Ended(e)
        /\ memChapter' = [memChapter EXCEPT ![memSession[e].ch] = "flagged"]
        /\ atoms' = Captured(e, patches)
        /\ sourced' = sourced \cup EvidenceOf(memSession[e].ch)
                         \cup ConflictsOf(memSession[e].ch, TRUE)
        /\ UNCHANGED <<doctrines, lastSeen, handmade, vouched>>
    BY DEF HoldForReview
  <1>2. /\ \A a \in atoms' : IsAtom(a) /\ a.ch \in Existing
        /\ \A a \in atoms' : a \in atoms \/ a.st = "candidate"
    BY <1>1, CapturedAtoms
  <1>3. CanonWasPublished'
    BY <1>1, <1>2 DEF CanonInv, CanonWasPublished
  <1>4. \A r \in sourced' : r \in sourced \/ r[2] = memSession[e].ch
    BY <1>1 DEF EvidenceOf, ConflictsOf
  <1>5. \A d \in doctrines' : IsDoctrine(d) /\ d.ch \in Existing
    BY <1>1 DEF CanonInv, Referring
  <1> QED BY <1>1, <1>2, <1>3, <1>4, <1>5, ExtractionKeeps DEF Statuses

LEMMA PublishKeeps ==
    ASSUME CanonInv, NEW e \in MemSessions, NEW patches, NEW hard \in BOOLEAN,
           Publish(e, patches, hard)
    PROVE  CanonInv'
  <1> DEFINE c == memSession[e].ch
             A == Captured(e, patches)
             mine == Mine(A, patches)
             issues == HardIssues(A, mine, hard)
             candidates == {a \in mine : a.st = "candidate"}
             rejected == IF hard THEN candidates ELSE {a \in candidates : Conflicts(A, a)}
             after == Promoted(A, mine, rejected)
             projected == {a \in Mine(after, patches) : a.st = "accepted"}
  <1>1. /\ MayCommit(e) /\ Ended(e)
        /\ memChapter' = [memChapter EXCEPT ![c] = "published"]
        /\ atoms' = Swept(after, c)
        /\ doctrines' = WithDoctrines(doctrines, projected)
        /\ sourced' = sourced \cup EvidenceOf(c) \cup ConflictsOf(c, issues)
                        \cup SceneOf(c) \cup StatesOf(c, patches)
        /\ lastSeen' \in {lastSeen, c}
        /\ vouched' = IF hard THEN vouched ELSE vouched \cup ToSet(patches)
        /\ handmade' = handmade
    BY DEF Publish
  <1>2. /\ \A a \in A : IsAtom(a) /\ a.ch \in Existing
        /\ \A a \in A : a \in atoms \/ a.st = "candidate"
        /\ mine \subseteq A /\ \A a \in mine : a.patch \in ToSet(patches)
    BY <1>1, CapturedAtoms
  <1>3. rejected \subseteq candidates /\ candidates \subseteq mine
        /\ (hard => rejected = candidates)
    OBVIOUS
  <1>4. \A a \in mine : a.st = "candidate" => a \in candidates
    OBVIOUS
  <1> HIDE DEF A, mine, candidates, rejected
  <1>5. \A b \in after :
           /\ IsAtom(b) /\ b.ch \in Existing
           /\ b.st = "accepted" =>
                 \/ b \in A
                 \/ \E a \in mine \ rejected : a.st = "candidate" /\ b.patch = a.patch
    <2> SUFFICES ASSUME NEW b \in Promoted(A, mine, rejected)
                 PROVE  /\ IsAtom(b) /\ b.ch \in Existing
                        /\ b.st = "accepted" =>
                              \/ b \in A
                              \/ \E a \in mine \ rejected : a.st = "candidate" /\ b.patch = a.patch
      OBVIOUS
    <2>1. mine \in SUBSET A /\ rejected \in SUBSET A /\ \A a \in A : IsAtom(a)
      BY <1>2, <1>3
    <2>2. /\ IsAtom(b) /\ \E a \in A : b.ch = a.ch
          /\ b.st = "accepted" =>
                \/ b \in A
                \/ \E a \in mine \ rejected : a.st = "candidate" /\ b.patch = a.patch
      BY <2>1, PromotedFrom
    <2> QED BY <2>2, <1>2
  <1> HIDE DEF after
  <1>6. \A b \in after : b.st = "accepted" /\ b.patch \notin handmade => b.patch \in vouched'
    <2> SUFFICES ASSUME NEW b \in after, b.st = "accepted", b.patch \notin handmade
                 PROVE  b.patch \in vouched'
      OBVIOUS
    <2>1. CASE b \in A
      <3>1. b \in atoms
        BY <2>1, <1>2
      <3>2. b.patch \in vouched
        BY <3>1 DEF CanonInv, CanonWasPublished
      <3> QED BY <3>2, <1>1
    <2>2. CASE \E a \in mine \ rejected : a.st = "candidate" /\ b.patch = a.patch
      <3>1. PICK a \in mine \ rejected : a.st = "candidate" /\ b.patch = a.patch
        BY <2>2
      <3>2. ~hard
        BY <3>1, <1>3, <1>4
      <3>3. b.patch \in ToSet(patches)
        BY <3>1, <1>2
      <3> QED BY <3>2, <3>3, <1>1
    <2> QED BY <2>1, <2>2, <1>5
  <1>7. \A b \in atoms' : /\ IsAtom(b) /\ b.ch \in Existing
                          /\ b \in after \/ b.st = "superseded"
    <2> SUFFICES ASSUME NEW b \in Swept(after, c)
                 PROVE  /\ IsAtom(b) /\ b.ch \in Existing
                        /\ b \in after \/ b.st = "superseded"
      BY <1>1
    <2>1. PICK S \in SUBSET after : b \in Marked(after, S, "superseded")
      BY DEF Swept
    <2>2. \A a \in after \cup S : IsAtom(a)
      BY <1>5
    <2>3. /\ IsAtom(b) /\ \E a \in after \cup S : b.patch = a.patch /\ b.ch = a.ch
          /\ \/ b \in after /\ b \notin S
             \/ b.st = "superseded" /\ \E a \in S : b.patch = a.patch
      BY <2>1, <2>2, MarkedFrom
    <2> QED BY <2>3, <1>5
  <1>8. CanonWasPublished'
    BY <1>1, <1>6, <1>7 DEF CanonWasPublished
  <1>9. \A d \in doctrines' : IsDoctrine(d) /\ d.ch \in Existing
    <2> SUFFICES ASSUME NEW d \in WithDoctrines(doctrines, projected)
                 PROVE  IsDoctrine(d) /\ d.ch \in Existing
      BY <1>1
    <2>1. \A b \in doctrines : IsDoctrine(b) /\ b.ch \in Existing
      BY DEF CanonInv, Referring
    <2>2. projected \subseteq after
      BY DEF Mine
    <2> HIDE DEF projected
    <2>3. IsDoctrine(d) /\ ((\E b \in doctrines : d.ch = b.ch) \/ (\E a \in projected : d.ch = a.ch))
      BY <2>1, DoctrinesFrom
    <2> QED BY <2>1, <2>2, <2>3, <1>5
  <1>10. \A r \in sourced' : r \in sourced \/ r[2] = c
    BY <1>1 DEF EvidenceOf, ConflictsOf, SceneOf, StatesOf
  <1>11. "published" \in Statuses \ {"none"}
    BY DEF Statuses
  <1>12. \A b \in atoms' : IsAtom(b) /\ b.ch \in Existing
    BY <1>7
  <1> HIDE DEF projected, issues
  <1> QED BY <1>1, <1>8, <1>9, <1>10, <1>11, <1>12, ExtractionKeeps

LEMMA RecallKeeps ==
    ASSUME CanonInv, NEW n \in Chapters, RecallAt(n) PROVE CanonInv'
  <1>1. /\ Pool(n) \subseteq atoms
        /\ atoms' = (atoms \ Pool(n)) \cup {[a EXCEPT !.recalled = n] : a \in Pool(n)}
        /\ UNCHANGED <<memChapter, memJob, doctrines, sourced, lastSeen, memSession, handmade,
                       vouched>>
    BY DEF RecallAt, Pool
  <1>2. \A b \in atoms' : \E a \in atoms : /\ IsAtom(b) /\ b.ch = a.ch
                                           /\ b.st = a.st /\ b.patch = a.patch
    <2> SUFFICES ASSUME NEW b \in atoms'
                 PROVE  \E a \in atoms : /\ IsAtom(b) /\ b.ch = a.ch
                                         /\ b.st = a.st /\ b.patch = a.patch
      OBVIOUS
    <2>1. CASE b \in atoms
      BY <2>1 DEF CanonInv, Referring
    <2>2. CASE b \notin atoms
      <3>1. PICK a \in Pool(n) : b = [a EXCEPT !.recalled = n]
        BY <2>2, <1>1
      <3>2. a \in atoms /\ IsAtom(a)
        BY <1>1 DEF CanonInv, Referring
      <3>3. IsAtom(b) /\ b.ch = a.ch /\ b.st = a.st /\ b.patch = a.patch
        BY <3>1, <3>2, AtomFields
      <3> QED BY <3>2, <3>3
    <2> QED BY <2>1, <2>2
  <1>3. Existing' = Existing
    BY <1>1 DEF Existing
  <1>4. CanonTypes'
    BY <1>1 DEF CanonInv, CanonTypes
  <1>5. \A a \in atoms' : IsAtom(a) /\ a.ch \in Existing
    BY <1>2 DEF CanonInv, Referring
  <1>6. Referring'
    BY <1>1, <1>3, <1>5 DEF CanonInv, Referring
  <1>7. CanonWasPublished'
    BY <1>1, <1>2 DEF CanonInv, CanonWasPublished
  <1> QED BY <1>4, <1>6, <1>7 DEF CanonInv

LEMMA DecideKeeps ==
    ASSUME CanonInv, NEW a \in atoms, NEW status, DecideAtom(a, status) PROVE CanonInv'
  <1>1. /\ atoms' = Marked(atoms, {a}, status) /\ handmade' = handmade \cup {a.patch}
        /\ UNCHANGED <<memChapter, memJob, doctrines, sourced, lastSeen, memSession, vouched>>
    BY DEF DecideAtom
  <1>2. \A b \in atoms' : /\ IsAtom(b)
                          /\ \E d \in atoms : b.patch = d.patch /\ b.ch = d.ch
                          /\ b \in atoms \/ b.patch = a.patch
    <2> SUFFICES ASSUME NEW b \in Marked(atoms, {a}, status)
                 PROVE  /\ IsAtom(b)
                        /\ \E d \in atoms : b.patch = d.patch /\ b.ch = d.ch
                        /\ b \in atoms \/ b.patch = a.patch
      BY <1>1
    <2>1. \A d \in atoms \cup {a} : IsAtom(d)
      BY DEF CanonInv, Referring
    <2>2. /\ IsAtom(b) /\ \E d \in atoms \cup {a} : b.patch = d.patch /\ b.ch = d.ch
          /\ \/ b \in atoms /\ b \notin {a}
             \/ b.st = status /\ \E d \in {a} : b.patch = d.patch
      BY <2>1, MarkedFrom
    <2> QED BY <2>2
  <1>3. Existing' = Existing
    BY <1>1 DEF Existing
  <1>4. CanonTypes'
    BY <1>1 DEF CanonInv, CanonTypes
  <1>5. \A d \in atoms' : IsAtom(d) /\ d.ch \in Existing
    BY <1>2 DEF CanonInv, Referring
  <1>6. Referring'
    BY <1>1, <1>3, <1>5 DEF CanonInv, Referring
  <1>7. CanonWasPublished'
    BY <1>1, <1>2 DEF CanonInv, CanonWasPublished
  <1> QED BY <1>4, <1>6, <1>7 DEF CanonInv

\* The greatest of some chapters, and of none zero.
LEMMA BiggestOf ==
    ASSUME NEW S, S \subseteq Chapters
    PROVE  Biggest({0} \cup S) \in {0} \cup S /\ \A x \in {0} \cup S : x <= Biggest({0} \cup S)
  <1> DEFINE T == {0} \cup S
  <1>1. T \subseteq Nat /\ T # {} /\ MaxChapter \in Nat /\ \A x \in T : x <= MaxChapter
    BY CanonAssumption DEF Chapters
  <1> HIDE DEF T
  <1>2. \E m \in T : \A x \in T : x <= m
    BY <1>1, GreatestOf
  <1>3. Biggest(T) \in T /\ \A x \in T : x <= Biggest(T)
    BY <1>2 DEF Biggest
  <1> QED BY <1>3 DEF T

LEMMA DeleteKeeps ==
    ASSUME CanonInv, NEW c \in Chapters, DeleteLast(c) PROVE CanonInv'
  <1>1. /\ memChapter' = [memChapter EXCEPT ![c] = "none"] /\ memJob = {} /\ memJob' = memJob
        /\ atoms' = {a \in atoms : a.ch # c} /\ doctrines' = {d \in doctrines : d.ch # c}
        /\ sourced' = {r \in sourced : r[2] # c}
        /\ memSession' = [e \in MemSessions |-> IF memSession[e].ch = c
                                                 THEN [memSession[e] EXCEPT !.alive = FALSE]
                                                 ELSE memSession[e]]
        /\ UNCHANGED <<handmade, vouched>>
    BY DEF DeleteLast, ChaptersWithout, DoctrinesWithout
  <1>2. memChapter' \in [Chapters -> Statuses] /\ Existing' = Existing \ {c}
    BY <1>1 DEF CanonInv, CanonTypes, Existing, Statuses
  <1>3. \A e \in MemSessions : /\ memSession'[e] \in SessionRows
                               /\ memSession'[e].alive =>
                                     /\ memSession[e].alive /\ memSession[e].ch # c
                                     /\ memSession'[e].ch = memSession[e].ch
    <2> SUFFICES ASSUME NEW e \in MemSessions
                 PROVE  /\ memSession'[e] \in SessionRows
                        /\ memSession'[e].alive =>
                              /\ memSession[e].alive /\ memSession[e].ch # c
                              /\ memSession'[e].ch = memSession[e].ch
      OBVIOUS
    <2>1. memSession[e] \in SessionRows
      BY DEF CanonInv, CanonTypes
    <2>2. CASE memSession[e].ch = c
      <3>1. PICK no : no = FALSE
        OBVIOUS
      <3>2. memSession'[e] = [memSession[e] EXCEPT !.alive = no]
        BY <1>1, <2>2, <3>1
      <3>3. memSession'[e] \in SessionRows /\ memSession'[e].alive = no
        BY <2>1, <3>1, <3>2 DEF SessionRows
      <3> QED BY <3>1, <3>3
    <2>3. CASE memSession[e].ch # c
      BY <1>1, <2>1, <2>3
    <2> QED BY <2>2, <2>3
  <1>4. CanonTypes'
    <2>1. memSession' \in [MemSessions -> SessionRows]
      BY <1>1, <1>3
    <2> QED BY <1>2, <2>1 DEF CanonTypes
  <1>5. lastSeen' \in Existing' \cup {0}
    <2>1. CASE lastSeen # c
      BY <2>1, <1>2 DEF DeleteLast, CanonInv, Referring
    <2>2. CASE lastSeen = c
      <3> DEFINE S == {r[2] : r \in {q \in sourced' : q[1] = "state"}}
      <3>1. S \subseteq Existing'
        BY <1>1, <1>2 DEF CanonInv, Referring
      <3>2. S \subseteq Chapters
        BY <3>1, <1>2 DEF Existing
      <3>3. lastSeen' = Biggest({0} \cup S)
        BY <2>2 DEF DeleteLast
      <3> HIDE DEF S
      <3>4. lastSeen' \in {0} \cup S
        BY <3>2, <3>3, BiggestOf
      <3> QED BY <3>1, <3>4
    <2> QED BY <2>1, <2>2
  <1>6. Referring'
    BY <1>1, <1>2, <1>3, <1>5 DEF CanonInv, Referring
  <1>7. CanonWasPublished'
    BY <1>1 DEF CanonInv, CanonWasPublished
  <1> QED BY <1>4, <1>6, <1>7 DEF CanonInv

LEMMA CanonStep == CanonInv /\ [CanonNext]_canonVars => CanonInv'
  <1> SUFFICES ASSUME CanonInv, [CanonNext]_canonVars PROVE CanonInv'
    OBVIOUS
  <1>1. CASE WriteNext
    BY <1>1, WriteNextKeeps
  <1>2. ASSUME NEW c \in Chapters, PublishReviewed(c) PROVE CanonInv'
    BY <1>2, PublishReviewedKeeps
  <1>3. ASSUME NEW c \in Chapters, DeleteLast(c) PROVE CanonInv'
    BY <1>3, DeleteKeeps
  <1>4. ASSUME NEW c \in Chapters, CancelExtraction(c) PROVE CanonInv'
    <2>1. /\ memJob' \subseteq memJob
          /\ UNCHANGED <<memChapter, atoms, doctrines, sourced, lastSeen, memSession, handmade,
                         vouched>>
      BY <1>4 DEF CancelExtraction
    <2>2. Existing' = Existing
      BY <2>1 DEF Existing
    <2> QED BY <2>1, <2>2 DEF CanonInv, CanonTypes, Referring, CanonWasPublished
  <1>5. ASSUME NEW c \in Chapters, RecallAt(c) PROVE CanonInv'
    BY <1>5, RecallKeeps
  <1>6. ASSUME NEW c \in Chapters, NEW e \in MemSessions,
               NEW via \in {"job", "review", "command"}, OpenSession(e, c, via)
        PROVE  CanonInv'
    BY <1>6, OpenKeeps
  <1>7. ASSUME NEW e \in MemSessions, AbortSession(e) PROVE CanonInv'
    BY <1>7, AbortKeeps
  <1>8. ASSUME NEW e \in MemSessions, NEW status \in {"written", "extracting"},
               WriteCommand(e, status)
        PROVE  CanonInv'
    BY <1>8, CommandKeeps
  <1>9. ASSUME NEW e \in MemSessions, NEW patches \in PatchLists, NEW hard \in BOOLEAN,
               HoldForReview(e, patches, hard) \/ Publish(e, patches, hard)
        PROVE  CanonInv'
    BY <1>9, HoldKeeps, PublishKeeps
  <1>10. ASSUME NEW a \in atoms, NEW status \in {"accepted", "rejected", "superseded"},
                DecideAtom(a, status)
         PROVE  CanonInv'
    BY <1>10, DecideKeeps
  <1>11. CASE UNCHANGED canonVars
    <2>1. Existing' = Existing
      BY <1>11 DEF canonVars, Existing
    <2> QED BY <1>11, <2>1 DEF canonVars, CanonInv, CanonTypes, Referring, CanonWasPublished
  <1> QED
    BY <1>1, <1>2, <1>3, <1>4, <1>5, <1>6, <1>7, <1>8, <1>9, <1>10, <1>11 DEF CanonNext

LEMMA ReferringIsEnough == CanonInv => NothingBeyondLast
  <1> SUFFICES ASSUME CanonInv PROVE NothingBeyondLast
    OBVIOUS
  <1>1. Existing \subseteq Chapters /\ LastChapter = Biggest({0} \cup Existing)
    BY DEF Existing, LastChapter
  <1>2. \A c \in {0} \cup Existing : c <= LastChapter
    BY <1>1, BiggestOf
  <1> QED BY <1>2 DEF CanonInv, Referring, NothingBeyondLast

\* Whatever patches the model yields, however many sessions extract, edit and
\* review at once, and whatever is aborted or deleted on the way: an accepted atom
\* was published with its chapter, by an extraction without an issue of its own, or
\* accepted by the user (apply_extractor_updates, review_atom_candidates).
THEOREM OnlyPublishedIsCanon == CanonSpec => []CanonWasPublished
  <1>1. CanonInv => CanonWasPublished
    BY DEF CanonInv
  <1> QED BY <1>1, CanonInitially, CanonStep, PTL DEF CanonSpec

\* And when the last chapter is deleted nothing of it is left behind, nor can an
\* extraction that is still running bring any of it back (delete_chapter).
THEOREM NothingLeftBehind == CanonSpec => []NothingBeyondLast
  BY CanonInitially, CanonStep, ReferringIsEnough, PTL DEF CanonSpec

-----------------------------------------------------------------------------
(* Canon: what a recall shows.                                             *)

\* Where something comes before another, transitively and nothing before itself,
\* a finite set has a first one.
LEMMA FirstOf ==
    ASSUME NEW S, IsFiniteSet(S), S # {}, NEW before \in [S -> SUBSET S],
           \A x \in S : x \notin before[x],
           \A x \in S : \A y \in before[x] : before[y] \subseteq before[x]
    PROVE  \E x \in S : before[x] = {}
  <1> DEFINE N == {Cardinality(before[x]) : x \in S}
  <1>1. \A x \in S : before[x] \in SUBSET S /\ Cardinality(before[x]) \in Nat
    BY FS_Subset, FS_CardinalityType
  <1>2. N \subseteq Nat /\ N # {}
    BY <1>1
  <1>3. PICK n \in N : \A m \in N : n <= m
    <2> HIDE DEF N
    <2> QED BY <1>2, LeastOf
  <1>4. PICK x \in S : n = Cardinality(before[x])
    OBVIOUS
  <1>5. ASSUME NEW y \in before[x] PROVE FALSE
    <2>1. y \in S /\ before[y] \in SUBSET before[x] /\ IsFiniteSet(before[x])
      BY <1>1, FS_Subset
    <2>2. Cardinality(before[y]) <= Cardinality(before[x])
          /\ (Cardinality(before[x]) = Cardinality(before[y]) => before[x] = before[y])
      BY <2>1, FS_Subset
    <2>3. Cardinality(before[x]) <= Cardinality(before[y])
      BY <1>3, <1>4, <2>1
    <2>4. before[x] = before[y]
      BY <1>1, <2>1, <2>2, <2>3
    <2> QED BY <2>1, <2>4
  <1> QED BY <1>5

AtomRow(a) == IsAtom(a) /\ a.patch \in Patches /\ a.ver \in Nat /\ a.ch \in Nat

\* Two atoms of a key have two versions.
Apart(A) == \A a, b \in A : a.patch.key = b.patch.key /\ a.ver = b.ver => a = b

LEMMA NewerOrders ==
    ASSUME NEW a, NEW b, NEW c, AtomRow(a), AtomRow(b), AtomRow(c)
    PROVE  /\ ~Newer(a, a)
           /\ Newer(a, b) /\ Newer(b, c) => Newer(a, c)
  BY DEF AtomRow, Newer

LEMMA ReadBeforeOrders ==
    ASSUME NEW a, NEW b, NEW c, AtomRow(a), AtomRow(b), AtomRow(c)
    PROVE  /\ ~ReadBefore(a, a)
           /\ ReadBefore(a, b) /\ ReadBefore(b, c) => ReadBefore(a, c)
           /\ a.patch.key # b.patch.key => ReadBefore(a, b) \/ ReadBefore(b, a)
           /\ Newer(a, b) => ReadBefore(a, b)
           /\ a.patch.key = b.patch.key /\ a.ver # b.ver => ReadBefore(a, b) \/ ReadBefore(b, a)
  <1>1. a.patch.key \in Nat /\ b.patch.key \in Nat /\ c.patch.key \in Nat
    BY CanonAssumption DEF AtomRow
  <1> QED BY <1>1 DEF AtomRow, Newer, ReadBefore

LEMMA RanksBeforeOrders ==
    ASSUME NEW a, NEW b, NEW c, AtomRow(a), AtomRow(b), AtomRow(c), NEW score \in Scores
    PROVE  /\ ~RanksBefore(a, a, score)
           /\ RanksBefore(a, b, score) /\ RanksBefore(b, c, score) => RanksBefore(a, c, score)
           /\ a.patch.key # b.patch.key => RanksBefore(a, b, score) \/ RanksBefore(b, a, score)
           /\ a.patch.key = b.patch.key /\ a.ver # b.ver
                 => RanksBefore(a, b, score) \/ RanksBefore(b, a, score)
  <1>1. \A p \in Patches : score[p.says] \in Nat
    BY CanonAssumption DEF Scores
  <1>2. score[a.patch.says] \in Nat /\ score[b.patch.says] \in Nat /\ score[c.patch.says] \in Nat
    BY <1>1 DEF AtomRow
  <1>3. /\ ~ReadBefore(a, a)
        /\ ReadBefore(a, b) /\ ReadBefore(b, c) => ReadBefore(a, c)
        /\ a.patch.key # b.patch.key => ReadBefore(a, b) \/ ReadBefore(b, a)
        /\ a.patch.key = b.patch.key /\ a.ver # b.ver => ReadBefore(a, b) \/ ReadBefore(b, a)
    BY ReadBeforeOrders
  <1> QED BY <1>2, <1>3 DEF RanksBefore

\* Of each key there is a newest atom, and one that ranks first.
LEMMA NewestOfKey ==
    ASSUME NEW A, IsFiniteSet(A), \A a \in A : AtomRow(a), NEW a \in A
    PROVE  \E b \in LatestByKey(A) : b.patch.key = a.patch.key
  <1> DEFINE S == {b \in A : b.patch.key = a.patch.key}
             before == [x \in S |-> {y \in S : Newer(y, x)}]
  <1>1. IsFiniteSet(S) /\ S # {} /\ before \in [S -> SUBSET S]
    BY FS_Subset
  <1>2. \A x \in S : x \notin before[x]
    BY NewerOrders
  <1>3. ASSUME NEW x \in S, NEW y \in before[x], NEW z \in before[y] PROVE z \in before[x]
    <2>1. x \in S /\ y \in S /\ z \in S /\ Newer(y, x) /\ Newer(z, y)
      BY <1>3
    <2>2. AtomRow(x) /\ AtomRow(y) /\ AtomRow(z)
      BY <2>1
    <2>3. Newer(z, x)
      BY <2>1, <2>2, NewerOrders
    <2> QED BY <2>1, <2>3
  <1>4. \E x \in S : before[x] = {}
    <2> HIDE DEF S, before
    <2> QED BY <1>1, <1>2, <1>3, FirstOf
  <1>5. PICK x \in S : before[x] = {}
    BY <1>4
  <1>6. \A y \in S : ~Newer(y, x)
    BY <1>5
  <1> QED BY <1>6 DEF LatestByKey

LEMMA FirstRankedOfKey ==
    ASSUME NEW A, IsFiniteSet(A), \A a \in A : AtomRow(a), Apart(A), NEW a \in A,
           NEW score \in Scores
    PROVE  \E b \in A : /\ b.patch.key = a.patch.key
                        /\ \A c \in A \ {b} : c.patch.key = a.patch.key => RanksBefore(b, c, score)
  <1> DEFINE S == {b \in A : b.patch.key = a.patch.key}
             before == [x \in S |-> {y \in S : RanksBefore(y, x, score)}]
  <1>1. IsFiniteSet(S) /\ S # {} /\ before \in [S -> SUBSET S]
    BY FS_Subset
  <1>2. \A x \in S : x \notin before[x]
    BY RanksBeforeOrders
  <1>3. ASSUME NEW x \in S, NEW y \in before[x], NEW z \in before[y] PROVE z \in before[x]
    <2>1. x \in S /\ y \in S /\ z \in S /\ RanksBefore(y, x, score) /\ RanksBefore(z, y, score)
      BY <1>3
    <2>2. AtomRow(x) /\ AtomRow(y) /\ AtomRow(z)
      BY <2>1
    <2>3. RanksBefore(z, x, score)
      BY <2>1, <2>2, RanksBeforeOrders
    <2> QED BY <2>1, <2>3
  <1>4. \E x \in S : before[x] = {}
    <2> HIDE DEF S, before
    <2> QED BY <1>1, <1>2, <1>3, FirstOf
  <1>5. PICK x \in S : before[x] = {}
    BY <1>4
  <1>6. ASSUME NEW y \in S \ {x} PROVE RanksBefore(x, y, score)
    <2>1. ~RanksBefore(y, x, score) /\ AtomRow(x) /\ AtomRow(y)
      BY <1>5
    <2>2. x.patch.key = y.patch.key /\ x.ver # y.ver
      BY DEF Apart
    <2> QED BY <2>1, <2>2, RanksBeforeOrders
  <1> QED BY <1>6

\* The keys are shown in an order, too.
LEMMA KeysAreOrdered ==
    ASSUME NEW A, \A a \in A : AtomRow(a), NEW score \in Scores,
           NEW k, NEW l, NEW m, \E a \in A : a.patch.key = k, \E a \in A : a.patch.key = l
    PROVE  /\ ~Appears(A, k, k, score)
           /\ Appears(A, k, l, score) /\ Appears(A, l, m, score) => Appears(A, k, m, score)
  <1>1. ASSUME Appears(A, k, k, score) PROVE FALSE
    <2>1. PICK a \in A : a.patch.key = k /\ RanksBefore(a, a, score)
      BY <1>1 DEF Appears
    <2> QED BY <2>1, RanksBeforeOrders
  <1>2. ASSUME Appears(A, k, l, score), Appears(A, l, m, score) PROVE Appears(A, k, m, score)
    <2>1. PICK a \in A : a.patch.key = k /\ \A c \in A : c.patch.key = l => RanksBefore(a, c, score)
      BY <1>2 DEF Appears
    <2>2. PICK b \in A : b.patch.key = l /\ \A c \in A : c.patch.key = m => RanksBefore(b, c, score)
      BY <1>2 DEF Appears
    <2>3. ASSUME NEW c \in A, c.patch.key = m PROVE RanksBefore(a, c, score)
      <3>1. RanksBefore(a, b, score) /\ RanksBefore(b, c, score)
        BY <2>1, <2>2, <2>3
      <3> QED BY <3>1, RanksBeforeOrders
    <2> QED BY <2>1, <2>3 DEF Appears
  <1> QED BY <1>1, <1>2

LEMMA KeysAreTotal ==
    ASSUME NEW A, IsFiniteSet(A), \A a \in A : AtomRow(a), Apart(A), NEW score \in Scores,
           NEW a \in A, NEW b \in A, a.patch.key # b.patch.key
    PROVE  \/ Appears(A, a.patch.key, b.patch.key, score)
           \/ Appears(A, b.patch.key, a.patch.key, score)
  <1>1. PICK f \in A : /\ f.patch.key = a.patch.key
                       /\ \A c \in A \ {f} : c.patch.key = a.patch.key => RanksBefore(f, c, score)
    BY FirstRankedOfKey
  <1>2. PICK g \in A : /\ g.patch.key = b.patch.key
                       /\ \A c \in A \ {g} : c.patch.key = b.patch.key => RanksBefore(g, c, score)
    BY FirstRankedOfKey
  <1>3. AtomRow(f) /\ AtomRow(g) /\ f.patch.key # g.patch.key
    BY <1>1, <1>2
  <1>4. RanksBefore(f, g, score) \/ RanksBefore(g, f, score)
    BY <1>3, RanksBeforeOrders
  <1>5. CASE RanksBefore(f, g, score)
    <2>1. ASSUME NEW c \in A, c.patch.key = b.patch.key PROVE RanksBefore(f, c, score)
      <3>1. c = g \/ RanksBefore(g, c, score)
        BY <1>2, <2>1
      <3> QED BY <1>5, <1>3, <3>1, RanksBeforeOrders
    <2> QED BY <1>1, <2>1 DEF Appears
  <1>6. CASE RanksBefore(g, f, score)
    <2>1. ASSUME NEW c \in A, c.patch.key = a.patch.key PROVE RanksBefore(g, c, score)
      <3>1. c = f \/ RanksBefore(f, c, score)
        BY <1>1, <2>1
      <3> QED BY <1>6, <1>3, <3>1, RanksBeforeOrders
    <2> QED BY <1>2, <2>1 DEF Appears
  <1> QED BY <1>4, <1>5, <1>6

\* The atoms as a recall finds them.
WellVersioned(A) == IsFiniteSet(A) /\ (\A a \in A : AtomRow(a)) /\ Apart(A)
AtomsApart == WellVersioned(atoms)

\* What is read before a row of the pool is in the pool.
LEMMA PoolIsTop ==
    ASSUME AtomsApart, NEW n \in Chapters, NEW a \in Pool(n), NEW b \in atoms,
           b.st = "accepted", b.ch <= n, ReadBefore(b, a)
    PROVE  b \in Pool(n)
  <1> DEFINE live == {c \in atoms : c.st \in {"accepted", "candidate"} /\ c.ch <= n}
             before(c) == {d \in live : ReadBefore(d, c)}
  <1>1. /\ a \in live /\ b \in live /\ IsFiniteSet(live)
        /\ Cardinality(before(a)) < 4 * AtomLimit
    BY FS_Subset DEF Pool, AtomsApart, WellVersioned
  <1>2. before(b) \subseteq before(a)
    <2> SUFFICES ASSUME NEW d \in live, ReadBefore(d, b) PROVE ReadBefore(d, a)
      OBVIOUS
    <2>1. AtomRow(d) /\ AtomRow(b) /\ AtomRow(a)
      BY <1>1 DEF AtomsApart, WellVersioned
    <2> QED BY <2>1, ReadBeforeOrders
  <1>3. IsFiniteSet(before(a)) /\ before(b) \in SUBSET before(a) /\ before(a) \in SUBSET live
    BY <1>1, <1>2, FS_Subset
  <1>4. Cardinality(before(b)) <= Cardinality(before(a))
        /\ Cardinality(before(a)) \in Nat /\ Cardinality(before(b)) \in Nat
    BY <1>3, FS_Subset, FS_CardinalityType
  <1>5. Cardinality(before(b)) < 4 * AtomLimit
    BY <1>1, <1>4, CanonAssumption
  <1> QED BY <1>1, <1>5 DEF Pool

LEMMA FactsArePooled ==
    ASSUME AtomsApart, NEW n \in Chapters
    PROVE  /\ Facts(n) \subseteq atoms /\ IsFiniteSet(Facts(n))
           /\ \A a \in Facts(n) : AtomRow(a) /\ a.st = "accepted" /\ a.ch <= n /\ a \in Pool(n)
           /\ Apart(Facts(n))
           /\ \A a \in Pool(n) : a.st = "accepted" => a \in Facts(n)
  <1>1. Facts(n) \subseteq atoms
    BY DEF Facts, Pool
  <1>2. \A a \in Facts(n) : a.st = "accepted" /\ a.ch <= n /\ a \in Pool(n)
    BY DEF Facts, Pool
  <1>3. IsFiniteSet(Facts(n))
    BY <1>1, FS_Subset DEF AtomsApart, WellVersioned
  <1>4. \A a \in Pool(n) : a.st = "accepted" => a \in Facts(n)
    BY DEF Facts
  <1> QED BY <1>1, <1>2, <1>3, <1>4 DEF AtomsApart, WellVersioned, Apart

\* A fact that is shown is the newest of its key, of all accepted ones.
LEMMA ShownIsNewest ==
    ASSUME AtomsApart, NEW n \in Chapters, NEW score, NEW a \in Confirmed(n, score),
           NEW b \in atoms \ {a}, b.st = "accepted", b.ch <= n, b.patch.key = a.patch.key
    PROVE  Newer(a, b)
  <1>1. a \in Facts(n) /\ \A c \in Facts(n) : c.patch.key = a.patch.key => ~Newer(c, a)
    BY DEF Confirmed, LatestByKey
  <1>2. a \in atoms /\ a \in Pool(n) /\ AtomRow(a) /\ AtomRow(b)
    BY <1>1, FactsArePooled DEF AtomsApart, WellVersioned
  <1>3. ASSUME Newer(b, a) PROVE FALSE
    <2>1. ReadBefore(b, a)
      BY <1>2, <1>3, ReadBeforeOrders
    <2>2. b \in Pool(n)
      BY <1>2, <2>1, PoolIsTop
    <2>3. b \in Facts(n)
      BY <2>2, FactsArePooled
    <2> QED BY <1>1, <1>3, <2>3
  <1>4. a.ver # b.ver
    BY <1>2 DEF AtomsApart, WellVersioned, Apart
  <1> QED BY <1>2, <1>3, <1>4 DEF AtomRow, Newer

LEMMA KeysAreFinite ==
    ASSUME NEW A, IsFiniteSet(A), NEW key, NEW score
    PROVE  /\ IsFiniteSet({a.patch.key : a \in A})
           /\ IsFiniteSet(KeysBefore(A, key, score))
           /\ Cardinality(KeysBefore(A, key, score)) \in Nat
  <1> DEFINE Known == {a.patch.key : a \in A}
             f == [a \in A |-> a.patch.key]
  <1>1. f \in Surjection(A, Known)
    BY DEF Surjection
  <1>2. IsFiniteSet(Known)
    <2> HIDE DEF Known, f
    <2> QED BY <1>1, FS_Surjection
  <1>3. KeysBefore(A, key, score) \in SUBSET Known
    BY DEF KeysBefore
  <1>4. IsFiniteSet(KeysBefore(A, key, score))
    <2> HIDE DEF Known
    <2> QED BY <1>2, <1>3, FS_Subset
  <1> QED BY <1>2, <1>4, FS_CardinalityType

\* No more facts are shown than the budget allows: all others come before the last.
LEMMA ShownInBudget ==
    ASSUME AtomsApart, NEW n \in Chapters, NEW score \in Scores
    PROVE  /\ IsFiniteSet(Confirmed(n, score))
           /\ Cardinality(Confirmed(n, score)) <= AtomLimit
  <1> DEFINE F == Facts(n)
             S == Confirmed(n, score)
             after == [x \in S |-> {y \in S : Appears(F, x.patch.key, y.patch.key, score)}]
  <1>1. IsFiniteSet(F) /\ (\A a \in F : AtomRow(a)) /\ Apart(F) /\ F \subseteq atoms
    BY FactsArePooled
  <1>2. S \subseteq F /\ IsFiniteSet(S)
    <2>1. S \subseteq F
      BY DEF Confirmed, LatestByKey
    <2> HIDE DEF S, F
    <2> QED BY <1>1, <2>1, FS_Subset
  <1>3. \A x \in S : Cardinality(KeysBefore(F, x.patch.key, score)) < AtomLimit
    BY DEF Confirmed
  <1>4. \A x, y \in S : x.patch.key = y.patch.key => x = y
    <2> SUFFICES ASSUME NEW x \in S, NEW y \in S, x.patch.key = y.patch.key, x # y PROVE FALSE
      OBVIOUS
    <2>1. /\ x \in atoms /\ x.st = "accepted" /\ x.ch <= n
          /\ y \in atoms /\ y.st = "accepted" /\ y.ch <= n
      BY <1>2, FactsArePooled
    <2>2. Newer(x, y) /\ Newer(y, x)
      BY <2>1, ShownIsNewest
    <2>3. AtomRow(x) /\ AtomRow(y)
      BY <2>1 DEF AtomsApart, WellVersioned
    <2> QED BY <2>2, <2>3, NewerOrders
  <1> HIDE DEF F, S
  <1>5. CASE S = {}
    BY <1>5, FS_EmptySet, CanonAssumption DEF S
  <1>6. CASE S # {}
    <2>1. after \in [S -> SUBSET S]
      OBVIOUS
    <2>2. \A x \in S : x \notin after[x]
      BY <1>1, <1>2, KeysAreOrdered
    <2>3. \A x \in S : \A y \in after[x] : after[y] \subseteq after[x]
      <3> SUFFICES ASSUME NEW x \in S, NEW y \in after[x], NEW z \in after[y]
                   PROVE  z \in after[x]
        OBVIOUS
      <3>1. x \in F /\ y \in F /\ z \in S /\ y \in S
            /\ Appears(F, x.patch.key, y.patch.key, score)
            /\ Appears(F, y.patch.key, z.patch.key, score)
        BY <1>2
      <3>2. Appears(F, x.patch.key, z.patch.key, score)
        BY <1>1, <3>1, KeysAreOrdered
      <3> QED BY <3>1, <3>2
    <2>4. PICK x \in S : after[x] = {}
      <3> HIDE DEF after
      <3> QED BY <1>2, <1>6, <2>1, <2>2, <2>3, FirstOf
    <2> DEFINE K == KeysBefore(F, x.patch.key, score)
               T == S \ {x}
               f == [y \in T |-> y.patch.key]
    <2>5. \A y \in T : y.patch.key \in K
      <3> SUFFICES ASSUME NEW y \in T PROVE y.patch.key \in K
        OBVIOUS
      <3>1. x \in F /\ y \in F /\ x.patch.key # y.patch.key
        BY <1>2, <1>4
      <3>2. ~Appears(F, x.patch.key, y.patch.key, score)
        BY <2>4
      <3>3. Appears(F, y.patch.key, x.patch.key, score)
        BY <1>1, <3>1, <3>2, KeysAreTotal
      <3> QED BY <3>1, <3>3 DEF KeysBefore
    <2>6. f \in Injection(T, K)
      <3>1. \A y, z \in T : f[y] = f[z] => y = z
        BY <1>4
      <3>2. f \in [T -> K]
        BY <2>5
      <3> HIDE DEF f
      <3> QED BY <3>1, <3>2 DEF Injection, IsInjective
    <2>7. IsFiniteSet(K) /\ Cardinality(K) \in Nat /\ Cardinality(K) < AtomLimit
      BY <1>1, <1>3, KeysAreFinite
    <2>8. Cardinality(T) <= Cardinality(K)
      <3> HIDE DEF T, K, f
      <3> QED BY <2>6, <2>7, FS_Injection
    <2>9. Cardinality(T) = Cardinality(S) - 1 /\ Cardinality(S) \in Nat
      BY <1>2, FS_RemoveElement, FS_CardinalityType
    <2>10. Cardinality(S) <= AtomLimit
      <3> HIDE DEF T, K
      <3> QED BY <2>7, <2>8, <2>9, CanonAssumption
    <2> QED BY <1>2, <2>10 DEF S
  <1> QED BY <1>5, <1>6

\* And while the budget lasts no key goes without: the first one that did would
\* have as many shown before it as the budget allows.
LEMMA NoKeyGoesWithout ==
    ASSUME AtomsApart, NEW n \in Chapters, NEW score \in Scores,
           Cardinality(Confirmed(n, score)) < AtomLimit, NEW a \in Facts(n)
    PROVE  \E b \in Confirmed(n, score) : b.patch.key = a.patch.key
  <1> DEFINE F == Facts(n)
             S == Confirmed(n, score)
             Known == {c.patch.key : c \in F}
             Bad == {k \in Known : ~(\E b \in S : b.patch.key = k)}
             before == [k \in Bad |-> {l \in Bad : Appears(F, l, k, score)}]
  <1>1. IsFiniteSet(F) /\ \A c \in F : AtomRow(c)
    BY FactsArePooled
  <1>2. IsFiniteSet(S) /\ Cardinality(S) < AtomLimit
    BY ShownInBudget
  <1>3. \A k \in Bad : ~(Cardinality(KeysBefore(F, k, score)) < AtomLimit)
    <2> SUFFICES ASSUME NEW k \in Bad, Cardinality(KeysBefore(F, k, score)) < AtomLimit
                 PROVE  FALSE
      OBVIOUS
    <2>1. PICK c \in F : c.patch.key = k
      OBVIOUS
    <2>2. PICK b \in LatestByKey(F) : b.patch.key = k
      BY <1>1, <2>1, NewestOfKey
    <2>3. b \in S
      BY <2>2 DEF Confirmed
    <2> QED BY <2>2, <2>3
  <1>4. IsFiniteSet(Bad)
    <2>1. IsFiniteSet(Known) /\ Bad \in SUBSET Known
      BY <1>1, KeysAreFinite
    <2> HIDE DEF Known, Bad
    <2> QED BY <2>1, FS_Subset
  <1> SUFFICES ASSUME Bad # {} PROVE FALSE
    OBVIOUS
  <1>5. before \in [Bad -> SUBSET Bad]
    OBVIOUS
  <1>6. \A k \in Bad : \E c \in F : c.patch.key = k
    OBVIOUS
  <1> HIDE DEF F, S
  <1>7. \A k \in Bad : k \notin before[k]
    <2> SUFFICES ASSUME NEW k \in Bad, Appears(F, k, k, score) PROVE FALSE
      OBVIOUS
    <2> HIDE DEF Bad
    <2> QED BY <1>1, <1>6, KeysAreOrdered
  <1>8. \A k \in Bad : \A l \in before[k] : before[l] \subseteq before[k]
    <2> SUFFICES ASSUME NEW k \in Bad, NEW l \in before[k], NEW m \in before[l]
                 PROVE  m \in before[k]
      OBVIOUS
    <2>1. l \in Bad /\ m \in Bad /\ Appears(F, l, k, score) /\ Appears(F, m, l, score)
      OBVIOUS
    <2>2. Appears(F, m, k, score)
      <3> HIDE DEF Bad
      <3> QED BY <1>1, <1>6, <2>1, KeysAreOrdered
    <2> QED BY <2>1, <2>2
  <1>9. PICK k \in Bad : before[k] = {}
    <2> HIDE DEF Bad, before
    <2> QED BY <1>4, <1>5, <1>7, <1>8, FirstOf
  <1> DEFINE P == KeysBefore(F, k, score)
             T == {b \in S : b.patch.key \in P}
             f == [b \in T |-> b.patch.key]
  <1>10. \A l \in P : \E b \in T : b.patch.key = l
    <2> SUFFICES ASSUME NEW l \in P PROVE \E b \in T : b.patch.key = l
      OBVIOUS
    <2>1. l \in Known /\ Appears(F, l, k, score)
      BY DEF KeysBefore
    <2>2. l \notin Bad
      BY <1>9, <2>1
    <2>3. PICK b \in S : b.patch.key = l
      BY <2>1, <2>2
    <2> QED BY <2>3
  <1>11. f \in Surjection(T, P)
    <2>1. f \in [T -> P] /\ \A l \in P : \E b \in T : f[b] = l
      BY <1>10
    <2> HIDE DEF f, T, P
    <2> QED BY <2>1 DEF Surjection
  <1>12. IsFiniteSet(T) /\ Cardinality(T) <= Cardinality(S) /\ Cardinality(T) \in Nat
         /\ Cardinality(S) \in Nat
    <2>1. T \in SUBSET S
      OBVIOUS
    <2> HIDE DEF T
    <2> QED BY <1>2, <2>1, FS_Subset, FS_CardinalityType
  <1>13. Cardinality(P) <= Cardinality(T)
    <2> HIDE DEF T, P, f
    <2> QED BY <1>11, <1>12, FS_Surjection
  <1>14. Cardinality(P) \in Nat /\ ~(Cardinality(P) < AtomLimit)
    BY <1>1, <1>3, KeysAreFinite
  <1> HIDE DEF P, T
  <1> QED BY <1>2, <1>12, <1>13, <1>14, CanonAssumption

LEMMA ApartShowsNewest == AtomsApart => RecallShowsNewest
  <1> SUFFICES ASSUME AtomsApart, NEW n \in Chapters, NEW score \in Scores
               PROVE  LET shown == Confirmed(n, score)
                          holding == {a \in atoms : a.st = "accepted" /\ a.ch <= n}
                      IN /\ \A a \in shown : a \in holding /\ \A b \in holding \ {a} :
                               b.patch.key = a.patch.key => Newer(a, b)
                         /\ Cardinality(shown) <= AtomLimit
                         /\ Cardinality(shown) < AtomLimit =>
                               \A a \in holding \cap Pool(n) :
                                  \E b \in shown : b.patch.key = a.patch.key
    BY DEF RecallShowsNewest
  <1>1. \A a \in Confirmed(n, score) : a \in atoms /\ a.st = "accepted" /\ a.ch <= n
    BY FactsArePooled DEF Confirmed, LatestByKey
  <1>2. \A a \in Confirmed(n, score) : \A b \in atoms \ {a} :
           b.st = "accepted" /\ b.ch <= n /\ b.patch.key = a.patch.key => Newer(a, b)
    BY ShownIsNewest
  <1>3. Cardinality(Confirmed(n, score)) <= AtomLimit
    BY ShownInBudget
  <1>4. ASSUME Cardinality(Confirmed(n, score)) < AtomLimit,
               NEW a \in atoms \cap Pool(n), a.st = "accepted"
        PROVE  \E b \in Confirmed(n, score) : b.patch.key = a.patch.key
    <2>1. a \in Facts(n)
      BY <1>4, FactsArePooled
    <2> QED BY <1>4, <2>1, NoKeyGoesWithout
  <1> QED BY <1>1, <1>2, <1>3, <1>4

-----------------------------------------------------------------------------
(* Canon: the atoms of a key keep their versions apart.                    *)

\* What changes neither what an atom says nor its version keeps them apart.
LEMMA RewrittenApart ==
    ASSUME NEW A, WellVersioned(A), NEW f,
           \A a \in A : AtomRow(f[a]) /\ f[a].patch = a.patch /\ f[a].ver = a.ver
    PROVE  WellVersioned({f[a] : a \in A})
  <1> DEFINE B == {f[a] : a \in A}
             g == [a \in A |-> f[a]]
  <1>1. g \in Surjection(A, B)
    BY DEF Surjection
  <1>2. IsFiniteSet(B)
    <2> HIDE DEF B, g
    <2> QED BY <1>1, FS_Surjection DEF WellVersioned
  <1>3. \A b \in B : AtomRow(b)
    OBVIOUS
  <1>4. Apart(B)
    <2> SUFFICES ASSUME NEW a \in A, NEW b \in A, f[a].patch.key = f[b].patch.key,
                        f[a].ver = f[b].ver
                 PROVE  f[a] = f[b]
      BY DEF Apart
    <2>1. a = b
      BY DEF WellVersioned, Apart
    <2> QED BY <2>1
  <1> QED BY <1>2, <1>3, <1>4 DEF WellVersioned

LEMMA FewerApart ==
    ASSUME NEW A, WellVersioned(A), NEW B \in SUBSET A
    PROVE  WellVersioned(B)
  <1>1. IsFiniteSet(B)
    BY FS_Subset DEF WellVersioned
  <1> QED BY <1>1 DEF WellVersioned, Apart

LEMMA MarkedApart ==
    ASSUME NEW A, WellVersioned(A), NEW S \in SUBSET A, NEW status
    PROVE  WellVersioned(Marked(A, S, status))
  <1> DEFINE f == [a \in A |-> IF a \in S THEN [a EXCEPT !.st = status] ELSE a]
  <1>1. \A a \in A : AtomRow(f[a]) /\ f[a].patch = a.patch /\ f[a].ver = a.ver
    <2> SUFFICES ASSUME NEW a \in A
                 PROVE  AtomRow(f[a]) /\ f[a].patch = a.patch /\ f[a].ver = a.ver
      OBVIOUS
    <2>1. AtomRow(a)
      BY DEF WellVersioned
    <2>2. CASE a \in S
      <3>1. PICK b : b = [a EXCEPT !.st = status]
        OBVIOUS
      <3>2. IsAtom(b) /\ b.patch = a.patch /\ b.ch = a.ch /\ b.ver = a.ver
        BY <2>1, <3>1, AtomFields, AtomVersion DEF AtomRow
      <3>3. f[a] = b
        BY <2>2, <3>1
      <3> HIDE DEF f
      <3> QED BY <2>1, <3>2, <3>3 DEF AtomRow
    <2>3. CASE a \notin S
      BY <2>1, <2>3
    <2> QED BY <2>2, <2>3
  <1>2. Marked(A, S, status) = {f[a] : a \in A}
    BY DEF Marked
  <1> HIDE DEF f
  <1> QED BY <1>1, <1>2, RewrittenApart

\* What gives way is accepted and what is accepted a candidate: no atom is
\* promoted in two ways.
LEMMA PromotedApart ==
    ASSUME NEW A, WellVersioned(A), NEW mine \in SUBSET A, NEW rejected \in SUBSET A,
           \A a \in rejected : a.st = "candidate"
    PROVE  WellVersioned(Promoted(A, mine, rejected))
  <1> DEFINE passing == {a \in mine : ~Conflicts(A, a)}
             replaced == {b \in A : \E a \in passing : b \in Against(A, a)
                                                       /\ b.patch.says # a.patch.says}
             accepted == {a \in passing : a.st = "candidate"} \ rejected
             A1 == Marked(A, rejected, "rejected")
             A2 == Marked(A1, replaced, "superseded")
  <1>1. Promoted(A, mine, rejected) = Marked(A2, accepted, "accepted")
    BY DEF Promoted
  <1>2. \A b \in replaced : b \in A /\ b.st = "accepted"
    BY DEF Against, AcceptedFor
  <1>3. \A a \in accepted : a \in A /\ a.st = "candidate" /\ a \notin rejected
    OBVIOUS
  <1> HIDE DEF replaced, accepted
  <1>4. replaced \subseteq A \ rejected /\ accepted \subseteq (A \ rejected) \ replaced
    BY <1>2, <1>3
  <1>5. replaced \subseteq A1 /\ accepted \subseteq A1 \ replaced
    BY <1>4 DEF Marked
  <1>6. accepted \subseteq A2
    <2> HIDE DEF A1
    <2> QED BY <1>5 DEF Marked
  <1>7. WellVersioned(A1)
    BY MarkedApart
  <1> HIDE DEF A1
  <1>8. WellVersioned(A2)
    BY <1>5, <1>7, MarkedApart
  <1> HIDE DEF A2
  <1> QED BY <1>1, <1>6, <1>8, MarkedApart

LEMMA BiggestIs ==
    ASSUME NEW S, IsFiniteSet(S), S \subseteq Nat, S # {}
    PROVE  Biggest(S) \in S /\ \A n \in S : n <= Biggest(S)
  <1> DEFINE before == [x \in S |-> {y \in S : x < y}]
  <1>1. before \in [S -> SUBSET S] /\ \A x \in S : x \notin before[x]
    OBVIOUS
  <1>2. ASSUME NEW x \in S, NEW y \in before[x], NEW z \in before[y] PROVE z \in before[x]
    <2>1. y \in S /\ z \in S /\ x < y /\ y < z
      OBVIOUS
    <2>2. x < z
      BY <2>1
    <2> QED BY <2>1, <2>2
  <1>3. PICK x \in S : before[x] = {}
    <2> HIDE DEF before
    <2> QED BY <1>1, <1>2, FirstOf
  <1>4. \A y \in S : y <= x
    BY <1>3
  <1> QED BY <1>4 DEF Biggest

LEMMA NextVersionIsNew ==
    ASSUME NEW A, WellVersioned(A), NEW key
    PROVE  /\ NextVersion(A, key) \in Nat
           /\ \A a \in A : a.patch.key = key => a.ver < NextVersion(A, key)
  <1> DEFINE B == {b \in A : b.patch.key = key}
             V == {a.ver : a \in B}
             f == [a \in B |-> a.ver]
  <1>1. IsFiniteSet(V)
    <2>1. f \in Surjection(B, V)
      BY DEF Surjection
    <2>2. IsFiniteSet(B)
      BY FS_Subset DEF WellVersioned
    <2> HIDE DEF f, B, V
    <2> QED BY <2>1, <2>2, FS_Surjection
  <1>2. V \subseteq Nat
    BY DEF WellVersioned, AtomRow
  <1>3. \A a \in A : a.patch.key = key => a.ver \in V
    OBVIOUS
  <1>4. NextVersion(A, key) = Biggest({0} \cup V) + 1
    BY DEF NextVersion
  <1> HIDE DEF V
  <1>5. IsFiniteSet({0} \cup V) /\ {0} \cup V \subseteq Nat
    BY <1>1, <1>2, FS_AddElement
  <1>6. Biggest({0} \cup V) \in Nat /\ \A v \in V : v <= Biggest({0} \cup V)
    BY <1>5, BiggestIs
  <1>7. NextVersion(A, key) \in Nat /\ \A v \in V : v < NextVersion(A, key)
    BY <1>2, <1>4, <1>6
  <1> QED BY <1>3, <1>7

\* Of an extraction's patches for one key the later one has the higher version.
LEMMA CapturedApart ==
    ASSUME NEW A, WellVersioned(A), NEW ch \in Nat, NEW patches \in PatchLists
    PROVE  WellVersioned(WithPatches(A, ch, patches))
  <1>1. /\ DOMAIN patches \subseteq Nat /\ IsFiniteSet(DOMAIN patches)
        /\ \A i \in DOMAIN patches : patches[i] \in Patches
    <2>1. PICK m \in 0..MaxPatches : patches \in [1..m -> Patches]
      BY DEF PatchLists, SeqOf
    <2>2. m \in Int /\ DOMAIN patches = 1..m
      BY <2>1
    <2> QED BY <2>1, <2>2, FS_Interval
  <1> DEFINE I == FirstRecorded(A, patches)
             earlier(i) == {j \in I : j < i /\ patches[j].key = patches[i].key}
             new == [i \in I |-> Recorded(A, ch, patches, i)]
  <1>2. I \subseteq DOMAIN patches /\ IsFiniteSet(I) /\ I \subseteq Nat
    <2>1. I \in SUBSET DOMAIN patches
      BY DEF FirstRecorded
    <2> HIDE DEF I
    <2> QED BY <1>1, <2>1, FS_Subset
  <1> HIDE DEF I
  <1>3. \A i \in I : IsFiniteSet(earlier(i)) /\ Cardinality(earlier(i)) \in Nat
    BY <1>2, FS_Subset, FS_CardinalityType
  <1>4. \A i \in I : new[i] = [patch |-> patches[i],
                               ver |-> NextVersion(A, patches[i].key) + Cardinality(earlier(i)),
                               ch |-> ch, st |-> "candidate", recalled |-> 0]
    BY DEF Recorded, I
  <1>5. WithPatches(A, ch, patches) = A \cup {new[i] : i \in I}
    BY DEF WithPatches, I
  <1> HIDE DEF new
  <1>6. \A i \in I : /\ AtomRow(new[i]) /\ new[i].patch = patches[i]
                     /\ new[i].ver = NextVersion(A, patches[i].key) + Cardinality(earlier(i))
                     /\ \A a \in A : a.patch.key = patches[i].key => a.ver < new[i].ver
    <2> SUFFICES ASSUME NEW i \in I
                 PROVE  /\ AtomRow(new[i]) /\ new[i].patch = patches[i]
                        /\ new[i].ver = NextVersion(A, patches[i].key) + Cardinality(earlier(i))
                        /\ \A a \in A : a.patch.key = patches[i].key => a.ver < new[i].ver
      OBVIOUS
    <2>1. PICK v : v = NextVersion(A, patches[i].key) + Cardinality(earlier(i))
      OBVIOUS
    <2>2. /\ NextVersion(A, patches[i].key) \in Nat
          /\ \A a \in A : a.patch.key = patches[i].key => a.ver < NextVersion(A, patches[i].key)
      BY NextVersionIsNew
    <2>3. Cardinality(earlier(i)) \in Nat
      BY <1>3
    <2> HIDE DEF earlier
    <2>4. v \in Nat /\ NextVersion(A, patches[i].key) <= v
      BY <2>1, <2>2, <2>3
    <2>5. new[i] = [patch |-> patches[i], ver |-> v, ch |-> ch, st |-> "candidate", recalled |-> 0]
      BY <1>4, <2>1
    <2>6. AtomRow(new[i]) /\ new[i].patch = patches[i] /\ new[i].ver = v
      BY <1>1, <1>2, <2>4, <2>5 DEF AtomRow, IsAtom
    <2>7. \A a \in A : a.patch.key = patches[i].key => a.ver < v
      <3> SUFFICES ASSUME NEW a \in A, a.patch.key = patches[i].key PROVE a.ver < v
        OBVIOUS
      <3>1. a.ver \in Nat /\ a.ver < NextVersion(A, patches[i].key)
        BY <2>2 DEF WellVersioned, AtomRow
      <3> QED BY <3>1, <2>2, <2>4
    <2> QED BY <2>1, <2>6, <2>7
  <1>7. ASSUME NEW i \in I, NEW j \in I, i < j, patches[i].key = patches[j].key
        PROVE  new[i].ver < new[j].ver
    <2>1. earlier(i) \in SUBSET earlier(j) /\ i \in earlier(j) /\ i \notin earlier(i)
      BY <1>2, <1>7
    <2>2. /\ IsFiniteSet(earlier(j)) /\ Cardinality(earlier(i)) \in Nat
          /\ Cardinality(earlier(j)) \in Nat
      BY <1>3
    <2>3. NextVersion(A, patches[i].key) \in Nat
      BY NextVersionIsNew
    <2>4. /\ new[i].ver = NextVersion(A, patches[i].key) + Cardinality(earlier(i))
          /\ new[j].ver = NextVersion(A, patches[i].key) + Cardinality(earlier(j))
      BY <1>6, <1>7
    <2> HIDE DEF earlier
    <2>5. Cardinality(earlier(i)) <= Cardinality(earlier(j))
          /\ Cardinality(earlier(i)) # Cardinality(earlier(j))
      BY <2>1, <2>2, FS_Subset
    <2> QED BY <2>2, <2>3, <2>4, <2>5
  <1> DEFINE N == {new[i] : i \in I}
  <1>8. IsFiniteSet(N)
    <2> DEFINE f == [i \in I |-> new[i]]
    <2>1. f \in Surjection(I, N)
      BY DEF Surjection
    <2> HIDE DEF f, N
    <2> QED BY <1>2, <2>1, FS_Surjection
  <1>9. Apart(A \cup N)
    <2> SUFFICES ASSUME NEW a \in A \cup N, NEW b \in A \cup N, a.patch.key = b.patch.key,
                        a.ver = b.ver
                 PROVE  a = b
      BY DEF Apart
    <2>1. CASE a \in A /\ b \in A
      BY <2>1 DEF WellVersioned, Apart
    <2>2. CASE a \in A /\ b \in N
      <3>1. PICK i \in I : b = new[i]
        BY <2>2
      <3>2. a.ver < b.ver /\ a.ver \in Nat /\ b.ver \in Nat
        BY <1>6, <2>2, <3>1 DEF WellVersioned, AtomRow
      <3> QED BY <3>2
    <2>3. CASE a \in N /\ b \in A
      <3>1. PICK i \in I : a = new[i]
        BY <2>3
      <3>2. b.ver < a.ver /\ a.ver \in Nat /\ b.ver \in Nat
        BY <1>6, <2>3, <3>1 DEF WellVersioned, AtomRow
      <3> QED BY <3>2
    <2>4. CASE a \in N /\ b \in N
      <3>1. PICK i \in I, j \in I : a = new[i] /\ b = new[j]
        BY <2>4
      <3>2. patches[i].key = patches[j].key /\ new[i].ver \in Nat /\ new[j].ver \in Nat
        BY <1>6, <3>1 DEF AtomRow
      <3>3. ~(i < j) /\ ~(j < i)
        BY <1>7, <3>1, <3>2
      <3>4. i = j
        BY <1>2, <3>3
      <3> QED BY <3>1, <3>4
    <2> QED BY <2>1, <2>2, <2>3, <2>4
  <1>10. \A a \in A \cup N : AtomRow(a)
    BY <1>6 DEF WellVersioned
  <1>11. IsFiniteSet(A \cup N)
    <2> HIDE DEF N
    <2> QED BY <1>8, FS_Union DEF WellVersioned
  <1> QED BY <1>5, <1>9, <1>10, <1>11 DEF WellVersioned

\* The chapter a session is about is a number.
LEMMA SessionChapter == CanonInv => \A e \in MemSessions : memSession[e].ch \in Nat
  BY CanonAssumption DEF CanonInv, CanonTypes, SessionRows

LEMMA HoldApart ==
    ASSUME CanonInv, AtomsApart, NEW e \in MemSessions, NEW patches \in PatchLists, NEW hard,
           HoldForReview(e, patches, hard)
    PROVE  AtomsApart'
  <1>1. atoms' = WithPatches(atoms, memSession[e].ch, patches)
    BY DEF HoldForReview, Captured
  <1>2. WellVersioned(WithPatches(atoms, memSession[e].ch, patches))
    BY SessionChapter, CapturedApart DEF AtomsApart
  <1>3. PICK A : A = WithPatches(atoms, memSession[e].ch, patches)
    OBVIOUS
  <1>4. WellVersioned(A) /\ atoms' = A
    BY <1>1, <1>2, <1>3
  <1> QED BY <1>4 DEF AtomsApart, WellVersioned, Apart

LEMMA PublishApart ==
    ASSUME CanonInv, AtomsApart, NEW e \in MemSessions, NEW patches \in PatchLists, NEW hard,
           Publish(e, patches, hard)
    PROVE  AtomsApart'
  <1> DEFINE c == memSession[e].ch
             A == Captured(e, patches)
             mine == Mine(A, patches)
             candidates == {a \in mine : a.st = "candidate"}
             rejected == IF hard THEN candidates ELSE {a \in candidates : Conflicts(A, a)}
             after == Promoted(A, mine, rejected)
  <1>1. atoms' = Swept(after, c)
    BY DEF Publish
  <1>2. WellVersioned(A)
    BY SessionChapter, CapturedApart DEF AtomsApart, Captured
  <1>3. mine \in SUBSET A
    BY DEF Mine
  <1>4. rejected \in SUBSET mine /\ \A a \in rejected : a.st = "candidate"
    OBVIOUS
  <1> HIDE DEF A, mine, rejected
  <1>5. WellVersioned(after)
    BY <1>2, <1>3, <1>4, PromotedApart
  <1> HIDE DEF after
  <1>6. WellVersioned(Swept(after, c))
    BY <1>5, MarkedApart DEF Swept
  <1>7. PICK B : B = Swept(after, c)
    OBVIOUS
  <1>8. WellVersioned(B) /\ atoms' = B
    BY <1>1, <1>6, <1>7
  <1> QED BY <1>8 DEF AtomsApart, WellVersioned, Apart

LEMMA RecallApart ==
    ASSUME AtomsApart, NEW n \in Chapters, RecallAt(n)
    PROVE  AtomsApart'
  <1> DEFINE f == [a \in atoms |-> IF a \in Pool(n) THEN [a EXCEPT !.recalled = n] ELSE a]
  <1>1. \A a \in atoms : AtomRow(f[a]) /\ f[a].patch = a.patch /\ f[a].ver = a.ver
    <2> SUFFICES ASSUME NEW a \in atoms
                 PROVE  AtomRow(f[a]) /\ f[a].patch = a.patch /\ f[a].ver = a.ver
      OBVIOUS
    <2>1. AtomRow(a)
      BY DEF AtomsApart, WellVersioned
    <2>2. CASE a \in Pool(n)
      <3>1. PICK b : b = [a EXCEPT !.recalled = n]
        OBVIOUS
      <3>2. IsAtom(b) /\ b.patch = a.patch /\ b.ch = a.ch /\ b.ver = a.ver
        BY <2>1, <3>1, AtomFields, AtomVersion DEF AtomRow
      <3>3. f[a] = b
        BY <2>2, <3>1
      <3> HIDE DEF f
      <3> QED BY <2>1, <3>2, <3>3 DEF AtomRow
    <2>3. CASE a \notin Pool(n)
      BY <2>1, <2>3
    <2> QED BY <2>2, <2>3
  <1>2. Pool(n) \subseteq atoms
    BY DEF Pool
  <1>3. atoms' = {f[a] : a \in atoms}
    BY <1>2 DEF RecallAt
  <1>4. PICK B : B = {f[a] : a \in atoms}
    OBVIOUS
  <1> HIDE DEF f
  <1>5. WellVersioned({f[a] : a \in atoms})
    BY <1>1, RewrittenApart DEF AtomsApart
  <1>6. WellVersioned(B) /\ atoms' = B
    BY <1>3, <1>4, <1>5
  <1> QED BY <1>6 DEF AtomsApart, WellVersioned, Apart

LEMMA DecideApart ==
    ASSUME AtomsApart, NEW a \in atoms, NEW status, DecideAtom(a, status)
    PROVE  AtomsApart'
  <1>1. atoms' = Marked(atoms, {a}, status)
    BY DEF DecideAtom
  <1>2. WellVersioned(Marked(atoms, {a}, status))
    BY MarkedApart DEF AtomsApart
  <1>3. PICK B : B = Marked(atoms, {a}, status)
    OBVIOUS
  <1>4. WellVersioned(B) /\ atoms' = B
    BY <1>1, <1>2, <1>3
  <1> QED BY <1>4 DEF AtomsApart, WellVersioned, Apart

LEMMA DeleteApart ==
    ASSUME AtomsApart, NEW c, DeleteLast(c)
    PROVE  AtomsApart'
  <1>1. PICK B \in SUBSET atoms : atoms' = B
    BY DEF DeleteLast
  <1>2. WellVersioned(B)
    BY FewerApart DEF AtomsApart
  <1> QED BY <1>1, <1>2 DEF AtomsApart, WellVersioned, Apart

LEMMA ApartStep == CanonInv /\ AtomsApart /\ [CanonNext]_canonVars => AtomsApart'
  <1> SUFFICES ASSUME CanonInv, AtomsApart, [CanonNext]_canonVars PROVE AtomsApart'
    OBVIOUS
  <1>1. CASE UNCHANGED atoms
    BY <1>1 DEF AtomsApart, WellVersioned, Apart
  <1>2. CASE WriteNext
    BY <1>1, <1>2 DEF WriteNext
  <1>3. ASSUME NEW c \in Chapters, PublishReviewed(c) PROVE AtomsApart'
    BY <1>1, <1>3 DEF PublishReviewed
  <1>4. ASSUME NEW c \in Chapters, DeleteLast(c) PROVE AtomsApart'
    BY <1>4, DeleteApart
  <1>5. ASSUME NEW c \in Chapters, CancelExtraction(c) PROVE AtomsApart'
    BY <1>1, <1>5 DEF CancelExtraction
  <1>6. ASSUME NEW c \in Chapters, RecallAt(c) PROVE AtomsApart'
    BY <1>6, RecallApart
  <1>7. ASSUME NEW c \in Chapters, NEW e \in MemSessions,
               NEW via \in {"job", "review", "command"}, OpenSession(e, c, via)
        PROVE  AtomsApart'
    BY <1>1, <1>7 DEF OpenSession
  <1>8. ASSUME NEW e \in MemSessions, AbortSession(e) PROVE AtomsApart'
    BY <1>1, <1>8 DEF AbortSession
  <1>9. ASSUME NEW e \in MemSessions, NEW status \in {"written", "extracting"},
               WriteCommand(e, status)
        PROVE  AtomsApart'
    BY <1>1, <1>9 DEF WriteCommand
  <1>10. ASSUME NEW e \in MemSessions, NEW patches \in PatchLists, NEW hard \in BOOLEAN,
                HoldForReview(e, patches, hard) \/ Publish(e, patches, hard)
         PROVE  AtomsApart'
    BY <1>10, HoldApart, PublishApart
  <1>11. ASSUME NEW a \in atoms, NEW status \in {"accepted", "rejected", "superseded"},
                DecideAtom(a, status)
         PROVE  AtomsApart'
    BY <1>11, DecideApart
  <1>12. CASE UNCHANGED canonVars
    BY <1>1, <1>12 DEF canonVars
  <1> QED
    BY <1>2, <1>3, <1>4, <1>5, <1>6, <1>7, <1>8, <1>9, <1>10, <1>11, <1>12 DEF CanonNext

LEMMA ApartInitially == CanonInit => AtomsApart
  BY FS_EmptySet DEF CanonInit, AtomsApart, WellVersioned, Apart

\* However many atoms there are, of however many keys, whatever the query scores
\* and the budget is: a fact a recall shows is the newest accepted one of its key,
\* each key is shown once, never more of them than the budget, and none that was
\* read goes without while there is room (recall_novel_memory,
\* latest_atoms_by_key).
THEOREM RecallIsCurrent == CanonSpec => []RecallShowsNewest
  BY CanonInitially, CanonStep, ApartInitially, ApartStep, ApartShowsNewest, PTL DEF CanonSpec

-----------------------------------------------------------------------------
(* ManuscriptSuffix: characters and their places.                          *)

LEMMA ImageFinite ==
    ASSUME NEW S, IsFiniteSet(S), NEW f, DOMAIN f = S, NEW T, T = {f[x] : x \in S}
    PROVE  IsFiniteSet(T) /\ Cardinality(T) <= Cardinality(S)
  <1> DEFINE g == [x \in S |-> f[x]]
  <1>1. g \in Surjection(S, T)
    BY DEF Surjection
  <1> HIDE DEF g
  <1> QED BY <1>1, FS_Surjection

LEMMA UnionFinite ==
    ASSUME NEW S, IsFiniteSet(S), NEW f, DOMAIN f = S, \A x \in S : IsFiniteSet(f[x])
    PROVE  IsFiniteSet(UNION {f[x] : x \in S})
  <1>1. IsFiniteSet({f[x] : x \in S})
    BY ImageFinite
  <1>2. \A T \in {f[x] : x \in S} : IsFiniteSet(T)
    OBVIOUS
  <1> QED BY <1>1, <1>2, FS_UNION

LEMMA RunFinite ==
    ASSUME NEW k, NEW part, NEW e, NEW n \in Nat
    PROVE  IsFiniteSet(Run(k, part, e, n))
  <1> DEFINE f == [i \in 1..n |-> <<k, part, i, e>>]
  <1>1. IsFiniteSet(1..n)
    BY FS_Interval
  <1>2. Run(k, part, e, n) = {f[i] : i \in 1..n}
    BY DEF Run
  <1>3. DOMAIN f = 1..n
    OBVIOUS
  <1> HIDE DEF f
  <1> QED BY <1>1, <1>2, <1>3, ImageFinite

LEMMA UnionBound ==
    ASSUME NEW S, NEW T, NEW U, IsFiniteSet(S), IsFiniteSet(T), U \subseteq S \cup T
    PROVE  /\ IsFiniteSet(U) /\ Cardinality(U) \in Nat
           /\ Cardinality(S) \in Nat /\ Cardinality(T) \in Nat
           /\ Cardinality(U) <= Cardinality(S) + Cardinality(T)
  <1>1. /\ IsFiniteSet(S \cup T) /\ IsFiniteSet(S \cap T)
        /\ Cardinality(S \cup T) = Cardinality(S) + Cardinality(T) - Cardinality(S \cap T)
    BY FS_Union, FS_Intersection
  <1>2. IsFiniteSet(U) /\ Cardinality(U) <= Cardinality(S \cup T)
    BY <1>1, FS_Subset
  <1>3. /\ Cardinality(S \cap T) \in Nat /\ Cardinality(S) \in Nat /\ Cardinality(T) \in Nat
        /\ Cardinality(U) \in Nat
    BY <1>1, <1>2, FS_CardinalityType
  <1> QED BY <1>1, <1>2, <1>3

\* What is behind enough of a text says nothing about its end.
LEMMA LastOfEnough ==
    ASSUME NEW S, NEW U, IsFiniteSet(S), U \subseteq S, NEW n \in Nat, Cardinality(U) >= n,
           \A c \in S \ U, d \in U : Before(c, d) /\ ~Before(d, c)
    PROVE  LastOf(S, n) = LastOf(U, n)
  <1>1. ASSUME NEW c \in S \ U
        PROVE  c \notin LastOf(S, n) /\ c \notin LastOf(U, n)
    <2> DEFINE A == {d \in S : Before(c, d)}
    <2>1. U \subseteq A /\ A \subseteq S
      OBVIOUS
    <2>2. Cardinality(U) <= Cardinality(A) /\ Cardinality(A) \in Nat /\ Cardinality(U) \in Nat
      <3> HIDE DEF A
      <3>1. IsFiniteSet(A) /\ IsFiniteSet(U)
        BY <2>1, FS_Subset
      <3> QED BY <2>1, <3>1, FS_Subset, FS_CardinalityType
    <2>3. ~ (Cardinality(A) < n)
      BY <2>2
    <2> QED BY <2>3 DEF LastOf
  <1>2. ASSUME NEW c \in U
        PROVE  c \in LastOf(S, n) <=> c \in LastOf(U, n)
    <2>1. {d \in S : Before(c, d)} = {d \in U : Before(c, d)}
      OBVIOUS
    <2> QED BY <2>1 DEF LastOf
  <1>3. LastOf(S, n) \subseteq S /\ LastOf(U, n) \subseteq U
    BY DEF LastOf
  <1> QED BY <1>1, <1>2, <1>3

-----------------------------------------------------------------------------
(* ManuscriptSuffix: what is rendered.                                     *)

Reads == [text : SectionTexts, edition : 0..MaxTextEdits] \cup {NotHeld}

SuffixTypes ==
    /\ texts \in [SectionSet -> SectionTexts] /\ firstSeen \in [SectionSet -> SectionTexts]
    /\ edition \in [SectionSet -> 0..MaxTextEdits]
    /\ held \in [SectionSet -> Reads]

LEMMA ReadText ==
    ASSUME SuffixTypes, NEW k \in SectionSet
    PROVE  /\ InSession(k) \in Reads /\ InSession(k).text.letters \in Nat
           /\ InSession(k) # NotHeld
           /\ texts[k].odd \in Nat /\ texts[k].letters \in Nat /\ texts[k].plain \in Nat
  <1>1. texts[k] \in SectionTexts /\ edition[k] \in 0..MaxTextEdits /\ held[k] \in Reads
    BY DEF SuffixTypes
  <1>2. /\ Stored(k) \in [text : SectionTexts, edition : 0..MaxTextEdits]
        /\ Stored(k).edition = edition[k]
    BY <1>1 DEF Stored
  <1>3. Stored(k) # NotHeld
    BY <1>1, <1>2, SuffixAssumption DEF NotHeld
  <1>4. \A r \in Reads : r.text.letters \in Nat
    <2>1. NotHeld.text.letters = 0
      BY DEF NotHeld
    <2>2. ASSUME NEW r \in [text : SectionTexts, edition : 0..MaxTextEdits]
          PROVE  r.text.letters \in Nat
      <3>1. r.text \in SectionTexts
        OBVIOUS
      <3> QED BY <3>1, SuffixAssumption
    <2> QED BY <2>1, <2>2 DEF Reads
  <1>5. InSession(k) \in Reads /\ InSession(k) # NotHeld
    BY <1>1, <1>2, <1>3 DEF InSession, Reads
  <1> QED BY <1>1, <1>4, <1>5, SuffixAssumption

LEMMA RenderedFrom ==
    ASSUME SuffixTypes, NEW f \in 1..(Sections + 1)
    PROVE  /\ Rendered(f) = {c \in Rendered(1) : c[1] >= f}
           /\ \A c \in Rendered(1) : c[1] \in Shown(1)
           /\ IsFiniteSet(Rendered(1))
  <1>1. Shown(1) \subseteq SectionSet /\ Shown(f) = {k \in Shown(1) : k >= f}
    BY SuffixAssumption DEF Shown, SectionSet
  <1>2. SectionSet \subseteq Nat /\ IsFiniteSet(SectionSet)
    BY SuffixAssumption, FS_Interval DEF SectionSet
  <1> DEFINE P(k, g) == Block(k, InSession(k)) \cup GapAfter(k, Shown(g))
  <1>3. \A g, k : \A c \in P(k, g) : c[1] = k
    BY DEF Block, GapAfter, Run
  <1>4. \A k \in Shown(f) : P(k, f) = P(k, 1)
    <2> TAKE k \in Shown(f)
    <2>1. (\E j \in Shown(f) : j > k) <=> (\E j \in Shown(1) : j > k)
      <3>1. k \in Nat /\ f \in Nat /\ k >= f
        <4>1. k \in {j \in Shown(1) : j >= f}
          BY <1>1, Zenon
        <4>2. k \in Shown(1) /\ k >= f
          BY <4>1
        <4>3. k \in Nat
          BY <1>1, <1>2, <4>2, Zenon
        <4> QED BY <4>2, <4>3, SuffixAssumption
      <3>2. \A j \in Shown(1) : j > k => j \in Shown(f)
        <4> TAKE j \in Shown(1)
        <4>1. j \in Nat
          BY <1>1, <1>2
        <4>2. j > k => j >= f
          BY <3>1, <4>1
        <4> QED BY <1>1, <4>2
      <3>3. Shown(f) \subseteq Shown(1)
        BY <1>1
      <3> QED BY <3>2, <3>3
    <2>2. GapAfter(k, Shown(f)) = GapAfter(k, Shown(1))
      <3> HIDE DEF P
      <3> QED BY <2>1, Zenon DEF GapAfter
    <2> QED BY <2>2
  <1>5. \A g : Rendered(g) = UNION {P(k, g) : k \in Shown(g)}
    BY DEF Rendered
  <1>6. \A k \in Shown(1) : IsFiniteSet(P(k, 1))
    <2> TAKE k \in Shown(1)
    <2>1. InSession(k).text.letters \in Nat /\ HeaderLength \in Nat /\ 2 \in Nat
      BY <1>1, ReadText, SuffixAssumption
    <2>2. IsFiniteSet(Block(k, InSession(k)))
      BY <2>1, RunFinite, FS_Union DEF Block
    <2>3. IsFiniteSet(GapAfter(k, Shown(1)))
      BY <2>1, RunFinite, FS_EmptySet DEF GapAfter, Separator
    <2> QED BY <2>2, <2>3, FS_Union
  <1> HIDE DEF P
  <1>7. IsFiniteSet(Rendered(1))
    <2> DEFINE F == [k \in Shown(1) |-> P(k, 1)]
    <2>1. IsFiniteSet(Shown(1))
      BY <1>1, <1>2, FS_Subset
    <2>2. DOMAIN F = Shown(1) /\ \A k \in Shown(1) : F[k] = P(k, 1)
      OBVIOUS
    <2> HIDE DEF F
    <2>3. IsFiniteSet(UNION {F[k] : k \in Shown(1)})
      BY <1>6, <2>1, <2>2, UnionFinite
    <2>4. {F[k] : k \in Shown(1)} = {P(k, 1) : k \in Shown(1)}
      BY <2>2
    <2> QED BY <1>5, <2>3, <2>4
  <1>8. Rendered(f) = {c \in Rendered(1) : c[1] >= f}
    <2>1. ASSUME NEW c \in Rendered(f)
          PROVE  c \in Rendered(1) /\ c[1] >= f
      BY <1>1, <1>3, <1>4, <1>5
    <2>2. ASSUME NEW c \in Rendered(1), c[1] >= f
          PROVE  c \in Rendered(f)
      BY <1>1, <1>3, <1>4, <1>5, <2>2
    <2> QED BY <2>1, <2>2
  <1>9. \A c \in Rendered(1) : c[1] \in Shown(1)
    BY <1>3, <1>5
  <1> QED BY <1>7, <1>8, <1>9

\* Nothing is lost at the end when the sections left out are enough without it, or
\* have nothing.
LEMMA EnoughRead ==
    ASSUME SuffixTypes, NEW f \in 1..(Sections + 1), Cardinality(Rendered(f)) >= MaxChars
    PROVE  Context(Rendered(f)).chars = Context(Rendered(1)).chars
  <1>1. /\ Rendered(f) = {c \in Rendered(1) : c[1] >= f}
        /\ \A c \in Rendered(1) : c[1] \in Nat
        /\ IsFiniteSet(Rendered(1))
    BY RenderedFrom, SuffixAssumption DEF Shown, SectionSet
  <1>2. \A c \in Rendered(1) \ Rendered(f), d \in Rendered(f) : Before(c, d) /\ ~Before(d, c)
    <2> TAKE c \in Rendered(1) \ Rendered(f), d \in Rendered(f)
    <2>1. c[1] \in Nat /\ d[1] \in Nat /\ ~ (c[1] >= f) /\ d[1] >= f /\ f \in Nat
      BY <1>1, SuffixAssumption
    <2>2. c[1] < d[1] /\ ~ (d[1] < c[1]) /\ d[1] # c[1]
      BY <2>1
    <2> QED BY <2>2 DEF Before
  <1>3. Rendered(f) \subseteq Rendered(1) /\ MaxChars \in Nat
    BY <1>1, SuffixAssumption
  <1>4. LastOf(Rendered(1), MaxChars) = LastOf(Rendered(f), MaxChars)
    BY <1>1, <1>2, <1>3, LastOfEnough
  <1> QED BY <1>4 DEF Context

LEMMA NothingLeftOut ==
    ASSUME SuffixTypes, NEW f \in 1..(Sections + 1),
           \A k \in SectionSet : k < f => ~HasText(InSession(k).text)
    PROVE  Rendered(f) = Rendered(1)
  <1>1. Shown(1) = Shown(f)
    BY SuffixAssumption DEF Shown, SectionSet
  <1> QED BY <1>1 DEF Rendered

-----------------------------------------------------------------------------
(* ManuscriptSuffix: what was estimated.                                   *)

Unedited == \A k \in SectionSet : edition[k] = 0

LEMMA OddBlanksFinite ==
    ASSUME SuffixTypes
    PROVE  IsFiniteSet(OddBlanks)
  <1> DEFINE F == [k \in SectionSet |-> {k} \X (1..texts[k].odd)]
  <1>1. \A k \in SectionSet : IsFiniteSet(F[k])
    <2> TAKE k \in SectionSet
    <2>1. texts[k].odd \in Nat
      BY ReadText
    <2>2. IsFiniteSet(1..texts[k].odd)
      BY <2>1, FS_Interval
    <2>3. IsFiniteSet({k})
      BY FS_Singleton
    <2> QED BY <2>2, <2>3, FS_Product
  <1>2. IsFiniteSet(SectionSet) /\ DOMAIN F = SectionSet
    BY FS_Interval, SuffixAssumption DEF SectionSet
  <1>3. OddBlanks = UNION {F[k] : k \in SectionSet}
    BY DEF OddBlanks
  <1> HIDE DEF F
  <1> QED BY <1>1, <1>2, <1>3, UnionFinite

\* The estimate counts what is rendered, and the other blanks.
LEMMA EstimateIsClose ==
    ASSUME SuffixTypes, NEW f \in 1..(Sections + 1),
           \A k \in SectionSet : InSession(k) = [text |-> texts[k], edition |-> 0],
           \A k \in SectionSet : HasText(texts[k]) => k \in Listed
    PROVE  /\ EstimateFrom(f) <= Cardinality(Rendered(f)) + Cardinality(OddBlanks)
           /\ EstimateFrom(f) \in Nat /\ Cardinality(Rendered(f)) \in Nat
           /\ Cardinality(OddBlanks) \in Nat
  <1> DEFINE taken == {j \in Listed : j >= f}
             part(j) == Run(j, Header, 0, HeaderLength) \cup Run(j, Letters, 0, Estimated(j))
                           \cup GapAfter(j, taken)
             Places == UNION {part(j) : j \in taken}
             F == [p \in OddBlanks |-> <<p[1], Letters, texts[p[1]].letters + p[2], 0>>]
             Extra == {F[p] : p \in OddBlanks}
  <1>1. \A k \in SectionSet :
           /\ texts[k].odd \in Nat /\ texts[k].letters \in Nat /\ texts[k].plain \in Nat
           /\ InSession(k).text = texts[k] /\ InSession(k).edition = 0
    BY ReadText
  <1>2. taken = Shown(f)
    BY <1>1 DEF Listed, Estimated, HasText, Shown
  <1>3. IsFiniteSet(Extra) /\ Cardinality(Extra) <= Cardinality(OddBlanks)
    <2>1. DOMAIN F = OddBlanks
      OBVIOUS
    <2> HIDE DEF F
    <2> QED BY <2>1, OddBlanksFinite, ImageFinite
  <1>4. EstimateFrom(f) = Cardinality(Places)
    BY DEF EstimateFrom
  <1>5. ASSUME NEW j \in taken, NEW c \in Run(j, Letters, 0, Estimated(j))
        PROVE  c \in Run(j, Letters, 0, texts[j].letters) \cup Extra
    <2>1. PICK i \in 1..Estimated(j) : c = <<j, Letters, i, 0>>
      BY DEF Run
    <2>2. j \in SectionSet
      BY DEF Listed
    <2>3. CASE i <= texts[j].letters
      <3>1. i \in 1..texts[j].letters
        BY <1>1, <2>2, <2>3
      <3> QED BY <2>1, <3>1 DEF Run
    <2>4. CASE ~ (i <= texts[j].letters)
      <3> DEFINE p == <<j, i - texts[j].letters>>
      <3>1. i - texts[j].letters \in 1..texts[j].odd
        BY <1>1, <2>2, <2>4 DEF Estimated
      <3>2. p \in OddBlanks
        BY <2>2, <3>1 DEF OddBlanks
      <3>3. texts[j].letters + (i - texts[j].letters) = i
        BY <1>1, <2>2
      <3>4. F[p] = c
        BY <2>1, <3>2, <3>3
      <3> HIDE DEF F, p
      <3> QED BY <3>2, <3>4
    <2> QED BY <2>3, <2>4
  <1>6. Places \subseteq Rendered(f) \cup Extra
    <2> SUFFICES ASSUME NEW j \in taken, NEW c \in part(j)
                 PROVE  c \in Rendered(f) \cup Extra
      BY Zenon
    <2>1. j \in SectionSet /\ j \in Shown(f)
      BY <1>2 DEF Shown
    <2>2. Block(j, InSession(j)) \cup GapAfter(j, Shown(f)) \subseteq Rendered(f)
      BY <2>1 DEF Rendered
    <2>3. Run(j, Header, 0, HeaderLength) \cup Run(j, Letters, 0, texts[j].letters)
             \subseteq Block(j, InSession(j))
      BY <1>1, <2>1 DEF Block
    <2> HIDE DEF Extra
    <2> QED BY <1>2, <1>5, <2>2, <2>3
  <1>7. IsFiniteSet(Rendered(f))
    <2>1. Rendered(f) \subseteq Rendered(1) /\ IsFiniteSet(Rendered(1))
      BY RenderedFrom
    <2> QED BY <2>1, FS_Subset
  <1>8. Cardinality(OddBlanks) \in Nat
    BY OddBlanksFinite, FS_CardinalityType
  <1> HIDE DEF Places, Extra, taken
  <1>9. /\ Cardinality(Places) <= Cardinality(Rendered(f)) + Cardinality(Extra)
        /\ Cardinality(Places) \in Nat /\ Cardinality(Rendered(f)) \in Nat
        /\ Cardinality(Extra) \in Nat
    BY <1>3, <1>6, <1>7, UnionBound
  <1> QED BY <1>3, <1>4, <1>8, <1>9

-----------------------------------------------------------------------------
(* ManuscriptSuffix: the inductive invariant.                              *)

NothingBefore(f) == \A k \in SectionSet : k < f => firstSeen[k].odd + firstSeen[k].letters = 0

SuffixInv ==
    /\ SuffixTypes
    /\ asking \in {"idle", "previous", "lengths", "short", "done"}
    /\ tail # Context({}) => asking = "done"
    /\ Unedited => texts = firstSeen /\ \A k \in SectionSet : held[k] \in {NotHeld, Stored(k)}
    /\ asking = "lengths" =>
          /\ from.section \in SectionSet
          /\ ~from.enough => NothingBefore(from.section)
          /\ Unedited /\ from.enough => EstimateFrom(from.section) >= MaxChars + Slack
    /\ SuffixIsEnough

LEMMA SuffixStarts == SuffixInit => SuffixInv
  <1> SUFFICES ASSUME SuffixInit PROVE SuffixInv
    OBVIOUS
  <1>1. SuffixTypes
    BY SuffixAssumption DEF SuffixInit, SuffixTypes, Reads
  <1> QED BY <1>1 DEF SuffixInit, SuffixInv, SuffixIsEnough

\* Sections that the lengths left out hold nothing, in a context that counts.
LEMMA LeftOutIsEmpty ==
    ASSUME SuffixTypes, ~Unlisted, NEW k \in SectionSet,
           firstSeen[k].odd + firstSeen[k].letters = 0
    PROVE  ~HasText(InSession(k).text)
  BY DEF Unlisted

LEMMA SuffixEditKeeps ==
    ASSUME SuffixInv, NEW k \in SectionSet, EditText(k)
    PROVE  SuffixInv'
  <1>1. /\ asking \notin {"idle", "done"} /\ edition[k] < MaxTextEdits
        /\ edition' = [edition EXCEPT ![k] = @ + 1]
        /\ UNCHANGED <<asking, held, from, tail, firstSeen>>
    BY DEF EditText
  <1>2. PICK t \in SectionTexts : texts' = [texts EXCEPT ![k] = t]
    BY DEF EditText
  <1>3. edition[k] \in 0..MaxTextEdits /\ edition \in [SectionSet -> 0..MaxTextEdits]
    BY DEF SuffixInv, SuffixTypes
  <1>4. edition' \in [SectionSet -> 0..MaxTextEdits] /\ edition'[k] # 0
    BY <1>1, <1>3, SuffixAssumption
  <1>5. SuffixTypes'
    BY <1>1, <1>2, <1>4 DEF SuffixInv, SuffixTypes, Reads, NotHeld, SectionSet
  <1>6. ~Unedited'
    BY <1>4 DEF Unedited, SectionSet
  <1>7. NothingBefore(from.section)' <=> NothingBefore(from.section)
    BY <1>1 DEF NothingBefore, SectionSet
  <1> QED BY <1>1, <1>5, <1>6, <1>7 DEF SuffixInv, SuffixIsEnough, Context, LastOf, Before, SectionSet

LEMMA PreviousKeeps ==
    ASSUME SuffixInv, ReadPrevious
    PROVE  SuffixInv'
  <1>1. /\ asking' = "previous" /\ asking = "idle"
        /\ held' = [held EXCEPT ![Sections] = Stored(Sections)]
        /\ UNCHANGED <<texts, edition, from, tail, firstSeen>>
    BY DEF ReadPrevious
  <1>2. Sections \in SectionSet
    BY SuffixAssumption DEF SectionSet
  <1>3. Stored(Sections) \in Reads
    BY <1>2 DEF Stored, Reads, SuffixInv, SuffixTypes
  <1>4. SuffixTypes'
    BY <1>1, <1>3 DEF SuffixInv, SuffixTypes, Reads, NotHeld, SectionSet
  <1>5. \A k \in SectionSet : Stored(k)' = Stored(k)
    BY <1>1 DEF Stored
  <1>6. Unedited' => Unedited
    BY <1>1 DEF Unedited, SectionSet
  <1>7. Unedited => \A k \in SectionSet : held'[k] \in {NotHeld, Stored(k)}
    BY <1>1, <1>2 DEF SuffixInv, SuffixTypes
  <1>8. tail' = tail /\ tail = Context({}) /\ Context({})' = Context({})
    BY <1>1 DEF SuffixInv, Context, LastOf, Before
  <1> QED BY <1>1, <1>4, <1>5, <1>6, <1>7, <1>8 DEF SuffixInv, SuffixIsEnough, SectionSet, NotHeld

\* What the choice of the start says of the sections before it.
LEMMA StartIsChosen ==
    ASSUME SuffixTypes, Listed # {}
    PROVE  /\ PickStart.section \in SectionSet
           /\ ~PickStart.enough => \A k \in Listed : PickStart.section <= k
           /\ PickStart.enough => EstimateFrom(PickStart.section) >= MaxChars + Slack
  <1> DEFINE enough == {k \in Listed : EstimateFrom(k) >= MaxChars + Slack}
  <1>1. Listed \subseteq 1..Sections /\ enough \subseteq Listed
    BY DEF Listed, SectionSet
  <1>2. Listed \subseteq Nat /\ Sections \in Nat /\ \A k \in Listed : k <= Sections
    BY <1>1, SuffixAssumption
  <1>3. CASE enough # {}
    <2> DEFINE g == CHOOSE k \in enough : \A j \in enough : j <= k
    <2>1. \E k \in enough : \A j \in enough : j <= k
      <3> HIDE DEF enough
      <3> QED BY <1>1, <1>2, <1>3, GreatestOf
    <2>2. g \in enough
      BY <2>1
    <2>3. PickStart = [section |-> g, enough |-> TRUE]
      BY <1>3 DEF PickStart
    <2>4. PickStart.section = g /\ PickStart.enough = TRUE
      <3> HIDE DEF g
      <3> QED BY <2>3
    <2>5. g \in Listed /\ EstimateFrom(g) >= MaxChars + Slack
      <3> HIDE DEF g
      <3> QED BY <2>2
    <2> HIDE DEF g
    <2> QED BY <1>1, <2>4, <2>5 DEF SectionSet
  <1>4. CASE enough = {}
    <2> DEFINE l == CHOOSE k \in Listed : \A j \in Listed : k <= j
    <2>1. \E k \in Listed : \A j \in Listed : k <= j
      BY <1>2, LeastOf
    <2>2. l \in Listed /\ \A j \in Listed : l <= j
      BY <2>1
    <2>3. PickStart = [section |-> l, enough |-> FALSE]
      BY <1>4 DEF PickStart
    <2>4. PickStart.section = l /\ PickStart.enough = FALSE
      <3> HIDE DEF l
      <3> QED BY <2>3
    <2> HIDE DEF l, enough
    <2> QED BY <1>1, <2>2, <2>4 DEF SectionSet
  <1> QED BY <1>3, <1>4

\* Nothing is listed: nothing is rendered either.
LEMMA NothingRendered ==
    ASSUME \A k \in SectionSet : ~HasText(InSession(k).text)
    PROVE  Rendered(1) = {}
  <1>1. Shown(1) = {}
    BY DEF Shown
  <1> QED BY <1>1 DEF Rendered

LEMMA LengthsKeeps ==
    ASSUME SuffixInv, ReadLengths
    PROVE  SuffixInv'
  <1>1. /\ asking = "previous" /\ firstSeen' = texts
        /\ UNCHANGED <<texts, edition, held, tail>>
    BY DEF ReadLengths
  <1>2. SuffixTypes'
    BY <1>1 DEF SuffixInv, SuffixTypes, Reads, NotHeld, SectionSet
  <1>3. SuffixTypes /\ tail = Context({})
    BY <1>1 DEF SuffixInv
  <1>4. /\ \A k \in SectionSet : Stored(k)' = Stored(k) /\ InSession(k)' = InSession(k)
        /\ SectionSet' = SectionSet /\ Context({})' = Context({}) /\ NotHeld' = NotHeld
    BY <1>1 DEF Stored, InSession, NotHeld, SectionSet, Context, LastOf, Before
  <1>5. Unedited' => Unedited
    BY <1>1, <1>4 DEF Unedited
  <1>6. Unedited' => texts' = firstSeen' /\ \A k \in SectionSet : held'[k] \in {NotHeld, Stored(k)}
    BY <1>1, <1>5 DEF SuffixInv
  <1>7. Listed = {k \in SectionSet : texts[k].odd + texts[k].letters > 0}
    BY DEF Listed, Estimated
  <1>8. CASE Listed = {}
    <2>1. asking' = "done"
      BY <1>8 DEF ReadLengths
    <2>2. \A k \in SectionSet : firstSeen'[k].odd + firstSeen'[k].letters = 0
      <3> TAKE k \in SectionSet
      <3>1. texts[k].odd \in Nat /\ texts[k].letters \in Nat
        BY <1>3, ReadText
      <3> QED BY <1>1, <1>7, <1>8, <3>1
    <2>3. ~Unlisted' => \A k \in SectionSet : ~HasText(InSession(k)'.text)
      BY <1>4, <2>2 DEF Unlisted, HasText
    <2>4. ~Unlisted' => Rendered(1)' = {}
      BY <1>4, <2>3 DEF Rendered, Shown, HasText
    <2>5. ~Unlisted' => tail' = Whole'
      BY <1>1, <1>3, <1>4, <2>4 DEF Whole, Context, LastOf, Before
    <2>6. SuffixIsEnough'
      BY <2>5 DEF SuffixIsEnough
    <2> QED BY <1>2, <1>4, <1>6, <2>1, <2>6 DEF SuffixInv
  <1>9. CASE Listed # {}
    <2>1. asking' = "lengths" /\ from' = PickStart
      BY <1>9 DEF ReadLengths
    <2>2. /\ PickStart.section \in SectionSet
          /\ ~PickStart.enough => \A k \in Listed : PickStart.section <= k
          /\ PickStart.enough => EstimateFrom(PickStart.section) >= MaxChars + Slack
      BY <1>3, <1>9, StartIsChosen
    <2>3. ~from'.enough => NothingBefore(from.section)'
      <3> SUFFICES ASSUME ~PickStart.enough, NEW k \in SectionSet, k < PickStart.section
                   PROVE  texts[k].odd + texts[k].letters = 0
        BY <1>1, <1>4, <2>1 DEF NothingBefore
      <3>1. k \notin Listed
        BY <2>2, SuffixAssumption DEF SectionSet
      <3>2. texts[k].odd \in Nat /\ texts[k].letters \in Nat
        BY <1>3, ReadText
      <3> QED BY <1>7, <3>1, <3>2
    <2>4. EstimateFrom(from.section)' = EstimateFrom(PickStart.section)
      BY <1>1, <2>1 DEF EstimateFrom, Listed, Estimated, Run, GapAfter, SectionSet
    <2>5. tail' = tail /\ SuffixIsEnough'
      BY <1>1, <2>1 DEF SuffixIsEnough
    <2> QED BY <1>2, <1>3, <1>4, <1>6, <2>1, <2>2, <2>3, <2>4, <2>5 DEF SuffixInv
  <1> QED BY <1>8, <1>9


\* A read leaves what the session gives as it is.
LEMMA SessionKeeps ==
    ASSUME SuffixInv, UNCHANGED <<texts, edition, firstSeen>>,
           held' \in [SectionSet -> Reads],
           \A k \in SectionSet : held'[k] \in {held[k], InSession(k)}
    PROVE  /\ \A k \in SectionSet : InSession(k)' = InSession(k)
           /\ Rendered(1)' = Rendered(1) /\ Unlisted' = Unlisted
           /\ SuffixTypes'
           /\ Unedited' => Unedited /\ texts' = firstSeen'
           /\ Unedited' => \A k \in SectionSet : held'[k] \in {NotHeld, Stored(k)'}
  <1>1. \A k \in SectionSet : InSession(k) # NotHeld
    BY ReadText DEF SuffixInv
  <1>2. /\ \A k \in SectionSet : Stored(k)' = Stored(k)
        /\ NotHeld' = NotHeld /\ SectionSet' = SectionSet
    BY DEF Stored, NotHeld, SectionSet
  <1>3. \A k \in SectionSet : InSession(k)' = InSession(k)
    BY <1>1, <1>2 DEF InSession
  <1>4. Rendered(1)' = Rendered(1)
    <2>1. Shown(1)' = Shown(1)
      BY <1>2, <1>3 DEF Shown, HasText
    <2>2. Shown(1) \subseteq SectionSet
      BY DEF Shown
    <2> QED BY <1>2, <1>3, <2>1, <2>2 DEF Rendered, Block, GapAfter, Run
  <1>5. Unlisted' = Unlisted
    BY <1>2, <1>3, Zenon DEF Unlisted, HasText
  <1>6. SuffixTypes'
    BY <1>2 DEF SuffixInv, SuffixTypes, Reads
  <1>7. Unedited' => Unedited /\ texts' = firstSeen'
    BY <1>2 DEF SuffixInv, Unedited
  <1>8. Unedited => \A k \in SectionSet : held'[k] \in {NotHeld, Stored(k)}
    BY DEF SuffixInv, InSession
  <1> QED BY <1>2, <1>3, <1>4, <1>5, <1>6, <1>7, <1>8

\* The mark, when all is as the lengths saw it.
LEMMA MarkAgrees ==
    ASSUME SuffixInv, asking = "lengths", ~Unlisted, Unedited, from.enough,
           Cardinality(OddBlanks) < Slack
    PROVE  Context(Rendered(from.section)).cut = Context(Rendered(1)).cut
  <1>1. SuffixTypes /\ from.section \in SectionSet /\ texts = firstSeen
    BY DEF SuffixInv
  <1>2. EstimateFrom(from.section) >= MaxChars + Slack
    BY DEF SuffixInv
  <1>3. from.section \in 1..(Sections + 1)
    BY <1>1, SuffixAssumption DEF SectionSet
  <1>4. \A k \in SectionSet : Stored(k) = [text |-> texts[k], edition |-> 0]
    BY DEF Stored, Unedited
  <1>5. \A k \in SectionSet : InSession(k) = [text |-> texts[k], edition |-> 0]
    BY <1>4 DEF InSession, SuffixInv
  <1>6. ASSUME NEW k \in SectionSet, HasText(texts[k])
        PROVE  k \in Listed
    <2>1. InSession(k).text = texts[k]
      BY <1>5
    <2>2. firstSeen[k].odd + firstSeen[k].letters # 0
      BY <1>6, <2>1 DEF Unlisted
    <2>3. texts[k].odd \in Nat /\ texts[k].letters \in Nat
      BY <1>1, ReadText
    <2> QED BY <1>1, <2>2, <2>3 DEF Listed, Estimated
  <1>7. /\ EstimateFrom(from.section) <= Cardinality(Rendered(from.section)) + Cardinality(OddBlanks)
        /\ EstimateFrom(from.section) \in Nat /\ Cardinality(Rendered(from.section)) \in Nat
        /\ Cardinality(OddBlanks) \in Nat
    BY <1>1, <1>3, <1>5, <1>6, EstimateIsClose
  <1>8. Cardinality(Rendered(from.section)) > MaxChars
    BY <1>2, <1>7, SuffixAssumption
  <1>9. Cardinality(Rendered(from.section)) <= Cardinality(Rendered(1)) /\ Cardinality(Rendered(1)) \in Nat
    <2>1. Rendered(from.section) \subseteq Rendered(1) /\ IsFiniteSet(Rendered(1))
      BY <1>1, <1>3, RenderedFrom
    <2> QED BY <2>1, FS_Subset, FS_CardinalityType
  <1>10. Cardinality(Rendered(1)) > MaxChars
    BY <1>7, <1>8, <1>9, SuffixAssumption
  <1> QED BY <1>8, <1>10 DEF Context

LEMMA TextsKeeps ==
    ASSUME SuffixInv, ReadTexts
    PROVE  SuffixInv'
  <1> DEFINE f == from.section
  <1>1. /\ asking = "lengths" /\ UNCHANGED <<texts, edition, from, firstSeen>>
        /\ held' = [k \in SectionSet |-> IF k >= f THEN InSession(k) ELSE held[k]]
    BY DEF ReadTexts
  <1>2. SuffixTypes /\ tail \in {tail} /\ f \in SectionSet
    BY <1>1 DEF SuffixInv
  <1>3. f \in 1..(Sections + 1)
    BY <1>2, SuffixAssumption DEF SectionSet
  <1>4. \A k \in SectionSet : InSession(k) \in Reads /\ held[k] \in Reads
    BY <1>2, ReadText DEF SuffixTypes
  <1>5. held' \in [SectionSet -> Reads] /\ \A k \in SectionSet : held'[k] \in {held[k], InSession(k)}
    BY <1>1, <1>4
  <1>6. /\ Rendered(1)' = Rendered(1) /\ Unlisted' = Unlisted
        /\ SuffixTypes'
        /\ Unedited' => Unedited /\ texts' = firstSeen'
        /\ Unedited' => \A k \in SectionSet : held'[k] \in {NotHeld, Stored(k)'}
    BY <1>1, <1>5, SessionKeeps
  <1>7. CASE FallsShort(Rendered(f))
    <2>1. asking' = "short" /\ tail' = tail
      BY <1>7 DEF ReadTexts
    <2>2. tail = Context({}) /\ Context({})' = Context({})
      BY <1>1 DEF SuffixInv, Context, LastOf, Before
    <2> QED BY <1>6, <2>1, <2>2 DEF SuffixInv, SuffixIsEnough, SectionSet
  <1>8. CASE ~FallsShort(Rendered(f))
    <2>1. asking' = "done" /\ tail' = Context(Rendered(f))
      BY <1>8 DEF ReadTexts
    <2>2. Whole' = Context(Rendered(1))
      BY <1>6 DEF Whole, Context, LastOf, Before
    <2>3. /\ (\A k \in SectionSet : edition[k] = 0)' = Unedited
          /\ OddBlanks' = OddBlanks
      BY <1>1 DEF Unedited, OddBlanks, SectionSet
    <2>4. ASSUME ~Unlisted, ~from.enough
          PROVE  tail' = Whole'
      <3>1. NothingBefore(f)
        BY <1>1, <2>4 DEF SuffixInv
      <3>2. \A k \in SectionSet : k < f => ~HasText(InSession(k).text)
        BY <1>2, <2>4, <3>1, LeftOutIsEmpty DEF NothingBefore
      <3>3. Rendered(f) = Rendered(1)
        BY <1>2, <1>3, <3>2, NothingLeftOut
      <3> QED BY <2>1, <2>2, <3>3
    <2>5. ASSUME ~Unlisted, from.enough
          PROVE  tail'.chars = Whole'.chars
      <3>1. IsFiniteSet(Rendered(f))
        <4>1. Rendered(f) \subseteq Rendered(1) /\ IsFiniteSet(Rendered(1))
          BY <1>2, <1>3, RenderedFrom
        <4> QED BY <4>1, FS_Subset
      <3>2. Cardinality(Rendered(f)) \in Nat
        BY <3>1, FS_CardinalityType
      <3>3. Cardinality(Rendered(f)) >= MaxChars
        BY <1>8, <2>5, <3>2, SuffixAssumption DEF FallsShort
      <3>4. Context(Rendered(f)).chars = Context(Rendered(1)).chars
        BY <1>2, <1>3, <3>3, EnoughRead
      <3> QED BY <2>1, <2>2, <3>4
    <2>6. ASSUME ~Unlisted, from.enough, Unedited, Cardinality(OddBlanks) < Slack
          PROVE  tail'.cut = Whole'.cut
      BY <1>1, <2>1, <2>2, <2>6, MarkAgrees
    <2>7. SuffixIsEnough'
      BY <1>6, <2>3, <2>4, <2>5, <2>6 DEF SuffixIsEnough
    <2> QED BY <1>6, <2>1, <2>7 DEF SuffixInv
  <1> QED BY <1>7, <1>8

LEMMA EverythingKeeps ==
    ASSUME SuffixInv, ReadEverything
    PROVE  SuffixInv'
  <1>1. /\ asking' = "done" /\ UNCHANGED <<texts, edition, from, firstSeen>>
        /\ held' = [k \in SectionSet |-> InSession(k)] /\ tail' = Context(Rendered(1))
    BY DEF ReadEverything
  <1>2. \A k \in SectionSet : InSession(k) \in Reads
    BY ReadText DEF SuffixInv
  <1>3. held' \in [SectionSet -> Reads] /\ \A k \in SectionSet : held'[k] \in {held[k], InSession(k)}
    BY <1>1, <1>2
  <1>4. /\ Rendered(1)' = Rendered(1)
        /\ SuffixTypes'
        /\ Unedited' => Unedited /\ texts' = firstSeen'
        /\ Unedited' => \A k \in SectionSet : held'[k] \in {NotHeld, Stored(k)'}
    BY <1>1, <1>3, SessionKeeps
  <1>5. tail' = Whole'
    BY <1>1, <1>4 DEF Whole, Context, LastOf, Before
  <1>6. SuffixIsEnough'
    BY <1>5 DEF SuffixIsEnough
  <1> QED BY <1>1, <1>4, <1>6 DEF SuffixInv

LEMMA SuffixStep == SuffixInv /\ [SuffixNext]_suffixVars => SuffixInv'
  <1> SUFFICES ASSUME SuffixInv, [SuffixNext]_suffixVars
               PROVE  SuffixInv'
    OBVIOUS
  <1>1. CASE \E k \in SectionSet : EditText(k)
    BY <1>1, SuffixEditKeeps
  <1>2. CASE ReadPrevious
    BY <1>2, PreviousKeeps
  <1>3. CASE ReadLengths
    BY <1>3, LengthsKeeps
  <1>4. CASE ReadTexts
    BY <1>4, TextsKeeps
  <1>5. CASE ReadEverything
    BY <1>5, EverythingKeeps
  <1>6. CASE UNCHANGED suffixVars
    <2>1. UNCHANGED <<texts, edition, asking, held, from, tail, firstSeen>>
      BY <1>6 DEF suffixVars
    <2>2. /\ \A k \in SectionSet : held'[k] \in {held[k], InSession(k)}
          /\ held' \in [SectionSet -> Reads]
      BY <2>1 DEF SuffixInv, SuffixTypes
    <2>3. Rendered(1)' = Rendered(1) /\ Unlisted' = Unlisted
      BY <2>1, <2>2, SessionKeeps
    <2>4. SuffixIsEnough'
      <3>1. /\ Whole' = Whole /\ OddBlanks' = OddBlanks
            /\ (\A k \in SectionSet : edition[k] = 0)' = (\A k \in SectionSet : edition[k] = 0)
        BY <2>1, <2>3 DEF Whole, Context, LastOf, Before, OddBlanks, SectionSet
      <3> QED BY <2>1, <2>3, <3>1 DEF SuffixInv, SuffixIsEnough
    <2>5. /\ SuffixTypes' /\ Context({})' = Context({}) /\ Unedited' = Unedited
          /\ \A k \in SectionSet : Stored(k)' = Stored(k)
          /\ NothingBefore(from.section)' = NothingBefore(from.section)
          /\ EstimateFrom(from.section)' = EstimateFrom(from.section)
      BY <2>1 DEF SuffixInv, SuffixTypes, Reads, NotHeld, SectionSet, Context, LastOf, Before,
                  Unedited, Stored, NothingBefore, EstimateFrom, Listed, Estimated, Run, GapAfter
    <2> QED BY <2>1, <2>4, <2>5 DEF SuffixInv
  <1> QED BY <1>1, <1>2, <1>3, <1>4, <1>5, <1>6 DEF SuffixNext

\* The last chapters are enough: what is read by the lengths renders as everything
\* does, whatever is edited between the queries, in a story of any length.
THEOREM LastChaptersAreEnough == SuffixSpec => []SuffixIsEnough
  <1>1. SuffixInv => SuffixIsEnough
    BY DEF SuffixInv
  <1> QED BY <1>1, SuffixStarts, SuffixStep, PTL DEF SuffixSpec

=============================================================================
