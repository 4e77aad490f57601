---------------------------- MODULE ChapterContract ----------------------------
(***************************************************************************)
(* A chapter's outline on its way from the planner to the writer, the      *)
(* validator and the next chapter: what the story does not know yet must   *)
(* not become something a chapter has to tell.                             *)
(*                                                                         *)
(* src/services/continuity_contract.py and its rendering, the brief of     *)
(* chapter_continuity.py, and the flows that call them: generation_outline,*)
(* generation_writer_flow, generation_validation_flow, and the outline     *)
(* editor of the API. An event claims something, or asks after it; it      *)
(* conflicts with the boundary when it claims what the boundary leaves     *)
(* unknown (assertion words, a shared subject and a shared relation).      *)
(* Wording, caps of the lists, and the fields that only carry text         *)
(* (goals, beats, rules of style) are left out.                            *)
(***************************************************************************)
EXTENDS Naturals, FiniteSets

CONSTANTS
    Matters,        \* what the story may leave unknown
    MaxRounds,      \* bound: times the chapter is taken up
    MaxOutlineEdits \* bound: edits of the stored outline

ASSUME ContractAssumption ==
    /\ MaxRounds \in Nat /\ MaxOutlineEdits \in Nat
    /\ "no outline" \notin Matters

VARIABLES
    planned,    \* history: the outline the planner (or the editor) last gave
    stored,     \* chapters.outline
    work,       \* state.outline of the run, NoOutline outside one
    contracts,  \* the contract each agent was last given
    brief,      \* the writer's: key_events it sees, required_actions, unknown
    frozen,     \* the chapter is published
    takenUp, outlineEdits,
    overwritten     \* history: the outline was edited while a run had its own

contractVars == <<planned, stored, work, contracts, brief, frozen, takenUp,
                  outlineEdits, overwritten>>

Events == [claims : BOOLEAN, about : Matters]

Outlines ==
    [required : SUBSET Events, key : SUBSET Events, uncertain : SUBSET Events,
     changes : SUBSET {e \in Events : e.claims}, unknown : SUBSET Matters]

NoOutline == [required |-> {}, key |-> {}, uncertain |-> {}, changes |-> {},
              unknown |-> {"no outline"}]
NoContract == [required |-> {}, uncertain |-> {}, unknown |-> {"no contract"}]
Agents == {"planner", "writer", "validator"}

\* What a planner may come up with: its own uncertain events, or none.
Proposals == {o \in Outlines : o.uncertain \in {{}, o.key}}

ContractInit ==
    /\ planned = NoOutline /\ stored = NoOutline /\ work = NoOutline
    /\ contracts = [a \in Agents |-> NoContract]
    /\ brief = [key |-> {}, actions |-> {}, unknown |-> {}, uncertain |-> {}]
    /\ frozen = FALSE /\ takenUp = 0 /\ outlineEdits = 0 /\ overwritten = FALSE

-----------------------------------------------------------------------------
(* The contract.                                                           *)

\* _event_conflicts_with_unknown.
Presumes(event, unknown) == event.claims /\ event.about \in unknown

\* Mutant: the events of the plan are taken as they come.
NothingMoved(events, unknown) == {}

\* _safe_required_events: those that move to the uncertain ones.
Moved(events, unknown) == {e \in events : Presumes(e, unknown)}

\* _extract_event_rules: the key events of an older outline that requires none.
Demanded(o) == IF o.required # {} THEN o.required ELSE o.key

\* build_chapter_contract. The boundary of the handoff warns in general terms,
\* which no event conflicts with.
ContractOf(o) ==
    [required  |-> Demanded(o) \ Moved(Demanded(o), o.unknown),
     uncertain |-> o.uncertain \cup Moved(Demanded(o), o.unknown),
     unknown   |-> o.unknown]

\* Mutant: what has become uncertain is not kept in the outline.
SanitizedForgetting(o) ==
    LET c == ContractOf(o) IN
    IF c.uncertain = {} THEN o ELSE [o EXCEPT !.required = c.required, !.key = c.required]

\* sanitize_outline_for_contract: only when something is uncertain does the
\* outline take the lists of the contract.
Sanitized(o) ==
    LET c == ContractOf(o) IN
    IF c.uncertain = {} THEN o
    ELSE [o EXCEPT !.required = c.required, !.key = c.required, !.uncertain = c.uncertain]

\* prompt_outline_for_agent: of the events of the outline the writer sees these.
ShownToWriter(o) == Sanitized(o).key

\* writer_execution_brief: what to do and what is open, out of the contract.
BriefOf(o) ==
    LET c == ContractOf(o) IN
    [key |-> ShownToWriter(o), actions |-> c.required, unknown |-> c.unknown,
     uncertain |-> c.uncertain]

\* build_completed_event_ledger: what the next chapter's handoff calls completed,
\* as far as it comes from the outline.
Completed(o) == o.required \cup o.key \cup o.changes

-----------------------------------------------------------------------------
(* A run of the chapter.                                                   *)

NotRunning == work = NoOutline

TakeUp(o) ==
    /\ work' = Sanitized(o)
    /\ stored' = Sanitized(o)
    /\ contracts' = [contracts EXCEPT !["planner"] = ContractOf(o)]
    /\ takenUp' = takenUp + 1

\* prepare_chapter_outline with the planner's answer.
PlanOutline(o) ==
    /\ ~frozen /\ NotRunning /\ takenUp < MaxRounds /\ stored = NoOutline
    /\ TakeUp(o) /\ planned' = o
    /\ UNCHANGED <<brief, frozen, outlineEdits, overwritten>>

\* With use_existing_outline, after a pause or for another attempt.
ReuseOutline ==
    /\ ~frozen /\ NotRunning /\ takenUp < MaxRounds /\ stored # NoOutline
    /\ TakeUp(stored)
    /\ UNCHANGED <<planned, brief, frozen, outlineEdits, overwritten>>

\* load_writer_context of context_refresh and prepare_writer_pipeline_context.
WriterContext ==
    /\ ~NotRunning
    /\ contracts' = [contracts EXCEPT !["writer"] = ContractOf(work)]
    /\ brief' = BriefOf(work)
    /\ UNCHANGED <<planned, stored, work, frozen, takenUp, outlineEdits, overwritten>>

\* run_context_comprehensive_validation by the outline in memory, or by that of
\* the row as it is then (run_saved_chapter_comprehensive_validation); there
\* the contract is built twice, the second time from the sanitized outline.
Validation ==
    /\ ~NotRunning
    /\ \E o \in {work, stored} :
          contracts' = [contracts EXCEPT !["validator"] = ContractOf(Sanitized(o))]
    /\ UNCHANGED <<planned, stored, work, brief, frozen, takenUp, outlineEdits, overwritten>>

\* The run ends: paused, failed, or the chapter is published.
LeaveChapter(published) ==
    /\ ~NotRunning /\ (published => contracts["validator"] # NoContract)
    /\ work' = NoOutline /\ frozen' = published
    /\ UNCHANGED <<planned, stored, contracts, brief, takenUp, outlineEdits, overwritten>>

\* update_chapter_outline_data: whatever the user sends, unless frozen. The user
\* changes the events or the boundary.
EditOutline(o) ==
    /\ ~frozen /\ stored # NoOutline /\ outlineEdits < MaxOutlineEdits
    /\ stored' = o /\ planned' = o
    /\ outlineEdits' = outlineEdits + 1
    /\ overwritten' = (overwritten \/ ~NotRunning)
    /\ UNCHANGED <<work, contracts, brief, frozen, takenUp>>

Edited ==
    {[stored EXCEPT !.key = k] : k \in SUBSET Events}
    \cup {[stored EXCEPT !.unknown = u] : u \in SUBSET Matters}

ContractNext ==
    \/ \E o \in Proposals : PlanOutline(o)
    \/ ReuseOutline \/ WriterContext \/ Validation
    \/ \E published \in BOOLEAN : LeaveChapter(published)
    \/ \E o \in Edited : EditOutline(o)

ContractSpec == ContractInit /\ [][ContractNext]_contractVars

-----------------------------------------------------------------------------
(* Properties.                                                             *)

Claimed(events, unknown) == {e \in events : Presumes(e, unknown)}

\* The planner lists key events next to required ones that are harmless, or the
\* claim among the changes of state: the contract looks at neither.
Unchecked ==
    IF planned.required # {} /\ Claimed(planned.required, planned.unknown) = {}
    THEN planned.key \cup planned.changes ELSE planned.changes

\* A clue stays a clue. No agent is told to bring about, nor is the next chapter
\* told to be done, what the outline leaves unknown, however often the outline
\* is taken up, stored and loaded again; only what the contract does not check
\* and what is edited during a run gets through (continuity_contract.py:3-6).
CluesStayClues ==
    /\ \A a \in Agents : Claimed(contracts[a].required, contracts[a].unknown) = {}
    /\ Claimed(brief.actions, brief.unknown) = {}
    /\ ~overwritten =>
        /\ outlineEdits = 0 => Claimed(brief.key, brief.unknown) \subseteq Unchecked
        /\ frozen => Claimed(Completed(stored), stored.unknown) \subseteq Unchecked

\* Nothing planned is lost, and writer and validator go by one contract: what was
\* required is required of both or uncertain to both, whichever copy of the
\* outline they were given, until it is edited.
OneContract ==
    outlineEdits = 0 /\ planned # NoOutline =>
        LET given == {contracts[a] : a \in {b \in Agents : contracts[b] # NoContract}} IN
        /\ \A c \in given : Demanded(planned) \subseteq c.required \cup c.uncertain
        /\ Cardinality(given) <= 1
=============================================================================
