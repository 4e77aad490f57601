------------------------------ MODULE MCServices ------------------------------
(***************************************************************************)
(* The parts of the system that share no state with each other, in one     *)
(* run: a behaviour picks a part and takes the steps of that part alone,   *)
(* so the states explored are the sum of the parts' and not their product. *)
(***************************************************************************)
EXTENDS VectorOutbox, ChromaExecutor, BranchLife, CharacterCards, LlmStream,
        LlmCall, Workflows, ChapterContract, HandoffLedger, MCGraphRules,
        ConfigCache, ManuscriptSuffix, MCCanon

VARIABLE part       \* the part this behaviour is about

Parts == {"outbox", "chroma", "branch", "cards", "stream", "call", "workflow",
          "contract", "handoff", "graph", "config", "suffix", "canon"}

\* The last two items of three in a prompt, all, or the first two of these.
SomeShown == <<2, 3, 2>>

\* The settings where they do not matter.
Configured == CHOOSE s \in Settings : TRUE

\* The times a row is written at, the first one included.
SomeTicks == [prompts |-> 2, tunables |-> 3, settings |-> 3]

TextOf(p, o, l) == [plain |-> p, odd |-> o, letters |-> l]

\* No text, spaces alone, letters with and without blanks, and line ends alone.
SomeTexts == {TextOf(0, 0, 0), TextOf(1, 0, 0), TextOf(0, 0, 2), TextOf(1, 2, 3),
              TextOf(0, 3, 0)}

\* The tags with fewer letters, which keep their shape (a common first character),
\* and the scraps of a reply: a tag, a letter, the beginning of a tag.
ShortOpenTag == <<"<", "o", ">">>
ShortCloseTag == <<"<", "c", ">">>
Scraps == {ShortOpenTag, ShortCloseTag, <<"a">>, <<"<", "o">>}
SomeReplies == {FlattenSeq(p) : p \in SeqOf(Scraps, 4)}

PlainRow == CHOOSE r \in Rows : TRUE

ServicesInit ==
    /\ part \in Parts
    /\ OutboxInit /\ ChromaInit /\ BranchInit /\ CardsInit /\ StreamInit
    /\ LlmInit /\ WorkflowsInit /\ ContractInit /\ LedgerInit /\ RulesInit
    /\ ConfigInit /\ SuffixInit /\ CanonInit
    /\ part # "canon" => autoReview
    /\ part # "call" => settings = Configured
    /\ part # "graph" => flowRow = PlainRow
    /\ part # "suffix" => \A k \in SectionSet : texts[k] = TextOf(0, 0, 0)
    /\ part # "config" => cached = "settings"

ServicesNext ==
    /\ UNCHANGED part
    /\ \/ part = "outbox" /\ OutboxNext
       \/ part # "outbox" /\ UNCHANGED outboxVars
    /\ \/ part = "chroma" /\ ChromaNext
       \/ part # "chroma" /\ UNCHANGED chromaVars
    /\ \/ part = "branch" /\ BranchNext
       \/ part # "branch" /\ UNCHANGED branchVars
    /\ \/ part = "cards" /\ CardsNext
       \/ part # "cards" /\ UNCHANGED cardVars
    /\ \/ part = "stream" /\ StreamNext
       \/ part # "stream" /\ UNCHANGED streamVars
    /\ \/ part = "call" /\ LlmNext
       \/ part # "call" /\ UNCHANGED llmVars
    /\ \/ part = "workflow" /\ WorkflowsNext
       \/ part # "workflow" /\ UNCHANGED flowVars
    /\ \/ part = "contract" /\ ContractNext
       \/ part # "contract" /\ UNCHANGED contractVars
    /\ \/ part = "handoff" /\ LedgerNext
       \/ part # "handoff" /\ UNCHANGED ledgerVars
    /\ \/ part = "graph" /\ RulesNext
       \/ part # "graph" /\ UNCHANGED ruleVars
    /\ \/ part = "config" /\ ConfigNext
       \/ part # "config" /\ UNCHANGED configVars
    /\ \/ part = "suffix" /\ SuffixNext
       \/ part # "suffix" /\ UNCHANGED suffixVars
    /\ \/ part = "canon" /\ CanonNext
       \/ part # "canon" /\ UNCHANGED canonVars

servicesVars == <<part, outboxVars, chromaVars, branchVars, cardVars, streamVars,
                  llmVars, flowVars, contractVars, ledgerVars, ruleVars, configVars,
                  suffixVars, canonVars>>

\* Only the outbox's loops are fair; in the other parts they are not up.
ServicesSpec == ServicesInit /\ [][ServicesNext]_servicesVars /\ OutboxFairness
=============================================================================
