-------------------------------- MODULE LlmCall --------------------------------
(***************************************************************************)
(* A call of a language model: attempts at the active provider, the        *)
(* correction of an address without /v1, the switch to the backup that the *)
(* user has designated, and, for JSON, a second call without JSON mode.    *)
(*                                                                         *)
(* src/agents/base.py (call_llm, call_llm_json), providers.py,             *)
(* llm_json.py. What one attempt receives is LlmStream's matter: here it   *)
(* answers or fails. Providers are read from the settings at each call_llm *)
(* and a user may change them in between.                                  *)
(***************************************************************************)
EXTENDS Naturals, FiniteSets, Sequences

CONSTANTS
    MaxLlmRetries,  \* llm_max_retries goes from 0 to here
    Hosts,          \* addresses of providers, without what follows the host
    MaxChanges      \* bound: changes of the settings while a call is on

ASSUME LlmAssumption == MaxLlmRetries \in Nat /\ MaxChanges \in Nat

VARIABLES
    settings,   \* providers: the active one and the backup
    call,       \* the call in flight
    tried,      \* history: <<endpoint, backup, JSON mode>> of each attempt
    changes

llmVars == <<settings, call, tried, changes>>

NoBackup == [host |-> "none", bare |-> FALSE]
Endpoints == [host : Hosts, bare : BOOLEAN]     \* bare: does not end with /v1
Settings == [active : Endpoints, backup : Endpoints \cup {NoBackup}]
NoCall == [pc |-> "idle", json |-> FALSE, phase |-> 1, budget |-> 0, attempt |-> 0,
           providers |-> [active |-> NoBackup, backup |-> NoBackup],
           url |-> NoBackup, backup |-> FALSE]

LlmInit ==
    /\ settings \in Settings
    /\ call = NoCall /\ tried = {} /\ changes = 0

\* save_settings by the user, from the API.
ChangeSettings(s) ==
    /\ call.pc # "idle" /\ changes < MaxChanges /\ s # settings
    /\ settings' = s /\ changes' = changes + 1
    /\ UNCHANGED <<call, tried>>

-----------------------------------------------------------------------------
(* call_llm.                                                               *)

\* The settings are read once; a budget for each provider. range(2 * budget)
\* is empty for a budget of zero, and then nothing is returned.
Phase(json, phase, budget) ==
    [NoCall EXCEPT !.pc = IF budget = 0 THEN "nothing" ELSE "attempt",
                   !.json = json, !.phase = phase, !.budget = budget,
                   !.providers = settings, !.url = settings.active]

Call(json, retries) ==
    /\ call.pc = "idle"
    /\ call' = Phase(json, 1, retries)
    /\ tried' = {}
    /\ UNCHANGED <<settings, changes>>

\* resolve_backup_provider: opt-in, and never the active provider again.
BackupOf(providers) == providers.backup

MustSwitch == call.attempt >= call.budget /\ ~call.backup

\* _switch_to_backup_provider at the head of an attempt. (The flag for the chapter
\* is written in a session of its own and left out.)
SwitchToBackup ==
    /\ call.pc = "attempt" /\ MustSwitch
    /\ BackupOf(call.providers) # NoBackup
    /\ call' = [call EXCEPT !.backup = TRUE, !.url = BackupOf(call.providers)]
    /\ UNCHANGED <<settings, tried, changes>>

\* No backup: the last exception.
GiveUp ==
    /\ call.pc = "attempt" /\ MustSwitch
    /\ BackupOf(call.providers) = NoBackup
    /\ call' = [call EXCEPT !.pc = "raised"]
    /\ UNCHANGED <<settings, tried, changes>>

Attempted == tried \cup {<<call.url, call.backup, call.json /\ call.phase = 1>>}

Answer ==
    /\ call.pc = "attempt" /\ ~MustSwitch
    /\ tried' = Attempted
    /\ call' = [call EXCEPT !.pc = IF call.json THEN "parse" ELSE "answered"]
    /\ UNCHANGED <<settings, changes>>

LastAttempt == call.attempt = 2 * call.budget - 1

\* Mutant: the budget is for all providers together.
FailEarly ==
    /\ call.pc = "attempt" /\ ~MustSwitch
    /\ tried' = Attempted
    /\ LET correct == call.url = call.providers.active /\ call.url.bare
           on == call.attempt < call.budget - 1
       IN call' = [call EXCEPT
                      !.url.bare = @ /\ ~correct,
                      !.attempt = IF on THEN @ + 1 ELSE @,
                      !.pc = IF on THEN "attempt" ELSE "raised"]
    /\ UNCHANGED <<settings, changes>>

\* Mutant: any address without /v1 is corrected.
FailCorrectingAny ==
    /\ call.pc = "attempt" /\ ~MustSwitch
    /\ tried' = Attempted
    /\ call' = [call EXCEPT
                   !.url.bare = FALSE,
                   !.attempt = IF LastAttempt THEN @ ELSE @ + 1,
                   !.pc = IF ~LastAttempt THEN "attempt"
                          ELSE IF call.url.bare THEN "nothing" ELSE "raised"]
    /\ UNCHANGED <<settings, changes>>

\* An attempt fails, for whatever reason. At the address the call began with the
\* /v1 is added and the loop goes on, even behind the last attempt: then it ends
\* with neither an answer nor an exception. Otherwise the last attempt raises.
Fail ==
    /\ call.pc = "attempt" /\ ~MustSwitch
    /\ tried' = Attempted
    /\ LET correct == call.url = call.providers.active /\ call.url.bare IN
       call' = [call EXCEPT
                   !.url.bare = @ /\ ~correct,
                   !.attempt = IF LastAttempt THEN @ ELSE @ + 1,
                   !.pc = IF ~LastAttempt THEN "attempt"
                          ELSE IF correct THEN "nothing" ELSE "raised"]
    /\ UNCHANGED <<settings, changes>>

-----------------------------------------------------------------------------
(* call_llm_json and the end of a call.                                    *)

\* Whatever JSON mode raised, once more in plain text with a budget of 1
\* (JSON_FALLBACK_MAX_RETRIES), with the settings as they are now.
FallBack ==
    /\ call.pc = "raised" /\ call.json /\ call.phase = 1
    /\ call' = Phase(TRUE, 2, 1)
    /\ UNCHANGED <<settings, tried, changes>>

\* parse_llm_json_response: loads, without the fence, repaired in time; or
\* LLMJSONParsingError, for the text or for the schema.
Parse(ok) ==
    /\ call.pc = "parse"
    /\ call' = [call EXCEPT !.pc = IF ok THEN "answered" ELSE "unparsed"]
    /\ UNCHANGED <<settings, tried, changes>>

\* JSON: raw.strip() on nothing.
CrashOnNothing ==
    /\ call.pc = "nothing" /\ call.json
    /\ call' = [call EXCEPT !.pc = "crashed"]
    /\ UNCHANGED <<settings, tried, changes>>

\* The caller goes on with what it got.
Finish ==
    /\ call.pc \in {"answered", "unparsed", "crashed", "nothing", "raised"}
    /\ call.pc = "raised" => ~call.json \/ call.phase = 2
    /\ call.pc = "nothing" => ~call.json
    /\ call' = NoCall /\ tried' = {}
    /\ UNCHANGED <<settings, changes>>

LlmNext ==
    \/ \E json \in BOOLEAN, retries \in 0..MaxLlmRetries : Call(json, retries)
    \/ \E s \in Settings : ChangeSettings(s)
    \/ SwitchToBackup \/ GiveUp \/ Answer \/ Fail
    \/ FallBack \/ (\E ok \in BOOLEAN : Parse(ok)) \/ CrashOnNothing \/ Finish

LlmSpec == LlmInit /\ [][LlmNext]_llmVars

-----------------------------------------------------------------------------
(* Properties.                                                             *)

TriedIn(phase) == {t \in tried : t[3] = (call.json /\ phase = 1)}

\* A call that raises has asked the backup, when one is designated, in that
\* phase; it has asked the active provider as configured, and where it allows
\* more than one attempt also at the corrected address (the retry budget in the
\* docstring of call_llm). The plain-text phase has one attempt: with an address
\* without /v1 it never asks the corrected one.
EveryProviderIsAsked ==
    call.pc = "raised" =>
        LET asked == {t[1] : t \in TriedIn(call.phase)}
            active == call.providers.active
            backup == call.providers.backup
        IN /\ active \in asked
           /\ call.budget > 1 => [active EXCEPT !.bare = FALSE] \in asked
           /\ backup # NoBackup => \E t \in TriedIn(call.phase) : t[2] /\ t[1] = backup

\* A call ends without answer and without exception ("falling through the
\* for-loop would implicitly return None", base.py:140-143) in two cases only: a
\* budget of zero, and a budget of one with a backup at the very address, without
\* /v1, of the active provider.
NothingIsRare ==
    call.pc \in {"nothing", "crashed"} =>
        \/ call.budget = 0
        \/ /\ call.budget = 1 /\ call.backup
           /\ call.providers.backup = call.providers.active /\ call.providers.active.bare
=============================================================================
