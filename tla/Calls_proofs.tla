----------------------------- MODULE Calls_proofs -----------------------------
(***************************************************************************)
(* Proofs about the ways the system calls out: LlmCall (which addresses of  *)
(* a model a call has asked before it gives up, whatever the retry budget  *)
(* and however often the settings change), LlmStream (what a streamed      *)
(* answer shows, wherever it is cut) and ChromaExecutor (whom a caller     *)
(* that times out holds responsible).                                      *)
(***************************************************************************)
EXTENDS LlmCall, ChromaExecutor, LlmStream, SequenceTheorems,
        WellFoundedInduction, TLAPS

-----------------------------------------------------------------------------
(* LlmCall: the inductive invariant.                                       *)

AnyEndpoint == [host : Hosts \cup {"none"}, bare : BOOLEAN]
AnyProviders == [active : AnyEndpoint, backup : AnyEndpoint]
CallPcs == {"idle", "attempt", "parse", "answered", "unparsed", "nothing",
            "crashed", "raised"}
Calls == [pc : CallPcs, json : BOOLEAN, phase : {1, 2}, budget : Nat, attempt : Nat,
          providers : AnyProviders, url : AnyEndpoint, backup : BOOLEAN]

LlmTypes == settings \in AnyProviders /\ call \in Calls

Corrected(e) == [e EXCEPT !.bare = FALSE]

\* What this phase of the call has tried, and the addresses in it.
Now == TriedIn(call.phase)
Asked(attempts, url) == \E t \in attempts : t[1] = url
AskedAsBackup(attempts, url) == \E t \in attempts : t[1] = url /\ t[2]

\* At the active provider: first the address as configured, from the second
\* attempt on the corrected one. The number of attempts says which have been asked.
AtActive ==
    ~call.backup =>
        /\ call.attempt <= call.budget
        /\ call.attempt = 0 => call.url = call.providers.active
        /\ call.attempt > 0 => /\ call.url = Corrected(call.providers.active)
                               /\ Asked(Now, call.providers.active)
        /\ call.attempt > 1 => Asked(Now, Corrected(call.providers.active))

\* At the backup the active provider's budget is spent, and no address is
\* corrected any more behind the first attempt.
AtBackup ==
    call.backup =>
        /\ call.attempt >= call.budget
        /\ Asked(Now, call.providers.active)
        /\ call.budget > 1 => Asked(Now, Corrected(call.providers.active))
        /\ call.attempt = call.budget => call.url = call.providers.backup
        /\ call.attempt > call.budget =>
              /\ AskedAsBackup(Now, call.providers.backup)
              /\ call.url = call.providers.active => ~call.providers.active.bare

Attempting ==
    call.pc = "attempt" =>
        call.budget > 0 /\ call.attempt < 2 * call.budget /\ AtActive /\ AtBackup

Raised ==
    call.pc = "raised" =>
        /\ Asked(Now, call.providers.active)
        /\ call.budget > 1 => Asked(Now, Corrected(call.providers.active))
        /\ call.providers.backup # NoBackup => AskedAsBackup(Now, call.providers.backup)

LlmInv == LlmTypes /\ Attempting /\ Raised /\ NothingIsRare

-----------------------------------------------------------------------------

LEMMA EndpointFields ==
    /\ \A e \in AnyEndpoint : e.bare \in BOOLEAN /\ Corrected(e) \in AnyEndpoint
                              /\ (~e.bare => Corrected(e) = e)
                              /\ ~Corrected(e).bare
    /\ Endpoints \subseteq AnyEndpoint /\ NoBackup \in AnyEndpoint
    /\ Settings \subseteq AnyProviders
  <1>1. ASSUME NEW e \in AnyEndpoint
        PROVE  /\ e.bare \in BOOLEAN /\ Corrected(e) \in AnyEndpoint
               /\ ~e.bare => Corrected(e) = e
               /\ ~Corrected(e).bare
    <2>1. e.host \in Hosts \cup {"none"} /\ e.bare \in BOOLEAN
          /\ e = [host |-> e.host, bare |-> e.bare]
      BY DEF AnyEndpoint
    <2>2. Corrected(e) = [host |-> e.host, bare |-> FALSE]
      <3>1. PICK no : no = FALSE
        OBVIOUS
      <3>2. [e EXCEPT !.bare = no] = [host |-> e.host, bare |-> no]
        BY <2>1
      <3> QED BY <3>1, <3>2 DEF Corrected
    <2>3. ~e.bare => e.bare = FALSE
      BY <2>1
    <2>4. ~e.bare => Corrected(e) = e
      BY <2>1, <2>2, <2>3
    <2>5. ~Corrected(e).bare
      BY <2>2
    <2>6. Corrected(e) \in AnyEndpoint
      BY <2>1, <2>2 DEF AnyEndpoint
    <2> QED BY <2>1, <2>4, <2>5, <2>6
  <1>2. Endpoints \subseteq AnyEndpoint /\ NoBackup \in AnyEndpoint
    BY DEF AnyEndpoint, Endpoints, NoBackup
  <1>3. Settings \subseteq AnyProviders
    BY <1>2 DEF Settings, AnyProviders
  <1> QED BY <1>1, <1>2, <1>3

\* A step that keeps what this phase is about and forgets no attempt keeps what
\* has been asked.
LEMMA AskedStays ==
    ASSUME call'.json = call.json, call'.phase = call.phase, tried \subseteq tried'
    PROVE  \A url : (Asked(Now, url) => Asked(Now', url)) /\ (AskedAsBackup(Now, url) => AskedAsBackup(Now', url))
  <1> SUFFICES ASSUME NEW url
               PROVE  (Asked(Now, url) => Asked(Now', url)) /\ (AskedAsBackup(Now, url) => AskedAsBackup(Now', url))
    OBVIOUS
  <1>1. Now \subseteq Now'
    BY DEF Now, TriedIn
  <1> QED BY <1>1 DEF Asked, AskedAsBackup

\* An attempt, whether it is answered or fails, asks the address it is made at.
LEMMA AttemptAsks ==
    ASSUME LlmTypes, call'.json = call.json, call'.phase = call.phase,
           tried' = Attempted
    PROVE  Asked(Now', call.url) /\ (call.backup => AskedAsBackup(Now', call.url))
  <1> DEFINE t == <<call.url, call.backup, call.json /\ call.phase = 1>>
  <1>1. t \in tried'
    BY DEF Attempted
  <1>2. call.json \in BOOLEAN /\ call'.json = call.json /\ call'.phase = call.phase
    BY DEF LlmTypes, Calls
  <1>3. t[1] = call.url /\ t[2] = call.backup /\ t[3] = (call.json /\ call.phase = 1)
    OBVIOUS
  <1>4. t[3] = (call'.json /\ call'.phase = 1)
    BY <1>2, <1>3
  <1> HIDE DEF t
  <1>5. t \in Now'
    BY <1>1, <1>4 DEF Now, TriedIn
  <1> QED BY <1>5, <1>3 DEF Asked, AskedAsBackup

-----------------------------------------------------------------------------

LEMMA LlmInitially == LlmInit => LlmInv
  <1> SUFFICES ASSUME LlmInit PROVE LlmInv
    OBVIOUS
  <1>1. settings \in AnyProviders /\ call = NoCall
    BY EndpointFields DEF LlmInit
  <1>2. call.pc = "idle"
    BY <1>1 DEF NoCall
  <1>3. call \in Calls
    BY <1>1, EndpointFields DEF NoCall, Calls, CallPcs, AnyProviders
  <1> QED
    BY <1>1, <1>2, <1>3 DEF LlmInv, LlmTypes, Attempting, Raised, NothingIsRare

\* A call begins, or begins again in plain text.
LEMMA PhaseKeeps ==
    ASSUME LlmInv, NEW json \in BOOLEAN, NEW phase \in {1, 2}, NEW budget \in Nat,
           call' = Phase(json, phase, budget), settings' = settings
    PROVE  LlmInv'
  <1>1. settings \in AnyProviders
    BY DEF LlmInv, LlmTypes
  <1>2. /\ call'.pc = IF budget = 0 THEN "nothing" ELSE "attempt"
        /\ call'.budget = budget /\ call'.attempt = 0 /\ call'.backup = FALSE
        /\ call'.providers = settings /\ call'.url = settings.active
    BY DEF Phase, NoCall
  <1>3. call' \in Calls
    <2>1. settings.active \in AnyEndpoint
      BY <1>1 DEF AnyProviders
    <2>2. NoCall \in Calls
      BY EndpointFields DEF NoCall, Calls, CallPcs, AnyProviders
    <2> QED BY <1>1, <2>1, <2>2 DEF Phase, Calls, CallPcs
  <1>4. Attempting'
    BY <1>2 DEF Attempting, AtActive, AtBackup
  <1>5. Raised' /\ NothingIsRare'
    BY <1>2 DEF Raised, NothingIsRare
  <1> QED BY <1>1, <1>3, <1>4, <1>5 DEF LlmInv, LlmTypes

\* A failure goes on to the next attempt or ends the call.
LEMMA FailKeeps ==
    ASSUME LlmInv, Fail
    PROVE  LlmInv'
  <1> DEFINE active == call.providers.active
             backup == call.providers.backup
             correct == call.url = active /\ call.url.bare
             next == IF LastAttempt THEN call.attempt ELSE call.attempt + 1
  <1>1. PICK u : u = [call.url EXCEPT !.bare = @ /\ ~correct]
    OBVIOUS
  <1>2. PICK p : p = IF ~LastAttempt THEN "attempt"
                     ELSE IF correct THEN "nothing" ELSE "raised"
    OBVIOUS
  <1>3. call \in Calls /\ settings \in AnyProviders
    BY DEF LlmInv, LlmTypes
  <1>4. call' = [call EXCEPT !.url = u, !.attempt = next, !.pc = p]
    <2>1. call' = [call EXCEPT !.url.bare = @ /\ ~correct, !.attempt = next, !.pc = p]
      BY <1>2 DEF Fail
    <2> QED BY <2>1, <1>1, <1>3 DEF Calls
  <1>5. /\ call.url \in AnyEndpoint /\ active \in AnyEndpoint /\ backup \in AnyEndpoint
        /\ call.budget \in Nat /\ call.attempt \in Nat /\ call.backup \in BOOLEAN
    BY <1>3 DEF Calls, AnyProviders
  <1>6. u = IF correct THEN Corrected(call.url) ELSE call.url
    BY <1>1, <1>5 DEF AnyEndpoint, Corrected
  <1>7. u \in AnyEndpoint
    BY <1>5, <1>6, EndpointFields
  <1>8. /\ call'.pc = p /\ call'.json = call.json /\ call'.phase = call.phase
        /\ call'.budget = call.budget /\ call'.attempt = next
        /\ call'.providers = call.providers /\ call'.url = u
        /\ call'.backup = call.backup
    BY <1>3, <1>4 DEF Calls
  <1>9. LlmTypes'
    <2>1. p \in CallPcs
      BY <1>2 DEF CallPcs
    <2>2. next \in Nat
      BY <1>5
    <2>3. settings' \in AnyProviders
      BY <1>3 DEF Fail
    <2> QED BY <2>1, <2>2, <2>3, <1>3, <1>4, <1>7 DEF LlmTypes, Calls
  <1>10. /\ call.pc = "attempt" /\ ~MustSwitch
         /\ call.budget > 0 /\ call.attempt < 2 * call.budget /\ AtActive /\ AtBackup
    BY DEF Fail, LlmInv, Attempting
  <1>11. /\ ~call.backup => call.attempt < call.budget
         /\ call.backup => call.attempt >= call.budget
         /\ call.attempt < 2 * call.budget
    BY <1>5, <1>10 DEF MustSwitch, AtBackup
  <1>12. tried' = Attempted /\ tried \subseteq tried'
    BY DEF Fail, Attempted
  <1>13. \A url : (Asked(Now, url) => Asked(Now', url)) /\ (AskedAsBackup(Now, url) => AskedAsBackup(Now', url))
    BY <1>8, <1>12, AskedStays
  <1>14. Asked(Now', call.url) /\ (call.backup => AskedAsBackup(Now', call.url))
    BY <1>8, <1>12, AttemptAsks DEF LlmInv
  <1> HIDE DEF correct
  <1>15. CASE ~call.backup
    <2>1. ~LastAttempt /\ p = "attempt" /\ next = call.attempt + 1
      BY <1>2, <1>5, <1>10, <1>11, <1>15 DEF LastAttempt
    <2>2. u = Corrected(active)
      <3>1. call.url = active \/ call.url = Corrected(active)
        BY <1>5, <1>10, <1>15 DEF AtActive
      <3> QED BY <3>1, <1>5, <1>6, EndpointFields DEF correct
    <2>3. Asked(Now', active)
      <3>1. CASE call.attempt = 0
        BY <3>1, <1>10, <1>14, <1>15 DEF AtActive
      <3>2. CASE call.attempt > 0
        BY <3>2, <1>10, <1>13, <1>15 DEF AtActive
      <3> QED BY <3>1, <3>2, <1>5
    <2>4. next > 1 => Asked(Now', Corrected(active))
      <3> SUFFICES ASSUME next > 1 PROVE Asked(Now', Corrected(active))
        OBVIOUS
      <3>1. call.attempt > 0
        BY <2>1, <1>5
      <3> QED BY <3>1, <1>10, <1>14, <1>15 DEF AtActive
    <2>5. AtActive'
      <3>1. next > 0 /\ next <= call.budget
        BY <2>1, <1>5, <1>11, <1>15
      <3> QED BY <3>1, <2>2, <2>3, <2>4, <1>8 DEF AtActive
    <2>6. AtBackup'
      BY <1>8, <1>15 DEF AtBackup
    <2>7. call'.pc = "attempt" /\ call'.budget > 0 /\ call'.attempt < 2 * call'.budget
      BY <2>1, <1>5, <1>8, <1>10, <1>11, <1>15
    <2> QED BY <1>9, <2>5, <2>6, <2>7 DEF LlmInv, Attempting, Raised, NothingIsRare
  <1>16. CASE call.backup
    <2>1. Asked(Now', active) /\ (call.budget > 1 => Asked(Now', Corrected(active)))
      BY <1>10, <1>13, <1>16 DEF AtBackup
    <2>2. AskedAsBackup(Now', backup)
      <3>1. CASE call.attempt = call.budget
        BY <3>1, <1>10, <1>14, <1>16 DEF AtBackup
      <3>2. CASE call.attempt > call.budget
        BY <3>2, <1>10, <1>13, <1>16 DEF AtBackup
      <3> QED BY <3>1, <3>2, <1>5, <1>11, <1>16
    <2>3. u = active => ~active.bare
      BY <1>5, <1>6, EndpointFields DEF correct
    <2>4. CASE ~LastAttempt
      <3>1. p = "attempt" /\ next = call.attempt + 1
        BY <2>4, <1>2
      <3>2. next > call.budget /\ next < 2 * call.budget
        BY <2>4, <3>1, <1>5, <1>11, <1>16 DEF LastAttempt
      <3>3. AtBackup' /\ AtActive'
        BY <3>2, <2>1, <2>2, <2>3, <1>5, <1>8, <1>16 DEF AtBackup, AtActive
      <3>4. call'.pc = "attempt" /\ call'.budget > 0 /\ call'.attempt < 2 * call'.budget
        BY <3>1, <3>2, <1>8, <1>10
      <3> QED BY <1>9, <3>3, <3>4 DEF LlmInv, Attempting, Raised, NothingIsRare
    <2>5. CASE LastAttempt /\ correct
      <3>1. call'.pc = "nothing"
        BY <2>5, <1>2, <1>8
      <3>2. call.url = active /\ active.bare
        BY <2>5 DEF correct
      <3>3. call.attempt = call.budget
        BY <3>2, <1>5, <1>10, <1>11, <1>16 DEF AtBackup
      <3>4. call.budget = 1
        <4>1. call.attempt = 2 * call.budget - 1
          BY <2>5 DEF LastAttempt
        <4> QED BY <4>1, <3>3, <1>5
      <3>5. backup = active
        BY <3>2, <3>3, <1>10, <1>16 DEF AtBackup
      <3>6. NothingIsRare'
        BY <3>2, <3>4, <3>5, <1>8, <1>16 DEF NothingIsRare
      <3> QED BY <3>1, <3>6, <1>9 DEF LlmInv, Attempting, Raised
    <2>6. CASE LastAttempt /\ ~correct
      <3>1. call'.pc = "raised"
        BY <2>6, <1>2, <1>8
      <3>2. Raised'
        <4>1. /\ Asked(Now', call.providers.active)
              /\ call'.budget > 1 => Asked(Now', Corrected(call.providers.active))
              /\ AskedAsBackup(Now', call.providers.backup)
          BY <2>1, <2>2, <1>8
        <4> QED
          BY <4>1, <1>8 DEF Raised
      <3> QED BY <3>1, <3>2, <1>9 DEF LlmInv, Attempting, NothingIsRare
    <2> QED BY <2>4, <2>5, <2>6
  <1> QED BY <1>5, <1>15, <1>16

LEMMA SwitchKeeps ==
    ASSUME LlmInv, SwitchToBackup
    PROVE  LlmInv'
  <1> DEFINE active == call.providers.active
             backup == call.providers.backup
  <1>1. call \in Calls /\ settings' \in AnyProviders
    BY DEF LlmInv, LlmTypes, SwitchToBackup
  <1>2. backup \in AnyEndpoint /\ call.budget \in Nat /\ call.attempt \in Nat
    BY <1>1 DEF Calls, AnyProviders
  <1>3. call' = [call EXCEPT !.backup = TRUE, !.url = backup]
    BY DEF SwitchToBackup, BackupOf
  <1>4. call' \in Calls
    BY <1>1, <1>2, <1>3 DEF Calls
  <1>5. /\ call'.pc = "attempt" /\ call'.json = call.json /\ call'.phase = call.phase
        /\ call'.budget = call.budget /\ call'.attempt = call.attempt
        /\ call'.providers = call.providers /\ call'.url = backup /\ call'.backup
    BY <1>1, <1>3 DEF Calls, SwitchToBackup
  <1>6. /\ call.attempt >= call.budget /\ ~call.backup
        /\ call.budget > 0 /\ call.attempt < 2 * call.budget /\ AtActive
    BY DEF SwitchToBackup, MustSwitch, LlmInv, Attempting
  <1>7. call.attempt = call.budget
    BY <1>2, <1>6 DEF AtActive
  <1>8. Asked(Now, active) /\ (call.budget > 1 => Asked(Now, Corrected(active)))
    BY <1>2, <1>6, <1>7 DEF AtActive
  <1>9. \A url : Asked(Now, url) => Asked(Now', url)
    <2>1. tried \subseteq tried'
      BY DEF SwitchToBackup
    <2> QED BY <2>1, <1>5, AskedStays
  <1>10. AtBackup' /\ AtActive'
    BY <1>2, <1>5, <1>7, <1>8, <1>9 DEF AtBackup, AtActive
  <1>11. call'.budget > 0 /\ call'.attempt < 2 * call'.budget
    BY <1>5, <1>6
  <1> QED
    BY <1>1, <1>4, <1>5, <1>10, <1>11
    DEF LlmInv, LlmTypes, Attempting, Raised, NothingIsRare

LEMMA GiveUpKeeps ==
    ASSUME LlmInv, GiveUp
    PROVE  LlmInv'
  <1> DEFINE active == call.providers.active
  <1>1. call \in Calls /\ settings' \in AnyProviders
    BY DEF LlmInv, LlmTypes, GiveUp
  <1>2. call.budget \in Nat /\ call.attempt \in Nat
    BY <1>1 DEF Calls
  <1>3. call' = [call EXCEPT !.pc = "raised"] /\ call.providers.backup = NoBackup
    BY DEF GiveUp, BackupOf
  <1>4. call' \in Calls
    BY <1>1, <1>3 DEF Calls, CallPcs
  <1>5. /\ call'.pc = "raised" /\ call'.json = call.json /\ call'.phase = call.phase
        /\ call'.budget = call.budget /\ call'.providers = call.providers
    BY <1>1, <1>3 DEF Calls
  <1>6. /\ call.attempt >= call.budget /\ ~call.backup /\ call.budget > 0 /\ AtActive
    BY DEF GiveUp, MustSwitch, LlmInv, Attempting
  <1>7. Asked(Now, active) /\ (call.budget > 1 => Asked(Now, Corrected(active)))
    BY <1>2, <1>6 DEF AtActive
  <1>8. \A url : Asked(Now, url) => Asked(Now', url)
    <2>1. tried \subseteq tried'
      BY DEF GiveUp
    <2> QED BY <2>1, <1>5, AskedStays
  <1>9. Raised'
    <2>1. /\ Asked(Now', call.providers.active)
          /\ call'.budget > 1 => Asked(Now', Corrected(call.providers.active))
          /\ (call.providers.backup)' = NoBackup
      BY <1>3, <1>5, <1>7, <1>8
    <2> QED
      BY <2>1, <1>5 DEF Raised
  <1> QED
    BY <1>1, <1>4, <1>5, <1>9 DEF LlmInv, LlmTypes, Attempting, NothingIsRare

\* The steps that end an attempt with an answer, or a call with what it has.
LEMMA EndKeeps ==
    ASSUME LlmInv, NEW pc \in CallPcs \ {"attempt", "raised"},
           call' = [call EXCEPT !.pc = pc], settings' = settings,
           pc \in {"nothing", "crashed"} => call.pc \in {"nothing", "crashed"}
    PROVE  LlmInv'
  <1>1. call \in Calls /\ settings' \in AnyProviders
    BY DEF LlmInv, LlmTypes
  <1>2. call' \in Calls
    BY <1>1 DEF Calls
  <1>3. /\ call'.pc = pc /\ call'.budget = call.budget /\ call'.backup = call.backup
        /\ call'.providers = call.providers
    BY <1>1 DEF Calls
  <1>4. NothingIsRare'
    BY <1>3 DEF LlmInv, NothingIsRare
  <1> QED
    BY <1>1, <1>2, <1>3, <1>4 DEF LlmInv, LlmTypes, Attempting, Raised

\* Steps of the user, of another part, or of nobody.
LEMMA SettingsKeep ==
    ASSUME LlmInv, UNCHANGED <<call, tried>>, settings' \in AnyProviders
    PROVE  LlmInv'
  <1>1. LlmTypes'
    BY DEF LlmInv, LlmTypes
  <1>2. Attempting' /\ Raised' /\ NothingIsRare'
    BY DEF LlmInv, Attempting, AtActive, AtBackup, Now, TriedIn,
           Raised, NothingIsRare
  <1> QED BY <1>1, <1>2 DEF LlmInv

LEMMA LlmStep == LlmInv /\ [LlmNext]_llmVars => LlmInv'
  <1> SUFFICES ASSUME LlmInv, [LlmNext]_llmVars PROVE LlmInv'
    OBVIOUS
  <1> USE LlmAssumption
  <1>1. ASSUME NEW json \in BOOLEAN, NEW retries \in 0..MaxLlmRetries, Call(json, retries)
        PROVE  LlmInv'
    BY <1>1, PhaseKeeps DEF Call
  <1>2. ASSUME NEW s \in Settings, ChangeSettings(s)
        PROVE  LlmInv'
    BY <1>2, SettingsKeep, EndpointFields DEF ChangeSettings
  <1>3. CASE SwitchToBackup BY <1>3, SwitchKeeps
  <1>4. CASE GiveUp BY <1>4, GiveUpKeeps
  <1>5. CASE Answer
    <2>1. PICK pc : pc = IF call.json THEN "parse" ELSE "answered"
      OBVIOUS
    <2>2. pc \in CallPcs \ {"attempt", "raised"} /\ pc \notin {"nothing", "crashed"}
      BY <2>1 DEF CallPcs
    <2>3. call' = [call EXCEPT !.pc = pc] /\ settings' = settings
      BY <2>1, <1>5 DEF Answer
    <2> QED BY <2>2, <2>3, EndKeeps
  <1>6. CASE Fail BY <1>6, FailKeeps
  <1>7. CASE FallBack
    BY <1>7, PhaseKeeps DEF FallBack
  <1>8. ASSUME NEW ok \in BOOLEAN, Parse(ok)
        PROVE  LlmInv'
    <2>1. PICK pc : pc = IF ok THEN "answered" ELSE "unparsed"
      OBVIOUS
    <2>2. pc \in CallPcs \ {"attempt", "raised"} /\ pc \notin {"nothing", "crashed"}
      BY <2>1 DEF CallPcs
    <2>3. call' = [call EXCEPT !.pc = pc] /\ settings' = settings
      BY <2>1, <1>8 DEF Parse
    <2> QED BY <2>2, <2>3, EndKeeps
  <1>9. CASE CrashOnNothing
    BY <1>9, EndKeeps DEF CrashOnNothing, CallPcs
  <1>10. CASE Finish
    <2>1. call' = NoCall /\ settings' \in AnyProviders
      BY <1>10 DEF Finish, LlmInv, LlmTypes
    <2>2. call'.pc = "idle" /\ call' \in Calls
      BY <2>1, EndpointFields DEF NoCall, Calls, CallPcs, AnyProviders
    <2> QED
      BY <2>1, <2>2 DEF LlmInv, LlmTypes, Attempting, Raised, NothingIsRare
  <1>11. CASE UNCHANGED llmVars
    BY <1>11, SettingsKeep DEF llmVars, LlmInv, LlmTypes
  <1> QED
    BY <1>1, <1>2, <1>3, <1>4, <1>5, <1>6, <1>7, <1>8, <1>9, <1>10, <1>11 DEF LlmNext

\* A call that raises has asked the active provider as configured, its corrected
\* address where the budget allows a second attempt, and the backup when one is
\* designated, for every retry budget and every change of the settings meanwhile
\* (call_llm, call_llm_json).
THEOREM ProvidersAsked == LlmSpec => []EveryProviderIsAsked
  <1>1. LlmInv => EveryProviderIsAsked
    BY DEF LlmInv, Raised, EveryProviderIsAsked, Now, Asked, AskedAsBackup, Corrected
  <1> QED BY <1>1, LlmInitially, LlmStep, PTL DEF LlmSpec

\* A call returns nothing at all only with a budget of zero, or with a budget of
\* one and a backup at the very address of the active provider (base.py:140-143).
THEOREM AlmostAlwaysSomething == LlmSpec => []NothingIsRare
  <1>1. LlmInv => NothingIsRare
    BY DEF LlmInv
  <1> QED BY <1>1, LlmInitially, LlmStep, PTL DEF LlmSpec

-----------------------------------------------------------------------------
(* ChromaExecutor: the inductive invariant.                                *)

Ages == 0..AgeCap
ThreadRows == [pc : {"idle", "begin", "mark", "run", "end", "clear"},
               for : Callers \cup {NoCaller}, age : Ages]
CallerRows == [pc : {"idle", "lock", "op", "done"}, query : BOOLEAN, retried : BOOLEAN,
               age : Ages]

ChromaTypes ==
    /\ generation \in Generations /\ opStarted \in Ages \cup {NoAge}
    /\ thread \in [Generations -> ThreadRows]
    /\ queued \in [Generations -> Callers \cup {NoCaller}]
    /\ caller \in [Callers -> CallerRows]

\* A thread has nothing to do before its generation has come.
NotYetBegun ==
    \A g \in Generations : g > generation => thread[g].pc = "idle" /\ queued[g] = NoCaller

\* The shared start is that of the call the current thread is in, as long as no
\* thread left behind has written it.
StartIsKnown ==
    ~clobbered /\ thread[generation].pc \in {"run", "end"} =>
        opStarted = thread[generation].age

ChromaInv == ChromaTypes /\ NotYetBegun /\ StartIsKnown

LEMMA AgeFacts ==
    /\ AgeCap \in Nat /\ NoAge \in Nat /\ NoAge \notin Ages /\ 0 \in Ages
    /\ \A a \in Ages : Older(a) \in Ages
    /\ Older(NoAge) = NoAge
    /\ 0 \in Generations /\ \A g \in Generations : g \in Nat
  BY ChromaAssumption DEF AgeCap, NoAge, Ages, Older, Generations

LEMMA RowFacts ==
    /\ IdleThread \in ThreadRows /\ IdleThread.pc = "idle"
    /\ IdleCaller \in CallerRows /\ IdleCaller.pc = "idle"
  BY AgeFacts DEF IdleThread, ThreadRows, IdleCaller, CallerRows

LEMMA ChromaInitially == ChromaInit => ChromaInv
  <1> SUFFICES ASSUME ChromaInit PROVE ChromaInv
    OBVIOUS
  <1>1. ChromaTypes
    BY AgeFacts, RowFacts DEF ChromaInit, ChromaTypes
  <1>2. \A g \in Generations : thread[g].pc = "idle" /\ queued[g] = NoCaller
    BY RowFacts DEF ChromaInit
  <1> QED BY <1>1, <1>2 DEF ChromaInv, ChromaTypes, NotYetBegun, StartIsKnown

\* Steps that change neither the threads nor the start.
LEMMA CallerStepKeeps ==
    ASSUME ChromaInv, UNCHANGED <<generation, opStarted, thread, clobbered>>,
           caller' \in [Callers -> CallerRows],
           queued' \in [Generations -> Callers \cup {NoCaller}],
           \A g \in Generations : g > generation => queued'[g] = queued[g]
    PROVE  ChromaInv'
  <1>1. ChromaTypes' /\ StartIsKnown'
    BY DEF ChromaInv, ChromaTypes, StartIsKnown
  <1>2. NotYetBegun'
    BY DEF ChromaInv, NotYetBegun
  <1> QED BY <1>1, <1>2 DEF ChromaInv

\* A step of a thread that has begun, by its new row.
LEMMA ThreadStepKeeps ==
    ASSUME ChromaInv, NEW g \in Generations, g <= generation, NEW row \in ThreadRows,
           thread' = [thread EXCEPT ![g] = row], generation' = generation,
           opStarted' \in Ages \cup {NoAge},
           caller' \in [Callers -> CallerRows],
           queued' \in [Generations -> Callers \cup {NoCaller}],
           \A h \in Generations : h > generation => queued'[h] = queued[h],
           g # generation => clobbered' \/ (clobbered' = clobbered /\ opStarted' = opStarted),
           g = generation /\ row.pc \in {"run", "end"} => clobbered' \/ opStarted' = row.age
    PROVE  ChromaInv'
  <1>1. \A h \in Generations : thread'[h] = IF h = g THEN row ELSE thread[h]
    BY DEF ChromaInv, ChromaTypes
  <1>2. ChromaTypes'
    BY <1>1 DEF ChromaInv, ChromaTypes
  <1>3. NotYetBegun'
    <2> SUFFICES ASSUME NEW h \in Generations, h > generation
                 PROVE  thread'[h].pc = "idle" /\ queued'[h] = NoCaller
      BY DEF NotYetBegun
    <2>1. h # g
      BY AgeFacts DEF ChromaInv, ChromaTypes
    <2> QED BY <2>1, <1>1 DEF ChromaInv, NotYetBegun
  <1>4. StartIsKnown'
    <2>1. generation \in Generations
      BY DEF ChromaInv, ChromaTypes
    <2>2. CASE g = generation
      BY <2>1, <2>2, <1>1 DEF StartIsKnown
    <2>3. CASE g # generation
      BY <2>1, <2>3, <1>1 DEF StartIsKnown, ChromaInv
    <2> QED BY <2>2, <2>3
  <1> QED BY <1>2, <1>3, <1>4 DEF ChromaInv

LEMMA HasBegun ==
    ASSUME ChromaInv, NEW g \in Generations,
           thread[g].pc # "idle" \/ queued[g] # NoCaller
    PROVE  g <= generation
  BY AgeFacts DEF ChromaInv, ChromaTypes, NotYetBegun

\* A caller that goes leaves a thread that runs in it as it is, but for whom it
\* runs.
LEMMA DisownedKeeps ==
    ASSUME ChromaInv, NEW c \in Callers, Disowned(c)
    PROVE  /\ thread' \in [Generations -> ThreadRows]
           /\ queued' \in [Generations -> Callers \cup {NoCaller}]
           /\ \A g \in Generations :
                 /\ thread'[g].pc = thread[g].pc /\ thread'[g].age = thread[g].age
                 /\ queued[g] = NoCaller => queued'[g] = NoCaller
  <1>1. /\ generation \in Generations
        /\ thread \in [Generations -> ThreadRows]
        /\ queued \in [Generations -> Callers \cup {NoCaller}]
    BY DEF ChromaInv, ChromaTypes
  <1>2. PICK for : for = IF thread[generation].for = c THEN NoCaller
                         ELSE thread[generation].for
    OBVIOUS
  <1>3. thread' = [thread EXCEPT ![generation].for = for]
    BY <1>1, <1>2 DEF Disowned
  <1>4. thread[generation] \in ThreadRows
    BY <1>1
  <1>5. for \in Callers \cup {NoCaller}
    BY <1>2, <1>4 DEF ThreadRows
  <1>6. \A g \in Generations :
           thread'[g] = IF g = generation THEN [thread[g] EXCEPT !.for = for] ELSE thread[g]
    BY <1>1, <1>3
  <1>7. \A t \in ThreadRows : [t EXCEPT !.for = for] \in ThreadRows
                              /\ [t EXCEPT !.for = for].pc = t.pc
                              /\ [t EXCEPT !.for = for].age = t.age
    BY <1>5 DEF ThreadRows
  <1>8. \A g \in Generations : thread[g] \in ThreadRows
    BY <1>1
  <1>9. \A g \in Generations :
           thread'[g] \in ThreadRows /\ thread'[g].pc = thread[g].pc
           /\ thread'[g].age = thread[g].age
    BY <1>6, <1>7, <1>8
  <1>10. thread' \in [Generations -> ThreadRows]
    BY <1>1, <1>3, <1>9
  <1>11. queued' = [queued EXCEPT ![generation] = NoCaller]
    BY DEF Disowned
  <1>12. queued' \in [Generations -> Callers \cup {NoCaller}]
    BY <1>1, <1>11
  <1>13. \A g \in Generations : queued[g] = NoCaller => queued'[g] = NoCaller
    BY <1>1, <1>11
  <1> QED BY <1>9, <1>10, <1>12, <1>13

-----------------------------------------------------------------------------
(* The steps of the callers.                                               *)

LEMMA CallerRow ==
    ASSUME ChromaInv, NEW c \in Callers, NEW row \in CallerRows,
           caller' = [caller EXCEPT ![c] = row]
    PROVE  caller' \in [Callers -> CallerRows]
  BY DEF ChromaInv, ChromaTypes

LEMMA CallChromaKeeps ==
    ASSUME ChromaInv, NEW c \in Callers, NEW query \in BOOLEAN, CallChroma(c, query)
    PROVE  ChromaInv'
  <1>1. PICK row : row = [IdleCaller EXCEPT !.pc = "lock", !.query = query]
    OBVIOUS
  <1>2. row \in CallerRows
    BY <1>1, RowFacts DEF CallerRows
  <1>3. caller' = [caller EXCEPT ![c] = row]
    BY <1>1 DEF CallChroma
  <1>4. caller' \in [Callers -> CallerRows]
    BY <1>2, <1>3, CallerRow
  <1> QED BY <1>4, CallerStepKeeps DEF CallChroma, ChromaInv, ChromaTypes

LEMMA SubmitKeeps ==
    ASSUME ChromaInv, NEW c \in Callers, Submit(c)
    PROVE  ChromaInv'
  <1>1. /\ caller \in [Callers -> CallerRows] /\ generation \in Generations
        /\ queued \in [Generations -> Callers \cup {NoCaller}]
    BY DEF ChromaInv, ChromaTypes
  <1>2. PICK row : row = [caller[c] EXCEPT !.pc = "op", !.age = 0]
    OBVIOUS
  <1>3. row \in CallerRows
    BY <1>1, <1>2, AgeFacts DEF CallerRows
  <1>4. caller' = [caller EXCEPT ![c] = row]
    BY <1>1, <1>2 DEF Submit
  <1>5. caller' \in [Callers -> CallerRows]
    BY <1>3, <1>4, CallerRow
  <1>6. queued' = [queued EXCEPT ![generation] = c]
    BY DEF Submit
  <1>7. queued' \in [Generations -> Callers \cup {NoCaller}]
    BY <1>1, <1>6
  <1>8. \A g \in Generations : g > generation => queued'[g] = queued[g]
    BY <1>1, <1>6, AgeFacts
  <1> QED BY <1>5, <1>7, <1>8, CallerStepKeeps DEF Submit

LEMMA BecomesIdle ==
    ASSUME ChromaInv, NEW c \in Callers, caller' = [caller EXCEPT ![c] = IdleCaller]
    PROVE  caller' \in [Callers -> CallerRows]
  BY RowFacts, CallerRow

LEMMA OpTimesOutKeeps ==
    ASSUME ChromaInv, NEW c \in Callers, OpTimesOut(c)
    PROVE  ChromaInv'
  <1>1. caller' \in [Callers -> CallerRows]
    BY BecomesIdle DEF OpTimesOut
  <1>2. /\ thread' \in [Generations -> ThreadRows]
        /\ queued' \in [Generations -> Callers \cup {NoCaller}]
        /\ \A g \in Generations :
              /\ thread'[g].pc = thread[g].pc /\ thread'[g].age = thread[g].age
              /\ queued[g] = NoCaller => queued'[g] = NoCaller
    BY DisownedKeeps DEF OpTimesOut
  <1>3. UNCHANGED <<generation, opStarted, clobbered>> /\ generation \in Generations
    BY DEF OpTimesOut, ChromaInv, ChromaTypes
  <1>4. ChromaTypes'
    BY <1>1, <1>2, <1>3 DEF ChromaInv, ChromaTypes
  <1>5. NotYetBegun'
    BY <1>2, <1>3 DEF ChromaInv, NotYetBegun
  <1>6. StartIsKnown'
    BY <1>2, <1>3 DEF ChromaInv, StartIsKnown
  <1> QED BY <1>4, <1>5, <1>6 DEF ChromaInv

LEMMA RecycleKeeps ==
    ASSUME ChromaInv, NEW c \in Callers, Recycle(c)
    PROVE  ChromaInv'
  <1>1. /\ generation \in Generations /\ generation' = generation + 1
        /\ generation < MaxRecycles /\ opStarted' = NoAge /\ clobbered' = clobbered
        /\ caller \in [Callers -> CallerRows]
    BY DEF Recycle, ChromaInv, ChromaTypes
  <1>2. PICK row : row = IF caller[c].query /\ ~caller[c].retried
                         THEN [caller[c] EXCEPT !.pc = "lock", !.retried = TRUE, !.age = 0]
                         ELSE IdleCaller
    OBVIOUS
  <1>3. row \in CallerRows
    <2>1. caller[c] \in CallerRows
      BY <1>1
    <2>2. [caller[c] EXCEPT !.pc = "lock", !.retried = TRUE, !.age = 0] \in CallerRows
      BY <2>1, AgeFacts DEF CallerRows
    <2> QED BY <2>2, <1>2, RowFacts
  <1>4. caller' = [caller EXCEPT ![c] = row]
    BY <1>1, <1>2 DEF Recycle
  <1>5. caller' \in [Callers -> CallerRows]
    BY <1>3, <1>4, CallerRow
  <1>6. /\ thread' \in [Generations -> ThreadRows]
        /\ queued' \in [Generations -> Callers \cup {NoCaller}]
        /\ \A g \in Generations :
              /\ thread'[g].pc = thread[g].pc
              /\ queued[g] = NoCaller => queued'[g] = NoCaller
    BY DisownedKeeps DEF Recycle
  <1>7. generation' \in Generations /\ generation' > generation
    BY <1>1, ChromaAssumption DEF Generations
  <1>8. ChromaTypes'
    BY <1>1, <1>5, <1>6, <1>7 DEF ChromaTypes
  <1>9. \A g \in Generations : g > generation => thread'[g].pc = "idle" /\ queued'[g] = NoCaller
    BY <1>6 DEF ChromaInv, NotYetBegun
  <1>10. NotYetBegun'
    BY <1>1, <1>9, AgeFacts DEF NotYetBegun
  <1>11. StartIsKnown'
    BY <1>7, <1>9 DEF StartIsKnown
  <1> QED BY <1>8, <1>10, <1>11 DEF ChromaInv

-----------------------------------------------------------------------------
(* The steps of the threads, and time.                                     *)

LEMMA RowOf ==
    ASSUME ChromaInv, NEW g \in Generations
    PROVE  /\ thread[g] \in ThreadRows /\ thread[g].age \in Ages
           /\ thread[g].for \in Callers \cup {NoCaller}
           /\ queued[g] \in Callers \cup {NoCaller}
  BY DEF ChromaInv, ChromaTypes, ThreadRows

LEMMA BeginKeeps ==
    ASSUME ChromaInv, NEW g \in Generations, Begin(g)
    PROVE  ChromaInv'
  <1>1. PICK row : row = [pc |-> "begin", for |-> queued[g], age |-> 0]
    OBVIOUS
  <1>2. row \in ThreadRows /\ row.pc = "begin"
    BY <1>1, RowOf, AgeFacts DEF ThreadRows
  <1>3. g <= generation
    BY HasBegun DEF Begin
  <1>4. queued' = [queued EXCEPT ![g] = NoCaller] /\ thread' = [thread EXCEPT ![g] = row]
    BY <1>1 DEF Begin
  <1>5. queued' \in [Generations -> Callers \cup {NoCaller}]
    BY <1>4 DEF ChromaInv, ChromaTypes
  <1>6. \A h \in Generations : h > generation => queued'[h] = queued[h]
    BY <1>4 DEF ChromaInv, ChromaTypes, NotYetBegun
  <1>7. /\ UNCHANGED <<generation, opStarted, caller, clobbered>>
        /\ opStarted \in Ages \cup {NoAge} /\ caller \in [Callers -> CallerRows]
    BY DEF Begin, ChromaInv, ChromaTypes
  <1> QED BY <1>2, <1>3, <1>4, <1>5, <1>6, <1>7, ThreadStepKeeps

\* The comparisons and the return only move the thread on.
LEMMA ThreadMoves ==
    ASSUME ChromaInv, NEW g \in Generations, NEW pc \in {"idle", "mark", "run", "end", "clear"},
           thread[g].pc # "idle",
           thread' = [thread EXCEPT ![g].pc = pc],
           UNCHANGED <<generation, opStarted, queued, caller, clobbered>>,
           g = generation /\ pc \in {"run", "end"} => thread[g].pc \in {"run", "end"}
    PROVE  ChromaInv'
  <1>1. PICK row : row = [thread[g] EXCEPT !.pc = pc]
    OBVIOUS
  <1>2. row \in ThreadRows /\ row.pc = pc /\ row.age = thread[g].age
    BY <1>1, RowOf DEF ThreadRows
  <1>3. g <= generation
    BY HasBegun
  <1>4. thread' = [thread EXCEPT ![g] = row]
    BY <1>1 DEF ChromaInv, ChromaTypes
  <1>5. /\ opStarted \in Ages \cup {NoAge} /\ caller \in [Callers -> CallerRows]
        /\ queued \in [Generations -> Callers \cup {NoCaller}]
    BY DEF ChromaInv, ChromaTypes
  <1>6. g = generation /\ row.pc \in {"run", "end"} => clobbered' \/ opStarted' = row.age
    BY <1>2 DEF ChromaInv, StartIsKnown
  <1> QED BY <1>2, <1>3, <1>4, <1>5, <1>6, ThreadStepKeeps

LEMMA MarkKeeps ==
    ASSUME ChromaInv, NEW g \in Generations, Mark(g)
    PROVE  ChromaInv'
  <1>1. PICK row : row = [thread[g] EXCEPT !.pc = "run", !.age = 0]
    OBVIOUS
  <1>2. row \in ThreadRows /\ row.age = 0
    BY <1>1, RowOf, AgeFacts DEF ThreadRows
  <1>3. g <= generation
    BY HasBegun DEF Mark
  <1>4. thread' = [thread EXCEPT ![g] = row]
    BY <1>1 DEF Mark, ChromaInv, ChromaTypes
  <1>5. /\ caller' = caller /\ caller \in [Callers -> CallerRows] /\ queued' = queued
        /\ queued \in [Generations -> Callers \cup {NoCaller}] /\ generation' = generation
        /\ opStarted' = 0 /\ opStarted' \in Ages \cup {NoAge}
    BY AgeFacts DEF Mark, ChromaInv, ChromaTypes
  <1>6. g # generation => clobbered'
    BY DEF Mark
  <1> QED BY <1>2, <1>3, <1>4, <1>5, <1>6, ThreadStepKeeps

LEMMA ClearKeeps ==
    ASSUME ChromaInv, NEW g \in Generations, Clear(g)
    PROVE  ChromaInv'
  <1>1. g <= generation
    BY HasBegun DEF Clear
  <1>2. caller' \in [Callers -> CallerRows]
    <2>1. \A c \in Callers : caller[c] \in CallerRows
      BY DEF ChromaInv, ChromaTypes
    <2>2. \A r \in CallerRows : [r EXCEPT !.pc = "done"] \in CallerRows
      BY DEF CallerRows
    <2> QED BY <2>1, <2>2 DEF Clear
  <1>3. /\ queued' = queued /\ queued \in [Generations -> Callers \cup {NoCaller}]
        /\ generation' = generation /\ opStarted' \in Ages \cup {NoAge}
        /\ thread' = [thread EXCEPT ![g] = IdleThread]
    BY DEF Clear, ChromaInv, ChromaTypes
  <1>4. g # generation => clobbered'
    BY DEF Clear
  <1>5. IdleThread \in ThreadRows /\ IdleThread.pc \notin {"run", "end"}
    BY RowFacts
  <1> QED BY <1>1, <1>2, <1>3, <1>4, <1>5, ThreadStepKeeps

LEMMA TickKeeps ==
    ASSUME ChromaInv, Tick
    PROVE  ChromaInv'
  <1>1. /\ generation' = generation /\ generation \in Generations /\ queued' = queued
        /\ queued \in [Generations -> Callers \cup {NoCaller}] /\ clobbered' = clobbered
        /\ opStarted \in Ages \cup {NoAge} /\ opStarted' = Older(opStarted)
    BY DEF Tick, ChromaInv, ChromaTypes
  <1>2. opStarted' \in Ages \cup {NoAge}
    BY <1>1, AgeFacts
  <1>3. \A t \in ThreadRows : /\ [t EXCEPT !.age = Older(t.age)] \in ThreadRows
                              /\ [t EXCEPT !.age = Older(t.age)].pc = t.pc
                              /\ [t EXCEPT !.age = Older(t.age)].age = Older(t.age)
    <2> SUFFICES ASSUME NEW t \in ThreadRows
                 PROVE  /\ [t EXCEPT !.age = Older(t.age)] \in ThreadRows
                        /\ [t EXCEPT !.age = Older(t.age)].pc = t.pc
                        /\ [t EXCEPT !.age = Older(t.age)].age = Older(t.age)
      OBVIOUS
    <2>1. Older(t.age) \in Ages
      BY AgeFacts DEF ThreadRows
    <2> QED BY <2>1 DEF ThreadRows
  <1>4. \A r \in CallerRows : [r EXCEPT !.age = Older(r.age)] \in CallerRows
    <2> SUFFICES ASSUME NEW r \in CallerRows
                 PROVE  [r EXCEPT !.age = Older(r.age)] \in CallerRows
      OBVIOUS
    <2>1. Older(r.age) \in Ages
      BY AgeFacts DEF CallerRows
    <2> QED BY <2>1 DEF CallerRows
  <1>5. caller' \in [Callers -> CallerRows]
    <2>1. \A c \in Callers : caller[c] \in CallerRows
      BY DEF ChromaInv, ChromaTypes
    <2> QED BY <2>1, <1>4 DEF Tick
  <1>6. \A g \in Generations :
           /\ thread'[g] \in ThreadRows /\ thread'[g].pc = thread[g].pc
           /\ g = generation /\ thread[g].pc # "idle" => thread'[g].age = Older(thread[g].age)
    <2> SUFFICES ASSUME NEW g \in Generations
                 PROVE  /\ thread'[g] \in ThreadRows /\ thread'[g].pc = thread[g].pc
                        /\ g = generation /\ thread[g].pc # "idle" =>
                              thread'[g].age = Older(thread[g].age)
      OBVIOUS
    <2>1. thread[g] \in ThreadRows
      BY RowOf
    <2>2. thread'[g] = IF thread[g].pc = "idle" \/ g # generation THEN thread[g]
                       ELSE [thread[g] EXCEPT !.age = Older(thread[g].age)]
      BY DEF Tick
    <2> QED BY <2>1, <2>2, <1>3
  <1>7. thread' \in [Generations -> ThreadRows]
    BY <1>6 DEF Tick
  <1>8. ChromaTypes'
    BY <1>1, <1>2, <1>5, <1>7 DEF ChromaTypes
  <1>9. NotYetBegun'
    BY <1>1, <1>6 DEF ChromaInv, NotYetBegun
  <1>10. StartIsKnown'
    BY <1>1, <1>6 DEF ChromaInv, StartIsKnown
  <1> QED BY <1>8, <1>9, <1>10 DEF ChromaInv

LEMMA ChromaStep == ChromaInv /\ [ChromaNext]_chromaVars => ChromaInv'
  <1> SUFFICES ASSUME ChromaInv, [ChromaNext]_chromaVars PROVE ChromaInv'
    OBVIOUS
  <1>1. ASSUME NEW c \in Callers, NEW query \in BOOLEAN, CallChroma(c, query)
        PROVE  ChromaInv'
    BY <1>1, CallChromaKeeps
  <1>2. ASSUME NEW c \in Callers, Submit(c) PROVE ChromaInv'
    BY <1>2, SubmitKeeps
  <1>3. ASSUME NEW c \in Callers, LockTimesOut(c) PROVE ChromaInv'
    <2>1. caller' \in [Callers -> CallerRows]
      BY <1>3, BecomesIdle DEF LockTimesOut
    <2> QED BY <2>1, <1>3, CallerStepKeeps DEF LockTimesOut, ChromaInv, ChromaTypes
  <1>4. ASSUME NEW c \in Callers, Answered(c) PROVE ChromaInv'
    <2>1. caller' \in [Callers -> CallerRows]
      BY <1>4, BecomesIdle DEF Answered
    <2> QED BY <2>1, <1>4, CallerStepKeeps DEF Answered, ChromaInv, ChromaTypes
  <1>5. ASSUME NEW c \in Callers, OpTimesOut(c) PROVE ChromaInv'
    BY <1>5, OpTimesOutKeeps
  <1>6. ASSUME NEW c \in Callers, Recycle(c) PROVE ChromaInv'
    BY <1>6, RecycleKeeps
  <1>7. ASSUME NEW g \in Generations, Begin(g) PROVE ChromaInv'
    BY <1>7, BeginKeeps
  <1>8. ASSUME NEW g \in Generations, CompareBefore(g) PROVE ChromaInv'
    <2>1. PICK pc : pc = IF g = generation THEN "mark" ELSE "run"
      OBVIOUS
    <2>2. thread' = [thread EXCEPT ![g].pc = pc]
      BY <1>8, <2>1 DEF CompareBefore
    <2>3. pc \in {"idle", "mark", "run", "end", "clear"}
          /\ (g = generation => pc \notin {"run", "end"})
      BY <2>1
    <2> QED BY <1>8, <2>2, <2>3, ThreadMoves DEF CompareBefore
  <1>9. ASSUME NEW g \in Generations, Mark(g) PROVE ChromaInv'
    BY <1>9, MarkKeeps
  <1>10. ASSUME NEW g \in Generations, Return(g) PROVE ChromaInv'
    BY <1>10, ThreadMoves DEF Return
  <1>11. ASSUME NEW g \in Generations, CompareAfter(g) PROVE ChromaInv'
    <2>1. PICK pc : pc = IF g = generation THEN "clear" ELSE "idle"
      OBVIOUS
    <2>2. thread' = [thread EXCEPT ![g].pc = pc]
      BY <1>11, <2>1 DEF CompareAfter
    <2>3. pc \in {"idle", "mark", "run", "end", "clear"} /\ pc \notin {"run", "end"}
      BY <2>1
    <2> QED BY <1>11, <2>2, <2>3, ThreadMoves DEF CompareAfter
  <1>12. ASSUME NEW g \in Generations, Clear(g) PROVE ChromaInv'
    BY <1>12, ClearKeeps
  <1>13. CASE Tick
    BY <1>13, TickKeeps
  <1>14. CASE UNCHANGED chromaVars
    BY <1>14, CallerStepKeeps DEF chromaVars, ChromaInv, ChromaTypes
  <1> QED
    BY <1>1, <1>2, <1>3, <1>4, <1>5, <1>6, <1>7, <1>8, <1>9, <1>10, <1>11, <1>12,
       <1>13, <1>14
    DEF ChromaNext

-----------------------------------------------------------------------------
(* A caller that times out.                                                *)

\* In terms of one step.
Judged ==
    \A c \in Callers :
        LET g == generation
            timedOut == caller[c].pc = "op" /\ caller[c].age >= OpTimeout
                        /\ caller'[c].pc # "op" /\ caller'[c].pc # "done"
        IN timedOut /\ ~clobbered /\ thread[g].pc \in {"run", "end"} =>
             (generation' # g <=> thread[g].age > ZombieThreshold)

\* Only its own time-out takes a caller out of its operation without an answer.
LEMMA WhoTimesOut ==
    ASSUME ChromaInv, ChromaNext, NEW c \in Callers, caller[c].pc = "op",
           caller'[c].pc \notin {"op", "done"}
    PROVE  OpTimesOut(c) \/ Recycle(c)
  <1>1. caller \in [Callers -> CallerRows]
    BY DEF ChromaInv, ChromaTypes
  <1>2. \A d \in Callers : \A row : caller' = [caller EXCEPT ![d] = row] =>
            \A b \in Callers \ {d} : caller'[b] = caller[b]
    BY <1>1
  <1>3. caller' # caller
    OBVIOUS
  <1>4. ASSUME NEW d \in Callers, NEW query \in BOOLEAN, CallChroma(d, query) PROVE FALSE
    BY <1>2, <1>4 DEF CallChroma
  <1>5. ASSUME NEW d \in Callers, Submit(d) PROVE FALSE
    <2>1. PICK row : row = [caller[d] EXCEPT !.pc = "op", !.age = 0]
      OBVIOUS
    <2>2. caller' = [caller EXCEPT ![d] = row]
      BY <2>1, <1>1, <1>5 DEF Submit
    <2> QED BY <1>2, <1>5, <2>2 DEF Submit
  <1>6. ASSUME NEW d \in Callers, LockTimesOut(d) PROVE FALSE
    BY <1>2, <1>6 DEF LockTimesOut
  <1>7. ASSUME NEW d \in Callers, Answered(d) PROVE FALSE
    BY <1>2, <1>7 DEF Answered
  <1>8. ASSUME NEW d \in Callers, OpTimesOut(d) PROVE d = c
    BY <1>2, <1>8 DEF OpTimesOut
  <1>9. ASSUME NEW d \in Callers, Recycle(d) PROVE d = c
    <2>1. PICK row : row = IF caller[d].query /\ ~caller[d].retried
                           THEN [caller[d] EXCEPT !.pc = "lock", !.retried = TRUE, !.age = 0]
                           ELSE IdleCaller
      OBVIOUS
    <2>2. caller' = [caller EXCEPT ![d] = row]
      BY <2>1, <1>1, <1>9 DEF Recycle
    <2> QED BY <1>2, <2>2
  <1>10. ASSUME NEW g \in Generations, Begin(g) \/ CompareBefore(g) \/ Mark(g) \/ Return(g)
                                       \/ CompareAfter(g)
         PROVE  FALSE
    BY <1>3, <1>10 DEF Begin, CompareBefore, Mark, Return, CompareAfter
  <1>11. ASSUME NEW g \in Generations, Clear(g) PROVE FALSE
    <2>1. caller'[c] = IF c = thread[g].for THEN [caller[c] EXCEPT !.pc = "done"] ELSE caller[c]
      BY <1>11 DEF Clear
    <2>2. caller[c] \in CallerRows
      BY <1>1
    <2> QED BY <2>1, <2>2 DEF CallerRows
  <1>12. CASE Tick
    <2>1. caller'[c] = [caller[c] EXCEPT !.age = Older(caller[c].age)]
      BY <1>12 DEF Tick
    <2>2. caller[c] \in CallerRows
      BY <1>1
    <2> QED BY <2>1, <2>2 DEF CallerRows
  <1> QED
    BY <1>4, <1>5, <1>6, <1>7, <1>8, <1>9, <1>10, <1>11, <1>12 DEF ChromaNext

LEMMA StepIsJudged == ChromaInv /\ [ChromaNext]_chromaVars => [Judged]_chromaVars
  <1> SUFFICES ASSUME ChromaInv, ChromaNext, NEW c \in Callers,
                      caller[c].pc = "op", caller'[c].pc # "op", caller'[c].pc # "done",
                      ~clobbered, thread[generation].pc \in {"run", "end"}
               PROVE  generation' # generation <=> thread[generation].age > ZombieThreshold
    BY DEF Judged
  <1>1. OpTimesOut(c) \/ Recycle(c)
    BY WhoTimesOut
  <1>2. generation \in Generations /\ generation \in Nat
    BY AgeFacts DEF ChromaInv, ChromaTypes
  <1>3. opStarted = thread[generation].age /\ opStarted \in Ages
    BY <1>2, RowOf DEF ChromaInv, StartIsKnown
  <1>4. Occupancy(c) = thread[generation].age
    BY <1>3, AgeFacts DEF Occupancy
  <1>5. thread[generation].age \in Nat /\ ZombieThreshold \in Nat
    BY <1>3, ChromaAssumption DEF Ages, AgeCap
  <1>6. CASE OpTimesOut(c)
    BY <1>4, <1>5, <1>6 DEF OpTimesOut
  <1>7. CASE Recycle(c)
    BY <1>2, <1>4, <1>5, <1>7 DEF Recycle
  <1> QED BY <1>1, <1>6, <1>7

\* Whatever the timeouts and however many callers and hung threads: a caller that
\* times out replaces the thread exactly when the call the thread is in has run
\* for longer than the threshold, until a thread left behind has written the
\* shared start (run_with_chroma, _run_tracked).
THEOREM JudgedFairly == ChromaSpec => JudgedByRunningCall
  <1>1. JudgedByRunningCall <=> [][Judged]_chromaVars
    BY PTL DEF JudgedByRunningCall, Judged
  <1> QED BY <1>1, ChromaInitially, ChromaStep, StepIsJudged, PTL DEF ChromaSpec

-----------------------------------------------------------------------------
(* Numbers: the least, the greatest, and what holds step by step.          *)

LEMMA LessThanPair ==
    ASSUME NEW y \in Nat, NEW x \in Nat, y < x
    PROVE  <<y, x>> \in OpToRel(<, Nat)
  <1> DEFINE p == <<y, x>>
  <1>1. p \in Nat \X Nat /\ p[1] = y /\ p[2] = x
    OBVIOUS
  <1>2. p[1] < p[2]
    BY <1>1
  <1> HIDE DEF p
  <1>3. p \in OpToRel(<, Nat)
    BY <1>1, <1>2, Zenon DEF OpToRel
  <1> QED
    BY <1>3 DEF p

LEMMA LeastOf ==
    ASSUME NEW S, S \subseteq Nat, S # {}
    PROVE  \E x \in S : \A y \in S : x <= y
  <1>1. PICK x \in S : \A y \in S : ~ (<<y, x>> \in OpToRel(<, Nat))
    BY NatLessThanWellFounded, WFMin, Zenon
  <1>2. ASSUME NEW y \in S
        PROVE  x <= y
    <2>1. x \in Nat /\ y \in Nat
      OBVIOUS
    <2>2. ~ (y < x)
      BY <1>1, <2>1, LessThanPair, Zenon
    <2> QED BY <2>1, <2>2
  <1> QED BY <1>2

LEMMA GreatestOf ==
    ASSUME NEW S, S \subseteq Nat, S # {}, NEW n \in Nat, \A x \in S : x <= n
    PROVE  \E m \in S : \A x \in S : x <= m
  <1> DEFINE T == {n - x : x \in S}
  <1>1. T \subseteq Nat /\ T # {}
    <2>1. ASSUME NEW x \in S PROVE n - x \in Nat
      <3>1. x \in Nat /\ x <= n
        OBVIOUS
      <3> QED BY <3>1
    <2> QED BY <2>1
  <1>2. PICK d \in T : \A y \in T : d <= y
    <2> HIDE DEF T
    <2> QED BY <1>1, LeastOf
  <1>3. PICK m \in S : d = n - m
    OBVIOUS
  <1>4. ASSUME NEW x \in S
        PROVE  x <= m
    <2>1. n - x \in T
      OBVIOUS
    <2>2. n - m <= n - x
      BY <1>2, <1>3, <2>1
    <2>3. x \in Nat /\ m \in Nat
      OBVIOUS
    <2> QED BY <2>2, <2>3
  <1> QED BY <1>4

\* What holds at the start, and after each number when at that number, holds at
\* all of them.
LEMMA Upwards ==
    ASSUME NEW n \in Nat, NEW S, 0 \in S,
           \A i \in 0..n : i < n /\ i \in S => i + 1 \in S
    PROVE  \A i \in 0..n : i \in S
  <1> DEFINE R == {i \in 0..n : i \notin S}
  <1>1. SUFFICES ASSUME R # {} PROVE FALSE
    OBVIOUS
  <1>2. R \subseteq Nat
    OBVIOUS
  <1>3. PICK x \in R : \A y \in R : x <= y
    <2> HIDE DEF R
    <2> QED BY <1>1, <1>2, LeastOf
  <1>4. x \in 0..n /\ x # 0 /\ x \notin S
    OBVIOUS
  <1>5. x - 1 \in 0..n /\ x - 1 < n /\ ~ (x <= x - 1)
    BY <1>4
  <1>6. x - 1 \in S
    BY <1>3, <1>5
  <1>7. (x - 1) + 1 \in S
    BY <1>5, <1>6
  <1> QED BY <1>4, <1>7

-----------------------------------------------------------------------------
(* LlmStream: parts of a text.                                             *)

LEMMA Part ==
    ASSUME NEW t \in Seq(STRING), NEW m \in Nat, NEW n \in Nat, n <= Len(t)
    PROVE  /\ SubSeq(t, m + 1, n) \in Seq(STRING)
           /\ Len(SubSeq(t, m + 1, n)) = (IF m <= n THEN n - m ELSE 0)
           /\ \A i \in 1..(n - m) : SubSeq(t, m + 1, n)[i] = t[m + i]
  <1>1. \A i \in (m + 1)..n : t[i] \in STRING
    OBVIOUS
  <1>2. m + 1 \in Int /\ n \in Int /\ n - (m + 1) + 1 = n - m
    OBVIOUS
  <1>3. /\ SubSeq(t, m + 1, n) \in Seq(STRING)
        /\ Len(SubSeq(t, m + 1, n)) = (IF m + 1 <= n THEN n - (m + 1) + 1 ELSE 0)
        /\ \A i \in 1..(n - (m + 1) + 1) : SubSeq(t, m + 1, n)[i] = t[m + 1 + i - 1]
    BY <1>1, <1>2, SubSeqProperties
  <1>4. \A i \in 1..(n - m) : m + 1 + i - 1 = m + i
    OBVIOUS
  <1> QED BY <1>2, <1>3, <1>4

LEMMA PartOfPart ==
    ASSUME NEW t \in Seq(STRING), NEW m \in Nat, NEW e \in Nat, m <= e, e <= Len(t),
           NEW b, b = SubSeq(t, m + 1, e),
           NEW i \in Nat, NEW j \in Nat, j <= e - m
    PROVE  SubSeq(b, i + 1, j) = SubSeq(t, m + i + 1, m + j)
  <1>1. b \in Seq(STRING) /\ Len(b) = e - m /\ \A k \in 1..(e - m) : b[k] = t[m + k]
    BY Part
  <1> DEFINE l == SubSeq(b, i + 1, j)
             r == SubSeq(t, m + i + 1, m + j)
  <1>2. /\ l \in Seq(STRING) /\ Len(l) = (IF i <= j THEN j - i ELSE 0)
        /\ \A k \in 1..(j - i) : l[k] = b[i + k]
    <2>1. b \in Seq(STRING) /\ j <= Len(b)
      BY <1>1
    <2> QED BY <2>1, Part
  <1>3. m + i \in Nat /\ m + j \in Nat /\ m + j <= Len(t) /\ (m + j) - (m + i) = j - i
        /\ (m + i <= m + j <=> i <= j)
    OBVIOUS
  <1>4. /\ r \in Seq(STRING) /\ Len(r) = (IF i <= j THEN j - i ELSE 0)
        /\ \A k \in 1..(j - i) : r[k] = t[m + i + k]
    <2> DEFINE x == m + i
               y == m + j
    <2>1. /\ SubSeq(t, x + 1, y) \in Seq(STRING)
          /\ Len(SubSeq(t, x + 1, y)) = (IF x <= y THEN y - x ELSE 0)
          /\ \A k \in 1..(y - x) : SubSeq(t, x + 1, y)[k] = t[x + k]
      <3>1. x \in Nat /\ y \in Nat /\ y <= Len(t)
        BY <1>3
      <3> HIDE DEF x, y
      <3> QED BY <3>1, Part
    <2> QED BY <1>3, <2>1
  <1> HIDE DEF l, r
  <1>5. ASSUME NEW k \in 1..Len(l)
        PROVE  l[k] = r[k]
    <2>1. k \in 1..(j - i) /\ i + k \in 1..(e - m) /\ m + (i + k) = m + i + k
      BY <1>2
    <2> QED BY <1>1, <1>2, <1>4, <2>1
  <1>6. l = r
    BY <1>2, <1>4, <1>5, SeqEqual
  <1> QED BY <1>6 DEF l, r

LEMMA Joined ==
    ASSUME NEW t \in Seq(STRING), NEW m \in Nat, NEW k \in Nat, NEW n \in Nat,
           m <= k, k <= n, n <= Len(t)
    PROVE  SubSeq(t, m + 1, k) \o SubSeq(t, k + 1, n) = SubSeq(t, m + 1, n)
  <1>1. /\ m + 1 \in 1..(Len(t) + 1) /\ k \in ((m + 1) - 1)..Len(t) /\ n \in k..Len(t)
    OBVIOUS
  <1> QED BY <1>1, ConcatAdjacentSubSeq

\* A tag begins in a part where it begins in the whole, if it ends in the part.
LEMMA BeginsInPart ==
    ASSUME NEW t \in Seq(STRING), NEW m \in Nat, NEW e \in Nat, m <= e, e <= Len(t),
           NEW b, b = SubSeq(t, m + 1, e),
           NEW tag \in Seq(STRING) \ {<<>>}, NEW i \in 1..(e - m)
    PROVE  Begins(tag, b, i) <=> Begins(tag, t, m + i) /\ m + i + Len(tag) - 1 <= e
  <1>1. Len(b) = e - m
    BY Part
  <1>2. Len(tag) \in Nat \ {0}
    BY EmptySeq
  <1>3. CASE i + Len(tag) - 1 <= e - m
    <2> DEFINE x == i - 1
               y == i + Len(tag) - 1
    <2>1. x \in Nat /\ y \in Nat /\ y <= e - m /\ x + 1 = i
          /\ m + x + 1 = m + i /\ m + y = m + i + Len(tag) - 1
      BY <1>2, <1>3
    <2>2. SubSeq(b, x + 1, y) = SubSeq(t, m + x + 1, m + y)
      <3> HIDE DEF x, y
      <3> QED BY <2>1, PartOfPart
    <2>3. SubSeq(b, i, i + Len(tag) - 1) = SubSeq(t, m + i, m + i + Len(tag) - 1)
      BY <2>1, <2>2
    <2>4. m + i + Len(tag) - 1 <= e /\ m + i + Len(tag) - 1 <= Len(t)
      BY <1>2, <1>3
    <2> QED BY <1>1, <1>3, <2>3, <2>4 DEF Begins
  <1>4. CASE ~ (i + Len(tag) - 1 <= e - m)
    <2>1. ~ (m + i + Len(tag) - 1 <= e)
      BY <1>2, <1>4
    <2> QED BY <1>1, <1>4, <2>1 DEF Begins
  <1> QED BY <1>3, <1>4

-----------------------------------------------------------------------------
(* LlmStream: a text that is there as a whole.                             *)

IsIteration(f, s, n, g) == f = [i \in 0..n |-> IF i = 0 THEN s ELSE g[<<i, f[i - 1]>>]]

\* A function that is defined by steps is there when a step leads from state to state.
LEMMA Iterates ==
    ASSUME NEW S, NEW s \in S, NEW n \in Nat, NEW g,
           \A i \in 1..n : \A x \in S : g[<<i, x>>] \in S
    PROVE  \E f \in [0..n -> S] : IsIteration(f, s, n, g)
  <1> DEFINE Good(m, f) == f[0] = s /\ \A i \in 1..m : f[i] = g[<<i, f[i - 1]>>]
             M == {m \in 0..n : \E f \in [0..m -> S] : Good(m, f)}
  <1>1. 0 \in M
    <2> DEFINE f == [i \in 0..0 |-> s]
    <2>1. f \in [0..0 -> S] /\ f[0] = s
      OBVIOUS
    <2> HIDE DEF f
    <2>2. Good(0, f)
      BY <2>1
    <2> QED BY <2>1, <2>2
  <1>2. ASSUME NEW m \in 0..n, m < n, m \in M
        PROVE  m + 1 \in M
    <2>1. PICK f \in [0..m -> S] : Good(m, f)
      BY <1>2
    <2> DEFINE h == [i \in 0..(m + 1) |-> IF i <= m THEN f[i] ELSE g[<<m + 1, f[m]>>]]
    <2>2. m \in Nat /\ m \in 0..m /\ m + 1 \in 1..n /\ m + 1 \in 0..n
      BY <1>2
    <2>3. g[<<m + 1, f[m]>>] \in S
      BY <2>2
    <2>4. h \in [0..(m + 1) -> S]
      BY <2>2, <2>3
    <2>5. \A i \in 0..m : h[i] = f[i]
      BY <2>2
    <2>6. h[m + 1] = g[<<m + 1, f[m]>>]
      BY <2>2
    <2> HIDE DEF h
    <2>7. h[0] = s
      BY <2>1, <2>2, <2>5
    <2>8. ASSUME NEW i \in 1..(m + 1)
          PROVE  h[i] = g[<<i, h[i - 1]>>]
      <3>1. CASE i <= m
        <4>1. i \in 1..m /\ i \in 0..m /\ i - 1 \in 0..m
          BY <2>2, <3>1
        <4> QED BY <2>1, <2>5, <4>1
      <3>2. CASE ~ (i <= m)
        <4>1. i = m + 1 /\ i - 1 = m
          BY <2>2, <3>2
        <4> QED BY <2>2, <2>5, <2>6, <4>1
      <3> QED BY <3>1, <3>2
    <2>9. Good(m + 1, h)
      BY <2>7, <2>8
    <2> HIDE DEF Good
    <2> QED BY <2>2, <2>4, <2>9
  <1>3. n \in M
    <2> HIDE DEF M
    <2>1. \A i \in 0..n : i \in M
      BY <1>1, <1>2, Upwards
    <2> QED BY <2>1
  <1>4. PICK f \in [0..n -> S] : Good(n, f)
    BY <1>3
  <1> DEFINE r == [i \in 0..n |-> IF i = 0 THEN s ELSE g[<<i, f[i - 1]>>]]
  <1>5. \A i \in 0..n : f[i] = r[i]
    <2> TAKE i \in 0..n
    <2>1. CASE i = 0
      BY <1>4, <2>1
    <2>2. CASE i # 0
      <3>1. i \in 1..n
        BY <2>2
      <3> QED BY <1>4, <2>2, <3>1
    <2> QED BY <2>1, <2>2
  <1>6. f = r
    <2>1. f = [i \in 0..n |-> f[i]]
      OBVIOUS
    <2>2. r = [i \in 0..n |-> r[i]]
      OBVIOUS
    <2> HIDE DEF r
    <2> QED BY <1>5, <2>1, <2>2
  <1>7. IsIteration(f, s, n, g)
    BY <1>6 DEF IsIteration
  <1> QED BY <1>7

Readers == [thinking : BOOLEAN, until : Nat, kept : Seq(STRING)]

LEMMA Tags ==
    ASSUME NEW thinking
    PROVE  /\ TagIn(thinking) \in Seq(STRING) \ {<<>>}
           /\ TagIn(thinking) \in Seq(STRING) /\ Len(TagIn(thinking)) \in Nat \ {0}
  <1>1. TagIn(thinking) \in Seq(STRING) \ {<<>>}
    BY StreamAssumption DEF TagIn
  <1> QED BY <1>1, EmptySeq

\* The cases of one character.
LEMMA ReadCases ==
    ASSUME NEW t \in Seq(STRING), NEW r \in Readers, NEW i \in 1..Len(t),
           NEW q, q = Read(r, t, i)
    PROVE  /\ q \in Readers /\ r.until <= q.until /\ q.until \in Nat /\ r.until \in Nat
           /\ i <= r.until => q = r
           /\ ~ (i <= r.until) /\ Begins(TagIn(r.thinking), t, i) =>
                 /\ q.thinking = ~r.thinking /\ q.kept = r.kept
                 /\ q.until = i + Len(TagIn(r.thinking)) - 1
           /\ ~ (i <= r.until) /\ ~Begins(TagIn(r.thinking), t, i) =>
                 /\ q.thinking = r.thinking /\ q.until = r.until
                 /\ q.kept = IF r.thinking THEN r.kept ELSE Append(r.kept, t[i])
  <1> DEFINE tag == TagIn(r.thinking)
  <1>1. /\ r.thinking \in BOOLEAN /\ r.until \in Nat /\ r.kept \in Seq(STRING)
        /\ t[i] \in STRING /\ Len(tag) \in Nat \ {0} /\ i \in Nat \ {0}
    BY Tags DEF Readers
  <1>2. CASE i <= r.until
    <2>1. q = r
      BY <1>2 DEF Read
    <2> QED BY <1>1, <1>2, <2>1
  <1>3. CASE ~ (i <= r.until) /\ Begins(tag, t, i)
    <2>1. q = [thinking |-> ~r.thinking, until |-> i + Len(tag) - 1, kept |-> r.kept]
      BY <1>3 DEF Read
    <2>2. /\ q.thinking = ~r.thinking /\ q.until = i + Len(tag) - 1 /\ q.kept = r.kept
      BY <2>1
    <2>3. i + Len(tag) - 1 \in Nat /\ r.until <= i + Len(tag) - 1
      BY <1>1, <1>3
    <2>4. q \in Readers
      BY <1>1, <2>1, <2>3 DEF Readers
    <2> QED BY <1>1, <1>3, <2>2, <2>3, <2>4
  <1>4. CASE ~ (i <= r.until) /\ ~Begins(tag, t, i)
    <2>1. CASE r.thinking
      <3>1. q = r
        BY <1>4, <2>1 DEF Read
      <3>2. q.thinking = r.thinking /\ q.until = r.until /\ q.kept = r.kept
        BY <3>1
      <3>3. r.until <= q.until /\ q.until \in Nat /\ q \in Readers
        BY <1>1, <3>1, <3>2
      <3>4. q.kept = IF r.thinking THEN r.kept ELSE Append(r.kept, t[i])
        BY <2>1, <3>2, Zenon
      <3> QED BY <1>1, <1>4, <3>1, <3>2, <3>3, <3>4, Zenon
    <2>2. CASE ~r.thinking
      <3>1. q = [r EXCEPT !.kept = Append(r.kept, t[i])]
        BY <1>4, <2>2 DEF Read
      <3>2. Append(r.kept, t[i]) \in Seq(STRING)
        BY <1>1
      <3>3. /\ q.thinking = r.thinking /\ q.until = r.until /\ q.kept = Append(r.kept, t[i])
            /\ q \in Readers
        BY <1>1, <3>1, <3>2 DEF Readers
      <3> QED BY <1>1, <1>4, <2>2, <3>3
    <2> QED BY <2>1, <2>2
  <1> QED BY <1>2, <1>3, <1>4

LEMMA ReadTypes ==
    ASSUME NEW t \in Seq(STRING), NEW r \in Readers, NEW i \in 1..Len(t),
           NEW q, q = Read(r, t, i)
    PROVE  q \in Readers /\ r.until <= q.until /\ q.until \in Nat /\ r.until \in Nat
  BY ReadCases

LEMMA ReadInside ==
    ASSUME NEW t \in Seq(STRING), NEW r \in Readers, NEW i \in 1..Len(t), i <= r.until
    PROVE  Read(r, t, i) = r
  BY DEF Read

LEMMA ReadsTag ==
    ASSUME NEW t \in Seq(STRING), NEW r \in Readers, NEW i \in 1..Len(t),
           NEW q, q = Read(r, t, i), ~ (i <= r.until), Begins(TagIn(r.thinking), t, i)
    PROVE  /\ q.thinking = ~r.thinking /\ q.kept = r.kept
           /\ q.until = i + Len(TagIn(r.thinking)) - 1
  BY ReadCases

LEMMA ReadsPlain ==
    ASSUME NEW t \in Seq(STRING), NEW r \in Readers, NEW i \in 1..Len(t),
           NEW q, q = Read(r, t, i), ~ (i <= r.until), ~Begins(TagIn(r.thinking), t, i)
    PROVE  /\ q.thinking = r.thinking /\ q.until = r.until
           /\ r.thinking => q.kept = r.kept
           /\ ~r.thinking => q.kept = Append(r.kept, t[i])
  <1>1. /\ q.thinking = r.thinking /\ q.until = r.until
        /\ q.kept = IF r.thinking THEN r.kept ELSE Append(r.kept, t[i])
    BY ReadCases
  <1> QED BY <1>1, Zenon

LEMMA ReadingIs ==
    ASSUME NEW t \in Seq(STRING)
    PROVE  /\ ReadingOf(t)[0] = Unread
           /\ \A i \in 1..Len(t) : ReadingOf(t)[i] = Read(ReadingOf(t)[i - 1], t, i)
           /\ \A i \in 0..Len(t) : ReadingOf(t)[i] \in Readers
  <1> DEFINE n == Len(t)
             g == [x \in (1..n) \X Readers |-> Read(x[2], t, x[1])]
             after[i \in 0..n] == IF i = 0 THEN Unread ELSE Read(after[i - 1], t, i)
  <1>1. n \in Nat
    OBVIOUS
  <1>2. Unread \in Readers
    BY EmptySeq DEF Unread, Readers
  <1>3. \A i \in 1..n : \A x \in Readers : g[<<i, x>>] = Read(x, t, i) /\ Read(x, t, i) \in Readers
    BY ReadCases
  <1>4. ReadingOf(t) = after
    BY DEF ReadingOf
  <1>5. after = CHOOSE f : f = [i \in 0..n |-> IF i = 0 THEN Unread ELSE Read(f[i - 1], t, i)]
    OBVIOUS
  <1> HIDE DEF after, g
  <1>6. PICK f \in [0..n -> Readers] : IsIteration(f, Unread, n, g)
    <2> HIDE DEF n
    <2>1. \A i \in 1..n : \A x \in Readers : g[<<i, x>>] \in Readers
      BY <1>3
    <2> QED BY <1>1, <1>2, <2>1, Iterates
  <1>7. f = [i \in 0..n |-> IF i = 0 THEN Unread ELSE Read(f[i - 1], t, i)]
    <2>1. ASSUME NEW i \in 0..n
          PROVE  (IF i = 0 THEN Unread ELSE g[<<i, f[i - 1]>>])
                   = (IF i = 0 THEN Unread ELSE Read(f[i - 1], t, i))
      <3>1. CASE i = 0
        BY <3>1
      <3>2. CASE i # 0
        <4>1. i \in 1..n /\ i - 1 \in 0..n
          BY <3>2
        <4> QED BY <1>3, <1>6, <4>1
      <3> QED BY <3>1, <3>2
    <2>2. f = [i \in 0..n |-> IF i = 0 THEN Unread ELSE g[<<i, f[i - 1]>>]]
      BY <1>6 DEF IsIteration
    <2> QED BY <2>1, <2>2
  <1>8. after = [i \in 0..n |-> IF i = 0 THEN Unread ELSE Read(after[i - 1], t, i)]
    BY <1>5, <1>7
  <1>9. 0 \in 0..n /\ \A i \in 1..n : i \in 0..n /\ i # 0 /\ i - 1 \in 0..n
    BY <1>1
  <1>10. after[0] = Unread /\ \A i \in 1..n : after[i] = Read(after[i - 1], t, i)
    <2>1. after[0] = Unread
      BY <1>8, <1>9
    <2>2. ASSUME NEW i \in 1..n
          PROVE  after[i] = Read(after[i - 1], t, i)
      BY <1>8, <1>9
    <2> QED BY <2>1, <2>2
  <1>11. \A i \in 0..n : after[i] \in Readers
    <2> DEFINE S == {i \in 0..n : after[i] \in Readers}
    <2>1. 0 \in S
      BY <1>2, <1>9, <1>10
    <2>2. ASSUME NEW i \in 0..n, i < n, i \in S
          PROVE  i + 1 \in S
      <3>1. i + 1 \in 1..n /\ (i + 1) - 1 = i /\ i + 1 \in 0..n
        BY <2>2, <1>1
      <3>2. after[i + 1] = Read(after[i], t, i + 1) /\ after[i] \in Readers
        BY <1>10, <2>2, <3>1
      <3>3. Read(after[i], t, i + 1) \in Readers
        BY <1>3, <3>1, <3>2
      <3> QED BY <3>1, <3>2, <3>3
    <2> HIDE DEF S
    <2>3. \A i \in 0..n : i \in S
      BY <1>1, <2>1, <2>2, Upwards
    <2> QED BY <2>3 DEF S
  <1> QED BY <1>4, <1>10, <1>11

LEMMA ReadSame ==
    ASSUME NEW t, NEW u, NEW r, NEW i,
           Begins(TagIn(r.thinking), t, i), Begins(TagIn(r.thinking), u, i)
    PROVE  Read(r, u, i) = Read(r, t, i)
  BY DEF Read

LEMMA ReadSamePlain ==
    ASSUME NEW t \in Seq(STRING), NEW u \in Seq(STRING), NEW r,
           NEW i \in 1..Len(t), i \in 1..Len(u), u[i] = t[i],
           ~Begins(TagIn(r.thinking), t, i), ~Begins(TagIn(r.thinking), u, i)
    PROVE  Read(r, u, i) = Read(r, t, i)
  BY DEF Read

LEMMA Associate ==
    ASSUME NEW a \in Seq(STRING), NEW b \in Seq(STRING), NEW c \in Seq(STRING)
    PROVE  (a \o b) \o c = a \o (b \o c)
  BY ConcatAssociative

\* Characters in which no tag begins are kept, or thought.
PlainAt(t, m, n) ==
    /\ m <= n /\ n <= Len(t) /\ ReadingOf(t)[m].until <= m
    /\ \A j \in (m + 1)..n : ~Begins(TagIn(ReadingOf(t)[m].thinking), t, j)
Kept(t, m, n) ==
    /\ ReadingOf(t)[n].thinking = ReadingOf(t)[m].thinking
    /\ ReadingOf(t)[n].until = ReadingOf(t)[m].until
    /\ ReadingOf(t)[n].kept = IF ReadingOf(t)[m].thinking THEN ReadingOf(t)[m].kept
                              ELSE ReadingOf(t)[m].kept \o SubSeq(t, m + 1, n)

LEMMA PlainIsRead ==
    ASSUME NEW t \in Seq(STRING), NEW m \in Nat, NEW n \in Nat, PlainAt(t, m, n)
    PROVE  Kept(t, m, n)
  <1> DEFINE r == ReadingOf(t)[m]
  <1>0. /\ m <= n /\ n <= Len(t) /\ r = ReadingOf(t)[m] /\ r.until <= m
        /\ \A j \in (m + 1)..n : ~Begins(TagIn(r.thinking), t, j)
    BY DEF PlainAt
  <1> HIDE DEF r
  <1> USE <1>0
  <1> DEFINE f == ReadingOf(t)
             Good(d) == /\ f[m + d].thinking = r.thinking /\ f[m + d].until = r.until
                        /\ f[m + d].kept = IF r.thinking THEN r.kept
                                           ELSE r.kept \o SubSeq(t, m + 1, m + d)
             S == {d \in 0..(n - m) : Good(d)}
  <1>1. /\ \A i \in 1..Len(t) : f[i] = Read(f[i - 1], t, i)
        /\ \A i \in 0..Len(t) : f[i] \in Readers
    BY ReadingIs
  <1>2. m \in 0..Len(t) /\ Len(t) \in Nat /\ n - m \in Nat
    OBVIOUS
  <1>3. r \in Readers /\ r.until \in Nat /\ r.kept \in Seq(STRING) /\ r.thinking \in BOOLEAN
    BY <1>1, <1>2 DEF Readers
  <1> HIDE DEF f
  <1>4. 0 \in S
    <2>1. SubSeq(t, m + 1, m) = <<>>
      BY SubSeqEmpty
    <2>2. r.kept \o SubSeq(t, m + 1, m) = r.kept
      BY <1>3, <2>1, ConcatEmptySeq
    <2>3. f[m + 0] = r /\ m + 0 = m
      BY DEF f
    <2>4. r.kept = IF r.thinking THEN r.kept ELSE r.kept \o SubSeq(t, m + 1, m)
      BY <1>3, <2>2
    <2> QED BY <1>2, <2>3, <2>4
  <1>5. ASSUME NEW d \in 0..(n - m), d < n - m, d \in S
        PROVE  d + 1 \in S
    <2> DEFINE i == m + d + 1
    <2>1. /\ i \in 1..Len(t) /\ i - 1 = m + d /\ m + d \in 0..Len(t) /\ i \in (m + 1)..n
          /\ ~ (i <= r.until) /\ m + (d + 1) = i /\ d + 1 \in 0..(n - m)
          /\ m + d \in Nat /\ i \in Nat /\ m <= m + d /\ m + d <= i /\ i <= Len(t)
      BY <1>2, <1>3, <1>5
    <2>2. f[i] = Read(f[m + d], t, i) /\ f[m + d] \in Readers
      BY <1>1, <2>1
    <2>3. Good(d)
      BY <1>5
    <2>4. ~ Begins(TagIn(f[m + d].thinking), t, i) /\ ~ (i <= f[m + d].until)
      BY <2>1, <2>3
    <2> HIDE DEF i
    <2>5. /\ f[i].thinking = f[m + d].thinking /\ f[i].until = f[m + d].until
          /\ f[m + d].thinking => f[i].kept = f[m + d].kept
          /\ ~f[m + d].thinking => f[i].kept = Append(f[m + d].kept, t[i])
      <3> DEFINE x == f[m + d]
      <3>1. /\ x \in Readers /\ f[i] = Read(x, t, i) /\ i \in 1..Len(t)
            /\ ~ (i <= x.until) /\ ~Begins(TagIn(x.thinking), t, i)
        BY <2>1, <2>2, <2>4
      <3> HIDE DEF x
      <3>2. /\ f[i].thinking = x.thinking /\ f[i].until = x.until
            /\ x.thinking => f[i].kept = x.kept
            /\ ~x.thinking => f[i].kept = Append(x.kept, t[i])
        BY <3>1, ReadsPlain
      <3> QED BY <3>2 DEF x
    <2>6. ~r.thinking => f[i].kept = r.kept \o SubSeq(t, m + 1, i)
      <3> SUFFICES ASSUME ~r.thinking
                   PROVE  f[i].kept = r.kept \o SubSeq(t, m + 1, i)
        OBVIOUS
      <3> DEFINE u == SubSeq(t, m + 1, m + d)
      <3>1. t[i] \in STRING /\ u \in Seq(STRING) /\ <<t[i]>> \in Seq(STRING)
        <4>1. t[i] \in STRING
          BY <2>1
        <4>2. u \in Seq(STRING)
          BY <2>1, Part
        <4> QED BY <4>1, <4>2
      <3>2. SubSeq(t, m + 1, i) = u \o <<t[i]>>
        <4>1. m + 1 \in 1..Len(t) /\ i \in (m + 1)..Len(t)
          BY <1>2, <2>1
        <4> QED BY <2>1, <4>1, SubSeqRecursiveSecond
      <3>3. f[i].kept = Append(r.kept \o u, t[i])
        BY <2>3, <2>5
      <3> DEFINE x == <<t[i]>>
      <3> HIDE DEF u, x
      <3>4. r.kept \o u \in Seq(STRING)
        BY <1>3, <3>1, ConcatProperties
      <3>5. Append(r.kept \o u, t[i]) = (r.kept \o u) \o <<t[i]>>
        BY <3>1, <3>4, AppendIsConcat
      <3>6. (r.kept \o u) \o <<t[i]>> = r.kept \o (u \o <<t[i]>>)
        <4>1. r.kept \in Seq(STRING) /\ u \in Seq(STRING) /\ x \in Seq(STRING)
          BY <1>3, <3>1 DEF x
        <4>2. (r.kept \o u) \o x = r.kept \o (u \o x)
          <5> DEFINE a == r.kept
          <5>1. a \in Seq(STRING)
            BY <4>1
          <5> HIDE DEF a
          <5>2. (a \o u) \o x = a \o (u \o x)
            BY <4>1, <5>1, Associate
          <5> QED BY <5>2 DEF a
        <4> QED BY <4>2 DEF x
      <3> QED BY <3>2, <3>3, <3>5, <3>6
    <2>7. r.thinking => f[i].kept = r.kept
      BY <2>3, <2>5
    <2>8. f[i].kept = IF r.thinking THEN r.kept ELSE r.kept \o SubSeq(t, m + 1, i)
      BY <2>6, <2>7, Zenon
    <2>9. Good(d + 1)
      BY <2>1, <2>3, <2>5, <2>8
    <2> HIDE DEF Good
    <2> QED BY <2>1, <2>9
  <1>6. n - m \in S
    <2> HIDE DEF S
    <2>1. \A d \in 0..(n - m) : d \in S
      BY <1>2, <1>4, <1>5, Upwards
    <2> QED BY <1>2, <2>1
  <1>7. Good(n - m) /\ m + (n - m) = n
    BY <1>6
  <1>8. /\ ReadingOf(t)[n].thinking = r.thinking /\ ReadingOf(t)[n].until = r.until
        /\ ReadingOf(t)[n].kept = IF r.thinking THEN r.kept ELSE r.kept \o SubSeq(t, m + 1, n)
    BY <1>7 DEF f
  <1> QED BY <1>8, Zenon DEF Kept, r

\* A tag is for nobody, and turns the state.
TagAt(t, m, n) ==
    /\ m <= Len(t) /\ ReadingOf(t)[m].until <= m
    /\ n = m + Len(TagIn(ReadingOf(t)[m].thinking))
    /\ Begins(TagIn(ReadingOf(t)[m].thinking), t, m + 1)
Turned(t, m, n) ==
    /\ n <= Len(t) /\ ReadingOf(t)[n].thinking = ~ReadingOf(t)[m].thinking
    /\ ReadingOf(t)[n].until = n /\ ReadingOf(t)[n].kept = ReadingOf(t)[m].kept

LEMMA TagIsRead ==
    ASSUME NEW t \in Seq(STRING), NEW m \in Nat, NEW n \in Nat, TagAt(t, m, n)
    PROVE  Turned(t, m, n)
  <1> DEFINE r == ReadingOf(t)[m]
  <1>0. /\ r = ReadingOf(t)[m] /\ r.until <= m /\ n = m + Len(TagIn(r.thinking))
        /\ m <= Len(t) /\ Begins(TagIn(r.thinking), t, m + 1)
    BY DEF TagAt
  <1> HIDE DEF r
  <1> USE <1>0
  <1> DEFINE f == ReadingOf(t)
             k == Len(TagIn(r.thinking))
             S == {d \in 0..(k - 1) : f[m + 1 + d] = f[m + 1]}
  <1>1. /\ \A i \in 1..Len(t) : f[i] = Read(f[i - 1], t, i)
        /\ \A i \in 0..Len(t) : f[i] \in Readers
    BY ReadingIs
  <1>2. k \in Nat \ {0} /\ Len(t) \in Nat
    BY Tags
  <1>3. n <= Len(t)
    BY <1>2 DEF Begins
  <1>4. r \in Readers /\ r.until \in Nat
    BY <1>1, <1>2 DEF Readers
  <1> HIDE DEF f, k
  <1>5. n = m + k
    BY DEF k
  <1>6. m + 1 \in 1..Len(t) /\ (m + 1) - 1 = m /\ ~ (m + 1 <= r.until)
    BY <1>2, <1>3, <1>4, <1>5
  <1>7. f[m + 1] = Read(r, t, m + 1)
    BY <1>1, <1>6 DEF f
  <1>8. /\ f[m + 1].thinking = ~r.thinking /\ f[m + 1].kept = r.kept
        /\ f[m + 1].until = m + 1 + k - 1
    <2> DEFINE x == m + 1
               q == f[m + 1]
    <2>1. /\ x \in 1..Len(t) /\ ~ (x <= r.until) /\ q = Read(r, t, x)
          /\ Begins(TagIn(r.thinking), t, x)
      BY <1>6, <1>7
    <2> HIDE DEF x, q
    <2>2. q.thinking = ~r.thinking /\ q.kept = r.kept /\ q.until = x + Len(TagIn(r.thinking)) - 1
      BY <1>4, <2>1, ReadsTag
    <2> QED BY <2>2 DEF x, q, k
  <1>9. f[m + 1].until = n
    BY <1>2, <1>5, <1>8
  <1>10. 0 \in S
    BY <1>2
  <1>11. ASSUME NEW d \in 0..(k - 1), d < k - 1, d \in S
         PROVE  d + 1 \in S
    <2> DEFINE i == m + 1 + d + 1
    <2>1. /\ i \in 1..Len(t) /\ i - 1 = m + 1 + d /\ i <= n /\ m + 1 + (d + 1) = i
          /\ d + 1 \in 0..(k - 1) /\ m + 1 + d \in 0..Len(t)
      BY <1>2, <1>3, <1>5, <1>11
    <2>2. f[i] = Read(f[m + 1], t, i) /\ f[m + 1] \in Readers
      BY <1>1, <1>6, <1>11, <2>1
    <2> HIDE DEF i
    <2>3. f[i] = f[m + 1]
      BY <1>9, <2>1, <2>2, ReadInside
    <2> QED BY <2>1, <2>3
  <1>12. k - 1 \in S
    <2> HIDE DEF S
    <2>1. k - 1 \in Nat
      BY <1>2
    <2>2. \A d \in 0..(k - 1) : d \in S
      BY <1>10, <1>11, <2>1, Upwards
    <2> QED BY <2>1, <2>2
  <1>13. f[n] = f[m + 1]
    <2>1. m + 1 + (k - 1) = n
      BY <1>2, <1>5
    <2> QED BY <1>12, <2>1
  <1>14. /\ n <= Len(t) /\ ReadingOf(t)[n].thinking = ~r.thinking
         /\ ReadingOf(t)[n].until = n /\ ReadingOf(t)[n].kept = r.kept
    BY <1>3, <1>8, <1>9, <1>13 DEF f
  <1> QED BY <1>14, Zenon DEF Turned, r

\* What has been read of a text does not depend on what comes, but for a tag on the way.
LEMMA BeginningReads ==
    ASSUME NEW t \in Seq(STRING), NEW e \in Nat, e <= Len(t), NEW u, u = SubSeq(t, 1, e),
           NEW m \in Nat, m <= e, ReadingOf(t)[m].until <= m
    PROVE  ReadingOf(u)[m] = ReadingOf(t)[m]
  <1> DEFINE f == ReadingOf(t)
             g == ReadingOf(u)
  <1>1. u \in Seq(STRING) /\ Len(u) = e /\ \A i \in 1..e : u[i] = t[i]
    <2>1. /\ SubSeq(t, 0 + 1, e) \in Seq(STRING) /\ Len(SubSeq(t, 0 + 1, e)) = e
          /\ \A i \in 1..(e - 0) : SubSeq(t, 0 + 1, e)[i] = t[0 + i]
      BY Part
    <2> QED BY <2>1
  <1>2. /\ f[0] = Unread /\ \A i \in 1..Len(t) : f[i] = Read(f[i - 1], t, i)
        /\ \A i \in 0..Len(t) : f[i] \in Readers
    BY ReadingIs
  <1>3. /\ g[0] = Unread /\ \A i \in 1..Len(u) : g[i] = Read(g[i - 1], u, i)
        /\ \A i \in 0..Len(u) : g[i] \in Readers
    BY <1>1, ReadingIs
  <1> HIDE DEF f, g
  <1>4. \A i \in 0..m : f[i].until <= m
    <2> DEFINE S == {d \in 0..m : f[m - d].until <= m}
    <2>1. 0 \in S
      BY DEF f
    <2>2. ASSUME NEW d \in 0..m, d < m, d \in S
          PROVE  d + 1 \in S
      <3> DEFINE i == m - d
      <3>1. i \in 1..Len(t) /\ i - 1 = m - (d + 1) /\ i - 1 \in 0..Len(t) /\ d + 1 \in 0..m
        BY <2>2
      <3>2. f[i] = Read(f[i - 1], t, i) /\ f[i - 1] \in Readers /\ f[i].until <= m
        BY <1>2, <2>2, <3>1
      <3> HIDE DEF i
      <3> DEFINE x == f[i - 1]
                 q == f[i]
      <3>3. x \in Readers /\ q = Read(x, t, i) /\ q.until <= m
        BY <3>2
      <3> HIDE DEF x, q
      <3>4. x.until <= q.until /\ q.until \in Nat /\ x.until \in Nat
        BY <3>1, <3>3, ReadTypes
      <3>5. x.until <= m
        BY <3>3, <3>4
      <3>6. f[m - (d + 1)].until <= m
        BY <3>1, <3>5 DEF x
      <3> QED BY <3>1, <3>6
    <2> HIDE DEF S
    <2>3. \A d \in 0..m : d \in S
      BY <2>1, <2>2, Upwards
    <2>4. ASSUME NEW i \in 0..m
          PROVE  f[i].until <= m
      <3>1. m - i \in 0..m /\ m - (m - i) = i
        OBVIOUS
      <3>2. m - i \in S
        BY <2>3, <3>1
      <3>3. f[m - (m - i)].until <= m
        BY <3>2 DEF S
      <3> QED BY <3>1, <3>3
    <2> QED BY <2>4
  <1> DEFINE T == {i \in 0..m : g[i] = f[i]}
  <1>5. 0 \in T
    BY <1>2, <1>3
  <1>6. ASSUME NEW d \in 0..m, d < m, d \in T
        PROVE  d + 1 \in T
    <2> DEFINE i == d + 1
    <2>1. /\ i \in 1..Len(t) /\ i \in 1..Len(u) /\ i - 1 = d /\ d \in 0..Len(t) /\ i \in 0..m
          /\ i <= e /\ i \in Nat \ {0} /\ i \in 1..e
      BY <1>1, <1>6
    <2> HIDE DEF i
    <2> DEFINE x == f[d]
               tag == TagIn(x.thinking)
    <2>2. /\ g[d] = x /\ g[i] = Read(x, u, i) /\ f[i] = Read(x, t, i) /\ x \in Readers
          /\ f[i].until <= m
      BY <1>2, <1>3, <1>4, <1>6, <2>1
    <2>3. u[i] = t[i] /\ Len(tag) \in Nat \ {0} /\ tag \in Seq(STRING) \ {<<>>}
      BY <1>1, <2>1, Tags
    <2>4. Begins(tag, u, i) <=> Begins(tag, t, i) /\ i + Len(tag) - 1 <= e
      <3>1. u = SubSeq(t, 0 + 1, e) /\ i \in 1..(e - 0) /\ 0 + i = i /\ 0 \in Nat /\ 0 <= e
        BY <2>1
      <3> HIDE DEF tag
      <3>2. Begins(tag, u, i) <=> Begins(tag, t, 0 + i) /\ 0 + i + Len(tag) - 1 <= e
        BY <2>3, <3>1, BeginsInPart
      <3> QED BY <3>1, <3>2
    <2> HIDE DEF x
    <2> SUFFICES g[i] = f[i]
      BY <2>1 DEF i
    <2>5. CASE i <= x.until
      <3>1. Read(x, u, i) = x
        BY <1>1, <2>1, <2>2, <2>5, ReadInside
      <3>2. Read(x, t, i) = x
        BY <2>1, <2>2, <2>5, ReadInside
      <3> QED BY <2>2, <3>1, <3>2
    <2>6. CASE ~ (i <= x.until) /\ Begins(tag, t, i)
      <3> DEFINE q == f[i]
      <3>1. q = Read(x, t, i) /\ q.until <= m
        BY <2>2
      <3> HIDE DEF q
      <3>2. q.until = i + Len(TagIn(x.thinking)) - 1
        BY <2>1, <2>2, <2>6, <3>1, ReadsTag
      <3>3. i + Len(tag) - 1 <= e
        BY <2>1, <2>3, <3>1, <3>2
      <3>4. Begins(tag, u, i)
        BY <2>4, <2>6, <3>3
      <3>5. Read(x, u, i) = Read(x, t, i)
        BY <2>3, <2>6, <3>4, ReadSame
      <3> QED BY <2>2, <3>5
    <2>7. CASE ~ (i <= x.until) /\ ~Begins(tag, t, i)
      <3>1. ~Begins(tag, u, i)
        BY <2>4, <2>7
      <3>2. Read(x, u, i) = Read(x, t, i)
        <4>1. /\ t \in Seq(STRING) /\ u \in Seq(STRING) /\ i \in 1..Len(t) /\ i \in 1..Len(u)
              /\ u[i] = t[i] /\ ~Begins(TagIn(x.thinking), t, i)
              /\ ~Begins(TagIn(x.thinking), u, i)
          BY <1>1, <2>1, <2>3, <2>7, <3>1
        <4> QED BY <4>1, ReadSamePlain, Zenon
      <3> QED BY <2>2, <3>2
    <2> QED BY <2>5, <2>6, <2>7
  <1>7. m \in T
    <2> HIDE DEF T
    <2>1. \A i \in 0..m : i \in T
      BY <1>5, <1>6, Upwards
    <2> QED BY <2>1
  <1> QED BY <1>7 DEF f, g

-----------------------------------------------------------------------------
(* LlmStream: the parser.                                                  *)

LEMMA FoundIs ==
    ASSUME NEW b \in Seq(STRING), NEW tag, NEW i, i = Found(b, tag)
    PROVE  /\ i = 0 => \A j \in 1..Len(b) : ~Begins(tag, b, j)
           /\ i # 0 => /\ i \in 1..Len(b) /\ Begins(tag, b, i)
                       /\ \A j \in 1..Len(b) : j < i => ~Begins(tag, b, j)
  <1> DEFINE at == {j \in 1..Len(b) : Begins(tag, b, j)}
  <1>1. CASE at = {}
    <2>1. i = 0
      BY <1>1 DEF Found
    <2> QED BY <1>1, <2>1
  <1>2. CASE at # {}
    <2>1. i = CHOOSE k \in at : \A j \in at : k <= j
      BY <1>2 DEF Found
    <2>2. \E k \in at : \A j \in at : k <= j
      <3>1. at \subseteq Nat
        OBVIOUS
      <3> HIDE DEF at
      <3> QED BY <1>2, <3>1, LeastOf
    <2>3. i \in at /\ \A j \in at : i <= j
      BY <2>1, <2>2
    <2>4. i \in 1..Len(b) /\ Begins(tag, b, i) /\ i # 0
      BY <2>3
    <2>5. \A j \in 1..Len(b) : j < i => ~Begins(tag, b, j)
      BY <2>3, <2>4
    <2> QED BY <2>4, <2>5
  <1> QED BY <1>1, <1>2

LEMMA HeldBackIs ==
    ASSUME NEW b \in Seq(STRING), NEW tag \in Seq(STRING) \ {<<>>}, NEW n, n = HeldBack(b, tag)
    PROVE  /\ n \in Nat /\ n < Len(tag) /\ n <= Len(b)
           /\ \A k \in Nat : n < k /\ k < Len(tag) => ~EndsWith(b, tag, k)
  <1> DEFINE E == {k \in 0..(Len(tag) - 1) : EndsWith(b, tag, k)}
  <1>1. Len(tag) \in Nat \ {0} /\ Len(b) \in Nat
    BY EmptySeq
  <1>2. 0 \in E
    <2>1. SubSeq(b, Len(b) - 0 + 1, Len(b)) = <<>>
      <3>1. Len(b) - 0 + 1 \in Int /\ Len(b) \in Int /\ Len(b) < Len(b) - 0 + 1
        BY <1>1
      <3> QED BY <3>1, SubSeqEmpty
    <2>2. SubSeq(tag, 1, 0) = <<>>
      BY SubSeqEmpty
    <2> QED BY <1>1, <2>1, <2>2 DEF EndsWith
  <1>3. \E g \in E : \A k \in E : k <= g
    <2>1. E \subseteq Nat /\ E # {} /\ Len(tag) - 1 \in Nat /\ \A k \in E : k <= Len(tag) - 1
      BY <1>1, <1>2
    <2> HIDE DEF E
    <2> QED BY <2>1, GreatestOf
  <1>4. PICK g \in E : \A k \in E : k <= g
    BY <1>3
  <1>5. /\ g \in 0..Len(tag) - 1 /\ EndsWith(b, tag, g)
        /\ \A k \in g + 1..Len(tag) - 1 : ~EndsWith(b, tag, k)
    BY <1>1, <1>4
  <1>6. /\ n \in 0..Len(tag) - 1 /\ EndsWith(b, tag, n)
        /\ \A k \in n + 1..Len(tag) - 1 : ~EndsWith(b, tag, k)
    BY <1>5 DEF HeldBack
  <1>7. n <= Len(b)
    BY <1>6 DEF EndsWith
  <1>8. \A k \in Nat : n < k /\ k < Len(tag) => k \in n + 1..Len(tag) - 1
    BY <1>1, <1>6
  <1> QED BY <1>1, <1>6, <1>7, <1>8

Parsers == [thinking : BOOLEAN, normal : Seq(STRING), buffer : Seq(STRING)]

\* The parser has read the text up to m, and keeps what there is of it behind.
AtPlace(p, t, m, e, out) ==
    /\ p \in Parsers /\ m <= e /\ e <= Len(t)
    /\ p.buffer = SubSeq(t, m + 1, e)
    /\ ReadingOf(t)[m].thinking = p.thinking
    /\ ReadingOf(t)[m].until <= m
    /\ ReadingOf(t)[m].kept = out \o p.normal

NoTagIn(thinking, t, m, n) == \A j \in (m + 1)..n : ~Begins(TagIn(thinking), t, j)

LEMMA PutTypes ==
    ASSUME NEW p \in Parsers, NEW n \in Nat, n <= Len(p.buffer)
    PROVE  Put(p, n) \in Seq(STRING)
  <1>1. p.normal \in Seq(STRING) /\ p.buffer \in Seq(STRING)
    BY DEF Parsers
  <1>2. SubSeq(p.buffer, 0 + 1, n) \in Seq(STRING)
    <2> DEFINE b == p.buffer
    <2>1. b \in Seq(STRING) /\ n <= Len(b)
      BY <1>1
    <2> HIDE DEF b
    <2>2. SubSeq(b, 0 + 1, n) \in Seq(STRING)
      BY <2>1, Part
    <2> QED BY <2>2 DEF b
  <1>3. p.normal \o SubSeq(p.buffer, 1, n) \in Seq(STRING)
    BY <1>1, <1>2, ConcatProperties
  <1> QED BY <1>1, <1>3 DEF Put

LEMMA RoundTypes ==
    ASSUME NEW p \in Parsers
    PROVE  Round(p) \in Parsers
  <1> DEFINE b == p.buffer
             tag == TagIn(p.thinking)
             i == Found(b, tag)
             h == HeldBack(b, tag)
  <1>1. b \in Seq(STRING) /\ p.thinking \in BOOLEAN /\ Len(b) \in Nat
    BY DEF Parsers
  <1>2. tag \in Seq(STRING) \ {<<>>} /\ Len(tag) \in Nat \ {0}
    BY Tags
  <1>3. CASE i # 0
    <2>1. i \in 1..Len(b)
      <3> HIDE DEF b, tag
      <3> QED BY <1>1, <1>3, FoundIs
    <2>2. Put(p, i - 1) \in Seq(STRING)
      <3> DEFINE n == i - 1
      <3>1. n \in Nat /\ n <= Len(p.buffer)
        BY <2>1
      <3> HIDE DEF n
      <3>2. Put(p, n) \in Seq(STRING)
        BY <3>1, PutTypes
      <3> QED BY <3>2 DEF n
    <2>3. SubSeq(b, i + Len(tag), Len(b)) \in Seq(STRING)
      <3> DEFINE n == i + Len(tag) - 1
      <3>1. n \in Nat /\ n + 1 = i + Len(tag)
        BY <1>2, <2>1
      <3> HIDE DEF n, b, tag, i
      <3>2. SubSeq(b, n + 1, Len(b)) \in Seq(STRING)
        BY <1>1, <3>1, Part
      <3> QED BY <3>1, <3>2
    <2>4. Round(p) = [thinking |-> ~p.thinking, normal |-> Put(p, i - 1),
                      buffer |-> SubSeq(b, i + Len(tag), Len(b))]
      BY <1>3 DEF Round
    <2> HIDE DEF b, tag, i, h
    <2> QED BY <1>1, <2>2, <2>3, <2>4 DEF Parsers
  <1>4. CASE i = 0
    <2>1. h \in Nat /\ h <= Len(b)
      <3> HIDE DEF b, tag
      <3> QED BY <1>1, <1>2, HeldBackIs
    <2> DEFINE keep == Len(b) - h
    <2>2. keep \in Nat /\ keep <= Len(p.buffer)
      BY <1>1, <2>1
    <2>3. Round(p) = [thinking |-> p.thinking, normal |-> Put(p, keep),
                      buffer |-> SubSeq(b, keep + 1, Len(b))]
      BY <1>4 DEF Round
    <2> HIDE DEF keep
    <2>4. Put(p, keep) \in Seq(STRING)
      BY <2>2, PutTypes
    <2> HIDE DEF b, tag, i, h
    <2>5. SubSeq(b, keep + 1, Len(b)) \in Seq(STRING)
      BY <1>1, <2>2, Part
    <2> QED BY <1>1, <2>3, <2>4, <2>5 DEF Parsers
  <1> QED BY <1>3, <1>4

\* What is put is what the whole text would keep, where no tag begins.
WasPut(p, t, m, n, out) ==
    /\ ReadingOf(t)[n].thinking = p.thinking /\ ReadingOf(t)[n].until <= m
    /\ ReadingOf(t)[n].kept = out \o Put(p, n - m)

LEMMA PutIsRead ==
    ASSUME NEW t \in Seq(STRING), NEW m \in Nat, NEW e \in Nat, NEW out \in Seq(STRING),
           NEW p, AtPlace(p, t, m, e, out), NEW n \in Nat, m <= n, n <= e,
           NoTagIn(p.thinking, t, m, n)
    PROVE  WasPut(p, t, m, n, out)
  <1> DEFINE r == ReadingOf(t)[m]
             u == SubSeq(t, m + 1, n)
  <1>1. /\ p \in Parsers /\ m <= e /\ e <= Len(t) /\ p.buffer = SubSeq(t, m + 1, e)
        /\ r.thinking = p.thinking /\ r.until <= m /\ r.kept = out \o p.normal
    BY DEF AtPlace
  <1>2. p.normal \in Seq(STRING) /\ p.thinking \in BOOLEAN /\ p.buffer \in Seq(STRING)
    BY <1>1 DEF Parsers
  <1>3. n <= Len(t) /\ \A j \in (m + 1)..n : ~Begins(TagIn(r.thinking), t, j)
    BY <1>1 DEF NoTagIn
  <1>4. SubSeq(p.buffer, 1, n - m) = u /\ u \in Seq(STRING)
    <2> DEFINE d == n - m
               b == p.buffer
    <2>1. d \in Nat /\ d <= e - m /\ m + d = n /\ m + 0 + 1 = m + 1 /\ 0 \in Nat
          /\ b = SubSeq(t, m + 1, e)
      BY <1>1
    <2> HIDE DEF d, b
    <2>2. SubSeq(b, 0 + 1, d) = SubSeq(t, m + 0 + 1, m + d)
      BY <1>1, <2>1, PartOfPart
    <2>3. u \in Seq(STRING)
      BY <1>3, Part
    <2> QED BY <2>1, <2>2, <2>3 DEF d, b
  <1>5. /\ ReadingOf(t)[n].thinking = r.thinking /\ ReadingOf(t)[n].until = r.until
        /\ ReadingOf(t)[n].kept = IF r.thinking THEN r.kept ELSE r.kept \o u
    <2>1. PlainAt(t, m, n)
      BY <1>1, <1>3 DEF PlainAt
    <2>2. Kept(t, m, n)
      BY <2>1, PlainIsRead
    <2> QED BY <2>2, Zenon DEF Kept
  <1> HIDE DEF r, u
  <1>6. CASE p.thinking
    <2>1. Put(p, n - m) = p.normal
      BY <1>6 DEF Put
    <2>2. ReadingOf(t)[n].kept = r.kept
      BY <1>1, <1>5, <1>6
    <2> QED BY <1>1, <1>5, <2>1, <2>2 DEF WasPut
  <1>7. CASE ~p.thinking
    <2>1. Put(p, n - m) = p.normal \o u
      BY <1>4, <1>7 DEF Put
    <2>2. ReadingOf(t)[n].kept = r.kept \o u
      BY <1>1, <1>5, <1>7
    <2>3. (out \o p.normal) \o u = out \o (p.normal \o u)
      <3> DEFINE a == p.normal
      <3>1. a \in Seq(STRING)
        BY <1>2
      <3> HIDE DEF a
      <3>2. (out \o a) \o u = out \o (a \o u)
        BY <1>4, <3>1, Associate
      <3> QED BY <3>2 DEF a
    <2> QED BY <1>1, <1>5, <2>1, <2>2, <2>3 DEF WasPut
  <1> QED BY <1>2, <1>6, <1>7

LEMMA PlaceTypes ==
    ASSUME NEW t \in Seq(STRING), NEW m \in Nat, NEW e \in Nat, NEW out \in Seq(STRING),
           NEW p, AtPlace(p, t, m, e, out)
    PROVE  /\ p \in Parsers /\ p.thinking \in BOOLEAN /\ p.normal \in Seq(STRING)
           /\ p.buffer \in Seq(STRING) /\ Len(p.buffer) = e - m
           /\ m <= e /\ e <= Len(t) /\ p.buffer = SubSeq(t, m + 1, e)
  <1>1. p \in Parsers /\ m <= e /\ e <= Len(t) /\ p.buffer = SubSeq(t, m + 1, e)
    BY DEF AtPlace
  <1>2. Len(SubSeq(t, m + 1, e)) = e - m
    BY <1>1, Part
  <1> QED BY <1>1, <1>2 DEF Parsers

Left(p, m, e) == Len(p.buffer) = e - m

LEMMA PlaceLeft ==
    ASSUME NEW t \in Seq(STRING), NEW m \in Nat, NEW e \in Nat, NEW out \in Seq(STRING),
           NEW p, AtPlace(p, t, m, e, out)
    PROVE  Left(p, m, e)
  BY PlaceTypes DEF Left

\* How long the buffer can be still.
Short(p) == Len(p.buffer) < Len(TagIn(p.thinking))

LEMMA RoundWithTag ==
    ASSUME NEW t \in Seq(STRING), NEW m \in Nat, NEW e \in Nat, NEW out \in Seq(STRING),
           NEW p, AtPlace(p, t, m, e, out), Found(p.buffer, TagIn(p.thinking)) # 0
    PROVE  \E k \in Nat : AtPlace(Round(p), t, k, e, out) /\ m < k /\ ~Short(p)
  <1> DEFINE q == Round(p)
             b == p.buffer
             tag == TagIn(p.thinking)
             i == Found(b, tag)
             n == m + i - 1
             k == n + Len(tag)
  <1>1. /\ p \in Parsers /\ p.thinking \in BOOLEAN /\ b \in Seq(STRING) /\ Len(b) = e - m
        /\ m <= e /\ e <= Len(t) /\ b = SubSeq(t, m + 1, e)
    BY PlaceTypes
  <1>2. tag \in Seq(STRING) \ {<<>>} /\ Len(tag) \in Nat \ {0}
    BY Tags
  <1>3. i \in 1..Len(b) /\ Begins(tag, b, i) /\ \A j \in 1..Len(b) : j < i => ~Begins(tag, b, j)
    <2>1. b \in Seq(STRING) /\ i = Found(b, tag) /\ i # 0
      BY <1>1
    <2> HIDE DEF b, tag, i
    <2> QED BY <2>1, FoundIs
  <1>11. q = [thinking |-> ~p.thinking, normal |-> Put(p, i - 1),
              buffer |-> SubSeq(b, i + Len(tag), Len(b))]
    BY <1>3 DEF Round
  <1>13. q \in Parsers
    BY <1>1, RoundTypes
  <1> HIDE DEF i, q
  <1>4. n \in Nat /\ m <= n /\ n < e /\ m + i = n + 1 /\ n - m = i - 1 /\ i \in 1..(e - m)
    BY <1>1, <1>3
  <1>5. Begins(tag, t, n + 1) /\ k <= e /\ k \in Nat /\ m < k /\ k = n + Len(tag)
    <2>1. Begins(tag, b, i) <=> Begins(tag, t, m + i) /\ m + i + Len(tag) - 1 <= e
      <3> HIDE DEF b, tag, n
      <3> QED BY <1>1, <1>2, <1>4, BeginsInPart
    <2>2. Begins(tag, t, m + i) /\ m + i + Len(tag) - 1 <= e
      BY <1>3, <2>1
    <2>3. m + i + Len(tag) - 1 = k /\ k = n + Len(tag)
      BY <1>2, <1>4
    <2> HIDE DEF tag, n, k, b
    <2> QED BY <1>2, <1>4, <2>2, <2>3
  <1>6. ASSUME NEW j \in (m + 1)..n
        PROVE  ~Begins(tag, t, j)
    <2> DEFINE x == j - m
    <2>1. x \in 1..(e - m) /\ x < i /\ x \in 1..Len(b) /\ m + x = j
      BY <1>1, <1>4
    <2> HIDE DEF x, tag, n, b, k
    <2>2. Begins(tag, b, x) <=> Begins(tag, t, m + x) /\ m + x + Len(tag) - 1 <= e
      BY <1>1, <1>2, <2>1, BeginsInPart
    <2>3. m + x + Len(tag) - 1 <= e
      BY <1>2, <1>4, <1>5, <2>1
    <2> QED BY <1>3, <2>1, <2>2, <2>3
  <1>7. /\ ReadingOf(t)[n].thinking = p.thinking /\ ReadingOf(t)[n].until <= m
        /\ ReadingOf(t)[n].kept = out \o Put(p, n - m)
    <2>1. NoTagIn(p.thinking, t, m, n)
      BY <1>6 DEF NoTagIn
    <2>2. n \in Nat /\ m <= n /\ n <= e
      BY <1>1, <1>4
    <2> HIDE DEF n
    <2>3. WasPut(p, t, m, n, out)
      BY <2>1, <2>2, PutIsRead
    <2> QED BY <2>3, Zenon DEF WasPut
  <1>8. n \in 0..Len(t) /\ ReadingOf(t)[n] \in Readers /\ ReadingOf(t)[n].until <= n
    <2>1. n \in 0..Len(t)
      BY <1>1, <1>4
    <2>2. ReadingOf(t)[n] \in Readers
      BY <2>1, ReadingIs
    <2>3. ReadingOf(t)[n].until \in Nat
      BY <2>2 DEF Readers
    <2> HIDE DEF n
    <2> QED BY <1>4, <1>7, <2>1, <2>2, <2>3
  <1>9. /\ ReadingOf(t)[k].thinking = ~p.thinking /\ ReadingOf(t)[k].until = k
        /\ ReadingOf(t)[k].kept = out \o Put(p, n - m)
    <2> DEFINE r == ReadingOf(t)[n]
    <2>1. r.thinking = p.thinking /\ r.until <= n /\ n <= Len(t) /\ n \in Nat
      BY <1>1, <1>4, <1>7, <1>8
    <2>2. k \in Nat /\ k = n + Len(TagIn(r.thinking)) /\ Begins(TagIn(r.thinking), t, n + 1)
      BY <1>5, <2>1
    <2>3. r = ReadingOf(t)[n]
      OBVIOUS
    <2>4. TagAt(t, n, k)
      <3> HIDE DEF n, k, tag
      <3> QED BY <2>1, <2>2 DEF TagAt
    <2> HIDE DEF n, k, tag, r
    <2>5. Turned(t, n, k)
      BY <2>1, <2>2, <2>4, TagIsRead
    <2>6. /\ ReadingOf(t)[k].thinking = ~r.thinking
          /\ ReadingOf(t)[k].until = k /\ ReadingOf(t)[k].kept = r.kept
      BY <2>5, Zenon DEF Turned, r
    <2>7. ReadingOf(t)[k].thinking = ~p.thinking
      BY <2>1, <2>6, Zenon
    <2>8. ReadingOf(t)[k].kept = out \o Put(p, n - m)
      BY <1>7, <2>6 DEF r
    <2> QED BY <2>6, <2>7, <2>8
  <1>10. SubSeq(b, i + Len(tag), Len(b)) = SubSeq(t, k + 1, e)
    <2> DEFINE x == i + Len(tag) - 1
    <2>1. x \in Nat /\ Len(b) \in Nat /\ Len(b) <= e - m /\ x + 1 = i + Len(tag)
          /\ m + x + 1 = k + 1 /\ m + Len(b) = e
      <3> DEFINE l == Len(tag)
      <3>1. l \in Nat \ {0} /\ i \in Nat \ {0} /\ k = n + l /\ m + i = n + 1 /\ n \in Nat
        BY <1>2, <1>4, <1>5
      <3>2. Len(b) = e - m /\ m <= e
        BY <1>1
      <3> HIDE DEF b, tag, n, k, l
      <3>3. i + l - 1 \in Nat /\ i + l - 1 + 1 = i + l /\ m + (i + l - 1) + 1 = k + 1
        BY <3>1
      <3>4. Len(b) \in Nat /\ Len(b) <= e - m /\ m + Len(b) = e
        BY <3>2
      <3> QED BY <3>3, <3>4 DEF l
    <2> HIDE DEF x, b, tag, k
    <2>2. SubSeq(b, x + 1, Len(b)) = SubSeq(t, m + x + 1, m + Len(b))
      BY <1>1, <2>1, PartOfPart
    <2> QED BY <2>1, <2>2
  <1>12. q.thinking = ~p.thinking /\ q.normal = Put(p, i - 1) /\ q.buffer = SubSeq(t, k + 1, e)
    <2> HIDE DEF b, tag, k
    <2>1. q.thinking = ~p.thinking
      BY <1>11, Zenon
    <2>2. q.normal = Put(p, i - 1) /\ q.buffer = SubSeq(b, i + Len(tag), Len(b))
      BY <1>11
    <2> QED BY <1>10, <2>1, <2>2, Zenon
  <1>14. ~Short(p)
    <2>1. Len(tag) <= Len(b)
      <3> HIDE DEF b, tag
      <3> QED BY <1>2, <1>3, <1>1 DEF Begins
    <2>2. Len(p.buffer) \in Nat
      BY <1>1
    <2> QED BY <1>2, <2>1, <2>2 DEF Short
  <1> HIDE DEF b, tag, n, k
  <1>15. AtPlace(q, t, k, e, out)
    <2>1. ReadingOf(t)[k].thinking = q.thinking
      BY <1>9, <1>12, Zenon
    <2>2. m <= e /\ k <= e /\ e <= Len(t) /\ ReadingOf(t)[k].until <= k
      BY <1>1, <1>5, <1>9
    <2>3. ReadingOf(t)[k].kept = out \o q.normal
      BY <1>4, <1>9, <1>12
    <2> QED BY <1>12, <1>13, <2>1, <2>2, <2>3 DEF AtPlace
  <1> QED BY <1>5, <1>14, <1>15 DEF q

LEMMA RoundWithoutTag ==
    ASSUME NEW t \in Seq(STRING), NEW m \in Nat, NEW e \in Nat, NEW out \in Seq(STRING),
           NEW p, AtPlace(p, t, m, e, out), Found(p.buffer, TagIn(p.thinking)) = 0
    PROVE  \E k \in Nat : AtPlace(Round(p), t, k, e, out) /\ Short(Round(p))
  <1> DEFINE q == Round(p)
             b == p.buffer
             tag == TagIn(p.thinking)
             h == HeldBack(b, tag)
             keep == Len(b) - h
             k == m + keep
  <1>1. /\ p \in Parsers /\ p.thinking \in BOOLEAN /\ b \in Seq(STRING) /\ Len(b) = e - m
        /\ m <= e /\ e <= Len(t) /\ b = SubSeq(t, m + 1, e)
    BY PlaceTypes
  <1>2. tag \in Seq(STRING) \ {<<>>} /\ Len(tag) \in Nat \ {0} /\ tag \in Seq(STRING)
    BY Tags
  <1>3. \A j \in 1..Len(b) : ~Begins(tag, b, j)
    <2> DEFINE i == Found(b, tag)
    <2>1. b \in Seq(STRING) /\ i = 0
      BY <1>1
    <2>2. i = Found(b, tag)
      OBVIOUS
    <2> HIDE DEF b, tag, i
    <2> QED BY <2>1, <2>2, FoundIs
  <1>4. /\ h \in Nat /\ h < Len(tag) /\ h <= Len(b)
        /\ \A x \in Nat : h < x /\ x < Len(tag) => ~EndsWith(b, tag, x)
    <2> HIDE DEF b, tag
    <2> QED BY <1>1, <1>2, HeldBackIs
  <1>9. q = [thinking |-> p.thinking, normal |-> Put(p, keep),
             buffer |-> SubSeq(b, keep + 1, Len(b))]
    BY DEF Round
  <1>12. q \in Parsers
    BY <1>1, RoundTypes 
  <1> HIDE DEF h, q
  <1>5. keep \in Nat /\ k \in Nat /\ m <= k /\ k <= e /\ k = e - h /\ k - m = keep /\ keep <= Len(b)
    BY <1>1, <1>4
  <1>6. ASSUME NEW j \in (m + 1)..k, Begins(tag, t, j)
        PROVE  FALSE
    <2> DEFINE x == j - m
               y == e - j + 1
               l == j - 1
    <2>1. /\ x \in 1..(e - m) /\ x \in 1..Len(b) /\ m + x = j /\ l \in Nat /\ l + 1 = j
          /\ y \in Nat \ {0} /\ h < y /\ l <= e /\ j \in Nat
      BY <1>1, <1>4, <1>5
    <2> HIDE DEF b, tag, k, keep, y, l
    <2>2. ~ (j + Len(tag) - 1 <= e)
      <3>1. Begins(tag, b, x) <=> Begins(tag, t, m + x) /\ m + x + Len(tag) - 1 <= e
        <4>1. /\ m <= e /\ e <= Len(t) /\ b = SubSeq(t, m + 1, e) /\ x \in 1..(e - m)
              /\ tag \in Seq(STRING) \ {<<>>}
          BY <1>1, <1>2, <2>1
        <4> HIDE DEF x
        <4> QED BY <4>1, BeginsInPart, Zenon
      <3> HIDE DEF x
      <3> QED BY <1>3, <1>6, <2>1, <3>1
    <2>3. y < Len(tag)
      BY <1>1, <1>2, <2>1, <2>2 DEF y
    <2>4. /\ j + Len(tag) - 1 \in Nat /\ j + Len(tag) - 1 <= Len(t)
          /\ tag = SubSeq(t, l + 1, j + Len(tag) - 1) /\ l <= j + Len(tag) - 1
      <3>1. j + Len(tag) - 1 <= Len(t) /\ SubSeq(t, j, j + Len(tag) - 1) = tag
        BY <1>6 DEF Begins
      <3>2. l + 1 = j /\ l \in Nat /\ j \in Nat
        BY <2>1
      <3>3. j + Len(tag) - 1 \in Nat /\ l <= j + Len(tag) - 1
        BY <1>2, <3>2
      <3> QED BY <3>1, <3>2, <3>3
    <2>5. SubSeq(tag, 1, y) = SubSeq(t, j, e)
      <3> DEFINE z == j + Len(tag) - 1
                 o == 0
      <3>1. z \in Nat /\ z <= Len(t) /\ tag = SubSeq(t, l + 1, z) /\ l <= z /\ y \in Nat
            /\ y <= z - l /\ l + o + 1 = j /\ l + y = e /\ o \in Nat /\ o + 1 = 1
        BY <1>1, <1>2, <2>1, <2>3, <2>4 DEF y, l
      <3> HIDE DEF z, x, o
      <3>2. SubSeq(tag, o + 1, y) = SubSeq(t, l + o + 1, l + y)
        BY <2>1, <3>1, PartOfPart
      <3> QED BY <3>1, <3>2
    <2>6. SubSeq(b, x, Len(b)) = SubSeq(t, j, e)
      <3> DEFINE w == x - 1
      <3>1. w \in Nat /\ w + 1 = x /\ m + w + 1 = j /\ m + Len(b) = e
            /\ Len(b) \in Nat /\ Len(b) <= e - m
        BY <1>1, <2>1
      <3> HIDE DEF w, x
      <3>2. SubSeq(b, w + 1, Len(b)) = SubSeq(t, m + w + 1, m + Len(b))
        BY <1>1, <3>1, PartOfPart
      <3> QED BY <3>1, <3>2
    <2>7. Len(b) - y + 1 = x /\ y <= Len(b)
      BY <1>1, <2>1 DEF y
    <2>8. EndsWith(b, tag, y)
      <3> HIDE DEF x
      <3> QED BY <2>5, <2>6, <2>7 DEF EndsWith
    <2> QED BY <1>4, <2>1, <2>3, <2>8
  <1>7. /\ ReadingOf(t)[k].thinking = p.thinking /\ ReadingOf(t)[k].until <= m
        /\ ReadingOf(t)[k].kept = out \o Put(p, keep)
    <2>1. NoTagIn(p.thinking, t, m, k)
      BY <1>6 DEF NoTagIn
    <2> HIDE DEF k, keep
    <2>2. /\ ReadingOf(t)[k].thinking = p.thinking /\ ReadingOf(t)[k].until <= m
          /\ ReadingOf(t)[k].kept = out \o Put(p, k - m)
      <3>1. k \in Nat /\ m <= k /\ k <= e
        BY <1>5
      <3>2. WasPut(p, t, m, k, out)
        BY <2>1, <3>1, PutIsRead
      <3> QED BY <3>2, Zenon DEF WasPut
    <2> QED BY <1>5, <2>2
  <1>8. ReadingOf(t)[k].until <= k
    <2>1. k \in 0..Len(t)
      BY <1>1, <1>5
    <2>2. ReadingOf(t)[k] \in Readers
      BY <2>1, ReadingIs
    <2>3. ReadingOf(t)[k].until \in Nat
      BY <2>2 DEF Readers
    <2> HIDE DEF k
    <2> QED BY <1>5, <1>7, <2>1, <2>3
  <1>10. SubSeq(b, keep + 1, Len(b)) = SubSeq(t, k + 1, e)
    <2>1. Len(b) \in Nat /\ Len(b) <= e - m /\ m + Len(b) = e /\ m + keep = k
      BY <1>1
    <2> HIDE DEF b, keep, k
    <2>2. SubSeq(b, keep + 1, Len(b)) = SubSeq(t, m + keep + 1, m + Len(b))
      BY <1>1, <1>5, <2>1, PartOfPart
    <2> QED BY <2>1, <2>2
  <1>11. q.thinking = p.thinking /\ q.normal = Put(p, keep) /\ q.buffer = SubSeq(t, k + 1, e)
    <2> HIDE DEF b, keep, k
    <2>1. /\ q.thinking = p.thinking /\ q.normal = Put(p, keep)
          /\ q.buffer = SubSeq(b, keep + 1, Len(b))
      BY <1>9
    <2> QED BY <1>10, <2>1, Zenon
  <1> HIDE DEF k, keep
  <1>13. AtPlace(q, t, k, e, out)
    BY <1>1, <1>5, <1>7, <1>8, <1>11, <1>12 DEF AtPlace
  <1>14. Short(q)
    <2>1. Len(q.buffer) = e - k
      <3>1. k \in Nat
        BY <1>5
      <3>2. Left(q, k, e)
        BY <1>13, <3>1, PlaceLeft
      <3> QED BY <3>2 DEF Left
    <2>2. TagIn(q.thinking) = tag
      BY <1>11
    <2> HIDE DEF tag, b
    <2> QED BY <1>1, <1>4, <1>5, <2>1, <2>2 DEF Short
  <1> QED BY <1>5, <1>13, <1>14 DEF q


\* The loop of process, from where the text was read up to m.
Going(p, t, m, e, out, j) ==
    \E k \in Nat : AtPlace(p, t, k, e, out) /\ (Short(p) \/ m + j <= k)

LEMMA RoundGoes ==
    ASSUME NEW t \in Seq(STRING), NEW m \in Nat, NEW e \in Nat, NEW out \in Seq(STRING),
           NEW p, NEW j \in Nat, Going(p, t, m, e, out, j)
    PROVE  Going(Round(p), t, m, e, out, j + 1)
  <1>1. PICK k \in Nat : AtPlace(p, t, k, e, out) /\ (Short(p) \/ m + j <= k)
    BY DEF Going
  <1> DEFINE q == Round(p)
             found == Found(p.buffer, TagIn(p.thinking))
  <1>2. CASE found = 0
    <2>1. PICK l \in Nat : AtPlace(q, t, l, e, out) /\ Short(q)
      BY <1>1, <1>2, RoundWithoutTag, Zenon
    <2> HIDE DEF q, found
    <2>2. Going(q, t, m, e, out, j + 1)
      BY <2>1, Zenon DEF Going
    <2> QED BY <2>2 DEF q
  <1>3. CASE found # 0
    <2>1. PICK l \in Nat : AtPlace(q, t, l, e, out) /\ k < l /\ ~Short(p)
      BY <1>1, <1>3, RoundWithTag, Zenon
    <2> HIDE DEF q, found
    <2>2. m + (j + 1) <= l
      BY <1>1, <2>1
    <2>3. Going(q, t, m, e, out, j + 1)
      BY <2>1, <2>2, Zenon DEF Going
    <2> QED BY <2>3 DEF q
  <1> QED BY <1>2, <1>3

Fresh(before, chunk) ==
    [thinking |-> before.thinking, normal |-> <<>>, buffer |-> before.buffer \o chunk]

Runs(s, n, last) ==
    \E f \in [0..n -> Parsers] :
        f[0] = s /\ (\A i \in 1..n : f[i] = Round(f[i - 1])) /\ last = f[n]

LEMMA ProcessedIs ==
    ASSUME NEW before, NEW chunk, Fresh(before, chunk) \in Parsers
    PROVE  Runs(Fresh(before, chunk), Len(Fresh(before, chunk).buffer), Processed(before, chunk))
  <1> DEFINE s == Fresh(before, chunk)
             n == Len(s.buffer)
             g == [x \in (1..n) \X Parsers |-> Round(x[2])]
             round[i \in 0..n] == IF i = 0 THEN s ELSE Round(round[i - 1])
  <1>1. n \in Nat
    <2>1. s.buffer \in Seq(STRING)
      BY DEF Parsers
    <2> QED BY <2>1
  <1>3. \A i \in 1..n : \A x \in Parsers : g[<<i, x>>] = Round(x) /\ Round(x) \in Parsers
    BY RoundTypes
  <1>4. Processed(before, chunk) = round[n]
    BY DEF Processed, Fresh
  <1> HIDE DEF s
  <1>0. s \in Parsers
    BY DEF s
  <1>5. round = CHOOSE f : f = [i \in 0..n |-> IF i = 0 THEN s ELSE Round(f[i - 1])]
    OBVIOUS
  <1> HIDE DEF round, g
  <1>6. PICK f \in [0..n -> Parsers] : IsIteration(f, s, n, g)
    <2> HIDE DEF n
    <2>1. \A i \in 1..n : \A x \in Parsers : g[<<i, x>>] \in Parsers
      BY <1>3
    <2> QED BY <1>0, <1>1, <2>1, Iterates
  <1>7. f = [i \in 0..n |-> IF i = 0 THEN s ELSE Round(f[i - 1])]
    <2> HIDE DEF n
    <2>1. ASSUME NEW i \in 0..n
          PROVE  (IF i = 0 THEN s ELSE g[<<i, f[i - 1]>>])
                   = (IF i = 0 THEN s ELSE Round(f[i - 1]))
      <3>1. CASE i = 0
        BY <3>1
      <3>2. CASE i # 0
        <4>1. i \in 1..n /\ i - 1 \in 0..n
          BY <1>1, <3>2
        <4> QED BY <1>3, <1>6, <4>1
      <3> QED BY <3>1, <3>2
    <2>2. f = [i \in 0..n |-> IF i = 0 THEN s ELSE g[<<i, f[i - 1]>>]]
      BY <1>6 DEF IsIteration
    <2> QED BY <2>1, <2>2
  <1>8. round = [i \in 0..n |-> IF i = 0 THEN s ELSE Round(round[i - 1])]
    <2> HIDE DEF n
    <2> QED BY <1>5, <1>7
  <1> HIDE DEF n
  <1>9. 0 \in 0..n /\ n \in 0..n /\ \A i \in 1..n : i \in 0..n /\ i # 0 /\ i - 1 \in 0..n
    BY <1>1
  <1>10. round[0] = s
    BY <1>8, <1>9
  <1>11. ASSUME NEW i \in 1..n
         PROVE  round[i] = Round(round[i - 1])
    BY <1>8, <1>9
  <1>12. \A i \in 0..n : round[i] \in Parsers
    <2> DEFINE S == {i \in 0..n : round[i] \in Parsers}
    <2>1. 0 \in S
      BY <1>0, <1>9, <1>10
    <2>2. ASSUME NEW i \in 0..n, i < n, i \in S
          PROVE  i + 1 \in S
      <3>1. i + 1 \in 1..n /\ (i + 1) - 1 = i /\ i + 1 \in 0..n
        BY <2>2, <1>1
      <3>2. round[i + 1] = Round(round[i]) /\ round[i] \in Parsers
        BY <1>11, <2>2, <3>1
      <3>3. round[i + 1] \in Parsers
        BY <3>2, RoundTypes
      <3> QED BY <3>1, <3>3
    <2> HIDE DEF S
    <2>3. \A i \in 0..n : i \in S
      BY <1>1, <2>1, <2>2, Upwards
    <2> QED BY <2>3 DEF S
  <1>13. round \in [0..n -> Parsers]
    <2>1. DOMAIN round = 0..n /\ round = [i \in 0..n |-> round[i]]
      BY <1>8
    <2> QED BY <1>12, <2>1
  <1>14. /\ round[0] = s /\ \A i \in 1..n : round[i] = Round(round[i - 1])
         /\ Processed(before, chunk) = round[n]
    <2>1. Processed(before, chunk) = round[n]
      BY <1>4 DEF n
    <2> QED BY <1>10, <1>11, <2>1
  <1>15. Runs(s, n, Processed(before, chunk))
    BY <1>13, <1>14, Zenon DEF Runs
  <1> QED BY <1>15 DEF n, s

\* process: what it leaves is what cannot be told yet.
LEMMA ProcessedPlaces ==
    ASSUME NEW t \in Seq(STRING), NEW m \in Nat, NEW e \in Nat, NEW out \in Seq(STRING),
           NEW before, NEW chunk, AtPlace(Fresh(before, chunk), t, m, e, out)
    PROVE  \E k \in Nat : /\ AtPlace(Processed(before, chunk), t, k, e, out)
                          /\ Short(Processed(before, chunk))
  <1> DEFINE s == Fresh(before, chunk)
             n == Len(s.buffer)
             last == Processed(before, chunk)
  <1>1. s \in Parsers /\ n = e - m /\ n \in Nat
    <2>1. s \in Parsers
      BY DEF AtPlace
    <2>2. Left(s, m, e)
      BY PlaceLeft, Zenon
    <2>3. s.buffer \in Seq(STRING)
      BY <2>1 DEF Parsers
    <2> HIDE DEF s
    <2> QED BY <2>1, <2>2, <2>3 DEF Left
  <1>2. PICK f \in [0..n -> Parsers] :
           /\ f[0] = s /\ \A i \in 1..n : f[i] = Round(f[i - 1])
           /\ last = f[n]
    <2>1. Runs(s, n, last)
      BY <1>1, ProcessedIs, Zenon
    <2> HIDE DEF s, n, last
    <2> QED BY <2>1 DEF Runs
  <1>3. AtPlace(s, t, m, e, out)
    OBVIOUS
  <1> HIDE DEF s, n, last
  <1> DEFINE S == {i \in 0..n : Going(f[i], t, m, e, out, i)}
  <1>4. 0 \in S
    <2> DEFINE o == 0
    <2>1. o \in Nat /\ m + o <= m /\ o \in 0..n /\ f[o] = s
      BY <1>1, <1>2
    <2> HIDE DEF o
    <2>2. Going(s, t, m, e, out, o)
      BY <1>3, <2>1, Zenon DEF Going
    <2>3. o \in S
      BY <2>1, <2>2
    <2> QED BY <2>3 DEF o
  <1>5. ASSUME NEW i \in 0..n, i < n, i \in S
        PROVE  i + 1 \in S
    <2>1. i \in Nat /\ i + 1 \in 0..n /\ i + 1 \in 1..n /\ (i + 1) - 1 = i
      BY <1>1, <1>5
    <2>2. f[i + 1] = Round(f[i])
      BY <1>2, <2>1
    <2>3. Going(Round(f[i]), t, m, e, out, i + 1)
      BY <1>5, <2>1, RoundGoes, Zenon
    <2> QED BY <2>1, <2>2, <2>3
  <1>6. Going(last, t, m, e, out, n)
    <2> HIDE DEF S
    <2>1. \A i \in 0..n : i \in S
      BY <1>1, <1>4, <1>5, Upwards
    <2>2. n \in S
      BY <1>1, <2>1
    <2> QED BY <1>2, <2>2 DEF S
  <1>7. PICK k \in Nat : AtPlace(last, t, k, e, out) /\ (Short(last) \/ m + n <= k)
    BY <1>6 DEF Going
  <1>8. Short(last)
    <2>1. Left(last, k, e) /\ k <= e
      BY <1>7, PlaceLeft DEF AtPlace
    <2>2. Len(TagIn(last.thinking)) \in Nat \ {0}
      BY Tags
    <2>3. CASE m + n <= k
      <3>1. Len(last.buffer) = 0
        BY <1>1, <2>1, <2>3 DEF Left
      <3> QED BY <2>2, <3>1 DEF Short
    <2> QED BY <1>7, <2>3
  <1> QED BY <1>7, <1>8, Zenon DEF last

-----------------------------------------------------------------------------
(* LlmStream: the response.                                                *)

Resting(p) == [thinking |-> p.thinking, normal |-> <<>>, buffer |-> p.buffer]
Rest(p) == IF p.thinking THEN <<>> ELSE p.buffer

\* How far an open stream is: what has been shown, and what is held back.
Reached(p, t, e, out) ==
    Short(p) /\ \E m \in Nat : AtPlace(Resting(p), t, m, e, out)

\* What the reader of a beginning keeps: what was put, and what is held back.
LEMMA VisibleIs ==
    ASSUME NEW t \in Seq(STRING), NEW e \in Nat, NEW out \in Seq(STRING),
           NEW p, Reached(p, t, e, out)
    PROVE  Visible(SubSeq(t, 1, e)) = out \o Rest(p)
  <1>0. PICK m \in Nat : AtPlace(Resting(p), t, m, e, out)
    BY DEF Reached
  <1> DEFINE u == SubSeq(t, 1, e)
             r == ReadingOf(u)[m]
             b == p.buffer
             tag == TagIn(p.thinking)
  <1>1. /\ b \in Seq(STRING) /\ p.thinking \in BOOLEAN /\ m <= e /\ e <= Len(t)
        /\ b = SubSeq(t, m + 1, e) /\ ReadingOf(t)[m].thinking = p.thinking
        /\ ReadingOf(t)[m].until <= m /\ ReadingOf(t)[m].kept = out \o <<>>
    BY <1>0 DEF AtPlace, Resting, Parsers
  <1>2. u \in Seq(STRING) /\ Len(u) = e
    <2> DEFINE o == 0
    <2>1. o \in Nat /\ o + 1 = 1 /\ o <= e /\ e - o = e
      OBVIOUS
    <2> HIDE DEF o
    <2>2. SubSeq(t, o + 1, e) \in Seq(STRING) /\ Len(SubSeq(t, o + 1, e)) = e - o
      BY <1>1, <2>1, Part
    <2> QED BY <2>1, <2>2
  <1>3. r = ReadingOf(t)[m]
    BY <1>1, BeginningReads
  <1>4. SubSeq(u, m + 1, e) = b
    <2> DEFINE o == 0
    <2>1. /\ o \in Nat /\ o + 1 = 1 /\ o <= e /\ e <= e - o /\ o + m + 1 = m + 1 /\ o + e = e
          /\ u = SubSeq(t, o + 1, e)
      OBVIOUS
    <2> HIDE DEF o, u
    <2>2. SubSeq(u, m + 1, e) = SubSeq(t, o + m + 1, o + e)
      BY <1>1, <2>1, PartOfPart
    <2> QED BY <1>1, <2>1, <2>2
  <1>5. Len(b) = e - m /\ Len(b) < Len(tag) /\ Len(tag) \in Nat
    <2>1. Len(SubSeq(t, m + 1, e)) = e - m
      BY <1>1, Part
    <2> QED BY <1>1, <2>1, Tags DEF Short, Reached
  <1> HIDE DEF u, b
  <1>6. ASSUME NEW j \in (m + 1)..e
        PROVE  ~Begins(tag, u, j)
    <2> HIDE DEF tag
    <2>1. ~ (j + Len(tag) - 1 <= Len(u))
      BY <1>1, <1>2, <1>5
    <2> QED BY <2>1 DEF Begins
  <1>7. /\ r.thinking = p.thinking /\ r.until <= m /\ r.kept = out
    BY <1>1, <1>3
  <1>8. ReadingOf(u)[e].kept = IF r.thinking THEN r.kept ELSE r.kept \o SubSeq(u, m + 1, e)
    <2>1. \A j \in (m + 1)..e : ~Begins(TagIn(r.thinking), u, j)
      BY <1>6, <1>7
    <2>2. PlainAt(u, m, e)
      BY <1>1, <1>2, <1>7, <2>1 DEF PlainAt
    <2>3. Kept(u, m, e)
      BY <1>2, <2>2, PlainIsRead
    <2> QED BY <2>3, Zenon DEF Kept
  <1> HIDE DEF r
  <1>9. ReadingOf(u)[e].kept = out \o Rest(p)
    <2>1. CASE p.thinking
      BY <1>7, <1>8, <2>1 DEF Rest
    <2>2. CASE ~p.thinking
      BY <1>4, <1>7, <1>8, <2>2 DEF Rest, b
    <2> QED BY <1>1, <2>1, <2>2
  <1> QED BY <1>2, <1>9 DEF Visible, u


StreamTypeOK ==
    /\ streamPc \in {"idle", "open", "returned", "raised"}
    /\ reply \in Seq(STRING) /\ sent \in Nat
    /\ parser \in [thinking : BOOLEAN, buffer : Seq(STRING)]
    /\ content \in Seq(STRING) /\ shown = content

StreamInv ==
    /\ StreamTypeOK
    /\ streamPc = "idle" => /\ sent = 0 /\ content = <<>>
                            /\ parser = [thinking |-> FALSE, buffer |-> <<>>]
    /\ streamPc = "open" => Reached(parser, reply, sent, content)
    /\ streamPc = "returned" => /\ content = Visible(SubSeq(reply, 1, sent))
                                /\ content # <<>>

LEMMA StreamStarts == StreamInit => StreamInv
  <1> SUFFICES ASSUME StreamInit PROVE StreamInv
    OBVIOUS
  <1>1. /\ streamPc = "idle" /\ reply = <<>> /\ sent = 0 /\ content = <<>> /\ shown = <<>>
        /\ parser = [thinking |-> FALSE, buffer |-> <<>>]
    BY DEF StreamInit
  <1>2. <<>> \in Seq(STRING)
    BY EmptySeq
  <1>3. StreamTypeOK
    BY <1>1, <1>2 DEF StreamTypeOK
  <1> QED BY <1>1, <1>3 DEF StreamInv

LEMMA StreamOpens ==
    ASSUME StreamInv, NEW t \in Replies, OpenStream(t)
    PROVE  StreamInv'
  <1>1. /\ streamPc = "idle" /\ streamPc' = "open" /\ reply' = t /\ sent' = sent
        /\ parser' = parser /\ content' = content /\ shown' = shown
    BY DEF OpenStream
  <1>2. /\ sent = 0 /\ content = <<>> /\ parser = [thinking |-> FALSE, buffer |-> <<>>]
        /\ StreamTypeOK /\ t \in Seq(STRING)
    BY <1>1, StreamAssumption DEF StreamInv
  <1>3. StreamTypeOK'
    BY <1>1, <1>2 DEF StreamTypeOK
  <1>4. Short(parser)
    <2>1. parser.thinking = FALSE /\ parser.buffer = <<>>
      BY <1>2
    <2>2. Len(<<>>) = 0 /\ Len(TagIn(FALSE)) \in Nat \ {0}
      BY Tags
    <2> DEFINE k == Len(TagIn(FALSE))
    <2>3. Len(parser.buffer) < k
      <3> HIDE DEF k
      <3>1. k \in Nat \ {0}
        BY <2>2 DEF k
      <3>2. Len(parser.buffer) = 0
        BY <2>1
      <3> QED BY <3>1, <3>2
    <2> QED BY <2>1, <2>3 DEF Short
  <1>5. AtPlace(Resting(parser), t, 0, 0, <<>>)
    <2> DEFINE q == Resting(parser)
               r == ReadingOf(t)[0]
    <2>1. q.thinking = FALSE /\ q.normal = <<>> /\ q.buffer = <<>> /\ q \in Parsers
      BY <1>2, EmptySeq DEF Resting, Parsers
    <2>2. r.thinking = FALSE /\ r.until = 0 /\ r.kept = <<>>
      BY <1>2, ReadingIs DEF Unread
    <2>3. SubSeq(t, 0 + 1, 0) = <<>>
      <3> DEFINE o == 0
      <3>1. o \in Nat /\ o <= Len(t) /\ o - o = 0
        BY <1>2
      <3> HIDE DEF o
      <3>2. SubSeq(t, o + 1, o) \in Seq(STRING) /\ Len(SubSeq(t, o + 1, o)) = o - o
        BY <1>2, <3>1, Part
      <3>3. SubSeq(t, o + 1, o) = <<>>
        BY <3>1, <3>2, EmptySeq
      <3> QED BY <3>3 DEF o
    <2>4. 0 <= Len(t) /\ 0 <= 0 /\ <<>> \o <<>> = <<>>
      BY <1>2
    <2> HIDE DEF q, r
    <2>5. /\ q \in Parsers /\ q.buffer = SubSeq(t, 0 + 1, 0) /\ r.thinking = q.thinking
          /\ r.until <= 0 /\ r.kept = <<>> \o q.normal
      BY <2>1, <2>2, <2>3, <2>4
    <2> QED BY <2>4, <2>5 DEF AtPlace, q, r
  <1>6. Reached(parser, t, 0, <<>>)
    BY <1>4, <1>5 DEF Reached
  <1>7. Reached(parser', reply', sent', content')
    BY <1>1, <1>2, <1>6
  <1> QED BY <1>1, <1>3, <1>7 DEF StreamInv

LEMMA ChunkArrives ==
    ASSUME StreamInv, NEW n \in ChunkSizes, Chunk(n)
    PROVE  StreamInv'
  <1> DEFINE more == SubSeq(reply, sent + 1, sent + n)
             p == Processed(parser, more)
             e == sent + n
             out == content \o p.normal
  <1>1. /\ streamPc = "open" /\ e <= Len(reply) /\ sent' = e /\ streamPc' = "open"
        /\ reply' = reply /\ content' = out /\ shown' = shown \o p.normal
        /\ parser' = [thinking |-> p.thinking, buffer |-> p.buffer]
    BY DEF Chunk
  <1>2. /\ reply \in Seq(STRING) /\ sent \in Nat /\ content \in Seq(STRING) /\ shown = content
        /\ n \in Nat /\ e \in Nat /\ sent <= e
    BY StreamAssumption DEF StreamInv, StreamTypeOK
  <1>3. PICK m \in Nat : AtPlace(Resting(parser), reply, m, sent, content)
    BY <1>1 DEF StreamInv, Reached
  <1> HIDE DEF e, more
  <1>4. AtPlace(Fresh(parser, more), reply, m, e, content)
    <2> DEFINE s == Fresh(parser, more)
               q == Resting(parser)
               r == ReadingOf(reply)[m]
    <2>1. /\ q.buffer = SubSeq(reply, m + 1, sent) /\ m <= sent /\ sent <= Len(reply)
          /\ r.thinking = q.thinking /\ r.until <= m /\ r.kept = content \o q.normal
          /\ q \in Parsers
      BY <1>3 DEF AtPlace
    <2>2. /\ q.thinking = parser.thinking /\ q.normal = <<>> /\ q.buffer = parser.buffer
          /\ s.thinking = parser.thinking /\ s.normal = <<>> /\ s.buffer = parser.buffer \o more
          /\ s = [thinking |-> parser.thinking, normal |-> <<>>, buffer |-> parser.buffer \o more]
      BY DEF Resting, Fresh
    <2> HIDE DEF s, q, r
    <2>3. parser.buffer \o more = SubSeq(reply, m + 1, e)
      <3>1. SubSeq(reply, m + 1, sent) \o SubSeq(reply, sent + 1, e) = SubSeq(reply, m + 1, e)
        BY <1>1, <1>2, <2>1, Joined
      <3> QED BY <2>1, <2>2, <3>1 DEF more, e
    <2>4. m <= e /\ e <= Len(reply)
      BY <1>1, <1>2, <2>1
    <2>5. s \in Parsers
      <3>1. parser.thinking \in BOOLEAN
        BY <2>1, <2>2 DEF Parsers
      <3>2. SubSeq(reply, m + 1, e) \in Seq(STRING)
        BY <1>2, <2>4, Part
      <3> QED BY <2>2, <2>3, <3>1, <3>2, EmptySeq DEF Parsers
    <2>6. /\ s.buffer = SubSeq(reply, m + 1, e) /\ r.thinking = s.thinking
          /\ r.kept = content \o s.normal
      BY <2>1, <2>2, <2>3, Zenon
    <2> QED BY <2>1, <2>4, <2>5, <2>6 DEF AtPlace, s, r
  <1>5. PICK k \in Nat : AtPlace(p, reply, k, e, content) /\ Short(p)
    BY <1>2, <1>4, ProcessedPlaces, Zenon
  <1> HIDE DEF p
  <1>6. p.thinking \in BOOLEAN /\ p.normal \in Seq(STRING) /\ p.buffer \in Seq(STRING)
    BY <1>5 DEF AtPlace, Parsers
  <1>7. out \in Seq(STRING) /\ shown \o p.normal = out
    BY <1>2, <1>6, ConcatProperties
  <1>8. parser'.thinking = p.thinking /\ parser'.buffer = p.buffer
    BY <1>1, Zenon
  <1>9. Short(parser')
    BY <1>5, <1>8 DEF Short
  <1>10. AtPlace(Resting(parser'), reply, k, e, out)
    <2> DEFINE q == Resting(parser')
               r == ReadingOf(reply)[k]
    <2>1. /\ p.buffer = SubSeq(reply, k + 1, e) /\ k <= e /\ e <= Len(reply)
          /\ r.thinking = p.thinking /\ r.until <= k /\ r.kept = out
      BY <1>5 DEF AtPlace
    <2>2. q = [thinking |-> p.thinking, normal |-> <<>>, buffer |-> p.buffer]
      BY <1>8 DEF Resting
    <2> HIDE DEF q, r, out
    <2>3. q.thinking = p.thinking /\ q.normal = <<>> /\ q.buffer = p.buffer
      BY <2>2, Zenon
    <2>4. q \in Parsers
      BY <1>6, <2>2, EmptySeq DEF Parsers
    <2>5. r.kept = out \o q.normal
      BY <1>7, <2>1, <2>3
    <2>6. q.buffer = SubSeq(reply, k + 1, e) /\ r.thinking = q.thinking
      BY <2>1, <2>3, Zenon
    <2> QED BY <2>1, <2>4, <2>5, <2>6 DEF AtPlace, q, r
  <1> HIDE DEF out
  <1>11. Reached(parser', reply, e, out)
    BY <1>9, <1>10, Zenon DEF Reached
  <1>12. Reached(parser', reply', sent', content')
    BY <1>1, <1>11, Zenon
  <1>13. StreamTypeOK'
    BY <1>1, <1>2, <1>6, <1>7 DEF StreamTypeOK
  <1> QED BY <1>1, <1>12, <1>13 DEF StreamInv

LEMMA StreamBreaks ==
    ASSUME StreamInv, StreamFails
    PROVE  StreamInv'
  <1>1. /\ streamPc' = "raised" /\ reply' = reply /\ sent' = sent /\ parser' = parser
        /\ content' = content /\ shown' = shown /\ StreamTypeOK
    BY DEF StreamInv, StreamFails
  <1>2. StreamTypeOK'
    BY <1>1 DEF StreamTypeOK
  <1> QED BY <1>1, <1>2 DEF StreamInv

LEMMA StreamCloses ==
    ASSUME StreamInv, StreamEnds
    PROVE  StreamInv'
  <1> DEFINE rest == Rest(parser)
             out == content \o rest
  <1>1. /\ streamPc = "open" /\ content' = out /\ shown' = shown \o rest
        /\ streamPc' = (IF out = <<>> THEN "raised" ELSE "returned")
        /\ parser' = [parser EXCEPT !.buffer = <<>>] /\ reply' = reply /\ sent' = sent
    BY DEF StreamEnds, Rest
  <1>2. /\ reply \in Seq(STRING) /\ sent \in Nat /\ content \in Seq(STRING) /\ shown = content
        /\ parser \in [thinking : BOOLEAN, buffer : Seq(STRING)]
    BY DEF StreamInv, StreamTypeOK
  <1>3. Reached(parser, reply, sent, content)
    BY <1>1 DEF StreamInv
  <1>4. Visible(SubSeq(reply, 1, sent)) = out
    BY <1>2, <1>3, VisibleIs
  <1>5. rest \in Seq(STRING)
    BY <1>2, EmptySeq DEF Rest
  <1>6. out \in Seq(STRING)
    BY <1>2, <1>5, ConcatProperties
  <1>7. parser' \in [thinking : BOOLEAN, buffer : Seq(STRING)]
    BY <1>1, <1>2, EmptySeq
  <1>8. streamPc' \in {"raised", "returned"} /\ (streamPc' = "returned" => out # <<>>)
    BY <1>1
  <1> HIDE DEF out, rest
  <1>9. shown' = out
    BY <1>1, <1>2 DEF out
  <1>10. StreamTypeOK'
    BY <1>1, <1>2, <1>6, <1>7, <1>8, <1>9 DEF StreamTypeOK
  <1> QED BY <1>1, <1>4, <1>8, <1>10 DEF StreamInv

LEMMA StreamStays ==
    ASSUME StreamInv, UNCHANGED streamVars
    PROVE  StreamInv'
  <1>1. /\ streamPc' = streamPc /\ reply' = reply /\ sent' = sent /\ parser' = parser
        /\ content' = content /\ shown' = shown
    BY DEF streamVars
  <1>2. StreamTypeOK'
    BY <1>1 DEF StreamInv, StreamTypeOK
  <1> QED BY <1>1, <1>2 DEF StreamInv

LEMMA ShownIsBeginning ==
    ASSUME NEW a \in Seq(STRING), NEW b \in Seq(STRING)
    PROVE  IsPrefix(a, a \o b)
  <1> DEFINE c == a \o b
  <1>1. c \in Seq(STRING) /\ Len(c) = Len(a) + Len(b) /\ \A i \in 1..Len(a) : c[i] = a[i]
    BY ConcatProperties
  <1>2. Len(a) \in Nat /\ Len(b) \in Nat /\ Len(a) <= Len(c)
    BY <1>1
  <1> HIDE DEF c
  <1>3. SubSeq(c, 1, Len(a)) = SubSeq(a, 1, Len(a))
    BY <1>1, <1>2
  <1> QED BY <1>2, <1>3 DEF IsPrefix, c

LEMMA AnswerFromInvariant == StreamInv => AnswerIsVisibleText
  <1> DEFINE visible == Visible(SubSeq(reply, 1, sent))
  <1> SUFFICES ASSUME StreamInv PROVE AnswerIsVisibleText
    OBVIOUS
  <1>1. /\ reply \in Seq(STRING) /\ sent \in Nat /\ content \in Seq(STRING) /\ shown = content
        /\ parser \in [thinking : BOOLEAN, buffer : Seq(STRING)]
    BY DEF StreamInv, StreamTypeOK
  <1>2. ASSUME streamPc = "returned"
        PROVE  content = visible /\ shown = visible /\ visible # <<>>
    BY <1>1, <1>2 DEF StreamInv
  <1>3. ASSUME streamPc = "open"
        PROVE  content = shown /\ IsPrefix(shown, visible)
    <2>1. Reached(parser, reply, sent, content)
      BY <1>3 DEF StreamInv
    <2>2. visible = content \o Rest(parser)
      BY <1>1, <2>1, VisibleIs
    <2>3. Rest(parser) \in Seq(STRING)
      BY <1>1, EmptySeq DEF Rest
    <2> HIDE DEF visible
    <2>4. IsPrefix(content, visible)
      BY <1>1, <2>2, <2>3, ShownIsBeginning
    <2> QED BY <1>1, <2>4
  <1> HIDE DEF visible
  <1> QED BY <1>2, <1>3, Zenon DEF AnswerIsVisibleText, visible

\* The answer returned is what the reader of the whole reply keeps of it, and the
\* listener has been shown exactly that, wherever the chunks were cut, for every
\* reply and every pair of tags (consume_streaming_response, ThinkStreamParser).
THEOREM AnswerShowsVisibleText == StreamSpec => []AnswerIsVisibleText
  <1>1. ASSUME StreamInv, [StreamNext]_streamVars
        PROVE  StreamInv'
    <2>1. ASSUME NEW t \in Replies, OpenStream(t) PROVE StreamInv'
      BY <1>1, <2>1, StreamOpens
    <2>2. ASSUME NEW n \in ChunkSizes, Chunk(n) PROVE StreamInv'
      BY <1>1, <2>2, ChunkArrives
    <2>3. ASSUME StreamFails PROVE StreamInv'
      BY <1>1, <2>3, StreamBreaks
    <2>4. ASSUME StreamEnds PROVE StreamInv'
      BY <1>1, <2>4, StreamCloses
    <2>5. ASSUME UNCHANGED streamVars PROVE StreamInv'
      BY <1>1, <2>5, StreamStays
    <2> QED BY <1>1, <2>1, <2>2, <2>3, <2>4, <2>5, Zenon DEF StreamNext
  <1> QED BY <1>1, StreamStarts, AnswerFromInvariant, PTL DEF StreamSpec
=============================================================================
