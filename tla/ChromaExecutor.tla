---------------------------- MODULE ChromaExecutor ----------------------------
(***************************************************************************)
(* How calls to the vector store are run: one at a time under a lock, on   *)
(* one thread, with a timeout that cannot stop the thread. A thread that   *)
(* has been busy for too long is left behind and replaced.                 *)
(*                                                                         *)
(* src/services/vector_chroma.py. The caller's side runs on the event loop *)
(* and is atomic between awaits; _run_tracked runs on the threads, and its *)
(* tests and assignments of the shared start time are steps of their own.  *)
(* Time is counted in ticks; ages stop at AgeCap.                          *)
(***************************************************************************)
EXTENDS Naturals

CONSTANTS
    Callers,            \* coroutines that use the store
    LockTimeout,        \* chroma_lock_acquire_timeout_seconds
    OpTimeout,          \* chroma_operation_timeout_seconds
    ZombieThreshold,    \* chroma_zombie_threshold_seconds
    MaxRecycles         \* bound: threads left behind

ASSUME ChromaAssumption ==
    /\ LockTimeout \in Nat \ {0} /\ OpTimeout \in Nat \ {0}
    /\ ZombieThreshold \in Nat /\ MaxRecycles \in Nat

AgeCap == ZombieThreshold + OpTimeout + 1
Generations == 0..MaxRecycles
NoAge == AgeCap + 1     \* "None": above every age

VARIABLES
    generation,     \* _executor_generation
    opStarted,      \* age of _op_started_at, NoAge when it is None
    thread,         \* generation -> its thread: where it is, for whom, since when
    queued,         \* generation -> the caller whose call waits for the thread
    lockedBy,       \* who holds _chroma_lock
    caller,         \* coroutine -> where it is and for how long
    clobbered       \* history: a thread left behind has written opStarted

chromaVars == <<generation, opStarted, thread, queued, lockedBy, caller, clobbered>>

NoCaller == "no_caller"
IdleThread == [pc |-> "idle", for |-> NoCaller, age |-> 0]
IdleCaller == [pc |-> "idle", query |-> FALSE, retried |-> FALSE, age |-> 0]

ChromaInit ==
    /\ generation = 0 /\ opStarted = NoAge
    /\ thread = [g \in Generations |-> IdleThread]
    /\ queued = [g \in Generations |-> NoCaller]
    /\ lockedBy = NoCaller
    /\ caller = [c \in Callers |-> IdleCaller]
    /\ clobbered = FALSE

-----------------------------------------------------------------------------
(* The coroutines: run_with_chroma.                                        *)

\* A write, a deletion or a query is asked for.
CallChroma(c, query) ==
    /\ caller[c].pc = "idle"
    /\ caller' = [caller EXCEPT ![c] = [IdleCaller EXCEPT !.pc = "lock", !.query = query]]
    /\ UNCHANGED <<generation, opStarted, thread, queued, lockedBy, clobbered>>

\* The lock is taken and the call goes to the thread of this generation.
Submit(c) ==
    /\ caller[c].pc = "lock" /\ lockedBy = NoCaller
    /\ lockedBy' = c
    /\ queued' = [queued EXCEPT ![generation] = c]
    /\ caller' = [caller EXCEPT ![c].pc = "op", ![c].age = 0]
    /\ UNCHANGED <<generation, opStarted, thread, clobbered>>

LockTimesOut(c) ==
    /\ caller[c].pc = "lock" /\ caller[c].age >= LockTimeout
    /\ caller' = [caller EXCEPT ![c] = IdleCaller]
    /\ UNCHANGED <<generation, opStarted, thread, queued, lockedBy, clobbered>>

\* The thread has answered in time.
Answered(c) ==
    /\ caller[c].pc = "done"
    /\ lockedBy' = NoCaller
    /\ caller' = [caller EXCEPT ![c] = IdleCaller]
    /\ UNCHANGED <<generation, opStarted, thread, queued, clobbered>>

\* Mutant: the wait of this call, not the time the thread has been busy.
OwnOccupancy(c) == caller[c].age

\* How long the thread has been busy, as far as the caller can tell.
Occupancy(c) == IF opStarted = NoAge THEN caller[c].age ELSE opStarted

\* The future is cancelled: a call still queued is never begun, one that the
\* thread is in goes on for nobody.
Disowned(c) ==
    LET g == generation IN
    /\ thread' = [thread EXCEPT ![g].for = IF @ = c THEN NoCaller ELSE @]
    /\ queued' = [queued EXCEPT ![g] = NoCaller]

\* The call has timed out with the thread still busy, but not for too long.
OpTimesOut(c) ==
    /\ caller[c].pc = "op" /\ caller[c].age >= OpTimeout
    /\ Occupancy(c) <= ZombieThreshold
    /\ lockedBy' = NoCaller
    /\ caller' = [caller EXCEPT ![c] = IdleCaller]
    /\ Disowned(c)
    /\ UNCHANGED <<generation, opStarted, clobbered>>

\* The thread is left behind in the middle of what it does; a query
\* is tried once more, on the new thread.
Recycle(c) ==
    /\ caller[c].pc = "op" /\ caller[c].age >= OpTimeout
    /\ Occupancy(c) > ZombieThreshold
    /\ generation < MaxRecycles
    /\ generation' = generation + 1
    /\ opStarted' = NoAge
    /\ lockedBy' = NoCaller
    /\ caller' = [caller EXCEPT ![c] =
                    IF @.query /\ ~@.retried
                    THEN [@ EXCEPT !.pc = "lock", !.retried = TRUE, !.age = 0]
                    ELSE IdleCaller]
    /\ Disowned(c)
    /\ UNCHANGED clobbered

-----------------------------------------------------------------------------
(* The threads: _run_tracked.                                              *)

\* A thread takes the next call; its age is that of the call it runs.
Begin(g) ==
    /\ thread[g].pc = "idle" /\ queued[g] # NoCaller
    /\ thread' = [thread EXCEPT ![g] = [pc |-> "begin", for |-> queued[g], age |-> 0]]
    /\ queued' = [queued EXCEPT ![g] = NoCaller]
    /\ UNCHANGED <<generation, opStarted, lockedBy, caller, clobbered>>

\* The generation is compared with the one the call was submitted under.
CompareBefore(g) ==
    /\ thread[g].pc = "begin"
    /\ thread' = [thread EXCEPT ![g].pc = IF g = generation THEN "mark" ELSE "run"]
    /\ UNCHANGED <<generation, opStarted, queued, lockedBy, caller, clobbered>>

Mark(g) ==
    /\ thread[g].pc = "mark"
    /\ opStarted' = 0
    /\ thread' = [thread EXCEPT ![g].pc = "run", ![g].age = 0]
    /\ clobbered' = (clobbered \/ g # generation)
    /\ UNCHANGED <<generation, queued, lockedBy, caller>>

\* The store's call returns or raises; it may never do so.
Return(g) ==
    /\ thread[g].pc = "run"
    /\ thread' = [thread EXCEPT ![g].pc = "end"]
    /\ UNCHANGED <<generation, opStarted, queued, lockedBy, caller, clobbered>>

\* Mutant: a thread left behind clears the start as well.
CompareNever(g) ==
    /\ thread[g].pc = "end"
    /\ opStarted' = NoAge
    /\ thread' = [thread EXCEPT ![g].pc = "clear"]
    /\ UNCHANGED <<generation, queued, lockedBy, caller, clobbered>>

CompareAfter(g) ==
    /\ thread[g].pc = "end"
    /\ thread' = [thread EXCEPT ![g].pc = IF g = generation THEN "clear" ELSE "idle"]
    /\ UNCHANGED <<generation, opStarted, queued, lockedBy, caller, clobbered>>

\* The start is cleared and the answer delivered, if it is still waited for.
Clear(g) ==
    /\ thread[g].pc = "clear"
    /\ opStarted' = NoAge
    /\ clobbered' = (clobbered \/ g # generation)
    /\ thread' = [thread EXCEPT ![g] = IdleThread]
    /\ caller' = [c \in Callers |->
                    IF c = thread[g].for THEN [caller[c] EXCEPT !.pc = "done"] ELSE caller[c]]
    /\ UNCHANGED <<generation, queued, lockedBy>>

-----------------------------------------------------------------------------
Older(a) == IF a = NoAge THEN NoAge ELSE IF a < AgeCap THEN a + 1 ELSE AgeCap

\* Time passes, never past a deadline somebody waits for, and only in the
\* store's own calls. The ages of threads left behind no longer matter.
\* Bound: a run is followed no further once the start has been clobbered, when
\* a hung thread may never be found out.
Tick ==
    /\ ~clobbered
    /\ \A c \in Callers : /\ caller[c].pc = "op" => caller[c].age < OpTimeout
                          /\ caller[c].pc = "lock" => caller[c].age < LockTimeout
                          /\ caller[c].pc # "done"
    /\ \A h \in Generations :
          thread[h].pc = "run" \/ (thread[h].pc = "idle" /\ queued[h] = NoCaller)
    /\ opStarted' = Older(opStarted)
    /\ thread' = [g \in Generations |->
                    IF thread[g].pc = "idle" \/ g # generation THEN thread[g]
                    ELSE [thread[g] EXCEPT !.age = Older(@)]]
    /\ caller' = [c \in Callers |->
                    IF caller[c].pc = "idle" THEN caller[c]
                    ELSE [caller[c] EXCEPT !.age = Older(@)]]
    /\ UNCHANGED <<generation, queued, lockedBy, clobbered>>

ChromaNext ==
    \/ \E c \in Callers :
          \/ \E query \in BOOLEAN : CallChroma(c, query)
          \/ Submit(c) \/ LockTimesOut(c) \/ Answered(c) \/ OpTimesOut(c) \/ Recycle(c)
    \/ \E g \in Generations :
          \/ Begin(g) \/ CompareBefore(g) \/ Mark(g) \/ Return(g)
          \/ CompareAfter(g) \/ Clear(g)
    \/ Tick

ChromaSpec == ChromaInit /\ [][ChromaNext]_chromaVars

-----------------------------------------------------------------------------
\* A caller that times out leaves the thread behind exactly when the call the
\* thread is in has been running for longer than the threshold, whoever made
\* that call: one hung call costs the others a bounded number of timeouts, and
\* a thread that works is never replaced. It may misjudge only after a thread
\* left behind has written the shared start between its test and its
\* assignment.
JudgedByRunningCall ==
    [][\A c \in Callers :
         LET g == generation
             timedOut == caller[c].pc = "op" /\ caller[c].age >= OpTimeout
                         /\ caller'[c].pc # "op" /\ caller'[c].pc # "done"
         IN timedOut /\ ~clobbered /\ thread[g].pc \in {"run", "end"} =>
              (generation' # g <=> thread[g].age > ZombieThreshold)]_chromaVars
=============================================================================
