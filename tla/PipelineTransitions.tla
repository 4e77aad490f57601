------------------------- MODULE PipelineTransitions -------------------------
(***************************************************************************)
(* The status rules of services/pipeline_transitions.py as pure operators: *)
(* each takes the statuses a caller holds IN MEMORY and returns the status *)
(* it assigns.  An early return is the status unchanged.  What is then     *)
(* written to the database is decided by the session (module JobControl).  *)
(***************************************************************************)

\* core/pipeline_vocab.py.  NovelStatus.FAILED and CANCELLED are never
\* assigned to a novel by the code these modules cover, and are left out.
JobStatus   == {"pending", "running", "paused", "failed", "completed", "cancelled"}
NovelStatus == {"planning", "generating", "paused", "completed"}

\* services/pipeline_commands.py: the statuses the partial unique index of
\* models/operations.py lets at most one generate job of a project have.
ActiveStatus == {"pending", "running"}

\* A failure never replaces a pause or a cancellation the session knows of.
FailJob(s) == IF s \in {"paused", "cancelled"} THEN s ELSE "failed"

\* Pausing leaves a finished job alone.
PauseJob(s) == IF s \in {"completed", "failed", "cancelled"} THEN s ELSE "paused"

\* Cancelling leaves a finished job alone, and keeps the resume anchor.
CancelJob(s) == IF s \in {"completed", "failed", "cancelled"} THEN s ELSE "cancelled"

\* Completion is refused only after a failure or a cancellation: a job the
\* session holds as paused does become completed.
CompleteJob(s) == IF s \in {"failed", "cancelled"} THEN s ELSE "completed"

\* The novel complete_job leaves behind when it is given one.
CompleteNovel(s, n) ==
    IF s \in {"failed", "cancelled"} \/ n = "paused" THEN n ELSE "completed"
=============================================================================
