---------------------------- MODULE TaskRuntime ----------------------------
(***************************************************************************)
(* One task of a session (TaskRuntime, runtime/task.rs): the state machine *)
(* start, pause, resume, stop, restart and poll drive, as operators on a   *)
(* record.  `child` says whether the runtime holds the handle of the       *)
(* process group it spawned; what that process is doing is known to the    *)
(* operating system only, and reaches the runtime through poll's try_wait. *)
(* `run` stands for started_at_ms: the ordinal of the process among those  *)
(* spawned for the task, 0 before the first.                               *)
(***************************************************************************)
EXTENDS Naturals

Statuses == {"idle", "running", "paused", "exited", "failed"}

\* What the operating system knows of a process: it lives, it ended by itself
\* (with exit code zero or not), or a signal of stop() ended it.
Fates == {"live", "success", "failure", "killed"}

TaskState == [status : Statuses, child : BOOLEAN, generation : Nat, run : Nat]

NewTask == [status |-> "idle", child |-> FALSE, generation |-> 0, run |-> 0]

Active(t) == t.status \in {"running", "paused"}

\* poll: try_wait on the child, whose fate the operating system reports.
Poll(t, fate) ==
    IF t.child /\ fate # "live"
    THEN [t EXCEPT !.status = IF fate = "success" THEN "exited" ELSE "failed",
                   !.child = FALSE]
    ELSE t

\* start, when the spawn succeeds.  The caller polled first and found no child.
Start(t, run) ==
    [status |-> "running", child |-> TRUE, generation |-> t.generation + 1, run |-> run]

\* stop on a polled task: the child, if there is one, is signalled and reaped.
Stop(t) == [t EXCEPT !.status = "idle", !.child = FALSE]

\* pause and resume on a polled task; in any other status they fail and change nothing.
Pause(t)  == IF t.status = "running" THEN [t EXCEPT !.status = "paused"] ELSE t
Resume(t) == IF t.status = "paused" THEN [t EXCEPT !.status = "running"] ELSE t
=============================================================================
