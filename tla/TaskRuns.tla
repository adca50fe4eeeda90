------------------------------ MODULE TaskRuns ------------------------------
(***************************************************************************)
(* The task_runs table of the state database (state/events.rs), as         *)
(* operators on the rows of one (node, session, task): a sequence in the   *)
(* order of the row ids.  `run` stands for started_at_ms (see TaskRuntime);*)
(* the rows of attempts that started no process carry a time at which no   *)
(* process started, written 0.                                             *)
(***************************************************************************)
EXTENDS Naturals, Sequences

Triggers == {"cron", "manual", "auto_start"}
RowStatuses == {"running", "stopped", "exited", "failed", "skipped"}

Row == [generation : Nat, run : Nat, trigger : Triggers, status : RowStatuses]

\* has_task_run, the check record_task_run_start makes before it inserts.
HasTaskRun_GenerationOnly(history, generation, run) ==
    \E i \in DOMAIN history : history[i].generation = generation
HasTaskRun_Never(history, generation, run) == FALSE
HasTaskRun(history, generation, run) ==
    \E i \in DOMAIN history : /\ history[i].generation = generation
                              /\ history[i].run = run

\* start_task_run: the row of a process that was just spawned.
StartTaskRun(history, generation, run, trigger) ==
    Append(history, [generation |-> generation, run |-> run,
                     trigger |-> trigger, status |-> "running"])

\* record_terminal_task_run_attempt: a skipped or failed attempt, finished when it is
\* written.  It borrows the generation of the task's snapshot, and not its start time.
RecordAttempt(history, generation, status) ==
    Append(history, [generation |-> generation, run |-> 0,
                     trigger |-> "cron", status |-> status])

\* finish_task_run: the newest row of that generation that is still running.
CloseNewest(history, candidates, status) ==
    [i \in DOMAIN history |->
        IF i \in candidates /\ \A j \in candidates : j <= i
        THEN [history[i] EXCEPT !.status = status] ELSE history[i]]

OfGeneration(history, generation) ==
    {i \in DOMAIN history : history[i].generation = generation}
StillRunning(history) == {i \in DOMAIN history : history[i].status = "running"}

FinishTaskRun_AnyStatus(history, generation, status) ==
    CloseNewest(history, OfGeneration(history, generation), status)
FinishTaskRun_AnyGeneration(history, generation, status) ==
    CloseNewest(history, StillRunning(history), status)
FinishTaskRun(history, generation, status) ==
    CloseNewest(history, OfGeneration(history, generation) \cap StillRunning(history), status)

\* finish_running_task_runs: every row that is still running.
FinishRunning_Nothing(history, status) == history
FinishRunning(history, status) ==
    [i \in DOMAIN history |->
        IF history[i].status = "running"
        THEN [history[i] EXCEPT !.status = status] ELSE history[i]]
=============================================================================
