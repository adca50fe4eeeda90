------------------------------ MODULE TaskMetrics ------------------------------
(***************************************************************************)
(* The resource sampler of a daemon (daemon/sampler.rs, process_tree.rs,   *)
(* metrics.rs).  It lists the tasks under the lock of the sessions, reads  *)
(* the processes of the machine and their listeners without it, and takes  *)
(* the lock again to record; meanwhile tasks start, end, are restarted,    *)
(* cleared, dropped and added.                                             *)
(***************************************************************************)
EXTENDS Naturals, FiniteSetsExt

CONSTANTS
    MetricTask,     \* session and task
    NoEntry,        \* no such task, no metrics, no process
    MaxGeneration,  \* bound: starts of a task
    MaxHistory,     \* bound: times its history is cleared, and
    MaxLives        \* bound: times it is added

ASSUME MetricsBounds == MaxGeneration \in Nat /\ MaxHistory \in Nat /\ MaxLives \in Nat

VARIABLES
    life,      \* each task: its process, start_generation and history_generation, or NoEntry
    lives,     \* history: times each task was added
    since,     \* history: the history_generation whose metrics were cleared last
    kept,      \* TaskMetricsStore: running, and what samples and restart markers are of
    targets,   \* what the sampler listed
    observed,  \* what it then observed of each
    sampling   \* where it is

metricsVars == <<life, lives, since, kept, targets, observed, sampling>>

\* Two starts have different processes, also those of two tasks one after the other.
Process(t) == life[t].life * (MaxGeneration + 1) + life[t].gen
New(t) == [pid |-> 0, gen |-> 0, hist |-> 1, life |-> lives[t] + 1]
NoMetrics == [running |-> FALSE, samples |-> {}, marks |-> {}]
Tag(t) == [hist |-> life[t].hist, life |-> life[t].life]

MetricsTypeOK ==
    LET tags == [hist : 1..MaxHistory + 1, life : 1..MaxLives]
        identity == [pid : Nat, gen : 0..MaxGeneration,
                     hist : 1..MaxHistory + 1, life : 1..MaxLives]
    IN  /\ life \in [MetricTask -> identity \cup {NoEntry}]
        /\ lives \in [MetricTask -> 0..MaxLives]
        /\ since \in [MetricTask -> 1..MaxHistory + 1]
        /\ \A t \in MetricTask : kept[t] # NoEntry =>
              kept[t].running \in BOOLEAN /\ kept[t].samples \subseteq tags /\ kept[t].marks \subseteq tags
        /\ targets \in [MetricTask -> identity \cup {NoEntry}]
        /\ observed \in [MetricTask -> identity \cup {NoEntry}]
        /\ sampling \in {"asleep", "listed", "observed"}

MetricsInit ==
    /\ life = [t \in MetricTask |-> NoEntry] /\ lives = [t \in MetricTask |-> 0]
    /\ since = [t \in MetricTask |-> 1]
    /\ kept = [t \in MetricTask |-> NoEntry]
    /\ targets = [t \in MetricTask |-> NoEntry] /\ observed = targets
    /\ sampling = "asleep"

Listed == {t \in MetricTask : targets[t] # NoEntry}
sampler == <<targets, observed, sampling>>
-----------------------------------------------------------------------------
(* Requests, under the lock of the sessions. *)

Add(t) ==
    /\ life[t] = NoEntry /\ lives[t] < MaxLives
    /\ life' = [life EXCEPT ![t] = New(t)]
    /\ lives' = [lives EXCEPT ![t] = @ + 1] /\ since' = [since EXCEPT ![t] = 1]
    /\ UNCHANGED <<kept, sampler>>

\* A configuration without the task, or the first part of RemoveSession ...
Drop(t) ==
    /\ life[t] # NoEntry
    /\ life' = [life EXCEPT ![t] = NoEntry]
    /\ UNCHANGED <<lives, since, kept, sampler>>

\* ... whose last, in a lock of its own, is remove_session: the session may be back by then.
RemoveMetrics(t) == kept' = [kept EXCEPT ![t] = NoEntry] /\ UNCHANGED <<life, lives, since, sampler>>

StartTask(t) ==
    /\ life[t] # NoEntry /\ life[t].pid = 0 /\ life[t].gen < MaxGeneration
    /\ life' = [life EXCEPT ![t].pid = Process(t), ![t].gen = @ + 1]
    /\ UNCHANGED <<lives, since, kept, sampler>>

\* Stopped, or found to have ended by any poll.
EndTask(t) ==
    /\ life[t] # NoEntry /\ life[t].pid # 0
    /\ life' = [life EXCEPT ![t].pid = 0]
    /\ UNCHANGED <<lives, since, kept, sampler>>

Metrics(t) == IF kept[t] = NoEntry THEN NoMetrics ELSE kept[t]

\* TaskRuntime::restart, in any state of its process: stop, clear_history for a task that says
\* so, start.  Where it ends: in a new process, or without one if that could not be spawned.
Started(t, hist) == [life[t] EXCEPT !.pid = Process(t), !.gen = @ + 1, !.hist = hist]
NotStarted(t, hist) == [life[t] EXCEPT !.pid = 0, !.hist = hist]
Restartable(t) == life[t] # NoEntry /\ life[t].gen < MaxGeneration
Clearable(t) == life[t] # NoEntry /\ life[t].hist <= MaxHistory

\* Then mark_restart.
Restart(t) ==
    /\ Restartable(t)
    /\ life' = [life EXCEPT ![t] = Started(t, @.hist)]
    /\ kept' = [kept EXCEPT ![t] = [Metrics(t) EXCEPT !.marks = @ \cup {Tag(t)}]]
    /\ UNCHANGED <<lives, since, sampler>>

\* clear_logs_on_restart: clear_task instead of the marker.
RestartCleared(t) ==
    /\ Restartable(t) /\ Clearable(t)
    /\ life' = [life EXCEPT ![t] = Started(t, @.hist + 1)]
    /\ since' = [since EXCEPT ![t] = life[t].hist + 1]
    /\ kept' = [kept EXCEPT ![t] = NoEntry]
    /\ UNCHANGED <<lives, sampler>>

\* The start of this task fails, or in a restart of the whole session that of another: the
\* handler returns the error before it comes to the metrics, for all tasks of the request.
RestartFails(t) ==
    /\ life[t] # NoEntry
    /\ \/ life' = [life EXCEPT ![t] = NotStarted(t, @.hist)]
       \/ Restartable(t) /\ life' = [life EXCEPT ![t] = Started(t, @.hist)]
    /\ UNCHANGED <<lives, since, kept, sampler>>

RestartClearedFails(t) ==
    /\ Clearable(t)
    /\ \/ life' = [life EXCEPT ![t] = NotStarted(t, @.hist + 1)]
       \/ Restartable(t) /\ life' = [life EXCEPT ![t] = Started(t, @.hist + 1)]
    /\ UNCHANGED <<lives, since, kept, sampler>>

\* ClearTaskHistory.
ClearHistory(t) ==
    /\ Clearable(t)
    /\ life' = [life EXCEPT ![t].hist = @ + 1]
    /\ since' = [since EXCEPT ![t] = life[t].hist + 1]
    /\ kept' = [kept EXCEPT ![t] = NoEntry]
    /\ UNCHANGED <<lives, sampler>>
-----------------------------------------------------------------------------
(* The sampler. *)

List ==
    /\ sampling = "asleep"
    /\ targets' = life
    /\ IF \A t \in MetricTask : life[t] = NoEntry
       THEN kept' = [t \in MetricTask |-> NoEntry] /\ UNCHANGED sampling
       ELSE sampling' = "listed" /\ UNCHANGED kept
    /\ UNCHANGED <<life, lives, since, observed>>

\* task_metric_identity: what the code compares, the life is not part of it.
Current(t) ==
    /\ life[t] # NoEntry
    /\ life[t].pid = targets[t].pid /\ life[t].gen = targets[t].gen /\ life[t].hist = targets[t].hist

\* A process that was listed is among those read, or has ended meanwhile.
Observe ==
    /\ sampling = "listed" /\ sampling' = "observed"
    /\ \E found \in SUBSET {t \in Listed : Current(t) /\ targets[t].pid # 0} :
          observed' = [t \in MetricTask |-> IF t \in found THEN targets[t] ELSE NoEntry]
    /\ UNCHANGED <<life, lives, since, kept, targets>>

\* apply_observation, with the sample tagged by the history it was taken of.
Applied(t) ==
    IF observed[t] = NoEntry
    THEN [Metrics(t) EXCEPT !.running = FALSE]
    ELSE [Metrics(t) EXCEPT !.running = TRUE,
             !.samples = @ \cup {[hist |-> observed[t].hist, life |-> observed[t].life]}]

\* Under both locks: entries of tasks that were not listed or are gone are dropped, and what was
\* observed is recorded of tasks that are still what was listed.
Record_Unchecked ==
    /\ sampling = "observed" /\ sampling' = "asleep"
    /\ kept' = [t \in MetricTask |->
                   IF t \notin Listed \/ life[t] = NoEntry THEN NoEntry ELSE Applied(t)]
    /\ UNCHANGED <<life, lives, since, targets, observed>>
Record ==
    /\ sampling = "observed" /\ sampling' = "asleep"
    /\ kept' = [t \in MetricTask |->
                   IF t \notin Listed \/ life[t] = NoEntry THEN NoEntry
                   ELSE IF Current(t) THEN Applied(t) ELSE kept[t]]
    /\ UNCHANGED <<life, lives, since, targets, observed>>

MetricsNext ==
    \/ \E t \in MetricTask : \/ Add(t) \/ Drop(t) \/ RemoveMetrics(t) \/ StartTask(t) \/ EndTask(t)
                             \/ Restart(t) \/ RestartCleared(t) \/ ClearHistory(t)
                             \/ RestartFails(t) \/ RestartClearedFails(t)
    \/ List \/ Observe \/ Record

MetricsSpec == MetricsInit /\ [][MetricsNext]_metricsVars
-----------------------------------------------------------------------------
(* Properties. *)

\* What was cleared stays cleared: no sample and no marker of before comes back with what the
\* sampler had observed by then (record_task_metrics_for_targets looks three times), and none
\* is ahead of the task.  A restart that clears the history and fails does not clear the
\* metrics: theirs are then of the history before, too, until the next clear.
ClearedStaysCleared ==
    \A t \in MetricTask : life[t] # NoEntry /\ kept[t] # NoEntry =>
        \A tag \in kept[t].samples \cup kept[t].marks :
            tag.life = life[t].life => since[t] <= tag.hist /\ tag.hist <= life[t].hist
=============================================================================
