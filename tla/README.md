# TaskDeck in TLA+

TaskDeck is a Rust daemon that runs the tasks of registered projects: long-lived
processes that people, the web interface, MCP clients, other nodes and a cron scheduler
start and stop. This directory models the daemon's concurrent core, model-checks it with
TLC and proves theorems about it with TLAPS. Source paths below are relative to `src/` of
the crate (`src/src/...` from the repository root).

## The system

| Component | State | Operations | Hard part |
|---|---|---|---|
| Task runtime (`runtime/task.rs`, `runtime/mod.rs`) | status, child handle, generation, start time | start, stop, restart, pause, resume, poll | the process ends by itself; only poll notices |
| Run history (`state/events.rs`) | table `task_runs` | open, close, close all running, record an attempt | check and insert are two statements; rows are found by generation |
| Request handlers (`daemon/handle.rs`, `dispatch.rs`) | none | register, remove, action, configuration, shutdown | checks before the sessions lock, writes after it |
| Cron scheduler (`daemon/scheduler.rs`) | last second processed; pending "cron" marks | scan, gate, start, record | races stops and the sampler |
| History sampler (`daemon/sampler.rs`, `notifications.rs`) | last view of each task | compare, write what changed, alert | sees states, not events |
| Start gates (`daemon/gates.rs`, `state/quota.rs`) | quotas, dependencies | check before a start | check-then-act |
| Life cycle (`daemon/mod.rs`, `state.rs`) | shutdown flag, thread handles | load, join, stop all, exit | requests still in flight; crashes |
| Cluster link (`cluster/*.rs`) | workers, pending commands, result cache | connect, command, inventory, forget | lost connections, late answers |
| Audit log (`state/audit.rs`) | `audit_records`, replication marks | record, replicate, acknowledge, prune | at-least-once delivery, retention |
| Configuration (`config/write.rs`, `session_config.rs`) | the project's file, its revision | prepare, finalize, reconcile | lost updates; file and runtime apart |
| Workflows (`state/workflow.rs`, `web/api/workflow_*.rs`) | groups, graphs, revisions | edit, run, restore | order of a run; availability read once |
| Autoscaling (`daemon/scaling.rs`) | streaks, cooldown, remote cache | evaluate, scale | stale observations |
| Log buffer and the terminal's view of it (`runtime/log_buffer.rs`, `tui/`) | bounded lines, numbered from 1 | push, read after, clear, merge | eviction; numbers start over |
| Task metrics (`daemon/metrics.rs`, `process_tree.rs`) | samples and restart markers per task | list, observe, record, clear | an observation of a task that changed meanwhile |
| State database (`state/schema.rs`, `migrate.rs`) | the file, its backup, the migration lock | probe, lock, back up, migrate | several processes; each statement commits alone |
| Node settings (`state/node.rs`, `user_config.rs`) | a row, `taskdeck.json`, the environment | configure, load | two stores written in turn |
| Access (`state/auth.rs`, `web/auth.rs`) | one row of settings, sessions, tokens | enable, issue, revoke, check | two processes write the row; two looks per request |
| Alerts (`state/notification.rs`, `daemon/notifications.rs`) | rules, inbox | match, record, prune, call a webhook | rules change under way; the clock is set back |
| Boards (`state/boards.rs`) | stored layouts | edit, export, import | single statements; not modelled |
| Clients (`cli`, `tui`, frontend), service installation, update, docs | | | not modelled: no state the daemon depends on, or pure I/O |

The components meet in three places: the `sessions` mutex (a map of runtimes), the state
database (one connection behind its own mutex, taken for one statement or transaction at a
time), and the operating system's processes. Every component's properties are about what
happens between two uses of these. `PROJECT.json` lists the hazards line by line.

## Modules

| Module | Models |
|---|---|
| `TaskRuntime` | one task: its record, and start, stop, pause, resume, poll as operators |
| `TaskRuns` | the rows of one task in `task_runs`, and the four statements that write them |
| `RunHistory` | the daemon: handlers, scheduler, sampler, life cycle and processes over both |
| `StartGates` | quotas and dependencies of one node, their edits, and the starts they gate |
| `AgentConnection` | the connection of one worker to its leader: dialling, the leader's loops and its entry, faults |
| `ReplicatedLog` | abstract: what the replication of audit records promises |
| `AuditReplication` | audit records on both nodes and on their way, over `AgentConnection`; implements `ReplicatedLog` |
| `RemoteCall` | abstract: what a leader promises its callers of a command for a worker |
| `AgentLink` | commands and inventories over `AgentConnection`; implements `RemoteCall` |
| `WorkflowGraph` | the cycle check and the run order as functions, and what they are for |
| `Workflows` | workflow groups, their revisions, restores and runs |
| `StateOpen` | opening and migrating the state database, by several processes |
| `NodeSettings` | a node's settings in the database, in `taskdeck.json` and in the environment |
| `ConfigFiles` | reading, merging and writing a project's two files, as functions |
| `SessionConfig` | the sessions of a project against saves, edits, other handlers and restarts |
| `LogFollow` | a task's log and the terminal that follows it |
| `TaskMetrics` | the resource sampler against starts, clears and removals |
| `Scaling` | the evaluator of scaling policies |
| `Access` | the access key, credentials and the middleware |
| `Notifications` | alert rules and the inbox |
| `MCRunHistory`, `MCStartGates`, `MCAuditReplication`, `MCAgentLink`, `MCWorkflows` | the instances TLC checks |
| `MCFiles` | one instance over `StateOpen`, `NodeSettings`, `SessionConfig` and `ConfigFiles` |
| `MCServices` | one instance over `LogFollow`, `TaskMetrics`, `Scaling`, `Access`, `Notifications` and `Workflows` |
| `RunHistory_proofs`, `StartGates_proofs`, `AgentConnection_proofs`, `AuditReplication_proofs`, `AgentLink_proofs`, `Workflows_proofs` | the theorems about the module of that name (`Workflows_proofs` also about `WorkflowGraph`) |
| `Files_proofs` | the theorems about `StateOpen`, `NodeSettings`, `ConfigFiles`, `SessionConfig` |
| `Services_proofs` | the theorems about `LogFollow`, `TaskMetrics`, `Scaling`, `Access`, `Notifications` |

`RunHistory` is one module because its subject is the interaction. How its state
corresponds to the code:

- `present`, `task`, `unavailable`, `triggers`, `registered`, `rows` are the sessions map,
  its runtimes, the unavailable sessions, `run_triggers`, and two tables. `tracked` and
  `todo` are the sampler's local variables, `sched` the scheduler's, `req` a handler's.
- `lock` is the sessions mutex. A section that holds it throughout is one action. The
  scheduler keeps it over its two database statements (`ScheduleStart`, `ScheduleRecord`,
  `ScheduleInsert`), so there it is a variable. A panic under it leaves it `"poisoned"`.
  The one exception to "a guarded section is one action" is the scan for due tasks: it is
  one action with the gate check and the mark that follow, for one task.
- A start time (`started_at_ms`) is abstracted to `run`, the ordinal of the process among
  those of its task: equal when and only when the times are. Two starts of one task within
  one millisecond are therefore not covered.
- `proc` is what the operating system knows and the daemon finds out by polling. `origin`
  and `born` are history variables: how many processes there were when the daemon was
  loaded, and when the session's runtime was made.
- A gate may let a start through or block it; a spawn may fail; with `StoreFaults`, any
  write may fail. Load reads and writes before it serves; an error there ends the daemon,
  which is the same as never having loaded.
- A panic while `stop_all` finds a poisoned lock ends the daemon; `Crash` covers it.

Not in the model: `stop` failing (a kill or wait the system refuses), changes of a definition
(`SessionConfig` has them), alerts (`Notifications`), and the node and session columns of a row
beyond the key.

`StartGates` looks at one node's gates more closely than `RunHistory`, where a gate is a free
choice. `status` is what a poll of each task would say; `quotas` and `dependencies` are the
tables; `req[c]` is a handler's or the scheduler's thread between its reads: `"count"` holds
the list of quotas and has yet to count, `"read"` has yet to list the dependencies,
`"depends"` has still `waiting` to look at, one dependency after the other, and a request that is
`Ready` starts the task next. `edit[e]` is a web handler between check and insert. `passed` and
`unmet` are history variables. The failures a gate ignores (`Err(_) => return Ok(())` in `gates.rs`) and
dependencies on tasks of other nodes are left out.

`AgentConnection` has the state of both ends: `link` and `joined` are the worker's socket and
whether it was welcomed; `entry` is the leader's `WorkerState` (the connection it is online by,
`None` when offline, `Unknown` when there is none); `loop[c]` is `serve_agent_socket` on
connection `c`. `up` and `down` are what has been sent and not read, writer queues included.
`Conn` are slots that are used again once both ends have left. A connection that breaks is
`cut` at once for the worker; the leader may learn of it later, or, if it is `silent`, never.
Heartbeats and connection ids have no state of their own here.

`AuditReplication` adds the tables. `Record` is ordered by time and id, as the queries order
them; a worker may write its records in any order, since a record's time is when its request
came. `RecordAudit` is insert and prune as one step: they are two uses of the connection, but
pruning never takes one of the oldest rows, and a batch read in between (100 rows of a queue of
10,000) names only those. The leader
prunes after every record of a batch, the model once: the newest of the newest are
the same. `RecordOther` stands for the leader's own records and those of other workers.
`stored`, and the statuses `"discarded"` and `"expired"` of rows that are gone, are history.
An error of the worker's database while it reads a batch ends the connection, which
`Break` covers, and so does a send that finds the writer gone: on a connection that still stands a
queue without room only delays the tick. An error while it marks an acknowledgement is dropped, as in
the code. Left out: what records say, and a worker that becomes a leader.

`AgentLink` is the other half of the same connection. `call[q]` is where `request_with_audit`
is for one command, `via` the sender it took under the lock, `pending` the map of callers;
`cache` is the worker's results by command id. A command is carried out before the worker reads
on, so `executed` and the answer change in one step. `known` is the inventory in the leader's
memory and `row` the one in its table; `writing` and `forgetting` are the moments between the
two, in a loop and in `forget_worker`. An inventory is its version, a number that grows. To its
caller a timeout and a lost handler are the same: `Outcome` maps both to "unknown". A send to a writer
task that has ended is refused at once.

`Workflows` keeps a group as what was stored (`groups`) and the revisions by number. A handler
that only reads and writes the store in one transaction is one action; `restore` is the one that
reads first and writes later, `run` the one that reads the group and the availability of its
members and then calls node after node. `WorkflowGraph` translates the walk of
`workflow_graph_has_cycle` and the heap of `workflow_run_order` step by step, as recursive
functions, and states separately what each is for.

`StateOpen` has one action per statement that commits alone; `opener[o]` is where a process is in
`StateStore::open`. The objects of the schema are three: the metadata table, the other tables,
and the columns that `initialize` adds to them. `Exit` is a process that ends or is killed
anywhere; the kernel then drops its file lock. The probe reads several values without a
transaction; it is one step.

`NodeSettings` distinguishes what validation does: role, mode, whether there is a leader's
address, whether the bind host is remote, and the opt-in. `request[p]` is a `configure` between
its reads and its two writes; `before`, `alone` and `answer` are history. Every step can fail, each
with its own outcome: writing the file, before the rename or after it (`"file"`), beginning the
transaction (`"database"`), the transaction (`"commit"`), and putting the file back after that
(`"restore"`), again before the rename or after it. `Killed` is a process that answers nothing. Name,
port and the enrollment token are stored like the other fields and left out.

`ConfigFiles` stands for all fields of a task by two: `command`, which an override replaces, and
`env`, which is merged key by key, where a key may also be unset. `SessionConfig` compares files
where the code compares the hash of them; `mutation` is the request that holds the
`config_mutations` mutex, `view` what a client read. `apart` and `edited` are history: they say
when files and sessions may differ. A project without any task is refused when it is updated or the daemon
loads it again, but not when it is saved (`Discovers`). Left out: the order in which
`taskdeck.yaml` declares its tasks (`session_config.rs:283-289`), which decides only how tasks are
listed to whoever edits them.

Of the service modules, `LogFollow` keeps a line as its generation and number; `asked` is the
one request under way. It begins as `App::new` does, with the lines that the answer to Register brought
and a cursor, but no generation; `view` is history and says how what is shown came about. `TaskMetrics` gives every runtime a `life`, which the code does not
have, to say what a sample was taken of; `record_task_metrics_for_targets` takes the sessions lock
three times: the first look is `Observe`, the last, with the metrics lock, `Record`; the one between
stores only what listeners were found, which is left out. A restart may fail half way, after the history
was cleared, in that its own process is not spawned or that of another task of the session is not
(`RestartFails`, `RestartClearedFails`); the handler then returns before it comes to the metrics. In
`Scaling` the clock counts rounds and a measured value is one of
three levels; what is fetched of another node's task is fetched once and may be another level to each policy that
watches it. Recording an action may fail. `Access` follows one request at a time, the command line and the daemon's start
each between its read and its write of the settings; its request for shutdown may fail, which it ignores. A credential is a
session, an agent token, or the access key itself. The paths that are let through without any
(`web/auth.rs:95-107`) are left out. In `Notifications` a rule is the set of
events it matches; several passes run at the same time, and each insert of a pass may fail.

## Runs

The runs of `RunHistory` use one session. That loses nothing these properties tell apart: sessions share
the lock and the threads but no row and no runtime, and two tasks of one session already
show what a thread does to a second key. `CHECK_DEADLOCK FALSE` in every run but `agent`: the
bounded systems stop (lives, processes or writes are used up, or the lock is poisoned).

| Run | Instance | Checks |
|---|---|---|
| `requests` | 2 clients (symmetric) that start, restart, remove and register, 1 task with a schedule, 2 processes | `OneProcessPerTask`, `CronRunsSayCron`, `LiveRunClosedOnlyByNamesake`, `OutcomeIsFinal` |
| `faults` | 2 tasks, 1 process each, stop, pause and resume of one or both; any write may fail | `TypeOK`, `OneRowPerRun` |
| `restart` | auto-start and schedule, 2 lives, shutdown and crash | `RunningRowsBelongToThisDaemon`, `CleanShutdownClosesHistory` |
| `sampled` | fair, 2 lives, crash, start and stop | `LiveRunIsRecorded`, `LatestRunIsClosed` |
| `poison` | stop only | `SessionsLockUsable`, violated |
| `unrecorded` | fair, start, remove and register | `EveryLiveRunIsRecorded`, violated |
| `gates` | 3 tasks of 2 sessions, one of which needs both others, 2 threads (symmetric), 1 edit, quotas of one task | `OvershootIsBounded`, `DependenciesWereSeen` |
| `dependencies` | the same tasks, 1 thread, no edit | `DependenciesRunAtStart`, violated |
| `audit` | fair, 2 connections, 3 records of the worker and 1 of others, every limit 1, 1 fault | `NewestAreKept`, `ServedIsOnline`, `ImplementsLog`, `QueueDrains` |
| `agent` | fair, 2 connections, 1 command, 1 change of the inventory, 1 fault | `PendingIsAwaited`, `ImplementsCall`, `InventoryGoesForward`, `CallersAreAnswered` |
| `files` | 2 openers of a database of 3 versions; 2 processes that configure, 2 writes; 2 sessions, 2 clients, 2 saves, 1 edit; every small configuration | `OpenHasTables`, `BackupIsTheOriginal`, `IdentityIsFinal`, `AnswerIsTrue`, `SessionsHaveTheFile`, `NoEditIsLost`, `FilesAgree` |
| `services` | a log of 3 lines with 1 clear; 1 task with 2 lives; 1 policy over 7 rounds; 1 credential and 4 commands; 1 rule and 3 events; 2 workflow groups of 4 contents, 3 members on 2 nodes, 3 writes, 1 change of the world, and every graph of up to 4 members | `GraphsAgree`, `RunRespectsEdges`, `NewestRevisionIsGroup`, `RevisionsAreTheLatest`, `RevisionNumbersAreFinal`, `ShownFollowsTheLog`, `ClearedStaysCleared`, `CooldownIsKept`, `ActsOnAStreak`, `AdmittedForAReason`, `SomeoneCanLogIn`, `EveryMatchIsKept` |

Bounds. `MaxRuns` = 2 processes per task is the least at which a run is replaced, and two
runtimes use the same generation number. That is what `LiveRunClosedOnlyByNamesake` is about, and `requests`
reaches it: a session is removed while the scheduler has still to close what it started, it is registered
anew, and the new runtime's first run has its row closed in the name of the old one's. `MaxFirings` = 1: the scheduler has one thread,
and what a second due time meets (a task that runs, or not) the first meets too.
`MaxLives` = 2 gives one crash or shutdown and the load after it. Two clients are the least
at which requests overlap; every request is one of at most three sections, and between two
sections of one request the other may do everything.

In `gates` a limit of one and two threads is the least at which a quota is exceeded. Of the two
dependencies one is of the other session, so that a node-wide and a session's quota both apply, and
they are looked at in either order, with stops and starts in between. Restarts of single tasks pass the
same two looks with no quota to count and are left to the theorem. An edit may
fall between any two reads of a request (`MaxEdits` = 1): a request reads each table once, so
a second edit shows it nothing that a different first one would not. The tables start with
anything that edits one at a time can leave.

In `audit` two connections are what an old and a new one need. With every limit 1, three pending
records of the worker overflow the queue, with the middle one discarded, and the
leader's table holds one record of either node. One fault (a connection that breaks, a restart, a
removal, a failed write) may strike anywhere; a record may be written and sent again
after it. The safety properties were also checked once with two faults. Two messages fit in
either direction, which is what one tick sends.

In `agent` one command and one inventory suffice, since commands meet only in the queues, whose
limit of 2 a command and a welcome fill. Two connections are an old one and the next. One fault
may strike anywhere, and with it the leader may start again, or be told of the end late or never.
The worker's cache holds one result.

Of the workflows the contents include an edge against the order of the members, a cycle, a name that
is taken and a group that names one task twice. Retention of 2 and 3 writes drop a revision, and a
write after that is a number that could be used again. `GraphsAgree` does not depend on the
state and is evaluated once, on 4,096 graphs of four members and those of fewer.

`files` and `services` put modules that share no state into one run: in each behaviour one part
moves and the others rest, so their state spaces add up. Versions 1 to 3 are an older, the current
and a newer one. Two openers are the least that race; a third would find what the second
finds, the lock taken. `FilesAgree` enumerates every import of one label, every
document of two labels with every override, and up to two submitted tasks, with environments of up to two
keys, so that a variable can be taken out of an import while another stays. Two saves and
one edit are an edit before, between and after the steps of a save, and a save with a revision
that another save made stale. The limits of `services` are small ones in place of 5,000 lines and 1,000 rows; a streak
of three rounds and a fetched value that counts for two are the code's own, a cooldown is one
round longer than a streak, and seven rounds are the least in which a policy acts twice.

The type invariants of `RunHistory`, `StartGates`, `AuditReplication` and `StateOpen` are theorems;
that of `AgentLink` is part of its inductive invariant, and those of the other modules are stated for
the reader and hold in the same instances.

Fairness. `Collect`, `SampleWrite` and the scheduler's steps after a due time are weakly
fair: they are loops of threads that do nothing else, and the mutex they need is free
whenever the scheduler is not recording. Nothing is assumed of clients, processes, cron
times, shutdown or crashes. The liveness properties give up when the daemon stops, the lock
is poisoned, the task is replaced, or its session was loaded again (`born`);
`unrecorded` shows the last case.

`FairSpec` of `AuditReplication` has the worker's dialling loop, its reads and its two-second tick,
and each loop of the leader weakly fair. `select!` picks at random among what is ready, so neither
the tick nor the reads starve; dialling is repeated for ever with a bounded delay. Nothing is
assumed of the network or of requests. `QueueDrains` gives up on a silent connection: the leader
refuses a second connection of a worker that it takes for online (`leader.rs:121`), and
without a read timeout a connection whose end it is never told of keeps the worker out until
the leader restarts or is told to forget it.

`AgentLink` has the callers' own steps weakly fair (the timeout of `request_with_audit` is one of
them), and the reads of the worker and of each loop. Nothing is assumed of dialling, so
`CallersAreAnswered` holds for a worker that never comes back. It excludes a silent connection:
sending waits for room in its queue without a timeout (`leader.rs:291`).

The other modules state safety only.

Mutants: for each property of a passing run `PROJECT.json` names a bug in a mapped definition
(a dropped check, a missing filter, a lock given up early) that makes it fail.

### What the violated runs show

1. `poison`: stop or restart of a session that is not loaded panics with the sessions mutex
   held (`handle.rs:377`).
2. `unrecorded`: the sampler's map keeps removed sessions, so a new runtime that reaches a
   known generation is taken for the old run.
3. `dependencies`: `README.md:479` wants every dependency to be running before a start; each is looked
   at once, without holding anything (`gates.rs:173`), and may have stopped by the time of the start.
   `DependenciesWereSeen` is what does hold: each was running at some moment since the list was read.

### Where code and documentation differ

The models have these behaviours; no property forbids them, and no run is spent on them.

- `README.md:544`, "Graceful daemon shutdown stops managed tasks": a start that waits for the
  lock while `stop_all` has it is applied afterwards.
- The comment at `notifications.rs:362` describes closing a replaced run's row; a run the sampler
  never saw active is not closed.
- `README.md:439`, "Quotas cap concurrent running tasks": the start of a whole session is checked
  once and starts every task; no concurrency is needed.
- `README.md:478`, "cycles are rejected": the check and the insert are separate uses of the store,
  and two requests together make a cycle.
- `README.md:180` wants no registrations on a pure master: a client sets the mode in the
  database while the daemon it does not ask still accepts one.
- `README.md:173`, "Saving stores settings atomically": an error answered after the file was renamed, when
  the transaction cannot begin (`node.rs:113`), the file's directory cannot be synced
  (`user_config.rs:196-198`) or the file cannot be put back (`node.rs:122-128`), leaves the file changed and
  the database as it was. Only an error of the transaction itself promises both (`AnswerIsTrue`).
- `README.md:61-64`, `clear_logs_on_restart`: a restart clears the history first; if the task, or another
  of its session, then cannot be started, the metrics of before stay (`task.rs:277-285`,
  `handle.rs:392-401`).
- The terminal begins with the snapshot of its registration, whose generation it does not know
  (`tui/mod.rs:45-64`). If the log is cleared and outgrows the cursor before the first reply,
  `merge_logs` (`tui/mod.rs:122-130`) shows the new lines after those of the cleared log.
- A project without any task can be registered (`allow_empty`), and a configuration without tasks saved,
  but either is refused when it is updated or the daemon loads it again (`config/mod.rs:189`).
- A migration killed between two of its statements may leave a database that every later start refuses
  (`schema.rs:375-443`).
- A process killed between the version and the node id of a new database (`schema.rs:296-303`)
  leaves one that counts as current and has no id; nothing completes it.
- A task that is not imported, saved with an empty environment, keeps the one in the file
  (`config/tests.rs:534`) while the daemon runs it without, until a restart.

`OvershootIsBounded` is what does hold of quotas: starts of single tasks exceed a quota by no
more than the number of other threads that start at the same time. It counts only tasks whose
start was checked against a quota of that scope and at most that limit, since whole-session
starts, restarts, registrations and later edits are not checked against it at all.

The converse of `CronRunsSayCron` does not hold either: a mark set at `scheduler.rs:173` is
consumed by a sample that sees a manual start, whose row then says cron. No text of the
repository promises otherwise, so no run states it.

## Proofs

The `_proofs` modules prove, for every value of the constants that satisfies the assumptions their
modules name, the theorems below: for any sets of sessions, tasks, clients, schedules, connections,
commands, records, processes, versions, files, groups, policies and rules, and any bounds. The
assumptions are of three kinds: bounds are naturals, and limits are not zero where the code's are
not; what is enumerated has its shape (`InputsAreGroups`: a group is a name, members and edges;
`DraftsAreSubmissions`; `ImportsAreImports`); and a mark for "nothing" is none of the things it stands
beside (`NoVersion`, `UnsetIsNothing`, `KeysAreKeys`). Tasks, threads, records, labels and policies
are finitely many where they are counted or listed. Every invariant and every action property that a
passing run checks is a theorem.

| Theorem | States |
|---|---|
| `TypeCorrect` | `Spec => []TypeOK` |
| `OutcomesAreFinal` | `Spec => OutcomeIsFinal` |
| `OneRow` | `Spec => []OneRowPerRun` |
| `RunningRowsAreOurs` | `Spec => []RunningRowsBelongToThisDaemon` |
| `ShutdownClosesHistory` | `Spec => []CleanShutdownClosesHistory`, if `StoreFaults = FALSE` |
| `OneProcess` | `Spec => []OneProcessPerTask`, if `StoreFaults = FALSE` |
| `CronRunsAreOnRecord` | `Spec => []CronRunsSayCron`, if `StoreFaults = FALSE` |
| `ClosedByNamesake` | `Spec => []LiveRunClosedOnlyByNamesake` |
| `GatesTypeCorrect` | `Spec => []TypeOK` of `StartGates` |
| `OvershootBounded` | `Spec => []OvershootIsBounded` |
| `DependenciesAreSeen` | `Spec => []DependenciesWereSeen` |
| `AuditTypeCorrect` | `Spec => []TypeOK` of `AuditReplication` |
| `OldLoopsAreHarmless` | `Spec => []ServedIsOnline` |
| `NewestKept` | `Spec => []NewestAreKept` |
| `AuditImplementsLog` | `Spec => ImplementsLog` |
| `OpenStoreHasTables` | `StoreSpec => []OpenHasTables` |
| `BackupIsMade` | `StoreSpec => []BackupIsTheOriginal` |
| `IdentityIsDrawnOnce` | `StoreSpec => IdentityIsFinal` |
| `GroupIsItsNewestRevision` | `Spec => []NewestRevisionIsGroup` of `Workflows` |
| `RetentionDropsTheOldest` | `Spec => []RevisionsAreTheLatest` |
| `NumbersAreNeverReused` | `Spec => RevisionNumbersAreFinal` |
| `RunOrderIsRight` | for any list of edges: `RunOrder` is topological and least first, or shorter than the members if there is a cycle |
| `HasCycleIsRight` | for any list of edges: `HasCycle(edges, n) <=> ~Acyclic(edges, n)` |
| `AlgorithmsAreRight`, `GraphsAlwaysAgree` | so `AlgorithmsAgree`, and `Spec => []GraphsAgree` |
| `RunsFollowTheEdges` | `Spec => []RunRespectsEdges` |
| `AnswersAreTrue` | `SettingsSpec => []AnswerIsTrue` |
| `SessionsFollowTheFile` | `ConfigSpec => []SessionsHaveTheFile` |
| `EditsAreKept` | `ConfigSpec => NoEditIsLost` |
| `FilesAlwaysAgree` | `Spec => []FilesAgree`, from `SavedReadsBack` for submissions of any length |
| `CommandsAreKept` | `Spec => ImplementsCall` of `AgentLink` |
| `CallersArePending` | `Spec => []PendingIsAwaited` |
| `InventoryIsTheLatest` | `Spec => InventoryGoesForward` |
| `LogIsFollowed` | `LogSpec => []ShownFollowsTheLog` |
| `ClearedForGood` | `MetricsSpec => []ClearedStaysCleared` |
| `CooldownsAreKept`, `ActionsFollowAStreak` | `ScalingSpec => CooldownIsKept`, `ScalingSpec => ActsOnAStreak` |
| `AdmittedWithReason`, `LoginIsPossible` | `AccessSpec => []AdmittedForAReason`, `AccessSpec => []SomeoneCanLogIn` |
| `MatchesAreKept` | `NoticeSpec => []EveryMatchIsKept` |

`TypeOK` is inductive with one lemma per group of actions. `OutcomesAreFinal` needs only that
each of the four statements appends, or closes rows that are still running.

`OneRowPerRun` is not inductive: a state in which both recorders are between check and
insert for the same run satisfies it. `RecordingInv` adds why that state is unreachable:

- `RunsAreProcesses`: the runs that tasks, sampler and rows name were spawned, with that
  generation, and those of tasks and sampler by this daemon;
- `SchedulerIsAlone`: while the scheduler records it holds the lock, so its run is the
  newest of its task and the sampler's pending work is about an older one;
- `MissingIsMissing`: between check and insert each recorder's answer stays right;
- `ThreadsGone`: without a daemon there is no task, and after the joins no thread.

The step lemmas say what a step can do to one part of the state (`RowsMoveByStep`: a task's
rows change by append, by a closing, or not; `TodoMovesByStep`, `SchedMovesByStep`,
`OriginMoves`), and `RecordingStep` combines them, so that the invariant's parts are not
argued once per action. `ShutdownClosesHistory` needs the same invariant: after the joins
the only writers left are requests, and they only close.

The second half of `RunHistory_proofs` relates rows and processes to the tasks.

- `OneProcess`: two processes are excluded because the task holds every live process of this
  daemon (`Held`), and an absent session has only new tasks (`AbsentIsNew`), so registering it
  anew forgets none. The theorem is for a database that takes every write: a registration that
  is not stored leaves the processes it started running and held by no task.
- `CronRunsAreOnRecord`: `CronRecorded` says that every run the scheduler started is on record
  unless the scheduler is about to write it. Again every write must succeed: what the scheduler
  could not record the sampler records in its own words.
- `ClosedByNamesake` needs no such assumption. That a row is closed too early is decided several
  steps before, by a request or a sample whose view is old, so `ClosingInv` follows the
  decision: a task is active exactly while it holds a process and its former process is over
  (`TasksSound`); a run on record, or about to be, is its task's present one or is over
  (`RunsSettled`); whoever is about to close the rows of a generation knows of a run of that
  generation that is over (`ClosersKnow`). The code closes by generation, and a task's
  generations begin anew with its registration, so only a namesake is left to be closed wrongly.

In `StartGates`, `OvershootIsBounded` says nothing of a request between count and start.
`CountedBelow` counts those too (`InFlight`): the thread that was counted last found fewer
active tasks than the limit, and every other thread has at most one start in flight. It needs
`GovernedAreActive`, since the code counts active tasks and the invariant checked ones. The
proof has one lemma per step that changes either set (`CountBelow`, `ApplyBelow`) and uses the
library's facts on cardinality. `DependenciesWereSeen` needs `UnmetIsWaiting`: what was not
running since the list was read is still to be looked at.

`AuditImplementsLog` rests on `LogInv`. A step of the abstract log confirms only records that were
copied and copies only records that were written, so the messages must tell the truth about both
tables: `CarriedIsTrue` types a batch with what was written and an acknowledgement with what was
stored. Acknowledging prunes as well, and would discard pending records in a step that the
abstract log does not allow, were it not for `QueueIsPruned`: after every write there is
nothing left to prune, and a smaller queue has nothing either (`KeptIsPruned`).
`BacklogIsFull` is why `README.md:408-411` may speak of 20,000: what pruning discards has as
many older and as many newer records as the two limits say. The steps of the connection are proved
once, for any messages, in `AgentConnection_proofs`.

`StoreInv` makes the properties of `StateOpen` inductive. `HasLock` says that who migrates holds
the lock, so the others can neither write nor start to. `ObjectsInOrder` is why a process that
opens without the lock finds every table: the version is written after them.
`DrawsWhereNone` carries what `FindId` saw to `SetId`, which the lock makes true still.
`BackupInOrder` says that a migration executes a statement only once there is a backup, and that a
database found older changes its version in one step, to the current one, so that a second
migration after a kill either finds the original or the backup there.

`NewestRevisionIsGroup` alone does not say that numbers have no gap, and then the newest is not the
last one written. `RevisionsInv` gives the numbers as an interval `a..b` that is full or begins at
1, with the group at its end; `Recorded` proves once that recording the next number moves
both ends by at most one.

`RunRespectsEdges` is about every run under way, so it needs what the run was begun with. `StoredInv`
says that a stored group was accepted, and `AcceptedIsGraph` that its edges are then between its
members; `Proceeds` says that a run's results are those of the first members of an order in which
every edge comes from an earlier place (`Forward`), and that a run that stops at a failure has had
none before the newest. The order is that of `RunOrderIsRight`, whatever the graph.

The two graph algorithms are proved about for every list of edges, repeated edges and edges of a
node to itself included. Both are functions of the turn, and both proofs carry an invariant from
turn to turn by the least turn that breaks it. For Kahn's algorithm (`KahnInv`): each position's
indegree counts the edges it still waits for, the ready ones are those that wait for none, and a
position that was passed over for a later one was waiting; when none is ready and some are left, those
left are a cycle. For the walk (`WalkOk`): its stack is a path, and the open nodes are those on it
(`WalkPath`), so a node met open closes a cycle; what was entered and left is done (`WalkLeft`), so the
nodes done have no edge out of them and no cycle among them (`WalkDone`). That the walk ends is
`WalkPaid`: each turn begins a root, finishes a node, passes one over or follows an edge, so
`3 * n + Len(edges)` turns are enough.

`AnswerIsTrue` needs what a configure relies on between its writes (`StillThere`): as long
as nobody else writes, the row is what it read, and the file is that or its own, and what it would put
back is what it found. `FileFirst` says which requests write the file at all.

`SessionsHaveTheFile` is broken inside every save, between the rename and the sessions' update, and
`ConfigInv` says why that mends: what is saved reads back as what the sessions are told
(`SaveAgrees`), the files are as the request that holds the mutex believes (`SaveIsCurrent`), and
nobody loads anything else meanwhile (`LoadIsCurrent`). `SaveAgrees` rests on `SavedReadsBack`: merging
what `prepare_session_config_write` wrote into the imported tasks gives back the tasks that were
submitted, in their order, for any import, any document it replaces and any list of submissions. Its
proof goes label by label: one that is imported is written as a difference, which applied gives it back
(`DifferenceApplies`), any other is written whole.

The proofs about `AgentLink` have `LinkedInv`, four invariants over one another. `LinkInv` relates the
two ends: the leader sends to, and hears from, an end that is there, and what a closed end had sent or
was sent is gone. `CommandInv` says for each command that it is in one place (with its caller, once on
its way, or carried out), that an answer is on its way, cached or given only when it was carried out,
and who is in `pending`; from it every step maps to one of `RemoteCall` or to a stutter. What a caller may
be told in a step is `MayTurn`, once for all actions. `InventoryGoesForward` needs `InventoryInv`:
versions on one connection are in order, what is on its way on the entry's connection is not older than
what the leader has, and a connection that another replaced has nothing left (`Quiet`).

In the service modules the property is not inductive because it says nothing of what is under way.
`LogInv` types a reply before it is merged: it is the end of one log, long enough for where it begins. As long
as nothing was merged, what is shown is the end of the log that the registration found
(`StillTheSnapshot`). `MetricsInv` says that a process tells its task's life (`OfLife`), so an observation that is
still current is of the task that is there now, and that nothing was kept of a history before the last one
whose metrics were cleared. `ScalingInv` makes a streak the last so many measured values, and keeps the time
of the last recorded action through edits of the policy. `AccessInv` has `excuse` for every request that is on
its way and would be let in now. `NoticeInv` says that a match of the events taken is still to be recorded, or
could not be, or was and is settled (`Settled`: in the inbox, or behind as many later rows as it holds), and
that numbers grow although the clock may be set back.

Model-checked only: the four liveness properties `LiveRunIsRecorded`, `LatestRunIsClosed`, `QueueDrains`
and `CallersAreAnswered`, which rest on fairness and are beyond the prover, and the three properties that are
violated. The functions of `WorkflowGraph` and `ConfigFiles` are recursive functions, not
RECURSIVE operators; the library's induction theorems cannot be used for them, and the least
counterexample of a property of naturals (`LeastNatural`) takes their place.

## Not modelled

- Boards, the web API's and the MCP server's translation of calls, the web frontend, the documentation
  site and scripts: no interaction, or presentation.
- Service installation, listeners and self-update: calls to the service manager, to `/proc` and
  to a release server.
- The syntax of `taskdeck.yaml` and `tasks.json`, the expansion of variables, and the fields of a
  task beyond a command and an environment.
- Dependencies on tasks of other nodes, which a leader evaluates from its cached inventories, and
  enrollment tokens of workers.
- The values of metrics, and the node's own.
- Times: delays, timeouts and reconnection appear as what may happen, never how soon.

## Plan

Done: all modules above, and a theorem for every safety property of a passing run. Left, in order of
importance:

1. `RunLedger`: each run goes from unknown to open to closed, once; `RunHistory` refines it. It needs what
   `OneRow` and `OutcomesAreFinal` prove.
2. Dependencies on tasks of other nodes: `StartGates` over the inventories of `AgentLink`.
3. The type invariants of `Workflows`, `NodeSettings`, `SessionConfig` and the service modules as theorems of
   their own; the inductive invariants have the parts that the proofs use.
