----------------------------- MODULE RunHistory -----------------------------
(***************************************************************************)
(* How a task's processes come to be recorded.  Four kinds of thread share *)
(* the sessions map and the task_runs table:                               *)
(*   - request handlers (daemon/handle.rs): register, remove, and the      *)
(*     actions start, stop, restart, pause, resume;                        *)
(*   - the cron scheduler (daemon/scheduler.rs), which spawns and records  *)
(*     its own runs;                                                       *)
(*   - the history sampler (daemon/sampler.rs), which compares each task   *)
(*     with what it saw half a second earlier and records what changed;    *)
(*   - the daemon itself (daemon/mod.rs, daemon/state.rs): load, graceful  *)
(*     shutdown and, at any point, a crash.                                *)
(* The sessions mutex is `lock`: a step that holds it throughout is one    *)
(* action; the scheduler, which keeps it while it writes to the database,  *)
(* is three.  A panic under the lock poisons it for good.                  *)
(***************************************************************************)
EXTENDS TaskRuntime, TaskRuns, FiniteSets

CONSTANTS
    Session, Label,     \* names of sessions, and of the tasks of each session
    Client,             \* request handlers that can be running at once
    AutoStart,          \* tasks whose configuration says auto_start
    Scheduled,          \* tasks with a cron schedule
    Actions,            \* the actions clients ask for
    Endings,            \* how a process may end by itself
    Stops,              \* how the daemon may end: "shutdown", "crash"
    StoreFaults,        \* TRUE: a write to the database may fail
    MaxRuns,            \* bound: processes spawned for one task
    MaxFirings,         \* bound: due times the scheduler acts on
    MaxLives            \* bound: times the daemon is started

Key == Session \X Label
KeysOf(s) == {s} \X Label

ASSUME KeysAssumption == AutoStart \subseteq Key /\ Scheduled \subseteq Key
ASSUME ActionsAssumption == Actions \subseteq {"start", "stop", "restart", "pause", "resume"}
ASSUME EndingsAssumption == Endings \subseteq {"success", "failure"}
ASSUME StopsAssumption == Stops \subseteq {"shutdown", "crash"}
ASSUME FaultsAssumption == StoreFaults \in BOOLEAN
ASSUME BoundsAssumption == MaxRuns \in Nat /\ MaxFirings \in Nat /\ MaxLives \in Nat

VARIABLES
    phase,       \* where the daemon process is in its life
    lock,        \* the sessions mutex
    present,     \* sessions: the keys of the sessions map
    unavailable, \* unavailable_sessions: registered, but their project could not be read
    task,        \* sessions: the TaskRuntime of every task (NewTask when not present)
    triggers,    \* run_triggers: tasks with a pending "cron" mark
    tracked,     \* the history sampler's previous view of each task
    todo,        \* the history sampler's transitions not yet written
    sched,       \* the scheduler thread
    req,         \* the request handlers
    registered,  \* registrations table
    rows,        \* task_runs table
    proc,        \* the operating system: processes ever spawned for each task
    origin,      \* history: Len(proc) when this daemon was loaded
    born,        \* history: Len(proc) when the task's runtime was created
    firings,     \* due times acted on (bounded by MaxFirings)
    lives        \* daemons started (bounded by MaxLives)

memory == <<lock, present, unavailable, task, triggers, tracked, todo, sched, req>>
bounds == <<firings, lives>>
vars == <<phase, memory, registered, rows, proc, origin, born, bounds>>

Phases == {"down", "up", "draining", "stopped", "exiting", "exited"}
Serving == {"up", "draining"}
Alive == {"up", "draining", "stopped", "exiting"}

Idle == [pc |-> "idle"]
Requests ==
    {Idle}
    \cup [pc : {"gated"}, session : Session, labels : SUBSET Label, action : Actions]
    \cup [pc : {"applied"}, session : Session, stopped : [Label -> Nat]]

SchedulerStates ==
    {Idle}
    \cup [pc : {"lock", "fail"}, key : Key]
    \cup [pc : {"skip"}, key : Key, generation : Nat]
    \cup [pc : {"record", "insert"}, key : Key, generation : Nat, run : Nat]

\* What one sample has to write for one task, in this order: close the row of generation
\* `previous`, open the row of process `start`, close the row of `generation` with
\* status `end`.  0 and "none" mean nothing to write; `missing` is has_task_run's answer.
Work == [previous : Nat, start : Nat, trigger : Triggers, missing : BOOLEAN,
         generation : Nat, end : {"none", "stopped", "exited", "failed"}]
NoWork == [previous |-> 0, start |-> 0, trigger |-> "manual", missing |-> FALSE,
           generation |-> 0, end |-> "none"]

Process == [generation : Nat, cause : Triggers, fate : Fates]

TypeOK ==
    /\ phase \in Phases
    /\ lock \in {"free", "scheduler", "poisoned"}
    /\ present \subseteq Session /\ unavailable \subseteq Session
    /\ registered \subseteq Session
    /\ task \in [Key -> TaskState]
    /\ triggers \subseteq Key
    /\ tracked \in [Key -> [generation : Nat, active : BOOLEAN]]
    /\ todo \in [Key -> Work]
    /\ sched \in SchedulerStates
    /\ req \in [Client -> Requests]
    /\ rows \in [Key -> Seq(Row)]
    /\ proc \in [Key -> Seq(Process)]
    /\ origin \in [Key -> Nat] /\ born \in [Key -> Nat]
    /\ firings \in 0..MaxFirings /\ lives \in 0..MaxLives
-----------------------------------------------------------------------------
NoView == [generation |-> 0, active |-> FALSE]

Init ==
    /\ phase = "down" /\ lock = "free"
    /\ present = {} /\ unavailable = {} /\ registered = {}
    /\ task = [k \in Key |-> NewTask]
    /\ triggers = {}
    /\ tracked = [k \in Key |-> NoView]
    /\ todo = [k \in Key |-> NoWork]
    /\ sched = Idle
    /\ req = [c \in Client |-> Idle]
    /\ rows = [k \in Key |-> <<>>]
    /\ proc = [k \in Key |-> <<>>]
    /\ origin = [k \in Key |-> 0] /\ born = [k \in Key |-> 0]
    /\ firings = 0 /\ lives = 0
-----------------------------------------------------------------------------
(* What the sections under the sessions lock do to the tasks and processes. *)

Fate(k) == IF task[k].child THEN proc[k][task[k].run].fate ELSE "live"

\* snapshot() and every operation on a task begin with poll().
Polled(S) == [k \in Key |-> IF k \in S THEN Poll(task[k], Fate(k)) ELSE task[k]]

StopAll(S, tasks) == [k \in Key |-> IF k \in S THEN Stop(tasks[k]) ELSE tasks[k]]

\* The processes after the polled `tasks` of S were stopped.
Killed(S, tasks) ==
    [k \in Key |-> IF k \in S /\ tasks[k].child
                   THEN [proc[k] EXCEPT ![tasks[k].run].fate = "killed"]
                   ELSE proc[k]]

\* A task without a child may spawn one; the bound MaxRuns reads as a failing spawn.
Spawnable_Running(S, tasks) == {k \in S : Len(proc[k]) < MaxRuns}
Spawnable(S, tasks) == {k \in S : ~tasks[k].child /\ Len(proc[k]) < MaxRuns}

StartAll(S, tasks) ==
    [k \in Key |-> IF k \in S THEN Start(tasks[k], Len(proc[k]) + 1) ELSE tasks[k]]

Spawned(S, tasks, procs, cause) ==
    [k \in Key |-> IF k \in S
                   THEN Append(procs[k], [generation |-> tasks[k].generation + 1,
                                          cause |-> cause, fate |-> "live"])
                   ELSE procs[k]]

\* A write to the database, which may fail: `new` lands or `old` stays.
Written(old, new) == IF StoreFaults THEN {old, new} ELSE {new}
-----------------------------------------------------------------------------
(* Requests that run under the lock from their first read to their last write. *)

\* Request::Register of a session that is not loaded: a new runtime, whose auto-start
\* tasks are spawned before the registration is stored.  If storing it fails the
\* runtime is dropped, and what it spawned lives on.
Register(s) ==
    LET fresh == [k \in Key |-> IF k \in KeysOf(s) THEN NewTask ELSE task[k]]
    IN
    /\ phase \in Serving /\ lock = "free" /\ s \notin present
    /\ \E up \in SUBSET Spawnable(AutoStart \cap KeysOf(s), fresh) :
         /\ proc' = Spawned(up, fresh, proc, "auto_start")
         /\ \E stored \in Written(FALSE, TRUE) :
              IF stored
              THEN /\ task' = StartAll(up, fresh)
                   /\ present' = present \cup {s}
                   /\ registered' = registered \cup {s}
                   /\ unavailable' = unavailable \ {s}
              ELSE UNCHANGED <<task, present, registered, unavailable>>
    /\ born' = [k \in Key |-> IF k \in KeysOf(s) THEN Len(proc[k]) ELSE born[k]]
    /\ UNCHANGED <<phase, lock, triggers, tracked, todo, sched, req, rows, origin, bounds>>

\* Request::RemoveSession.  The rows of the runs it stops are left as they are.
RemoveSession(s) ==
    /\ phase \in Serving /\ lock = "free" /\ s \in present \cup unavailable
    /\ IF s \in present
       THEN /\ proc' = Killed(KeysOf(s), Polled(KeysOf(s)))
            /\ task' = [k \in Key |-> IF k \in KeysOf(s) THEN NewTask ELSE task[k]]
            /\ present' = present \ {s}
            /\ UNCHANGED unavailable
       ELSE /\ unavailable' = unavailable \ {s}
            /\ UNCHANGED <<proc, task, present>>
    /\ registered' \in Written(registered, registered \ {s})
    /\ UNCHANGED <<phase, lock, triggers, tracked, todo, sched, req, rows, origin, born,
                   bounds>>

\* A read of a session's state: the metrics sampler's every second, a client's Snapshot.
Snapshot(s) ==
    /\ phase \in Serving /\ lock = "free" /\ s \in present
    /\ task' = Polled(KeysOf(s))
    /\ UNCHANGED <<phase, lock, present, unavailable, triggers, tracked, todo, sched, req,
                   registered, rows, proc, origin, born, bounds>>
-----------------------------------------------------------------------------
(* Request::Action, in the three pieces the locks cut it into. *)

\* The checks made before the sessions lock is taken.  A start or restart that a gate
\* blocks returns here and changes nothing.
CheckAction(c, s, labels, action) ==
    /\ phase \in Serving /\ req[c] = Idle /\ s \notin unavailable
    /\ req' = [req EXCEPT ![c] = [pc |-> "gated", session |-> s, labels |-> labels,
                                  action |-> action]]
    /\ UNCHANGED <<phase, lock, present, unavailable, task, triggers, tracked, todo, sched,
                   registered, rows, proc, origin, born, bounds>>

Applying(c, action) ==
    /\ phase \in Alive /\ lock = "free"
    /\ req[c].pc = "gated" /\ req[c].action = action

Target(c) == {req[c].session} \X req[c].labels

\* The session is gone by the time the lock is held.  Start, pause and resume report it;
\* stop and restart take their snapshot with `.expect("checked")` and panic.
ApplyToMissing(c) ==
    /\ phase \in Alive /\ lock = "free"
    /\ req[c].pc = "gated" /\ req[c].session \notin present
    /\ lock' = IF req[c].action \in {"stop", "restart"} THEN "poisoned" ELSE lock
    /\ req' = [req EXCEPT ![c] = Idle]
    /\ UNCHANGED <<phase, present, unavailable, task, triggers, tracked, todo, sched,
                   registered, rows, proc, origin, born, bounds>>

ApplyStart(c) ==
    /\ Applying(c, "start") /\ req[c].session \in present
    /\ LET polled == Polled(Target(c))
       IN  \E up \in SUBSET Spawnable(Target(c), polled) :
             /\ task' = StartAll(up, polled)
             /\ proc' = Spawned(up, polled, proc, "manual")
    /\ req' = [req EXCEPT ![c] = Idle]
    /\ UNCHANGED <<phase, lock, present, unavailable, triggers, tracked, todo, sched,
                   registered, rows, origin, born, bounds>>

\* pre_stop_runs: the generations the handler will close once the lock is dropped.
PreStopRuns(c, polled) ==
    [l \in Label |-> LET t == polled[<<req[c].session, l>>]
                     IN  IF l \in req[c].labels /\ Active(t) THEN t.generation ELSE 0]

ApplyStop(c) ==
    /\ Applying(c, "stop") /\ req[c].session \in present
    /\ LET polled == Polled(KeysOf(req[c].session))
       IN  /\ task' = StopAll(Target(c), polled)
           /\ proc' = Killed(Target(c), polled)
           /\ req' = [req EXCEPT ![c] = [pc |-> "applied", session |-> req[c].session,
                                         stopped |-> PreStopRuns(c, polled)]]
    /\ UNCHANGED <<phase, lock, present, unavailable, triggers, tracked, todo, sched,
                   registered, rows, origin, born, bounds>>

\* restart is stop, then start.  If any target fails to start, apply() returns an error
\* and the handler leaves without closing the rows of the runs it stopped.
ApplyRestart(c) ==
    /\ Applying(c, "restart") /\ req[c].session \in present
    /\ LET polled  == Polled(KeysOf(req[c].session))
           stopped == StopAll(Target(c), polled)
       IN  \E up \in SUBSET Spawnable(Target(c), stopped) :
             /\ task' = StartAll(up, stopped)
             /\ proc' = Spawned(up, stopped, Killed(Target(c), polled), "manual")
             /\ req' = [req EXCEPT ![c] =
                          IF up = Target(c)
                          THEN [pc |-> "applied", session |-> req[c].session,
                                stopped |-> PreStopRuns(c, polled)]
                          ELSE Idle]
    /\ UNCHANGED <<phase, lock, present, unavailable, triggers, tracked, todo, sched,
                   registered, rows, origin, born, bounds>>

ApplyPause(c) ==
    /\ Applying(c, "pause") /\ req[c].session \in present
    /\ LET polled == Polled(Target(c))
       IN  task' = [k \in Key |-> IF k \in Target(c) THEN Pause(polled[k]) ELSE task[k]]
    /\ req' = [req EXCEPT ![c] = Idle]
    /\ UNCHANGED <<phase, lock, present, unavailable, triggers, tracked, todo, sched,
                   registered, rows, proc, origin, born, bounds>>

ApplyResume(c) ==
    /\ Applying(c, "resume") /\ req[c].session \in present
    /\ LET polled == Polled(Target(c))
       IN  task' = [k \in Key |-> IF k \in Target(c) THEN Resume(polled[k]) ELSE task[k]]
    /\ req' = [req EXCEPT ![c] = Idle]
    /\ UNCHANGED <<phase, lock, present, unavailable, triggers, tracked, todo, sched,
                   registered, rows, proc, origin, born, bounds>>

\* After the lock is dropped: finish_task_run(.., "stopped", ..) for the runs stopped.
FinishStopped(c) ==
    /\ phase \in Alive /\ req[c].pc = "applied"
    /\ \E landed \in IF StoreFaults THEN SUBSET Label ELSE {Label} :
         rows' = [k \in Key |->
                    IF k[1] = req[c].session /\ k[2] \in landed /\ req[c].stopped[k[2]] > 0
                    THEN FinishTaskRun(rows[k], req[c].stopped[k[2]], "stopped")
                    ELSE rows[k]]
    /\ req' = [req EXCEPT ![c] = Idle]
    /\ UNCHANGED <<phase, lock, present, unavailable, task, triggers, tracked, todo, sched,
                   registered, proc, origin, born, bounds>>
-----------------------------------------------------------------------------
(* The cron scheduler, one due task at a time. *)

PresentKeys == present \X Label

Scheduler(pc) == phase \in Alive /\ sched.pc = pc

UnchangedByScheduler ==
    UNCHANGED <<phase, present, unavailable, tracked, todo, req, registered, origin, born,
                lives>>

\* The scan for due tasks, under the lock, which polls every task it reads; then, without
\* the lock, check_start_gates lets the start through, and it is marked, or blocks it.
ScheduleDue(k) ==
    /\ phase = "up" /\ lock = "free" /\ sched = Idle /\ firings < MaxFirings
    /\ k \in Scheduled \cap PresentKeys
    /\ task' = Polled(PresentKeys)
    /\ \/ sched' = [pc |-> "lock", key |-> k] /\ triggers' = triggers \cup {k}
       \/ sched' = [pc |-> "fail", key |-> k] /\ UNCHANGED triggers
    /\ firings' = firings + 1
    /\ UNCHANGED <<lock, rows, proc>> /\ UnchangedByScheduler

\* The scheduler records the run it started before it drops the sessions guard.
LockWhileRecording_Dropped == "free"
LockWhileRecording == "scheduler"

\* scheduled_start under the lock.
ScheduleStart ==
    /\ Scheduler("lock") /\ lock = "free"
    /\ LET k == sched.key
           polled == Polled({k})
       IN  IF k \notin PresentKeys
           THEN /\ sched' = [pc |-> "fail", key |-> k]
                /\ UNCHANGED <<lock, task, proc>>
           ELSE IF Active(polled[k])
           THEN /\ sched' = [pc |-> "skip", key |-> k, generation |-> polled[k].generation]
                /\ task' = polled
                /\ UNCHANGED <<lock, proc>>
           ELSE \E up \in SUBSET Spawnable({k}, polled) :
                  /\ task' = StartAll(up, polled)
                  /\ proc' = Spawned(up, polled, proc, "cron")
                  /\ IF up = {k}
                     THEN /\ sched' = [pc |-> "record", key |-> k,
                                       generation |-> polled[k].generation + 1,
                                       run |-> Len(proc[k]) + 1]
                          /\ lock' = LockWhileRecording
                     ELSE /\ sched' = [pc |-> "fail", key |-> k]
                          /\ UNCHANGED lock
    /\ UNCHANGED <<triggers, rows>> /\ UNCHANGED firings /\ UnchangedByScheduler

\* record_task_run_start, first half: has_task_run.
ScheduleRecord ==
    /\ Scheduler("record")
    /\ IF HasTaskRun(rows[sched.key], sched.generation, sched.run)
       THEN sched' = Idle /\ lock' = "free"
       ELSE sched' = [sched EXCEPT !.pc = "insert"] /\ UNCHANGED lock
    /\ UNCHANGED <<triggers, task, rows, proc>> /\ UNCHANGED firings /\ UnchangedByScheduler

\* record_task_run_start, second half: start_task_run.
ScheduleInsert ==
    /\ Scheduler("insert")
    /\ LET k == sched.key
           recorded == StartTaskRun(rows[k], sched.generation, sched.run, "cron")
       IN  \E new \in Written(rows[k], recorded) : rows' = [rows EXCEPT ![k] = new]
    /\ sched' = Idle /\ lock' = "free"
    /\ UNCHANGED <<triggers, task, proc>> /\ UNCHANGED firings /\ UnchangedByScheduler

\* The task was already running: the due time is recorded as skipped.
ScheduleSkip ==
    /\ Scheduler("skip")
    /\ triggers' = triggers \ {sched.key}
    /\ LET k == sched.key
           recorded == RecordAttempt(rows[k], sched.generation, "skipped")
       IN  \E new \in Written(rows[k], recorded) : rows' = [rows EXCEPT ![k] = new]
    /\ sched' = Idle
    /\ UNCHANGED <<lock, task, proc>> /\ UNCHANGED firings /\ UnchangedByScheduler

\* record_scheduled_failure: a blocked or failed start, or a session that disappeared.
ScheduleFail ==
    /\ Scheduler("fail")
    /\ triggers' = triggers \ {sched.key}
    /\ LET k == sched.key
           visible == lock # "poisoned" /\ k \in PresentKeys
           recorded == RecordAttempt(rows[k], IF visible THEN task[k].generation ELSE 0,
                                     "failed")
       IN  /\ \E new \in Written(rows[k], recorded) : rows' = [rows EXCEPT ![k] = new]
           /\ task' = IF visible THEN Polled(KeysOf(k[1])) ELSE task
    /\ sched' = Idle
    /\ UNCHANGED <<lock, proc>> /\ UNCHANGED firings /\ UnchangedByScheduler
-----------------------------------------------------------------------------
(* The history sampler. *)

\* collect_run_transitions for one task: `t` as polled now, `p` as tracked before.  `ends`
\* says whether the end of t's run is news, `end` what finished_run_details calls it.
Boundaries(t, p, trigger, ends, end) ==
    LET changed == t.generation > 0 /\ t.generation # p.generation
    IN  [previous   |-> IF changed /\ p.active THEN p.generation ELSE 0,
         start      |-> IF changed THEN t.run ELSE 0,
         trigger    |-> trigger,
         missing    |-> FALSE,
         generation |-> t.generation,
         end        |-> IF t.generation > 0 /\ ends /\ ~Active(t) THEN end ELSE "none"]

FinishedStatus(t) == IF t.status = "idle" THEN "stopped" ELSE t.status

Transitions_Unmapped(t, p, trigger) ==
    Boundaries(t, p, trigger, t.generation # p.generation \/ p.active, t.status)
Transitions_SeenActive(t, p, trigger) ==
    Boundaries(t, p, trigger, p.active, FinishedStatus(t))
Transitions(t, p, trigger) ==
    Boundaries(t, p, trigger, t.generation # p.generation \/ p.active, FinishedStatus(t))

Nothing(w) == w.previous = 0 /\ w.start = 0 /\ w.end = "none"

\* trigger_for: a pending mark, else what the configuration suggests.
TriggerFor(k) ==
    IF k \in triggers THEN "cron" ELSE IF k \in AutoStart THEN "auto_start" ELSE "manual"

Collect ==
    /\ phase \in Serving /\ lock = "free"
    /\ \A k \in Key : Nothing(todo[k])
    /\ LET polled == Polled(PresentKeys)
           work == [k \in Key |-> IF k \in PresentKeys
                                  THEN Transitions(polled[k], tracked[k], TriggerFor(k))
                                  ELSE NoWork]
       IN  /\ task' = polled
           /\ todo' = [k \in Key |-> IF Nothing(work[k]) THEN NoWork ELSE work[k]]
           /\ triggers' = triggers \ {k \in Key : work[k].start # 0}
           /\ tracked' = [k \in Key |->
                            IF k \in PresentKeys
                            THEN [generation |-> polled[k].generation,
                                  active |-> Active(polled[k])]
                            ELSE tracked[k]]
    /\ UNCHANGED <<phase, lock, present, unavailable, sched, req, registered, rows, proc,
                   origin, born, bounds>>

\* The writes of a sample, each task's in order.  A store that fails loses the transition.
Writing(k, new) ==
    /\ phase \in Serving
    /\ \E landed \in Written(rows[k], new) : rows' = [rows EXCEPT ![k] = landed]

Rest(w) == IF Nothing(w) THEN NoWork ELSE w

UnchangedBySampler ==
    UNCHANGED <<phase, lock, present, unavailable, task, triggers, tracked, sched, req,
                registered, proc, origin, born, bounds>>

SamplePrevious(k) ==
    /\ todo[k].previous # 0
    /\ Writing(k, FinishTaskRun(rows[k], todo[k].previous, "stopped"))
    /\ todo' = [todo EXCEPT ![k] = Rest([@ EXCEPT !.previous = 0])]
    /\ UnchangedBySampler

SampleCheck(k) ==
    /\ phase \in Serving
    /\ todo[k].previous = 0 /\ todo[k].start # 0 /\ ~todo[k].missing
    /\ todo' = [todo EXCEPT ![k] =
                  IF HasTaskRun(rows[k], @.generation, @.start)
                  THEN Rest([@ EXCEPT !.start = 0])
                  ELSE [@ EXCEPT !.missing = TRUE]]
    /\ UNCHANGED rows /\ UnchangedBySampler

SampleInsert(k) ==
    /\ todo[k].missing
    /\ Writing(k, StartTaskRun(rows[k], todo[k].generation, todo[k].start, todo[k].trigger))
    /\ todo' = [todo EXCEPT ![k] = Rest([@ EXCEPT !.start = 0, !.missing = FALSE])]
    /\ UnchangedBySampler

SampleEnd(k) ==
    /\ todo[k].previous = 0 /\ todo[k].start = 0 /\ todo[k].end # "none"
    /\ Writing(k, FinishTaskRun(rows[k], todo[k].generation, todo[k].end))
    /\ todo' = [todo EXCEPT ![k] = NoWork]
    /\ UnchangedBySampler

SampleWrite(k) == SamplePrevious(k) \/ SampleCheck(k) \/ SampleInsert(k) \/ SampleEnd(k)
-----------------------------------------------------------------------------
(* Processes end when they like; the daemon is started, stopped and killed. *)

ProcessEnds(k, i) ==
    /\ i \in DOMAIN proc[k] /\ proc[k][i].fate = "live"
    /\ \E fate \in Endings : proc' = [proc EXCEPT ![k][i].fate = fate]
    /\ UNCHANGED <<phase, memory, registered, rows, origin, born, bounds>>

\* Request::Shutdown or an interrupt: the flag every loop looks at.
Shutdown ==
    /\ "shutdown" \in Stops
    /\ phase = "up" /\ phase' = "draining"
    /\ UNCHANGED <<memory, registered, rows, proc, origin, born, bounds>>

\* run() joins the sampler and the scheduler, then stop_all: first the tasks.
ThreadsJoined_Never == TRUE
ThreadsJoined == sched = Idle /\ \A k \in Key : Nothing(todo[k])

StopTasks ==
    /\ phase = "draining" /\ lock = "free" /\ ThreadsJoined
    /\ phase' = "stopped"
    /\ LET polled == Polled(PresentKeys)
       IN  /\ task' = StopAll(PresentKeys, polled)
           /\ proc' = Killed(PresentKeys, polled)
    /\ UNCHANGED <<lock, present, unavailable, triggers, tracked, todo, sched, req,
                   registered, rows, origin, born, bounds>>

CloseHistory ==
    /\ phase = "stopped" /\ phase' = "exiting"
    /\ LET closed == [k \in Key |-> FinishRunning(rows[k], "stopped")]
       IN  rows' \in Written(rows, closed)
    /\ UNCHANGED <<memory, registered, proc, origin, born, bounds>>

MemoryGone ==
    /\ lock' = "free" /\ present' = {} /\ unavailable' = {}
    /\ task' = [k \in Key |-> NewTask]
    /\ triggers' = {}
    /\ tracked' = [k \in Key |-> NoView]
    /\ todo' = [k \in Key |-> NoWork]
    /\ sched' = Idle
    /\ req' = [c \in Client |-> Idle]

\* The async runtime is dropped once the requests that already run are done.
Exit ==
    /\ phase = "exiting" /\ \A c \in Client : req[c] = Idle
    /\ phase' = "exited"
    /\ MemoryGone
    /\ UNCHANGED <<registered, rows, proc, origin, born, bounds>>

Crash ==
    /\ "crash" \in Stops
    /\ phase \in Alive
    /\ phase' = "down"
    /\ MemoryGone
    /\ UNCHANGED <<registered, rows, proc, origin, born, bounds>>

\* DaemonState::load: close what the last daemon left running, then give every
\* registration whose project can be read a runtime and start its auto-start tasks.
Load ==
    /\ phase \in {"down", "exited"} /\ lives < MaxLives
    /\ phase' = "up"
    /\ rows' = [k \in Key |-> FinishRunning(rows[k], "failed")]
    /\ \E lost \in SUBSET registered :
         /\ unavailable' = lost
         /\ present' = registered \ lost
         /\ \E up \in SUBSET Spawnable(AutoStart \cap ((registered \ lost) \X Label), task) :
              /\ task' = StartAll(up, task)
              /\ proc' = Spawned(up, task, proc, "auto_start")
    /\ origin' = [k \in Key |-> Len(proc[k])]
    /\ born' = [k \in Key |-> Len(proc[k])]
    /\ lives' = lives + 1
    /\ UNCHANGED <<lock, triggers, tracked, todo, sched, req, registered, firings>>
-----------------------------------------------------------------------------
Targets == {{l} : l \in Label} \cup {Label}

Handler(c) ==
    \/ \E s \in Session, labels \in Targets, a \in Actions : CheckAction(c, s, labels, a)
    \/ ApplyToMissing(c)
    \/ ApplyStart(c)
    \/ ApplyStop(c)
    \/ ApplyRestart(c)
    \/ ApplyPause(c)
    \/ ApplyResume(c)
    \/ FinishStopped(c)

SchedulerStep ==
    \/ \E k \in Key : ScheduleDue(k)
    \/ ScheduleStart
    \/ ScheduleRecord
    \/ ScheduleInsert
    \/ ScheduleSkip
    \/ ScheduleFail

Lifecycle == Shutdown \/ StopTasks \/ CloseHistory \/ Exit \/ Crash \/ Load

Next ==
    \/ \E s \in Session : Register(s) \/ RemoveSession(s) \/ Snapshot(s)
    \/ \E c \in Client : Handler(c)
    \/ SchedulerStep
    \/ Collect
    \/ \E k \in Key : SampleWrite(k)
    \/ \E k \in Key, i \in 1..MaxRuns : ProcessEnds(k, i)
    \/ Lifecycle

Spec == Init /\ [][Next]_vars

\* The two background threads keep running; a step of theirs that is possible from some
\* point on is taken.  Nothing is promised of clients, processes or the operator.
Fairness ==
    /\ WF_vars(Collect)
    /\ \A k \in Key : WF_vars(SampleWrite(k))
    /\ WF_vars(ScheduleStart \/ ScheduleRecord \/ ScheduleInsert
               \/ ScheduleSkip \/ ScheduleFail)

FairSpec == Spec /\ Fairness
-----------------------------------------------------------------------------
(* Safety. *)

Recorded(k, r) == \E i \in DOMAIN rows[k] : rows[k][i].run = r

\* A process has at most one row: the scheduler, which records the runs it starts, and
\* the sampler, which records every start it sees, never both insert one
\* (has_task_run in record_task_run_start, and the lock the scheduler holds meanwhile).
OneRowPerRun ==
    \A k \in Key : \A i, j \in DOMAIN rows[k] :
        rows[k][i].run = rows[k][j].run /\ rows[k][i].run # 0 => i = j

\* A run the scheduler started is on record as a cron run, whatever marks the sampler
\* consumed in the meantime.  (The converse does not hold: see the README.)
CronRunsSayCron ==
    \A k \in Key : \A i \in DOMAIN rows[k] :
        /\ rows[k][i].run # 0
        /\ proc[k][rows[k][i].run].cause = "cron"
        => rows[k][i].trigger = "cron"

\* A row that says its run is over while the process lives was closed in the name of
\* another process with the same generation number: generations restart with every
\* runtime, and finish_task_run tells runs apart by generation alone.
LiveRunClosedOnlyByNamesake ==
    \A k \in Key : \A i \in DOMAIN rows[k] :
        LET r == rows[k][i].run
        IN  r # 0 /\ r > origin[k] /\ rows[k][i].status # "running" /\ proc[k][r].fate = "live"
            => \E other \in DOMAIN proc[k] \ {r} :
                  other > origin[k] /\ proc[k][other].generation = proc[k][r].generation

\* A row still running is about a process of the daemon that is up, or of the one that
\* just died: no run of an earlier daemon is ever left open.
RunningRowsBelongToThisDaemon ==
    \A k \in Key : \A i \in DOMAIN rows[k] :
        rows[k][i].status = "running" => rows[k][i].run > origin[k]

\* Graceful shutdown leaves no row running, although requests may still be in flight.
CleanShutdownClosesHistory ==
    phase \in {"exiting", "exited"} =>
        \A k \in Key : \A i \in DOMAIN rows[k] : rows[k][i].status # "running"

\* One daemon never has two live processes for one task.
OneProcessPerTask ==
    \A k \in Key : \A i, j \in DOMAIN proc[k] :
        /\ i > origin[k] /\ j > origin[k]
        /\ proc[k][i].fate = "live" /\ proc[k][j].fate = "live"
        => i = j

\* The outcome of a finished row is final: a stop request and the sampler may both close
\* a run, and the second to come changes nothing.  No row is ever lost or replaced.
OutcomeIsFinal ==
    [][\A k \in Key :
         /\ Len(rows'[k]) >= Len(rows[k])
         /\ \A i \in DOMAIN rows[k] :
              /\ rows'[k][i].run = rows[k][i].run
              /\ rows[k][i].status # "running" => rows'[k][i] = rows[k][i]]_rows
-----------------------------------------------------------------------------
(* The inductive invariant behind OneRowPerRun, RunningRowsBelongToThisDaemon and         *)
(* CleanShutdownClosesHistory, in parts; RunHistory_proofs proves each.                   *)

\* Without a daemon there is no thread with work to do and no task; once run() has joined
\* the threads, those stay gone.
ThreadsGone ==
    /\ phase \in {"down", "exited"} => task = [k \in Key |-> NewTask]
    /\ phase \notin Serving => ThreadsJoined

\* A run named by a task, by the sampler or by a row is a process that was spawned, with
\* the generation it was spawned with; the task's and the sampler's are of this daemon.
OfProcess(k, run, generation) ==
    run # 0 => /\ run <= Len(proc[k])
               /\ generation = proc[k][run].generation

RunsAreProcesses ==
    \A k \in Key :
        /\ origin[k] <= Len(proc[k])
        /\ OfProcess(k, task[k].run, task[k].generation)
        /\ task[k].run # 0 => task[k].run > origin[k]
        /\ OfProcess(k, todo[k].start, todo[k].generation)
        /\ todo[k].start # 0 => todo[k].start > origin[k]
        /\ \A i \in DOMAIN rows[k] : OfProcess(k, rows[k][i].run, rows[k][i].generation)

\* While the scheduler records a run it holds the lock, so the run is the task's newest
\* and the sampler has not seen it.
SchedulerIsAlone ==
    sched.pc \in {"record", "insert"} =>
        /\ lock = "scheduler"
        /\ sched.run = Len(proc[sched.key])
        /\ sched.generation = proc[sched.key][sched.run].generation
        /\ sched.run > origin[sched.key]
        /\ todo[sched.key].start # sched.run

\* Between its check and its insert each recorder is right that the row is missing.
MissingIsMissing ==
    /\ sched.pc = "insert" => ~Recorded(sched.key, sched.run)
    /\ \A k \in Key : todo[k].missing => todo[k].start # 0 /\ ~Recorded(k, todo[k].start)

RecordingInv ==
    ThreadsGone /\ RunsAreProcesses /\ SchedulerIsAlone /\ MissingIsMissing /\ OneRowPerRun

\* What OneProcessPerTask rests on, when the database takes every write: a daemon holds
\* the handle of every process it spawned that still lives, and a session that is not
\* loaded has left no task behind.
Held(tasks, procs, from) ==
    \A k \in Key : \A i \in DOMAIN procs[k] :
        i > from[k] /\ procs[k][i].fate = "live" => tasks[k].child /\ tasks[k].run = i

AbsentIsNew == \A k \in Key : k[1] \notin present => task[k] = NewTask

ProcessesInv ==
    /\ phase \in Alive => Held(task, proc, origin)
    /\ AbsentIsNew
    /\ OneProcessPerTask

\* What CronRunsSayCron rests on, likewise: the scheduler's run is on record before the
\* lock lets the sampler see it.
CronRecorded ==
    phase \in Alive =>
        \A k \in Key : \A i \in DOMAIN proc[k] :
            i > origin[k] /\ proc[k][i].cause = "cron"
            => \/ Recorded(k, i)
               \/ sched.pc \in {"record", "insert"} /\ sched.key = k /\ sched.run = i

\* What LiveRunClosedOnlyByNamesake rests on.  A task is active exactly while it holds a
\* process, and the process it no longer holds is over.
Over(history, r) == r \in DOMAIN history /\ history[r].fate # "live"

TaskSound(t, history) ==
    /\ Active(t) <=> t.child
    /\ t.child \/ t.generation > 0 => t.run # 0
    /\ t.run # 0 => t.run \in DOMAIN history
    /\ t.run # 0 /\ ~t.child => Over(history, t.run)

TasksSound == \A k \in Key : TaskSound(task[k], proc[k])

\* A run on record, or about to be, is the task's present one or is over; nothing on
\* record is alive any more once the tasks are stopped for good.
Settled(k, r) == Over(proc[k], r) \/ task[k].run = r

RunsSettled ==
    /\ phase \in Alive =>
         \A k \in Key :
            /\ \A i \in DOMAIN rows[k] :
                 rows[k][i].run > origin[k] => Settled(k, rows[k][i].run)
            /\ todo[k].start # 0 => Settled(k, todo[k].start)
            /\ sched.pc \in {"record", "insert"} /\ sched.key = k => Settled(k, sched.run)
    /\ phase \in {"stopped", "exiting"} =>
         \A k \in Key : \A i \in DOMAIN rows[k] :
            rows[k][i].run > origin[k] => Over(proc[k], rows[k][i].run)

\* Whoever is about to close the row of a generation knows of a run of that generation
\* that is over; the sampler knows of one that was active when it looked.
OverOf(k, generation) ==
    \E j \in DOMAIN proc[k] :
        j > origin[k] /\ proc[k][j].generation = generation /\ Over(proc[k], j)

ClosersKnow ==
    /\ \A c \in Client : req[c].pc = "applied" =>
         \A l \in Label : req[c].stopped[l] > 0 =>
            OverOf(<<req[c].session, l>>, req[c].stopped[l])
    /\ \A k \in Key :
         /\ todo[k].previous # 0 => OverOf(k, todo[k].previous)
         /\ todo[k].end # "none" => OverOf(k, todo[k].generation)
         /\ tracked[k].active =>
              \E j \in DOMAIN proc[k] :
                 /\ j > origin[k] /\ proc[k][j].generation = tracked[k].generation
                 /\ Settled(k, j)

ObserversGone ==
    phase \in {"down", "exited"} =>
        /\ \A c \in Client : req[c] = Idle
        /\ \A k \in Key : tracked[k] = NoView

ClosingInv ==
    /\ AbsentIsNew /\ TasksSound /\ RunsSettled /\ ClosersKnow /\ ObserversGone
    /\ LiveRunClosedOnlyByNamesake
-----------------------------------------------------------------------------
(* Liveness, while the daemon is up and its lock is usable. *)

RunOpen(k, r) ==
    \E i \in DOMAIN rows[k] : rows[k][i].run = r /\ rows[k][i].status = "running"
Exists(k, r) == r \in DOMAIN proc[k]
Live(k, r) == Exists(k, r) /\ proc[k][r].fate = "live"
Ended(k, r) == Exists(k, r) /\ proc[k][r].fate # "live"

\* The task's present process is the r-th, and its session was not loaded a second time
\* by this daemon.
Current(k, r) == task[k].run = r /\ k[1] \in present /\ born[k] = origin[k]

Disturbed(k, r) == phase # "up" \/ lock = "poisoned" \/ ~Current(k, r)

\* A run that keeps running gets a row: the sampler sees it and records it, also after a
\* daemon restart, when generation numbers start over.
LiveRunIsRecorded ==
    \A k \in Key, r \in 1..MaxRuns :
        Live(k, r) /\ Current(k, r) ~> Recorded(k, r) \/ Ended(k, r) \/ Disturbed(k, r)

\* When the latest run of a task ends, by itself or by a stop that raced the sampler, its
\* row is eventually closed.
LatestRunIsClosed ==
    \A k \in Key, r \in 1..MaxRuns :
        RunOpen(k, r) /\ Ended(k, r) /\ Current(k, r) ~> ~RunOpen(k, r) \/ Disturbed(k, r)
-----------------------------------------------------------------------------
(* What a document or an assertion of the repository says, and the code does not do. *)

\* handle.rs asserts with `.expect("checked")` that a session to stop or restart is loaded;
\* a failed assertion there would poison the sessions mutex.
SessionsLockUsable == lock # "poisoned"

\* "Task runs, events, and MCP calls are durably stored" (README.md): a process that
\* lives on while the daemon works has a row.
EveryLiveRunIsRecorded ==
    \A k \in Key, r \in 1..MaxRuns :
        Live(k, r) ~> Recorded(k, r) \/ Ended(k, r) \/ phase # "up" \/ lock = "poisoned"
=============================================================================
