--------------------------- MODULE RunHistory_proofs ---------------------------
(***************************************************************************)
(* Proofs about RunHistory.  First what holds whatever writes of the       *)
(* database fail.  Then what a daemon may believe of its processes and of  *)
(* its history.  When the database takes every write, it never has two     *)
(* live processes for one task, and a run that cron started is on record   *)
(* as a cron run.  (When a write fails, neither holds: a registration that *)
(* is not stored leaves its auto-start processes running, and the sampler  *)
(* records in its own words a run the scheduler could not record.)         *)
(* Whatever writes fail, a live run's row is closed only in the name of    *)
(* another run with the same generation.                                   *)
(***************************************************************************)
EXTENDS RunHistory, TLAPS

-----------------------------------------------------------------------------
(* The operations on task_runs. *)

LEMMA AppendRow ==
    ASSUME NEW history \in Seq(Row), NEW row \in Row
    PROVE  /\ Append(history, row) \in Seq(Row)
           /\ DOMAIN Append(history, row) = DOMAIN history \cup {Len(history) + 1}
           /\ \A i \in DOMAIN history : Append(history, row)[i] = history[i]
           /\ Append(history, row)[Len(history) + 1] = row
  OBVIOUS

LEMMA RowReplaced ==
    ASSUME NEW history \in Seq(Row), NEW status \in RowStatuses, NEW i \in DOMAIN history
    PROVE  [history[i] EXCEPT !.status = status] \in Row
<1>1. history[i] \in Row
  OBVIOUS
<1>2. QED
  BY <1>1 DEF Row

\* A row that another one replaced: only a running row changes, and only its status.
Closes(history, closed, status) ==
    /\ closed \in Seq(Row)
    /\ DOMAIN closed = DOMAIN history
    /\ \A i \in DOMAIN history :
         closed[i] = history[i]
         \/ /\ history[i].status = "running"
            /\ closed[i] = [history[i] EXCEPT !.status = status]

LEMMA FinishTaskRunCloses ==
    ASSUME NEW history \in Seq(Row), NEW generation, NEW status \in RowStatuses
    PROVE  Closes(history, FinishTaskRun(history, generation, status), status)
<1> DEFINE closed == FinishTaskRun(history, generation, status)
<1>1. \A i \in DOMAIN history : [history[i] EXCEPT !.status = status] \in Row
  BY RowReplaced
<1>2. closed \in Seq(Row) /\ DOMAIN closed = DOMAIN history
  BY <1>1 DEF FinishTaskRun, CloseNewest
<1>3. QED
  BY <1>2 DEF Closes, FinishTaskRun, CloseNewest, OfGeneration, StillRunning

LEMMA FinishRunningCloses ==
    ASSUME NEW history \in Seq(Row), NEW status \in RowStatuses
    PROVE  Closes(history, FinishRunning(history, status), status)
<1> DEFINE closed == FinishRunning(history, status)
<1>1. \A i \in DOMAIN history : [history[i] EXCEPT !.status = status] \in Row
  BY RowReplaced
<1>2. closed \in Seq(Row) /\ DOMAIN closed = DOMAIN history
  BY <1>1 DEF FinishRunning
<1>3. QED
  BY <1>2 DEF Closes, FinishRunning
-----------------------------------------------------------------------------
(* The operations on tasks and processes. *)

LEMMA TaskTypes ==
    ASSUME NEW t \in TaskState, NEW run \in Nat, NEW fate
    PROVE  /\ Poll(t, fate) \in TaskState
           /\ Start(t, run) \in TaskState
           /\ Stop(t) \in TaskState
           /\ Pause(t) \in TaskState
           /\ Resume(t) \in TaskState
           /\ NewTask \in TaskState
<1> USE DEF TaskState, Statuses
<1>1. Poll(t, fate) \in TaskState
  BY DEF Poll
<1>2. Start(t, run) \in TaskState
  BY DEF Start
<1>3. Stop(t) \in TaskState
  BY DEF Stop
<1>4. Pause(t) \in TaskState /\ Resume(t) \in TaskState
  BY DEF Pause, Resume
<1>5. NewTask \in TaskState
  BY DEF NewTask
<1>6. QED
  BY <1>1, <1>2, <1>3, <1>4, <1>5

Tasks == [Key -> TaskState]

LEMMA PolledType ==
    ASSUME TypeOK, NEW S
    PROVE  Polled(S) \in Tasks
  BY TaskTypes DEF TypeOK, Tasks, Polled

LEMMA StopAllType ==
    ASSUME NEW tasks \in Tasks, NEW S
    PROVE  StopAll(S, tasks) \in Tasks
  BY TaskTypes DEF Tasks, StopAll

LEMMA StartAllType ==
    ASSUME TypeOK, NEW tasks \in Tasks, NEW S
    PROVE  StartAll(S, tasks) \in Tasks
<1>1. \A k \in Key : proc[k] \in Seq(Process)
  BY DEF TypeOK
<1> \A k \in Key : Len(proc[k]) + 1 \in Nat
  BY <1>1
<1>2. QED
  BY <1>1, TaskTypes DEF Tasks, StartAll

LEMMA FateReplaced ==
    ASSUME NEW history \in Seq(Process), NEW i, NEW fate \in Fates
    PROVE  [history EXCEPT ![i].fate = fate] \in Seq(Process)
<1>1. \A j \in DOMAIN history : history[j] \in Process
  OBVIOUS
<1>2. \A j \in DOMAIN history : [history[j] EXCEPT !.fate = fate] \in Process
  BY <1>1 DEF Process
<1> DEFINE replaced == [j \in DOMAIN history |->
                        IF j = i THEN [history[j] EXCEPT !.fate = fate] ELSE history[j]]
<1>3. [history EXCEPT ![i].fate = fate] = replaced
  OBVIOUS
<1>4. replaced \in [1..Len(history) -> Process]
  BY <1>1, <1>2
<1>5. Len(history) \in Nat
  OBVIOUS
<1> HIDE DEF replaced
<1>6. replaced \in Seq(Process)
  BY <1>4, <1>5
<1>7. QED
  BY <1>3, <1>6

LEMMA KilledType ==
    ASSUME TypeOK, NEW tasks \in Tasks, NEW S
    PROVE  Killed(S, tasks) \in [Key -> Seq(Process)]
<1>1. "killed" \in Fates
  BY DEF Fates
<1>2. \A k \in Key : proc[k] \in Seq(Process)
  BY DEF TypeOK
<1>3. \A k \in Key : [proc[k] EXCEPT ![tasks[k].run].fate = "killed"] \in Seq(Process)
  BY <1>1, <1>2, FateReplaced
<1>4. QED
  BY <1>2, <1>3 DEF Killed

LEMMA SpawnedType ==
    ASSUME NEW procs \in [Key -> Seq(Process)], NEW tasks \in Tasks, NEW S,
           NEW cause \in Triggers
    PROVE  Spawned(S, tasks, procs, cause) \in [Key -> Seq(Process)]
<1>1. \A k \in Key : [generation |-> tasks[k].generation + 1, cause |-> cause, fate |-> "live"]
                      \in Process
  BY DEF Tasks, TaskState, Process, Fates
<1>2. \A k \in Key :
        Append(procs[k], [generation |-> tasks[k].generation + 1, cause |-> cause, fate |-> "live"])
          \in Seq(Process)
  BY <1>1
<1>3. QED
  BY <1>2 DEF Spawned
-----------------------------------------------------------------------------
(* Type correctness. *)

USE DEF Tasks

LEMMA MemoryGoneTypes ==
    ASSUME MemoryGone
    PROVE  /\ lock' = "free" /\ present' = {} /\ unavailable' = {} /\ triggers' = {}
           /\ task' \in [Key -> TaskState]
           /\ tracked' \in [Key -> [generation : Nat, active : BOOLEAN]]
           /\ todo' \in [Key -> Work]
           /\ sched' \in SchedulerStates
           /\ req' \in [Client -> Requests]
<1>1. NewTask \in TaskState /\ NoWork \in Work /\ NoView \in [generation : Nat, active : BOOLEAN]
  BY DEF NewTask, TaskState, Statuses, NoWork, Work, Triggers, NoView
<1>2. Idle \in SchedulerStates /\ Idle \in Requests
  BY DEF SchedulerStates, Requests
<1>3. QED
  BY <1>1, <1>2 DEF MemoryGone

LEMMA InitTypes == Init => TypeOK
<1> SUFFICES ASSUME Init PROVE TypeOK
  OBVIOUS
<1>1. NewTask \in TaskState /\ NoWork \in Work /\ NoView \in [generation : Nat, active : BOOLEAN]
  BY DEF NewTask, TaskState, Statuses, NoWork, Work, Triggers, NoView
<1>2. Idle \in SchedulerStates /\ Idle \in Requests
  BY DEF SchedulerStates, Requests
<1>3. QED
  BY <1>1, <1>2, BoundsAssumption DEF Init, TypeOK, Phases

LEMMA RequestTypes ==
    ASSUME TypeOK, NEW s \in Session, Register(s) \/ RemoveSession(s) \/ Snapshot(s)
    PROVE  TypeOK'
<1>1. CASE Register(s)
  <2> DEFINE fresh == [k \in Key |-> IF k \in KeysOf(s) THEN NewTask ELSE task[k]]
  <2>1. fresh \in Tasks
    BY TaskTypes DEF TypeOK
  <2>2. PICK up : /\ proc' = Spawned(up, fresh, proc, "auto_start")
                  /\ \/ /\ task' = StartAll(up, fresh)
                        /\ present' = present \cup {s}
                        /\ registered' = registered \cup {s}
                        /\ unavailable' = unavailable \ {s}
                     \/ UNCHANGED <<task, present, registered, unavailable>>
    BY <1>1 DEF Register, Written
  <2>3. proc' \in [Key -> Seq(Process)]
    BY <2>1, <2>2, SpawnedType DEF TypeOK, Triggers
  <2>4. task' \in Tasks
    <3>1. StartAll(up, fresh) \in Tasks
      BY <2>1, StartAllType
    <3>2. QED
      BY <2>2, <3>1 DEF TypeOK
  <2>5. born' \in [Key -> Nat]
    <3>1. \A k \in Key : proc[k] \in Seq(Process)
      BY DEF TypeOK
    <3>2. \A k \in Key : Len(proc[k]) \in Nat
      BY <3>1
    <3>3. QED
      BY <1>1, <3>2 DEF Register, TypeOK
  <2>6. QED
    BY <1>1, <2>2, <2>3, <2>4, <2>5 DEF Register, TypeOK, bounds
<1>2. CASE RemoveSession(s)
  <2>1. proc' \in [Key -> Seq(Process)]
    <3>1. Polled(KeysOf(s)) \in Tasks
      BY PolledType
    <3>2. Killed(KeysOf(s), Polled(KeysOf(s))) \in [Key -> Seq(Process)]
      BY <3>1, KilledType
    <3>3. QED
      BY <1>2, <3>2 DEF RemoveSession, TypeOK
  <2>2. task' \in Tasks
    BY <1>2, TaskTypes DEF RemoveSession, TypeOK
  <2>3. registered' \subseteq Session
    BY <1>2 DEF RemoveSession, TypeOK, Written
  <2>4. QED
    BY <1>2, <2>1, <2>2, <2>3 DEF RemoveSession, TypeOK, bounds
<1>3. CASE Snapshot(s)
  BY <1>3, PolledType DEF Snapshot, TypeOK, bounds
<1>4. QED
  BY <1>1, <1>2, <1>3

LEMMA PreStopRunsType ==
    ASSUME NEW c, req[c].session \in Session, NEW polled \in Tasks
    PROVE  PreStopRuns(c, polled) \in [Label -> Nat]
<1>1. \A l \in Label : polled[<<req[c].session, l>>].generation \in Nat
  BY DEF Key, TaskState
<1>2. QED
  BY <1>1 DEF PreStopRuns

LEMMA HandlerTypes ==
    ASSUME TypeOK, NEW c \in Client, Handler(c)
    PROVE  TypeOK'
<1>1. Idle \in Requests
  BY DEF Requests
<1>2. req[c] \in Requests /\ \A r \in Requests : [req EXCEPT ![c] = r] \in [Client -> Requests]
  BY DEF TypeOK
<1>3. req[c].pc = "gated" => req[c].session \in Session
  BY <1>2 DEF Requests, Idle
<1>4. ASSUME req[c].pc = "gated", NEW polled \in Tasks
      PROVE  [pc |-> "applied", session |-> req[c].session, stopped |-> PreStopRuns(c, polled)]
               \in Requests
  <2>1. req[c].session \in Session
    BY <1>3, <1>4
  <2>2. PreStopRuns(c, polled) \in [Label -> Nat]
    BY <2>1, PreStopRunsType
  <2>3. QED
    BY <2>1, <2>2 DEF Requests
<1>5. CASE \E s \in Session, labels \in Targets, a \in Actions : CheckAction(c, s, labels, a)
  <2>1. PICK s \in Session, labels \in Targets, a \in Actions : CheckAction(c, s, labels, a)
    BY <1>5
  <2>2. labels \in SUBSET Label
    BY DEF Targets
  <2>3. [pc |-> "gated", session |-> s, labels |-> labels, action |-> a] \in Requests
    BY <2>2 DEF Requests
  <2>4. QED
    BY <1>2, <2>1, <2>3 DEF CheckAction, TypeOK, bounds
<1>6. CASE ApplyToMissing(c)
  BY <1>1, <1>2, <1>6 DEF ApplyToMissing, TypeOK, bounds
<1>7. CASE ApplyStart(c)
  <2>1. Polled(Target(c)) \in Tasks
    BY PolledType
  <2>2. PICK up : /\ task' = StartAll(up, Polled(Target(c)))
                  /\ proc' = Spawned(up, Polled(Target(c)), proc, "manual")
    BY <1>7 DEF ApplyStart
  <2>3. task' \in Tasks
    BY <2>1, <2>2, StartAllType
  <2>4. proc' \in [Key -> Seq(Process)]
    BY <2>1, <2>2, SpawnedType DEF TypeOK, Triggers
  <2>5. QED
    BY <1>1, <1>2, <1>7, <2>3, <2>4 DEF ApplyStart, TypeOK, bounds
<1>8. CASE ApplyStop(c)
  <2> DEFINE polled == Polled(KeysOf(req[c].session))
  <2>1. polled \in Tasks
    BY PolledType
  <2>2. task' \in Tasks
    BY <1>8, <2>1, StopAllType DEF ApplyStop
  <2>3. proc' \in [Key -> Seq(Process)]
    BY <1>8, <2>1, KilledType DEF ApplyStop
  <2>4. req' \in [Client -> Requests]
    BY <1>2, <1>4, <1>8, <2>1 DEF ApplyStop, Applying
  <2>5. QED
    BY <1>8, <2>2, <2>3, <2>4 DEF ApplyStop, TypeOK, bounds
<1>9. CASE ApplyRestart(c)
  <2> DEFINE polled  == Polled(KeysOf(req[c].session))
             stopped == StopAll(Target(c), polled)
             killed  == Killed(Target(c), polled)
  <2>1. polled \in Tasks
    BY PolledType
  <2>2. stopped \in Tasks
    BY <2>1, StopAllType
  <2>3. killed \in [Key -> Seq(Process)]
    BY <2>1, KilledType
  <2>4. PICK up : /\ task' = StartAll(up, stopped)
                  /\ proc' = Spawned(up, stopped, killed, "manual")
                  /\ \/ req' = [req EXCEPT ![c] = Idle]
                     \/ req' = [req EXCEPT ![c] =
                                  [pc |-> "applied", session |-> req[c].session,
                                   stopped |-> PreStopRuns(c, polled)]]
    BY <1>9 DEF ApplyRestart
  <2> HIDE DEF polled, stopped, killed
  <2>5. task' \in Tasks
    BY <2>2, <2>4, StartAllType
  <2>6. proc' \in [Key -> Seq(Process)]
    BY <2>2, <2>3, <2>4, SpawnedType DEF Triggers
  <2>7. req' \in [Client -> Requests]
    BY <1>1, <1>2, <1>4, <1>9, <2>1, <2>4 DEF ApplyRestart, Applying
  <2>8. QED
    BY <1>9, <2>5, <2>6, <2>7 DEF ApplyRestart, TypeOK, bounds
<1>10. CASE ApplyPause(c)
  <2>1. task' \in Tasks
    BY <1>10, PolledType, TaskTypes DEF ApplyPause, TypeOK
  <2>2. QED
    BY <1>1, <1>2, <1>10, <2>1 DEF ApplyPause, TypeOK, bounds
<1>11. CASE ApplyResume(c)
  <2>1. task' \in Tasks
    BY <1>11, PolledType, TaskTypes DEF ApplyResume, TypeOK
  <2>2. QED
    BY <1>1, <1>2, <1>11, <2>1 DEF ApplyResume, TypeOK, bounds
<1>12. CASE FinishStopped(c)
  <2>1. rows' \in [Key -> Seq(Row)]
    <3>1. PICK landed :
            rows' = [k \in Key |->
                       IF k[1] = req[c].session /\ k[2] \in landed /\ req[c].stopped[k[2]] > 0
                       THEN FinishTaskRun(rows[k], req[c].stopped[k[2]], "stopped")
                       ELSE rows[k]]
      BY <1>12 DEF FinishStopped
    <3>2. \A k \in Key : rows[k] \in Seq(Row)
      BY DEF TypeOK
    <3>3. \A k \in Key : FinishTaskRun(rows[k], req[c].stopped[k[2]], "stopped") \in Seq(Row)
      BY <3>2, FinishTaskRunCloses DEF Closes, RowStatuses
    <3>4. QED
      BY <3>1, <3>2, <3>3
  <2>2. QED
    BY <1>1, <1>2, <1>12, <2>1 DEF FinishStopped, TypeOK, bounds
<1>13. QED
  BY <1>5, <1>6, <1>7, <1>8, <1>9, <1>10, <1>11, <1>12 DEF Handler

LEMMA WrittenRow ==
    ASSUME TypeOK, NEW k \in Key, NEW new \in Seq(Row),
           \E landed \in Written(rows[k], new) : rows' = [rows EXCEPT ![k] = landed]
    PROVE  rows' \in [Key -> Seq(Row)]
<1>1. rows[k] \in Seq(Row)
  BY DEF TypeOK
<1>2. QED
  BY <1>1 DEF Written, TypeOK

LEMMA SchedulerTypes ==
    ASSUME TypeOK, SchedulerStep
    PROVE  TypeOK'
<1>1. Idle \in SchedulerStates
  BY DEF SchedulerStates
<1>2. /\ sched.pc \in {"lock", "fail", "skip", "record", "insert"} => sched.key \in Key
      /\ sched.pc = "skip" => sched.generation \in Nat
      /\ sched.pc \in {"record", "insert"} => sched.generation \in Nat /\ sched.run \in Nat
  BY DEF TypeOK, SchedulerStates, Idle
<1>3. \A k \in Key : rows[k] \in Seq(Row) /\ proc[k] \in Seq(Process) /\ task[k] \in TaskState
  BY DEF TypeOK
<1>4. \A k \in Key : Len(proc[k]) \in Nat
  BY <1>3
<1>5. ASSUME NEW k, ScheduleDue(k)
      PROVE  TypeOK'
  <2>1. Polled(PresentKeys) \in Tasks
    BY PolledType
  <2>2. k \in Key
    BY <1>5, KeysAssumption DEF ScheduleDue
  <2>3. sched' \in SchedulerStates /\ triggers' \subseteq Key
    BY <1>5, <2>2 DEF ScheduleDue, TypeOK, SchedulerStates
  <2>4. firings' \in 0..MaxFirings
    BY <1>5, BoundsAssumption DEF ScheduleDue, TypeOK
  <2>5. task' \in Tasks
    BY <1>5, <2>1 DEF ScheduleDue
  <2>6. QED
    BY <1>5, <2>3, <2>4, <2>5 DEF ScheduleDue, UnchangedByScheduler, TypeOK
<1>6. CASE ScheduleStart
  <2> DEFINE k == sched.key
             polled == Polled({k})
  <2>1. k \in Key
    BY <1>2, <1>6 DEF ScheduleStart, Scheduler
  <2>2. polled \in Tasks
    BY PolledType
  <2>3. polled[k].generation \in Nat
    BY <2>1, <2>2 DEF TaskState
  <2>4. /\ lock' \in {"free", "scheduler", "poisoned"}
        /\ \/ sched' = [pc |-> "fail", key |-> k]
           \/ sched' = [pc |-> "skip", key |-> k, generation |-> polled[k].generation]
           \/ sched' = [pc |-> "record", key |-> k, generation |-> polled[k].generation + 1,
                        run |-> Len(proc[k]) + 1]
        /\ \/ UNCHANGED <<task, proc>>
           \/ task' = polled /\ UNCHANGED proc
           \/ \E up : /\ task' = StartAll(up, polled)
                      /\ proc' = Spawned(up, polled, proc, "cron")
    BY <1>6 DEF ScheduleStart, LockWhileRecording, TypeOK
  <2>5. sched' \in SchedulerStates
    BY <1>4, <2>1, <2>3, <2>4 DEF SchedulerStates
  <2>6. \A up : /\ StartAll(up, polled) \in Tasks
               /\ Spawned(up, polled, proc, "cron") \in [Key -> Seq(Process)]
    <3>1. proc \in [Key -> Seq(Process)] /\ "cron" \in Triggers
      BY DEF TypeOK, Triggers
    <3>2. QED
      BY <2>2, <3>1, StartAllType, SpawnedType
  <2> HIDE DEF k, polled
  <2>7. task' \in Tasks /\ proc' \in [Key -> Seq(Process)]
    BY <2>2, <2>4, <2>6 DEF TypeOK
  <2>8. UNCHANGED <<triggers, rows>> /\ UNCHANGED firings /\ UnchangedByScheduler
    BY <1>6 DEF ScheduleStart
  <2>9. lock' \in {"free", "scheduler", "poisoned"}
    BY <2>4
  <2>10. QED
    BY <2>5, <2>7, <2>8, <2>9 DEF UnchangedByScheduler, TypeOK
<1>7. CASE ScheduleRecord
  <2>1. sched \in [pc : {"record", "insert"}, key : Key, generation : Nat, run : Nat]
    BY <1>7 DEF ScheduleRecord, Scheduler, TypeOK, SchedulerStates, Idle
  <2>2. [sched EXCEPT !.pc = "insert"] \in SchedulerStates
    BY <2>1 DEF SchedulerStates
  <2>3. sched' \in SchedulerStates /\ lock' \in {"free", "scheduler", "poisoned"}
    BY <1>1, <1>7, <2>2 DEF ScheduleRecord, TypeOK
  <2>4. QED
    BY <1>7, <2>3 DEF ScheduleRecord, UnchangedByScheduler, TypeOK
<1>8. CASE ScheduleInsert
  <2> DEFINE row == [generation |-> sched.generation, run |-> sched.run,
                     trigger |-> "cron", status |-> "running"]
  <2>1. sched.key \in Key /\ row \in Row
    BY <1>2, <1>8 DEF ScheduleInsert, Scheduler, Row, Triggers, RowStatuses
  <2>2. StartTaskRun(rows[sched.key], sched.generation, sched.run, "cron") \in Seq(Row)
    BY <1>3, <2>1, AppendRow DEF StartTaskRun
  <2>3. rows' \in [Key -> Seq(Row)]
    BY <1>8, <2>1, <2>2, WrittenRow DEF ScheduleInsert
  <2>4. QED
    BY <1>1, <1>8, <2>3 DEF ScheduleInsert, UnchangedByScheduler, TypeOK
<1>9. CASE ScheduleSkip
  <2> DEFINE row == [generation |-> sched.generation, run |-> 0,
                     trigger |-> "cron", status |-> "skipped"]
  <2>1. sched.key \in Key /\ row \in Row
    BY <1>2, <1>9 DEF ScheduleSkip, Scheduler, Row, Triggers, RowStatuses
  <2>2. RecordAttempt(rows[sched.key], sched.generation, "skipped") \in Seq(Row)
    BY <1>3, <2>1, AppendRow DEF RecordAttempt
  <2>3. rows' \in [Key -> Seq(Row)]
    BY <1>9, <2>1, <2>2, WrittenRow DEF ScheduleSkip
  <2>4. QED
    BY <1>1, <1>9, <2>3 DEF ScheduleSkip, UnchangedByScheduler, TypeOK
<1>10. CASE ScheduleFail
  <2> DEFINE visible == lock # "poisoned" /\ sched.key \in PresentKeys
             generation == IF visible THEN task[sched.key].generation ELSE 0
             row == [generation |-> generation, run |-> 0,
                     trigger |-> "cron", status |-> "failed"]
  <2>1. sched.key \in Key
    BY <1>2, <1>10 DEF ScheduleFail, Scheduler
  <2>2. row \in Row
    BY <1>3, <2>1 DEF Row, Triggers, RowStatuses, TaskState
  <2>3. RecordAttempt(rows[sched.key], generation, "failed") \in Seq(Row)
    BY <1>3, <2>1, <2>2, AppendRow DEF RecordAttempt
  <2>4. rows' \in [Key -> Seq(Row)]
    BY <1>10, <2>1, <2>3, WrittenRow DEF ScheduleFail
  <2>5. task' \in Tasks
    <3>1. Polled(KeysOf(sched.key[1])) \in Tasks
      BY PolledType
    <3>2. QED
      BY <1>10, <3>1 DEF ScheduleFail, TypeOK
  <2>6. QED
    BY <1>1, <1>10, <2>4, <2>5 DEF ScheduleFail, UnchangedByScheduler, TypeOK
<1>11. QED
  BY <1>5, <1>6, <1>7, <1>8, <1>9, <1>10 DEF SchedulerStep

LEMMA SamplerTypes ==
    ASSUME TypeOK, Collect \/ \E k \in Key : SampleWrite(k)
    PROVE  TypeOK'
<1>1. NoWork \in Work
  BY DEF NoWork, Work, Triggers
<1>2. \A k \in Key : todo[k] \in Work /\ rows[k] \in Seq(Row)
  BY DEF TypeOK
<1>3. CASE Collect
  <2> DEFINE polled == Polled(PresentKeys)
  <2>1. polled \in Tasks
    BY PolledType
  <2>2. \A k \in Key : TriggerFor(k) \in Triggers
    BY DEF TriggerFor, Triggers
  <2>3. ASSUME NEW t \in TaskState, NEW p \in [generation : Nat, active : BOOLEAN],
               NEW trigger \in Triggers
        PROVE  Transitions(t, p, trigger) \in Work
    BY <2>3 DEF Transitions, Boundaries, FinishedStatus, Active, TaskState, Statuses, Work
  <2>4. \A k \in Key : Transitions(polled[k], tracked[k], TriggerFor(k)) \in Work
    BY <2>1, <2>2, <2>3 DEF TypeOK
  <2>5. task' = polled /\ triggers' \subseteq Key
    BY <1>3 DEF Collect, TypeOK
  <2>6. todo' \in [Key -> Work]
    BY <1>1, <1>3, <2>4 DEF Collect
  <2>7. tracked' \in [Key -> [generation : Nat, active : BOOLEAN]]
    BY <1>3, <2>1 DEF Collect, TypeOK, TaskState, Active
  <2>8. UNCHANGED <<phase, lock, present, unavailable, sched, req, registered, rows, proc,
                    origin, born, bounds>>
    BY <1>3 DEF Collect
  <2>9. QED
    BY <2>1, <2>5, <2>6, <2>7, <2>8 DEF TypeOK, bounds
<1>4. ASSUME NEW k \in Key, SampleWrite(k)
      PROVE  TypeOK'
  <2>1. ASSUME NEW w \in Work
        PROVE  /\ Rest([w EXCEPT !.previous = 0]) \in Work
               /\ Rest([w EXCEPT !.start = 0]) \in Work
               /\ [w EXCEPT !.missing = TRUE] \in Work
               /\ Rest([w EXCEPT !.start = 0, !.missing = FALSE]) \in Work
    BY <1>1 DEF Rest, Work
  <2>2. todo' \in [Key -> Work]
    <3>1. PICK w : todo' = [todo EXCEPT ![k] = w]
                   /\ w \in {Rest([todo[k] EXCEPT !.previous = 0]),
                            Rest([todo[k] EXCEPT !.start = 0]),
                            [todo[k] EXCEPT !.missing = TRUE],
                            Rest([todo[k] EXCEPT !.start = 0, !.missing = FALSE]), NoWork}
      BY <1>4 DEF SampleWrite, SamplePrevious, SampleCheck, SampleInsert, SampleEnd
    <3>2. w \in Work
      BY <1>1, <1>2, <2>1, <3>1
    <3>3. QED
      BY <3>1, <3>2 DEF TypeOK
  <2>3. rows' \in [Key -> Seq(Row)]
    <3>1. CASE SamplePrevious(k)
      <4>1. FinishTaskRun(rows[k], todo[k].previous, "stopped") \in Seq(Row)
        BY <1>2, FinishTaskRunCloses DEF Closes, RowStatuses
      <4>2. QED
        BY <3>1, <4>1, WrittenRow DEF SamplePrevious, Writing
    <3>2. CASE SampleCheck(k)
      BY <3>2 DEF SampleCheck, TypeOK
    <3>3. CASE SampleInsert(k)
      <4> DEFINE row == [generation |-> todo[k].generation, run |-> todo[k].start,
                         trigger |-> todo[k].trigger, status |-> "running"]
      <4>1. row \in Row
        BY <1>2 DEF Work, Row, RowStatuses
      <4>2. StartTaskRun(rows[k], todo[k].generation, todo[k].start, todo[k].trigger)
              \in Seq(Row)
        BY <1>2, <4>1, AppendRow DEF StartTaskRun
      <4>3. QED
        BY <3>3, <4>2, WrittenRow DEF SampleInsert, Writing
    <3>4. CASE SampleEnd(k)
      <4>1. todo[k].end \in RowStatuses
        BY <1>2, <3>4 DEF SampleEnd, Work, RowStatuses
      <4>2. FinishTaskRun(rows[k], todo[k].generation, todo[k].end) \in Seq(Row)
        BY <1>2, <4>1, FinishTaskRunCloses DEF Closes
      <4>3. QED
        BY <3>4, <4>2, WrittenRow DEF SampleEnd, Writing
    <3>5. QED
      BY <1>4, <3>1, <3>2, <3>3, <3>4 DEF SampleWrite
  <2>4. UnchangedBySampler
    BY <1>4 DEF SampleWrite, SamplePrevious, SampleCheck, SampleInsert, SampleEnd
  <2>5. QED
    BY <2>2, <2>3, <2>4 DEF UnchangedBySampler, TypeOK, bounds
<1>5. QED
  BY <1>3, <1>4

LEMMA EnvironmentTypes ==
    ASSUME TypeOK, Lifecycle \/ \E k \in Key, i \in 1..MaxRuns : ProcessEnds(k, i)
    PROVE  TypeOK'
<1>1. ASSUME NEW k \in Key, NEW i \in 1..MaxRuns, ProcessEnds(k, i)
      PROVE  TypeOK'
  <2>1. PICK fate \in Endings : proc' = [proc EXCEPT ![k][i].fate = fate]
    BY <1>1 DEF ProcessEnds
  <2>2. proc[k] \in Seq(Process) /\ fate \in Fates
    BY EndingsAssumption DEF TypeOK, Fates
  <2>3. [proc[k] EXCEPT ![i].fate = fate] \in Seq(Process)
    BY <2>2, FateReplaced
  <2>4. proc' = [proc EXCEPT ![k] = [proc[k] EXCEPT ![i].fate = fate]]
    BY <2>1
  <2>5. proc' \in [Key -> Seq(Process)]
    BY <2>3, <2>4 DEF TypeOK
  <2>6. QED
    BY <1>1, <2>5 DEF ProcessEnds, TypeOK, memory, bounds
<1>2. CASE Shutdown
  BY <1>2 DEF Shutdown, TypeOK, Phases, memory, bounds
<1>3. CASE StopTasks
  <2>1. Polled(PresentKeys) \in Tasks
    BY PolledType
  <2>2. StopAll(PresentKeys, Polled(PresentKeys)) \in Tasks
    BY <2>1, StopAllType
  <2>3. Killed(PresentKeys, Polled(PresentKeys)) \in [Key -> Seq(Process)]
    BY <2>1, KilledType
  <2>4. QED
    BY <1>3, <2>2, <2>3 DEF StopTasks, TypeOK, Phases, bounds
<1>4. \A k \in Key, status \in RowStatuses : FinishRunning(rows[k], status) \in Seq(Row)
  BY FinishRunningCloses DEF Closes, TypeOK
<1>5. CASE CloseHistory
  <2>1. rows' \in [Key -> Seq(Row)]
    BY <1>4, <1>5 DEF CloseHistory, Written, TypeOK, RowStatuses
  <2>2. QED
    BY <1>5, <2>1 DEF CloseHistory, TypeOK, Phases, memory, bounds
<1>6. CASE Exit \/ Crash
  <2>1. MemoryGone /\ phase' \in Phases
    BY <1>6 DEF Exit, Crash, Phases
  <2>2. UNCHANGED <<registered, rows, proc, origin, born, bounds>>
    BY <1>6 DEF Exit, Crash
  <2>3. QED
    BY <2>1, <2>2, MemoryGoneTypes DEF TypeOK, bounds
<1>7. CASE Load
  <2>1. PICK lost, up :
           /\ lost \subseteq registered
           /\ unavailable' = lost
           /\ present' = registered \ lost
           /\ task' = StartAll(up, task)
           /\ proc' = Spawned(up, task, proc, "auto_start")
    BY <1>7 DEF Load
  <2>2. task' \in Tasks
    BY <2>1, StartAllType DEF TypeOK
  <2>3. proc' \in [Key -> Seq(Process)]
    BY <2>1, SpawnedType DEF TypeOK, Triggers
  <2>4. rows' \in [Key -> Seq(Row)]
    BY <1>4, <1>7 DEF Load, RowStatuses
  <2>5. origin' \in [Key -> Nat] /\ born' \in [Key -> Nat]
    <3>1. \A k \in Key : proc[k] \in Seq(Process)
      BY DEF TypeOK
    <3>2. \A k \in Key : Len(proc[k]) \in Nat
      BY <3>1
    <3>3. QED
      BY <1>7, <3>2 DEF Load
  <2>6. lives' \in 0..MaxLives
    BY <1>7, BoundsAssumption DEF Load, TypeOK
  <2>7. /\ phase' = "up"
        /\ UNCHANGED <<lock, triggers, tracked, todo, sched, req, registered, firings>>
    BY <1>7 DEF Load
  <2>8. QED
    BY <2>1, <2>2, <2>3, <2>4, <2>5, <2>6, <2>7 DEF TypeOK, Phases
<1>8. QED
  BY <1>1, <1>2, <1>3, <1>5, <1>6, <1>7 DEF Lifecycle

LEMMA NextTypes ==
    ASSUME TypeOK, [Next]_vars
    PROVE  TypeOK'
<1>1. CASE Next
  BY <1>1, RequestTypes, HandlerTypes, SchedulerTypes, SamplerTypes, EnvironmentTypes DEF Next
<1>2. CASE UNCHANGED vars
  BY <1>2 DEF TypeOK, vars, memory, bounds
<1>3. QED
  BY <1>1, <1>2

\* Every variable keeps its type in every behaviour of the daemon and its processes.
THEOREM TypeCorrect == Spec => []TypeOK
<1>1. Init => TypeOK
  BY InitTypes
<1>2. TypeOK /\ [Next]_vars => TypeOK'
  BY NextTypes
<1>3. QED
  BY <1>1, <1>2, PTL DEF Spec
-----------------------------------------------------------------------------
(* What a step does to the tasks and to the processes, as far as runs and generations    *)
(* are concerned: processes keep their generation, and a task keeps its run, forgets it, *)
(* or has just spawned the next one.                                                     *)

Extends(new, old) ==
    \A k \in Key : /\ Len(old[k]) <= Len(new[k])
                   /\ \A i \in 1..Len(old[k]) : new[k][i].generation = old[k][i].generation

SameRun(t, u) == t.run = u.run /\ t.generation = u.generation

JustSpawned(t, old, new) ==
    /\ t.run = Len(old) + 1
    /\ Len(new) = Len(old) + 1
    /\ t.generation = new[t.run].generation

TaskMoves(tasks, procs) ==
    \A k \in Key : \/ SameRun(tasks[k], task[k])
                   \/ tasks[k].run = 0
                   \/ JustSpawned(tasks[k], proc[k], procs[k])

\* Tasks that may be about to spawn, and processes to add to.
Kept(tasks) == \A k \in Key : SameRun(tasks[k], task[k]) \/ tasks[k].run = 0
SameLengths(procs) == \A k \in Key : Len(procs[k]) = Len(proc[k])

LEMMA RunsKept ==
    ASSUME NEW t \in TaskState, NEW fate
    PROVE  SameRun(Poll(t, fate), t) /\ SameRun(Stop(t), t)
           /\ SameRun(Pause(t), t) /\ SameRun(Resume(t), t) /\ NewTask.run = 0
  BY DEF SameRun, Poll, Stop, Pause, Resume, TaskState, NewTask

LEMMA PolledKeeps ==
    ASSUME TypeOK, NEW S
    PROVE  Kept(Polled(S)) /\ \A k \in Key : SameRun(Polled(S)[k], task[k])
  BY RunsKept DEF TypeOK, Polled, Kept, SameRun

LEMMA StopAllKeeps ==
    ASSUME TypeOK, NEW tasks \in Tasks, \A k \in Key : SameRun(tasks[k], task[k]), NEW S
    PROVE  Kept(StopAll(S, tasks)) /\ \A k \in Key : SameRun(StopAll(S, tasks)[k], task[k])
<1>1. \A k \in Key : SameRun(Stop(tasks[k]), tasks[k])
  BY DEF Stop, TaskState, SameRun
<1>2. QED
  BY <1>1 DEF StopAll, Kept, SameRun

LEMMA KilledKeeps ==
    ASSUME TypeOK, NEW tasks, NEW S
    PROVE  SameLengths(Killed(S, tasks)) /\ Extends(Killed(S, tasks), proc)
<1>1. \A k \in Key : proc[k] \in Seq(Process)
  BY DEF TypeOK
<1>2. ASSUME NEW k \in Key
      PROVE  LET new == [proc[k] EXCEPT ![tasks[k].run].fate = "killed"]
             IN  /\ Len(new) = Len(proc[k])
                 /\ \A i \in 1..Len(proc[k]) : new[i].generation = proc[k][i].generation
  <2> DEFINE new == [proc[k] EXCEPT ![tasks[k].run].fate = "killed"]
  <2>1. new \in Seq(Process) /\ DOMAIN new = DOMAIN proc[k]
    BY <1>1, FateReplaced DEF Fates
  <2>2. \A i \in 1..Len(proc[k]) : proc[k][i] \in Process
    BY <1>1
  <2>3. \A i \in 1..Len(proc[k]) : new[i].generation = proc[k][i].generation
    BY <1>1, <2>2 DEF Process
  <2> HIDE DEF new
  <2>4. Len(new) = Len(proc[k])
    BY <1>1, <2>1
  <2>5. QED
    BY <2>3, <2>4 DEF new
<1>3. \A k \in Key : Len(proc[k]) \in Nat
  BY <1>1
<1>4. QED
  BY <1>2, <1>3 DEF Killed, SameLengths, Extends

LEMMA Spawning ==
    ASSUME TypeOK,
           NEW tasks \in Tasks, Kept(tasks),
           NEW procs \in [Key -> Seq(Process)], SameLengths(procs), Extends(procs, proc),
           NEW S, NEW cause
    PROVE  /\ Extends(Spawned(S, tasks, procs, cause), proc)
           /\ TaskMoves(StartAll(S, tasks), Spawned(S, tasks, procs, cause))
           /\ TaskMoves(task, Spawned(S, tasks, procs, cause))
<1> DEFINE new(k) == [generation |-> tasks[k].generation + 1, cause |-> cause, fate |-> "live"]
<1>1. \A k \in Key : procs[k] \in Seq(Process) /\ proc[k] \in Seq(Process)
  BY DEF TypeOK
<1>2. \A k \in Key : Len(procs[k]) \in Nat /\ Len(proc[k]) \in Nat
  BY <1>1
<1>3. ASSUME NEW k \in Key
      PROVE  /\ Len(Append(procs[k], new(k))) = Len(procs[k]) + 1
             /\ \A i \in 1..Len(procs[k]) : Append(procs[k], new(k))[i] = procs[k][i]
             /\ Append(procs[k], new(k))[Len(procs[k]) + 1].generation = tasks[k].generation + 1
  BY <1>1
<1>4. Extends(Spawned(S, tasks, procs, cause), proc)
  <2> SUFFICES ASSUME NEW k \in Key
               PROVE  LET history == Spawned(S, tasks, procs, cause)[k]
                      IN  /\ Len(proc[k]) <= Len(history)
                          /\ \A i \in 1..Len(proc[k]) :
                                history[i].generation = proc[k][i].generation
    BY DEF Extends
  <2>1. CASE k \in S
    BY <1>2, <1>3, <2>1 DEF Extends, SameLengths, Spawned
  <2>2. CASE k \notin S
    BY <1>2, <2>2 DEF Extends, SameLengths, Spawned
  <2>3. QED
    BY <2>1, <2>2
<1>5. TaskMoves(StartAll(S, tasks), Spawned(S, tasks, procs, cause))
  BY <1>2, <1>3 DEF TaskMoves, Kept, SameRun, JustSpawned, StartAll, Start, Spawned, SameLengths
<1>6. TaskMoves(task, Spawned(S, tasks, procs, cause))
  BY DEF TaskMoves, SameRun
<1>7. QED
  BY <1>4, <1>5, <1>6

LEMMA NothingSpawned ==
    ASSUME TypeOK, NEW procs \in [Key -> Seq(Process)], SameLengths(procs),
           NEW tasks, Kept(tasks)
    PROVE  TaskMoves(tasks, procs)
  BY DEF TaskMoves, Kept

LEMMA ProcessEndsKeeps ==
    ASSUME TypeOK, NEW k \in Key, NEW i \in 1..MaxRuns, ProcessEnds(k, i)
    PROVE  SameLengths(proc') /\ Extends(proc', proc)
<1>1. PICK fate \in Endings : proc' = [proc EXCEPT ![k][i].fate = fate]
  BY DEF ProcessEnds
<1>2. \A l \in Key : proc[l] \in Seq(Process)
  BY DEF TypeOK
<1>3. \A l \in Key : Len(proc[l]) \in Nat
  BY <1>2
<1> DEFINE new == [proc[k] EXCEPT ![i].fate = fate]
<1>4. new \in Seq(Process) /\ DOMAIN new = DOMAIN proc[k]
  BY <1>2, EndingsAssumption, FateReplaced DEF Fates
<1>5. \A j \in 1..Len(proc[k]) : proc[k][j] \in Process
  BY <1>2
<1>6. \A j \in 1..Len(proc[k]) : new[j].generation = proc[k][j].generation
  BY <1>2, <1>5 DEF Process
<1>7. \A l \in Key : proc'[l] = IF l = k THEN new ELSE proc[l]
  BY <1>1 DEF TypeOK
<1> HIDE DEF new
<1>8. Len(new) = Len(proc[k])
  BY <1>2, <1>4
<1>9. QED
  BY <1>3, <1>6, <1>7, <1>8 DEF SameLengths, Extends

LEMMA TasksAndProcs ==
    ASSUME TypeOK, Next
    PROVE  Extends(proc', proc) /\ TaskMoves(task', proc')
<1>1. /\ SameLengths(proc) /\ Extends(proc, proc) /\ Kept(task)
      /\ proc \in [Key -> Seq(Process)] /\ task \in Tasks
  <2>1. \A k \in Key : proc[k] \in Seq(Process)
    BY DEF TypeOK
  <2>2. \A k \in Key : Len(proc[k]) \in Nat
    BY <2>1
  <2>3. QED
    BY <2>2 DEF TypeOK, SameLengths, Extends, Kept, SameRun
<1>2. CASE UNCHANGED <<task, proc>>
  BY <1>1, <1>2 DEF TaskMoves, Kept
<1>3. ASSUME NEW S, task' = Polled(S), UNCHANGED proc
      PROVE  Extends(proc', proc) /\ TaskMoves(task', proc')
  BY <1>1, <1>3, PolledKeeps DEF TaskMoves
<1>4. ASSUME NEW s \in Session, Register(s)
      PROVE  Extends(proc', proc) /\ TaskMoves(task', proc')
  <2> DEFINE fresh == [k \in Key |-> IF k \in KeysOf(s) THEN NewTask ELSE task[k]]
  <2>1. fresh \in Tasks /\ Kept(fresh)
    BY <1>1, TaskTypes DEF Kept, NewTask, SameRun
  <2>2. PICK up : /\ proc' = Spawned(up, fresh, proc, "auto_start")
                  /\ task' = StartAll(up, fresh) \/ task' = task
    BY <1>4 DEF Register, Written
  <2> HIDE DEF fresh
  <2>3. QED
    BY <1>1, <2>1, <2>2, Spawning
<1>5. ASSUME NEW s \in Session, RemoveSession(s)
      PROVE  Extends(proc', proc) /\ TaskMoves(task', proc')
  <2>1. Extends(proc', proc) /\ SameLengths(proc')
    BY <1>1, <1>5, KilledKeeps DEF RemoveSession
  <2>2. Kept(task')
    BY <1>1, <1>5 DEF RemoveSession, Kept, NewTask
  <2>3. QED
    BY <2>1, <2>2 DEF TaskMoves, Kept
<1>6. ASSUME NEW c \in Client, ApplyStart(c)
      PROVE  Extends(proc', proc) /\ TaskMoves(task', proc')
  <2> DEFINE polled == Polled(Target(c))
  <2>1. polled \in Tasks /\ Kept(polled)
    BY PolledType, PolledKeeps
  <2>2. PICK up : task' = StartAll(up, polled) /\ proc' = Spawned(up, polled, proc, "manual")
    BY <1>6 DEF ApplyStart
  <2> HIDE DEF polled
  <2>3. QED
    BY <1>1, <2>1, <2>2, Spawning
<1>7. ASSUME NEW c \in Client, ApplyStop(c)
      PROVE  Extends(proc', proc) /\ TaskMoves(task', proc')
  <2> DEFINE polled == Polled(KeysOf(req[c].session))
  <2>1. polled \in Tasks /\ \A k \in Key : SameRun(polled[k], task[k])
    BY PolledType, PolledKeeps
  <2>2. task' = StopAll(Target(c), polled) /\ proc' = Killed(Target(c), polled)
    BY <1>7 DEF ApplyStop
  <2> HIDE DEF polled
  <2>3. Kept(task')
    BY <2>1, <2>2, StopAllKeeps
  <2>4. Extends(proc', proc)
    BY <2>2, KilledKeeps
  <2>5. QED
    BY <2>3, <2>4 DEF TaskMoves, Kept
<1>8. ASSUME NEW c \in Client, ApplyRestart(c)
      PROVE  Extends(proc', proc) /\ TaskMoves(task', proc')
  <2> DEFINE polled  == Polled(KeysOf(req[c].session))
             stopped == StopAll(Target(c), polled)
             killed  == Killed(Target(c), polled)
  <2>1. polled \in Tasks /\ \A k \in Key : SameRun(polled[k], task[k])
    BY PolledType, PolledKeeps
  <2>2. stopped \in Tasks /\ Kept(stopped)
    BY <2>1, StopAllType, StopAllKeeps
  <2>3. killed \in [Key -> Seq(Process)] /\ SameLengths(killed) /\ Extends(killed, proc)
    BY <2>1, KilledType, KilledKeeps
  <2>4. PICK up : task' = StartAll(up, stopped) /\ proc' = Spawned(up, stopped, killed, "manual")
    BY <1>8 DEF ApplyRestart
  <2> HIDE DEF polled, stopped, killed
  <2>5. QED
    BY <2>2, <2>3, <2>4, Spawning
<1>9. ASSUME NEW c \in Client, ApplyPause(c) \/ ApplyResume(c)
      PROVE  Extends(proc', proc) /\ TaskMoves(task', proc')
  <2>1. Polled(Target(c)) \in Tasks /\ \A k \in Key : SameRun(Polled(Target(c))[k], task[k])
    BY PolledType, PolledKeeps
  <2> DEFINE polled == Polled(Target(c))
  <2>2. \A k \in Key : /\ SameRun(Pause(polled[k]), polled[k])
                       /\ SameRun(Resume(polled[k]), polled[k])
    BY <2>1 DEF Pause, Resume, SameRun, TaskState
  <2>3. \A k \in Key : task'[k] \in {Pause(polled[k]), Resume(polled[k]), task[k]}
    BY <1>9 DEF ApplyPause, ApplyResume
  <2>4. \A k \in Key : SameRun(task'[k], task[k])
    BY <2>1, <2>2, <2>3 DEF SameRun
  <2>5. UNCHANGED proc
    BY <1>9 DEF ApplyPause, ApplyResume
  <2>6. QED
    BY <1>1, <2>4, <2>5 DEF TaskMoves
<1>10. ASSUME NEW c \in Client, Handler(c)
       PROVE  Extends(proc', proc) /\ TaskMoves(task', proc')
  <2>1. CASE \E s \in Session, labels \in Targets, a \in Actions : CheckAction(c, s, labels, a)
    BY <1>2, <2>1 DEF CheckAction
  <2>2. CASE ApplyToMissing(c) \/ FinishStopped(c)
    BY <1>2, <2>2 DEF ApplyToMissing, FinishStopped
  <2>3. QED
    BY <1>6, <1>7, <1>8, <1>9, <1>10, <2>1, <2>2 DEF Handler
<1>11. CASE SchedulerStep
  <2>1. CASE \E k \in Key : ScheduleDue(k)
    BY <1>3, <2>1 DEF ScheduleDue
  <2>2. CASE ScheduleStart
    <3> DEFINE polled == Polled({sched.key})
    <3>1. polled \in Tasks /\ Kept(polled)
      BY PolledType, PolledKeeps
    <3>2. \/ UNCHANGED <<task, proc>>
          \/ task' = polled /\ UNCHANGED proc
          \/ \E up : task' = StartAll(up, polled) /\ proc' = Spawned(up, polled, proc, "cron")
      BY <2>2 DEF ScheduleStart
    <3>3. CASE task' = polled /\ UNCHANGED proc
      BY <1>3, <3>3
    <3> HIDE DEF polled
    <3>4. CASE \E up : task' = StartAll(up, polled) /\ proc' = Spawned(up, polled, proc, "cron")
      BY <1>1, <3>1, <3>4, Spawning
    <3>5. QED
      BY <1>2, <3>2, <3>3, <3>4
  <2>3. CASE ScheduleRecord \/ ScheduleInsert \/ ScheduleSkip
    BY <1>2, <2>3 DEF ScheduleRecord, ScheduleInsert, ScheduleSkip
  <2>4. CASE ScheduleFail
    BY <1>2, <1>3, <2>4 DEF ScheduleFail
  <2>5. QED
    BY <1>11, <2>1, <2>2, <2>3, <2>4 DEF SchedulerStep
<1>12. CASE Collect
  BY <1>3, <1>12 DEF Collect
<1>13. ASSUME NEW k \in Key, SampleWrite(k)
       PROVE  Extends(proc', proc) /\ TaskMoves(task', proc')
  BY <1>2, <1>13
  DEF SampleWrite, SamplePrevious, SampleCheck, SampleInsert, SampleEnd, UnchangedBySampler
<1>14. ASSUME NEW k \in Key, NEW i \in 1..MaxRuns, ProcessEnds(k, i)
       PROVE  Extends(proc', proc) /\ TaskMoves(task', proc')
  <2>1. Extends(proc', proc) /\ UNCHANGED task
    BY <1>14, ProcessEndsKeeps DEF ProcessEnds, memory
  <2>2. QED
    BY <1>1, <2>1 DEF TaskMoves, Kept
<1>15. CASE Lifecycle
  <2>1. CASE Shutdown \/ CloseHistory
    BY <1>2, <2>1 DEF Shutdown, CloseHistory, memory
  <2>2. CASE StopTasks
    <3>1. /\ Polled(PresentKeys) \in Tasks
          /\ \A k \in Key : SameRun(Polled(PresentKeys)[k], task[k])
      BY PolledType, PolledKeeps
    <3>2. Kept(task')
      BY <2>2, <3>1, StopAllKeeps DEF StopTasks
    <3>3. Extends(proc', proc)
      BY <2>2, KilledKeeps DEF StopTasks
    <3>4. QED
      BY <3>2, <3>3 DEF TaskMoves, Kept
  <2>3. CASE Exit \/ Crash
    BY <1>1, <2>3 DEF Exit, Crash, MemoryGone, TaskMoves, NewTask
  <2>4. CASE Load
    <3>1. PICK up : task' = StartAll(up, task) /\ proc' = Spawned(up, task, proc, "auto_start")
      BY <2>4 DEF Load
    <3>2. QED
      BY <1>1, <3>1, Spawning
  <2>5. QED
    BY <1>15, <2>1, <2>2, <2>3, <2>4 DEF Lifecycle
<1>16. ASSUME NEW s \in Session, Snapshot(s)
       PROVE  Extends(proc', proc) /\ TaskMoves(task', proc')
  BY <1>3, <1>16 DEF Snapshot
<1>17. QED
  BY <1>4, <1>5, <1>10, <1>11, <1>12, <1>13, <1>14, <1>15, <1>16 DEF Next
-----------------------------------------------------------------------------
(* What a step does to the rows: it closes running ones, and appends at most one, which  *)
(* is an attempt without a process, the scheduler's run or the sampler's.                *)

Aged(new, old) ==
    /\ new.run = old.run /\ new.generation = old.generation /\ new.trigger = old.trigger
    /\ old.status # "running" => new = old

Inserted(k, row) ==
    \/ row.run = 0 /\ row.status # "running"
    \/ /\ ScheduleInsert /\ k = sched.key
       /\ row.run = sched.run /\ row.generation = sched.generation
       /\ row.trigger = "cron" /\ row.status = "running"
    \/ /\ SampleInsert(k)
       /\ row.run = todo[k].start /\ row.generation = todo[k].generation
       /\ row.status = "running"

Ages(new, old) == /\ DOMAIN new = DOMAIN old
                  /\ \A i \in DOMAIN old : Aged(new[i], old[i])

RowsMove(k) ==
    /\ DOMAIN rows[k] \subseteq DOMAIN rows'[k]
    /\ \A i \in DOMAIN rows[k] : Aged(rows'[k][i], rows[k][i])
    /\ \A i \in DOMAIN rows'[k] \ DOMAIN rows[k] :
         i = Len(rows[k]) + 1 /\ Inserted(k, rows'[k][i])

LEMMA ClosesAges ==
    ASSUME NEW history \in Seq(Row), NEW closed, NEW status, Closes(history, closed, status)
    PROVE  Ages(closed, history)
<1>1. \A i \in DOMAIN history : history[i] \in Row
  OBVIOUS
<1>2. QED
  BY <1>1 DEF Closes, Ages, Aged, Row

LEMMA AgesMoves ==
    ASSUME NEW k, Ages(rows'[k], rows[k])
    PROVE  RowsMove(k)
  BY DEF Ages, RowsMove

\* What a write of `new` into task k's rows comes to.
LEMMA WriteMoves ==
    ASSUME TypeOK, NEW k \in Key, NEW new,
           Ages(new, rows[k])
           \/ \E row \in Row : new = Append(rows[k], row) /\ Inserted(k, row),
           \E landed \in Written(rows[k], new) : rows' = [rows EXCEPT ![k] = landed]
    PROVE  \A l \in Key : RowsMove(l)
<1>1. \A l \in Key : rows[l] \in Seq(Row)
  BY DEF TypeOK
<1>2. PICK landed : (landed = rows[k] \/ landed = new) /\ rows' = [rows EXCEPT ![k] = landed]
  BY DEF Written
<1>3. \A l \in Key : rows'[l] = IF l = k THEN landed ELSE rows[l]
  BY <1>2 DEF TypeOK
<1>4. \A l \in Key : Ages(rows[l], rows[l])
  BY DEF Ages, Aged
<1>5. ASSUME NEW l \in Key, l # k \/ landed = rows[k] \/ Ages(new, rows[k])
      PROVE  RowsMove(l)
  BY <1>2, <1>3, <1>4, <1>5, AgesMoves
<1>6. ASSUME landed = new, NEW row \in Row, new = Append(rows[k], row), Inserted(k, row)
      PROVE  RowsMove(k)
  <2>1. rows'[k] = Append(rows[k], row) /\ rows[k] \in Seq(Row)
    BY <1>1, <1>3, <1>6
  <2>2. /\ DOMAIN rows'[k] = DOMAIN rows[k] \cup {Len(rows[k]) + 1}
        /\ \A i \in DOMAIN rows[k] : rows'[k][i] = rows[k][i]
        /\ rows'[k][Len(rows[k]) + 1] = row
    BY <2>1, AppendRow
  <2>3. QED
    BY <1>6, <2>2 DEF RowsMove, Aged
<1>7. QED
  BY <1>2, <1>5, <1>6

LEMMA RowsMoveByStep ==
    ASSUME TypeOK, Next
    PROVE  \A k \in Key : RowsMove(k)
<1>1. \A k \in Key : /\ rows[k] \in Seq(Row) /\ task[k] \in TaskState /\ todo[k] \in Work
                     /\ Ages(rows[k], rows[k])
  BY DEF TypeOK, Ages, Aged
<1>2. CASE UNCHANGED rows
  BY <1>1, <1>2, AgesMoves
<1>3. \A k \in Key : \A generation : \A status \in RowStatuses :
         /\ Ages(FinishTaskRun(rows[k], generation, status), rows[k])
         /\ Ages(FinishRunning(rows[k], status), rows[k])
  BY <1>1, FinishTaskRunCloses, FinishRunningCloses, ClosesAges
<1>4. /\ sched.pc \in {"lock", "fail", "skip", "record", "insert"} => sched.key \in Key
      /\ sched.pc = "skip" => sched.generation \in Nat
      /\ sched.pc \in {"record", "insert"} => sched.generation \in Nat /\ sched.run \in Nat
  BY DEF TypeOK, SchedulerStates, Idle
<1>5. ASSUME NEW c \in Client, FinishStopped(c)
      PROVE  \A k \in Key : RowsMove(k)
  <2>1. \A k \in Key : \/ rows'[k] = rows[k]
                       \/ \E generation : rows'[k] = FinishTaskRun(rows[k], generation, "stopped")
    BY <1>5 DEF FinishStopped
  <2>2. QED
    BY <1>1, <1>3, <2>1, AgesMoves DEF RowStatuses
<1>6. CASE ScheduleInsert
  <2> DEFINE row == [generation |-> sched.generation, run |-> sched.run,
                     trigger |-> "cron", status |-> "running"]
  <2>1. sched.key \in Key /\ row \in Row
    BY <1>4, <1>6 DEF ScheduleInsert, Scheduler, Row, Triggers, RowStatuses
  <2>2. Inserted(sched.key, row)
    BY <1>6 DEF Inserted
  <2>3. QED
    BY <1>6, <2>1, <2>2, WriteMoves DEF ScheduleInsert, StartTaskRun
<1>7. CASE ScheduleSkip
  <2> DEFINE row == [generation |-> sched.generation, run |-> 0,
                     trigger |-> "cron", status |-> "skipped"]
  <2>1. sched.key \in Key /\ row \in Row
    BY <1>4, <1>7 DEF ScheduleSkip, Scheduler, Row, Triggers, RowStatuses
  <2>2. Inserted(sched.key, row)
    BY DEF Inserted
  <2>3. QED
    BY <1>7, <2>1, <2>2, WriteMoves DEF ScheduleSkip, RecordAttempt
<1>8. CASE ScheduleFail
  <2> DEFINE visible == lock # "poisoned" /\ sched.key \in PresentKeys
             row == [generation |-> IF visible THEN task[sched.key].generation ELSE 0,
                     run |-> 0, trigger |-> "cron", status |-> "failed"]
  <2>1. sched.key \in Key
    BY <1>4, <1>8 DEF ScheduleFail, Scheduler
  <2>2. row \in Row
    BY <1>1, <2>1 DEF Row, Triggers, RowStatuses, TaskState
  <2>3. Inserted(sched.key, row)
    BY DEF Inserted
  <2>4. QED
    BY <1>8, <2>1, <2>2, <2>3, WriteMoves DEF ScheduleFail, RecordAttempt
<1>9. ASSUME NEW k \in Key, SampleWrite(k)
      PROVE  \A l \in Key : RowsMove(l)
  <2>1. CASE SamplePrevious(k)
    BY <1>3, <2>1, WriteMoves DEF SamplePrevious, Writing, RowStatuses
  <2>2. CASE SampleCheck(k)
    BY <1>2, <2>2 DEF SampleCheck
  <2>3. CASE SampleInsert(k)
    <3> DEFINE row == [generation |-> todo[k].generation, run |-> todo[k].start,
                       trigger |-> todo[k].trigger, status |-> "running"]
    <3>1. row \in Row
      BY <1>1 DEF Work, Row, RowStatuses
    <3>2. Inserted(k, row)
      BY <2>3 DEF Inserted
    <3>3. QED
      BY <2>3, <3>1, <3>2, WriteMoves DEF SampleInsert, Writing, StartTaskRun
  <2>4. CASE SampleEnd(k)
    <3>1. todo[k].end \in RowStatuses
      BY <1>1, <2>4 DEF SampleEnd, Work, RowStatuses
    <3>2. QED
      BY <1>3, <2>4, <3>1, WriteMoves DEF SampleEnd, Writing
  <2>5. QED
    BY <1>9, <2>1, <2>2, <2>3, <2>4 DEF SampleWrite
<1>10. CASE CloseHistory \/ Load
  <2>1. \A k \in Key : \/ rows'[k] = rows[k]
                       \/ \E status \in RowStatuses : rows'[k] = FinishRunning(rows[k], status)
    BY <1>10 DEF CloseHistory, Load, Written, RowStatuses
  <2>2. QED
    BY <1>1, <1>3, <2>1, AgesMoves
<1>11. CASE Lifecycle
  BY <1>2, <1>10, <1>11 DEF Lifecycle, Shutdown, StopTasks, Exit, Crash
<1>12. ASSUME NEW c \in Client, Handler(c)
       PROVE  \A k \in Key : RowsMove(k)
  BY <1>2, <1>5, <1>12
  DEF Handler, CheckAction, ApplyToMissing, ApplyStart, ApplyStop, ApplyRestart, ApplyPause,
      ApplyResume
<1>13. CASE SchedulerStep
  BY <1>2, <1>6, <1>7, <1>8, <1>13 DEF SchedulerStep, ScheduleDue, ScheduleStart, ScheduleRecord
<1>14. CASE Collect
  BY <1>2, <1>14 DEF Collect
<1>15. ASSUME NEW k \in Key, NEW i \in 1..MaxRuns, ProcessEnds(k, i)
       PROVE  \A l \in Key : RowsMove(l)
  BY <1>2, <1>15 DEF ProcessEnds
<1>16. ASSUME NEW s \in Session, Register(s) \/ RemoveSession(s) \/ Snapshot(s)
       PROVE  \A k \in Key : RowsMove(k)
  BY <1>2, <1>16 DEF Register, RemoveSession, Snapshot
<1>17. QED
  BY <1>9, <1>11, <1>12, <1>13, <1>14, <1>15, <1>16 DEF Next

\* A row keeps its run, and its outcome once it has one, whatever the threads do.
THEOREM OutcomesAreFinal == Spec => OutcomeIsFinal
<1>1. TypeOK /\ [Next]_vars
      => [\A k \in Key :
            /\ Len(rows'[k]) >= Len(rows[k])
            /\ \A i \in DOMAIN rows[k] :
                 /\ rows'[k][i].run = rows[k][i].run
                 /\ rows[k][i].status # "running" => rows'[k][i] = rows[k][i]]_rows
  <2> SUFFICES ASSUME TypeOK, Next, NEW k \in Key
               PROVE  /\ Len(rows'[k]) >= Len(rows[k])
                      /\ \A i \in DOMAIN rows[k] :
                           /\ rows'[k][i].run = rows[k][i].run
                           /\ rows[k][i].status # "running" => rows'[k][i] = rows[k][i]
    BY DEF vars
  <2>1. RowsMove(k)
    BY RowsMoveByStep
  <2>2. rows[k] \in Seq(Row) /\ rows'[k] \in Seq(Row)
    <3>1. TypeOK'
      BY NextTypes
    <3>2. QED
      BY <3>1 DEF TypeOK
  <2>3. Len(rows'[k]) >= Len(rows[k])
    <3>1. DOMAIN rows[k] \subseteq DOMAIN rows'[k]
      BY <2>1 DEF RowsMove
    <3>2. QED
      BY <2>2, <3>1
  <2>4. QED
    BY <2>1, <2>3 DEF RowsMove, Aged
<1>2. QED
  BY <1>1, TypeCorrect, PTL DEF Spec, OutcomeIsFinal
-----------------------------------------------------------------------------
(* What a step does to the two recorders.                                                 *)

TodoMoves(k) ==
    \/ todo'[k].start = 0 /\ ~todo'[k].missing
    \/ /\ todo'[k].start = todo[k].start /\ todo'[k].generation = todo[k].generation
       /\ todo'[k].missing =>
            \/ todo[k].missing
            \/ /\ todo[k].start # 0 /\ UNCHANGED rows
               /\ ~HasTaskRun(rows[k], todo[k].generation, todo[k].start)
    \/ /\ Collect /\ ~todo'[k].missing
       /\ todo'[k].start = task'[k].run /\ todo'[k].generation = task'[k].generation

LEMMA SamplerMoves ==
    ASSUME TypeOK, NEW k \in Key, SampleWrite(k)
    PROVE  \A l \in Key : TodoMoves(l)
<1>1. todo[k] \in Work /\ todo \in [Key -> Work]
  BY DEF TypeOK
<1>2. ASSUME NEW l \in Key, l # k
      PROVE  TodoMoves(l)
  <2>1. todo'[l] = todo[l]
    BY <1>1, <1>2 DEF SampleWrite, SamplePrevious, SampleCheck, SampleInsert, SampleEnd
  <2>2. QED
    BY <2>1 DEF TodoMoves
<1>3. TodoMoves(k)
  <2>1. CASE SamplePrevious(k)
    <3>1. todo'[k] = Rest([todo[k] EXCEPT !.previous = 0])
      BY <1>1, <2>1 DEF SamplePrevious
    <3>2. QED
      BY <1>1, <3>1 DEF TodoMoves, Rest, NoWork, Work
  <2>2. CASE SampleCheck(k)
    BY <1>1, <2>2 DEF SampleCheck, TodoMoves, Rest, NoWork, Work
  <2>3. CASE SampleInsert(k)
    BY <1>1, <2>3 DEF SampleInsert, TodoMoves, Rest, NoWork, Work
  <2>4. CASE SampleEnd(k)
    BY <1>1, <2>4 DEF SampleEnd, TodoMoves, NoWork
  <2>5. QED
    BY <2>1, <2>2, <2>3, <2>4 DEF SampleWrite
<1>4. QED
  BY <1>2, <1>3

LEMMA SampleInsertDone ==
    ASSUME TypeOK, NEW k \in Key, SampleInsert(k)
    PROVE  todo[k].missing /\ ~todo'[k].missing
<1>1. todo[k] \in Work /\ todo \in [Key -> Work]
  BY DEF TypeOK
<1>2. todo'[k] = Rest([todo[k] EXCEPT !.start = 0, !.missing = FALSE])
  BY <1>1 DEF SampleInsert
<1>3. QED
  BY <1>1, <1>2 DEF SampleInsert, Rest, NoWork, Work

LEMMA TodoMovesByStep ==
    ASSUME TypeOK, Next
    PROVE  \A k \in Key : TodoMoves(k)
<1>1. todo \in [Key -> Work]
  BY DEF TypeOK
<1>2. CASE UNCHANGED todo
  BY <1>2 DEF TodoMoves
<1>3. CASE MemoryGone
  BY <1>3 DEF MemoryGone, TodoMoves, NoWork
<1>4. CASE Collect
  <2> SUFFICES ASSUME NEW k \in Key PROVE TodoMoves(k)
    OBVIOUS
  <2>1. \/ todo'[k] = NoWork
        \/ todo'[k] = Transitions(task'[k], tracked[k], TriggerFor(k))
    BY <1>4 DEF Collect
  <2>2. QED
    BY <1>4, <2>1 DEF TodoMoves, Transitions, Boundaries, NoWork
<1>5. ASSUME NEW k \in Key, SampleWrite(k)
      PROVE  \A l \in Key : TodoMoves(l)
  BY <1>5, SamplerMoves
<1>6. CASE Lifecycle
  BY <1>2, <1>3, <1>6
  DEF Lifecycle, Shutdown, StopTasks, CloseHistory, Exit, Crash, Load, memory
<1>7. ASSUME NEW c \in Client, Handler(c)
      PROVE  \A k \in Key : TodoMoves(k)
  BY <1>2, <1>7
  DEF Handler, CheckAction, ApplyToMissing, ApplyStart, ApplyStop, ApplyRestart, ApplyPause,
      ApplyResume, FinishStopped
<1>8. CASE SchedulerStep
  BY <1>2, <1>8
  DEF SchedulerStep, ScheduleDue, ScheduleStart, ScheduleRecord, ScheduleInsert, ScheduleSkip,
      ScheduleFail, UnchangedByScheduler
<1>9. ASSUME NEW k \in Key, NEW i \in 1..MaxRuns, ProcessEnds(k, i)
      PROVE  \A l \in Key : TodoMoves(l)
  BY <1>2, <1>9 DEF ProcessEnds, memory
<1>10. ASSUME NEW s \in Session, Register(s) \/ RemoveSession(s) \/ Snapshot(s)
       PROVE  \A k \in Key : TodoMoves(k)
  BY <1>2, <1>10 DEF Register, RemoveSession, Snapshot
<1>11. QED
  BY <1>4, <1>5, <1>6, <1>7, <1>8, <1>9, <1>10 DEF Next

\* The scheduler goes on recording the run it holds the lock for, or starts to.
Recording == sched.pc \in {"record", "insert"}

SchedMoves ==
    \/ sched'.pc \notin {"record", "insert"}
    \/ /\ ScheduleStart
       /\ sched'.pc = "record" /\ sched'.key \in Key /\ lock' = "scheduler"
       /\ sched'.run = Len(proc[sched'.key]) + 1
       /\ sched'.run = Len(proc'[sched'.key])
       /\ sched'.generation = proc'[sched'.key][sched'.run].generation
    \/ /\ Recording /\ lock' = lock /\ origin' = origin /\ SameLengths(proc') /\ ~Collect
       /\ sched'.key = sched.key /\ sched'.run = sched.run
       /\ sched'.generation = sched.generation
       /\ \/ sched'.pc = sched.pc /\ ~ScheduleInsert
          \/ UNCHANGED rows /\ ~HasTaskRun(rows[sched.key], sched.generation, sched.run)

LEMMA ScheduleStartMoves ==
    ASSUME TypeOK, ScheduleStart
    PROVE  SchedMoves
<1> DEFINE k == sched.key
           polled == Polled({k})
<1>1. k \in Key
  BY DEF ScheduleStart, Scheduler, TypeOK, SchedulerStates, Idle
<1>2. polled \in Tasks
  BY PolledType
<1>3. proc[k] \in Seq(Process) /\ Len(proc[k]) \in Nat
  BY <1>1 DEF TypeOK
<1>4. \/ sched'.pc \notin {"record", "insert"}
      \/ /\ sched' = [pc |-> "record", key |-> k, generation |-> polled[k].generation + 1,
                      run |-> Len(proc[k]) + 1]
         /\ lock' = "scheduler"
         /\ proc' = Spawned({k}, polled, proc, "cron")
  <2>1. CASE k \notin PresentKeys \/ Active(polled[k])
    BY <2>1 DEF ScheduleStart
  <2>2. CASE k \in PresentKeys /\ ~Active(polled[k])
    <3>1. PICK up : /\ proc' = Spawned(up, polled, proc, "cron")
                    /\ IF up = {k}
                       THEN /\ sched' = [pc |-> "record", key |-> k,
                                         generation |-> polled[k].generation + 1,
                                         run |-> Len(proc[k]) + 1]
                            /\ lock' = LockWhileRecording
                       ELSE sched' = [pc |-> "fail", key |-> k]
      BY <2>2 DEF ScheduleStart
    <3>2. CASE up = {k}
      BY <3>1, <3>2 DEF LockWhileRecording
    <3>3. CASE up # {k}
      <4>1. sched' = [pc |-> "fail", key |-> k]
        BY <3>1, <3>3
      <4>2. QED
        BY <4>1
    <3>4. QED
      BY <3>2, <3>3
  <2>3. QED
    BY <2>1, <2>2
<1> HIDE DEF k, polled
<1>5. ASSUME sched' = [pc |-> "record", key |-> k, generation |-> polled[k].generation + 1,
                       run |-> Len(proc[k]) + 1],
             lock' = "scheduler",
             proc' = Spawned({k}, polled, proc, "cron")
      PROVE  SchedMoves
  <2>1. proc'[k] = Append(proc[k], [generation |-> polled[k].generation + 1, cause |-> "cron",
                                    fate |-> "live"])
    BY <1>1, <1>5 DEF Spawned
  <2>2. /\ Len(proc'[k]) = Len(proc[k]) + 1
        /\ proc'[k][Len(proc[k]) + 1].generation = polled[k].generation + 1
    BY <1>3, <2>1
  <2>3. QED
    BY <1>1, <1>5, <2>2 DEF SchedMoves
<1>6. QED
  BY <1>4, <1>5 DEF SchedMoves

LEMMA SchedMovesByStep ==
    ASSUME TypeOK, ThreadsGone, SchedulerIsAlone, Next
    PROVE  SchedMoves
<1>1. SameLengths(proc)
  BY DEF SameLengths
<1>2. CASE ~Recording /\ UNCHANGED sched
  BY <1>2 DEF SchedMoves, Recording
<1>3. CASE sched' = Idle
  BY <1>3 DEF SchedMoves, Idle
<1>4. CASE /\ Recording /\ UNCHANGED <<sched, lock, origin, proc>> /\ ~Collect /\ ~ScheduleInsert
  BY <1>1, <1>4 DEF SchedMoves, SameLengths
<1>5. Recording => lock # "free"
  BY DEF Recording, SchedulerIsAlone
<1>6. UNCHANGED sched /\ Recording => ~Collect /\ ~ScheduleInsert
  BY <1>5 DEF Collect, ScheduleInsert, Scheduler, Idle, Recording
<1>7. ASSUME NEW s \in Session, Register(s) \/ RemoveSession(s) \/ Snapshot(s)
      PROVE  SchedMoves
  <2>1. ~Recording /\ UNCHANGED sched
    BY <1>5, <1>7 DEF Register, RemoveSession, Snapshot
  <2>2. QED
    BY <1>2, <2>1
<1>8. ASSUME NEW c \in Client, Handler(c)
      PROVE  SchedMoves
  <2>1. UNCHANGED sched /\ (lock = "free" \/ UNCHANGED <<lock, origin, proc>>)
    BY <1>8
    DEF Handler, CheckAction, ApplyToMissing, ApplyStart, ApplyStop, ApplyRestart, ApplyPause,
        ApplyResume, FinishStopped, Applying
  <2>2. QED
    BY <1>2, <1>4, <1>5, <1>6, <2>1
<1>9. CASE SchedulerStep
  <2>1. CASE \E k \in Key : ScheduleDue(k)
    BY <2>1 DEF ScheduleDue, SchedMoves
  <2>2. CASE ScheduleStart
    BY <2>2, ScheduleStartMoves
  <2>3. CASE ScheduleRecord
    <3>1. CASE HasTaskRun(rows[sched.key], sched.generation, sched.run)
      BY <1>3, <2>3, <3>1 DEF ScheduleRecord
    <3>2. CASE ~HasTaskRun(rows[sched.key], sched.generation, sched.run)
      <4>1. sched \in [pc : {"record", "insert"}, key : Key, generation : Nat, run : Nat]
        BY <2>3 DEF ScheduleRecord, Scheduler, TypeOK, SchedulerStates, Idle
      <4>2. Recording
        BY <2>3 DEF ScheduleRecord, Scheduler, Recording
      <4>3. sched' = [sched EXCEPT !.pc = "insert"] /\ UNCHANGED <<lock, rows, origin, proc>>
        BY <2>3, <3>2 DEF ScheduleRecord, UnchangedByScheduler
      <4>4. ~Collect
        BY <1>5, <4>2 DEF Collect
      <4>5. QED
        BY <1>1, <3>2, <4>1, <4>2, <4>3, <4>4 DEF SchedMoves, SameLengths
    <3>3. QED
      BY <3>1, <3>2
  <2>4. CASE ScheduleInsert \/ ScheduleSkip \/ ScheduleFail
    BY <1>3, <2>4 DEF ScheduleInsert, ScheduleSkip, ScheduleFail
  <2>5. QED
    BY <1>9, <2>1, <2>2, <2>3, <2>4 DEF SchedulerStep
<1>10. CASE Collect
  <2>1. ~Recording /\ UNCHANGED sched
    BY <1>5, <1>10 DEF Collect
  <2>2. QED
    BY <1>2, <2>1
<1>11. ASSUME NEW k \in Key, SampleWrite(k)
       PROVE  SchedMoves
  <2>1. UNCHANGED <<sched, lock, origin, proc>>
    BY <1>11 DEF SampleWrite, SamplePrevious, SampleCheck, SampleInsert, SampleEnd,
                 UnchangedBySampler
  <2>2. QED
    BY <1>2, <1>4, <1>6, <2>1
<1>12. ASSUME NEW k \in Key, NEW i \in 1..MaxRuns, ProcessEnds(k, i)
       PROVE  SchedMoves
  <2>1. UNCHANGED <<sched, lock, origin>> /\ SameLengths(proc')
    BY <1>12, ProcessEndsKeeps DEF ProcessEnds, memory
  <2>2. QED
    BY <1>2, <1>6, <2>1 DEF SchedMoves, Recording
<1>13. CASE Lifecycle
  <2>1. CASE Shutdown \/ CloseHistory
    <3>1. UNCHANGED <<sched, lock, origin, proc>>
      BY <2>1 DEF Shutdown, CloseHistory, memory
    <3>2. QED
      BY <1>2, <1>4, <1>6, <3>1
  <2>2. CASE StopTasks
    <3>1. ~Recording /\ UNCHANGED sched
      BY <1>5, <2>2 DEF StopTasks
    <3>2. QED
      BY <1>2, <3>1
  <2>3. CASE Exit \/ Crash
    BY <1>3, <2>3 DEF Exit, Crash, MemoryGone
  <2>4. CASE Load
    BY <1>3, <2>4 DEF Load, ThreadsGone, ThreadsJoined, Serving
  <2>5. QED
    BY <1>13, <2>1, <2>2, <2>3, <2>4 DEF Lifecycle
<1>14. QED
  BY <1>7, <1>8, <1>9, <1>10, <1>11, <1>12, <1>13 DEF Next
-----------------------------------------------------------------------------
(* The recording invariant. *)

LEMMA OriginMoves ==
    ASSUME TypeOK, Next
    PROVE  \/ origin' = origin
           \/ Load /\ \A k \in Key : origin'[k] = Len(proc[k])
<1>1. CASE Load
  BY <1>1 DEF Load
<1>2. CASE Lifecycle /\ ~Load
  BY <1>2 DEF Lifecycle, Shutdown, StopTasks, CloseHistory, Exit, Crash
<1>3. ASSUME NEW c \in Client, Handler(c)
      PROVE  origin' = origin
  BY <1>3
  DEF Handler, CheckAction, ApplyToMissing, ApplyStart, ApplyStop, ApplyRestart, ApplyPause,
      ApplyResume, FinishStopped
<1>4. SchedulerStep => origin' = origin
  BY DEF SchedulerStep, ScheduleDue, ScheduleStart, ScheduleRecord, ScheduleInsert, ScheduleSkip,
         ScheduleFail, UnchangedByScheduler
<1>5. Collect => origin' = origin
  BY DEF Collect
<1>6. (\E k \in Key : SampleWrite(k)) => origin' = origin
  BY DEF SampleWrite, SamplePrevious, SampleCheck, SampleInsert, SampleEnd, UnchangedBySampler
<1>7. (\E k \in Key, i \in 1..MaxRuns : ProcessEnds(k, i)) => origin' = origin
  BY DEF ProcessEnds
<1>8. (\E s \in Session : Register(s) \/ RemoveSession(s) \/ Snapshot(s)) => origin' = origin
  BY DEF Register, RemoveSession, Snapshot
<1>9. QED
  BY <1>1, <1>2, <1>3, <1>4, <1>5, <1>6, <1>7, <1>8 DEF Next

LEMMA ThreadsGoneStep ==
    ASSUME TypeOK, ThreadsGone, Next
    PROVE  ThreadsGone'
<1> USE DEF Serving, Alive
<1>1. CASE UNCHANGED <<phase, sched, todo>> /\ phase \notin {"down", "exited"}
  BY <1>1 DEF ThreadsGone, ThreadsJoined
<1>2. CASE phase' \in Serving
  BY <1>2 DEF ThreadsGone
<1>3. CASE MemoryGone
  BY <1>3 DEF MemoryGone, ThreadsGone, ThreadsJoined, Nothing, NoWork
<1>4. ASSUME NEW s \in Session, Register(s) \/ RemoveSession(s) \/ Snapshot(s)
      PROVE  ThreadsGone'
  BY <1>2, <1>4 DEF Register, RemoveSession, Snapshot
<1>5. ASSUME NEW c \in Client, Handler(c)
      PROVE  ThreadsGone'
  BY <1>1, <1>5
  DEF Handler, CheckAction, ApplyToMissing, ApplyStart, ApplyStop, ApplyRestart, ApplyPause,
      ApplyResume, FinishStopped, Applying
<1>6. CASE SchedulerStep
  <2>1. phase' = phase
    BY <1>6 DEF SchedulerStep, ScheduleDue, ScheduleStart, ScheduleRecord, ScheduleInsert,
                ScheduleSkip, ScheduleFail, UnchangedByScheduler
  <2>2. phase \in Serving
    BY <1>6 DEF SchedulerStep, ScheduleDue, ScheduleStart, ScheduleRecord, ScheduleInsert,
                ScheduleSkip, ScheduleFail, Scheduler, ThreadsGone, ThreadsJoined, Idle
  <2>3. QED
    BY <1>2, <2>1, <2>2
<1>7. CASE Collect
  BY <1>2, <1>7 DEF Collect
<1>8. ASSUME NEW k \in Key, SampleWrite(k)
      PROVE  ThreadsGone'
  BY <1>2, <1>8
  DEF SampleWrite, SamplePrevious, SampleCheck, SampleInsert, SampleEnd, Writing,
      UnchangedBySampler
<1>9. ASSUME NEW k \in Key, NEW i \in 1..MaxRuns, ProcessEnds(k, i)
      PROVE  ThreadsGone'
  BY <1>9 DEF ProcessEnds, memory, ThreadsGone, ThreadsJoined
<1>10. CASE Lifecycle
  <2>1. CASE Shutdown \/ Load
    BY <1>2, <2>1 DEF Shutdown, Load
  <2>2. CASE StopTasks
    BY <2>2 DEF StopTasks, ThreadsGone, ThreadsJoined
  <2>3. CASE CloseHistory
    BY <2>3 DEF CloseHistory, memory, ThreadsGone, ThreadsJoined
  <2>4. CASE Exit \/ Crash
    BY <1>3, <2>4 DEF Exit, Crash
  <2>5. QED
    BY <1>10, <2>1, <2>2, <2>3, <2>4 DEF Lifecycle
<1>11. QED
  BY <1>4, <1>5, <1>6, <1>7, <1>8, <1>9, <1>10 DEF Next

LEMMA RunsAreProcessesStep ==
    ASSUME TypeOK, RecordingInv, Next
    PROVE  RunsAreProcesses'
<1>1. Extends(proc', proc) /\ TaskMoves(task', proc')
  BY TasksAndProcs
<1>2. TypeOK'
  BY NextTypes
<1>3. SUFFICES ASSUME NEW k \in Key
               PROVE  /\ origin'[k] <= Len(proc'[k])
                      /\ OfProcess(k, task[k].run, task[k].generation)'
                      /\ task'[k].run # 0 => task'[k].run > origin'[k]
                      /\ OfProcess(k, todo[k].start, todo[k].generation)'
                      /\ todo'[k].start # 0 => todo'[k].start > origin'[k]
                      /\ \A i \in DOMAIN rows'[k] :
                            OfProcess(k, rows[k][i].run, rows[k][i].generation)'
  BY DEF RunsAreProcesses
<1>4. /\ proc[k] \in Seq(Process) /\ proc'[k] \in Seq(Process)
      /\ rows[k] \in Seq(Row) /\ rows'[k] \in Seq(Row)
      /\ task[k] \in TaskState /\ task'[k] \in TaskState
      /\ todo[k] \in Work /\ todo'[k] \in Work
      /\ origin[k] \in Nat /\ origin'[k] \in Nat
  BY <1>2 DEF TypeOK
<1>5. /\ Len(proc[k]) \in Nat /\ Len(proc'[k]) \in Nat
      /\ task[k].run \in Nat /\ task'[k].run \in Nat
      /\ todo[k].start \in Nat /\ todo'[k].start \in Nat
      /\ \A i \in DOMAIN rows[k] : rows[k][i].run \in Nat
  <2>1. \A i \in DOMAIN rows[k] : rows[k][i] \in Row
    BY <1>4
  <2>2. \A i \in DOMAIN rows[k] : rows[k][i].run \in Nat
    BY <2>1 DEF Row
  <2>3. Len(proc[k]) \in Nat /\ Len(proc'[k]) \in Nat
    BY <1>4
  <2>4. task[k].run \in Nat /\ task'[k].run \in Nat
    BY <1>4 DEF TaskState
  <2>5. todo[k].start \in Nat /\ todo'[k].start \in Nat
    BY <1>4 DEF Work
  <2>6. QED
    BY <2>2, <2>3, <2>4, <2>5
<1>6. Len(proc[k]) <= Len(proc'[k])
  BY <1>1 DEF Extends
<1>7. /\ origin[k] <= Len(proc[k])
      /\ OfProcess(k, task[k].run, task[k].generation)
      /\ task[k].run # 0 => task[k].run > origin[k]
      /\ OfProcess(k, todo[k].start, todo[k].generation)
      /\ todo[k].start # 0 => todo[k].start > origin[k]
      /\ \A i \in DOMAIN rows[k] : OfProcess(k, rows[k][i].run, rows[k][i].generation)
  BY DEF RecordingInv, RunsAreProcesses
<1>8. /\ origin'[k] = origin[k] \/ (Load /\ origin'[k] = Len(proc[k]))
      /\ Load => task[k].run = 0 /\ todo[k].start = 0 /\ UNCHANGED todo
  <2>1. origin'[k] = origin[k] \/ (Load /\ origin'[k] = Len(proc[k]))
    BY OriginMoves
  <2>2. ASSUME Load
        PROVE  task[k].run = 0 /\ todo[k].start = 0 /\ UNCHANGED todo
    <3>1. phase \in {"down", "exited"} /\ UNCHANGED todo
      BY <2>2 DEF Load
    <3>2. task[k] = NewTask /\ Nothing(todo[k])
      BY <3>1 DEF RecordingInv, ThreadsGone, ThreadsJoined, Serving
    <3>3. QED
      BY <3>1, <3>2 DEF Nothing, NewTask
  <2>3. QED
    BY <2>1, <2>2
<1>9. origin'[k] <= Len(proc'[k])
  BY <1>4, <1>5, <1>6, <1>7, <1>8
<1>10. OfProcess(k, task[k].run, task[k].generation)'
  <2>1. CASE SameRun(task'[k], task[k])
    <3>1. task[k].run # 0 => /\ task[k].run <= Len(proc'[k])
                             /\ task[k].generation = proc'[k][task[k].run].generation
      BY <1>1, <1>5, <1>6, <1>7 DEF OfProcess, Extends
    <3>2. QED
      BY <2>1, <3>1 DEF OfProcess, SameRun
  <2>2. CASE task'[k].run = 0
    BY <2>2 DEF OfProcess
  <2>3. CASE JustSpawned(task'[k], proc[k], proc'[k])
    BY <1>5, <2>3 DEF JustSpawned, OfProcess
  <2>4. QED
    BY <1>1, <2>1, <2>2, <2>3 DEF TaskMoves
<1>11. task'[k].run # 0 => task'[k].run > origin'[k]
  BY <1>1, <1>4, <1>5, <1>7, <1>8 DEF TaskMoves, SameRun, JustSpawned
<1>12. OfProcess(k, todo[k].start, todo[k].generation)'
       /\ (todo'[k].start # 0 => todo'[k].start > origin'[k])
  <2>1. CASE todo'[k].start = 0
    BY <2>1 DEF OfProcess
  <2>2. CASE todo'[k].start = todo[k].start /\ todo'[k].generation = todo[k].generation
    <3>1. todo[k].start # 0 => todo[k].start <= Len(proc'[k])
                               /\ todo[k].generation = proc'[k][todo[k].start].generation
      BY <1>1, <1>5, <1>6, <1>7 DEF OfProcess, Extends
    <3>2. QED
      BY <1>7, <1>8, <2>2, <3>1 DEF OfProcess
  <2>3. CASE todo'[k].start = task'[k].run /\ todo'[k].generation = task'[k].generation
    BY <1>10, <1>11, <2>3 DEF OfProcess
  <2>4. QED
    BY <2>1, <2>2, <2>3, TodoMovesByStep DEF TodoMoves
<1>13. ASSUME NEW i \in DOMAIN rows'[k]
       PROVE  OfProcess(k, rows[k][i].run, rows[k][i].generation)'
  <2>1. RowsMove(k)
    BY RowsMoveByStep
  <2>2. CASE i \in DOMAIN rows[k]
    <3>1. rows[k][i].run # 0 => rows[k][i].run <= Len(proc'[k])
                                /\ rows[k][i].generation = proc'[k][rows[k][i].run].generation
      BY <1>1, <1>5, <1>6, <1>7, <2>2 DEF OfProcess, Extends
    <3>2. QED
      BY <2>1, <2>2, <3>1 DEF RowsMove, Aged, OfProcess
  <2>3. CASE i \notin DOMAIN rows[k]
    <3>1. Inserted(k, rows'[k][i])
      BY <2>1, <2>3 DEF RowsMove
    <3>2. CASE rows'[k][i].run = 0
      BY <3>2 DEF OfProcess
    <3>3. CASE /\ ScheduleInsert /\ k = sched.key
               /\ rows'[k][i].run = sched.run /\ rows'[k][i].generation = sched.generation
      <4>1. /\ sched.run = Len(proc[k]) /\ sched.run > origin[k]
            /\ sched.generation = proc[k][sched.run].generation
        BY <3>3 DEF ScheduleInsert, Scheduler, RecordingInv, SchedulerIsAlone
      <4>2. sched.run \in 1..Len(proc[k])
        BY <1>4, <1>5, <4>1
      <4>3. sched.generation = proc'[k][sched.run].generation
        BY <1>1, <4>1, <4>2 DEF Extends
      <4>4. QED
        BY <1>5, <1>6, <3>3, <4>2, <4>3 DEF OfProcess
    <3>4. CASE /\ rows'[k][i].run = todo[k].start
               /\ rows'[k][i].generation = todo[k].generation
      <4>1. todo[k].start # 0 => todo[k].start <= Len(proc'[k])
                                 /\ todo[k].generation = proc'[k][todo[k].start].generation
        BY <1>1, <1>5, <1>6, <1>7 DEF OfProcess, Extends
      <4>2. QED
        BY <3>4, <4>1 DEF OfProcess
    <3>5. QED
      BY <3>1, <3>2, <3>3, <3>4 DEF Inserted
  <2>4. QED
    BY <2>2, <2>3
<1>14. QED
  BY <1>9, <1>10, <1>11, <1>12, <1>13

\* A run is on record after the step that it was not on record before only if a recorder
\* inserted its row.
LEMMA RecordedBy ==
    ASSUME TypeOK, Next, NEW k \in Key, NEW r, r # 0, ~Recorded(k, r), Recorded(k, r)'
    PROVE  \/ ScheduleInsert /\ k = sched.key /\ r = sched.run
           \/ SampleInsert(k) /\ r = todo[k].start
<1>1. RowsMove(k)
  BY RowsMoveByStep
<1>2. PICK i \in DOMAIN rows'[k] : rows'[k][i].run = r
  BY DEF Recorded
<1>3. i \notin DOMAIN rows[k]
  BY <1>1, <1>2 DEF RowsMove, Aged, Recorded
<1>4. QED
  BY <1>1, <1>2, <1>3 DEF RowsMove, Inserted

\* has_task_run looks for the generation too, which tells the same: a run has one.
LEMMA NotRecorded ==
    ASSUME TypeOK, RunsAreProcesses, NEW k \in Key, NEW r \in 1..Len(proc[k]),
           ~HasTaskRun(rows[k], proc[k][r].generation, r)
    PROVE  ~Recorded(k, r)
  BY DEF RunsAreProcesses, OfProcess, HasTaskRun, Recorded

LEMMA SchedulerIsAloneStep ==
    ASSUME TypeOK, RecordingInv, Next
    PROVE  SchedulerIsAlone'
<1> DEFINE k == sched'.key
<1>1. TypeOK'
  BY NextTypes
<1>2. Extends(proc', proc)
  BY TasksAndProcs
<1>3. SUFFICES ASSUME sched'.pc \in {"record", "insert"}
               PROVE  /\ lock' = "scheduler"
                      /\ sched'.run = Len(proc'[k])
                      /\ sched'.generation = proc'[k][sched'.run].generation
                      /\ sched'.run > origin'[k]
                      /\ todo'[k].start # sched'.run
  BY DEF SchedulerIsAlone
<1>4. k \in Key
  BY <1>1, <1>3 DEF TypeOK, SchedulerStates, Idle
<1>5. /\ proc[k] \in Seq(Process) /\ todo[k] \in Work /\ origin[k] \in Nat
  BY <1>4 DEF TypeOK
<1>6. Len(proc[k]) \in Nat /\ todo[k].start \in Nat
  BY <1>5 DEF Work
<1>7. SchedMoves
  BY SchedMovesByStep DEF RecordingInv
<1>8. CASE ScheduleStart /\ ~Recording
  <2>1. /\ lock' = "scheduler"
        /\ sched'.run = Len(proc[k]) + 1
        /\ sched'.run = Len(proc'[k])
        /\ sched'.generation = proc'[k][sched'.run].generation
    BY <1>3, <1>7, <1>8 DEF SchedMoves
  <2>2. UNCHANGED <<todo, origin>>
    BY <1>8 DEF ScheduleStart, UnchangedByScheduler
  <2>3. origin[k] <= Len(proc[k]) /\ todo[k].start <= Len(proc[k])
    BY <1>4, <1>6 DEF RecordingInv, RunsAreProcesses, OfProcess
  <2> HIDE DEF k
  <2>4. QED
    BY <1>5, <1>6, <2>1, <2>2, <2>3
<1>9. CASE /\ Recording /\ lock' = lock /\ origin' = origin /\ SameLengths(proc') /\ ~Collect
           /\ k = sched.key /\ sched'.run = sched.run /\ sched'.generation = sched.generation
  <2>1. /\ lock = "scheduler"
        /\ sched.run = Len(proc[k])
        /\ sched.generation = proc[k][sched.run].generation
        /\ sched.run > origin[k]
        /\ todo[k].start # sched.run
    BY <1>9 DEF RecordingInv, SchedulerIsAlone, Recording
  <2>2. Len(proc'[k]) = Len(proc[k])
    BY <1>4, <1>9 DEF SameLengths
  <2>3. sched.run \in 1..Len(proc[k])
    BY <1>5, <1>6, <2>1
  <2>4. sched.generation = proc'[k][sched.run].generation
    BY <1>2, <1>4, <2>1, <2>3 DEF Extends
  <2>5. todo'[k].start \in {0, todo[k].start}
    BY <1>4, <1>9, TodoMovesByStep DEF TodoMoves
  <2> HIDE DEF k
  <2>6. QED
    BY <1>9, <2>1, <2>2, <2>3, <2>4, <2>5
<1>10. QED
  BY <1>3, <1>7, <1>8, <1>9 DEF SchedMoves, ScheduleStart, Scheduler, Recording

LEMMA MissingIsMissingStep ==
    ASSUME TypeOK, RecordingInv, Next
    PROVE  MissingIsMissing'
<1>1. TypeOK'
  BY NextTypes
<1>2. ASSUME sched'.pc = "insert"
      PROVE  (~Recorded(sched.key, sched.run))'
  <2>1. sched'.key \in Key
    BY <1>1, <1>2 DEF TypeOK, SchedulerStates, Idle
  <2>2. /\ Recording /\ sched'.key = sched.key /\ sched'.run = sched.run
        /\ \/ sched.pc = "insert" /\ ~ScheduleInsert
           \/ UNCHANGED rows /\ ~HasTaskRun(rows[sched.key], sched.generation, sched.run)
    BY <1>2, SchedMovesByStep DEF RecordingInv, SchedMoves
  <2> DEFINE k == sched.key
  <2>3. /\ proc[k] \in Seq(Process) /\ origin[k] \in Nat
    BY <2>1, <2>2 DEF TypeOK
  <2>4. /\ sched.run = Len(proc[k]) /\ sched.run > origin[k]
        /\ sched.generation = proc[k][sched.run].generation /\ todo[k].start # sched.run
    BY <2>2 DEF RecordingInv, SchedulerIsAlone, Recording
  <2>5. sched.run \in 1..Len(proc[k])
    BY <2>3, <2>4
  <2>6. CASE UNCHANGED rows /\ ~HasTaskRun(rows[k], sched.generation, sched.run)
    <3>1. ~Recorded(k, sched.run)
      BY <2>1, <2>2, <2>4, <2>5, <2>6, NotRecorded DEF RecordingInv
    <3>2. QED
      BY <2>2, <2>6, <3>1 DEF Recorded
  <2> HIDE DEF k
  <2>7. CASE sched.pc = "insert" /\ ~ScheduleInsert
    <3>1. ~Recorded(k, sched.run)
      BY <2>7 DEF RecordingInv, MissingIsMissing, k
    <3>2. ASSUME NEW l \in Key, NEW r, l = k, r = sched.run
          PROVE  ~Recorded(l, r)'
      BY <2>4, <2>5, <2>7, <3>1, <3>2, RecordedBy
    <3>3. QED
      BY <2>1, <2>2, <3>2 DEF Recorded, k
  <2>8. QED
    BY <2>2, <2>6, <2>7 DEF k
<1>3. ASSUME NEW k \in Key, todo'[k].missing
      PROVE  todo'[k].start # 0 /\ ~Recorded(k, todo[k].start)'
  <2>1. /\ todo'[k].start = todo[k].start
        /\ \/ todo[k].missing
           \/ /\ todo[k].start # 0 /\ UNCHANGED rows
              /\ ~HasTaskRun(rows[k], todo[k].generation, todo[k].start)
    BY <1>3, TodoMovesByStep DEF TodoMoves
  <2>2. CASE todo[k].missing
    <3>1. todo[k].start # 0 /\ ~Recorded(k, todo[k].start)
      BY <2>2 DEF RecordingInv, MissingIsMissing
    <3>2. ~SampleInsert(k)
      BY <1>3, SampleInsertDone
    <3>3. ~(ScheduleInsert /\ k = sched.key /\ todo[k].start = sched.run)
      BY DEF ScheduleInsert, Scheduler, RecordingInv, SchedulerIsAlone
    <3>4. ASSUME NEW r, r = todo[k].start
          PROVE  ~Recorded(k, r)'
      BY <3>1, <3>2, <3>3, <3>4, RecordedBy
    <3>5. QED
      BY <2>1, <3>1, <3>4 DEF Recorded
  <2>3. CASE /\ todo[k].start # 0 /\ UNCHANGED rows
             /\ ~HasTaskRun(rows[k], todo[k].generation, todo[k].start)
    <3>1. /\ proc[k] \in Seq(Process) /\ todo[k] \in Work
      BY DEF TypeOK
    <3>2. todo[k].start \in Nat /\ Len(proc[k]) \in Nat
      BY <3>1 DEF Work
    <3>3. /\ todo[k].start \in 1..Len(proc[k])
          /\ todo[k].generation = proc[k][todo[k].start].generation
      BY <2>3, <3>2 DEF RecordingInv, RunsAreProcesses, OfProcess
    <3>4. ~Recorded(k, todo[k].start)
      BY <2>3, <3>3, NotRecorded DEF RecordingInv
    <3>5. QED
      BY <2>1, <2>3, <3>4 DEF Recorded
  <2>4. QED
    BY <2>1, <2>2, <2>3
<1>4. QED
  BY <1>2, <1>3 DEF MissingIsMissing, Recorded

LEMMA OneRowPerRunStep ==
    ASSUME TypeOK, RecordingInv, Next
    PROVE  OneRowPerRun'
<1> SUFFICES ASSUME NEW k \in Key, NEW i \in DOMAIN rows'[k], NEW j \in DOMAIN rows'[k],
                    rows'[k][i].run = rows'[k][j].run, rows'[k][i].run # 0
             PROVE  i = j
  BY DEF OneRowPerRun
<1>1. RowsMove(k)
  BY RowsMoveByStep
<1>2. CASE i \in DOMAIN rows[k] /\ j \in DOMAIN rows[k]
  BY <1>1, <1>2 DEF RowsMove, Aged, RecordingInv, OneRowPerRun
<1>3. ASSUME NEW new \in DOMAIN rows'[k], new \notin DOMAIN rows[k], rows'[k][new].run # 0
      PROVE  ~Recorded(k, rows'[k][new].run)
  <2>1. Inserted(k, rows'[k][new])
    BY <1>1, <1>3 DEF RowsMove
  <2>2. CASE ScheduleInsert /\ k = sched.key /\ rows'[k][new].run = sched.run
    BY <2>2 DEF ScheduleInsert, Scheduler, RecordingInv, MissingIsMissing
  <2>3. CASE SampleInsert(k) /\ rows'[k][new].run = todo[k].start
    BY <2>3, SampleInsertDone DEF RecordingInv, MissingIsMissing
  <2>4. QED
    BY <1>3, <2>1, <2>2, <2>3 DEF Inserted
<1>4. CASE i \notin DOMAIN rows[k] /\ j \notin DOMAIN rows[k]
  BY <1>1, <1>4 DEF RowsMove
<1>5. CASE i \notin DOMAIN rows[k] /\ j \in DOMAIN rows[k]
  BY <1>1, <1>3, <1>5 DEF RowsMove, Aged, Recorded
<1>6. CASE i \in DOMAIN rows[k] /\ j \notin DOMAIN rows[k]
  BY <1>1, <1>3, <1>6 DEF RowsMove, Aged, Recorded
<1>7. QED
  BY <1>2, <1>4, <1>5, <1>6

LEMMA RecordingStep ==
    ASSUME TypeOK, RecordingInv, [Next]_vars
    PROVE  RecordingInv'
<1>1. CASE Next
  BY <1>1, ThreadsGoneStep, RunsAreProcessesStep, SchedulerIsAloneStep, MissingIsMissingStep,
     OneRowPerRunStep DEF RecordingInv
<1>2. CASE UNCHANGED vars
  BY <1>2
  DEF vars, memory, bounds, RecordingInv, ThreadsGone, ThreadsJoined, RunsAreProcesses, OfProcess,
      SchedulerIsAlone, MissingIsMissing, Recorded, OneRowPerRun
<1>3. QED
  BY <1>1, <1>2

LEMMA RecordingInit == Init => RecordingInv
<1> SUFFICES ASSUME Init PROVE RecordingInv
  OBVIOUS
<1>1. ThreadsGone
  BY DEF Init, ThreadsGone, ThreadsJoined, Nothing, NoWork
<1>2. RunsAreProcesses
  BY DEF Init, RunsAreProcesses, OfProcess, NewTask, NoWork
<1>3. SchedulerIsAlone /\ MissingIsMissing /\ OneRowPerRun
  BY DEF Init, Idle, NoWork, SchedulerIsAlone, MissingIsMissing, OneRowPerRun
<1>4. QED
  BY <1>1, <1>2, <1>3 DEF RecordingInv

LEMMA RecordingAlways == Spec => [](TypeOK /\ RecordingInv)
<1>1. Init => TypeOK /\ RecordingInv
  BY InitTypes, RecordingInit
<1>2. TypeOK /\ RecordingInv /\ [Next]_vars => (TypeOK /\ RecordingInv)'
  BY NextTypes, RecordingStep
<1>3. QED
  BY <1>1, <1>2, PTL DEF Spec

\* Whatever the scheduler, the sampler and the requests do, a process never gets two rows.
THEOREM OneRow == Spec => []OneRowPerRun
<1>1. RecordingInv => OneRowPerRun
  BY DEF RecordingInv
<1>2. QED
  BY <1>1, RecordingAlways, PTL
-----------------------------------------------------------------------------
(* What a restart and a shutdown leave behind.                                            *)

LEMMA NothingRunning ==
    ASSUME NEW history \in Seq(Row)
    PROVE  /\ \A i \in DOMAIN FinishRunning(history, "failed") :
                FinishRunning(history, "failed")[i].status # "running"
           /\ \A i \in DOMAIN FinishRunning(history, "stopped") :
                FinishRunning(history, "stopped")[i].status # "running"
<1>1. \A i \in DOMAIN history : history[i] \in Row
  OBVIOUS
<1>2. QED
  BY <1>1 DEF FinishRunning, Row

\* No run of an earlier daemon is on record as running.
THEOREM RunningRowsAreOurs == Spec => []RunningRowsBelongToThisDaemon
<1>1. Init => RunningRowsBelongToThisDaemon
  BY DEF Init, RunningRowsBelongToThisDaemon
<1>2. ASSUME TypeOK, RecordingInv, RunningRowsBelongToThisDaemon, [Next]_vars
      PROVE  RunningRowsBelongToThisDaemon'
  <2>1. CASE UNCHANGED vars
    BY <1>2, <2>1 DEF vars, RunningRowsBelongToThisDaemon
  <2>2. CASE Next
    <3> SUFFICES ASSUME NEW k \in Key, NEW i \in DOMAIN rows'[k], rows'[k][i].status = "running"
                 PROVE  rows'[k][i].run > origin'[k]
      BY DEF RunningRowsBelongToThisDaemon
    <3>1. RowsMove(k)
      BY <1>2, <2>2, RowsMoveByStep
    <3>2. CASE Load
      <4>1. rows'[k] = FinishRunning(rows[k], "failed") /\ rows[k] \in Seq(Row)
        BY <1>2, <3>2 DEF Load, TypeOK
      <4>2. QED
        BY <4>1, NothingRunning
    <3>3. CASE origin' = origin
      <4>1. CASE i \in DOMAIN rows[k]
        BY <1>2, <3>1, <3>3, <4>1 DEF RowsMove, Aged, RunningRowsBelongToThisDaemon
      <4>2. CASE i \notin DOMAIN rows[k]
        <5>1. Inserted(k, rows'[k][i])
          BY <3>1, <4>2 DEF RowsMove
        <5>2. CASE ScheduleInsert /\ k = sched.key /\ rows'[k][i].run = sched.run
          BY <1>2, <3>3, <5>2 DEF ScheduleInsert, Scheduler, RecordingInv, SchedulerIsAlone
        <5>3. CASE SampleInsert(k) /\ rows'[k][i].run = todo[k].start
          BY <1>2, <3>3, <5>3, SampleInsertDone
          DEF RecordingInv, MissingIsMissing, RunsAreProcesses
        <5>4. QED
          BY <5>1, <5>2, <5>3 DEF Inserted
      <4>3. QED
        BY <4>1, <4>2
    <3>4. QED
      BY <1>2, <2>2, <3>2, <3>3, OriginMoves
  <2>3. QED
    BY <1>2, <2>1, <2>2
<1>3. QED
  BY <1>1, <1>2, RecordingAlways, PTL DEF Spec

\* When the database takes every write, a graceful shutdown leaves no row running, and the
\* requests that are still being served do not open one.
THEOREM ShutdownClosesHistory ==
    ASSUME StoreFaults = FALSE
    PROVE  Spec => []CleanShutdownClosesHistory
<1>1. Init => CleanShutdownClosesHistory
  BY DEF Init, CleanShutdownClosesHistory
<1>2. ASSUME TypeOK, RecordingInv, CleanShutdownClosesHistory, [Next]_vars
      PROVE  CleanShutdownClosesHistory'
  <2>1. CASE UNCHANGED vars
    BY <1>2, <2>1 DEF vars, CleanShutdownClosesHistory
  <2>2. CASE Next
    <3> SUFFICES ASSUME phase' \in {"exiting", "exited"}, NEW k \in Key,
                        NEW i \in DOMAIN rows'[k]
                 PROVE  rows'[k][i].status # "running"
      BY DEF CleanShutdownClosesHistory
    <3>1. RowsMove(k) /\ rows[k] \in Seq(Row)
      BY <1>2, <2>2, RowsMoveByStep DEF TypeOK
    <3>2. CASE CloseHistory
      <4>1. rows'[k] = FinishRunning(rows[k], "stopped")
        BY <3>2 DEF CloseHistory, Written
      <4>2. QED
        BY <3>1, <4>1, NothingRunning
    <3>3. CASE ~CloseHistory
      <4>1. phase \in {"exiting", "exited"}
        <5>1. ASSUME Lifecycle
              PROVE  phase \in {"exiting", "exited"}
          BY <3>3, <5>1 DEF Lifecycle, Shutdown, StopTasks, Exit, Crash, Load
        <5>2. ~Lifecycle => phase' = phase
          BY <2>2 DEF Next, Register, RemoveSession, Snapshot, Handler, CheckAction,
             ApplyToMissing, ApplyStart, ApplyStop, ApplyRestart, ApplyPause, ApplyResume,
             FinishStopped, SchedulerStep, ScheduleDue, ScheduleStart, ScheduleRecord,
             ScheduleInsert, ScheduleSkip, ScheduleFail, UnchangedByScheduler, Collect,
             SampleWrite, SamplePrevious, SampleCheck, SampleInsert, SampleEnd,
             UnchangedBySampler, ProcessEnds
        <5>3. QED
          BY <5>1, <5>2
      <4>2. ~ScheduleInsert /\ ~SampleInsert(k)
        BY <1>2, <4>1
        DEF RecordingInv, ThreadsGone, ThreadsJoined, Serving, ScheduleInsert, Scheduler, Idle,
            SampleInsert, Writing
      <4>3. CASE i \in DOMAIN rows[k]
        BY <1>2, <3>1, <4>1, <4>3 DEF CleanShutdownClosesHistory, RowsMove, Aged
      <4>4. CASE i \notin DOMAIN rows[k]
        BY <3>1, <4>2, <4>4 DEF RowsMove, Inserted
      <4>5. QED
        BY <4>3, <4>4
    <3>4. QED
      BY <3>2, <3>3
  <2>3. QED
    BY <1>2, <2>1, <2>2
<1>3. QED
  BY <1>1, <1>2, RecordingAlways, PTL DEF Spec
-----------------------------------------------------------------------------
USE DEF Tasks
-----------------------------------------------------------------------------
(* The operations on tasks and processes keep every live process held.                   *)

LEMMA PolledHeld ==
    ASSUME TypeOK, NEW from, Held(task, proc, from), NEW S
    PROVE  Held(Polled(S), proc, from)
<1> SUFFICES ASSUME NEW k \in Key, NEW i \in DOMAIN proc[k],
                    i > from[k], proc[k][i].fate = "live"
             PROVE  Polled(S)[k].child /\ Polled(S)[k].run = i
  BY DEF Held
<1>1. task[k].child /\ task[k].run = i
  BY DEF Held
<1>2. Fate(k) = "live"
  BY <1>1 DEF Fate
<1>3. Polled(S)[k] = task[k]
  BY <1>2 DEF Polled, Poll
<1>4. QED
  BY <1>1, <1>3

LEMMA KilledHeld ==
    ASSUME TypeOK, NEW tasks \in Tasks, NEW from, Held(tasks, proc, from), NEW S
    PROVE  /\ Held(StopAll(S, tasks), Killed(S, tasks), from)
           /\ \A k \in Key : k \in S =>
                \A i \in DOMAIN Killed(S, tasks)[k] :
                    i > from[k] => Killed(S, tasks)[k][i].fate # "live"
<1> DEFINE new(k) == [proc[k] EXCEPT ![tasks[k].run].fate = "killed"]
<1>1. ASSUME NEW k \in Key
      PROVE  /\ DOMAIN new(k) = DOMAIN proc[k]
             /\ \A i \in DOMAIN proc[k] :
                  new(k)[i].fate = IF i = tasks[k].run THEN "killed" ELSE proc[k][i].fate
  <2>1. proc[k] \in Seq(Process)
    BY DEF TypeOK
  <2>2. \A i \in DOMAIN proc[k] : proc[k][i] \in Process
    BY <2>1
  <2>3. QED
    BY <2>1, <2>2 DEF Process
<1>2. ASSUME NEW k \in Key, k \in S, NEW i \in DOMAIN Killed(S, tasks)[k], i > from[k]
      PROVE  Killed(S, tasks)[k][i].fate # "live"
  <2>1. CASE tasks[k].child
    <3>1. Killed(S, tasks)[k] = new(k)
      BY <1>2, <2>1 DEF Killed
    <3>2. i \in DOMAIN proc[k]
      BY <1>1, <3>1
    <3> HIDE DEF new
    <3>3. QED
      BY <1>1, <1>2, <3>1, <3>2 DEF Held
  <2>2. CASE ~tasks[k].child
    <3>1. Killed(S, tasks)[k] = proc[k]
      BY <2>2 DEF Killed
    <3>2. QED
      BY <1>2, <2>2, <3>1 DEF Held
  <2>3. QED
    BY <2>1, <2>2
<1>3. ASSUME NEW k \in Key, k \notin S
      PROVE  Killed(S, tasks)[k] = proc[k] /\ StopAll(S, tasks)[k] = tasks[k]
  BY <1>3 DEF Killed, StopAll
<1>4. Held(StopAll(S, tasks), Killed(S, tasks), from)
  BY <1>2, <1>3 DEF Held
<1>5. QED
  BY <1>2, <1>4

LEMMA SpawnedHeld ==
    ASSUME TypeOK, NEW tasks \in Tasks,
           NEW procs \in [Key -> Seq(Process)], SameLengths(procs),
           NEW from, Held(tasks, procs, from),
           NEW S, \A k \in Key : k \in S => ~tasks[k].child, NEW cause
    PROVE  Held(StartAll(S, tasks), Spawned(S, tasks, procs, cause), from)
<1> DEFINE history(k) == Spawned(S, tasks, procs, cause)[k]
<1> SUFFICES ASSUME NEW k \in Key, NEW i \in DOMAIN history(k),
                    i > from[k], history(k)[i].fate = "live"
             PROVE  StartAll(S, tasks)[k].child /\ StartAll(S, tasks)[k].run = i
  BY DEF Held
<1>1. CASE k \notin S
  <2>1. history(k) = procs[k] /\ StartAll(S, tasks)[k] = tasks[k]
    BY <1>1 DEF Spawned, StartAll
  <2>2. QED
    BY <2>1 DEF Held
<1>2. CASE k \in S
  <2> DEFINE new == [generation |-> tasks[k].generation + 1, cause |-> cause, fate |-> "live"]
  <2>1. history(k) = Append(procs[k], new)
    BY <1>2 DEF Spawned
  <2>2. procs[k] \in Seq(Process) /\ Len(procs[k]) = Len(proc[k])
    BY DEF SameLengths
  <2>3. /\ DOMAIN Append(procs[k], new) = 1..(Len(procs[k]) + 1)
        /\ \A j \in 1..Len(procs[k]) : Append(procs[k], new)[j] = procs[k][j]
        /\ DOMAIN procs[k] = 1..Len(procs[k]) /\ Len(procs[k]) \in Nat
    BY <2>2
  <2> HIDE DEF new
  <2>4. i = Len(procs[k]) + 1
    BY <1>2, <2>1, <2>3 DEF Held
  <2>5. QED
    BY <1>2, <2>2, <2>4 DEF StartAll, Start
<1>3. QED
  BY <1>1, <1>2

LEMMA EndedHeld ==
    ASSUME TypeOK, Held(task, proc, origin),
           NEW k \in Key, NEW i \in 1..MaxRuns, ProcessEnds(k, i)
    PROVE  Held(task, proc', origin)
<1>1. PICK fate \in Endings : proc' = [proc EXCEPT ![k][i].fate = fate]
  BY DEF ProcessEnds
<1>2. fate # "live"
  BY EndingsAssumption
<1>3. proc[k] \in Seq(Process)
  BY DEF TypeOK
<1>4. \A j \in DOMAIN proc[k] : proc[k][j] \in Process
  BY <1>3
<1>5. /\ DOMAIN proc'[k] = DOMAIN proc[k]
      /\ \A j \in DOMAIN proc[k] :
           proc'[k][j].fate = IF j = i THEN fate ELSE proc[k][j].fate
  BY <1>1, <1>3, <1>4 DEF TypeOK, Process
<1>6. \A l \in Key : l # k => proc'[l] = proc[l]
  BY <1>1 DEF TypeOK
<1>7. QED
  BY <1>2, <1>5, <1>6 DEF Held
-----------------------------------------------------------------------------
(* Sessions that are not loaded have no tasks.                                           *)

LEMMA NewStaysNew ==
    ASSUME NEW fate
    PROVE  /\ Poll(NewTask, fate) = NewTask /\ Stop(NewTask) = NewTask
           /\ Pause(NewTask) = NewTask /\ Resume(NewTask) = NewTask
<1>1. Poll(NewTask, fate) = NewTask
  BY DEF Poll, NewTask
<1>2. Stop(NewTask) = NewTask
  <2>1. Stop(NewTask) \in TaskState /\ NewTask \in TaskState
    BY DEF Stop, NewTask, TaskState, Statuses
  <2>2. Stop(NewTask).status = "idle" /\ ~Stop(NewTask).child
        /\ Stop(NewTask).generation = 0 /\ Stop(NewTask).run = 0
    BY DEF Stop, NewTask
  <2>3. QED
    BY <2>1, <2>2 DEF TaskState, NewTask
<1>3. Pause(NewTask) = NewTask /\ Resume(NewTask) = NewTask
  BY DEF Pause, Resume, NewTask
<1>4. QED
  BY <1>1, <1>2, <1>3

LEMMA AbsentStep ==
    ASSUME TypeOK, ThreadsGone, AbsentIsNew, Next
    PROVE  AbsentIsNew'
<1> SUFFICES ASSUME NEW k \in Key, k[1] \notin present'
             PROVE  task'[k] = NewTask
  BY DEF AbsentIsNew
<1>1. CASE UNCHANGED <<task, present>>
  BY <1>1 DEF AbsentIsNew
<1>2. ASSUME NEW S, task' = Polled(S), UNCHANGED present
      PROVE  task'[k] = NewTask
  <2>1. task[k] = NewTask
    BY <1>2 DEF AbsentIsNew
  <2>2. Polled(S)[k] = NewTask
    BY <2>1, NewStaysNew DEF Polled
  <2>3. QED
    BY <1>2, <2>2
<1>3. ASSUME NEW s \in Session, Register(s)
      PROVE  task'[k] = NewTask
  <2>1. s \in present' => k[1] # s
    OBVIOUS
  <2>2. \A l \in KeysOf(s) : l[1] = s
    BY DEF KeysOf
  <2>3. CASE s \in present'
    <3>1. k \notin KeysOf(s)
      BY <2>1, <2>2, <2>3
    <3>2. k[1] \notin present
      BY <1>3, <2>3 DEF Register
    <3>3. CASE UNCHANGED task
      BY <3>2, <3>3 DEF AbsentIsNew
    <3> DEFINE fresh == [l \in Key |-> IF l \in KeysOf(s) THEN NewTask ELSE task[l]]
    <3>4. ASSUME NEW up \in SUBSET Spawnable(AutoStart \cap KeysOf(s), fresh),
                 task' = StartAll(up, fresh)
          PROVE  task'[k] = NewTask
      <4>1. k \notin up
        BY <3>1 DEF Spawnable
      <4>2. QED
        BY <3>1, <3>2, <3>4, <4>1 DEF StartAll, AbsentIsNew
    <3>5. QED
      BY <1>3, <3>3, <3>4 DEF Register
  <2>4. CASE s \notin present'
    <3>1. UNCHANGED <<task, present>>
      BY <1>3, <2>4 DEF Register
    <3>2. QED
      BY <1>1, <3>1
  <2>5. QED
    BY <2>3, <2>4
<1>4. ASSUME NEW s \in Session, RemoveSession(s)
      PROVE  task'[k] = NewTask
  <2>1. k[1] = s => k \in KeysOf(s)
    BY DEF Key, KeysOf
  <2>2. QED
    BY <1>4, <2>1 DEF RemoveSession, AbsentIsNew
<1>5. ASSUME NEW c \in Client, req[c].session \in present, present' = present
      PROVE  k \notin Target(c) /\ task[k] = NewTask
  BY <1>5 DEF Target, AbsentIsNew
<1>6. ASSUME NEW c \in Client, ApplyStart(c)
      PROVE  task'[k] = NewTask
  BY <1>5, <1>6, NewStaysNew DEF ApplyStart, Spawnable, StartAll, Polled
<1>7. ASSUME NEW c \in Client, ApplyStop(c)
      PROVE  task'[k] = NewTask
  BY <1>5, <1>7, NewStaysNew DEF ApplyStop, StopAll, Polled
<1>8. ASSUME NEW c \in Client, ApplyRestart(c)
      PROVE  task'[k] = NewTask
  <2> DEFINE polled  == Polled(KeysOf(req[c].session))
             stopped == StopAll(Target(c), polled)
  <2>1. k \notin Target(c) /\ task[k] = NewTask
    BY <1>5, <1>8 DEF ApplyRestart
  <2>2. polled[k] = NewTask
    BY <2>1, NewStaysNew DEF Polled
  <2>3. stopped[k] = NewTask
    BY <2>1, <2>2 DEF StopAll
  <2>4. PICK up \in SUBSET Spawnable(Target(c), stopped) : task' = StartAll(up, stopped)
    BY <1>8 DEF ApplyRestart
  <2> HIDE DEF polled, stopped
  <2>5. QED
    BY <2>1, <2>3, <2>4 DEF Spawnable, StartAll
<1>9. ASSUME NEW c \in Client, ApplyPause(c) \/ ApplyResume(c)
      PROVE  task'[k] = NewTask
  BY <1>5, <1>9 DEF ApplyPause, ApplyResume
<1>10. ASSUME NEW c \in Client, Handler(c)
       PROVE  task'[k] = NewTask
  <2>1. CASE \E s \in Session, labels \in Targets, a \in Actions : CheckAction(c, s, labels, a)
    BY <1>1, <2>1 DEF CheckAction
  <2>2. CASE ApplyToMissing(c) \/ FinishStopped(c)
    BY <1>1, <2>2 DEF ApplyToMissing, FinishStopped
  <2>3. QED
    BY <1>6, <1>7, <1>8, <1>9, <1>10, <2>1, <2>2 DEF Handler
<1>11. CASE SchedulerStep
  <2>1. CASE \E l \in Key : ScheduleDue(l)
    BY <1>2, <2>1 DEF ScheduleDue, UnchangedByScheduler
  <2>2. CASE ScheduleStart
    <3>1. present' = present
      BY <2>2 DEF ScheduleStart, UnchangedByScheduler
    <3>2. CASE UNCHANGED task
      BY <1>1, <3>1, <3>2
    <3>3. CASE task' = Polled({sched.key})
      BY <1>2, <3>1, <3>3
    <3>4. ASSUME sched.key \in PresentKeys,
                 NEW up \in SUBSET Spawnable({sched.key}, Polled({sched.key})),
                 task' = StartAll(up, Polled({sched.key}))
          PROVE  task'[k] = NewTask
      <4>1. k # sched.key /\ task[k] = NewTask
        BY <3>1, <3>4 DEF PresentKeys, AbsentIsNew
      <4>2. QED
        BY <3>4, <4>1 DEF Spawnable, StartAll, Polled
    <3>5. QED
      BY <2>2, <3>2, <3>3, <3>4 DEF ScheduleStart
  <2>3. CASE ScheduleRecord \/ ScheduleInsert \/ ScheduleSkip
    BY <1>1, <2>3
    DEF ScheduleRecord, ScheduleInsert, ScheduleSkip, UnchangedByScheduler
  <2>4. CASE ScheduleFail
    BY <1>1, <1>2, <2>4 DEF ScheduleFail, UnchangedByScheduler
  <2>5. QED
    BY <1>11, <2>1, <2>2, <2>3, <2>4 DEF SchedulerStep
<1>12. CASE Collect
  BY <1>2, <1>12 DEF Collect
<1>13. ASSUME NEW l \in Key, SampleWrite(l)
       PROVE  task'[k] = NewTask
  BY <1>1, <1>13
  DEF SampleWrite, SamplePrevious, SampleCheck, SampleInsert, SampleEnd, UnchangedBySampler
<1>14. ASSUME NEW l \in Key, NEW i \in 1..MaxRuns, ProcessEnds(l, i)
       PROVE  task'[k] = NewTask
  BY <1>1, <1>14 DEF ProcessEnds, memory
<1>15. CASE Lifecycle
  <2>1. CASE Shutdown \/ CloseHistory
    BY <1>1, <2>1 DEF Shutdown, CloseHistory, memory
  <2>2. CASE StopTasks
    BY <2>2, NewStaysNew DEF StopTasks, StopAll, Polled, AbsentIsNew
  <2>3. CASE Exit \/ Crash
    BY <2>3 DEF Exit, Crash, MemoryGone
  <2>4. CASE Load
    <3>1. task[k] = NewTask
      BY <2>4 DEF Load, ThreadsGone
    <3>2. PICK lost \in SUBSET registered :
            /\ present' = registered \ lost
            /\ \E up \in SUBSET Spawnable(AutoStart \cap ((registered \ lost) \X Label), task) :
                 task' = StartAll(up, task)
      BY <2>4 DEF Load
    <3>3. k \notin (registered \ lost) \X Label
      BY <3>2
    <3>4. QED
      BY <3>1, <3>2, <3>3 DEF Spawnable, StartAll
  <2>5. QED
    BY <1>15, <2>1, <2>2, <2>3, <2>4 DEF Lifecycle
<1>16. ASSUME NEW s \in Session, Snapshot(s)
       PROVE  task'[k] = NewTask
  BY <1>2, <1>16 DEF Snapshot
<1>17. QED
  BY <1>3, <1>4, <1>10, <1>11, <1>12, <1>13, <1>14, <1>15, <1>16 DEF Next
-----------------------------------------------------------------------------
(* A daemon holds every process it spawned that still lives.                             *)

LEMMA StartsHeld ==
    ASSUME TypeOK, NEW from, NEW tasks \in Tasks,
           NEW procs \in [Key -> Seq(Process)], SameLengths(procs), Held(tasks, procs, from),
           NEW S, NEW up \in SUBSET Spawnable(S, tasks), NEW cause,
           task' = StartAll(up, tasks), proc' = Spawned(up, tasks, procs, cause)
    PROVE  Held(task', proc', from)
<1>1. \A k \in Key : k \in up => ~tasks[k].child
  BY DEF Spawnable
<1>2. QED
  BY <1>1, SpawnedHeld

LEMMA RegisterHeld ==
    ASSUME StoreFaults = FALSE, TypeOK, AbsentIsNew, Held(task, proc, origin),
           NEW s \in Session, Register(s)
    PROVE  Held(task', proc', origin)
<1> DEFINE fresh == [k \in Key |-> IF k \in KeysOf(s) THEN NewTask ELSE task[k]]
<1>1. \A k \in KeysOf(s) : k[1] = s
  BY DEF KeysOf
<1>2. fresh = task
  BY <1>1 DEF Register, AbsentIsNew, TypeOK
<1>3. PICK up \in SUBSET Spawnable(AutoStart \cap KeysOf(s), fresh) :
         task' = StartAll(up, fresh) /\ proc' = Spawned(up, fresh, proc, "auto_start")
  BY DEF Register, Written
<1>4. SameLengths(proc) /\ proc \in [Key -> Seq(Process)] /\ task \in Tasks
  BY DEF SameLengths, TypeOK
<1> HIDE DEF fresh
<1>5. QED
  BY <1>2, <1>3, <1>4, StartsHeld

LEMMA RestartHeld ==
    ASSUME TypeOK, Held(task, proc, origin), NEW c \in Client, ApplyRestart(c)
    PROVE  Held(task', proc', origin)
<1> DEFINE polled  == Polled(KeysOf(req[c].session))
           stopped == StopAll(Target(c), polled)
           killed  == Killed(Target(c), polled)
<1>1. polled \in Tasks /\ Held(polled, proc, origin)
  BY PolledType, PolledHeld DEF TypeOK
<1>2. stopped \in Tasks
  BY <1>1, StopAllType
<1>3. killed \in [Key -> Seq(Process)] /\ SameLengths(killed)
  BY <1>1, KilledType, KilledKeeps
<1>4. Held(stopped, killed, origin)
  BY <1>1, KilledHeld
<1>5. PICK up \in SUBSET Spawnable(Target(c), stopped) :
         task' = StartAll(up, stopped) /\ proc' = Spawned(up, stopped, killed, "manual")
  BY DEF ApplyRestart
<1> HIDE DEF polled, stopped, killed
<1>6. QED
  BY <1>2, <1>3, <1>4, <1>5, StartsHeld

LEMMA RemoveHeld ==
    ASSUME TypeOK, Held(task, proc, origin), NEW s \in Session, RemoveSession(s)
    PROVE  Held(task', proc', origin)
<1>1. CASE s \notin present
  BY <1>1 DEF RemoveSession
<1>2. CASE s \in present
  <2> DEFINE polled == Polled(KeysOf(s))
             killed == Killed(KeysOf(s), polled)
  <2>1. polled \in Tasks /\ Held(polled, proc, origin)
    BY PolledType, PolledHeld
  <2>2. /\ Held(StopAll(KeysOf(s), polled), killed, origin)
        /\ \A k \in Key : k \in KeysOf(s) =>
             \A i \in DOMAIN killed[k] : i > origin[k] => killed[k][i].fate # "live"
    BY <2>1, KilledHeld
  <2>3. \A k \in Key : k \notin KeysOf(s) =>
            StopAll(KeysOf(s), polled)[k] = task[k] /\ task'[k] = task[k]
    BY <1>2 DEF RemoveSession, StopAll, Polled
  <2>4. proc' = killed
    BY <1>2 DEF RemoveSession
  <2> HIDE DEF polled, killed
  <2>5. QED
    BY <2>2, <2>3, <2>4 DEF Held
<1>3. QED
  BY <1>1, <1>2

LEMMA LoadHeld ==
    ASSUME TypeOK, ThreadsGone, Load
    PROVE  Held(task', proc', origin')
<1>1. \A k \in Key : origin'[k] = Len(proc[k])
  BY DEF Load
<1>2. SameLengths(proc) /\ proc \in [Key -> Seq(Process)] /\ task \in Tasks
  BY DEF SameLengths, TypeOK
<1>3. Held(task, proc, origin')
  BY <1>1, <1>2 DEF Held
<1>4. PICK lost \in SUBSET registered :
         \E up \in SUBSET Spawnable(AutoStart \cap ((registered \ lost) \X Label), task) :
            task' = StartAll(up, task) /\ proc' = Spawned(up, task, proc, "auto_start")
  BY DEF Load
<1>5. QED
  BY <1>2, <1>3, <1>4, StartsHeld

LEMMA AliveBefore ==
    ASSUME Next, ~Load, phase' \in Alive
    PROVE  phase \in Alive
  BY DEF Next, Alive, Serving, Register, RemoveSession, Snapshot, Handler, CheckAction,
     ApplyToMissing, ApplyStart, ApplyStop, ApplyRestart, ApplyPause, ApplyResume, Applying,
     FinishStopped, SchedulerStep, ScheduleDue, ScheduleStart, ScheduleRecord, ScheduleInsert,
     ScheduleSkip, ScheduleFail, Scheduler, Collect, SampleWrite, SamplePrevious, SampleCheck,
     SampleInsert, SampleEnd, Writing, ProcessEnds, Lifecycle, Shutdown, StopTasks,
     CloseHistory, Exit, Crash

LEMMA HeldStep ==
    ASSUME StoreFaults = FALSE, TypeOK, ThreadsGone, AbsentIsNew,
           phase \in Alive => Held(task, proc, origin), Next, phase' \in Alive
    PROVE  Held(task', proc', origin')
<1>1. CASE Load
  BY <1>1, LoadHeld
<1>2. CASE ~Load
  <2>1. origin' = origin
    BY <1>2, OriginMoves
  <2> SUFFICES Held(task', proc', origin)
    BY <2>1
  <2>2. phase \in Alive
    BY <1>2, AliveBefore
  <2>3. Held(task, proc, origin)
    BY <2>2
  <2>4. CASE UNCHANGED <<task, proc>>
    BY <2>3, <2>4
  <2>5. ASSUME NEW S, task' = Polled(S), UNCHANGED proc
        PROVE  Held(task', proc', origin)
    BY <2>3, <2>5, PolledHeld
  <2>6. SameLengths(proc) /\ proc \in [Key -> Seq(Process)] /\ task \in Tasks
    BY DEF SameLengths, TypeOK
  <2>7. ASSUME NEW c \in Client, ApplyStart(c)
        PROVE  Held(task', proc', origin)
    <3> DEFINE polled == Polled(Target(c))
    <3>1. polled \in Tasks /\ Held(polled, proc, origin)
      BY <2>3, PolledType, PolledHeld
    <3>2. PICK up \in SUBSET Spawnable(Target(c), polled) :
             task' = StartAll(up, polled) /\ proc' = Spawned(up, polled, proc, "manual")
      BY <2>7 DEF ApplyStart
    <3> HIDE DEF polled
    <3>3. QED
      BY <2>6, <3>1, <3>2, StartsHeld
  <2>8. ASSUME NEW c \in Client, ApplyStop(c)
        PROVE  Held(task', proc', origin)
    <3>1. Polled(KeysOf(req[c].session)) \in Tasks
      BY PolledType
    <3>2. Held(Polled(KeysOf(req[c].session)), proc, origin)
      BY <2>3, PolledHeld
    <3>3. QED
      BY <2>8, <3>1, <3>2, KilledHeld DEF ApplyStop
  <2>9. ASSUME NEW c \in Client, ApplyPause(c) \/ ApplyResume(c)
        PROVE  Held(task', proc', origin)
    <3> DEFINE polled == Polled(Target(c))
    <3>1. polled \in Tasks /\ Held(polled, proc, origin)
      BY <2>3, PolledType, PolledHeld
    <3>2. \A k \in Key : task'[k] \in {Pause(polled[k]), Resume(polled[k]), task[k]}
      BY <2>9 DEF ApplyPause, ApplyResume
    <3>3. \A k \in Key : /\ Pause(polled[k]).child = polled[k].child
                         /\ Pause(polled[k]).run = polled[k].run
                         /\ Resume(polled[k]).child = polled[k].child
                         /\ Resume(polled[k]).run = polled[k].run
      BY <3>1 DEF Pause, Resume, TaskState
    <3>4. UNCHANGED proc
      BY <2>9 DEF ApplyPause, ApplyResume
    <3> HIDE DEF polled
    <3>5. QED
      BY <2>3, <3>1, <3>2, <3>3, <3>4 DEF Held
  <2>10. ASSUME NEW c \in Client, Handler(c)
         PROVE  Held(task', proc', origin)
    <3>1. CASE \E s \in Session, labels \in Targets, a \in Actions : CheckAction(c, s, labels, a)
      BY <2>4, <3>1 DEF CheckAction
    <3>2. CASE ApplyToMissing(c) \/ FinishStopped(c)
      BY <2>4, <3>2 DEF ApplyToMissing, FinishStopped
    <3>3. CASE ApplyRestart(c)
      BY <2>3, <3>3, RestartHeld
    <3>4. QED
      BY <2>7, <2>8, <2>9, <2>10, <3>1, <3>2, <3>3 DEF Handler
  <2>11. CASE SchedulerStep
    <3>1. CASE \E k \in Key : ScheduleDue(k)
      BY <2>5, <3>1 DEF ScheduleDue
    <3>2. CASE ScheduleStart
      <4> DEFINE polled == Polled({sched.key})
      <4>1. polled \in Tasks /\ Held(polled, proc, origin)
        BY <2>3, PolledType, PolledHeld
      <4>2. \/ UNCHANGED <<task, proc>>
            \/ task' = polled /\ UNCHANGED proc
            \/ \E up \in SUBSET Spawnable({sched.key}, polled) :
                 task' = StartAll(up, polled) /\ proc' = Spawned(up, polled, proc, "cron")
        BY <3>2 DEF ScheduleStart
      <4> HIDE DEF polled
      <4>3. QED
        BY <2>3, <2>6, <4>1, <4>2, StartsHeld
    <3>3. CASE ScheduleRecord \/ ScheduleInsert \/ ScheduleSkip
      BY <2>3, <3>3 DEF ScheduleRecord, ScheduleInsert, ScheduleSkip
    <3>4. CASE ScheduleFail
      BY <2>3, <2>5, <3>4 DEF ScheduleFail
    <3>5. QED
      BY <2>11, <3>1, <3>2, <3>3, <3>4 DEF SchedulerStep
  <2>12. CASE Collect
    BY <2>5, <2>12 DEF Collect
  <2>13. ASSUME NEW k \in Key, SampleWrite(k)
         PROVE  Held(task', proc', origin)
    BY <2>3, <2>13
    DEF SampleWrite, SamplePrevious, SampleCheck, SampleInsert, SampleEnd, UnchangedBySampler
  <2>14. ASSUME NEW k \in Key, NEW i \in 1..MaxRuns, ProcessEnds(k, i)
         PROVE  Held(task', proc', origin)
    BY <2>3, <2>14, EndedHeld DEF ProcessEnds, memory
  <2>15. CASE Lifecycle
    <3>1. CASE Shutdown \/ CloseHistory
      BY <2>3, <3>1 DEF Shutdown, CloseHistory, memory
    <3>2. CASE StopTasks
      <4>1. Polled(PresentKeys) \in Tasks /\ Held(Polled(PresentKeys), proc, origin)
        BY <2>3, PolledType, PolledHeld
      <4>2. QED
        BY <3>2, <4>1, KilledHeld DEF StopTasks
    <3>3. ~Exit /\ ~Crash
      BY DEF Exit, Crash, Alive
    <3>4. QED
      BY <1>2, <2>15, <3>1, <3>2, <3>3 DEF Lifecycle
  <2>16. ASSUME NEW s \in Session, Register(s) \/ RemoveSession(s) \/ Snapshot(s)
         PROVE  Held(task', proc', origin)
    BY <2>3, <2>5, <2>16, RegisterHeld, RemoveHeld DEF Snapshot
  <2>17. QED
    BY <2>10, <2>11, <2>12, <2>13, <2>14, <2>15, <2>16 DEF Next
<1>3. QED
  BY <1>1, <1>2

\* Outside its life a daemon neither spawns nor forgets where it began.
LEMMA OneProcessStep ==
    ASSUME TypeOK, Next, OneProcessPerTask,
           phase' \in Alive => Held(task', proc', origin')
    PROVE  OneProcessPerTask'
<1>1. CASE phase' \in Alive
  BY <1>1 DEF Held, OneProcessPerTask
<1>2. CASE phase' \notin Alive
  <2>1. CASE UNCHANGED <<proc, origin>>
    BY <2>1 DEF OneProcessPerTask
  <2>2. CASE \E k \in Key, i \in 1..MaxRuns : ProcessEnds(k, i)
    <3>1. PICK k \in Key, i \in 1..MaxRuns : ProcessEnds(k, i)
      BY <2>2
    <3>2. PICK fate \in Endings : proc' = [proc EXCEPT ![k][i].fate = fate]
      BY <3>1 DEF ProcessEnds
    <3>3. proc[k] \in Seq(Process) /\ fate # "live" /\ origin' = origin
      BY <3>1, EndingsAssumption DEF TypeOK, ProcessEnds
    <3>4. \A j \in DOMAIN proc[k] : proc[k][j] \in Process
      BY <3>3
    <3>5. /\ DOMAIN proc'[k] = DOMAIN proc[k]
          /\ \A j \in DOMAIN proc[k] : proc'[k][j].fate = "live" => proc[k][j].fate = "live"
      BY <3>2, <3>3, <3>4 DEF TypeOK, Process
    <3>6. \A l \in Key : l # k => proc'[l] = proc[l]
      BY <3>2 DEF TypeOK
    <3>7. QED
      BY <3>3, <3>5, <3>6 DEF OneProcessPerTask
  <2>3. QED
    BY <1>2, <2>1, <2>2
    DEF Next, Alive, Serving, Register, RemoveSession, Snapshot, Handler, CheckAction,
        ApplyToMissing, ApplyStart, ApplyStop, ApplyRestart, ApplyPause, ApplyResume, Applying,
        FinishStopped, SchedulerStep, ScheduleDue, ScheduleStart, ScheduleRecord, ScheduleInsert,
        ScheduleSkip, ScheduleFail, Scheduler, UnchangedByScheduler, Collect, SampleWrite,
        SamplePrevious, SampleCheck, SampleInsert, SampleEnd, Writing, UnchangedBySampler,
        Lifecycle, Shutdown, StopTasks, CloseHistory, Exit, Crash, Load
<1>3. QED
  BY <1>1, <1>2

LEMMA ProcessesAlways ==
    ASSUME StoreFaults = FALSE
    PROVE  Spec => []ProcessesInv
<1>1. Init => ProcessesInv
  BY DEF Init, ProcessesInv, AbsentIsNew, OneProcessPerTask, Alive
<1>2. ASSUME TypeOK, RecordingInv, ProcessesInv, [Next]_vars
      PROVE  ProcessesInv'
  <2>1. CASE UNCHANGED vars
    BY <1>2, <2>1 DEF vars, memory, ProcessesInv, Held, AbsentIsNew, OneProcessPerTask
  <2>2. CASE Next
    <3>1. phase' \in Alive => Held(task', proc', origin')
      BY <1>2, <2>2, HeldStep DEF ProcessesInv, RecordingInv
    <3>2. AbsentIsNew'
      BY <1>2, <2>2, AbsentStep DEF ProcessesInv, RecordingInv
    <3>3. OneProcessPerTask'
      BY <1>2, <2>2, <3>1, OneProcessStep DEF ProcessesInv
    <3>4. QED
      BY <3>1, <3>2, <3>3 DEF ProcessesInv
  <2>3. QED
    BY <1>2, <2>1, <2>2
<1>3. QED
  BY <1>1, <1>2, RecordingAlways, PTL DEF Spec

\* When the database takes every write, one daemon never has two live processes for one
\* task, whatever requests, schedule, crashes and process deaths interleave.
THEOREM OneProcess ==
    ASSUME StoreFaults = FALSE
    PROVE  Spec => []OneProcessPerTask
<1>1. ProcessesInv => OneProcessPerTask
  BY DEF ProcessesInv
<1>2. QED
  BY <1>1, ProcessesAlways, PTL
-----------------------------------------------------------------------------
(* Causes: only the scheduler starts a cron run, and it is about to record it.           *)

SameCauses(procs) ==
    \A k \in Key : /\ DOMAIN procs[k] = DOMAIN proc[k]
                   /\ \A i \in DOMAIN proc[k] : procs[k][i].cause = proc[k][i].cause

FreshCron(procs) ==
    \A k \in Key : \A i \in DOMAIN procs[k] :
        procs[k][i].cause = "cron"
        => \/ i \in DOMAIN proc[k] /\ proc[k][i].cause = "cron"
           \/ /\ sched'.pc = "record" /\ sched'.key = k /\ sched'.run = i
              /\ i = Len(proc[k]) + 1

LEMMA FateKeepsCause ==
    ASSUME NEW history \in Seq(Process), NEW i, NEW fate
    PROVE  LET new == [history EXCEPT ![i].fate = fate]
           IN  /\ DOMAIN new = DOMAIN history
               /\ \A j \in DOMAIN history : new[j].cause = history[j].cause
<1>1. \A j \in DOMAIN history : history[j] \in Process
  OBVIOUS
<1>2. QED
  BY <1>1 DEF Process

LEMMA KilledKeepsCause ==
    ASSUME TypeOK, NEW tasks, NEW S
    PROVE  SameCauses(Killed(S, tasks))
<1>1. \A k \in Key : proc[k] \in Seq(Process)
  BY DEF TypeOK
<1>2. ASSUME NEW k \in Key
      PROVE  LET new == [proc[k] EXCEPT ![tasks[k].run].fate = "killed"]
             IN  /\ DOMAIN new = DOMAIN proc[k]
                 /\ \A j \in DOMAIN proc[k] : new[j].cause = proc[k][j].cause
  BY <1>1, FateKeepsCause
<1>3. QED
  BY <1>2 DEF Killed, SameCauses

LEMMA SpawnedCause ==
    ASSUME TypeOK, NEW procs \in [Key -> Seq(Process)], SameCauses(procs),
           NEW tasks, NEW S, NEW cause, NEW k \in Key,
           NEW i \in DOMAIN Spawned(S, tasks, procs, cause)[k]
    PROVE  \/ i \in DOMAIN proc[k] /\ Spawned(S, tasks, procs, cause)[k][i].cause = proc[k][i].cause
           \/ /\ k \in S /\ i = Len(procs[k]) + 1
              /\ Spawned(S, tasks, procs, cause)[k][i].cause = cause
<1>1. procs[k] \in Seq(Process)
  OBVIOUS
<1>2. CASE k \notin S
  BY <1>2 DEF Spawned, SameCauses
<1>3. CASE k \in S
  <2> DEFINE new == [generation |-> tasks[k].generation + 1, cause |-> cause, fate |-> "live"]
  <2>1. Spawned(S, tasks, procs, cause)[k] = Append(procs[k], new)
    BY <1>3 DEF Spawned
  <2>2. new.cause = cause
    OBVIOUS
  <2>3. /\ DOMAIN Append(procs[k], new) = 1..(Len(procs[k]) + 1)
        /\ \A j \in 1..Len(procs[k]) : Append(procs[k], new)[j] = procs[k][j]
        /\ Append(procs[k], new)[Len(procs[k]) + 1] = new
        /\ DOMAIN procs[k] = 1..Len(procs[k]) /\ Len(procs[k]) \in Nat
    BY <1>1
  <2> HIDE DEF new
  <2>4. CASE i \in 1..Len(procs[k])
    BY <2>1, <2>3, <2>4 DEF SameCauses
  <2>5. CASE i = Len(procs[k]) + 1
    BY <1>3, <2>1, <2>2, <2>3, <2>5
  <2>6. QED
    BY <2>1, <2>3, <2>4, <2>5
<1>4. QED
  BY <1>2, <1>3

LEMMA OtherCause ==
    ASSUME TypeOK, NEW procs \in [Key -> Seq(Process)], SameCauses(procs),
           NEW tasks, NEW S, NEW cause, cause # "cron"
    PROVE  FreshCron(Spawned(S, tasks, procs, cause))
  BY SpawnedCause DEF FreshCron

LEMMA CronSpawned ==
    ASSUME TypeOK, ScheduleStart
    PROVE  FreshCron(proc')
<1> DEFINE k == sched.key
           polled == Polled({k})
<1>1. SameCauses(proc) /\ proc \in [Key -> Seq(Process)]
  BY DEF SameCauses, TypeOK
<1>2. \/ UNCHANGED proc
      \/ \E up \in SUBSET {k} :
           /\ proc' = Spawned(up, polled, proc, "cron")
           /\ up = {k} => sched' = [pc |-> "record", key |-> k,
                                   generation |-> polled[k].generation + 1,
                                   run |-> Len(proc[k]) + 1]
  BY DEF ScheduleStart, Spawnable
<1>3. CASE UNCHANGED proc
  BY <1>3 DEF FreshCron
<1>4. ASSUME NEW up \in SUBSET {k}, proc' = Spawned(up, polled, proc, "cron"),
             up = {k} => sched' = [pc |-> "record", key |-> k,
                                   generation |-> polled[k].generation + 1,
                                   run |-> Len(proc[k]) + 1]
      PROVE  FreshCron(proc')
  <2> SUFFICES ASSUME NEW l \in Key, NEW i \in DOMAIN proc'[l], proc'[l][i].cause = "cron"
               PROVE  \/ i \in DOMAIN proc[l] /\ proc[l][i].cause = "cron"
                      \/ /\ sched'.pc = "record" /\ sched'.key = l /\ sched'.run = i
                         /\ i = Len(proc[l]) + 1
    BY DEF FreshCron
  <2> HIDE DEF polled
  <2>1. \/ i \in DOMAIN proc[l] /\ proc'[l][i].cause = proc[l][i].cause
        \/ l \in up /\ i = Len(proc[l]) + 1
    BY <1>1, <1>4, SpawnedCause
  <2>2. l \in up => up = {k} /\ l = k
    BY <1>4
  <2>3. QED
    BY <1>4, <2>1, <2>2
<1>5. QED
  BY <1>2, <1>3, <1>4

LEMMA FreshCronStep ==
    ASSUME TypeOK, Next
    PROVE  FreshCron(proc')
<1>1. SameCauses(proc) /\ proc \in [Key -> Seq(Process)]
  BY DEF SameCauses, TypeOK
<1>2. ASSUME SameCauses(proc')
      PROVE  FreshCron(proc')
  BY <1>2 DEF SameCauses, FreshCron
<1>3. CASE UNCHANGED proc
  BY <1>1, <1>2, <1>3
<1>4. ASSUME NEW s \in Session, Register(s)
      PROVE  FreshCron(proc')
  <2>1. PICK tasks, up : proc' = Spawned(up, tasks, proc, "auto_start")
    BY <1>4 DEF Register
  <2>2. QED
    BY <1>1, <2>1, OtherCause
<1>5. ASSUME NEW s \in Session, RemoveSession(s)
      PROVE  FreshCron(proc')
  BY <1>1, <1>2, <1>5, KilledKeepsCause DEF RemoveSession
<1>6. ASSUME NEW c \in Client, Handler(c)
      PROVE  FreshCron(proc')
  <2>1. CASE ApplyStart(c)
    <3>1. PICK tasks, up : proc' = Spawned(up, tasks, proc, "manual")
      BY <2>1 DEF ApplyStart
    <3>2. QED
      BY <1>1, <3>1, OtherCause
  <2>2. CASE ApplyStop(c)
    BY <1>2, <2>2, KilledKeepsCause DEF ApplyStop
  <2>3. CASE ApplyRestart(c)
    <3> DEFINE polled == Polled(KeysOf(req[c].session))
               killed == Killed(Target(c), polled)
    <3>1. SameCauses(killed) /\ killed \in [Key -> Seq(Process)]
      BY PolledType, KilledType, KilledKeepsCause
    <3>2. PICK tasks, up : proc' = Spawned(up, tasks, killed, "manual")
      BY <2>3 DEF ApplyRestart
    <3> HIDE DEF killed
    <3>3. QED
      BY <3>1, <3>2, OtherCause
  <2>4. CASE UNCHANGED proc
    BY <1>3, <2>4
  <2>5. QED
    BY <1>6, <2>1, <2>2, <2>3, <2>4
    DEF Handler, CheckAction, ApplyToMissing, ApplyPause, ApplyResume, FinishStopped
<1>7. CASE SchedulerStep
  BY <1>3, <1>7, CronSpawned
  DEF SchedulerStep, ScheduleDue, ScheduleRecord, ScheduleInsert, ScheduleSkip, ScheduleFail
<1>8. CASE Lifecycle
  <2>1. CASE StopTasks
    BY <1>2, <2>1, KilledKeepsCause DEF StopTasks
  <2>2. CASE Load
    <3>1. PICK up : proc' = Spawned(up, task, proc, "auto_start")
      BY <2>2 DEF Load
    <3>2. QED
      BY <1>1, <3>1, OtherCause
  <2>3. QED
    BY <1>3, <1>8, <2>1, <2>2 DEF Lifecycle, Shutdown, CloseHistory, Exit, Crash
<1>9. ASSUME NEW k \in Key, NEW i \in 1..MaxRuns, ProcessEnds(k, i)
      PROVE  FreshCron(proc')
  <2>1. PICK fate \in Endings : proc' = [proc EXCEPT ![k][i].fate = fate]
    BY <1>9 DEF ProcessEnds
  <2>2. proc[k] \in Seq(Process)
    BY DEF TypeOK
  <2>3. SameCauses(proc')
    BY <2>1, <2>2, FateKeepsCause DEF SameCauses, TypeOK
  <2>4. QED
    BY <1>2, <2>3
<1>10. CASE Collect \/ \E s \in Session : Snapshot(s)
  BY <1>3, <1>10 DEF Collect, Snapshot
<1>11. CASE \E k \in Key : SampleWrite(k)
  BY <1>3, <1>11
  DEF SampleWrite, SamplePrevious, SampleCheck, SampleInsert, SampleEnd, UnchangedBySampler
<1>12. QED
  BY <1>4, <1>5, <1>6, <1>7, <1>8, <1>9, <1>10, <1>11 DEF Next

\* What becomes of the scheduler that is about to record.
LEMMA SchedulerRecords ==
    ASSUME StoreFaults = FALSE, TypeOK, ThreadsGone, Next, sched.pc \in {"record", "insert"},
           phase' \in Alive
    PROVE  \/ /\ sched'.pc \in {"record", "insert"}
              /\ sched'.key = sched.key /\ sched'.run = sched.run
           \/ \E i \in DOMAIN rows'[sched.key] : rows'[sched.key][i].run = sched.run
<1>1. /\ sched.key \in Key /\ sched \in [pc : {"record", "insert"}, key : Key, generation : Nat, run : Nat]
  BY DEF TypeOK, SchedulerStates, Idle
<1>2. rows[sched.key] \in Seq(Row)
  BY <1>1 DEF TypeOK
<1>3. CASE UNCHANGED sched
  BY <1>3
<1>4. CASE SchedulerStep
  <2>1. CASE ScheduleRecord
    <3>1. CASE HasTaskRun(rows[sched.key], sched.generation, sched.run)
      BY <2>1, <3>1 DEF ScheduleRecord, HasTaskRun
    <3>2. CASE ~HasTaskRun(rows[sched.key], sched.generation, sched.run)
      BY <1>1, <2>1, <3>2 DEF ScheduleRecord
    <3>3. QED
      BY <3>1, <3>2
  <2>2. CASE ScheduleInsert
    <3> DEFINE row == [generation |-> sched.generation, run |-> sched.run,
                       trigger |-> "cron", status |-> "running"]
    <3>1. row \in Row
      BY <1>1 DEF Row, Triggers, RowStatuses
    <3>2. rows'[sched.key] = Append(rows[sched.key], row)
      BY <1>1, <2>2 DEF ScheduleInsert, StartTaskRun, Written, TypeOK
    <3>3. row.run = sched.run
      OBVIOUS
    <3> HIDE DEF row
    <3>4. /\ Len(rows[sched.key]) + 1 \in DOMAIN rows'[sched.key]
          /\ rows'[sched.key][Len(rows[sched.key]) + 1] = row
      BY <1>2, <3>1, <3>2, AppendRow
    <3>5. QED
      BY <3>3, <3>4
  <2>3. QED
    BY <1>4, <2>1, <2>2
    DEF SchedulerStep, ScheduleDue, ScheduleStart, ScheduleSkip, ScheduleFail, Scheduler, Idle
<1>5. CASE Lifecycle
  BY <1>3, <1>5
  DEF Lifecycle, Shutdown, StopTasks, CloseHistory, Exit, Crash, Load, memory, Alive, Serving
<1>6. QED
  BY <1>3, <1>4, <1>5
  DEF Next, Register, RemoveSession, Snapshot, Handler, CheckAction, ApplyToMissing, ApplyStart,
      ApplyStop, ApplyRestart, ApplyPause, ApplyResume, FinishStopped, Collect, SampleWrite,
      SamplePrevious, SampleCheck, SampleInsert, SampleEnd, UnchangedBySampler, ProcessEnds, memory

LEMMA CronRecordedStep ==
    ASSUME StoreFaults = FALSE, TypeOK, RecordingInv, CronRecorded, Next
    PROVE  CronRecorded'
<1> SUFFICES ASSUME phase' \in Alive, NEW k \in Key, NEW i \in DOMAIN proc'[k],
                    i > origin'[k], proc'[k][i].cause = "cron"
             PROVE  \/ \E j \in DOMAIN rows'[k] : rows'[k][j].run = i
                    \/ /\ sched'.pc \in {"record", "insert"}
                       /\ sched'.key = k /\ sched'.run = i
  BY DEF CronRecorded, Recorded
<1>1. \/ i \in DOMAIN proc[k] /\ proc[k][i].cause = "cron"
      \/ sched'.pc = "record" /\ sched'.key = k /\ sched'.run = i
  BY FreshCronStep DEF FreshCron
<1>2. CASE Load
  <2>1. proc[k] \in Seq(Process) /\ origin'[k] = Len(proc[k])
    BY <1>2 DEF Load, TypeOK
  <2>2. i \notin DOMAIN proc[k]
    BY <2>1
  <2>3. QED
    BY <1>1, <2>2
<1>3. CASE ~Load /\ i \in DOMAIN proc[k] /\ proc[k][i].cause = "cron"
  <2>1. phase \in Alive /\ origin' = origin
    BY <1>3, AliveBefore, OriginMoves
  <2>2. CASE Recorded(k, i)
    <3>1. RowsMove(k)
      BY RowsMoveByStep
    <3>2. QED
      BY <2>2, <3>1 DEF Recorded, RowsMove, Aged
  <2>3. CASE sched.pc \in {"record", "insert"} /\ sched.key = k /\ sched.run = i
    BY <2>3, SchedulerRecords DEF RecordingInv
  <2>4. QED
    BY <1>3, <2>1, <2>2, <2>3 DEF CronRecorded
<1>4. QED
  BY <1>1, <1>2, <1>3

\* When the database takes every write, a run the scheduler started is on record as a
\* cron run, although the sampler may see it first and guesses from a mark it consumes.
THEOREM CronRunsAreOnRecord ==
    ASSUME StoreFaults = FALSE
    PROVE  Spec => []CronRunsSayCron
<1> DEFINE Inv == CronRecorded /\ CronRunsSayCron
<1>1. Init => Inv
  BY DEF Init, CronRecorded, CronRunsSayCron, Alive
<1>2. ASSUME TypeOK, RecordingInv, Inv, [Next]_vars
      PROVE  Inv'
  <2>1. CASE UNCHANGED vars
    BY <1>2, <2>1 DEF vars, memory, CronRecorded, Recorded, CronRunsSayCron
  <2>2. CASE Next
    <3>1. CronRecorded'
      BY <1>2, <2>2, CronRecordedStep
    <3>2. ASSUME NEW k \in Key, NEW i \in DOMAIN rows'[k], rows'[k][i].run # 0,
                 proc'[k][rows'[k][i].run].cause = "cron"
          PROVE  rows'[k][i].trigger = "cron"
      <4> DEFINE r == rows'[k][i].run
      <4>1. RowsMove(k) /\ FreshCron(proc') /\ Extends(proc', proc)
        BY <1>2, <2>2, RowsMoveByStep, FreshCronStep, TasksAndProcs
      <4>2. /\ rows[k] \in Seq(Row) /\ proc[k] \in Seq(Process) /\ proc'[k] \in Seq(Process)
            /\ todo[k] \in Work
        <5>1. TypeOK'
          BY <1>2, <2>2, NextTypes
        <5>2. QED
          BY <1>2, <5>1 DEF TypeOK
      <4>3. CASE i \in DOMAIN rows[k]
        <5>1. rows[k][i].run = r /\ rows[k][i].trigger = rows'[k][i].trigger /\ rows[k][i] \in Row
          BY <4>1, <4>2, <4>3 DEF RowsMove, Aged
        <5>2. r \in Nat /\ r # 0 /\ r <= Len(proc[k])
          BY <1>2, <3>2, <4>3, <5>1 DEF RecordingInv, RunsAreProcesses, OfProcess, Row
        <5>3. r \in DOMAIN proc[k] /\ r \in DOMAIN proc'[k] /\ r # Len(proc[k]) + 1
          BY <4>1, <4>2, <5>2 DEF Extends
        <5>4. proc[k][r].cause = "cron"
          BY <3>2, <4>1, <5>3 DEF FreshCron
        <5>5. QED
          BY <1>2, <3>2, <4>3, <5>1, <5>4 DEF CronRunsSayCron
      <4>4. CASE i \notin DOMAIN rows[k]
        <5>1. Inserted(k, rows'[k][i])
          BY <4>1, <4>4 DEF RowsMove
        <5>2. ASSUME SampleInsert(k), r = todo[k].start
              PROVE  FALSE
          <6>1. todo[k].missing /\ UNCHANGED proc /\ phase \in Alive
            BY <5>2 DEF SampleInsert, UnchangedBySampler, Writing, Alive, Serving
          <6>2. /\ todo[k].start # 0 /\ ~Recorded(k, r)
                /\ r > origin[k] /\ r <= Len(proc[k])
            BY <1>2, <5>2, <6>1
            DEF RecordingInv, MissingIsMissing, RunsAreProcesses, OfProcess
          <6>3. r \in DOMAIN proc[k] /\ proc[k][r].cause = "cron"
            BY <3>2, <4>2, <5>2, <6>1, <6>2 DEF Work
          <6>4. sched.pc \in {"record", "insert"} /\ sched.key = k /\ sched.run = r
            BY <1>2, <6>1, <6>2, <6>3 DEF CronRecorded
          <6>5. QED
            BY <1>2, <5>2, <6>4 DEF RecordingInv, SchedulerIsAlone
        <5>3. QED
          BY <3>2, <5>1, <5>2 DEF Inserted
      <4>5. QED
        BY <4>3, <4>4
    <3>3. QED
      BY <3>1, <3>2 DEF CronRunsSayCron
  <2>3. QED
    BY <1>2, <2>1, <2>2
<1>3. QED
  BY <1>1, <1>2, RecordingAlways, PTL DEF Spec
-----------------------------------------------------------------------------
(* The operations on tasks and processes keep tasks sound, and lose track only of runs   *)
(* that are over.                                                                        *)

Sound(tasks, procs) == \A k \in Key : TaskSound(tasks[k], procs[k])

Follows(tasks, procs) ==
    \A k \in Key : \A r \in DOMAIN proc[k] :
        /\ r \in DOMAIN procs[k]
        /\ Over(proc[k], r) => Over(procs[k], r)
        /\ task[k].run = r => tasks[k].run = r \/ Over(procs[k], r)

LEMMA PolledFollows ==
    ASSUME TypeOK, TasksSound, NEW S
    PROVE  Sound(Polled(S), proc) /\ Follows(Polled(S), proc)
<1>1. ASSUME NEW k \in Key
      PROVE  Polled(S)[k].run = task[k].run /\ TaskSound(Polled(S)[k], proc[k])
  <2>1. task[k] \in TaskState /\ TaskSound(task[k], proc[k])
    BY DEF TypeOK, TasksSound
  <2>2. CASE Polled(S)[k] = task[k]
    BY <2>1, <2>2
  <2>3. CASE Polled(S)[k] # task[k]
    <3>1. task[k].child /\ Fate(k) # "live" /\ Polled(S)[k] = Poll(task[k], Fate(k))
      BY <2>3 DEF Polled, Poll
    <3>2. Over(proc[k], task[k].run)
      BY <2>1, <3>1 DEF TaskSound, Over, Fate
    <3>3. /\ Polled(S)[k].run = task[k].run /\ Polled(S)[k].generation = task[k].generation
          /\ ~Polled(S)[k].child /\ Polled(S)[k].status \in {"exited", "failed"}
      BY <2>1, <3>1 DEF Poll, TaskState
    <3>4. QED
      BY <2>1, <3>1, <3>2, <3>3 DEF TaskSound, Active
  <2>4. QED
    BY <2>2, <2>3
<1>2. QED
  BY <1>1 DEF Sound, Follows

LEMMA KilledFollows ==
    ASSUME TypeOK, NEW tasks \in Tasks, Sound(tasks, proc), Follows(tasks, proc), NEW S
    PROVE  /\ Sound(StopAll(S, tasks), Killed(S, tasks))
           /\ Follows(StopAll(S, tasks), Killed(S, tasks))
<1> DEFINE new(k) == [proc[k] EXCEPT ![tasks[k].run].fate = "killed"]
<1>1. ASSUME NEW k \in Key
      PROVE  /\ DOMAIN new(k) = DOMAIN proc[k]
             /\ \A i \in DOMAIN proc[k] :
                  new(k)[i].fate = IF i = tasks[k].run THEN "killed" ELSE proc[k][i].fate
  <2>1. proc[k] \in Seq(Process)
    BY DEF TypeOK
  <2>2. \A i \in DOMAIN proc[k] : proc[k][i] \in Process
    BY <2>1
  <2>3. QED
    BY <2>1, <2>2 DEF Process
<1>2. ASSUME NEW k \in Key
      PROVE  /\ Killed(S, tasks)[k] = IF k \in S /\ tasks[k].child THEN new(k) ELSE proc[k]
             /\ StopAll(S, tasks)[k] = IF k \in S THEN Stop(tasks[k]) ELSE tasks[k]
  BY DEF Killed, StopAll
<1>3. ASSUME NEW k \in Key
      PROVE  /\ DOMAIN Killed(S, tasks)[k] = DOMAIN proc[k]
             /\ \A r : Over(proc[k], r) => Over(Killed(S, tasks)[k], r)
             /\ k \in S /\ tasks[k].child => Over(Killed(S, tasks)[k], tasks[k].run)
  <2>1. tasks[k].child => tasks[k].run \in DOMAIN proc[k]
    BY DEF Sound, TaskSound
  <2> HIDE DEF new
  <2>2. QED
    BY <1>1, <1>2, <2>1 DEF Over
<1>4. ASSUME NEW k \in Key
      PROVE  /\ Stop(tasks[k]).run = tasks[k].run /\ ~Stop(tasks[k]).child
             /\ Stop(tasks[k]).generation = tasks[k].generation
             /\ ~Active(Stop(tasks[k]))
  BY DEF Stop, TaskState, Active
<1>5. ASSUME NEW k \in Key
      PROVE  TaskSound(StopAll(S, tasks)[k], Killed(S, tasks)[k])
  <2>1. TaskSound(tasks[k], proc[k])
    BY DEF Sound
  <2>2. QED
    BY <1>2, <1>3, <1>4, <2>1 DEF TaskSound
<1>6. Follows(StopAll(S, tasks), Killed(S, tasks))
  <2> SUFFICES ASSUME NEW k \in Key, NEW r \in DOMAIN proc[k]
               PROVE  /\ r \in DOMAIN Killed(S, tasks)[k]
                      /\ Over(proc[k], r) => Over(Killed(S, tasks)[k], r)
                      /\ task[k].run = r =>
                           \/ StopAll(S, tasks)[k].run = r
                           \/ Over(Killed(S, tasks)[k], r)
    BY DEF Follows
  <2>1. StopAll(S, tasks)[k].run = tasks[k].run
    BY <1>2, <1>4
  <2>2. QED
    BY <1>3, <2>1 DEF Follows
<1>7. QED
  BY <1>5, <1>6 DEF Sound

\* Processes added to some of the tasks' histories.
LEMMA SpawnedMore ==
    ASSUME NEW procs \in [Key -> Seq(Process)], NEW tasks, NEW S, NEW cause, NEW k \in Key
    PROVE  LET more == Spawned(S, tasks, procs, cause)[k]
           IN  /\ \A r \in DOMAIN procs[k] : r \in DOMAIN more
               /\ \A r : Over(procs[k], r) => Over(more, r)
               /\ k \in S => Len(procs[k]) + 1 \in DOMAIN more
<1> DEFINE new == [generation |-> tasks[k].generation + 1, cause |-> cause, fate |-> "live"]
           more == Spawned(S, tasks, procs, cause)[k]
<1>1. /\ DOMAIN Append(procs[k], new) = 1..(Len(procs[k]) + 1)
      /\ \A j \in 1..Len(procs[k]) : Append(procs[k], new)[j] = procs[k][j]
      /\ DOMAIN procs[k] = 1..Len(procs[k]) /\ Len(procs[k]) \in Nat
  OBVIOUS
<1>2. more = IF k \in S THEN Append(procs[k], new) ELSE procs[k]
  BY DEF Spawned
<1> HIDE DEF new, more
<1>3. CASE k \in S
  BY <1>1, <1>2, <1>3 DEF Over, more
<1>4. CASE k \notin S
  BY <1>2, <1>4 DEF Over, more
<1>5. QED
  BY <1>3, <1>4

LEMMA SpawnedFollows ==
    ASSUME TypeOK, NEW tasks \in Tasks,
           NEW procs \in [Key -> Seq(Process)], SameLengths(procs),
           Sound(tasks, procs), Follows(tasks, procs),
           NEW S, NEW up \in SUBSET Spawnable(S, tasks), NEW cause
    PROVE  /\ Sound(StartAll(up, tasks), Spawned(up, tasks, procs, cause))
           /\ Sound(tasks, Spawned(up, tasks, procs, cause))
           /\ Follows(StartAll(up, tasks), Spawned(up, tasks, procs, cause))
           /\ Follows(tasks, Spawned(up, tasks, procs, cause))
<1> DEFINE more == Spawned(up, tasks, procs, cause)
<1>1. ASSUME NEW k \in Key
      PROVE  /\ \A r \in DOMAIN procs[k] : r \in DOMAIN more[k]
             /\ \A r : Over(procs[k], r) => Over(more[k], r)
             /\ k \in up => Len(procs[k]) + 1 \in DOMAIN more[k]
  BY SpawnedMore
<1>2. ASSUME NEW k \in Key
      PROVE  TaskSound(tasks[k], more[k])
  <2>1. TaskSound(tasks[k], procs[k])
    BY DEF Sound
  <2> HIDE DEF more
  <2>2. QED
    BY <1>1, <2>1 DEF TaskSound
<1>3. ASSUME NEW k \in Key, k \in up
      PROVE  /\ StartAll(up, tasks)[k].run = Len(procs[k]) + 1
             /\ StartAll(up, tasks)[k].child /\ Active(StartAll(up, tasks)[k])
             /\ Len(procs[k]) + 1 # 0
             /\ ~tasks[k].child
  <2>1. Len(proc[k]) = Len(procs[k]) /\ Len(procs[k]) \in Nat
    BY DEF SameLengths
  <2>2. QED
    BY <1>3, <2>1 DEF StartAll, Start, Active, Spawnable
<1>4. ASSUME NEW k \in Key, k \notin up
      PROVE  StartAll(up, tasks)[k] = tasks[k]
  BY <1>4 DEF StartAll
<1>5. ASSUME NEW k \in Key
      PROVE  TaskSound(StartAll(up, tasks)[k], more[k])
  <2> HIDE DEF more
  <2>1. QED
    BY <1>1, <1>2, <1>3, <1>4 DEF TaskSound
<1>6. Follows(tasks, more)
  <2> HIDE DEF more
  <2>1. QED
    BY <1>1 DEF Follows
<1>7. Follows(StartAll(up, tasks), more)
  <2> HIDE DEF more
  <2> SUFFICES ASSUME NEW k \in Key, NEW r \in DOMAIN proc[k], task[k].run = r
               PROVE  StartAll(up, tasks)[k].run = r \/ Over(more[k], r)
    BY <1>6 DEF Follows
  <2>1. CASE k \in up
    <3>1. proc[k] \in Seq(Process)
      BY DEF TypeOK
    <3>2. r # 0
      BY <3>1
    <3>3. tasks[k].run = r \/ Over(procs[k], r)
      BY DEF Follows
    <3>4. tasks[k].run = r => Over(procs[k], r)
      BY <1>3, <2>1, <3>2 DEF Sound, TaskSound
    <3>5. QED
      BY <1>1, <3>3, <3>4
  <2>2. CASE k \notin up
    BY <1>4, <1>6, <2>2 DEF Follows
  <2>3. QED
    BY <2>1, <2>2
<1>8. QED
  BY <1>2, <1>5, <1>6, <1>7 DEF Sound

Moves(tasks, procs) == Sound(tasks, procs) /\ Follows(tasks, procs)

LEMMA StandsStill ==
    ASSUME TasksSound
    PROVE  Moves(task, proc)
  BY DEF TasksSound, Sound, Follows, Moves

LEMMA StartsMove ==
    ASSUME TypeOK, NEW tasks \in Tasks,
           NEW procs \in [Key -> Seq(Process)], SameLengths(procs), Moves(tasks, procs),
           NEW S, NEW up \in SUBSET Spawnable(S, tasks), NEW cause,
           proc' = Spawned(up, tasks, procs, cause),
           task' = StartAll(up, tasks) \/ task' = tasks
    PROVE  Moves(task', proc')
  BY SpawnedFollows DEF Moves

LEMMA RegisterMoves ==
    ASSUME TypeOK, TasksSound, AbsentIsNew, NEW s \in Session, Register(s)
    PROVE  Moves(task', proc')
<1> DEFINE fresh == [k \in Key |-> IF k \in KeysOf(s) THEN NewTask ELSE task[k]]
<1>1. \A k \in KeysOf(s) : k[1] = s
  BY DEF KeysOf
<1>2. fresh = task
  BY <1>1 DEF Register, AbsentIsNew, TypeOK
<1>3. PICK up \in SUBSET Spawnable(AutoStart \cap KeysOf(s), fresh) :
         /\ proc' = Spawned(up, fresh, proc, "auto_start")
         /\ task' = StartAll(up, fresh) \/ task' = task
  BY DEF Register
<1>4. SameLengths(proc) /\ proc \in [Key -> Seq(Process)] /\ task \in Tasks
  BY DEF SameLengths, TypeOK
<1> HIDE DEF fresh
<1>5. QED
  BY <1>2, <1>3, <1>4, StandsStill, StartsMove

LEMMA NewIsSound == ASSUME NEW history PROVE TaskSound(NewTask, history)
  BY DEF TaskSound, NewTask, Active

LEMMA RemoveMoves ==
    ASSUME TypeOK, TasksSound, NEW s \in Session, RemoveSession(s)
    PROVE  Moves(task', proc')
<1>1. CASE s \notin present
  BY <1>1, StandsStill DEF RemoveSession
<1>2. CASE s \in present
  <2> DEFINE polled == Polled(KeysOf(s))
             killed == Killed(KeysOf(s), polled)
             stopped == StopAll(KeysOf(s), polled)
  <2>1. polled \in Tasks /\ Sound(polled, proc) /\ Follows(polled, proc)
    BY PolledType, PolledFollows
  <2>2. Sound(stopped, killed) /\ Follows(stopped, killed)
    BY <2>1, KilledFollows
  <2>3. \A k \in Key : /\ k \notin KeysOf(s) => stopped[k] = task[k] /\ task'[k] = task[k]
                       /\ k \in KeysOf(s) => task'[k] = NewTask /\ ~stopped[k].child
    BY <1>2, <2>1 DEF RemoveSession, StopAll, Polled, Stop, TaskState
  <2>4. proc' = killed
    BY <1>2 DEF RemoveSession
  <2>5. \A k \in Key : proc[k] \in Seq(Process)
    BY DEF TypeOK
  <2> HIDE DEF polled, killed, stopped
  <2>6. Sound(task', killed)
    BY <2>2, <2>3, NewIsSound DEF Sound
  <2>7. ASSUME NEW k \in Key, NEW r \in DOMAIN proc[k], task[k].run = r
        PROVE  task'[k].run = r \/ Over(killed[k], r)
    <3>1. CASE k \in KeysOf(s)
      <4>1. stopped[k].run = r => Over(killed[k], r)
        <5>1. r # 0
          BY <2>5
        <5>2. QED
          BY <2>2, <2>3, <3>1, <5>1 DEF Sound, TaskSound
      <4>2. QED
        BY <2>2, <2>7, <4>1 DEF Follows
    <3>2. CASE k \notin KeysOf(s)
      BY <2>3, <2>7, <3>2
    <3>3. QED
      BY <3>1, <3>2
  <2>8. Follows(task', killed)
    BY <2>2, <2>7 DEF Follows
  <2>9. QED
    BY <2>4, <2>6, <2>8 DEF Moves
<1>3. QED
  BY <1>1, <1>2

LEMMA StopMoves ==
    ASSUME TypeOK, TasksSound, NEW P, NEW S,
           task' = StopAll(S, Polled(P)), proc' = Killed(S, Polled(P))
    PROVE  Moves(task', proc')
<1>1. Polled(P) \in Tasks /\ Sound(Polled(P), proc) /\ Follows(Polled(P), proc)
  BY PolledType, PolledFollows
<1>2. QED
  BY <1>1, KilledFollows DEF Moves

LEMMA RestartMoves ==
    ASSUME TypeOK, TasksSound, NEW c \in Client, ApplyRestart(c)
    PROVE  Moves(task', proc')
<1> DEFINE polled  == Polled(KeysOf(req[c].session))
           stopped == StopAll(Target(c), polled)
           killed  == Killed(Target(c), polled)
<1>1. polled \in Tasks /\ Sound(polled, proc) /\ Follows(polled, proc)
  BY PolledType, PolledFollows
<1>2. stopped \in Tasks
  BY <1>1, StopAllType
<1>3. killed \in [Key -> Seq(Process)] /\ SameLengths(killed)
  BY <1>1, KilledType, KilledKeeps
<1>4. Moves(stopped, killed)
  BY <1>1, KilledFollows DEF Moves
<1>5. PICK up \in SUBSET Spawnable(Target(c), stopped) :
         task' = StartAll(up, stopped) /\ proc' = Spawned(up, stopped, killed, "manual")
  BY DEF ApplyRestart
<1> HIDE DEF polled, stopped, killed
<1>6. QED
  BY <1>2, <1>3, <1>4, <1>5, StartsMove

LEMMA PauseMoves ==
    ASSUME TypeOK, TasksSound, NEW c \in Client, ApplyPause(c) \/ ApplyResume(c)
    PROVE  Moves(task', proc')
<1> DEFINE polled == Polled(Target(c))
<1>1. polled \in Tasks /\ Sound(polled, proc) /\ Follows(polled, proc)
  BY PolledType, PolledFollows
<1>2. \A k \in Key : task'[k] \in {Pause(polled[k]), Resume(polled[k]), task[k]}
  BY DEF ApplyPause, ApplyResume
<1>3. \A k \in Key : \A t \in {Pause(polled[k]), Resume(polled[k])} :
         /\ t.run = polled[k].run /\ t.child = polled[k].child
         /\ t.generation = polled[k].generation
         /\ Active(t) <=> Active(polled[k])
  BY <1>1 DEF Pause, Resume, TaskState, Active
<1>4. UNCHANGED proc
  BY DEF ApplyPause, ApplyResume
<1> HIDE DEF polled
<1>5. Sound(task', proc)
  <2> SUFFICES ASSUME NEW k \in Key PROVE TaskSound(task'[k], proc[k])
    BY DEF Sound
  <2>1. TaskSound(polled[k], proc[k]) /\ TaskSound(task[k], proc[k])
    BY <1>1 DEF Sound, TasksSound
  <2>2. QED
    BY <1>2, <1>3, <2>1 DEF TaskSound
<1>6. Follows(task', proc)
  BY <1>1, <1>2, <1>3 DEF Follows
<1>7. QED
  BY <1>4, <1>5, <1>6 DEF Moves

LEMMA EndMoves ==
    ASSUME TypeOK, TasksSound, NEW k \in Key, NEW i \in 1..MaxRuns, ProcessEnds(k, i)
    PROVE  Moves(task', proc')
<1>1. PICK fate \in Endings : proc' = [proc EXCEPT ![k][i].fate = fate]
  BY DEF ProcessEnds
<1>2. fate # "live" /\ proc[k] \in Seq(Process) /\ UNCHANGED task
  BY EndingsAssumption DEF TypeOK, ProcessEnds, memory
<1>3. \A j \in DOMAIN proc[k] : proc[k][j] \in Process
  BY <1>2
<1>4. /\ DOMAIN proc'[k] = DOMAIN proc[k]
      /\ \A j \in DOMAIN proc[k] : proc[k][j].fate # "live" => proc'[k][j].fate # "live"
  BY <1>1, <1>2, <1>3 DEF TypeOK, Process
<1>5. \A l \in Key : l # k => proc'[l] = proc[l]
  BY <1>1 DEF TypeOK
<1>6. \A l \in Key : DOMAIN proc'[l] = DOMAIN proc[l] /\ \A r : Over(proc[l], r) => Over(proc'[l], r)
  BY <1>4, <1>5 DEF Over
<1>7. ASSUME NEW l \in Key
      PROVE  TaskSound(task'[l], proc'[l])
  <2>1. TaskSound(task[l], proc[l])
    BY DEF TasksSound
  <2>2. QED
    BY <1>2, <1>6, <2>1 DEF TaskSound
<1>8. QED
  BY <1>2, <1>6, <1>7 DEF Moves, Sound, Follows

LEMMA MovesByStep ==
    ASSUME TypeOK, TasksSound, AbsentIsNew, Next, ~Exit, ~Crash
    PROVE  Moves(task', proc')
<1>1. CASE UNCHANGED <<task, proc>>
  BY <1>1, StandsStill
<1>2. ASSUME NEW S, task' = Polled(S), UNCHANGED proc
      PROVE  Moves(task', proc')
  BY <1>2, PolledFollows DEF Moves
<1>3. SameLengths(proc) /\ proc \in [Key -> Seq(Process)] /\ task \in Tasks
  BY DEF SameLengths, TypeOK
<1>4. ASSUME NEW S, NEW P, NEW up \in SUBSET Spawnable(P, Polled(S)), NEW cause,
             task' = StartAll(up, Polled(S)), proc' = Spawned(up, Polled(S), proc, cause)
      PROVE  Moves(task', proc')
  <2>1. Polled(S) \in Tasks /\ Moves(Polled(S), proc)
    BY PolledType, PolledFollows DEF Moves
  <2>2. QED
    BY <1>3, <1>4, <2>1, StartsMove
<1>5. ASSUME NEW s \in Session, Register(s) \/ RemoveSession(s) \/ Snapshot(s)
      PROVE  Moves(task', proc')
  BY <1>2, <1>5, RegisterMoves, RemoveMoves DEF Snapshot
<1>6. ASSUME NEW c \in Client, Handler(c)
      PROVE  Moves(task', proc')
  <2>1. CASE \E s \in Session, labels \in Targets, a \in Actions : CheckAction(c, s, labels, a)
    BY <1>1, <2>1 DEF CheckAction
  <2>2. CASE ApplyToMissing(c) \/ FinishStopped(c)
    BY <1>1, <2>2 DEF ApplyToMissing, FinishStopped
  <2>3. CASE ApplyStart(c)
    BY <1>4, <2>3 DEF ApplyStart
  <2>4. CASE ApplyStop(c)
    BY <2>4, StopMoves DEF ApplyStop
  <2>5. CASE ApplyRestart(c)
    BY <2>5, RestartMoves
  <2>6. CASE ApplyPause(c) \/ ApplyResume(c)
    BY <2>6, PauseMoves
  <2>7. QED
    BY <1>6, <2>1, <2>2, <2>3, <2>4, <2>5, <2>6 DEF Handler
<1>7. CASE SchedulerStep
  <2>1. CASE \E k \in Key : ScheduleDue(k)
    BY <1>2, <2>1 DEF ScheduleDue
  <2>2. CASE ScheduleStart
    <3>1. \/ UNCHANGED <<task, proc>>
          \/ task' = Polled({sched.key}) /\ UNCHANGED proc
          \/ \E up \in SUBSET Spawnable({sched.key}, Polled({sched.key})) :
               /\ task' = StartAll(up, Polled({sched.key}))
               /\ proc' = Spawned(up, Polled({sched.key}), proc, "cron")
      BY <2>2 DEF ScheduleStart
    <3>2. QED
      BY <1>1, <1>2, <1>4, <3>1
  <2>3. CASE ScheduleRecord \/ ScheduleInsert \/ ScheduleSkip
    BY <1>1, <2>3 DEF ScheduleRecord, ScheduleInsert, ScheduleSkip
  <2>4. CASE ScheduleFail
    BY <1>1, <1>2, <2>4 DEF ScheduleFail
  <2>5. QED
    BY <1>7, <2>1, <2>2, <2>3, <2>4 DEF SchedulerStep
<1>8. CASE Collect
  BY <1>2, <1>8 DEF Collect
<1>9. ASSUME NEW k \in Key, SampleWrite(k)
      PROVE  Moves(task', proc')
  BY <1>1, <1>9
  DEF SampleWrite, SamplePrevious, SampleCheck, SampleInsert, SampleEnd, UnchangedBySampler
<1>10. ASSUME NEW k \in Key, NEW i \in 1..MaxRuns, ProcessEnds(k, i)
       PROVE  Moves(task', proc')
  BY <1>10, EndMoves
<1>11. CASE Lifecycle
  <2>1. CASE Shutdown \/ CloseHistory
    BY <1>1, <2>1 DEF Shutdown, CloseHistory, memory
  <2>2. CASE StopTasks
    BY <2>2, StopMoves DEF StopTasks
  <2>3. CASE Load
    <3>1. PICK lost \in SUBSET registered :
             \E up \in SUBSET Spawnable(AutoStart \cap ((registered \ lost) \X Label), task) :
                task' = StartAll(up, task) /\ proc' = Spawned(up, task, proc, "auto_start")
      BY <2>3 DEF Load
    <3>2. QED
      BY <1>3, <3>1, StandsStill, StartsMove
  <2>4. QED
    BY <1>11, <2>1, <2>2, <2>3 DEF Lifecycle
<1>12. QED
  BY <1>5, <1>6, <1>7, <1>8, <1>9, <1>10, <1>11 DEF Next

LEMMA TasksSoundStep ==
    ASSUME TypeOK, TasksSound, AbsentIsNew, Next
    PROVE  TasksSound'
<1>1. CASE Exit \/ Crash
  BY <1>1, NewIsSound DEF Exit, Crash, MemoryGone, TasksSound
<1>2. CASE ~Exit /\ ~Crash
  BY <1>2, MovesByStep DEF Moves, Sound, TasksSound
<1>3. QED
  BY <1>1, <1>2

NowOverOf(k, g) ==
    \E j \in DOMAIN proc'[k] :
        j > origin'[k] /\ proc'[k][j].generation = g /\ Over(proc'[k], j)

\* A run that is over stays over; and with it every run of a generation that is.
LEMMA StaysOver ==
    ASSUME TypeOK, TasksSound, AbsentIsNew, Next, NEW k \in Key
    PROVE  /\ \A r : Over(proc[k], r) => Over(proc'[k], r)
           /\ ~Load => \A g : OverOf(k, g) => NowOverOf(k, g)
<1>1. \A r : Over(proc[k], r) => Over(proc'[k], r)
  <2>1. CASE Exit \/ Crash
    BY <2>1 DEF Exit, Crash
  <2>2. CASE ~Exit /\ ~Crash
    BY <2>2, MovesByStep DEF Moves, Follows, Over
  <2>3. QED
    BY <2>1, <2>2
<1>2. ASSUME ~Load, NEW g, OverOf(k, g)
      PROVE  NowOverOf(k, g)
  <2>1. PICK j \in DOMAIN proc[k] :
           j > origin[k] /\ proc[k][j].generation = g /\ Over(proc[k], j)
    BY <1>2 DEF OverOf
  <2>2. j \in DOMAIN proc'[k] /\ Over(proc'[k], j)
    BY <1>1, <2>1 DEF Over
  <2>3. j \in 1..Len(proc[k])
    BY DEF TypeOK
  <2>4. proc'[k][j].generation = g
    BY <2>1, <2>3, TasksAndProcs DEF Extends
  <2>5. origin' = origin
    BY <1>2, OriginMoves
  <2>6. QED
    BY <2>1, <2>2, <2>4, <2>5 DEF NowOverOf
<1>3. QED
  BY <1>1, <1>2

NowSettled(k, r) == Over(proc'[k], r) \/ task'[k].run = r

LEMMA StaysSettled ==
    ASSUME TypeOK, TasksSound, AbsentIsNew, Next, ~Exit, ~Crash, NEW k \in Key,
           NEW r \in DOMAIN proc[k], Settled(k, r)
    PROVE  NowSettled(k, r)
  BY MovesByStep DEF Moves, Follows, Settled, NowSettled
-----------------------------------------------------------------------------
(* Runs on record are settled.                                                           *)

LEMMA ScheduledRunIsTheTasks ==
    ASSUME TypeOK, ScheduleStart, sched'.pc \in {"record", "insert"}
    PROVE  task'[sched'.key].run = sched'.run
<1> DEFINE k == sched.key
           polled == Polled({k})
<1>1. k \in Key
  BY DEF ScheduleStart, Scheduler, TypeOK, SchedulerStates, Idle
<1>2. PICK up \in SUBSET Spawnable({k}, polled) :
         /\ task' = StartAll(up, polled)
         /\ IF up = {k}
            THEN sched' = [pc |-> "record", key |-> k,
                           generation |-> polled[k].generation + 1, run |-> Len(proc[k]) + 1]
            ELSE sched' = [pc |-> "fail", key |-> k]
  <2>1. k \in PresentKeys /\ ~Active(polled[k])
    <3>1. CASE k \notin PresentKeys
      <4>1. sched' = [pc |-> "fail", key |-> k]
        BY <3>1 DEF ScheduleStart
      <4>2. QED
        BY <4>1
    <3>2. CASE k \in PresentKeys /\ Active(polled[k])
      <4>1. sched' = [pc |-> "skip", key |-> k, generation |-> polled[k].generation]
        BY <3>2 DEF ScheduleStart
      <4>2. QED
        BY <4>1
    <3>3. QED
      BY <3>1, <3>2
  <2>2. QED
    BY <2>1 DEF ScheduleStart, LockWhileRecording
<1>3. up = {k}
  <2>1. up # {k} => sched' = [pc |-> "fail", key |-> k]
    BY <1>2
  <2>2. QED
    BY <2>1
<1> HIDE DEF k, polled
<1>4. sched'.key = k /\ sched'.run = Len(proc[k]) + 1 /\ task' = StartAll({k}, polled)
  BY <1>2, <1>3
<1>5. QED
  BY <1>1, <1>4 DEF StartAll, Start

LEMMA NothingAlive ==
    ASSUME TypeOK, AbsentIsNew, StopTasks, NEW k \in Key
    PROVE  ~task'[k].child
<1>1. task' = StopAll(PresentKeys, Polled(PresentKeys))
  BY DEF StopTasks
<1>2. CASE k \in PresentKeys
  <2>1. Polled(PresentKeys)[k] \in TaskState
    BY PolledType
  <2>2. task'[k] = Stop(Polled(PresentKeys)[k])
    BY <1>1, <1>2 DEF StopAll
  <2>3. QED
    BY <2>1, <2>2 DEF Stop, TaskState
<1>3. CASE k \notin PresentKeys
  <2>1. task[k] = NewTask
    BY <1>3 DEF AbsentIsNew, PresentKeys, Key
  <2>2. task'[k] = task[k]
    BY <1>1, <1>3 DEF StopAll, Polled
  <2>3. QED
    BY <2>1, <2>2 DEF NewTask
<1>4. QED
  BY <1>2, <1>3

LEMMA RunIsProcess ==
    ASSUME TypeOK, RunsAreProcesses, NEW k \in Key, NEW r \in Nat,
           r > origin[k], r <= Len(proc[k])
    PROVE  r \in DOMAIN proc[k] /\ r # 0
<1>1. proc[k] \in Seq(Process) /\ origin[k] \in Nat
  BY DEF TypeOK
<1>2. QED
  BY <1>1

LEMMA RowsSettledStep ==
    ASSUME TypeOK, RecordingInv, AbsentIsNew, TasksSound, RunsSettled, Next, ~Load,
           phase' \in Alive, NEW k \in Key, NEW i \in DOMAIN rows'[k],
           rows'[k][i].run > origin[k]
    PROVE  NowSettled(k, rows'[k][i].run)
<1>1. phase \in Alive /\ ~Exit /\ ~Crash
  BY AliveBefore DEF Exit, Crash, Alive, Serving
<1>2. RowsMove(k) /\ rows[k] \in Seq(Row) /\ todo[k] \in Work /\ origin[k] \in Nat
  BY RowsMoveByStep DEF TypeOK
<1>3. CASE i \in DOMAIN rows[k]
  <2>1. rows[k][i].run = rows'[k][i].run /\ rows[k][i] \in Row
    BY <1>2, <1>3 DEF RowsMove, Aged
  <2>2. rows[k][i].run \in Nat /\ rows[k][i].run <= Len(proc[k]) /\ rows[k][i].run # 0
    BY <1>2, <1>3, <2>1 DEF RecordingInv, RunsAreProcesses, OfProcess, Row
  <2>3. rows[k][i].run \in DOMAIN proc[k]
    BY <2>1, <2>2, RunIsProcess DEF RecordingInv
  <2>4. Settled(k, rows[k][i].run)
    BY <1>1, <1>3, <2>1 DEF RunsSettled
  <2>5. QED
    BY <1>1, <2>1, <2>3, <2>4, StaysSettled
<1>4. CASE i \notin DOMAIN rows[k]
  <2>1. Inserted(k, rows'[k][i])
    BY <1>2, <1>4 DEF RowsMove
  <2>2. CASE ScheduleInsert /\ k = sched.key /\ rows'[k][i].run = sched.run
    <3>1. sched.pc = "insert" /\ sched.run \in Nat
      BY <2>2 DEF ScheduleInsert, Scheduler, TypeOK, SchedulerStates, Idle
    <3>2. sched.run = Len(proc[k]) /\ sched.run > origin[k]
      BY <2>2, <3>1 DEF RecordingInv, SchedulerIsAlone
    <3>3. sched.run \in DOMAIN proc[k]
      BY <3>1, <3>2, RunIsProcess DEF RecordingInv
    <3>4. Settled(k, sched.run)
      BY <1>1, <2>2, <3>1 DEF RunsSettled
    <3>5. QED
      BY <1>1, <2>2, <3>3, <3>4, StaysSettled
  <2>3. CASE SampleInsert(k) /\ rows'[k][i].run = todo[k].start
    <3>1. todo[k].start # 0 /\ todo[k].start \in Nat
      BY <1>2, <2>3 DEF SampleInsert, RecordingInv, MissingIsMissing, Work
    <3>2. todo[k].start > origin[k] /\ todo[k].start <= Len(proc[k])
      BY <3>1 DEF RecordingInv, RunsAreProcesses, OfProcess
    <3>3. todo[k].start \in DOMAIN proc[k]
      BY <3>1, <3>2, RunIsProcess DEF RecordingInv
    <3>4. Settled(k, todo[k].start)
      BY <1>1, <3>1 DEF RunsSettled
    <3>5. QED
      BY <1>1, <2>3, <3>3, <3>4, StaysSettled
  <2>4. QED
    BY <1>2, <2>1, <2>2, <2>3 DEF Inserted
<1>5. QED
  BY <1>3, <1>4

LEMMA RunsSettledStep ==
    ASSUME TypeOK, RecordingInv, AbsentIsNew, TasksSound, RunsSettled, Next
    PROVE  RunsSettled'
<1>1. ASSUME phase' \in Alive, NEW k \in Key
      PROVE  /\ \A i \in DOMAIN rows'[k] :
                  rows'[k][i].run > origin'[k] => NowSettled(k, rows'[k][i].run)
             /\ todo'[k].start # 0 => NowSettled(k, todo'[k].start)
             /\ sched'.pc \in {"record", "insert"} /\ sched'.key = k => NowSettled(k, sched'.run)
  <2>1. CASE Load
    <3>1. /\ rows'[k] = FinishRunning(rows[k], "failed") /\ rows[k] \in Seq(Row)
          /\ origin'[k] = Len(proc[k]) /\ UNCHANGED <<sched, todo>>
          /\ phase \in {"down", "exited"} /\ proc[k] \in Seq(Process)
      BY <2>1 DEF Load, TypeOK
    <3>2. Ages(rows'[k], rows[k])
      BY <3>1, FinishRunningCloses, ClosesAges DEF RowStatuses
    <3>3. ASSUME NEW i \in DOMAIN rows'[k]
          PROVE  ~(rows'[k][i].run > origin'[k])
      <4>1. i \in DOMAIN rows[k] /\ rows[k][i] \in Row /\ rows'[k][i].run = rows[k][i].run
        BY <3>1, <3>2 DEF Ages, Aged
      <4>2. rows[k][i].run = 0 \/ rows[k][i].run <= Len(proc[k])
        BY <4>1 DEF RecordingInv, RunsAreProcesses, OfProcess
      <4>3. rows[k][i].run \in Nat /\ Len(proc[k]) \in Nat
        BY <3>1, <4>1 DEF Row
      <4>4. QED
        BY <3>1, <4>1, <4>2, <4>3
    <3>4. sched = Idle /\ todo[k].start = 0
      BY <3>1 DEF RecordingInv, ThreadsGone, ThreadsJoined, Serving, Nothing
    <3>5. QED
      BY <3>1, <3>3, <3>4 DEF Idle
  <2>2. CASE ~Load
    <3>1. phase \in Alive /\ ~Exit /\ ~Crash /\ origin' = origin
      BY <1>1, <2>2, AliveBefore, OriginMoves DEF Exit, Crash, Alive, Serving
    <3>2. \A i \in DOMAIN rows'[k] :
             rows'[k][i].run > origin'[k] => NowSettled(k, rows'[k][i].run)
      BY <1>1, <2>2, <3>1, RowsSettledStep
    <3>3. todo'[k].start # 0 => NowSettled(k, todo'[k].start)
      <4> SUFFICES ASSUME todo'[k].start # 0 PROVE NowSettled(k, todo'[k].start)
        OBVIOUS
      <4>1. CASE todo'[k].start = todo[k].start
        <5>1. todo[k].start \in Nat /\ todo[k].start # 0
          BY <4>1 DEF TypeOK, Work
        <5>2. todo[k].start \in DOMAIN proc[k]
          BY <5>1, RunIsProcess DEF RecordingInv, RunsAreProcesses, OfProcess
        <5>3. Settled(k, todo[k].start)
          BY <3>1, <5>1 DEF RunsSettled
        <5>4. QED
          BY <3>1, <4>1, <5>2, <5>3, StaysSettled
      <4>2. CASE todo'[k].start = task'[k].run
        BY <4>2 DEF NowSettled
      <4>3. QED
        BY <4>1, <4>2, TodoMovesByStep DEF TodoMoves
    <3>4. sched'.pc \in {"record", "insert"} /\ sched'.key = k => NowSettled(k, sched'.run)
      <4> SUFFICES ASSUME sched'.pc \in {"record", "insert"}, sched'.key = k
                   PROVE  NowSettled(k, sched'.run)
        OBVIOUS
      <4>1. CASE ScheduleStart
        BY <4>1, ScheduledRunIsTheTasks DEF NowSettled
      <4>2. CASE ~ScheduleStart
        <5>1. Recording /\ sched'.key = sched.key /\ sched'.run = sched.run
          BY <4>2, SchedMovesByStep DEF SchedMoves, RecordingInv
        <5>2. sched.run \in Nat /\ sched.run = Len(proc[k]) /\ sched.run > origin[k]
          BY <5>1 DEF Recording, TypeOK, SchedulerStates, Idle, RecordingInv, SchedulerIsAlone
        <5>3. sched.run \in DOMAIN proc[k]
          BY <5>2, RunIsProcess DEF RecordingInv
        <5>4. Settled(k, sched.run)
          BY <3>1, <5>1 DEF RunsSettled, Recording
        <5>5. QED
          BY <3>1, <5>1, <5>3, <5>4, StaysSettled
      <4>3. QED
        BY <4>1, <4>2
    <3>5. QED
      BY <3>2, <3>3, <3>4
  <2>3. QED
    BY <2>1, <2>2
<1>2. ASSUME phase' \in {"stopped", "exiting"}, NEW k \in Key, NEW i \in DOMAIN rows'[k],
             rows'[k][i].run > origin'[k]
      PROVE  Over(proc'[k], rows'[k][i].run)
  <2>1. phase' \in Alive /\ ~Load /\ rows[k] \in Seq(Row) /\ origin[k] \in Nat
    BY <1>2 DEF Alive, Serving, Load, TypeOK
  <2>2. origin' = origin
    BY <2>1, OriginMoves
  <2>3. CASE StopTasks
    <3>1. NowSettled(k, rows'[k][i].run)
      BY <1>1, <1>2, <2>1
    <3>2. TaskSound(task'[k], proc'[k])
      BY TasksSoundStep DEF TasksSound
    <3>3. rows'[k][i].run # 0
      BY <1>2, <2>1, <2>2
    <3>4. QED
      BY <2>3, <3>1, <3>2, <3>3, NothingAlive DEF NowSettled, TaskSound
  <2>4. CASE ~StopTasks
    <3>1. phase \in {"stopped", "exiting"}
      <4>1. ASSUME Lifecycle
            PROVE  phase \in {"stopped", "exiting"}
        BY <1>2, <2>4, <4>1 DEF Lifecycle, Shutdown, CloseHistory, Exit, Crash, Load
      <4>2. ~Lifecycle => phase' = phase
        BY DEF Next, Register, RemoveSession, Snapshot, Handler, CheckAction,
           ApplyToMissing, ApplyStart, ApplyStop, ApplyRestart, ApplyPause, ApplyResume,
           FinishStopped, SchedulerStep, ScheduleDue, ScheduleStart, ScheduleRecord,
           ScheduleInsert, ScheduleSkip, ScheduleFail, UnchangedByScheduler, Collect,
           SampleWrite, SamplePrevious, SampleCheck, SampleInsert, SampleEnd,
           UnchangedBySampler, ProcessEnds
      <4>3. QED
        BY <1>2, <4>1, <4>2
    <3>2. ~ScheduleInsert /\ ~SampleInsert(k)
      BY <3>1
      DEF RecordingInv, ThreadsGone, ThreadsJoined, Serving, ScheduleInsert, Scheduler, Idle,
          SampleInsert, Writing
    <3>3. RowsMove(k)
      BY RowsMoveByStep
    <3>4. i \in DOMAIN rows[k]
      BY <1>2, <2>1, <2>2, <3>2, <3>3 DEF RowsMove, Inserted
    <3>5. rows'[k][i].run = rows[k][i].run
      BY <3>3, <3>4 DEF RowsMove, Aged
    <3>6. Over(proc[k], rows[k][i].run)
      BY <1>2, <2>2, <3>1, <3>4, <3>5 DEF RunsSettled
    <3>7. QED
      BY <3>5, <3>6, StaysOver
  <2>5. QED
    BY <2>3, <2>4
<1>3. QED
  BY <1>1, <1>2 DEF RunsSettled, Settled, NowSettled
-----------------------------------------------------------------------------
(* Whoever closes a row knows of a run that is over.                                     *)

\* A task's run, as seen by an operation that polled it.
LEMMA TheTasksRun ==
    ASSUME TypeOK, RunsAreProcesses, TasksSound, NEW k \in Key, NEW S,
           Polled(S)[k].run # 0
    PROVE  LET r == Polled(S)[k].run
           IN  /\ r = task[k].run
               /\ r \in DOMAIN proc[k] /\ r > origin[k]
               /\ proc[k][r].generation = Polled(S)[k].generation
               /\ ~Polled(S)[k].child => Over(proc[k], r)
<1>1. Polled(S)[k].run = task[k].run /\ Polled(S)[k].generation = task[k].generation
  BY PolledKeeps DEF SameRun
<1>2. TaskSound(Polled(S)[k], proc[k])
  BY PolledFollows DEF Sound
<1>3. QED
  BY <1>1, <1>2 DEF TaskSound, RunsAreProcesses, OfProcess

LEMMA StoppedRunIsOver ==
    ASSUME TypeOK, RecordingInv, AbsentIsNew, TasksSound, Next,
           NEW c \in Client, ApplyStop(c) \/ ApplyRestart(c), req'[c].pc = "applied",
           NEW l \in Label, req'[c].stopped[l] > 0
    PROVE  /\ req'[c].session = req[c].session
           /\ NowOverOf(<<req[c].session, l>>, req'[c].stopped[l])
<1> DEFINE S == KeysOf(req[c].session)
           polled == Polled(S)
           k == <<req[c].session, l>>
<1>1. req[c].pc = "gated" /\ req[c].session \in Session /\ req[c].labels \in SUBSET Label
  <2>1. req[c].pc = "gated" /\ req[c] \in Requests
    BY DEF ApplyStop, ApplyRestart, Applying, TypeOK
  <2>2. req[c] \in [pc : {"gated"}, session : Session, labels : SUBSET Label, action : Actions]
    BY <2>1 DEF Requests, Idle
  <2>3. QED
    BY <2>1, <2>2
<1>2. req'[c] = [pc |-> "applied", session |-> req[c].session, stopped |-> PreStopRuns(c, polled)]
  <2>1. CASE ApplyStop(c)
    BY <2>1 DEF ApplyStop, TypeOK
  <2>2. CASE ApplyRestart(c)
    <3>1. \/ req' = [req EXCEPT ![c] = [pc |-> "applied", session |-> req[c].session,
                                       stopped |-> PreStopRuns(c, polled)]]
          \/ req' = [req EXCEPT ![c] = Idle]
      BY <2>2 DEF ApplyRestart
    <3>2. req' # [req EXCEPT ![c] = Idle]
      BY DEF Idle, TypeOK
    <3>3. QED
      BY <3>1, <3>2 DEF TypeOK
  <2>3. QED
    BY <2>1, <2>2
<1>3. k \in Key
  BY <1>1 DEF Key
<1>4. req'[c].stopped[l] = IF l \in req[c].labels /\ Active(polled[k])
                           THEN polled[k].generation ELSE 0
  BY <1>2 DEF PreStopRuns
<1>5. l \in req[c].labels /\ Active(polled[k]) /\ req'[c].stopped[l] = polled[k].generation
  BY <1>4
<1>6. k \in Target(c)
  BY <1>5 DEF Target
<1> DEFINE r == polled[k].run
<1>7. TaskSound(polled[k], proc[k]) /\ polled[k] \in TaskState /\ polled \in Tasks
  BY <1>3, PolledFollows, PolledType DEF Sound
<1>8. polled[k].child /\ r # 0
  BY <1>5, <1>7 DEF TaskSound
<1>9. /\ r = task[k].run /\ r \in DOMAIN proc[k] /\ r > origin[k]
      /\ proc[k][r].generation = polled[k].generation
  BY <1>3, <1>8, TheTasksRun DEF RecordingInv
<1>10. Sound(task', proc') /\ Follows(task', proc')
  <2>1. phase' = phase /\ phase \in Alive
    BY DEF ApplyStop, ApplyRestart, Applying
  <2>2. ~Exit /\ ~Crash
    BY <2>1 DEF Exit, Crash, Alive, Serving
  <2>3. QED
    BY <2>2, MovesByStep DEF Moves
<1>11. Over(proc'[k], r)
  <2>1. task'[k].run = r \/ Over(proc'[k], r)
    BY <1>3, <1>9, <1>10 DEF Follows
  <2>2. Stop(polled[k]).run = r /\ ~Stop(polled[k]).child
    BY <1>7 DEF Stop, TaskState
  <2>3. task'[k].run = r => ~task'[k].child
    <3>1. CASE ApplyStop(c)
      BY <1>3, <1>6, <2>2, <3>1 DEF ApplyStop, StopAll
    <3>2. CASE ApplyRestart(c)
      <4> DEFINE stopped == StopAll(Target(c), polled)
      <4>1. PICK up \in SUBSET Spawnable(Target(c), stopped) : task' = StartAll(up, stopped)
        BY <3>2 DEF ApplyRestart
      <4>2. stopped[k] = Stop(polled[k])
        BY <1>3, <1>6 DEF StopAll
      <4>3. proc[k] \in Seq(Process)
        BY <1>3 DEF TypeOK
      <4> HIDE DEF stopped, polled, r
      <4>4. r # Len(proc[k]) + 1
        BY <1>9, <4>3
      <4>5. CASE k \in up
        BY <1>3, <4>1, <4>4, <4>5 DEF StartAll, Start
      <4>6. CASE k \notin up
        BY <1>3, <2>2, <4>1, <4>2, <4>6 DEF StartAll
      <4>7. QED
        BY <4>5, <4>6
    <3>3. QED
      BY <3>1, <3>2
  <2>4. QED
    BY <1>3, <1>8, <1>10, <2>1, <2>3 DEF Sound, TaskSound
<1>12. NowOverOf(k, polled[k].generation)
  <2>1. origin' = origin
    BY DEF ApplyStop, ApplyRestart
  <2>2. r \in DOMAIN proc'[k]
    BY <1>11 DEF Over
  <2>3. r \in 1..Len(proc[k])
    BY <1>3, <1>9 DEF TypeOK
  <2>4. proc'[k][r].generation = proc[k][r].generation
    BY <1>3, <2>3, TasksAndProcs DEF Extends
  <2> HIDE DEF polled, k
  <2>5. QED
    BY <1>9, <1>11, <2>1, <2>2, <2>4 DEF NowOverOf
<1>13. QED
  BY <1>2, <1>5, <1>12

\* What a step does to the work that closes rows, and to the sampler's view.
LEMMA ClosingWorkMoves ==
    ASSUME TypeOK, Next, ~Collect, ~Exit, ~Crash
    PROVE  /\ tracked' = tracked
           /\ \A k \in Key :
                /\ todo'[k].previous # 0 => todo'[k].previous = todo[k].previous
                /\ todo'[k].end # "none" => /\ todo'[k].end = todo[k].end
                                            /\ todo'[k].generation = todo[k].generation
<1>1. CASE UNCHANGED <<tracked, todo>>
  BY <1>1
<1>2. ASSUME NEW k \in Key, SampleWrite(k)
      PROVE  /\ tracked' = tracked
             /\ \A l \in Key :
                  /\ todo'[l].previous # 0 => todo'[l].previous = todo[l].previous
                  /\ todo'[l].end # "none" => /\ todo'[l].end = todo[l].end
                                              /\ todo'[l].generation = todo[l].generation
  <2>1. todo \in [Key -> Work] /\ todo[k] \in Work
    BY DEF TypeOK
  <2>2. tracked' = tracked
    BY <1>2 DEF SampleWrite, SamplePrevious, SampleCheck, SampleInsert, SampleEnd,
                UnchangedBySampler
  <2>3. \A l \in Key : l # k => todo'[l] = todo[l]
    BY <1>2, <2>1 DEF SampleWrite, SamplePrevious, SampleCheck, SampleInsert, SampleEnd
  <2> DEFINE Same(w) == /\ w.previous # 0 => w.previous = todo[k].previous
                        /\ w.end # "none" => /\ w.end = todo[k].end
                                             /\ w.generation = todo[k].generation
  <2>4. \A w \in Work : Same(w) => Same(Rest(w))
    BY DEF Rest, NoWork
  <2>5. CASE SamplePrevious(k)
    <3> DEFINE w == [todo[k] EXCEPT !.previous = 0]
    <3>1. w \in Work /\ Same(w)
      BY <2>1 DEF Work
    <3>2. todo'[k] = Rest(w)
      BY <2>1, <2>5 DEF SamplePrevious
    <3> HIDE DEF w
    <3>3. QED
      BY <2>2, <2>3, <2>4, <3>1, <3>2
  <2>6. CASE SampleCheck(k)
    <3> DEFINE w == [todo[k] EXCEPT !.start = 0]
               v == [todo[k] EXCEPT !.missing = TRUE]
    <3>1. w \in Work /\ Same(w) /\ Same(v)
      BY <2>1 DEF Work
    <3>2. todo'[k] = Rest(w) \/ todo'[k] = v
      BY <2>1, <2>6 DEF SampleCheck
    <3> HIDE DEF w, v
    <3>3. QED
      BY <2>2, <2>3, <2>4, <3>1, <3>2
  <2>7. CASE SampleInsert(k)
    <3> DEFINE w == [todo[k] EXCEPT !.start = 0, !.missing = FALSE]
    <3>1. w \in Work /\ Same(w)
      BY <2>1 DEF Work
    <3>2. todo'[k] = Rest(w)
      BY <2>1, <2>7 DEF SampleInsert
    <3> HIDE DEF w
    <3>3. QED
      BY <2>2, <2>3, <2>4, <3>1, <3>2
  <2>8. CASE SampleEnd(k)
    BY <2>1, <2>2, <2>3, <2>8 DEF SampleEnd, NoWork
  <2>9. QED
    BY <1>2, <2>5, <2>6, <2>7, <2>8 DEF SampleWrite
<1>3. ASSUME NEW c \in Client, Handler(c)
      PROVE  UNCHANGED <<tracked, todo>>
  BY <1>3
  DEF Handler, CheckAction, ApplyToMissing, ApplyStart, ApplyStop, ApplyRestart, ApplyPause,
      ApplyResume, FinishStopped
<1>4. CASE SchedulerStep
  BY <1>1, <1>4 DEF SchedulerStep, ScheduleDue, ScheduleStart, ScheduleRecord, ScheduleInsert,
                    ScheduleSkip, ScheduleFail, UnchangedByScheduler
<1>5. CASE Lifecycle
  BY <1>1, <1>5 DEF Lifecycle, Shutdown, StopTasks, CloseHistory, Load, memory
<1>6. ASSUME NEW k \in Key, NEW i \in 1..MaxRuns, ProcessEnds(k, i)
      PROVE  UNCHANGED <<tracked, todo>>
  BY <1>6 DEF ProcessEnds, memory
<1>7. ASSUME NEW s \in Session, Register(s) \/ RemoveSession(s) \/ Snapshot(s)
      PROVE  UNCHANGED <<tracked, todo>>
  BY <1>7 DEF Register, RemoveSession, Snapshot
<1>8. QED
  BY <1>1, <1>2, <1>3, <1>4, <1>5, <1>6, <1>7 DEF Next

LEMMA RequestsMove ==
    ASSUME TypeOK, Next, NEW c \in Client, req'[c].pc = "applied",
           ~ApplyStop(c), ~ApplyRestart(c)
    PROVE  req'[c] = req[c]
<1>1. CASE UNCHANGED req
  BY <1>1
<1>2. ASSUME NEW d \in Client, Handler(d)
      PROVE  req'[c] = req[c]
  <2>1. CASE d # c
    BY <1>2, <2>1 DEF TypeOK, Handler, CheckAction, ApplyToMissing, ApplyStart, ApplyStop,
                      ApplyRestart, ApplyPause, ApplyResume, FinishStopped
  <2>2. CASE d = c
    BY <1>2, <2>2 DEF TypeOK, Handler, CheckAction, ApplyToMissing, ApplyStart, ApplyPause,
                      ApplyResume, FinishStopped, Idle
  <2>3. QED
    BY <2>1, <2>2
<1>3. CASE SchedulerStep
  BY <1>1, <1>3 DEF SchedulerStep, ScheduleDue, ScheduleStart, ScheduleRecord, ScheduleInsert,
                    ScheduleSkip, ScheduleFail, UnchangedByScheduler
<1>4. CASE Lifecycle
  BY <1>1, <1>4
  DEF Lifecycle, Shutdown, StopTasks, CloseHistory, Load, Exit, Crash, MemoryGone, memory, Idle
<1>5. ASSUME NEW k \in Key, NEW i \in 1..MaxRuns, ProcessEnds(k, i)
      PROVE  UNCHANGED req
  BY <1>5 DEF ProcessEnds, memory
<1>6. CASE Collect \/ \E k \in Key : SampleWrite(k)
  BY <1>1, <1>6 DEF Collect, SampleWrite, SamplePrevious, SampleCheck, SampleInsert, SampleEnd,
                    UnchangedBySampler
<1>7. ASSUME NEW s \in Session, Register(s) \/ RemoveSession(s) \/ Snapshot(s)
      PROVE  UNCHANGED req
  BY <1>7 DEF Register, RemoveSession, Snapshot
<1>8. QED
  BY <1>1, <1>2, <1>3, <1>4, <1>5, <1>6, <1>7 DEF Next

\* What the sampler finds when it looks: the run it saw active before, if the task has
\* another one now, is over; so is a run that is no longer active.
LEMMA CollectKnows ==
    ASSUME TypeOK, RecordingInv, AbsentIsNew, TasksSound, ClosersKnow, Next, Collect,
           NEW k \in Key
    PROVE  /\ todo'[k].previous # 0 => NowOverOf(k, todo'[k].previous)
           /\ todo'[k].end # "none" => NowOverOf(k, todo'[k].generation)
           /\ tracked'[k].active =>
                \E j \in DOMAIN proc'[k] :
                   /\ j > origin'[k] /\ proc'[k][j].generation = tracked'[k].generation
                   /\ NowSettled(k, j)
<1> DEFINE polled == Polled(PresentKeys)
           t == polled[k]
           p == tracked[k]
           w == Transitions(t, p, TriggerFor(k))
<1>1. proc' = proc /\ origin' = origin /\ task' = polled
  BY DEF Collect
<1>2. t \in TaskState /\ TaskSound(t, proc[k]) /\ t.run = task[k].run
      /\ t.generation = task[k].generation
  BY PolledType, PolledFollows, PolledKeeps DEF Sound, SameRun
<1>3. t.run # 0 => /\ t.run \in DOMAIN proc[k] /\ t.run > origin[k]
                   /\ proc[k][t.run].generation = t.generation
  BY <1>2 DEF TaskSound, RecordingInv, RunsAreProcesses, OfProcess
<1>4. p.active => \E j \in DOMAIN proc[k] :
                     /\ j > origin[k] /\ proc[k][j].generation = p.generation
                     /\ Settled(k, j)
  BY DEF ClosersKnow
<1>5. ASSUME t.generation # p.generation, p.active
      PROVE  NowOverOf(k, p.generation)
  <2>1. PICK j \in DOMAIN proc[k] :
           j > origin[k] /\ proc[k][j].generation = p.generation /\ Settled(k, j)
    BY <1>4, <1>5
  <2>2. proc[k] \in Seq(Process)
    BY DEF TypeOK
  <2>3. j # 0
    BY <2>2
  <2>4. t.run # j
    BY <1>3, <1>5, <2>1, <2>3
  <2>5. Over(proc[k], j)
    BY <1>2, <2>1, <2>4 DEF Settled
  <2>6. QED
    BY <1>1, <2>1, <2>5 DEF NowOverOf
<1>6. ASSUME t.generation > 0, ~Active(t)
      PROVE  NowOverOf(k, t.generation)
  <2>1. t.run # 0 /\ Over(proc[k], t.run)
    BY <1>2, <1>6 DEF TaskSound
  <2>2. QED
    BY <1>1, <1>3, <2>1 DEF NowOverOf
<1>7. ASSUME Active(t)
      PROVE  \E j \in DOMAIN proc'[k] :
                /\ j > origin'[k] /\ proc'[k][j].generation = t.generation
                /\ NowSettled(k, j)
  <2>1. t.run # 0
    BY <1>2, <1>7 DEF TaskSound
  <2>2. task'[k].run = t.run
    BY <1>1
  <2>3. QED
    BY <1>1, <1>3, <2>1, <2>2 DEF NowSettled
<1>8. CASE k \in PresentKeys
  <2>1. todo'[k] = w \/ todo'[k] = NoWork
    BY <1>8 DEF Collect
  <2>2. tracked'[k] = [generation |-> t.generation, active |-> Active(t)]
    BY <1>8 DEF Collect
  <2>3. /\ w.previous # 0 => /\ w.previous = p.generation
                             /\ p.active /\ t.generation # p.generation
        /\ w.generation = t.generation
        /\ w.end # "none" => t.generation > 0 /\ ~Active(t)
    BY DEF Transitions, Boundaries
  <2>4. NoWork.previous = 0 /\ NoWork.end = "none"
    BY DEF NoWork
  <2> HIDE DEF w, t, p, polled
  <2>5. QED
    BY <1>5, <1>6, <1>7, <2>1, <2>2, <2>3, <2>4
<1>9. CASE k \notin PresentKeys
  <2>1. todo'[k] = NoWork /\ tracked'[k] = p
    BY <1>9 DEF Collect, Nothing, NoWork
  <2>2. t.run = task'[k].run
    BY <1>1
  <2> HIDE DEF t
  <2>3. ASSUME NEW j \in DOMAIN proc[k], Settled(k, j)
        PROVE  NowSettled(k, j)
    BY <1>1, <1>2, <2>2, <2>3 DEF Settled, NowSettled
  <2>4. QED
    BY <1>1, <1>4, <2>1, <2>3 DEF NoWork
<1>10. QED
  BY <1>8, <1>9

LEMMA ClosersKnowStep ==
    ASSUME TypeOK, RecordingInv, AbsentIsNew, TasksSound, ObserversGone, ClosersKnow, Next
    PROVE  ClosersKnow'
<1>1. CASE Exit \/ Crash
  BY <1>1 DEF Exit, Crash, MemoryGone, ClosersKnow, Idle, NoWork, NoView
<1>2. CASE Load
  <2>1. phase \in {"down", "exited"} /\ UNCHANGED <<req, todo, tracked>>
    BY <1>2 DEF Load
  <2>2. \A k \in Key : todo[k].previous = 0 /\ todo[k].end = "none"
    BY <2>1 DEF RecordingInv, ThreadsGone, ThreadsJoined, Serving, Nothing
  <2>3. (\A c \in Client : req[c].pc = "idle") /\ \A k \in Key : ~tracked[k].active
    BY <2>1 DEF ObserversGone, Idle, NoView
  <2>4. QED
    BY <2>1, <2>2, <2>3 DEF ClosersKnow
<1>3. CASE ~Exit /\ ~Crash /\ ~Load
  <2>1. ASSUME NEW c \in Client, req'[c].pc = "applied", NEW l \in Label,
               req'[c].stopped[l] > 0
        PROVE  NowOverOf(<<req'[c].session, l>>, req'[c].stopped[l])
    <3>1. CASE ApplyStop(c) \/ ApplyRestart(c)
      BY <2>1, <3>1, StoppedRunIsOver
    <3>2. CASE ~ApplyStop(c) /\ ~ApplyRestart(c)
      <4>1. req'[c] = req[c]
        BY <2>1, <3>2, RequestsMove
      <4>2. req[c] \in Requests /\ req[c].pc = "applied"
        BY <2>1, <4>1 DEF TypeOK
      <4>3. req[c] \in [pc : {"applied"}, session : Session, stopped : [Label -> Nat]]
        BY <4>2 DEF Requests, Idle
      <4>4. <<req[c].session, l>> \in Key
        BY <4>3 DEF Key
      <4>5. OverOf(<<req[c].session, l>>, req[c].stopped[l])
        BY <2>1, <4>1, <4>2 DEF ClosersKnow
      <4>6. QED
        BY <1>3, <4>1, <4>4, <4>5, StaysOver
    <3>3. QED
      BY <3>1, <3>2
  <2>2. ASSUME NEW k \in Key
        PROVE  /\ todo'[k].previous # 0 => NowOverOf(k, todo'[k].previous)
               /\ todo'[k].end # "none" => NowOverOf(k, todo'[k].generation)
               /\ tracked'[k].active =>
                    \E j \in DOMAIN proc'[k] :
                       /\ j > origin'[k] /\ proc'[k][j].generation = tracked'[k].generation
                       /\ NowSettled(k, j)
    <3>1. CASE Collect
      BY <3>1, CollectKnows
    <3>2. CASE ~Collect
      <4>1. /\ tracked' = tracked
            /\ todo'[k].previous # 0 => todo'[k].previous = todo[k].previous
            /\ todo'[k].end # "none" => /\ todo'[k].end = todo[k].end
                                        /\ todo'[k].generation = todo[k].generation
        BY <1>3, <3>2, ClosingWorkMoves
      <4>2. \A g : OverOf(k, g) => NowOverOf(k, g)
        BY <1>3, StaysOver
      <4>3. ASSUME tracked[k].active
            PROVE  \E j \in DOMAIN proc'[k] :
                      /\ j > origin'[k] /\ proc'[k][j].generation = tracked[k].generation
                      /\ NowSettled(k, j)
        <5>1. PICK j \in DOMAIN proc[k] :
                 /\ j > origin[k] /\ proc[k][j].generation = tracked[k].generation
                 /\ Settled(k, j)
          BY <4>3 DEF ClosersKnow
        <5>2. NowSettled(k, j)
          BY <1>3, <5>1, StaysSettled
        <5>3. j \in 1..Len(proc[k])
          BY DEF TypeOK
        <5>4. proc'[k][j].generation = proc[k][j].generation /\ origin' = origin
          BY <1>3, <5>3, TasksAndProcs, OriginMoves DEF Extends
        <5>5. j \in DOMAIN proc'[k]
          BY <1>3, MovesByStep DEF Moves, Follows
        <5>6. QED
          BY <5>1, <5>2, <5>4, <5>5
      <4>4. QED
        BY <4>1, <4>2, <4>3 DEF ClosersKnow
    <3>3. QED
      BY <3>1, <3>2
  <2>3. QED
    BY <2>1, <2>2 DEF ClosersKnow, NowOverOf, OverOf, NowSettled, Settled
<1>4. QED
  BY <1>1, <1>2, <1>3

LEMMA ObserversGoneStep ==
    ASSUME TypeOK, ThreadsGone, ObserversGone, Next
    PROVE  ObserversGone'
<1>1. CASE Exit \/ Crash
  BY <1>1 DEF Exit, Crash, MemoryGone, ObserversGone
<1>2. CASE ~Exit /\ ~Crash
  <2>1. phase' \in {"down", "exited"} => phase \in {"down", "exited"} /\ UNCHANGED <<req, tracked>>
    <3>1. CASE Lifecycle
      BY <1>2, <3>1 DEF Lifecycle, Shutdown, StopTasks, CloseHistory, Load
    <3>2. CASE \E k \in Key, i \in 1..MaxRuns : ProcessEnds(k, i)
      BY <3>2 DEF ProcessEnds, memory
    <3>3. QED
      BY <3>1, <3>2
      DEF Next, Serving, Alive, Register, RemoveSession, Snapshot, Handler, CheckAction,
          ApplyToMissing, ApplyStart, ApplyStop, ApplyRestart, ApplyPause, ApplyResume, Applying,
          FinishStopped, SchedulerStep, ScheduleDue, ScheduleStart, ScheduleRecord,
          ScheduleInsert, ScheduleSkip, ScheduleFail, Scheduler, UnchangedByScheduler, Collect,
          SampleWrite, SamplePrevious, SampleCheck, SampleInsert, SampleEnd, Writing,
          UnchangedBySampler
  <2>2. QED
    BY <2>1 DEF ObserversGone
<1>3. QED
  BY <1>1, <1>2
-----------------------------------------------------------------------------
(* Who closes a row.                                                                     *)

LEMMA FinishedGeneration ==
    ASSUME NEW history \in Seq(Row), NEW generation, NEW status, NEW i \in DOMAIN history,
           FinishTaskRun(history, generation, status)[i] # history[i]
    PROVE  history[i].generation = generation
  BY DEF FinishTaskRun, CloseNewest, OfGeneration

\* A write of `new` into task l's rows touches no other task's.
LEMMA WrittenFinish ==
    ASSUME TypeOK, NEW l \in Key, NEW generation, NEW status,
           NEW landed \in Written(rows[l], FinishTaskRun(rows[l], generation, status)),
           rows' = [rows EXCEPT ![l] = landed],
           NEW k \in Key, NEW i \in DOMAIN rows[k], rows'[k][i] # rows[k][i]
    PROVE  k = l /\ rows[k][i].generation = generation
<1>1. landed = rows[l] \/ landed = FinishTaskRun(rows[l], generation, status)
  BY DEF Written
<1>2. rows'[k] = IF k = l THEN landed ELSE rows[k]
  BY <1>1 DEF TypeOK
<1>3. k = l /\ landed # rows[l]
  BY <1>2
<1>4. rows[k] \in Seq(Row)
  BY DEF TypeOK
<1>5. QED
  BY <1>1, <1>2, <1>3, <1>4, FinishedGeneration

LEMMA WrittenAppend ==
    ASSUME TypeOK, NEW l \in Key, NEW row \in Row,
           \E landed \in Written(rows[l], Append(rows[l], row)) :
               rows' = [rows EXCEPT ![l] = landed],
           NEW k \in Key, NEW i \in DOMAIN rows[k]
    PROVE  rows'[k][i] = rows[k][i]
<1>1. PICK landed : /\ landed = rows[l] \/ landed = Append(rows[l], row)
                    /\ rows' = [rows EXCEPT ![l] = landed]
  BY DEF Written
<1>2. rows'[k] = IF k = l THEN landed ELSE rows[k]
  BY <1>1 DEF TypeOK
<1>3. rows[l] \in Seq(Row)
  BY DEF TypeOK
<1>4. QED
  BY <1>1, <1>2, <1>3, AppendRow

ClosedBy(k, i) ==
    \/ CloseHistory
    \/ Load
    \/ \E c \in Client :
         /\ req[c].pc = "applied" /\ k[1] = req[c].session
         /\ req[c].stopped[k[2]] > 0 /\ rows[k][i].generation = req[c].stopped[k[2]]
    \/ todo[k].previous # 0 /\ rows[k][i].generation = todo[k].previous
    \/ todo[k].end # "none" /\ rows[k][i].generation = todo[k].generation

LEMMA RowsCloseByStep ==
    ASSUME TypeOK, Next, NEW k \in Key, NEW i \in DOMAIN rows[k], rows'[k][i] # rows[k][i]
    PROVE  ClosedBy(k, i)
<1>1. rows[k] \in Seq(Row) /\ todo \in [Key -> Work]
  BY DEF TypeOK
<1>2. rows' # rows
  OBVIOUS
<1>3. ASSUME NEW c \in Client, FinishStopped(c)
      PROVE  ClosedBy(k, i)
  <2>1. /\ k[1] = req[c].session /\ req[c].stopped[k[2]] > 0
        /\ rows'[k] = FinishTaskRun(rows[k], req[c].stopped[k[2]], "stopped")
    BY <1>3 DEF FinishStopped
  <2>2. rows[k][i].generation = req[c].stopped[k[2]]
    BY <1>1, <2>1, FinishedGeneration
  <2>3. QED
    BY <1>3, <2>1, <2>2 DEF ClosedBy, FinishStopped
<1>4. CASE SchedulerStep
  <2>1. sched.pc \in {"skip", "fail", "insert"} =>
          /\ sched.key \in Key
          /\ sched.pc # "fail" => sched.generation \in Nat
          /\ sched.pc = "insert" => sched.run \in Nat
    BY DEF TypeOK, SchedulerStates, Idle
  <2>2. CASE ScheduleInsert
    <3> DEFINE row == [generation |-> sched.generation, run |-> sched.run,
                       trigger |-> "cron", status |-> "running"]
    <3>1. row \in Row /\ sched.key \in Key
      BY <2>1, <2>2 DEF ScheduleInsert, Scheduler, Row, Triggers, RowStatuses
    <3>2. QED
      BY <2>2, <3>1, WrittenAppend DEF ScheduleInsert, StartTaskRun
  <2>3. CASE ScheduleSkip
    <3> DEFINE row == [generation |-> sched.generation, run |-> 0,
                       trigger |-> "cron", status |-> "skipped"]
    <3>1. row \in Row /\ sched.key \in Key
      BY <2>1, <2>3 DEF ScheduleSkip, Scheduler, Row, Triggers, RowStatuses
    <3>2. QED
      BY <2>3, <3>1, WrittenAppend DEF ScheduleSkip, RecordAttempt
  <2>4. CASE ScheduleFail
    <3> DEFINE visible == lock # "poisoned" /\ sched.key \in PresentKeys
               row == [generation |-> IF visible THEN task[sched.key].generation ELSE 0,
                       run |-> 0, trigger |-> "cron", status |-> "failed"]
    <3>1. sched.key \in Key
      BY <2>1, <2>4 DEF ScheduleFail, Scheduler
    <3>2. task[sched.key] \in TaskState
      BY <3>1 DEF TypeOK
    <3>3. row \in Row
      BY <3>2 DEF Row, Triggers, RowStatuses, TaskState
    <3>4. QED
      BY <2>4, <3>1, <3>3, WrittenAppend DEF ScheduleFail, RecordAttempt
  <2>5. QED
    BY <1>2, <1>4, <2>2, <2>3, <2>4
    DEF SchedulerStep, ScheduleDue, ScheduleStart, ScheduleRecord
<1>5. ASSUME NEW l \in Key, SampleWrite(l)
      PROVE  ClosedBy(k, i)
  <2>1. CASE SamplePrevious(l)
    <3>1. k = l /\ rows[k][i].generation = todo[l].previous
      BY <2>1, WrittenFinish DEF SamplePrevious, Writing
    <3>2. todo[l].previous # 0
      BY <2>1 DEF SamplePrevious
    <3>3. QED
      BY <3>1, <3>2 DEF ClosedBy
  <2>2. CASE SampleCheck(l)
    BY <1>2, <2>2 DEF SampleCheck
  <2>3. CASE SampleInsert(l)
    <3> DEFINE row == [generation |-> todo[l].generation, run |-> todo[l].start,
                       trigger |-> todo[l].trigger, status |-> "running"]
    <3>1. row \in Row
      BY <1>1 DEF Work, Row, RowStatuses
    <3>2. QED
      BY <2>3, <3>1, WrittenAppend DEF SampleInsert, Writing, StartTaskRun
  <2>4. CASE SampleEnd(l)
    <3>1. PICK landed \in Written(rows[l], FinishTaskRun(rows[l], todo[l].generation, todo[l].end)) :
             rows' = [rows EXCEPT ![l] = landed]
      BY <2>4 DEF SampleEnd, Writing
    <3>2. k = l /\ rows[k][i].generation = todo[l].generation
      <4> DEFINE generation == todo[l].generation
                 status == todo[l].end
      <4>1. landed \in Written(rows[l], FinishTaskRun(rows[l], generation, status))
        BY <3>1
      <4> HIDE DEF generation, status
      <4>2. k = l /\ rows[k][i].generation = generation
        BY <3>1, <4>1, WrittenFinish
      <4>3. QED
        BY <4>2 DEF generation
    <3>3. todo[l].end # "none"
      BY <2>4 DEF SampleEnd
    <3>4. QED
      BY <3>1, <3>2, <3>3 DEF ClosedBy
  <2>5. QED
    BY <1>5, <2>1, <2>2, <2>3, <2>4 DEF SampleWrite
<1>6. CASE Lifecycle
  BY <1>2, <1>6 DEF ClosedBy, Lifecycle, Shutdown, StopTasks, Exit, Crash
<1>7. ASSUME NEW c \in Client, Handler(c)
      PROVE  ClosedBy(k, i)
  BY <1>2, <1>3, <1>7
  DEF Handler, CheckAction, ApplyToMissing, ApplyStart, ApplyStop, ApplyRestart, ApplyPause,
      ApplyResume
<1>8. QED
  BY <1>2, <1>4, <1>5, <1>6, <1>7
  DEF Next, Register, RemoveSession, Snapshot, Collect, ProcessEnds

LEMMA NamesakeStep ==
    ASSUME TypeOK, TypeOK', RecordingInv, ClosingInv, Next
    PROVE  LiveRunClosedOnlyByNamesake'
<1> SUFFICES ASSUME NEW k \in Key, NEW i \in DOMAIN rows'[k], NEW r, r = rows'[k][i].run,
                    r # 0, r > origin'[k], rows'[k][i].status # "running",
                    proc'[k][r].fate = "live"
             PROVE  \E other \in DOMAIN proc'[k] \ {r} :
                       /\ other > origin'[k]
                       /\ proc'[k][other].generation = proc'[k][r].generation
  BY DEF LiveRunClosedOnlyByNamesake
<1>1. RowsMove(k) /\ rows[k] \in Seq(Row) /\ proc[k] \in Seq(Process)
  BY RowsMoveByStep DEF TypeOK
<1>2. i \in DOMAIN rows[k]
  BY <1>1 DEF RowsMove, Inserted
<1>3. rows[k][i].run = r /\ rows[k][i].generation = rows'[k][i].generation /\ r \in Nat
  <2>1. rows[k][i] \in Row
    BY <1>1, <1>2
  <2>2. rows[k][i].run = r /\ rows[k][i].generation = rows'[k][i].generation
    BY <1>1, <1>2 DEF RowsMove, Aged
  <2>3. QED
    BY <2>1, <2>2 DEF Row
<1>4. r <= Len(proc[k]) /\ rows[k][i].generation = proc[k][r].generation
  BY <1>2, <1>3 DEF RecordingInv, RunsAreProcesses, OfProcess
<1>5. r \in DOMAIN proc[k]
  BY <1>1, <1>3, <1>4
<1>6. ~Load /\ origin' = origin
  <2>1. Load => origin'[k] = Len(proc[k])
    BY DEF Load
  <2>2. Len(proc[k]) \in Nat
    BY <1>1
  <2>3. ~Load
    BY <1>3, <1>4, <2>1, <2>2
  <2>4. QED
    BY <2>3, OriginMoves
<1>7. /\ \A q : Over(proc[k], q) => Over(proc'[k], q)
      /\ \A g : OverOf(k, g) => NowOverOf(k, g)
  BY <1>6, StaysOver DEF ClosingInv
<1>8. ~Over(proc[k], r) /\ ~Over(proc'[k], r)
  BY <1>7 DEF Over
<1>9. \A j \in DOMAIN proc[k] : j \in DOMAIN proc'[k] /\ proc'[k][j].generation = proc[k][j].generation
  <2>1. proc'[k] \in Seq(Process)
    BY DEF TypeOK
  <2>2. QED
    BY <1>1, <2>1, TasksAndProcs DEF Extends
<1>10. CASE rows[k][i].status # "running"
  <2>1. PICK other \in DOMAIN proc[k] \ {r} :
           other > origin[k] /\ proc[k][other].generation = proc[k][r].generation
    BY <1>2, <1>3, <1>5, <1>6, <1>8, <1>10 DEF ClosingInv, LiveRunClosedOnlyByNamesake, Over
  <2>2. QED
    BY <1>5, <1>6, <1>9, <2>1
<1>11. CASE rows[k][i].status = "running"
  <2>1. ClosedBy(k, i)
    BY <1>2, <1>11, RowsCloseByStep
  <2>2. ~CloseHistory
    BY <1>2, <1>3, <1>6, <1>8 DEF CloseHistory, ClosingInv, RunsSettled
  <2>3. NowOverOf(k, proc[k][r].generation)
    <3>1. k = <<k[1], k[2]>> /\ k[2] \in Label
      BY DEF Key
    <3>2. OverOf(k, rows[k][i].generation)
      BY <1>6, <2>1, <2>2, <3>1 DEF ClosedBy, ClosingInv, ClosersKnow
    <3>3. QED
      BY <1>4, <1>7, <3>2
  <2>4. PICK j \in DOMAIN proc'[k] :
           /\ j > origin'[k] /\ proc'[k][j].generation = proc[k][r].generation
           /\ Over(proc'[k], j)
    BY <2>3 DEF NowOverOf
  <2>5. j # r
    BY <1>8, <2>4
  <2>6. QED
    BY <1>5, <1>9, <2>4, <2>5
<1>12. QED
  BY <1>10, <1>11

\* A row says a live run is over only when it was closed in the name of an earlier or later
\* run of the same daemon with the same generation number; no fault of the database, no
\* race of a stop with the sampler and no shutdown closes the row of a live run otherwise.
THEOREM ClosedByNamesake == Spec => []LiveRunClosedOnlyByNamesake
<1>1. Init => ClosingInv
  BY DEF Init, ClosingInv, AbsentIsNew, TasksSound, TaskSound, NewTask, Active, RunsSettled,
         Alive, Serving, ClosersKnow, ObserversGone, LiveRunClosedOnlyByNamesake, Idle, NoWork,
         NoView
<1>2. ASSUME TypeOK, TypeOK', RecordingInv, ClosingInv, [Next]_vars
      PROVE  ClosingInv'
  <2>1. CASE UNCHANGED vars
    BY <1>2, <2>1
    DEF vars, memory, ClosingInv, AbsentIsNew, TasksSound, RunsSettled, Settled, ClosersKnow,
        OverOf, ObserversGone, LiveRunClosedOnlyByNamesake
  <2>2. CASE Next
    <3>1. AbsentIsNew' /\ TasksSound'
      BY <1>2, <2>2, AbsentStep, TasksSoundStep DEF ClosingInv, RecordingInv
    <3>2. RunsSettled' /\ ClosersKnow' /\ ObserversGone'
      BY <1>2, <2>2, RunsSettledStep, ClosersKnowStep, ObserversGoneStep
      DEF ClosingInv, RecordingInv
    <3>3. LiveRunClosedOnlyByNamesake'
      BY <1>2, <2>2, NamesakeStep
    <3>4. QED
      BY <3>1, <3>2, <3>3 DEF ClosingInv
  <2>3. QED
    BY <1>2, <2>1, <2>2
<1>3. ClosingInv => LiveRunClosedOnlyByNamesake
  BY DEF ClosingInv
<1>4. QED
  BY <1>1, <1>2, <1>3, RecordingAlways, PTL DEF Spec
=============================================================================
