----------------------------- MODULE StartGates -----------------------------
(***************************************************************************)
(* What stands between a request to start a task and its start on one     *)
(* node: quotas on the number of running tasks (state/quota.rs) and        *)
(* dependencies on other tasks (state/dependencies.rs), checked by         *)
(* daemon/gates.rs before the sessions lock is taken for the start itself. *)
(* Each read of the database or of the sessions is a step of its own, so   *)
(* requests, editors of quotas and dependencies, and processes that end    *)
(* come between them.                                                      *)
(***************************************************************************)
EXTENDS Integers, FiniteSets

CONSTANTS
    Task,        \* pairs of a session and a label
    NodeWide,    \* the scope of a quota without a session
    Starter,     \* threads that start tasks: request handlers and the scheduler
    Kinds,       \* the requests they make
    Editor,      \* web handlers that edit quotas and dependencies
    Edge,        \* dependencies that can be declared: <<k, d>> says that k needs d
    QuotaId,     \* ids that quotas can get
    Quota,       \* quotas that can be asked for: a scope and a limit
    MaxEdits     \* bound: edits

Session == {k[1] : k \in Task}
Scope == Session \cup {NodeWide}
NoQuota == [scope |-> NodeWide, limit |-> 0]

\* start and restart name one task; the "_all" forms the tasks of a session.
AllKinds == {"start", "restart", "scheduled", "start_all", "restart_all", "register"}
SingleKinds == {"start", "restart", "scheduled"}

ASSUME ScopeAssumption == NodeWide \notin Session
ASSUME EdgeAssumption == Edge \subseteq Task \X Task
ASSUME KindsAssumption == Kinds \subseteq AllKinds
ASSUME QuotaAssumption == Quota \subseteq [scope : Scope, limit : Nat \ {0}]
ASSUME FiniteAssumption == IsFiniteSet(Task) /\ IsFiniteSet(Starter)
ASSUME EditsAssumption == MaxEdits \in Nat

VARIABLES
    status,        \* sessions: each task, as polled
    quotas,        \* table workspace_quotas, NoQuota for an id not in use
    dependencies,  \* table task_dependencies
    req,           \* the requests in progress
    edit,          \* the edits in progress
    edits,         \* edits so far (bounded by MaxEdits)
    passed,        \* history: the quotas a task's start was checked against
    unmet          \* history: of the dependencies a request read, those not running since

vars == <<status, quotas, dependencies, req, edit, edits, passed, unmet>>

Statuses == {"down", "running", "paused"}     \* "down": idle, exited or failed
Active == {k \in Task : status[k] # "down"}
Running == {k \in Task : status[k] = "running"}
InScope(scope) == {k \in Task : scope \in {NodeWide, k[1]}}

Idle == [pc |-> "idle"]
Request == [pc : {"count", "read", "depends", "apply"}, kind : Kinds, key : Task,
            limits : SUBSET Quota, waiting : SUBSET Task]
Edit == [pc : {"quota"}, quota : Quota] \cup [pc : {"dependency"}, edge : Edge]

TypeOK ==
    /\ status \in [Task -> Statuses]
    /\ quotas \in [QuotaId -> Quota \cup {NoQuota}]
    /\ dependencies \subseteq Edge
    /\ req \in [Starter -> Request \cup {Idle}]
    /\ edit \in [Editor -> Edit \cup {Idle}]
    /\ edits \in 0..MaxEdits
    /\ passed \in [Task -> SUBSET Quota]
    /\ unmet \in [Starter -> SUBSET Task]
-----------------------------------------------------------------------------
InForce == {quotas[i] : i \in QuotaId} \ {NoQuota}

\* dependency_creates_cycle: some tasks each need another of them.
HasCycle(edges) ==
    \E S \in (SUBSET Task) \ {{}} : \A k \in S : \E d \in S : <<k, d>> \in edges

\* The tables hold what earlier edits, one at a time, left in them.
Init ==
    /\ status = [k \in Task |-> "down"]
    /\ quotas \in [QuotaId -> Quota \cup {NoQuota}]
    /\ \A i, j \in QuotaId :
          quotas[i] # NoQuota /\ quotas[i].scope = quotas[j].scope /\ quotas[j] # NoQuota
          => i = j
    /\ dependencies \in {edges \in SUBSET Edge : ~HasCycle(edges)}
    /\ req = [c \in Starter |-> Idle]
    /\ edit = [e \in Editor |-> Idle]
    /\ edits = 0
    /\ passed = [k \in Task |-> {}]
    /\ unmet = [c \in Starter |-> {}]
-----------------------------------------------------------------------------
(* A request to start. *)

UnchangedByGates == UNCHANGED <<status, quotas, dependencies, edit, edits, passed>>

\* History: the tasks of `now` are running, and requests that ended have nothing to meet.
Meet(now) ==
    unmet' = [c \in Starter |-> IF req'[c] = Idle THEN {} ELSE unmet[c] \ now]

\* The handler of an action, or the scheduler for a due task, begins its gates: the quotas
\* that concern the session, unless a single task is to be restarted.
Begin(c, kind, k) ==
    /\ req[c] = Idle
    /\ req' = [req EXCEPT ![c] =
                 [pc |-> IF kind = "restart" THEN "read" ELSE "count",
                  kind |-> kind, key |-> k,
                  limits |-> IF kind = "restart" THEN {}
                             ELSE {q \in InForce : k \in InScope(q.scope)},
                  waiting |-> {}]]
    /\ UnchangedByGates /\ UNCHANGED unmet

\* check_quotas, under the sessions lock: a task that runs or is paused counts.
Reached_Exceeded(q) == Cardinality(Active \cap InScope(q.scope)) > q.limit
Reached(q) == Cardinality(Active \cap InScope(q.scope)) >= q.limit

Count(c) ==
    /\ req[c].pc = "count"
    /\ req' = [req EXCEPT ![c] =
                 IF \E q \in req[c].limits : Reached(q) THEN Idle
                 ELSE [@ EXCEPT !.pc = IF req[c].kind \in SingleKinds THEN "read" ELSE "apply"]]
    /\ UnchangedByGates /\ UNCHANGED unmet

\* check_dependencies: the list, then one look at the sessions for each.
ReadDependencies(c) ==
    /\ req[c].pc = "read"
    /\ LET needs == {d \in Task : <<req[c].key, d>> \in dependencies}
       IN  /\ req' = [req EXCEPT ![c].pc = "depends", ![c].waiting = needs]
           /\ unmet' = [unmet EXCEPT ![c] = needs \ Running]
    /\ UnchangedByGates

Satisfied_Active(d) == status[d] # "down"
Satisfied(d) == status[d] = "running"

CheckDependency(c) ==
    /\ req[c].pc = "depends"
    /\ \E d \in req[c].waiting :
         req' = IF Satisfied(d) THEN [req EXCEPT ![c].waiting = @ \ {d}]
                                ELSE [req EXCEPT ![c] = Idle]
    /\ Meet({}) /\ UnchangedByGates

\* Under the sessions lock again: the tasks of `up` are those whose spawn succeeds.  Only a
\* task that is down can be started; a restart stops it first.
Ready(c) == req[c].pc = "apply" \/ (req[c].pc = "depends" /\ req[c].waiting = {})
Target(c) == IF req[c].kind \in SingleKinds THEN {req[c].key} ELSE InScope(req[c].key[1])
Stopped(c) == IF req[c].kind \in {"restart", "restart_all"} THEN Target(c) ELSE {}

Apply(c) ==
    /\ Ready(c)
    /\ req' = [req EXCEPT ![c] = Idle]
    /\ \E up \in SUBSET (Target(c) \ (Active \ Stopped(c))) :
         /\ status' = [k \in Task |-> IF k \in up THEN "running"
                                      ELSE IF k \in Stopped(c) THEN "down" ELSE status[k]]
         /\ passed' = [k \in Task |-> IF k \in up /\ req[c].kind \in SingleKinds
                                      THEN req[c].limits
                                      ELSE IF k \in up \cup Stopped(c) THEN {} ELSE passed[k]]
         /\ Meet(up)
    /\ UNCHANGED <<quotas, dependencies, edit, edits>>

Start(c) ==
    \/ \E kind \in Kinds \ {"register"}, k \in Task : Begin(c, kind, k)
    \/ Count(c)
    \/ ReadDependencies(c)
    \/ CheckDependency(c)
    \/ Apply(c)
-----------------------------------------------------------------------------
(* What else happens to tasks. *)

\* Registration starts a session's auto-start tasks, with no gate.
AutoStart(s) ==
    /\ "register" \in Kinds
    /\ InScope(s) \cap Active = {}
    /\ \E up \in SUBSET InScope(s) :
         /\ status' = [k \in Task |-> IF k \in up THEN "running" ELSE status[k]]
         /\ passed' = [k \in Task |-> IF k \in up THEN {} ELSE passed[k]]
         /\ unmet' = [c \in Starter |-> unmet[c] \ up]
    /\ UNCHANGED <<quotas, dependencies, req, edit, edits>>

\* A process ends, or a request stops it.
Ends(k) ==
    /\ status[k] # "down"
    /\ status' = [status EXCEPT ![k] = "down"]
    /\ passed' = [passed EXCEPT ![k] = {}]
    /\ UNCHANGED <<quotas, dependencies, req, edit, edits, unmet>>

Pause(k) ==
    /\ status[k] = "running" /\ status' = [status EXCEPT ![k] = "paused"]
    /\ UNCHANGED <<quotas, dependencies, req, edit, edits, passed, unmet>>

Resume(k) ==
    /\ status[k] = "paused" /\ status' = [status EXCEPT ![k] = "running"]
    /\ unmet' = [c \in Starter |-> unmet[c] \ {k}]
    /\ UNCHANGED <<quotas, dependencies, req, edit, edits, passed>>
-----------------------------------------------------------------------------
(* Edits of the two tables, by web handlers. *)

Editing(e) == edit[e] = Idle /\ edits < MaxEdits /\ edits' = edits + 1
UnchangedByEdits == UNCHANGED <<status, req, passed, unmet>>

\* create_quota looks for the scope in one use of the connection and inserts in another.
CreateQuota(e, q) ==
    /\ Editing(e)
    /\ \A other \in InForce : other.scope # q.scope
    /\ edit' = [edit EXCEPT ![e] = [pc |-> "quota", quota |-> q]]
    /\ UNCHANGED <<quotas, dependencies>> /\ UnchangedByEdits

InsertQuota(e) ==
    /\ edit[e].pc = "quota"
    /\ \E i \in QuotaId : /\ quotas[i] = NoQuota
                          /\ quotas' = [quotas EXCEPT ![i] = edit[e].quota]
    /\ edit' = [edit EXCEPT ![e] = Idle]
    /\ UNCHANGED <<dependencies, edits>> /\ UnchangedByEdits

\* update_quota writes, and then reports a duplicate scope that it leaves in place.
UpdateQuota(e, i, q) ==
    /\ Editing(e) /\ quotas[i] # NoQuota
    /\ quotas' = [quotas EXCEPT ![i] = q]
    /\ UNCHANGED <<dependencies, edit>> /\ UnchangedByEdits

DeleteQuota(e, i) ==
    /\ Editing(e) /\ quotas[i] # NoQuota
    /\ quotas' = [quotas EXCEPT ![i] = NoQuota]
    /\ UNCHANGED <<dependencies, edit>> /\ UnchangedByEdits

\* create_dependency reads the table, looks for a cycle, and inserts later.
CreateDependency(e, edge) ==
    /\ Editing(e) /\ edge[1] # edge[2]
    /\ ~HasCycle(dependencies \cup {edge})
    /\ edit' = [edit EXCEPT ![e] = [pc |-> "dependency", edge |-> edge]]
    /\ UNCHANGED <<quotas, dependencies>> /\ UnchangedByEdits

InsertDependency(e) ==
    /\ edit[e].pc = "dependency"
    /\ dependencies' = dependencies \cup {edit[e].edge}
    /\ edit' = [edit EXCEPT ![e] = Idle]
    /\ UNCHANGED <<quotas, edits>> /\ UnchangedByEdits

DeleteDependency(e, edge) ==
    /\ Editing(e) /\ edge \in dependencies
    /\ dependencies' = dependencies \ {edge}
    /\ UNCHANGED <<quotas, edit>> /\ UnchangedByEdits

Edits(e) ==
    \/ \E q \in Quota : CreateQuota(e, q)
    \/ InsertQuota(e)
    \/ \E i \in QuotaId, q \in Quota : UpdateQuota(e, i, q)
    \/ \E i \in QuotaId : DeleteQuota(e, i)
    \/ \E edge \in Edge : CreateDependency(e, edge)
    \/ InsertDependency(e)
    \/ \E edge \in Edge : DeleteDependency(e, edge)
-----------------------------------------------------------------------------
Next ==
    \/ \E c \in Starter : Start(c)
    \/ \E s \in Session : AutoStart(s)
    \/ \E k \in Task : Ends(k) \/ Pause(k) \/ Resume(k)
    \/ \E e \in Editor : Edits(e)

Spec == Init /\ [][Next]_vars
-----------------------------------------------------------------------------
(* Safety. *)

\* The tasks whose start was checked against a quota of q's scope no higher than q.
Governed(q) ==
    {k \in InScope(q.scope) : \E p \in passed[k] : p.scope = q.scope /\ p.limit <= q.limit}

\* Starts of single tasks, checked against a quota, together exceed it by no more than
\* the number of other threads that can be between the count and the start: the check in
\* gates.rs is not atomic with the start in handle.rs, and this is all it costs.
OvershootIsBounded ==
    \A q \in Quota : Cardinality(Governed(q)) <= q.limit - 1 + Cardinality(Starter)

\* A request that got past its dependencies saw each of them running at some time since it
\* read the list, although they are looked at one by one, and only then.
DependenciesWereSeen == \A c \in Starter : Ready(c) => unmet[c] = {}

\* "Before a manual or scheduled start, every dependency must currently be `running`"
\* (README.md).  It was running when it was looked at: by the start it may have ended.
DependenciesRunAtStart ==
    [][\A c \in Starter :
         /\ Ready(c) /\ req[c].kind \in {"start", "scheduled"} /\ req'[c] = Idle
         /\ status[req[c].key] = "down" /\ status'[req[c].key] = "running"
         => \A d \in Task : <<req[c].key, d>> \in dependencies => status[d] = "running"]_vars
-----------------------------------------------------------------------------
(* The inductive invariant behind both, proved in StartGates_proofs. *)

\* Requests past the count of a quota like q, whose task is not started yet.
InFlight(q) ==
    {c \in Starter : /\ req[c] # Idle /\ req[c].pc # "count"
                     /\ req[c].kind \in SingleKinds
                     /\ \E p \in req[c].limits : p.scope = q.scope /\ p.limit <= q.limit}

GovernedAreActive == \A k \in Task : passed[k] # {} => status[k] # "down"

\* The last of the tasks and requests to be counted was counted below the limit.
CountedBelow ==
    \A q \in Quota :
        Cardinality(Governed(q)) + Cardinality(InFlight(q)) <= q.limit - 1 + Cardinality(Starter)

\* What a request has not met yet is not running, and is still to be looked at.
UnmetIsWaiting ==
    \A c \in Starter :
        /\ \A d \in unmet[c] : status[d] # "running"
        /\ IF req[c].pc = "depends" THEN unmet[c] \subseteq req[c].waiting ELSE unmet[c] = {}

GatesInv == GovernedAreActive /\ CountedBelow /\ UnmetIsWaiting
=============================================================================
