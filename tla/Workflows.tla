------------------------------ MODULE Workflows ------------------------------
(***************************************************************************)
(* Workflow groups: how they are stored with their revisions               *)
(* (state/workflow.rs, web/api/workflow_groups.rs) and how a group is run  *)
(* (web/api/workflow_runs.rs).  A run reads the group once, decides once   *)
(* which members are available, and then asks one node after another to    *)
(* start a task; meanwhile the group may be edited or deleted, nodes come  *)
(* and go, and the daemon may be given another role.                       *)
(***************************************************************************)
EXTENDS WorkflowGraph

CONSTANTS
    Group,          \* ids of groups (random, so a deleted group's id never comes back)
    Inputs,         \* the groups clients ask to store: [name, members, edges]
    Target,         \* tasks a member can name, each of a workspace of its own
    Node, Self,     \* nodes; Self is the daemon's own
    NodeOf,         \* the node of each target
    None,           \* no group
    Retention,      \* WORKFLOW_REVISION_RETENTION_LIMIT
    MaxWrites,      \* bound: times a group is written
    MaxChanges      \* bound: changes of nodes, inventories and role

ASSUME RetentionAssumption == Retention \in Nat \ {0}
ASSUME InputsAreGroups ==
    Inputs \subseteq [name : STRING, members : Seq(Target), edges : Seq(Nat \X Nat)]

VARIABLES
    groups,     \* workflow_groups and workflow_group_members
    revisions,  \* workflow_revisions: by group and number, what was stored
    restore,    \* a restore between its read of the revision and its write
    run,        \* a run, or a group action, under way
    leader,     \* node_settings: this node is a leader
    nodes,      \* node_summaries: of self, and of the workers the leader knows
    inventory,  \* what the leader knows of each target: its "task", its "workspace", "nothing"
    moves,      \* changes so far (bounded by MaxChanges)
    writes      \* writes of a group so far (bounded by MaxWrites)

world == <<leader, nodes, inventory, moves>>
stored == <<groups, revisions, writes>>
workflowVars == <<stored, restore, run, world>>

Idle == [pc |-> "idle"]
Reasons == {"node not known", "node offline", "workspace not found", "task not found"}
Statuses == {"success", "failed", "skipped"}

WorkflowTypeOK ==
    /\ groups \in [Group -> Inputs \cup {None}]
    /\ \A g \in Group : /\ DOMAIN revisions[g] \subseteq 1..MaxWrites
                        /\ \A n \in DOMAIN revisions[g] : revisions[g][n] \in Inputs
    /\ \/ restore = Idle
       \/ restore.pc = "read" /\ restore.group \in Group /\ restore.input \in Inputs
    /\ \/ run = Idle
       \/ /\ run.pc = "running" /\ run.group \in Inputs
          /\ run.kind \in {"run", "action"} /\ run.stop \in BOOLEAN
          /\ run.reason \in [DOMAIN run.group.members -> Reasons \cup {"none"}]
          /\ \A i \in DOMAIN run.results : run.results[i].member \in DOMAIN run.group.members
                                           /\ run.results[i].status \in Statuses
    /\ leader \in BOOLEAN
    /\ nodes \in [Node -> {"unknown", "offline", "online"}]
    /\ inventory \in [Target -> {"task", "workspace", "nothing"}]
    /\ moves \in 0..MaxChanges /\ writes \in 0..MaxWrites

WorkflowInit ==
    /\ groups = [g \in Group |-> None]
    /\ revisions = [g \in Group |-> <<>>]
    /\ restore = Idle /\ run = Idle
    /\ leader = TRUE
    /\ nodes = [n \in Node |-> "online"]
    /\ inventory = [t \in Target |-> "task"]
    /\ moves = 0 /\ writes = 0
-----------------------------------------------------------------------------
(* The store: each of these is one transaction. *)

Exists(g) == groups[g] # None
Unused(g) == revisions[g] = <<>>
NameTaken(g, input) == \E h \in Group \ {g} : Exists(h) /\ groups[h].name = input.name

\* record_workflow_revision_in_tx: store it, then drop what retention leaves out.
RecordRevision_DropOneMore(g, number, input) ==
    [n \in {m \in DOMAIN revisions[g] \cup {number} : m + Retention > number + 1} \cup {number} |->
        IF n = number THEN input ELSE revisions[g][n]]
RecordRevision(g, number, input) ==
    [n \in {m \in DOMAIN revisions[g] \cup {number} : m + Retention > number} |->
        IF n = number THEN input ELSE revisions[g][n]]

\* next_workflow_revision: one more than the largest number kept.
NextRevision_Last(g) == IF Unused(g) THEN 1 ELSE Max(DOMAIN revisions[g])
NextRevision(g) == IF Unused(g) THEN 1 ELSE Max(DOMAIN revisions[g]) + 1

Write == writes < MaxWrites /\ writes' = writes + 1

Create(g, input) ==
    /\ Write
    /\ Unused(g) /\ Accepts(input) /\ ~NameTaken(g, input)
    /\ groups' = [groups EXCEPT ![g] = input]
    /\ revisions' = [revisions EXCEPT ![g] = RecordRevision(g, 1, input)]

\* A bug: the group is replaced and its revision is not recorded.
Replace_NoRevision(g, input) ==
    /\ groups' = [groups EXCEPT ![g] = input]
    /\ Write
    /\ UNCHANGED revisions
CanUpdate(g, input) ==
    writes < MaxWrites /\ Exists(g) /\ Accepts(input) /\ ~NameTaken(g, input)
Replace(g, input) ==
    /\ Write
    /\ groups' = [groups EXCEPT ![g] = input]
    /\ revisions' = [revisions EXCEPT ![g] = RecordRevision(g, NextRevision(g), input)]
-----------------------------------------------------------------------------
(* The handlers.  A request that is refused changes nothing and is not modelled. *)

\* node_summaries: self if this node executes tasks, the workers if it is a leader.
Known(n) == nodes[n] # "unknown" /\ (n = Self \/ leader)

\* validate_workflow_group_scope.
InScope(input) == \A i \in DOMAIN input.members : Known(NodeOf[input.members[i]])

CreateGroup(g, input) ==
    /\ leader /\ InScope(input)
    /\ Create(g, input)
    /\ UNCHANGED <<restore, run, world>>

UpdateGroup(g, input) ==
    /\ leader /\ InScope(input)
    /\ CanUpdate(g, input) /\ Replace(g, input)
    /\ UNCHANGED <<restore, run, world>>

\* The members go with the group, the revisions stay.
DeleteGroup(g) ==
    /\ leader /\ Exists(g)
    /\ groups' = [groups EXCEPT ![g] = None]
    /\ UNCHANGED <<revisions, writes, restore, run, world>>

\* restore_workflow_revision reads the revisions, also those of a deleted group ...
ReadRevision(g, number) ==
    /\ leader /\ restore = Idle
    /\ number \in DOMAIN revisions[g]
    /\ restore' = [pc |-> "read", group |-> g, input |-> revisions[g][number]]
    /\ UNCHANGED <<stored, run, world>>

\* ... and then updates the group, as far as it still may.
WriteRestored ==
    /\ restore.pc = "read"
    /\ restore' = Idle
    /\ IF InScope(restore.input) /\ CanUpdate(restore.group, restore.input)
       THEN Replace(restore.group, restore.input)
       ELSE UNCHANGED stored
    /\ UNCHANGED <<run, world>>
-----------------------------------------------------------------------------
(* A run. *)

\* resolve_workflow_group: why a member is to be skipped.
Reason(t) ==
    IF ~Known(NodeOf[t]) THEN "node not known"
    ELSE IF nodes[NodeOf[t]] = "offline" THEN "node offline"
    ELSE IF inventory[t] = "nothing" THEN "workspace not found"
    ELSE IF inventory[t] = "workspace" THEN "task not found" ELSE "none"

View(group) == [i \in DOMAIN group.members |-> Reason(group.members[i])]

Begin(group, kind, order, stop) ==
    run' = [pc |-> "running", group |-> group, kind |-> kind, order |-> order, stop |-> stop,
            reason |-> View(group), results |-> <<>>]

\* run_workflow_group; it fails at once if the order leaves members out.
StartRun(g, stop) ==
    /\ leader /\ run = Idle /\ Exists(g)
    /\ LET group == groups[g]
           order == RunOrder(group.edges, Len(group.members))
       IN  Len(order) = Len(group.members) /\ Begin(group, "run", order, stop)
    /\ UNCHANGED <<stored, restore, world>>

\* workflow_group_action: every member in its place, whatever becomes of the others.
StartAction(g) ==
    /\ leader /\ run = Idle /\ Exists(g)
    /\ Begin(groups[g], "action", [i \in DOMAIN groups[g].members |-> i], FALSE)
    /\ UNCHANGED <<stored, restore, world>>

\* A bug: a run goes on after a member that was skipped.
Halted_FailedOnly == run.stop /\ run.results # <<>> /\ Last(run.results).status = "failed"
Halted == run.stop /\ run.results # <<>> /\ Last(run.results).status # "success"

Over == Len(run.results) = Len(run.order) \/ Halted

\* dispatch_node_with_audit: self as long as it executes tasks, a worker of a leader while online.
Reaches(n) == nodes[n] = "online" /\ (n = Self \/ leader)

\* run_workflow_group_action: skipped as the view says, or sent to its node, where it may start
\* if the node can be reached by now.
Becomes(member, status) ==
    /\ status = "skipped" <=> run.reason[member] # "none"
    /\ status = "success" => Reaches(NodeOf[run.group.members[member]])

RunMember ==
    /\ run.pc = "running" /\ ~Over
    /\ LET member == run.order[Len(run.results) + 1]
       IN  \E status \in Statuses :
             /\ Becomes(member, status)
             /\ run' = [run EXCEPT !.results = Append(@, [member |-> member, status |-> status])]
    /\ UNCHANGED <<stored, restore, world>>

\* summarize_workflow_results, and the answer.
FinishRun ==
    /\ run.pc = "running" /\ Over
    /\ run' = Idle
    /\ UNCHANGED <<stored, restore, world>>
-----------------------------------------------------------------------------
(* The world: nodes, their tasks, and the role of this node (node_settings). *)

Change == moves < MaxChanges /\ moves' = moves + 1

ChangeNode(n, state) ==
    /\ Change /\ nodes[n] # state /\ (n = Self => state # "offline")
    /\ nodes' = [nodes EXCEPT ![n] = state]
    /\ UNCHANGED <<stored, restore, run, leader, inventory>>

ChangeInventory(t, state) ==
    /\ Change /\ inventory[t] # state
    /\ inventory' = [inventory EXCEPT ![t] = state]
    /\ UNCHANGED <<stored, restore, run, leader, nodes>>

ChangeRole ==
    /\ Change
    /\ leader' = ~leader
    /\ UNCHANGED <<stored, restore, run, nodes, inventory>>

WorkflowNext ==
    \/ \E g \in Group, input \in Inputs : CreateGroup(g, input) \/ UpdateGroup(g, input)
    \/ \E g \in Group : DeleteGroup(g) \/ StartAction(g)
    \/ \E g \in Group, number \in 1..MaxWrites : ReadRevision(g, number)
    \/ WriteRestored
    \/ \E g \in Group, stop \in BOOLEAN : StartRun(g, stop)
    \/ RunMember \/ FinishRun
    \/ \E n \in Node, state \in {"unknown", "offline", "online"} : ChangeNode(n, state)
    \/ \E t \in Target, state \in {"task", "workspace", "nothing"} : ChangeInventory(t, state)
    \/ ChangeRole

WorkflowSpec == WorkflowInit /\ [][WorkflowNext]_workflowVars
-----------------------------------------------------------------------------
(* Properties. *)

\* A member is asked to start only after every member it depends on was asked, and in a run
\* that stops on failure only if all those were started.
RunRespectsEdges ==
    run.pc = "running" /\ run.kind = "run" =>
        \A i \in DOMAIN run.results : \A e \in Range(run.group.edges) :
            run.results[i].member = e[2] =>
                \E j \in 1..(i - 1) :
                    /\ run.results[j].member = e[1]
                    /\ run.stop => run.results[j].status = "success"

\* What a group is now, its newest revision says.
NewestRevisionIsGroup ==
    \A g \in Group : Exists(g) =>
        /\ DOMAIN revisions[g] # {}
        /\ revisions[g][Max(DOMAIN revisions[g])] = groups[g]

\* The numbers kept are the last ones, without a gap, and as many as retention allows.
RevisionsAreTheLatest ==
    \A g \in Group :
        LET kept == DOMAIN revisions[g]
        IN  kept # {} => /\ kept = Min(kept)..Max(kept)
                         /\ Min(kept) = 1 \/ Cardinality(kept) = Retention

\* A number stands for one content for good: it is never given again, also not after the
\* revision was dropped or the group was deleted.
RevisionNumbersAreFinal ==
    [][\A g \in Group : revisions[g] # <<>> =>
         \A n \in DOMAIN revisions'[g] :
             n <= Max(DOMAIN revisions[g]) =>
                 n \in DOMAIN revisions[g] /\ revisions'[g][n] = revisions[g][n]]_revisions
=============================================================================
