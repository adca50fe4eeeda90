---------------------------- MODULE WorkflowGraph ----------------------------
(***************************************************************************)
(* The graph of a workflow group (state/workflow.rs, workflow_runs.rs).    *)
(* A group is a list of members and a list of edges between positions of   *)
(* that list.  Two algorithms read it: a depth-first walk, when a group is *)
(* stored, that refuses a cycle; and Kahn's algorithm, when it is run,     *)
(* that says in which order its members start.                             *)
(***************************************************************************)
EXTENDS Naturals, Sequences, SequencesExt, FiniteSets

\* The adjacency list of v, filled edge by edge.
Children(edges, v) ==
    LET to[i \in 0..Len(edges)] ==
            IF i = 0 THEN <<>>
            ELSE IF edges[i][1] = v THEN Append(to[i - 1], edges[i][2]) ELSE to[i - 1]
    IN  to[Len(edges)]

\* Which children the walk enters; and a bug, by which it enters none it has met before.
Enters_Unvisited(color, child) == color[child] = "unvisited"
Enters(color, child) == color[child] # "done"

\* One turn of workflow_graph_has_cycle: take the top of the stack, a node and the number
\* of its children already entered; with an empty stack, begin at the next node.
WalkStep(edges, n, w) ==
    IF w.cycle \/ (w.stack = <<>> /\ w.start = n) THEN w
    ELSE IF w.stack = <<>>
    THEN [w EXCEPT !.start = @ + 1, !.stack = <<<<w.start + 1, 0>>>>]
    ELSE LET node   == Last(w.stack)[1]
             cursor == Last(w.stack)[2]
             next   == Children(edges, node)
             color  == IF cursor = 0 /\ w.color[node] = "unvisited"
                       THEN [w.color EXCEPT ![node] = "open"] ELSE w.color
             more(entered) == Front(w.stack) \o <<<<node, cursor + 1>>>> \o entered
         IN  IF cursor = 0 /\ w.color[node] = "open" THEN [w EXCEPT !.cycle = TRUE]
             ELSE IF cursor = 0 /\ w.color[node] = "done" THEN [w EXCEPT !.stack = Front(@)]
             ELSE IF cursor = Len(next)
             THEN [w EXCEPT !.color = [color EXCEPT ![node] = "done"], !.stack = Front(@)]
             ELSE [w EXCEPT !.color = color,
                            !.stack = more(IF Enters(color, next[cursor + 1])
                                           THEN <<<<next[cursor + 1], 0>>>> ELSE <<>>)]

\* Every node is begun once, finished once and passed over at most once; every edge is
\* followed once.
HasCycle(edges, n) ==
    LET turns == 3 * n + Len(edges)
        walk[k \in 0..turns] ==
            IF k = 0 THEN [start |-> 0, stack |-> <<>>, cycle |-> FALSE,
                           color |-> [v \in 1..n |-> "unvisited"]]
            ELSE WalkStep(edges, n, walk[k - 1])
    IN  walk[turns].cycle

\* normalize_workflow_group_input, but for what it trims.
Accepts(group) ==
    /\ group.name # ""
    /\ IsInjective(group.members)
    /\ \A i \in DOMAIN group.edges :
         /\ group.edges[i][1] \in DOMAIN group.members
         /\ group.edges[i][2] \in DOMAIN group.members
         /\ group.edges[i][1] # group.edges[i][2]
    /\ IsInjective(group.edges)
    /\ ~HasCycle(group.edges, Len(group.members))

Least(S) == CHOOSE i \in S : \A j \in S : i <= j

KahnStep(edges, k) ==
    IF k.ready = {} THEN k
    ELSE LET next == Least(k.ready)
             left == [v \in DOMAIN k.indegree |->
                        k.indegree[v] - Cardinality({i \in DOMAIN edges : edges[i] = <<next, v>>})]
         IN  [order    |-> Append(k.order, next),
              indegree |-> left,
              ready    |-> (k.ready \ {next})
                             \cup {v \in DOMAIN left : left[v] = 0 /\ <<next, v>> \in Range(edges)}]

\* workflow_run_order: the members' positions in the order they start; shorter than the
\* list of members if there is a cycle, which the caller reports as an error.
RunOrder(edges, n) ==
    LET indegree == [v \in 1..n |-> Cardinality({i \in DOMAIN edges : edges[i][2] = v})]
        kahn[k \in 0..n] ==
            IF k = 0 THEN [order |-> <<>>, indegree |-> indegree,
                           ready |-> {v \in 1..n : indegree[v] = 0}]
            ELSE KahnStep(edges, kahn[k - 1])
    IN  kahn[n].order
-----------------------------------------------------------------------------
(* What the two algorithms are for. *)

\* An order of all members in which every edge points forward.
Topological(order, edges, n) ==
    /\ Len(order) = n /\ Range(order) = 1..n
    /\ \A e \in Range(edges) :
         \E i, j \in 1..n : i < j /\ order[i] = e[1] /\ order[j] = e[2]

\* At each place the smallest position whose predecessors all came before.
LeastFirst(order, edges, n) ==
    \A i \in DOMAIN order : \A v \in 1..n \ Range(SubSeq(order, 1, i)) :
        v < order[i] => \E e \in Range(edges) :
                            e[2] = v /\ e[1] \notin Range(SubSeq(order, 1, i - 1))

\* Every part of it has a member that waits for none of that part.
Acyclic(edges, n) ==
    \A S \in (SUBSET (1..n)) \ {{}} : \E v \in S : \A e \in Range(edges) : e[2] = v => e[1] \notin S

\* The walk refuses exactly the graphs with a cycle; the order of any other is the one that
\* respects its edges and is decided by position wherever they leave a choice.
AlgorithmsAgree(edges, n) ==
    LET order == RunOrder(edges, n)
    IN  /\ HasCycle(edges, n) <=> ~Acyclic(edges, n)
        /\ Acyclic(edges, n) => Topological(order, edges, n) /\ LeastFirst(order, edges, n)
        /\ ~Acyclic(edges, n) => Len(order) < n
=============================================================================
