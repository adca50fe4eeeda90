----------------------------- MODULE MCWorkflows -----------------------------
(***************************************************************************)
(* Values of Workflows for TLC: three members on two nodes, and the two    *)
(* algorithms of WorkflowGraph on every graph of up to four.               *)
(***************************************************************************)
EXTENDS Workflows

CONSTANTS t1, t2, t3, n1

Targets == {t1, t2, t3}
Nodes == {Self, n1}
Nodes_Of == (t1 :> Self @@ t2 :> n1 @@ t3 :> n1)

Contents ==
    {[name |-> "a", members |-> <<t1, t2, t3>>, edges |-> <<<<3, 1>>, <<3, 2>>>>],
     [name |-> "a", members |-> <<t1, t2, t3>>, edges |-> <<<<1, 2>>, <<2, 1>>>>],
     [name |-> "b", members |-> <<t2>>, edges |-> <<>>],
     [name |-> "b", members |-> <<t1, t1>>, edges |-> <<>>]}

\* Every graph of up to four members; a list of edges names each of them once.
Pairs == <<<<4, 3>>, <<3, 4>>, <<1, 2>>, <<2, 1>>, <<3, 1>>, <<1, 3>>, <<2, 3>>, <<3, 2>>,
           <<2, 4>>, <<4, 2>>, <<1, 4>>, <<4, 1>>>>
Within(n) == {e \in Range(Pairs) : e[1] <= n /\ e[2] <= n}
Graph(E) ==
    LET list[i \in 0..Len(Pairs)] ==
            IF i = 0 THEN <<>>
            ELSE IF Pairs[i] \in E THEN Append(list[i - 1], Pairs[i]) ELSE list[i - 1]
    IN  list[Len(Pairs)]

\* The two algorithms agree with what they are for on each of them (workflow_graph_has_cycle,
\* workflow_run_order; evaluated where the role has changed before anything was written,
\* which is one state).
GraphsAgree ==
    writes = 0 /\ ~leader =>
        \A n \in 0..4 : \A E \in SUBSET Within(n) : AlgorithmsAgree(Graph(E), n)
=============================================================================
