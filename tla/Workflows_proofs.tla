--------------------------- MODULE Workflows_proofs ---------------------------
(***************************************************************************)
(* Workflow groups, for any groups, contents, graphs and retention.  The   *)
(* numbers of the revisions kept are an interval whose end is the group as *)
(* it is; Kahn's algorithm returns the order that respects the edges; a    *)
(* run follows that order; and the depth-first walk refuses exactly the    *)
(* graphs with a cycle.                                                    *)
(***************************************************************************)
EXTENDS MCWorkflows, FiniteSetTheorems, SequenceTheorems, WellFoundedInduction, TLAPS

\* The revisions of a group that was ever stored, from a to b.
Kept(g, a, b) ==
    /\ DOMAIN revisions[g] = a..b
    /\ a = 1 \/ b - a + 1 = Retention
    /\ b - a + 1 <= Retention
    /\ Exists(g) => revisions[g][b] = groups[g]

RevisionsInv ==
    /\ groups = [g \in Group |-> groups[g]]
    /\ revisions = [g \in Group |-> revisions[g]]
    /\ \A g \in Group : \/ Unused(g) /\ ~Exists(g) /\ DOMAIN revisions[g] = {}
                        \/ ~Unused(g) /\ \E a, b \in Nat \ {0} : a <= b /\ Kept(g, a, b)
-----------------------------------------------------------------------------
(* The ends of an interval. *)

LEMMA MaxOfInterval == ASSUME NEW a \in Nat, NEW b \in Nat, a <= b PROVE Max(a..b) = b
BY DEF Max

LEMMA MinOfInterval == ASSUME NEW a \in Nat, NEW b \in Nat, a <= b PROVE Min(a..b) = a
BY DEF Min
-----------------------------------------------------------------------------
(* What recording a revision leaves. *)

LEMMA Recorded ==
  ASSUME NEW g \in Group, NEW a \in Nat \ {0}, NEW b \in Nat \ {0}, a <= b, Kept(g, a, b),
         NEW input
  PROVE  LET new == RecordRevision(g, b + 1, input)
         IN  /\ \E c \in Nat \ {0} : /\ c <= b + 1 /\ DOMAIN new = c..(b + 1)
                                     /\ c = 1 \/ b + 1 - c + 1 = Retention
                                     /\ b + 1 - c + 1 <= Retention
             /\ new[b + 1] = input
             /\ \A n \in DOMAIN new : n <= b => n \in DOMAIN revisions[g] /\ new[n] = revisions[g][n]
<1>. DEFINE new == RecordRevision(g, b + 1, input)
            D == {m \in DOMAIN revisions[g] \cup {b + 1} : m + Retention > b + 1} \cup {b + 1}
            c == IF b + 2 - Retention > a THEN b + 2 - Retention ELSE a
<1>. USE RetentionAssumption
<1>1. new = [n \in D |-> IF n = b + 1 THEN input ELSE revisions[g][n]]
  BY DEF RecordRevision
<1>2. DOMAIN new = D
  BY <1>1
<1>3. D = c..(b + 1)
  BY DEF Kept
<1>4. c \in Nat \ {0} /\ c <= b + 1
  OBVIOUS
<1>5. (c = 1 \/ b + 1 - c + 1 = Retention) /\ b + 1 - c + 1 <= Retention
  BY DEF Kept
<1>6. new[b + 1] = input
  BY <1>1
<1>7. ASSUME NEW n \in DOMAIN new, n <= b
      PROVE  n \in DOMAIN revisions[g] /\ new[n] = revisions[g][n]
  <2>1. n \in a..b /\ n # b + 1 /\ n \in D
    BY <1>2, <1>7 DEF Kept
  <2>2. QED
    BY <1>1, <2>1 DEF Kept
<1>8. QED
  BY <1>2, <1>3, <1>4, <1>5, <1>6, <1>7

LEMMA FirstRecorded ==
  ASSUME NEW g \in Group, DOMAIN revisions[g] = {}, NEW input
  PROVE  LET new == RecordRevision(g, 1, input) IN DOMAIN new = 1..1 /\ new[1] = input
<1>1. RecordRevision(g, 1, input) = [n \in {1} |-> input]
  BY RetentionAssumption DEF RecordRevision
<1>2. QED
  BY <1>1
-----------------------------------------------------------------------------
(* The invariant. *)

LEMMA NotEmptyIsUsed ==
  ASSUME NEW g \in Group, NEW a \in Nat \ {0}, NEW b \in Nat \ {0}, a <= b, DOMAIN revisions[g] = a..b
  PROVE  ~Unused(g)
<1>1. DOMAIN <<>> = {} /\ a \in a..b
  OBVIOUS
<1>2. QED
  BY <1>1 DEF Unused

\* A write of one group is no matter of the others.
LEMMA OthersKeepRevisions ==
  ASSUME RevisionsInv, NEW h \in Group,
         groups' = [g \in Group |-> groups'[g]], revisions' = [g \in Group |-> revisions'[g]],
         \A g \in Group : g # h => groups'[g] = groups[g] /\ revisions'[g] = revisions[g],
         NEW a \in Nat \ {0}, NEW b \in Nat \ {0}, a <= b, ~Unused(h)', Kept(h, a, b)'
  PROVE  RevisionsInv'
<1>1. ASSUME NEW g \in Group
      PROVE  \/ Unused(g)' /\ ~Exists(g)' /\ DOMAIN revisions'[g] = {}
             \/ ~Unused(g)' /\ \E c, d \in Nat \ {0} : c <= d /\ Kept(g, c, d)'
  <2>1. CASE g = h
    BY <2>1
  <2>2. CASE g # h
    <3>1. groups'[g] = groups[g] /\ revisions'[g] = revisions[g]
      BY <2>2
    <3>2. CASE Unused(g) /\ ~Exists(g) /\ DOMAIN revisions[g] = {}
      BY <3>1, <3>2 DEF Unused, Exists
    <3>3. CASE ~Unused(g) /\ \E c, d \in Nat \ {0} : c <= d /\ Kept(g, c, d)
      <4>1. PICK c \in Nat \ {0}, d \in Nat \ {0} : c <= d /\ Kept(g, c, d)
        BY <3>3
      <4>2. ~Unused(g)' /\ Kept(g, c, d)'
        BY <3>1, <3>3, <4>1 DEF Kept, Unused, Exists
      <4>3. QED
        BY <4>1, <4>2
    <3>4. QED
      BY <3>2, <3>3 DEF RevisionsInv
  <2>3. QED
    BY <2>1, <2>2
<1>2. QED
  BY <1>1 DEF RevisionsInv

\* Numbers up to the newest stand for what they stood for.
NumbersStay ==
    \A g \in Group : revisions[g] # <<>> => \A n \in DOMAIN revisions'[g] :
        n <= Max(DOMAIN revisions[g]) => n \in DOMAIN revisions[g] /\ revisions'[g][n] = revisions[g][n]

LEMMA UpdateStep ==
  ASSUME RevisionsInv, NEW h \in Group, NEW content, Exists(h), Replace(h, content)
  PROVE  RevisionsInv' /\ NumbersStay
<1>1. PICK a \in Nat \ {0}, b \in Nat \ {0} : ~Unused(h) /\ a <= b /\ Kept(h, a, b)
  BY DEF RevisionsInv
<1>2. Max(DOMAIN revisions[h]) = b /\ NextRevision(h) = b + 1
  BY <1>1, MaxOfInterval DEF Kept, NextRevision
<1>3. /\ groups' = [groups EXCEPT ![h] = content]
      /\ revisions' = [revisions EXCEPT ![h] = RecordRevision(h, b + 1, content)]
  BY <1>2 DEF Replace
<1>4. /\ groups'[h] = content /\ revisions'[h] = RecordRevision(h, b + 1, content)
      /\ \A g \in Group : g # h => groups'[g] = groups[g] /\ revisions'[g] = revisions[g]
      /\ groups' = [g \in Group |-> groups'[g]]
      /\ revisions' = [g \in Group |-> revisions'[g]]
  BY <1>3 DEF RevisionsInv
<1>5. PICK c \in Nat \ {0} : /\ c <= b + 1 /\ DOMAIN revisions'[h] = c..(b + 1)
                             /\ c = 1 \/ b + 1 - c + 1 = Retention
                             /\ b + 1 - c + 1 <= Retention
                             /\ revisions'[h][b + 1] = content
  BY <1>1, <1>4, Recorded
<1>6. ~Unused(h)' /\ b + 1 \in Nat \ {0} /\ Kept(h, c, b + 1)'
  BY <1>4, <1>5 DEF Kept, Unused, Exists
<1>7. RevisionsInv'
  BY <1>4, <1>6, <1>5, OthersKeepRevisions
<1>8. ASSUME NEW g \in Group, revisions[g] # <<>>, NEW n \in DOMAIN revisions'[g],
             n <= Max(DOMAIN revisions[g])
      PROVE  n \in DOMAIN revisions[g] /\ revisions'[g][n] = revisions[g][n]
  BY <1>1, <1>2, <1>4, <1>8, Recorded
<1>9. QED
  BY <1>7, <1>8, Zenon DEF NumbersStay

LEMMA CreateStep ==
  ASSUME RevisionsInv, NEW h \in Group, NEW content, Create(h, content)
  PROVE  RevisionsInv' /\ NumbersStay
<1>1. Unused(h) /\ DOMAIN revisions[h] = {}
  BY DEF Create, RevisionsInv
<1>2. /\ groups' = [groups EXCEPT ![h] = content]
      /\ revisions' = [revisions EXCEPT ![h] = RecordRevision(h, 1, content)]
  BY DEF Create
<1>3. /\ groups'[h] = content /\ revisions'[h] = RecordRevision(h, 1, content)
      /\ \A g \in Group : g # h => groups'[g] = groups[g] /\ revisions'[g] = revisions[g]
      /\ groups' = [g \in Group |-> groups'[g]]
      /\ revisions' = [g \in Group |-> revisions'[g]]
  BY <1>2 DEF RevisionsInv
<1>4. DOMAIN revisions'[h] = 1..1 /\ revisions'[h][1] = content
  BY <1>1, <1>3, FirstRecorded
<1>5. ~Unused(h)' /\ Kept(h, 1, 1)'
  BY <1>3, <1>4, RetentionAssumption DEF Kept, Unused, Exists
<1>6. RevisionsInv'
  BY <1>3, <1>5, OthersKeepRevisions
<1>7. ASSUME NEW g \in Group, revisions[g] # <<>>, NEW n \in DOMAIN revisions'[g],
             n <= Max(DOMAIN revisions[g])
      PROVE  n \in DOMAIN revisions[g] /\ revisions'[g][n] = revisions[g][n]
  BY <1>1, <1>3, <1>7 DEF Unused
<1>8. QED
  BY <1>6, <1>7, Zenon DEF NumbersStay

LEMMA DeleteStep ==
  ASSUME RevisionsInv, NEW h \in Group, DeleteGroup(h)
  PROVE  RevisionsInv' /\ NumbersStay
<1>1. groups' = [groups EXCEPT ![h] = None] /\ revisions' = revisions /\ Exists(h)
  BY DEF DeleteGroup
<1>2. /\ groups'[h] = None /\ ~Exists(h)'
      /\ \A g \in Group : g # h => groups'[g] = groups[g]
      /\ groups' = [g \in Group |-> groups'[g]]
  BY <1>1 DEF RevisionsInv, Exists
<1>3. PICK a \in Nat \ {0}, b \in Nat \ {0} : a <= b /\ Kept(h, a, b) /\ ~Unused(h)
  BY <1>1 DEF RevisionsInv
<1>4. ~Unused(h)' /\ Kept(h, a, b)'
  BY <1>1, <1>2, <1>3 DEF Kept, Unused, Exists
<1>5. RevisionsInv'
  BY <1>1, <1>2, <1>3, <1>4, OthersKeepRevisions DEF RevisionsInv
<1>6. QED
  BY <1>1, <1>5, Zenon DEF NumbersStay

LEMMA UnchangedStep ==
  ASSUME RevisionsInv, UNCHANGED <<groups, revisions>>
  PROVE  RevisionsInv' /\ NumbersStay
BY DEF RevisionsInv, NumbersStay, Kept, Unused, Exists

RestoreInv == restore.pc = "read" => restore.group \in Group

LEMMA RevisionsInit == WorkflowInit => RevisionsInv /\ RestoreInv
<1>1. DOMAIN <<>> = {}
  OBVIOUS
<1>2. QED
  BY <1>1 DEF WorkflowInit, RevisionsInv, RestoreInv, Idle, Unused, Exists

LEMMA RevisionsNext ==
  ASSUME RevisionsInv, RestoreInv, [WorkflowNext]_workflowVars PROVE RevisionsInv' /\ RestoreInv' /\ NumbersStay
<1>1. CASE UNCHANGED workflowVars
  BY <1>1, UnchangedStep DEF workflowVars, stored, RestoreInv
<1>2. ASSUME NEW g \in Group, NEW input \in Inputs, CreateGroup(g, input)
      PROVE  RevisionsInv' /\ RestoreInv' /\ NumbersStay
  BY <1>2, CreateStep DEF CreateGroup, RestoreInv
<1>3. ASSUME NEW g \in Group, NEW input \in Inputs, UpdateGroup(g, input)
      PROVE  RevisionsInv' /\ RestoreInv' /\ NumbersStay
  BY <1>3, UpdateStep DEF UpdateGroup, CanUpdate, RestoreInv
<1>4. ASSUME NEW g \in Group, DeleteGroup(g)
      PROVE  RevisionsInv' /\ RestoreInv' /\ NumbersStay
  <2>1. restore' = restore
    BY <1>4 DEF DeleteGroup
  <2>2. QED
    BY <1>4, <2>1, DeleteStep DEF RestoreInv
<1>5. CASE WriteRestored
  <2>1. restore.group \in Group /\ restore' = Idle
    BY <1>5 DEF WriteRestored, RestoreInv
  <2>2. RestoreInv'
    BY <2>1 DEF RestoreInv, Idle
  <2>3. CASE InScope(restore.input) /\ CanUpdate(restore.group, restore.input)
    BY <1>5, <2>1, <2>2, <2>3, UpdateStep DEF WriteRestored, CanUpdate
  <2>4. CASE ~(InScope(restore.input) /\ CanUpdate(restore.group, restore.input))
    BY <1>5, <2>2, <2>4, UnchangedStep DEF WriteRestored, stored
  <2>5. QED
    BY <2>3, <2>4
<1>6. ASSUME NEW g \in Group, NEW number \in 1..MaxWrites, ReadRevision(g, number)
      PROVE  RevisionsInv' /\ RestoreInv' /\ NumbersStay
  <2>1. UNCHANGED <<groups, revisions>> /\ restore'.group = g
    BY <1>6 DEF ReadRevision, stored
  <2>2. QED
    BY <2>1, UnchangedStep DEF RestoreInv
<1>7. ASSUME UNCHANGED <<groups, revisions, restore>>
      PROVE  RevisionsInv' /\ RestoreInv' /\ NumbersStay
  BY <1>7, UnchangedStep DEF RestoreInv
<1>8. ASSUME NEW g \in Group, StartAction(g) \/ \E stop \in BOOLEAN : StartRun(g, stop)
      PROVE  UNCHANGED <<groups, revisions, restore>>
  BY <1>8, Zenon DEF StartAction, StartRun, stored
<1>9. CASE RunMember \/ FinishRun \/ ChangeRole
  BY <1>7, <1>9, Zenon DEF RunMember, FinishRun, ChangeRole, stored
<1>10. ASSUME \/ \E n \in Node, state \in {"unknown", "offline", "online"} : ChangeNode(n, state)
              \/ \E t \in Target, state \in {"task", "workspace", "nothing"} : ChangeInventory(t, state)
       PROVE  UNCHANGED <<groups, revisions, restore>>
  BY <1>10, Zenon DEF ChangeNode, ChangeInventory, stored
<1>11. QED
  BY <1>1, <1>2, <1>3, <1>4, <1>5, <1>6, <1>7, <1>8, <1>9, <1>10, Zenon DEF WorkflowNext

LEMMA RevisionsAlways == WorkflowSpec => [](RevisionsInv /\ RestoreInv)
<1>1. RevisionsInv /\ RestoreInv /\ [WorkflowNext]_workflowVars => (RevisionsInv /\ RestoreInv)'
  BY RevisionsNext
<1>2. QED
  BY <1>1, RevisionsInit, PTL DEF WorkflowSpec
-----------------------------------------------------------------------------
\* What a group is now, its newest revision says, for any groups, contents and retention
\* (state/workflow.rs: one transaction stores both).
THEOREM GroupIsItsNewestRevision == WorkflowSpec => []NewestRevisionIsGroup
<1>1. ASSUME RevisionsInv, NEW g \in Group, Exists(g)
      PROVE  DOMAIN revisions[g] # {} /\ revisions[g][Max(DOMAIN revisions[g])] = groups[g]
  <2>1. PICK a \in Nat \ {0}, b \in Nat \ {0} : a <= b /\ Kept(g, a, b)
    BY <1>1 DEF RevisionsInv
  <2>2. Max(a..b) = b /\ a \in a..b
    BY <2>1, MaxOfInterval
  <2>3. QED
    BY <1>1, <2>1, <2>2 DEF Kept
<1>2. RevisionsInv => NewestRevisionIsGroup
  BY <1>1, Zenon DEF NewestRevisionIsGroup
<1>3. QED
  BY <1>2, RevisionsAlways, PTL

\* Retention drops the oldest revisions and no more than it must
\* (record_workflow_revision_in_tx).
THEOREM RetentionDropsTheOldest == WorkflowSpec => []RevisionsAreTheLatest
<1>1. ASSUME RevisionsInv, NEW g \in Group, DOMAIN revisions[g] # {}
      PROVE  /\ DOMAIN revisions[g] = Min(DOMAIN revisions[g])..Max(DOMAIN revisions[g])
             /\ \/ Min(DOMAIN revisions[g]) = 1
                \/ Cardinality(DOMAIN revisions[g]) = Retention
  <2>1. PICK a \in Nat \ {0}, b \in Nat \ {0} : a <= b /\ Kept(g, a, b)
    BY <1>1 DEF RevisionsInv
  <2>2. Max(a..b) = b /\ Min(a..b) = a
    BY <2>1, MaxOfInterval, MinOfInterval
  <2>3. Cardinality(a..b) = b - a + 1
    BY <2>1, FS_Interval
  <2>4. QED
    BY <2>1, <2>2, <2>3 DEF Kept
<1>2. RevisionsInv => RevisionsAreTheLatest
  BY <1>1, Zenon DEF RevisionsAreTheLatest
<1>3. QED
  BY <1>2, RevisionsAlways, PTL

\* A revision's number is never given again (next_workflow_revision counts on from the largest
\* number kept, and the newest is always kept).
THEOREM NumbersAreNeverReused == WorkflowSpec => RevisionNumbersAreFinal
<1>1. RevisionsInv /\ RestoreInv /\ [WorkflowNext]_workflowVars => NumbersStay
  BY RevisionsNext
<1>2. NumbersStay => [NumbersStay]_revisions
  OBVIOUS
<1>3. QED
  BY <1>1, <1>2, RevisionsAlways, PTL DEF WorkflowSpec, RevisionNumbersAreFinal, NumbersStay
-----------------------------------------------------------------------------
(* The least of some naturals. *)

LEMMA LeastNatural ==
  ASSUME NEW S, S \subseteq Nat, S # {}
  PROVE  \E n \in S : \A m \in S : n <= m
<1>1. PICK n \in S : \A m \in S : <<m, n>> \notin OpToRel(<, Nat)
  BY NatLessThanWellFounded, WFMin, Zenon
<1>2. \A m \in S : ~(m < n)
  BY <1>1 DEF OpToRel
<1>3. QED
  BY <1>2

(* Kahn's algorithm, on any graph: edges, each between two of n positions. *)

IsGraph(edges, n) == n \in Nat /\ edges \in Seq((1..n) \X (1..n))

\* The edges into v from positions that are not in the order yet.
Awaits(edges, order, v) == {i \in DOMAIN edges : edges[i][2] = v /\ edges[i][1] \notin Range(order)}

\* The edges from u to v.
Between(edges, u, v) == {i \in DOMAIN edges : edges[i] = <<u, v>>}

\* Every edge into a position comes from an earlier one.
Forward(order, edges) ==
    \A i \in DOMAIN order : \A e \in Range(edges) :
        e[2] = order[i] => \E j \in DOMAIN order : j < i /\ order[j] = e[1]

\* A position that was passed over for a later one was waiting.
Chosen(order, edges, n) ==
    \A i \in DOMAIN order : \A v \in 1..n :
        (\A j \in 1..i : order[j] # v) /\ v < order[i] =>
            \E e \in Range(edges) : e[2] = v /\ \A j \in 1..(i - 1) : order[j] # e[1]

\* What the algorithm knows: the order so far, how many edges each position waits for, and
\* which positions wait for none.
KahnType(edges, n, k) ==
    /\ k.order \in Seq(1..n) /\ k.indegree \in [1..n -> Nat]
    /\ k.ready \subseteq 1..n
KahnCounts(edges, n, k) ==
    /\ \A v \in 1..n : k.indegree[v] = Cardinality(Awaits(edges, k.order, v))
    /\ k.ready = {v \in 1..n : v \notin Range(k.order) /\ Awaits(edges, k.order, v) = {}}
    /\ \A v \in Range(k.order) : Awaits(edges, k.order, v) = {}
KahnOrders(edges, n, k) ==
    IsInjective(k.order) /\ Forward(k.order, edges) /\ Chosen(k.order, edges, n)
KahnInv(edges, n, k) == KahnType(edges, n, k) /\ KahnCounts(edges, n, k) /\ KahnOrders(edges, n, k)

LEMMA EdgeParts ==
  ASSUME NEW n, NEW edges, IsGraph(edges, n)
  PROVE  /\ \A i \in DOMAIN edges : /\ edges[i] = <<edges[i][1], edges[i][2]>>
                                    /\ edges[i][1] \in 1..n /\ edges[i][2] \in 1..n
         /\ DOMAIN edges = 1..Len(edges) /\ Len(edges) \in Nat
         /\ IsFiniteSet(DOMAIN edges)
<1>1. DOMAIN edges = 1..Len(edges) /\ Len(edges) \in Nat
  BY DEF IsGraph
<1>2. IsFiniteSet(DOMAIN edges)
  BY <1>1, FS_Interval
<1>3. \A i \in DOMAIN edges : edges[i] \in (1..n) \X (1..n)
  BY <1>1 DEF IsGraph
<1>4. QED
  BY <1>1, <1>2, <1>3

LEMMA AwaitsIsFinite ==
  ASSUME NEW n, NEW edges, IsGraph(edges, n), NEW order, NEW v
  PROVE  /\ IsFiniteSet(Awaits(edges, order, v)) /\ Cardinality(Awaits(edges, order, v)) \in Nat
         /\ Cardinality(Awaits(edges, order, v)) = 0 <=> Awaits(edges, order, v) = {}
<1>1. IsFiniteSet(Awaits(edges, order, v))
  <2>1. Awaits(edges, order, v) \subseteq DOMAIN edges
    BY DEF Awaits
  <2>2. QED
    BY <2>1, EdgeParts, FS_Subset
<1>2. QED
  BY <1>1, FS_CardinalityType, FS_EmptySet

LEMMA AppendedRange ==
  ASSUME NEW n, NEW s \in Seq(1..n), NEW x \in 1..n
  PROVE  /\ Append(s, x) \in Seq(1..n)
         /\ Len(s) \in Nat /\ Len(Append(s, x)) = Len(s) + 1
         /\ DOMAIN s = 1..Len(s) /\ DOMAIN Append(s, x) = 1..(Len(s) + 1)
         /\ \A i \in 1..Len(s) : Append(s, x)[i] = s[i]
         /\ Append(s, x)[Len(s) + 1] = x
         /\ Range(Append(s, x)) = Range(s) \cup {x}
<1>. DEFINE t == Append(s, x)
<1>1. /\ t \in Seq(1..n) /\ Len(s) \in Nat /\ Len(t) = Len(s) + 1
      /\ \A i \in 1..Len(s) : t[i] = s[i]
      /\ t[Len(s) + 1] = x
  BY AppendProperties
<1>2. DOMAIN s = 1..Len(s) /\ DOMAIN t = 1..(Len(s) + 1)
  BY <1>1
<1>. HIDE DEF t
<1>3. ASSUME NEW y \in Range(t) PROVE y \in Range(s) \cup {x}
  <2>1. PICK i \in 1..(Len(s) + 1) : y = t[i]
    BY <1>2 DEF Range
  <2>2. i \in 1..Len(s) \/ i = Len(s) + 1
    BY <1>1
  <2>3. QED
    BY <2>1, <2>2, <1>1, <1>2 DEF Range
<1>4. x \in Range(t)
  <2>1. Len(s) + 1 \in DOMAIN t
    BY <1>1, <1>2
  <2>2. QED
    BY <2>1, <1>1 DEF Range
<1>5. ASSUME NEW y \in Range(s) PROVE y \in Range(t)
  <2>1. PICK i \in 1..Len(s) : y = s[i]
    BY <1>2 DEF Range
  <2>2. i \in DOMAIN t
    BY <1>1, <1>2
  <2>3. QED
    BY <2>1, <2>2, <1>1 DEF Range
<1>6. QED
  BY <1>1, <1>2, <1>3, <1>4, <1>5 DEF t

\* What is appended is no longer waited for.
LEMMA AwaitsLess ==
  ASSUME NEW n, NEW edges, IsGraph(edges, n), NEW order \in Seq(1..n), NEW next \in 1..n,
         next \notin Range(order), NEW v
  PROVE  /\ Range(Append(order, next)) = Range(order) \cup {next}
         /\ Awaits(edges, Append(order, next), v)
              = Awaits(edges, order, v) \ Between(edges, next, v)
         /\ Between(edges, next, v) \subseteq Awaits(edges, order, v)
         /\ Cardinality(Awaits(edges, Append(order, next), v)) =
              Cardinality(Awaits(edges, order, v)) - Cardinality(Between(edges, next, v))
         /\ Between(edges, next, v) = {} <=> <<next, v>> \notin Range(edges)
<1>. DEFINE into == Between(edges, next, v)
<1>1. Range(Append(order, next)) = Range(order) \cup {next}
  BY AppendedRange
<1>2. into = {i \in DOMAIN edges : edges[i][1] = next /\ edges[i][2] = v}
  BY EdgeParts DEF Between
<1>3. Awaits(edges, Append(order, next), v) = Awaits(edges, order, v) \ into
  BY <1>1, <1>2 DEF Awaits
<1>4. into \subseteq Awaits(edges, order, v)
  BY <1>2 DEF Awaits
<1>5. into = {} <=> <<next, v>> \notin Range(edges)
  BY DEF Range, Between
<1>. HIDE DEF into
<1>6. Awaits(edges, order, v) \cap into = into
  BY <1>4
<1>7. Cardinality(Awaits(edges, order, v) \ into) =
        Cardinality(Awaits(edges, order, v)) - Cardinality(into)
  <2>1. IsFiniteSet(Awaits(edges, order, v))
    BY AwaitsIsFinite
  <2>2. QED
    BY <2>1, <1>6, FS_Difference
<1>8. QED
  BY <1>1, <1>3, <1>4, <1>5, <1>7 DEF into

\* One turn of the algorithm appends a position and keeps what it knows.
LEMMA KahnMoves ==
  ASSUME NEW n, NEW edges, IsGraph(edges, n), NEW k, KahnInv(edges, n, k), k.ready # {}
  PROVE  /\ KahnInv(edges, n, KahnStep(edges, k))
         /\ Len(KahnStep(edges, k).order) = Len(k.order) + 1
<1>. DEFINE next == Least(k.ready)
            into(v) == Between(edges, next, v)
            order == Append(k.order, next)
            left == [v \in DOMAIN k.indegree |-> k.indegree[v] - Cardinality(into(v))]
            ready == (k.ready \ {next})
                        \cup {v \in DOMAIN left : left[v] = 0 /\ <<next, v>> \in Range(edges)}
            was(v) == Awaits(edges, k.order, v)
            now(v) == Awaits(edges, order, v)
<1>1. KahnStep(edges, k) = [order |-> order, indegree |-> left, ready |-> ready]
  BY DEF KahnStep, Between
<1>2. KahnType(edges, n, k) /\ KahnCounts(edges, n, k) /\ KahnOrders(edges, n, k)
  BY DEF KahnInv
<1>3. next \in k.ready /\ \A j \in k.ready : next <= j
  <2>1. k.ready \subseteq Nat
    BY <1>2 DEF KahnType, IsGraph
  <2>2. \E i \in k.ready : \A j \in k.ready : i <= j
    BY <2>1, LeastNatural
  <2>3. QED
    BY <2>2 DEF Least
<1>. HIDE DEF next
<1>4. /\ next \in 1..n /\ next \notin Range(k.order) /\ was(next) = {}
      /\ k.order \in Seq(1..n) /\ n \in Nat
  BY <1>2, <1>3 DEF KahnType, KahnCounts, IsGraph
<1>5. /\ order \in Seq(1..n) /\ Len(k.order) \in Nat /\ Len(order) = Len(k.order) + 1
      /\ DOMAIN k.order = 1..Len(k.order) /\ DOMAIN order = 1..(Len(k.order) + 1)
      /\ \A i \in 1..Len(k.order) : order[i] = k.order[i]
      /\ order[Len(k.order) + 1] = next
      /\ Range(order) = Range(k.order) \cup {next}
  BY <1>4, AppendedRange
<1>6. \A v : /\ now(v) = was(v) \ into(v) /\ into(v) \subseteq was(v)
             /\ Cardinality(now(v)) = Cardinality(was(v)) - Cardinality(into(v))
             /\ into(v) = {} <=> <<next, v>> \notin Range(edges)
  BY <1>4, AwaitsLess
<1>7. \A v : Cardinality(now(v)) \in Nat /\ (Cardinality(now(v)) = 0 <=> now(v) = {})
  BY AwaitsIsFinite
<1>8. DOMAIN k.indegree = 1..n /\ \A v \in 1..n : k.indegree[v] = Cardinality(was(v))
  BY <1>2 DEF KahnType, KahnCounts
<1>9. /\ k.ready = {v \in 1..n : v \notin Range(k.order) /\ was(v) = {}}
      /\ \A v \in Range(k.order) : was(v) = {}
  BY <1>2 DEF KahnCounts
<1>10. KahnOrders(edges, n, k)
  BY <1>2
<1>11. \A i \in DOMAIN edges : edges[i][1] \in 1..n /\ edges[i][2] \in 1..n
  BY EdgeParts
<1>. HIDE DEF into, order
<1>12. \A v \in 1..n : left[v] = Cardinality(now(v))
  BY <1>6, <1>8
<1>13. DOMAIN left = 1..n
  BY <1>8
<1>14. left \in [1..n -> Nat]
  <2>1. \A v \in 1..n : left[v] \in Nat
    BY <1>12, <1>7
  <2>2. left = [v \in 1..n |-> left[v]]
    BY <1>8
  <2>. HIDE DEF left
  <2>3. QED
    BY <2>1, <2>2
<1>. HIDE DEF left, was, now
<1>15. ready = {v \in 1..n : v \notin Range(order) /\ now(v) = {}}
  <2>1. ASSUME NEW v \in ready PROVE v \in 1..n /\ v \notin Range(order) /\ now(v) = {}
    <3>1. CASE v \in k.ready \ {next}
      BY <3>1, <1>5, <1>6, <1>9
    <3>2. CASE v \in 1..n /\ left[v] = 0 /\ <<next, v>> \in Range(edges)
      <4>1. now(v) = {}
        BY <3>2, <1>12, <1>7
      <4>2. was(v) # {}
        BY <3>2, <1>6
      <4>3. QED
        BY <4>1, <4>2, <3>2, <1>4, <1>5, <1>9
    <3>3. QED
      BY <3>1, <3>2, <1>13
  <2>2. ASSUME NEW v \in 1..n, v \notin Range(order), now(v) = {} PROVE v \in ready
    <3>1. CASE <<next, v>> \in Range(edges)
      BY <3>1, <2>2, <1>12, <1>7, <1>13
    <3>2. CASE <<next, v>> \notin Range(edges)
      <4>1. was(v) = {}
        BY <3>2, <2>2, <1>6
      <4>2. QED
        BY <4>1, <2>2, <1>5, <1>9
    <3>3. QED
      BY <3>1, <3>2
  <2>. HIDE DEF ready
  <2>3. QED
    BY <2>1, <2>2
<1>. HIDE DEF ready
<1>16. \A v \in Range(order) : now(v) = {}
  BY <1>4, <1>5, <1>6, <1>9
<1>17. KahnType(edges, n, [order |-> order, indegree |-> left, ready |-> ready])
  <2>1. ready \subseteq 1..n
    BY <1>15
  <2>2. QED
    BY <2>1, <1>5, <1>14 DEF KahnType
<1>18. KahnCounts(edges, n, [order |-> order, indegree |-> left, ready |-> ready])
  BY <1>12, <1>15, <1>16 DEF KahnCounts, now
<1>19. IsInjective(order)
  <2>1. IsInjective(k.order)
    BY <1>10 DEF KahnOrders
  <2>2. SUFFICES ASSUME NEW i \in DOMAIN order, NEW j \in DOMAIN order, order[i] = order[j]
                 PROVE i = j
    BY DEF IsInjective
  <2>3. \A l \in 1..Len(k.order) : order[l] \in Range(k.order)
    BY <1>5 DEF Range
  <2>4. \A l \in 1..Len(k.order) : order[l] # next
    BY <2>3, <1>4
  <2>5. \A l \in DOMAIN order : l \in 1..Len(k.order) \/ l = Len(k.order) + 1
    BY <1>5
  <2>6. QED
    BY <2>1, <2>2, <2>4, <2>5, <1>5 DEF IsInjective
<1>20. Forward(order, edges)
  <2>1. SUFFICES ASSUME NEW i \in DOMAIN order, NEW e \in Range(edges), e[2] = order[i]
                 PROVE \E j \in DOMAIN order : j < i /\ order[j] = e[1]
    BY DEF Forward
  <2>2. CASE i \in 1..Len(k.order)
    <3>1. \E j \in DOMAIN k.order : j < i /\ k.order[j] = e[1]
      BY <2>1, <2>2, <1>5, <1>10 DEF KahnOrders, Forward
    <3>2. QED
      BY <3>1, <1>5
  <2>3. CASE i = Len(k.order) + 1
    <3>1. PICK m \in DOMAIN edges : edges[m] = e
      BY DEF Range
    <3>2. e[1] \in Range(k.order)
      BY <3>1, <2>1, <2>3, <1>4, <1>5 DEF was, Awaits
    <3>3. PICK j \in 1..Len(k.order) : k.order[j] = e[1]
      BY <3>2, <1>5 DEF Range
    <3>4. QED
      BY <3>3, <2>3, <1>5
  <2>4. QED
    BY <2>2, <2>3, <1>5
<1>21. Chosen(order, edges, n)
  <2>1. SUFFICES ASSUME NEW i \in DOMAIN order, NEW v \in 1..n,
                        \A j \in 1..i : order[j] # v, v < order[i]
                 PROVE \E e \in Range(edges) :
                          e[2] = v /\ \A j \in 1..(i - 1) : order[j] # e[1]
    BY DEF Chosen
  <2>2. CASE i \in 1..Len(k.order)
    <3>1. \A j \in 1..i : j \in 1..Len(k.order)
      BY <2>2, <1>5
    <3>2. /\ \A j \in 1..i : k.order[j] = order[j]
          /\ \A j \in 1..(i - 1) : k.order[j] = order[j]
      BY <3>1, <2>2, <1>5
    <3>3. \E e \in Range(edges) : e[2] = v /\ \A j \in 1..(i - 1) : k.order[j] # e[1]
      <4>1. Chosen(k.order, edges, n)
        BY <1>10 DEF KahnOrders
      <4>2. i \in DOMAIN k.order /\ (\A j \in 1..i : k.order[j] # v) /\ v < k.order[i]
        BY <3>2, <2>1, <2>2, <1>5
      <4>3. QED
        BY <4>1, <4>2 DEF Chosen
    <3>4. QED
      BY <3>2, <3>3
  <2>3. CASE i = Len(k.order) + 1
    <3>1. v \notin k.ready
      <4>1. v \in Nat /\ next \in Nat /\ v < next
        BY <2>1, <2>3, <1>4, <1>5
      <4>2. QED
        BY <4>1, <1>3
    <3>2. v \notin Range(k.order)
      <4>1. ASSUME NEW j \in 1..Len(k.order) PROVE k.order[j] # v
        <5>1. j \in 1..i
          BY <2>3, <1>5
        <5>2. QED
          BY <5>1, <2>1, <1>5
      <4>2. QED
        BY <4>1, <1>5 DEF Range
    <3>3. PICK m \in DOMAIN edges : edges[m][2] = v /\ edges[m][1] \notin Range(k.order)
      BY <3>1, <3>2, <1>9 DEF was, Awaits
    <3>4. edges[m] \in Range(edges)
      BY DEF Range
    <3>5. \A j \in 1..(i - 1) : order[j] # edges[m][1]
      <4>1. \A j \in 1..(i - 1) : j \in DOMAIN k.order /\ order[j] = k.order[j]
        BY <2>3, <1>5
      <4>2. QED
        BY <4>1, <3>3 DEF Range
    <3>6. QED
      BY <3>3, <3>4, <3>5
  <2>4. QED
    BY <2>2, <2>3, <1>5
<1>22. KahnOrders(edges, n, [order |-> order, indegree |-> left, ready |-> ready])
  BY <1>19, <1>20, <1>21 DEF KahnOrders
<1>23. KahnInv(edges, n, [order |-> order, indegree |-> left, ready |-> ready])
  BY <1>17, <1>18, <1>22 DEF KahnInv
<1>24. QED
  <2>1. KahnStep(edges, k) = [order |-> order, indegree |-> left, ready |-> ready]
    BY <1>1 DEF order, left, ready, into
  <2>2. KahnStep(edges, k).order = order
    BY <2>1
  <2>3. QED
    BY <2>1, <2>2, <1>5, <1>23

\* Where it begins.
KahnBegins(edges, n) ==
    [order |-> <<>>,
     indegree |-> [v \in 1..n |-> Cardinality({i \in DOMAIN edges : edges[i][2] = v})],
     ready |-> {v \in 1..n : Cardinality({i \in DOMAIN edges : edges[i][2] = v}) = 0}]

LEMMA KahnBeginsRight ==
  ASSUME NEW n, NEW edges, IsGraph(edges, n)
  PROVE  KahnInv(edges, n, KahnBegins(edges, n)) /\ Len(KahnBegins(edges, n).order) = 0
<1>. DEFINE k == KahnBegins(edges, n)
            into(v) == {i \in DOMAIN edges : edges[i][2] = v}
            count == [v \in 1..n |-> Cardinality(into(v))]
<1>1. k = [order |-> <<>>, indegree |-> count, ready |-> {v \in 1..n : Cardinality(into(v)) = 0}]
  BY DEF KahnBegins
<1>2. k.order = <<>> /\ Range(k.order) = {} /\ DOMAIN k.order = {} /\ k.order \in Seq(1..n)
  BY <1>1 DEF Range
<1>3. \A v : Awaits(edges, k.order, v) = into(v)
  BY <1>2 DEF Awaits
<1>4. \A v : Cardinality(into(v)) \in Nat /\ (Cardinality(into(v)) = 0 <=> into(v) = {})
  <2>1. \A v : /\ Cardinality(Awaits(edges, k.order, v)) \in Nat
               /\ Cardinality(Awaits(edges, k.order, v)) = 0 <=> Awaits(edges, k.order, v) = {}
    BY AwaitsIsFinite
  <2>. HIDE DEF k, into
  <2>2. QED
    BY <1>3, <2>1
<1>. HIDE DEF into
<1>5. count \in [1..n -> Nat]
  BY <1>4
<1>. HIDE DEF k
<1>6. KahnType(edges, n, k)
  BY <1>1, <1>2, <1>5 DEF KahnType
<1>7. KahnCounts(edges, n, k)
  BY <1>1, <1>2, <1>3, <1>4 DEF KahnCounts
<1>8. KahnOrders(edges, n, k)
  BY <1>2 DEF KahnOrders, Forward, Chosen, IsInjective
<1>9. QED
  BY <1>2, <1>6, <1>7, <1>8 DEF KahnInv, k

\* The first m turns.
KahnTurns(edges, n, m, turn) ==
    turn = [k \in 0..m |-> IF k = 0 THEN KahnBegins(edges, n) ELSE KahnStep(edges, turn[k - 1])]

LEMMA KahnCanTurn ==
  ASSUME NEW n, NEW edges, NEW m \in Nat
  PROVE  \E turn : KahnTurns(edges, n, m, turn)
<1>. DEFINE Bad == {i \in Nat : ~\E turn : KahnTurns(edges, n, i, turn)}
<1>1. SUFFICES ASSUME Bad # {} PROVE FALSE
  OBVIOUS
<1>2. PICK i \in Bad : \A j \in Bad : i <= j
  BY <1>1, LeastNatural
<1>3. CASE i = 0
  <2>. DEFINE turn == [k \in 0..0 |-> KahnBegins(edges, n)]
  <2>1. KahnTurns(edges, n, 0, turn)
    BY DEF KahnTurns
  <2>2. QED
    BY <2>1, <1>2, <1>3
<1>4. CASE i # 0
  <2>1. i \in Nat /\ i - 1 \in Nat /\ ~(i <= i - 1)
    BY <1>4
  <2>2. PICK f : KahnTurns(edges, n, i - 1, f)
    BY <1>2, <2>1
  <2>. DEFINE step(k) == KahnStep(edges, k)
              turn == [k \in 0..i |-> IF k = i THEN step(f[i - 1]) ELSE f[k]]
  <2>3. /\ DOMAIN f = 0..(i - 1)
        /\ \A k \in 0..(i - 1) : f[k] = IF k = 0 THEN KahnBegins(edges, n) ELSE step(f[k - 1])
    BY <2>2 DEF KahnTurns
  <2>. HIDE DEF step
  <2>4. \A k \in 0..(i - 1) : turn[k] = f[k]
    BY <2>1
  <2>5. turn[i] = step(f[i - 1])
    BY <2>1
  <2>6. \A k \in 0..i : k \in 0..(i - 1) \/ k = i
    BY <2>1
  <2>7. DOMAIN turn = 0..i
    OBVIOUS
  <2>8. turn = [k \in DOMAIN turn |-> turn[k]]
    OBVIOUS
  <2>. HIDE DEF turn
  <2>9. \A k \in 0..i : turn[k] = IF k = 0 THEN KahnBegins(edges, n) ELSE step(turn[k - 1])
    <3>. TAKE k \in 0..i
    <3>1. CASE k = i
      BY <3>1, <2>1, <2>4, <2>5, <1>4
    <3>2. CASE k \in 0..(i - 1) /\ k = 0
      BY <3>2, <2>3, <2>4
    <3>3. CASE k \in 0..(i - 1) /\ k # 0
      <4>1. k - 1 \in 0..(i - 1)
        BY <3>3, <2>1
      <4>2. QED
        BY <4>1, <3>3, <2>3, <2>4
    <3>4. QED
      BY <3>1, <3>2, <3>3, <2>6
  <2>10. KahnTurns(edges, n, i, turn)
    BY <2>7, <2>8, <2>9 DEF KahnTurns, step
  <2>11. QED
    BY <2>10, <1>2
<1>5. QED
  BY <1>3, <1>4

\* What the algorithm returns: its order when no position is ready, or after n turns.
LEMMA KahnEnds ==
  ASSUME NEW n, NEW edges, IsGraph(edges, n)
  PROVE  \E k : /\ KahnInv(edges, n, k) /\ RunOrder(edges, n) = k.order
                /\ k.ready = {} \/ Len(k.order) = n
<1>. DEFINE body(f) == [k \in 0..n |-> IF k = 0 THEN KahnBegins(edges, n)
                                        ELSE KahnStep(edges, f[k - 1])]
            turn == CHOOSE f : f = body(f)
<1>1. n \in Nat
  BY DEF IsGraph
<1>2. RunOrder(edges, n) = turn[n].order
  BY Zenon DEF RunOrder, KahnBegins
<1>3. turn = body(turn)
  <2>1. \E f : f = body(f)
    <3>1. PICK f : KahnTurns(edges, n, n, f)
      BY <1>1, KahnCanTurn
    <3>2. f = body(f)
      BY <3>1, Zenon DEF KahnTurns
    <3>. HIDE DEF body
    <3>3. QED
      BY <3>2
  <2>2. QED
    BY <2>1, Zenon
<1>. DEFINE Good(k) == KahnInv(edges, n, turn[k]) /\ (turn[k].ready = {} \/ Len(turn[k].order) = k)
<1>. HIDE DEF turn
<1>4. turn[0] = KahnBegins(edges, n) /\ \A k \in 1..n : turn[k] = KahnStep(edges, turn[k - 1])
  BY <1>1, <1>3
<1>5. Good(0)
  BY <1>4, KahnBeginsRight
<1>6. ASSUME NEW k \in 1..n, Good(k - 1) PROVE Good(k)
  <2>1. CASE turn[k - 1].ready = {}
    <3>1. turn[k] = turn[k - 1]
      BY <2>1, <1>4 DEF KahnStep
    <3>2. QED
      BY <3>1, <2>1, <1>6
  <2>2. CASE turn[k - 1].ready # {}
    <3>1. Len(turn[k - 1].order) = k - 1
      BY <2>2, <1>6
    <3>2. /\ KahnInv(edges, n, KahnStep(edges, turn[k - 1]))
          /\ Len(KahnStep(edges, turn[k - 1]).order) = Len(turn[k - 1].order) + 1
      BY <2>2, <1>6, KahnMoves
    <3>3. QED
      BY <3>1, <3>2, <1>1, <1>4
  <2>3. QED
    BY <2>1, <2>2
<1>. HIDE DEF Good
<1>7. \A k \in 0..n : Good(k)
  <2>. SUFFICES ASSUME NEW bad \in 0..n, ~Good(bad) PROVE FALSE
    OBVIOUS
  <2>. DEFINE Bad == {i \in 0..n : ~Good(i)}
  <2>1. Bad \subseteq Nat /\ bad \in Bad
    BY <1>1
  <2>2. PICK i \in Bad : \A j \in Bad : i <= j
    BY <2>1, LeastNatural
  <2>3. i \in 1..n /\ i - 1 \in 0..n /\ ~(i <= i - 1)
    BY <1>1, <1>5, <2>2
  <2>4. Good(i - 1)
    BY <2>2, <2>3
  <2>5. QED
    BY <1>6, <2>2, <2>3, <2>4
<1>8. Good(n)
  BY <1>1, <1>7
<1>9. QED
  BY <1>2, <1>8 DEF Good

\* An order names each position once, and all of them when it is as long as the list.
LEMMA OrderIsBounded ==
  ASSUME NEW n \in Nat, NEW order \in Seq(1..n), IsInjective(order)
  PROVE  Len(order) <= n /\ (Len(order) = n <=> Range(order) = 1..n)
<1>1. Len(order) \in Nat /\ DOMAIN order = 1..Len(order)
  OBVIOUS
<1>2. Range(order) \subseteq 1..n
  BY DEF Range
<1>3. order \in [1..Len(order) -> Range(order)]
  BY <1>1 DEF Range
<1>4. \A t \in Range(order) : \E s \in 1..Len(order) : order[s] = t
  BY <1>1 DEF Range
<1>5. order \in Bijection(1..Len(order), Range(order))
  BY <1>3, <1>4 DEF Bijection, Injection, Surjection
<1>6. Cardinality(Range(order)) = Len(order)
  <2>1. ExistsBijection(1..Len(order), Range(order))
    BY <1>5 DEF ExistsBijection
  <2>2. QED
    BY <1>1, <2>1, FS_CountingElements
<1>7. IsFiniteSet(1..n) /\ Cardinality(1..n) = n
  BY FS_Interval
<1>8. Cardinality(Range(order)) <= Cardinality(1..n)
      /\ (Cardinality(1..n) = Cardinality(Range(order)) => 1..n = Range(order))
  BY <1>2, <1>7, FS_Subset
<1>9. QED
  BY <1>6, <1>7, <1>8

LEMMA StartOfOrder ==
  ASSUME NEW n \in Nat, NEW order \in Seq(1..n), NEW i \in 0..Len(order)
  PROVE  Range(SubSeq(order, 1, i)) = {order[j] : j \in 1..i}
<1>1. \A j \in 1..i : order[j] \in 1..n
  OBVIOUS
<1>2. /\ SubSeq(order, 1, i) \in Seq(1..n)
      /\ Len(SubSeq(order, 1, i)) = IF 1 <= i THEN i - 1 + 1 ELSE 0
      /\ \A j \in 1..(i - 1 + 1) : SubSeq(order, 1, i)[j] = order[1 + j - 1]
  BY <1>1, SubSeqProperties
<1>. DEFINE start == SubSeq(order, 1, i)
<1>. HIDE DEF start
<1>3. DOMAIN start = 1..i /\ \A j \in 1..i : start[j] = order[j]
  <2>1. DOMAIN start = 1..Len(start) /\ Len(start) = i
    BY <1>2 DEF start
  <2>2. i - 1 + 1 = i /\ \A j \in 1..i : 1 + j - 1 = j
    OBVIOUS
  <2>3. QED
    BY <1>2, <2>1, <2>2 DEF start
<1>4. QED
  BY <1>3 DEF Range, start

\* The order of a graph without a cycle has all positions, respects every edge and is decided
\* by position wherever the edges leave a choice; the order of any other graph is shorter than
\* the list of members, which the caller reports (workflow_run_order).
THEOREM RunOrderIsRight ==
  ASSUME NEW n, NEW edges, IsGraph(edges, n)
  PROVE  /\ Acyclic(edges, n) => /\ Topological(RunOrder(edges, n), edges, n)
                                 /\ LeastFirst(RunOrder(edges, n), edges, n)
         /\ ~Acyclic(edges, n) => Len(RunOrder(edges, n)) < n
<1>1. PICK k : /\ KahnInv(edges, n, k) /\ RunOrder(edges, n) = k.order
               /\ k.ready = {} \/ Len(k.order) = n
  BY KahnEnds
<1>. DEFINE order == k.order
<1>2. /\ order \in Seq(1..n) /\ IsInjective(order) /\ Forward(order, edges)
      /\ Chosen(order, edges, n) /\ n \in Nat
      /\ k.ready = {v \in 1..n : v \notin Range(order) /\ Awaits(edges, order, v) = {}}
  BY <1>1 DEF KahnInv, KahnType, KahnCounts, KahnOrders, IsGraph
<1>10. RunOrder(edges, n) = order /\ (k.ready = {} \/ Len(order) = n)
  BY <1>1
<1>. HIDE DEF order
<1>3. Len(order) <= n /\ Len(order) \in Nat /\ (Len(order) = n <=> Range(order) = 1..n)
      /\ DOMAIN order = 1..Len(order) /\ Range(order) \subseteq 1..n
  BY <1>2, OrderIsBounded DEF Range
<1>4. \A e \in Range(edges) : e[1] \in 1..n /\ e[2] \in 1..n
  BY EdgeParts DEF Range
<1>5. Acyclic(edges, n) => Len(order) = n
  <2>1. SUFFICES ASSUME Acyclic(edges, n), k.ready = {}, Range(order) # 1..n PROVE FALSE
    BY <1>10, <1>3
  <2>2. 1..n \ Range(order) \in (SUBSET (1..n)) \ {{}}
    BY <1>3, <2>1
  <2>3. PICK v \in 1..n \ Range(order) :
            \A e \in Range(edges) : e[2] = v => e[1] \notin 1..n \ Range(order)
    BY <2>1, <2>2 DEF Acyclic
  <2>4. Awaits(edges, order, v) = {}
    <3>1. SUFFICES ASSUME NEW i \in DOMAIN edges, edges[i][2] = v, edges[i][1] \notin Range(order)
                   PROVE FALSE
      BY DEF Awaits
    <3>2. edges[i] \in Range(edges)
      BY DEF Range
    <3>3. QED
      BY <1>4, <2>3, <3>1, <3>2
  <2>5. QED
    BY <1>2, <2>1, <2>3, <2>4
<1>6. Len(order) = n => Acyclic(edges, n)
  <2>1. SUFFICES ASSUME Range(order) = 1..n, NEW S \in (SUBSET (1..n)) \ {{}}
                 PROVE \E v \in S : \A e \in Range(edges) : e[2] = v => e[1] \notin S
    BY <1>3 DEF Acyclic
  <2>. DEFINE At == {i \in DOMAIN order : order[i] \in S}
  <2>2. At \subseteq Nat /\ At # {}
    <3>1. PICK v \in S : v \in Range(order)
      <4>1. S # {} /\ S \subseteq 1..n
        BY <2>1
      <4>2. QED
        BY <4>1, <2>1
    <3>2. PICK i \in DOMAIN order : order[i] = v
      BY <3>1 DEF Range
    <3>3. QED
      BY <1>3, <3>1, <3>2
  <2>3. PICK i \in At : \A j \in At : i <= j
    BY <2>2, LeastNatural
  <2>4. ASSUME NEW e \in Range(edges), e[2] = order[i], e[1] \in S PROVE FALSE
    <3>1. PICK j \in DOMAIN order : j < i /\ order[j] = e[1]
      BY <1>2, <2>3, <2>4 DEF Forward
    <3>2. j \in At /\ i \in Nat /\ j \in Nat
      BY <1>3, <2>2, <2>3, <2>4, <3>1
    <3>3. QED
      BY <2>3, <3>1, <3>2
  <2>5. QED
    BY <2>3, <2>4
<1>7. Len(order) = n => Topological(order, edges, n)
  <2>1. SUFFICES ASSUME Len(order) = n, NEW e \in Range(edges)
                 PROVE \E i, j \in 1..n : i < j /\ order[i] = e[1] /\ order[j] = e[2]
    BY <1>3 DEF Topological
  <2>2. PICK j \in 1..n : order[j] = e[2]
    BY <1>3, <1>4, <2>1 DEF Range
  <2>3. PICK i \in 1..n : i < j /\ order[i] = e[1]
    BY <1>2, <1>3, <2>1, <2>2 DEF Forward
  <2>4. QED
    BY <2>2, <2>3
<1>8. LeastFirst(order, edges, n)
  <2>1. SUFFICES ASSUME NEW i \in DOMAIN order, NEW v \in 1..n \ Range(SubSeq(order, 1, i)),
                        v < order[i]
                 PROVE  \E e \in Range(edges) :
                            e[2] = v /\ e[1] \notin Range(SubSeq(order, 1, i - 1))
    BY DEF LeastFirst
  <2>2. /\ i \in 1..Len(order) /\ i \in 0..Len(order) /\ i - 1 \in 0..Len(order)
    BY <1>3
  <2>3. /\ Range(SubSeq(order, 1, i)) = {order[j] : j \in 1..i}
        /\ Range(SubSeq(order, 1, i - 1)) = {order[j] : j \in 1..(i - 1)}
    BY <1>2, <2>2, StartOfOrder
  <2>4. \E e \in Range(edges) : e[2] = v /\ \A j \in 1..(i - 1) : order[j] # e[1]
    BY <1>2, <2>1, <2>3 DEF Chosen
  <2>5. QED
    BY <2>3, <2>4
<1>9. ~Acyclic(edges, n) => Len(order) < n
  <2>1. Len(order) \in Nat /\ n \in Nat /\ Len(order) <= n
    BY <1>2, <1>3
  <2>2. ~Acyclic(edges, n) => Len(order) # n
    BY <1>6
  <2>3. Len(order) # n => Len(order) < n
    BY <2>1
  <2>4. QED
    BY <2>2, <2>3, Zenon
<1>11. QED
  BY <1>10, <1>5, <1>7, <1>8, <1>9, Zenon
-----------------------------------------------------------------------------
(* Runs. *)

Records(s) == [pc |-> "running", group |-> s.group, kind |-> s.kind, order |-> s.order,
               stop |-> s.stop, reason |-> s.reason, results |-> s.results]

Result == [member : Nat, status : Statuses]

\* What is stored was asked for; and a group that can be run was accepted.
StoredInv ==
    /\ groups = [g \in Group |-> groups[g]] /\ revisions = [g \in Group |-> revisions[g]]
    /\ \A g \in Group : Exists(g) => groups[g] \in Inputs /\ Accepts(groups[g])
    /\ \A g \in Group : \A n \in DOMAIN revisions[g] : revisions[g][n] \in Inputs
    /\ restore.pc = "read" => restore.group \in Group /\ restore.input \in Inputs

\* The results are those of the order's first members, and where a run stops at the first that
\* is not started, all but the newest were.
Proceeds(r) ==
    /\ r = Records(r)
    /\ r.order \in Seq(Nat) /\ r.results \in Seq(Result)
    /\ Len(r.results) <= Len(r.order)
    /\ \A i \in DOMAIN r.results : r.results[i].member = r.order[i]
    /\ r.stop => \A i \in DOMAIN r.results : i < Len(r.results) => r.results[i].status = "success"
    /\ r.kind = "run" => Forward(r.order, r.group.edges)

RunInv == run.pc = "running" => Proceeds(run)

LEMMA AcceptedIsGraph ==
  ASSUME NEW group \in Inputs, Accepts(group)
  PROVE  IsGraph(group.edges, Len(group.members)) /\ group.members \in Seq(Target)
<1>. DEFINE edges == group.edges
            n == Len(group.members)
<1>1. group.members \in Seq(Target) /\ edges \in Seq(Nat \X Nat)
  BY InputsAreGroups
<1>2. n \in Nat /\ DOMAIN group.members = 1..n
  BY <1>1
<1>3. \A i \in DOMAIN edges : edges[i][1] \in 1..n /\ edges[i][2] \in 1..n
  BY <1>2 DEF Accepts
<1>. HIDE DEF n, edges
<1>4. /\ DOMAIN edges = 1..Len(edges) /\ Len(edges) \in Nat
      /\ \A i \in 1..Len(edges) : edges[i] \in Nat \X Nat
  BY <1>1
<1>5. \A i \in 1..Len(edges) : edges[i] \in (1..n) \X (1..n)
  BY <1>3, <1>4
<1>6. edges \in Seq((1..n) \X (1..n))
  BY <1>1, <1>4, <1>5
<1>7. QED
  BY <1>1, <1>2, <1>6 DEF IsGraph, edges, n

LEMMA StoredStep ==
  ASSUME StoredInv, NEW h \in Group, NEW input \in Inputs, Accepts(input), NEW number,
         groups' = [groups EXCEPT ![h] = input],
         revisions' = [revisions EXCEPT ![h] = RecordRevision(h, number, input)],
         restore' = restore \/ restore' = Idle
  PROVE  StoredInv'
<1>. DEFINE new == RecordRevision(h, number, input)
<1>1. ASSUME NEW n \in DOMAIN new PROVE new[n] \in Inputs
  <2>1. n # number => n \in DOMAIN revisions[h]
    BY <1>1 DEF RecordRevision
  <2>2. new[n] = IF n = number THEN input ELSE revisions[h][n]
    BY <1>1 DEF RecordRevision
  <2>3. QED
    BY <2>1, <2>2 DEF StoredInv
<1>. HIDE DEF new
<1>4. /\ groups'[h] = input /\ revisions'[h] = new
      /\ \A g \in Group : g # h => groups'[g] = groups[g] /\ revisions'[g] = revisions[g]
      /\ groups' = [g \in Group |-> groups'[g]] /\ revisions' = [g \in Group |-> revisions'[g]]
  BY DEF StoredInv, new
<1>5. \A g \in Group : Exists(g)' => groups'[g] \in Inputs /\ Accepts(groups'[g])
  BY <1>4 DEF StoredInv, Exists
<1>6. \A g \in Group : \A n \in DOMAIN revisions'[g] : revisions'[g][n] \in Inputs
  BY <1>1, <1>4 DEF StoredInv
<1>7. restore'.pc = "read" => restore'.group \in Group /\ restore'.input \in Inputs
  BY DEF StoredInv, Idle
<1>8. QED
  BY <1>4, <1>5, <1>6, <1>7 DEF StoredInv

LEMMA BeginStep ==
  ASSUME StoredInv, NEW g \in Group, Exists(g), NEW kind, NEW order \in Seq(Nat), NEW stop,
         kind = "run" => Forward(order, groups[g].edges), Begin(groups[g], kind, order, stop)
  PROVE  RunInv'
<1>1. run' = [pc |-> "running", group |-> groups[g], kind |-> kind, order |-> order,
              stop |-> stop, reason |-> View(groups[g]), results |-> <<>>]
  BY DEF Begin
<1>2. <<>> \in Seq(Result) /\ Len(<<>>) = 0 /\ DOMAIN <<>> = {} /\ Len(order) \in Nat
  OBVIOUS
<1>3. Proceeds(run')
  BY <1>1, <1>2 DEF Proceeds, Records
<1>4. QED
  BY <1>3 DEF RunInv

LEMMA RecordsChange ==
  ASSUME NEW r, r = Records(r), NEW x
  PROVE  [r EXCEPT !.results = x] =
            [pc |-> "running", group |-> r.group, kind |-> r.kind, order |-> r.order,
             stop |-> r.stop, reason |-> r.reason, results |-> x]
<1>1. \A a, b, c, d, e, f :
        [[pc |-> "running", group |-> a, kind |-> b, order |-> c, stop |-> d, reason |-> e,
          results |-> f] EXCEPT !.results = x] =
        [pc |-> "running", group |-> a, kind |-> b, order |-> c, stop |-> d, reason |-> e,
         results |-> x]
  OBVIOUS
<1>2. QED
  BY <1>1 DEF Records

LEMMA MemberStep ==
  ASSUME RunInv, RunMember PROVE RunInv'
<1>1. /\ Proceeds(run) /\ ~Over
  BY DEF RunInv, RunMember
<1>. DEFINE member == run.order[Len(run.results) + 1]
<1>2. PICK status \in Statuses :
        run' = [run EXCEPT !.results = Append(@, [member |-> member, status |-> status])]
  BY DEF RunMember
<1>. DEFINE new == [member |-> member, status |-> status]
            results == Append(run.results, new)
<1>3. /\ run.order \in Seq(Nat) /\ run.results \in Seq(Result)
      /\ Len(run.results) \in Nat /\ Len(run.order) \in Nat
      /\ Len(run.results) + 1 <= Len(run.order)
      /\ DOMAIN run.results = 1..Len(run.results)
  BY <1>1 DEF Proceeds, Over
<1>4. member \in Nat /\ new \in Result
  BY <1>3 DEF Result
<1>5. /\ run'.results = results /\ run'.order = run.order /\ run'.stop = run.stop
      /\ run'.kind = run.kind /\ run'.group = run.group /\ run' = Records(run')
  <2>1. run = Records(run)
    BY <1>1 DEF Proceeds
  <2>2. run' = [pc |-> "running", group |-> run.group, kind |-> run.kind, order |-> run.order,
                stop |-> run.stop, reason |-> run.reason, results |-> results]
    BY <1>2, <2>1, RecordsChange
  <2>3. QED
    BY <2>2 DEF Records
<1>6. /\ results \in Seq(Result) /\ Len(results) = Len(run.results) + 1
      /\ DOMAIN results = 1..(Len(run.results) + 1)
      /\ \A i \in 1..Len(run.results) : results[i] = run.results[i]
      /\ results[Len(run.results) + 1] = new
  BY <1>3, <1>4, AppendProperties
<1>. HIDE DEF results
<1>7. \A i \in DOMAIN results : results[i].member = run.order[i]
  <2>1. new.member = run.order[Len(run.results) + 1]
    OBVIOUS
  <2>. HIDE DEF new
  <2>2. \A i \in DOMAIN results : i \in 1..Len(run.results) \/ i = Len(run.results) + 1
    BY <1>3, <1>6
  <2>3. \A i \in 1..Len(run.results) : results[i].member = run.order[i]
    BY <1>1, <1>3, <1>6 DEF Proceeds
  <2>4. QED
    BY <1>6, <2>1, <2>2, <2>3
<1>8. ASSUME run.stop, NEW i \in DOMAIN results, i < Len(results)
      PROVE  results[i].status = "success"
  <2>1. i \in 1..Len(run.results) /\ results[i] = run.results[i]
    BY <1>3, <1>6, <1>8
  <2>2. CASE i < Len(run.results)
    BY <1>1, <1>3, <1>8, <2>1, <2>2 DEF Proceeds
  <2>3. CASE i = Len(run.results)
    <3>1. run.results # <<>>
      BY <1>3, <2>1
    <3>2. Last(run.results).status = "success"
      BY <1>1, <1>8, <3>1 DEF Over, Halted
    <3>3. QED
      BY <2>1, <2>3, <3>2 DEF Last
  <2>4. QED
    BY <1>3, <2>1, <2>2, <2>3
<1>9. Proceeds(run')
  BY <1>1, <1>3, <1>5, <1>6, <1>7, <1>8 DEF Proceeds
<1>10. QED
  BY <1>9 DEF RunInv

LEMMA RunsInit == WorkflowInit => StoredInv /\ RunInv
BY DEF WorkflowInit, StoredInv, RunInv, Idle, Exists

LEMMA RunsNext ==
  ASSUME StoredInv, RunInv, [WorkflowNext]_workflowVars PROVE StoredInv' /\ RunInv'
<1>1. ASSUME UNCHANGED run PROVE RunInv'
  BY <1>1 DEF RunInv
<1>2. ASSUME UNCHANGED <<groups, revisions, restore>> PROVE StoredInv'
  BY <1>2 DEF StoredInv, Exists
<1>3. CASE UNCHANGED workflowVars
  BY <1>1, <1>2, <1>3 DEF workflowVars, stored
<1>4. ASSUME NEW g \in Group, NEW input \in Inputs, CreateGroup(g, input)
      PROVE  StoredInv' /\ RunInv'
  <2>1. /\ Create(g, input) /\ restore' = restore /\ run' = run
    BY <1>4 DEF CreateGroup
  <2>2. StoredInv'
    BY <2>1, StoredStep DEF Create
  <2>3. QED
    BY <1>1, <2>1, <2>2
<1>5. ASSUME NEW g \in Group, NEW input \in Inputs, UpdateGroup(g, input)
      PROVE  StoredInv' /\ RunInv'
  <2>1. Accepts(input) /\ Replace(g, input) /\ restore' = restore /\ run' = run
    BY <1>5 DEF UpdateGroup, CanUpdate
  <2>2. StoredInv'
    BY <2>1, StoredStep DEF Replace
  <2>3. QED
    BY <1>1, <2>1, <2>2
<1>6. ASSUME NEW g \in Group, DeleteGroup(g) PROVE StoredInv' /\ RunInv'
  <2>1. /\ groups' = [groups EXCEPT ![g] = None] /\ revisions' = revisions
        /\ restore' = restore /\ run' = run
    BY <1>6 DEF DeleteGroup
  <2>2. /\ groups' = [h \in Group |-> groups'[h]] /\ groups'[g] = None
        /\ \A h \in Group : h # g => groups'[h] = groups[h]
    BY <2>1 DEF StoredInv
  <2>3. StoredInv'
    BY <2>1, <2>2 DEF StoredInv, Exists
  <2>4. QED
    BY <1>1, <2>1, <2>3
<1>7. ASSUME NEW g \in Group, StartAction(g) PROVE StoredInv' /\ RunInv'
  <2>. DEFINE order == [i \in DOMAIN groups[g].members |-> i]
  <2>1. Exists(g) /\ UNCHANGED <<groups, revisions, restore>>
        /\ Begin(groups[g], "action", order, FALSE)
    BY <1>7 DEF StartAction, stored
  <2>2. groups[g].members \in Seq(Target)
    BY <2>1, AcceptedIsGraph DEF StoredInv
  <2>3. order \in Seq(Nat)
    <3>1. order = [i \in 1..Len(groups[g].members) |-> i] /\ Len(groups[g].members) \in Nat
      BY <2>2
    <3>. HIDE DEF order
    <3>2. QED
      BY <3>1
  <2>. HIDE DEF order
  <2>4. RunInv'
    BY <2>1, <2>3, BeginStep
  <2>5. QED
    BY <1>2, <2>1, <2>4
<1>8. ASSUME NEW g \in Group, NEW stop \in BOOLEAN, StartRun(g, stop) PROVE StoredInv' /\ RunInv'
  <2>. DEFINE edges == groups[g].edges
              n == Len(groups[g].members)
              order == RunOrder(edges, n)
  <2>1. Exists(g) /\ UNCHANGED <<groups, revisions, restore>>
        /\ Begin(groups[g], "run", order, stop)
    BY <1>8, Zenon DEF StartRun, stored
  <2>2. IsGraph(edges, n)
    BY <2>1, AcceptedIsGraph DEF StoredInv
  <2>. HIDE DEF edges, n
  <2>3. PICK k : KahnInv(edges, n, k) /\ order = k.order
    BY <2>2, KahnEnds
  <2>4. order \in Seq(1..n) /\ Forward(order, edges)
    BY <2>3 DEF KahnInv, KahnType, KahnOrders
  <2>5. order \in Seq(Nat)
    <3>1. n \in Nat
      BY <2>2 DEF IsGraph
    <3>. HIDE DEF order
    <3>2. QED
      BY <3>1, <2>4
  <2>. HIDE DEF order
  <2>6. Forward(order, groups[g].edges)
    BY <2>4 DEF edges
  <2>7. RunInv'
    BY <2>1, <2>5, <2>6, BeginStep
  <2>8. QED
    BY <1>2, <2>1, <2>7
<1>9. ASSUME NEW g \in Group, NEW number \in 1..MaxWrites, ReadRevision(g, number)
      PROVE  StoredInv' /\ RunInv'
  <2>1. /\ UNCHANGED <<groups, revisions, run>> /\ number \in DOMAIN revisions[g]
        /\ restore' = [pc |-> "read", group |-> g, input |-> revisions[g][number]]
    BY <1>9 DEF ReadRevision, stored
  <2>2. restore'.group \in Group /\ restore'.input \in Inputs
    BY <2>1 DEF StoredInv
  <2>3. StoredInv'
    BY <2>1, <2>2 DEF StoredInv, Exists
  <2>4. QED
    BY <1>1, <2>1, <2>3
<1>10. CASE WriteRestored
  <2>1. /\ restore.group \in Group /\ restore.input \in Inputs /\ restore' = Idle /\ run' = run
    BY <1>10 DEF WriteRestored, StoredInv
  <2>2. CASE InScope(restore.input) /\ CanUpdate(restore.group, restore.input)
    <3>1. Accepts(restore.input) /\ Replace(restore.group, restore.input)
      BY <1>10, <2>2 DEF WriteRestored, CanUpdate
    <3>2. StoredInv'
      BY <2>1, <3>1, StoredStep DEF Replace
    <3>3. QED
      BY <1>1, <2>1, <3>2
  <2>3. CASE ~(InScope(restore.input) /\ CanUpdate(restore.group, restore.input))
    <3>1. UNCHANGED <<groups, revisions>>
      BY <1>10, <2>3 DEF WriteRestored, stored
    <3>2. StoredInv'
      BY <2>1, <3>1 DEF StoredInv, Exists, Idle
    <3>3. QED
      BY <1>1, <2>1, <3>2
  <2>4. QED
    BY <2>2, <2>3
<1>11. CASE RunMember
  BY <1>2, <1>11, MemberStep DEF RunMember, stored
<1>12. CASE FinishRun
  BY <1>2, <1>12 DEF FinishRun, stored, RunInv, Idle
<1>13. CASE ChangeRole
  BY <1>1, <1>2, <1>13 DEF ChangeRole, stored
<1>14. ASSUME \/ \E n \in Node, state \in {"unknown", "offline", "online"} : ChangeNode(n, state)
              \/ \E t \in Target, state \in {"task", "workspace", "nothing"} : ChangeInventory(t, state)
       PROVE  StoredInv' /\ RunInv'
  BY <1>1, <1>2, <1>14, Zenon DEF ChangeNode, ChangeInventory, stored
<1>15. QED
  BY <1>3, <1>4, <1>5, <1>6, <1>7, <1>8, <1>9, <1>10, <1>11, <1>12, <1>13, <1>14, Zenon DEF WorkflowNext

\* A member is asked to start only after every member it depends on was, for any groups, of
\* any size, whatever becomes of nodes, of tasks and of the group meanwhile; and with
\* stop_on_failure only if all of those were started (run_workflow_group).
THEOREM RunsFollowTheEdges == WorkflowSpec => []RunRespectsEdges
<1>1. ASSUME RunInv, run.pc = "running", run.kind = "run",
             NEW i \in DOMAIN run.results, NEW e \in Range(run.group.edges),
             run.results[i].member = e[2]
      PROVE  \E j \in 1..(i - 1) : /\ run.results[j].member = e[1]
                                   /\ run.stop => run.results[j].status = "success"
  <2>1. Proceeds(run)
    BY <1>1 DEF RunInv
  <2>2. /\ DOMAIN run.results = 1..Len(run.results) /\ Len(run.results) \in Nat
        /\ DOMAIN run.order = 1..Len(run.order) /\ Len(run.order) \in Nat
        /\ Len(run.results) <= Len(run.order)
    BY <2>1 DEF Proceeds
  <2>3. i \in DOMAIN run.order /\ run.order[i] = e[2]
    BY <1>1, <2>1, <2>2 DEF Proceeds
  <2>4. PICK j \in DOMAIN run.order : j < i /\ run.order[j] = e[1]
    BY <1>1, <2>1, <2>3 DEF Proceeds, Forward
  <2>5. j \in 1..(i - 1) /\ j \in DOMAIN run.results /\ j < Len(run.results)
    BY <2>2, <2>4
  <2>6. QED
    BY <2>1, <2>4, <2>5 DEF Proceeds
<1>2. RunInv => RunRespectsEdges
  BY <1>1, Zenon DEF RunRespectsEdges
<1>3. StoredInv /\ RunInv /\ [WorkflowNext]_workflowVars => (StoredInv /\ RunInv)'
  BY RunsNext
<1>4. QED
  BY <1>2, <1>3, RunsInit, PTL DEF WorkflowSpec
-----------------------------------------------------------------------------
(* The list of the children of a node, filled edge by edge. *)

\* The adjacency list of v after the first m edges.
Filled(edges, v, m, to) ==
    to = [i \in 0..m |-> IF i = 0 THEN <<>>
                         ELSE IF edges[i][1] = v THEN Append(to[i - 1], edges[i][2]) ELSE to[i - 1]]

LEMMA ListCanBeFilled ==
  ASSUME NEW edges, NEW v, NEW m \in Nat
  PROVE  \E to : Filled(edges, v, m, to)
<1>. DEFINE Bad == {i \in Nat : ~\E to : Filled(edges, v, i, to)}
<1>1. SUFFICES ASSUME Bad # {} PROVE FALSE
  OBVIOUS
<1>2. PICK i \in Bad : \A j \in Bad : i <= j
  BY <1>1, LeastNatural
<1>3. CASE i = 0
  <2>. DEFINE to == [k \in 0..0 |-> <<>>]
  <2>1. Filled(edges, v, 0, to)
    BY DEF Filled
  <2>2. QED
    BY <2>1, <1>2, <1>3
<1>4. CASE i # 0
  <2>1. i \in Nat /\ i - 1 \in Nat /\ ~(i <= i - 1)
    BY <1>4
  <2>2. PICK f : Filled(edges, v, i - 1, f)
    BY <1>2, <2>1
  <2>. DEFINE put(k, s) == IF edges[k][1] = v THEN Append(s, edges[k][2]) ELSE s
              to == [k \in 0..i |-> IF k = i THEN put(i, f[i - 1]) ELSE f[k]]
  <2>3. /\ DOMAIN f = 0..(i - 1)
        /\ \A k \in 0..(i - 1) : f[k] = IF k = 0 THEN <<>> ELSE put(k, f[k - 1])
    BY <2>2 DEF Filled
  <2>. HIDE DEF put
  <2>4. \A k \in 0..(i - 1) : to[k] = f[k]
    BY <2>1
  <2>5. to[i] = put(i, f[i - 1])
    BY <2>1
  <2>6. \A k \in 0..i : k \in 0..(i - 1) \/ k = i
    BY <2>1
  <2>7. DOMAIN to = 0..i
    OBVIOUS
  <2>8. to = [k \in DOMAIN to |-> to[k]]
    OBVIOUS
  <2>. HIDE DEF to
  <2>9. \A k \in 0..i : to[k] = IF k = 0 THEN <<>> ELSE put(k, to[k - 1])
    <3>. TAKE k \in 0..i
    <3>1. CASE k = i
      BY <3>1, <2>1, <2>4, <2>5, <1>4
    <3>2. CASE k \in 0..(i - 1) /\ k = 0
      BY <3>2, <2>3, <2>4
    <3>3. CASE k \in 0..(i - 1) /\ k # 0
      <4>1. k - 1 \in 0..(i - 1)
        BY <3>3, <2>1
      <4>2. QED
        BY <4>1, <3>3, <2>3, <2>4
    <3>4. QED
      BY <3>1, <3>2, <3>3, <2>6
  <2>10. Filled(edges, v, i, to)
    BY <2>7, <2>8, <2>9 DEF Filled, put
  <2>11. QED
    BY <2>10, <1>2
<1>5. QED
  BY <1>3, <1>4

\* How many of the first i edges leave v.
LeaveFirst(edges, v, i) == Cardinality({j \in 1..i : edges[j][1] = v})

\* The adjacency list of v holds what its edges point to, and its c-th entry is of the c-th
\* edge that leaves v.
LEMMA ChildrenAreOfEdges ==
  ASSUME NEW n, NEW edges, IsGraph(edges, n), NEW v
  PROVE  /\ Children(edges, v) \in Seq(1..n)
         /\ \A e \in Range(edges) : e[1] = v => e[2] \in Range(Children(edges, v))
         /\ \A c \in 1..Len(Children(edges, v)) :
                \E i \in DOMAIN edges : /\ edges[i] = <<v, Children(edges, v)[c]>>
                                        /\ LeaveFirst(edges, v, i) = c
<1>. DEFINE N == Len(edges)
            put(i, s) == IF edges[i][1] = v THEN Append(s, edges[i][2]) ELSE s
            body(f) == [i \in 0..N |-> IF i = 0 THEN <<>> ELSE put(i, f[i - 1])]
            to == CHOOSE f : f = body(f)
            count(i) == LeaveFirst(edges, v, i)
            Good(i) == /\ to[i] \in Seq(1..n) /\ Len(to[i]) = count(i)
                       /\ \A j \in 1..i : edges[j][1] = v => edges[j][2] \in Range(to[i])
                       /\ \A c \in 1..Len(to[i]) : \E j \in 1..i : /\ edges[j] = <<v, to[i][c]>>
                                                                   /\ count(j) = c
<1>1. /\ N \in Nat /\ DOMAIN edges = 1..N
      /\ \A i \in 1..N : /\ edges[i] = <<edges[i][1], edges[i][2]>>
                         /\ edges[i][1] \in 1..n /\ edges[i][2] \in 1..n
  BY EdgeParts
<1>2. Children(edges, v) = to[N]
  BY Zenon DEF Children
<1>3. to = body(to)
  <2>1. \E f : f = body(f)
    <3>1. PICK f : Filled(edges, v, N, f)
      BY <1>1, ListCanBeFilled
    <3>2. f = body(f)
      BY <3>1, Zenon DEF Filled
    <3>. HIDE DEF body
    <3>3. QED
      BY <3>2
  <2>2. QED
    BY <2>1, Zenon
<1>. HIDE DEF to, N
<1>4. /\ to[0] = <<>>
      /\ \A i \in 1..N : to[i] = IF edges[i][1] = v THEN Append(to[i - 1], edges[i][2])
                                 ELSE to[i - 1]
  <2>. HIDE DEF put
  <2>1. to[0] = <<>> /\ \A i \in 1..N : to[i] = put(i, to[i - 1])
    BY <1>1, <1>3
  <2>2. QED
    BY <2>1 DEF put
<1>5. count(0) = 0
  <2>1. {j \in 1..0 : edges[j][1] = v} = {}
    OBVIOUS
  <2>2. QED
    BY <2>1, FS_EmptySet DEF LeaveFirst
<1>6. \A i \in 1..N : /\ count(i - 1) \in Nat
                      /\ count(i) = IF edges[i][1] = v THEN count(i - 1) + 1 ELSE count(i - 1)
  <2>. TAKE i \in 1..N
  <2>. DEFINE before == {j \in 1..(i - 1) : edges[j][1] = v}
              upto == {j \in 1..i : edges[j][1] = v}
  <2>1. i \in Nat /\ i - 1 \in Nat /\ i \notin before /\ before \subseteq 1..(i - 1)
    BY <1>1
  <2>2. IsFiniteSet(before)
    <3>1. IsFiniteSet(1..(i - 1))
      BY <2>1, FS_Interval
    <3>2. QED
      BY <2>1, <3>1, FS_Subset
  <2>3. upto = IF edges[i][1] = v THEN before \cup {i} ELSE before
    <3>1. \A j : j \in 1..i <=> j \in 1..(i - 1) \/ j = i
      BY <2>1
    <3>2. QED
      BY <3>1
  <2>. HIDE DEF before, upto
  <2>4. Cardinality(before) \in Nat /\ Cardinality(before \cup {i}) = Cardinality(before) + 1
    BY <2>1, <2>2, FS_CardinalityType, FS_AddElement
  <2>5. count(i - 1) = Cardinality(before) /\ count(i) = Cardinality(upto)
    BY DEF LeaveFirst, before, upto
  <2>6. QED
    BY <2>3, <2>4, <2>5
<1>. HIDE DEF count
<1>7. Good(0)
  BY <1>4, <1>5
<1>8. ASSUME NEW i \in 1..N, Good(i - 1) PROVE Good(i)
  <2>1. i \in Nat /\ i - 1 \in 0..N /\ \A j \in 1..i : j \in 1..(i - 1) \/ j = i
    BY <1>1
  <2>2. CASE edges[i][1] # v
    <3>1. to[i] = to[i - 1] /\ count(i) = count(i - 1)
      BY <1>4, <1>6, <2>2
    <3>2. \A j \in 1..(i - 1) : j \in 1..i
      BY <2>1
    <3>. HIDE DEF Good
    <3>3. QED
      BY <1>8, <2>1, <2>2, <3>1, <3>2 DEF Good
  <2>3. CASE edges[i][1] = v
    <3>. DEFINE s == to[i - 1]
                x == edges[i][2]
    <3>1. to[i] = Append(s, x) /\ count(i) = count(i - 1) + 1 /\ count(i - 1) \in Nat
      BY <1>4, <1>6, <2>3
    <3>2. s \in Seq(1..n) /\ x \in 1..n /\ Len(s) = count(i - 1)
      BY <1>1, <1>8
    <3>3. /\ to[i] \in Seq(1..n)
          /\ Len(s) \in Nat /\ Len(to[i]) = Len(s) + 1
          /\ \A c \in 1..Len(s) : to[i][c] = s[c]
          /\ to[i][Len(s) + 1] = x
          /\ Range(to[i]) = Range(s) \cup {x}
      BY <3>1, <3>2, AppendedRange
    <3>4. \A j \in 1..i : edges[j][1] = v => edges[j][2] \in Range(to[i])
      BY <1>8, <2>1, <3>3
    <3>5. ASSUME NEW c \in 1..Len(to[i])
          PROVE  \E j \in 1..i : edges[j] = <<v, to[i][c]>> /\ count(j) = c
      <4>1. CASE c \in 1..Len(s)
        <5>1. PICK j \in 1..(i - 1) : edges[j] = <<v, s[c]>> /\ count(j) = c
          BY <1>8, <4>1
        <5>2. j \in 1..i
          BY <2>1
        <5>3. QED
          BY <3>3, <4>1, <5>1, <5>2
      <4>2. CASE c = Len(s) + 1
        <5>1. edges[i] = <<v, to[i][c]>> /\ count(i) = c
          BY <1>1, <2>3, <3>1, <3>2, <3>3, <4>2
        <5>2. i \in 1..i
          BY <1>1
        <5>3. QED
          BY <5>1, <5>2
      <4>3. QED
        BY <3>3, <4>1, <4>2
    <3>6. QED
      BY <3>1, <3>2, <3>3, <3>4, <3>5
  <2>4. QED
    BY <2>2, <2>3
<1>. HIDE DEF Good
<1>9. \A i \in 0..N : Good(i)
  <2>. SUFFICES ASSUME NEW bad \in 0..N, ~Good(bad) PROVE FALSE
    OBVIOUS
  <2>. DEFINE Bad == {i \in 0..N : ~Good(i)}
  <2>1. Bad \subseteq Nat /\ bad \in Bad
    BY <1>1
  <2>2. PICK i \in Bad : \A j \in Bad : i <= j
    BY <2>1, LeastNatural
  <2>3. i \in 1..N /\ i - 1 \in 0..N /\ ~(i <= i - 1)
    BY <1>1, <1>7, <2>2
  <2>4. Good(i - 1)
    BY <2>2, <2>3
  <2>5. QED
    BY <1>8, <2>2, <2>3, <2>4
<1>10. Good(N)
  BY <1>1, <1>9
<1>11. \A e \in Range(edges) : e[1] = v => e[2] \in Range(to[N])
  BY <1>1, <1>10 DEF Range, Good
<1>12. QED
  BY <1>1, <1>2, <1>10, <1>11 DEF Good, count

-----------------------------------------------------------------------------
(* The depth-first walk, on any graph.  Its stack is a path: each frame is a node and the      *)
(* number of its children entered so far, and the last of those is the node of the next frame. *)

Frame(n) == (1..n) \X Nat
Colors(n) == [1..n -> {"unvisited", "open", "done"}]
ChildOf(edges, v, c) == Children(edges, v)[c]
Degree(edges, v) == Len(Children(edges, v))
DoneOf(n, color) == {v \in 1..n : color[v] = "done"}

\* The frames below the top wait for the node above them; the open nodes are those on the path.
WalkPath(edges, n, stack, color) ==
    /\ \A i \in DOMAIN stack : stack[i][2] <= Degree(edges, stack[i][1])
    /\ \A i \in DOMAIN stack : stack[i][2] > 0 => color[stack[i][1]] = "open"
    /\ \A i \in DOMAIN stack : i < Len(stack) =>
            stack[i][2] > 0 /\ stack[i + 1][1] = ChildOf(edges, stack[i][1], stack[i][2])
    /\ \A i, j \in DOMAIN stack :
            stack[i][2] > 0 /\ stack[j][2] > 0 /\ stack[i][1] = stack[j][1] => i = j
    /\ \A v \in 1..n : color[v] = "open" =>
            \E i \in DOMAIN stack : stack[i][1] = v /\ stack[i][2] > 0

\* What was entered and left is done, and the roots are.
WalkLeft(edges, start, stack, color) ==
    /\ \A i \in DOMAIN stack : \A c \in 1..stack[i][2] :
            c < stack[i][2] \/ i = Len(stack) => color[ChildOf(edges, stack[i][1], c)] = "done"
    /\ Len(stack) > 1 /\ stack[Len(stack)][2] = 0 => color[stack[Len(stack)][1]] # "done"
    /\ \A v \in 1..start : color[v] = "done" \/ (stack # <<>> /\ stack[1][1] = v)

\* The nodes done have no edges out of them, and no cycle among them.
WalkDone(edges, n, color) ==
    /\ \A e \in Range(edges) : color[e[1]] = "done" => color[e[2]] = "done"
    /\ \A S \in SUBSET DoneOf(n, color) :
            S # {} => \E v \in S : \A e \in Range(edges) : e[2] = v => e[1] \notin S

\* The children entered so far.
Slots(edges, n) == {s \in (1..n) \X Nat : s[2] \in 1..Degree(edges, s[1])}
UsedSlots(edges, n, stack, color) ==
    {s \in Slots(edges, n) :
        \/ color[s[1]] = "done"
        \/ \E i \in DOMAIN stack : stack[i][1] = s[1] /\ s[2] <= stack[i][2]}

\* k turns are paid for by the roots begun, the nodes done and the children entered.
WalkPaid(edges, n, k, start, stack, color) ==
    \/ stack = <<>> /\ start = n
    \/ k + (IF stack = <<>> THEN 0 ELSE 1) <=
            2 * start + Cardinality(DoneOf(n, color)) + Cardinality(UsedSlots(edges, n, stack, color))

WalkOk(edges, n, k, start, stack, color) ==
    /\ start \in 0..n /\ stack \in Seq(Frame(n)) /\ color \in Colors(n)
    /\ WalkPath(edges, n, stack, color) /\ WalkLeft(edges, start, stack, color)
    /\ WalkDone(edges, n, color) /\ WalkPaid(edges, n, k, start, stack, color)

LEMMA ChildParts ==
  ASSUME NEW n, NEW edges, IsGraph(edges, n), NEW v \in 1..n
  PROVE  /\ Degree(edges, v) \in Nat
         /\ \A c \in 1..Degree(edges, v) : /\ ChildOf(edges, v, c) \in 1..n
                                           /\ <<v, ChildOf(edges, v, c)>> \in Range(edges)
         /\ \A e \in Range(edges) : e[1] = v =>
                \E c \in 1..Degree(edges, v) : e[2] = ChildOf(edges, v, c)
<1>. DEFINE s == Children(edges, v)
<1>1. /\ s \in Seq(1..n)
      /\ \A e \in Range(edges) : e[1] = v => e[2] \in Range(s)
      /\ \A c \in 1..Len(s) : \E i \in DOMAIN edges : edges[i] = <<v, s[c]>>
  <2>1. /\ Children(edges, v) \in Seq(1..n)
        /\ \A e \in Range(edges) : e[1] = v => e[2] \in Range(Children(edges, v))
        /\ \A c \in 1..Len(Children(edges, v)) :
               \E i \in DOMAIN edges : /\ edges[i] = <<v, Children(edges, v)[c]>>
                                       /\ LeaveFirst(edges, v, i) = c
    BY ChildrenAreOfEdges
  <2>2. QED
    BY <2>1
<1>. HIDE DEF s
<1>2. DOMAIN s = 1..Len(s) /\ Len(s) \in Nat /\ \A c \in 1..Len(s) : s[c] \in 1..n
  <2>1. s \in Seq(1..n) /\ n \in Nat
    BY <1>1 DEF IsGraph
  <2>2. DOMAIN s = 1..Len(s) /\ Len(s) \in Nat
    BY <2>1
  <2>3. \A c \in 1..Len(s) : s[c] \in 1..n
    BY <2>1
  <2>4. QED
    BY <2>2, <2>3
<1>3. \A c \in 1..Len(s) : <<v, s[c]>> \in Range(edges)
  BY <1>1 DEF Range
<1>4. \A e \in Range(edges) : e[1] = v => \E c \in 1..Len(s) : e[2] = s[c]
  BY <1>1, <1>2 DEF Range
<1>5. QED
  BY <1>2, <1>3, <1>4 DEF s, Degree, ChildOf

LEMMA SlotsAreFew ==
  ASSUME NEW n, NEW edges, IsGraph(edges, n)
  PROVE  IsFiniteSet(Slots(edges, n)) /\ Cardinality(Slots(edges, n)) <= Len(edges)
<1>. DEFINE T == Slots(edges, n)
            edge(s, i) == /\ edges[i] = <<s[1], Children(edges, s[1])[s[2]]>>
                          /\ LeaveFirst(edges, s[1], i) = s[2]
            f == [s \in T |-> CHOOSE i \in DOMAIN edges : edge(s, i)]
<1>1. \A s \in T : s = <<s[1], s[2]>> /\ s[1] \in 1..n /\ s[2] \in 1..Len(Children(edges, s[1]))
  BY DEF Slots, Degree
<1>2. \A s \in T : \E i \in DOMAIN edges : edge(s, i)
  BY <1>1, ChildrenAreOfEdges
<1>. HIDE DEF T, edge
<1>3. \A s \in T : f[s] \in DOMAIN edges /\ edge(s, f[s])
  BY <1>2
<1>. HIDE DEF f
<1>4. ASSUME NEW s \in T, NEW t \in T, f[s] = f[t] PROVE s = t
  <2>1. edge(s, f[s]) /\ edge(t, f[s])
    BY <1>3, <1>4
  <2>2. s[1] = t[1]
    BY <2>1 DEF edge
  <2>3. s[2] = t[2]
    BY <2>1, <2>2 DEF edge
  <2>4. QED
    BY <1>1, <2>2, <2>3
<1>5. DOMAIN f = T /\ f = [s \in T |-> f[s]]
  BY DEF f
<1>6. f \in Injection(T, DOMAIN edges)
  BY <1>3, <1>4, <1>5 DEF Injection, IsInjective
<1>7. /\ DOMAIN edges = 1..Len(edges) /\ Len(edges) \in Nat /\ IsFiniteSet(DOMAIN edges)
  BY EdgeParts
<1>8. Cardinality(DOMAIN edges) = Len(edges)
  <2>1. Cardinality(1..Len(edges)) = Len(edges)
    <3>1. Len(edges) \in Nat
      BY <1>7
    <3>. DEFINE m == Len(edges)
    <3>. HIDE DEF m
    <3>2. m \in Nat
      BY <3>1 DEF m
    <3>3. Cardinality(1..m) = m
      BY <3>2, FS_Interval
    <3>4. QED
      BY <3>3 DEF m
  <2>2. QED
    BY <1>7, <2>1
<1>9. IsFiniteSet(T) /\ Cardinality(T) <= Cardinality(DOMAIN edges)
  BY <1>6, <1>7, FS_Injection
<1>10. QED
  BY <1>8, <1>9 DEF T

LEMMA CountsAreFew ==
  ASSUME NEW n, NEW edges, IsGraph(edges, n), NEW stack, NEW color
  PROVE  LET done == DoneOf(n, color)
             used == UsedSlots(edges, n, stack, color)
         IN  /\ IsFiniteSet(done) /\ Cardinality(done) \in Nat /\ Cardinality(done) <= n
             /\ IsFiniteSet(used) /\ Cardinality(used) \in Nat /\ Cardinality(used) <= Len(edges)
<1>. DEFINE done == DoneOf(n, color)
            used == UsedSlots(edges, n, stack, color)
<1>1. n \in Nat /\ IsFiniteSet(1..n) /\ Cardinality(1..n) = n
  BY FS_Interval DEF IsGraph
<1>2. done \subseteq 1..n /\ used \subseteq Slots(edges, n)
  BY DEF DoneOf, UsedSlots
<1>. HIDE DEF done, used
<1>3. IsFiniteSet(done) /\ Cardinality(done) \in Nat /\ Cardinality(done) <= n
  BY <1>1, <1>2, FS_Subset, FS_CardinalityType
<1>4. IsFiniteSet(Slots(edges, n)) /\ Cardinality(Slots(edges, n)) <= Len(edges)
  BY SlotsAreFew
<1>5. IsFiniteSet(used) /\ Cardinality(used) \in Nat
      /\ Cardinality(used) <= Cardinality(Slots(edges, n))
  BY <1>2, <1>4, FS_Subset, FS_CardinalityType
<1>6. Cardinality(Slots(edges, n)) \in Nat /\ Len(edges) \in Nat
  BY <1>4, FS_CardinalityType, EdgeParts
<1>7. QED
  BY <1>3, <1>4, <1>5, <1>6 DEF done, used

\* What is below the top of a stack, and what may be put there instead of it.
LEMMA StackParts ==
  ASSUME NEW n, NEW s \in Seq(Frame(n)), s # <<>>
  PROVE  /\ Len(s) \in Nat \ {0} /\ DOMAIN s = 1..Len(s) /\ Last(s) = s[Len(s)]
         /\ \A i \in 1..Len(s) : /\ s[i] \in Frame(n) /\ s[i] = <<s[i][1], s[i][2]>>
                                 /\ s[i][1] \in 1..n /\ s[i][2] \in Nat
         /\ Front(s) \in Seq(Frame(n)) /\ Len(Front(s)) = Len(s) - 1
         /\ DOMAIN Front(s) = 1..(Len(s) - 1)
         /\ \A i \in 1..(Len(s) - 1) : Front(s)[i] = s[i]
<1>. DEFINE F == Frame(n)
            r == Front(s)
<1>1. \A x \in F : x = <<x[1], x[2]>> /\ x[1] \in 1..n /\ x[2] \in Nat
  BY DEF Frame
<1>2. s \in Seq(F)
  OBVIOUS
<1>. HIDE DEF F
<1>3. Len(s) \in Nat \ {0} /\ DOMAIN s = 1..Len(s) /\ \A i \in 1..Len(s) : s[i] \in F
  BY <1>2
<1>4. \A i \in 1..(Len(s) - 1) : s[i] \in F
  BY <1>3
<1>5. 1 \in Int /\ Len(s) - 1 \in Int
  BY <1>3
<1>6. /\ SubSeq(s, 1, Len(s) - 1) \in Seq(F)
      /\ Len(SubSeq(s, 1, Len(s) - 1)) = IF 1 <= Len(s) - 1 THEN Len(s) - 1 - 1 + 1 ELSE 0
      /\ \A i \in 1..(Len(s) - 1 - 1 + 1) : SubSeq(s, 1, Len(s) - 1)[i] = s[1 + i - 1]
  BY <1>4, <1>5, SubSeqProperties
<1>7. r = SubSeq(s, 1, Len(s) - 1)
  BY DEF Front
<1>. HIDE DEF r
<1>8. /\ r \in Seq(F) /\ Len(r) = Len(s) - 1
      /\ \A i \in 1..(Len(s) - 1) : r[i] = s[i]
  BY <1>3, <1>6, <1>7
<1>9. DOMAIN r = 1..(Len(s) - 1)
  BY <1>8
<1>10. QED
  BY <1>1, <1>3, <1>8, <1>9 DEF F, r, Last

Advanced(s, x, entered) == Front(s) \o <<x>> \o entered

\* t is the stack s with x for its top frame, and in the second case with y above it.
Replaced(n, s, t, x) ==
    /\ t \in Seq(Frame(n)) /\ Len(t) = Len(s) /\ t[Len(s)] = x
    /\ \A i \in 1..(Len(s) - 1) : t[i] = s[i]
Extended(n, s, t, x, y) ==
    /\ t \in Seq(Frame(n)) /\ Len(t) = Len(s) + 1 /\ t[Len(s)] = x /\ t[Len(s) + 1] = y
    /\ \A i \in 1..(Len(s) - 1) : t[i] = s[i]

LEMMA StackAdvanced ==
  ASSUME NEW n, NEW s \in Seq(Frame(n)), s # <<>>, NEW x \in Frame(n), NEW y \in Frame(n)
  PROVE  /\ Replaced(n, s, Advanced(s, x, <<>>), x)
         /\ Extended(n, s, Advanced(s, x, <<y>>), x, y)
<1>. DEFINE F == Frame(n)
            r == Front(s)
            a == r \o <<x>>
            b == a \o <<y>>
<1>1. /\ r \in Seq(F) /\ Len(s) \in Nat \ {0} /\ Len(r) = Len(s) - 1
      /\ \A i \in 1..(Len(s) - 1) : r[i] = s[i]
  BY StackParts
<1>2. x \in F /\ y \in F
  OBVIOUS
<1>. HIDE DEF F, r
<1>3. /\ <<x>> \in Seq(F) /\ Len(<<x>>) = 1 /\ <<x>>[1] = x
      /\ <<y>> \in Seq(F) /\ Len(<<y>>) = 1 /\ <<y>>[1] = y
  BY <1>2
<1>4. /\ a \in Seq(F) /\ Len(a) = Len(r) + Len(<<x>>)
      /\ \A i \in 1..(Len(r) + Len(<<x>>)) : a[i] = IF i <= Len(r) THEN r[i] ELSE <<x>>[i - Len(r)]
  BY <1>1, <1>3, ConcatProperties
<1>. HIDE DEF a
<1>5. /\ a \in Seq(F) /\ Len(a) = Len(s) /\ DOMAIN a = 1..Len(s)
      /\ \A i \in 1..(Len(s) - 1) : a[i] = s[i]
      /\ a[Len(s)] = x
  BY <1>1, <1>3, <1>4
<1>6. /\ b \in Seq(F) /\ Len(b) = Len(a) + Len(<<y>>)
      /\ \A i \in 1..(Len(a) + Len(<<y>>)) : b[i] = IF i <= Len(a) THEN a[i] ELSE <<y>>[i - Len(a)]
  BY <1>3, <1>5, ConcatProperties
<1>. HIDE DEF b
<1>7. /\ b \in Seq(F) /\ Len(b) = Len(s) + 1 /\ DOMAIN b = 1..(Len(s) + 1)
      /\ \A i \in 1..(Len(s) - 1) : b[i] = s[i]
      /\ b[Len(s)] = x /\ b[Len(s) + 1] = y
  BY <1>1, <1>3, <1>5, <1>6
<1>8. a \o <<>> = a
  BY <1>5, ConcatEmptySeq
<1>9. Advanced(s, x, <<>>) = a /\ Advanced(s, x, <<y>>) = b
  BY <1>8 DEF Advanced, a, b, r
<1>10. Replaced(n, s, a, x)
  BY <1>5 DEF F, Replaced
<1>11. Extended(n, s, b, x, y)
  BY <1>7 DEF F, Extended
<1>12. QED
  BY <1>9, <1>10, <1>11

\* The frames below the top are of other nodes, unless the walk has come back to one.
LEMMA BelowTheTop ==
  ASSUME NEW n, NEW edges, NEW stack \in Seq(Frame(n)), stack # <<>>, NEW color,
         WalkPath(edges, n, stack, color),
         stack[Len(stack)][2] > 0 \/ color[stack[Len(stack)][1]] # "open"
  PROVE  \A i \in 1..(Len(stack) - 1) : /\ stack[i][2] > 0 /\ color[stack[i][1]] = "open"
                                        /\ stack[i][1] # stack[Len(stack)][1]
<1>1. Len(stack) \in Nat \ {0} /\ DOMAIN stack = 1..Len(stack)
  BY StackParts
<1>2. SUFFICES ASSUME NEW i \in 1..(Len(stack) - 1)
               PROVE  /\ stack[i][2] > 0 /\ color[stack[i][1]] = "open"
                      /\ stack[i][1] # stack[Len(stack)][1]
  OBVIOUS
<1>3. i \in DOMAIN stack /\ Len(stack) \in DOMAIN stack /\ i < Len(stack) /\ i # Len(stack)
  <2>. DEFINE N == Len(stack)
  <2>1. N \in Nat \ {0} /\ DOMAIN stack = 1..N /\ i \in 1..(N - 1)
    BY <1>1
  <2>. HIDE DEF N
  <2>2. i \in 1..N /\ N \in 1..N /\ i < N /\ i # N
    BY <2>1
  <2>3. QED
    BY <2>1, <2>2 DEF N
<1>4. stack[i][2] > 0 /\ color[stack[i][1]] = "open"
  BY <1>3 DEF WalkPath
<1>5. CASE stack[Len(stack)][2] > 0
  BY <1>3, <1>4, <1>5 DEF WalkPath
<1>6. CASE color[stack[Len(stack)][1]] # "open"
  BY <1>4, <1>6
<1>7. QED
  BY <1>4, <1>5, <1>6

\* What pays for a turn.
LEMMA UsedGrows ==
  ASSUME NEW n, NEW edges, IsGraph(edges, n),
         NEW stack, NEW color, NEW stack2, NEW color2,
         UsedSlots(edges, n, stack, color) \subseteq UsedSlots(edges, n, stack2, color2)
  PROVE  /\ Cardinality(UsedSlots(edges, n, stack, color))
              <= Cardinality(UsedSlots(edges, n, stack2, color2))
         /\ UsedSlots(edges, n, stack, color) # UsedSlots(edges, n, stack2, color2) =>
              Cardinality(UsedSlots(edges, n, stack, color)) + 1
                <= Cardinality(UsedSlots(edges, n, stack2, color2))
<1>. DEFINE A == UsedSlots(edges, n, stack, color)
            B == UsedSlots(edges, n, stack2, color2)
<1>1. IsFiniteSet(B) /\ Cardinality(B) \in Nat /\ Cardinality(A) \in Nat
  BY CountsAreFew
<1>2. A \subseteq B
  OBVIOUS
<1>. HIDE DEF A, B
<1>3. Cardinality(A) <= Cardinality(B) /\ (Cardinality(B) = Cardinality(A) => B = A)
  BY <1>1, <1>2, FS_Subset
<1>4. QED
  BY <1>1, <1>3 DEF A, B

\* A root is begun.
LEMMA WalkBegins ==
  ASSUME NEW n, NEW edges, IsGraph(edges, n), NEW k \in Nat, NEW start, NEW color,
         WalkOk(edges, n, k, start, <<>>, color), start # n
  PROVE  WalkOk(edges, n, k + 1, start + 1, <<<<start + 1, 0>>>>, color)
<1>. DEFINE root == <<start + 1, 0>>
            stack == <<root>>
<1>1. n \in Nat /\ start \in 0..n /\ start + 1 \in 1..n /\ start + 1 \in 0..n
  BY DEF WalkOk, IsGraph
<1>2. root \in Frame(n) /\ root[1] = start + 1 /\ root[2] = 0
  BY <1>1 DEF Frame
<1>. HIDE DEF root
<1>3. stack \in Seq(Frame(n)) /\ Len(stack) = 1 /\ DOMAIN stack = {1} /\ stack[1] = root
      /\ stack # <<>>
  BY <1>2
<1>4. DOMAIN <<>> = {}
  OBVIOUS
<1>. HIDE DEF stack
<1>5. WalkPath(edges, n, stack, color)
  <2>1. Degree(edges, start + 1) \in Nat
    BY <1>1, ChildParts
  <2>2. WalkPath(edges, n, <<>>, color)
    BY DEF WalkOk
  <2>3. \A v \in 1..n : color[v] # "open"
    BY <1>4, <2>2 DEF WalkPath
  <2>4. \A i \in DOMAIN stack : i = 1 /\ stack[i][1] = start + 1 /\ stack[i][2] = 0
    BY <1>2, <1>3
  <2>5. QED
    BY <2>1, <2>3, <2>4, <1>3 DEF WalkPath
<1>6. WalkLeft(edges, start + 1, stack, color)
  <2>1. \A v \in 1..start : color[v] = "done"
    BY DEF WalkOk, WalkLeft
  <2>2. \A v \in 1..(start + 1) : v \in 1..start \/ v = start + 1
    BY <1>1
  <2>3. \A i \in DOMAIN stack : 1..stack[i][2] = {}
    BY <1>2, <1>3
  <2>4. QED
    BY <2>1, <2>2, <2>3, <1>2, <1>3 DEF WalkLeft
<1>7. WalkPaid(edges, n, k + 1, start + 1, stack, color)
  <2>. DEFINE D == Cardinality(DoneOf(n, color))
              U == Cardinality(UsedSlots(edges, n, <<>>, color))
              V == Cardinality(UsedSlots(edges, n, stack, color))
  <2>1. k <= 2 * start + D + U
    BY <1>1 DEF WalkOk, WalkPaid
  <2>2. UsedSlots(edges, n, <<>>, color) \subseteq UsedSlots(edges, n, stack, color)
    BY <1>4 DEF UsedSlots
  <2>3. U <= V
    BY <2>2, UsedGrows
  <2>4. D \in Nat /\ U \in Nat /\ V \in Nat
    BY CountsAreFew
  <2>. HIDE DEF D, U, V
  <2>5. k + 1 + 1 <= 2 * (start + 1) + D + V
    BY <1>1, <2>1, <2>3, <2>4
  <2>6. QED
    BY <1>3, <2>5 DEF WalkPaid, D, V
<1>8. QED
  BY <1>1, <1>3, <1>5, <1>6, <1>7 DEF WalkOk, stack, root

\* A root that is done already is passed over.
LEMMA WalkPasses ==
  ASSUME NEW n, NEW edges, IsGraph(edges, n), NEW k \in Nat, NEW start, NEW stack, NEW color,
         WalkOk(edges, n, k, start, stack, color), stack # <<>>,
         stack[Len(stack)][2] = 0, color[stack[Len(stack)][1]] = "done"
  PROVE  WalkOk(edges, n, k + 1, start, Front(stack), color)
<1>1. stack \in Seq(Frame(n)) /\ start \in 0..n /\ n \in Nat
  BY DEF WalkOk, IsGraph
<1>2. /\ Len(stack) \in Nat \ {0} /\ DOMAIN stack = 1..Len(stack)
      /\ Front(stack) \in Seq(Frame(n)) /\ Len(Front(stack)) = Len(stack) - 1
  BY <1>1, StackParts
<1>3. Len(stack) = 1
  BY <1>2 DEF WalkOk, WalkLeft
<1>4. Front(stack) = <<>> /\ DOMAIN stack = {1} /\ DOMAIN <<>> = {} /\ Len(<<>>) = 0
  BY <1>2, <1>3
<1>5. \A v \in 1..n : color[v] # "open"
  BY <1>3, <1>4 DEF WalkOk, WalkPath
<1>6. \A v \in 1..start : color[v] = "done"
  BY <1>3 DEF WalkOk, WalkLeft
<1>7. UsedSlots(edges, n, stack, color) \subseteq UsedSlots(edges, n, <<>>, color)
  <2>1. \A s \in Slots(edges, n) : ~(s[2] <= 0)
    <3>1. SUFFICES ASSUME NEW s \in Slots(edges, n) PROVE ~(s[2] <= 0)
      OBVIOUS
    <3>2. s[1] \in 1..n /\ s[2] \in Nat /\ s[2] \in 1..Degree(edges, s[1])
      BY DEF Slots
    <3>3. Degree(edges, s[1]) \in Nat
      BY <3>2, ChildParts
    <3>4. QED
      BY <3>2, <3>3
  <2>2. QED
    BY <2>1, <1>3, <1>4 DEF UsedSlots
<1>8. WalkPath(edges, n, <<>>, color) /\ WalkLeft(edges, start, <<>>, color)
  BY <1>4, <1>5, <1>6 DEF WalkPath, WalkLeft
<1>9. WalkPaid(edges, n, k + 1, start, <<>>, color)
  <2>. DEFINE D == Cardinality(DoneOf(n, color))
              U == Cardinality(UsedSlots(edges, n, stack, color))
              V == Cardinality(UsedSlots(edges, n, <<>>, color))
  <2>1. k + 1 <= 2 * start + D + U
    BY DEF WalkOk, WalkPaid
  <2>2. U <= V
    BY <1>7, UsedGrows
  <2>3. D \in Nat /\ U \in Nat /\ V \in Nat
    BY CountsAreFew
  <2>. HIDE DEF D, U, V
  <2>4. k + 1 + 0 <= 2 * start + D + V
    BY <1>1, <2>1, <2>2, <2>3
  <2>5. QED
    BY <2>4 DEF WalkPaid, D, V
<1>10. QED
  BY <1>1, <1>2, <1>4, <1>8, <1>9 DEF WalkOk

\* Back at an open node: the path from there to the top, and the edge back, are a cycle.
LEMMA WalkIsRight ==
  ASSUME NEW n, NEW edges, IsGraph(edges, n), NEW k, NEW start, NEW stack, NEW color,
         WalkOk(edges, n, k, start, stack, color), stack # <<>>,
         stack[Len(stack)][2] = 0, color[stack[Len(stack)][1]] = "open"
  PROVE  ~Acyclic(edges, n)
<1>. DEFINE N == Len(stack)
            node(i) == stack[i][1]
<1>1. stack \in Seq(Frame(n)) /\ n \in Nat
  BY DEF WalkOk, IsGraph
<1>2. /\ N \in Nat \ {0} /\ DOMAIN stack = 1..N
      /\ \A i \in 1..N : node(i) \in 1..n /\ stack[i][2] \in Nat
  BY <1>1, StackParts
<1>3. PICK i \in 1..N : node(i) = node(N) /\ stack[i][2] > 0
  BY <1>2 DEF WalkOk, WalkPath
<1>4. i < N
  BY <1>2, <1>3
<1>5. \A j \in 1..(N - 1) : <<node(j), node(j + 1)>> \in Range(edges)
  <2>1. SUFFICES ASSUME NEW j \in 1..(N - 1) PROVE <<node(j), node(j + 1)>> \in Range(edges)
    OBVIOUS
  <2>2. j \in 1..N /\ j < N
    BY <1>2
  <2>3. /\ stack[j][2] > 0 /\ node(j + 1) = ChildOf(edges, node(j), stack[j][2])
        /\ stack[j][2] <= Degree(edges, node(j))
    BY <1>2, <2>2 DEF WalkOk, WalkPath
  <2>4. stack[j][2] \in 1..Degree(edges, node(j))
    BY <1>2, <2>2, <2>3, ChildParts
  <2>5. QED
    BY <1>2, <2>2, <2>3, <2>4, ChildParts
<1>. HIDE DEF N, node
<1>. DEFINE S == {node(j) : j \in i..(N - 1)}
<1>6. S \in (SUBSET (1..n)) \ {{}}
  <2>1. i \in i..(N - 1) /\ \A j \in i..(N - 1) : j \in 1..N
    BY <1>2, <1>4
  <2>2. node(i) \in S
    BY <2>1
  <2>3. S \subseteq 1..n
    BY <2>1, <1>2
  <2>. HIDE DEF S
  <2>4. QED
    BY <2>2, <2>3
<1>7. ASSUME NEW v \in S PROVE \E e \in Range(edges) : e[2] = v /\ e[1] \in S
  <2>1. PICK j \in i..(N - 1) : v = node(j)
    OBVIOUS
  <2>2. CASE j = i
    <3>1. N - 1 \in 1..(N - 1) /\ N - 1 \in i..(N - 1) /\ N - 1 + 1 = N
      BY <1>2, <1>4
    <3>2. <<node(N - 1), node(N)>> \in Range(edges)
      BY <1>5, <3>1
    <3>3. QED
      BY <1>3, <2>1, <2>2, <3>1, <3>2
  <2>3. CASE j # i
    <3>1. j - 1 \in 1..(N - 1) /\ j - 1 \in i..(N - 1) /\ j - 1 + 1 = j
      BY <1>2, <1>4, <2>1, <2>3
    <3>2. <<node(j - 1), node(j)>> \in Range(edges)
      BY <1>5, <3>1
    <3>3. QED
      BY <2>1, <3>1, <3>2
  <2>4. QED
    BY <2>2, <2>3
<1>. HIDE DEF S
<1>8. QED
  BY <1>6, <1>7 DEF Acyclic

\* A node whose children were all entered is done.
LEMMA WalkFinishes ==
  ASSUME NEW n, NEW edges, IsGraph(edges, n), NEW k \in Nat, NEW start, NEW stack, NEW color,
         WalkOk(edges, n, k, start, stack, color), stack # <<>>,
         NEW node, node = stack[Len(stack)][1],
         stack[Len(stack)][2] = Degree(edges, node),
         color[node] # "done", stack[Len(stack)][2] > 0 \/ color[node] # "open"
  PROVE  WalkOk(edges, n, k + 1, start, Front(stack), [color EXCEPT ![node] = "done"])
<1>. DEFINE N == Len(stack)
            rest == Front(stack)
            new == [color EXCEPT ![node] = "done"]
<1>1. /\ stack \in Seq(Frame(n)) /\ start \in 0..n /\ color \in Colors(n) /\ n \in Nat
      /\ WalkPath(edges, n, stack, color) /\ WalkLeft(edges, start, stack, color)
      /\ WalkDone(edges, n, color) /\ WalkPaid(edges, n, k, start, stack, color)
  BY DEF WalkOk, IsGraph
<1>2. /\ N \in Nat \ {0} /\ DOMAIN stack = 1..N
      /\ \A i \in 1..N : stack[i][1] \in 1..n /\ stack[i][2] \in Nat
      /\ rest \in Seq(Frame(n)) /\ Len(rest) = N - 1 /\ DOMAIN rest = 1..(N - 1)
      /\ \A i \in 1..(N - 1) : rest[i] = stack[i]
  BY <1>1, StackParts
<1>3. /\ node \in 1..n /\ node = stack[N][1] /\ N \in 1..N
  BY <1>2
<1>4. \A i \in 1..(N - 1) : /\ stack[i][2] > 0 /\ color[stack[i][1]] = "open"
                            /\ stack[i][1] # node
  <2>1. stack[Len(stack)][2] > 0 \/ color[stack[Len(stack)][1]] # "open"
    OBVIOUS
  <2>2. \A i \in 1..(Len(stack) - 1) : /\ stack[i][2] > 0 /\ color[stack[i][1]] = "open"
                                        /\ stack[i][1] # stack[Len(stack)][1]
    BY <1>1, <2>1, BelowTheTop
  <2>3. QED
    BY <2>2
<1>5. /\ new \in Colors(n) /\ new[node] = "done"
      /\ \A v \in 1..n : v # node => new[v] = color[v]
      /\ \A v \in 1..n : color[v] = "done" => new[v] = "done"
  BY <1>1, <1>3 DEF Colors
<1>6. \A i \in 1..(N - 1) : i \in 1..N /\ i < N /\ i # N /\ i + 1 \in 1..N
  <2>1. N \in Nat
    BY <1>2
  <2>. HIDE DEF N
  <2>2. QED
    BY <2>1
<1>7. \A c \in 1..Degree(edges, node) : color[ChildOf(edges, node, c)] = "done"
  BY <1>1, <1>2, <1>3 DEF WalkLeft
<1>8. rest = <<>> <=> N = 1
  BY <1>2
<1>. HIDE DEF N, rest, new
<1>9. WalkPath(edges, n, rest, new)
  <2>1. \A i \in 1..(N - 1) : new[stack[i][1]] = "open"
    BY <1>2, <1>4, <1>5, <1>6
  <2>2. \A i \in DOMAIN rest : rest[i][2] <= Degree(edges, rest[i][1])
    BY <1>1, <1>2, <1>6 DEF WalkPath
  <2>3. ASSUME NEW i \in DOMAIN rest, i < Len(rest)
        PROVE  rest[i][2] > 0 /\ rest[i + 1][1] = ChildOf(edges, rest[i][1], rest[i][2])
    <3>1. i \in 1..(N - 1) /\ i + 1 \in 1..(N - 1)
      BY <1>2, <2>3
    <3>2. /\ stack[i][2] > 0 /\ stack[i + 1][1] = ChildOf(edges, stack[i][1], stack[i][2])
      BY <1>1, <1>2, <1>6, <3>1 DEF WalkPath, N
    <3>3. QED
      BY <1>2, <3>1, <3>2
  <2>4. \A i, j \in DOMAIN rest :
            rest[i][2] > 0 /\ rest[j][2] > 0 /\ rest[i][1] = rest[j][1] => i = j
    <3>1. \A i, j \in 1..N : stack[i][2] > 0 /\ stack[j][2] > 0 /\ stack[i][1] = stack[j][1] => i = j
      BY <1>1, <1>2 DEF WalkPath
    <3>2. \A i \in DOMAIN rest : i \in 1..N /\ rest[i] = stack[i]
      BY <1>2, <1>6
    <3>3. QED
      BY <3>1, <3>2
  <2>5. ASSUME NEW v \in 1..n, new[v] = "open"
        PROVE  \E i \in DOMAIN rest : rest[i][1] = v /\ rest[i][2] > 0
    <3>1. v # node /\ color[v] = "open"
      BY <1>5, <2>5
    <3>2. PICK i \in 1..N : stack[i][1] = v /\ stack[i][2] > 0
      BY <1>1, <1>2, <3>1 DEF WalkPath
    <3>3. i \in 1..(N - 1)
      BY <1>2, <1>3, <3>1, <3>2
    <3>4. QED
      BY <1>2, <3>2, <3>3
  <2>6. QED
    BY <1>2, <2>1, <2>2, <2>3, <2>4, <2>5 DEF WalkPath
<1>10. WalkLeft(edges, start, rest, new)
  <2>1. ASSUME NEW i \in DOMAIN rest, NEW c \in 1..rest[i][2], c < rest[i][2] \/ i = Len(rest)
        PROVE  new[ChildOf(edges, rest[i][1], c)] = "done"
    <3>1. /\ i \in 1..(N - 1) /\ rest[i] = stack[i] /\ i \in DOMAIN stack /\ i < N /\ i # N
          /\ stack[i][1] \in 1..n /\ stack[i][2] \in Nat
      BY <1>2, <1>6
    <3>2. c \in 1..Degree(edges, stack[i][1]) /\ c \in 1..stack[i][2]
      <4>1. stack[i][2] <= Degree(edges, stack[i][1])
        BY <1>1, <3>1 DEF WalkPath
      <4>2. Degree(edges, stack[i][1]) \in Nat
        BY <3>1, ChildParts
      <4>3. QED
        BY <2>1, <3>1, <4>1, <4>2
    <3>3. ChildOf(edges, stack[i][1], c) \in 1..n
      BY <3>1, <3>2, ChildParts
    <3>4. CASE c < stack[i][2]
      <4>1. color[ChildOf(edges, stack[i][1], c)] = "done"
        BY <1>1, <3>1, <3>2, <3>4 DEF WalkLeft
      <4>2. QED
        BY <1>5, <3>1, <3>3, <4>1
    <3>5. CASE ~(c < stack[i][2])
      <4>1. c = stack[i][2] /\ i = N - 1 /\ i + 1 = N
        BY <1>2, <2>1, <3>1, <3>2, <3>5
      <4>2. ChildOf(edges, stack[i][1], c) = node
        BY <1>1, <1>3, <3>1, <4>1 DEF WalkPath, N
      <4>3. QED
        BY <1>5, <3>1, <4>2
    <3>6. QED
      BY <3>4, <3>5
  <2>2. ~(Len(rest) > 1 /\ rest[Len(rest)][2] = 0)
    <3>1. SUFFICES ASSUME Len(rest) > 1 PROVE rest[Len(rest)][2] # 0
      OBVIOUS
    <3>2. N - 1 \in 1..(N - 1) /\ Len(rest) = N - 1
      BY <1>2, <3>1
    <3>3. rest[N - 1] = stack[N - 1] /\ stack[N - 1][2] > 0
      BY <1>2, <1>4, <3>2
    <3>4. QED
      BY <3>2, <3>3
  <2>3. ASSUME NEW v \in 1..start
        PROVE  new[v] = "done" \/ (rest # <<>> /\ rest[1][1] = v)
    <3>1. v \in 1..n
      BY <1>1
    <3>2. CASE color[v] = "done"
      BY <1>5, <3>1, <3>2
    <3>3. CASE stack[1][1] = v /\ N = 1
      BY <1>3, <1>5, <3>3
    <3>4. CASE stack[1][1] = v /\ N # 1
      <4>1. 1 \in 1..(N - 1)
        BY <1>2, <3>4
      <4>2. QED
        BY <1>2, <1>8, <3>4, <4>1
    <3>5. QED
      BY <1>1, <3>2, <3>3, <3>4 DEF WalkLeft
  <2>4. QED
    BY <2>1, <2>2, <2>3 DEF WalkLeft
<1>11. DoneOf(n, new) = DoneOf(n, color) \cup {node} /\ node \notin DoneOf(n, color)
  BY <1>3, <1>5 DEF DoneOf
<1>12. \A e \in Range(edges) : e[1] \in 1..n /\ e[2] \in 1..n
  BY EdgeParts DEF Range
<1>13. WalkDone(edges, n, new)
  <2>1. ASSUME NEW e \in Range(edges), new[e[1]] = "done" PROVE new[e[2]] = "done"
    <3>1. CASE e[1] = node
      <4>1. PICK c \in 1..Degree(edges, node) : e[2] = ChildOf(edges, node, c)
        BY <1>3, <3>1, ChildParts
      <4>2. QED
        BY <1>5, <1>7, <1>12, <4>1
    <3>2. CASE e[1] # node
      BY <1>1, <1>5, <1>12, <2>1, <3>2 DEF WalkDone
    <3>3. QED
      BY <3>1, <3>2
  <2>2. ASSUME NEW S \in SUBSET DoneOf(n, new), S # {}
        PROVE  \E v \in S : \A e \in Range(edges) : e[2] = v => e[1] \notin S
    <3>1. CASE node \notin S
      <4>1. S \in SUBSET DoneOf(n, color)
        BY <1>11, <2>2, <3>1
      <4>2. QED
        BY <1>1, <2>2, <4>1 DEF WalkDone
    <3>2. CASE node \in S
      <4>1. ASSUME NEW e \in Range(edges), e[2] = node PROVE e[1] \notin S
        <5>1. e[1] # node
          <6>1. SUFFICES ASSUME e[1] = node PROVE FALSE
            OBVIOUS
          <6>2. PICK c \in 1..Degree(edges, node) : e[2] = ChildOf(edges, node, c)
            BY <1>3, <6>1, ChildParts
          <6>3. QED
            BY <1>7, <4>1, <6>2
        <5>2. color[e[1]] # "done"
          BY <1>1, <4>1 DEF WalkDone
        <5>3. QED
          BY <1>11, <2>2, <5>1, <5>2 DEF DoneOf
      <4>2. QED
        BY <3>2, <4>1
    <3>3. QED
      BY <3>1, <3>2
  <2>3. QED
    BY <2>1, <2>2 DEF WalkDone
<1>14. UsedSlots(edges, n, stack, color) \subseteq UsedSlots(edges, n, rest, new)
  <2>1. SUFFICES ASSUME NEW s \in UsedSlots(edges, n, stack, color)
                 PROVE  s \in UsedSlots(edges, n, rest, new)
    OBVIOUS
  <2>2. s \in Slots(edges, n) /\ s[1] \in 1..n
    BY DEF UsedSlots, Slots
  <2>3. CASE color[s[1]] = "done"
    BY <1>5, <2>2, <2>3 DEF UsedSlots
  <2>4. CASE \E i \in DOMAIN stack : stack[i][1] = s[1] /\ s[2] <= stack[i][2]
    <3>1. PICK i \in 1..N : stack[i][1] = s[1] /\ s[2] <= stack[i][2]
      BY <1>2, <2>4
    <3>2. CASE i = N
      BY <1>3, <1>5, <2>2, <3>1, <3>2 DEF UsedSlots
    <3>3. CASE i # N
      <4>1. i \in DOMAIN rest /\ rest[i] = stack[i]
        BY <1>2, <3>3
      <4>2. QED
        BY <2>2, <3>1, <4>1 DEF UsedSlots
    <3>4. QED
      BY <3>2, <3>3
  <2>5. QED
    BY <2>3, <2>4 DEF UsedSlots
<1>15. WalkPaid(edges, n, k + 1, start, rest, new)
  <2>. DEFINE D == Cardinality(DoneOf(n, color))
              E == Cardinality(DoneOf(n, new))
              U == Cardinality(UsedSlots(edges, n, stack, color))
              V == Cardinality(UsedSlots(edges, n, rest, new))
              more == IF rest = <<>> THEN 0 ELSE 1
  <2>1. k + 1 <= 2 * start + D + U
    BY <1>1 DEF WalkPaid
  <2>2. U <= V
    BY <1>14, UsedGrows
  <2>3. D \in Nat /\ U \in Nat /\ V \in Nat /\ E \in Nat
    BY CountsAreFew
  <2>4. E = D + 1
    <3>1. IsFiniteSet(DoneOf(n, color))
      BY CountsAreFew
    <3>2. Cardinality(DoneOf(n, color) \cup {node}) = Cardinality(DoneOf(n, color)) + 1
      BY <1>11, <3>1, FS_AddElement
    <3>3. QED
      BY <1>11, <3>2
  <2>5. more \in {0, 1}
    OBVIOUS
  <2>. HIDE DEF D, E, U, V, more
  <2>6. k + 1 + more <= 2 * start + E + V
    BY <1>1, <2>1, <2>2, <2>3, <2>4, <2>5
  <2>7. QED
    BY <2>6 DEF WalkPaid, E, V, more
<1>16. QED
  BY <1>1, <1>2, <1>5, <1>9, <1>10, <1>13, <1>15 DEF WalkOk, rest, new

\* The top frame stands at a node that is not done and has a child left; the next child is
\* entered: it is put on the stack, unless it is done.
ChildLeft(edges, stack, color, node, cursor) ==
    /\ stack # <<>> /\ node = stack[Len(stack)][1] /\ cursor = stack[Len(stack)][2]
    /\ cursor < Degree(edges, node)
    /\ color[node] # "done" /\ (cursor > 0 \/ color[node] # "open")
ChildEntered(edges, n, stack, color, node, cursor, child, stack2, new) ==
    /\ new = [color EXCEPT ![node] = "open"]
    /\ child = ChildOf(edges, node, cursor + 1)
    /\ \/ Replaced(n, stack, stack2, <<node, cursor + 1>>) /\ new[child] = "done"
       \/ Extended(n, stack, stack2, <<node, cursor + 1>>, <<child, 0>>) /\ new[child] # "done"

LEMMA WalkAdvances ==
  ASSUME NEW n, NEW edges, IsGraph(edges, n), NEW k \in Nat, NEW start, NEW stack, NEW color,
         WalkOk(edges, n, k, start, stack, color), NEW node, NEW cursor,
         ChildLeft(edges, stack, color, node, cursor), NEW child, NEW stack2, NEW new,
         ChildEntered(edges, n, stack, color, node, cursor, child, stack2, new)
  PROVE  WalkOk(edges, n, k + 1, start, stack2, new)
<1>. SUFFICES ASSUME stack # <<>>, node = stack[Len(stack)][1], cursor = stack[Len(stack)][2],
                      cursor < Degree(edges, node),
                      color[node] # "done", cursor > 0 \/ color[node] # "open",
                      new = [color EXCEPT ![node] = "open"],
                      child = ChildOf(edges, node, cursor + 1)
               PROVE  WalkOk(edges, n, k + 1, start, stack2, new)
  BY DEF ChildLeft, ChildEntered
<1>21. /\ stack2 \in Seq(Frame(n)) /\ stack2[Len(stack)] = <<node, cursor + 1>>
       /\ \A i \in 1..(Len(stack) - 1) : stack2[i] = stack[i]
       /\ \/ Len(stack2) = Len(stack) /\ new[child] = "done"
          \/ /\ Len(stack2) = Len(stack) + 1 /\ stack2[Len(stack) + 1] = <<child, 0>>
             /\ new[child] # "done"
  BY DEF Replaced, Extended, ChildEntered
<1>. DEFINE N == Len(stack)
            M == Len(stack2)
<1>1. /\ stack \in Seq(Frame(n)) /\ start \in 0..n /\ color \in Colors(n) /\ n \in Nat
      /\ WalkPath(edges, n, stack, color) /\ WalkLeft(edges, start, stack, color)
      /\ WalkDone(edges, n, color) /\ WalkPaid(edges, n, k, start, stack, color)
  BY DEF WalkOk, IsGraph
<1>2. /\ N \in Nat \ {0} /\ DOMAIN stack = 1..N
      /\ \A i \in 1..N : stack[i][1] \in 1..n /\ stack[i][2] \in Nat
  BY <1>1, StackParts
<1>3. /\ node \in 1..n /\ node = stack[N][1] /\ cursor = stack[N][2] /\ cursor \in Nat
      /\ N \in 1..N
  BY <1>2
<1>4. \A i \in 1..(N - 1) : /\ stack[i][2] > 0 /\ color[stack[i][1]] = "open"
                            /\ stack[i][1] # node
  <2>1. stack[Len(stack)][2] > 0 \/ color[stack[Len(stack)][1]] # "open"
    OBVIOUS
  <2>2. \A i \in 1..(Len(stack) - 1) : /\ stack[i][2] > 0 /\ color[stack[i][1]] = "open"
                                        /\ stack[i][1] # stack[Len(stack)][1]
    BY <1>1, <2>1, BelowTheTop
  <2>3. QED
    BY <2>2
<1>5. /\ new \in Colors(n) /\ new[node] = "open"
      /\ \A v \in 1..n : v # node => new[v] = color[v]
      /\ \A v \in 1..n : color[v] = "done" <=> new[v] = "done"
  BY <1>1, <1>3 DEF Colors
<1>6. /\ Degree(edges, node) \in Nat /\ cursor + 1 \in 1..Degree(edges, node) /\ child \in 1..n
  <2>1. Degree(edges, node) \in Nat
    BY <1>3, ChildParts
  <2>2. cursor + 1 \in 1..Degree(edges, node)
    BY <1>3, <2>1
  <2>3. QED
    BY <1>3, <2>1, <2>2, ChildParts
<1>7. /\ stack2[N] = <<node, cursor + 1>> /\ \A i \in 1..(N - 1) : stack2[i] = stack[i]
      /\ \/ M = N /\ new[child] = "done"
         \/ M = N + 1 /\ stack2[N + 1] = <<child, 0>> /\ new[child] # "done"
  BY <1>21
<1>8. DOMAIN stack2 = 1..M /\ M \in Nat
  BY <1>21
<1>20. \A c \in 1..cursor : color[ChildOf(edges, node, c)] = "done"
  <2>. SUFFICES ASSUME NEW c \in 1..cursor PROVE color[ChildOf(edges, node, c)] = "done"
    OBVIOUS
  <2>1. WalkLeft(edges, start, stack, color) /\ node = stack[N][1]
    BY <1>1
  <2>2. N \in DOMAIN stack /\ c \in 1..stack[N][2] /\ N = Len(stack)
    BY <1>2
  <2>. HIDE DEF N
  <2>3. color[ChildOf(edges, stack[N][1], c)] = "done"
    BY <2>1, <2>2 DEF WalkLeft
  <2>4. QED
    BY <2>1, <2>3
<1>. HIDE DEF N, M
<1>19. stack2[N][1] = node /\ stack2[N][2] = cursor + 1 /\ cursor + 1 > 0 /\ cursor + 1 # 0
       /\ <<child, 0>>[2] = 0
  BY <1>3, <1>7
<1>9. /\ N \in DOMAIN stack2 /\ stack2 # <<>> /\ M >= N
      /\ \A i \in DOMAIN stack2 : \/ i \in 1..(N - 1) /\ stack2[i] = stack[i]
                                  \/ i = N /\ stack2[i] = <<node, cursor + 1>>
                                  \/ i = N + 1 /\ stack2[i] = <<child, 0>> /\ M = N + 1
  <2>1. N \in 1..M /\ M >= N
    BY <1>2, <1>7, <1>8
  <2>2. \A i \in 1..M : i \in 1..(N - 1) \/ i = N \/ (i = N + 1 /\ M = N + 1)
    BY <1>2, <1>7, <1>8
  <2>3. \A i \in 1..M : i = N + 1 /\ M = N + 1 => stack2[i] = <<child, 0>>
    BY <1>2, <1>7
  <2>4. stack2 # <<>>
    BY <2>1, <1>8
  <2>5. QED
    BY <2>1, <2>2, <2>3, <2>4, <1>7, <1>8
<1>10. \A i \in 1..(N - 1) : i \in 1..N /\ i < N /\ i # N /\ i + 1 \in 1..N
  BY <1>2
<1>11. \A i \in 1..(N - 1) : new[stack[i][1]] = "open"
  BY <1>2, <1>4, <1>5, <1>10
<1>12. WalkPath(edges, n, stack2, new)
  <2>1. \A i \in DOMAIN stack2 : stack2[i][2] <= Degree(edges, stack2[i][1])
    <3>1. SUFFICES ASSUME NEW i \in DOMAIN stack2
                   PROVE  stack2[i][2] <= Degree(edges, stack2[i][1])
      OBVIOUS
    <3>2. CASE i \in 1..(N - 1) /\ stack2[i] = stack[i]
      BY <1>1, <1>2, <1>10, <3>2 DEF WalkPath
    <3>3. CASE i = N /\ stack2[i] = <<node, cursor + 1>>
      BY <1>3, <1>6, <3>3
    <3>4. CASE stack2[i] = <<child, 0>>
      <4>1. Degree(edges, child) \in Nat
        BY <1>6, ChildParts
      <4>2. QED
        BY <3>4, <4>1
    <3>5. QED
      BY <1>9, <3>2, <3>3, <3>4
  <2>2. \A i \in DOMAIN stack2 : stack2[i][2] > 0 => new[stack2[i][1]] = "open"
    BY <1>5, <1>9, <1>11
  <2>3. ASSUME NEW i \in DOMAIN stack2, i < M
        PROVE  stack2[i][2] > 0 /\ stack2[i + 1][1] = ChildOf(edges, stack2[i][1], stack2[i][2])
    <3>1. CASE i \in 1..(N - 1) /\ stack2[i] = stack[i]
      <4>1. stack[i][2] > 0 /\ stack[i + 1][1] = ChildOf(edges, stack[i][1], stack[i][2])
        BY <1>1, <1>2, <1>10, <3>1 DEF WalkPath, N
      <4>2. i + 1 \in 1..(N - 1) \/ i + 1 = N
        BY <1>2, <3>1
      <4>3. stack2[i + 1][1] = stack[i + 1][1]
        BY <1>3, <1>7, <4>2
      <4>4. QED
        BY <3>1, <4>1, <4>3
    <3>2. CASE i = N
      <4>1. M = N + 1 /\ stack2[N + 1] = <<child, 0>>
        BY <1>2, <1>7, <2>3, <3>2
      <4>2. stack2[i] = <<node, cursor + 1>> /\ cursor + 1 > 0
        BY <1>3, <1>7, <3>2
      <4>3. QED
        BY <3>2, <4>1, <4>2
    <3>3. CASE i = N + 1
      BY <1>2, <1>7, <1>8, <2>3, <3>3
    <3>4. QED
      BY <1>9, <3>1, <3>2, <3>3
  <2>4. ASSUME NEW i \in DOMAIN stack2, NEW j \in DOMAIN stack2, stack2[i][2] > 0,
               stack2[j][2] > 0, stack2[i][1] = stack2[j][1]
        PROVE  i = j
    <3>1. \A l \in DOMAIN stack2 : stack2[l][2] > 0 =>
             \/ l = N /\ stack2[l][1] = node
             \/ l \in 1..(N - 1) /\ stack2[l] = stack[l]
      BY <1>9, <1>19
    <3>2. \A l \in 1..(N - 1) : stack[l][1] # node /\ l \in DOMAIN stack
      BY <1>2, <1>4, <1>10
    <3>3. \A l, m \in DOMAIN stack :
            stack[l][2] > 0 /\ stack[m][2] > 0 /\ stack[l][1] = stack[m][1] => l = m
      BY <1>1 DEF WalkPath
    <3>4. CASE i = N /\ j = N
      BY <3>4
    <3>5. CASE i \in 1..(N - 1) /\ stack2[i] = stack[i] /\ j \in 1..(N - 1) /\ stack2[j] = stack[j]
      BY <2>4, <3>2, <3>3, <3>5
    <3>6. QED
      BY <2>4, <3>1, <3>2, <3>4, <3>5
  <2>5. ASSUME NEW v \in 1..n, new[v] = "open"
        PROVE  \E i \in DOMAIN stack2 : stack2[i][1] = v /\ stack2[i][2] > 0
    <3>1. CASE v = node
      BY <1>9, <1>19, <3>1
    <3>2. CASE v # node
      <4>1. PICK i \in 1..N : stack[i][1] = v /\ stack[i][2] > 0
        BY <1>1, <1>2, <1>5, <2>5, <3>2 DEF WalkPath
      <4>2. i \in 1..(N - 1) /\ i \in DOMAIN stack2
        BY <1>2, <1>3, <1>8, <1>9, <3>2, <4>1
      <4>3. QED
        BY <1>7, <4>1, <4>2
    <3>3. QED
      BY <3>1, <3>2
  <2>6. QED
    BY <2>1, <2>2, <2>3, <2>4, <2>5 DEF WalkPath, M
<1>13. WalkLeft(edges, start, stack2, new)
  <2>1. ASSUME NEW i \in DOMAIN stack2, NEW c \in 1..stack2[i][2], c < stack2[i][2] \/ i = M
        PROVE  new[ChildOf(edges, stack2[i][1], c)] = "done"
    <3>1. CASE i \in 1..(N - 1) /\ stack2[i] = stack[i]
      <4>1. /\ i \in DOMAIN stack /\ i # M /\ stack[i][1] \in 1..n /\ stack[i][2] \in Nat
            /\ stack[i][2] <= Degree(edges, stack[i][1])
        BY <1>1, <1>2, <1>8, <1>9, <1>10, <3>1 DEF WalkPath
      <4>2. c < stack[i][2] /\ c \in 1..stack[i][2]
        BY <2>1, <3>1, <4>1
      <4>3. color[ChildOf(edges, stack[i][1], c)] = "done"
        BY <1>1, <4>1, <4>2 DEF WalkLeft
      <4>4. ChildOf(edges, stack[i][1], c) \in 1..n
        <5>1. Degree(edges, stack[i][1]) \in Nat
          BY <4>1, ChildParts
        <5>2. c \in 1..Degree(edges, stack[i][1])
          BY <4>1, <4>2, <5>1
        <5>3. QED
          BY <4>1, <5>2, ChildParts
      <4>5. QED
        BY <1>5, <3>1, <4>3, <4>4
    <3>2. CASE i = N /\ stack2[i] = <<node, cursor + 1>>
      <4>1. c \in 1..(cursor + 1)
        BY <3>2
      <4>2. CASE c = cursor + 1
        <5>1. M = N
          BY <1>3, <2>1, <3>2, <4>2
        <5>2. new[child] = "done"
          BY <1>2, <1>7, <5>1
        <5>3. QED
          BY <3>2, <4>2, <5>2
      <4>3. CASE c # cursor + 1
        <5>1. c \in 1..cursor /\ c \in 1..Degree(edges, node)
          BY <1>3, <1>6, <4>1, <4>3
        <5>2. color[ChildOf(edges, node, c)] = "done"
          BY <1>20, <5>1
        <5>3. ChildOf(edges, node, c) \in 1..n
          BY <1>3, <5>1, ChildParts
        <5>4. QED
          BY <1>5, <3>2, <5>2, <5>3
      <4>4. QED
        BY <4>2, <4>3
    <3>3. CASE stack2[i] = <<child, 0>>
      BY <2>1, <3>3
    <3>4. QED
      BY <1>9, <3>1, <3>2, <3>3
  <2>2. M > 1 /\ stack2[M][2] = 0 => new[stack2[M][1]] # "done"
    <3>1. CASE M = N
      BY <1>3, <1>7, <3>1
    <3>2. CASE M = N + 1
      BY <1>2, <1>7, <3>2
    <3>3. QED
      BY <1>7, <3>1, <3>2
  <2>3. ASSUME NEW v \in 1..start
        PROVE  new[v] = "done" \/ (stack2 # <<>> /\ stack2[1][1] = v)
    <3>1. v \in 1..n
      BY <1>1
    <3>2. stack2[1][1] = stack[1][1]
      <4>1. 1 \in 1..(N - 1) \/ N = 1
        BY <1>2
      <4>2. QED
        BY <1>3, <1>7, <4>1
    <3>3. QED
      BY <1>1, <1>5, <1>9, <3>1, <3>2 DEF WalkLeft
  <2>4. QED
    BY <2>1, <2>2, <2>3 DEF WalkLeft, M
<1>14. DoneOf(n, new) = DoneOf(n, color)
  BY <1>5 DEF DoneOf
<1>15. WalkDone(edges, n, new)
  <2>1. \A e \in Range(edges) : e[1] \in 1..n /\ e[2] \in 1..n
    BY EdgeParts DEF Range
  <2>2. QED
    BY <1>1, <1>5, <1>14, <2>1 DEF WalkDone
<1>16. /\ UsedSlots(edges, n, stack, color) \subseteq UsedSlots(edges, n, stack2, new)
       /\ <<node, cursor + 1>> \in UsedSlots(edges, n, stack2, new)
       /\ <<node, cursor + 1>> \notin UsedSlots(edges, n, stack, color)
  <2>1. ASSUME NEW s \in UsedSlots(edges, n, stack, color)
        PROVE  s \in UsedSlots(edges, n, stack2, new)
    <3>1. s \in Slots(edges, n) /\ s[1] \in 1..n /\ s[2] \in Nat
      BY DEF UsedSlots, Slots
    <3>2. CASE color[s[1]] = "done"
      BY <1>5, <3>1, <3>2 DEF UsedSlots
    <3>3. CASE \E i \in DOMAIN stack : stack[i][1] = s[1] /\ s[2] <= stack[i][2]
      <4>1. PICK i \in 1..N : stack[i][1] = s[1] /\ s[2] <= stack[i][2]
        BY <1>2, <3>3
      <4>2. i \in DOMAIN stack2
        BY <1>2, <1>8, <1>9
      <4>3. stack2[i][1] = s[1] /\ s[2] <= stack2[i][2]
        <5>1. CASE i = N
          BY <1>3, <1>7, <3>1, <4>1, <5>1
        <5>2. CASE i # N
          <6>1. stack2[i] = stack[i]
            BY <1>2, <1>7, <5>2
          <6>2. QED
            BY <4>1, <6>1
        <5>3. QED
          BY <5>1, <5>2
      <4>4. QED
        BY <3>1, <4>2, <4>3 DEF UsedSlots
    <3>4. QED
      BY <3>2, <3>3 DEF UsedSlots
  <2>2. <<node, cursor + 1>> \in Slots(edges, n)
    <3>1. <<node, cursor + 1>> \in (1..n) \X Nat
      BY <1>3
    <3>2. <<node, cursor + 1>>[2] \in 1..Degree(edges, <<node, cursor + 1>>[1])
      BY <1>6
    <3>3. QED
      BY <3>1, <3>2 DEF Slots
  <2>3. <<node, cursor + 1>> \in UsedSlots(edges, n, stack2, new)
    <3>1. /\ N \in DOMAIN stack2 /\ stack2[N][1] = <<node, cursor + 1>>[1]
          /\ <<node, cursor + 1>>[2] <= stack2[N][2]
      BY <1>3, <1>9, <1>19
    <3>2. QED
      BY <2>2, <3>1 DEF UsedSlots
  <2>4. <<node, cursor + 1>> \notin UsedSlots(edges, n, stack, color)
    <3>1. SUFFICES ASSUME NEW i \in 1..N, stack[i][1] = node, cursor + 1 <= stack[i][2] PROVE FALSE
      BY <1>2 DEF UsedSlots
    <3>2. i = N
      BY <1>2, <1>4, <3>1
    <3>3. QED
      BY <1>3, <3>1, <3>2
  <2>5. QED
    BY <2>1, <2>3, <2>4
<1>17. WalkPaid(edges, n, k + 1, start, stack2, new)
  <2>. DEFINE D == Cardinality(DoneOf(n, color))
              U == Cardinality(UsedSlots(edges, n, stack, color))
              V == Cardinality(UsedSlots(edges, n, stack2, new))
  <2>1. k + 1 <= 2 * start + D + U
    BY <1>1 DEF WalkPaid
  <2>2. U + 1 <= V
    <3>1. UsedSlots(edges, n, stack, color) # UsedSlots(edges, n, stack2, new)
      BY <1>16
    <3>2. QED
      BY <1>16, <3>1, UsedGrows
  <2>3. D \in Nat /\ U \in Nat /\ V \in Nat
    BY CountsAreFew
  <2>. HIDE DEF D, U, V
  <2>4. k + 1 + 1 <= 2 * start + D + V
    BY <1>1, <2>1, <2>2, <2>3
  <2>5. QED
    BY <2>4, <1>9, <1>14 DEF WalkPaid, D, V
<1>18. QED
  BY <1>1, <1>5, <1>12, <1>13, <1>15, <1>17, <1>21 DEF WalkOk

\* A walk that found a cycle was right; one that did not is on its way.
WalkInv(edges, n, k, w) ==
    /\ w = [start |-> w.start, stack |-> w.stack, cycle |-> w.cycle, color |-> w.color]
    /\ w.cycle \in BOOLEAN
    /\ w.cycle => ~Acyclic(edges, n)
    /\ ~w.cycle => WalkOk(edges, n, k, w.start, w.stack, w.color)

LEMMA WalkChanges ==
  ASSUME NEW w, w = [start |-> w.start, stack |-> w.stack, cycle |-> w.cycle, color |-> w.color],
         NEW start, NEW stack, NEW color, NEW cycle
  PROVE  /\ [w EXCEPT !.start = start, !.stack = stack]
              = [start |-> start, stack |-> stack, cycle |-> w.cycle, color |-> w.color]
         /\ [w EXCEPT !.cycle = cycle]
              = [start |-> w.start, stack |-> w.stack, cycle |-> cycle, color |-> w.color]
         /\ [w EXCEPT !.stack = stack]
              = [start |-> w.start, stack |-> stack, cycle |-> w.cycle, color |-> w.color]
         /\ [w EXCEPT !.color = color, !.stack = stack]
              = [start |-> w.start, stack |-> stack, cycle |-> w.cycle, color |-> color]
<1>. DEFINE a == w.start
            b == w.stack
            c == w.cycle
            d == w.color
<1>1. w = [start |-> a, stack |-> b, cycle |-> c, color |-> d]
  OBVIOUS
<1>. HIDE DEF a, b, c, d
<1>2. [w EXCEPT !.cycle = cycle] = [start |-> a, stack |-> b, cycle |-> cycle, color |-> d]
  BY <1>1
<1>3. [[start |-> a, stack |-> b, cycle |-> c, color |-> d] EXCEPT !.stack = stack]
        = [start |-> a, stack |-> stack, cycle |-> c, color |-> d]
  OBVIOUS
<1>4. [[[start |-> a, stack |-> b, cycle |-> c, color |-> d] EXCEPT !.start = start]
          EXCEPT !.stack = stack]
        = [start |-> start, stack |-> stack, cycle |-> c, color |-> d]
  <2>1. [[start |-> a, stack |-> b, cycle |-> c, color |-> d] EXCEPT !.start = start]
          = [start |-> start, stack |-> b, cycle |-> c, color |-> d]
    OBVIOUS
  <2>2. [[start |-> start, stack |-> b, cycle |-> c, color |-> d] EXCEPT !.stack = stack]
          = [start |-> start, stack |-> stack, cycle |-> c, color |-> d]
    OBVIOUS
  <2>3. QED
    BY <2>1, <2>2
<1>5. \A x : [[start |-> a, stack |-> b, cycle |-> c, color |-> x] EXCEPT !.stack = stack]
             = [start |-> a, stack |-> stack, cycle |-> c, color |-> x]
  OBVIOUS
<1>6. [[start |-> a, stack |-> b, cycle |-> c, color |-> d] EXCEPT !.color = color]
             = [start |-> a, stack |-> b, cycle |-> c, color |-> color]
  OBVIOUS
<1>7. [w EXCEPT !.stack = stack] = [start |-> a, stack |-> stack, cycle |-> c, color |-> d]
  BY <1>1, <1>3
<1>8. [w EXCEPT !.start = start, !.stack = stack]
        = [start |-> start, stack |-> stack, cycle |-> c, color |-> d]
  BY <1>1, <1>4
<1>9. [w EXCEPT !.color = color, !.stack = stack]
        = [start |-> a, stack |-> stack, cycle |-> c, color |-> color]
  BY <1>1, <1>5, <1>6
<1>10. QED
  BY <1>2, <1>7, <1>8, <1>9 DEF a, b, c, d

LEMMA WalkEnters ==
  ASSUME NEW n, NEW edges, IsGraph(edges, n), NEW k \in Nat, NEW start, NEW stack, NEW color,
         WalkOk(edges, n, k, start, stack, color), stack # <<>>,
         NEW node, node = stack[Len(stack)][1],
         NEW cursor, cursor = stack[Len(stack)][2], cursor < Degree(edges, node),
         color[node] # "done", cursor > 0 \/ color[node] # "open",
         NEW new, new = [color EXCEPT ![node] = "open"],
         NEW child, child = ChildOf(edges, node, cursor + 1),
         NEW entered, entered = IF Enters(new, child) THEN <<<<child, 0>>>> ELSE <<>>
  PROVE  WalkOk(edges, n, k + 1, start, Advanced(stack, <<node, cursor + 1>>, entered), new)
<1>1. stack \in Seq(Frame(n))
  BY DEF WalkOk
<1>2. /\ Len(stack) \in Nat \ {0}
      /\ \A i \in 1..Len(stack) : stack[i][1] \in 1..n /\ stack[i][2] \in Nat
  BY <1>1, StackParts
<1>3. node \in 1..n /\ cursor \in Nat
  BY <1>2
<1>4. child \in 1..n
  <2>1. Degree(edges, node) \in Nat
    BY <1>3, ChildParts
  <2>2. cursor + 1 \in 1..Degree(edges, node)
    BY <1>3, <2>1
  <2>3. QED
    BY <1>3, <2>2, ChildParts
<1>5. <<node, cursor + 1>> \in Frame(n) /\ <<child, 0>> \in Frame(n)
  <2>1. cursor + 1 \in Nat /\ 0 \in Nat
    BY <1>3
  <2>2. QED
    BY <1>3, <1>4, <2>1 DEF Frame
<1>6. PICK x \in Frame(n), y \in Frame(n) : x = <<node, cursor + 1>> /\ y = <<child, 0>>
  BY <1>5
<1>7. /\ Replaced(n, stack, Advanced(stack, x, <<>>), x)
      /\ Extended(n, stack, Advanced(stack, x, <<y>>), x, y)
  BY <1>1, StackAdvanced, ZenonT(30)
<1>8. \/ /\ Replaced(n, stack, Advanced(stack, <<node, cursor + 1>>, entered), <<node, cursor + 1>>)
         /\ new[child] = "done"
      \/ /\ Extended(n, stack, Advanced(stack, <<node, cursor + 1>>, entered), <<node, cursor + 1>>,
                    <<child, 0>>)
         /\ new[child] # "done"
  BY <1>6, <1>7, ZenonT(30) DEF Enters
<1>9. PICK t : t = Advanced(stack, <<node, cursor + 1>>, entered)
  OBVIOUS
<1>10. WalkOk(edges, n, k + 1, start, t, new)
  <2>1. ChildLeft(edges, stack, color, node, cursor)
    BY DEF ChildLeft
  <2>2. ChildEntered(edges, n, stack, color, node, cursor, child, t, new)
    BY <1>8, <1>9 DEF ChildEntered
  <2>3. QED
    BY <2>1, <2>2, WalkAdvances
<1>11. QED
  BY <1>9, <1>10

LEMMA WalkMoves ==
  ASSUME NEW n, NEW edges, IsGraph(edges, n), NEW k \in Nat, NEW w, WalkInv(edges, n, k, w)
  PROVE  WalkInv(edges, n, k + 1, WalkStep(edges, n, w))
<1>. DEFINE stack == w.stack
            N == Len(stack)
            node == stack[N][1]
            cursor == stack[N][2]
            next == Children(edges, node)
            color == IF cursor = 0 /\ w.color[node] = "unvisited"
                     THEN [w.color EXCEPT ![node] = "open"] ELSE w.color
            child == next[cursor + 1]
            entered == IF Enters(color, child) THEN <<<<child, 0>>>> ELSE <<>>
            advanced == Front(stack) \o <<<<node, cursor + 1>>>> \o entered
            Out(s, t, c) == [start |-> s, stack |-> t, cycle |-> FALSE, color |-> c]
<1>1. /\ w = [start |-> w.start, stack |-> w.stack, cycle |-> w.cycle, color |-> w.color]
      /\ w.cycle \in BOOLEAN
  BY DEF WalkInv
<1>2. CASE w.cycle \/ (stack = <<>> /\ w.start = n)
  <2>1. WalkStep(edges, n, w) = w
    BY <1>2 DEF WalkStep
  <2>2. CASE w.cycle
    BY <2>1, <2>2 DEF WalkInv
  <2>3. CASE ~w.cycle
    <3>1. WalkOk(edges, n, k + 1, w.start, w.stack, w.color)
      BY <1>2, <2>3 DEF WalkInv, WalkOk, WalkPaid
    <3>2. QED
      BY <1>1, <2>1, <2>3, <3>1 DEF WalkInv
  <2>4. QED
    BY <2>2, <2>3
<1>3. SUFFICES ASSUME w.cycle = FALSE, ~(stack = <<>> /\ w.start = n)
               PROVE  WalkInv(edges, n, k + 1, WalkStep(edges, n, w))
  BY <1>1, <1>2
<1>4. WalkOk(edges, n, k, w.start, stack, w.color)
  BY <1>3 DEF WalkInv
<1>5. ASSUME NEW s, NEW t, NEW c, WalkStep(edges, n, w) = Out(s, t, c),
             WalkOk(edges, n, k + 1, s, t, c)
      PROVE  WalkInv(edges, n, k + 1, WalkStep(edges, n, w))
  BY <1>5 DEF WalkInv
<1>6. CASE stack = <<>>
  <2>1. WalkStep(edges, n, w) = [w EXCEPT !.start = w.start + 1, !.stack = <<<<w.start + 1, 0>>>>]
    BY <1>3, <1>6 DEF WalkStep
  <2>2. WalkStep(edges, n, w) = Out(w.start + 1, <<<<w.start + 1, 0>>>>, w.color)
    BY <2>1, <1>1, <1>3, WalkChanges
  <2>3. WalkOk(edges, n, k + 1, w.start + 1, <<<<w.start + 1, 0>>>>, w.color)
    BY <1>3, <1>4, <1>6, WalkBegins
  <2>. HIDE DEF Out
  <2>4. QED
    BY <1>5, <2>2, <2>3
<1>7. ASSUME stack # <<>> PROVE WalkInv(edges, n, k + 1, WalkStep(edges, n, w))
  <2>1. /\ stack \in Seq(Frame(n)) /\ w.color \in Colors(n) /\ WalkPath(edges, n, stack, w.color)
    BY <1>4 DEF WalkOk
  <2>2. /\ N \in 1..N /\ DOMAIN stack = 1..N /\ node \in 1..n /\ cursor \in Nat
        /\ Last(stack) = stack[N]
    <3>1. stack \in Seq(Frame(n)) /\ stack # <<>>
      BY <1>7, <2>1
    <3>2. /\ Len(stack) \in Nat \ {0} /\ DOMAIN stack = 1..Len(stack) /\ Last(stack) = stack[N]
          /\ \A i \in 1..Len(stack) : stack[i][1] \in 1..n /\ stack[i][2] \in Nat
      BY <3>1, StackParts
    <3>3. N \in 1..N
      BY <3>2
    <3>4. QED
      BY <3>2, <3>3
  <2>3. /\ Degree(edges, node) \in Nat /\ Len(next) = Degree(edges, node)
        /\ cursor <= Degree(edges, node) /\ (cursor > 0 => w.color[node] = "open")
    BY <2>1, <2>2, ChildParts DEF WalkPath, Degree
  <2>4. w.color[node] \in {"unvisited", "open", "done"}
    BY <2>1, <2>2 DEF Colors
  <2>5. WalkStep(edges, n, w) =
          IF cursor = 0 /\ w.color[node] = "open" THEN [w EXCEPT !.cycle = TRUE]
          ELSE IF cursor = 0 /\ w.color[node] = "done" THEN [w EXCEPT !.stack = Front(stack)]
          ELSE IF cursor = Len(next)
          THEN [w EXCEPT !.color = [color EXCEPT ![node] = "done"], !.stack = Front(stack)]
          ELSE [w EXCEPT !.color = color, !.stack = advanced]
    BY <1>1, <1>3, <1>7, <2>2 DEF WalkStep
  <2>6. CASE cursor = 0 /\ w.color[node] = "open"
    <3>1. ~Acyclic(edges, n)
      BY <1>4, <1>7, <2>6, WalkIsRight
    <3>2. WalkStep(edges, n, w) = [w EXCEPT !.cycle = TRUE]
      BY <2>5, <2>6
    <3>3. WalkStep(edges, n, w) = [start |-> w.start, stack |-> stack, cycle |-> TRUE, color |-> w.color]
      BY <1>1, <3>2, WalkChanges
    <3>4. QED
      BY <3>1, <3>3 DEF WalkInv
  <2>7. CASE cursor = 0 /\ w.color[node] = "done"
    <3>1. WalkOk(edges, n, k + 1, w.start, Front(stack), w.color)
      BY <1>4, <1>7, <2>7, WalkPasses
    <3>2. WalkStep(edges, n, w) = [w EXCEPT !.stack = Front(stack)]
      BY <2>5, <2>7
    <3>3. WalkStep(edges, n, w) = Out(w.start, Front(stack), w.color)
      BY <1>1, <1>3, <3>2, WalkChanges
    <3>. HIDE DEF Out
    <3>4. QED
      BY <1>5, <3>1, <3>3
  <2>8. CASE ~(cursor = 0 /\ w.color[node] \in {"open", "done"})
    <3>1. w.color[node] # "done" /\ (cursor > 0 \/ w.color[node] # "open")
      BY <2>2, <2>3, <2>8
    <3>2. color = [w.color EXCEPT ![node] = "open"]
      <4>1. CASE cursor = 0
        BY <2>4, <2>8, <4>1
      <4>2. CASE cursor # 0
        <5>1. color = w.color /\ w.color[node] = "open"
          BY <2>2, <2>3, <4>2
        <5>2. QED
          BY <2>1, <2>2, <5>1 DEF Colors
      <4>3. QED
        BY <4>1, <4>2
    <3>. HIDE DEF color
    <3>3. CASE cursor = Len(next)
      <4>1. WalkOk(edges, n, k + 1, w.start, Front(stack), [w.color EXCEPT ![node] = "done"])
        BY <1>4, <1>7, <2>3, <3>1, <3>3, WalkFinishes
      <4>2. [color EXCEPT ![node] = "done"] = [w.color EXCEPT ![node] = "done"]
        BY <2>1, <2>2, <3>2 DEF Colors
      <4>3. WalkStep(edges, n, w) =
               [w EXCEPT !.color = [w.color EXCEPT ![node] = "done"], !.stack = Front(stack)]
        BY <2>5, <2>8, <3>3, <4>2
      <4>4. WalkStep(edges, n, w) = Out(w.start, Front(stack), [w.color EXCEPT ![node] = "done"])
        BY <1>1, <1>3, <4>3, WalkChanges
      <4>. HIDE DEF Out
      <4>5. QED
        BY <1>5, <4>1, <4>4
    <3>4. CASE cursor # Len(next)
      <4>1. cursor < Degree(edges, node) /\ child = ChildOf(edges, node, cursor + 1)
        BY <2>2, <2>3, <3>4 DEF ChildOf
      <4>2. advanced = Advanced(stack, <<node, cursor + 1>>, entered)
        BY DEF Advanced
      <4>. HIDE DEF child, entered
      <4>3. entered = IF Enters(color, child) THEN <<<<child, 0>>>> ELSE <<>>
        BY DEF entered
      <4>. HIDE DEF advanced
      <4>6. WalkOk(edges, n, k + 1, w.start, advanced, color)
        <5>. DEFINE c0 == w.color
                    s0 == w.start
        <5>1. /\ WalkOk(edges, n, k, s0, stack, c0) /\ stack # <<>> /\ c0[node] # "done"
              /\ (cursor > 0 \/ c0[node] # "open") /\ color = [c0 EXCEPT ![node] = "open"]
              /\ node = stack[Len(stack)][1] /\ cursor = stack[Len(stack)][2]
          BY <1>4, <1>7, <3>1, <3>2
        <5>. HIDE DEF stack, node, cursor, c0, s0
        <5>2. WalkOk(edges, n, k + 1, s0, Advanced(stack, <<node, cursor + 1>>, entered), color)
          BY <4>1, <4>3, <5>1, WalkEnters
        <5>3. QED
          BY <4>2, <5>2 DEF s0
      <4>7. WalkStep(edges, n, w) = [w EXCEPT !.color = color, !.stack = advanced]
        BY <2>5, <2>8, <3>4
      <4>8. WalkStep(edges, n, w) = Out(w.start, advanced, color)
        BY <1>1, <1>3, <4>7, WalkChanges
      <4>. HIDE DEF Out
      <4>9. QED
        BY <1>5, <4>6, <4>8
    <3>5. QED
      BY <3>3, <3>4
  <2>9. QED
    BY <2>6, <2>7, <2>8
<1>8. QED
  BY <1>6, <1>7

WalkBegun(n) ==
    [start |-> 0, stack |-> <<>>, cycle |-> FALSE, color |-> [v \in 1..n |-> "unvisited"]]

LEMMA WalkBegunRight ==
  ASSUME NEW n, NEW edges, IsGraph(edges, n)
  PROVE  WalkInv(edges, n, 0, WalkBegun(n))
<1>. DEFINE color == [v \in 1..n |-> "unvisited"]
            D == Cardinality(DoneOf(n, color))
            U == Cardinality(UsedSlots(edges, n, <<>>, color))
<1>1. n \in Nat
  BY DEF IsGraph
<1>2. /\ color \in Colors(n) /\ DoneOf(n, color) = {}
      /\ \A v \in 1..n : color[v] # "open" /\ color[v] # "done"
  BY DEF Colors, DoneOf
<1>3. D \in Nat /\ U \in Nat
  BY CountsAreFew
<1>4. <<>> \in Seq(Frame(n)) /\ DOMAIN <<>> = {} /\ Len(<<>>) = 0
  OBVIOUS
<1>5. \A e \in Range(edges) : color[e[1]] # "done"
  BY <1>2, EdgeParts DEF Range
<1>. HIDE DEF color, D, U
<1>6. 0 + 0 <= 2 * 0 + D + U
  BY <1>3
<1>7. WalkPaid(edges, n, 0, 0, <<>>, color)
  BY <1>6 DEF WalkPaid, D, U
<1>8. WalkPath(edges, n, <<>>, color)
  BY <1>2, <1>4 DEF WalkPath
<1>9. WalkLeft(edges, 0, <<>>, color)
  BY <1>4 DEF WalkLeft
<1>10. WalkDone(edges, n, color)
  BY <1>2, <1>5 DEF WalkDone
<1>11. WalkOk(edges, n, 0, 0, <<>>, color)
  BY <1>1, <1>2, <1>4, <1>7, <1>8, <1>9, <1>10 DEF WalkOk
<1>12. WalkBegun(n) = [start |-> 0, stack |-> <<>>, cycle |-> FALSE, color |-> color]
  BY DEF WalkBegun, color
<1>13. QED
  BY <1>11, <1>12 DEF WalkInv

\* The first m turns.
WalkTurns(edges, n, m, turn) ==
    turn = [k \in 0..m |-> IF k = 0 THEN WalkBegun(n) ELSE WalkStep(edges, n, turn[k - 1])]

LEMMA WalkCanTurn ==
  ASSUME NEW n, NEW edges, NEW m \in Nat
  PROVE  \E turn : WalkTurns(edges, n, m, turn)
<1>. DEFINE Bad == {i \in Nat : ~\E turn : WalkTurns(edges, n, i, turn)}
<1>1. SUFFICES ASSUME Bad # {} PROVE FALSE
  OBVIOUS
<1>2. PICK i \in Bad : \A j \in Bad : i <= j
  BY <1>1, LeastNatural
<1>3. CASE i = 0
  <2>. DEFINE turn == [k \in 0..0 |-> WalkBegun(n)]
  <2>1. WalkTurns(edges, n, 0, turn)
    BY DEF WalkTurns
  <2>2. QED
    BY <2>1, <1>2, <1>3
<1>4. CASE i # 0
  <2>1. i \in Nat /\ i - 1 \in Nat /\ ~(i <= i - 1)
    BY <1>4
  <2>2. PICK f : WalkTurns(edges, n, i - 1, f)
    BY <1>2, <2>1
  <2>. DEFINE step(k) == WalkStep(edges, n, k)
              turn == [k \in 0..i |-> IF k = i THEN step(f[i - 1]) ELSE f[k]]
  <2>3. /\ DOMAIN f = 0..(i - 1)
        /\ \A k \in 0..(i - 1) : f[k] = IF k = 0 THEN WalkBegun(n) ELSE step(f[k - 1])
    BY <2>2 DEF WalkTurns
  <2>. HIDE DEF step
  <2>4. \A k \in 0..(i - 1) : turn[k] = f[k]
    BY <2>1
  <2>5. turn[i] = step(f[i - 1])
    BY <2>1
  <2>6. \A k \in 0..i : k \in 0..(i - 1) \/ k = i
    BY <2>1
  <2>7. DOMAIN turn = 0..i
    OBVIOUS
  <2>8. turn = [k \in DOMAIN turn |-> turn[k]]
    OBVIOUS
  <2>. HIDE DEF turn
  <2>9. \A k \in 0..i : turn[k] = IF k = 0 THEN WalkBegun(n) ELSE step(turn[k - 1])
    <3>. TAKE k \in 0..i
    <3>1. CASE k = i
      BY <3>1, <2>1, <2>4, <2>5, <1>4
    <3>2. CASE k \in 0..(i - 1) /\ k = 0
      BY <3>2, <2>3, <2>4
    <3>3. CASE k \in 0..(i - 1) /\ k # 0
      <4>1. k - 1 \in 0..(i - 1)
        BY <3>3, <2>1
      <4>2. QED
        BY <4>1, <3>3, <2>3, <2>4
    <3>4. QED
      BY <3>1, <3>2, <3>3, <2>6
  <2>10. WalkTurns(edges, n, i, turn)
    BY <2>7, <2>8, <2>9 DEF WalkTurns, step
  <2>11. QED
    BY <2>10, <1>2
<1>5. QED
  BY <1>3, <1>4

\* What the walk returns: what it knows after all its turns.
LEMMA WalkEnds ==
  ASSUME NEW n, NEW edges, IsGraph(edges, n)
  PROVE  \E w : WalkInv(edges, n, 3 * n + Len(edges), w) /\ HasCycle(edges, n) = w.cycle
<1>. DEFINE m == 3 * n + Len(edges)
            body(f) == [k \in 0..m |-> IF k = 0 THEN WalkBegun(n) ELSE WalkStep(edges, n, f[k - 1])]
            turn == CHOOSE f : f = body(f)
<1>1. m \in Nat
  BY EdgeParts DEF IsGraph
<1>2. HasCycle(edges, n) = turn[m].cycle
  BY Zenon DEF HasCycle, WalkBegun
<1>. HIDE DEF m
<1>3. turn = body(turn)
  <2>1. \E f : f = body(f)
    <3>1. PICK f : WalkTurns(edges, n, m, f)
      BY <1>1, WalkCanTurn
    <3>2. f = body(f)
      BY <3>1, Zenon DEF WalkTurns
    <3>. HIDE DEF body
    <3>3. QED
      BY <3>2
  <2>2. QED
    BY <2>1, Zenon
<1>. DEFINE Good(k) == WalkInv(edges, n, k, turn[k])
<1>. HIDE DEF turn
<1>4. turn[0] = WalkBegun(n) /\ \A k \in 1..m : turn[k] = WalkStep(edges, n, turn[k - 1])
  BY <1>1, <1>3
<1>5. Good(0)
  BY <1>4, WalkBegunRight
<1>6. ASSUME NEW k \in 1..m, Good(k - 1) PROVE Good(k)
  <2>1. k - 1 \in Nat /\ k - 1 + 1 = k
    BY <1>1
  <2>2. WalkInv(edges, n, k - 1 + 1, WalkStep(edges, n, turn[k - 1]))
    BY <1>6, <2>1, WalkMoves
  <2>3. QED
    BY <1>4, <2>1, <2>2
<1>. HIDE DEF Good
<1>7. \A k \in 0..m : Good(k)
  <2>. SUFFICES ASSUME NEW bad \in 0..m, ~Good(bad) PROVE FALSE
    OBVIOUS
  <2>. DEFINE Bad == {i \in 0..m : ~Good(i)}
  <2>1. Bad \subseteq Nat /\ bad \in Bad
    BY <1>1
  <2>2. PICK i \in Bad : \A j \in Bad : i <= j
    BY <2>1, LeastNatural
  <2>3. i \in 1..m /\ i - 1 \in 0..m /\ ~(i <= i - 1)
    BY <1>1, <1>5, <2>2
  <2>4. Good(i - 1)
    BY <2>2, <2>3
  <2>5. QED
    BY <1>6, <2>2, <2>3, <2>4
<1>8. Good(m)
  BY <1>1, <1>7
<1>9. QED
  BY <1>2, <1>8 DEF Good, m

\* The walk refuses a list of edges exactly when it has a cycle: a cycle it reports is there,
\* and it runs to its end on every other graph (workflow_graph_has_cycle).
THEOREM HasCycleIsRight ==
  ASSUME NEW n, NEW edges, IsGraph(edges, n)
  PROVE  HasCycle(edges, n) <=> ~Acyclic(edges, n)
<1>1. PICK w : WalkInv(edges, n, 3 * n + Len(edges), w) /\ HasCycle(edges, n) = w.cycle
  BY WalkEnds
<1>2. CASE w.cycle
  BY <1>1, <1>2 DEF WalkInv
<1>3. CASE ~w.cycle
  <2>. DEFINE start == w.start
              stack == w.stack
              color == w.color
              D == Cardinality(DoneOf(n, color))
              U == Cardinality(UsedSlots(edges, n, stack, color))
              m == Len(edges)
  <2>1. WalkOk(edges, n, 3 * n + m, start, stack, color)
    BY <1>1, <1>3 DEF WalkInv
  <2>2. n \in Nat /\ m \in Nat
    BY EdgeParts DEF IsGraph
  <2>3. D \in Nat /\ D <= n /\ U \in Nat /\ U <= m
    BY CountsAreFew
  <2>. HIDE DEF start, stack, color, D, U, m
  <2>4. start \in 0..n /\ color \in Colors(n) /\ WalkLeft(edges, start, stack, color)
        /\ WalkDone(edges, n, color) /\ WalkPaid(edges, n, 3 * n + m, start, stack, color)
    BY <2>1 DEF WalkOk
  <2>5. stack = <<>> /\ start = n
    <3>. SUFFICES ASSUME ~(stack = <<>> /\ start = n) PROVE FALSE
      OBVIOUS
    <3>1. 3 * n + m + (IF stack = <<>> THEN 0 ELSE 1) <= 2 * start + D + U
      BY <2>4 DEF WalkPaid, D, U
    <3>2. CASE stack = <<>>
      BY <2>2, <2>3, <2>4, <3>1, <3>2
    <3>3. CASE stack # <<>>
      BY <2>2, <2>3, <2>4, <3>1, <3>3
    <3>4. QED
      BY <3>2, <3>3
  <2>6. DoneOf(n, color) = 1..n
    BY <2>4, <2>5 DEF WalkLeft, DoneOf
  <2>7. Acyclic(edges, n)
    BY <2>4, <2>6 DEF WalkDone, Acyclic
  <2>8. QED
    BY <1>1, <1>3, <2>7
<1>4. QED
  BY <1>2, <1>3

\* The two algorithms agree with each other and with what they are for on every list of edges
\* between positions, of any length (workflow_graph_has_cycle, workflow_run_order).
THEOREM AlgorithmsAreRight ==
  ASSUME NEW n, NEW edges, IsGraph(edges, n)
  PROVE  AlgorithmsAgree(edges, n)
<1>1. HasCycle(edges, n) <=> ~Acyclic(edges, n)
  BY HasCycleIsRight
<1>2. /\ Acyclic(edges, n) => /\ Topological(RunOrder(edges, n), edges, n)
                              /\ LeastFirst(RunOrder(edges, n), edges, n)
      /\ ~Acyclic(edges, n) => Len(RunOrder(edges, n)) < n
  BY RunOrderIsRight
<1>3. QED
  BY <1>1, <1>2 DEF AlgorithmsAgree

\* The list of those of the first m pairs that are in E.
Listed(E, m, list) ==
    list = [i \in 0..m |-> IF i = 0 THEN <<>>
                           ELSE IF Pairs[i] \in E THEN Append(list[i - 1], Pairs[i]) ELSE list[i - 1]]

LEMMA PairsCanBeListed ==
  ASSUME NEW E, NEW m \in Nat
  PROVE  \E list : Listed(E, m, list)
<1>. DEFINE Bad == {i \in Nat : ~\E list : Listed(E, i, list)}
<1>1. SUFFICES ASSUME Bad # {} PROVE FALSE
  OBVIOUS
<1>2. PICK i \in Bad : \A j \in Bad : i <= j
  BY <1>1, LeastNatural
<1>3. CASE i = 0
  <2>. DEFINE list == [k \in 0..0 |-> <<>>]
  <2>1. Listed(E, 0, list)
    BY DEF Listed
  <2>2. QED
    BY <2>1, <1>2, <1>3
<1>4. CASE i # 0
  <2>1. i \in Nat /\ i - 1 \in Nat /\ ~(i <= i - 1)
    BY <1>4
  <2>2. PICK f : Listed(E, i - 1, f)
    BY <1>2, <2>1
  <2>. DEFINE put(k, s) == IF Pairs[k] \in E THEN Append(s, Pairs[k]) ELSE s
              list == [k \in 0..i |-> IF k = i THEN put(i, f[i - 1]) ELSE f[k]]
  <2>3. /\ DOMAIN f = 0..(i - 1)
        /\ \A k \in 0..(i - 1) : f[k] = IF k = 0 THEN <<>> ELSE put(k, f[k - 1])
    BY <2>2 DEF Listed
  <2>. HIDE DEF put
  <2>4. \A k \in 0..(i - 1) : list[k] = f[k]
    BY <2>1
  <2>5. list[i] = put(i, f[i - 1])
    BY <2>1
  <2>6. \A k \in 0..i : k \in 0..(i - 1) \/ k = i
    BY <2>1
  <2>7. DOMAIN list = 0..i
    OBVIOUS
  <2>8. list = [k \in DOMAIN list |-> list[k]]
    OBVIOUS
  <2>. HIDE DEF list
  <2>9. \A k \in 0..i : list[k] = IF k = 0 THEN <<>> ELSE put(k, list[k - 1])
    <3>. TAKE k \in 0..i
    <3>1. CASE k = i
      BY <3>1, <2>1, <2>4, <2>5, <1>4
    <3>2. CASE k \in 0..(i - 1) /\ k = 0
      BY <3>2, <2>3, <2>4
    <3>3. CASE k \in 0..(i - 1) /\ k # 0
      <4>1. k - 1 \in 0..(i - 1)
        BY <3>3, <2>1
      <4>2. QED
        BY <4>1, <3>3, <2>3, <2>4
    <3>4. QED
      BY <3>1, <3>2, <3>3, <2>6
  <2>10. Listed(E, i, list)
    BY <2>7, <2>8, <2>9 DEF Listed, put
  <2>11. QED
    BY <2>10, <1>2
<1>5. QED
  BY <1>3, <1>4

LEMMA GraphIsGraph ==
  ASSUME NEW n \in Nat, NEW E \in SUBSET Within(n)
  PROVE  IsGraph(Graph(E), n)
<1>. DEFINE N == Len(Pairs)
            P == (1..n) \X (1..n)
            put(i, s) == IF Pairs[i] \in E THEN Append(s, Pairs[i]) ELSE s
            body(f) == [i \in 0..N |-> IF i = 0 THEN <<>> ELSE put(i, f[i - 1])]
            list == CHOOSE f : f = body(f)
<1>1. N \in Nat /\ N = 12
  BY DEF Pairs
<1>2. \A i \in 1..12 : Pairs[i] \in (1..4) \X (1..4)
  BY DEF Pairs
<1>3. DOMAIN Pairs = 1..12
  BY DEF Pairs
<1>4. \A e \in Within(n) : e \in P
  <2>. SUFFICES ASSUME NEW e \in Within(n) PROVE e \in P
    OBVIOUS
  <2>1. PICK i \in 1..12 : e = Pairs[i]
    BY <1>3 DEF Within, Range
  <2>2. e \in (1..4) \X (1..4) /\ e[1] <= n /\ e[2] <= n
    BY <1>2, <2>1 DEF Within
  <2>3. QED
    BY <2>2
<1>5. Graph(E) = list[N]
  BY Zenon DEF Graph
<1>6. list = body(list)
  <2>1. \E f : f = body(f)
    <3>1. PICK f : Listed(E, N, f)
      BY <1>1, PairsCanBeListed
    <3>2. f = body(f)
      BY <3>1, Zenon DEF Listed
    <3>. HIDE DEF body
    <3>3. QED
      BY <3>2
  <2>2. QED
    BY <2>1, Zenon
<1>. HIDE DEF list, N, P
<1>7. list[0] = <<>> /\ \A i \in 1..N : list[i] = put(i, list[i - 1])
  <2>. HIDE DEF put
  <2>1. QED
    BY <1>1, <1>6
<1>8. \A i \in 0..N : list[i] \in Seq(P)
  <2>. SUFFICES ASSUME NEW bad \in 0..N, list[bad] \notin Seq(P) PROVE FALSE
    OBVIOUS
  <2>. DEFINE Bad == {i \in 0..N : list[i] \notin Seq(P)}
  <2>1. Bad \subseteq Nat /\ bad \in Bad
    BY <1>1
  <2>2. PICK i \in Bad : \A j \in Bad : i <= j
    BY <2>1, LeastNatural
  <2>9. i # 0
    <3>1. <<>> \in Seq(P)
      OBVIOUS
    <3>2. list[0] \in Seq(P) /\ list[i] \notin Seq(P)
      BY <1>7, <2>2, <3>1
    <3>. HIDE DEF Bad
    <3>3. QED
      BY <3>2
  <2>. HIDE DEF put
  <2>3. i \in 1..N /\ i - 1 \in 0..N /\ ~(i <= i - 1)
    <3>1. i \in 0..N /\ N \in Nat
      BY <1>1, <2>2
    <3>. HIDE DEF Bad
    <3>2. QED
      BY <2>9, <3>1
  <2>4. list[i - 1] \in Seq(P)
    BY <2>2, <2>3
  <2>5. list[i] = put(i, list[i - 1])
    BY <1>7, <2>3
  <2>6. Pairs[i] \in E => Pairs[i] \in P
    BY <1>4
  <2>7. list[i] \in Seq(P)
    BY <2>4, <2>5, <2>6 DEF put
  <2>8. QED
    BY <2>2, <2>7
<1>9. list[N] \in Seq(P)
  BY <1>1, <1>8
<1>10. QED
  BY <1>5, <1>9 DEF IsGraph, P

\* So they do on the graphs the runs evaluate them on.
THEOREM GraphsAlwaysAgree == WorkflowSpec => []GraphsAgree
<1>1. \A n \in 0..4 : \A E \in SUBSET Within(n) : AlgorithmsAgree(Graph(E), n)
  <2>. SUFFICES ASSUME NEW n \in 0..4, NEW E \in SUBSET Within(n) PROVE AlgorithmsAgree(Graph(E), n)
    OBVIOUS
  <2>1. IsGraph(Graph(E), n)
    BY GraphIsGraph
  <2>2. QED
    BY <2>1, AlgorithmsAreRight
<1>2. GraphsAgree
  BY <1>1, Zenon DEF GraphsAgree
<1>3. QED
  BY <1>2, PTL DEF WorkflowSpec
=============================================================================
