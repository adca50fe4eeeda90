-------------------------- MODULE StartGates_proofs --------------------------
(***************************************************************************)
(* Theorems about StartGates: its types, that starts checked against a     *)
(* quota exceed it by a bounded number, and that a request which passes    *)
(* its dependencies saw each of them running.                              *)
(***************************************************************************)
EXTENDS StartGates, FiniteSetTheorems, TLAPS

-----------------------------------------------------------------------------
(* Types. *)

LEMMA InitType == Init => TypeOK
  BY EditsAssumption DEF Init, TypeOK, Statuses, Idle

LEMMA StartType ==
  ASSUME TypeOK, NEW c \in Starter, Start(c)
  PROVE  TypeOK'
<1> USE DEF TypeOK
<1>1. ASSUME NEW kind \in Kinds \ {"register"}, NEW k \in Task, Begin(c, kind, k)
      PROVE  TypeOK'
  <2>1. {q \in InForce : k \in InScope(q.scope)} \subseteq Quota
    BY <1>1 DEF InForce
  <2>2. req'[c] \in Request
    BY <1>1, <2>1 DEF Begin, Request
  <2>3. req' = [req EXCEPT ![c] = req'[c]]
    BY <1>1 DEF Begin
  <2>4. UNCHANGED <<status, quotas, dependencies, edit, edits, passed, unmet>>
    BY <1>1 DEF Begin, UnchangedByGates
  <2>5. QED
    BY <2>2, <2>3, <2>4
<1>2. CASE Count(c)
  <2>1. req[c] \in Request
    BY <1>2 DEF Count, Idle
  <2>2. req'[c] \in Request \cup {Idle}
    BY <1>2, <2>1 DEF Count, Request
  <2>3. req' = [req EXCEPT ![c] = req'[c]]
    BY <1>2 DEF Count
  <2>4. UNCHANGED <<status, quotas, dependencies, edit, edits, passed, unmet>>
    BY <1>2 DEF Count, UnchangedByGates
  <2>5. QED
    BY <2>2, <2>3, <2>4
<1>3. CASE ReadDependencies(c)
  <2>1. req[c] \in Request
    BY <1>3 DEF ReadDependencies, Idle
  <2>2. req'[c] \in Request
    BY <1>3, <2>1 DEF ReadDependencies, Request
  <2>3. req' = [req EXCEPT ![c] = req'[c]]
    BY <1>3 DEF ReadDependencies
  <2>4. unmet' \in [Starter -> SUBSET Task]
    BY <1>3 DEF ReadDependencies
  <2>5. UNCHANGED <<status, quotas, dependencies, edit, edits, passed>>
    BY <1>3 DEF ReadDependencies, UnchangedByGates
  <2>6. QED
    BY <2>2, <2>3, <2>4, <2>5
<1>4. CASE CheckDependency(c)
  <2>1. req[c] \in Request
    BY <1>4 DEF CheckDependency, Idle
  <2>2. req' \in [Starter -> Request \cup {Idle}]
    BY <1>4, <2>1 DEF CheckDependency, Request
  <2>4. unmet' \in [Starter -> SUBSET Task]
    BY <1>4 DEF CheckDependency, Meet
  <2>5. UNCHANGED <<status, quotas, dependencies, edit, edits, passed>>
    BY <1>4 DEF CheckDependency, UnchangedByGates
  <2>6. QED
    BY <2>2, <2>4, <2>5
<1>5. CASE Apply(c)
  <2>1. req[c] \in Request
    BY <1>5 DEF Apply, Ready, Idle
  <2>2. req' \in [Starter -> Request \cup {Idle}]
    BY <1>5 DEF Apply
  <2>0. req[c].limits \subseteq Quota
    BY <2>1 DEF Request
  <2>3. status' \in [Task -> Statuses]
    BY <1>5 DEF Apply, Statuses
  <2>4. passed' \in [Task -> SUBSET Quota]
    BY <1>5, <2>0 DEF Apply
  <2>5. unmet' \in [Starter -> SUBSET Task]
    BY <1>5 DEF Apply, Meet
  <2>6. UNCHANGED <<quotas, dependencies, edit, edits>>
    BY <1>5 DEF Apply
  <2>7. QED
    BY <2>2, <2>3, <2>4, <2>5, <2>6
<1>6. QED
  BY <1>1, <1>2, <1>3, <1>4, <1>5 DEF Start

LEMMA TaskType ==
  ASSUME TypeOK,
         \/ \E s \in Session : AutoStart(s)
         \/ \E k \in Task : Ends(k) \/ Pause(k) \/ Resume(k)
  PROVE  TypeOK'
<1>1. CASE \E s \in Session : AutoStart(s)
  BY <1>1 DEF TypeOK, AutoStart, Statuses
<1>2. CASE \E k \in Task : Ends(k) \/ Pause(k) \/ Resume(k)
  BY <1>2 DEF TypeOK, Ends, Pause, Resume, Statuses
<1>3. QED
  BY <1>1, <1>2

LEMMA EditType ==
  ASSUME TypeOK, NEW e \in Editor, Edits(e)
  PROVE  TypeOK'
<1> USE EditsAssumption DEF TypeOK, UnchangedByEdits
<1>1. ASSUME NEW q \in Quota, CreateQuota(e, q)
      PROVE  TypeOK'
  BY <1>1 DEF CreateQuota, Editing, Edit
<1>2. CASE InsertQuota(e)
  BY <1>2 DEF InsertQuota, Edit, Idle
<1>3. ASSUME NEW i \in QuotaId, NEW q \in Quota, UpdateQuota(e, i, q)
      PROVE  TypeOK'
  BY <1>3 DEF UpdateQuota, Editing
<1>4. ASSUME NEW i \in QuotaId, DeleteQuota(e, i)
      PROVE  TypeOK'
  BY <1>4 DEF DeleteQuota, Editing
<1>5. ASSUME NEW edge \in Edge, CreateDependency(e, edge)
      PROVE  TypeOK'
  BY <1>5 DEF CreateDependency, Editing, Edit
<1>6. CASE InsertDependency(e)
  BY <1>6 DEF InsertDependency, Edit, Idle
<1>7. ASSUME NEW edge \in Edge, DeleteDependency(e, edge)
      PROVE  TypeOK'
  BY <1>7 DEF DeleteDependency, Editing
<1>8. QED
  BY <1>1, <1>2, <1>3, <1>4, <1>5, <1>6, <1>7 DEF Edits

\* Every variable of the gates keeps its type.
THEOREM GatesTypeCorrect == Spec => []TypeOK
<1>1. TypeOK /\ [Next]_vars => TypeOK'
  <2> SUFFICES ASSUME TypeOK, [Next]_vars PROVE TypeOK'
    OBVIOUS
  <2>1. CASE UNCHANGED vars
    BY <2>1 DEF vars, TypeOK
  <2>2. CASE Next
    BY <2>2, StartType, TaskType, EditType DEF Next
  <2>3. QED
    BY <2>1, <2>2
<1>2. QED
  BY InitType, <1>1, PTL DEF Spec
-----------------------------------------------------------------------------
(* Dependencies. *)

LEMMA RequestTarget ==
  ASSUME NEW c \in Starter, req[c] \in Request
  PROVE  Target(c) \subseteq Task
  BY DEF Target, Request, InScope

LEMMA UnmetInit == Init => UnmetIsWaiting
  BY DEF Init, UnmetIsWaiting, Idle

LEMMA UnmetStart ==
  ASSUME TypeOK, UnmetIsWaiting, NEW c \in Starter, Start(c)
  PROVE  UnmetIsWaiting'
<1> USE DEF TypeOK, UnmetIsWaiting
<1>1. ASSUME NEW kind \in Kinds \ {"register"}, NEW k \in Task, Begin(c, kind, k)
      PROVE  UnmetIsWaiting'
  BY <1>1 DEF Begin, UnchangedByGates, Idle
<1>2. CASE Count(c)
  BY <1>2 DEF Count, UnchangedByGates, Idle, Request
<1>3. CASE ReadDependencies(c)
  BY <1>3 DEF ReadDependencies, UnchangedByGates, Running, Idle, Request
<1>4. CASE CheckDependency(c)
  <2>1. PICK d \in req[c].waiting :
            req' = IF Satisfied(d) THEN [req EXCEPT ![c].waiting = @ \ {d}]
                                   ELSE [req EXCEPT ![c] = Idle]
    BY <1>4 DEF CheckDependency
  <2>2. /\ req[c].pc = "depends" /\ status' = status
        /\ unmet' = [b \in Starter |-> IF req'[b] = Idle THEN {} ELSE unmet[b] \ {}]
    BY <1>4 DEF CheckDependency, Meet, UnchangedByGates
  <2>3. Satisfied(d) => d \notin unmet[c]
    BY <2>2 DEF Satisfied
  <2>4. req[c] \in Request
    BY <2>2 DEF Idle
  <2>5. CASE Satisfied(d)
    BY <2>1, <2>2, <2>3, <2>4, <2>5 DEF Request, Idle
  <2>6. CASE ~Satisfied(d)
    BY <2>1, <2>2, <2>6 DEF Idle
  <2>7. QED
    BY <2>5, <2>6
<1>5. CASE Apply(c)
  <2>0. req[c] \in Request
    BY <1>5 DEF Apply, Ready, Idle
  <2>4. Target(c) \subseteq Task
    BY <2>0, RequestTarget
  <2>5. PICK up \in SUBSET Target(c) :
          /\ status' = [k \in Task |-> IF k \in up THEN "running"
                                       ELSE IF k \in Stopped(c) THEN "down" ELSE status[k]]
          /\ Meet(up)
    BY <1>5 DEF Apply
  <2>1. /\ \A k \in Task : status'[k] = "running" => k \in up \/ status[k] = "running"
        /\ unmet' = [b \in Starter |-> IF req'[b] = Idle THEN {} ELSE unmet[b] \ up]
    BY <2>5 DEF Meet
  <2>2. req' = [req EXCEPT ![c] = Idle]
    BY <1>5 DEF Apply
  <2>3. QED
    BY <2>1, <2>2, <2>4 DEF Idle
<1>6. QED
  BY <1>1, <1>2, <1>3, <1>4, <1>5 DEF Start

LEMMA UnmetTask ==
  ASSUME TypeOK, UnmetIsWaiting,
         \/ \E s \in Session : AutoStart(s)
         \/ \E k \in Task : Ends(k) \/ Pause(k) \/ Resume(k)
  PROVE  UnmetIsWaiting'
<1> USE DEF TypeOK, UnmetIsWaiting
<1>1. CASE \E s \in Session : AutoStart(s)
  BY <1>1 DEF AutoStart
<1>2. CASE \E k \in Task : Ends(k) \/ Pause(k) \/ Resume(k)
  BY <1>2 DEF Ends, Pause, Resume
<1>3. QED
  BY <1>1, <1>2

LEMMA EditsLeave ==
  ASSUME NEW e \in Editor, Edits(e)
  PROVE  UNCHANGED <<status, req, passed, unmet>>
  BY DEF Edits, CreateQuota, InsertQuota, UpdateQuota, DeleteQuota, CreateDependency,
         InsertDependency, DeleteDependency, UnchangedByEdits

LEMMA UnmetStep == TypeOK /\ UnmetIsWaiting /\ [Next]_vars => UnmetIsWaiting'
<1> SUFFICES ASSUME TypeOK, UnmetIsWaiting, [Next]_vars PROVE UnmetIsWaiting'
  OBVIOUS
<1>1. CASE UNCHANGED <<status, req, passed, unmet>>
  BY <1>1 DEF UnmetIsWaiting
<1>2. CASE Next
  BY <1>1, <1>2, UnmetStart, UnmetTask, EditsLeave DEF Next
<1>3. CASE UNCHANGED vars
  BY <1>1, <1>3 DEF vars
<1>4. QED
  BY <1>2, <1>3

\* A request that got past its dependencies saw each of them running since it read the
\* list (check_dependencies, gates.rs).
THEOREM DependenciesAreSeen == Spec => []DependenciesWereSeen
<1>1. TypeOK /\ UnmetIsWaiting => DependenciesWereSeen
  BY DEF UnmetIsWaiting, DependenciesWereSeen, Ready
<1>2. QED
  BY GatesTypeCorrect, UnmetInit, UnmetStep, <1>1, PTL DEF Spec
-----------------------------------------------------------------------------
(* Quotas. *)

LEMMA FiniteSets ==
  ASSUME NEW q
  PROVE  /\ IsFiniteSet(Governed(q)) /\ Cardinality(Governed(q)) \in Nat
         /\ IsFiniteSet(InFlight(q)) /\ Cardinality(InFlight(q)) \in Nat
         /\ Cardinality(InFlight(q)) <= Cardinality(Starter)
         /\ Cardinality(Starter) \in Nat
<1>1. Governed(q) \subseteq Task /\ InFlight(q) \subseteq Starter
  BY DEF Governed, InFlight, InScope
<1>2. QED
  BY <1>1, FiniteAssumption, FS_Subset, FS_CardinalityType

\* With no more governed tasks and no more requests in flight, the count stays below.
LEMMA Fewer ==
  ASSUME CountedBelow,
         \A q \in Quota : Governed(q)' \subseteq Governed(q) /\ InFlight(q)' \subseteq InFlight(q)
  PROVE  CountedBelow'
<1>1. SUFFICES ASSUME NEW q \in Quota
               PROVE  Cardinality(Governed(q)') + Cardinality(InFlight(q)')
                        <= q.limit - 1 + Cardinality(Starter)
  BY DEF CountedBelow
<1>2. /\ Cardinality(Governed(q)') <= Cardinality(Governed(q))
      /\ Cardinality(Governed(q)') \in Nat
      /\ Cardinality(InFlight(q)') <= Cardinality(InFlight(q))
      /\ Cardinality(InFlight(q)') \in Nat
  BY FiniteSets, FS_Subset, FS_CardinalityType
<1>3. q.limit \in Nat
  BY QuotaAssumption
<1>4. QED
  BY <1>2, <1>3, FiniteSets DEF CountedBelow

\* A request that has just counted found fewer active tasks than the limit.
LEMMA CountBelow ==
  ASSUME TypeOK, GovernedAreActive, CountedBelow, NEW c \in Starter, Count(c)
  PROVE  CountedBelow'
<1>1. SUFFICES ASSUME NEW q \in Quota
               PROVE  Cardinality(Governed(q)') + Cardinality(InFlight(q)')
                        <= q.limit - 1 + Cardinality(Starter)
  BY DEF CountedBelow
<1>2. UNCHANGED <<status, passed>>
  BY DEF Count, UnchangedByGates
<1>3. Governed(q)' = Governed(q)
  BY <1>2 DEF Governed, InScope
<1>4. req[c] \in Request
  BY DEF TypeOK, Count, Idle
<1>5. CASE c \in InFlight(q)'
  <2>1. PICK p \in req[c].limits : p.scope = q.scope /\ p.limit <= q.limit /\ ~Reached(p)
    BY <1>4, <1>5 DEF Count, InFlight, TypeOK, Request, Idle
  <2>2. p \in Quota
    BY <1>4, <2>1 DEF Request
  <2>3. p.limit \in Nat /\ q.limit \in Nat
    BY <2>2, QuotaAssumption
  <2>4. Governed(q) \subseteq Active \cap InScope(p.scope)
    BY <2>1 DEF GovernedAreActive, Governed, Active, InScope
  <2>5. IsFiniteSet(Active \cap InScope(p.scope))
    BY FiniteAssumption, FS_Subset DEF InScope
  <2>6. /\ Cardinality(Governed(q)) <= Cardinality(Active \cap InScope(p.scope))
        /\ Cardinality(Active \cap InScope(p.scope)) \in Nat
    BY <2>4, <2>5, FS_Subset, FS_CardinalityType
  <2>7. Cardinality(Active \cap InScope(p.scope)) < p.limit
    BY <2>1, <2>3, <2>6 DEF Reached
  <2>8. InFlight(q)' \subseteq Starter
    BY DEF InFlight
  <2>9. /\ Cardinality(InFlight(q)') <= Cardinality(Starter)
        /\ Cardinality(InFlight(q)') \in Nat /\ Cardinality(Starter) \in Nat
    BY <2>8, FiniteAssumption, FS_Subset, FS_CardinalityType
  <2>10. QED
    BY <1>3, <2>1, <2>3, <2>6, <2>7, <2>9, FiniteSets
<1>6. CASE c \notin InFlight(q)'
  <2>1. \A b \in Starter \ {c} : req'[b] = req[b]
    BY DEF Count, TypeOK
  <2>2. InFlight(q)' \subseteq InFlight(q)
    BY <1>6, <2>1 DEF InFlight
  <2>3. /\ Cardinality(InFlight(q)') <= Cardinality(InFlight(q))
        /\ Cardinality(InFlight(q)') \in Nat
    BY <2>2, FiniteSets, FS_Subset, FS_CardinalityType
  <2>4. q.limit \in Nat
    BY QuotaAssumption
  <2>5. QED
    BY <1>3, <2>3, <2>4, FiniteSets DEF CountedBelow
<1>7. QED
  BY <1>5, <1>6

\* A start turns one request in flight into one governed task.
LEMMA ApplyBelow ==
  ASSUME TypeOK, CountedBelow, NEW c \in Starter, Apply(c)
  PROVE  CountedBelow'
<1>1. SUFFICES ASSUME NEW q \in Quota
               PROVE  Cardinality(Governed(q)') + Cardinality(InFlight(q)')
                        <= q.limit - 1 + Cardinality(Starter)
  BY DEF CountedBelow
<1>2. req[c] \in Request /\ req[c].pc # "count"
  BY DEF TypeOK, Apply, Ready, Idle
<1>3. PICK up \in SUBSET Target(c) :
         passed' = [k \in Task |-> IF k \in up /\ req[c].kind \in SingleKinds
                                   THEN req[c].limits
                                   ELSE IF k \in up \cup Stopped(c) THEN {} ELSE passed[k]]
  BY DEF Apply
<1>4. InFlight(q)' = InFlight(q) \ {c}
  BY <1>2 DEF Apply, InFlight, TypeOK
<1>5. q.limit \in Nat
  BY QuotaAssumption
<1>6. CASE c \in InFlight(q)
  <2>1. Target(c) = {req[c].key}
    BY <1>6 DEF InFlight, Target
  <2>2. Governed(q)' \subseteq Governed(q) \cup {req[c].key}
    BY <1>3, <2>1 DEF Governed, InScope
  <2>3. /\ Cardinality(Governed(q) \cup {req[c].key}) <= Cardinality(Governed(q)) + 1
        /\ Cardinality(Governed(q) \cup {req[c].key}) \in Nat
        /\ IsFiniteSet(Governed(q) \cup {req[c].key})
    <3>1. IsFiniteSet(Governed(q)) /\ Cardinality(Governed(q)) \in Nat
      BY FiniteSets, FS_CardinalityType
    <3>2. /\ IsFiniteSet(Governed(q) \cup {req[c].key})
          /\ \/ Cardinality(Governed(q) \cup {req[c].key}) = Cardinality(Governed(q))
             \/ Cardinality(Governed(q) \cup {req[c].key}) = Cardinality(Governed(q)) + 1
      BY <3>1, FS_AddElement
    <3>3. QED
      BY <3>1, <3>2
  <2>4. /\ Cardinality(Governed(q)') <= Cardinality(Governed(q) \cup {req[c].key})
        /\ Cardinality(Governed(q)') \in Nat
    BY <2>2, <2>3, FS_Subset, FS_CardinalityType
  <2>5. Cardinality(InFlight(q)') = Cardinality(InFlight(q)) - 1
    BY <1>4, <1>6, FiniteSets, FS_RemoveElement
  <2>6. QED
    BY <1>5, <2>3, <2>4, <2>5, FiniteSets DEF CountedBelow
<1>7. CASE c \notin InFlight(q)
  <2>1. req[c].kind \in SingleKinds =>
            ~ \E p \in req[c].limits : p.scope = q.scope /\ p.limit <= q.limit
    BY <1>2, <1>7 DEF InFlight, Idle, Request
  <2>2. Governed(q)' \subseteq Governed(q)
    BY <1>3, <2>1 DEF Governed, InScope
  <2>3. /\ Cardinality(Governed(q)') <= Cardinality(Governed(q))
        /\ Cardinality(Governed(q)') \in Nat
    BY <2>2, FiniteSets, FS_Subset, FS_CardinalityType
  <2>4. InFlight(q)' = InFlight(q)
    BY <1>4, <1>7
  <2>5. QED
    BY <1>5, <2>3, <2>4, FiniteSets DEF CountedBelow
<1>8. QED
  BY <1>6, <1>7

LEMMA BelowInit == Init => GovernedAreActive /\ CountedBelow
<1> SUFFICES ASSUME Init PROVE GovernedAreActive /\ CountedBelow
  OBVIOUS
<1>1. GovernedAreActive
  BY DEF Init, GovernedAreActive
<1>2. ASSUME NEW q \in Quota
      PROVE  Cardinality(Governed(q)) + Cardinality(InFlight(q))
               <= q.limit - 1 + Cardinality(Starter)
  <2>1. Governed(q) = {} /\ InFlight(q) = {}
    BY DEF Init, Governed, InFlight, InScope
  <2>2. q.limit \in Nat \ {0}
    BY QuotaAssumption
  <2>3. QED
    BY <2>1, <2>2, FiniteSets, FS_EmptySet
<1>3. QED
  BY <1>1, <1>2 DEF CountedBelow

LEMMA BelowStart ==
  ASSUME TypeOK, GovernedAreActive, CountedBelow, NEW c \in Starter, Start(c)
  PROVE  GovernedAreActive' /\ CountedBelow'
<1>1. CASE UNCHANGED <<status, passed>> /\ \A q \in Quota : InFlight(q)' \subseteq InFlight(q)
  <2>1. \A q \in Quota : Governed(q)' \subseteq Governed(q)
    BY <1>1 DEF Governed, InScope
  <2>2. QED
    BY <1>1, <2>1, Fewer DEF GovernedAreActive
<1>2. ASSUME NEW kind \in Kinds \ {"register"}, NEW k \in Task, Begin(c, kind, k)
      PROVE  GovernedAreActive' /\ CountedBelow'
  BY <1>1, <1>2 DEF Begin, UnchangedByGates, InFlight, TypeOK
<1>3. CASE Count(c)
  BY <1>3, CountBelow DEF Count, UnchangedByGates, GovernedAreActive
<1>4. CASE ReadDependencies(c)
  <2>1. PICK needs : req' = [req EXCEPT ![c].pc = "depends", ![c].waiting = needs]
    BY <1>4 DEF ReadDependencies
  <2>2. req[c] \in Request /\ req[c].pc = "read"
    BY <1>4 DEF ReadDependencies, TypeOK, Idle
  <2>3. /\ \A b \in Starter \ {c} : req'[b] = req[b]
        /\ req'[c].kind = req[c].kind /\ req'[c].limits = req[c].limits
    BY <2>1, <2>2 DEF TypeOK, Request
  <2>4. req[c] # Idle /\ req[c].pc # "count"
    BY <2>2 DEF Idle
  <2>5. \A q \in Quota : InFlight(q)' \subseteq InFlight(q)
    BY <2>3, <2>4 DEF InFlight
  <2>6. QED
    BY <1>1, <1>4, <2>5 DEF ReadDependencies, UnchangedByGates
<1>5. CASE CheckDependency(c)
  <2>1. PICK d \in req[c].waiting :
            req' = IF Satisfied(d) THEN [req EXCEPT ![c].waiting = @ \ {d}]
                                   ELSE [req EXCEPT ![c] = Idle]
    BY <1>5 DEF CheckDependency
  <2>2. req[c] \in Request /\ req[c].pc = "depends"
    BY <1>5 DEF CheckDependency, TypeOK, Idle
  <2>3. /\ \A b \in Starter \ {c} : req'[b] = req[b]
        /\ \/ req'[c] = Idle
           \/ req'[c].kind = req[c].kind /\ req'[c].limits = req[c].limits
    BY <2>1, <2>2 DEF TypeOK, Request
  <2>4. req[c] # Idle /\ req[c].pc # "count"
    BY <2>2 DEF Idle
  <2>5. \A q \in Quota : InFlight(q)' \subseteq InFlight(q)
    BY <2>3, <2>4 DEF InFlight
  <2>6. QED
    BY <1>1, <1>5, <2>5 DEF CheckDependency, UnchangedByGates
<1>6. CASE Apply(c)
  <2>1. GovernedAreActive'
    BY <1>6 DEF Apply, GovernedAreActive, TypeOK
  <2>2. QED
    BY <1>6, <2>1, ApplyBelow
<1>7. QED
  BY <1>2, <1>3, <1>4, <1>5, <1>6 DEF Start

LEMMA BelowTask ==
  ASSUME TypeOK, GovernedAreActive, CountedBelow,
         \/ \E s \in Session : AutoStart(s)
         \/ \E k \in Task : Ends(k) \/ Pause(k) \/ Resume(k)
  PROVE  GovernedAreActive' /\ CountedBelow'
<1>1. UNCHANGED req /\ \A k \in Task : passed'[k] \subseteq passed[k]
  BY DEF TypeOK, AutoStart, Ends, Pause, Resume
<1>2. GovernedAreActive'
  BY DEF TypeOK, AutoStart, Ends, Pause, Resume, GovernedAreActive
<1>3. \A q \in Quota : Governed(q)' \subseteq Governed(q) /\ InFlight(q)' \subseteq InFlight(q)
  BY <1>1 DEF Governed, InFlight, InScope
<1>4. QED
  BY <1>2, <1>3, Fewer

LEMMA BelowStep ==
  TypeOK /\ GovernedAreActive /\ CountedBelow /\ [Next]_vars => GovernedAreActive' /\ CountedBelow'
<1> SUFFICES ASSUME TypeOK, GovernedAreActive, CountedBelow, [Next]_vars
             PROVE  GovernedAreActive' /\ CountedBelow'
  OBVIOUS
<1>1. CASE UNCHANGED <<status, req, passed, unmet>>
  <2>1. \A q \in Quota : Governed(q)' \subseteq Governed(q) /\ InFlight(q)' \subseteq InFlight(q)
    BY <1>1 DEF Governed, InFlight, InScope
  <2>2. QED
    BY <1>1, <2>1, Fewer DEF GovernedAreActive
<1>2. CASE Next
  BY <1>1, <1>2, BelowStart, BelowTask, EditsLeave DEF Next
<1>3. CASE UNCHANGED vars
  BY <1>1, <1>3 DEF vars
<1>4. QED
  BY <1>2, <1>3

\* Starts checked against a quota exceed it by less than the number of threads that start
\* tasks, however the checks and the starts interleave.
THEOREM OvershootBounded == Spec => []OvershootIsBounded
<1>1. CountedBelow => OvershootIsBounded
  <2> SUFFICES ASSUME CountedBelow, NEW q \in Quota
               PROVE  Cardinality(Governed(q)) <= q.limit - 1 + Cardinality(Starter)
    BY DEF OvershootIsBounded
  <2>1. q.limit \in Nat
    BY QuotaAssumption
  <2>2. QED
    BY <2>1, FiniteSets DEF CountedBelow
<1>2. QED
  BY GatesTypeCorrect, BelowInit, BelowStep, <1>1, PTL DEF Spec
=============================================================================
