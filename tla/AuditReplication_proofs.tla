----------------------- MODULE AuditReplication_proofs -----------------------
(***************************************************************************)
(* Theorems about AuditReplication: its types, the leader's one connection *)
(* per worker, what retention keeps, and that it implements ReplicatedLog. *)
(***************************************************************************)
EXTENDS AuditReplication, AgentConnection_proofs, FiniteSetTheorems

-----------------------------------------------------------------------------
(* Counting. *)

LEMMA CountGrows ==
  ASSUME NEW S, NEW T \in SUBSET Record, S \subseteq T, NEW r
  PROVE  /\ Newer(r, S) \in Nat /\ Newer(r, T) \in Nat /\ Newer(r, S) <= Newer(r, T)
         /\ Older(r, S) \in Nat /\ Older(r, T) \in Nat /\ Older(r, S) <= Older(r, T)
<1>1. /\ {x \in T : x > r} \subseteq Record /\ {x \in S : x > r} \subseteq {x \in T : x > r}
      /\ {x \in T : x < r} \subseteq Record /\ {x \in S : x < r} \subseteq {x \in T : x < r}
  OBVIOUS
<1>2. /\ IsFiniteSet({x \in T : x > r}) /\ IsFiniteSet({x \in T : x < r})
  BY <1>1, RecordAssumption, FS_Subset
<1>3. /\ IsFiniteSet({x \in S : x > r}) /\ IsFiniteSet({x \in S : x < r})
      /\ Cardinality({x \in S : x > r}) <= Cardinality({x \in T : x > r})
      /\ Cardinality({x \in S : x < r}) <= Cardinality({x \in T : x < r})
  BY <1>1, <1>2, FS_Subset
<1>4. QED
  BY <1>2, <1>3, FS_CardinalityType DEF Newer, Older

\* A set from which pruning takes something is larger than both limits together.
LEMMA BacklogIsFull ==
  ASSUME NEW S \in SUBSET Record, NEW r \in S, r \notin KeptPending(S)
  PROVE  Cardinality(S) > Queue + Display
<1> DEFINE O == {x \in S : x < r}
           N == {x \in S : x > r}
<1>1. IsFiniteSet(S) /\ IsFiniteSet(O) /\ IsFiniteSet(N)
  BY RecordAssumption, FS_Subset
<1>2. /\ Cardinality(S) \in Nat /\ Cardinality(O) \in Nat /\ Cardinality(N) \in Nat
      /\ Queue \in Nat /\ Display \in Nat
  BY <1>1, FS_CardinalityType, LimitsAssumption
<1>3. Cardinality(O) >= Queue /\ Cardinality(N) >= Display
  BY <1>2 DEF KeptPending, Older, Newer
<1>4. O \cap N = {} /\ r \notin O \cup N /\ (O \cup N) \cup {r} \subseteq S
  <2>1. \A x \in S : x \in Nat
    BY RecordAssumption
  <2>2. \A x \in S : ~(x < r /\ x > r)
    BY <2>1
  <2>3. ~(r < r) /\ ~(r > r)
    BY <2>1
  <2>4. QED
    BY <2>2, <2>3
<1>5. /\ IsFiniteSet(O \cup N)
      /\ Cardinality(O \cup N) = Cardinality(O) + Cardinality(N)
  <2>1. Cardinality(O \cup N) = Cardinality(O) + Cardinality(N) - Cardinality(O \cap N)
    BY <1>1, FS_Union
  <2>2. Cardinality(O \cap N) = 0
    BY <1>4, FS_EmptySet
  <2>3. QED
    BY <1>1, <1>2, <2>1, <2>2, FS_Union
<1>6. /\ IsFiniteSet((O \cup N) \cup {r})
      /\ Cardinality((O \cup N) \cup {r}) = Cardinality(O \cup N) + 1
  BY <1>4, <1>5, FS_AddElement
<1>7. Cardinality((O \cup N) \cup {r}) <= Cardinality(S)
  BY <1>1, <1>4, FS_Subset
<1>8. QED
  BY <1>2, <1>3, <1>5, <1>6, <1>7

\* Pruning changes pending and replicated rows only, and leaves nothing to prune.
LEMMA PruneStatus ==
  ASSUME NEW l \in [Mine -> Statuses]
  PROVE  /\ Prune(l) \in [Mine -> Statuses]
         /\ InStatus(Prune(l), "pending") = KeptPending(InStatus(l, "pending"))
         /\ InStatus(Prune(l), "replicated") = Newest(InStatus(l, "replicated"))
         /\ InStatus(Prune(l), "unwritten") = InStatus(l, "unwritten")
  BY DEF Prune, InStatus, Statuses, KeptPending, Newest

LEMMA KeptIsPruned ==
  ASSUME NEW S \in SUBSET Record
  PROVE  \A P \in SUBSET KeptPending(S) : KeptPending(P) = P
<1> SUFFICES ASSUME NEW P \in SUBSET KeptPending(S), NEW r \in P
             PROVE  r \in KeptPending(P)
  BY DEF KeptPending
<1>1. P \subseteq S /\ r \in S
  BY DEF KeptPending
<1>2. /\ Older(r, P) \in Nat /\ Older(r, S) \in Nat /\ Older(r, P) <= Older(r, S)
      /\ Newer(r, P) \in Nat /\ Newer(r, S) \in Nat /\ Newer(r, P) <= Newer(r, S)
  BY <1>1, CountGrows
<1>3. QED
  BY <1>2, LimitsAssumption DEF KeptPending
-----------------------------------------------------------------------------
(* Types, with what the messages on their way say. *)

LEMMA Widen ==
  ASSUME NEW U1, NEW U2, NEW D1, NEW D2, U1 \subseteq U2, D1 \subseteq D2,
         ConnectionTypeOK(U1, D1)
  PROVE  ConnectionTypeOK(U2, D2)
<1>1. ASSUME NEW c \in Conn
      PROVE  up[c] \in Seq(U2) /\ down[c] \in Seq(D2 \cup {Welcome, Error})
  <2>1. up[c] \in Seq(U1) /\ down[c] \in Seq(D1 \cup {Welcome, Error})
    BY DEF ConnectionTypeOK
  <2>2. D1 \cup {Welcome, Error} \subseteq D2 \cup {Welcome, Error}
    OBVIOUS
  <2>3. QED
    BY <2>1, <2>2, SeqMonotonic
<1>2. QED
  BY <1>1 DEF ConnectionTypeOK

LEMMA InvType == LogInv => TypeOK
<1> SUFFICES ASSUME LogInv PROVE TypeOK
  OBVIOUS
<1>1. /\ UpMessages(Written) \subseteq UpMessages(Mine)
      /\ DownMessages(stored \cap Mine) \subseteq DownMessages(Mine)
  BY DEF UpMessages, DownMessages, Written
<1>2. ConnectionTypeOK(UpMessages(Mine), DownMessages(Mine))
  BY <1>1, Widen DEF LogInv, CarriedIsTrue
<1>3. QED
  BY <1>2 DEF LogInv, TypeOK

LEMMA NextBatchType ==
  ASSUME log \in [Mine -> Statuses]
  PROVE  /\ NextBatch \in Seq(UpMessages(Written))
         /\ <<Inventory>> \o NextBatch \in Seq(UpMessages(Written))
<1> DEFINE oldest == {r \in Pending : Older(r, Pending) < Batch}
           batch == [type |-> "batch", records |-> oldest]
<1>1. batch \in UpMessages(Written) /\ Inventory \in UpMessages(Written)
  BY DEF UpMessages, Written, Pending, InStatus
<1>2. <<>> \in Seq(UpMessages(Written)) /\ <<batch>> \in Seq(UpMessages(Written))
      /\ <<Inventory>> \in Seq(UpMessages(Written))
  BY <1>1, EmptySeq
<1>3. NextBatch \in Seq(UpMessages(Written))
  BY <1>2 DEF NextBatch
<1>4. QED
  BY <1>2, <1>3, ConcatProperties

\* What is written stays written, and the leader's history only grows.
LEMMA HistoryGrows ==
  ASSUME LogInv, [Next]_vars
  PROVE  /\ Written \subseteq Written' /\ stored \subseteq stored'
         /\ log' \in [Mine -> Statuses]
         /\ table' \subseteq stored' /\ stored' \subseteq Record
<1> USE DEF LogInv
<1>1. CASE UNCHANGED auditVars
  BY <1>1 DEF auditVars, Written, InStatus
<1>2. ASSUME NEW r \in Mine, RecordAudit(r)
      PROVE  /\ Written \subseteq Written' /\ log' \in [Mine -> Statuses]
             /\ UNCHANGED <<table, stored>>
  <2>1. [log EXCEPT ![r] = "pending"] \in [Mine -> Statuses]
    BY DEF Statuses
  <2>2. QED
    BY <1>2, <2>1, PruneStatus DEF RecordAudit, Written, InStatus
<1>3. ASSUME NEW r \in Record, RecordOther(r)
      PROVE  /\ UNCHANGED log /\ stored \subseteq stored'
             /\ table' \subseteq stored' /\ stored' \subseteq Record
  BY <1>3 DEF RecordOther, Newest
<1>4. CASE Acknowledged
  <2>1. CASE UNCHANGED log
    BY <1>4, <2>1 DEF Acknowledged, Written, InStatus
  <2>2. CASE log' = Prune(Marked(Incoming.records))
    <3>1. /\ Marked(Incoming.records) \in [Mine -> Statuses]
          /\ InStatus(Marked(Incoming.records), "unwritten") = InStatus(log, "unwritten")
      BY DEF Marked, Statuses, InStatus
    <3>2. QED
      BY <1>4, <2>2, <3>1, PruneStatus DEF Acknowledged, Written
  <2>3. QED
    BY <1>4, <2>1, <2>2 DEF Acknowledged
<1>5. ASSUME NEW c \in Conn, ServeBatch(c)
      PROVE  /\ UNCHANGED log /\ stored \subseteq stored'
             /\ table' \subseteq stored' /\ stored' \subseteq Record
  <2>1. up \in [Conn -> Seq(UpMessages(Written))] /\ Arrived(c).type = "batch"
    BY <1>5 DEF ServeBatch, CarriedIsTrue, ConnectionTypeOK
  <2>2. Arrived(c) \in UpMessages(Written)
    BY <2>1, ArrivedType
  <2>3. Arrived(c).records \subseteq Record
    <3>1. Arrived(c) # Inventory
      BY <2>1 DEF Inventory
    <3>2. Arrived(c) \in [type : {"batch"}, records : SUBSET Written]
      BY <2>2, <3>1 DEF UpMessages
    <3>3. Arrived(c).records \subseteq Written
      BY <3>2
    <3>4. Written \subseteq Record
      BY RecordAssumption DEF Written
    <3>5. QED
      BY <3>3, <3>4
  <2>4. QED
    BY <1>5, <2>3 DEF ServeBatch, Newest
<1>6. QED
  BY <1>1, <1>2, <1>3, <1>4, <1>5
     DEF Next, vars, Connect, Welcomed, Tick, Serve, ServeInventory, Written, auditVars

LEMMA CarriedStep ==
  ASSUME LogInv, [Next]_vars
  PROVE  CarriedIsTrue'
<1>1. PICK U, D : U = UpMessages(Written)' /\ D = DownMessages(stored \cap Mine)'
  OBVIOUS
<1>2. /\ Written \subseteq Written' /\ stored \subseteq stored'
  BY HistoryGrows
<1>3. /\ UpMessages(Written) \subseteq U /\ DownMessages(stored \cap Mine) \subseteq D
      /\ \A records \in SUBSET (stored' \cap Mine) : [type |-> "ack", records |-> records] \in D
  BY <1>1, <1>2 DEF UpMessages, DownMessages
<1>4. ConnectionTypeOK(U, D) /\ log \in [Mine -> Statuses]
  <2>1. ConnectionTypeOK(UpMessages(Written), DownMessages(stored \cap Mine))
    BY DEF LogInv, CarriedIsTrue
  <2>2. ConnectionTypeOK(U, D)
    BY <1>3, <2>1, Widen
  <2>3. QED
    BY <2>2 DEF LogInv
<1> DEFINE Downs == D \cup {Welcome, Error}
<1>5. /\ up \in [Conn -> Seq(U)] /\ down \in [Conn -> Seq(Downs)]
      /\ link \in Conn \cup {None} /\ faults \in 0..MaxFaults
  BY <1>4 DEF ConnectionTypeOK
<1>6. /\ NextBatch \in Seq(U)
      /\ <<Inventory>> \o NextBatch \in Seq(U)
  BY <1>3, <1>4, NextBatchType, SeqMonotonic
<1> SUFFICES ConnectionTypeOK(U, D)'
  BY <1>1 DEF CarriedIsTrue
<1>7. CASE UNCHANGED connectionVars
  BY <1>4, <1>7 DEF ConnectionTypeOK, connectionVars, ends
<1>8. CASE Connect
  BY <1>4, <1>8, ConnectType
<1>9. CASE Welcomed
  <2>1. Incoming.type # "none" /\ TakeDown
    BY <1>9 DEF Welcomed, Welcome
  <2>2. link \in Conn /\ down' \in [Conn -> Seq(Downs)]
    BY <1>5, <2>1, TakeDownType
  <2>3. up' \in [Conn -> Seq(U)]
    BY <1>5, <1>6, <1>9, <2>2, SendUpType DEF Welcomed
  <2>4. QED
    BY <1>4, <1>9, <2>2, <2>3, ConnAssumption DEF ConnectionTypeOK, Welcomed
<1>10. CASE Tick
  <2>1. link \in Conn
    BY <1>4, <1>10 DEF ConnectionTypeOK, Tick
  <2>2. up' \in [Conn -> Seq(U)]
    BY <1>5, <1>6, <1>10, <2>1, SendUpType DEF Tick
  <2>3. QED
    BY <1>4, <1>10, <2>2 DEF ConnectionTypeOK, Tick, ends
<1>11. CASE Acknowledged
  <2>1. Incoming.type # "none" /\ TakeDown
    BY <1>11 DEF Acknowledged
  <2>2. down' \in [Conn -> Seq(Downs)]
    BY <1>5, <2>1, TakeDownType
  <2>3. faults' \in 0..MaxFaults
    BY <1>5, <1>11, FaultType DEF Acknowledged
  <2>4. QED
    BY <1>4, <1>11, <2>2, <2>3 DEF ConnectionTypeOK, Acknowledged, ends
<1>12. ASSUME NEW c \in Conn, ServeInventory(c)
       PROVE  ConnectionTypeOK(U, D)'
  <2>1. CASE EndLoop(c)
    BY <1>4, <2>1, EndLoopType
  <2>2. CASE TakeUp(c) /\ UNCHANGED <<ends, down, faults>>
    <3>1. Arrived(c).type # "none"
      BY <1>12 DEF ServeInventory, Inventory
    <3>2. up' \in [Conn -> Seq(U)]
      BY <1>5, <2>2, <3>1, ArrivedType
    <3>3. QED
      BY <1>4, <2>2, <3>2 DEF ConnectionTypeOK, ends
  <2>3. QED
    BY <1>12, <2>1, <2>2 DEF ServeInventory
<1>13. ASSUME NEW c \in Conn, ServeBatch(c)
       PROVE  ConnectionTypeOK(U, D)'
  <2>1. Arrived(c).type = "batch" /\ TakeUp(c) /\ UNCHANGED <<ends, log>>
    BY <1>13 DEF ServeBatch
  <2>2. up' \in [Conn -> Seq(U)]
    BY <1>5, <2>1, ArrivedType
  <2>3. faults' \in 0..MaxFaults
    BY <1>5, <1>13, FaultType DEF ServeBatch
  <2>4. down' \in [Conn -> Seq(Downs)]
    <3>1. PICK written \in SUBSET Arrived(c).records :
              /\ stored' = stored \cup written
              /\ \/ UNCHANGED down
                 \/ SendDown([type |-> "ack", records |-> written])
      BY <1>13 DEF ServeBatch, Accepted
    <3>2. Arrived(c) \in UpMessages(Written) /\ Arrived(c) # Inventory
      <4>1. up \in [Conn -> Seq(UpMessages(Written))] /\ Arrived(c).type # "none"
        BY <2>1 DEF LogInv, CarriedIsTrue, ConnectionTypeOK
      <4>2. Arrived(c) \in UpMessages(Written)
        BY <4>1, ArrivedType
      <4>3. QED
        BY <2>1, <4>2 DEF Inventory
    <3>3. Arrived(c) \in [type : {"batch"}, records : SUBSET Written]
      BY <3>2 DEF UpMessages
    <3>4. written \subseteq stored' \cap Mine
      BY <3>1, <3>3 DEF Written
    <3>5. [type |-> "ack", records |-> written] \in Downs
      BY <1>3, <3>4
    <3>6. QED
      BY <1>5, <3>1, <3>5, SendDownType
  <2>5. QED
    BY <1>4, <2>1, <2>2, <2>3, <2>4 DEF ConnectionTypeOK, ends
<1>14. QED
  BY <1>7, <1>8, <1>9, <1>10, <1>11, <1>12, <1>13
     DEF Next, vars, RecordAudit, RecordOther, Serve
-----------------------------------------------------------------------------
(* The queue. *)

\* Marking takes rows out of the pending ones, and pruning then finds all the others.
LEMMA MarkedStatus ==
  ASSUME LogInv, NEW records
  PROVE  /\ Marked(records) \in [Mine -> Statuses]
         /\ InStatus(Marked(records), "pending") = Pending \ records
         /\ KeptPending(Pending \ records) = Pending \ records
         /\ InStatus(Marked(records), "replicated") = InStatus(log, "replicated") \cup (Pending \cap records)
         /\ InStatus(Marked(records), "unwritten") = InStatus(log, "unwritten")
<1>1. log \in [Mine -> Statuses] /\ Pending = KeptPending(Pending)
  BY DEF LogInv, QueueIsPruned
<1>2. Pending \in SUBSET Record
  BY RecordAssumption DEF Pending, InStatus
<1>3. Pending \ records \in SUBSET KeptPending(Pending)
  BY <1>1
<1>4. KeptPending(Pending \ records) = Pending \ records
  BY <1>2, <1>3, KeptIsPruned
<1>5. QED
  BY <1>1, <1>4 DEF Marked, Statuses, Pending, InStatus

LEMMA QueueStep ==
  ASSUME LogInv, [Next]_vars
  PROVE  QueueIsPruned'
<1>1. CASE UNCHANGED log
  BY <1>1 DEF LogInv, QueueIsPruned, Pending, InStatus, KeptPending, Older, Newer
<1>2. ASSUME NEW r \in Mine, RecordAudit(r)
      PROVE  QueueIsPruned'
  <2> DEFINE l == [log EXCEPT ![r] = "pending"]
             S == InStatus(l, "pending")
  <2>1. l \in [Mine -> Statuses] /\ S \in SUBSET Record
    BY RecordAssumption DEF LogInv, Statuses, InStatus
  <2>2. InStatus(Prune(l), "pending") = KeptPending(S)
    BY <2>1, PruneStatus
  <2>3. KeptPending(KeptPending(S)) = KeptPending(S)
    BY <2>1, KeptIsPruned
  <2>4. Pending' = KeptPending(S)
    BY <1>2, <2>2 DEF RecordAudit, Pending, InStatus
  <2>5. QED
    BY <2>3, <2>4 DEF QueueIsPruned, KeptPending, Older, Newer
<1>3. CASE log' = Prune(Marked(Incoming.records))
  <2> DEFINE S == Pending \ Incoming.records
  <2>1. Pending' = KeptPending(S) /\ KeptPending(S) = S
    BY <1>3, MarkedStatus, PruneStatus DEF Pending, InStatus
  <2>2. QED
    BY <2>1 DEF QueueIsPruned, KeptPending, Older, Newer
<1>4. QED
  BY <1>1, <1>2, <1>3
     DEF Next, vars, auditVars, RecordOther, Welcomed, Tick, Acknowledged, Serve,
         ServeInventory, ServeBatch

LEMMA InitInv == Init => LogInv
<1> SUFFICES ASSUME Init PROVE LogInv
  OBVIOUS
<1>1. ASSUME NEW Up, NEW Down
      PROVE  ConnectionTypeOK(Up, Down)
  <2>1. <<>> \in Seq(Up) /\ <<>> \in Seq(Down \cup {Welcome, Error})
    BY EmptySeq
  <2>2. faults \in 0..MaxFaults
    BY BoundsAssumption DEF Init, ConnectionInit
  <2>3. /\ up \in [Conn -> Seq(Up)]
        /\ down \in [Conn -> Seq(Down \cup {Welcome, Error})]
        /\ loop \in [Conn -> Loops]
    BY <2>1 DEF Init, ConnectionInit, Loops
  <2>4. QED
    BY <2>2, <2>3 DEF Init, ConnectionInit, ConnectionTypeOK
<1>2. Pending = {} /\ log \in [Mine -> Statuses]
  BY DEF Init, Pending, InStatus, Statuses
<1>3. QED
  BY <1>1, <1>2
     DEF Init, LogInv, CarriedIsTrue, QueueIsPruned, KeptPending

LEMMA InvStep == LogInv /\ [Next]_vars => LogInv'
  BY CarriedStep, HistoryGrows, QueueStep DEF LogInv

\* The invariant holds throughout: messages carry only what was written or stored, and
\* every write leaves the queue pruned (send_pending_audit_records, prune_audit_records).
THEOREM LogInvariant == Spec => []LogInv
  BY InitInv, InvStep, PTL DEF Spec

\* Every variable keeps its type, whatever is lost, broken or restarted.
THEOREM AuditTypeCorrect == Spec => []TypeOK
  BY LogInvariant, InvType, PTL
-----------------------------------------------------------------------------
(* One connection per worker. *)

\* For any number of connections, leader restarts and removals, the loop of an old
\* connection never takes a new one offline (disconnect_worker, connect_worker).
THEOREM OldLoopsAreHarmless == Spec => []ServedIsOnline
<1>1. Init => ServedIsOnline
  BY DEF Init, ConnectionInit, ServedIsOnline
<1>2. LogInv /\ ServedIsOnline /\ [Next]_vars => ServedIsOnline'
  <2> SUFFICES ASSUME LogInv, ServedIsOnline, [Next]_vars PROVE ServedIsOnline'
    OBVIOUS
  <2>1. ConnectionTypeOK(UpMessages(Written), DownMessages(stored \cap Mine))
    BY DEF LogInv, CarriedIsTrue
  <2>2. CASE UNCHANGED <<entry, loop, stray>>
    BY <2>2 DEF ServedIsOnline
  <2>3. CASE Connect
    BY <2>1, <2>3, ConnectServed
  <2>4. ASSUME NEW c \in Conn, EndLoop(c)
        PROVE  ServedIsOnline'
    BY <2>1, <2>4, EndLoopServed DEF ConnectionTypeOK
  <2>5. QED
    BY <2>2, <2>3, <2>4
       DEF Next, vars, connectionVars, ends, RecordAudit, RecordOther, Welcomed, Tick,
           Acknowledged, Serve, ServeInventory, ServeBatch
<1>3. QED
  BY <1>1, <1>2, LogInvariant, PTL DEF Spec
-----------------------------------------------------------------------------
(* What retention keeps. *)

\* Pruning a set to its newest rows adds to those that went only rows with so many newer.
LEMMA NewestGone ==
  ASSUME NEW S \in SUBSET Record, NEW all \in SUBSET Record, S \subseteq all, NEW old \in SUBSET all,
         \A r \in old \ S : Newer(r, old) >= Retention
  PROVE  \A r \in (S \cup old) \ Newest(S) : Newer(r, all) >= Retention
<1> SUFFICES ASSUME NEW r \in (S \cup old) \ Newest(S)
             PROVE  Newer(r, all) >= Retention
  OBVIOUS
<1>1. Retention \in Nat
  BY LimitsAssumption
<1>2. CASE r \in S
  <2>1. Newer(r, S) \in Nat /\ Newer(r, all) \in Nat /\ Newer(r, S) <= Newer(r, all)
    BY CountGrows
  <2>2. Newer(r, S) >= Retention
    BY <1>1, <1>2, <2>1 DEF Newest
  <2>3. QED
    BY <1>1, <2>1, <2>2
<1>3. CASE r \in old \ S
  <2>1. Newer(r, old) \in Nat /\ Newer(r, all) \in Nat /\ Newer(r, old) <= Newer(r, all)
    BY CountGrows
  <2>2. QED
    BY <1>1, <1>3, <2>1
<1>4. QED
  BY <1>2, <1>3

\* NewestAreKept in its two parts.
Confirmed == InStatus(log, "replicated") \cup InStatus(log, "expired")
LeaderKeeps == \A r \in stored \ table : Newer(r, stored) >= Retention
WorkerKeeps == \A r \in InStatus(log, "expired") : Newer(r, Confirmed) >= Retention

LEMMA LeaderStep ==
  ASSUME LogInv, LeaderKeeps, NEW written \in SUBSET Record,
         table' = Newest(table \cup written), stored' = stored \cup written
  PROVE  LeaderKeeps'
<1> DEFINE S == table \cup written
<1>1. S \in SUBSET Record /\ stored' \in SUBSET Record /\ stored \in SUBSET stored'
      /\ S \subseteq stored'
  BY DEF LogInv
<1>2. \A r \in stored \ S : Newer(r, stored) >= Retention
  BY DEF LeaderKeeps
<1>3. \A r \in (S \cup stored) \ Newest(S) : Newer(r, stored') >= Retention
  BY <1>1, <1>2, NewestGone
<1>4. QED
  BY <1>3 DEF LeaderKeeps, LogInv, Newer

\* Pruning after a write that made some pending rows replicated, and changed no expired one.
LEMMA WorkerStep ==
  ASSUME LogInv, WorkerKeeps, NEW l \in [Mine -> Statuses], log' = Prune(l),
         InStatus(log, "replicated") \subseteq InStatus(l, "replicated"),
         InStatus(log, "expired") = InStatus(l, "expired")
  PROVE  WorkerKeeps'
<1> DEFINE S == InStatus(l, "replicated")
           E == InStatus(log, "expired")
<1>1. /\ InStatus(log, "expired")' = E \cup (S \ Newest(S))
      /\ Confirmed' = S \cup E
      /\ S \cap E = {}
  BY DEF Prune, InStatus, Statuses, Confirmed, Newest, KeptPending
<1>2. S \in SUBSET Record /\ S \cup E \in SUBSET Record /\ Confirmed \in SUBSET (S \cup E)
      /\ E \subseteq Confirmed
  BY RecordAssumption DEF InStatus, Confirmed
<1>3. \A r \in Confirmed \ S : Newer(r, Confirmed) >= Retention
  BY DEF WorkerKeeps, Confirmed
<1>4. \A r \in (S \cup Confirmed) \ Newest(S) : Newer(r, S \cup E) >= Retention
  BY <1>2, <1>3, NewestGone
<1>5. \A r \in E \cup (S \ Newest(S)) : Newer(r, S \cup E) >= Retention
  BY <1>1, <1>2, <1>4 DEF Newest
<1>6. QED
  BY <1>1, <1>5 DEF WorkerKeeps, Newer

\* For any limits: what either table lost by retention is older than as many records as it
\* keeps, in whatever order, and however often, the records arrived (prune_audit_records).
THEOREM NewestKept == Spec => []NewestAreKept
<1> DEFINE Keeps == LeaderKeeps /\ WorkerKeeps
<1>1. Init => Keeps
  BY DEF Init, LeaderKeeps, WorkerKeeps, InStatus
<1>2. LogInv /\ Keeps /\ [Next]_vars => Keeps'
  <2> SUFFICES ASSUME LogInv, Keeps, [Next]_vars PROVE Keeps'
    OBVIOUS
  <2> USE DEF LogInv
  <2>1. CASE UNCHANGED auditVars
    BY <2>1 DEF auditVars, LeaderKeeps, WorkerKeeps, Confirmed, InStatus, Newer
  <2>2. UNCHANGED <<table, stored>> => LeaderKeeps'
    BY DEF LeaderKeeps, Newer
  <2>3. UNCHANGED log => WorkerKeeps'
    BY DEF WorkerKeeps, Confirmed, InStatus, Newer
  <2>4. ASSUME NEW r \in Mine, RecordAudit(r)
        PROVE  Keeps'
    <3> DEFINE l == [log EXCEPT ![r] = "pending"]
    <3>1. /\ l \in [Mine -> Statuses]
          /\ InStatus(log, "replicated") \subseteq InStatus(l, "replicated")
          /\ InStatus(log, "expired") = InStatus(l, "expired")
      BY <2>4 DEF RecordAudit, Statuses, InStatus
    <3>2. log' = Prune(l) /\ UNCHANGED <<table, stored>>
      BY <2>4 DEF RecordAudit
    <3>3. QED
      BY <2>2, <3>1, <3>2, WorkerStep
  <2>5. ASSUME NEW r \in Record, RecordOther(r)
        PROVE  Keeps'
    <3>1. {r} \in SUBSET Record
      OBVIOUS
    <3>2. QED
      BY <2>3, <2>5, <3>1, LeaderStep DEF RecordOther
  <2>6. CASE Acknowledged
    <3> DEFINE l == Marked(Incoming.records)
    <3>1. /\ l \in [Mine -> Statuses]
          /\ InStatus(log, "replicated") \subseteq InStatus(l, "replicated")
          /\ InStatus(log, "expired") = InStatus(l, "expired")
      BY DEF Marked, Statuses, InStatus
    <3>2. UNCHANGED <<table, stored>> /\ (UNCHANGED log \/ log' = Prune(l))
      BY <2>6 DEF Acknowledged
    <3>3. QED
      BY <2>2, <2>3, <3>1, <3>2, WorkerStep
  <2>7. ASSUME NEW c \in Conn, ServeBatch(c)
        PROVE  Keeps'
    <3>1. UNCHANGED log
      BY <2>7 DEF ServeBatch
    <3>2. PICK written \in SUBSET Arrived(c).records :
              table' = Newest(table \cup written) /\ stored' = stored \cup written
      BY <2>7 DEF ServeBatch
    <3>3. written \in SUBSET Record
      BY <3>2, HistoryGrows
    <3>4. QED
      BY <2>3, <3>1, <3>2, <3>3, LeaderStep
  <2>8. QED
    BY <2>1, <2>4, <2>5, <2>6, <2>7
       DEF Next, vars, Welcomed, Tick, Serve, ServeInventory
<1>3. LogInv /\ Keeps => NewestAreKept
  BY DEF LeaderKeeps, WorkerKeeps, Confirmed, NewestAreKept
<1>4. QED
  BY <1>1, <1>2, <1>3, LogInvariant, PTL DEF Spec
-----------------------------------------------------------------------------
(* The refinement. *)

LogState == [r \in Mine |-> Abstract(log[r])]

\* The pending records are those of the abstract log.
LEMMA LogPending ==
  ASSUME log \in [Mine -> Statuses]
  PROVE  /\ Log!Pending = Pending
         /\ \A r \in Mine : LogState[r] = "unwritten" <=> log[r] = "unwritten"
  BY DEF Log!Pending, Pending, InStatus, Abstract, Statuses, LogState

\* A new record pushes others out only when there are more than Backlog.
LEMMA WriteStep ==
  ASSUME LogInv, NEW r \in Mine, RecordAudit(r)
  PROVE  \E discarded \in SUBSET Mine : Log!Write(r, discarded)
<1> DEFINE l == [log EXCEPT ![r] = "pending"]
           P == Pending \cup {r}
           gone == P \ KeptPending(P)
<1>1. log \in [Mine -> Statuses] /\ log[r] = "unwritten" /\ log' = Prune(l)
      /\ UNCHANGED stored
  BY DEF LogInv, RecordAudit
<1>2. InStatus(l, "pending") = P /\ P \in SUBSET Record /\ gone \in SUBSET Mine
  BY <1>1, RecordAssumption DEF Pending, InStatus
<1>3. gone # {} => Cardinality(P) > Queue + Display
  BY <1>2, BacklogIsFull
<1>4. \A k \in Mine : Abstract(log'[k]) = IF k \in gone THEN "discarded"
                                        ELSE IF k = r THEN "pending" ELSE Abstract(log[k])
  BY <1>1, <1>2 DEF Prune, Abstract, Statuses, InStatus, Pending
<1>5. LogState' = [k \in Mine |-> IF k \in gone THEN "discarded"
                                  ELSE IF k = r THEN "pending" ELSE LogState[k]]
  BY <1>4 DEF LogState
<1>6. Log!Cardinality(P) = Cardinality(P)
  BY DEF Log!Cardinality, Cardinality
<1>7. Log!Write(r, gone)
  BY <1>1, <1>2, <1>3, <1>5, <1>6, LogPending DEF Log!Write, LogState
<1>8. QED
  BY <1>2, <1>7

\* An acknowledgement confirms what the leader stored, and pushes nothing out.
LEMMA ConfirmStep ==
  ASSUME LogInv, joined, Incoming.type = "ack", log' = Prune(Marked(Incoming.records)),
         UNCHANGED stored
  PROVE  \E records \in SUBSET Mine : Log!Confirm(records)
<1> DEFINE l == Marked(Incoming.records)
           marked == Pending \cap Incoming.records
<1>1. log \in [Mine -> Statuses] /\ marked \in SUBSET Mine
  BY DEF LogInv, Pending, InStatus
<1>2. Incoming.records \subseteq stored \cap Mine
  <2>1. /\ link \in Conn
        /\ down \in [Conn -> Seq(DownMessages(stored \cap Mine) \cup {Welcome, Error})]
    BY DEF LogInv, CarriedIsTrue, ConnectionTypeOK
  <2>2. down[link] # <<>> /\ Incoming = Head(down[link])
    BY DEF Incoming
  <2>3. Incoming \in DownMessages(stored \cap Mine) \cup {Welcome, Error}
    BY <2>1, <2>2, HeadTailProperties
  <2>4. Incoming \in DownMessages(stored \cap Mine)
    BY <2>3 DEF Welcome, Error
  <2>5. QED
    BY <2>4 DEF DownMessages
<1>3. InStatus(l, "pending") = Pending \ Incoming.records
      /\ KeptPending(Pending \ Incoming.records) = Pending \ Incoming.records
  BY MarkedStatus
<1>4. \A k \in Mine : Abstract(log'[k]) = IF k \in marked THEN "confirmed" ELSE Abstract(log[k])
  BY <1>1, <1>3 DEF Prune, Marked, Abstract, Statuses, InStatus, Pending
<1>5. LogState' = [k \in Mine |-> IF k \in marked THEN "confirmed" ELSE LogState[k]]
  BY <1>4 DEF LogState
<1>6. Log!Confirm(marked)
  BY <1>1, <1>2, <1>5, LogPending DEF Log!Confirm, LogState
<1>7. QED
  BY <1>1, <1>6

\* The leader stores only what the worker wrote.
LEMMA CopyStep ==
  ASSUME LogInv, NEW c \in Conn, ServeBatch(c)
  PROVE  \E records \in SUBSET Mine : Log!Copy(records)
<1>1. PICK written \in SUBSET Arrived(c).records : stored' = stored \cup written
  BY DEF ServeBatch
<1>2. written \subseteq Written
  <2>1. up \in [Conn -> Seq(UpMessages(Written))] /\ Arrived(c).type = "batch"
    BY DEF LogInv, CarriedIsTrue, ConnectionTypeOK, ServeBatch
  <2>2. Arrived(c) \in UpMessages(Written)
    BY <2>1, ArrivedType
  <2>3. Arrived(c) \in [type : {"batch"}, records : SUBSET Written]
    BY <2>1, <2>2 DEF UpMessages, Inventory
  <2>4. QED
    BY <1>1, <2>3
<1>3. UNCHANGED log /\ written \in SUBSET Mine /\ log \in [Mine -> Statuses]
  BY <1>2 DEF ServeBatch, Written, LogInv
<1>4. \A r \in written : LogState[r] # "unwritten"
  BY <1>2, <1>3, LogPending DEF Written, InStatus
<1>5. Log!Copy(written)
  BY <1>1, <1>2, <1>3, <1>4 DEF Log!Copy, LogState
<1>6. QED
  BY <1>3, <1>5

\* For every number of records and every limit: lost batches and acknowledgements, restarts
\* of either side and pruning included, a pending record leaves the queue only for a leader
\* that stored it, or from a backlog above the limit (state/audit.rs).
THEOREM AuditImplementsLog == Spec => ImplementsLog
<1>1. Init => Log!Init
  BY DEF Init, Log!Init, Abstract
<1>2. LogInv /\ [Next]_vars => [Log!Next]_<<LogState, stored \cap Mine>>
  <2> SUFFICES ASSUME LogInv, [Next]_vars
               PROVE  Log!Next \/ UNCHANGED <<LogState, stored \cap Mine>>
    OBVIOUS
  <2>1. CASE UNCHANGED <<log, stored>>
    BY <2>1 DEF LogState
  <2>2. ASSUME NEW r \in Mine, RecordAudit(r)
        PROVE  Log!Next
    BY <2>2, WriteStep DEF Log!Next
  <2>3. ASSUME NEW r \in Record, RecordOther(r)
        PROVE  UNCHANGED <<LogState, stored \cap Mine>>
    BY <2>3 DEF RecordOther, LogState
  <2>4. CASE Acknowledged
    BY <2>1, <2>4, ConfirmStep DEF Acknowledged, Log!Next
  <2>5. ASSUME NEW c \in Conn, ServeBatch(c)
        PROVE  Log!Next
    BY <2>5, CopyStep DEF Log!Next
  <2>6. QED
    BY <2>1, <2>2, <2>3, <2>4, <2>5
       DEF Next, vars, auditVars, Welcomed, Tick, Serve, ServeInventory
<1>3. QED
  BY <1>1, <1>2, LogInvariant, PTL DEF Spec, ImplementsLog, Log!Spec, LogState
=============================================================================
