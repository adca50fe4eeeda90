-------------------------- MODULE AuditReplication --------------------------
(***************************************************************************)
(* The audit records of a worker on their way to its leader                *)
(* (state/audit.rs, with ingest_worker_audits in cluster/leader.rs and     *)
(* send_pending_audit_records in cluster/worker.rs).  The worker sends its *)
(* oldest pending records again and again until the leader acknowledges    *)
(* them; both sides prune their table whenever they write to it.           *)
(***************************************************************************)
EXTENDS AgentConnection, FiniteSets

CONSTANTS
    Record,      \* audit records, as numbers in the order of their time and id
    Mine,        \* those of this worker; the others are the leader's and other workers'
    Batch,       \* limit of unreplicated_audit_records: 100
    Retention,   \* AUDIT_RETENTION_LIMIT
    Queue,       \* AUDIT_REPLICATION_QUEUE_LIMIT
    Display      \* AUDIT_LOCAL_DISPLAY_LIMIT

ASSUME RecordAssumption == Record \subseteq Nat /\ IsFiniteSet(Record) /\ Mine \subseteq Record
ASSUME LimitsAssumption == {Batch, Retention, Queue, Display} \subseteq Nat \ {0}

VARIABLES
    log,       \* the worker's table; "discarded" and "expired" rows are deleted
    table,     \* the leader's table
    stored     \* history: the records the leader's table ever had

auditVars == <<log, table, stored>>
vars == <<connectionVars, auditVars>>

Statuses == {"unwritten", "pending", "replicated", "discarded", "expired"}
Inventory == [type |-> "inventory"]
UpMessages(records) == {Inventory} \cup [type : {"batch"}, records : SUBSET records]
DownMessages(records) == [type : {"ack"}, records : SUBSET records]

TypeOK ==
    /\ ConnectionTypeOK(UpMessages(Mine), DownMessages(Mine))
    /\ log \in [Mine -> Statuses]
    /\ table \subseteq stored /\ stored \subseteq Record

Init ==
    /\ ConnectionInit
    /\ log = [r \in Mine |-> "unwritten"]
    /\ table = {} /\ stored = {}
-----------------------------------------------------------------------------
(* The two tables. *)

Newer(r, S) == Cardinality({x \in S : x > r})
Older(r, S) == Cardinality({x \in S : x < r})

InStatus(l, s) == {r \in Mine : l[r] = s}
Pending == InStatus(log, "pending")

\* prune_audit_records: of replicated records the newest stay, of pending ones the oldest
\* and the newest.
Newest_Ascending(S) == {r \in S : Older(r, S) < Retention}
Newest(S) == {r \in S : Newer(r, S) < Retention}
KeptPending(S) == {r \in S : Older(r, S) < Queue \/ Newer(r, S) < Display}

Prune(l) ==
    LET pending == InStatus(l, "pending")
        replicated == InStatus(l, "replicated")
    IN  [r \in Mine |-> IF r \in pending \ KeptPending(pending) THEN "discarded"
                        ELSE IF r \in replicated \ Newest(replicated) THEN "expired"
                        ELSE l[r]]

\* record_audit on the worker.  Its time is when the request came, so it need not be the
\* newest record.
RecordAudit(r) ==
    /\ log[r] = "unwritten"
    /\ log' = Prune([log EXCEPT ![r] = "pending"])
    /\ UNCHANGED <<connectionVars, table, stored>>

\* record_audit on the leader, for the records of others: they are replicated at once.
RecordOther(r) ==
    /\ r \in Record \ (Mine \cup stored)
    /\ table' = Newest(table \cup {r})
    /\ stored' = stored \cup {r}
    /\ UNCHANGED <<connectionVars, log>>
-----------------------------------------------------------------------------
(* The worker's loop. *)

\* send_pending_audit_records: the oldest pending records, if there are any.
NextBatch ==
    LET oldest == {r \in Pending : Older(r, Pending) < Batch}
    IN  IF oldest = {} THEN <<>> ELSE <<[type |-> "batch", records |-> oldest]>>

Welcomed ==
    /\ ~joined /\ Incoming = Welcome
    /\ joined' = TRUE
    /\ TakeDown
    /\ IF link \in cut THEN UNCHANGED up ELSE SendUp(NextBatch)
    /\ UNCHANGED <<link, entry, loop, cut, silent, stray, faults, auditVars>>

\* On a broken connection the worker fails to send, which is Hangup.
Tick ==
    /\ joined
    /\ SendUp(<<Inventory>> \o NextBatch)
    /\ UNCHANGED <<ends, down, faults, auditVars>>

\* mark_audit_replicated: records that were acknowledged, and are still pending.
Marked(records) ==
    [r \in Mine |-> IF r \in records /\ log[r] = "pending" THEN "replicated" ELSE log[r]]

Acknowledged ==
    /\ joined /\ Incoming.type = "ack"
    /\ \/ log' = Prune(Marked(Incoming.records)) /\ UNCHANGED faults
       \/ UNCHANGED log /\ Fault     \* the error is dropped
    /\ TakeDown
    /\ UNCHANGED <<ends, up, table, stored>>
-----------------------------------------------------------------------------
(* The leader's loop. *)

\* update_inventory fails for a worker that was forgotten, and that ends the loop.
ServeInventory(c) ==
    /\ Arrived(c) = Inventory
    /\ IF entry = Unknown THEN EndLoop(c)
       ELSE TakeUp(c) /\ UNCHANGED <<ends, down, faults>>
    /\ UNCHANGED auditVars

\* ingest_worker_audits: a write that fails leaves its record out of the answer.
Accepted_All(records, written) == records
Accepted(records, written) == written

ServeBatch(c) ==
    /\ Arrived(c).type = "batch"
    /\ TakeUp(c)
    /\ \E written \in SUBSET Arrived(c).records :
         /\ IF written = Arrived(c).records THEN UNCHANGED faults ELSE Fault
         /\ table' = Newest(table \cup written)
         /\ stored' = stored \cup written
         /\ LET accepted == Accepted(Arrived(c).records, written)
            IN  IF accepted = {} THEN UNCHANGED down
                ELSE SendDown([type |-> "ack", records |-> accepted])
    /\ UNCHANGED <<ends, log>>

Serve(c) == ServeInventory(c) \/ ServeBatch(c)
-----------------------------------------------------------------------------
Next ==
    \/ Connect /\ UNCHANGED auditVars
    \/ \E r \in Mine : RecordAudit(r)
    \/ \E r \in Record : RecordOther(r)
    \/ Welcomed \/ Tick \/ Acknowledged
    \/ \E c \in Conn : Serve(c)

Spec == Init /\ [][Next]_vars

\* The worker's thread, whichever of a message and a tick it finds first, and the leader's
\* loops go on.  Nothing is assumed of the requests that are recorded, nor of the network.
WorkerReads == Welcomed \/ Acknowledged \/ (Hangup /\ UNCHANGED auditVars)
LoopGoesOn(c) == Serve(c) \/ ((Open(c) \/ LoopEnds(c)) /\ UNCHANGED auditVars)

FairSpec ==
    /\ Spec
    /\ WF_vars(\E c \in Conn : Dial(c) /\ UNCHANGED auditVars)
    /\ WF_vars(WorkerReads) /\ WF_vars(Tick)
    /\ \A c \in Conn : WF_vars(LoopGoesOn(c))
-----------------------------------------------------------------------------
(* Properties. *)

\* The log as ReplicatedLog sees it: that a replicated row expired makes no difference.
Abstract(s) == IF s \in {"replicated", "expired"} THEN "confirmed" ELSE s

Log == INSTANCE ReplicatedLog WITH
           Backlog <- Queue + Display,
           state <- [r \in Mine |-> Abstract(log[r])],
           copied <- stored \cap Mine

\* Lost batches, lost acknowledgements, restarts and pruning included, a record leaves the
\* queue only for a leader that stored it, or from a backlog above the limit.
ImplementsLog == Log!Spec

\* "Replicated history keeps the newest 10,000 records", on the leader and on the worker,
\* although records arrive out of order, more than once, and after others were pruned.
NewestAreKept ==
    /\ \A r \in stored \ table : Newer(r, stored) >= Retention
    /\ LET replicated == InStatus(log, "replicated") \cup InStatus(log, "expired")
       IN  \A r \in InStatus(log, "expired") : Newer(r, replicated) >= Retention

\* Once no more requests come, the queue drains, if the leader is told of the end of every
\* connection: until it is, it refuses the worker's new ones.
QueueDrains == <>[](Pending = {} \/ silent # {})
-----------------------------------------------------------------------------
(* The inductive invariant behind ImplementsLog, proved in AuditReplication_proofs. *)

\* What is on its way was written by the worker, or stored by the leader.
Written == Mine \ InStatus(log, "unwritten")
CarriedIsTrue ==
    ConnectionTypeOK(UpMessages(Written), DownMessages(stored \cap Mine))

\* Nothing is left to prune of the pending records: an acknowledgement discards none.
QueueIsPruned == Pending = KeptPending(Pending)

LogInv ==
    /\ CarriedIsTrue
    /\ log \in [Mine -> Statuses]
    /\ table \subseteq stored /\ stored \subseteq Record
    /\ QueueIsPruned
=============================================================================
