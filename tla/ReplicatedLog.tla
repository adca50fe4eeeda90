---------------------------- MODULE ReplicatedLog ----------------------------
(***************************************************************************)
(* What the replication of audit records promises (README.md, "Audit       *)
(* retention and search"; state/audit.rs): a record a worker writes stays   *)
(* pending until the leader has stored it, and is given up before that     *)
(* only when too many are pending.                                         *)
(***************************************************************************)
EXTENDS Naturals, FiniteSets

CONSTANTS
    Mine,      \* the records a worker writes
    Backlog    \* so many may be pending and none is given up

VARIABLES
    state,     \* of each record, on the worker
    copied     \* the records the leader has stored, then or earlier

States == {"unwritten", "pending", "confirmed", "discarded"}
Pending == {r \in Mine : state[r] = "pending"}

Init == state = [r \in Mine |-> "unwritten"] /\ copied = {}

\* The discarded records, if there are any, make room for the new one; it may be one of them.
Write(r, discarded) ==
    /\ state[r] = "unwritten"
    /\ discarded \subseteq Pending \cup {r}
    /\ discarded # {} => Cardinality(Pending \cup {r}) > Backlog
    /\ state' = [k \in Mine |-> IF k \in discarded THEN "discarded"
                                ELSE IF k = r THEN "pending" ELSE state[k]]
    /\ UNCHANGED copied

Copy(records) ==
    /\ \A r \in records : state[r] # "unwritten"
    /\ copied' = copied \cup records
    /\ UNCHANGED state

Confirm(records) ==
    /\ records \subseteq copied \cap Pending
    /\ state' = [k \in Mine |-> IF k \in records THEN "confirmed" ELSE state[k]]
    /\ UNCHANGED copied

Next ==
    \/ \E r \in Mine, discarded \in SUBSET Mine : Write(r, discarded)
    \/ \E records \in SUBSET Mine : Copy(records) \/ Confirm(records)

Spec == Init /\ [][Next]_<<state, copied>>
=============================================================================
