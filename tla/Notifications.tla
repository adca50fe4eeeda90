----------------------------- MODULE Notifications -----------------------------
(***************************************************************************)
(* Alert rules and the inbox (daemon/notifications.rs,                     *)
(* state/notification.rs).  What the sampler or a worker's inventory found *)
(* is matched with the rules as they were read once; each match becomes a  *)
(* row and perhaps a webhook call; the oldest rows beyond the limit go.    *)
(***************************************************************************)
EXTENDS Naturals, FiniteSets

CONSTANTS
    Rule,       \* notification rules
    Event,      \* lifecycle transitions, each seen once
    NoRow,      \* no rule, nothing
    Limit,      \* NOTIFICATION_RETENTION_LIMIT
    MaxTime,    \* bound: the clock, which may also go back
    MaxRules    \* bound: changes of rules

ASSUME NoticeBounds == Limit \in Nat /\ MaxTime \in Nat

VARIABLES
    rules,      \* table notification_rules: the events a rule matches, hook and enabled
    inbox,      \* table notifications
    nextRow,    \* AUTOINCREMENT
    clock,
    batch,      \* emit_transition_notifications: what the passes under way have yet to insert
    emitted,    \* history: what each event had matched, and the rows made of it
    hooks,      \* webhook deliveries under way
    changes     \* bounded by MaxRules

noticeVars == <<rules, inbox, nextRow, clock, batch, emitted, hooks, changes>>

Pair == Rule \X Event
RuleRow == [events : SUBSET Event, hook : BOOLEAN, enabled : BOOLEAN]

NoticeTypeOK ==
    /\ rules \in [Rule -> RuleRow \cup {NoRow}]
    /\ \A n \in inbox : n.id < nextRow /\ n.of \in Pair \cup {NoRow} /\ n.at \in 0..MaxTime
    /\ Cardinality({n.id : n \in inbox}) = Cardinality(inbox)
    /\ clock \in 0..MaxTime
    /\ hooks \in SUBSET Pair
    /\ Cardinality(inbox) <= Limit

NoticeInit ==
    /\ rules \in [Rule -> {NoRow, [events |-> Event, hook |-> TRUE, enabled |-> TRUE]}]
    /\ inbox = {} /\ nextRow = 1 /\ clock = 0
    /\ batch = {}
    /\ emitted = [matched |-> {}, recorded |-> {}, failed |-> {}, taken |-> {}]
    /\ hooks = {} /\ changes = 0
-----------------------------------------------------------------------------
(* Users. *)

\* create, update, delete: the input is normalized to at least one event type.
ChangeRule(r) ==
    /\ changes < MaxRules /\ changes' = changes + 1
    /\ \E row \in {row \in RuleRow : row.events # {}} \cup {NoRow} :
          row # rules[r] /\ rules' = [rules EXCEPT ![r] = row]
    /\ UNCHANGED <<inbox, nextRow, clock, batch, emitted, hooks>>

MarkRead(n) ==
    /\ inbox' = {IF m.id = n.id THEN [m EXCEPT !.read = TRUE] ELSE m : m \in inbox}
    /\ UNCHANGED <<rules, nextRow, clock, batch, emitted, hooks, changes>>

\* {"all": true}, and a request that names no id.
MarkAllRead ==
    /\ inbox' = {[m EXCEPT !.read = TRUE] : m \in inbox}
    /\ UNCHANGED <<rules, nextRow, clock, batch, emitted, hooks, changes>>
-----------------------------------------------------------------------------
(* The daemon. *)

\* One pass over what happened since the last, with the enabled rules of now.  The passes of the
\* sampler and of the workers' inventories overlap.
Emit(events) ==
    /\ events # {} /\ events \cap emitted.taken = {}
    /\ LET matches == {m \in Pair : LET row == rules[m[1]]
                                    IN  /\ m[2] \in events
                                        /\ row # NoRow /\ row.enabled /\ m[2] \in row.events}
       IN  /\ batch' = batch \cup {[of |-> m, hook |-> rules[m[1]].hook] : m \in matches}
           /\ emitted' = [emitted EXCEPT !.matched = @ \cup matches, !.taken = @ \cup events]
    /\ UNCHANGED <<rules, inbox, nextRow, clock, hooks, changes>>

Later(m, n) == m.at > n.at \/ (m.at = n.at /\ m.id > n.id)
Newest_ById(rows) == {n \in rows : Cardinality({m \in rows : m.id > n.id}) < Limit}
Newest(rows) == {n \in rows : Cardinality({m \in rows : Later(m, n)}) < Limit}

NewRow(of) == [id |-> nextRow, of |-> of, at |-> clock, read |-> FALSE]

\* insert_notification.
Insert(of) ==
    /\ inbox' = Newest(inbox \cup {NewRow(of)})
    /\ nextRow' = nextRow + 1
    /\ emitted' = [emitted EXCEPT !.recorded = @ \cup {NewRow(of)}]

\* A failure is printed, and nothing else.
InsertFails(of) ==
    /\ emitted' = [emitted EXCEPT !.failed = @ \cup {of}]
    /\ UNCHANGED <<inbox, nextRow>>

\* Either way the webhook is called, and the pass goes on.
RecordNext_GivesUp ==
    \E match \in batch :
       /\ \/ Insert(match.of) /\ batch' = batch \ {match}
          \/ InsertFails(match.of) /\ batch' = {}
       /\ hooks' = IF match.hook THEN hooks \cup {match.of} ELSE hooks
       /\ UNCHANGED <<rules, clock, changes>>
RecordNext ==
    \E match \in batch :
       /\ Insert(match.of) \/ InsertFails(match.of)
       /\ batch' = batch \ {match}
       /\ hooks' = IF match.hook THEN hooks \cup {match.of} ELSE hooks
       /\ UNCHANGED <<rules, clock, changes>>

\* A thread of its own, with a timeout; no second attempt.
Deliver(m) ==
    /\ m \in hooks /\ hooks' = hooks \ {m}
    /\ UNCHANGED <<rules, inbox, nextRow, clock, batch, emitted, changes>>

\* Time passes, or the clock is set.
SetClock ==
    /\ \E t \in 0..MaxTime : t # clock /\ clock' = t
    /\ UNCHANGED <<rules, inbox, nextRow, batch, emitted, hooks, changes>>

NoticeNext ==
    \/ \E r \in Rule : ChangeRule(r)
    \/ (\E n \in inbox : MarkRead(n)) \/ MarkAllRead
    \/ (\E events \in SUBSET Event : Emit(events)) \/ RecordNext
    \/ (\E m \in Pair : Deliver(m)) \/ SetClock

NoticeSpec == NoticeInit /\ [][NoticeNext]_noticeVars
-----------------------------------------------------------------------------
(* Properties. *)

\* Each event is recorded for each rule that was enabled and matched it when its pass began,
\* whatever became of the rules, of other passes and of other rows meanwhile, unless its own
\* insertion fails or is yet to come; and the row is there, unless the inbox is full of rows that
\* are later by their time (so that after the clock was set back a row may go in the same call
\* that recorded it).
EveryMatchIsKept ==
    \A m \in emitted.matched \ emitted.failed :
        \/ \E match \in batch : match.of = m
        \/ \E n \in emitted.recorded :
              /\ n.of = m
              /\ \/ \E k \in inbox : k.id = n.id
                 \/ Cardinality({k \in inbox : Later(k, n)}) = Limit
=============================================================================
