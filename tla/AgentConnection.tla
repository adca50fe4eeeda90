--------------------------- MODULE AgentConnection ---------------------------
(***************************************************************************)
(* The connection of one worker to its leader (cluster/worker.rs,          *)
(* cluster/leader.rs): the worker dials, says hello and waits for a        *)
(* welcome; the leader runs one loop per connection and keeps one entry    *)
(* for the worker.  A connection may break, with or without the leader     *)
(* learning of it; what is on its way is then lost.  What the messages     *)
(* carry is up to the modules that extend this one.                        *)
(***************************************************************************)
EXTENDS Naturals, Sequences

CONSTANTS
    Conn,        \* connections
    None,        \* no connection: a worker that is not connected, an entry that is offline
    Unknown,     \* no entry: the leader does not know the worker, or was told to forget it
    MaxQueue,    \* bound: messages on their way in one direction
    MaxFaults    \* bound: broken connections, restarts, removals and failed writes

ASSUME ConnAssumption == None \notin Conn /\ Unknown \notin Conn /\ None # Unknown
ASSUME BoundsAssumption == MaxQueue \in Nat /\ MaxFaults \in Nat

VARIABLES
    link,      \* the connection the worker uses
    joined,    \* the worker was welcomed on it
    entry,     \* the connection of the leader's entry for the worker
    loop,      \* the leader's loop of each connection
    up, down,  \* messages on their way to the leader and to the worker
    cut,       \* connections that broke or were closed
    silent,    \* those of them whose end the leader is never told
    stray,     \* history: loops that were running when the worker was forgotten
    faults     \* faults so far (bounded by MaxFaults)

ends == <<link, joined, entry, loop, cut, silent, stray>>
connectionVars == <<ends, up, down, faults>>

Loops == {"hello", "serving", "closed"}
Welcome == [type |-> "welcome"]
Error == [type |-> "error"]

\* With the messages a module carries in each direction.
ConnectionTypeOK(Up, Down) ==
    /\ link \in Conn \cup {None}
    /\ joined \in BOOLEAN /\ (joined => link # None)
    /\ entry \in Conn \cup {None, Unknown}
    /\ loop \in [Conn -> Loops]
    /\ up \in [Conn -> Seq(Up)]
    /\ down \in [Conn -> Seq(Down \cup {Welcome, Error})]
    /\ cut \subseteq Conn /\ silent \subseteq cut /\ stray \subseteq Conn
    /\ faults \in 0..MaxFaults

ConnectionInit ==
    /\ link = None /\ joined = FALSE
    /\ entry \in {None, Unknown}
    /\ loop = [c \in Conn |-> "closed"]
    /\ up = [c \in Conn |-> <<>>] /\ down = [c \in Conn |-> <<>>]
    /\ cut = {} /\ silent = {} /\ stray = {}
    /\ faults = 0

Fault == faults < MaxFaults /\ faults' = faults + 1
-----------------------------------------------------------------------------
(* The worker. *)

\* spawn_worker_client tries again and again; Conn are slots, used anew when both ends left.
Dial(c) ==
    /\ link = None /\ loop[c] = "closed"
    /\ link' = c /\ joined' = FALSE
    /\ loop' = [loop EXCEPT ![c] = "hello"]
    /\ cut' = cut \ {c} /\ silent' = silent \ {c} /\ stray' = stray \ {c}
    /\ UNCHANGED <<entry, up, down, faults>>

\* A message that leaves on a broken connection is lost; a full one makes the sender wait.
SendUp(messages) ==
    /\ link \notin cut
    /\ Len(up[link]) + Len(messages) <= MaxQueue
    /\ up' = [up EXCEPT ![link] = @ \o messages]

Incoming == IF link # None /\ down[link] # <<>> THEN Head(down[link]) ELSE [type |-> "none"]
TakeDown == down' = [down EXCEPT ![link] = Tail(@)]

\* run_worker_connection returns an error: the socket is dropped with what it holds.
Leave ==
    /\ link' = None /\ joined' = FALSE
    /\ cut' = cut \cup {link}
    /\ down' = [down EXCEPT ![link] = <<>>]
    /\ UNCHANGED <<entry, loop, up, silent, stray>>

\* The connection is closed, which a read or a write of the worker finds, or the leader sent an
\* error.
Hangup == link # None /\ (link \in cut \/ Incoming = Error) /\ Leave /\ UNCHANGED faults
-----------------------------------------------------------------------------
(* The leader. *)

\* disconnect_worker, at the end of a loop: only the entry's own connection ends it.
Disconnect_Any(c) == IF entry = Unknown THEN Unknown ELSE None
Disconnect_Never(c) == entry
Disconnect(c) == IF entry = c THEN None ELSE entry

EndLoop(c) ==
    /\ loop' = [loop EXCEPT ![c] = "closed"]
    /\ entry' = Disconnect(c)
    /\ up' = [up EXCEPT ![c] = <<>>]
    /\ cut' = cut \cup {c} /\ silent' = silent \ {c} /\ stray' = stray \ {c}
    /\ UNCHANGED <<link, joined, down, faults>>

\* The loop learns that its connection is closed, before or after the hello.
LoopEnds(c) == loop[c] # "closed" /\ c \in cut \ silent /\ EndLoop(c)

\* connect_worker: one connection per worker.
Accepts_Any == TRUE
Accepts == entry \notin Conn

Open(c) ==
    /\ loop[c] = "hello"
    /\ IF Accepts
       THEN /\ loop' = [loop EXCEPT ![c] = "serving"]
            /\ entry' = c
            /\ down' = [down EXCEPT ![c] = IF link = c THEN <<Welcome>> ELSE <<>>]
            /\ UNCHANGED cut
       ELSE /\ loop' = [loop EXCEPT ![c] = "closed"]
            /\ down' = [down EXCEPT ![c] = IF link = c THEN <<Error>> ELSE <<>>]
            /\ cut' = cut \cup {c}
            /\ UNCHANGED entry
    /\ silent' = IF Accepts THEN silent ELSE silent \ {c}
    /\ UNCHANGED <<link, joined, up, stray, faults>>

\* send_to_worker: to the connection of the entry, whichever loop asks for it.
SendDown(message) ==
    IF entry \in Conn \ cut
    THEN /\ Len(down[entry]) < MaxQueue
         /\ down' = [down EXCEPT ![entry] = Append(@, message)]
    ELSE UNCHANGED down

\* A loop reads what was sent, also after the connection broke.
Arrived(c) == IF loop[c] = "serving" /\ up[c] # <<>> THEN Head(up[c]) ELSE [type |-> "none"]
TakeUp(c) == up' = [up EXCEPT ![c] = Tail(@)]

\* try_send: into a full queue it does not go.
TrySendDown(message) ==
    IF entry \in Conn /\ Len(down[entry]) >= MaxQueue THEN UNCHANGED down ELSE SendDown(message)

\* forget_worker: the entry goes, the worker may be told, the loop stays.
Forget ==
    /\ Fault
    /\ entry # Unknown
    /\ entry' = Unknown
    /\ TrySendDown(Error)
    /\ stray' = {c \in Conn : loop[c] = "serving"}
    /\ UNCHANGED <<link, joined, loop, up, cut, silent>>
-----------------------------------------------------------------------------
(* The network and the machines. *)

Break(c) ==
    /\ Fault
    /\ c \notin cut /\ (link = c \/ loop[c] # "closed")
    /\ cut' = cut \cup {c}
    /\ silent' \in {silent, IF loop[c] = "closed" THEN silent ELSE silent \cup {c}}
    /\ UNCHANGED <<link, joined, entry, loop, up, down, stray>>

\* The leader's daemon stops or dies, and starts again: what it knew of workers is what the
\* database has, none of them online.
LeaderRestarts ==
    /\ Fault
    /\ loop' = [c \in Conn |-> "closed"]
    /\ entry' \in {None, Unknown}
    /\ up' = [c \in Conn |-> <<>>]
    /\ cut' = Conn /\ silent' = {} /\ stray' = {}
    /\ UNCHANGED <<link, joined, down>>

\* The worker's daemon does.
WorkerRestarts == link # None /\ Leave /\ Fault

\* Steps that move no payload.
Connect ==
    \/ \E c \in Conn : Dial(c) \/ LoopEnds(c) \/ Open(c) \/ Break(c)
    \/ Hangup \/ Forget \/ LeaderRestarts \/ WorkerRestarts
-----------------------------------------------------------------------------
(* Properties. *)

\* A loop that serves is the one the worker is online by, unless the worker was forgotten
\* meanwhile, so the end of an old connection never takes a new one offline
\* (disconnect_worker's comparison, with the refusal in connect_worker).
ServedIsOnline ==
    \A c \in Conn : loop[c] = "serving" /\ c \notin stray => entry = c
=============================================================================
