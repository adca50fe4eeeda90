------------------------------ MODULE AgentLink -------------------------------
(***************************************************************************)
(* Commands and inventories over the connection of one worker              *)
(* (cluster/leader.rs, cluster/worker.rs).  A caller of the leader waits   *)
(* for an answer until it times out or gives up; the worker remembers its  *)
(* last answers; the leader keeps the inventory the worker sent last, in   *)
(* memory and in the table workers.                                        *)
(***************************************************************************)
EXTENDS AgentConnection, SequencesExt

CONSTANTS
    Command,     \* requests to the worker, each with an id of its own
    CacheSize,   \* COMMAND_CACHE_SIZE
    MaxVersion   \* bound: changes of the worker's sessions

Versions == 0..MaxVersion
ASSUME LinkBounds == CacheSize \in Nat \ {0} /\ MaxVersion \in Nat
ASSUME NoVersion == None \notin Versions /\ Unknown \notin Versions

VARIABLES
    call,        \* each command: what its caller is at, or was told
    via,         \* the connection whose sender its caller took
    pending,     \* the leader's callers by command id
    executed,    \* how many times the worker carried a command out (history)
    cache,       \* the worker's last answers, by command id
    version,     \* the inventory of the worker, as a number that grows
    known,       \* the inventory in the leader's memory
    row,         \* that in its table workers, or Unknown
    writing,     \* each loop: the inventory it has yet to write there
    forgetting   \* forget_worker has yet to remove the row

callerVars == <<call, via, pending>>
workerVars == <<executed, cache, version>>
inventoryVars == <<known, row, writing, forgetting>>
vars == <<connectionVars, callerVars, workerVars, inventoryVars>>

Calls == {"new", "sending", "waiting", "answered", "refused", "timeout", "gone"}
Inventory(v) == [type |-> "inventory", version |-> v]
Result(q) == [type |-> "result", id |-> q]
CommandMessage(q) == [type |-> "command", id |-> q]

TypeOK ==
    /\ ConnectionTypeOK({Inventory(v) : v \in Versions} \cup {Result(q) : q \in Command},
                        {CommandMessage(q) : q \in Command})
    /\ call \in [Command -> Calls] /\ via \in [Command -> Conn \cup {None}]
    /\ pending \subseteq Command
    /\ executed \in [Command -> Nat]
    /\ cache \in Seq(Command) /\ Len(cache) <= CacheSize
    /\ version \in Versions /\ known \in Versions /\ row \in Versions \cup {Unknown}
    /\ writing \in [Conn -> Versions \cup {None}] /\ forgetting \in BOOLEAN

Init ==
    /\ ConnectionInit
    /\ call = [q \in Command |-> "new"] /\ via = [q \in Command |-> None]
    /\ pending = {}
    /\ executed = [q \in Command |-> 0] /\ cache = <<>>
    /\ version = 0 /\ known = 0
    /\ row = IF entry = Unknown THEN Unknown ELSE 0
    /\ writing = [c \in Conn |-> None] /\ forgetting = FALSE
-----------------------------------------------------------------------------
(* Callers: request_with_audit. *)

Told(q, what) == call' = [call EXCEPT ![q] = what]

\* An unknown or offline worker is an error at once; otherwise the caller takes the sender of
\* the connection and enters itself in pending.
Ask(q) ==
    /\ call[q] = "new"
    /\ IF entry \in Conn
       THEN Told(q, "sending") /\ via' = [via EXCEPT ![q] = entry] /\ pending' = pending \cup {q}
       ELSE Told(q, "refused") /\ UNCHANGED <<via, pending>>
    /\ UNCHANGED <<connectionVars, workerVars, inventoryVars>>

\* The loop has ended, or its writer on a broken connection, and nobody takes messages for that
\* any more: an error.  Or the message is taken, and on a broken connection it is lost; a full
\* one makes the caller wait.
Send(q) ==
    /\ call[q] = "sending"
    /\ \/ /\ loop[via[q]] # "serving" \/ via[q] \in cut
          /\ Told(q, "refused") /\ pending' = pending \ {q} /\ UNCHANGED down
       \/ /\ loop[via[q]] = "serving"
          /\ Told(q, "waiting") /\ UNCHANGED pending
          /\ IF via[q] \in cut THEN UNCHANGED down
             ELSE /\ Len(down[via[q]]) < MaxQueue
                  /\ down' = [down EXCEPT ![via[q]] = Append(@, CommandMessage(q))]
    /\ UNCHANGED <<ends, up, faults, via, workerVars, inventoryVars>>

TimesOut_AsError(q) ==
    /\ call[q] = "waiting"
    /\ Told(q, "refused") /\ pending' = pending \ {q}
    /\ UNCHANGED <<connectionVars, via, workerVars, inventoryVars>>
TimesOut_WhileOnline(q) ==
    /\ call[q] = "waiting" /\ entry = via[q]
    /\ Told(q, "timeout") /\ pending' = pending \ {q}
    /\ UNCHANGED <<connectionVars, via, workerVars, inventoryVars>>
TimesOut_KeepsPending(q) ==
    /\ call[q] = "waiting"
    /\ Told(q, "timeout")
    /\ UNCHANGED <<connectionVars, via, pending, workerVars, inventoryVars>>
TimesOut(q) ==
    /\ call[q] = "waiting"
    /\ Told(q, "timeout") /\ pending' = pending \ {q}
    /\ UNCHANGED <<connectionVars, via, workerVars, inventoryVars>>

\* The HTTP client closes its connection: the handler is dropped where it waits, and what it
\* put in pending stays there.
GivesUp(q) ==
    /\ call[q] \in {"sending", "waiting"}
    /\ Told(q, "gone")
    /\ UNCHANGED <<connectionVars, via, pending, workerVars, inventoryVars>>
-----------------------------------------------------------------------------
(* The worker. *)

Changes ==
    /\ version < MaxVersion /\ version' = version + 1
    /\ UNCHANGED <<connectionVars, callerVars, executed, cache, inventoryVars>>

Welcomed ==
    /\ ~joined /\ Incoming = Welcome
    /\ joined' = TRUE /\ TakeDown
    /\ UNCHANGED <<link, entry, loop, cut, silent, stray, up, faults>>
    /\ UNCHANGED <<callerVars, workerVars, inventoryVars>>

\* On a broken connection the worker fails to send, which is HangsUp.
Tick ==
    /\ joined /\ SendUp(<<Inventory(version)>>)
    /\ UNCHANGED <<ends, down, faults, callerVars, workerVars, inventoryVars>>

\* CommandResultCache::insert.
Cached(q) == IF Len(cache) < CacheSize THEN Append(cache, q) ELSE Append(Tail(cache), q)

\* A command is carried out to its end before the next message is read, then its result is
\* sent; if that fails the worker leaves, and dials again.
TakesCommand ==
    /\ joined /\ Incoming.type = "command"
    /\ LET q == Incoming.id
       IN  /\ IF q \in Range(cache) THEN UNCHANGED <<executed, cache>>
              ELSE executed' = [executed EXCEPT ![q] = @ + 1] /\ cache' = Cached(q)
           /\ IF link \in cut THEN Leave
              ELSE /\ SendUp(<<Result(q)>>) /\ TakeDown
                   /\ UNCHANGED <<link, joined, entry, loop, cut, silent, stray>>
    /\ UNCHANGED <<faults, version, callerVars, inventoryVars>>
-----------------------------------------------------------------------------
(* The leader's loops. *)

NotWriting(c) == writing[c] = None

\* update_inventory: memory first, under the lock ...
ServeInventory(c) ==
    /\ Arrived(c).type = "inventory" /\ NotWriting(c)
    /\ IF entry = Unknown THEN EndLoop(c) /\ UNCHANGED <<known, writing>>
       ELSE /\ known' = Arrived(c).version
            /\ writing' = [writing EXCEPT ![c] = Arrived(c).version]
            /\ TakeUp(c) /\ UNCHANGED <<ends, down, faults>>
    /\ UNCHANGED <<row, forgetting, callerVars, workerVars>>

\* ... and then the table, which may fail and end the loop.
WriteRow(c) ==
    /\ ~NotWriting(c)
    /\ writing' = [writing EXCEPT ![c] = None]
    /\ \/ row' = writing[c] /\ UNCHANGED connectionVars
       \/ EndLoop(c) /\ UNCHANGED row
    /\ UNCHANGED <<known, forgetting, callerVars, workerVars>>

\* resolve_result: for a caller that still waits.
ServeResult(c) ==
    /\ Arrived(c).type = "result" /\ NotWriting(c)
    /\ LET q == Arrived(c).id
       IN  /\ pending' = pending \ {q}
           /\ IF q \in pending /\ call[q] = "waiting" THEN Told(q, "answered") ELSE UNCHANGED call
    /\ TakeUp(c)
    /\ UNCHANGED <<ends, down, faults, via, workerVars, inventoryVars>>

\* connect_worker keeps the inventory of an entry, and starts an unknown worker's without.
Opens(c) ==
    /\ Open(c)
    /\ known' = IF entry = Unknown THEN 0 ELSE known
    /\ UNCHANGED <<row, writing, forgetting, callerVars, workerVars>>

\* A slot is not dialled while a caller still has its old sender.
Dials(c) ==
    /\ Dial(c) /\ \A q \in Command : call[q] = "sending" => via[q] # c
    /\ UNCHANGED <<callerVars, workerVars, inventoryVars>>

Ends(c) ==
    /\ NotWriting(c) /\ LoopEnds(c)
    /\ UNCHANGED <<callerVars, workerVars, inventoryVars>>

\* forget_worker: the entry first, the row afterwards.
Forgets ==
    /\ Forget /\ ~forgetting /\ forgetting' = TRUE
    /\ UNCHANGED <<known, row, writing, callerVars, workerVars>>

RemoveRow ==
    /\ forgetting /\ forgetting' = FALSE
    /\ row' = Unknown
    /\ UNCHANGED <<connectionVars, known, writing, callerVars, workerVars>>
-----------------------------------------------------------------------------
(* The network and the machines. *)

Breaks(c) == Break(c) /\ UNCHANGED <<callerVars, workerVars, inventoryVars>>
HangsUp == Hangup /\ UNCHANGED <<callerVars, workerVars, inventoryVars>>

Waiting == {q \in Command : call[q] \in {"sending", "waiting"}}

\* The leader starts again with the rows of its table; its callers are gone.
LeaderStartsAgain ==
    /\ LeaderRestarts
    /\ entry' = IF row = Unknown THEN Unknown ELSE None
    /\ known' = IF row = Unknown THEN 0 ELSE row
    /\ writing' = [c \in Conn |-> None] /\ forgetting' = FALSE
    /\ call' = [q \in Command |-> IF q \in Waiting THEN "gone" ELSE call[q]]
    /\ pending' = {}
    /\ UNCHANGED <<row, via, workerVars>>

WorkerStartsAgain ==
    /\ WorkerRestarts /\ cache' = <<>>
    /\ UNCHANGED <<executed, version, callerVars, inventoryVars>>

Next ==
    \/ \E q \in Command : Ask(q) \/ Send(q) \/ TimesOut(q) \/ GivesUp(q)
    \/ Changes \/ Welcomed \/ Tick \/ TakesCommand
    \/ \E c \in Conn : \/ ServeInventory(c) \/ WriteRow(c) \/ ServeResult(c)
                       \/ Dials(c) \/ Opens(c) \/ Ends(c) \/ Breaks(c)
    \/ Forgets \/ RemoveRow \/ HangsUp \/ LeaderStartsAgain \/ WorkerStartsAgain

\* Callers' own steps, the worker's reads and the leader's loops go on.
Fairness ==
    /\ \A q \in Command : WF_vars(Send(q)) /\ WF_vars(TimesOut(q))
    /\ WF_vars(Welcomed \/ TakesCommand \/ HangsUp)
    /\ \A c \in Conn : WF_vars(ServeInventory(c) \/ WriteRow(c) \/ ServeResult(c) \/ Opens(c) \/ Ends(c))
Spec == Init /\ [][Next]_vars /\ Fairness
-----------------------------------------------------------------------------
(* Properties. *)

\* The caller's view of a command.
Outcome(what) ==
    CASE what \in {"new", "sending", "waiting"} -> "open"
      [] what \in {"timeout", "gone"} -> "unknown"
      [] OTHER -> what

Promise == INSTANCE RemoteCall WITH
               outcome <- [q \in Command |-> Outcome(call[q])],
               times <- executed

\* Through lost connections, restarts and late answers: never twice, never after an error,
\* and an answer only from the worker ("refuses new remote actions rather than queueing them",
\* README.md:185).
ImplementsCall == Promise!CallSpec

\* pending holds whom an answer may still reach, and nobody else but callers that gave up.
PendingIsAwaited ==
    /\ \A q \in pending : call[q] \in {"sending", "waiting", "gone"}
    /\ Waiting \subseteq pending

\* The inventory the leader shows of a worker does not go back to an older one, not through a
\* broken connection and the next one, unless the leader starts again or the worker was forgotten
\* while an old loop went on (update_inventory takes whatever a loop brings it).
InventoryGoesForward ==
    [][ known' < known => entry = Unknown \/ entry' \notin Conn \/ stray # {} ]_known

\* Whatever becomes of worker and connection, a caller is answered: by the timeout at the
\* latest, except that nothing limits how long it waits to send on a connection that is full
\* and whose end the leader is not told of.
CallersAreAnswered ==
    \A q \in Command : call[q] = "sending" ~> call[q] \notin {"sending", "waiting"} \/ silent # {}
=============================================================================
