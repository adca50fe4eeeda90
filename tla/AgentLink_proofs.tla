--------------------------- MODULE AgentLink_proofs ---------------------------
(***************************************************************************)
(* What AgentLink keeps, for any number of commands, connections, messages *)
(* and faults: its promise to a caller (RemoteCall), who is in pending,    *)
(* and that the leader's inventory of the worker does not go back.         *)
(***************************************************************************)
EXTENDS AgentLink, AgentConnection_proofs

Ups == {Inventory(v) : v \in Versions} \cup {Result(q) : q \in Command}
Downs == {CommandMessage(q) : q \in Command}

(* What is on its way. *)

\* A step that sends nothing: of each direction's messages the first may go, or all of them;
\* what it adds is a word of the connection's own.
Drains(c) ==
    \E s \in {0, 1} : \A i \in 1..Len(down'[c]) :
        \/ down'[c][i] \in {Welcome, Error}
        \/ i + s \in 1..Len(down[c]) /\ down'[c][i] = down[c][i + s]
DownDrains == \A c \in Conn : Drains(c)

Empties(c) ==
    \E s \in {0, 1} : \A i \in 1..Len(up'[c]) :
        i + s \in 1..Len(up[c]) /\ up'[c][i] = up[c][i + s]
UpDrains == \A c \in Conn : Empties(c)

LEMMA MessageKinds ==
  /\ \A m \in Ups : /\ m.type \in {"inventory", "result"}
                    /\ m.type = "inventory" => m.version \in Versions /\ m = Inventory(m.version)
                    /\ m.type = "result" => m.id \in Command /\ m = Result(m.id)
  /\ \A m \in Downs \cup {Welcome, Error} :
       /\ m.type = "command" => m.id \in Command /\ m = CommandMessage(m.id)
       /\ m.type # "none"
  /\ \A q \in Command : CommandMessage(q) \notin {Welcome, Error}
  /\ \A q, r \in Command : CommandMessage(q) = CommandMessage(r) => q = r
  /\ \A q, r \in Command : Result(q) = Result(r) => q = r
  /\ \A q \in Command : Result(q).type = "result" /\ CommandMessage(q).type = "command"
  /\ \A v : Inventory(v).type = "inventory" /\ Inventory(v).version = v
  /\ Welcome.type = "welcome" /\ Error.type = "error"
<1>1. \A m \in Ups : /\ m.type \in {"inventory", "result"}
                     /\ m.type = "inventory" => m.version \in Versions /\ m = Inventory(m.version)
                     /\ m.type = "result" => m.id \in Command /\ m = Result(m.id)
  BY DEF Ups, Inventory, Result
<1>2. \A m \in Downs \cup {Welcome, Error} :
       /\ m.type = "command" => m.id \in Command /\ m = CommandMessage(m.id)
       /\ m.type # "none"
  BY DEF Downs, CommandMessage, Welcome, Error
<1>3. \A q \in Command : /\ Result(q).type = "result" /\ Result(q).id = q
                         /\ CommandMessage(q).type = "command" /\ CommandMessage(q).id = q
  BY DEF Result, CommandMessage
<1>4. Welcome.type = "welcome" /\ Error.type = "error"
  BY DEF Welcome, Error
<1>5. \A v : Inventory(v).type = "inventory" /\ Inventory(v).version = v
  BY DEF Inventory
<1>6. \A q \in Command : CommandMessage(q) \notin {Welcome, Error}
  <2>1. \A q \in Command : CommandMessage(q) # Welcome /\ CommandMessage(q) # Error
    BY <1>3, <1>4
  <2>2. QED
    BY <2>1
<1>7. \A q, r \in Command : CommandMessage(q) = CommandMessage(r) => q = r
  <2>1. SUFFICES ASSUME NEW q \in Command, NEW r \in Command, CommandMessage(q) = CommandMessage(r)
                 PROVE  q = r
    OBVIOUS
  <2>2. CommandMessage(q).id = q /\ CommandMessage(r).id = r
    BY <1>3
  <2>3. QED
    BY <2>1, <2>2
<1>8. \A q, r \in Command : Result(q) = Result(r) => q = r
  <2>1. SUFFICES ASSUME NEW q \in Command, NEW r \in Command, Result(q) = Result(r)
                 PROVE  q = r
    OBVIOUS
  <2>2. Result(q).id = q /\ Result(r).id = r
    BY <1>3
  <2>3. QED
    BY <2>1, <2>2
<1>9. QED
  BY <1>1, <1>2, <1>3, <1>4, <1>5, <1>6, <1>7, <1>8

LEMMA Unsent ==
  ASSUME ConnectionTypeOK(Ups, Downs)
  PROVE  /\ UNCHANGED down => DownDrains
         /\ UNCHANGED up => UpDrains
<1>1. \A c \in Conn : /\ Len(down[c]) \in Nat /\ Len(up[c]) \in Nat
  BY LenProperties DEF ConnectionTypeOK
<1>2. ASSUME UNCHANGED down, NEW c \in Conn
      PROVE  Drains(c)
  <2>1. \A i \in 1..Len(down[c]) : i + 0 \in 1..Len(down[c]) /\ down[c][i] = down[c][i + 0]
    BY <1>1
  <2>2. QED
    BY <1>2, <2>1 DEF Drains
<1>3. ASSUME UNCHANGED up, NEW c \in Conn
      PROVE  Empties(c)
  <2>1. \A i \in 1..Len(up[c]) : i + 0 \in 1..Len(up[c]) /\ up[c][i] = up[c][i + 0]
    BY <1>1
  <2>2. QED
    BY <1>3, <2>1 DEF Empties
<1>4. QED
  BY <1>2, <1>3 DEF DownDrains, UpDrains

\* One connection at a time.
LEMMA DrainsAt ==
  ASSUME NEW Down, down \in [Conn -> Seq(Down)], NEW d \in Conn, NEW new \in Seq(Down),
         down' = [down EXCEPT ![d] = new],
         \/ new = <<>> \/ new \in {<<Welcome>>, <<Error>>}
         \/ new = Append(down[d], Error)
         \/ down[d] # <<>> /\ new = Tail(down[d])
  PROVE  DownDrains
<1>1. SUFFICES ASSUME NEW c \in Conn
               PROVE  Drains(c)
  BY DEF DownDrains
<1>2. Len(down[c]) \in Nat /\ Len(down[d]) \in Nat
  BY LenProperties
<1>3. CASE c # d \/ new = down[d]
  <2>1. \A i \in 1..Len(down[c]) : i + 0 \in 1..Len(down[c]) /\ down'[c][i] = down[c][i + 0]
    BY <1>2, <1>3
  <2>2. QED
    BY <1>3, <2>1 DEF Drains
<1>4. CASE c = d /\ new = <<>>
  BY <1>4 DEF Drains
<1>5. CASE c = d /\ new \in {<<Welcome>>, <<Error>>}
  BY <1>5 DEF Drains
<1>6. CASE c = d /\ new = Append(down[d], Error)
  <2>1. \A i \in 1..Len(new) : \/ new[i] \in {Welcome, Error}
                               \/ i + 0 \in 1..Len(down[d]) /\ new[i] = down[d][i + 0]
    BY <1>2, <1>6
  <2>2. QED
    BY <1>6, <2>1 DEF Drains
<1>7. CASE c = d /\ down[d] # <<>> /\ new = Tail(down[d])
  <2>1. Len(new) = Len(down[d]) - 1 /\ \A i \in 1..Len(new) : new[i] = down[d][i + 1]
    BY <1>7, HeadTailProperties
  <2>2. \A i \in 1..Len(new) : i + 1 \in 1..Len(down[d]) /\ new[i] = down[d][i + 1]
    BY <1>2, <2>1
  <2>3. QED
    BY <1>7, <2>2 DEF Drains
<1>8. QED
  BY <1>3, <1>4, <1>5, <1>6, <1>7

LEMMA EmptiesAt ==
  ASSUME NEW Up, up \in [Conn -> Seq(Up)], NEW d \in Conn, NEW new \in Seq(Up),
         up' = [up EXCEPT ![d] = new],
         new = <<>> \/ (up[d] # <<>> /\ new = Tail(up[d]))
  PROVE  UpDrains
<1>1. SUFFICES ASSUME NEW c \in Conn
               PROVE  Empties(c)
  BY DEF UpDrains
<1>2. Len(up[c]) \in Nat /\ Len(up[d]) \in Nat
  BY LenProperties
<1>3. CASE c # d
  <2>1. \A i \in 1..Len(up[c]) : i + 0 \in 1..Len(up[c]) /\ up'[c][i] = up[c][i + 0]
    BY <1>2, <1>3
  <2>2. QED
    BY <1>3, <2>1 DEF Empties
<1>4. CASE c = d /\ new = <<>>
  BY <1>4 DEF Empties
<1>5. CASE c = d /\ up[d] # <<>> /\ new = Tail(up[d])
  <2>1. Len(new) = Len(up[d]) - 1 /\ \A i \in 1..Len(new) : new[i] = up[d][i + 1]
    BY <1>5, HeadTailProperties
  <2>2. \A i \in 1..Len(new) : i + 1 \in 1..Len(up[d]) /\ new[i] = up[d][i + 1]
    BY <1>2, <2>1
  <2>3. QED
    BY <1>5, <2>2 DEF Empties
<1>6. QED
  BY <1>3, <1>4, <1>5
LEMMA ConnectFlows ==
  ASSUME ConnectionTypeOK(Ups, Downs), Connect \/ (link # None /\ Leave) \/ \E c \in Conn : EndLoop(c)
  PROVE  DownDrains /\ UpDrains
<1> DEFINE D == Downs \cup {Welcome, Error}
<1>1. /\ up \in [Conn -> Seq(Ups)] /\ down \in [Conn -> Seq(D)]
      /\ link \in Conn \cup {None}
  BY DEF ConnectionTypeOK
<1>2. /\ <<>> \in Seq(Ups) /\ <<>> \in Seq(D)
      /\ <<Welcome>> \in Seq(D) /\ <<Error>> \in Seq(D)
  BY EmptySeq
<1> HIDE DEF D
<1>3. ASSUME UNCHANGED <<up, down>>
      PROVE  DownDrains /\ UpDrains
  BY <1>3, Unsent
<1>4. ASSUME NEW c \in Conn, EndLoop(c)
      PROVE  DownDrains /\ UpDrains
  <2>1. UpDrains
    BY <1>1, <1>2, <1>4, EmptiesAt DEF EndLoop
  <2>2. QED
    BY <1>4, <2>1, Unsent DEF EndLoop
<1>5. ASSUME link # None, Leave
      PROVE  DownDrains /\ UpDrains
  <2>1. link \in Conn
    BY <1>1, <1>5
  <2>2. DownDrains
    BY <1>1, <1>2, <1>5, <2>1, DrainsAt DEF Leave
  <2>3. QED
    BY <1>5, <2>2, Unsent DEF Leave
<1>6. ASSUME NEW c \in Conn, Open(c)
      PROVE  DownDrains /\ UpDrains
  <2>1. \E new \in {<<>>, <<Welcome>>, <<Error>>} : down' = [down EXCEPT ![c] = new]
    BY <1>6 DEF Open
  <2>2. DownDrains
    BY <1>1, <1>2, <2>1, DrainsAt
  <2>3. QED
    BY <1>6, <2>2, Unsent DEF Open
<1>7. CASE Forget
  <2>1. CASE UNCHANGED down
    BY <1>3, <1>7, <2>1 DEF Forget
  <2>2. CASE ~UNCHANGED down
    <3>1. /\ entry \in Conn
          /\ down' = [down EXCEPT ![entry] = Append(down[entry], Error)]
      BY <1>7, <2>2 DEF Forget, TrySendDown, SendDown
    <3>2. Append(down[entry], Error) \in Seq(D)
      BY <1>1, <3>1 DEF D
    <3>3. DownDrains
      BY <1>1, <3>1, <3>2, DrainsAt
    <3>4. QED
      BY <1>7, <3>3, Unsent DEF Forget
  <2>3. QED
    BY <2>1, <2>2
<1>8. CASE LeaderRestarts
  <2>1. ASSUME NEW c \in Conn
        PROVE  Empties(c)
    BY <1>8 DEF LeaderRestarts, Empties
  <2>2. QED
    BY <1>8, <2>1, Unsent DEF LeaderRestarts, UpDrains
<1>9. ASSUME NEW c \in Conn, Dial(c) \/ LoopEnds(c) \/ Open(c) \/ Break(c)
      PROVE  DownDrains /\ UpDrains
  BY <1>3, <1>4, <1>6, <1>9 DEF Dial, LoopEnds, Break
<1>10. CASE Hangup \/ WorkerRestarts
  BY <1>5, <1>10 DEF Hangup, WorkerRestarts
<1>11. CASE Connect
  BY <1>7, <1>8, <1>9, <1>10, <1>11 DEF Connect
<1>12. QED
  BY <1>4, <1>5, <1>11

\* Of a loop that reads: its messages are one fewer, and the first is gone.
LEMMA TakeUpFlows ==
  ASSUME ConnectionTypeOK(Ups, Downs), NEW c \in Conn, Arrived(c).type # "none", TakeUp(c)
  PROVE  UpDrains
<1>1. up[c] # <<>>
  BY DEF Arrived
<1>2. up \in [Conn -> Seq(Ups)]
  BY DEF ConnectionTypeOK
<1>3. Tail(up[c]) \in Seq(Ups)
  BY <1>1, <1>2, HeadTailProperties
<1>4. QED
  BY <1>1, <1>2, <1>3, EmptiesAt DEF TakeUp

LEMMA TakeDownFlows ==
  ASSUME ConnectionTypeOK(Ups, Downs), Incoming.type # "none", TakeDown
  PROVE  DownDrains
<1> DEFINE D == Downs \cup {Welcome, Error}
<1>1. link \in Conn /\ down[link] # <<>> /\ down \in [Conn -> Seq(D)]
  BY DEF Incoming, ConnectionTypeOK
<1>2. Tail(down[link]) \in Seq(D)
  BY <1>1, HeadTailProperties
<1> HIDE DEF D
<1>3. QED
  BY <1>1, <1>2, DrainsAt DEF TakeDown
-----------------------------------------------------------------------------
(* The types. *)

Fields ==
    /\ call \in [Command -> Calls] /\ via \in [Command -> Conn \cup {None}]
    /\ pending \subseteq Command
    /\ executed \in [Command -> Nat]
    /\ cache \in Seq(Command) /\ Len(cache) <= CacheSize
    /\ version \in Versions /\ known \in Versions /\ row \in Versions \cup {Unknown}
    /\ writing \in [Conn -> Versions \cup {None}] /\ forgetting \in BOOLEAN

LEMMA TypeParts ==
  /\ TypeOK <=> ConnectionTypeOK(Ups, Downs) /\ Fields
  /\ TypeOK' <=> ConnectionTypeOK(Ups, Downs)' /\ Fields'
  BY DEF TypeOK, Fields, Ups, Downs

LEMMA LeaderTypes ==
  ASSUME TypeOK, NEW c \in Conn,
         ServeInventory(c) \/ WriteRow(c) \/ ServeResult(c)
  PROVE  TypeOK'
<1> DEFINE C == ConnectionTypeOK(Ups, Downs)
<1>1. C /\ Fields /\ (C' /\ Fields' => TypeOK')
  BY TypeParts
<1>2. EndLoop(c) => C'
  BY <1>1, EndLoopType
<1>3. UNCHANGED connectionVars => C'
  BY <1>1 DEF ConnectionTypeOK, connectionVars, ends
<1>4. /\ Arrived(c).type # "none" => Arrived(c) \in Ups
      /\ Arrived(c).type # "none" /\ TakeUp(c) /\ UNCHANGED <<ends, down, faults>> => C'
  <2>1. up \in [Conn -> Seq(Ups)]
    BY <1>1 DEF ConnectionTypeOK
  <2>2. Arrived(c).type # "none" => Arrived(c) \in Ups /\ (TakeUp(c) => up' \in [Conn -> Seq(Ups)])
    BY <2>1, ArrivedType
  <2>3. up' \in [Conn -> Seq(Ups)] /\ UNCHANGED <<ends, down, faults>> => C'
    BY <1>1 DEF ConnectionTypeOK, ends
  <2>4. QED
    BY <2>2, <2>3
<1>5. CASE ServeInventory(c)
  <2>1. Arrived(c).type = "inventory" /\ Arrived(c).version \in Versions
    BY <1>4, <1>5, MessageKinds DEF ServeInventory
  <2>2. C'
    BY <1>2, <1>4, <1>5, <2>1 DEF ServeInventory
  <2>3. known' \in Versions /\ writing' \in [Conn -> Versions \cup {None}]
    BY <1>1, <1>5, <2>1 DEF ServeInventory, Fields
  <2>4. QED
    BY <1>1, <1>5, <2>2, <2>3 DEF ServeInventory, Fields, callerVars, workerVars
<1>6. CASE WriteRow(c)
  <2>1. C'
    BY <1>2, <1>3, <1>6 DEF WriteRow
  <2>2. row' \in Versions \cup {Unknown} /\ writing' \in [Conn -> Versions \cup {None}]
    BY <1>1, <1>6 DEF WriteRow, NotWriting, Fields
  <2>3. QED
    BY <1>1, <1>6, <2>1, <2>2 DEF WriteRow, Fields, callerVars, workerVars
<1>7. CASE ServeResult(c)
  <2>1. Arrived(c).type = "result" /\ Arrived(c).id \in Command
    BY <1>4, <1>7, MessageKinds DEF ServeResult
  <2>2. C'
    BY <1>4, <1>7, <2>1 DEF ServeResult
  <2>3. call' \in [Command -> Calls] /\ pending' \subseteq Command
    BY <1>1, <1>7, <2>1 DEF ServeResult, Told, Fields, Calls
  <2>4. QED
    BY <1>1, <1>7, <2>2, <2>3 DEF ServeResult, Fields, workerVars, inventoryVars
<1>8. QED
  BY <1>5, <1>6, <1>7
LEMMA CallerTypes ==
  ASSUME TypeOK, NEW q \in Command, Ask(q) \/ Send(q) \/ TimesOut(q) \/ GivesUp(q)
  PROVE  TypeOK'
<1> DEFINE C == ConnectionTypeOK(Ups, Downs)
<1>1. C /\ Fields /\ (C' /\ Fields' => TypeOK')
  BY TypeParts
<1>2. \A what \in Calls : Told(q, what) => call' \in [Command -> Calls]
  BY <1>1 DEF Told, Fields
<1>3. call' \in [Command -> Calls]
  BY <1>2 DEF Ask, Send, TimesOut, GivesUp, Calls
<1>4. pending' \subseteq Command /\ via' \in [Command -> Conn \cup {None}]
  BY <1>1 DEF Ask, Send, TimesOut, GivesUp, Fields
<1>5. Fields'
  BY <1>1, <1>3, <1>4 DEF Ask, Send, TimesOut, GivesUp, Fields, workerVars, inventoryVars
<1>6. down' \in [Conn -> Seq(Downs \cup {Welcome, Error})]
  <2>1. down \in [Conn -> Seq(Downs \cup {Welcome, Error})] /\ CommandMessage(q) \in Downs
    BY <1>1 DEF ConnectionTypeOK, Downs
  <2>2. ASSUME via[q] \in Conn, down' = [down EXCEPT ![via[q]] = Append(@, CommandMessage(q))]
        PROVE  down' \in [Conn -> Seq(Downs \cup {Welcome, Error})]
    <3>1. Append(down[via[q]], CommandMessage(q)) \in Seq(Downs \cup {Welcome, Error})
      BY <2>1, <2>2
    <3>2. QED
      BY <2>1, <2>2, <3>1
  <2>3. ASSUME via[q] \notin Conn, down' = [down EXCEPT ![via[q]] = Append(@, CommandMessage(q))]
        PROVE  down' = down
    BY <2>1, <2>3
  <2>4. \/ down' = down
        \/ down' = [down EXCEPT ![via[q]] = Append(@, CommandMessage(q))]
    BY DEF Ask, Send, TimesOut, GivesUp, connectionVars
  <2>5. QED
    BY <2>1, <2>2, <2>3, <2>4
<1>7. UNCHANGED <<ends, up, faults>>
  BY DEF Ask, Send, TimesOut, GivesUp, connectionVars
<1>8. C'
  BY <1>1, <1>6, <1>7 DEF ConnectionTypeOK, ends
<1>9. QED
  BY <1>1, <1>5, <1>8

\* CommandResultCache holds CacheSize answers at most.
LEMMA SeqDomain ==
  ASSUME NEW S, NEW s \in Seq(S)
  PROVE  Range(s) = {s[i] : i \in 1..Len(s)}
  BY LenProperties DEF Range

LEMMA CachedType ==
  ASSUME cache \in Seq(Command), Len(cache) <= CacheSize, NEW q \in Command
  PROVE  /\ Cached(q) \in Seq(Command) /\ Len(Cached(q)) <= CacheSize
         /\ \A r \in Range(Cached(q)) : r = q \/ r \in Range(cache)
<1>1. Len(cache) \in Nat /\ CacheSize \in Nat \ {0}
  BY LinkBounds, LenProperties
<1>2. CASE Len(cache) < CacheSize
  <2>1. Cached(q) = Append(cache, q)
    BY <1>2 DEF Cached
  <2>2. Cached(q) \in Seq(Command) /\ Len(Cached(q)) = Len(cache) + 1
    BY <1>1, <2>1
  <2>3. \A i \in 1..Len(Cached(q)) : Cached(q)[i] = q \/ (i \in 1..Len(cache) /\ Cached(q)[i] = cache[i])
    BY <1>1, <2>1, <2>2
  <2>4. \A r \in Range(Cached(q)) : r = q \/ r \in Range(cache)
    BY <2>2, <2>3, SeqDomain
  <2>5. QED
    BY <1>1, <1>2, <2>2, <2>4
<1>3. CASE ~(Len(cache) < CacheSize)
  <2>1. Cached(q) = Append(Tail(cache), q) /\ cache # <<>>
    BY <1>1, <1>3 DEF Cached
  <2>2. /\ Tail(cache) \in Seq(Command) /\ Len(Tail(cache)) = Len(cache) - 1
        /\ \A i \in 1..Len(Tail(cache)) : Tail(cache)[i] = cache[i + 1]
    BY <2>1, HeadTailProperties
  <2>3. Cached(q) \in Seq(Command) /\ Len(Cached(q)) = Len(cache)
    <3>1. Len(Append(Tail(cache), q)) = Len(Tail(cache)) + 1 /\ Append(Tail(cache), q) \in Seq(Command)
      BY <2>2, AppendProperties
    <3>2. QED
      BY <1>1, <2>1, <2>2, <3>1
  <2>4. \A i \in 1..Len(Cached(q)) : Cached(q)[i] = q \/ (i + 1 \in 1..Len(cache) /\ Cached(q)[i] = cache[i + 1])
    <3>1. TAKE i \in 1..Len(Cached(q))
    <3>2. CASE i = Len(cache)
      BY <1>1, <2>1, <2>2, <2>3, <3>2
    <3>3. CASE i # Len(cache)
      <4>1. i \in 1..Len(Tail(cache)) /\ i + 1 \in 1..Len(cache)
        <5>1. i \in Nat /\ 1 <= i /\ i <= Len(cache) /\ Len(Tail(cache)) = Len(cache) - 1
          BY <2>2, <2>3
        <5>2. QED
          BY <1>1, <3>3, <5>1
      <4>2. Append(Tail(cache), q)[i] = Tail(cache)[i]
        BY <2>2, <4>1, AppendProperties
      <4>3. QED
        BY <2>1, <2>2, <4>1, <4>2
    <3>4. QED
      BY <3>2, <3>3
  <2>5. \A r \in Range(Cached(q)) : r = q \/ r \in Range(cache)
    BY <2>3, <2>4, SeqDomain
  <2>6. QED
    BY <2>3, <2>5
<1>4. QED
  BY <1>2, <1>3

LEMMA WorkerTypes ==
  ASSUME TypeOK, Changes \/ Welcomed \/ Tick \/ TakesCommand
  PROVE  TypeOK'
<1> DEFINE C == ConnectionTypeOK(Ups, Downs)
<1>1. C /\ Fields /\ (C' /\ Fields' => TypeOK')
  BY TypeParts
<1>2. joined => link \in Conn
  BY <1>1 DEF ConnectionTypeOK
<1>3. Incoming.type # "none" /\ TakeDown
        => /\ link \in Conn /\ Incoming \in Downs \cup {Welcome, Error}
           /\ down' \in [Conn -> Seq(Downs \cup {Welcome, Error})]
  BY <1>1, TakeDownType DEF ConnectionTypeOK
<1>4. CASE Changes
  <2>1. version' \in Versions
    BY <1>1, <1>4, LinkBounds DEF Changes, Fields, Versions
  <2>2. C'
    BY <1>1, <1>4 DEF Changes, ConnectionTypeOK, connectionVars, ends
  <2>3. QED
    BY <1>1, <1>4, <2>1, <2>2 DEF Changes, Fields, callerVars, inventoryVars
<1>5. CASE Welcomed
  <2>1. Incoming.type # "none"
    BY <1>5, MessageKinds DEF Welcomed
  <2>2. link \in Conn /\ down' \in [Conn -> Seq(Downs \cup {Welcome, Error})]
    BY <1>3, <1>5, <2>1 DEF Welcomed
  <2>3. None \notin Conn
    BY ConnAssumption
  <2>4. C'
    BY <1>1, <1>5, <2>2, <2>3 DEF Welcomed, ConnectionTypeOK
  <2>5. QED
    BY <1>1, <1>5, <2>4 DEF Welcomed, Fields, callerVars, workerVars, inventoryVars
<1>6. CASE Tick
  <2>1. <<Inventory(version)>> \in Seq(Ups)
    BY <1>1 DEF Fields, Ups
  <2>2. up' \in [Conn -> Seq(Ups)]
    BY <1>1, <1>2, <1>6, <2>1, SendUpType DEF Tick, ConnectionTypeOK
  <2>3. C'
    BY <1>1, <1>6, <2>2 DEF Tick, ConnectionTypeOK, ends
  <2>4. QED
    BY <1>1, <1>6, <2>3 DEF Tick, Fields, callerVars, workerVars, inventoryVars
<1>7. CASE TakesCommand
  <2>1. Incoming \in Downs \cup {Welcome, Error}
    <3>1. Incoming.type # "none" /\ link \in Conn
      BY <1>2, <1>7 DEF TakesCommand
    <3>2. down[link] # <<>> /\ Incoming = Head(down[link])
      BY <3>1 DEF Incoming
    <3>3. QED
      BY <1>1, <3>1, <3>2, HeadTailProperties DEF ConnectionTypeOK
  <2>2. Incoming.id \in Command
    BY <1>7, <2>1, MessageKinds DEF TakesCommand
  <2>3. /\ executed' \in [Command -> Nat] /\ cache' \in Seq(Command) /\ Len(cache') <= CacheSize
    <3>1. \/ UNCHANGED <<executed, cache>>
          \/ executed' = [executed EXCEPT ![Incoming.id] = @ + 1] /\ cache' = Cached(Incoming.id)
      BY <1>7 DEF TakesCommand
    <3>2. CASE UNCHANGED <<executed, cache>>
      BY <1>1, <3>2 DEF Fields
    <3>3. CASE executed' = [executed EXCEPT ![Incoming.id] = @ + 1] /\ cache' = Cached(Incoming.id)
      <4>1. executed' \in [Command -> Nat]
        BY <1>1, <2>2, <3>3 DEF Fields
      <4>2. cache' \in Seq(Command) /\ Len(cache') <= CacheSize
        BY <1>1, <2>2, <3>3, CachedType DEF Fields
      <4>3. QED
        BY <4>1, <4>2
    <3>4. QED
      BY <3>1, <3>2, <3>3
  <2>4. C'
    <3>1. CASE link \in cut
      <4>1. Leave /\ UNCHANGED faults /\ link # None
        BY <1>2, <1>7, <3>1, ConnAssumption DEF TakesCommand
      <4>2. QED
        BY <1>1, <4>1, LeaveType
    <3>2. CASE link \notin cut
      <4>1. /\ SendUp(<<Result(Incoming.id)>>) /\ TakeDown
            /\ UNCHANGED <<link, joined, entry, loop, cut, silent, stray, faults>>
        BY <1>7, <3>2 DEF TakesCommand
      <4>2. <<Result(Incoming.id)>> \in Seq(Ups)
        BY <2>2 DEF Ups
      <4>3. up' \in [Conn -> Seq(Ups)]
        BY <1>1, <1>2, <1>7, <4>1, <4>2, SendUpType DEF TakesCommand, ConnectionTypeOK
      <4>4. down' \in [Conn -> Seq(Downs \cup {Welcome, Error})]
        BY <1>3, <1>7, <4>1 DEF TakesCommand
      <4>5. QED
        BY <1>1, <4>1, <4>3, <4>4 DEF ConnectionTypeOK
    <3>3. QED
      BY <3>1, <3>2
  <2>5. UNCHANGED <<version, callerVars, inventoryVars>>
    BY <1>7 DEF TakesCommand
  <2>6. QED
    BY <1>1, <2>3, <2>4, <2>5 DEF Fields, callerVars, inventoryVars
<1>8. QED
  BY <1>4, <1>5, <1>6, <1>7

\* The steps that move no payload, with what AgentLink keeps of them.
Moves ==
    \/ \E c \in Conn : Dials(c) \/ Opens(c) \/ Ends(c) \/ Breaks(c)
    \/ Forgets \/ HangsUp \/ LeaderStartsAgain \/ WorkerStartsAgain

LEMMA MoveTypes ==
  ASSUME TypeOK, Moves
  PROVE  Connect /\ TypeOK'
<1> DEFINE C == ConnectionTypeOK(Ups, Downs)
<1>1. C /\ Fields /\ (C' /\ Fields' => TypeOK')
  BY TypeParts
<1>2. Connect
  BY DEF Moves, Connect, Dials, Opens, Ends, Breaks, Forgets, HangsUp, LeaderStartsAgain, WorkerStartsAgain
<1>3. C'
  BY <1>1, <1>2, ConnectType
<1> SUFFICES Fields'
  BY <1>1, <1>2, <1>3
<1> HIDE DEF C
<1>4. ASSUME NEW c \in Conn, Opens(c)
      PROVE  Fields'
  <2>1. known' \in Versions
    BY <1>1, <1>4, LinkBounds DEF Opens, Fields, Versions
  <2>2. QED
    BY <1>1, <1>4, <2>1 DEF Opens, Fields, callerVars, workerVars
<1>5. CASE Forgets
  BY <1>1, <1>5 DEF Forgets, Fields, callerVars, workerVars
<1>6. CASE LeaderStartsAgain
  <2>1. call' \in [Command -> Calls]
    BY <1>1, <1>6 DEF LeaderStartsAgain, Fields, Calls
  <2>2. known' \in Versions
    BY <1>1, <1>6, LinkBounds DEF LeaderStartsAgain, Fields, Versions
  <2>3. QED
    BY <1>1, <1>6, <2>1, <2>2 DEF LeaderStartsAgain, Fields, workerVars
<1>7. CASE WorkerStartsAgain
  <2>1. cache' \in Seq(Command) /\ Len(cache') <= CacheSize
    BY <1>7, LinkBounds DEF WorkerStartsAgain
  <2>2. QED
    BY <1>1, <1>7, <2>1 DEF WorkerStartsAgain, Fields, callerVars, inventoryVars
<1>8. CASE UNCHANGED <<callerVars, workerVars, inventoryVars>>
  BY <1>1, <1>8 DEF Fields, callerVars, workerVars, inventoryVars
<1>9. QED
  BY <1>4, <1>5, <1>6, <1>7, <1>8 DEF Moves, Dials, Ends, Breaks, HangsUp

LEMMA TypeStep ==
  ASSUME TypeOK, [Next]_vars
  PROVE  TypeOK'
<1>1. CASE RemoveRow
  BY <1>1 DEF RemoveRow, TypeOK, ConnectionTypeOK, connectionVars, ends, callerVars, workerVars
<1>2. CASE UNCHANGED vars
  BY <1>2 DEF vars, TypeOK, ConnectionTypeOK, connectionVars, ends, callerVars, workerVars, inventoryVars
<1>3. CASE Next
  BY <1>1, <1>3, CallerTypes, WorkerTypes, LeaderTypes, MoveTypes DEF Next, Moves
<1>4. QED
  BY <1>2, <1>3

LEMMA TypeInit ==
  ASSUME Init
  PROVE  TypeOK
<1>1. ConnectionTypeOK(Ups, Downs)
  <2>1. <<>> \in Seq(Ups) /\ <<>> \in Seq(Downs \cup {Welcome, Error})
    BY EmptySeq
  <2>2. /\ up \in [Conn -> Seq(Ups)] /\ down \in [Conn -> Seq(Downs \cup {Welcome, Error})]
        /\ loop \in [Conn -> Loops]
    BY <2>1 DEF Init, ConnectionInit, Loops
  <2>3. faults \in 0..MaxFaults
    BY BoundsAssumption DEF Init, ConnectionInit
  <2>4. QED
    BY <2>2, <2>3 DEF Init, ConnectionInit, ConnectionTypeOK
<1>2. 0 \in Versions
  BY LinkBounds DEF Versions
<1>3. <<>> \in Seq(Command) /\ Len(<<>>) <= CacheSize
  BY LinkBounds, EmptySeq
<1>4. Fields
  BY <1>2, <1>3 DEF Init, Fields, Calls
<1>5. QED
  BY <1>1, <1>4, TypeParts-----------------------------------------------------------------------------
(* The two ends of a connection. *)

\* The leader sends to an end that is there, and hears from one that was welcomed.
LinkInv ==
    /\ ServedIsOnline
    /\ entry \in Conn => loop[entry] = "serving"
    /\ \A c \in Conn : loop[c] # "serving" => up[c] = <<>>
    /\ \A c \in Conn : c # link => down[c] = <<>> /\ (loop[c] = "closed" \/ c \in cut)
    /\ link # None /\ loop[link] = "hello" => ~joined /\ down[link] = <<>>
    /\ link # None /\ loop[link] = "closed" => link \in cut

LEMMA LinkKept ==
  ASSUME ConnectionTypeOK(Ups, Downs), LinkInv, UNCHANGED <<link, entry, loop, cut, stray>>,
         joined' = joined \/ (link # None /\ down[link] # <<>>),
         UNCHANGED up \/ \E c \in Conn : loop[c] = "serving" /\ \E new : up' = [up EXCEPT ![c] = new],
         UNCHANGED down \/ (link # None /\ loop[link] # "hello" /\ \E new : down' = [down EXCEPT ![link] = new])
  PROVE  LinkInv'
<1>1. /\ up \in [Conn -> Seq(Ups)] /\ down \in [Conn -> Seq(Downs \cup {Welcome, Error})]
      /\ loop \in [Conn -> Loops] /\ link \in Conn \cup {None} /\ None \notin Conn
  BY ConnAssumption DEF ConnectionTypeOK
<1>2. ServedIsOnline' /\ (entry \in Conn => loop[entry] = "serving")'
  BY DEF LinkInv, ServedIsOnline
<1>3. (\A c \in Conn : loop[c] # "serving" => up[c] = <<>>)'
  BY <1>1 DEF LinkInv
<1>4. (\A c \in Conn : c # link => down[c] = <<>> /\ (loop[c] = "closed" \/ c \in cut))'
  BY <1>1 DEF LinkInv
<1>5. (link # None /\ loop[link] = "hello" => ~joined /\ down[link] = <<>>)'
  BY <1>1 DEF LinkInv
<1>6. (link # None /\ loop[link] = "closed" => link \in cut)'
  BY <1>1 DEF LinkInv
<1>7. QED
  BY <1>2, <1>3, <1>4, <1>5, <1>6 DEF LinkInv

LEMMA LinkEndLoop ==
  ASSUME ConnectionTypeOK(Ups, Downs), LinkInv, NEW c \in Conn, EndLoop(c)
  PROVE  LinkInv'
<1>1. /\ up \in [Conn -> Seq(Ups)] /\ loop \in [Conn -> Loops]
      /\ link \in Conn \cup {None} /\ None \notin Conn /\ Unknown \notin Conn
  BY ConnAssumption DEF ConnectionTypeOK
<1>2. ServedIsOnline'
  BY <1>1, EndLoopServed DEF LinkInv
<1>3. QED
  BY <1>1, <1>2 DEF LinkInv, EndLoop, Disconnect

LEMMA LinkLeave ==
  ASSUME ConnectionTypeOK(Ups, Downs), LinkInv, link # None, Leave
  PROVE  LinkInv'
<1>1. /\ down \in [Conn -> Seq(Downs \cup {Welcome, Error})]
      /\ link \in Conn /\ None \notin Conn
  BY ConnAssumption DEF ConnectionTypeOK
<1>2. ServedIsOnline'
  BY DEF LinkInv, ServedIsOnline, Leave
<1>3. QED
  BY <1>1, <1>2 DEF LinkInv, Leave

LEMMA LinkConnect ==
  ASSUME ConnectionTypeOK(Ups, Downs), LinkInv, Connect
  PROVE  LinkInv'
<1>1. /\ up \in [Conn -> Seq(Ups)] /\ down \in [Conn -> Seq(Downs \cup {Welcome, Error})]
      /\ loop \in [Conn -> Loops] /\ link \in Conn \cup {None}
      /\ entry \in Conn \cup {None, Unknown} /\ cut \subseteq Conn
      /\ None \notin Conn /\ Unknown \notin Conn
  BY ConnAssumption DEF ConnectionTypeOK
<1>2. ServedIsOnline'
  BY ConnectServed DEF LinkInv
<1>3. ASSUME NEW c \in Conn, Dial(c)
      PROVE  LinkInv'
  BY <1>1, <1>2, <1>3 DEF LinkInv, Dial
<1>4. ASSUME NEW c \in Conn, LoopEnds(c)
      PROVE  LinkInv'
  BY <1>4, LinkEndLoop DEF LoopEnds
<1>5. ASSUME NEW c \in Conn, Open(c)
      PROVE  LinkInv'
  <2>1. CASE Accepts
    BY <1>1, <1>2, <1>5, <2>1 DEF LinkInv, Open, Accepts
  <2>2. CASE ~Accepts
    BY <1>1, <1>2, <1>5, <2>2 DEF LinkInv, Open
  <2>3. QED
    BY <2>1, <2>2
<1>6. ASSUME NEW c \in Conn, Break(c)
      PROVE  LinkInv'
  BY <1>1, <1>2, <1>6 DEF LinkInv, Break
<1>7. CASE Hangup \/ WorkerRestarts
  BY <1>7, LinkLeave DEF Hangup, WorkerRestarts
<1>8. CASE Forget
  <2>1. UNCHANGED down \/ (entry \in Conn \ cut /\ \E new : down' = [down EXCEPT ![entry] = new])
    BY <1>8 DEF Forget, TrySendDown, SendDown
  <2>2. entry \in Conn \ cut => entry = link /\ loop[link] = "serving"
    BY DEF LinkInv
  <2>3. QED
    BY <1>1, <1>2, <1>8, <2>1, <2>2 DEF LinkInv, Forget
<1>9. CASE LeaderRestarts
  BY <1>1, <1>2, <1>9 DEF LinkInv, LeaderRestarts
<1>10. QED
  BY <1>3, <1>4, <1>5, <1>6, <1>7, <1>8, <1>9 DEF Connect

\* What a welcomed worker is heard on, while nobody closed it.
LEMMA JoinedIsServed ==
  ASSUME ConnectionTypeOK(Ups, Downs), LinkInv, joined, link \notin cut
  PROVE  link \in Conn /\ loop[link] = "serving"
  BY ConnAssumption DEF ConnectionTypeOK, LinkInv, Loops

LEMMA SentOnLink ==
  ASSUME ConnectionTypeOK(Ups, Downs), LinkInv, NEW c \in Conn, loop[c] = "serving", c \notin cut
  PROVE  c = link
  BY DEF LinkInv

LEMMA LinkStep ==
  ASSUME TypeOK, LinkInv, [Next]_vars
  PROVE  LinkInv'
<1>1. /\ ConnectionTypeOK(Ups, Downs) /\ Fields
      /\ link \in Conn \cup {None} /\ None \notin Conn
  BY TypeParts, ConnAssumption DEF ConnectionTypeOK
<1>2. CASE UNCHANGED connectionVars
  BY <1>1, <1>2, LinkKept DEF connectionVars, ends
<1>3. ASSUME NEW q \in Command, Send(q)
      PROVE  LinkInv'
  <2>1. UNCHANGED <<ends, up>>
    BY <1>3 DEF Send
  <2>2. CASE UNCHANGED down
    BY <1>1, <2>1, <2>2, LinkKept DEF ends
  <2>3. CASE ~UNCHANGED down
    <3>1. /\ loop[via[q]] = "serving" /\ via[q] \notin cut
          /\ down' = [down EXCEPT ![via[q]] = Append(@, CommandMessage(q))]
      BY <1>3, <2>3 DEF Send
    <3>2. via[q] \in Conn
      <4>1. SUFFICES ASSUME via[q] \notin Conn
                     PROVE  FALSE
        OBVIOUS
      <4>2. down' = down
        BY <1>1, <3>1, <4>1 DEF ConnectionTypeOK
      <4>3. QED
        BY <2>3, <4>2
    <3>3. via[q] = link
      BY <1>1, <3>1, <3>2, SentOnLink
    <3>4. link # None /\ loop[link] # "hello" /\ \E new : down' = [down EXCEPT ![link] = new]
      BY <1>1, <3>1, <3>2, <3>3
    <3>5. QED
      BY <1>1, <2>1, <3>4, LinkKept DEF ends
  <2>4. QED
    BY <2>2, <2>3
<1>4. CASE Welcomed
  <2>1. link # None /\ down[link] # <<>>
    BY <1>4, MessageKinds DEF Welcomed, Incoming
  <2>2. loop[link] # "hello"
    BY <2>1 DEF LinkInv
  <2>3. QED
    BY <1>1, <1>4, <2>1, <2>2, LinkKept DEF Welcomed, TakeDown
<1>5. CASE Tick
  <2>1. link \in Conn /\ loop[link] = "serving"
    BY <1>1, <1>5, JoinedIsServed DEF Tick, SendUp
  <2>2. QED
    BY <1>1, <1>5, <2>1, LinkKept DEF Tick, SendUp, ends
<1>6. CASE TakesCommand
  <2>1. link # None /\ joined
    BY <1>1, <1>6 DEF TakesCommand, ConnectionTypeOK
  <2>2. CASE link \in cut
    BY <1>1, <1>6, <2>1, <2>2, LinkLeave DEF TakesCommand
  <2>3. CASE link \notin cut
    <3>1. link \in Conn /\ loop[link] = "serving"
      BY <1>1, <2>1, <2>3, JoinedIsServed
    <3>2. /\ UNCHANGED <<link, joined, entry, loop, cut, silent, stray>>
          /\ \E new : up' = [up EXCEPT ![link] = new]
          /\ \E new : down' = [down EXCEPT ![link] = new]
      BY <1>6, <2>3 DEF TakesCommand, SendUp, TakeDown
    <3>3. QED
      BY <1>1, <3>1, <3>2, LinkKept
  <2>4. QED
    BY <2>2, <2>3
<1>7. ASSUME NEW c \in Conn, TakeUp(c), Arrived(c).type # "none", UNCHANGED <<ends, down, faults>>
      PROVE  LinkInv'
  <2>1. loop[c] = "serving"
    BY <1>7 DEF Arrived
  <2>2. QED
    BY <1>1, <1>7, <2>1, LinkKept DEF TakeUp, ends
<1>8. ASSUME NEW c \in Conn, ServeInventory(c) \/ WriteRow(c) \/ ServeResult(c)
      PROVE  LinkInv'
  <2>1. \/ EndLoop(c) \/ UNCHANGED connectionVars
        \/ TakeUp(c) /\ Arrived(c).type # "none" /\ UNCHANGED <<ends, down, faults>>
    BY <1>8 DEF ServeInventory, WriteRow, ServeResult
  <2>2. QED
    BY <1>1, <1>2, <1>7, <2>1, LinkEndLoop
<1>9. CASE Moves
  BY <1>1, <1>9, MoveTypes, LinkConnect
<1>10. UNCHANGED vars => UNCHANGED connectionVars
  BY DEF vars
<1>11. ASSUME NEW q \in Command, Ask(q) \/ TimesOut(q) \/ GivesUp(q)
      PROVE  UNCHANGED connectionVars
  BY <1>11 DEF Ask, TimesOut, GivesUp
<1>12. Changes \/ RemoveRow => UNCHANGED connectionVars
  BY DEF Changes, RemoveRow
<1>13. CASE Next
  BY <1>2, <1>3, <1>4, <1>5, <1>6, <1>8, <1>9, <1>11, <1>12, <1>13 DEF Next, Moves
<1>14. QED
  BY <1>2, <1>10, <1>13-----------------------------------------------------------------------------
(* The inventory. *)

Comes(c, i, v) == i \in 1..Len(up[c]) /\ up[c][i] = Inventory(v)

\* No version is ahead of the worker's.
Bounded ==
    /\ known <= version
    /\ row # Unknown => row <= version
    /\ \A c \in Conn : writing[c] # None => writing[c] <= version
    /\ \A c \in Conn : \A i \in Nat, v \in Versions : Comes(c, i, v) => v <= version

\* On one connection versions come in the order in which they were made,
Ordered ==
    \A c \in Conn : \A i, j \in Nat : \A v, w \in Versions :
        Comes(c, i, v) /\ Comes(c, j, w) /\ i <= j => v <= w

\* and none on its way on the entry's is older than the leader's, or than one on another.
Newest ==
    entry \in Conn =>
      /\ \A i \in Nat, v \in Versions : Comes(entry, i, v) => known <= v
      /\ \A c \in Conn : \A i, j \in Nat : \A v, w \in Versions :
           c # entry /\ Comes(c, i, v) /\ Comes(entry, j, w) => v <= w

\* A worker that is served on another connection than its entry's left nothing on that one.
Quiet ==
    link # None /\ loop[link] = "serving" /\ entry \in Conn /\ entry # link => up[entry] = <<>>

InventoryInv == Bounded /\ Ordered /\ Newest /\ Quiet

\* A step sends one message to the leader or none.
Sends(m) ==
    /\ link \in Conn /\ loop[link] = "serving" /\ UNCHANGED <<link, loop, entry>>
    /\ up' = [up EXCEPT ![link] = @ \o <<m>>]

LEMMA ComesFromBefore ==
  ASSUME UpDrains, NEW c \in Conn
  PROVE  \E s \in {0, 1} : \A i \in Nat, v \in Versions : Comes(c, i, v)' => Comes(c, i + s, v)
<1>1. PICK s \in {0, 1} : \A i \in 1..Len(up'[c]) : i + s \in 1..Len(up[c]) /\ up'[c][i] = up[c][i + s]
  BY DEF UpDrains, Empties
<1>2. \A i \in Nat, v \in Versions : Comes(c, i, v)' => Comes(c, i + s, v)
  BY <1>1 DEF Comes
<1>3. QED
  BY <1>2

LEMMA ComesFromSent ==
  ASSUME ConnectionTypeOK(Ups, Downs), NEW m \in Ups, Sends(m), NEW c \in Conn, NEW i \in Nat,
         NEW v \in Versions, Comes(c, i, v)'
  PROVE  Comes(c, i, v) \/ (c = link /\ i = Len(up[link]) + 1 /\ m = Inventory(v))
<1>1. up \in [Conn -> Seq(Ups)] /\ Len(up[link]) \in Nat /\ link \in Conn
  BY LenProperties DEF ConnectionTypeOK, Sends
<1>2. CASE c # link
  BY <1>1, <1>2 DEF Comes, Sends
<1>3. CASE c = link
  <2>1. up'[c] = up[c] \o <<m>>
    BY <1>1, <1>3 DEF Sends
  <2>2. up[c] \in Seq(Ups) /\ <<m>> \in Seq(Ups) /\ Len(<<m>>) = 1 /\ <<m>>[1] = m
    BY <1>1
  <2>3. /\ Len(up'[c]) = Len(up[c]) + 1
        /\ \A k \in 1..Len(up[c]) + 1 : up'[c][k] = IF k <= Len(up[c]) THEN up[c][k] ELSE m
    BY <2>1, <2>2, ConcatProperties
  <2>4. QED
    BY <1>1, <1>3, <2>3 DEF Comes
<1>4. QED
  BY <1>2, <1>3

\* Nothing is sent.
LEMMA InventoryKept ==
  ASSUME TypeOK, TypeOK', InventoryInv, UpDrains, version <= version'
  PROVE  /\ \A c \in Conn : \A i \in Nat, v \in Versions : Comes(c, i, v)' => v <= version'
         /\ Ordered'
         /\ UNCHANGED entry /\ (UNCHANGED known \/ \E c \in Conn : Comes(c, 1, known')) => Newest'
<1>1. version \in Int /\ version' \in Int /\ Versions \subseteq Int /\ known' \in Versions
  BY LinkBounds DEF TypeOK, Versions
<1>2. ASSUME NEW c \in Conn
      PROVE  \A i \in Nat, v \in Versions : Comes(c, i, v)' => v <= version'
  <2>1. PICK s \in {0, 1} : \A i \in Nat, v \in Versions : Comes(c, i, v)' => Comes(c, i + s, v)
    BY ComesFromBefore
  <2>2. SUFFICES ASSUME NEW i \in Nat, NEW v \in Versions, Comes(c, i, v)'
                 PROVE  v <= version'
    OBVIOUS
  <2>3. Comes(c, i + s, v) /\ i + s \in Nat
    BY <2>1, <2>2
  <2>4. v <= version
    BY <2>3 DEF InventoryInv, Bounded
  <2>5. QED
    BY <1>1, <2>4
<1>3. Ordered'
  <2>1. SUFFICES ASSUME NEW c \in Conn, NEW i \in Nat, NEW j \in Nat, NEW v \in Versions, NEW w \in Versions,
                        Comes(c, i, v)', Comes(c, j, w)', i <= j
                 PROVE  v <= w
    BY DEF Ordered
  <2>2. PICK s \in {0, 1} : \A k \in Nat, u \in Versions : Comes(c, k, u)' => Comes(c, k + s, u)
    BY ComesFromBefore
  <2>3. i + s \in Nat /\ j + s \in Nat /\ i + s <= j + s /\ Comes(c, i + s, v) /\ Comes(c, j + s, w)
    BY <2>1, <2>2
  <2>4. QED
    BY <2>3 DEF InventoryInv, Ordered
<1>4. ASSUME UNCHANGED entry, entry \in Conn, UNCHANGED known \/ \E c \in Conn : Comes(c, 1, known')
      PROVE  Newest'
  <2>1. PICK s \in {0, 1} : \A i \in Nat, v \in Versions : Comes(entry, i, v)' => Comes(entry, i + s, v)
    BY <1>4, ComesFromBefore
  <2>2. ASSUME NEW i \in Nat, NEW v \in Versions, Comes(entry, i, v)'
        PROVE  known' <= v
    <3>1. Comes(entry, i + s, v) /\ i + s \in Nat /\ 1 <= i + s
      BY <2>1, <2>2 DEF Comes
    <3>2. CASE UNCHANGED known
      BY <1>4, <3>1, <3>2 DEF InventoryInv, Newest
    <3>3. ASSUME NEW c \in Conn, Comes(c, 1, known')
          PROVE  known' <= v
      <4>1. CASE c = entry
        BY <1>1, <3>1, <3>3, <4>1 DEF InventoryInv, Ordered
      <4>2. CASE c # entry
        BY <1>1, <1>4, <3>1, <3>3, <4>2 DEF InventoryInv, Newest
      <4>3. QED
        BY <4>1, <4>2
    <3>4. QED
      BY <1>4, <3>2, <3>3
  <2>3. ASSUME NEW c \in Conn, NEW i \in Nat, NEW j \in Nat, NEW v \in Versions, NEW w \in Versions,
               c # entry, Comes(c, i, v)', Comes(entry, j, w)'
        PROVE  v <= w
    <3>1. PICK t \in {0, 1} : \A k \in Nat, u \in Versions : Comes(c, k, u)' => Comes(c, k + t, u)
      BY ComesFromBefore
    <3>2. i + t \in Nat /\ j + s \in Nat /\ Comes(c, i + t, v) /\ Comes(entry, j + s, w)
      BY <2>1, <2>3, <3>1
    <3>3. QED
      BY <1>4, <2>3, <3>2 DEF InventoryInv, Newest
  <2>4. QED
    BY <1>4, <2>2, <2>3 DEF Newest
<1>5. UNCHANGED entry /\ entry \notin Conn => Newest'
  BY DEF Newest
<1>6. QED
  BY <1>2, <1>3, <1>4, <1>5

\* The worker sends what it has now, or an answer.
LEMMA InventorySent ==
  ASSUME TypeOK, LinkInv, InventoryInv, NEW m \in Ups, Sends(m), UNCHANGED <<known, version>>,
         m.type = "inventory" => m = Inventory(version)
  PROVE  /\ \A c \in Conn : \A i \in Nat, v \in Versions : Comes(c, i, v)' => v <= version'
         /\ Ordered' /\ Newest'
<1>1. version \in Versions /\ Versions \subseteq Int /\ ConnectionTypeOK(Ups, Downs)
  BY LinkBounds, TypeParts DEF Fields, Versions
<1>2. ASSUME NEW c \in Conn, NEW i \in Nat, NEW v \in Versions, Comes(c, i, v)'
      PROVE  Comes(c, i, v) \/ (c = link /\ i = Len(up[link]) + 1 /\ v = version)
  <2>1. m = Inventory(v) => v = version
    BY MessageKinds
  <2>2. QED
    BY <1>1, <1>2, <2>1, ComesFromSent
<1>3. ASSUME NEW c \in Conn, NEW i \in Nat, NEW v \in Versions, Comes(c, i, v)'
      PROVE  v <= version
  BY <1>1, <1>2, <1>3 DEF InventoryInv, Bounded
<1>4. Ordered'
  <2>1. SUFFICES ASSUME NEW c \in Conn, NEW i \in Nat, NEW j \in Nat, NEW v \in Versions, NEW w \in Versions,
                        Comes(c, i, v)', Comes(c, j, w)', i <= j
                 PROVE  v <= w
    BY DEF Ordered
  <2>2. CASE Comes(c, j, w) /\ Comes(c, i, v)
    BY <2>1, <2>2 DEF InventoryInv, Ordered
  <2>3. CASE Comes(c, j, w) /\ ~Comes(c, i, v)
    <3>1. c = link /\ i = Len(up[link]) + 1 /\ j <= Len(up[link])
      BY <1>2, <2>1, <2>3 DEF Comes
    <3>2. Len(up[link]) \in Nat
      BY <1>1, <3>1, LenProperties DEF ConnectionTypeOK
    <3>3. QED
      BY <2>1, <3>1, <3>2
  <2>4. CASE ~Comes(c, j, w)
    <3>1. w = version
      BY <1>2, <2>1, <2>4
    <3>2. QED
      BY <1>3, <2>1, <3>1
  <2>5. QED
    BY <2>2, <2>3, <2>4
<1>5. ASSUME entry \in Conn, NEW i \in Nat, NEW v \in Versions, Comes(entry, i, v)'
      PROVE  known <= v
  <2>1. CASE Comes(entry, i, v)
    BY <1>5, <2>1 DEF InventoryInv, Newest
  <2>2. CASE v = version
    BY <2>2 DEF InventoryInv, Bounded
  <2>3. Comes(entry, i, v) \/ v = version
    BY <1>2, <1>5 DEF Sends
  <2>4. QED
    BY <2>1, <2>2, <2>3
<1>6. ASSUME entry \in Conn, NEW c \in Conn, NEW i \in Nat, NEW j \in Nat, NEW v \in Versions, NEW w \in Versions,
             c # entry, Comes(c, i, v)', Comes(entry, j, w)'
      PROVE  v <= w
  <2>1. CASE w = version
    BY <1>3, <1>6, <2>1
  <2>2. CASE Comes(entry, j, w) /\ Comes(c, i, v)
    BY <1>6, <2>2 DEF InventoryInv, Newest
  <2>3. CASE Comes(entry, j, w) /\ c = link
    <3>1. up[entry] = <<>>
      BY <1>6, <2>3, ConnAssumption DEF InventoryInv, Quiet, Sends
    <3>2. QED
      BY <2>3, <3>1 DEF Comes
  <2>4. Comes(entry, j, w) \/ w = version
    BY <1>2, <1>6 DEF Sends
  <2>5. Comes(c, i, v) \/ c = link
    BY <1>2, <1>6
  <2>6. QED
    BY <2>1, <2>2, <2>3, <2>4, <2>5
<1>7. Newest'
  BY <1>5, <1>6 DEF Newest, Sends
<1>8. QED
  BY <1>3, <1>4, <1>7
\* Only Tick and TakesCommand send to the leader, over a connection that it serves.
LEMMA UpStep ==
  ASSUME TypeOK, LinkInv, [Next]_vars
  PROVE  \/ UpDrains
         \/ Tick /\ Sends(Inventory(version)) /\ Inventory(version) \in Ups
         \/ /\ TakesCommand /\ Incoming.id \in Command
            /\ Sends(Result(Incoming.id)) /\ Result(Incoming.id) \in Ups
<1>1. ConnectionTypeOK(Ups, Downs) /\ Fields
  BY TypeParts
<1>2. UNCHANGED up => UpDrains
  BY <1>1, Unsent
<1>3. CASE Tick
  <2>1. link \in Conn /\ loop[link] = "serving"
    BY <1>1, <1>3, JoinedIsServed DEF Tick, SendUp
  <2>2. Inventory(version) \in Ups
    BY <1>1 DEF Ups, Fields
  <2>3. QED
    BY <1>3, <2>1, <2>2 DEF Tick, SendUp, Sends, ends
<1>4. CASE TakesCommand
  <2>1. link # None /\ link \in Conn /\ joined
    BY <1>1, <1>4, ConnAssumption DEF TakesCommand, ConnectionTypeOK
  <2>2. CASE link \in cut
    <3>1. Leave
      BY <1>4, <2>2 DEF TakesCommand
    <3>2. QED
      BY <1>1, <2>1, <3>1, ConnectFlows
  <2>3. CASE link \notin cut
    <3>1. loop[link] = "serving"
      BY <1>1, <2>1, <2>3, JoinedIsServed
    <3>2. Incoming \in Downs \cup {Welcome, Error}
      <4>1. down[link] # <<>> /\ Incoming = Head(down[link])
        BY <1>4, <2>1 DEF TakesCommand, Incoming
      <4>2. QED
        BY <1>1, <2>1, <4>1, HeadTailProperties DEF ConnectionTypeOK
    <3>3. Incoming.id \in Command
      BY <1>4, <3>2, MessageKinds DEF TakesCommand
    <3>4. Result(Incoming.id) \in Ups
      BY <3>3 DEF Ups
    <3>5. QED
      BY <1>4, <2>1, <2>3, <3>1, <3>3, <3>4 DEF TakesCommand, SendUp, Sends
  <2>4. QED
    BY <2>2, <2>3
<1>5. ASSUME NEW c \in Conn, ServeInventory(c) \/ WriteRow(c) \/ ServeResult(c)
      PROVE  UpDrains
  <2>1. \/ EndLoop(c) \/ UNCHANGED up
        \/ TakeUp(c) /\ Arrived(c).type # "none"
    BY <1>5 DEF ServeInventory, WriteRow, ServeResult, connectionVars
  <2>2. QED
    BY <1>1, <1>2, <2>1, ConnectFlows, TakeUpFlows
<1>6. CASE Moves
  BY <1>1, <1>6, MoveTypes, ConnectFlows
<1>7. UNCHANGED vars => UNCHANGED up
  BY DEF vars, connectionVars
<1>8. ASSUME NEW q \in Command, Ask(q) \/ Send(q) \/ TimesOut(q) \/ GivesUp(q)
      PROVE  UNCHANGED up
  BY <1>8 DEF Ask, Send, TimesOut, GivesUp, connectionVars
<1>9. Changes \/ Welcomed \/ RemoveRow => UNCHANGED up
  BY DEF Changes, Welcomed, RemoveRow, connectionVars
<1>10. CASE Next
  BY <1>2, <1>3, <1>4, <1>5, <1>6, <1>8, <1>9, <1>10 DEF Next, Moves
<1>11. QED
  BY <1>2, <1>7, <1>10

LEMMA QuietKept ==
  ASSUME TypeOK, TypeOK', Quiet, UpDrains, UNCHANGED entry \/ entry' \notin Conn,
         UNCHANGED link \/ link' = None,
         UNCHANGED link /\ link # None /\ loop'[link] = "serving" => loop[link] = "serving"
  PROVE  Quiet'
<1>1. SUFFICES ASSUME link' = link, link # None, loop[link] = "serving", entry' = entry, entry \in Conn, entry # link
               PROVE  up'[entry] = <<>>
  BY DEF Quiet
<1>2. up[entry] = <<>>
  BY <1>1 DEF Quiet
<1>3. PICK s \in {0, 1} : \A i \in 1..Len(up'[entry]) : i + s \in 1..Len(up[entry])
  BY <1>1 DEF UpDrains, Empties
<1>4. up'[entry] \in Seq(Ups)
  BY <1>1, TypeParts DEF ConnectionTypeOK
<1>5. Len(up'[entry]) = 0
  BY <1>2, <1>3, <1>4, LenProperties
<1>6. QED
  BY <1>4, <1>5, EmptySeq

LEMMA QuietStep ==
  ASSUME TypeOK, TypeOK', LinkInv, Quiet, [Next]_vars
  PROVE  Quiet'
<1>1. ConnectionTypeOK(Ups, Downs) /\ None \notin Conn /\ Unknown \notin Conn
  BY TypeParts, ConnAssumption
<1>2. ASSUME NEW m, Sends(m)
      PROVE  Quiet'
  BY <1>1, <1>2 DEF Sends, Quiet, ConnectionTypeOK
<1>3. CASE UpDrains /\ UNCHANGED <<link, loop, entry>>
  BY <1>3, QuietKept
<1>4. ASSUME UpDrains, NEW c \in Conn, EndLoop(c)
      PROVE  Quiet'
  <2>1. loop' = [loop EXCEPT ![c] = "closed"] /\ UNCHANGED link /\ (UNCHANGED entry \/ entry' = None)
    BY <1>4 DEF EndLoop, Disconnect
  <2>2. UNCHANGED link /\ link # None /\ loop'[link] = "serving" => loop[link] = "serving"
    BY <1>1, <2>1 DEF ConnectionTypeOK
  <2>3. QED
    BY <1>1, <1>4, <2>1, <2>2, QuietKept
<1>5. CASE link # None /\ Leave
  BY <1>5 DEF Leave, Quiet
<1>6. ASSUME NEW c \in Conn, Dial(c)
      PROVE  Quiet'
  BY <1>1, <1>6 DEF Dial, Quiet, ConnectionTypeOK
<1>7. ASSUME NEW c \in Conn, Open(c)
      PROVE  Quiet'
  <2>1. CASE Accepts
    <3>1. entry' = c /\ up' = up /\ up[c] = <<>>
      BY <1>7, <2>1 DEF Open, LinkInv
    <3>2. QED
      BY <3>1 DEF Quiet
  <2>2. CASE ~Accepts
    <3>1. loop' = [loop EXCEPT ![c] = "closed"] /\ UNCHANGED <<up, entry, link>>
      BY <1>7, <2>2 DEF Open
    <3>2. QED
      BY <1>1, <3>1 DEF Quiet, ConnectionTypeOK
  <2>3. QED
    BY <2>1, <2>2
<1>8. CASE Forget \/ LeaderRestarts
  BY <1>1, <1>8 DEF Forget, LeaderRestarts, Quiet
<1>9. ASSUME NEW c \in Conn, Break(c)
      PROVE  Quiet'
  BY <1>9 DEF Break, Quiet
<1>10. CASE Moves
  <2>1. Connect /\ UpDrains
    BY <1>1, <1>10, MoveTypes, ConnectFlows
  <2>2. QED
    BY <1>4, <1>5, <1>6, <1>7, <1>8, <1>9, <2>1 DEF Connect, LoopEnds, Hangup, WorkerRestarts
<1>11. CASE UpDrains /\ ~Moves /\ Next
  <2>1. ASSUME NEW c \in Conn, ServeInventory(c) \/ WriteRow(c) \/ ServeResult(c)
        PROVE  EndLoop(c) \/ UNCHANGED <<link, loop, entry>>
    BY <2>1 DEF ServeInventory, WriteRow, ServeResult, connectionVars, ends
  <2>2. ASSUME NEW q \in Command, Ask(q) \/ Send(q) \/ TimesOut(q) \/ GivesUp(q)
        PROVE  UNCHANGED <<link, loop, entry>>
    BY <2>2 DEF Ask, Send, TimesOut, GivesUp, connectionVars, ends
  <2>3. Changes \/ Welcomed \/ RemoveRow \/ Tick => UNCHANGED <<link, loop, entry>>
    BY DEF Changes, Welcomed, RemoveRow, Tick, connectionVars, ends
  <2>4. TakesCommand => UNCHANGED <<link, loop, entry>> \/ (link # None /\ Leave)
    BY <1>1 DEF TakesCommand, ConnectionTypeOK
  <2>5. QED
    BY <1>3, <1>4, <1>5, <1>11, <2>1, <2>2, <2>3, <2>4 DEF Next, Moves
<1>12. CASE UNCHANGED vars
  BY <1>12 DEF vars, connectionVars, ends, Quiet
<1>13. QED
  BY <1>2, <1>10, <1>11, <1>12, UpStep

LEMMA ArrivedComes ==
  ASSUME TypeOK, NEW c \in Conn, Arrived(c).type = "inventory"
  PROVE  Arrived(c).version \in Versions /\ Comes(c, 1, Arrived(c).version)
<1>1. up[c] # <<>> /\ Arrived(c) = Head(up[c]) /\ up[c] \in Seq(Ups)
  BY TypeParts DEF Arrived, ConnectionTypeOK
<1>2. Arrived(c) = up[c][1] /\ Arrived(c) \in Ups /\ 1 \in 1..Len(up[c])
  BY <1>1, HeadTailProperties, LenProperties
<1>3. QED
  BY <1>2, MessageKinds DEF Comes

\* What becomes of the leader's inventory, the row and what is to be written there.
LEMMA InventoryWritten ==
  ASSUME TypeOK, LinkInv, InventoryInv, [Next]_vars
  PROVE  /\ \/ UNCHANGED known /\ (UNCHANGED entry \/ entry' \notin Conn \/ up'[entry'] = <<>>)
            \/ UNCHANGED entry /\ \E c \in Conn : Comes(c, 1, known') /\ ServeInventory(c) /\ entry # Unknown
            \/ known' = 0 /\ entry = Unknown /\ up'[entry'] = <<>>
            \/ LeaderStartsAgain /\ entry' \notin Conn
         /\ known' <= version /\ version <= version'
         /\ row' # Unknown => row' <= version
         /\ \A c \in Conn : writing'[c] # None => writing'[c] <= version
<1>1. /\ ConnectionTypeOK(Ups, Downs) /\ Fields
      /\ version \in Int /\ version' \in Int /\ known \in Int /\ 0 <= version /\ Versions \subseteq Int
      /\ None \notin Conn /\ Unknown \notin Conn /\ None \notin Versions /\ Unknown \notin Versions
      /\ known <= version /\ (row # Unknown => row <= version)
      /\ \A c \in Conn : writing[c] # None => writing[c] <= version
  <2>1. version' \in Int
    BY TypeStep, LinkBounds DEF TypeOK, Versions
  <2>2. QED
    BY <2>1, TypeParts, ConnAssumption, LinkBounds, NoVersion
       DEF Fields, Versions, InventoryInv, Bounded
<1> DEFINE Memory == \/ UNCHANGED known /\ (UNCHANGED entry \/ entry' \notin Conn \/ up'[entry'] = <<>>)
                     \/ UNCHANGED entry /\ \E c \in Conn : Comes(c, 1, known') /\ ServeInventory(c) /\ entry # Unknown
                     \/ known' = 0 /\ entry = Unknown /\ up'[entry'] = <<>>
                     \/ LeaderStartsAgain /\ entry' \notin Conn
           Table == /\ row' # Unknown => row' <= version
                    /\ \A c \in Conn : writing'[c] # None => writing'[c] <= version
           Forward == known' <= version /\ version <= version'
<1> SUFFICES Memory /\ Table /\ Forward
  OBVIOUS
<1>2. ASSUME NEW c \in Conn, ServeInventory(c)
      PROVE  Memory /\ Table /\ Forward
  <2>1. /\ Arrived(c).version \in Versions /\ Comes(c, 1, Arrived(c).version)
        /\ Arrived(c).version <= version
    <3>1. Arrived(c).version \in Versions /\ Comes(c, 1, Arrived(c).version)
      BY <1>2, ArrivedComes DEF ServeInventory
    <3>2. QED
      BY <3>1 DEF InventoryInv, Bounded
  <2>2. UNCHANGED <<row, version>>
    BY <1>2 DEF ServeInventory, workerVars
  <2>3. CASE entry = Unknown
    <3>1. UNCHANGED <<known, writing>> /\ entry' \notin Conn
      BY <1>1, <1>2, <2>3 DEF ServeInventory, EndLoop, Disconnect
    <3>2. QED
      BY <1>1, <2>2, <3>1
  <2>4. CASE entry # Unknown
    <3>1. /\ known' = Arrived(c).version /\ UNCHANGED entry
          /\ writing' = [writing EXCEPT ![c] = Arrived(c).version]
      BY <1>2, <2>4 DEF ServeInventory, ends
    <3>2. \A d \in Conn : writing'[d] # None => writing'[d] <= version
      BY <1>1, <2>1, <3>1 DEF Fields
    <3>3. QED
      BY <1>1, <1>2, <2>1, <2>2, <2>4, <3>1, <3>2
  <2>5. QED
    BY <2>3, <2>4
<1>3. ASSUME NEW c \in Conn, WriteRow(c)
      PROVE  Memory /\ Table /\ Forward
  <2>1. /\ UNCHANGED <<known, version>> /\ writing' = [writing EXCEPT ![c] = None]
        /\ row' = writing[c] \/ row' = row
    BY <1>3 DEF WriteRow, workerVars
  <2>2. UNCHANGED entry \/ entry' \notin Conn
    BY <1>1, <1>3 DEF WriteRow, EndLoop, Disconnect, connectionVars, ends
  <2>3. writing[c] # None
    BY <1>3 DEF WriteRow, NotWriting
  <2>4. Table
    BY <1>1, <2>1, <2>3 DEF Fields
  <2>5. QED
    BY <1>1, <2>1, <2>2, <2>4
<1>4. ASSUME NEW c \in Conn, Opens(c)
      PROVE  Memory /\ Table /\ Forward
  <2>1. UNCHANGED <<row, writing, version>> /\ known' = IF entry = Unknown THEN 0 ELSE known
    BY <1>4 DEF Opens, workerVars
  <2>2. CASE Accepts
    <3>1. entry' = c /\ up' = up /\ up[c] = <<>>
      BY <1>4, <2>2 DEF Opens, Open, LinkInv
    <3>2. QED
      BY <1>1, <2>1, <3>1
  <2>3. CASE ~Accepts
    <3>1. UNCHANGED entry /\ entry # Unknown
      BY <1>1, <1>4, <2>3 DEF Opens, Open, Accepts
    <3>2. QED
      BY <1>1, <2>1, <3>1
  <2>4. QED
    BY <2>2, <2>3
<1>5. CASE LeaderStartsAgain
  <2>1. /\ UNCHANGED <<row, version>> /\ known' = (IF row = Unknown THEN 0 ELSE row)
        /\ entry' \in {None, Unknown} /\ writing' = [c \in Conn |-> None]
    BY <1>5 DEF LeaderStartsAgain, workerVars
  <2>2. QED
    BY <1>1, <1>5, <2>1
<1>6. ASSUME UNCHANGED <<known, row, writing, version>>, UNCHANGED entry \/ entry' \notin Conn
      PROVE  Memory /\ Table /\ Forward
  BY <1>1, <1>6
<1>7. ASSUME NEW q \in Command, Ask(q) \/ Send(q) \/ TimesOut(q) \/ GivesUp(q)
      PROVE  UNCHANGED <<known, row, writing, version, entry>>
  BY <1>7 DEF Ask, Send, TimesOut, GivesUp, connectionVars, ends, workerVars, inventoryVars
<1>8. ASSUME Welcomed \/ Tick \/ TakesCommand \/ HangsUp \/ WorkerStartsAgain
      PROVE  UNCHANGED <<known, row, writing, version, entry>>
  BY <1>8 DEF Welcomed, Tick, TakesCommand, HangsUp, Hangup, WorkerStartsAgain, WorkerRestarts, Leave, ends,
              workerVars, inventoryVars
<1>9. CASE Changes
  <2>1. UNCHANGED <<known, row, writing, entry>> /\ version' = version + 1
    BY <1>9 DEF Changes, connectionVars, ends, inventoryVars
  <2>2. QED
    BY <1>1, <2>1
<1>10. ASSUME NEW c \in Conn, Dials(c) \/ Ends(c) \/ Breaks(c) \/ ServeResult(c)
       PROVE  /\ UNCHANGED <<known, row, writing, version>>
              /\ UNCHANGED entry \/ entry' \notin Conn
  BY <1>1, <1>10 DEF Dials, Dial, Ends, LoopEnds, EndLoop, Disconnect, Breaks, Break, ServeResult,
                          ends, workerVars, inventoryVars
<1>11. CASE Forgets
  BY <1>1, <1>6, <1>11 DEF Forgets, Forget, workerVars
<1>12. CASE RemoveRow
  <2>1. UNCHANGED <<known, writing, version, entry>> /\ row' = Unknown
    BY <1>12 DEF RemoveRow, connectionVars, ends, workerVars
  <2>2. QED
    BY <1>1, <2>1
<1>13. CASE UNCHANGED vars
  BY <1>6, <1>13 DEF vars, connectionVars, ends, workerVars, inventoryVars
<1> HIDE DEF Memory, Table, Forward
<1>14. CASE Next
  BY <1>2, <1>3, <1>4, <1>5, <1>6, <1>7, <1>8, <1>9, <1>10, <1>11, <1>12, <1>14 DEF Next
<1>15. QED
  BY <1>13, <1>14

LEMMA InventoryStep ==
  ASSUME TypeOK, LinkInv, InventoryInv, [Next]_vars
  PROVE  InventoryInv'
<1>1. /\ TypeOK' /\ version \in Int /\ version' \in Int /\ Versions \subseteq Int
      /\ known' \in Int /\ row' \in Versions \cup {Unknown} /\ writing' \in [Conn -> Versions \cup {None}]
  <2>1. TypeOK'
    BY TypeStep
  <2>2. QED
    BY <2>1, LinkBounds DEF TypeOK, Versions
<1>2. /\ \/ UNCHANGED known /\ (UNCHANGED entry \/ entry' \notin Conn \/ up'[entry'] = <<>>)
         \/ UNCHANGED entry /\ \E c \in Conn : Comes(c, 1, known') /\ ServeInventory(c) /\ entry # Unknown
         \/ known' = 0 /\ entry = Unknown /\ up'[entry'] = <<>>
         \/ LeaderStartsAgain /\ entry' \notin Conn
      /\ known' <= version /\ version <= version'
      /\ row' # Unknown => row' <= version
      /\ \A c \in Conn : writing'[c] # None => writing'[c] <= version
  BY InventoryWritten, Zenon
<1>3. /\ known' <= version'
      /\ row' # Unknown => row' <= version'
      /\ \A c \in Conn : writing'[c] # None => writing'[c] <= version'
  <2>1. known' <= version' /\ (row' # Unknown => row' <= version')
    BY <1>1, <1>2
  <2>2. ASSUME NEW c \in Conn, writing'[c] # None
        PROVE  writing'[c] <= version'
    <3>1. writing'[c] \in Int /\ writing'[c] <= version
      BY <1>1, <1>2, <2>2
    <3>2. QED
      BY <1>1, <1>2, <3>1
  <2>3. QED
    BY <2>1, <2>2
<1>4. entry' \notin Conn \/ up'[entry'] = <<>> => Newest'
  BY DEF Newest, Comes
<1>5. Quiet'
  BY <1>1, QuietStep DEF InventoryInv
<1>6. CASE UpDrains
  <2>1. /\ \A c \in Conn : \A i \in Nat, v \in Versions : Comes(c, i, v)' => v <= version'
        /\ Ordered'
        /\ UNCHANGED entry /\ (UNCHANGED known \/ \E c \in Conn : Comes(c, 1, known')) => Newest'
    BY <1>1, <1>2, <1>6, InventoryKept
  <2>2. Newest'
    BY <1>2, <1>4, <2>1
  <2>3. QED
    BY <1>3, <1>5, <2>1, <2>2 DEF InventoryInv, Bounded
<1>7. ASSUME NEW m \in Ups, Sends(m), Tick \/ TakesCommand, m.type = "inventory" => m = Inventory(version)
      PROVE  InventoryInv'
  <2>1. UNCHANGED <<known, version>>
    BY <1>7 DEF Tick, TakesCommand, workerVars, inventoryVars
  <2>2. /\ \A c \in Conn : \A i \in Nat, v \in Versions : Comes(c, i, v)' => v <= version'
        /\ Ordered' /\ Newest'
    BY <1>7, <2>1, InventorySent
  <2>3. QED
    BY <1>3, <1>5, <2>2 DEF InventoryInv, Bounded
<1>8. QED
  BY <1>6, <1>7, UpStep, MessageKinds

\* The leader reads an older inventory than it has only from a loop that is not the entry's.
LEMMA InventoryForward ==
  ASSUME TypeOK, LinkInv, InventoryInv, [Next]_vars, known' < known
  PROVE  entry = Unknown \/ entry' \notin Conn \/ stray # {}
<1>1. SUFFICES ASSUME NEW c \in Conn, Comes(c, 1, known'), ServeInventory(c), UNCHANGED entry, entry \in Conn, stray = {}
               PROVE  FALSE
  <2>1. known \in Int
    BY LinkBounds DEF TypeOK, Versions
  <2>2. QED
    BY <2>1, InventoryWritten
<1>2. loop[c] = "serving"
  BY <1>1, MessageKinds DEF ServeInventory, Arrived
<1>3. entry = c
  BY <1>1, <1>2 DEF LinkInv, ServedIsOnline
<1>4. known' \in Versions /\ known \in Int /\ Versions \subseteq Int
  BY TypeStep, LinkBounds DEF TypeOK, Versions
<1>5. known <= known'
  BY <1>1, <1>3, <1>4 DEF InventoryInv, Newest
<1>6. QED
  BY <1>4, <1>5-----------------------------------------------------------------------------
(* Commands. *)

CommandAt(q, c, i) == i \in 1..Len(down[c]) /\ down[c][i] = CommandMessage(q)
AnswerAt(q, c, i) == i \in 1..Len(up[c]) /\ up[c][i] = Result(q)

\* A command is in one place at a time: with its caller, on its way, or carried out.
OnceOnItsWay(q) ==
    \A c, d \in Conn : \A i, j \in Nat : CommandAt(q, c, i) /\ CommandAt(q, d, j) => c = d /\ i = j
NotYetCarriedOut(q) ==
    /\ call[q] \in {"new", "sending", "refused"} => executed[q] = 0
    /\ \A c \in Conn : \A i \in Nat : CommandAt(q, c, i) =>
         executed[q] = 0 /\ call[q] \notin {"new", "sending", "refused"}
CarriedOut(q) ==
    /\ executed[q] \in {0, 1}
    /\ \A c \in Conn : \A i \in Nat : AnswerAt(q, c, i) => executed[q] = 1
    /\ q \in Range(cache) => executed[q] = 1
    /\ call[q] = "answered" => executed[q] = 1
Awaited(q) ==
    /\ q \in pending => call[q] \in {"sending", "waiting", "gone"}
    /\ call[q] \in {"sending", "waiting"} => q \in pending
CommandInv ==
    \A q \in Command : OnceOnItsWay(q) /\ NotYetCarriedOut(q) /\ CarriedOut(q) /\ Awaited(q)

LEMMA CommandFromBefore ==
  ASSUME DownDrains, NEW c \in Conn
  PROVE  \E s \in {0, 1} : \A i \in Nat, q \in Command : CommandAt(q, c, i)' => CommandAt(q, c, i + s)
<1>1. PICK s \in {0, 1} : \A i \in 1..Len(down'[c]) :
               \/ down'[c][i] \in {Welcome, Error}
               \/ i + s \in 1..Len(down[c]) /\ down'[c][i] = down[c][i + s]
  BY DEF DownDrains, Drains
<1>2. \A i \in Nat, q \in Command : CommandAt(q, c, i)' => CommandAt(q, c, i + s)
  BY <1>1, MessageKinds DEF CommandAt
<1>3. QED
  BY <1>2

LEMMA AnswerFromBefore ==
  ASSUME UpDrains, NEW c \in Conn
  PROVE  \E s \in {0, 1} : \A i \in Nat, q \in Command : AnswerAt(q, c, i)' => AnswerAt(q, c, i + s)
<1>1. PICK s \in {0, 1} : \A i \in 1..Len(up'[c]) : i + s \in 1..Len(up[c]) /\ up'[c][i] = up[c][i + s]
  BY DEF UpDrains, Empties
<1>2. \A i \in Nat, q \in Command : AnswerAt(q, c, i)' => AnswerAt(q, c, i + s)
  BY <1>1 DEF AnswerAt
<1>3. QED
  BY <1>2

LEMMA AnswerFromSent ==
  ASSUME ConnectionTypeOK(Ups, Downs), NEW m \in Ups, Sends(m), NEW c \in Conn, NEW i \in Nat,
         NEW q \in Command, AnswerAt(q, c, i)'
  PROVE  AnswerAt(q, c, i) \/ m = Result(q)
<1>1. up \in [Conn -> Seq(Ups)] /\ Len(up[link]) \in Nat /\ link \in Conn
  BY LenProperties DEF ConnectionTypeOK, Sends
<1>2. CASE c # link
  BY <1>1, <1>2 DEF AnswerAt, Sends
<1>3. CASE c = link
  <2>1. up'[c] = up[c] \o <<m>>
    BY <1>1, <1>3 DEF Sends
  <2>2. up[c] \in Seq(Ups) /\ <<m>> \in Seq(Ups) /\ Len(<<m>>) = 1 /\ <<m>>[1] = m
    BY <1>1
  <2>3. /\ Len(up'[c]) = Len(up[c]) + 1
        /\ \A k \in 1..Len(up[c]) + 1 : up'[c][k] = IF k <= Len(up[c]) THEN up[c][k] ELSE m
    BY <2>1, <2>2, ConcatProperties
  <2>4. QED
    BY <1>1, <1>3, <2>3 DEF AnswerAt
<1>4. QED
  BY <1>2, <1>3

\* A command that nobody sends stays where it is, or is gone.
LEMMA OnceKept ==
  ASSUME CommandInv, DownDrains, NEW q \in Command
  PROVE  /\ OnceOnItsWay(q)'
         /\ \A c \in Conn : \A i \in Nat : CommandAt(q, c, i)' => \E j \in Nat : CommandAt(q, c, j)
<1>1. OnceOnItsWay(q)'
  <2>1. SUFFICES ASSUME NEW c \in Conn, NEW d \in Conn, NEW i \in Nat, NEW j \in Nat,
                        CommandAt(q, c, i)', CommandAt(q, d, j)'
                 PROVE  c = d /\ i = j
    BY DEF OnceOnItsWay
  <2>2. PICK s \in {0, 1} : \A k \in Nat, r \in Command : CommandAt(r, c, k)' => CommandAt(r, c, k + s)
    BY CommandFromBefore
  <2>3. PICK t \in {0, 1} : \A k \in Nat, r \in Command : CommandAt(r, d, k)' => CommandAt(r, d, k + t)
    BY CommandFromBefore
  <2>4. i + s \in Nat /\ j + t \in Nat /\ CommandAt(q, c, i + s) /\ CommandAt(q, d, j + t)
    BY <2>1, <2>2, <2>3
  <2>5. c = d /\ i + s = j + t
    BY <2>4 DEF CommandInv, OnceOnItsWay
  <2>6. CommandAt(q, c, j + s)
    BY <2>1, <2>2, <2>5
  <2>7. j + s = i + s
    BY <2>4, <2>6 DEF CommandInv, OnceOnItsWay
  <2>8. QED
    BY <2>5, <2>7
<1>2. ASSUME NEW c \in Conn, NEW i \in Nat, CommandAt(q, c, i)'
      PROVE  \E j \in Nat : CommandAt(q, c, j)
  <2>1. PICK s \in {0, 1} : \A k \in Nat, r \in Command : CommandAt(r, c, k)' => CommandAt(r, c, k + s)
    BY CommandFromBefore
  <2>2. i + s \in Nat /\ CommandAt(q, c, i + s)
    BY <1>2, <2>1
  <2>3. QED
    BY <2>2
<1>3. QED
  BY <1>1, <1>2
\* The answers on their way are answers that were there before.
AnswersKept == \A q \in Command, c \in Conn : \A i \in Nat : AnswerAt(q, c, i)' => \E j \in Nat : AnswerAt(q, c, j)

LEMMA AnswersStep ==
  ASSUME TypeOK, LinkInv, [Next]_vars, ~TakesCommand
  PROVE  AnswersKept
<1>1. CASE UpDrains
  <2>1. SUFFICES ASSUME NEW q \in Command, NEW c \in Conn, NEW i \in Nat, AnswerAt(q, c, i)'
                 PROVE  \E j \in Nat : AnswerAt(q, c, j)
    BY DEF AnswersKept
  <2>2. PICK s \in {0, 1} : \A k \in Nat, r \in Command : AnswerAt(r, c, k)' => AnswerAt(r, c, k + s)
    BY <1>1, AnswerFromBefore
  <2>3. i + s \in Nat /\ AnswerAt(q, c, i + s)
    BY <2>1, <2>2
  <2>4. QED
    BY <2>3
<1>2. ASSUME Sends(Inventory(version)), Inventory(version) \in Ups
      PROVE  AnswersKept
  <2>1. \A q \in Command : Inventory(version) # Result(q)
    BY MessageKinds
  <2>2. QED
    BY <1>2, <2>1, AnswerFromSent, TypeParts DEF AnswersKept
<1>3. QED
  BY <1>1, <1>2, UpStep

\* What a caller may be told while its command stays where it is.
MayTurn(q) ==
    \/ call'[q] = call[q] \/ call'[q] \in {"timeout", "gone"}
    \/ call'[q] = "answered" /\ executed[q] = 1
    \/ call[q] = "new" /\ call'[q] \in {"sending", "refused"}
    \/ call[q] = "sending" /\ call'[q] \in {"refused", "waiting"}

LEMMA CommandKept ==
  ASSUME CommandInv, DownDrains, AnswersKept, UNCHANGED executed, cache' \in {cache, <<>>},
         NEW q \in Command, MayTurn(q)
  PROVE  OnceOnItsWay(q)' /\ NotYetCarriedOut(q)' /\ CarriedOut(q)'
<1>1. OnceOnItsWay(q)'
  BY OnceKept
<1>2. NotYetCarriedOut(q)'
  <2>1. call'[q] \in {"new", "sending", "refused"} => call[q] \in {"new", "sending", "refused"}
    BY DEF MayTurn
  <2>2. ASSUME NEW c \in Conn, NEW i \in Nat, CommandAt(q, c, i)'
        PROVE  executed[q] = 0 /\ call'[q] \notin {"new", "sending", "refused"}
    BY <2>1, <2>2, OnceKept DEF CommandInv, NotYetCarriedOut
  <2>3. QED
    BY <2>1, <2>2 DEF CommandInv, NotYetCarriedOut
<1>3. CarriedOut(q)'
  <2>1. \A c \in Conn : \A i \in Nat : AnswerAt(q, c, i)' => executed[q] = 1
    BY DEF AnswersKept, CommandInv, CarriedOut
  <2>2. q \in Range(cache') => q \in Range(cache)
    BY DEF Range
  <2>3. QED
    BY <2>1, <2>2 DEF CommandInv, CarriedOut, MayTurn
<1>4. QED
  BY <1>1, <1>2, <1>3

\* The command goes out once, and from then on the caller waits for its answer.
LEMMA CommandSent ==
  ASSUME TypeOK, LinkInv, CommandInv, NEW q \in Command, Send(q), ~UNCHANGED down, NEW r \in Command
  PROVE  OnceOnItsWay(r)' /\ NotYetCarriedOut(r)' /\ CarriedOut(r)'
<1>1. ConnectionTypeOK(Ups, Downs) /\ Fields
  BY TypeParts
<1>2. /\ call[q] = "sending" /\ call' = [call EXCEPT ![q] = "waiting"]
      /\ down' = [down EXCEPT ![via[q]] = Append(@, CommandMessage(q))]
      /\ UNCHANGED <<up, executed, cache>>
  BY DEF Send, Told, workerVars
<1>3. via[q] \in Conn
  <2>1. via[q] \notin Conn => down' = down
    BY <1>1, <1>2 DEF ConnectionTypeOK
  <2>2. QED
    BY <2>1
<1>4. ASSUME NEW c \in Conn, NEW i \in Nat, CommandAt(r, c, i)'
      PROVE  CommandAt(r, c, i) \/ (r = q /\ c = via[q] /\ i = Len(down[c]) + 1)
  <2>1. down[c] \in Seq(Downs \cup {Welcome, Error}) /\ Len(down[c]) \in Nat
    BY <1>1, LenProperties DEF ConnectionTypeOK
  <2>2. CASE c # via[q]
    BY <1>1, <1>2, <1>4, <2>2 DEF CommandAt, ConnectionTypeOK
  <2>3. CASE c = via[q]
    <3>1. down'[c] = Append(down[c], CommandMessage(q))
      BY <1>1, <1>2, <1>3, <2>3 DEF ConnectionTypeOK
    <3>2. CommandMessage(q) \in Downs \cup {Welcome, Error}
      BY DEF Downs
    <3>3. /\ Len(down'[c]) = Len(down[c]) + 1
          /\ \A k \in 1..Len(down[c]) : down'[c][k] = down[c][k]
          /\ down'[c][Len(down[c]) + 1] = CommandMessage(q)
      BY <2>1, <3>1, <3>2, AppendProperties
    <3>4. i \in 1..Len(down[c]) + 1 /\ down'[c][i] = CommandMessage(r)
      BY <1>4, <3>3 DEF CommandAt
    <3>5. CASE i = Len(down[c]) + 1
      BY <2>3, <3>3, <3>4, <3>5, MessageKinds
    <3>6. CASE i # Len(down[c]) + 1
      <4>1. i \in 1..Len(down[c])
        BY <2>1, <3>4, <3>6
      <4>2. QED
        BY <3>3, <3>4, <4>1 DEF CommandAt
    <3>7. QED
      BY <3>5, <3>6
  <2>4. QED
    BY <2>2, <2>3
<1>5. r = q => executed[r] = 0 /\ \A c \in Conn : \A i \in Nat : ~CommandAt(r, c, i)
  BY <1>2 DEF CommandInv, NotYetCarriedOut
<1>6. call'[r] = IF r = q THEN "waiting" ELSE call[r]
  BY <1>1, <1>2 DEF Fields
<1>7. OnceOnItsWay(r)'
  <2>1. SUFFICES ASSUME NEW c \in Conn, NEW d \in Conn, NEW i \in Nat, NEW j \in Nat,
                        CommandAt(r, c, i)', CommandAt(r, d, j)'
                 PROVE  c = d /\ i = j
    BY DEF OnceOnItsWay
  <2>2. CASE r = q
    <3>1. c = via[q] /\ i = Len(down[via[q]]) + 1
      BY <1>4, <1>5, <2>1, <2>2
    <3>2. d = via[q] /\ j = Len(down[via[q]]) + 1
      BY <1>4, <1>5, <2>1, <2>2
    <3>3. QED
      BY <3>1, <3>2
  <2>3. CASE r # q
    <3>1. CommandAt(r, c, i) /\ CommandAt(r, d, j)
      BY <1>4, <2>1, <2>3
    <3>2. QED
      BY <3>1 DEF CommandInv, OnceOnItsWay
  <2>4. QED
    BY <2>2, <2>3
<1>8. NotYetCarriedOut(r)'
  <2>1. ASSUME NEW c \in Conn, NEW i \in Nat, CommandAt(r, c, i)'
        PROVE  executed[r] = 0 /\ call'[r] \notin {"new", "sending", "refused"}
    <3>1. CASE r = q
      BY <1>5, <1>6, <3>1
    <3>2. CASE r # q
      <4>1. CommandAt(r, c, i)
        BY <1>4, <2>1, <3>2
      <4>2. QED
        BY <1>6, <3>2, <4>1 DEF CommandInv, NotYetCarriedOut
    <3>3. QED
      BY <3>1, <3>2
  <2>2. call'[r] \in {"new", "sending", "refused"} => executed[r] = 0
    BY <1>6 DEF CommandInv, NotYetCarriedOut
  <2>3. QED
    BY <1>2, <2>1, <2>2 DEF NotYetCarriedOut
<1>9. CarriedOut(r)'
  <2>1. \A c \in Conn : \A i \in Nat : AnswerAt(r, c, i)' => AnswerAt(r, c, i)
    BY <1>2 DEF AnswerAt
  <2>2. QED
    BY <1>2, <1>6, <2>1 DEF CommandInv, CarriedOut
<1>10. QED
  BY <1>7, <1>8, <1>9
\* The worker carries out what it takes, for the first time; nothing of it is left on its way.
LEMMA CommandTaken ==
  ASSUME TypeOK, LinkInv, CommandInv, TakesCommand
  PROVE  \E q \in Command :
           /\ executed[q] = 0 /\ executed' = [executed EXCEPT ![q] = 1]
           /\ call[q] \notin {"new", "sending", "refused", "answered"} /\ UNCHANGED callerVars
           /\ \A r \in Range(cache') : r = q \/ r \in Range(cache)
           /\ DownDrains /\ \A c \in Conn : \A i \in Nat : ~CommandAt(q, c, i)'
           /\ \A r \in Command \ {q}, c \in Conn : \A i \in Nat :
                AnswerAt(r, c, i)' => \E j \in Nat : AnswerAt(r, c, j)
<1>1. ConnectionTypeOK(Ups, Downs) /\ Fields /\ None \notin Conn
  BY TypeParts, ConnAssumption
<1>2. link # None /\ link \in Conn /\ joined /\ down[link] # <<>> /\ Incoming = Head(down[link])
  BY <1>1 DEF TakesCommand, ConnectionTypeOK, Incoming
<1>3. down[link] \in Seq(Downs \cup {Welcome, Error}) /\ Len(down[link]) \in Nat
  BY <1>1, <1>2, LenProperties DEF ConnectionTypeOK
<1>4. Incoming \in Downs \cup {Welcome, Error} /\ Incoming = down[link][1] /\ 1 \in 1..Len(down[link])
  BY <1>2, <1>3, HeadTailProperties
<1>5. PICK q \in Command : q = Incoming.id /\ Incoming = CommandMessage(q)
  BY <1>4, MessageKinds DEF TakesCommand
<1>6. CommandAt(q, link, 1)
  BY <1>4, <1>5 DEF CommandAt
<1>7. executed[q] = 0 /\ call[q] \notin {"new", "sending", "refused"} /\ q \notin Range(cache) /\ call[q] # "answered"
  BY <1>2, <1>6 DEF CommandInv, NotYetCarriedOut, CarriedOut
<1>8. executed' = [executed EXCEPT ![q] = 1] /\ cache' = Cached(q) /\ UNCHANGED callerVars
  BY <1>1, <1>5, <1>7 DEF TakesCommand, Fields
<1>9. \A r \in Range(cache') : r = q \/ r \in Range(cache)
  BY <1>1, <1>8, CachedType DEF Fields
<1>10. \A c \in Conn : \A i \in Nat : CommandAt(q, c, i) => c = link /\ i = 1
  BY <1>2, <1>6 DEF CommandInv, OnceOnItsWay
<1>11. CASE link \in cut
  <2>1. Leave /\ link # None
    BY <1>2, <1>11 DEF TakesCommand
  <2>2. DownDrains /\ UpDrains
    BY <1>1, <2>1, ConnectFlows
  <2>3. down' = [down EXCEPT ![link] = <<>>] /\ UNCHANGED up
    BY <2>1 DEF Leave
  <2>4. ASSUME NEW c \in Conn, NEW i \in Nat
        PROVE  ~CommandAt(q, c, i)'
    <3>1. CASE c = link
      BY <1>1, <1>2, <2>3, <3>1 DEF CommandAt, ConnectionTypeOK
    <3>2. CASE c # link
      BY <1>1, <1>10, <2>3, <3>2 DEF CommandAt, ConnectionTypeOK
    <3>3. QED
      BY <3>1, <3>2
  <2>5. \A r \in Command \ {q}, c \in Conn : \A i \in Nat : AnswerAt(r, c, i)' => AnswerAt(r, c, i)
    BY <2>3 DEF AnswerAt
  <2>6. QED
    BY <1>7, <1>8, <1>9, <2>2, <2>4, <2>5
<1>12. CASE link \notin cut
  <2>1. loop[link] = "serving"
    BY <1>1, <1>2, <1>12, JoinedIsServed
  <2>2. SendUp(<<Result(q)>>) /\ TakeDown /\ UNCHANGED <<link, loop, entry>>
    BY <1>5, <1>12 DEF TakesCommand
  <2>3. Sends(Result(q)) /\ Result(q) \in Ups
    BY <1>2, <2>1, <2>2 DEF SendUp, Sends, Ups
  <2>4. DownDrains
    BY <1>1, <2>2, TakeDownFlows DEF TakesCommand
  <2>5. down' = [down EXCEPT ![link] = Tail(@)]
    BY <2>2 DEF TakeDown
  <2>6. ASSUME NEW c \in Conn, NEW i \in Nat
        PROVE  ~CommandAt(q, c, i)'
    <3>1. CASE c = link
      <4>1. SUFFICES ASSUME i \in 1..Len(Tail(down[link])), Tail(down[link])[i] = CommandMessage(q)
                     PROVE  FALSE
        BY <1>1, <1>2, <2>5, <3>1 DEF CommandAt, ConnectionTypeOK
      <4>2. /\ Len(Tail(down[link])) = Len(down[link]) - 1
            /\ Tail(down[link])[i] = down[link][i + 1]
        BY <1>2, <1>3, <4>1, HeadTailProperties
      <4>3. i + 1 \in Nat /\ CommandAt(q, link, i + 1) /\ i >= 1
        BY <1>3, <4>1, <4>2 DEF CommandAt
      <4>4. QED
        BY <1>2, <1>10, <4>3
    <3>2. CASE c # link
      BY <1>1, <1>10, <2>5, <3>2 DEF CommandAt, ConnectionTypeOK
    <3>3. QED
      BY <3>1, <3>2
  <2>7. ASSUME NEW r \in Command \ {q}, NEW c \in Conn, NEW i \in Nat, AnswerAt(r, c, i)'
        PROVE  AnswerAt(r, c, i)
    <3>1. Result(r) # Result(q)
      BY MessageKinds
    <3>2. QED
      BY <1>1, <2>3, <2>7, <3>1, AnswerFromSent
  <2>8. QED
    BY <1>7, <1>8, <1>9, <2>4, <2>6, <2>7
<1>13. QED
  BY <1>11, <1>12

LEMMA CommandTakenKeeps ==
  ASSUME TypeOK, LinkInv, CommandInv, TakesCommand, NEW r \in Command
  PROVE  OnceOnItsWay(r)' /\ NotYetCarriedOut(r)' /\ CarriedOut(r)' /\ Awaited(r)'
<1>1. PICK q \in Command :
           /\ executed[q] = 0 /\ executed' = [executed EXCEPT ![q] = 1]
           /\ call[q] \notin {"new", "sending", "refused", "answered"} /\ UNCHANGED callerVars
           /\ \A s \in Range(cache') : s = q \/ s \in Range(cache)
           /\ DownDrains /\ \A c \in Conn : \A i \in Nat : ~CommandAt(q, c, i)'
           /\ \A s \in Command \ {q}, c \in Conn : \A i \in Nat :
                AnswerAt(s, c, i)' => \E j \in Nat : AnswerAt(s, c, j)
  BY CommandTaken
<1>2. UNCHANGED <<call, pending>> /\ executed \in [Command -> Nat]
  BY <1>1 DEF callerVars, TypeOK
<1>3. Awaited(r)'
  BY <1>2 DEF CommandInv, Awaited
<1>4. OnceOnItsWay(r)'
  BY <1>1, OnceKept
<1>5. CASE r = q
  <2>1. executed'[r] = 1
    BY <1>1, <1>2, <1>5
  <2>2. NotYetCarriedOut(r)'
    BY <1>1, <1>2, <1>5 DEF NotYetCarriedOut
  <2>3. CarriedOut(r)'
    BY <2>1 DEF CarriedOut
  <2>4. QED
    BY <1>3, <1>4, <2>2, <2>3
<1>6. CASE r # q
  <2>1. executed'[r] = executed[r]
    BY <1>1, <1>2, <1>6
  <2>2. NotYetCarriedOut(r)'
    <3>1. ASSUME NEW c \in Conn, NEW i \in Nat, CommandAt(r, c, i)'
          PROVE  executed[r] = 0 /\ call[r] \notin {"new", "sending", "refused"}
      <4>1. PICK j \in Nat : CommandAt(r, c, j)
        BY <1>1, <3>1, OnceKept
      <4>2. QED
        BY <4>1 DEF CommandInv, NotYetCarriedOut
    <3>2. QED
      BY <1>2, <2>1, <3>1 DEF CommandInv, NotYetCarriedOut
  <2>3. CarriedOut(r)'
    <3>1. ASSUME NEW c \in Conn, NEW i \in Nat, AnswerAt(r, c, i)'
          PROVE  executed[r] = 1
      <4>1. PICK j \in Nat : AnswerAt(r, c, j)
        BY <1>1, <1>6, <3>1
      <4>2. QED
        BY <4>1 DEF CommandInv, CarriedOut
    <3>2. r \in Range(cache') => r \in Range(cache)
      BY <1>1, <1>6
    <3>3. QED
      BY <1>2, <2>1, <3>1, <3>2 DEF CommandInv, CarriedOut
  <2>4. QED
    BY <1>3, <1>4, <2>2, <2>3
<1>7. QED
  BY <1>5, <1>6
\* What a step tells a caller, and whom it takes from pending.
Turns(q, what) ==
    /\ call' = [call EXCEPT ![q] = what]
    /\ \/ call[q] = "new" /\ what = "sending" /\ pending' = pending \cup {q}
       \/ call[q] = "new" /\ what = "refused" /\ pending' = pending
       \/ call[q] = "sending" /\ what = "waiting" /\ pending' = pending
       \/ call[q] = "sending" /\ what = "refused" /\ pending' = pending \ {q}
       \/ call[q] = "waiting" /\ what = "timeout" /\ pending' = pending \ {q}
       \/ call[q] \in {"sending", "waiting"} /\ what = "gone" /\ pending' = pending
       \/ call[q] = "waiting" /\ what = "answered" /\ executed[q] = 1 /\ pending' = pending \ {q}

LEMMA CallsStep ==
  ASSUME TypeOK, LinkInv, CommandInv, [Next]_vars, ~TakesCommand
  PROVE  /\ \/ UNCHANGED <<call, pending>>
            \/ \E q \in Command : \E what \in Calls : Turns(q, what)
            \/ UNCHANGED call /\ \E q \in Command : call[q] \notin {"sending", "waiting"} /\ pending' = pending \ {q}
            \/ /\ call' = [q \in Command |-> IF q \in Waiting THEN "gone" ELSE call[q]]
               /\ pending' = {}
         /\ UNCHANGED executed /\ cache' \in {cache, <<>>}
         /\ DownDrains \/ \E q \in Command : Send(q) /\ ~UNCHANGED down
<1> DEFINE Tells == \/ UNCHANGED <<call, pending>>
                    \/ \E q \in Command : \E what \in Calls : Turns(q, what)
                    \/ UNCHANGED call /\ \E q \in Command : call[q] \notin {"sending", "waiting"} /\ pending' = pending \ {q}
                    \/ /\ call' = [q \in Command |-> IF q \in Waiting THEN "gone" ELSE call[q]]
                       /\ pending' = {}
           Worker == UNCHANGED executed /\ cache' \in {cache, <<>>}
           Flow == DownDrains \/ \E q \in Command : Send(q) /\ ~UNCHANGED down
<1> SUFFICES Tells /\ Worker /\ Flow
  OBVIOUS
<1>1. ConnectionTypeOK(Ups, Downs) /\ Fields
  BY TypeParts
<1>2. UNCHANGED down => DownDrains
  BY <1>1, Unsent
<1>3. ASSUME NEW q \in Command, Ask(q)
      PROVE  Tells /\ Worker /\ Flow
  <2>1. Turns(q, "sending") \/ Turns(q, "refused")
    BY <1>3 DEF Ask, Turns, Told
  <2>2. Tells
    BY <2>1 DEF Calls
  <2>3. QED
    BY <1>2, <1>3, <2>2 DEF Ask, workerVars, connectionVars
<1>4. ASSUME NEW q \in Command, Send(q)
      PROVE  Tells /\ Worker /\ Flow
  <2>1. Turns(q, "waiting") \/ Turns(q, "refused")
    BY <1>4 DEF Send, Turns, Told
  <2>2. Tells
    BY <2>1 DEF Calls
  <2>3. QED
    BY <1>2, <1>4, <2>2 DEF Send, workerVars
<1>5. ASSUME NEW q \in Command, TimesOut(q) \/ GivesUp(q)
      PROVE  Tells /\ Worker /\ Flow
  <2>1. Turns(q, "timeout") \/ Turns(q, "gone")
    BY <1>5 DEF TimesOut, GivesUp, Turns, Told
  <2>2. Tells
    BY <2>1 DEF Calls
  <2>3. QED
    BY <1>2, <1>5, <2>2 DEF TimesOut, GivesUp, workerVars, connectionVars
<1>6. ASSUME NEW c \in Conn, ServeResult(c)
      PROVE  Tells /\ Worker /\ Flow
  <2>1. up[c] # <<>> /\ Arrived(c) = Head(up[c]) /\ up[c] \in Seq(Ups)
    BY <1>1, <1>6 DEF ServeResult, Arrived, ConnectionTypeOK
  <2>2. Arrived(c) \in Ups /\ Arrived(c) = up[c][1] /\ 1 \in 1..Len(up[c])
    BY <2>1, HeadTailProperties, LenProperties
  <2>3. PICK q \in Command : q = Arrived(c).id /\ Arrived(c) = Result(q)
    BY <1>6, <2>2, MessageKinds DEF ServeResult
  <2>4. executed[q] = 1
    BY <2>2, <2>3 DEF AnswerAt, CommandInv, CarriedOut
  <2>5. /\ pending' = pending \ {q} /\ UNCHANGED <<down, executed, cache>>
        /\ IF q \in pending /\ call[q] = "waiting" THEN Told(q, "answered") ELSE UNCHANGED call
    BY <1>6, <2>3 DEF ServeResult, workerVars
  <2>6. CASE q \in pending /\ call[q] = "waiting"
    <3>1. Turns(q, "answered")
      BY <2>4, <2>5, <2>6 DEF Turns, Told
    <3>2. QED
      BY <1>2, <2>5, <3>1 DEF Calls
  <2>7. CASE ~(q \in pending /\ call[q] = "waiting")
    <3>1. call[q] \notin {"sending", "waiting"}
      BY <2>4, <2>7 DEF CommandInv, NotYetCarriedOut, Awaited
    <3>2. QED
      BY <1>2, <2>5, <2>7, <3>1
  <2>8. QED
    BY <2>6, <2>7
<1>7. ASSUME UNCHANGED <<callerVars, executed>>, cache' \in {cache, <<>>}, DownDrains
      PROVE  Tells /\ Worker /\ Flow
  BY <1>7 DEF callerVars
<1>8. CASE Moves
  <2>1. DownDrains
    BY <1>1, <1>8, MoveTypes, ConnectFlows
  <2>2. CASE LeaderStartsAgain
    BY <2>1, <2>2 DEF LeaderStartsAgain, workerVars
  <2>3. CASE ~LeaderStartsAgain
    <3>1. UNCHANGED <<callerVars, executed>> /\ cache' \in {cache, <<>>}
      BY <1>8, <2>3 DEF Moves, Dials, Opens, Ends, Breaks, Forgets, HangsUp, WorkerStartsAgain, workerVars
    <3>2. QED
      BY <1>7, <2>1, <3>1
  <2>4. QED
    BY <2>2, <2>3
<1>9. ASSUME NEW c \in Conn, ServeInventory(c) \/ WriteRow(c)
      PROVE  Tells /\ Worker /\ Flow
  <2>1. UNCHANGED <<callerVars, executed, cache, down>>
    BY <1>9 DEF ServeInventory, WriteRow, EndLoop, connectionVars, workerVars
  <2>2. QED
    BY <1>2, <1>7, <2>1
<1>10. CASE Changes \/ Tick \/ RemoveRow \/ UNCHANGED vars
  <2>1. UNCHANGED <<callerVars, executed, cache, down>>
    BY <1>10 DEF Changes, Tick, RemoveRow, vars, connectionVars, workerVars
  <2>2. QED
    BY <1>2, <1>7, <2>1
<1>11. CASE Welcomed
  <2>1. Incoming.type # "none"
    BY <1>11, MessageKinds DEF Welcomed
  <2>2. DownDrains
    BY <1>1, <1>11, <2>1, TakeDownFlows DEF Welcomed
  <2>3. QED
    BY <1>7, <1>11, <2>2 DEF Welcomed, workerVars
<1> HIDE DEF Tells, Worker, Flow
<1>12. CASE Next
  BY <1>3, <1>4, <1>5, <1>6, <1>8, <1>9, <1>10, <1>11, <1>12 DEF Next, Moves
<1>13. QED
  BY <1>10, <1>12

LEMMA CommandStep ==
  ASSUME TypeOK, LinkInv, CommandInv, [Next]_vars
  PROVE  CommandInv'
<1>1. SUFFICES ASSUME NEW r \in Command
               PROVE  OnceOnItsWay(r)' /\ NotYetCarriedOut(r)' /\ CarriedOut(r)' /\ Awaited(r)'
  BY DEF CommandInv
<1>2. CASE TakesCommand
  BY <1>2, CommandTakenKeeps
<1>3. CASE ~TakesCommand
  <2>1. call \in [Command -> Calls] /\ pending \subseteq Command
    BY DEF TypeOK
  <2>2. Awaited(r)
    BY DEF CommandInv
  <2>3. ASSUME UNCHANGED <<call, pending>>
        PROVE  MayTurn(r) /\ Awaited(r)'
    BY <2>2, <2>3 DEF MayTurn, Awaited
  <2>4. ASSUME NEW q \in Command, NEW what \in Calls, Turns(q, what)
        PROVE  MayTurn(r)
    BY <2>1, <2>4 DEF Turns, MayTurn
  <2>5. ASSUME NEW q \in Command, NEW what \in Calls, Turns(q, what)
        PROVE  Awaited(r)'
    BY <2>1, <2>2, <2>5 DEF Turns, Awaited
  <2>6. ASSUME NEW q \in Command, call[q] \notin {"sending", "waiting"}, pending' = pending \ {q}, UNCHANGED call
        PROVE  MayTurn(r) /\ Awaited(r)'
    BY <2>2, <2>6 DEF MayTurn, Awaited
  <2>7. ASSUME call' = [q \in Command |-> IF q \in Waiting THEN "gone" ELSE call[q]], pending' = {}
        PROVE  MayTurn(r) /\ Awaited(r)'
    <3>1. call'[r] = "gone" \/ (call'[r] = call[r] /\ call[r] \notin {"sending", "waiting"})
      BY <2>7 DEF Waiting
    <3>2. QED
      BY <2>7, <3>1 DEF MayTurn, Awaited
  <2>8. Awaited(r)' /\ MayTurn(r)
    BY <1>3, <2>3, <2>4, <2>5, <2>6, <2>7, CallsStep
  <2>9. ASSUME NEW q \in Command, Send(q), ~UNCHANGED down
        PROVE  OnceOnItsWay(r)' /\ NotYetCarriedOut(r)' /\ CarriedOut(r)'
    BY <2>9, CommandSent
  <2>10. UNCHANGED executed /\ cache' \in {cache, <<>>} /\ AnswersKept
    BY <1>3, CallsStep, AnswersStep
  <2>11. CASE DownDrains
    BY <2>8, <2>10, <2>11, CommandKept
  <2>12. QED
    BY <1>3, <2>8, <2>9, <2>11, CallsStep
<1>4. QED
  BY <1>2, <1>3-----------------------------------------------------------------------------
(* The promise to the callers. *)

\* What the abstract specification sees.
Outcomes == [q \in Command |-> Outcome(call[q])]

LEMMA OutcomeIs ==
  /\ \A what \in {"new", "sending", "waiting"} : Outcome(what) = "open"
  /\ Outcome("timeout") = "unknown" /\ Outcome("gone") = "unknown"
  /\ Outcome("answered") = "answered" /\ Outcome("refused") = "refused"
  BY DEF Outcome

LEMMA OutcomeTold ==
  ASSUME TypeOK, NEW q \in Command, NEW what \in Calls, call' = [call EXCEPT ![q] = what]
  PROVE  Outcomes' = [Outcomes EXCEPT ![q] = Outcome(what)]
<1>1. Outcomes' = [r \in Command |-> Outcome(IF r = q THEN what ELSE call[r])]
  BY DEF Outcomes, TypeOK
<1>2. QED
  BY <1>1 DEF Outcomes

LEMMA PromiseStep ==
  ASSUME TypeOK, LinkInv, CommandInv, [Next]_vars
  PROVE  [Promise!CallNext]_<<Outcomes, executed>>
<1>1. CASE TakesCommand
  <2>1. PICK q \in Command : /\ executed[q] = 0 /\ executed' = [executed EXCEPT ![q] = 1]
                             /\ call[q] \notin {"new", "sending", "refused", "answered"} /\ UNCHANGED call
    BY <1>1, CommandTaken DEF callerVars
  <2>2. Outcomes[q] \in {"open", "unknown"}
    BY <2>1, OutcomeIs DEF Outcomes, TypeOK, Calls
  <2>3. UNCHANGED Outcomes
    BY <2>1 DEF Outcomes
  <2>4. Promise!CarryOut(q)
    BY <2>1, <2>2, <2>3 DEF Promise!CarryOut, Outcomes
  <2>5. QED
    BY <2>4 DEF Promise!CallNext
<1>2. CASE ~TakesCommand
  <2>1. UNCHANGED executed
    BY <1>2, CallsStep
  <2>2. CASE UNCHANGED call
    BY <2>1, <2>2 DEF Outcomes
  <2>3. ASSUME NEW q \in Command, NEW what \in Calls, Turns(q, what)
        PROVE  [Promise!CallNext]_<<Outcomes, executed>>
    <3>1. Outcomes' = [Outcomes EXCEPT ![q] = Outcome(what)]
      BY <2>3, OutcomeTold DEF Turns
    <3>2. Outcomes[q] = Outcome(call[q])
      BY DEF Outcomes
    <3>3. CASE what \in {"sending", "waiting"}
      <4>1. Outcomes[q] = "open" /\ Outcome(what) = "open"
        BY <2>3, <3>2, <3>3, OutcomeIs DEF Turns
      <4>2. UNCHANGED Outcomes
        BY <3>1, <4>1 DEF Outcomes
      <4>3. QED
        BY <2>1, <4>2
    <3>4. CASE what \notin {"sending", "waiting"}
      <4>1. /\ Outcomes[q] = "open"
            /\ Outcome(what) \in {"answered", "refused", "unknown"}
            /\ Outcome(what) = "answered" => executed[q] = 1
            /\ Outcome(what) = "refused" => executed[q] = 0
        BY <2>3, <3>2, <3>4, OutcomeIs DEF Turns, CommandInv, NotYetCarriedOut
      <4>2. Promise!Told(q, Outcome(what))
        BY <2>1, <3>1, <4>1 DEF Promise!Told, Outcomes
      <4>3. QED
        BY <4>1, <4>2 DEF Promise!CallNext
    <3>5. QED
      BY <3>3, <3>4
  <2>4. ASSUME call' = [q \in Command |-> IF q \in Waiting THEN "gone" ELSE call[q]]
        PROVE  [Promise!CallNext]_<<Outcomes, executed>>
    <3>1. \A q \in Waiting : Outcomes[q] = "open"
      BY OutcomeIs DEF Waiting, Outcomes
    <3>2. Outcomes' = [q \in Command |-> IF q \in Waiting THEN "unknown" ELSE Outcomes[q]]
      <4>1. \A q \in Command : Outcome(IF q \in Waiting THEN "gone" ELSE call[q])
                                  = IF q \in Waiting THEN "unknown" ELSE Outcomes[q]
        BY OutcomeIs DEF Outcomes
      <4>2. QED
        BY <2>4, <4>1 DEF Outcomes
    <3>3. Promise!AllTold(Waiting) /\ Waiting \in SUBSET Command
      BY <2>1, <3>1, <3>2 DEF Promise!AllTold, Outcomes, Waiting
    <3>4. QED
      BY <3>3 DEF Promise!CallNext
  <2>5. QED
    BY <1>2, <2>2, <2>3, <2>4, CallsStep
<1>3. QED
  BY <1>1, <1>2
-----------------------------------------------------------------------------
(* The theorems. *)

LinkedInv == TypeOK /\ LinkInv /\ CommandInv /\ InventoryInv

LEMMA LinkedInit ==
  ASSUME Init
  PROVE  LinkedInv
<1>1. TypeOK /\ None \notin Conn /\ Unknown \notin Conn
  BY TypeInit, ConnAssumption
<1>2. LinkInv
  BY <1>1 DEF Init, ConnectionInit, LinkInv, ServedIsOnline
<1>3. CommandInv
  BY DEF Init, ConnectionInit, CommandInv, OnceOnItsWay, NotYetCarriedOut, CarriedOut, Awaited,
         CommandAt, AnswerAt, Range
<1>4. InventoryInv
  BY <1>1 DEF Init, ConnectionInit, InventoryInv, Bounded, Ordered, Newest, Quiet, Comes
<1>5. QED
  BY <1>1, <1>2, <1>3, <1>4 DEF LinkedInv

LEMMA LinkedInvariant == Spec => []LinkedInv
<1>1. LinkedInv /\ [Next]_vars => LinkedInv'
  BY TypeStep, LinkStep, CommandStep, InventoryStep DEF LinkedInv
<1>2. QED
  BY <1>1, LinkedInit, PTL DEF Spec

\* A command for the worker is carried out at most once and never after its caller was refused,
\* and an answer is that of one that was: lost connections, restarts on both sides, callers that
\* time out or leave, and late answers (request_with_audit, resolve_result, the command cache).
THEOREM CommandsAreKept == Spec => ImplementsCall
<1>1. Init => Promise!CallInit
  BY DEF Init, Promise!CallInit, Outcome
<1>2. LinkedInv /\ [Next]_vars => [Promise!CallNext]_(Promise!callVars)
  BY PromiseStep DEF LinkedInv, Outcomes, Promise!callVars
<1>3. QED
  BY <1>1, <1>2, LinkedInvariant, PTL DEF Spec, ImplementsCall, Promise!CallSpec

\* In pending are the callers that wait, and otherwise only some that gave up: an answer finds
\* its caller, and finds nobody who was told something else (request_with_audit's insert and
\* removes, resolve_result).
THEOREM CallersArePending == Spec => []PendingIsAwaited
<1>1. LinkedInv => PendingIsAwaited
  BY DEF LinkedInv, CommandInv, Awaited, PendingIsAwaited, Waiting, TypeOK
<1>2. QED
  BY <1>1, LinkedInvariant, PTL

\* The inventory the leader shows goes back only when the leader started again, or when it forgot
\* the worker while a loop served it (update_inventory's lock, connect_worker's refusal).
THEOREM InventoryIsTheLatest == Spec => InventoryGoesForward
<1>1. LinkedInv /\ [Next]_vars => [known' < known => entry = Unknown \/ entry' \notin Conn \/ stray # {}]_known
  BY InventoryForward DEF LinkedInv
<1>2. QED
  BY <1>1, LinkedInvariant, PTL DEF Spec, InventoryGoesForward
=============================================================================
