------------------------ MODULE AgentConnection_proofs ------------------------
(***************************************************************************)
(* What the steps of a connection preserve, whatever its messages carry.   *)
(***************************************************************************)
EXTENDS AgentConnection, SequenceTheorems, TLAPS

LEMMA SendUpType ==
  ASSUME NEW Up, up \in [Conn -> Seq(Up)], link \in Conn,
         NEW messages \in Seq(Up), SendUp(messages)
  PROVE  up' \in [Conn -> Seq(Up)]
<1>1. up[link] \o messages \in Seq(Up)
  BY ConcatProperties
<1>2. QED
  BY <1>1 DEF SendUp

LEMMA SendDownType ==
  ASSUME NEW Down, down \in [Conn -> Seq(Down)], NEW message \in Down, SendDown(message)
  PROVE  down' \in [Conn -> Seq(Down)]
<1>1. CASE entry \in Conn \ cut
  <2>1. Append(down[entry], message) \in Seq(Down)
    BY <1>1
  <2>2. QED
    BY <1>1, <2>1 DEF SendDown
<1>2. CASE entry \notin Conn \ cut
  BY <1>2 DEF SendDown
<1>3. QED
  BY <1>1, <1>2

\* What is tried either goes as a send or does not go at all.
LEMMA TrySendDownType ==
  ASSUME NEW Down, down \in [Conn -> Seq(Down)], NEW message \in Down, TrySendDown(message)
  PROVE  down' \in [Conn -> Seq(Down)]
  BY SendDownType DEF TrySendDown

LEMMA TakeDownType ==
  ASSUME NEW Down, down \in [Conn -> Seq(Down)], link \in Conn \cup {None},
         Incoming.type # "none", TakeDown
  PROVE  /\ link \in Conn /\ Incoming \in Down
         /\ down' \in [Conn -> Seq(Down)]
<1>1. link \in Conn /\ down[link] # <<>> /\ Incoming = Head(down[link])
  BY DEF Incoming
<1>2. Head(down[link]) \in Down /\ Tail(down[link]) \in Seq(Down)
  BY <1>1, HeadTailProperties
<1>3. QED
  BY <1>1, <1>2 DEF TakeDown

LEMMA ArrivedType ==
  ASSUME NEW Up, up \in [Conn -> Seq(Up)], NEW c \in Conn, Arrived(c).type # "none"
  PROVE  /\ Arrived(c) \in Up
         /\ TakeUp(c) => up' \in [Conn -> Seq(Up)]
<1>1. up[c] # <<>> /\ Arrived(c) = Head(up[c])
  BY DEF Arrived
<1>2. Head(up[c]) \in Up /\ Tail(up[c]) \in Seq(Up)
  BY <1>1, HeadTailProperties
<1>3. QED
  BY <1>1, <1>2 DEF TakeUp

LEMMA EndLoopType ==
  ASSUME NEW Up, NEW Down, ConnectionTypeOK(Up, Down), NEW c \in Conn, EndLoop(c)
  PROVE  ConnectionTypeOK(Up, Down)'
<1>1. <<>> \in Seq(Up)
  BY EmptySeq
<1>2. QED
  BY <1>1 DEF ConnectionTypeOK, EndLoop, Disconnect, Loops

LEMMA FaultType ==
  ASSUME faults \in 0..MaxFaults, UNCHANGED faults \/ Fault
  PROVE  faults' \in 0..MaxFaults
  BY BoundsAssumption DEF Fault

LEMMA LeaveType ==
  ASSUME NEW Up, NEW Down, ConnectionTypeOK(Up, Down), link # None, Leave,
         UNCHANGED faults \/ Fault
  PROVE  ConnectionTypeOK(Up, Down)'
<1>1. <<>> \in Seq(Down \cup {Welcome, Error})
  BY EmptySeq
<1>2. faults' \in 0..MaxFaults
  BY FaultType DEF ConnectionTypeOK
<1>3. QED
  BY <1>1, <1>2 DEF ConnectionTypeOK, Leave

\* A step that moves no payload keeps the type of the connection.
LEMMA ConnectType ==
  ASSUME NEW Up, NEW Down, ConnectionTypeOK(Up, Down), Connect
  PROVE  ConnectionTypeOK(Up, Down)'
<1> DEFINE Downs == Seq(Down \cup {Welcome, Error})
<1>1. /\ <<>> \in Seq(Up) /\ <<>> \in Downs
      /\ <<Welcome>> \in Downs /\ <<Error>> \in Downs
  BY EmptySeq
<1>2. ASSUME NEW c \in Conn, Dial(c)
      PROVE  ConnectionTypeOK(Up, Down)'
  BY <1>2 DEF ConnectionTypeOK, Dial, Loops
<1>3. ASSUME NEW c \in Conn, LoopEnds(c)
      PROVE  ConnectionTypeOK(Up, Down)'
  BY <1>3, EndLoopType DEF LoopEnds
<1>4. ASSUME NEW c \in Conn, Open(c)
      PROVE  ConnectionTypeOK(Up, Down)'
  <2>1. CASE Accepts
    BY <1>1, <1>4, <2>1 DEF ConnectionTypeOK, Open, Loops
  <2>2. CASE ~Accepts
    BY <1>1, <1>4, <2>2 DEF ConnectionTypeOK, Open, Loops
  <2>3. QED
    BY <2>1, <2>2
<1>5. ASSUME NEW c \in Conn, Break(c)
      PROVE  ConnectionTypeOK(Up, Down)'
  <2>1. faults' \in 0..MaxFaults
    BY <1>5, FaultType DEF ConnectionTypeOK, Break
  <2>2. QED
    BY <1>5, <2>1 DEF ConnectionTypeOK, Break
<1>6. CASE Hangup
  BY <1>6, LeaveType DEF Hangup
<1>7. CASE Forget
  <2>1. faults' \in 0..MaxFaults
    BY <1>7, FaultType DEF ConnectionTypeOK, Forget
  <2>2. down' \in [Conn -> Downs]
    BY <1>7, TrySendDownType DEF ConnectionTypeOK, Forget
  <2>3. QED
    BY <1>7, <2>1, <2>2 DEF ConnectionTypeOK, Forget
<1>8. CASE LeaderRestarts
  <2>1. faults' \in 0..MaxFaults
    BY <1>8, FaultType DEF ConnectionTypeOK, LeaderRestarts
  <2>2. QED
    BY <1>1, <1>8, <2>1 DEF ConnectionTypeOK, LeaderRestarts, Loops
<1>9. CASE WorkerRestarts
  BY <1>9, LeaveType DEF WorkerRestarts
<1>10. QED
  BY <1>2, <1>3, <1>4, <1>5, <1>6, <1>7, <1>8, <1>9 DEF Connect
-----------------------------------------------------------------------------
\* The end of a loop touches the entry only if it is the entry's own.
LEMMA EndLoopServed ==
  ASSUME ServedIsOnline, loop \in [Conn -> Loops], NEW c \in Conn, EndLoop(c)
  PROVE  ServedIsOnline'
  BY DEF ServedIsOnline, EndLoop, Disconnect

LEMMA ConnectServed ==
  ASSUME NEW Up, NEW Down, ConnectionTypeOK(Up, Down), ServedIsOnline, Connect
  PROVE  ServedIsOnline'
<1>1. loop \in [Conn -> Loops]
  BY DEF ConnectionTypeOK
<1>2. ASSUME NEW c \in Conn, Dial(c)
      PROVE  ServedIsOnline'
  BY <1>1, <1>2 DEF ServedIsOnline, Dial
<1>3. ASSUME NEW c \in Conn, LoopEnds(c)
      PROVE  ServedIsOnline'
  BY <1>1, <1>3, EndLoopServed DEF LoopEnds
<1>4. ASSUME NEW c \in Conn, Open(c)
      PROVE  ServedIsOnline'
  BY <1>1, <1>4 DEF ServedIsOnline, Open, Accepts
<1>5. CASE UNCHANGED <<entry, loop, stray>>
  BY <1>5 DEF ServedIsOnline
<1>6. CASE Forget
  BY <1>6 DEF ServedIsOnline, Forget
<1>7. CASE LeaderRestarts
  BY <1>7 DEF ServedIsOnline, LeaderRestarts
<1>8. QED
  BY <1>2, <1>3, <1>4, <1>5, <1>6, <1>7
     DEF Connect, Break, Hangup, Leave, WorkerRestarts
=============================================================================
