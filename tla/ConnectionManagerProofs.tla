---------------------- MODULE ConnectionManagerProofs ----------------------
(***************************************************************************)
(* Theorems about ConnectionManager, for every set of connection attempts, *)
(* identifiers and addresses and every limit.                              *)
(*                                                                         *)
(* TypeOK and EntriesAreServed are inductive together; what is proved      *)
(* after them adds one conjunct each:                                      *)
(*   Unstarted      the heartbeat of an attempt that is not registered yet *)
(*                  does not exist, so Register meets a fresh ticker;      *)
(*   IpCountCovers  the counter bounds the attempts that count at its      *)
(*                  address, because it is decremented for the entry that  *)
(*                  is deleted.                                            *)
(***************************************************************************)
EXTENDS ConnectionManager, TLAPS, FiniteSetTheorems

USE DEF EntryOf

-----------------------------------------------------------------------------
\* Type correctness.

\* The manager and the goroutines start in their types.
LEMMA InitType == Init => TypeOK
BY ConstantsAssumption
   DEF Init, TypeOK, HandlerPhases, HeartbeatPhases, Activities

\* A critical section or an outside call of a handler keeps every variable in
\* its type.
LEMMA HandlerType ==
  ASSUME TypeOK, NEW c \in Conns, HandlerStep(c)
  PROVE  TypeOK'
<1> USE ConstantsAssumption
        DEF TypeOK, HandlerPhases, HeartbeatPhases, Activities, Goto
<1>1. CASE Admit(c)
  BY <1>1 DEF Admit
<1>2. CASE Reject(c)
  BY <1>2 DEF Reject
<1>3. CASE Register(c)
  <2>1. Append(stream[IdOf[c]], Connected) \in Seq({Connected, Disconnected})
    OBVIOUS
  <2>2. stream' \in [Ids -> Seq({Connected, Disconnected})]
    BY <1>3, <2>1 DEF Register, Record
  <2>3. QED
    BY <1>3, <2>2 DEF Register, Forget
<1>4. CASE ReceiveMessage(c)
  BY <1>4 DEF ReceiveMessage, Refresh
<1>5. CASE ReceiveForBroadcast(c)
  BY <1>5 DEF ReceiveForBroadcast, Refresh
<1>6. CASE Broadcast(c)
  BY <1>6 DEF Broadcast, Forget, Registered
<1>7. CASE ReceivePong(c)
  BY <1>7 DEF ReceivePong, Refresh
<1>8. CASE MatchPong(c)
  BY <1>8 DEF MatchPong
<1>9. CASE ReadError(c)
  BY <1>9 DEF ReadError
<1>10. CASE RemoveEntry(c)
  <2>1. EntryOf(c) \in Conns
    BY <1>10 DEF RemoveEntry
  <2>2. ipConnectionCount' \in [IPs -> Nat]
    BY <1>10, <2>1 DEF RemoveEntry, Decremented
  <2>3. ticker' \in [Conns -> {"none", "running", "stopped"}]
    BY <1>10, <2>1 DEF RemoveEntry
  <2>4. QED
    BY <1>10, <2>2, <2>3 DEF RemoveEntry, Forget
<1>11. CASE RemoveAbsent(c)
  BY <1>11 DEF RemoveAbsent
<1>12. CASE RecordDisconnected(c)
  <2>1. Append(stream[IdOf[c]], Disconnected) \in Seq({Connected, Disconnected})
    OBVIOUS
  <2>2. stream' \in [Ids -> Seq({Connected, Disconnected})]
    BY <1>12, <2>1 DEF RecordDisconnected, Record
  <2>3. QED
    BY <1>12, <2>2 DEF RecordDisconnected
<1>13. QED
  BY <1>1, <1>2, <1>3, <1>4, <1>5, <1>6, <1>7, <1>8, <1>9, <1>10, <1>11, <1>12
     DEF HandlerStep

\* Taking an entry down keeps the map, the sockets and the pings in their types.
LEMMA DropType ==
  ASSUME TypeOK, NEW i \in Ids, Drop(i)
  PROVE  /\ connections' \in [Ids -> Conns \union {NoConn}]
         /\ closed' \in SUBSET Conns
         /\ activity' \in [Ids -> Activities]
         /\ pingNonce' \in SUBSET Ids
<1> USE DEF TypeOK, Drop, Forget, Activities
<1>1. CASE connections[i] = NoConn
  BY <1>1
<1>2. CASE connections[i] # NoConn
  <2>1. connections[i] \in Conns
    BY <1>2
  <2>2. QED
    BY <1>2, <2>1
<1>3. QED
  BY <1>1, <1>2

\* So do the steps of a heartbeat goroutine.
LEMMA HeartbeatType ==
  ASSUME TypeOK, NEW c \in Conns, HeartbeatStep(c)
  PROVE  TypeOK'
<1> USE ConstantsAssumption
        DEF TypeOK, HandlerPhases, HeartbeatPhases, Activities
<1>1. CASE HeartbeatStart(c)
  BY <1>1 DEF HeartbeatStart
<1>2. CASE HeartbeatTick(c)
  BY <1>2 DEF HeartbeatTick
<1>3. CASE SendPing(c)
  <2>1. CASE EntryOf(c) = NoConn \/ IdOf[c] \in pingNonce
    BY <1>3, <2>1 DEF SendPing
  <2>2. CASE ~(EntryOf(c) = NoConn \/ IdOf[c] \in pingNonce)
    <3>1. IdOf[c] \in Ids
      OBVIOUS
    <3>2. /\ pingNonce' = pingNonce \union {IdOf[c]}
          /\ activity' = [activity EXCEPT ![IdOf[c]] = "pinged"]
      BY <1>3, <2>2 DEF SendPing
    <3>3. pingNonce' \in SUBSET Ids
      BY <3>1, <3>2
    <3>4. QED
      BY <1>3, <3>2, <3>3 DEF SendPing
  <2>3. QED
    BY <2>1, <2>2
<1>4. CASE HeartbeatExpire(c)
  BY <1>4 DEF HeartbeatExpire
<1>5. CASE HeartbeatDrop(c)
  BY <1>5, DropType DEF HeartbeatDrop
<1>6. QED
  BY <1>1, <1>2, <1>3, <1>4, <1>5 DEF HeartbeatStep

\* So do the monitor, the goroutines it spawns and the passing of time.
LEMMA MonitorType ==
  ASSUME TypeOK,
         CheckHeartbeatTimeouts \/ \E i \in Ids : BecomeIdle(i) \/ MonitorDrop(i)
  PROVE  TypeOK'
<1> USE ConstantsAssumption
        DEF TypeOK, HandlerPhases, HeartbeatPhases, Activities
<1>1. CASE CheckHeartbeatTimeouts
  BY <1>1 DEF CheckHeartbeatTimeouts, Idle
<1>2. ASSUME NEW i \in Ids, BecomeIdle(i)
      PROVE  TypeOK'
  BY <1>2 DEF BecomeIdle
<1>3. ASSUME NEW i \in Ids, MonitorDrop(i)
      PROVE  TypeOK'
  BY <1>3, DropType DEF MonitorDrop
<1>4. QED
  BY <1>1, <1>2, <1>3

\* No step of a handler, a heartbeat goroutine or the monitor leaves the types.
LEMMA NextType == TypeOK /\ [Next]_vars => TypeOK'
<1> SUFFICES ASSUME TypeOK, [Next]_vars PROVE TypeOK'
  OBVIOUS
<1>1. CASE UNCHANGED vars
  BY <1>1 DEF TypeOK, vars
<1>2. CASE Next
  BY <1>2, HandlerType, HeartbeatType, MonitorType DEF Next
<1>3. QED
  BY <1>1, <1>2

\* Type correctness: among others, no counter goes negative however often an
\* entry is removed, and only the two session events enter a session's history.
THEOREM TypeCorrect == Spec => []TypeOK
<1>1. QED
  BY InitType, NextType, PTL DEF Spec

-----------------------------------------------------------------------------
\* No entry outlives its handler.

\* The map starts empty, so no entry lacks its handler.
LEMMA InitServed == Init => EntriesAreServed
BY DEF Init, EntriesAreServed

\* Taking an entry down adds none.
LEMMA DropServed ==
  ASSUME TypeOK, EntriesAreServed, NEW i \in Ids, Drop(i), UNCHANGED handler
  PROVE  EntriesAreServed'
<1>1. \A j \in Ids : connections'[j] \in {connections[j], NoConn}
  BY DEF TypeOK, Drop
<1>2. QED
  BY <1>1 DEF EntriesAreServed

\* A handler leaves no entry behind: it registers before it serves, and deletes
\* the entry of its identifier before it stops serving.
LEMMA HandlerServed ==
  ASSUME TypeOK, EntriesAreServed, NEW c \in Conns, HandlerStep(c)
  PROVE  EntriesAreServed'
<1> USE ConstantsAssumption
        DEF TypeOK, EntriesAreServed, ServingPhases, Goto
\* A handler that has not registered owns no entry.
<1>1. CASE Admit(c)
  BY <1>1 DEF Admit
<1>2. CASE Reject(c)
  BY <1>2 DEF Reject
\* The entry written is the handler's own, and so is its identifier.
<1>3. CASE Register(c)
  BY <1>3 DEF Register
<1>4. CASE ReceiveMessage(c)
  BY <1>4 DEF ReceiveMessage
<1>5. CASE ReceiveForBroadcast(c)
  BY <1>5 DEF ReceiveForBroadcast
<1>6. CASE Broadcast(c)
  <2>1. \A i \in Ids : connections'[i] \in {connections[i], NoConn}
    BY <1>6 DEF Broadcast
  <2>2. QED
    BY <1>6, <2>1 DEF Broadcast
<1>7. CASE ReceivePong(c)
  BY <1>7 DEF ReceivePong
<1>8. CASE MatchPong(c)
  BY <1>8 DEF MatchPong
<1>9. CASE ReadError(c)
  BY <1>9 DEF ReadError
\* The handler deletes the only entry that could be its own.
<1>10. CASE RemoveEntry(c)
  BY <1>10 DEF RemoveEntry
<1>11. CASE RemoveAbsent(c)
  BY <1>11 DEF RemoveAbsent
<1>12. CASE RecordDisconnected(c)
  BY <1>12 DEF RecordDisconnected
<1>13. QED
  BY <1>1, <1>2, <1>3, <1>4, <1>5, <1>6, <1>7, <1>8, <1>9, <1>10, <1>11, <1>12
     DEF HandlerStep

\* A heartbeat goroutine only ever takes entries down.
LEMMA HeartbeatServed ==
  ASSUME TypeOK, EntriesAreServed, NEW c \in Conns, HeartbeatStep(c)
  PROVE  EntriesAreServed'
<1>1. CASE HeartbeatStart(c) \/ HeartbeatTick(c) \/ SendPing(c) \/ HeartbeatExpire(c)
  BY <1>1 DEF HeartbeatStart, HeartbeatTick, SendPing, HeartbeatExpire,
              EntriesAreServed
<1>2. CASE HeartbeatDrop(c)
  <2>1. IdOf[c] \in Ids
    BY ConstantsAssumption
  <2>2. QED
    BY <1>2, <2>1, DropServed DEF HeartbeatDrop
<1>3. QED
  BY <1>1, <1>2 DEF HeartbeatStep

\* No step of the manager leaves an entry without a handler.
LEMMA NextServed == TypeOK /\ EntriesAreServed /\ [Next]_vars => EntriesAreServed'
<1> SUFFICES ASSUME TypeOK, EntriesAreServed, [Next]_vars
             PROVE  EntriesAreServed'
  OBVIOUS
<1>1. CASE UNCHANGED vars
  BY <1>1 DEF EntriesAreServed, vars
<1>2. ASSUME NEW c \in Conns, HandlerStep(c) \/ HeartbeatStep(c)
      PROVE  EntriesAreServed'
  BY <1>2, HandlerServed, HeartbeatServed
<1>3. CASE CheckHeartbeatTimeouts
  BY <1>3 DEF CheckHeartbeatTimeouts, EntriesAreServed
<1>4. ASSUME NEW i \in Ids, BecomeIdle(i)
      PROVE  EntriesAreServed'
  BY <1>4 DEF BecomeIdle, EntriesAreServed
<1>5. ASSUME NEW i \in Ids, MonitorDrop(i)
      PROVE  EntriesAreServed'
  BY <1>5, DropServed DEF MonitorDrop
<1>6. QED
  BY <1>1, <1>2, <1>3, <1>4, <1>5 DEF Next

\* No entry of the map outlives its handler: whatever connection a broadcast
\* or a reply finds, its handler will still run RemoveConnection, even if an
\* identifier is shared by any number of connections that leave in any order.
THEOREM EntriesServed == Spec => []EntriesAreServed
<1>1. QED
  BY InitType, NextType, InitServed, NextServed, PTL DEF Spec

-----------------------------------------------------------------------------
\* Every registered connection is watched by its own heartbeat goroutine.

Unstarted ==
  \A c \in Conns : handler[c] \in {"new", "admitted", "rejected"} =>
                    heartbeat[c] = "none" /\ ticker[c] = "none"

Watched == Unstarted /\ WatchedWhileRegistered

\* At the start nothing is registered and no heartbeat goroutine runs.
LEMMA InitWatched == Init => Watched
BY ConstantsAssumption
   DEF Init, Watched, Unstarted, WatchedWhileRegistered, Registered

\* A step that leaves the two goroutines of a connection alone and does not
\* register it cannot leave it unwatched.
LEMMA WatchedKept ==
  ASSUME Watched, UNCHANGED <<heartbeat, ticker>>,
         \A c \in Conns : EntryOf(c)' \in {EntryOf(c), NoConn},
         \A c \in Conns : handler[c]' \in {"new", "admitted", "rejected"} =>
                            handler[c] \in {"new", "admitted", "rejected"}
  PROVE  Watched'
BY ConstantsAssumption
   DEF Watched, Unstarted, WatchedWhileRegistered, Registered

\* A handler that registers starts its heartbeat goroutine in the same step, and
\* nothing else it does stops one.
LEMMA HandlerWatched ==
  ASSUME TypeOK, EntriesAreServed, Watched, NEW c \in Conns, HandlerStep(c)
  PROVE  Watched'
<1> USE ConstantsAssumption DEF TypeOK, Goto
<1>1. CASE \/ Admit(c) \/ Reject(c) \/ ReceiveMessage(c) \/ ReceivePong(c)
           \/ ReceiveForBroadcast(c) \/ MatchPong(c) \/ ReadError(c)
           \/ RemoveAbsent(c) \/ RecordDisconnected(c)
  BY <1>1, WatchedKept
     DEF Admit, Reject, ReceiveMessage, ReceivePong, ReceiveForBroadcast,
         MatchPong, ReadError, RemoveAbsent, RecordDisconnected
\* The connection that becomes registered gets a goroutine that has not
\* created its ticker; the connection it replaces is registered no more.
<1>2. CASE Register(c)
  <2>1. ticker[c] = "none"
    BY <1>2 DEF Register, Watched, Unstarted
  <2>2. QED
    BY <1>2, <2>1
       DEF Register, Watched, Unstarted, WatchedWhileRegistered, Registered
<1>3. CASE Broadcast(c)
  <2>1. \A i \in Ids : connections'[i] \in {connections[i], NoConn}
    BY <1>3 DEF Broadcast
  <2>2. QED
    BY <1>3, <2>1, WatchedKept DEF Broadcast
\* The ticker stopped is that of the connection whose entry is deleted.
<1>4. CASE RemoveEntry(c)
  <2>1. PICK d \in Conns : d = EntryOf(c)
    BY <1>4 DEF RemoveEntry
  <2>2. IdOf[d] = IdOf[c] /\ handler[d] \in ServingPhases
    BY <2>1 DEF EntriesAreServed
  <2>3. \A e \in Conns : EntryOf(e)' = IF IdOf[e] = IdOf[c] THEN NoConn
                                       ELSE EntryOf(e)
    BY <1>4 DEF RemoveEntry
  <2>4. /\ heartbeat' = heartbeat
        /\ \A e \in Conns : e # d \/ ticker[e] = "none" => ticker'[e] = ticker[e]
        /\ \A e \in Conns : handler[e]' \in {"new", "admitted", "rejected"} =>
                             handler[e] \in {"new", "admitted", "rejected"}
    BY <1>4, <2>1 DEF RemoveEntry
  <2>5. Unstarted'
    BY <2>4 DEF Watched, Unstarted
  <2>6. ASSUME NEW e \in Conns, EntryOf(e)' = e
        PROVE  e \in Registered /\ e # d
    BY <2>1, <2>2, <2>3, <2>6 DEF Registered
  <2>7. WatchedWhileRegistered'
    BY <2>4, <2>6 DEF Watched, WatchedWhileRegistered, Registered
  <2>8. QED
    BY <2>5, <2>7 DEF Watched
<1>5. QED
  BY <1>1, <1>2, <1>3, <1>4 DEF HandlerStep

\* A heartbeat goroutine ends only when its identifier has no entry.
LEMMA HeartbeatWatched ==
  ASSUME TypeOK, Watched, NEW c \in Conns, HeartbeatStep(c)
  PROVE  Watched'
<1> USE ConstantsAssumption
        DEF TypeOK, Watched, Unstarted, WatchedWhileRegistered, Registered
<1>1. CASE HeartbeatStart(c)
  BY <1>1 DEF HeartbeatStart
\* The goroutine ends only when the identifier has no entry at all.
<1>2. CASE HeartbeatTick(c)
  <2>1. CASE EntryOf(c) = NoConn
    <3>1. /\ heartbeat' = [heartbeat EXCEPT ![c] = "exited"]
          /\ ticker' = [ticker EXCEPT ![c] = "stopped"]
          /\ heartbeat[c] = "waiting"
          /\ UNCHANGED <<handler, connections>>
      BY <1>2, <2>1 DEF HeartbeatTick
    <3>2. EntryOf(c) # c /\ handler[c] \notin {"new", "admitted", "rejected"}
      BY <2>1, <3>1
    <3>3. QED
      BY <3>1, <3>2
  <2>2. CASE EntryOf(c) # NoConn
    BY <1>2, <2>2 DEF HeartbeatTick
  <2>3. QED
    BY <2>1, <2>2
<1>3. CASE SendPing(c)
  <2>1. /\ heartbeat' = [heartbeat EXCEPT ![c] = "awaiting"]
        /\ heartbeat[c] = "sending"
        /\ UNCHANGED <<handler, connections, ticker>>
    BY <1>3 DEF SendPing
  <2>2. QED
    BY <2>1
<1>4. CASE HeartbeatExpire(c)
  BY <1>4 DEF HeartbeatExpire
\* Nor does it end here with an entry left.
<1>5. CASE HeartbeatDrop(c)
  <2>1. /\ EntryOf(c)' = NoConn
        /\ \A e \in Conns : EntryOf(e)' \in {EntryOf(e), NoConn}
    BY <1>5 DEF HeartbeatDrop, Drop
  <2>2. QED
    BY <1>5, <2>1 DEF HeartbeatDrop
<1>6. QED
  BY <1>1, <1>2, <1>3, <1>4, <1>5 DEF HeartbeatStep

\* No step of the manager leaves a registered connection without a heartbeat.
LEMMA NextWatched ==
  TypeOK /\ EntriesAreServed /\ Watched /\ [Next]_vars => Watched'
<1> SUFFICES ASSUME TypeOK, EntriesAreServed, Watched, [Next]_vars
             PROVE  Watched'
  OBVIOUS
<1>1. CASE UNCHANGED vars
  BY <1>1, WatchedKept DEF vars
<1>2. ASSUME NEW c \in Conns, HandlerStep(c) \/ HeartbeatStep(c)
      PROVE  Watched'
  BY <1>2, HandlerWatched, HeartbeatWatched
<1>3. CASE CheckHeartbeatTimeouts
  BY <1>3, WatchedKept DEF CheckHeartbeatTimeouts
<1>4. ASSUME NEW i \in Ids, BecomeIdle(i)
      PROVE  Watched'
  BY <1>4, WatchedKept DEF BecomeIdle
<1>5. ASSUME NEW i \in Ids, MonitorDrop(i)
      PROVE  Watched'
  <2>1. \A e \in Conns : EntryOf(e)' \in {EntryOf(e), NoConn}
    BY <1>5, ConstantsAssumption DEF MonitorDrop, Drop, TypeOK
  <2>2. QED
    BY <1>5, <2>1, WatchedKept DEF MonitorDrop
<1>6. QED
  BY <1>1, <1>2, <1>3, <1>4, <1>5 DEF Next

\* A registered connection always has a live heartbeat goroutine of its own
\* whose ticker has not been stopped: whatever the goroutines of an earlier
\* connection of its identifier do to the entry, it is pinged and can expire.
THEOREM RegisteredIsWatched == Spec => []WatchedWhileRegistered
<1>1. Watched => WatchedWhileRegistered
  BY DEF Watched
<1>2. QED
  BY <1>1, InitType, NextType, InitServed, NextServed, InitWatched, NextWatched,
     PTL DEF Spec

-----------------------------------------------------------------------------
\* The limit per address, from whatever addresses an identifier is used.

\* The attempts that count for an address can be counted.
LEMMA CountedFinite ==
  ASSUME NEW ip \in IPs
  PROVE  IsFiniteSet(CountedAt(ip)) /\ Cardinality(CountedAt(ip)) \in Nat
<1>1. CountedAt(ip) \subseteq Conns
  BY DEF CountedAt, Counted
<1>2. QED
  BY <1>1, ConstantsAssumption, FS_Subset, FS_CardinalityType

\* At the start no attempt counts and every counter is zero.
LEMMA InitCovers == Init => IpCountCovers
<1> SUFFICES ASSUME Init, NEW ip \in IPs
             PROVE  /\ Cardinality(CountedAt(ip)) <= ipConnectionCount[ip]
                    /\ ipConnectionCount[ip] <= MaxPerIP
  BY DEF IpCountCovers
<1>1. CountedAt(ip) = {}
  BY ConstantsAssumption DEF Init, CountedAt, Counted
<1>2. QED
  BY <1>1, FS_EmptySet, ConstantsAssumption DEF Init

\* A step that leaves the counters alone may make attempts count no more.
LEMMA CoversKept ==
  ASSUME TypeOK, IpCountCovers, UNCHANGED ipConnectionCount, Counted' \subseteq Counted
  PROVE  IpCountCovers'
<1> SUFFICES ASSUME NEW ip \in IPs
             PROVE  /\ Cardinality(CountedAt(ip)') <= ipConnectionCount[ip]
                    /\ ipConnectionCount[ip] <= MaxPerIP
  BY DEF IpCountCovers
<1>1. CountedAt(ip)' \subseteq CountedAt(ip)
  BY DEF CountedAt
<1>2. /\ Cardinality(CountedAt(ip)') <= Cardinality(CountedAt(ip))
      /\ Cardinality(CountedAt(ip)') \in Nat
  BY <1>1, CountedFinite, FS_Subset, FS_CardinalityType
<1>3. /\ Cardinality(CountedAt(ip)) <= ipConnectionCount[ip]
      /\ ipConnectionCount[ip] <= MaxPerIP
      /\ ipConnectionCount[ip] \in Nat
  BY DEF IpCountCovers, TypeOK
<1>4. Cardinality(CountedAt(ip)) \in Nat
  BY CountedFinite
<1>5. QED
  BY <1>2, <1>3, <1>4, ConstantsAssumption

\* Deleting an entry makes no attempt count.
LEMMA DropCounted ==
  ASSUME TypeOK, NEW i \in Ids, Drop(i), UNCHANGED handler
  PROVE  Counted' \subseteq Counted
<1>1. \A j \in Ids : connections'[j] \in {connections[j], NoConn}
  BY DEF TypeOK, Drop
<1>2. QED
  BY <1>1, ConstantsAssumption DEF Counted

\* What the steps of a handler other than its admission do to the attempts that
\* count: registering replaces the one in the map, a failed broadcast takes
\* entries down, and nothing makes another attempt count.
LEMMA HandlerCounted ==
  ASSUME TypeOK, NEW c \in Conns, HandlerStep(c), ~Admit(c)
  PROVE  Counted' \subseteq Counted
<1> USE ConstantsAssumption DEF TypeOK, Goto, Counted
<1>1. CASE Register(c)
  BY <1>1 DEF Register
<1>2. CASE Broadcast(c)
  <2>1. \A i \in Ids : connections'[i] \in {connections[i], NoConn}
    BY <1>2 DEF Broadcast
  <2>2. QED
    BY <1>2, <2>1 DEF Broadcast
<1>3. CASE RemoveEntry(c)
  BY <1>3 DEF RemoveEntry
<1>4. CASE \/ Reject(c) \/ ReceiveMessage(c) \/ ReceivePong(c)
           \/ ReceiveForBroadcast(c) \/ MatchPong(c) \/ ReadError(c)
           \/ RemoveAbsent(c) \/ RecordDisconnected(c)
  BY <1>4 DEF Reject, ReceiveMessage, ReceivePong, ReceiveForBroadcast,
              MatchPong, ReadError, RemoveAbsent, RecordDisconnected
<1>5. QED
  BY <1>1, <1>2, <1>3, <1>4 DEF HandlerStep

\* An attempt let in starts to count.
LEMMA AdmitCounted ==
  ASSUME TypeOK, EntriesAreServed, NEW c \in Conns, Admit(c)
  PROVE  c \notin Counted /\ Counted' = Counted \union {c}
<1>1. EntryOf(c) # c /\ handler[c] = "new"
  BY ConstantsAssumption DEF Admit, EntriesAreServed, ServingPhases
<1>2. QED
  BY <1>1, ConstantsAssumption DEF Admit, Goto, TypeOK, Counted

\* The entry deleted counted, and counts no more.
LEMMA RemoveCounted ==
  ASSUME TypeOK, EntriesAreServed, NEW c \in Conns, RemoveEntry(c)
  PROVE  EntryOf(c) \in Counted /\ Counted' = Counted \ {EntryOf(c)}
<1>1. EntryOf(c) \in Conns /\ IdOf[c] \in Ids
  BY ConstantsAssumption DEF RemoveEntry, TypeOK
<1>2. /\ IdOf[EntryOf(c)] = IdOf[c]
      /\ handler[EntryOf(c)] \in ServingPhases
  BY <1>1 DEF EntriesAreServed, RemoveEntry
<1>3. \A d \in Conns : EntryOf(d)' = IF IdOf[d] = IdOf[c] THEN NoConn ELSE EntryOf(d)
  BY ConstantsAssumption DEF RemoveEntry, TypeOK
<1>4. \A d \in Conns : handler[d]' = "admitted" <=> handler[d] = "admitted"
  BY DEF RemoveEntry, Goto, TypeOK
<1>5. handler[EntryOf(c)] # "admitted"
  BY <1>2 DEF ServingPhases
<1>6. ASSUME NEW d \in Conns
      PROVE  d \in Counted' <=> d \in Counted /\ d # EntryOf(c)
  <2>1. CASE IdOf[d] = IdOf[c]
    BY <1>3, <1>4, <1>5, <2>1, ConstantsAssumption DEF Counted
  <2>2. CASE IdOf[d] # IdOf[c]
    BY <1>2, <1>3, <1>4, <2>2 DEF Counted
  <2>3. QED
    BY <2>1, <2>2
<1>7. EntryOf(c) \in Counted
  BY <1>1, <1>2 DEF Counted
<1>8. QED
  BY <1>6, <1>7 DEF Counted

\* A handler counts the slot it takes, and the decrement for the entry it finds
\* takes that entry out, at the address that is decremented.
LEMMA HandlerCovers ==
  ASSUME TypeOK, EntriesAreServed, IpCountCovers, NEW c \in Conns, HandlerStep(c)
  PROVE  IpCountCovers'
\* One more attempt counts and the counter is one larger, below the limit.
<1>1. CASE Admit(c)
  <2> DEFINE ip == IPOf[c]
  <2>1. ip \in IPs
    BY ConstantsAssumption
  <2>2. c \notin CountedAt(ip) /\ CountedAt(ip)' = CountedAt(ip) \union {c}
    BY <1>1, AdmitCounted DEF CountedAt
  <2>3. Cardinality(CountedAt(ip)') = Cardinality(CountedAt(ip)) + 1
    BY <2>1, <2>2, CountedFinite, FS_AddElement
  <2>4. \A other \in IPs \ {ip} : CountedAt(other)' = CountedAt(other)
    BY <1>1, AdmitCounted DEF CountedAt
  <2>5. /\ ipConnectionCount[ip] < MaxPerIP
        /\ ipConnectionCount' = [ipConnectionCount EXCEPT ![ip] = @ + 1]
    BY <1>1 DEF Admit
  <2>6. QED
    BY <2>1, <2>3, <2>4, <2>5, CountedFinite, ConstantsAssumption
       DEF IpCountCovers, TypeOK
\* The entry found counted at its address, so the counter was not zero.
<1>2. CASE RemoveEntry(c)
  <2>1. PICK d \in Conns : d = EntryOf(c)
    BY <1>2, ConstantsAssumption DEF RemoveEntry, TypeOK
  <2> DEFINE ip == IPOf[d]
  <2>2. ip \in IPs
    BY <2>1, ConstantsAssumption
  <2>3. d \in CountedAt(ip) /\ CountedAt(ip)' = CountedAt(ip) \ {d}
    BY <1>2, <2>1, RemoveCounted DEF CountedAt
  <2>4. Cardinality(CountedAt(ip)') = Cardinality(CountedAt(ip)) - 1
    BY <2>2, <2>3, CountedFinite, FS_RemoveElement
  <2>5. \A other \in IPs \ {ip} : CountedAt(other)' = CountedAt(other)
    BY <1>2, <2>1, RemoveCounted DEF CountedAt
  <2>6. ipConnectionCount' = [ipConnectionCount EXCEPT ![ip] = Decremented(@)]
    BY <1>2, <2>1 DEF RemoveEntry
  <2>7. Cardinality(CountedAt(ip)') \in Nat
    BY <2>2, <2>3, CountedFinite, FS_RemoveElement, FS_CardinalityType
  <2> HIDE DEF ip
  <2>8. ipConnectionCount'[ip] = ipConnectionCount[ip] - 1
    BY <2>2, <2>4, <2>6, <2>7, CountedFinite DEF IpCountCovers, TypeOK, Decremented
  <2>9. QED
    BY <2>2, <2>4, <2>5, <2>6, <2>8, CountedFinite, ConstantsAssumption
       DEF IpCountCovers, TypeOK
<1>3. CASE ~Admit(c) /\ ~RemoveEntry(c)
  <2>1. UNCHANGED ipConnectionCount
    BY <1>3 DEF HandlerStep, Reject, Register, ReceiveMessage, ReceivePong,
                ReceiveForBroadcast, Broadcast, MatchPong, ReadError, RemoveAbsent,
                RecordDisconnected
  <2>2. QED
    BY <1>3, <2>1, HandlerCounted, CoversKept
<1>4. QED
  BY <1>1, <1>2, <1>3

\* The heartbeats and the monitor leave the handlers and the counters alone, and
\* only ever take entries down.
LEMMA OtherCounted ==
  ASSUME TypeOK,
         \/ \E c \in Conns : HeartbeatStep(c)
         \/ CheckHeartbeatTimeouts
         \/ \E i \in Ids : BecomeIdle(i) \/ MonitorDrop(i)
         \/ UNCHANGED vars
  PROVE  UNCHANGED <<handler, ipConnectionCount>> /\ Counted' \subseteq Counted
<1>1. ASSUME NEW c \in Conns, HeartbeatDrop(c)
      PROVE  UNCHANGED <<handler, ipConnectionCount>> /\ Counted' \subseteq Counted
  <2>1. IdOf[c] \in Ids
    BY ConstantsAssumption
  <2>2. QED
    BY <1>1, <2>1, DropCounted DEF HeartbeatDrop
<1>2. ASSUME NEW i \in Ids, MonitorDrop(i)
      PROVE  UNCHANGED <<handler, ipConnectionCount>> /\ Counted' \subseteq Counted
  BY <1>2, DropCounted DEF MonitorDrop
<1>3. UNCHANGED <<handler, connections>> => Counted' \subseteq Counted
  BY DEF Counted
<1>4. ASSUME NEW c \in Conns, HeartbeatStep(c), ~HeartbeatDrop(c)
      PROVE  UNCHANGED <<handler, connections, ipConnectionCount>>
  BY <1>4 DEF HeartbeatStep, HeartbeatStart, HeartbeatTick, SendPing, HeartbeatExpire
<1>5. ASSUME CheckHeartbeatTimeouts \/ (\E i \in Ids : BecomeIdle(i)) \/ UNCHANGED vars
      PROVE  UNCHANGED <<handler, connections, ipConnectionCount>>
  BY <1>5 DEF CheckHeartbeatTimeouts, BecomeIdle, vars
<1>6. QED
  BY <1>1, <1>2, <1>3, <1>4, <1>5

\* No step of the manager makes a counter smaller than the number of attempts
\* that count at its address, or larger than the limit.
LEMMA NextCovers ==
  TypeOK /\ EntriesAreServed /\ IpCountCovers /\ [Next]_vars => IpCountCovers'
<1> SUFFICES ASSUME TypeOK, EntriesAreServed, IpCountCovers, [Next]_vars
             PROVE  IpCountCovers'
  OBVIOUS
<1>1. ASSUME NEW c \in Conns, HandlerStep(c)
      PROVE  IpCountCovers'
  BY <1>1, HandlerCovers
<1>2. ASSUME \/ \E c \in Conns : HeartbeatStep(c)
             \/ CheckHeartbeatTimeouts
             \/ \E i \in Ids : BecomeIdle(i) \/ MonitorDrop(i)
             \/ UNCHANGED vars
      PROVE  IpCountCovers'
  BY <1>2, OtherCounted, CoversKept
<1>3. QED
  BY <1>1, <1>2 DEF Next

\* The counter never undercounts the connections in the map, and those about to
\* enter it, of an address, even where an identifier moves between addresses.
THEOREM CounterCovers == Spec => []IpCountCovers
<1>1. QED
  BY InitType, NextType, InitServed, NextServed, InitCovers, NextCovers, PTL DEF Spec

\* At most MaxPerIP connections of an address are in the map or about to enter
\* it at any time, whoever was replaced, dropped or removed by whom.
THEOREM LimitKept == Spec => []EntryLimit
<1>1. TypeOK /\ IpCountCovers => EntryLimit
  BY CountedFinite, ConstantsAssumption DEF IpCountCovers, EntryLimit, TypeOK
<1>2. QED
  BY <1>1, CounterCovers, TypeCorrect, PTL

-----------------------------------------------------------------------------
\* The connection manager implements AdmissionControl.

\* The value of finished in the refinement mapping.
Finished == {c \in Conns : handler[c] \notin {"new", "admitted"} /\ EntryOf(c) # c}

\* Whoever has been seen and does not count is finished.
LEMMA FinishedIs == Finished = {c \in Conns : handler[c] # "new"} \ Counted
                 /\ Finished' = {c \in Conns : handler[c]' # "new"} \ Counted'
BY DEF Finished, Counted

\* A step in which nobody arrives and nobody starts to count lets some leave, or
\* is invisible to the abstraction.
LEMMA AdmissionLeave ==
  ASSUME TypeOK, EntriesAreServed, Counted' \subseteq Counted,
         \A c \in Conns : handler[c]' = "new" <=> handler[c] = "new"
  PROVE  [Admission!Next]_(Admission!vars)
<1>1. \A c \in Counted : c \in Conns /\ handler[c] # "new"
  BY ConstantsAssumption DEF Counted, EntriesAreServed, ServingPhases
<1>2. Finished' = Finished \union (Counted \ Counted')
  BY <1>1, FinishedIs
<1>3. CASE Counted' = Counted
  <2>1. Finished' = Finished
    BY <1>2, <1>3
  <2>2. QED
    BY <1>3, <2>1 DEF Admission!vars, Finished
<1>4. CASE Counted' # Counted
  <2>1. Admission!Leave
    BY <1>2, <1>4 DEF Admission!Leave, Finished
  <2>2. QED
    BY <2>1 DEF Admission!Next
<1>5. QED
  BY <1>3, <1>4

\* What a handler does to the slots is a step of the abstract admission control,
\* or invisible to it.
LEMMA HandlerAdmission ==
  ASSUME TypeOK, EntriesAreServed, IpCountCovers, NEW c \in Conns, HandlerStep(c)
  PROVE  [Admission!Next]_(Admission!vars)
\* Entering: the counter bounds those that count, and it is below the limit.
<1>1. CASE Admit(c)
  <2>1. c \notin Counted /\ Counted' = Counted \union {c} /\ handler[c] = "new"
    BY <1>1, AdmitCounted DEF Admit
  <2>2. Finished' = Finished /\ c \notin Finished
    <3>1. \A d \in Conns : d # c => handler[d]' = handler[d]
      BY <1>1 DEF Admit, Goto, TypeOK
    <3>2. QED
      BY <2>1, <3>1, FinishedIs
  <2>3. Admission!Inside(IPOf[c]) = CountedAt(IPOf[c])
    BY DEF Admission!Inside, CountedAt
  <2>4. IPOf[c] \in IPs
    BY ConstantsAssumption
  <2>5. Cardinality(CountedAt(IPOf[c])) < MaxPerIP
    <3>1. /\ ipConnectionCount[IPOf[c]] < MaxPerIP
          /\ ipConnectionCount[IPOf[c]] \in Nat
          /\ Cardinality(CountedAt(IPOf[c])) <= ipConnectionCount[IPOf[c]]
      BY <1>1, <2>4 DEF Admit, IpCountCovers, TypeOK
    <3>2. QED
      BY <2>4, <3>1, CountedFinite, ConstantsAssumption
  <2>6. Admission!Cardinality(CountedAt(IPOf[c])) = Cardinality(CountedAt(IPOf[c]))
    BY DEF Admission!Cardinality, Cardinality
  <2>7. Admission!Enter(c)
    BY <2>1, <2>2, <2>3, <2>5, <2>6 DEF Admission!Enter, Finished
  <2>8. QED
    BY <2>7 DEF Admission!Next
<1>2. CASE Reject(c)
  <2>1. /\ handler[c] = "new" /\ c \notin Counted /\ Counted' = Counted
        /\ \A d \in Conns : handler[d]' = IF d = c THEN "rejected" ELSE handler[d]
    <3>1. /\ handler[c] = "new" /\ UNCHANGED connections
          /\ \A d \in Conns : handler[d]' = IF d = c THEN "rejected" ELSE handler[d]
      BY <1>2 DEF Reject, Goto, TypeOK
    <3>2. EntryOf(c) # c
      BY <3>1, ConstantsAssumption DEF EntriesAreServed, ServingPhases
    <3>3. QED
      BY <3>1, <3>2 DEF Counted
  <2>2. Finished' = Finished \union {c} /\ c \notin Finished
    BY <2>1, FinishedIs
  <2>3. Admission!Refuse(c)
    BY <2>1, <2>2 DEF Admission!Refuse, Finished
  <2>4. QED
    BY <2>3 DEF Admission!Next
<1>3. CASE ~Admit(c) /\ ~Reject(c)
  <2>1. \A d \in Conns : handler[d]' = "new" <=> handler[d] = "new"
    BY <1>3 DEF HandlerStep, Register, ReceiveMessage, ReceivePong, TypeOK, Goto,
                ReceiveForBroadcast, Broadcast, MatchPong, ReadError, RemoveEntry,
                RemoveAbsent, RecordDisconnected
  <2>2. QED
    BY <1>3, <2>1, HandlerCounted, AdmissionLeave
<1>4. QED
  BY <1>1, <1>2, <1>3

\* Every step of the manager is a step of the abstract admission control, or
\* invisible to it.
LEMMA NextAdmission ==
  TypeOK /\ EntriesAreServed /\ IpCountCovers /\ [Next]_vars
    => [Admission!Next]_(Admission!vars)
<1> SUFFICES ASSUME TypeOK, EntriesAreServed, IpCountCovers, [Next]_vars
             PROVE  [Admission!Next]_(Admission!vars)
  OBVIOUS
<1>1. ASSUME NEW c \in Conns, HandlerStep(c)
      PROVE  [Admission!Next]_(Admission!vars)
  BY <1>1, HandlerAdmission
<1>2. ASSUME \/ \E c \in Conns : HeartbeatStep(c)
             \/ CheckHeartbeatTimeouts
             \/ \E i \in Ids : BecomeIdle(i) \/ MonitorDrop(i)
             \/ UNCHANGED vars
      PROVE  [Admission!Next]_(Admission!vars)
  BY <1>2, OtherCounted, AdmissionLeave
<1>3. QED
  BY <1>1, <1>2 DEF Next

\* The limiter, the map, the timeouts and the handlers together only ever let
\* an attempt in below the limit, refuse it, or end its counting for good.
THEOREM AdmissionImplemented == Spec => ImplementsAdmission
<1>1. Init => Admission!Init
  BY ConstantsAssumption DEF Init, Admission!Init, Counted
<1>2. QED
  BY <1>1, CounterCovers, EntriesServed, TypeCorrect, NextAdmission, PTL
     DEF Spec, ImplementsAdmission, Admission!Spec

-----------------------------------------------------------------------------
\* The map is complete for the connections that share no identifier.

\* At the start there is no open connection that the map could lack.
LEMMA InitOpen == Init => OpenIsRegistered
BY DEF Init, OpenIsRegistered, ServingPhases

\* Taking an entry down closes its connection.
LEMMA DropOpen ==
  ASSUME TypeOK, OpenIsRegistered, NEW i \in Ids, Drop(i), UNCHANGED handler
  PROVE  OpenIsRegistered'
<1>1. CASE connections[i] = NoConn
  BY <1>1 DEF Drop, OpenIsRegistered
<1>2. CASE connections[i] # NoConn
  <2>1. /\ closed' = closed \union {connections[i]}
        /\ connections' = [connections EXCEPT ![i] = NoConn]
    BY <1>2 DEF Drop
  <2>2. QED
    BY <2>1, ConstantsAssumption DEF OpenIsRegistered, TypeOK
<1>3. QED
  BY <1>1, <1>2

\* A handler whose identifier nobody shares is in the map from its registration
\* until it closes or removes itself.
LEMMA HandlerOpen ==
  ASSUME TypeOK, OpenIsRegistered, NEW c \in Conns, HandlerStep(c)
  PROVE  OpenIsRegistered'
<1> USE ConstantsAssumption
        DEF TypeOK, Alone, OpenIsRegistered, ServingPhases, Goto
<1>1. CASE Admit(c)
  BY <1>1 DEF Admit
<1>2. CASE Reject(c)
  BY <1>2 DEF Reject
\* Nobody else's entry is overwritten.
<1>3. CASE Register(c)
  BY <1>3 DEF Register
<1>4. CASE ReceiveMessage(c)
  BY <1>4 DEF ReceiveMessage
<1>5. CASE ReceiveForBroadcast(c)
  BY <1>5 DEF ReceiveForBroadcast
\* Whoever is taken out of the map is closed.
<1>6. CASE Broadcast(c)
  <2>1. PICK F \in SUBSET Registered :
          /\ closed' = closed \union F
          /\ connections' = [i \in Ids |-> IF connections[i] \in F THEN NoConn
                                          ELSE connections[i]]
    BY <1>6 DEF Broadcast
  <2>2. QED
    BY <1>6, <2>1 DEF Broadcast
<1>7. CASE ReceivePong(c)
  BY <1>7 DEF ReceivePong
<1>8. CASE MatchPong(c)
  BY <1>8 DEF MatchPong
<1>9. CASE ReadError(c)
  BY <1>9 DEF ReadError
\* Nobody else's entry is removed.
<1>10. CASE RemoveEntry(c)
  BY <1>10 DEF RemoveEntry
<1>11. CASE RemoveAbsent(c)
  BY <1>11 DEF RemoveAbsent
<1>12. CASE RecordDisconnected(c)
  BY <1>12 DEF RecordDisconnected
<1>13. QED
  BY <1>1, <1>2, <1>3, <1>4, <1>5, <1>6, <1>7, <1>8, <1>9, <1>10, <1>11, <1>12
     DEF HandlerStep

\* No step of the manager takes an open connection with an identifier of its own
\* out of the map.
LEMMA NextOpen == TypeOK /\ OpenIsRegistered /\ [Next]_vars => OpenIsRegistered'
<1> SUFFICES ASSUME TypeOK, OpenIsRegistered, [Next]_vars
             PROVE  OpenIsRegistered'
  OBVIOUS
<1>1. ASSUME NEW c \in Conns, HandlerStep(c)
      PROVE  OpenIsRegistered'
  BY <1>1, HandlerOpen
<1>2. ASSUME NEW c \in Conns, HeartbeatStep(c)
      PROVE  OpenIsRegistered'
  <2>1. CASE HeartbeatDrop(c)
    <3>1. IdOf[c] \in Ids
      BY ConstantsAssumption
    <3>2. QED
      BY <2>1, <3>1, DropOpen DEF HeartbeatDrop
  <2>2. CASE \/ HeartbeatStart(c) \/ HeartbeatTick(c) \/ SendPing(c)
             \/ HeartbeatExpire(c)
    BY <2>2 DEF HeartbeatStart, HeartbeatTick, SendPing, HeartbeatExpire,
                OpenIsRegistered
  <2>3. QED
    BY <1>2, <2>1, <2>2 DEF HeartbeatStep
<1>3. ASSUME NEW i \in Ids, MonitorDrop(i)
      PROVE  OpenIsRegistered'
  BY <1>3, DropOpen DEF MonitorDrop
<1>4. CASE CheckHeartbeatTimeouts \/ UNCHANGED vars
  BY <1>4 DEF CheckHeartbeatTimeouts, vars, OpenIsRegistered
<1>5. ASSUME NEW i \in Ids, BecomeIdle(i)
      PROVE  OpenIsRegistered'
  BY <1>5 DEF BecomeIdle, OpenIsRegistered
<1>6. QED
  BY <1>1, <1>2, <1>3, <1>4, <1>5 DEF Next

\* A connection whose identifier nobody shares, that the server has not closed
\* and still reads, is never missing from the map, whatever the others share.
THEOREM OpenRegistered == Spec => []OpenIsRegistered
<1>1. QED
  BY InitType, NextType, InitOpen, NextOpen, PTL DEF Spec

-----------------------------------------------------------------------------
\* The recorded history of a session nobody shares follows its one handler.

SessionPhases ==
  \A c \in Conns : Alone(c) =>
    stream[IdOf[c]] \in
      CASE handler[c] \in {"new", "admitted", "rejected"} -> {<<>>}
        [] handler[c] \in ServingPhases \union {"removed"} -> {<<Connected>>}
        [] handler[c] = "done" -> {<<Connected>>, <<Connected, Disconnected>>}

\* At the start no session has events and no handler has recorded any.
LEMMA InitSessions == Init => SessionPhases
BY ConstantsAssumption DEF Init, SessionPhases, ServingPhases

\* Nobody else records under an identifier that is not shared.
LEMMA SessionsKept ==
  ASSUME SessionPhases, NEW c \in Conns,
         \A d \in Conns \ {c} : handler[d]' = handler[d],
         \A d \in Conns : Alone(d) /\ d # c => stream[IdOf[d]]' = stream[IdOf[d]],
         Alone(c) =>
           stream[IdOf[c]]' \in
             CASE handler[c]' \in {"new", "admitted", "rejected"} -> {<<>>}
               [] handler[c]' \in ServingPhases \union {"removed"} -> {<<Connected>>}
               [] handler[c]' = "done" -> {<<Connected>>, <<Connected, Disconnected>>}
  PROVE  SessionPhases'
<1> SUFFICES ASSUME NEW d \in Conns, Alone(d)
             PROVE  (stream[IdOf[d]] \in
      CASE handler[d] \in {"new", "admitted", "rejected"} -> {<<>>}
        [] handler[d] \in ServingPhases \union {"removed"} -> {<<Connected>>}
        [] handler[d] = "done" -> {<<Connected>>, <<Connected, Disconnected>>})'
  BY DEF SessionPhases, Alone
<1>1. CASE d = c
  BY <1>1
<1>2. CASE d # c
  BY <1>2 DEF SessionPhases
<1>3. QED
  BY <1>1, <1>2

\* Appending to a one-element sequence, which the provers do not see by
\* themselves.
LEMMA AppendPair ==
  ASSUME NEW S, NEW a \in S, NEW b \in S
  PROVE  Append(<<a>>, b) = <<a, b>>
<1> DEFINE s == Append(<<a>>, b)
           t == <<a, b>>
<1>1. <<a>> \in Seq(S) /\ t \in Seq(S) /\ Len(t) = 2 /\ t[1] = a /\ t[2] = b
  OBVIOUS
<1>2. s \in Seq(S) /\ Len(s) = 2 /\ s[1] = a /\ s[2] = b
  BY <1>1
<1>3. \A i \in 1..2 : s[i] = t[i]
  <2>1. \A i \in 1..2 : i = 1 \/ i = 2
    OBVIOUS
  <2>2. QED
    BY <1>1, <1>2, <2>1
<1>4. s = t
  <2> HIDE DEF s, t
  <2>1. s \in [1..2 -> S] /\ t \in [1..2 -> S]
    BY <1>1, <1>2
  <2>2. QED
    BY <1>3, <2>1
<1>5. QED
  BY <1>4

\* A handler records Connected when it registers and Disconnected at most once,
\* after it has stopped serving.
LEMMA HandlerSessions ==
  ASSUME TypeOK, SessionPhases, NEW c \in Conns, HandlerStep(c)
  PROVE  SessionPhases'
<1> USE ConstantsAssumption DEF TypeOK, ServingPhases, Goto
<1>1. \A d \in Conns \ {c} : handler[d]' = handler[d]
  BY DEF HandlerStep, Admit, Reject, Register, ReceiveMessage,
         ReceiveForBroadcast, Broadcast, ReceivePong, MatchPong, ReadError,
         RemoveEntry, RemoveAbsent, RecordDisconnected
<1>2. CASE Register(c)
  <2>1. \A d \in Conns : Alone(d) /\ d # c => stream[IdOf[d]]' = stream[IdOf[d]]
    BY <1>2 DEF Register, Record, Alone
  <2>2. Alone(c) => stream[IdOf[c]]' = <<Connected>>
    <3>1. handler[c] = "admitted" /\ IdOf[c] \in Ids
      BY <1>2 DEF Register
    <3>2. stream[IdOf[c]]' = Append(stream[IdOf[c]], Connected)
      BY <1>2, <3>1 DEF Register, Record
    <3>3. Alone(c) => stream[IdOf[c]] = <<>>
      BY <3>1 DEF SessionPhases
    <3>4. Append(<<>>, Connected) = <<Connected>>
      OBVIOUS
    <3>5. QED
      BY <3>2, <3>3, <3>4
  <2>3. handler[c]' = "reading"
    BY <1>2 DEF Register
  <2>4. QED
    BY <1>1, <2>1, <2>2, <2>3, SessionsKept
<1>3. CASE RecordDisconnected(c)
  <2>1. \A d \in Conns : Alone(d) /\ d # c => stream[IdOf[d]]' = stream[IdOf[d]]
    BY <1>3 DEF RecordDisconnected, Record, Alone
  <2>2. Alone(c) => stream[IdOf[c]]' = <<Connected, Disconnected>>
    <3>1. handler[c] = "removed" /\ IdOf[c] \in Ids
      BY <1>3 DEF RecordDisconnected
    <3>2. stream[IdOf[c]]' = Append(stream[IdOf[c]], Disconnected)
      BY <1>3, <3>1 DEF RecordDisconnected, Record
    <3>3. Alone(c) => stream[IdOf[c]] = <<Connected>>
      BY <3>1 DEF SessionPhases
    <3>4. Append(<<Connected>>, Disconnected) = <<Connected, Disconnected>>
      <4>1. Connected \in {Connected, Disconnected}
            /\ Disconnected \in {Connected, Disconnected}
        OBVIOUS
      <4>2. QED
        BY <4>1, AppendPair
    <3>5. QED
      BY <3>2, <3>3, <3>4
  <2>3. handler[c]' = "done"
    BY <1>3 DEF RecordDisconnected
  <2>4. QED
    BY <1>1, <2>1, <2>2, <2>3, SessionsKept
<1>4. CASE RemoveAbsent(c)
  BY <1>4, <1>1, SessionsKept DEF RemoveAbsent, SessionPhases
<1>5. CASE \/ Admit(c) \/ Reject(c) \/ ReceiveMessage(c) \/ ReceivePong(c)
           \/ ReceiveForBroadcast(c) \/ Broadcast(c) \/ MatchPong(c)
           \/ ReadError(c) \/ RemoveEntry(c)
  <2>1. stream' = stream
    BY <1>5 DEF Admit, Reject, ReceiveMessage, ReceivePong, ReceiveForBroadcast,
                Broadcast, MatchPong, ReadError, RemoveEntry
  <2>2. \/ /\ handler[c] \in {"new", "admitted", "rejected"}
           /\ handler[c]' \in {"new", "admitted", "rejected"}
        \/ /\ handler[c] \in ServingPhases
           /\ handler[c]' \in ServingPhases \union {"removed"}
    BY <1>5 DEF Admit, Reject, ReceiveMessage, ReceivePong, ReceiveForBroadcast,
                Broadcast, MatchPong, ReadError, RemoveEntry
  <2>3. QED
    BY <1>1, <2>1, <2>2, SessionsKept DEF SessionPhases
<1>6. QED
  BY <1>2, <1>3, <1>4, <1>5 DEF HandlerStep

\* The heartbeats, the monitor and the timeouts record nothing, so the phase of a
\* handler keeps telling what its session's stream holds.
LEMMA NextSessions == TypeOK /\ SessionPhases /\ [Next]_vars => SessionPhases'
<1> SUFFICES ASSUME TypeOK, SessionPhases, [Next]_vars PROVE SessionPhases'
  OBVIOUS
<1>1. ASSUME NEW c \in Conns, HandlerStep(c)
      PROVE  SessionPhases'
  BY <1>1, HandlerSessions
<1>2. ASSUME \/ \E c \in Conns : HeartbeatStep(c)
             \/ CheckHeartbeatTimeouts
             \/ \E i \in Ids : BecomeIdle(i) \/ MonitorDrop(i)
             \/ UNCHANGED vars
      PROVE  UNCHANGED <<handler, stream>>
  BY <1>2 DEF HeartbeatStep, HeartbeatStart, HeartbeatTick, SendPing,
              HeartbeatExpire, HeartbeatDrop, CheckHeartbeatTimeouts,
              BecomeIdle, MonitorDrop, vars
<1>3. UNCHANGED <<handler, stream>> => SessionPhases'
  BY DEF SessionPhases, Alone
<1>4. QED
  BY <1>1, <1>2, <1>3 DEF Next

\* The phase of a handler always tells what its session's stream holds.
LEMMA SessionPhasesHold == Spec => []SessionPhases
BY InitType, NextType, InitSessions, NextSessions, PTL DEF Spec

\* The stored history of a session nobody shares is connect, or connect and
\* disconnect, never twice either, although the two are recorded by different
\* functions and the timeouts record neither.
THEOREM HistoryLegal == Spec => []SessionHistoryLegal
<1>1. TypeOK /\ SessionPhases => SessionHistoryLegal
  BY DEF TypeOK, HandlerPhases, SessionPhases, SessionHistoryLegal, ServingPhases
<1>2. QED
  BY <1>1, SessionPhasesHold, TypeCorrect, PTL

\* A replay of the stream of a registered connection says connected.
THEOREM RegisteredConnected == Spec => []RegisteredIsConnected
<1>1. TypeOK /\ SessionPhases /\ EntriesAreServed => RegisteredIsConnected
  <2> SUFFICES ASSUME TypeOK, SessionPhases, EntriesAreServed,
                      NEW c \in Registered, Alone(c)
               PROVE  Projected(IdOf[c])
    BY DEF RegisteredIsConnected
  <2>1. c \in Conns /\ handler[c] \in ServingPhases
    BY ConstantsAssumption DEF Registered, EntriesAreServed
  <2>2. stream[IdOf[c]] = <<Connected>>
    BY <2>1 DEF SessionPhases, ServingPhases
  <2>3. QED
    BY <2>2 DEF Projected
<1>2. QED
  BY <1>1, SessionPhasesHold, TypeCorrect, EntriesServed, PTL
=============================================================================
