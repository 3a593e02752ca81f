------------------------- MODULE ConnectionManager -------------------------
(***************************************************************************)
(* The WebSocket connection manager of internal/connections/wss.go: the    *)
(* per-address admission limit, the identifier -> connection map, the read *)
(* loop of every connection, its heartbeat goroutine, the idle monitor and *)
(* the goroutines the monitor spawns, and the session events each of them  *)
(* records.  An element of Conns is one upgraded WebSocket together with   *)
(* the HTTP handler goroutine that serves it and its connectionState.      *)
(*                                                                         *)
(* lastActiveAt and pingNonce are only ever reached through the map, so     *)
(* they are kept per identifier and die with the entry.                    *)
(*                                                                         *)
(* One action is one critical section (of managerMutex or of               *)
(* ipConnectionMutex) or one call that touches the socket or the event     *)
(* store outside a lock; between two of them every other goroutine may     *)
(* run.                                                                    *)
(***************************************************************************)
EXTENDS Naturals, Sequences, FiniteSets

CONSTANTS
  Conns,              \* the connection attempts of a behaviour
  Ids,                \* connection identifiers, the {uuid} of /chat/{uuid}
  IPs,                \* remote addresses (RemoteAddr without the port)
  IdOf,               \* the identifier each attempt asks for
  IPOf,               \* the address each attempt comes from
  MaxPerIP,           \* maxConnectionsPerIP
  MaxPendingTimeouts, \* bound: monitor goroutines not yet run, per identifier
  NoConn              \* "no entry under this identifier"

ASSUME ConstantsAssumption ==
  /\ IsFiniteSet(Conns)
  /\ IdOf \in [Conns -> Ids]
  /\ IPOf \in [Conns -> IPs]
  /\ MaxPerIP \in Nat \ {0}
  /\ MaxPendingTimeouts \in Nat
  /\ NoConn \notin Conns

VARIABLES
  handler,            \* program counter of the HTTP handler goroutine
  closed,             \* sockets the server has closed
  connections,        \* manager.connections
  ipConnectionCount,  \* manager.ipConnectionCount; an absent key is 0
  activity,           \* what lastActiveAt of an entry says, see Activities
  pingNonce,          \* identifiers with pingNonce # "", a ping unanswered
  ticker,             \* heartbeatTicker: not created, running or stopped
  heartbeat,          \* program counter of startConnectionHeartbeat
  pendingTimeouts,    \* spawned handleHeartbeatTimeout calls, per identifier
  stream              \* session events of ChatStreamID(identifier), in order

vars == <<handler, closed, connections, ipConnectionCount, activity, pingNonce,
          ticker, heartbeat, pendingTimeouts, stream>>

Connected    == "chat_session_connected"
Disconnected == "chat_session_disconnected"

HandlerPhases ==
  {"new", "admitted", "rejected", "reading", "matching", "broadcasting",
   "leaving", "removed", "done"}

\* Phases of a handler whose AddConnection has published its entry and whose
\* RemoveConnection has not run.
ServingPhases == {"reading", "matching", "broadcasting", "leaving"}

\* Phases in which the handler occupies one of the slots of its address.
HoldingPhases == {"admitted"} \union ServingPhases

HeartbeatPhases ==
  {"none", "spawned", "waiting", "sending", "awaiting", "expired", "exited"}

\* Who set lastActiveAt last, the client ("heard") or sendPing ("pinged"), or
\* that this was more than heartbeatTimeout ago ("idle").
Activities == {"heard", "pinged", "idle"}

TypeOK ==
  /\ handler \in [Conns -> HandlerPhases]
  /\ closed \in SUBSET Conns
  /\ connections \in [Ids -> Conns \union {NoConn}]
  /\ ipConnectionCount \in [IPs -> Nat]
  /\ activity \in [Ids -> Activities]
  /\ pingNonce \in SUBSET Ids
  /\ ticker \in [Conns -> {"none", "running", "stopped"}]
  /\ heartbeat \in [Conns -> HeartbeatPhases]
  /\ pendingTimeouts \in [Ids -> 0..MaxPendingTimeouts]
  /\ stream \in [Ids -> Seq({Connected, Disconnected})]

Init ==
  /\ handler = [c \in Conns |-> "new"]
  /\ closed = {}
  /\ connections = [i \in Ids |-> NoConn]
  /\ ipConnectionCount = [ip \in IPs |-> 0]
  /\ activity = [i \in Ids |-> "heard"]
  /\ pingNonce = {}
  /\ ticker = [c \in Conns |-> "none"]
  /\ heartbeat = [c \in Conns |-> "none"]
  /\ pendingTimeouts = [i \in Ids |-> 0]
  /\ stream = [i \in Ids |-> <<>>]

-----------------------------------------------------------------------------
\* Helpers

\* The connection whose entry a goroutine working for c finds: the lookup is
\* by identifier, so it need not be c.
EntryOf(c) == connections[IdOf[c]]

Registered == {c \in Conns : EntryOf(c) = c}

\* Goroutine of c moves to phase p.
Goto(c, p) == handler' = [handler EXCEPT ![c] = p]

Record(i, event) == stream' = [stream EXCEPT ![i] = Append(@, event)]

\* RemoveConnection's "count--, delete the key when it is <= 0".
Decremented(n) == IF n > 0 THEN n - 1 ELSE 0

\* UpdateLastActive(identifier of c).
Refresh(c) == activity' = [activity EXCEPT ![IdOf[c]] = "heard"]

\* The connectionStates of S are no longer in the map.
Forget(S) ==
  /\ activity' = [i \in Ids |-> IF i \in S THEN "heard" ELSE activity[i]]
  /\ pingNonce' = pingNonce \ S

Idle == {i \in Ids : activity[i] = "idle"}

-----------------------------------------------------------------------------
\* Faulty variants of the actions below, each a slip this code could contain;
\* a property that none of them breaks would not be about the code.

AdmitOffByOne(c) ==
  /\ handler[c] = "new"
  /\ ipConnectionCount[IPOf[c]] <= MaxPerIP
  /\ ipConnectionCount' = [ipConnectionCount EXCEPT ![IPOf[c]] = @ + 1]
  /\ Goto(c, "admitted")
  /\ UNCHANGED <<closed, connections, activity, pingNonce, ticker, heartbeat,
                 pendingTimeouts, stream>>

\* The Connected event is forgotten.
RegisterUnrecorded(c) ==
  /\ handler[c] = "admitted"
  /\ connections' = [connections EXCEPT ![IdOf[c]] = c]
  /\ Forget({IdOf[c]})
  /\ heartbeat' = [heartbeat EXCEPT ![c] = "spawned"]
  /\ Goto(c, "reading")
  /\ UNCHANGED <<closed, ipConnectionCount, ticker, pendingTimeouts, stream>>

\* RemoveConnection frees the slot and forgets the delete.
RemoveEntryKeepsEntry(c) ==
  /\ handler[c] = "leaving"
  /\ EntryOf(c) # NoConn
  /\ LET d == EntryOf(c) IN
       /\ ipConnectionCount' =
            [ipConnectionCount EXCEPT ![IPOf[d]] = Decremented(@)]
       /\ ticker' = [ticker EXCEPT ![d] = IF @ = "none" THEN @ ELSE "stopped"]
  /\ Goto(c, "removed")
  /\ UNCHANGED <<connections, closed, activity, pingNonce, heartbeat,
                 pendingTimeouts, stream>>

\* RemoveConnection gives the slot of the leaver back when it finds no entry.
RemoveAbsentReleases(c) ==
  /\ handler[c] = "leaving"
  /\ EntryOf(c) = NoConn
  /\ ipConnectionCount' = [ipConnectionCount EXCEPT ![IPOf[c]] = Decremented(@)]
  /\ closed' = closed \union {c}
  /\ Goto(c, "done")
  /\ UNCHANGED <<connections, activity, pingNonce, ticker, heartbeat,
                 pendingTimeouts, stream>>

\* The handler returns before it closes its socket when it finds no entry.
RemoveAbsentBlocks(c) ==
  /\ handler[c] = "leaving"
  /\ EntryOf(c) # NoConn
  /\ UNCHANGED vars

\* The wrong event type is recorded on the way out.
RecordDisconnectedAs(c, event) ==
  /\ handler[c] = "removed"
  /\ Record(IdOf[c], event)
  /\ closed' = closed \union {c}
  /\ Goto(c, "done")
  /\ UNCHANGED <<connections, ipConnectionCount, activity, pingNonce, ticker,
                 heartbeat, pendingTimeouts>>

RecordTimeoutInstead(c) == RecordDisconnectedAs(c, "heartbeat_timeout")
RecordConnectedInstead(c) == RecordDisconnectedAs(c, Connected)

\* The loop returns after a ping that was answered.
HeartbeatExpireReturns(c) ==
  /\ heartbeat[c] = "awaiting"
  /\ heartbeat' = [heartbeat EXCEPT
                     ![c] = IF IdOf[c] \in pingNonce THEN "expired" ELSE "exited"]
  /\ UNCHANGED <<handler, closed, connections, ipConnectionCount, activity,
                 pingNonce, ticker, pendingTimeouts, stream>>

\* The loop goes on after a ping that was not answered.
HeartbeatExpireIgnored(c) ==
  /\ heartbeat[c] = "awaiting"
  /\ heartbeat' = [heartbeat EXCEPT ![c] = "waiting"]
  /\ UNCHANGED <<handler, closed, connections, ipConnectionCount, activity,
                 pingNonce, ticker, pendingTimeouts, stream>>

\* A timeout deletes the entry and forgets to close the socket.
DropWithoutClose(i) ==
  /\ connections' = [connections EXCEPT ![i] = NoConn]
  /\ Forget({i})
  /\ UNCHANGED closed

-----------------------------------------------------------------------------
\* Closing the socket of d and deleting its entry, as handleHeartbeatTimeout
\* does: the slot of its address stays taken and no event is recorded.
Drop(i) ==
  IF connections[i] = NoConn
  THEN UNCHANGED <<connections, closed, activity, pingNonce>>
  ELSE /\ Forget({i})
       /\ closed' = closed \union {connections[i]}
       /\ connections' = [connections EXCEPT ![i] = NoConn]

-----------------------------------------------------------------------------
\* The handler goroutine: AddConnection

\* First critical section of AddConnection, after the upgrade.
Admit(c) ==
  /\ handler[c] = "new"
  /\ ipConnectionCount[IPOf[c]] < MaxPerIP
  /\ ipConnectionCount' = [ipConnectionCount EXCEPT ![IPOf[c]] = @ + 1]
  /\ Goto(c, "admitted")
  /\ UNCHANGED <<closed, connections, activity, pingNonce, ticker, heartbeat,
                 pendingTimeouts, stream>>

\* AddConnection returned false: the handler closes the socket and returns
\* before the deferred RemoveConnection is installed.
Reject(c) ==
  /\ handler[c] = "new"
  /\ ipConnectionCount[IPOf[c]] >= MaxPerIP
  /\ closed' = closed \union {c}
  /\ Goto(c, "rejected")
  /\ UNCHANGED <<connections, ipConnectionCount, activity, pingNonce, ticker,
                 heartbeat, pendingTimeouts, stream>>

\* Second critical section: the entry is written whatever it held before, the
\* event is recorded under the lock and the heartbeat goroutine is spawned.
Register(c) ==
  /\ handler[c] = "admitted"
  /\ connections' = [connections EXCEPT ![IdOf[c]] = c]
  /\ Record(IdOf[c], Connected)
  /\ Forget({IdOf[c]})
  /\ heartbeat' = [heartbeat EXCEPT ![c] = "spawned"]
  /\ Goto(c, "reading")
  /\ UNCHANGED <<closed, ipConnectionCount, ticker, pendingTimeouts>>

-----------------------------------------------------------------------------
\* The handler goroutine: the read loop

\* A client ping, or a user_chat message the streamer takes over: the entry is
\* refreshed and the loop reads on.
ReceiveMessage(c) ==
  /\ handler[c] = "reading"
  /\ c \notin closed
  /\ Refresh(c)
  /\ UNCHANGED <<handler, closed, connections, ipConnectionCount, pingNonce,
                 ticker, heartbeat, pendingTimeouts, stream>>

\* Any other message is handled and its outcome is broadcast.
ReceiveForBroadcast(c) ==
  /\ handler[c] = "reading"
  /\ c \notin closed
  /\ Refresh(c)
  /\ Goto(c, "broadcasting")
  /\ UNCHANGED <<closed, connections, ipConnectionCount, pingNonce, ticker,
                 heartbeat, pendingTimeouts, stream>>

\* BroadcastMessage holds managerMutex across all its writes.  F is the set of
\* registered connections whose write fails: every closed one, and any other,
\* since a peer that vanished or stopped reading may fail the write or not.
Broadcast(c) ==
  /\ handler[c] = "broadcasting"
  /\ \E F \in SUBSET Registered :
       /\ Registered \intersect closed \subseteq F
       /\ closed' = closed \union F
       /\ connections' = [i \in Ids |-> IF connections[i] \in F THEN NoConn
                                        ELSE connections[i]]
       /\ Forget({i \in Ids : connections[i] \in F})
  /\ Goto(c, "reading")
  /\ UNCHANGED <<ipConnectionCount, ticker, heartbeat, pendingTimeouts,
                 stream>>

\* handlePong up to the end of UpdateLastActive.
ReceivePong(c) ==
  /\ handler[c] = "reading"
  /\ c \notin closed
  /\ Refresh(c)
  /\ Goto(c, "matching")
  /\ UNCHANGED <<closed, connections, ipConnectionCount, pingNonce, ticker,
                 heartbeat, pendingTimeouts, stream>>

\* The rest of handlePong.  A client knows only the nonces written to its own
\* socket, so a nonce can match only while the entry found is c itself; it may
\* also be stale or made up, and then the outstanding nonce stays.
MatchPong(c) ==
  /\ handler[c] = "matching"
  /\ \/ /\ EntryOf(c) = c
        /\ pingNonce' = pingNonce \ {IdOf[c]}
     \/ UNCHANGED pingNonce
  /\ Goto(c, "reading")
  /\ UNCHANGED <<closed, connections, ipConnectionCount, activity, ticker,
                 heartbeat, pendingTimeouts, stream>>

\* ReadMessage fails: the peer left, the socket was closed under the reader,
\* the frame was too large, or 2*heartbeatTimeout passed without a frame.
ReadError(c) ==
  /\ handler[c] = "reading"
  /\ Goto(c, "leaving")
  /\ UNCHANGED <<closed, connections, ipConnectionCount, activity, pingNonce,
                 ticker, heartbeat, pendingTimeouts, stream>>

-----------------------------------------------------------------------------
\* The handler goroutine: the deferred RemoveConnection and Close

\* RemoveConnection, the entry exists: its critical section works on whatever
\* connection d the identifier leads to.  Stop has no effect on a ticker the
\* heartbeat goroutine of d has not created yet.
RemoveEntry(c) ==
  /\ handler[c] = "leaving"
  /\ EntryOf(c) # NoConn
  /\ LET d == EntryOf(c) IN
       /\ ipConnectionCount' =
            [ipConnectionCount EXCEPT ![IPOf[d]] = Decremented(@)]
       /\ ticker' = [ticker EXCEPT ![d] = IF @ = "none" THEN @ ELSE "stopped"]
  /\ connections' = [connections EXCEPT ![IdOf[c]] = NoConn]
  /\ Forget({IdOf[c]})
  /\ Goto(c, "removed")
  /\ UNCHANGED <<closed, heartbeat, pendingTimeouts, stream>>

\* RemoveConnection, no entry: it returns without an event and without
\* giving the slot back; Close follows.
RemoveAbsent(c) ==
  /\ handler[c] = "leaving"
  /\ EntryOf(c) = NoConn
  /\ closed' = closed \union {c}
  /\ Goto(c, "done")
  /\ UNCHANGED <<connections, ipConnectionCount, activity, pingNonce, ticker,
                 heartbeat, pendingTimeouts, stream>>

\* The event is recorded after the lock is released; Close follows.
RecordDisconnected(c) ==
  /\ handler[c] = "removed"
  /\ Record(IdOf[c], Disconnected)
  /\ closed' = closed \union {c}
  /\ Goto(c, "done")
  /\ UNCHANGED <<connections, ipConnectionCount, activity, pingNonce, ticker,
                 heartbeat, pendingTimeouts>>

-----------------------------------------------------------------------------
\* The heartbeat goroutine of a connection

HeartbeatStart(c) ==
  /\ heartbeat[c] = "spawned"
  /\ ticker' = [ticker EXCEPT ![c] = "running"]
  /\ heartbeat' = [heartbeat EXCEPT ![c] = "waiting"]
  /\ UNCHANGED <<handler, closed, connections, ipConnectionCount, activity,
                 pingNonce, pendingTimeouts, stream>>

\* A tick; a stopped ticker delivers none.  The loop ends when the identifier
\* has no entry, and its deferred Stop runs.
HeartbeatTick(c) ==
  /\ heartbeat[c] = "waiting"
  /\ ticker[c] = "running"
  /\ IF EntryOf(c) = NoConn
     THEN /\ heartbeat' = [heartbeat EXCEPT ![c] = "exited"]
          /\ ticker' = [ticker EXCEPT ![c] = "stopped"]
     ELSE /\ heartbeat' = [heartbeat EXCEPT ![c] = "sending"]
          /\ UNCHANGED ticker
  /\ UNCHANGED <<handler, closed, connections, ipConnectionCount, activity,
                 pingNonce, pendingTimeouts, stream>>

\* sendPing: a no-op without an entry or with a ping outstanding.  The write
\* comes after the unlock and its failure changes nothing here.
SendPing(c) ==
  /\ heartbeat[c] = "sending"
  /\ IF EntryOf(c) = NoConn \/ IdOf[c] \in pingNonce
     THEN UNCHANGED <<pingNonce, activity>>
     ELSE /\ pingNonce' = pingNonce \union {IdOf[c]}
          /\ activity' = [activity EXCEPT ![IdOf[c]] = "pinged"]
  /\ heartbeat' = [heartbeat EXCEPT ![c] = "awaiting"]
  /\ UNCHANGED <<handler, closed, connections, ipConnectionCount, ticker,
                 pendingTimeouts, stream>>

\* heartbeatTimeout after the ping: the entry found now decides.
HeartbeatExpire(c) ==
  /\ heartbeat[c] = "awaiting"
  /\ heartbeat' = [heartbeat EXCEPT
                     ![c] = IF IdOf[c] \in pingNonce THEN "expired" ELSE "waiting"]
  /\ UNCHANGED <<handler, closed, connections, ipConnectionCount, activity,
                 pingNonce, ticker, pendingTimeouts, stream>>

\* handleHeartbeatTimeout called by the heartbeat goroutine, which then ends.
HeartbeatDrop(c) ==
  /\ heartbeat[c] = "expired"
  /\ Drop(IdOf[c])
  /\ heartbeat' = [heartbeat EXCEPT ![c] = "exited"]
  /\ ticker' = [ticker EXCEPT ![c] = "stopped"]
  /\ UNCHANGED <<handler, ipConnectionCount, pendingTimeouts, stream>>

-----------------------------------------------------------------------------
\* The idle monitor and the goroutines it spawns

\* checkHeartbeatTimeouts: one goroutine per registered idle connection.
CheckHeartbeatTimeouts ==
  /\ Idle # {}
  /\ \A i \in Idle : pendingTimeouts[i] < MaxPendingTimeouts
  /\ pendingTimeouts' = [i \in Ids |-> IF i \in Idle THEN pendingTimeouts[i] + 1
                                       ELSE pendingTimeouts[i]]
  /\ UNCHANGED <<handler, closed, connections, ipConnectionCount, activity,
                 pingNonce, ticker, heartbeat, stream>>

\* handleHeartbeatTimeout in a goroutine of the monitor: it knows only the
\* identifier, and drops whatever it finds there when it runs.
MonitorDrop(i) ==
  /\ pendingTimeouts[i] > 0
  /\ pendingTimeouts' = [pendingTimeouts EXCEPT ![i] = @ - 1]
  /\ Drop(i)
  /\ UNCHANGED <<handler, ipConnectionCount, ticker, heartbeat, stream>>

-----------------------------------------------------------------------------
\* The environment

\* heartbeatTimeout passes since lastActiveAt of a registered connection.  Only
\* the monitor looks at it, and a bound of 0 leaves the monitor out.
BecomeIdle(i) ==
  /\ MaxPendingTimeouts > 0
  /\ connections[i] # NoConn
  /\ activity[i] # "idle"
  /\ activity' = [activity EXCEPT ![i] = "idle"]
  /\ UNCHANGED <<handler, closed, connections, ipConnectionCount, pingNonce,
                 ticker, heartbeat, pendingTimeouts, stream>>

-----------------------------------------------------------------------------
HandlerStep(c) ==
  \/ Admit(c) \/ Reject(c) \/ Register(c)
  \/ ReceiveMessage(c) \/ ReceiveForBroadcast(c) \/ Broadcast(c)
  \/ ReceivePong(c) \/ MatchPong(c) \/ ReadError(c)
  \/ RemoveEntry(c) \/ RemoveAbsent(c) \/ RecordDisconnected(c)

HeartbeatStep(c) ==
  \/ HeartbeatStart(c) \/ HeartbeatTick(c) \/ SendPing(c)
  \/ HeartbeatExpire(c) \/ HeartbeatDrop(c)

Next ==
  \/ \E c \in Conns : HandlerStep(c) \/ HeartbeatStep(c)
  \/ \E i \in Ids : BecomeIdle(i) \/ MonitorDrop(i)
  \/ CheckHeartbeatTimeouts

Spec == Init /\ [][Next]_vars

\* The Go scheduler runs every runnable goroutine and every timer fires; what
\* clients do, and when, is not assumed.  A read fails for certain only once
\* the server has closed the socket.
Fairness ==
  /\ \A c \in Conns :
       /\ WF_vars(Register(c) \/ Broadcast(c) \/ MatchPong(c))
       /\ WF_vars(c \in closed /\ ReadError(c))
       /\ WF_vars(RemoveEntry(c) \/ RemoveAbsent(c) \/ RecordDisconnected(c))
       /\ WF_vars(HeartbeatStep(c))
  /\ WF_vars(CheckHeartbeatTimeouts)
  /\ \A i \in Ids : WF_vars(MonitorDrop(i))

FairSpec == Spec /\ Fairness

-----------------------------------------------------------------------------
\* Properties

\* Nobody else ever connects with the identifier of c.
Alone(c) == \A d \in Conns : IdOf[d] = IdOf[c] => d = c

\* The attempts the limiter really counts: let in and not yet in the map, or in
\* the map.  A handler whose entry was replaced, dropped or removed serves on
\* but is among them no more.
Counted == {c \in Conns : handler[c] = "admitted" \/ EntryOf(c) = c}
CountedAt(ip) == {c \in Counted : IPOf[c] = ip}

\* What is true of maxConnectionsPerIP, from whatever addresses an identifier
\* is used: the map never holds, and AddConnection never is about to add, more
\* than MaxPerIP connections of one address, although identifiers are replaced
\* without touching the counter, and the counter that RemoveConnection
\* decrements is that of the entry found and not that of the handler leaving.
EntryLimit == \A ip \in IPs : Cardinality(CountedAt(ip)) <= MaxPerIP

\* ipConnectionCount never undercounts them, which makes EntryLimit inductive:
\* each decrement takes an entry of the very address it decrements.
IpCountCovers ==
  \A ip \in IPs : /\ Cardinality(CountedAt(ip)) <= ipConnectionCount[ip]
                  /\ ipConnectionCount[ip] <= MaxPerIP

\* Every entry of the map belongs to its identifier and to a handler that will
\* still run RemoveConnection: BroadcastMessage and SendMessageToConnection
\* never find the connection of a handler that has left, whichever of two
\* connections of an identifier leaves or times out first.
EntriesAreServed ==
  \A i \in Ids : connections[i] # NoConn =>
    /\ IdOf[connections[i]] = i
    /\ handler[connections[i]] \in ServingPhases

\* Every registered connection is watched: its own heartbeat goroutine has not
\* ended and its ticker still ticks, whatever the goroutines of an earlier
\* connection of the identifier did to the entry.
WatchedWhileRegistered ==
  \A c \in Registered :
    \/ heartbeat[c] = "spawned" /\ ticker[c] = "none"
    \/ /\ heartbeat[c] \in {"waiting", "sending", "awaiting", "expired"}
       /\ ticker[c] = "running"

\* Sharing an identifier harms only those who share it: the handler of any
\* other connection, still in its read loop over a socket the server has not
\* closed, is in the map, so broadcasts, replies and the monitor reach it.
OpenIsRegistered ==
  \A c \in Conns :
    Alone(c) /\ handler[c] \in ServingPhases /\ c \notin closed => EntryOf(c) = c

\* What HandleConnectSession and HandleDisconnectSession of the aggregate
\* guard, for the streams the connection manager writes past it: the session
\* of an identifier nobody shares does not connect twice and ends at most once.
SessionHistoryLegal ==
  \A c \in Conns : Alone(c) =>
    stream[IdOf[c]] \in {<<>>, <<Connected>>, <<Connected, Disconnected>>}

\* ChatSessionProjection.Connected of the stream of i.
Projected(i) == stream[i] # <<>> /\ stream[i][Len(stream[i])] = Connected

\* A registered connection whose identifier nobody shares is connected for
\* whoever replays its stream, although Disconnected is recorded outside the
\* lock.
RegisteredIsConnected ==
  \A c \in Registered : Alone(c) => Projected(IdOf[c])

\* The limiter and the map together do what AdmissionControl says: nobody is
\* let in above the limit, and whoever lost its entry, by replacement, timeout,
\* failed broadcast or removal, is not counted again.
Admission == INSTANCE AdmissionControl WITH
  admitted <- Counted,
  finished <- {c \in Conns : handler[c] \notin {"new", "admitted"} /\ EntryOf(c) # c}

ImplementsAdmission == Admission!Spec

\* Taking a connection down is a relay between goroutines: a timeout or a
\* failed broadcast only closes the socket, and the reader does the rest.  It
\* always completes, even if the entry was replaced or removed meanwhile.
ClosedIsCleaned ==
  \A c \in Conns : c \in closed ~> handler[c] \in {"rejected", "done"}

\* A ping that is not answered does not stay unanswered: the pong comes or the
\* connection is dropped, whichever goroutine sent the ping.
PingIsResolved ==
  \A c \in Conns :
    (EntryOf(c) = c /\ IdOf[c] \in pingNonce)
      ~> (EntryOf(c) # c \/ IdOf[c] \notin pingNonce)

-----------------------------------------------------------------------------
\* Statements of the documentation that the code does not keep

\* "Per-address connection limit": never more than MaxPerIP handlers of one
\* address have been let in and have not run RemoveConnection yet.
Holding(ip) == {c \in Conns : IPOf[c] = ip /\ handler[c] \in HoldingPhases}
IpLimit == \A ip \in IPs : Cardinality(Holding(ip)) <= MaxPerIP

\* "Release the count on disconnect": once every handler of an address has
\* ended, its count is back to zero.
SlotsReleased ==
  \A ip \in IPs :
    (\A c \in Conns : IPOf[c] = ip =>
        handler[c] \in {"new", "rejected", "done"})
    => ipConnectionCount[ip] = 0

\* "Idle timeout (no activity: disconnect)": a heartbeat or monitor step does
\* not take a connection out of the map that its client has used within
\* heartbeatTimeout and since the last ping.
TimeoutSparesActive ==
  [][\A c \in Registered : connections'[IdOf[c]] # c /\ UNCHANGED handler
        => activity[IdOf[c]] # "heard"]_vars

\* "The connection no longer exists, leave the heartbeat loop": the heartbeat
\* goroutine of a connection that has ended ends too.
HeartbeatEnds ==
  \A c \in Conns : handler[c] = "done" ~> heartbeat[c] = "exited"
=============================================================================
