--------------------------- MODULE EventSourcing ---------------------------
(***************************************************************************)
(* The event-sourced chat session of internal/events: the in-memory event  *)
(* store, the command handler that rebuilds the aggregate and decides, the *)
(* event bus, and a projection that is fed by the bus one event at a time. *)
(*                                                                         *)
(* A command is one call of ChatCommandHandler.Handle with a context of    *)
(* its own.  LoadStream, Append and the calls of Publish are separate      *)
(* steps: the store locks inside each of them and nothing is locked across *)
(* two.  A call looks at its context at each of them and returns at the    *)
(* first that finds it cancelled; that outcome stands for a cancellation.  *)
(*                                                                         *)
(* A command names a session twice: cmd.AggregateID, whose stream is loaded *)
(* and decided from, and the ConnectionIdentifier inside cmd.Data, whose    *)
(* stream the event goes to.  NewCommand takes both and nothing compares    *)
(* them.  A stream is kept here under its session: ChatStreamID puts one    *)
(* fixed prefix before either name, so equal streams are equal names.       *)
(*                                                                         *)
(* The repository subscribes nobody to the bus; the subscribers here are a *)
(* projection per session behind another handler that may fail, which is   *)
(* what the bus and ApplyEvent are written for.                            *)
(***************************************************************************)
EXTENDS Naturals, Sequences, FiniteSets

CONSTANTS
  Commands,       \* the calls of Handle in a behaviour
  KindOf,         \* command -> CommandType
  AggregateOf,    \* command -> cmd.AggregateID
  SessionOf,      \* command -> ConnectionIdentifier of cmd.Data
  Sessions,       \* chat uuids
  SerialSessions  \* sessions whose callers wait for one call that names the
                  \* session to return before they make the next

Kinds == {"connect_session", "disconnect_session", "send_message"}

ASSUME CommandsAssumption ==
  /\ KindOf \in [Commands -> Kinds]
  /\ AggregateOf \in [Commands -> Sessions]
  /\ SessionOf \in [Commands -> Sessions]
  /\ SerialSessions \subseteq Sessions
  \* What is written to a serial session is decided from a serial session: no
  \* promise about callers covers a session that others change meanwhile.
  /\ \A c \in Commands : SessionOf[c] \in SerialSessions => AggregateOf[c] \in SerialSessions

VARIABLES
  step,        \* where each call of Handle is
  streams,     \* store.streams
  events,      \* store.events
  projection   \* ChatSessionProjection of each session, fed by the bus

vars == <<step, streams, events, projection>>

EventTypes ==
  {"chat_session_connected", "chat_session_disconnected", "chat_message_received"}

Steps == {"waiting", "decided", "rejected", "failed", "persisted", "published",
          "unpublished"}

\* The sessions a command reads and writes.
NamedBy(c) == {AggregateOf[c], SessionOf[c]}

\* Calls that have begun and not returned.
InProgress == {c \in Commands : step[c] \in {"decided", "persisted"}}

Events == [session : Sessions, command : Commands, type : EventTypes, version : Nat]

TypeOK ==
  /\ step \in [Commands -> Steps]
  /\ streams \in [Sessions -> Seq(Events)]
  /\ events \in Seq(Events)
  /\ projection \in [Sessions -> [connected : BOOLEAN, received : Nat]]

-----------------------------------------------------------------------------
\* Replay

Fresh == [connected |-> FALSE, received |-> 0]

\* ApplyEvent of the aggregate and of the projection, which agree on these.
ApplyEvent(state, event) ==
  CASE event.type = "chat_session_connected"    -> [state EXCEPT !.connected = TRUE]
    [] event.type = "chat_session_disconnected" -> [state EXCEPT !.connected = FALSE]
    [] event.type = "chat_message_received"     -> [state EXCEPT !.received = @ + 1]

\* The loop over the stored events.
Rebuild(history) ==
  LET after[k \in 0..Len(history)] ==
        IF k = 0 THEN Fresh ELSE ApplyEvent(after[k - 1], history[k])
  IN  after[Len(history)]

\* Faulty variants of Allows, each a slip this code could contain.

\* A session may be connected twice.
AllowsReconnect(state, kind) == kind = "connect_session" \/ state.connected

\* Only connecting is guarded.
AllowsUnconnected(state, kind) == kind = "connect_session" => ~state.connected

\* The invariants of HandleConnectSession, HandleDisconnectSession and
\* HandleSendMessage.
Allows(state, kind) == (kind = "connect_session") # state.connected

EventOf(kind) ==
  CASE kind = "connect_session"    -> "chat_session_connected"
    [] kind = "disconnect_session" -> "chat_session_disconnected"
    [] kind = "send_message"       -> "chat_message_received"

Init ==
  /\ step = [c \in Commands |-> "waiting"]
  /\ streams = [s \in Sessions |-> <<>>]
  /\ events = <<>>
  /\ projection = [s \in Sessions |-> Fresh]

Goto(c, p) == step' = [step EXCEPT ![c] = p]

-----------------------------------------------------------------------------
\* Faulty variants, each a slip this code could contain.

\* The version is taken from the global log.
StampGlobally(c) ==
  [session |-> SessionOf[c], command |-> c, type |-> EventOf(KindOf[c]),
   version |-> Len(events) + 1]

\* An event without a type gets into the store.
StampUntyped(c) ==
  [session |-> SessionOf[c], command |-> c, type |-> "",
   version |-> Len(streams[SessionOf[c]]) + 1]

\* An append that fails has already written to the global log.
AppendCancelledLate(c) ==
  /\ step[c] = "decided"
  /\ events' = Append(events, [session |-> SessionOf[c], command |-> c,
                               type |-> EventOf(KindOf[c]), version |-> 0])
  /\ Goto(c, "failed")
  /\ UNCHANGED <<streams, projection>>

\* The event reaches the subscriber twice.
DeliverTwice(state, event) == ApplyEvent(ApplyEvent(state, event), event)

-----------------------------------------------------------------------------
\* The event that Append stores for command c, in the stream of the identifier
\* that the aggregate found in the payload.
Stamp(c) ==
  [session |-> SessionOf[c], command |-> c, type |-> EventOf(KindOf[c]),
   version |-> Len(streams[SessionOf[c]]) + 1]

Deliver(state, event) == ApplyEvent(state, event)

\* LoadStream, the rebuild and the aggregate's decision, all for the AggregateID:
\* only the load touches shared state.
LoadAndDecide(c) ==
  /\ step[c] = "waiting"
  /\ \A d \in InProgress : NamedBy(c) \intersect NamedBy(d) \intersect SerialSessions = {}
  /\ Goto(c, IF Allows(Rebuild(streams[AggregateOf[c]]), KindOf[c])
             THEN "decided" ELSE "rejected")
  /\ UNCHANGED <<streams, events, projection>>

LoadCancelled(c) ==
  /\ step[c] = "waiting"
  /\ Goto(c, "failed")
  /\ UNCHANGED <<streams, events, projection>>

\* Append: the version is the length of the stream under the store's lock, and
\* the store does not ask which history the decision was made from.
AppendEvent(c) ==
  /\ step[c] = "decided"
  /\ streams' = [streams EXCEPT ![SessionOf[c]] = Append(@, Stamp(c))]
  /\ events' = Append(events, Stamp(c))
  /\ Goto(c, "persisted")
  /\ UNCHANGED projection

AppendCancelled(c) ==
  /\ step[c] = "decided"
  /\ Goto(c, "failed")
  /\ UNCHANGED <<streams, events, projection>>

\* Publish reaches the projection.
PublishEvent(c) ==
  /\ step[c] = "persisted"
  /\ \E k \in 1..Len(streams[SessionOf[c]]) :
       LET event == streams[SessionOf[c]][k] IN
         /\ event.command = c
         /\ projection' = [projection EXCEPT ![SessionOf[c]] = Deliver(@, event)]
  /\ Goto(c, "published")
  /\ UNCHANGED <<streams, events>>

\* Publish stops at a cancelled context or at the first handler that fails:
\* Handle returns an error for an event that stays in the store.
PublishFails(c) ==
  /\ step[c] = "persisted"
  /\ Goto(c, "unpublished")
  /\ UNCHANGED <<streams, events, projection>>

Next ==
  \E c \in Commands :
    \/ LoadAndDecide(c) \/ LoadCancelled(c)
    \/ AppendEvent(c) \/ AppendCancelled(c)
    \/ PublishEvent(c) \/ PublishFails(c)

Spec == Init /\ [][Next]_vars

-----------------------------------------------------------------------------
\* Properties

\* "Version increases within a stream": whoever appends, the k-th event of a
\* stream has version k, with no gap and no repetition, and the global log is
\* an interleaving of the streams: it holds their events, all of them, once,
\* and those of one stream in the order of their versions.
LogIsConsistent ==
  /\ \A s \in Sessions : \A k \in DOMAIN streams[s] :
       /\ streams[s][k].session = s
       /\ streams[s][k].version = k
       /\ \E p \in DOMAIN events : events[p] = streams[s][k]
  /\ \A p \in DOMAIN events :
       LET stream == streams[events[p].session] IN
         /\ events[p].version \in DOMAIN stream
         /\ stream[events[p].version] = events[p]
  /\ \A p, q \in DOMAIN events :
       p < q /\ events[p].session = events[q].session
         => events[p].version < events[q].version

\* An answer says what happened to the log: a call that was rejected or failed
\* before publishing left no event, any other left exactly one.
AnswersMatchLog ==
  \A c \in Commands :
    Cardinality({p \in DOMAIN events : events[p].command = c}) =
      IF step[c] \in {"persisted", "published", "unpublished"} THEN 1 ELSE 0

LegalHistory(history) ==
  \A k \in 1..Len(history) :
    (history[k].type = "chat_session_connected")
      # Rebuild(SubSeq(history, 1, k - 1)).connected

\* A connected session does not connect again, and only a connected one
\* disconnects or receives: the three invariants the aggregate guards hold of
\* the stored history although the decision is made from an earlier load, of
\* every session that no command writes to in the name of another.
WrittenAsItself(s) == \A c \in Commands : SessionOf[c] = s => AggregateOf[c] = s

SerialHistoryLegal ==
  \A s \in SerialSessions : WrittenAsItself(s) => LegalHistory(streams[s])

\* A projection fed by the bus is the one rebuilt from the stream, whenever
\* every stored event has been published.
ProjectionAgrees ==
  \A s \in SerialSessions :
    (\A c \in Commands : SessionOf[c] = s => step[c] \notin {"persisted", "unpublished"})
      => projection[s] = Rebuild(streams[s])

\* For callers that wait, the log, the replay and the decision together are
\* plain objects with atomic commands, each of which looks at the session of its
\* AggregateID and changes the one its payload names, be it the same or not.
SerialCommands == {c \in Commands : SessionOf[c] \in SerialSessions}

Object == INSTANCE SessionObject WITH
  Commands <- SerialCommands,
  Sessions <- SerialSessions,
  connected <- [s \in SerialSessions |-> Rebuild(streams[s]).connected],
  received <- [s \in SerialSessions |-> Rebuild(streams[s]).received],
  handled <- {c \in SerialCommands : step[c] \notin {"waiting", "decided"}}

ImplementsObject == Object!Spec

=============================================================================
