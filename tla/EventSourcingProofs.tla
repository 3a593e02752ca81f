------------------------ MODULE EventSourcingProofs ------------------------
(***************************************************************************)
(* Theorems about EventSourcing, for any set of calls and sessions.        *)
(***************************************************************************)
EXTENDS EventSourcing, Induction, FiniteSetTheorems, SequenceTheorems

-----------------------------------------------------------------------------
\* Replay

\* A history the store can hold, and a state a replay can reach.
Histories == Seq(Events)
States == [connected : BOOLEAN, received : Nat]

\* The rounds of Rebuild, as data.
Replay(history) ==
  [i \in 1..Len(history) |-> [state \in States |-> ApplyEvent(state, history[i])]]

\* Applying an event of a known type to a state gives a state.
LEMMA ApplyEventType ==
  ASSUME NEW state \in States, NEW event \in Events
  PROVE  ApplyEvent(state, event) \in States
<1>1. event.type \in EventTypes
  BY DEF Events
<1>2. CASE event.type = "chat_session_connected"
  <2>1. ApplyEvent(state, event) = [state EXCEPT !.connected = TRUE]
    BY <1>2 DEF ApplyEvent
  <2> QED BY <2>1 DEF States
<1>3. CASE event.type = "chat_session_disconnected"
  <2>1. ApplyEvent(state, event) = [state EXCEPT !.connected = FALSE]
    BY <1>3 DEF ApplyEvent
  <2> QED BY <2>1 DEF States
<1>4. CASE event.type = "chat_message_received"
  <2>1. ApplyEvent(state, event) = [state EXCEPT !.received = @ + 1]
    BY <1>4 DEF ApplyEvent
  <2> QED BY <2>1 DEF States
<1> QED BY <1>1, <1>2, <1>3, <1>4 DEF EventTypes

\* Rebuild ends in the last state of a run of the replay's loop.
LEMMA RebuildIsRun ==
  ASSUME NEW history \in Histories
  PROVE  \E run \in [0..Len(history) -> States] :
           /\ IsRun(run, Fresh, Replay(history), Len(history))
           /\ Rebuild(history) = run[Len(history)]
<1> DEFINE n == Len(history)
           Equation(f) == f = [k \in 0..n |->
             IF k = 0 THEN Fresh ELSE ApplyEvent(f[k - 1], history[k])]
           after == CHOOSE f : Equation(f)
<1>1. n \in Nat /\ \A i \in 1..n : history[i] \in Events
  BY LenProperties, ElementOfSeq DEF Histories
<1>2. Fresh \in States
  BY DEF Fresh, States
<1>3. Replay(history) \in [1..n -> [States -> States]]
  BY <1>1, ApplyEventType DEF Replay
<1>4. PICK run \in [0..n -> States] : IsRun(run, Fresh, Replay(history), n)
  BY <1>1, <1>2, <1>3, RunExists
<1>5. Equation(run)
  <2>1. ASSUME NEW k \in 1..n
        PROVE  run[k] = ApplyEvent(run[k - 1], history[k])
    <3>1. run[k - 1] \in States
      BY <1>1
    <3> QED BY <1>4, <3>1 DEF IsRun, Replay
  <2>2. run[0] = Fresh
    BY <1>4 DEF IsRun
  <2> QED BY <1>1, <2>1, <2>2
<1>6. Equation(after)
  <2> HIDE DEF Equation
  <2> QED BY <1>5
<1>7. Rebuild(history) = after[n]
  BY DEF Rebuild
<1> HIDE DEF after, n
<1>8. after[0] = Fresh /\ \A k \in 1..n : after[k] = ApplyEvent(after[k - 1], history[k])
  BY <1>1, <1>6
<1>9. IsLoop(after, States, Fresh, Replay(history), n)
  BY <1>1, <1>8 DEF IsLoop, Replay, n
<1>10. \A k \in 0..n : after[k] = run[k]
  BY <1>1, <1>3, <1>4, <1>9, LoopIsRun
<1> QED BY <1>1, <1>4, <1>7, <1>10 DEF n

\* A replay of any history ends in a state.
LEMMA RebuildType ==
  ASSUME NEW history \in Histories
  PROVE  Rebuild(history) \in States
<1>1. Len(history) \in Nat
  BY LenProperties DEF Histories
<1> QED BY <1>1, RebuildIsRun

\* Replaying nothing leaves a fresh session.
LEMMA RebuildEmpty == Rebuild(<<>>) = Fresh
<1>1. <<>> \in Histories /\ Len(<<>>) = 0
  BY EmptySeq DEF Histories
<1> QED BY <1>1, RebuildIsRun DEF IsRun

\* Replaying a history and one more event is replaying the history and then
\* applying the event: what the aggregate rebuilds from the store and what a
\* subscriber builds event by event cannot differ.
THEOREM RebuildAppend ==
  ASSUME NEW history \in Histories, NEW event \in Events
  PROVE  Rebuild(Append(history, event)) = ApplyEvent(Rebuild(history), event)
<1> DEFINE n == Len(history)
           longer == Append(history, event)
<1>1. /\ n \in Nat /\ longer \in Histories /\ Len(longer) = n + 1
      /\ \A i \in 1..n : longer[i] = history[i]
      /\ longer[n + 1] = event
  BY LenProperties, AppendProperties DEF Histories
<1> HIDE DEF longer
<1>2. PICK run \in [0..n -> States] :
        IsRun(run, Fresh, Replay(history), n) /\ Rebuild(history) = run[n]
  BY RebuildIsRun
<1>3. PICK more \in [0..(n + 1) -> States] :
        IsRun(more, Fresh, Replay(longer), n + 1) /\ Rebuild(longer) = more[n + 1]
  <2>1. PICK more \in [0..Len(longer) -> States] :
          /\ IsRun(more, Fresh, Replay(longer), Len(longer))
          /\ Rebuild(longer) = more[Len(longer)]
    BY <1>1, RebuildIsRun
  <2> QED BY <1>1, <2>1
<1>4. run[n] = more[n]
  <2>1. IsRun(more, Fresh, Replay(longer), n)
    BY <1>1, <1>3 DEF IsRun
  <2>2. \A i \in 1..n : Replay(history)[i] = Replay(longer)[i]
    BY <1>1 DEF Replay
  <2>3. \A i \in 0..n : run[i] = more[i]
    BY <1>1, <1>2, <2>1, <2>2, RunsAgree
  <2> QED BY <1>1, <2>3
<1>5. more[n + 1] = ApplyEvent(more[n], event)
  <2>1. more[n + 1] = Replay(longer)[n + 1][more[(n + 1) - 1]]
    BY <1>1, <1>3 DEF IsRun
  <2>2. (n + 1) - 1 = n /\ more[n] \in States /\ n + 1 \in 1..Len(longer)
    BY <1>1
  <2> QED BY <1>1, <2>1, <2>2 DEF Replay
<1> QED BY <1>2, <1>3, <1>4, <1>5 DEF longer

\* A history and one more event are legal when the history is and the event
\* is one its replay allows.
LEMMA LegalAppend ==
  ASSUME NEW history \in Histories, NEW event \in Events, LegalHistory(history),
         (event.type = "chat_session_connected") # Rebuild(history).connected
  PROVE  LegalHistory(Append(history, event))
<1> DEFINE n == Len(history)
           longer == Append(history, event)
<1>1. /\ n \in Nat /\ longer \in Histories /\ Len(longer) = n + 1
      /\ \A i \in 1..n : longer[i] = history[i]
      /\ longer[n + 1] = event
  BY LenProperties, AppendProperties DEF Histories
<1> HIDE DEF longer
<1>2. ASSUME NEW k \in 1..(n + 1)
      PROVE  SubSeq(longer, 1, k - 1) = SubSeq(history, 1, k - 1)
  <2>1. k - 1 \in Int /\ k - 1 <= n /\ (k - 1) - 1 + 1 = k - 1
    BY <1>1
  <2>2. \A i \in 1..(k - 1) : longer[i] = history[i] /\ history[i] \in Events
    BY <1>1, <2>1, ElementOfSeq DEF Histories
  <2> DEFINE m == k - 1
             a == SubSeq(longer, 1, m)
             b == SubSeq(history, 1, m)
  <2> HIDE DEF m
  <2>3. m \in Int /\ m - 1 + 1 = m /\ \A i \in 1..m : longer[i] = history[i] /\ history[i] \in Events
    BY <2>1, <2>2 DEF m
  <2>4. a \in Histories /\ Len(a) = (IF 1 <= m THEN m ELSE 0)
        /\ \A i \in 1..m : a[i] = longer[1 + i - 1]
    BY <2>3, SubSeqProperties DEF Histories
  <2>5. b \in Histories /\ Len(b) = (IF 1 <= m THEN m ELSE 0)
        /\ \A i \in 1..m : b[i] = history[1 + i - 1]
    BY <2>3, SubSeqProperties DEF Histories
  <2> HIDE DEF a, b
  <2>6. \A i \in 1..Len(a) : a[i] = b[i]
    BY <2>3, <2>4, <2>5
  <2>7. a = b
    BY <2>4, <2>5, <2>6, SeqEqual DEF Histories
  <2> QED BY <2>7 DEF a, b, m
<1>3. ASSUME NEW k \in 1..(n + 1)
      PROVE  (longer[k].type = "chat_session_connected")
               # Rebuild(SubSeq(longer, 1, k - 1)).connected
  <2>1. CASE k <= n
    <3>1. k \in 1..n /\ longer[k] = history[k]
      BY <1>1, <2>1
    <3> QED BY <1>2, <3>1 DEF LegalHistory
  <2>2. CASE k = n + 1
    <3>1. SubSeq(history, 1, k - 1) = history
      BY <1>1, <2>2, SubSeqFull DEF Histories
    <3> QED BY <1>1, <1>2, <2>2, <3>1
  <2> QED BY <1>1, <2>1, <2>2
<1> QED BY <1>1, <1>3 DEF LegalHistory, longer

-----------------------------------------------------------------------------
\* The inductive invariant

Stored == {"persisted", "published", "unpublished"}

\* The positions at which the global log holds an event of call c.
PositionsOf(c) == {p \in DOMAIN events : events[p].command = c}

\* A call that has appended is found at one position of the log, any other at
\* none, and in the stream of its session at most once.
CallsInLog ==
  /\ \A c \in Commands :
       IF step[c] \in Stored THEN \E p \in DOMAIN events : PositionsOf(c) = {p}
                             ELSE PositionsOf(c) = {}
  /\ \A s \in Sessions : \A k \in DOMAIN streams[s] : step[streams[s][k].command] \in Stored
  /\ \A s \in Sessions : \A j, k \in DOMAIN streams[s] :
       streams[s][j].command = streams[s][k].command => j = k

\* One call at a time is under way that reads or writes a serial session, and
\* the stream it was decided from has not changed since.
OneAtATime ==
  /\ \A c, d \in InProgress :
       NamedBy(c) \intersect NamedBy(d) \intersect SerialSessions # {} => c = d
  /\ \A c \in Commands :
       step[c] = "decided" /\ AggregateOf[c] \in SerialSessions
         => Allows(Rebuild(streams[AggregateOf[c]]), KindOf[c])

\* In particular one call writes to it.
LEMMA OneWriter ==
  ASSUME OneAtATime, NEW c \in InProgress, NEW d \in InProgress,
         SessionOf[c] \in SerialSessions, SessionOf[c] \in NamedBy(d)
  PROVE  c = d
<1>1. SessionOf[c] \in NamedBy(c) \intersect NamedBy(d) \intersect SerialSessions
  BY DEF NamedBy
<1> QED BY <1>1 DEF OneAtATime

Calls(s) == {c \in Commands : SessionOf[c] = s}

\* As long as every call of a serial session has published its event, the
\* projection has applied the stream, but for the last event while the call
\* that appended it is between Append and Publish.
Follows(s) ==
  (\A c \in Calls(s) : step[c] # "unpublished") =>
    /\ (\A c \in Calls(s) : step[c] # "persisted") => projection[s] = Rebuild(streams[s])
    /\ \A c \in Calls(s) : step[c] = "persisted" =>
         \E history \in Histories, event \in Events :
           /\ streams[s] = Append(history, event)
           /\ event.command = c
           /\ projection[s] = Rebuild(history)

ProjectionFollows == \A s \in SerialSessions : Follows(s)

IInv ==
  /\ TypeOK
  /\ LogIsConsistent
  /\ CallsInLog
  /\ OneAtATime
  /\ SerialHistoryLegal
  /\ ProjectionFollows

-----------------------------------------------------------------------------
\* Type correctness

\* What Append stores is an event.
LEMMA StampType ==
  ASSUME TypeOK, NEW c \in Commands
  PROVE  Stamp(c) \in Events
<1>1. SessionOf[c] \in Sessions /\ KindOf[c] \in Kinds
  BY CommandsAssumption
<1>2. Len(streams[SessionOf[c]]) + 1 \in Nat
  BY <1>1, LenProperties DEF TypeOK
<1>3. EventOf(KindOf[c]) \in EventTypes
  BY <1>1 DEF EventOf, EventTypes, Kinds
<1> QED BY <1>1, <1>2, <1>3 DEF Stamp, Events

\* No call of a command, append or delivery of an event leaves the types.
LEMMA TypeOKStep == TypeOK /\ [Next]_vars => TypeOK'
<1> SUFFICES ASSUME TypeOK, [Next]_vars PROVE TypeOK'
  OBVIOUS
<1> USE CommandsAssumption
<1>1. ASSUME NEW c \in Commands, LoadAndDecide(c) PROVE TypeOK'
  BY <1>1 DEF TypeOK, LoadAndDecide, Goto, Steps
<1>2. ASSUME NEW c \in Commands, LoadCancelled(c) PROVE TypeOK'
  BY <1>2 DEF TypeOK, LoadCancelled, Goto, Steps
<1>3. ASSUME NEW c \in Commands, AppendEvent(c) PROVE TypeOK'
  <2>1. Stamp(c) \in Events
    BY StampType
  <2>2. Append(events, Stamp(c)) \in Seq(Events)
    BY <2>1, AppendProperties DEF TypeOK
  <2>3. Append(streams[SessionOf[c]], Stamp(c)) \in Seq(Events)
    BY <2>1, AppendProperties DEF TypeOK
  <2> QED BY <1>3, <2>2, <2>3 DEF TypeOK, AppendEvent, Goto, Steps
<1>4. ASSUME NEW c \in Commands, AppendCancelled(c) PROVE TypeOK'
  BY <1>4 DEF TypeOK, AppendCancelled, Goto, Steps
<1>5. ASSUME NEW c \in Commands, PublishEvent(c) PROVE TypeOK'
  <2>1. PICK k \in 1..Len(streams[SessionOf[c]]) :
          projection' = [projection EXCEPT ![SessionOf[c]] =
                           ApplyEvent(@, streams[SessionOf[c]][k])]
    BY <1>5 DEF PublishEvent, Deliver
  <2>2. streams[SessionOf[c]][k] \in Events
    BY ElementOfSeq DEF TypeOK
  <2>3. ApplyEvent(projection[SessionOf[c]], streams[SessionOf[c]][k])
          \in [connected : BOOLEAN, received : Nat]
    BY <2>2, ApplyEventType DEF TypeOK, States
  <2>4. projection' \in [Sessions -> [connected : BOOLEAN, received : Nat]]
    BY <2>1, <2>3 DEF TypeOK
  <2> QED BY <1>5, <2>4 DEF TypeOK, PublishEvent, Goto, Steps
<1>6. ASSUME NEW c \in Commands, PublishFails(c) PROVE TypeOK'
  BY <1>6 DEF TypeOK, PublishFails, Goto, Steps
<1>7. CASE UNCHANGED vars
  BY <1>7 DEF TypeOK, vars
<1> QED BY <1>1, <1>2, <1>3, <1>4, <1>5, <1>6, <1>7 DEF Next

-----------------------------------------------------------------------------
\* The log

\* The stream of s, of n events, and the log, of m events, both get e at
\* their end.
AddedLast(s, n, m, e) ==
  /\ DOMAIN streams[s] = 1..n
  /\ DOMAIN streams'[s] = 1..(n + 1)
  /\ \A k \in 1..n : streams'[s][k] = streams[s][k]
  /\ streams'[s][n + 1] = e
  /\ \A t \in Sessions \ {s} : streams'[t] = streams[t]
  /\ DOMAIN events = 1..m
  /\ DOMAIN events' = 1..(m + 1)
  /\ \A p \in 1..m : events'[p] = events[p]
  /\ events'[m + 1] = e

\* What Append does to the stream of the session and to the global log.
LEMMA AppendEffect ==
  ASSUME TypeOK, NEW c \in Commands, AppendEvent(c)
  PROVE  LET s == SessionOf[c]
             n == Len(streams[s])
             m == Len(events)
             e == Stamp(c)
         IN  /\ s \in Sessions /\ n \in Nat /\ m \in Nat
             /\ AddedLast(s, n, m, e)
             /\ e.session = s /\ e.command = c /\ e.version = n + 1
             /\ streams' \in [Sessions -> Seq(Events)] /\ events' \in Seq(Events)
<1> DEFINE s == SessionOf[c]
           n == Len(streams[s])
           m == Len(events)
<1>0. s \in Sessions /\ n \in Nat /\ m \in Nat
  BY CommandsAssumption, LenProperties DEF TypeOK
<1>1. Stamp(c) \in Events
  BY StampType
<1>2. /\ streams'[s] = Append(streams[s], Stamp(c))
      /\ \A t \in Sessions \ {s} : streams'[t] = streams[t]
  BY <1>0 DEF AppendEvent, TypeOK
<1>3. events' = Append(events, Stamp(c))
  BY DEF AppendEvent
<1>4. streams[s] \in Seq(Events) /\ events \in Seq(Events)
  BY <1>0 DEF TypeOK
<1>5. /\ DOMAIN streams[s] = 1..n
      /\ DOMAIN streams'[s] = 1..(n + 1)
      /\ \A k \in 1..n : streams'[s][k] = streams[s][k]
      /\ streams'[s][n + 1] = Stamp(c)
      /\ streams'[s] \in Seq(Events)
  BY <1>1, <1>2, <1>4, AppendProperties, LenProperties
<1>6. /\ DOMAIN events = 1..m
      /\ DOMAIN events' = 1..(m + 1)
      /\ \A p \in 1..m : events'[p] = events[p]
      /\ events'[m + 1] = Stamp(c)
      /\ events' \in Seq(Events)
  BY <1>1, <1>3, <1>4, AppendProperties, LenProperties
<1>7. Stamp(c).session = s /\ Stamp(c).command = c /\ Stamp(c).version = n + 1
  BY DEF Stamp
<1>8. streams' \in [Sessions -> Seq(Events)]
  BY <1>5 DEF AppendEvent, TypeOK
<1>9. AddedLast(s, n, m, Stamp(c))
  BY <1>2, <1>5, <1>6 DEF AddedLast
<1> QED BY <1>0, <1>5, <1>6, <1>7, <1>8, <1>9

\* Only Append touches the streams and the log.
LEMMA LogUnchanged ==
  [Next]_vars => \/ \E c \in Commands : AppendEvent(c)
                 \/ UNCHANGED <<streams, events>>
BY DEF Next, vars, LoadAndDecide, LoadCancelled, AppendCancelled, PublishEvent, PublishFails

\* Events of the log have sessions, and a version of their own in the stream
\* of their session.
LEMMA LogIsConsistentStep ==
  TypeOK /\ LogIsConsistent /\ [Next]_vars => LogIsConsistent'
<1> SUFFICES ASSUME TypeOK, LogIsConsistent, [Next]_vars PROVE LogIsConsistent'
  OBVIOUS
<1>1. ASSUME NEW c \in Commands, AppendEvent(c) PROVE LogIsConsistent'
  <2> DEFINE s == SessionOf[c]
             n == Len(streams[s])
             m == Len(events)
             e == Stamp(c)
  <2>1. /\ s \in Sessions /\ n \in Nat /\ m \in Nat
        /\ AddedLast(s, n, m, e)
        /\ e.session = s /\ e.command = c /\ e.version = n + 1
    BY <1>1, AppendEffect
  <2>2. /\ DOMAIN streams[s] = 1..n
        /\ DOMAIN streams'[s] = 1..(n + 1)
        /\ \A k \in 1..n : streams'[s][k] = streams[s][k]
        /\ streams'[s][n + 1] = e
        /\ \A t \in Sessions \ {s} : streams'[t] = streams[t]
        /\ DOMAIN events = 1..m
        /\ DOMAIN events' = 1..(m + 1)
        /\ \A p \in 1..m : events'[p] = events[p]
        /\ events'[m + 1] = e
        /\ e.session = s /\ e.command = c /\ e.version = n + 1
    BY <2>1 DEF AddedLast
  <2>3. ASSUME NEW p \in 1..m
        PROVE  events[p].session \in Sessions /\ events[p].version \in Nat
    <3>1. events[p] \in Events
      BY ElementOfSeq DEF TypeOK
    <3> QED BY <3>1 DEF Events
  <2> HIDE DEF s, n, m, e
  <2>4. ASSUME NEW t \in Sessions, NEW k \in DOMAIN streams'[t]
        PROVE  /\ streams'[t][k].session = t
               /\ streams'[t][k].version = k
               /\ \E p \in DOMAIN events' : events'[p] = streams'[t][k]
    <3>1. CASE t = s /\ k = n + 1
      <4>1. m + 1 \in DOMAIN events' /\ events'[m + 1] = streams'[t][k]
        BY <2>1, <2>2, <3>1
      <4> QED BY <2>2, <3>1, <4>1
    <3>2. CASE ~ (t = s /\ k = n + 1)
      <4>1. k \in DOMAIN streams[t] /\ streams'[t][k] = streams[t][k]
        BY <2>1, <2>2, <3>2
      <4>2. PICK p \in DOMAIN events : events[p] = streams[t][k]
        BY <4>1 DEF LogIsConsistent
      <4>3. p \in DOMAIN events' /\ events'[p] = streams'[t][k]
        BY <2>1, <2>2, <4>1, <4>2
      <4> QED BY <4>1, <4>3 DEF LogIsConsistent
    <3> QED BY <3>1, <3>2
  <2>5. ASSUME NEW p \in DOMAIN events'
        PROVE  /\ events'[p].version \in DOMAIN streams'[events'[p].session]
               /\ streams'[events'[p].session][events'[p].version] = events'[p]
    <3>1. CASE p = m + 1
      BY <2>1, <2>2, <3>1
    <3>2. CASE p # m + 1
      <4>1. p \in 1..m /\ events'[p] = events[p]
        BY <2>1, <2>2, <3>2
      <4>2. /\ events[p].version \in DOMAIN streams[events[p].session]
            /\ streams[events[p].session][events[p].version] = events[p]
        BY <2>2, <4>1 DEF LogIsConsistent
      <4>3. CASE events[p].session = s
        <5>1. events[p].version \in 1..n
          BY <2>2, <4>2, <4>3
        <5>2. events[p].version \in 1..(n + 1)
          BY <2>1, <5>1
        <5>3. streams'[s][events[p].version] = streams[s][events[p].version]
          BY <2>2, <5>1
        <5>4. streams[s][events[p].version] = events[p]
          BY <4>2, <4>3
        <5>5. events[p].version \in DOMAIN streams'[s]
          BY <2>2, <5>2
        <5> QED BY <4>1, <4>3, <5>3, <5>4, <5>5
      <4>4. CASE events[p].session # s
        BY <2>2, <2>3, <4>1, <4>2, <4>4
      <4> QED BY <4>3, <4>4
    <3> QED BY <3>1, <3>2
  <2>6. ASSUME NEW p \in DOMAIN events', NEW q \in DOMAIN events',
               p < q, events'[p].session = events'[q].session
        PROVE  events'[p].version < events'[q].version
    <3>1. p \in 1..m /\ events'[p] = events[p]
      BY <2>1, <2>2, <2>6
    <3>2. CASE q = m + 1
      <4>1. events[p].session = s
        BY <2>2, <2>6, <3>1, <3>2
      <4>2. events[p].version \in 1..n
        BY <2>2, <3>1, <4>1 DEF LogIsConsistent
      <4> QED BY <2>1, <2>2, <3>1, <3>2, <4>2
    <3>3. CASE q # m + 1
      <4>1. q \in 1..m /\ events'[q] = events[q]
        BY <2>1, <2>2, <3>3
      <4> QED BY <2>2, <2>6, <3>1, <4>1 DEF LogIsConsistent
    <3> QED BY <3>2, <3>3
  <2> QED BY <2>4, <2>5, <2>6 DEF LogIsConsistent
<1>2. CASE UNCHANGED <<streams, events>>
  BY <1>2 DEF LogIsConsistent
<1> QED BY <1>1, <1>2, LogUnchanged

\* Calls are found in the log exactly as long as they should be.
LEMMA CallsInLogStep ==
  TypeOK /\ CallsInLog /\ [Next]_vars => CallsInLog'
<1> SUFFICES ASSUME TypeOK, CallsInLog, [Next]_vars PROVE CallsInLog'
  OBVIOUS
<1>1. ASSUME NEW c \in Commands, AppendEvent(c) PROVE CallsInLog'
  <2> DEFINE s == SessionOf[c]
             n == Len(streams[s])
             m == Len(events)
             e == Stamp(c)
  <2>1. /\ s \in Sessions /\ n \in Nat /\ m \in Nat
        /\ AddedLast(s, n, m, e)
        /\ e.session = s /\ e.command = c /\ e.version = n + 1
    BY <1>1, AppendEffect
  <2>2. /\ DOMAIN streams[s] = 1..n
        /\ DOMAIN streams'[s] = 1..(n + 1)
        /\ \A k \in 1..n : streams'[s][k] = streams[s][k]
        /\ streams'[s][n + 1] = e
        /\ \A t \in Sessions \ {s} : streams'[t] = streams[t]
        /\ DOMAIN events = 1..m
        /\ DOMAIN events' = 1..(m + 1)
        /\ \A p \in 1..m : events'[p] = events[p]
        /\ events'[m + 1] = e
        /\ e.session = s /\ e.command = c /\ e.version = n + 1
    BY <2>1 DEF AddedLast
  <2>3. /\ step[c] = "decided" /\ step'[c] = "persisted"
        /\ \A d \in Commands \ {c} : step'[d] = step[d]
    BY <1>1 DEF AppendEvent, Goto, TypeOK
  <2>4. ASSUME NEW t \in Sessions, NEW k \in DOMAIN streams[t]
        PROVE  streams[t][k].command \in Commands \ {c}
    <3>1. streams[t][k] \in Events
      BY LenProperties, ElementOfSeq DEF TypeOK
    <3>2. step[streams[t][k].command] # "decided"
      BY DEF CallsInLog, Stored
    <3> QED BY <2>3, <3>1, <3>2 DEF Events
  <2> HIDE DEF s, n, m, e
  <2>5. PositionsOf(c)' = {m + 1}
    <3>1. PositionsOf(c) = {}
      BY <2>3 DEF CallsInLog, Stored
    <3>2. \A p \in 1..m : events'[p].command # c
      BY <2>2, <3>1 DEF PositionsOf
    <3> QED BY <2>1, <2>2, <3>2 DEF PositionsOf
  <2>6. ASSUME NEW d \in Commands \ {c} PROVE PositionsOf(d)' = PositionsOf(d)
    BY <2>1, <2>2 DEF PositionsOf
  <2>7. ASSUME NEW d \in Commands
        PROVE  IF step'[d] \in Stored THEN \E p \in DOMAIN events' : PositionsOf(d)' = {p}
                                      ELSE PositionsOf(d)' = {}
    <3>1. CASE d = c
      <4>1. PositionsOf(d)' = {m + 1}
        BY <2>5, <3>1 DEF PositionsOf
      <4>2. step'[d] \in Stored /\ m + 1 \in DOMAIN events'
        BY <2>1, <2>2, <2>3, <3>1 DEF Stored
      <4> QED BY <4>1, <4>2
    <3>2. CASE d # c
      <4>1. step'[d] = step[d] /\ PositionsOf(d)' = PositionsOf(d)
        BY <2>3, <2>6, <3>2
      <4>2. DOMAIN events \subseteq DOMAIN events'
        BY <2>1, <2>2
      <4> QED BY <4>1, <4>2 DEF CallsInLog
    <3> QED BY <3>1, <3>2
  <2>8. ASSUME NEW t \in Sessions, NEW k \in DOMAIN streams'[t]
        PROVE  \/ t = s /\ k = n + 1 /\ streams'[t][k].command = c
               \/ k \in DOMAIN streams[t] /\ streams'[t][k] = streams[t][k]
    BY <2>1, <2>2
  <2>9. ASSUME NEW t \in Sessions, NEW k \in DOMAIN streams'[t]
        PROVE  step'[streams'[t][k].command] \in Stored
    BY <2>3, <2>4, <2>8 DEF CallsInLog, Stored
  <2>10. ASSUME NEW t \in Sessions, NEW j \in DOMAIN streams'[t], NEW k \in DOMAIN streams'[t],
                streams'[t][j].command = streams'[t][k].command
         PROVE  j = k
    BY <2>4, <2>8, <2>10 DEF CallsInLog
  <2> QED BY <2>7, <2>9, <2>10 DEF CallsInLog
<1>2. CASE UNCHANGED <<streams, events>>
  <2>1. \A c \in Commands : step'[c] \in Stored <=> step[c] \in Stored
    BY <1>2
    DEF Next, vars, LoadAndDecide, LoadCancelled, AppendEvent, AppendCancelled, PublishEvent,
        PublishFails, Goto, Stored, TypeOK
  <2>2. \A c \in Commands : PositionsOf(c)' = PositionsOf(c)
    BY <1>2 DEF PositionsOf
  <2>3. ASSUME NEW t \in Sessions, NEW k \in DOMAIN streams[t]
        PROVE  streams[t][k].command \in Commands
    <3>1. streams[t][k] \in Events
      BY LenProperties, ElementOfSeq DEF TypeOK
    <3> QED BY <3>1 DEF Events
  <2>4. ASSUME NEW d \in Commands
        PROVE  IF step'[d] \in Stored THEN \E p \in DOMAIN events' : PositionsOf(d)' = {p}
                                      ELSE PositionsOf(d)' = {}
    BY <1>2, <2>1, <2>2 DEF CallsInLog
  <2>5. \A t \in Sessions : \A k \in DOMAIN streams'[t] :
          step'[streams'[t][k].command] \in Stored
    BY <1>2, <2>1, <2>3 DEF CallsInLog
  <2>6. \A t \in Sessions : \A j, k \in DOMAIN streams'[t] :
          streams'[t][j].command = streams'[t][k].command => j = k
    BY <1>2 DEF CallsInLog
  <2> QED BY <2>4, <2>5, <2>6 DEF CallsInLog
<1> QED BY <1>1, <1>2, LogUnchanged

-----------------------------------------------------------------------------
\* Serial sessions

\* The calls that a step leaves in progress were in progress, except the one
\* that a load has let through.
LEMMA InProgressStep ==
  ASSUME TypeOK, NEW c \in Commands,
         \/ LoadCancelled(c) \/ AppendEvent(c) \/ AppendCancelled(c)
         \/ PublishEvent(c) \/ PublishFails(c)
  PROVE  /\ InProgress' \subseteq InProgress
         /\ \A d \in Commands : step'[d] = "decided" => step[d] = "decided" /\ d # c
BY DEF InProgress, LoadCancelled, AppendEvent, AppendCancelled, PublishEvent, PublishFails,
       Goto, TypeOK

\* Nothing but Append changes what a decision was made from, and there is no
\* other call of the session that could append.
LEMMA OneAtATimeStep ==
  TypeOK /\ OneAtATime /\ [Next]_vars => OneAtATime'
<1> SUFFICES ASSUME TypeOK, OneAtATime, [Next]_vars PROVE OneAtATime'
  OBVIOUS
<1>1. ASSUME NEW c \in Commands, LoadAndDecide(c) PROVE OneAtATime'
  <2>1. /\ InProgress' \subseteq InProgress \union {c}
        /\ \A d \in Commands \ {c} : step'[d] = step[d]
        /\ step'[c] = "decided" => Allows(Rebuild(streams[AggregateOf[c]]), KindOf[c])
        /\ \A d \in InProgress :
             NamedBy(c) \intersect NamedBy(d) \intersect SerialSessions = {}
        /\ UNCHANGED streams
    BY <1>1 DEF LoadAndDecide, Goto, InProgress, TypeOK
  <2>2. ASSUME NEW d \in InProgress', NEW e \in InProgress',
               NamedBy(d) \intersect NamedBy(e) \intersect SerialSessions # {}
        PROVE  d = e
    <3>1. CASE d = c
      BY <2>1, <2>2, <3>1
    <3>2. CASE e = c
      <4>1. NamedBy(c) \intersect NamedBy(d) \intersect SerialSessions # {}
        BY <2>2, <3>2
      <4> QED BY <2>1, <3>2, <4>1
    <3>3. CASE d # c /\ e # c
      BY <2>1, <2>2, <3>3 DEF OneAtATime
    <3> QED BY <3>1, <3>2, <3>3
  <2>3. ASSUME NEW d \in Commands, step'[d] = "decided", AggregateOf[d] \in SerialSessions
        PROVE  Allows(Rebuild(streams'[AggregateOf[d]]), KindOf[d])
    BY <2>1, <2>3 DEF OneAtATime
  <2> QED BY <2>2, <2>3 DEF OneAtATime
<1>2. ASSUME NEW c \in Commands, AppendEvent(c) PROVE OneAtATime'
  <2>1. /\ InProgress' \subseteq InProgress
        /\ \A d \in Commands : step'[d] = "decided" => step[d] = "decided" /\ d # c
    BY <1>2, InProgressStep
  <2>2. c \in InProgress
    BY <1>2 DEF AppendEvent, InProgress
  <2>3. ASSUME NEW d \in Commands, step'[d] = "decided", AggregateOf[d] \in SerialSessions
        PROVE  Allows(Rebuild(streams'[AggregateOf[d]]), KindOf[d])
    <3>1. d \in InProgress /\ d # c
      BY <2>1, <2>3 DEF InProgress
    <3>2. AggregateOf[d] # SessionOf[c]
      <4>1. AggregateOf[d] \in NamedBy(d)
        BY DEF NamedBy
      <4> QED BY <2>2, <2>3, <3>1, <4>1, OneWriter
    <3>3. streams'[AggregateOf[d]] = streams[AggregateOf[d]]
      BY <1>2, <3>2, CommandsAssumption DEF AppendEvent, TypeOK
    <3> QED BY <2>1, <2>3, <3>3 DEF OneAtATime
  <2> QED BY <2>1, <2>3 DEF OneAtATime
<1>3. ASSUME NEW c \in Commands,
             LoadCancelled(c) \/ AppendCancelled(c) \/ PublishEvent(c) \/ PublishFails(c)
      PROVE  OneAtATime'
  <2>1. /\ InProgress' \subseteq InProgress
        /\ \A d \in Commands : step'[d] = "decided" => step[d] = "decided" /\ d # c
    BY <1>3, InProgressStep
  <2>2. UNCHANGED streams
    BY <1>3 DEF LoadCancelled, AppendCancelled, PublishEvent, PublishFails
  <2> QED BY <2>1, <2>2 DEF OneAtATime
<1>4. CASE UNCHANGED vars
  BY <1>4 DEF OneAtATime, InProgress, vars
<1> QED BY <1>1, <1>2, <1>3, <1>4 DEF Next

\* The event that Append stores for a call is one that its decision allowed.
LEMMA AllowedType ==
  ASSUME TypeOK, NEW c \in Commands, NEW state \in States, Allows(state, KindOf[c])
  PROVE  (Stamp(c).type = "chat_session_connected") # state.connected
<1>1. KindOf[c] \in Kinds
  BY CommandsAssumption
<1>2. Stamp(c).type = EventOf(KindOf[c])
  BY DEF Stamp
<1>3. EventOf(KindOf[c]) = "chat_session_connected" <=> KindOf[c] = "connect_session"
  BY <1>1 DEF EventOf, Kinds
<1> QED BY <1>2, <1>3 DEF Allows

\* The stored history of a serial session that is written as itself stays legal:
\* what is appended was allowed by the history it is appended to.
LEMMA SerialHistoryLegalStep ==
  TypeOK /\ OneAtATime /\ SerialHistoryLegal /\ [Next]_vars => SerialHistoryLegal'
<1> SUFFICES ASSUME TypeOK, OneAtATime, SerialHistoryLegal, [Next]_vars
             PROVE  SerialHistoryLegal'
  OBVIOUS
<1>1. ASSUME NEW c \in Commands, AppendEvent(c), NEW s \in SerialSessions,
             WrittenAsItself(s)
      PROVE  LegalHistory(streams'[s])
  <2>1. s \in Sessions /\ streams[s] \in Histories /\ LegalHistory(streams[s])
    BY <1>1, CommandsAssumption DEF TypeOK, Histories, SerialHistoryLegal
  <2>2. CASE s = SessionOf[c]
    <3>1. Stamp(c) \in Events
      BY StampType
    <3>2. streams'[s] = Append(streams[s], Stamp(c))
      BY <1>1, <2>1, <2>2 DEF AppendEvent, TypeOK
    <3>3. Allows(Rebuild(streams[s]), KindOf[c])
      <4>1. AggregateOf[c] = s /\ step[c] = "decided"
        BY <1>1, <2>2 DEF WrittenAsItself, AppendEvent
      <4> QED BY <1>1, <4>1 DEF OneAtATime
    <3>4. (Stamp(c).type = "chat_session_connected") # Rebuild(streams[s]).connected
      BY <2>1, <3>3, RebuildType, AllowedType
    <3> QED BY <2>1, <3>1, <3>2, <3>4, LegalAppend
  <2>3. CASE s # SessionOf[c]
    <3>1. streams'[s] = streams[s]
      BY <1>1, <2>1, <2>3 DEF AppendEvent, TypeOK
    <3> QED BY <2>1, <3>1
  <2> QED BY <2>2, <2>3
<1>2. CASE UNCHANGED <<streams, events>>
  BY <1>2 DEF SerialHistoryLegal, WrittenAsItself
<1> QED BY <1>1, <1>2, LogUnchanged DEF SerialHistoryLegal, WrittenAsItself

-----------------------------------------------------------------------------
\* The projection

\* Follows depends on nothing else.
LEMMA FollowsFrame ==
  ASSUME NEW s \in SerialSessions, Follows(s),
         streams'[s] = streams[s], projection'[s] = projection[s],
         \A d \in Calls(s) : /\ step'[d] = "persisted" <=> step[d] = "persisted"
                             /\ step'[d] = "unpublished" <=> step[d] = "unpublished"
  PROVE  Follows(s)'
BY DEF Follows, Calls

\* Append puts the projection of its session one event behind.
LEMMA FollowsAppend ==
  ASSUME TypeOK, OneAtATime, NEW c \in Commands, AppendEvent(c),
         NEW s \in SerialSessions, s = SessionOf[c], Follows(s)
  PROVE  Follows(s)'
<1> SUFFICES ASSUME \A d \in Calls(s) : step'[d] # "unpublished"
             PROVE  /\ (\A d \in Calls(s) : step'[d] # "persisted")
                         => projection'[s] = Rebuild(streams'[s])
                    /\ \A d \in Calls(s) : step'[d] = "persisted" =>
                         \E history \in Histories, event \in Events :
                           /\ streams'[s] = Append(history, event)
                           /\ event.command = d
                           /\ projection'[s] = Rebuild(history)
  BY DEF Follows, Calls
<1>1. /\ step[c] = "decided" /\ step'[c] = "persisted" /\ c \in Calls(s)
      /\ \A d \in Commands \ {c} : step'[d] = step[d]
      /\ projection' = projection
      /\ s \in Sessions
  BY CommandsAssumption DEF AppendEvent, Goto, TypeOK, Calls
<1>2. \A d \in Calls(s) : d # c => step[d] \notin {"decided", "persisted"}
  BY <1>1, OneWriter DEF InProgress, Calls, NamedBy
<1>3. projection[s] = Rebuild(streams[s])
  BY <1>1, <1>2 DEF Follows, Calls
<1>4. /\ streams[s] \in Histories /\ Stamp(c) \in Events /\ Stamp(c).command = c
      /\ streams'[s] = Append(streams[s], Stamp(c))
  BY <1>1, StampType DEF AppendEvent, TypeOK, Histories, Stamp
<1>5. \A d \in Calls(s) : step'[d] = "persisted" => d = c
  BY <1>1, <1>2 DEF Calls
<1> QED BY <1>1, <1>3, <1>4, <1>5

\* Publish finds the event of its call at the end of the stream, and the
\* projection catches up.
LEMMA FollowsPublish ==
  ASSUME TypeOK, CallsInLog, OneAtATime, NEW c \in Commands, PublishEvent(c),
         NEW s \in SerialSessions, s = SessionOf[c], Follows(s)
  PROVE  Follows(s)'
<1> SUFFICES ASSUME \A d \in Calls(s) : step'[d] # "unpublished"
             PROVE  /\ projection'[s] = Rebuild(streams'[s])
                    /\ \A d \in Calls(s) : step'[d] # "persisted"
  BY DEF Follows, Calls
<1>1. /\ step[c] = "persisted" /\ step'[c] = "published" /\ c \in Calls(s)
      /\ \A d \in Commands \ {c} : step'[d] = step[d]
      /\ streams' = streams
      /\ s \in Sessions
  BY CommandsAssumption DEF PublishEvent, Goto, TypeOK, Calls
<1>2. \A d \in Calls(s) : step'[d] # "persisted"
  BY <1>1, OneWriter DEF InProgress, Calls, NamedBy
<1>3. \A d \in Calls(s) : step[d] # "unpublished"
  BY <1>1 DEF Calls
<1>4. PICK history \in Histories, event \in Events :
        streams[s] = Append(history, event) /\ event.command = c
          /\ projection[s] = Rebuild(history)
  BY <1>1, <1>3 DEF Follows
<1>5. PICK k \in 1..Len(streams[s]) :
        /\ streams[s][k].command = c
        /\ projection' = [projection EXCEPT ![s] = ApplyEvent(@, streams[s][k])]
  BY DEF PublishEvent, Deliver
<1>6. streams[s][k] = event
  <2> DEFINE n == Len(history) + 1
  <2>1. DOMAIN streams[s] = 1..Len(streams[s])
    BY <1>1, LenProperties DEF TypeOK
  <2>2. n \in 1..Len(streams[s]) /\ streams[s][n] = event
    BY <1>4, LenProperties, AppendProperties DEF Histories
  <2> HIDE DEF n
  <2>3. k = n
    BY <1>1, <1>4, <1>5, <2>1, <2>2 DEF CallsInLog
  <2> QED BY <2>2, <2>3
<1>7. projection'[s] = ApplyEvent(projection[s], event)
  BY <1>1, <1>5, <1>6 DEF TypeOK
<1>8. projection'[s] = Rebuild(streams[s])
  BY <1>4, <1>7, RebuildAppend
<1> QED BY <1>1, <1>2, <1>8

\* A delivery applies to the projection the event that the log got last, so with
\* calls one at a time the projection follows the log.
LEMMA ProjectionFollowsStep ==
  TypeOK /\ CallsInLog /\ OneAtATime /\ ProjectionFollows /\ [Next]_vars => ProjectionFollows'
<1> SUFFICES ASSUME TypeOK, CallsInLog, OneAtATime, ProjectionFollows, [Next]_vars,
                    NEW s \in SerialSessions
             PROVE  Follows(s)'
  BY DEF ProjectionFollows
<1>1. s \in Sessions /\ Follows(s)
  BY CommandsAssumption DEF ProjectionFollows
<1>2. CASE UNCHANGED vars
  BY <1>1, <1>2, FollowsFrame DEF vars
<1>3. ASSUME NEW c \in Commands, LoadAndDecide(c) \/ LoadCancelled(c) \/ AppendCancelled(c)
      PROVE  Follows(s)'
  BY <1>1, <1>3, FollowsFrame
  DEF LoadAndDecide, LoadCancelled, AppendCancelled, Goto, TypeOK, Calls
<1>4. ASSUME NEW c \in Commands, s # SessionOf[c],
             AppendEvent(c) \/ PublishEvent(c) \/ PublishFails(c)
      PROVE  Follows(s)'
  <2>1. \A d \in Calls(s) : step'[d] = step[d]
    BY <1>4 DEF AppendEvent, PublishEvent, PublishFails, Goto, TypeOK, Calls
  <2>2. streams'[s] = streams[s]
    BY <1>1, <1>4 DEF AppendEvent, PublishEvent, PublishFails, TypeOK
  <2>3. projection'[s] = projection[s]
    BY <1>1, <1>4 DEF AppendEvent, PublishEvent, PublishFails, TypeOK
  <2> QED BY <1>1, <2>1, <2>2, <2>3, FollowsFrame
<1>5. ASSUME NEW c \in Commands, s = SessionOf[c], AppendEvent(c) PROVE Follows(s)'
  BY <1>1, <1>5, FollowsAppend
<1>6. ASSUME NEW c \in Commands, s = SessionOf[c], PublishEvent(c) PROVE Follows(s)'
  BY <1>1, <1>6, FollowsPublish
<1>7. ASSUME NEW c \in Commands, s = SessionOf[c], PublishFails(c) PROVE Follows(s)'
  <2>1. c \in Calls(s) /\ step'[c] = "unpublished"
    BY <1>7 DEF PublishFails, Goto, TypeOK, Calls
  <2> QED BY <2>1 DEF Follows, Calls
<1> QED BY <1>2, <1>3, <1>4, <1>5, <1>6, <1>7 DEF Next

-----------------------------------------------------------------------------
\* Invariance

\* Empty streams and projections satisfy the inductive invariant.
LEMMA InitIInv == Init => IInv
<1> SUFFICES ASSUME Init PROVE IInv
  OBVIOUS
<1>1. <<>> \in Seq(Events) /\ Len(<<>>) = 0 /\ DOMAIN <<>> = {}
  BY EmptySeq
<1>2. TypeOK
  BY <1>1 DEF Init, TypeOK, Steps, Fresh
<1>3. \A s \in Sessions : DOMAIN streams[s] = {} /\ streams[s] = <<>>
  BY <1>1 DEF Init
<1>4. DOMAIN events = {}
  BY <1>1 DEF Init
<1>5. LogIsConsistent
  BY <1>3, <1>4 DEF LogIsConsistent
<1>6. CallsInLog
  BY <1>3, <1>4 DEF CallsInLog, PositionsOf, Stored, Init
<1>7. OneAtATime
  BY DEF OneAtATime, InProgress, Init
<1>8. SerialHistoryLegal
  BY <1>1, <1>3, CommandsAssumption DEF SerialHistoryLegal, LegalHistory
<1>9. ProjectionFollows
  BY <1>3, CommandsAssumption, RebuildEmpty DEF ProjectionFollows, Follows, Calls, Init
<1> QED BY <1>2, <1>5, <1>6, <1>7, <1>8, <1>9 DEF IInv

\* The log, the calls in it, the serial callers and the projection together
\* are inductive.
THEOREM Invariance == Spec => []IInv
<1>1. IInv /\ [Next]_vars => IInv'
  BY TypeOKStep, LogIsConsistentStep, CallsInLogStep, OneAtATimeStep,
     SerialHistoryLegalStep, ProjectionFollowsStep DEF IInv
<1> QED BY InitIInv, <1>1, PTL DEF Spec

\* Every reachable state has its type: calls, streams, log and projections.
THEOREM TypeCorrect == Spec => []TypeOK
<1>1. IInv => TypeOK
  BY DEF IInv
<1> QED BY Invariance, <1>1, PTL

\* However many calls append at once, the streams have versions without a gap
\* and the global log is an interleaving of the streams.
THEOREM LogConsistent == Spec => []LogIsConsistent
<1>1. IInv => LogIsConsistent
  BY DEF IInv
<1> QED BY Invariance, <1>1, PTL

\* A call that got as far as Append left one event, any other none.
THEOREM AnswersMatch == Spec => []AnswersMatchLog
<1>1. IInv => AnswersMatchLog
  <2> SUFFICES ASSUME IInv, NEW c \in Commands
               PROVE  Cardinality(PositionsOf(c)) = IF step[c] \in Stored THEN 1 ELSE 0
    BY DEF AnswersMatchLog, PositionsOf, Stored
  <2>1. CASE step[c] \in Stored
    <3>1. PICK p \in DOMAIN events : PositionsOf(c) = {p}
      BY <2>1 DEF IInv, CallsInLog
    <3> QED BY <2>1, <3>1, FS_Singleton
  <2>2. CASE step[c] \notin Stored
    <3>1. PositionsOf(c) = {}
      BY <2>2 DEF IInv, CallsInLog
    <3> QED BY <2>2, <3>1, FS_EmptySet
  <2> QED BY <2>1, <2>2
<1> QED BY Invariance, <1>1, PTL

\* The history of a session whose callers wait, and in whose stream no command
\* addressed to another session writes, obeys the aggregate's guards.
THEOREM SerialHistoriesLegal == Spec => []SerialHistoryLegal
<1>1. IInv => SerialHistoryLegal
  BY DEF IInv
<1> QED BY Invariance, <1>1, PTL

\* A projection that has been sent every stored event is what a replay of the
\* stream gives.
THEOREM ProjectionsAgree == Spec => []ProjectionAgrees
<1>1. IInv => ProjectionAgrees
  BY DEF IInv, ProjectionFollows, Follows, Calls, ProjectionAgrees
<1> QED BY Invariance, <1>1, PTL

-----------------------------------------------------------------------------
\* Refinement

\* The variables of the abstract object.
Connected == [s \in SerialSessions |-> Rebuild(streams[s]).connected]
Received == [s \in SerialSessions |-> Rebuild(streams[s]).received]
Handled == {c \in SerialCommands : step[c] \notin {"waiting", "decided"}}

\* Empty streams are the initial state of the abstract session objects.
LEMMA InitObject == Init => Object!Init
<1> SUFFICES ASSUME Init PROVE Object!Init
  OBVIOUS
<1>1. \A s \in SerialSessions : Rebuild(streams[s]) = Fresh
  BY CommandsAssumption, RebuildEmpty DEF Init
<1>2. \A c \in SerialCommands : step[c] = "waiting"
  BY DEF Init, SerialCommands
<1>3. Connected = [s \in SerialSessions |-> FALSE]
  <2>1. Fresh.connected = FALSE
    BY DEF Fresh
  <2>2. \A s \in SerialSessions : Rebuild(streams[s]).connected = FALSE
    BY <1>1, <2>1
  <2> QED BY <2>2, Zenon DEF Connected
<1>4. Received = [s \in SerialSessions |-> 0]
  BY <1>1 DEF Received, Fresh
<1>5. Handled = {}
  BY <1>2 DEF Handled
<1> QED BY <1>3, <1>4, <1>5 DEF Object!Init, Connected, Received, Handled

\* A step that appends nothing leaves the object alone or refuses a command.
LEMMA RefusalStep ==
  ASSUME TypeOK, [Next]_vars, UNCHANGED <<streams, events>>
  PROVE  [Object!Next]_Object!vars
<1>1. Connected' = Connected /\ Received' = Received
  BY DEF Connected, Received
<1>2. \/ Handled' = Handled
      \/ \E c \in SerialCommands \ Handled : Handled' = Handled \union {c}
  <2>1. CASE UNCHANGED vars
    BY <2>1 DEF vars, Handled
  <2>2. ASSUME NEW c \in Commands, LoadAndDecide(c) \/ LoadCancelled(c) \/ AppendCancelled(c)
        PROVE  \/ Handled' = Handled
               \/ c \in SerialCommands \ Handled /\ Handled' = Handled \union {c}
    BY <2>2 DEF LoadAndDecide, LoadCancelled, AppendCancelled, Goto, TypeOK, Handled, SerialCommands
  <2>3. ASSUME NEW c \in Commands, PublishEvent(c) \/ PublishFails(c)
        PROVE  Handled' = Handled
    BY <2>3 DEF PublishEvent, PublishFails, Goto, TypeOK, Handled, SerialCommands
  <2>4. ASSUME NEW c \in Commands, AppendEvent(c) PROVE FALSE
    <3>1. Stamp(c) \in Events /\ events \in Seq(Events) /\ Append(events, Stamp(c)) = events
      BY <2>4, StampType DEF AppendEvent, TypeOK
    <3> QED BY <3>1, AppendProperties, LenProperties
  <2> QED BY <2>1, <2>2, <2>3, <2>4 DEF Next
<1> QED BY <1>1, <1>2
        DEF Object!Next, Object!Refuse, Object!vars, Connected, Received, Handled

\* Append is where a command that changes a serial session takes effect: the
\* session it was decided from still allows it.
LEMMA CommandStep ==
  ASSUME TypeOK, OneAtATime, NEW c \in Commands, AppendEvent(c)
  PROVE  [Object!Next]_Object!vars
<1> DEFINE s == SessionOf[c]
<1>1. /\ s \in Sessions /\ KindOf[c] \in Kinds
      /\ streams[s] \in Histories /\ Stamp(c) \in Events
      /\ streams' = [streams EXCEPT ![s] = Append(@, Stamp(c))]
      /\ step[c] = "decided" /\ step' = [step EXCEPT ![c] = "persisted"]
  BY CommandsAssumption, StampType DEF AppendEvent, TypeOK, Histories, Goto
<1>2. CASE c \notin SerialCommands
  <2>1. s \notin SerialSessions
    BY <1>2 DEF SerialCommands
  <2>2. \A t \in SerialSessions : streams'[t] = streams[t]
    BY <1>1, <2>1, CommandsAssumption DEF TypeOK
  <2>3. Connected' = Connected /\ Received' = Received
    BY <2>2 DEF Connected, Received
  <2>4. Handled' = Handled
    BY <1>1, <1>2 DEF Handled, SerialCommands, TypeOK
  <2> QED BY <2>3, <2>4 DEF Object!vars, Connected, Received, Handled
<1>3. CASE c \in SerialCommands
  <2> DEFINE a == AggregateOf[c]
  <2>1. s \in SerialSessions /\ a \in SerialSessions
    BY <1>3, CommandsAssumption DEF SerialCommands
  <2> DEFINE before == Rebuild(streams[s])
             after == ApplyEvent(before, Stamp(c))
  <2>2. /\ before \in States
        /\ Rebuild(streams[a]) \in States
        /\ Allows(Rebuild(streams[a]), KindOf[c])
    <3>1. streams[a] \in Histories
      BY <2>1, CommandsAssumption DEF TypeOK, Histories
    <3> QED BY <1>1, <2>1, <3>1, RebuildType DEF OneAtATime
  <2>3. Rebuild(streams'[s]) = after
    BY <1>1, RebuildAppend DEF TypeOK
  <2>4. \A t \in SerialSessions \ {s} : streams'[t] = streams[t]
    BY <1>1, CommandsAssumption DEF TypeOK
  <2>5. Stamp(c).type = EventOf(KindOf[c])
    BY DEF Stamp
  <2>6. /\ Connected[s] = before.connected /\ Received[s] = before.received
        /\ Connected[a] = Rebuild(streams[a]).connected
    BY <2>1 DEF Connected, Received
  <2> HIDE DEF before, after, s, a
  <2>7. Connected' = [Connected EXCEPT ![s] = after.connected]
    BY <2>1, <2>3, <2>4 DEF Connected
  <2>8. Received' = [Received EXCEPT ![s] = after.received]
    BY <2>1, <2>3, <2>4 DEF Received
  <2>9. c \in SerialCommands \ Handled /\ Handled' = Handled \union {c}
    BY <1>1, <1>3 DEF Handled, SerialCommands, TypeOK
  <2>10. CASE KindOf[c] = "connect_session"
    <3>1. Stamp(c).type = "chat_session_connected" /\ ~Connected[a]
      BY <2>2, <2>5, <2>6, <2>10 DEF EventOf, Allows
    <3>2. after = [before EXCEPT !.connected = TRUE]
      BY <3>1 DEF after, ApplyEvent
    <3>3. after.connected = TRUE /\ after.received = before.received
      BY <2>2, <3>2 DEF States
    <3>4. /\ ~Connected[a]
          /\ Connected' = [Connected EXCEPT ![s] = TRUE]
          /\ Received' = Received
      BY <2>6, <2>7, <2>8, <3>1, <3>3 DEF Received
    <3> QED BY <2>9, <2>10, <3>4
            DEF Object!Next, Object!Connect, s, a, Connected, Received, Handled
  <2>11. CASE KindOf[c] = "disconnect_session"
    <3>1. Stamp(c).type = "chat_session_disconnected" /\ Connected[a]
      BY <2>2, <2>5, <2>6, <2>11 DEF EventOf, Allows, States
    <3>2. after = [before EXCEPT !.connected = FALSE]
      BY <3>1 DEF after, ApplyEvent
    <3>3. after.connected = FALSE /\ after.received = before.received
      BY <2>2, <3>2 DEF States
    <3>4. /\ Connected[a]
          /\ Connected' = [Connected EXCEPT ![s] = FALSE]
          /\ Received' = Received
      BY <2>6, <2>7, <2>8, <3>1, <3>3 DEF Received
    <3> QED BY <2>9, <2>11, <3>4
            DEF Object!Next, Object!Disconnect, s, a, Connected, Received, Handled
  <2>12. CASE KindOf[c] = "send_message"
    <3>1. Stamp(c).type = "chat_message_received" /\ Connected[a]
      BY <2>2, <2>5, <2>6, <2>12 DEF EventOf, Allows, States
    <3>2. after = [before EXCEPT !.received = @ + 1]
      BY <3>1 DEF after, ApplyEvent
    <3>3. after.connected = before.connected /\ after.received = before.received + 1
      BY <2>2, <3>2 DEF States
    <3>4. /\ Connected[a]
          /\ Received' = [Received EXCEPT ![s] = @ + 1]
          /\ Connected' = Connected
      BY <2>6, <2>7, <2>8, <3>1, <3>3 DEF Connected
    <3> QED BY <2>9, <2>12, <3>4
            DEF Object!Next, Object!Send, s, a, Connected, Received, Handled
  <2> QED BY <1>1, <2>10, <2>11, <2>12 DEF Kinds
<1> QED BY <1>2, <1>3

\* For callers that wait for one call before they make the next, store, replay
\* and decision together implement objects with atomic commands, even where a
\* command is decided from one session and changes another.
THEOREM ObjectImplemented == Spec => ImplementsObject
<1>1. IInv /\ [Next]_vars => [Object!Next]_Object!vars
  BY LogUnchanged, RefusalStep, CommandStep DEF IInv
<1> QED BY InitObject, <1>1, Invariance, PTL DEF Spec, ImplementsObject, Object!Spec
=============================================================================
