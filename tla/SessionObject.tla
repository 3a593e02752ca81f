--------------------------- MODULE SessionObject ---------------------------
(***************************************************************************)
(* What a chat session promises to whoever sends it commands, without      *)
(* events, versions or replay: a plain object whose commands are atomic.   *)
(* A command is executed at most once, and only while the session it       *)
(* addresses allows it; what it changes is the session its payload names.  *)
(***************************************************************************)
EXTENDS Naturals

CONSTANTS Commands, KindOf, AggregateOf, SessionOf, Sessions

VARIABLES
  connected,  \* per session
  received,   \* messages sent into each session
  handled     \* commands that have been executed or refused

vars == <<connected, received, handled>>

Init ==
  /\ connected = [s \in Sessions |-> FALSE]
  /\ received = [s \in Sessions |-> 0]
  /\ handled = {}

Connect(c) ==
  /\ KindOf[c] = "connect_session"
  /\ ~connected[AggregateOf[c]]
  /\ connected' = [connected EXCEPT ![SessionOf[c]] = TRUE]
  /\ UNCHANGED received

Disconnect(c) ==
  /\ KindOf[c] = "disconnect_session"
  /\ connected[AggregateOf[c]]
  /\ connected' = [connected EXCEPT ![SessionOf[c]] = FALSE]
  /\ UNCHANGED received

Send(c) ==
  /\ KindOf[c] = "send_message"
  /\ connected[AggregateOf[c]]
  /\ received' = [received EXCEPT ![SessionOf[c]] = @ + 1]
  /\ UNCHANGED connected

Refuse(c) == UNCHANGED <<connected, received>>

Next ==
  \E c \in Commands \ handled :
    /\ Connect(c) \/ Disconnect(c) \/ Send(c) \/ Refuse(c)
    /\ handled' = handled \union {c}

Spec == Init /\ [][Next]_vars
=============================================================================
