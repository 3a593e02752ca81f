-------------------------- MODULE AdmissionControl --------------------------
(***************************************************************************)
(* What the per-address limit of the connection manager promises, without  *)
(* a counter, a map or timeouts: an attempt is let in only while fewer     *)
(* than MaxPerIP attempts of its address are counted, it may be refused,   *)
(* and once it has stopped counting it never counts again.  One failed     *)
(* broadcast may end several at once.                                      *)
(***************************************************************************)
EXTENDS Naturals, FiniteSets

CONSTANTS Conns, IPOf, MaxPerIP

VARIABLES
  admitted,  \* attempts let in that still count
  finished   \* attempts refused, or let in and not counted any more

vars == <<admitted, finished>>

Inside(ip) == {c \in admitted : IPOf[c] = ip}

Init == admitted = {} /\ finished = {}

Enter(c) ==
  /\ c \notin admitted \union finished
  /\ Cardinality(Inside(IPOf[c])) < MaxPerIP
  /\ admitted' = admitted \union {c}
  /\ UNCHANGED finished

Refuse(c) ==
  /\ c \notin admitted \union finished
  /\ finished' = finished \union {c}
  /\ UNCHANGED admitted

Leave ==
  /\ admitted' \in (SUBSET admitted) \ {admitted}
  /\ finished' = finished \union (admitted \ admitted')

Next == (\E c \in Conns : Enter(c) \/ Refuse(c)) \/ Leave

Spec == Init /\ [][Next]_vars
=============================================================================
