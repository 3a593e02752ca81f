-------------------------- MODULE MCEventSourcing --------------------------
(***************************************************************************)
(* Instances of EventSourcing for TLC: the calls on s1 come one at a time, *)
(* those on s2 may overlap, and stray is a message that is addressed to s1 *)
(* and carries s3 in its payload.                                          *)
(***************************************************************************)
EXTENDS EventSourcing, TLC

CONSTANTS s1, s2, s3, join, rejoin, leave, join2, leave2, stray

MCKindOf ==
  join :> "connect_session" @@ rejoin :> "connect_session" @@
  leave :> "disconnect_session" @@
  join2 :> "connect_session" @@ leave2 :> "disconnect_session" @@
  stray :> "send_message"

MCAggregateOf == [c \in Commands |-> IF c \in {join2, leave2} THEN s2 ELSE s1]

MCSessionOf == [MCAggregateOf EXCEPT ![stray] = s3]
=============================================================================
