------------------------ MODULE MCConnectionManager ------------------------
(***************************************************************************)
(* Instances of ConnectionManager for TLC.                                 *)
(***************************************************************************)
EXTENDS ConnectionManager, TLC

CONSTANTS c1, c2, c3, i1, i2, a1, a2

\* c1 and c2 reconnect under one identifier; c3 is somebody else.
ReconnectIds == c1 :> i1 @@ c2 :> i1 @@ c3 :> i2
\* c1 and c2 are two clients with an identifier of their own.
DistinctIds == c1 :> i1 @@ c2 :> i2
\* One identifier for everybody.
SharedId == [c \in Conns |-> i1]

\* One address for everybody.
OneAddress == [c \in Conns |-> a1]
\* The second connection of i1 comes from the address of somebody else.
MovingAddress == c1 :> a1 @@ c2 :> a2 @@ c3 :> a2
=============================================================================
