------------------------- MODULE MCNetworkInterface -------------------------
(* Instances of NetworkInterface small enough for TLC.                     *)
EXTENDS NetworkInterface

CONSTANTS router, client, server,   \* interfaces
          m1, m2                    \* messages

(* The value a char of this width takes after CharMax. *)
WrappedChar == -2

(* Two messages of one sender to one receiver, numbered by one process. *)
Forward == [m \in {m1, m2} |-> router]
ToClient == [m \in {m1, m2} |-> client]
Numbered == [m \in {m1, m2} |-> IF m = m1 THEN 100 ELSE 101]

(* One message alone, sent a second time when SendCap is 2. *)
OneForward == [m \in {m1} |-> router]
OneToClient == [m \in {m1} |-> client]
OneNumber == [m \in {m1} |-> 100]

(* Two processes that both number from NetMessage::ourCounter = 100. *)
SameNumber == [m \in {m1, m2} |-> 100]

(***************************************************************************)
(* The game server's upstream interface hears the router and every client  *)
(* that was told to ping it: two processes, one interface.                 *)
(***************************************************************************)
RouterAndClient == [m \in {m1, m2} |-> IF m = m1 THEN router ELSE client]
ToServer == [m \in {m1, m2} |-> server]
=============================================================================
