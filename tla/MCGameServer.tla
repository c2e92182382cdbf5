---------------------------- MODULE MCGameServer ----------------------------
(* Instances of GameServer small enough for TLC.                           *)
EXTENDS GameServer

CONSTANTS c1, c2   \* clients
=============================================================================
