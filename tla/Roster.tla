------------------------------- MODULE Roster -------------------------------
(***************************************************************************)
(* TransmitMessage, which the router and the game server have in common    *)
(* (TRedirectServer/ServerMain.cpp, TGameServer/ServerMain.cpp): who hears *)
(* of whom when a connection comes and goes.  A table maps a peer to its   *)
(* connection, a record with a field myID, or to None; heard maps a peer   *)
(* to the ids it was told of and not told to forget.                       *)
(***************************************************************************)
EXTENDS Integers

CONSTANT None   \* no connection

Present(table) == {p \in DOMAIN table : table[p] # None}

(* Mutant of AnnounceConnected: the newcomer is not told who is online. *)
AnnounceArrivalOnly(table, k, heard) ==
  [p \in DOMAIN table |->
     IF table[p] # None /\ table[p].myID # table[k].myID
     THEN heard[p] \union {table[k].myID} ELSE heard[p]]

(***************************************************************************)
(* UserConnected for the connection at k: it is told of every other entry  *)
(* of the table by UserOnline, and every other entry is told of it.        *)
(***************************************************************************)
AnnounceConnected(table, k, heard) ==
  LET id == table[k].myID
      others == {table[p].myID : p \in Present(table)} \ {id} IN
  [p \in DOMAIN table |->
     CASE table[p] = None       -> heard[p]
       [] table[p] # None /\ table[p].myID = id -> heard[p] \union others
       [] OTHER                 -> heard[p] \union {id}]

(* UserDisconnected for an id: every entry with another id is told. *)
AnnounceDisconnected(table, id, heard) ==
  [p \in DOMAIN table |->
     IF table[p] # None /\ table[p].myID # id THEN heard[p] \ {id} ELSE heard[p]]
=============================================================================
