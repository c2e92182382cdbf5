--------------------------- MODULE RedirectServer ---------------------------
(***************************************************************************)
(* The router: TRedirectServer/ServerMain.cpp (the table of connections    *)
(* and the loop of Listen) with TRedirectServer/Connection.cpp (handshake, *)
(* parsing, and the choice of the server a client is redirected to).       *)
(*                                                                         *)
(* The program is one thread.  A pass of Listen visits the connections,    *)
(* flushing live ones, until the first dead one, which is removed and ends *)
(* the visit; then at most one datagram is handled.  myClients is a hash   *)
(* table, so each visit takes the connections in some order of its own.    *)
(*                                                                         *)
(* A peer is its address, a number in the order of the keys of             *)
(* myEvaluations.  Datagrams arrive as NetworkInterface hands them over:   *)
(* late, repeated or never.  What is sent is recorded where a property     *)
(* needs it.                                                               *)
(***************************************************************************)
EXTENDS Integers, FiniteSets, FiniteSetsExt, Roster

CONSTANTS
  Servers, Clients,    \* game servers and clients
  RedirectTimeout,     \* REDIRECTTIMEOUT, in ticks
  Pings,               \* the round trips a client may report, all above 0
  MaxConnections,      \* bound on the Connection objects ever made
  IdModulus,           \* IDCOUNTER is an unsigned short: 2^16
  IdentifyCap,         \* bound on the NetIdentify messages of one connection
  MayTimeOut,          \* peers that may stop acknowledging, or be kicked
  MayLeave,            \* peers that may say goodbye
  ErrorBound,          \* bound on failing recvfrom calls
  Memory               \* what memory may hold where the constructor leaves it alone

Peers == Servers \union Clients

ASSUME PeersAssumption ==
  /\ Servers \subseteq Nat \ {0} /\ Clients \subseteq Nat \ {0}
  /\ Servers \intersect Clients = {}
  /\ IsFiniteSet(Peers) /\ Peers # {}
  /\ MayTimeOut \subseteq Peers /\ MayLeave \subseteq Peers

ASSUME BoundsAssumption ==
  /\ RedirectTimeout \in Nat /\ MaxConnections \in Nat /\ ErrorBound \in Nat
  /\ IdModulus \in Nat \ {0} /\ IdentifyCap \in Nat
  /\ Pings \subseteq Nat \ {0}

VARIABLES
  myClients,   \* [Peers -> Connection or None]
  made,        \* number of Connection objects made, which IDCOUNTER follows
  errors,      \* number of recvfrom errors so far
  visiting,    \* TRUE at the head of the loop in Listen, FALSE at recvfrom
  visited,     \* the entries this visit has flushed
  running      \* FALSE once an uncaught exception has ended the process

(***************************************************************************)
(* What the router has sent, and what the peers therefore know: told[k]    *)
(* holds the ids announced to the connection at k and not retracted,       *)
(* assigned[p] the ids in the Setup responses to p, offered[p] the         *)
(* addresses named to p by PotentialServer, target[p] the address in the   *)
(* last ConnectToServer sent to p.  left holds the ids whose owner sent    *)
(* UserDisconnected itself.                                                *)
(***************************************************************************)
VARIABLES told, assigned, offered, target, left

(***************************************************************************)
(* For the properties only: what has become of each Connection object.     *)
(* new: it has not identified itself as a game server's; server: it has,   *)
(* and has been valid ever since; lapsed: a game server's that has been    *)
(* given up, even if it is accepted again.                                 *)
(***************************************************************************)
VARIABLE standing

sentOut == <<told, assigned, offered, target, left>>
vars == <<myClients, made, errors, visiting, visited, running, standing, sentOut>>

Wild == 0                        \* an address read from memory that holds none
Addresses == Peers \union {Wild}
Objects == 0 .. MaxConnections   \* 0: made by operator[] on an unknown key
Ids == 0 .. IdModulus - 1
(* Mutant of IdOf: an id wider than the message field. *)
IdOfWide(n) == 3 + n

IdOf(n) == (3 + n) % IdModulus

(* The members that have no value until something sets them. *)
ASSUME MemoryAssumption ==
  /\ Memory \subseteq [myIsServer : BOOLEAN, myServerAddress : Addresses,
                      myPotentialRedirectCount : Int]
  /\ Memory # {}

Evaluation == [myPing : Pings \union {0}, myHasResult : BOOLEAN, myConnection : Objects]

Connection ==
  [object : Objects, myID : Ids, myIsValid : BOOLEAN,
   myIsServer : BOOLEAN, myServerAddress : Addresses,
   identified : 0 .. IdentifyCap, hooks : 0 .. IdentifyCap,
   myIsRedirecting : BOOLEAN, sinceRedirect : 0 .. RedirectTimeout + 1,
   myPotentialRedirectCount : Int,
   myEvaluations : [Addresses -> Evaluation \union {None}]]

ASSUME NoneAssumption == None \notin Connection /\ None \notin Evaluation

TypeOK ==
  /\ myClients \in [Peers -> Connection \union {None}]
  /\ made \in 0 .. MaxConnections
  /\ errors \in 0 .. ErrorBound
  /\ visiting \in BOOLEAN
  /\ visited \subseteq Peers
  /\ running \in BOOLEAN
  /\ standing \in [Objects -> {"new", "server", "lapsed"}]
  /\ told \in [Peers -> SUBSET Ids]
  /\ assigned \in [Peers -> SUBSET Ids]
  /\ offered \in [Peers -> SUBSET Addresses]
  /\ target \in [Peers -> Addresses \union {None}]
  /\ left \subseteq Ids

Init ==
  /\ myClients = [p \in Peers |-> None]
  /\ made = 0
  /\ errors = 0
  /\ visiting = TRUE
  /\ visited = {}
  /\ running = TRUE
  /\ standing = [o \in Objects |-> "new"]
  /\ told = [p \in Peers |-> {}]
  /\ assigned = [p \in Peers |-> {}]
  /\ offered = [p \in Peers |-> {}]
  /\ target = [p \in Peers |-> None]
  /\ left = {}

-----------------------------------------------------------------------------
(* The choice of a server.                                                 *)

(* RequestList, filtered as BeginRedirect does. *)
Candidates(table) == {p \in Present(table) : table[p].myIsValid /\ table[p].myIsServer}

Offers(table) == {table[p].myServerAddress : p \in Candidates(table)}

(* myEvaluations[key].myConnection = conn: a new entry is value-initialised. *)
Noted(evaluation, object) ==
  IF evaluation = None
  THEN [myPing |-> 0, myHasResult |-> FALSE, myConnection |-> object]
  ELSE [evaluation EXCEPT !.myConnection = object]

(***************************************************************************)
(* Of several connections that claim one address the last one in the order *)
(* of the table is noted: one choice of a claimant for each address.       *)
(***************************************************************************)
Claims(table) ==
  {claim \in [Offers(table) -> Candidates(table)] :
     \A a \in Offers(table) : table[claim[a]].myServerAddress = a}

(* BeginRedirect for the connection at k: note every valid server. *)
BeginRedirect(table, k, claim) ==
  LET c == table[k] IN
  [table EXCEPT ![k] =
     [c EXCEPT
        !.myIsRedirecting = TRUE,
        !.sinceRedirect = 0,
        !.myPotentialRedirectCount = Cardinality(Candidates(table)),
        !.myEvaluations =
           [a \in Addresses |->
              IF a \in Offers(table)
              THEN Noted(c.myEvaluations[a], table[claim[a]].object)
              ELSE c.myEvaluations[a]]]]

Noticed(c) == {a \in Addresses : c.myEvaluations[a] # None}
Answered(c) == {a \in Noticed(c) : c.myEvaluations[a].myHasResult}

(* The first entry, in the order of addresses, with the smallest myPing. *)
Best(c) ==
  Min({a \in Noticed(c) :
         \A b \in Noticed(c) : c.myEvaluations[a].myPing <= c.myEvaluations[b].myPing})

(***************************************************************************)
(* best->myConnection->myServerAddress.  The Connection may have been      *)
(* erased since it was noted; then what is read is whatever the memory     *)
(* holds.                                                                  *)
(***************************************************************************)
ReadServerAddress(table, object) ==
  LET live == {p \in Present(table) : table[p].object = object} IN
  IF live # {} THEN {table[p].myServerAddress : p \in live} ELSE Addresses

(* Mutant of Decides: one result too few is waited for. *)
DecidesEarly(c, isTimeOutEval) ==
  Cardinality(Answered(c)) + 1 >= c.myPotentialRedirectCount \/ isTimeOutEval

Decides(c, isTimeOutEval) ==
  Cardinality(Answered(c)) >= c.myPotentialRedirectCount \/ isTimeOutEval

(***************************************************************************)
(* EvaluateRedirectResult for the connection at k, which is c in a table   *)
(* that is otherwise unchanged: wait for more results, redirect to the     *)
(* best server, or begin again when none is known.                         *)
(***************************************************************************)
EvaluateRedirectResult(table, k, isTimeOutEval) ==
  LET c == table[k]
      decides == Decides(c, isTimeOutEval) IN
  \/ /\ ~decides
     /\ myClients' = table
     /\ UNCHANGED <<offered, target>>
  \/ /\ decides /\ Noticed(c) # {}
     /\ \E a \in ReadServerAddress(table, c.myEvaluations[Best(c)].myConnection) :
          target' = [target EXCEPT ![k] = a]
     /\ myClients' = [table EXCEPT ![k].myIsRedirecting = FALSE, ![k].sinceRedirect = 0]
     /\ UNCHANGED offered
  \/ /\ decides /\ Noticed(c) = {}
     /\ \E claim \in Claims(table) : myClients' = BeginRedirect(table, k, claim)
     /\ offered' = [offered EXCEPT ![k] = @ \union Offers(table)]
     /\ UNCHANGED target

(* The Connection at k is given up, or not if it stays valid. *)
Lapses(k, valid) ==
  standing' = IF valid \/ k \notin Servers THEN standing
              ELSE [standing EXCEPT ![myClients[k].object] = "lapsed"]

-----------------------------------------------------------------------------
(* The visit of the connections, at the head of the loop in Listen.        *)

(* An entry the visit has not reached yet, and may reach next. *)
IsNext(k) ==
  /\ running /\ visiting
  /\ k \in Present(myClients) \ visited

VisitIsOver == visiting' = FALSE /\ visited' = {}

(* Mutants of Reap: the others are not told; the entry is not erased; IsAlive *)
(* with the TTL that is commented out, and too short.                      *)
ReapSilently(k) ==
  /\ IsNext(k)
  /\ ~myClients[k].myIsValid
  /\ told' = [told EXCEPT ![k] = {}]
  /\ myClients' = [myClients EXCEPT ![k] = None]
  /\ VisitIsOver
  /\ UNCHANGED <<made, errors, running, standing, assigned, offered, target, left>>

ReapWithoutErase(k) ==
  /\ IsNext(k)
  /\ ~myClients[k].myIsValid
  /\ told' = AnnounceDisconnected(myClients, myClients[k].myID, told)
  /\ VisitIsOver
  /\ UNCHANGED <<myClients, made, errors, running, standing, assigned, offered, target, left>>

ReapIdle(k) ==
  /\ IsNext(k)
  /\ told' = [AnnounceDisconnected(myClients, myClients[k].myID, told) EXCEPT ![k] = {}]
  /\ myClients' = [myClients EXCEPT ![k] = None]
  /\ VisitIsOver
  /\ UNCHANGED <<made, errors, running, standing, assigned, offered, target, left>>

(* IsAlive() is false: tell the others, erase the entry, break. *)
Reap(k) ==
  /\ IsNext(k)
  /\ ~myClients[k].myIsValid
  /\ told' = [AnnounceDisconnected(myClients, myClients[k].myID, told) EXCEPT ![k] = {}]
  /\ myClients' = [myClients EXCEPT ![k] = None]
  /\ VisitIsOver
  /\ UNCHANGED <<made, errors, running, standing, assigned, offered, target, left>>

(* Mutant of Flush: no evaluation when the redirect has taken too long. *)
FlushWithoutTimeout(k) ==
  /\ IsNext(k)
  /\ myClients[k].myIsValid
  /\ \E valid \in (IF k \in MayTimeOut THEN BOOLEAN ELSE {TRUE}) :
       myClients' = [myClients EXCEPT ![k].myIsValid = valid] /\ Lapses(k, valid)
  /\ visited' = visited \union {k}
  /\ UNCHANGED visiting
  /\ UNCHANGED <<made, errors, running, sentOut>>

(***************************************************************************)
(* Connection::Flush.  NetworkInterface::Flush may call TimedOut, which    *)
(* only clears myIsValid; the redirect that is under way goes on.          *)
(***************************************************************************)
Flush(k) ==
  /\ IsNext(k)
  /\ myClients[k].myIsValid
  /\ \E valid \in (IF k \in MayTimeOut THEN BOOLEAN ELSE {TRUE}) :
       LET table == [myClients EXCEPT ![k].myIsValid = valid] IN
       /\ Lapses(k, valid)
       /\ IF table[k].myIsRedirecting /\ table[k].sinceRedirect > RedirectTimeout
          THEN EvaluateRedirectResult(table, k, TRUE)
          ELSE myClients' = table /\ UNCHANGED <<offered, target>>
  /\ visited' = visited \union {k}
  /\ UNCHANGED visiting
  /\ UNCHANGED <<made, errors, running, told, assigned, left>>

VisitEnds ==
  /\ running
  /\ visiting
  /\ Present(myClients) \subseteq visited
  /\ VisitIsOver
  /\ UNCHANGED <<myClients, made, errors, running, standing, sentOut>>

-----------------------------------------------------------------------------
(* The datagram at the end of the loop in Listen.                          *)

Receiving == running /\ ~visiting /\ visiting' = TRUE /\ UNCHANGED visited

WouldBlock ==
  /\ Receiving
  /\ UNCHANGED <<myClients, made, errors, running, standing, sentOut>>

(* A new Connection: its constructor leaves some members as memory has them. *)
NewConnections(n) ==
  {[object |-> n, myID |-> IdOf(n), myIsValid |-> FALSE,
    myIsServer |-> memory.myIsServer, myServerAddress |-> memory.myServerAddress,
    identified |-> 0, hooks |-> 0, myIsRedirecting |-> FALSE, sinceRedirect |-> 0,
    myPotentialRedirectCount |-> memory.myPotentialRedirectCount,
    myEvaluations |-> [a \in Addresses |-> None]] : memory \in Memory}

(***************************************************************************)
(* recvfrom fails for a peer: Invalidate its connection, and with it the   *)
(* trackers its acknowledgements would match.  operator[] makes an entry   *)
(* for an unknown key, whose members are not initialised.                  *)
(***************************************************************************)
ReceiveError(p) ==
  /\ Receiving
  /\ errors < ErrorBound
  /\ errors' = errors + 1
  /\ \/ /\ myClients[p] # None
        /\ myClients' = [myClients EXCEPT ![p].myIsValid = FALSE, ![p].hooks = 0]
        /\ Lapses(p, FALSE)
        /\ UNCHANGED told
     \/ /\ myClients[p] = None
        /\ \E id \in Ids, c \in NewConnections(0) :
             myClients' = [myClients EXCEPT ![p] = [c EXCEPT !.myID = id]]
        /\ told' = [told EXCEPT ![p] = {}]
        /\ UNCHANGED standing
  /\ UNCHANGED <<made, running, assigned, offered, target, left>>

(***************************************************************************)
(* The tables in which a datagram of p may be handled: p's entry is made   *)
(* first where it has none.                                                *)
(***************************************************************************)
WithEntry(p) ==
  IF myClients[p] # None THEN {myClients}
  ELSE {[myClients EXCEPT ![p] = c] : c \in NewConnections(made + 1)}

CountMade(p) ==
  IF myClients[p] # None THEN made' = made
  ELSE made < MaxConnections /\ made' = made + 1

(* An entry made by operator[] has no callback to call: std::bad_function_call. *)
HasCallback(p) == myClients[p] # None => myClients[p].object # 0

ReceiveAtDefaultEntry(p) ==
  /\ Receiving
  /\ ~HasCallback(p)
  /\ running' = FALSE
  /\ UNCHANGED <<myClients, made, errors, standing, sentOut>>

(* A Setup request: HandShake on a connection that is not valid, else nothing. *)
ReceiveSetup(p) ==
  /\ Receiving /\ HasCallback(p)
  /\ CountMade(p)
  /\ \E table \in WithEntry(p) :
       \/ /\ table[p].myIsValid
          /\ UNCHANGED <<myClients, told, assigned, left>>
       \/ /\ ~table[p].myIsValid
          /\ myClients' = [table EXCEPT ![p].myIsValid = TRUE]
          /\ told' = AnnounceConnected(table, p, told)
          /\ assigned' = [assigned EXCEPT ![p] = @ \union {table[p].myID}]
          /\ left' = left \ {table[p].myID}
  /\ UNCHANGED <<errors, running, standing, offered, target>>

(***************************************************************************)
(* Anything but a Setup request on a connection that is not valid: the     *)
(* handshake is refused, and a new entry stays in the table, invalid.      *)
(***************************************************************************)
RefuseHandShake(p) ==
  /\ Receiving /\ HasCallback(p)
  /\ CountMade(p)
  /\ \E table \in WithEntry(p) :
       /\ ~table[p].myIsValid
       /\ myClients' = table
  /\ UNCHANGED <<errors, running, standing, sentOut>>

IsValid(p) == myClients[p] # None /\ myClients[p].myIsValid

IdentifyServer(p) ==
  /\ Receiving
  /\ p \in Servers /\ IsValid(p)
  /\ myClients' = [myClients EXCEPT ![p].myIsServer = TRUE, ![p].myServerAddress = p]
  /\ standing' = [standing EXCEPT ![myClients[p].object] = IF @ = "new" THEN "server" ELSE @]
  /\ UNCHANGED <<made, errors, running, sentOut>>

(* The answer to a client carries the hook that begins the redirect. *)
IdentifyClient(p) ==
  /\ Receiving
  /\ p \in Clients /\ IsValid(p)
  /\ myClients[p].identified < IdentifyCap
  /\ myClients' = [myClients EXCEPT ![p].myIsServer = FALSE,
                                    ![p].identified = @ + 1,
                                    ![p].hooks = @ + 1]
  /\ UNCHANGED <<made, errors, running, standing, sentOut>>

(* The acknowledgement of that answer runs BeginRedirect, valid or not. *)
AckIdentify(p) ==
  /\ Receiving /\ HasCallback(p)
  /\ myClients[p] # None /\ myClients[p].hooks > 0
  /\ \E claim \in Claims(myClients) :
       myClients' = BeginRedirect([myClients EXCEPT ![p].hooks = @ - 1], p, claim)
  /\ offered' = [offered EXCEPT ![p] = @ \union Offers(myClients)]
  /\ UNCHANGED <<made, errors, running, standing, told, assigned, target, left>>

(* EvaluatedServer for an address the client was offered. *)
EvaluatedServer(p, a, ping) ==
  /\ Receiving
  /\ IsValid(p) /\ a \in offered[p]
  /\ LET known == a \in Noticed(myClients[p])
         table == IF known
                  THEN [myClients EXCEPT ![p].myEvaluations[a].myPing = ping,
                                         ![p].myEvaluations[a].myHasResult = TRUE]
                  ELSE myClients
     IN EvaluateRedirectResult(table, p, FALSE)
  /\ UNCHANGED <<made, errors, running, standing, told, assigned, left>>

(* A peer says goodbye with an id it was given; the connection stays valid. *)
UserDisconnected(p, id) ==
  /\ Receiving
  /\ p \in MayLeave /\ IsValid(p) /\ id \in assigned[p]
  /\ told' = AnnounceDisconnected(myClients, id, told)
  /\ left' = left \union {id}
  /\ UNCHANGED <<myClients, made, errors, running, standing, assigned, offered, target>>

(* A status or a type that Parse does not know: the sender is kicked. *)
Kick(p) ==
  /\ Receiving
  /\ p \in MayTimeOut /\ IsValid(p)
  /\ myClients' = [myClients EXCEPT ![p].myIsValid = FALSE]
  /\ Lapses(p, FALSE)
  /\ UNCHANGED <<made, errors, running, sentOut>>

-----------------------------------------------------------------------------
Tick ==
  /\ running
  /\ \E p \in Present(myClients) : myClients[p].myIsRedirecting
  /\ myClients' =
       [p \in Peers |->
          IF myClients[p] # None /\ myClients[p].myIsRedirecting
               /\ myClients[p].sinceRedirect <= RedirectTimeout
          THEN [myClients[p] EXCEPT !.sinceRedirect = @ + 1]
          ELSE myClients[p]]
  /\ UNCHANGED <<made, errors, visiting, visited, running, standing, sentOut>>

Visit == VisitEnds \/ \E p \in Peers : Reap(p) \/ Flush(p)

Receive ==
  \/ WouldBlock
  \/ \E p \in Peers :
       \/ ReceiveError(p) \/ ReceiveAtDefaultEntry(p)
       \/ ReceiveSetup(p) \/ RefuseHandShake(p)
       \/ IdentifyServer(p) \/ IdentifyClient(p) \/ AckIdentify(p) \/ Kick(p)
       \/ \E a \in Addresses, ping \in Pings : EvaluatedServer(p, a, ping)
       \/ \E id \in Ids : UserDisconnected(p, id)

Next == Visit \/ Receive \/ Tick

Spec == Init /\ [][Next]_vars

(* Listen loops for ever, and time passes. *)
Fairness == WF_vars(Visit) /\ WF_vars(Receive) /\ WF_vars(Tick)
LiveSpec == Spec /\ Fairness

-----------------------------------------------------------------------------
(* Properties.                                                             *)

(***************************************************************************)
(* No ghosts: whatever a connection has been told of and not told to       *)
(* forget is still in the table, so the erasure that is still to come will *)
(* be announced to it.                                                     *)
(***************************************************************************)
RosterHasNoGhosts ==
  \A p \in Present(myClients) : told[p] \subseteq {myClients[q].myID : q \in Present(myClients)}

(***************************************************************************)
(* Two valid connections know of each other, unless one said goodbye or an *)
(* entry of a failed recvfrom left the table under an id it never had.     *)
(***************************************************************************)
RosterIsComplete ==
  errors = 0 => \A p, q \in Present(myClients) :
    /\ p # q /\ myClients[p].myIsValid /\ myClients[q].myIsValid
    /\ myClients[q].myID \notin left
    => myClients[q].myID \in told[p]

(* A ConnectToServer is sent to p in this step. *)
IsRedirecting(p) == myClients[p] # None /\ myClients[p].myIsRedirecting
IsRedirected(p) ==
  \/ target'[p] # target[p]
  \/ IsRedirecting(p) /\ myClients'[p] # None /\ ~IsRedirecting(p)'

IsConnectedServer(a) ==
  a \in Peers /\ myClients[a] # None /\ myClients[a].myIsValid /\ myClients[a].myIsServer

Chosen(c) == c.myEvaluations[Best(c)].myConnection

(***************************************************************************)
(* A client is redirected to a game server that is connected, unless the   *)
(* Connection that is chosen has been given up since it was noted, or was  *)
(* noted for a flag that nobody had set: myEvaluations points to           *)
(* Connections, which come, go and move only in myClients.                 *)
(***************************************************************************)
RedirectsToConnected ==
  \A p \in Peers :
    IsRedirected(p) /\ standing[Chosen(myClients'[p])] = "server"
      => IsConnectedServer(target'[p])

RedirectTargetConnected == [][RedirectsToConnected]_vars

IsLate(p) == myClients[p].myIsRedirecting /\ myClients[p].sinceRedirect > RedirectTimeout

(* The note at a is of the Connection that has this address, a server's. *)
IsSound(c, a) ==
  /\ a \in Servers /\ myClients[a] # None
  /\ c.myEvaluations[a].myConnection = myClients[a].object
  /\ standing[myClients[a].object] = "server"

GoesToBest(p, c) ==
  /\ target'[p] \in Noticed(c) \intersect offered[p]
  /\ \A b \in Noticed(c) : c.myEvaluations[target'[p]].myPing <= c.myEvaluations[b].myPing
  /\ Answered(c) = Noticed(c) \/ IsLate(p)

(***************************************************************************)
(* A client whose notes are of game servers that have identified           *)
(* themselves and stayed is redirected to one it was offered, with the     *)
(* smallest myPing, and each of them was measured, unless the redirect is  *)
(* late: so many answers are waited for as servers were connected at the   *)
(* last BeginRedirect, while the map keeps the notes of earlier ones.      *)
(***************************************************************************)
RedirectsToNearest ==
  \A p \in Peers :
    IsRedirected(p) /\ (\A a \in Noticed(myClients'[p]) : IsSound(myClients'[p], a))
      => GoesToBest(p, myClients'[p])

RedirectIsToNearest == [][RedirectsToNearest]_vars

(***************************************************************************)
(* When some server has answered, the client goes to one that has: the     *)
(* choice is made by measured round trip.                                  *)
(***************************************************************************)
RedirectsToMeasured ==
  \A p \in Peers :
    target'[p] # target[p] /\ Answered(myClients[p]) # {}
      => target'[p] \in Answered(myClients'[p])

RedirectIsMeasured == [][RedirectsToMeasured]_vars

(***************************************************************************)
(* A redirect that has begun is decided once game servers stay connected,  *)
(* even when the client never evaluates any of them.                       *)
(***************************************************************************)
RedirectConcludes ==
  <>[](Candidates(myClients) # {}) =>
    \A p \in Clients : IsRedirecting(p) ~> ~IsRedirecting(p) \/ ~running

(***************************************************************************)
(* A connection that is no longer valid leaves the table or a handshake    *)
(* revives it, although each pass of Listen removes at most one: provided  *)
(* only finitely many connections are made (MaxConnections).  A dead entry *)
(* that returns before every pass keeps those behind it waiting.           *)
(***************************************************************************)
IsDead(p) == myClients[p] # None /\ ~myClients[p].myIsValid

DeadAreReaped == \A p \in Peers : IsDead(p) ~> ~IsDead(p) \/ ~running
=============================================================================
