----------------------------- MODULE GameServer -----------------------------
(***************************************************************************)
(* The game server: TGameServer/ServerMain.cpp and TGameServer/            *)
(* Connection.cpp.  It is one thread and two sockets.  Upstream it is a    *)
(* client of the router: Connect, HandShake, Flush, TimedOut.  Downstream  *)
(* it serves the connections of its clients, in Listen.  HandShake loops   *)
(* until the router has accepted, and nothing is served downstream in the  *)
(* meantime.                                                               *)
(*                                                                         *)
(* Each Connect opens a new upstream socket, numbered here in order.  The  *)
(* router's side is the Connection it keeps for that socket, may give up,  *)
(* erases then, and makes anew for the next message; what it still does    *)
(* for an older socket reaches nobody.  Clients that                       *)
(* the router redirects are sent to the upstream socket, for that is the   *)
(* address the router saw; Clients, below, are peers that have the address *)
(* of the listening socket from elsewhere.                                 *)
(*                                                                         *)
(* A datagram is late rather than lost, for what is lost is sent again, by *)
(* a Connection until it is erased.                                        *)
(***************************************************************************)
EXTENDS Integers, Sequences, FiniteSets, Roster

CONSTANTS
  Clients,         \* peers of the listening socket
  MaxSockets,      \* bound on upstream sockets, and so on upstream timeouts
  GiveUpSockets,   \* sockets whose valid Connection the router may give up
  ReapCap,         \* bound on the Connections of one socket the router erases
  IdModulus,       \* IDCOUNTER is an unsigned short: 2^16
  SendCap,         \* bound on the datagrams of the clients
  ErrorBound,      \* bound on failing recvfrom calls
  MayTimeOut       \* clients that may stop acknowledging

ASSUME GameServerAssumption ==
  /\ IsFiniteSet(Clients) /\ MayTimeOut \subseteq Clients
  /\ MaxSockets \in Nat \ {0} /\ GiveUpSockets \subseteq Nat /\ ReapCap \in Nat
  /\ IdModulus \in Nat \ {0}
  /\ SendCap \in Nat /\ ErrorBound \in Nat

(* Upstream. *)
VARIABLES
  socket,           \* the current upstream socket
  at,               \* where the thread is, see Places
  frames,           \* invocations of HandShake that have not returned
  myIsConnected, myIsHandshaking,
  pending,          \* myPendingAccepts: how many trackers each message has
  toRouter,         \* messages on their way from the current socket
  fromRouter,       \* what is on its way to it
  router,           \* the router's Connection for it
  history           \* what has happened to it, for the properties only

(* Downstream. *)
VARIABLES
  myClients,        \* [Clients -> Connection or None]
  made,             \* number of Connection objects made, which IDCOUNTER follows
  inbox,            \* the datagrams the listening socket holds, in order
  sent, errors,     \* counted against SendCap and ErrorBound
  running,          \* FALSE once an uncaught exception has ended the process
  told, assigned, left  \* as in RedirectServer: what the clients were sent

upstream == <<socket, at, frames, myIsConnected, myIsHandshaking, pending,
              toRouter, fromRouter, router, history>>
downstream == <<myClients, made, inbox, sent, errors, running, told, assigned, left>>
vars == <<upstream, downstream>>

Sockets == 1 .. MaxSockets

(***************************************************************************)
(* request: at the head of HandShake's loop; waiting: in its inner loop,   *)
(* between two calls of Flush; receiving: in that Flush, its resending     *)
(* done; listen: in Listen.                                                *)
(***************************************************************************)
Places == {"request", "waiting", "receiving", "listen"}

(* The SetupMessage and the NetIdentify of the handshake on each socket. *)
Message == {"Setup", "Identify"} \X Sockets
Answer == {"Accept", "Refuse", "Acknowledge"} \X Message
(* The Setup request of a redirected client, from its Flush to this socket. *)
Redirected == <<"Redirected", <<"Setup", 0>> >>

(* myIsServer is TRUE when a NetIdentify has made it so. *)
RouterConnection ==
  [myIsValid : BOOLEAN, myIsServer : BOOLEAN, recent : SUBSET Message, redirects : BOOLEAN]

(* The state of a Connection that is new, and of one that is not there. *)
Unknown == [myIsValid |-> FALSE, myIsServer |-> FALSE, recent |-> {}, redirects |-> FALSE]

(***************************************************************************)
(* The router has accepted the present socket; it has given a Connection   *)
(* of it up that was valid; HandShake has read an acceptance of it in a    *)
(* Flush that had an answer already, and has not heeded it; so many of its *)
(* Connections have been erased.                                           *)
(***************************************************************************)
History ==
  [accepted : BOOLEAN, givenUp : BOOLEAN, unheeded : BOOLEAN, erased : 0 .. ReapCap]
NewSocket == [accepted |-> FALSE, givenUp |-> FALSE, unheeded |-> FALSE, erased |-> 0]

Ids == 0 .. IdModulus - 1

(* Mutant of IdOf: an id wider than the message field. *)
IdOfWide(n) == 3 + n

IdOf(n) == (3 + n) % IdModulus

Connection == [myID : Ids, myIsValid : BOOLEAN, hasCallback : BOOLEAN]
ASSUME NoneAssumption == None \notin Connection

Datagram == Clients \X {"Setup", "Identify", "UserDisconnected"} \X Ids

TypeOK ==
  /\ socket \in Sockets
  /\ at \in Places
  /\ frames \in Nat
  /\ myIsConnected \in BOOLEAN /\ myIsHandshaking \in BOOLEAN
  /\ pending \in [Message -> Nat]
  /\ toRouter \subseteq Message
  /\ fromRouter \subseteq Answer \union {Redirected}
  /\ router \in RouterConnection /\ history \in History
  /\ myClients \in [Clients -> Connection \union {None}]
  /\ made \in 0 .. Cardinality(Clients)
  /\ inbox \in Seq(Datagram)
  /\ sent \in 0 .. SendCap
  /\ errors \in 0 .. ErrorBound
  /\ running \in BOOLEAN
  /\ told \in [Clients -> SUBSET Ids] /\ assigned \in [Clients -> SUBSET Ids]
  /\ left \subseteq Ids

(* StartServer has bound the listening socket and called Connect. *)
Init ==
  /\ socket = 1
  /\ at = "request"
  /\ frames = 1
  /\ myIsConnected = FALSE /\ myIsHandshaking = FALSE
  /\ pending = [m \in Message |-> 0]
  /\ toRouter = {}
  /\ fromRouter = {}
  /\ router = Unknown /\ history = NewSocket
  /\ myClients = [p \in Clients |-> None]
  /\ made = 0
  /\ inbox = <<>>
  /\ sent = 0 /\ errors = 0
  /\ running = TRUE
  /\ told = [p \in Clients |-> {}] /\ assigned = [p \in Clients |-> {}]
  /\ left = {}

-----------------------------------------------------------------------------
(* The router's Connection for an upstream socket.                         *)

(***************************************************************************)
(* What the router does with a message: acknowledge it and, the first      *)
(* time, handle it.  On a connection that is not valid a Setup request is  *)
(* accepted and a NetIdentify refused; on a valid one the request changes  *)
(* nothing and the NetIdentify makes it a server's.                        *)
(***************************************************************************)
RouterReceives(m) ==
  LET isNew == m \notin router.recent
      answers == {<<"Acknowledge", m>>} \union
        (IF ~isNew \/ router.myIsValid THEN {}
         ELSE IF m[1] = "Setup" THEN {<<"Accept", m>>} ELSE {<<"Refuse", m>>}) IN
  /\ running
  /\ m \in toRouter
  /\ toRouter' = toRouter \ {m}
  /\ router' = [router EXCEPT
       !.recent = @ \union {m},
       !.myIsValid = @ \/ (isNew /\ m[1] = "Setup"),
       !.myIsServer = @ \/ (isNew /\ router.myIsValid /\ m[1] = "Identify")]
  /\ fromRouter' = fromRouter \union answers
  /\ history' = [history EXCEPT !.accepted = @ \/ <<"Accept", m>> \in answers]
  /\ UNCHANGED <<socket, at, frames, myIsConnected, myIsHandshaking, pending, downstream>>

(***************************************************************************)
(* The router gives a valid Connection up: it times out, or recvfrom fails *)
(* for it, when the duplicate filter is cleared too.                       *)
(***************************************************************************)
RouterGivesUp ==
  /\ running /\ router.myIsValid /\ socket \in GiveUpSockets
  /\ \E remembered \in {router.recent, {}} :
       router' = [router EXCEPT !.myIsValid = FALSE, !.recent = remembered]
  /\ history' = [history EXCEPT !.givenUp = TRUE]
  /\ UNCHANGED <<socket, at, frames, myIsConnected, myIsHandshaking, pending,
                 toRouter, fromRouter, downstream>>

(***************************************************************************)
(* A Connection that is not valid is erased, a refused one included; what  *)
(* it sent and the network lost is not sent again.                         *)
(***************************************************************************)
RouterReaps ==
  /\ running /\ ~router.myIsValid /\ router # Unknown
  /\ history.erased < ReapCap
  /\ history' = [history EXCEPT !.erased = @ + 1]
  /\ router' = Unknown
  /\ \E lost \in SUBSET {d \in fromRouter : d[1] \in {"Accept", "Refuse"}} :
       fromRouter' = fromRouter \ lost
  /\ UNCHANGED <<socket, at, frames, myIsConnected, myIsHandshaking, pending,
                 toRouter, downstream>>

(* A client is redirected to the socket the router knows a server by. *)
ClientRedirected ==
  /\ running
  /\ router.myIsServer /\ ~router.redirects
  /\ router' = [router EXCEPT !.redirects = TRUE]
  /\ fromRouter' = fromRouter \union {Redirected}
  /\ UNCHANGED <<socket, at, frames, myIsConnected, myIsHandshaking, pending,
                 toRouter, history, downstream>>

-----------------------------------------------------------------------------
(* Upstream.                                                               *)

(* SendUpstream: a tracker, and the datagram. *)
SendUpstream(m) ==
  /\ pending' = [pending EXCEPT ![m] = @ + 1]
  /\ toRouter' = toRouter \union {m}

(* Connect opens a socket and calls HandShake, which begins disconnected. *)
Connect ==
  /\ socket' = socket + 1
  /\ toRouter' = {} /\ fromRouter' = {}
  /\ router' = Unknown /\ history' = NewSocket
  /\ myIsConnected' = FALSE
  /\ at' = "request"
  /\ frames' = frames + 1

(* The head of HandShake's loop: the same message each time round. *)
SendRequest ==
  /\ running /\ at = "request"
  /\ SendUpstream(<<"Setup", socket>>)
  /\ at' = "waiting"
  /\ UNCHANGED <<socket, frames, myIsConnected, myIsHandshaking, fromRouter, router, history,
                 downstream>>

Waiting == {m \in Message : pending[m] > 0}

(* NetworkInterface::Flush sends again what is due, by the current socket. *)
Resend == \E due \in SUBSET Waiting : toRouter' = toRouter \union due

(* The first half of a Flush in HandShake. *)
FlushInHandShake ==
  /\ running /\ at = "waiting"
  /\ Resend
  /\ myIsHandshaking' = TRUE
  /\ at' = "receiving"
  /\ UNCHANGED <<socket, frames, myIsConnected, pending, fromRouter, router, history, downstream>>

FlushInListen ==
  /\ running /\ at = "listen"
  /\ Resend
  /\ UNCHANGED <<socket, at, frames, myIsConnected, myIsHandshaking, pending,
                 fromRouter, router, history, downstream>>

(* Mutant of TimedOut: myIsConnected is not looked at. *)
TimedOutWhenever ==
  /\ running /\ at \in {"listen", "waiting"}
  /\ Waiting # {} /\ socket < MaxSockets
  /\ Connect
  /\ UNCHANGED <<myIsHandshaking, pending, downstream>>

(***************************************************************************)
(* A tracker is over RESENDCAP in NetworkInterface::Flush.  In HandShake   *)
(* myIsConnected is FALSE and nothing happens.  The trackers stay.         *)
(***************************************************************************)
TimedOut ==
  /\ running /\ at \in {"listen", "waiting"}
  /\ Waiting # {} /\ socket < MaxSockets
  /\ myIsConnected
  /\ Connect
  /\ UNCHANGED <<myIsHandshaking, pending, downstream>>

(* PreProcessReceive of an acknowledgement: one of the trackers goes. *)
ReceiveAcknowledge(m) ==
  /\ running /\ at \in {"receiving", "listen"}
  /\ <<"Acknowledge", m>> \in fromRouter
  /\ fromRouter' = fromRouter \ {<<"Acknowledge", m>>}
  /\ pending' = [pending EXCEPT ![m] = IF @ > 0 THEN @ - 1 ELSE 0]
  /\ UNCHANGED <<socket, at, frames, myIsConnected, myIsHandshaking, toRouter, router, history,
                 downstream>>

(* Mutants of HandShakeAttempt: an acceptance does not end the wait; the   *)
(* result is not looked at.                                                *)
HandShakeAttemptWaitsOn(d) ==
  /\ myIsHandshaking
  /\ myIsHandshaking' = (d[1] # "Refuse")
  /\ myIsConnected' = (myIsConnected \/ d[1] # "Refuse")

HandShakeAttemptAny(d) ==
  /\ myIsHandshaking
  /\ myIsHandshaking' = FALSE
  /\ myIsConnected' = TRUE

(***************************************************************************)
(* HandShakeAttempt reads any SetupMessage as the answer.  In a client's   *)
(* request the first letter of a name stands where myResult is read.       *)
(***************************************************************************)
HandShakeAttempt(d) ==
  /\ myIsHandshaking
  /\ myIsHandshaking' = FALSE
  /\ myIsConnected' = (myIsConnected \/ d[1] # "Refuse")

(***************************************************************************)
(* Receive of a SetupMessage.  A Flush reads all there is: the first one   *)
(* is the answer HandShake waits for, those after it, and all outside a    *)
(* handshake, are ignored.                                                 *)
(***************************************************************************)
ReceiveSetup(d) ==
  /\ running /\ at \in {"receiving", "listen"}
  /\ d \in fromRouter /\ d[1] # "Acknowledge"
  /\ fromRouter' = fromRouter \ {d}
  /\ \/ /\ HandShakeAttempt(d)
        /\ UNCHANGED history
     \/ /\ ~myIsHandshaking
        /\ history' = [history EXCEPT !.unheeded = @ \/ (~myIsConnected /\ d[1] = "Accept")]
        /\ UNCHANGED <<myIsHandshaking, myIsConnected>>
  /\ UNCHANGED <<socket, at, frames, pending, toRouter, router, downstream>>

(* Mutant of FlushEnds: the game server does not identify itself. *)
FlushEndsUnidentified ==
  /\ running /\ at = "receiving"
  /\ myIsHandshaking' = FALSE
  /\ IF myIsConnected
     THEN at' = "listen" /\ frames' = frames - 1
     ELSE at' = (IF myIsHandshaking THEN "waiting" ELSE "request") /\ UNCHANGED frames
  /\ UNCHANGED <<socket, myIsConnected, pending, toRouter, fromRouter,
                 router, history, downstream>>

(***************************************************************************)
(* The Flush of HandShake returns: wait on, ask again when the answer was  *)
(* no, or identify and return when it was yes.                             *)
(***************************************************************************)
FlushEnds ==
  /\ running /\ at = "receiving"
  /\ myIsHandshaking' = FALSE
  /\ \/ /\ myIsHandshaking
        /\ at' = "waiting"
        /\ UNCHANGED <<frames, pending, toRouter>>
     \/ /\ ~myIsHandshaking /\ ~myIsConnected
        /\ at' = "request"
        /\ UNCHANGED <<frames, pending, toRouter>>
     \/ /\ ~myIsHandshaking /\ myIsConnected
        /\ SendUpstream(<<"Identify", socket>>)
        /\ at' = "listen"
        /\ frames' = frames - 1
  /\ UNCHANGED <<socket, myIsConnected, fromRouter, router, history, downstream>>

-----------------------------------------------------------------------------
(* Downstream: one datagram in each pass of Listen.                        *)

(***************************************************************************)
(* A client sends a request, a goodbye, or anything else, for which its    *)
(* identity stands: pings, types that Parse does not know and datagrams    *)
(* without content are dealt with in the same way.                         *)
(***************************************************************************)
ClientSends(p, kind) ==
  /\ running
  /\ sent < SendCap
  /\ sent' = sent + 1
  /\ \E id \in (IF kind = "UserDisconnected" THEN assigned[p] ELSE {0}) :
       inbox' = Append(inbox, <<p, kind, id>>)
  /\ UNCHANGED <<upstream, myClients, made, errors, running, told, assigned, left>>

(* The head of the inbox is from p, whose entry is made if it has none. *)
Reads(p) ==
  /\ running /\ at = "listen"
  /\ inbox # <<>> /\ Head(inbox)[1] = p
  /\ myClients[p] # None => myClients[p].hasCallback
  /\ inbox' = Tail(inbox)
  /\ made' = IF myClients[p] = None THEN made + 1 ELSE made

Entry(p) ==
  IF myClients[p] # None THEN myClients[p]
  ELSE [myID |-> IdOf(made + 1), myIsValid |-> FALSE, hasCallback |-> TRUE]

Kind == Head(inbox)[2]

(* HandShake of a request. *)
Accept(p) ==
  LET table == [myClients EXCEPT ![p] = [Entry(p) EXCEPT !.myIsValid = TRUE]] IN
  /\ Reads(p)
  /\ ~Entry(p).myIsValid /\ Kind = "Setup"
  /\ myClients' = table
  /\ told' = AnnounceConnected(table, p, told)
  /\ assigned' = [assigned EXCEPT ![p] = @ \union {table[p].myID}]
  /\ left' = left \ {table[p].myID}
  /\ UNCHANGED <<upstream, sent, errors, running>>

(* HandShake of anything else: the entry stays, not valid. *)
Refuse(p) ==
  /\ Reads(p)
  /\ ~Entry(p).myIsValid /\ Kind # "Setup"
  /\ myClients' = [myClients EXCEPT ![p] = Entry(p)]
  /\ UNCHANGED <<upstream, sent, errors, running, told, assigned, left>>

(* Parse kicks the sender of anything but a UserDisconnected. *)
Kick(p) ==
  /\ Reads(p)
  /\ Entry(p).myIsValid /\ Kind # "UserDisconnected"
  /\ myClients' = [myClients EXCEPT ![p].myIsValid = FALSE]
  /\ UNCHANGED <<upstream, sent, errors, running, told, assigned, left>>

ForwardGoodbye(p) ==
  /\ Reads(p)
  /\ Entry(p).myIsValid /\ Kind = "UserDisconnected"
  /\ told' = AnnounceDisconnected(myClients, Head(inbox)[3], told)
  /\ left' = left \union {Head(inbox)[3]}
  /\ UNCHANGED <<upstream, myClients, sent, errors, running, assigned>>

(* std::bad_function_call on an entry that operator[] made. *)
Crash(p) ==
  /\ running /\ at = "listen"
  /\ inbox # <<>> /\ Head(inbox)[1] = p
  /\ myClients[p] # None /\ ~myClients[p].hasCallback
  /\ running' = FALSE
  /\ UNCHANGED <<upstream, myClients, made, inbox, sent, errors, told, assigned, left>>

(* recvfrom fails for p: Invalidate, on an entry operator[] makes if need be. *)
ReceiveError(p) ==
  /\ running /\ at = "listen"
  /\ errors < ErrorBound
  /\ errors' = errors + 1
  /\ \/ /\ myClients[p] # None
        /\ myClients' = [myClients EXCEPT ![p].myIsValid = FALSE]
     \/ /\ myClients[p] = None
        /\ \E id \in Ids : myClients' =
             [myClients EXCEPT ![p] = [myID |-> id, myIsValid |-> FALSE, hasCallback |-> FALSE]]
  /\ UNCHANGED <<upstream, made, inbox, sent, running, told, assigned, left>>

(* Connection::TimedOut; IsAlive stays true, and the entry in the table. *)
ConnectionTimedOut(p) ==
  /\ running /\ at = "listen"
  /\ p \in MayTimeOut
  /\ myClients[p] # None /\ myClients[p].myIsValid
  /\ myClients' = [myClients EXCEPT ![p].myIsValid = FALSE]
  /\ UNCHANGED <<upstream, made, inbox, sent, errors, running, told, assigned, left>>

-----------------------------------------------------------------------------
Upstream ==
  \/ SendRequest \/ FlushInHandShake \/ FlushInListen \/ TimedOut \/ FlushEnds
  \/ \E m \in Message : ReceiveAcknowledge(m)
  \/ \E d \in fromRouter : ReceiveSetup(d)

Serve(p) == Accept(p) \/ Refuse(p) \/ Kick(p) \/ ForwardGoodbye(p) \/ Crash(p)

Environment ==
  \/ ClientRedirected \/ \E m \in Message : RouterReceives(m)
  \/ RouterGivesUp \/ RouterReaps
  \/ \E p \in Clients :
       \/ \E kind \in {"Setup", "Identify", "UserDisconnected"} : ClientSends(p, kind)
       \/ ReceiveError(p) \/ ConnectionTimedOut(p)

Next == Upstream \/ Environment \/ \E p \in Clients : Serve(p)

Spec == Init /\ [][Next]_vars

(***************************************************************************)
(* The thread never stops, and no Flush is always over before an answer    *)
(* that keeps being on its way; the router handles what reaches it.        *)
(***************************************************************************)
Fairness ==
  /\ WF_vars(SendRequest) /\ WF_vars(FlushInHandShake) /\ WF_vars(FlushEnds)
  /\ \A s \in Sockets :
       /\ SF_vars(ReceiveSetup(<<"Accept", <<"Setup", s>> >>))
       /\ SF_vars(ReceiveSetup(<<"Refuse", <<"Identify", s>> >>))
  /\ \A m \in Message : WF_vars(RouterReceives(m))
  /\ WF_vars(\E p \in Clients : Serve(p))

LiveSpec == Spec /\ Fairness

-----------------------------------------------------------------------------
(* Properties.                                                             *)

(***************************************************************************)
(* The game server takes itself for connected only when the router has     *)
(* accepted its socket: no late refusal, message of an older handshake or  *)
(* request of a redirected client, which reads as an acceptance, makes it  *)
(* so before.                                                              *)
(***************************************************************************)
ConnectedWasAccepted == myIsConnected => history.accepted

(***************************************************************************)
(* TimedOut calls Connect from inside Flush, and HandShake calls Flush: it *)
(* never nests, and Listen is never left with a handshake under way.       *)
(***************************************************************************)
HandShakeDoesNotNest == frames <= 1 /\ (at = "listen" <=> frames = 0)

(***************************************************************************)
(* A game server joins the router: once the last timeout is over the       *)
(* router knows its current socket as that of a valid server, unless it    *)
(* has given the socket up, which the server does not notice, or HandShake *)
(* did not heed the acceptance, or the process has ended.                  *)
(***************************************************************************)
JoinsRouter ==
  <>[](\/ router.myIsValid /\ router.myIsServer
      \/ history.givenUp \/ history.unheeded \/ ~running)

(***************************************************************************)
(* Reconnecting upstream delays the clients and does not forget them: what *)
(* the listening socket holds is read in the end, unless the process ends  *)
(* or the answer HandShake waits for has been given and not heeded, or     *)
(* forgotten.                                                              *)
(***************************************************************************)
MayWaitForEver == at # "listen" /\ (history.givenUp \/ history.unheeded)

ClientsAreServed == inbox # <<>> ~> inbox = <<>> \/ MayWaitForEver \/ ~running

(***************************************************************************)
(* Two valid connections know of each other, unless one said goodbye or    *)
(* an entry of a failed recvfrom has an id nobody gave it.                 *)
(***************************************************************************)
RosterIsComplete ==
  errors = 0 => \A p, q \in Present(myClients) :
    /\ p # q /\ myClients[p].myIsValid /\ myClients[q].myIsValid
    /\ myClients[q].myID \notin left
    => myClients[q].myID \in told[p]
=============================================================================
