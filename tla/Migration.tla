----------------------------- MODULE Migration -----------------------------
(***************************************************************************)
(* A client on its way: Client composed with the Connection the router has *)
(* for it (TRedirectServer/Connection.cpp) and one game server that is     *)
(* connected to the router throughout.                                     *)
(*                                                                         *)
(* A server is known by the address of its upstream socket.  What a client *)
(* sends there is read by the game server's Flush, which acknowledges it   *)
(* to the router whoever the sender is and answers nothing.  No ping is    *)
(* ever acknowledged to the client therefore, no server evaluated, and a   *)
(* redirect is decided by REDIRECTTIMEOUT.                                 *)
(*                                                                         *)
(* A message of the router is on its way for as long as it is tracked, for *)
(* it is sent again and again.  Nobody hears a message again after the 2 s *)
(* a duplicate is remembered; NetworkInterface has that.                   *)
(***************************************************************************)
EXTENDS Client

CONSTANTS
  None,         \* no entry in the router's table
  MaxOutages    \* bound on the times the router gives the client up

ASSUME MigrationAssumption == MaxOutages \in Nat

VARIABLES
  entry,       \* the router's Connection for the client, or None
  made,        \* how many it has made for it
  redirects,   \* how many redirects it has begun for it
  outages      \* counted against MaxOutages

router == <<entry, made, redirects, outages>>
vars == <<clientVars, network, router>>

(* recent: the messages its interface has heard; unconfirmed: those it tracks. *)
Connection ==
  [myID : Ids, myIsValid : BOOLEAN, myIsRedirecting : BOOLEAN,
   recent : SUBSET ClientMessage, unconfirmed : SUBSET RouterMessage]

ASSUME NoneAssumption == None \notin Connection

TypeOK ==
  /\ ClientTypeOK
  /\ entry \in Connection \union {None}
  /\ made \in 0 .. MaxConnections
  /\ redirects \in 0 .. MaxRedirects /\ outages \in 0 .. MaxOutages

Init == ClientInit /\ entry = None /\ made = 0 /\ redirects = 0 /\ outages = 0

-----------------------------------------------------------------------------
(* The router reads a datagram of the client.                              *)

NewConnection ==
  [myID |-> made + 1, myIsValid |-> FALSE, myIsRedirecting |-> FALSE,
   recent |-> {}, unconfirmed |-> {}]

(* Mutant of Found: the address never matches, the entry is made anew. *)
FoundAnew == NewConnection

(* Listen finds the entry, or makes one. *)
Found == IF entry = None THEN NewConnection ELSE entry

RouterTakes(d) ==
  /\ d \in toRouter
  /\ toRouter' = toRouter \ {d}
  /\ entry = None => made < MaxConnections
  /\ made' = IF entry = None THEN made + 1 ELSE made
  /\ UNCHANGED <<clientVars, repeats, outages>>

(***************************************************************************)
(* PreProcessReceive acknowledges m.  When m is new HandShake or Parse     *)
(* handles it: the Connection becomes c, and sends answers.                *)
(***************************************************************************)
Handles(m, c, answers) ==
  /\ RouterTakes(m)
  /\ m \notin Found.recent
  /\ entry' = [c EXCEPT !.recent = @ \union {m}, !.unconfirmed = @ \union answers]
  /\ toClient' = toClient \union {m}
  /\ UNCHANGED redirects

RouterReadsDuplicate(m) ==
  /\ RouterTakes(m)
  /\ entry # None /\ m \in entry.recent
  /\ toClient' = toClient \union {m}
  /\ UNCHANGED <<entry, redirects>>

(* A request is accepted, or ignored by a Connection that is valid. *)
RouterReadsSetup(i) ==
  Handles(<<"Setup", i>>, [Found EXCEPT !.myIsValid = TRUE],
    IF Found.myIsValid THEN {} ELSE {<<"Accept", i, Found.myID>>})

(* HandShake refuses what has the size of a SetupMessage. *)
RouterRefuses(m) ==
  /\ ~Found.myIsValid /\ m[1] # "Setup"
  /\ Handles(m, Found, IF m[1] = "Identify" THEN {<<"Refuse", m[2], Found.myID>>} ELSE {})

RouterReadsIdentify(i) ==
  /\ Found.myIsValid
  /\ Handles(<<"Identify", i>>, Found, {<<"Identify", i, Found.myID>>})

(* The others are told; see Roster.  The Connection stays as it is. *)
RouterReadsGoodbye(m) ==
  /\ Found.myIsValid /\ m[1] = "UserDisconnected"
  /\ Handles(m, Found, {})

RouterReadsAcknowledge(m) ==
  /\ RouterTakes(Acknowledge(m))
  /\ m[1] = "Identify" => m \notin Found.unconfirmed
  /\ entry' = [Found EXCEPT !.unconfirmed = @ \ {m}]
  /\ UNCHANGED <<toClient, redirects>>

(* Mutant of BeginRedirect: whatever is acknowledged begins it. *)
BeginRedirectAlways(m) ==
  /\ RouterTakes(Acknowledge(m))
  /\ m \in Found.unconfirmed
  /\ redirects < MaxRedirects
  /\ redirects' = redirects + 1
  /\ entry' = [entry EXCEPT !.myIsRedirecting = TRUE,
                            !.unconfirmed = (@ \ {m}) \union {<<"PotentialServer", redirects', 0>>}]
  /\ UNCHANGED toClient

(* The acknowledgement of its NetIdentify runs BeginRedirect, valid or not. *)
BeginRedirect(m) ==
  /\ RouterTakes(Acknowledge(m))
  /\ m[1] = "Identify" /\ m \in Found.unconfirmed
  /\ redirects < MaxRedirects
  /\ redirects' = redirects + 1
  /\ entry' = [entry EXCEPT !.myIsRedirecting = TRUE,
                            !.unconfirmed = (@ \ {m}) \union {<<"PotentialServer", redirects', 0>>}]
  /\ UNCHANGED toClient

-----------------------------------------------------------------------------
(* Connection::Flush, and the end of a Connection.                         *)

RouterFlushes == entry # None /\ entry.myIsValid
               /\ UNCHANGED <<clientVars, network, made, redirects>>

(* Mutant of Decided: only measurements decide. *)
DecidedIfMeasured == {}

(* REDIRECTTIMEOUT is over: EvaluateRedirectResult. *)
Decided ==
  IF ~entry.myIsRedirecting THEN {}
  ELSE {[entry EXCEPT !.myIsRedirecting = FALSE,
                      !.unconfirmed = @ \union {<<"ConnectToServer", redirects, 0>>}]}

(* TimedOut, while the client does not acknowledge. *)
GivesUp ==
  /\ RouterFlushes
  /\ entry.unconfirmed # {} /\ outages < MaxOutages
  /\ outages' = outages + 1
  /\ \E c \in {entry} \union Decided : entry' = [c EXCEPT !.myIsValid = FALSE]

DecideRedirect ==
  /\ RouterFlushes
  /\ entry' \in Decided
  /\ UNCHANGED outages

Reap ==
  /\ entry # None /\ ~entry.myIsValid
  /\ entry' = None
  /\ UNCHANGED <<clientVars, network, made, redirects, outages>>

RouterReads(m) ==
  \/ RouterReadsDuplicate(m) \/ RouterRefuses(m) \/ RouterReadsGoodbye(m)
  \/ \E i \in HandShakes : m = <<"Setup", i>> /\ RouterReadsSetup(i)
  \/ \E i \in HandShakes : m = <<"Identify", i>> /\ RouterReadsIdentify(i)

RouterNext ==
  \/ \E m \in toRouter \intersect ClientMessage : RouterReads(m)
  \/ \E m \in RouterMessage : RouterReadsAcknowledge(m) \/ BeginRedirect(m)
  \/ GivesUp \/ DecideRedirect \/ Reap

Next ==
  \/ ClientNext /\ UNCHANGED router
  \/ \E m \in (IF entry = None THEN {} ELSE entry.unconfirmed) :
        Receive(m) /\ UNCHANGED router
  \/ RouterNext

Spec == Init /\ [][Next]_vars

-----------------------------------------------------------------------------
(* Safety.                                                                 *)

(* The main loop, which only Connect's HandShake leads to, is never run by *)
(* a client that is not connected or waits for an answer, however deep     *)
(* handshakes nest in Receive and whichever of them the answers end        *)
(* (TClient.cpp:185-200, 414, 422).                                        *)
MainLoopIsConnected == frames = <<>> => myIsConnected /\ ~myIsHandshaking

(* Nobody is sent on who was not accepted and did not hear the router's    *)
(* own NetIdentify, the acknowledgement of which begins a redirect: a      *)
(* chain of four messages and their acknowledgements, through any outage,  *)
(* second Connection and repetition (Connection.cpp:225, 301).             *)
RedirectedWasIdentified ==
  \A m \in myRecentMesseges : m[1] = "ConnectToServer" =>
    \E n, k \in myRecentMesseges : n[1] = "Accept" /\ k[1] = "Identify"

(* As long as the router has not given the client up, the two agree on the *)
(* session: a connected client goes by the id of the Connection that the   *)
(* router finds for it, which is valid, and is refused nothing.  Redirects *)
(* begin any number of handshakes meanwhile, whose requests that           *)
(* Connection does not answer (TClient.cpp:223-231, 414; the router's      *)
(* Connection.cpp:103-141, 232; its ServerMain.cpp:177).                   *)
OneSession ==
  outages = 0 =>
    /\ myIsConnected => entry # None /\ entry.myIsValid /\ entry.myID = myId
    /\ \A m \in myRecentMesseges : m[1] # "Refuse"

-----------------------------------------------------------------------------
(***************************************************************************)
(* Fairness.  The client's loops go round and the router's Listen too.     *)
(* What is tracked is sent again and again, and what is sent again and     *)
(* again arrives: a datagram the other side has not heard yet, or whose    *)
(* acknowledgement did not get through.  Neither program has to give up.   *)
(***************************************************************************)
ReceiveNew ==
  \E m \in (IF entry = None THEN {} ELSE entry.unconfirmed) :
     /\ m \notin myRecentMesseges \/ Acknowledge(m) \notin toRouter \union myBuffer
     /\ Receive(m) /\ UNCHANGED router

LiveSpec ==
  /\ Spec
  /\ WF_vars((SendRequest \/ FlushEnds \/ FlushEndsInHandShake \/ HandShakeReturns)
             /\ UNCHANGED router)
  /\ SF_vars(FlushSends(Tracked \ (Pings \union toClient)) /\ UNCHANGED router)
  /\ SF_vars((\E m \in Tracked : ReceiveAcknowledge(m)) /\ UNCHANGED router)
  /\ SF_vars(ReceiveNew)
  /\ WF_vars(\E m \in ClientMessage : RouterReads(m))
  /\ WF_vars(\E m \in RouterMessage : RouterReadsAcknowledge(m) \/ BeginRedirect(m))
  /\ WF_vars(DecideRedirect) /\ WF_vars(Reap)

Left == at \in {"hung", "gone"}

(* Each message of the client but a ping is acknowledged in the end,       *)
(* though a redirect turns its resends to the game server until the next   *)
(* datagram of the router turns them back (TClient.cpp:312, 325, 413).     *)
ClientIsAnswered ==
  \A m \in ClientMessage \ Pings :
    myPendingAccepts[m] > 0 ~> myPendingAccepts[m] = 0 \/ Left

(* Each message of the router is acknowledged in the end, also the         *)
(* ConnectToServer whose first acknowledgement goes to the game server.    *)
RouterIsAnswered ==
  \A m \in RouterMessage :
    (entry # None /\ m \in entry.unconfirmed)
      ~> (entry # None => m \notin entry.unconfirmed) \/ Left

(* A client that stays is sent on: through handshake, both identifications *)
(* and the callback, and though no server is ever measured.                *)
ClientIsSentOn == <>((\E m \in myRecentMesseges : m[1] = "ConnectToServer") \/ Left)

(* README.md:7 has the router send the client on to a server.  A handshake *)
(* that the client is in comes to an end (violated, see README).           *)
HandShakeEnds == frames # <<>> ~> frames = <<>> \/ Left
=============================================================================
