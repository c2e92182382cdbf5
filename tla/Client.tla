------------------------------- MODULE Client -------------------------------
(***************************************************************************)
(* The client: TClient/TClient.cpp.  One thread, one socket, one           *)
(* NetworkInterface for whatever server it talks to.                       *)
(*                                                                         *)
(* What the client sends goes into a buffer, and the next Flush sends the  *)
(* buffer to what myTargetAddress is by then; recvfrom writes the sender   *)
(* of every datagram over that address.  Receive may call HandShake, which *)
(* calls Flush, which calls Receive: the invocations of HandShake that     *)
(* have not returned are a stack, numbered in the order of their calls.    *)
(* Connect calls the first one, Receive all others, from within a Flush.   *)
(*                                                                         *)
(* Nothing is ever sent to the client but by the router.  The router's     *)
(* side and the specification are in Migration.                            *)
(***************************************************************************)
EXTENDS Integers, Sequences, FiniteSets

CONSTANTS
  MaxHandShakes,   \* bound on the invocations of HandShake
  MaxRedirects,    \* bound on the redirects the router begins for the client
  MaxRepeats,      \* bound on what is sent again while its acknowledgement is on its way
  MaxConnections   \* bound on the Connections the router makes for the client, and so on ids

ASSUME ClientAssumption ==
  MaxHandShakes \in Nat \ {0} /\ MaxRedirects \in Nat /\ MaxConnections \in Nat /\ MaxRepeats \in Nat

VARIABLES
  at,               \* where the thread is, see Places
  frames,           \* the invocations of HandShake under way, innermost first
  begun,            \* how many have begun
  goodbye,          \* "none", "asked" while in Disconnect, "acknowledged"
  myIsConnected, myIsHandshaking, myTargetAddress,
  myId,             \* 0 until one is assigned
  myBuffer,         \* what the next Flush sends
  myPendingAccepts, \* how many trackers each message has
  myRecentMesseges, \* the messages of the router heard
  toRouter,         \* what is on its way from the client to the router
  repeats,          \* counted against MaxRepeats
  toClient          \* the messages whose acknowledgement is on its way back

thread == <<at, frames, begun, goodbye>>
session == <<myIsConnected, myIsHandshaking, myId>>
tracking == <<myPendingAccepts, myRecentMesseges>>
clientVars == <<thread, session, myTargetAddress, myBuffer, tracking>>
network == <<toRouter, toClient, repeats>>

HandShakes == 1 .. MaxHandShakes
Redirects == 1 .. MaxRedirects
Ids == 0 .. MaxConnections

(***************************************************************************)
(* request: at the head of the innermost HandShake's loop; waiting: before *)
(* the next Flush of the innermost HandShake or, with none, of the main    *)
(* loop or of Disconnect; receiving: in that Flush, the buffer sent; hung: *)
(* in the loop of TimedOut; gone: Disconnect has returned.                 *)
(***************************************************************************)
Places == {"request", "waiting", "receiving", "hung", "gone"}

(* The messages with a tracker.  Setup and Identify carry the number of    *)
(* the handshake that sends them, Ping that of the redirect that asks for  *)
(* it, UserDisconnected the client's id.                                   *)
ClientMessage ==
  {"Setup", "Identify"} \X HandShakes
    \union {"Ping", "EvaluatedServer"} \X Redirects
    \union {"UserDisconnected"} \X Ids

(* The router's: what it answers, and the id of the Connection that does.  *)
RouterMessage ==
  {"Accept", "Refuse", "Identify"} \X HandShakes \X Ids
    \union {"PotentialServer", "ConnectToServer"} \X Redirects \X {0}

Acknowledge(m) == <<"Acknowledge", m>>

ClientTypeOK ==
  /\ at \in Places
  /\ frames \in Seq(HandShakes) /\ begun \in HandShakes
  /\ goodbye \in {"none", "asked", "acknowledged"}
  /\ myIsConnected \in BOOLEAN /\ myIsHandshaking \in BOOLEAN
  /\ myTargetAddress \in {"router", "server"}
  /\ myId \in Ids
  /\ myBuffer \subseteq ClientMessage \union {Acknowledge(m) : m \in RouterMessage}
  /\ myPendingAccepts \in [ClientMessage -> Nat]
  /\ myRecentMesseges \subseteq RouterMessage
  /\ toRouter \subseteq ClientMessage \union {Acknowledge(m) : m \in RouterMessage}
  /\ toClient \subseteq ClientMessage
  /\ repeats \in 0 .. MaxRepeats

(* The constructor's Flush has readied the buffer, Connect called HandShake. *)
ClientInit ==
  /\ at = "request" /\ frames = <<1>> /\ begun = 1
  /\ goodbye = "none"
  /\ myIsConnected = FALSE /\ myIsHandshaking = FALSE
  /\ myTargetAddress = "router"
  /\ myId = 0
  /\ myBuffer = {}
  /\ myPendingAccepts = [m \in ClientMessage |-> 0]
  /\ myRecentMesseges = {}
  /\ toRouter = {} /\ toClient = {} /\ repeats = 0

-----------------------------------------------------------------------------
(* Sending.                                                                *)

(* A ping goes to the address it names, now and when it is sent again; what *)
(* acknowledges it there answers to the router (see Migration).             *)
Pings == {"Ping"} \X Redirects

Tracked == {m \in ClientMessage : myPendingAccepts[m] > 0}
Track(m) == myPendingAccepts' = [myPendingAccepts EXCEPT ![m] = @ + 1]

(***************************************************************************)
(* What is sent again while its acknowledgement is on its way finds a slow *)
(* network or a thread that stood still; so does an acknowledgement lost.  *)
(***************************************************************************)
Repeats(n) ==
  /\ repeats + n <= MaxRepeats
  /\ repeats' = repeats + n

(* The head of HandShake's loop: the same message each time round. *)
SendRequest ==
  /\ at = "request"
  /\ at' = "waiting"
  /\ Track(<<"Setup", Head(frames)>>)
  /\ myBuffer' = myBuffer \union {<<"Setup", Head(frames)>>}
  /\ UNCHANGED <<frames, begun, goodbye, session, myTargetAddress, myRecentMesseges, network>>

(***************************************************************************)
(* Flush up to its loop of recvfrom: NetworkInterface::Flush sends again   *)
(* what is due, by the buffer, and the buffer goes to the present target.  *)
(***************************************************************************)
FlushSends(due) ==
  /\ at = "waiting"
  /\ due \subseteq Tracked \ Pings
  /\ Repeats(Cardinality(due \intersect toClient))
  /\ at' = "receiving"
  /\ myIsHandshaking' = (myIsHandshaking \/ frames # <<>>)
  /\ toRouter' = IF myTargetAddress = "router"
                 THEN toRouter \union myBuffer \union due ELSE toRouter
  /\ myBuffer' = {}
  /\ UNCHANGED <<frames, begun, goodbye, myIsConnected, myId, myTargetAddress, tracking, toClient>>

(* A tracker is over RESENDCAP in NetworkInterface::Flush: an endless loop. *)
TimedOut ==
  /\ at = "waiting" /\ Tracked # {}
  /\ at' = "hung"
  /\ UNCHANGED <<frames, begun, goodbye, session, myTargetAddress, myBuffer, tracking, network>>

(* Disconnect, called from the main loop. *)
Disconnect ==
  /\ at = "waiting" /\ frames = <<>> /\ goodbye = "none"
  /\ goodbye' = "asked"
  /\ Track(<<"UserDisconnected", myId>>)
  /\ myBuffer' = myBuffer \union {<<"UserDisconnected", myId>>}
  /\ UNCHANGED <<at, frames, begun, session, myTargetAddress, myRecentMesseges, network>>

-----------------------------------------------------------------------------
(* Receiving: the loop of recvfrom in Flush.                               *)

(* Mutant of TargetIsSender: the sender is kept apart from the target. *)
TargetStays == UNCHANGED myTargetAddress

(* recvfrom: the sender, always the router, is the new target. *)
TargetIsSender == myTargetAddress' = "router"

(* Mutant of ReceiveAcknowledge: a tracker is taken off that is not there. *)
ReceiveAcknowledgeBlindly(m) ==
  /\ at = "receiving" /\ m \in toClient
  /\ toClient' = toClient \ {m}
  /\ TargetIsSender
  /\ myPendingAccepts' = [myPendingAccepts EXCEPT ![m] = @ - 1]
  /\ UNCHANGED <<thread, session, myBuffer, myRecentMesseges, toRouter, repeats>>

(* PreProcessReceive of an acknowledgement: one tracker goes, a callback runs. *)
ReceiveAcknowledge(m) ==
  /\ at = "receiving" /\ m \in toClient
  /\ toClient' = toClient \ {m}
  /\ TargetIsSender
  /\ LET known == myPendingAccepts[m] > 0
         answer == IF known /\ m[1] = "Ping" THEN {<<"EvaluatedServer", m[2]>>} ELSE {} IN
     /\ myPendingAccepts' =
          [n \in ClientMessage |->
             CASE n = m /\ known -> myPendingAccepts[n] - 1
               [] n \in answer   -> myPendingAccepts[n] + 1
               [] OTHER          -> myPendingAccepts[n]]
     /\ myBuffer' = myBuffer \union answer
     /\ goodbye' = IF known /\ m[1] = "UserDisconnected" THEN "acknowledged" ELSE goodbye
  /\ UNCHANGED <<at, frames, begun, session, myRecentMesseges, toRouter, repeats>>

(* PreProcessReceive of a message: acknowledged in the buffer, and remembered. *)
Hears(m) ==
  /\ at = "receiving"
  /\ myBuffer' = myBuffer \union {Acknowledge(m)}
  /\ myRecentMesseges' = myRecentMesseges \union {m}

(* Mutant of ReceiveDuplicate: a duplicate is dropped and not acknowledged. *)
ReceiveDuplicateSilently(m) ==
  /\ at = "receiving" /\ m \in myRecentMesseges
  /\ TargetIsSender
  /\ UNCHANGED <<thread, session, myBuffer, tracking, network>>

ReceiveDuplicate(m) ==
  /\ Hears(m)
  /\ m \in myRecentMesseges
  /\ Repeats(IF Acknowledge(m) \in toRouter \union myBuffer THEN 1 ELSE 0)
  /\ TargetIsSender
  /\ UNCHANGED <<thread, session, myPendingAccepts, toRouter, toClient>>

IsNew(m) == m \in RouterMessage \ myRecentMesseges
IsSetup(m) == m[1] \in {"Accept", "Refuse"}

(* HandShakeAttempt of the answer that is waited for. *)
HandShakeAttempt(m) ==
  /\ IsNew(m) /\ IsSetup(m) /\ Hears(m)
  /\ myIsHandshaking
  /\ myIsHandshaking' = FALSE
  /\ myIsConnected' = (myIsConnected \/ m[1] = "Accept")
  /\ myId' = IF m[1] = "Accept" THEN m[3] ELSE myId
  /\ TargetIsSender
  /\ UNCHANGED <<thread, myPendingAccepts, network>>

(* HandShake is called from Receive. *)
BeginHandShake ==
  /\ begun < MaxHandShakes
  /\ begun' = begun + 1
  /\ frames' = <<begun + 1>> \o frames
  /\ at' = "request"
  /\ myIsConnected' = FALSE
  /\ UNCHANGED <<goodbye, myIsHandshaking, myId>>

(* An answer nobody waits for: "Connection invalidated!  Reconnecting". *)
Reconnect(m) ==
  /\ IsNew(m) /\ IsSetup(m) /\ Hears(m)
  /\ ~myIsHandshaking
  /\ BeginHandShake
  /\ TargetIsSender
  /\ UNCHANGED <<myPendingAccepts, network>>

Redirect(m) ==
  /\ IsNew(m) /\ m[1] = "ConnectToServer" /\ Hears(m)
  /\ BeginHandShake
  /\ myTargetAddress' = "server"
  /\ UNCHANGED <<myPendingAccepts, network>>

(* EvaluateServer: the ping is sent at once, to the server's address. *)
EvaluateServer(m) ==
  /\ IsNew(m) /\ m[1] = "PotentialServer" /\ Hears(m)
  /\ Track(<<"Ping", m[2]>>)
  /\ TargetIsSender
  /\ UNCHANGED <<thread, session, network>>

ReceiveIdentify(m) ==
  /\ IsNew(m) /\ m[1] = "Identify" /\ Hears(m)
  /\ TargetIsSender
  /\ UNCHANGED <<thread, session, myPendingAccepts, network>>

(***************************************************************************)
(* recvfrom would block: the Flush of the main loop or of Disconnect       *)
(* returns.                                                                *)
(***************************************************************************)
FlushEnds ==
  /\ at = "receiving" /\ frames = <<>>
  /\ at' = IF goodbye = "acknowledged" THEN "gone" ELSE "waiting"
  /\ UNCHANGED <<frames, begun, goodbye, session, myTargetAddress, myBuffer, tracking, network>>

(* The Flush of a HandShake returns: wait on, or ask again. *)
FlushEndsInHandShake ==
  /\ at = "receiving" /\ frames # <<>>
  /\ myIsHandshaking \/ ~myIsConnected
  /\ at' = IF myIsHandshaking THEN "waiting" ELSE "request"
  /\ myIsHandshaking' = FALSE
  /\ UNCHANGED <<frames, begun, goodbye, myIsConnected, myId, myTargetAddress, myBuffer,
                 tracking, network>>

(* Mutant of HandShakeReturns: any answer is good enough. *)
HandShakeReturnsAnyhow ==
  /\ at = "receiving" /\ frames # <<>>
  /\ ~myIsHandshaking
  /\ frames' = Tail(frames)
  /\ at' = IF Head(frames) = 1 THEN "waiting" ELSE "receiving"
  /\ Track(<<"Identify", Head(frames)>>)
  /\ myBuffer' = myBuffer \union {<<"Identify", Head(frames)>>}
  /\ UNCHANGED <<begun, goodbye, session, myTargetAddress, myRecentMesseges, network>>

(* Or HandShake returns: to Connect, or to the Receive that called it. *)
HandShakeReturns ==
  /\ at = "receiving" /\ frames # <<>>
  /\ ~myIsHandshaking /\ myIsConnected
  /\ frames' = Tail(frames)
  /\ at' = IF Head(frames) = 1 THEN "waiting" ELSE "receiving"
  /\ Track(<<"Identify", Head(frames)>>)
  /\ myBuffer' = myBuffer \union {<<"Identify", Head(frames)>>}
  /\ UNCHANGED <<begun, goodbye, session, myTargetAddress, myRecentMesseges, network>>

Receive(m) ==
  \/ ReceiveDuplicate(m) \/ HandShakeAttempt(m) \/ Reconnect(m) \/ Redirect(m)
  \/ EvaluateServer(m) \/ ReceiveIdentify(m)

ClientNext ==
  \/ SendRequest \/ TimedOut \/ Disconnect
  \/ \E due \in SUBSET (Tracked \ Pings) : FlushSends(due)
  \/ \E m \in ClientMessage : ReceiveAcknowledge(m)
  \/ FlushEnds \/ FlushEndsInHandShake \/ HandShakeReturns
=============================================================================
