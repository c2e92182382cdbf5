-------------------------- MODULE MigrationProofs --------------------------
(* Theorems about Client and Migration, for every value of the constants.  *)
EXTENDS Migration, FiniteSetTheorems, SequenceTheorems, TLAPS

-----------------------------------------------------------------------------
(* The inductive invariant.                                                *)

(* A request is sent from within a handshake. *)
AsksInHandShake == at = "request" => frames # <<>>

AcceptHeard == \E n \in myRecentMesseges : n[1] = "Accept"
IdentifyHeard == \E n \in myRecentMesseges : n[1] = "Identify"
Unconfirmed == IF entry = None THEN {} ELSE entry.unconfirmed

(* What the client acknowledges it has heard. *)
AcksWereHeard ==
  \A m \in RouterMessage : Acknowledge(m) \in toRouter \union myBuffer => m \in myRecentMesseges

(* The client identifies itself, and the router answers, only after an     *)
(* acceptance.                                                             *)
IdentifiedWasAccepted ==
  /\ myIsConnected => AcceptHeard
  /\ \A i \in HandShakes :
       <<"Identify", i>> \in toRouter \union myBuffer \union Tracked => AcceptHeard
  /\ \A m \in Unconfirmed \union myRecentMesseges : m[1] = "Identify" => AcceptHeard

(* A redirect begins only after the client has heard the router's          *)
(* NetIdentify, and what belongs to one is there only after it has begun.  *)
RedirectsWereBegun ==
  /\ redirects > 0 => AcceptHeard /\ IdentifyHeard
  /\ entry # None /\ entry.myIsRedirecting => redirects > 0
  /\ \A m \in Unconfirmed \union myRecentMesseges : m[1] = "ConnectToServer" => redirects > 0

IInv ==
  /\ TypeOK
  /\ AsksInHandShake
  /\ MainLoopIsConnected
  /\ AcksWereHeard
  /\ IdentifiedWasAccepted
  /\ RedirectsWereBegun

-----------------------------------------------------------------------------
(* Types.                                                                  *)

(* The client has finitely many messages. *)
LEMMA MessagesAreFinite == IsFiniteSet(ClientMessage)
<1>1. IsFiniteSet(HandShakes) /\ IsFiniteSet(Redirects) /\ IsFiniteSet(Ids)
  BY ClientAssumption, FS_Interval DEF HandShakes, Redirects, Ids
<1>2. /\ IsFiniteSet({"Setup", "Identify"}) /\ IsFiniteSet({"Ping", "EvaluatedServer"})
      /\ IsFiniteSet({"UserDisconnected"})
  <2>1. \A a, b : IsFiniteSet({a, b})
    <3> TAKE a, b
    <3>1. IsFiniteSet({a}) /\ {a, b} = {a} \union {b}
      BY FS_Singleton
    <3>2. QED
      BY <3>1, FS_AddElement
  <2>2. QED
    BY <2>1, FS_Singleton
<1>3. /\ IsFiniteSet({"Setup", "Identify"} \X HandShakes)
      /\ IsFiniteSet({"Ping", "EvaluatedServer"} \X Redirects)
      /\ IsFiniteSet({"UserDisconnected"} \X Ids)
  BY <1>1, <1>2, FS_Product
<1>4. QED
  BY <1>3, FS_Union DEF ClientMessage

(* What is sent again fits the budget. *)
LEMMA RepeatsType ==
  ASSUME repeats \in 0 .. MaxRepeats, NEW n \in Nat, Repeats(n)
  PROVE  repeats' \in 0 .. MaxRepeats
  BY ClientAssumption DEF Repeats

(* Track adds a tracker. *)
LEMMA TrackType ==
  ASSUME myPendingAccepts \in [ClientMessage -> Nat], NEW m \in ClientMessage, Track(m)
  PROVE  /\ myPendingAccepts' \in [ClientMessage -> Nat]
         /\ Tracked' \subseteq Tracked \union {m}
<1>1. myPendingAccepts' = [myPendingAccepts EXCEPT ![m] = myPendingAccepts[m] + 1]
  BY DEF Track
<1>2. myPendingAccepts' \in [ClientMessage -> Nat]
  BY <1>1
<1>3. \A n \in ClientMessage : n # m => myPendingAccepts'[n] = myPendingAccepts[n]
  BY <1>1
<1>4. QED
  BY <1>2, <1>3 DEF Tracked

(* HandShake called from Receive is one more frame. *)
LEMMA BeginHandShakeType ==
  ASSUME ClientTypeOK, BeginHandShake
  PROVE  /\ frames' \in Seq(HandShakes) /\ frames' # <<>> /\ begun' \in HandShakes
         /\ at' = "request" /\ myIsConnected' = FALSE
         /\ UNCHANGED <<goodbye, myIsHandshaking, myId>>
<1>1. begun + 1 \in HandShakes
  BY ClientAssumption DEF BeginHandShake, ClientTypeOK, HandShakes
<1>2. <<begun + 1>> \in Seq(HandShakes) /\ Len(<<begun + 1>>) = 1
  BY <1>1
<1>3. frames' = <<begun + 1>> \o frames /\ frames \in Seq(HandShakes)
  BY DEF BeginHandShake, ClientTypeOK
<1>4. frames' \in Seq(HandShakes) /\ Len(frames') = 1 + Len(frames)
  BY <1>2, <1>3, ConcatProperties
<1>5. frames' # <<>>
  BY <1>3, <1>4
<1>6. QED
  BY <1>1, <1>4, <1>5 DEF BeginHandShake

(* What a message heard for the first time changes, whatever handles it. *)
LEMMA ReceiveType ==
  ASSUME ClientTypeOK, NEW m \in RouterMessage, Receive(m)
  PROVE  /\ ClientTypeOK'
         /\ at' = "request" => frames' # <<>>
         /\ myBuffer' = myBuffer \union {Acknowledge(m)}
         /\ myRecentMesseges' = myRecentMesseges \union {m}
         /\ UNCHANGED <<toRouter, toClient>>
         /\ Tracked' \subseteq Tracked \union Pings
<1>1. /\ myBuffer' = myBuffer \union {Acknowledge(m)}
      /\ myRecentMesseges' = myRecentMesseges \union {m}
      /\ at = "receiving"
  BY DEF Receive, ReceiveDuplicate, HandShakeAttempt, Reconnect, Redirect, EvaluateServer,
         ReceiveIdentify, Hears
<1>2. UNCHANGED <<toRouter, toClient>>
  BY DEF Receive, ReceiveDuplicate, HandShakeAttempt, Reconnect, Redirect, EvaluateServer,
         ReceiveIdentify, network
<1>3. myTargetAddress' \in {"router", "server"}
  BY DEF Receive, ReceiveDuplicate, HandShakeAttempt, Reconnect, Redirect, EvaluateServer,
         ReceiveIdentify, TargetIsSender
<1>4. repeats' \in 0 .. MaxRepeats
  <2>1. CASE ReceiveDuplicate(m)
    <3>1. (IF Acknowledge(m) \in toRouter \union myBuffer THEN 1 ELSE 0) \in Nat
      OBVIOUS
    <3>2. QED
      BY <2>1, <3>1, RepeatsType DEF ReceiveDuplicate, ClientTypeOK
  <2>2. CASE UNCHANGED repeats
    BY <2>2 DEF ClientTypeOK
  <2>3. QED
    BY <2>1, <2>2 DEF Receive, HandShakeAttempt, Reconnect, Redirect, EvaluateServer,
                      ReceiveIdentify, network
<1>5. /\ myPendingAccepts' \in [ClientMessage -> Nat]
      /\ Tracked' \subseteq Tracked \union Pings
  <2>1. CASE EvaluateServer(m)
    <3>1. <<"Ping", m[2]>> \in Pings /\ Pings \subseteq ClientMessage
      BY <2>1 DEF EvaluateServer, RouterMessage, Pings, ClientMessage
    <3>2. QED
      BY <2>1, <3>1, TrackType DEF EvaluateServer, ClientTypeOK
  <2>2. CASE UNCHANGED myPendingAccepts
    BY <2>2 DEF ClientTypeOK, Tracked
  <2>3. QED
    BY <2>1, <2>2 DEF Receive, ReceiveDuplicate, HandShakeAttempt, Reconnect, Redirect,
                      ReceiveIdentify
<1>6. /\ at' \in Places /\ frames' \in Seq(HandShakes) /\ begun' \in HandShakes
      /\ goodbye' \in {"none", "asked", "acknowledged"}
      /\ myIsConnected' \in BOOLEAN /\ myIsHandshaking' \in BOOLEAN /\ myId' \in Ids
      /\ at' = "request" => frames' # <<>>
  <2>1. CASE BeginHandShake
    BY <2>1, BeginHandShakeType DEF ClientTypeOK, Places
  <2>2. CASE HandShakeAttempt(m)
    <3>1. m[1] = "Accept" => m[3] \in Ids
      BY DEF RouterMessage
    <3>2. myIsConnected' \in BOOLEAN /\ myId' \in Ids /\ myIsHandshaking' = FALSE
      BY <2>2, <3>1 DEF HandShakeAttempt, ClientTypeOK
    <3>3. QED
      BY <1>1, <2>2, <3>2 DEF HandShakeAttempt, thread, ClientTypeOK
  <2>3. CASE UNCHANGED <<thread, session>>
    BY <1>1, <2>3 DEF thread, session, ClientTypeOK
  <2>4. QED
    BY <2>1, <2>2, <2>3 DEF Receive, ReceiveDuplicate, Reconnect, Redirect, EvaluateServer,
                            ReceiveIdentify
<1>7. ClientTypeOK'
  BY <1>1, <1>2, <1>3, <1>4, <1>5, <1>6 DEF ClientTypeOK
<1>8. QED
  BY <1>1, <1>2, <1>5, <1>6, <1>7

(* The steps of the client by itself keep its type. *)
LEMMA ClientStepType ==
  ASSUME ClientTypeOK, AsksInHandShake, ClientNext
  PROVE  ClientTypeOK' /\ AsksInHandShake'
<1> USE DEF ClientTypeOK, Places
<1>1. CASE SendRequest
  <2>1. frames # <<>> /\ Head(frames) \in HandShakes
    BY <1>1 DEF SendRequest, AsksInHandShake
  <2>2. <<"Setup", Head(frames)>> \in ClientMessage
    BY <2>1 DEF ClientMessage
  <2>3. myPendingAccepts' \in [ClientMessage -> Nat]
    BY <1>1, <2>2, TrackType DEF SendRequest
  <2>4. QED
    BY <1>1, <2>2, <2>3 DEF SendRequest, session, network, AsksInHandShake
<1>2. CASE TimedOut
  BY <1>2 DEF TimedOut, session, tracking, network, AsksInHandShake
<1>3. CASE Disconnect
  <2>1. <<"UserDisconnected", myId>> \in ClientMessage
    BY DEF ClientMessage
  <2>2. myPendingAccepts' \in [ClientMessage -> Nat]
    BY <1>3, <2>1, TrackType DEF Disconnect
  <2>3. QED
    BY <1>3, <2>1, <2>2 DEF Disconnect, session, network, AsksInHandShake
<1>4. ASSUME NEW due \in SUBSET (Tracked \ Pings), FlushSends(due)
      PROVE  ClientTypeOK' /\ AsksInHandShake'
  <2>1. due \subseteq ClientMessage
    BY DEF Tracked
  <2>2. Cardinality(due \intersect toClient) \in Nat
    BY <2>1, MessagesAreFinite, FS_Subset, FS_CardinalityType
  <2>3. repeats' \in 0 .. MaxRepeats
    BY <1>4, <2>2, RepeatsType DEF FlushSends
  <2>4. /\ toRouter' \subseteq ClientMessage \union {Acknowledge(m) : m \in RouterMessage}
        /\ myBuffer' = {} /\ myIsHandshaking' \in BOOLEAN /\ at' = "receiving"
    BY <1>4, <2>1 DEF FlushSends
  <2>5. UNCHANGED <<frames, begun, goodbye, myIsConnected, myId, myTargetAddress, tracking, toClient>>
    BY <1>4 DEF FlushSends
  <2>6. QED
    BY <2>3, <2>4, <2>5 DEF tracking, AsksInHandShake
<1>5. ASSUME NEW m \in ClientMessage, ReceiveAcknowledge(m)
      PROVE  ClientTypeOK' /\ AsksInHandShake'
  <2> DEFINE known == myPendingAccepts[m] > 0
             answer == IF known /\ m[1] = "Ping" THEN {<<"EvaluatedServer", m[2]>>} ELSE {}
  <2>1. answer \subseteq ClientMessage
    BY DEF ClientMessage
  <2>2. myPendingAccepts' =
          [n \in ClientMessage |->
             CASE n = m /\ known -> myPendingAccepts[n] - 1
               [] n \in answer   -> myPendingAccepts[n] + 1
               [] OTHER          -> myPendingAccepts[n]]
    BY <1>5 DEF ReceiveAcknowledge
  <2>3. /\ myBuffer' = myBuffer \union answer
        /\ goodbye' \in {"none", "asked", "acknowledged"}
        /\ toClient' \subseteq ClientMessage /\ myTargetAddress' = "router"
        /\ UNCHANGED <<at, frames, begun, session, myRecentMesseges, toRouter, repeats>>
    BY <1>5 DEF ReceiveAcknowledge, TargetIsSender
  <2>4. myPendingAccepts' \in [ClientMessage -> Nat]
    <3>1. ASSUME NEW n \in ClientMessage PROVE myPendingAccepts'[n] \in Nat
      <4>1. myPendingAccepts[n] \in Nat /\ myPendingAccepts[n] + 1 \in Nat
        OBVIOUS
      <4>2. n = m /\ known => myPendingAccepts[n] - 1 \in Nat
        OBVIOUS
      <4>3. QED
        BY <2>2, <4>1, <4>2
    <3>2. QED
      BY <2>2, <3>1
  <2> HIDE DEF answer, known
  <2>5. QED
    BY <2>1, <2>3, <2>4 DEF session, AsksInHandShake
<1>6. CASE FlushEnds
  BY <1>6 DEF FlushEnds, session, tracking, network, AsksInHandShake
<1>7. CASE FlushEndsInHandShake
  <2>1. at' \in {"waiting", "request"} /\ frames' # <<>> /\ myIsHandshaking' = FALSE
    BY <1>7 DEF FlushEndsInHandShake
  <2>2. UNCHANGED <<frames, begun, goodbye, myIsConnected, myId, myTargetAddress, myBuffer,
                    tracking, network>>
    BY <1>7 DEF FlushEndsInHandShake
  <2>3. QED
    BY <2>1, <2>2 DEF tracking, network, AsksInHandShake
<1>8. CASE HandShakeReturns
  <2>1. Head(frames) \in HandShakes /\ Tail(frames) \in Seq(HandShakes)
    BY <1>8 DEF HandShakeReturns
  <2>2. <<"Identify", Head(frames)>> \in ClientMessage
    BY <2>1 DEF ClientMessage
  <2>3. myPendingAccepts' \in [ClientMessage -> Nat]
    BY <1>8, <2>2, TrackType DEF HandShakeReturns
  <2>4. QED
    BY <1>8, <2>1, <2>2, <2>3 DEF HandShakeReturns, session, network, AsksInHandShake
<1>9. QED
  BY <1>1, <1>2, <1>3, <1>4, <1>5, <1>6, <1>7, <1>8 DEF ClientNext

(* The router's Connection, found or made. *)
LEMMA FoundType ==
  ASSUME TypeOK, entry = None => made < MaxConnections
  PROVE  /\ Found \in Connection
         /\ Found.unconfirmed = Unconfirmed
         /\ entry = None => Found.myIsRedirecting = FALSE
<1>1. CASE entry = None
  <2>1. made + 1 \in Ids
    BY <1>1, ClientAssumption DEF Ids, TypeOK
  <2>2. QED
    BY <1>1, <2>1 DEF Found, Unconfirmed, NewConnection, Connection
<1>2. CASE entry # None
  BY <1>2 DEF Found, TypeOK, Unconfirmed
<1>3. QED
  BY <1>1, <1>2

(* What reading a datagram leaves of the router's counters. *)
LEMMA RouterTakesType ==
  ASSUME TypeOK, NEW d, RouterTakes(d)
  PROVE  /\ made' \in 0 .. MaxConnections
         /\ toRouter' \subseteq toRouter /\ d \in toRouter
         /\ UNCHANGED <<clientVars, repeats, outages>>
         /\ Found \in Connection /\ Found.unconfirmed = Unconfirmed
         /\ entry = None => Found.myIsRedirecting = FALSE
<1>1. entry = None => made < MaxConnections
  BY DEF RouterTakes
<1>2. made' \in 0 .. MaxConnections
  BY <1>1, ClientAssumption DEF RouterTakes, TypeOK
<1>3. QED
  BY <1>1, <1>2, FoundType DEF RouterTakes

(* A message handled leaves a Connection that differs from what it was by  *)
(* what it has heard, what it answers and its validity.                    *)
LEMMA HandlesType ==
  ASSUME TypeOK, NEW m \in ClientMessage, NEW c \in Connection, NEW answers \in SUBSET RouterMessage,
         Handles(m, c, answers)
  PROVE  /\ made' \in 0 .. MaxConnections
         /\ entry' \in Connection
         /\ entry'.unconfirmed = c.unconfirmed \union answers
         /\ entry'.myIsRedirecting = c.myIsRedirecting
         /\ toClient' \subseteq ClientMessage
         /\ toRouter' \subseteq toRouter /\ m \in toRouter
         /\ UNCHANGED <<clientVars, repeats, redirects, outages>>
<1>1. entry' = [c EXCEPT !.recent = @ \union {m}, !.unconfirmed = @ \union answers]
  BY DEF Handles
<1>2. /\ entry' \in Connection
      /\ entry'.unconfirmed = c.unconfirmed \union answers
      /\ entry'.myIsRedirecting = c.myIsRedirecting
  BY <1>1 DEF Connection
<1>3. /\ made' \in 0 .. MaxConnections
      /\ toRouter' \subseteq toRouter /\ m \in toRouter
      /\ UNCHANGED <<clientVars, repeats, outages>>
  BY RouterTakesType DEF Handles
<1>4. toClient' \subseteq ClientMessage /\ UNCHANGED redirects
  BY DEF Handles, TypeOK, ClientTypeOK
<1>5. QED
  BY <1>2, <1>3, <1>4

-----------------------------------------------------------------------------
(* The invariant.                                                          *)

LEMMA InitIInv == Init => IInv
<1> SUFFICES ASSUME Init PROVE IInv
  OBVIOUS
<1> USE DEF Init, ClientInit
<1>1. 1 \in HandShakes /\ 0 \in Ids /\ <<1>> \in Seq(HandShakes)
  BY ClientAssumption DEF HandShakes, Ids
<1>2. Tracked = {}
  BY DEF Tracked
<1>3. TypeOK
  <2>1. myPendingAccepts \in [ClientMessage -> Nat]
    OBVIOUS
  <2>2. repeats \in 0 .. MaxRepeats /\ made \in 0 .. MaxConnections
        /\ redirects \in 0 .. MaxRedirects /\ outages \in 0 .. MaxOutages
    BY ClientAssumption, MigrationAssumption
  <2>3. ClientTypeOK
    <3>1. at \in Places /\ frames \in Seq(HandShakes) /\ begun \in HandShakes /\ myId \in Ids
      BY <1>1 DEF Places
    <3>2. /\ myBuffer \subseteq ClientMessage \union {Acknowledge(m) : m \in RouterMessage}
          /\ toRouter \subseteq ClientMessage \union {Acknowledge(m) : m \in RouterMessage}
          /\ toClient \subseteq ClientMessage /\ myRecentMesseges \subseteq RouterMessage
      OBVIOUS
    <3>3. QED
      BY <2>1, <2>2, <3>1, <3>2 DEF ClientTypeOK
  <2>4. QED
    BY <2>2, <2>3 DEF TypeOK
<1>4. AcksWereHeard /\ IdentifiedWasAccepted
  BY <1>2 DEF AcksWereHeard, IdentifiedWasAccepted, Unconfirmed
<1>5. RedirectsWereBegun
  BY DEF RedirectsWereBegun, Unconfirmed
<1>6. AsksInHandShake /\ MainLoopIsConnected
  BY DEF AsksInHandShake, MainLoopIsConnected
<1>7. QED
  BY <1>3, <1>4, <1>5, <1>6 DEF IInv

(* What suffices for a step of the client: nothing it has heard is         *)
(* forgotten, it acknowledges nothing but what it heard, and it identifies *)
(* itself only when it is connected.                                       *)
LEMMA ClientKeeps ==
  ASSUME IInv, ClientTypeOK', AsksInHandShake', MainLoopIsConnected', UNCHANGED router,
         myRecentMesseges \subseteq myRecentMesseges',
         \A n \in myRecentMesseges' \ myRecentMesseges : n \in Unconfirmed,
         myIsConnected' => myIsConnected \/ AcceptHeard',
         \A m \in RouterMessage :
           Acknowledge(m) \in toRouter' \union myBuffer'
             => Acknowledge(m) \in toRouter \union myBuffer \/ m \in myRecentMesseges',
         \A i \in HandShakes :
           <<"Identify", i>> \in toRouter' \union myBuffer' \union Tracked'
             => myIsConnected \/ <<"Identify", i>> \in toRouter \union myBuffer \union Tracked
  PROVE  IInv'
<1>1. Unconfirmed' = Unconfirmed /\ UNCHANGED <<entry, made, redirects, outages>>
  BY DEF router, Unconfirmed
<1>2. TypeOK'
  BY <1>1 DEF IInv, TypeOK
<1>3. (AcceptHeard => AcceptHeard') /\ (IdentifyHeard => IdentifyHeard')
  BY DEF AcceptHeard, IdentifyHeard
<1>4. AcksWereHeard'
  BY DEF IInv, AcksWereHeard
<1>5. IdentifiedWasAccepted'
  <2>1. myIsConnected' => AcceptHeard'
    BY <1>3 DEF IInv, IdentifiedWasAccepted
  <2>2. \A i \in HandShakes :
          <<"Identify", i>> \in toRouter' \union myBuffer' \union Tracked' => AcceptHeard'
    BY <1>3 DEF IInv, IdentifiedWasAccepted
  <2>3. \A m \in Unconfirmed' \union myRecentMesseges' : m[1] = "Identify" => AcceptHeard'
    BY <1>1, <1>3 DEF IInv, IdentifiedWasAccepted
  <2>4. QED
    BY <2>1, <2>2, <2>3 DEF IdentifiedWasAccepted
<1>6. RedirectsWereBegun'
  <2>1. \A m \in Unconfirmed' \union myRecentMesseges' : m[1] = "ConnectToServer" => redirects > 0
    BY <1>1 DEF IInv, RedirectsWereBegun
  <2>2. QED
    BY <1>1, <1>3, <2>1 DEF IInv, RedirectsWereBegun
<1>7. QED
  BY <1>2, <1>4, <1>5, <1>6 DEF IInv

(* What suffices for a step of the router: what it takes is gone, it       *)
(* answers an identification and begins or decides a redirect when it may. *)
LEMMA RouterKeeps ==
  ASSUME IInv,
         entry' \in Connection \union {None}, made' \in 0 .. MaxConnections,
         redirects' \in 0 .. MaxRedirects, outages' \in 0 .. MaxOutages,
         toRouter' \subseteq toRouter, toClient' \subseteq ClientMessage,
         UNCHANGED <<clientVars, repeats>>,
         redirects' > 0 => AcceptHeard /\ IdentifyHeard,
         redirects > 0 => redirects' > 0,
         entry' # None /\ entry'.myIsRedirecting => redirects' > 0,
         \A m \in Unconfirmed' \ Unconfirmed :
           /\ m[1] = "Identify" => AcceptHeard
           /\ m[1] = "ConnectToServer" => redirects' > 0
  PROVE  IInv'
<1>1. UNCHANGED <<at, frames, begun, goodbye, myIsConnected, myIsHandshaking, myId,
                  myTargetAddress, myBuffer, myPendingAccepts, myRecentMesseges, repeats>>
  BY DEF clientVars, thread, session, tracking
<1>2. TypeOK'
  BY <1>1 DEF IInv, TypeOK, ClientTypeOK
<1>3. AcceptHeard' = AcceptHeard /\ IdentifyHeard' = IdentifyHeard /\ Tracked' = Tracked
  BY <1>1 DEF AcceptHeard, IdentifyHeard, Tracked
<1>4. AsksInHandShake' /\ MainLoopIsConnected'
  BY <1>1 DEF IInv, AsksInHandShake, MainLoopIsConnected
<1>5. AcksWereHeard'
  BY <1>1 DEF IInv, AcksWereHeard
<1>6. IdentifiedWasAccepted'
  <2>1. myIsConnected' => AcceptHeard'
    BY <1>1, <1>3 DEF IInv, IdentifiedWasAccepted
  <2>2. \A i \in HandShakes :
          <<"Identify", i>> \in toRouter' \union myBuffer' \union Tracked' => AcceptHeard'
    BY <1>1, <1>3 DEF IInv, IdentifiedWasAccepted
  <2>3. \A m \in Unconfirmed' \union myRecentMesseges' : m[1] = "Identify" => AcceptHeard'
    BY <1>1, <1>3 DEF IInv, IdentifiedWasAccepted
  <2>4. QED
    BY <2>1, <2>2, <2>3 DEF IdentifiedWasAccepted
<1>7. RedirectsWereBegun'
  <2>1. \A m \in Unconfirmed' \union myRecentMesseges' : m[1] = "ConnectToServer" => redirects' > 0
    BY <1>1 DEF IInv, RedirectsWereBegun
  <2>2. QED
    BY <1>3, <2>1 DEF IInv, RedirectsWereBegun
<1>8. QED
  BY <1>2, <1>4, <1>5, <1>6, <1>7 DEF IInv

(* A step of the client by itself keeps the invariant. *)
LEMMA ClientStep ==
  ASSUME IInv, ClientNext, UNCHANGED router
  PROVE  IInv'
<1>1. ClientTypeOK /\ AsksInHandShake /\ MainLoopIsConnected
  BY DEF IInv, TypeOK
<1>2. ClientTypeOK' /\ AsksInHandShake'
  BY <1>1, ClientStepType
<1>3. ASSUME myRecentMesseges' = myRecentMesseges, myIsConnected' = myIsConnected,
             MainLoopIsConnected',
             NEW m \in ClientMessage, m[1] # "Identify" \/ myIsConnected,
             toRouter' \subseteq toRouter \union myBuffer \union Tracked,
             myBuffer' \subseteq myBuffer \union {m},
             Tracked' \subseteq Tracked \union {m}
      PROVE  IInv'
  <2>1. \A n \in RouterMessage : Acknowledge(n) \notin ClientMessage
    BY DEF Acknowledge, ClientMessage
  <2>2. Tracked \subseteq ClientMessage
    BY DEF Tracked
  <2>3. \A n \in RouterMessage :
          Acknowledge(n) \in toRouter' \union myBuffer'
            => Acknowledge(n) \in toRouter \union myBuffer
    BY <1>3, <2>1, <2>2
  <2>4. \A i \in HandShakes :
          <<"Identify", i>> \in toRouter' \union myBuffer' \union Tracked'
            => myIsConnected \/ <<"Identify", i>> \in toRouter \union myBuffer \union Tracked
    BY <1>3
  <2>5. /\ myRecentMesseges \subseteq myRecentMesseges'
        /\ \A n \in myRecentMesseges' \ myRecentMesseges : n \in Unconfirmed
        /\ myIsConnected' => myIsConnected \/ AcceptHeard'
    BY <1>3
  <2>6. QED
    BY <1>2, <1>3, <2>3, <2>4, <2>5, ClientKeeps
<1>4. <<"UserDisconnected", myId>> \in ClientMessage
  BY <1>1 DEF ClientTypeOK, ClientMessage
<1>5. CASE SendRequest
  <2> DEFINE m == <<"Setup", Head(frames)>>
  <2>1. frames # <<>> /\ m \in ClientMessage /\ m[1] # "Identify"
    BY <1>1, <1>5 DEF SendRequest, AsksInHandShake, ClientTypeOK, ClientMessage
  <2>2. Tracked' \subseteq Tracked \union {m}
    BY <1>1, <1>5, <2>1, TrackType DEF SendRequest, ClientTypeOK
  <2>3. /\ UNCHANGED <<myRecentMesseges, myIsConnected, toRouter, frames>>
        /\ myBuffer' = myBuffer \union {m}
    BY <1>5 DEF SendRequest, session, network
  <2>4. MainLoopIsConnected'
    BY <2>1, <2>3 DEF MainLoopIsConnected
  <2> HIDE DEF m
  <2>5. QED
    BY <1>3, <2>1, <2>2, <2>3, <2>4
<1>6. CASE TimedOut
  <2>1. UNCHANGED <<myRecentMesseges, myIsConnected, myIsHandshaking, toRouter, frames,
                    myBuffer, myPendingAccepts>>
    BY <1>6 DEF TimedOut, session, tracking, network
  <2>2. MainLoopIsConnected' /\ Tracked' = Tracked
    BY <1>1, <2>1 DEF MainLoopIsConnected, Tracked
  <2>3. QED
    BY <1>3, <1>4, <2>1, <2>2
<1>7. CASE Disconnect
  <2>1. Tracked' \subseteq Tracked \union {<<"UserDisconnected", myId>>}
    BY <1>1, <1>4, <1>7, TrackType DEF Disconnect, ClientTypeOK
  <2>2. /\ UNCHANGED <<myRecentMesseges, myIsConnected, myIsHandshaking, toRouter, frames>>
        /\ myBuffer' = myBuffer \union {<<"UserDisconnected", myId>>}
    BY <1>7 DEF Disconnect, session, network
  <2>3. MainLoopIsConnected'
    BY <1>1, <2>2 DEF MainLoopIsConnected
  <2>4. QED
    BY <1>3, <1>4, <2>1, <2>2, <2>3
<1>8. ASSUME NEW due \in SUBSET (Tracked \ Pings), FlushSends(due) PROVE IInv'
  <2>1. toRouter' \subseteq toRouter \union myBuffer \union due /\ myBuffer' = {}
    BY <1>8 DEF FlushSends
  <2>2. UNCHANGED <<myRecentMesseges, myIsConnected, frames, myPendingAccepts>>
    BY <1>8 DEF FlushSends, tracking
  <2>3. frames = <<>> => myIsHandshaking' = myIsHandshaking
    BY <1>1, <1>8 DEF FlushSends, ClientTypeOK
  <2>4. MainLoopIsConnected'
    BY <1>1, <2>2, <2>3 DEF MainLoopIsConnected
  <2>5. Tracked' = Tracked
    BY <2>2 DEF Tracked
  <2>6. QED
    BY <1>3, <1>4, <2>1, <2>2, <2>4, <2>5
<1>9. ASSUME NEW m \in ClientMessage, ReceiveAcknowledge(m) PROVE IInv'
  <2> DEFINE known == myPendingAccepts[m] > 0
             sent == <<"EvaluatedServer", m[2]>>
             answer == IF known /\ m[1] = "Ping" THEN {sent} ELSE {}
  <2>1. \E e \in ClientMessage : e[1] # "Identify" /\ answer \subseteq {e}
    <3>1. CASE m[1] = "Ping"
      <4>1. sent \in ClientMessage /\ sent[1] # "Identify"
        BY <3>1 DEF ClientMessage
      <4>2. QED
        BY <4>1
    <3>2. CASE m[1] # "Ping"
      BY <1>4, <3>2
    <3>3. QED
      BY <3>1, <3>2
  <2>2. myPendingAccepts' =
          [n \in ClientMessage |->
             CASE n = m /\ known -> myPendingAccepts[n] - 1
               [] n \in answer   -> myPendingAccepts[n] + 1
               [] OTHER          -> myPendingAccepts[n]]
    BY <1>9 DEF ReceiveAcknowledge
  <2>3. /\ myBuffer' = myBuffer \union answer
        /\ UNCHANGED <<myRecentMesseges, myIsConnected, myIsHandshaking, toRouter, frames>>
    BY <1>9 DEF ReceiveAcknowledge, session
  <2>4. MainLoopIsConnected'
    BY <1>1, <2>3 DEF MainLoopIsConnected
  <2>5. Tracked' \subseteq Tracked \union answer
    <3>1. ASSUME NEW n \in ClientMessage, n \notin answer, myPendingAccepts'[n] > 0
          PROVE  myPendingAccepts[n] > 0
      BY <1>1, <2>2, <3>1 DEF ClientTypeOK
    <3>2. QED
      BY <3>1 DEF Tracked
  <2> HIDE DEF answer, known, sent
  <2>6. QED
    BY <1>3, <2>1, <2>3, <2>4, <2>5
<1>10. CASE FlushEnds
  <2>1. UNCHANGED <<myRecentMesseges, myIsConnected, myIsHandshaking, toRouter, frames,
                    myBuffer, myPendingAccepts>>
    BY <1>10 DEF FlushEnds, session, tracking, network
  <2>2. MainLoopIsConnected' /\ Tracked' = Tracked
    BY <1>1, <2>1 DEF MainLoopIsConnected, Tracked
  <2>3. QED
    BY <1>3, <1>4, <2>1, <2>2
<1>11. CASE FlushEndsInHandShake
  <2>1. /\ UNCHANGED <<myRecentMesseges, myIsConnected, toRouter, frames, myBuffer, myPendingAccepts>>
        /\ frames # <<>>
    BY <1>11 DEF FlushEndsInHandShake, tracking, network
  <2>2. MainLoopIsConnected' /\ Tracked' = Tracked
    BY <2>1 DEF MainLoopIsConnected, Tracked
  <2>3. QED
    BY <1>3, <1>4, <2>1, <2>2
<1>12. CASE HandShakeReturns
  <2> DEFINE m == <<"Identify", Head(frames)>>
  <2>1. frames # <<>> /\ m \in ClientMessage /\ myIsConnected /\ ~myIsHandshaking
    BY <1>1, <1>12 DEF HandShakeReturns, ClientTypeOK, ClientMessage
  <2>2. Tracked' \subseteq Tracked \union {m}
    BY <1>1, <1>12, <2>1, TrackType DEF HandShakeReturns, ClientTypeOK
  <2>3. /\ UNCHANGED <<myRecentMesseges, myIsConnected, myIsHandshaking, toRouter>>
        /\ myBuffer' = myBuffer \union {m}
    BY <1>12 DEF HandShakeReturns, session, network
  <2>4. MainLoopIsConnected'
    BY <2>1, <2>3 DEF MainLoopIsConnected
  <2> HIDE DEF m
  <2>5. QED
    BY <1>3, <2>1, <2>2, <2>3, <2>4
<1>13. QED
  BY <1>5, <1>6, <1>7, <1>8, <1>9, <1>10, <1>11, <1>12 DEF ClientNext

(* So does hearing a message the router keeps sending. *)
LEMMA ReceiveStep ==
  ASSUME IInv, NEW m \in Unconfirmed, Receive(m), UNCHANGED router
  PROVE  IInv'
<1>1. m \in RouterMessage /\ ClientTypeOK
  BY DEF IInv, TypeOK, Unconfirmed, Connection
<1>2. /\ ClientTypeOK' /\ AsksInHandShake'
      /\ myBuffer' = myBuffer \union {Acknowledge(m)}
      /\ myRecentMesseges' = myRecentMesseges \union {m}
      /\ toRouter' = toRouter
      /\ Tracked' \subseteq Tracked \union Pings
  BY <1>1, ReceiveType DEF AsksInHandShake
<1>3. MainLoopIsConnected'
  <2>1. CASE BeginHandShake
    BY <1>1, <2>1, BeginHandShakeType DEF MainLoopIsConnected
  <2>2. CASE HandShakeAttempt(m)
    BY <2>2 DEF HandShakeAttempt, thread, IInv, MainLoopIsConnected
  <2>3. CASE UNCHANGED <<thread, session>>
    BY <2>3 DEF thread, session, IInv, MainLoopIsConnected
  <2>4. QED
    BY <2>1, <2>2, <2>3 DEF Receive, ReceiveDuplicate, Reconnect, Redirect, EvaluateServer,
                            ReceiveIdentify
<1>4. myIsConnected' => myIsConnected \/ AcceptHeard'
  <2>1. CASE HandShakeAttempt(m)
    BY <1>2, <2>1 DEF HandShakeAttempt, AcceptHeard
  <2>2. CASE BeginHandShake \/ UNCHANGED session
    BY <2>2 DEF BeginHandShake, session
  <2>3. QED
    BY <2>1, <2>2 DEF Receive, ReceiveDuplicate, Reconnect, Redirect, EvaluateServer,
                      ReceiveIdentify
<1>5. \A n \in RouterMessage :
        Acknowledge(n) \in toRouter' \union myBuffer'
          => Acknowledge(n) \in toRouter \union myBuffer \/ n \in myRecentMesseges'
  BY <1>2 DEF Acknowledge
<1>6. \A i \in HandShakes :
        <<"Identify", i>> \in toRouter' \union myBuffer' \union Tracked'
          => <<"Identify", i>> \in toRouter \union myBuffer \union Tracked
  BY <1>2 DEF Acknowledge, Pings
<1>7. QED
  BY <1>2, <1>3, <1>4, <1>5, <1>6, ClientKeeps

(* Reading a message of the client keeps the invariant: the one case that  *)
(* answers with a NetIdentify has the client's before it.                  *)
LEMMA RouterReadsStep ==
  ASSUME IInv, NEW m \in ClientMessage, RouterReads(m)
  PROVE  IInv'
<1>1. TypeOK
  BY DEF IInv
<1>2. m \in toRouter
  BY DEF RouterReads, RouterReadsDuplicate, RouterRefuses, RouterReadsGoodbye,
         RouterReadsSetup, RouterReadsIdentify, Handles, RouterTakes
<1>3. RouterTakes(m)
  BY DEF RouterReads, RouterReadsDuplicate, RouterRefuses, RouterReadsGoodbye,
         RouterReadsSetup, RouterReadsIdentify, Handles
<1>4. /\ Found \in Connection /\ Found.unconfirmed = Unconfirmed
      /\ entry = None => Found.myIsRedirecting = FALSE
      /\ Found.myIsRedirecting => redirects > 0
  <2>1. /\ Found \in Connection /\ Found.unconfirmed = Unconfirmed
        /\ entry = None => Found.myIsRedirecting = FALSE
    BY <1>1, <1>3, RouterTakesType
  <2>2. entry # None => Found = entry
    BY DEF Found
  <2>3. QED
    BY <2>1, <2>2 DEF IInv, RedirectsWereBegun
<1>5. ASSUME NEW c \in Connection, NEW answers \in SUBSET RouterMessage, Handles(m, c, answers),
             c.unconfirmed = Unconfirmed, c.myIsRedirecting => Found.myIsRedirecting,
             \A a \in answers : a[1] # "ConnectToServer" /\ (a[1] = "Identify" => AcceptHeard)
      PROVE  IInv'
  <2>1. /\ made' \in 0 .. MaxConnections
        /\ entry' \in Connection
        /\ entry'.unconfirmed = c.unconfirmed \union answers
        /\ entry'.myIsRedirecting = c.myIsRedirecting
        /\ toClient' \subseteq ClientMessage
        /\ toRouter' \subseteq toRouter /\ m \in toRouter
        /\ UNCHANGED <<clientVars, repeats, redirects, outages>>
    BY <1>1, <1>5, HandlesType
  <2>2. Unconfirmed' \subseteq Unconfirmed \union answers
    BY <1>5, <2>1 DEF Unconfirmed
  <2>3. entry'.myIsRedirecting => redirects' > 0
    BY <1>4, <1>5, <2>1
  <2>4. redirects' > 0 => AcceptHeard /\ IdentifyHeard
    BY <2>1 DEF IInv, RedirectsWereBegun
  <2>5. redirects' \in 0 .. MaxRedirects /\ outages' \in 0 .. MaxOutages
    BY <1>1, <2>1 DEF TypeOK
  <2>6. \A a \in Unconfirmed' \ Unconfirmed :
           /\ a[1] = "Identify" => AcceptHeard
           /\ a[1] = "ConnectToServer" => redirects' > 0
    BY <1>5, <2>2
  <2>7. QED
    BY <2>1, <2>3, <2>4, <2>5, <2>6, RouterKeeps
<1>6. CASE RouterReadsDuplicate(m)
  <2>1. /\ made' \in 0 .. MaxConnections
        /\ toRouter' \subseteq toRouter
        /\ UNCHANGED <<clientVars, repeats, outages>>
    BY <1>1, <1>3, RouterTakesType
  <2>2. toClient' \subseteq ClientMessage /\ UNCHANGED <<entry, redirects>>
    BY <1>1, <1>6 DEF RouterReadsDuplicate, TypeOK, ClientTypeOK
  <2>3. Unconfirmed' = Unconfirmed
    BY <2>2 DEF Unconfirmed
  <2>4. /\ redirects' > 0 => AcceptHeard /\ IdentifyHeard
        /\ entry' # None /\ entry'.myIsRedirecting => redirects' > 0
    BY <2>2 DEF IInv, RedirectsWereBegun
  <2>5. /\ entry' \in Connection \union {None} /\ redirects' \in 0 .. MaxRedirects
        /\ outages' \in 0 .. MaxOutages
    BY <1>1, <2>1, <2>2 DEF TypeOK
  <2>6. QED
    BY <2>1, <2>2, <2>3, <2>4, <2>5, RouterKeeps
<1>7. CASE RouterRefuses(m)
  <2> DEFINE answers == IF m[1] = "Identify" THEN {<<"Refuse", m[2], Found.myID>>} ELSE {}
  <2>1. m[1] = "Identify" => m[2] \in HandShakes
    BY DEF ClientMessage
  <2>2. answers \subseteq RouterMessage
    BY <1>4, <2>1 DEF RouterMessage, Connection
  <2>3. Handles(m, Found, answers)
    BY <1>7 DEF RouterRefuses
  <2>4. \A a \in answers : a[1] = "Refuse"
    OBVIOUS
  <2> HIDE DEF answers
  <2>5. QED
    BY <1>4, <1>5, <2>2, <2>3, <2>4
<1>8. CASE RouterReadsGoodbye(m)
  BY <1>4, <1>5, <1>8 DEF RouterReadsGoodbye
<1>9. ASSUME NEW i \in HandShakes, m = <<"Setup", i>>, RouterReadsSetup(i) PROVE IInv'
  <2> DEFINE c == [Found EXCEPT !.myIsValid = TRUE]
             answers == IF Found.myIsValid THEN {} ELSE {<<"Accept", i, Found.myID>>}
  <2>1. c \in Connection /\ c.unconfirmed = Unconfirmed /\ c.myIsRedirecting = Found.myIsRedirecting
    BY <1>4 DEF Connection
  <2>2. answers \subseteq RouterMessage
    BY <1>4 DEF RouterMessage, Connection
  <2>3. Handles(m, c, answers)
    BY <1>9 DEF RouterReadsSetup
  <2>4. \A a \in answers : a[1] = "Accept"
    OBVIOUS
  <2> HIDE DEF answers, c
  <2>5. QED
    BY <1>5, <2>1, <2>2, <2>3, <2>4
<1>10. ASSUME NEW i \in HandShakes, m = <<"Identify", i>>, RouterReadsIdentify(i) PROVE IInv'
  <2> DEFINE answers == {<<"Identify", i, Found.myID>>}
  <2>1. AcceptHeard
    BY <1>2, <1>10 DEF IInv, IdentifiedWasAccepted
  <2>2. answers \subseteq RouterMessage
    BY <1>4 DEF RouterMessage, Connection
  <2>3. Handles(m, Found, answers)
    BY <1>10 DEF RouterReadsIdentify
  <2>4. \A a \in answers : a[1] = "Identify"
    OBVIOUS
  <2> HIDE DEF answers
  <2>5. QED
    BY <1>4, <1>5, <2>1, <2>2, <2>3, <2>4
<1>11. QED
  BY <1>6, <1>7, <1>8, <1>9, <1>10 DEF RouterReads

(* An acknowledgement that begins a redirect is of a NetIdentify, which    *)
(* the client has heard.                                                   *)
LEMMA RouterAcknowledgeStep ==
  ASSUME IInv, NEW m \in RouterMessage, RouterReadsAcknowledge(m) \/ BeginRedirect(m)
  PROVE  IInv'
<1>1. TypeOK
  BY DEF IInv
<1>2. RouterTakes(Acknowledge(m))
  BY DEF RouterReadsAcknowledge, BeginRedirect
<1>3. /\ made' \in 0 .. MaxConnections
      /\ toRouter' \subseteq toRouter /\ Acknowledge(m) \in toRouter
      /\ UNCHANGED <<clientVars, repeats, outages>>
      /\ Found \in Connection /\ Found.unconfirmed = Unconfirmed
      /\ entry = None => Found.myIsRedirecting = FALSE
  BY <1>1, <1>2, RouterTakesType
<1>4. toClient' \subseteq ClientMessage /\ outages' \in 0 .. MaxOutages
  BY <1>1, <1>3 DEF RouterReadsAcknowledge, BeginRedirect, TypeOK, ClientTypeOK
<1>5. redirects > 0 => AcceptHeard /\ IdentifyHeard
  BY DEF IInv, RedirectsWereBegun
<1>6. CASE RouterReadsAcknowledge(m)
  <2>1. entry' = [Found EXCEPT !.unconfirmed = @ \ {m}] /\ redirects' = redirects
    BY <1>6 DEF RouterReadsAcknowledge
  <2>2. /\ entry' \in Connection /\ entry'.unconfirmed = Unconfirmed \ {m}
        /\ entry'.myIsRedirecting = Found.myIsRedirecting
    BY <1>3, <2>1 DEF Connection
  <2>3. Unconfirmed' \subseteq Unconfirmed
    BY <2>2 DEF Unconfirmed
  <2>4. entry'.myIsRedirecting => redirects > 0
    BY <1>3, <2>2 DEF IInv, RedirectsWereBegun, Found
  <2>5. redirects' \in 0 .. MaxRedirects
    BY <1>1, <2>1 DEF TypeOK
  <2>6. QED
    BY <1>3, <1>4, <1>5, <2>1, <2>2, <2>3, <2>4, <2>5, RouterKeeps
<1>7. CASE BeginRedirect(m)
  <2>1. /\ m[1] = "Identify" /\ m \in Unconfirmed
        /\ redirects' = redirects + 1 /\ redirects < MaxRedirects
    BY <1>3, <1>7 DEF BeginRedirect
  <2>2. redirects' \in Redirects /\ redirects' \in 0 .. MaxRedirects /\ redirects' > 0
    BY <1>1, <2>1, ClientAssumption DEF TypeOK, Redirects
  <2>3. m \in myRecentMesseges
    BY <1>3 DEF IInv, AcksWereHeard
  <2>4. AcceptHeard /\ IdentifyHeard
    BY <2>1, <2>3 DEF IInv, IdentifiedWasAccepted, IdentifyHeard
  <2>5. entry \in Connection /\ entry.unconfirmed = Unconfirmed
    BY <1>1, <2>1 DEF Unconfirmed, TypeOK
  <2> DEFINE asked == <<"PotentialServer", redirects', 0>>
  <2>6. asked \in RouterMessage
    BY <2>2 DEF RouterMessage
  <2>7. entry' = [entry EXCEPT !.myIsRedirecting = TRUE,
                               !.unconfirmed = (@ \ {m}) \union {asked}]
    BY <1>7 DEF BeginRedirect
  <2>8. entry' \in Connection /\ entry'.unconfirmed = (Unconfirmed \ {m}) \union {asked}
    BY <2>5, <2>6, <2>7 DEF Connection
  <2>9. \A a \in Unconfirmed' \ Unconfirmed : a[1] = "PotentialServer"
    BY <2>8 DEF Unconfirmed
  <2> HIDE DEF asked
  <2>10. QED
    BY <1>3, <1>4, <2>2, <2>4, <2>8, <2>9, RouterKeeps
<1>8. QED
  BY <1>6, <1>7

(* The router's timeouts decide a redirect or end a Connection. *)
LEMMA RouterTimeStep ==
  ASSUME IInv, GivesUp \/ DecideRedirect \/ Reap
  PROVE  IInv'
<1>1. TypeOK /\ (redirects > 0 => AcceptHeard /\ IdentifyHeard)
  BY DEF IInv, RedirectsWereBegun
<1>2. UNCHANGED <<clientVars, toRouter, toClient, repeats, made, redirects>>
  BY DEF GivesUp, DecideRedirect, Reap, RouterFlushes, network
<1>3. /\ made' \in 0 .. MaxConnections /\ redirects' \in 0 .. MaxRedirects
      /\ toRouter' \subseteq toRouter /\ toClient' \subseteq ClientMessage
  BY <1>1, <1>2 DEF TypeOK, ClientTypeOK
<1>4. outages' \in 0 .. MaxOutages
  BY <1>1, MigrationAssumption DEF GivesUp, DecideRedirect, Reap, TypeOK
<1>5. ASSUME entry # None, NEW c \in {entry} \union Decided
      PROVE  /\ c \in Connection
             /\ c.myIsRedirecting => redirects > 0
             /\ c.unconfirmed \subseteq Unconfirmed \union {<<"ConnectToServer", redirects, 0>>}
             /\ c.unconfirmed # Unconfirmed => redirects > 0
  <2>1. /\ entry \in Connection /\ entry.unconfirmed = Unconfirmed
        /\ entry.myIsRedirecting => redirects > 0
    BY <1>1, <1>5 DEF TypeOK, Unconfirmed, IInv, RedirectsWereBegun
  <2>2. CASE c = entry
    BY <2>1, <2>2
  <2>3. CASE c \in Decided
    <3>1. /\ entry.myIsRedirecting
          /\ c = [entry EXCEPT !.myIsRedirecting = FALSE,
                               !.unconfirmed = @ \union {<<"ConnectToServer", redirects, 0>>}]
      BY <2>3 DEF Decided
    <3>2. redirects \in Redirects
      BY <1>1, <2>1, <3>1, ClientAssumption DEF TypeOK, Redirects
    <3>3. <<"ConnectToServer", redirects, 0>> \in RouterMessage
      BY <3>2 DEF RouterMessage
    <3>4. QED
      BY <2>1, <3>1, <3>3 DEF Connection
  <2>4. QED
    BY <2>2, <2>3
<1>6. CASE GivesUp \/ DecideRedirect
  <2>1. entry # None /\ \E c \in {entry} \union Decided :
          entry' = [c EXCEPT !.myIsValid = FALSE] \/ entry' = c
    BY <1>6 DEF GivesUp, DecideRedirect, RouterFlushes
  <2>2. PICK c \in {entry} \union Decided : entry' = [c EXCEPT !.myIsValid = FALSE] \/ entry' = c
    BY <2>1
  <2>3. /\ c \in Connection
        /\ c.myIsRedirecting => redirects > 0
        /\ c.unconfirmed \subseteq Unconfirmed \union {<<"ConnectToServer", redirects, 0>>}
        /\ c.unconfirmed # Unconfirmed => redirects > 0
    BY <1>5, <2>1
  <2>4. /\ entry' \in Connection /\ entry'.unconfirmed = c.unconfirmed
        /\ entry'.myIsRedirecting = c.myIsRedirecting
    BY <2>2, <2>3 DEF Connection
  <2>5. Unconfirmed' \subseteq c.unconfirmed
    BY <2>4 DEF Unconfirmed
  <2>6. \A a \in Unconfirmed' \ Unconfirmed :
           /\ a[1] = "Identify" => AcceptHeard
           /\ a[1] = "ConnectToServer" => redirects' > 0
    BY <1>2, <2>3, <2>5
  <2>7. QED
    BY <1>1, <1>2, <1>3, <1>4, <2>3, <2>4, <2>6, RouterKeeps
<1>7. CASE Reap
  <2>1. entry' = None /\ Unconfirmed' = {}
    BY <1>7 DEF Reap, Unconfirmed
  <2>2. QED
    BY <1>1, <1>2, <1>3, <1>4, <2>1, RouterKeeps
<1>8. QED
  BY <1>6, <1>7

LEMMA NextIInv == IInv /\ [Next]_vars => IInv'
<1> SUFFICES ASSUME IInv, [Next]_vars PROVE IInv'
  OBVIOUS
<1>1. CASE ClientNext /\ UNCHANGED router
  BY <1>1, ClientStep
<1>2. ASSUME NEW m \in Unconfirmed, Receive(m), UNCHANGED router PROVE IInv'
  BY <1>2, ReceiveStep
<1>3. CASE RouterNext
  BY <1>3, RouterReadsStep, RouterAcknowledgeStep, RouterTimeStep DEF RouterNext
<1>4. CASE UNCHANGED vars
  BY <1>4 DEF vars, clientVars, thread, session, tracking, network, router, IInv, TypeOK,
              ClientTypeOK, AsksInHandShake, MainLoopIsConnected, AcksWereHeard,
              IdentifiedWasAccepted, RedirectsWereBegun, AcceptHeard, IdentifyHeard,
              Unconfirmed, Tracked
<1>5. QED
  BY <1>1, <1>2, <1>3, <1>4 DEF Next, Unconfirmed

-----------------------------------------------------------------------------
(* The theorems.                                                           *)

(* Every reachable state satisfies the inductive invariant. *)
THEOREM IInvHolds == Spec => []IInv
  BY InitIInv, NextIInv, PTL DEF Spec

(* Every reachable state of client and router has its type, whatever the   *)
(* bounds on handshakes, connections, redirects, outages and repetitions.  *)
THEOREM TypeCorrect == Spec => []TypeOK
<1>1. IInv => TypeOK
  BY DEF IInv
<1>2. QED
  BY <1>1, IInvHolds, PTL

(* However deep handshakes nest, the client's main loop runs connected and *)
(* with no answer outstanding (TClient.cpp:185-200).                       *)
THEOREM MainLoopIsConnectedHolds == Spec => []MainLoopIsConnected
<1>1. IInv => MainLoopIsConnected
  BY DEF IInv
<1>2. QED
  BY <1>1, IInvHolds, PTL

(* Whatever is lost, repeated or given up, nobody is sent on who was not   *)
(* accepted and identified (Connection.cpp:225, 301).                      *)
THEOREM RedirectedWasIdentifiedHolds == Spec => []RedirectedWasIdentified
<1>1. IInv => RedirectedWasIdentified
  <2> SUFFICES ASSUME IInv, NEW m \in myRecentMesseges, m[1] = "ConnectToServer"
               PROVE  \E n, k \in myRecentMesseges : n[1] = "Accept" /\ k[1] = "Identify"
    BY DEF RedirectedWasIdentified
  <2>1. redirects > 0
    BY DEF IInv, RedirectsWereBegun
  <2>2. QED
    BY <2>1 DEF IInv, RedirectsWereBegun, AcceptHeard, IdentifyHeard
<1>2. QED
  BY <1>1, IInvHolds, PTL

-----------------------------------------------------------------------------
(* The session, while the router has not given the client up.              *)

(* Before the router has made its Connection nothing but requests is sent. *)
BeforeSession ==
  entry = None =>
    /\ ~myIsConnected /\ myRecentMesseges = {}
    /\ \A m \in toRouter \union myBuffer \union Tracked : m[1] = "Setup"

(* Afterwards it is valid, refuses nothing and accepts by its own id only. *)
DuringSession ==
  entry # None =>
    /\ entry.myIsValid
    /\ myIsConnected => myId = entry.myID
    /\ \A m \in Unconfirmed \union myRecentMesseges :
         m[1] # "Refuse" /\ (m[1] = "Accept" => m[3] = entry.myID)

Session == outages = 0 => BeforeSession /\ DuringSession

LEMMA InitSession == Init => Session
  BY DEF Init, ClientInit, Session, BeforeSession, DuringSession, Unconfirmed, Tracked

(* The client by itself changes nothing of the session, and before one has *)
(* only requests to send, for it neither is connected nor has pings out.   *)
LEMMA ClientKeepsSession ==
  ASSUME IInv, Session, ClientNext, UNCHANGED router
  PROVE  Session'
<1> SUFFICES ASSUME outages = 0 PROVE BeforeSession' /\ DuringSession'
  BY DEF Session, router
<1>1. ClientTypeOK /\ AsksInHandShake /\ MainLoopIsConnected
  BY DEF IInv, TypeOK
<1>2. UNCHANGED <<entry, myRecentMesseges, myIsConnected, myId>> /\ Unconfirmed' = Unconfirmed
  BY DEF ClientNext, SendRequest, TimedOut, Disconnect, FlushSends, ReceiveAcknowledge, FlushEnds,
         FlushEndsInHandShake, HandShakeReturns, router, session, tracking, Unconfirmed
<1>3. DuringSession'
  BY <1>2 DEF Session, DuringSession
<1>4. ASSUME entry = None
      PROVE  \A m \in toRouter' \union myBuffer' \union Tracked' : m[1] = "Setup"
  <2>1. /\ ~myIsConnected
        /\ \A m \in toRouter \union myBuffer \union Tracked : m[1] = "Setup"
    BY <1>4 DEF Session, BeforeSession
  <2>2. frames # <<>>
    BY <1>1, <2>1 DEF MainLoopIsConnected
  <2>3. CASE SendRequest
    <3> DEFINE m == <<"Setup", Head(frames)>>
    <3>1. m \in ClientMessage /\ m[1] = "Setup"
      BY <1>1, <2>2 DEF ClientTypeOK, ClientMessage
    <3>2. Tracked' \subseteq Tracked \union {m}
      BY <1>1, <2>3, <3>1, TrackType DEF SendRequest, ClientTypeOK
    <3>3. toRouter' = toRouter /\ myBuffer' = myBuffer \union {m}
      BY <2>3 DEF SendRequest, network
    <3> HIDE DEF m
    <3>4. QED
      BY <2>1, <3>1, <3>2, <3>3
  <2>4. CASE TimedOut \/ FlushEnds \/ FlushEndsInHandShake
    BY <2>1, <2>4 DEF TimedOut, FlushEnds, FlushEndsInHandShake, tracking, network, Tracked
  <2>5. CASE Disconnect \/ HandShakeReturns
    BY <2>1, <2>2, <2>5 DEF Disconnect, HandShakeReturns
  <2>6. ASSUME NEW due \in SUBSET (Tracked \ Pings), FlushSends(due)
        PROVE  \A m \in toRouter' \union myBuffer' \union Tracked' : m[1] = "Setup"
    BY <2>1, <2>6 DEF FlushSends, tracking, Tracked
  <2>7. ASSUME NEW m \in ClientMessage, ReceiveAcknowledge(m)
        PROVE  \A n \in toRouter' \union myBuffer' \union Tracked' : n[1] = "Setup"
    <3>1. ~(myPendingAccepts[m] > 0 /\ m[1] = "Ping")
      BY <2>1 DEF Tracked
    <3>2. /\ myBuffer' = myBuffer /\ toRouter' = toRouter
          /\ myPendingAccepts' =
               [n \in ClientMessage |-> IF n = m /\ myPendingAccepts[m] > 0
                                        THEN myPendingAccepts[n] - 1 ELSE myPendingAccepts[n]]
      BY <2>7, <3>1 DEF ReceiveAcknowledge
    <3>3. Tracked' \subseteq Tracked
      BY <1>1, <3>2 DEF Tracked, ClientTypeOK
    <3>4. QED
      BY <2>1, <3>2, <3>3
  <2>8. QED
    BY <2>3, <2>4, <2>5, <2>6, <2>7 DEF ClientNext
<1>5. QED
  BY <1>2, <1>3, <1>4 DEF Session, BeforeSession

(* What the client hears within a session it hears from its Connection. *)
LEMMA ReceiveKeepsSession ==
  ASSUME IInv, Session, NEW m \in Unconfirmed, Receive(m), UNCHANGED router
  PROVE  Session'
<1> SUFFICES ASSUME outages = 0 PROVE BeforeSession' /\ DuringSession'
  BY DEF Session, router
<1>1. m \in RouterMessage /\ ClientTypeOK /\ entry # None
  BY DEF IInv, TypeOK, Unconfirmed, Connection
<1>2. UNCHANGED entry /\ Unconfirmed' = Unconfirmed
  BY DEF router, Unconfirmed
<1>3. /\ entry.myIsValid
      /\ myIsConnected => myId = entry.myID
      /\ \A n \in Unconfirmed \union myRecentMesseges :
           n[1] # "Refuse" /\ (n[1] = "Accept" => n[3] = entry.myID)
  BY <1>1 DEF Session, DuringSession
<1>4. myRecentMesseges' = myRecentMesseges \union {m}
  BY <1>1, ReceiveType
<1>5. myIsConnected' => myId' = entry.myID
  <2>1. CASE HandShakeAttempt(m)
    <3>1. m[1] = "Accept" /\ m[3] = entry.myID
      BY <1>3, <2>1 DEF HandShakeAttempt, IsSetup
    <3>2. QED
      BY <2>1, <3>1 DEF HandShakeAttempt
  <2>2. CASE BeginHandShake
    BY <2>2 DEF BeginHandShake
  <2>3. CASE UNCHANGED session
    BY <1>3, <2>3 DEF session
  <2>4. QED
    BY <2>1, <2>2, <2>3 DEF Receive, ReceiveDuplicate, Reconnect, Redirect, EvaluateServer,
                            ReceiveIdentify
<1>6. QED
  BY <1>1, <1>2, <1>3, <1>4, <1>5 DEF BeforeSession, DuringSession

(* The router reads: the first request makes the Connection and is         *)
(* accepted by its id, everything later is read by a Connection that is    *)
(* valid, and acknowledgements come only of what was heard.                *)
LEMMA RouterReadsKeepSession ==
  ASSUME IInv, Session, NEW m \in ClientMessage, RouterReads(m)
  PROVE  Session'
<1>1. RouterTakes(m)
  BY DEF RouterReads, RouterReadsDuplicate, RouterRefuses, RouterReadsGoodbye,
         RouterReadsSetup, RouterReadsIdentify, Handles
<1>2. /\ m \in toRouter /\ Found \in Connection /\ Found.unconfirmed = Unconfirmed
      /\ UNCHANGED <<clientVars, repeats, outages>>
  BY <1>1, RouterTakesType DEF IInv
<1>3. UNCHANGED <<myRecentMesseges, myIsConnected, myId>>
  BY <1>2 DEF clientVars, session, tracking
<1> SUFFICES ASSUME outages = 0 PROVE BeforeSession' /\ DuringSession'
  BY <1>2 DEF Session
<1>4. CASE RouterReadsDuplicate(m)
  <2>1. entry # None /\ entry' = entry /\ Unconfirmed' = Unconfirmed
    BY <1>4 DEF RouterReadsDuplicate, Unconfirmed
  <2>2. QED
    BY <1>3, <2>1 DEF Session, BeforeSession, DuringSession
<1>5. ASSUME NEW c \in Connection, NEW answers \in SUBSET RouterMessage, Handles(m, c, answers),
             c.unconfirmed = Unconfirmed, c.myID = Found.myID, c.myIsValid,
             entry # None => entry.myID = Found.myID,
             \A a \in answers : a[1] # "Refuse" /\ (a[1] = "Accept" => a[3] = Found.myID)
      PROVE  BeforeSession' /\ DuringSession'
  <2>1. entry' = [c EXCEPT !.recent = @ \union {m}, !.unconfirmed = @ \union answers]
    BY <1>5 DEF Handles
  <2>2. /\ entry' \in Connection
        /\ entry'.unconfirmed = Unconfirmed \union answers
        /\ entry'.myID = Found.myID /\ entry'.myIsValid
    BY <1>5, <2>1 DEF Connection
  <2>3. entry' # None /\ Unconfirmed' = Unconfirmed \union answers
    BY <2>2, NoneAssumption DEF Unconfirmed
  <2>4. CASE entry = None
    <3>1. Unconfirmed = {} /\ myRecentMesseges = {} /\ ~myIsConnected
      BY <2>4 DEF Unconfirmed, Session, BeforeSession
    <3>2. QED
      BY <1>3, <1>5, <2>2, <2>3, <3>1 DEF BeforeSession, DuringSession
  <2>5. CASE entry # None
    <3>1. /\ entry.myID = Found.myID
          /\ myIsConnected => myId = entry.myID
          /\ \A n \in Unconfirmed \union myRecentMesseges :
               n[1] # "Refuse" /\ (n[1] = "Accept" => n[3] = entry.myID)
      BY <1>5, <2>5 DEF Session, DuringSession
    <3>2. QED
      BY <1>3, <1>5, <2>2, <2>3, <3>1 DEF BeforeSession, DuringSession
  <2>6. QED
    BY <2>4, <2>5
<1>6. /\ entry = None => m[1] = "Setup"
      /\ entry # None => Found = entry /\ Found.myIsValid
  BY <1>2 DEF Session, BeforeSession, DuringSession, Found
<1>7. CASE RouterRefuses(m)
  BY <1>6, <1>7 DEF RouterRefuses
<1>8. CASE RouterReadsGoodbye(m)
  BY <1>2, <1>5, <1>6, <1>8 DEF RouterReadsGoodbye
<1>9. ASSUME NEW i \in HandShakes, m = <<"Setup", i>>, RouterReadsSetup(i)
      PROVE  BeforeSession' /\ DuringSession'
  <2> DEFINE c == [Found EXCEPT !.myIsValid = TRUE]
             answers == IF Found.myIsValid THEN {} ELSE {<<"Accept", i, Found.myID>>}
  <2>1. c \in Connection /\ c.unconfirmed = Unconfirmed /\ c.myID = Found.myID /\ c.myIsValid
    BY <1>2 DEF Connection
  <2>2. answers \subseteq RouterMessage
    BY <1>2 DEF RouterMessage, Connection
  <2>3. Handles(m, c, answers)
    BY <1>9 DEF RouterReadsSetup
  <2>4. \A a \in answers : a[1] = "Accept" /\ a[3] = Found.myID
    OBVIOUS
  <2> HIDE DEF answers, c
  <2>5. QED
    BY <1>5, <1>6, <2>1, <2>2, <2>3, <2>4
<1>10. ASSUME NEW i \in HandShakes, m = <<"Identify", i>>, RouterReadsIdentify(i)
       PROVE  BeforeSession' /\ DuringSession'
  <2> DEFINE answers == {<<"Identify", i, Found.myID>>}
  <2>1. answers \subseteq RouterMessage
    BY <1>2 DEF RouterMessage, Connection
  <2>2. Handles(m, Found, answers)
    BY <1>10 DEF RouterReadsIdentify
  <2>3. \A a \in answers : a[1] = "Identify"
    OBVIOUS
  <2>4. Found.myIsValid
    BY <1>10 DEF RouterReadsIdentify
  <2> HIDE DEF answers
  <2>5. QED
    BY <1>2, <1>5, <1>6, <2>1, <2>2, <2>3, <2>4
<1>11. QED
  BY <1>4, <1>7, <1>8, <1>9, <1>10 DEF RouterReads

LEMMA RouterAcknowledgesKeepSession ==
  ASSUME IInv, Session, NEW m \in RouterMessage, RouterReadsAcknowledge(m) \/ BeginRedirect(m)
  PROVE  Session'
<1>1. TypeOK /\ RouterTakes(Acknowledge(m))
  BY DEF IInv, RouterReadsAcknowledge, BeginRedirect
<1>2. Acknowledge(m) \in toRouter /\ UNCHANGED <<clientVars, repeats, outages>>
  BY <1>1, RouterTakesType
<1>3. UNCHANGED <<myRecentMesseges, myIsConnected, myId>>
  BY <1>2 DEF clientVars, session, tracking
<1> SUFFICES ASSUME outages = 0 PROVE BeforeSession' /\ DuringSession'
  BY <1>2 DEF Session
<1>4. entry # None
  <2>1. Acknowledge(m)[1] # "Setup"
    BY DEF Acknowledge
  <2>2. QED
    BY <1>2, <2>1 DEF Session, BeforeSession
<1>5. entry \in Connection /\ Found = entry /\ Unconfirmed = entry.unconfirmed
  BY <1>1, <1>4 DEF TypeOK, Found, Unconfirmed
<1>6. PICK s \in SUBSET RouterMessage :
        /\ \A a \in s \ Unconfirmed : a[1] = "PotentialServer"
        /\ entry' \in Connection
        /\ entry'.unconfirmed = s
        /\ entry'.myID = entry.myID /\ entry'.myIsValid = entry.myIsValid
  <2>1. CASE RouterReadsAcknowledge(m)
    <3>1. entry' = [entry EXCEPT !.unconfirmed = @ \ {m}]
      BY <1>5, <2>1 DEF RouterReadsAcknowledge
    <3>2. /\ entry' \in Connection /\ entry'.unconfirmed = entry.unconfirmed \ {m}
          /\ entry'.myID = entry.myID /\ entry'.myIsValid = entry.myIsValid
          /\ entry.unconfirmed \ {m} \in SUBSET RouterMessage
      BY <1>5, <3>1 DEF Connection
    <3>3. QED
      BY <1>5, <3>2
  <2>2. CASE BeginRedirect(m)
    <3> DEFINE asked == <<"PotentialServer", redirects', 0>>
    <3>1. redirects' \in Redirects
      BY <1>1, <2>2, ClientAssumption DEF BeginRedirect, TypeOK, Redirects
    <3>2. asked \in RouterMessage /\ asked[1] = "PotentialServer"
      BY <3>1 DEF RouterMessage
    <3>3. entry' = [entry EXCEPT !.myIsRedirecting = TRUE,
                                 !.unconfirmed = (@ \ {m}) \union {asked}]
      BY <2>2 DEF BeginRedirect
    <3> HIDE DEF asked
    <3>4. /\ entry' \in Connection /\ entry'.unconfirmed = (entry.unconfirmed \ {m}) \union {asked}
          /\ entry'.myID = entry.myID /\ entry'.myIsValid = entry.myIsValid
          /\ (entry.unconfirmed \ {m}) \union {asked} \in SUBSET RouterMessage
      BY <1>5, <3>2, <3>3 DEF Connection
    <3>5. QED
      BY <1>5, <3>2, <3>4
  <2>3. QED
    BY <2>1, <2>2
<1>7. entry' # None /\ Unconfirmed' = s
  BY <1>6, NoneAssumption DEF Unconfirmed
<1>8. QED
  BY <1>3, <1>4, <1>6, <1>7 DEF Session, BeforeSession, DuringSession

(* Only giving the client up makes a Connection invalid, and only one that *)
(* is invalid is reaped.                                                   *)
LEMMA RouterTimeKeepsSession ==
  ASSUME IInv, Session, GivesUp \/ DecideRedirect \/ Reap
  PROVE  Session'
<1>1. TypeOK
  BY DEF IInv
<1>2. UNCHANGED <<clientVars, myRecentMesseges, myIsConnected, myId>>
  BY DEF GivesUp, DecideRedirect, Reap, RouterFlushes, clientVars, session, tracking
<1>3. CASE GivesUp
  <2>1. outages' # 0
    BY <1>1, <1>3 DEF GivesUp, TypeOK
  <2>2. QED
    BY <2>1 DEF Session
<1>4. CASE Reap
  <2>1. outages # 0 /\ outages' = outages
    BY <1>4 DEF Reap, Session, DuringSession
  <2>2. QED
    BY <2>1 DEF Session
<1>5. CASE DecideRedirect
  <2>1. outages' = outages /\ entry \in Connection /\ entry # None /\ entry' \in Decided
    BY <1>1, <1>5 DEF DecideRedirect, RouterFlushes, TypeOK
  <2>2. SUFFICES ASSUME outages = 0 PROVE BeforeSession' /\ DuringSession'
    BY <2>1 DEF Session
  <2> DEFINE sentOn == <<"ConnectToServer", redirects, 0>>
  <2>3. entry' = [entry EXCEPT !.myIsRedirecting = FALSE, !.unconfirmed = @ \union {sentOn}]
        /\ entry.myIsRedirecting
    BY <2>1 DEF Decided
  <2>4. sentOn \in RouterMessage /\ sentOn[1] = "ConnectToServer"
    <3>1. redirects > 0
      BY <2>1, <2>3 DEF IInv, RedirectsWereBegun
    <3>2. redirects \in Redirects
      BY <1>1, <3>1, ClientAssumption DEF TypeOK, Redirects
    <3>3. QED
      BY <3>2 DEF RouterMessage
  <2> HIDE DEF sentOn
  <2>5. /\ entry' \in Connection /\ entry'.unconfirmed = entry.unconfirmed \union {sentOn}
        /\ entry'.myID = entry.myID /\ entry'.myIsValid = entry.myIsValid
    BY <2>1, <2>3, <2>4 DEF Connection
  <2>6. entry' # None /\ Unconfirmed' = Unconfirmed \union {sentOn}
    BY <2>1, <2>5, NoneAssumption DEF Unconfirmed
  <2>7. QED
    BY <1>2, <2>1, <2>2, <2>4, <2>5, <2>6 DEF Session, BeforeSession, DuringSession
<1>6. QED
  BY <1>3, <1>4, <1>5

LEMMA NextSession == IInv /\ Session /\ [Next]_vars => Session'
<1> SUFFICES ASSUME IInv, Session, [Next]_vars PROVE Session'
  OBVIOUS
<1>1. CASE ClientNext /\ UNCHANGED router
  BY <1>1, ClientKeepsSession
<1>2. ASSUME NEW m \in Unconfirmed, Receive(m), UNCHANGED router PROVE Session'
  BY <1>2, ReceiveKeepsSession
<1>3. CASE RouterNext
  BY <1>3, RouterReadsKeepSession, RouterAcknowledgesKeepSession, RouterTimeKeepsSession
     DEF RouterNext
<1>4. CASE UNCHANGED vars
  BY <1>4 DEF vars, clientVars, thread, session, tracking, network, router, Session,
              BeforeSession, DuringSession, Unconfirmed, Tracked
<1>5. QED
  BY <1>1, <1>2, <1>3, <1>4 DEF Next, Unconfirmed

(* Until the router gives the client up they agree on the session, however *)
(* many redirects and repetitions there are (TClient.cpp:223-231).         *)
THEOREM OneSessionHolds == Spec => []OneSession
<1>1. IInv /\ Session => OneSession
  BY DEF IInv, TypeOK, Session, BeforeSession, DuringSession, OneSession, Unconfirmed
<1>2. QED
  BY <1>1, IInvHolds, InitSession, NextSession, PTL DEF Spec

(* Reading a message of the client takes nothing off what the router tracks. *)
LEMMA RouterReadsTracks ==
  ASSUME TypeOK, NEW m \in ClientMessage, RouterReads(m)
  PROVE  Unconfirmed \subseteq Unconfirmed'
<1>1. RouterTakes(m)
  BY DEF RouterReads, RouterReadsDuplicate, RouterRefuses, RouterReadsGoodbye,
         RouterReadsSetup, RouterReadsIdentify, Handles
<1>2. Found \in Connection /\ Found.unconfirmed = Unconfirmed
  BY <1>1, RouterTakesType
<1>3. ASSUME NEW c \in Connection, c.unconfirmed = Unconfirmed,
             NEW answers \in SUBSET RouterMessage, Handles(m, c, answers)
      PROVE  Unconfirmed \subseteq Unconfirmed'
  <2>1. entry' \in Connection /\ entry'.unconfirmed = c.unconfirmed \union answers
    BY <1>3, HandlesType
  <2>2. QED
    BY <1>3, <2>1, NoneAssumption DEF Unconfirmed
<1>4. CASE RouterReadsDuplicate(m)
  BY <1>4 DEF RouterReadsDuplicate, Unconfirmed
<1>5. CASE RouterRefuses(m)
  <2> DEFINE answers == IF m[1] = "Identify" THEN {<<"Refuse", m[2], Found.myID>>} ELSE {}
  <2>1. answers \subseteq RouterMessage
    BY <1>2 DEF RouterMessage, Connection, ClientMessage
  <2>2. Handles(m, Found, answers)
    BY <1>5 DEF RouterRefuses
  <2> HIDE DEF answers
  <2>3. QED
    BY <1>2, <1>3, <2>1, <2>2
<1>6. CASE RouterReadsGoodbye(m)
  BY <1>2, <1>3, <1>6 DEF RouterReadsGoodbye
<1>7. ASSUME NEW i \in HandShakes, RouterReadsSetup(i), m = <<"Setup", i>>
      PROVE  Unconfirmed \subseteq Unconfirmed'
  <2> DEFINE c == [Found EXCEPT !.myIsValid = TRUE]
             answers == IF Found.myIsValid THEN {} ELSE {<<"Accept", i, Found.myID>>}
  <2>1. c \in Connection /\ c.unconfirmed = Unconfirmed
    BY <1>2 DEF Connection
  <2>2. answers \subseteq RouterMessage
    BY <1>2 DEF RouterMessage, Connection
  <2>3. Handles(m, c, answers)
    BY <1>7 DEF RouterReadsSetup
  <2> HIDE DEF answers, c
  <2>4. QED
    BY <1>3, <2>1, <2>2, <2>3
<1>8. ASSUME NEW i \in HandShakes, RouterReadsIdentify(i), m = <<"Identify", i>>
      PROVE  Unconfirmed \subseteq Unconfirmed'
  <2> DEFINE answers == {<<"Identify", i, Found.myID>>}
  <2>1. answers \subseteq RouterMessage
    BY <1>2 DEF RouterMessage, Connection
  <2>2. Handles(m, Found, answers)
    BY <1>8 DEF RouterReadsIdentify
  <2> HIDE DEF answers
  <2>3. QED
    BY <1>2, <1>3, <2>1, <2>2
<1>9. QED
  BY <1>4, <1>5, <1>6, <1>7, <1>8 DEF RouterReads

(***************************************************************************)
(* The router stops sending a message when the client has heard it, or     *)
(* when it drops the Connection that it has given up (NetworkInterface.cpp *)
(* 79-105; the router's ServerMain.cpp:137).                               *)
(***************************************************************************)
StopsWhenHeard ==
  \A m \in Unconfirmed \ Unconfirmed' :
    m \in myRecentMesseges \/ (~entry.myIsValid /\ entry' = None)

THEOREM RouterLosesNothing == Spec => [][StopsWhenHeard]_vars
<1>1. IInv /\ [Next]_vars => [StopsWhenHeard]_vars
  <2> SUFFICES ASSUME IInv, Next, NEW m \in Unconfirmed, m \notin Unconfirmed'
               PROVE  m \in myRecentMesseges \/ (~entry.myIsValid /\ entry' = None)
    BY DEF StopsWhenHeard
  <2>1. /\ TypeOK /\ entry # None /\ entry \in Connection
        /\ Unconfirmed = entry.unconfirmed /\ Found = entry
    BY DEF IInv, TypeOK, Unconfirmed, Found
  <2>2. CASE UNCHANGED router
    BY <2>2 DEF router, Unconfirmed
  <2>3. ASSUME NEW n \in ClientMessage, RouterReads(n) PROVE FALSE
    BY <2>1, <2>3, RouterReadsTracks
  <2>4. ASSUME NEW n \in RouterMessage, RouterReadsAcknowledge(n) \/ BeginRedirect(n)
        PROVE  m \in myRecentMesseges
    <3>1. Acknowledge(n) \in toRouter
      BY <2>4 DEF RouterReadsAcknowledge, BeginRedirect, RouterTakes
    <3>2. n \in myRecentMesseges
      BY <3>1 DEF IInv, AcksWereHeard
    <3>3. CASE RouterReadsAcknowledge(n)
      <4>1. entry' = [entry EXCEPT !.unconfirmed = @ \ {n}]
        BY <2>1, <3>3 DEF RouterReadsAcknowledge
      <4>2. entry'.unconfirmed = entry.unconfirmed \ {n} /\ entry' \in Connection
        BY <2>1, <4>1 DEF Connection
      <4>3. QED
        BY <2>1, <3>2, <4>2, NoneAssumption DEF Unconfirmed
    <3>4. CASE BeginRedirect(n)
      <4> DEFINE asked == <<"PotentialServer", redirects', 0>>
      <4>1. redirects' \in Redirects
        BY <2>1, <3>4, ClientAssumption DEF BeginRedirect, TypeOK, Redirects
      <4>2. asked \in RouterMessage
        BY <4>1 DEF RouterMessage
      <4>3. entry' = [entry EXCEPT !.myIsRedirecting = TRUE,
                                   !.unconfirmed = (@ \ {n}) \union {asked}]
        BY <3>4 DEF BeginRedirect
      <4> HIDE DEF asked
      <4>4. entry'.unconfirmed = (entry.unconfirmed \ {n}) \union {asked} /\ entry' \in Connection
        BY <2>1, <4>2, <4>3 DEF Connection
      <4>5. QED
        BY <2>1, <3>2, <4>4, NoneAssumption DEF Unconfirmed
    <3>5. QED
      BY <2>4, <3>3, <3>4
  <2>5. ASSUME NEW c \in {entry} \union Decided,
               entry' = c \/ entry' = [c EXCEPT !.myIsValid = FALSE]
        PROVE  FALSE
    <3>1. c \in Connection /\ entry.unconfirmed \subseteq c.unconfirmed
      <4>1. CASE c = entry
        BY <2>1, <4>1
      <4>2. CASE c \in Decided
        <5> DEFINE sentOn == <<"ConnectToServer", redirects, 0>>
        <5>1. c = [entry EXCEPT !.myIsRedirecting = FALSE, !.unconfirmed = @ \union {sentOn}]
              /\ entry.myIsRedirecting
          BY <4>2 DEF Decided
        <5>2. redirects \in Redirects
          BY <2>1, <5>1, ClientAssumption DEF IInv, RedirectsWereBegun, TypeOK, Redirects
        <5>3. sentOn \in RouterMessage
          BY <5>2 DEF RouterMessage
        <5> HIDE DEF sentOn
        <5>4. QED
          BY <2>1, <5>1, <5>3 DEF Connection
      <4>3. QED
        BY <4>1, <4>2
    <3>2. entry' \in Connection /\ entry'.unconfirmed = c.unconfirmed
      BY <2>5, <3>1 DEF Connection
    <3>3. QED
      BY <2>1, <3>1, <3>2, NoneAssumption DEF Unconfirmed
  <2>6. CASE Reap
    BY <2>6 DEF Reap
  <2>7. CASE GivesUp \/ DecideRedirect
    BY <2>5, <2>7 DEF GivesUp, DecideRedirect
  <2>8. QED
    BY <2>2, <2>3, <2>4, <2>6, <2>7 DEF Next, RouterNext
<1>2. QED
  BY <1>1, IInvHolds, PTL DEF Spec

(* What the router acknowledges its Connection has heard. *)
Answered == outages = 0 => \A m \in toClient : entry # None /\ m \in entry.recent

LEMMA NextAnswered == IInv /\ Session /\ Answered /\ [Next]_vars => Answered'
<1> SUFFICES ASSUME IInv, Session, Answered, [Next]_vars, outages' = 0
             PROVE  \A m \in toClient' : entry' # None /\ m \in entry'.recent
  BY DEF Answered
<1>1. TypeOK
  BY DEF IInv
<1>2. CASE UNCHANGED router /\ toClient' \subseteq toClient
  BY <1>2 DEF router, Answered
<1>3. ASSUME NEW m \in ClientMessage, RouterReads(m)
      PROVE  \A n \in toClient' : entry' # None /\ n \in entry'.recent
  <2>1. RouterTakes(m)
    BY <1>3 DEF RouterReads, RouterReadsDuplicate, RouterRefuses, RouterReadsGoodbye,
           RouterReadsSetup, RouterReadsIdentify, Handles
  <2>2. outages = 0 /\ Found \in Connection
    BY <1>1, <2>1, RouterTakesType
  <2>3. ASSUME NEW n \in toClient PROVE entry # None /\ n \in Found.recent
    BY <2>2 DEF Answered, Found
  <2>4. ASSUME NEW c \in Connection, c.recent = Found.recent,
               NEW answers \in SUBSET RouterMessage, Handles(m, c, answers)
        PROVE  \A n \in toClient' : entry' # None /\ n \in entry'.recent
    <3>1. entry' = [c EXCEPT !.recent = @ \union {m}, !.unconfirmed = @ \union answers]
          /\ toClient' = toClient \union {m}
      BY <2>4 DEF Handles
    <3>2. entry' \in Connection /\ entry'.recent = Found.recent \union {m}
      BY <2>4, <3>1 DEF Connection
    <3>3. QED
      BY <2>3, <3>1, <3>2, NoneAssumption
  <2>5. CASE RouterReadsDuplicate(m)
    BY <2>2, <2>5 DEF RouterReadsDuplicate, Answered
  <2>6. CASE RouterRefuses(m)
    <3> DEFINE answers == IF m[1] = "Identify" THEN {<<"Refuse", m[2], Found.myID>>} ELSE {}
    <3>1. answers \subseteq RouterMessage
      BY <2>2 DEF RouterMessage, Connection, ClientMessage
    <3>2. Handles(m, Found, answers)
      BY <2>6 DEF RouterRefuses
    <3> HIDE DEF answers
    <3>3. QED
      BY <2>2, <2>4, <3>1, <3>2
  <2>7. CASE RouterReadsGoodbye(m)
    BY <2>2, <2>4, <2>7 DEF RouterReadsGoodbye
  <2>8. ASSUME NEW i \in HandShakes, RouterReadsSetup(i), m = <<"Setup", i>>
        PROVE  \A n \in toClient' : entry' # None /\ n \in entry'.recent
    <3> DEFINE c == [Found EXCEPT !.myIsValid = TRUE]
               answers == IF Found.myIsValid THEN {} ELSE {<<"Accept", i, Found.myID>>}
    <3>1. c \in Connection /\ c.recent = Found.recent
      BY <2>2 DEF Connection
    <3>2. answers \subseteq RouterMessage
      BY <2>2 DEF RouterMessage, Connection
    <3>3. Handles(m, c, answers)
      BY <2>8 DEF RouterReadsSetup
    <3> HIDE DEF answers, c
    <3>4. QED
      BY <2>4, <3>1, <3>2, <3>3
  <2>9. ASSUME NEW i \in HandShakes, RouterReadsIdentify(i), m = <<"Identify", i>>
        PROVE  \A n \in toClient' : entry' # None /\ n \in entry'.recent
    <3> DEFINE answers == {<<"Identify", i, Found.myID>>}
    <3>1. answers \subseteq RouterMessage
      BY <2>2 DEF RouterMessage, Connection
    <3>2. Handles(m, Found, answers)
      BY <2>9 DEF RouterReadsIdentify
    <3> HIDE DEF answers
    <3>3. QED
      BY <2>2, <2>4, <3>1, <3>2
  <2>10. QED
    BY <1>3, <2>5, <2>6, <2>7, <2>8, <2>9 DEF RouterReads
<1>4. ASSUME NEW m \in RouterMessage, RouterReadsAcknowledge(m) \/ BeginRedirect(m)
      PROVE  \A n \in toClient' : entry' # None /\ n \in entry'.recent
  <2>1. /\ toClient' = toClient /\ outages' = outages
        /\ \A n \in toClient : entry # None /\ n \in entry.recent
    BY <1>4 DEF RouterReadsAcknowledge, BeginRedirect, RouterTakes, Answered
  <2>2. CASE toClient = {}
    BY <2>1, <2>2
  <2>3. CASE toClient # {}
    <3>1. entry # None /\ entry \in Connection /\ Found = entry
      BY <1>1, <2>1, <2>3 DEF TypeOK, Found
    <3>2. CASE RouterReadsAcknowledge(m)
      <4>1. entry' = [entry EXCEPT !.unconfirmed = @ \ {m}]
        BY <3>1, <3>2 DEF RouterReadsAcknowledge
      <4>2. entry' \in Connection /\ entry'.recent = entry.recent
        BY <3>1, <4>1 DEF Connection
      <4>3. QED
        BY <2>1, <4>2, NoneAssumption
    <3>3. CASE BeginRedirect(m)
      <4> DEFINE asked == <<"PotentialServer", redirects', 0>>
      <4>1. redirects' \in Redirects
        BY <1>1, <3>3, ClientAssumption DEF BeginRedirect, TypeOK, Redirects
      <4>2. asked \in RouterMessage
        BY <4>1 DEF RouterMessage
      <4>3. entry' = [entry EXCEPT !.myIsRedirecting = TRUE,
                                   !.unconfirmed = (@ \ {m}) \union {asked}]
        BY <3>3 DEF BeginRedirect
      <4> HIDE DEF asked
      <4>4. entry' \in Connection /\ entry'.recent = entry.recent
        BY <3>1, <4>2, <4>3 DEF Connection
      <4>5. QED
        BY <2>1, <4>4, NoneAssumption
    <3>4. QED
      BY <1>4, <3>2, <3>3
  <2>4. QED
    BY <2>2, <2>3
<1>5. CASE GivesUp
  BY <1>1, <1>5 DEF GivesUp, TypeOK
<1>6. CASE Reap
  BY <1>6 DEF Reap, Session, DuringSession
<1>7. CASE DecideRedirect
  <2>1. /\ outages = 0 /\ toClient' = toClient /\ entry \in Connection /\ entry # None
        /\ entry' \in Decided
    BY <1>1, <1>7 DEF DecideRedirect, RouterFlushes, network, TypeOK
  <2> DEFINE sentOn == <<"ConnectToServer", redirects, 0>>
  <2>2. entry' = [entry EXCEPT !.myIsRedirecting = FALSE, !.unconfirmed = @ \union {sentOn}]
        /\ entry.myIsRedirecting
    BY <2>1 DEF Decided
  <2>3. redirects \in Redirects
    BY <1>1, <2>1, <2>2, ClientAssumption DEF IInv, RedirectsWereBegun, TypeOK, Redirects
  <2>4. sentOn \in RouterMessage
    BY <2>3 DEF RouterMessage
  <2> HIDE DEF sentOn
  <2>5. entry' \in Connection /\ entry'.recent = entry.recent
    BY <2>1, <2>2, <2>4 DEF Connection
  <2>6. QED
    BY <2>1, <2>5, NoneAssumption DEF Answered
<1>8. CASE RouterNext
  BY <1>3, <1>4, <1>5, <1>6, <1>7, <1>8 DEF RouterNext
<1>9. CASE ClientNext /\ UNCHANGED router
  <2>1. toClient' \subseteq toClient
    BY <1>9 DEF ClientNext, SendRequest, TimedOut, Disconnect, FlushSends, ReceiveAcknowledge,
                FlushEnds, FlushEndsInHandShake, HandShakeReturns, network
  <2>2. QED
    BY <1>2, <1>9, <2>1
<1>10. ASSUME NEW m \in Unconfirmed, Receive(m), UNCHANGED router
       PROVE  toClient' \subseteq toClient
  <2>1. m \in RouterMessage /\ ClientTypeOK
    BY <1>1 DEF TypeOK, Unconfirmed, Connection
  <2>2. QED
    BY <1>10, <2>1, ReceiveType
<1>11. CASE UNCHANGED vars
  BY <1>2, <1>11 DEF vars, network
<1>12. QED
  BY <1>2, <1>8, <1>9, <1>10, <1>11 DEF Next, Unconfirmed

(***************************************************************************)
(* Until the router gives it up the client, for its part, stops sending a  *)
(* message again only when the Connection has heard it, though a redirect  *)
(* turns what it sends to a socket that answers nothing (TClient.cpp:312,  *)
(* 325, 413; NetworkInterface.cpp:79-105).                                 *)
(***************************************************************************)
StopsWhenAnswered ==
  outages = 0 => \A m \in Tracked \ Tracked' : entry # None /\ m \in entry.recent

THEOREM ClientLosesNothing == Spec => [][StopsWhenAnswered]_vars
<1>1. Init => Answered
  BY DEF Init, ClientInit, Answered
<1>2. IInv /\ Answered /\ [Next]_vars => [StopsWhenAnswered]_vars
  <2> SUFFICES ASSUME IInv, Answered, Next, outages = 0, NEW m \in Tracked, m \notin Tracked'
               PROVE  m \in toClient
    BY DEF StopsWhenAnswered, Answered
  <2>1. ClientTypeOK /\ m \in ClientMessage /\ myPendingAccepts[m] > 0
    BY DEF IInv, TypeOK, Tracked
  <2>2. ~(myPendingAccepts'[m] > 0)
    BY <2>1 DEF Tracked
  <2>3. ASSUME NEW n, Track(n) PROVE FALSE
    BY <2>1, <2>2, <2>3 DEF Track, ClientTypeOK
  <2>4. CASE UNCHANGED myPendingAccepts
    BY <2>1, <2>2, <2>4
  <2>5. ASSUME NEW n \in ClientMessage, ReceiveAcknowledge(n) PROVE m \in toClient
    <3> DEFINE known == myPendingAccepts[n] > 0
               answer == IF known /\ n[1] = "Ping" THEN {<<"EvaluatedServer", n[2]>>} ELSE {}
    <3>1. /\ n \in toClient
          /\ myPendingAccepts' =
               [k \in ClientMessage |->
                  CASE k = n /\ known  -> myPendingAccepts[k] - 1
                    [] k \in answer    -> myPendingAccepts[k] + 1
                    [] OTHER           -> myPendingAccepts[k]]
      BY <2>5 DEF ReceiveAcknowledge
    <3>2. myPendingAccepts[m] \in Nat
      BY <2>1 DEF ClientTypeOK
    <3> HIDE DEF known, answer
    <3>3. m # n => myPendingAccepts'[m] >= myPendingAccepts[m]
      BY <2>1, <3>1, <3>2
    <3>4. QED
      BY <2>1, <2>2, <3>1, <3>2, <3>3
  <2>6. CASE ClientNext
    BY <2>3, <2>4, <2>5, <2>6
       DEF ClientNext, SendRequest, TimedOut, Disconnect, FlushSends, FlushEnds,
           FlushEndsInHandShake, HandShakeReturns, tracking
  <2>7. ASSUME NEW n \in Unconfirmed, Receive(n) PROVE m \in toClient
    BY <2>3, <2>4, <2>7
       DEF Receive, ReceiveDuplicate, HandShakeAttempt, Reconnect, Redirect, EvaluateServer,
           ReceiveIdentify
  <2>8. CASE RouterNext
    <3>1. UNCHANGED clientVars
      BY <2>8 DEF RouterNext, RouterReads, RouterReadsDuplicate, RouterRefuses, RouterReadsGoodbye,
             RouterReadsSetup, RouterReadsIdentify, Handles, RouterReadsAcknowledge, BeginRedirect,
             RouterTakes, GivesUp, DecideRedirect, RouterFlushes, Reap
    <3>2. QED
      BY <2>4, <3>1 DEF clientVars, tracking
  <2>9. QED
    BY <2>6, <2>7, <2>8 DEF Next, Unconfirmed
<1>3. QED
  BY <1>1, <1>2, IInvHolds, InitSession, NextSession, NextAnswered, PTL DEF Spec
=============================================================================
