-------------------------- MODULE GameServerProofs --------------------------
(* Theorems about GameServer, for every value of its constants.            *)
EXTENDS GameServer, FiniteSetTheorems, TLAPS

-----------------------------------------------------------------------------
(* The inductive invariant.                                                *)

(* While a handshake waits for its answer the server is not connected, so  *)
(* that TimedOut does not connect again from inside it.                    *)
WaitsDisconnected ==
  at \in {"request", "waiting"} \/ (at = "receiving" /\ myIsHandshaking) => ~myIsConnected

(* What reads as an acceptance comes from a router that has accepted; a    *)
(* redirected client's request does, for only a Connection that has been   *)
(* valid can be a server's.                                                *)
AcceptancesAreTrue ==
  /\ \A d \in fromRouter : d[1] \in {"Accept", "Redirected"} => history.accepted
  /\ router.myIsValid \/ router.myIsServer => history.accepted

(* IDCOUNTER counts entries of the table. *)
MadeAreInTable == made <= Cardinality({p \in Clients : myClients[p] # None})

IInv ==
  /\ TypeOK
  /\ HandShakeDoesNotNest
  /\ WaitsDisconnected
  /\ AcceptancesAreTrue
  /\ ConnectedWasAccepted
  /\ MadeAreInTable

-----------------------------------------------------------------------------
(* Lemmas about the table.                                                 *)

(* The cast to unsigned short gives an id. *)
LEMMA IdOfType == ASSUME NEW n \in Nat PROVE IdOf(n) \in Ids
  BY GameServerAssumption DEF IdOf, Ids

(* What Listen finds or makes for a peer is a Connection. *)
LEMMA EntryType ==
  ASSUME TypeOK, NEW p \in Clients
  PROVE  Entry(p) \in Connection
<1>1. made + 1 \in Nat
  BY GameServerAssumption, FS_CardinalityType DEF TypeOK
<1>2. IdOf(made + 1) \in Ids
  BY <1>1, IdOfType
<1>3. QED
  BY <1>2 DEF Entry, TypeOK, Connection

(* What TransmitMessage tells the connections of a table are ids. *)
LEMMA AnnounceType ==
  ASSUME NEW table \in [Clients -> Connection \union {None}], NEW k \in Clients, NEW id \in Ids,
         NEW heard \in [Clients -> SUBSET Ids], table[k] \in Connection
  PROVE  /\ AnnounceConnected(table, k, heard) \in [Clients -> SUBSET Ids]
         /\ AnnounceDisconnected(table, id, heard) \in [Clients -> SUBSET Ids]
<1>1. \A p \in Present(table) : p \in Clients /\ table[p].myID \in Ids
  BY DEF Present, Connection
<1>2. table[k].myID \in Ids
  BY DEF Connection
<1>3. AnnounceConnected(table, k, heard) \in [Clients -> SUBSET Ids]
  BY <1>1, <1>2 DEF AnnounceConnected
<1>4. AnnounceDisconnected(table, id, heard) \in [Clients -> SUBSET Ids]
  BY DEF AnnounceDisconnected
<1>5. QED
  BY <1>3, <1>4

(* A peer's entry is changed or made; when it is made the table has one    *)
(* more, and it never has more than there are peers.                       *)
LEMMA EntryCounts ==
  ASSUME TypeOK, MadeAreInTable, NEW p \in Clients, NEW c \in Connection,
         myClients' = [myClients EXCEPT ![p] = c]
  PROVE  /\ made <= Cardinality({q \in Clients : myClients'[q] # None})
         /\ myClients[p] = None =>
              made + 1 <= Cardinality({q \in Clients : myClients'[q] # None})
         /\ Cardinality({q \in Clients : myClients'[q] # None}) <= Cardinality(Clients)
<1> DEFINE before == {q \in Clients : myClients[q] # None}
           after == {q \in Clients : myClients'[q] # None}
<1>1. IsFiniteSet(before) /\ IsFiniteSet(after) /\ Cardinality(after) <= Cardinality(Clients)
  BY GameServerAssumption, FS_Subset
<1>2. after = before \union {p}
  BY NoneAssumption DEF TypeOK
<1>3. Cardinality(after) = IF p \in before THEN Cardinality(before) ELSE Cardinality(before) + 1
  BY <1>1, <1>2, FS_AddElement
<1>4. made \in Nat /\ Cardinality(before) \in Nat /\ made <= Cardinality(before)
  BY <1>1, GameServerAssumption, FS_CardinalityType DEF TypeOK, MadeAreInTable
<1>5. myClients[p] = None => p \notin before
  OBVIOUS
<1> HIDE DEF before, after
<1>6. /\ made <= Cardinality(after)
      /\ myClients[p] = None => made + 1 <= Cardinality(after)
  BY <1>3, <1>4, <1>5
<1>7. QED
  BY <1>1, <1>6 DEF after

(* Reading a datagram of p leaves the counters and the queue in their type. *)
LEMMA ReadsKeeps ==
  ASSUME TypeOK, MadeAreInTable, NEW p \in Clients, Reads(p), NEW c \in Connection,
         myClients' = [myClients EXCEPT ![p] = c]
  PROVE  /\ inbox' \in Seq(Datagram)
         /\ made' \in 0 .. Cardinality(Clients)
         /\ myClients' \in [Clients -> Connection \union {None}]
         /\ MadeAreInTable'
         /\ Head(inbox)[3] \in Ids
<1>1. inbox' \in Seq(Datagram) /\ Head(inbox)[3] \in Ids
  BY DEF Reads, TypeOK, Datagram
<1>2. myClients' \in [Clients -> Connection \union {None}]
  BY DEF TypeOK
<1>3. /\ made <= Cardinality({q \in Clients : myClients'[q] # None})
      /\ myClients[p] = None =>
           made + 1 <= Cardinality({q \in Clients : myClients'[q] # None})
      /\ Cardinality({q \in Clients : myClients'[q] # None}) <= Cardinality(Clients)
  BY EntryCounts
<1>4. Cardinality(Clients) \in Nat /\ made \in Nat
  BY GameServerAssumption, FS_CardinalityType DEF TypeOK
<1>5. Cardinality({q \in Clients : myClients'[q] # None}) \in Nat
  BY GameServerAssumption, FS_Subset, FS_CardinalityType
<1>6. made' = IF myClients[p] = None THEN made + 1 ELSE made
  BY DEF Reads
<1>7. MadeAreInTable' /\ made' \in 0 .. Cardinality(Clients)
  BY <1>3, <1>4, <1>5, <1>6 DEF MadeAreInTable
<1>8. QED
  BY <1>1, <1>2, <1>7

-----------------------------------------------------------------------------
(* Upstream.                                                               *)

(* The part of the type invariant that Listen does not touch, and that     *)
(* which the handshake does not.                                           *)
UpstreamTypeOK ==
  /\ socket \in Sockets /\ at \in Places /\ frames \in Nat
  /\ myIsConnected \in BOOLEAN /\ myIsHandshaking \in BOOLEAN
  /\ pending \in [Message -> Nat] /\ toRouter \subseteq Message
  /\ fromRouter \subseteq Answer \union {Redirected}
  /\ router \in RouterConnection /\ history \in History

UpstreamInv ==
  UpstreamTypeOK /\ HandShakeDoesNotNest /\ WaitsDisconnected /\ AcceptancesAreTrue
    /\ ConnectedWasAccepted

DownstreamInv ==
  /\ myClients \in [Clients -> Connection \union {None}]
  /\ made \in 0 .. Cardinality(Clients)
  /\ inbox \in Seq(Datagram)
  /\ sent \in 0 .. SendCap /\ errors \in 0 .. ErrorBound
  /\ running \in BOOLEAN
  /\ told \in [Clients -> SUBSET Ids] /\ assigned \in [Clients -> SUBSET Ids]
  /\ left \subseteq Ids
  /\ MadeAreInTable

(* The invariant is that of the two halves of the program. *)
LEMMA Halves ==
  /\ IInv <=> UpstreamInv /\ DownstreamInv
  /\ IInv' <=> UpstreamInv' /\ DownstreamInv'
  BY DEF IInv, UpstreamInv, DownstreamInv, UpstreamTypeOK, TypeOK

(* A message of the handshake may be sent whenever it has a socket. *)
LEMMA SendUpstreamType ==
  ASSUME UpstreamTypeOK, NEW m \in Message, SendUpstream(m)
  PROVE  pending' \in [Message -> Nat] /\ toRouter' \subseteq Message
  BY DEF UpstreamTypeOK, SendUpstream

(* A step of the upstream half keeps that half's invariant. *)
LEMMA UpstreamStep ==
  ASSUME UpstreamInv, Upstream
  PROVE  UpstreamInv'
<1> USE DEF UpstreamInv, UpstreamTypeOK, HandShakeDoesNotNest, WaitsDisconnected,
            AcceptancesAreTrue, ConnectedWasAccepted, Places
<1>1. CASE SendRequest
  <2>1. <<"Setup", socket>> \in Message
    BY DEF Message
  <2>2. pending' \in [Message -> Nat] /\ toRouter' \subseteq Message
    BY <1>1, <2>1, SendUpstreamType DEF SendRequest
  <2>3. QED
    BY <1>1, <2>2 DEF SendRequest
<1>2. CASE FlushInHandShake
  BY <1>2 DEF FlushInHandShake, Resend, Waiting
<1>3. CASE FlushInListen
  BY <1>3 DEF FlushInListen, Resend, Waiting
<1>4. CASE TimedOut
  <2>1. at = "listen" /\ frames = 0
    BY <1>4 DEF TimedOut
  <2>2. socket' \in Sockets
    BY <1>4, GameServerAssumption DEF TimedOut, Connect, Sockets
  <2>3. /\ router' \in RouterConnection /\ fromRouter' = {}
        /\ ~router'.myIsServer /\ ~router'.myIsValid /\ history' \in History
    BY <1>4, GameServerAssumption
    DEF TimedOut, Connect, Unknown, RouterConnection, NewSocket, History
  <2>4. /\ toRouter' = {} /\ myIsConnected' = FALSE /\ at' = "request" /\ frames' = 1
        /\ UNCHANGED <<myIsHandshaking, pending>>
    BY <1>4, <2>1 DEF TimedOut, Connect
  <2>5. UpstreamTypeOK'
    BY <2>2, <2>3, <2>4
  <2>6. HandShakeDoesNotNest' /\ WaitsDisconnected' /\ ConnectedWasAccepted'
    BY <2>4
  <2>7. AcceptancesAreTrue'
    BY <2>3
  <2>8. QED
    BY <2>5, <2>6, <2>7
<1>5. CASE FlushEnds
  <2>1. ASSUME SendUpstream(<<"Identify", socket>>)
        PROVE  pending' \in [Message -> Nat] /\ toRouter' \subseteq Message
    BY <2>1, SendUpstreamType DEF Message
  <2>2. CASE ~myIsHandshaking /\ myIsConnected
    <3>1. /\ pending' \in [Message -> Nat] /\ toRouter' \subseteq Message
          /\ at' = "listen" /\ myIsHandshaking' = FALSE
          /\ UNCHANGED <<socket, myIsConnected, fromRouter, router, history>>
      BY <1>5, <2>1, <2>2 DEF FlushEnds
    <3>2. frames' = 0
      BY <1>5, <2>2 DEF FlushEnds
    <3>3. UpstreamTypeOK'
      BY <3>1, <3>2 DEF UpstreamTypeOK
    <3>4. HandShakeDoesNotNest' /\ WaitsDisconnected'
      BY <3>1, <3>2
    <3>5. AcceptancesAreTrue' /\ ConnectedWasAccepted'
      BY <3>1
    <3>6. QED
      BY <3>3, <3>4, <3>5
  <2>3. CASE myIsHandshaking \/ ~myIsConnected
    BY <1>5, <2>3 DEF FlushEnds
  <2>4. QED
    BY <2>2, <2>3
<1>6. ASSUME NEW m \in Message, ReceiveAcknowledge(m) PROVE UpstreamInv'
  BY <1>6 DEF ReceiveAcknowledge
<1>7. ASSUME NEW d \in fromRouter, ReceiveSetup(d) PROVE UpstreamInv'
  <2>1. d[1] \in {"Accept", "Refuse", "Acknowledge", "Redirected"}
    BY DEF Answer, Redirected
  <2>2. d[1] # "Refuse" => history.accepted
    BY <1>7, <2>1 DEF ReceiveSetup
  <2>3. /\ fromRouter' \subseteq fromRouter
        /\ UNCHANGED <<socket, at, frames, pending, toRouter, router>>
        /\ at \in {"receiving", "listen"}
    BY <1>7 DEF ReceiveSetup
  <2>4. CASE HandShakeAttempt(d) /\ UNCHANGED history
    <3>1. /\ myIsHandshaking' = FALSE /\ myIsConnected' \in BOOLEAN
          /\ myIsConnected' => myIsConnected \/ d[1] # "Refuse"
      BY <2>4 DEF HandShakeAttempt
    <3>2. QED
      BY <2>2, <2>3, <2>4, <3>1
  <2>5. CASE /\ UNCHANGED <<myIsHandshaking, myIsConnected>>
             /\ history' = [history EXCEPT
                  !.unheeded = @ \/ (~myIsConnected /\ d[1] = "Accept")]
    <3>1. history' \in History /\ history'.accepted = history.accepted
      BY <2>5 DEF History
    <3>2. QED
      BY <2>3, <2>5, <3>1
  <2>6. QED
    BY <1>7, <2>4, <2>5 DEF ReceiveSetup
<1>8. QED
  BY <1>1, <1>2, <1>3, <1>4, <1>5, <1>6, <1>7 DEF Upstream

(* So does what the router does with its Connection. *)
RouterSteps ==
  ClientRedirected \/ RouterGivesUp \/ RouterReaps \/ \E m \in Message : RouterReceives(m)

LEMMA RouterStep ==
  ASSUME UpstreamInv, RouterSteps
  PROVE  UpstreamInv'
<1> USE DEF UpstreamInv, UpstreamTypeOK, HandShakeDoesNotNest, WaitsDisconnected,
            AcceptancesAreTrue, ConnectedWasAccepted
<1>1. CASE ClientRedirected
  BY <1>1 DEF ClientRedirected, RouterConnection, Redirected
<1>2. ASSUME NEW m \in Message, RouterReceives(m) PROVE UpstreamInv'
  <2> DEFINE isNew == m \notin router.recent
             answers == {<<"Acknowledge", m>>} \union
               (IF ~isNew \/ router.myIsValid THEN {}
                ELSE IF m[1] = "Setup" THEN {<<"Accept", m>>} ELSE {<<"Refuse", m>>})
  <2>1. /\ answers \subseteq Answer /\ \A d \in answers : d[1] # "Redirected"
        /\ \A d \in answers : d[1] = "Accept" => d = <<"Accept", m>>
        /\ isNew /\ ~router.myIsValid /\ m[1] = "Setup" => <<"Accept", m>> \in answers
    BY DEF Answer
  <2>2. /\ fromRouter' = fromRouter \union answers
        /\ history' = [history EXCEPT !.accepted = @ \/ <<"Accept", m>> \in answers]
        /\ router' = [router EXCEPT
             !.recent = @ \union {m},
             !.myIsValid = @ \/ (isNew /\ m[1] = "Setup"),
             !.myIsServer = @ \/ (isNew /\ router.myIsValid /\ m[1] = "Identify")]
    BY <1>2 DEF RouterReceives
  <2>3. /\ router' \in RouterConnection
        /\ router'.myIsValid => router.myIsValid \/ (isNew /\ m[1] = "Setup")
        /\ router'.myIsServer => router.myIsServer \/ router.myIsValid
    BY <2>2 DEF RouterConnection
  <2> HIDE DEF answers
  <2>4. /\ history' \in History
        /\ history'.accepted = (history.accepted \/ <<"Accept", m>> \in answers)
    BY <2>2 DEF History
  <2>5. /\ toRouter' \subseteq Message
        /\ UNCHANGED <<socket, at, frames, myIsConnected, myIsHandshaking, pending>>
    BY <1>2 DEF RouterReceives
  <2>6. AcceptancesAreTrue' /\ ConnectedWasAccepted'
    BY <2>1, <2>2, <2>3, <2>4, <2>5
  <2>7. QED
    BY <2>1, <2>2, <2>3, <2>4, <2>5, <2>6
<1>3. CASE RouterGivesUp
  <2>1. PICK remembered \in {router.recent, {}} :
          router' = [router EXCEPT !.myIsValid = FALSE, !.recent = remembered]
    BY <1>3 DEF RouterGivesUp
  <2>2. /\ router' \in RouterConnection /\ ~router'.myIsValid
        /\ router'.myIsServer = router.myIsServer
    BY <2>1 DEF RouterConnection
  <2>3. history' \in History /\ history'.accepted = history.accepted
    BY <1>3 DEF RouterGivesUp, History
  <2>4. QED
    BY <1>3, <2>2, <2>3 DEF RouterGivesUp
<1>4. CASE RouterReaps
  <2>1. router' \in RouterConnection /\ ~router'.myIsValid /\ ~router'.myIsServer
    BY <1>4 DEF RouterReaps, Unknown, RouterConnection
  <2>2. history' \in History /\ history'.accepted = history.accepted
    BY <1>4, GameServerAssumption DEF RouterReaps, History
  <2>3. QED
    BY <1>4, <2>1, <2>2 DEF RouterReaps
<1>5. QED
  BY <1>1, <1>2, <1>3, <1>4 DEF RouterSteps

-----------------------------------------------------------------------------
(* Downstream.                                                             *)

(* A step of a client, or of Listen, keeps the downstream half's invariant. *)
LEMMA DownstreamStep ==
  ASSUME TypeOK, DownstreamInv, NEW p \in Clients,
         \/ Serve(p) \/ ReceiveError(p) \/ ConnectionTimedOut(p)
         \/ \E kind \in {"Setup", "Identify", "UserDisconnected"} : ClientSends(p, kind)
  PROVE  DownstreamInv'
<1> USE DEF DownstreamInv
<1>1. Entry(p) \in Connection
  BY EntryType
<1>2. CASE Accept(p)
  <2> DEFINE c == [Entry(p) EXCEPT !.myIsValid = TRUE]
             table == [myClients EXCEPT ![p] = c]
  <2>1. c \in Connection
    BY <1>1 DEF Connection
  <2>2. Reads(p) /\ myClients' = table /\ UNCHANGED <<sent, errors, running>>
    BY <1>2 DEF Accept
  <2>3. /\ table \in [Clients -> Connection \union {None}] /\ table[p] = c
        /\ table[p].myID \in Ids
    BY <2>1 DEF Connection
  <2>4. /\ told' = AnnounceConnected(table, p, told)
        /\ assigned' = [assigned EXCEPT ![p] = @ \union {table[p].myID}]
        /\ left' = left \ {table[p].myID}
    BY <1>2 DEF Accept
  <2> HIDE DEF c, table
  <2>5. told' \in [Clients -> SUBSET Ids]
    BY <2>1, <2>3, <2>4, AnnounceType
  <2>6. assigned' \in [Clients -> SUBSET Ids] /\ left' \subseteq Ids
    BY <2>3, <2>4
  <2>7. /\ inbox' \in Seq(Datagram) /\ made' \in 0 .. Cardinality(Clients)
        /\ myClients' \in [Clients -> Connection \union {None}] /\ MadeAreInTable'
    BY <2>1, <2>2, ReadsKeeps DEF table
  <2>8. QED
    BY <2>2, <2>5, <2>6, <2>7
<1>3. CASE Refuse(p)
  <2>1. Reads(p) /\ myClients' = [myClients EXCEPT ![p] = Entry(p)]
    BY <1>3 DEF Refuse
  <2>2. /\ inbox' \in Seq(Datagram) /\ made' \in 0 .. Cardinality(Clients)
        /\ myClients' \in [Clients -> Connection \union {None}] /\ MadeAreInTable'
    BY <1>1, <2>1, ReadsKeeps
  <2>3. QED
    BY <1>3, <2>2 DEF Refuse
<1>4. CASE Kick(p)
  <2> DEFINE c == [myClients[p] EXCEPT !.myIsValid = FALSE]
  <2>1. myClients[p] \in Connection /\ Reads(p)
    BY <1>4 DEF Kick, Entry, TypeOK
  <2>2. c \in Connection /\ myClients' = [myClients EXCEPT ![p] = c]
    BY <1>4, <2>1 DEF Kick, Connection
  <2> HIDE DEF c
  <2>3. /\ inbox' \in Seq(Datagram) /\ made' \in 0 .. Cardinality(Clients)
        /\ myClients' \in [Clients -> Connection \union {None}] /\ MadeAreInTable'
    BY <2>1, <2>2, ReadsKeeps
  <2>4. QED
    BY <1>4, <2>3 DEF Kick
<1>5. CASE ForwardGoodbye(p)
  <2>1. myClients[p] \in Connection /\ Reads(p)
    BY <1>5 DEF ForwardGoodbye, Entry, TypeOK
  <2>2. myClients' = [myClients EXCEPT ![p] = myClients[p]]
    BY <1>5 DEF ForwardGoodbye
  <2>3. /\ inbox' \in Seq(Datagram) /\ made' \in 0 .. Cardinality(Clients)
        /\ myClients' \in [Clients -> Connection \union {None}] /\ MadeAreInTable'
        /\ Head(inbox)[3] \in Ids
    BY <2>1, <2>2, ReadsKeeps
  <2>4. told' \in [Clients -> SUBSET Ids]
    BY <1>5, <2>1, <2>3, AnnounceType DEF ForwardGoodbye
  <2>5. QED
    BY <1>5, <2>3, <2>4 DEF ForwardGoodbye
<1>6. CASE Crash(p)
  BY <1>6 DEF Crash, MadeAreInTable
<1>7. CASE ReceiveError(p)
  <2>1. PICK c \in Connection : myClients' = [myClients EXCEPT ![p] = c]
    <3>1. CASE myClients[p] # None /\ myClients' = [myClients EXCEPT ![p].myIsValid = FALSE]
      <4>1. [myClients[p] EXCEPT !.myIsValid = FALSE] \in Connection
        BY <3>1 DEF Connection
      <4>2. QED
        BY <3>1, <4>1
    <3>2. CASE \E id \in Ids : myClients' =
             [myClients EXCEPT ![p] = [myID |-> id, myIsValid |-> FALSE, hasCallback |-> FALSE]]
      BY <3>2 DEF Connection
    <3>3. QED
      BY <1>7, <3>1, <3>2 DEF ReceiveError
  <2>2. made <= Cardinality({q \in Clients : myClients'[q] # None})
    BY <2>1, EntryCounts
  <2>3. errors' \in 0 .. ErrorBound
    BY <1>7, GameServerAssumption DEF ReceiveError
  <2>4. QED
    BY <1>7, <2>1, <2>2, <2>3 DEF ReceiveError, MadeAreInTable
<1>8. CASE ConnectionTimedOut(p)
  <2> DEFINE c == [myClients[p] EXCEPT !.myIsValid = FALSE]
  <2>1. c \in Connection /\ myClients' = [myClients EXCEPT ![p] = c]
    BY <1>8 DEF ConnectionTimedOut, Connection
  <2> HIDE DEF c
  <2>2. made <= Cardinality({q \in Clients : myClients'[q] # None})
    BY <2>1, EntryCounts
  <2>3. QED
    BY <1>8, <2>1, <2>2 DEF ConnectionTimedOut, MadeAreInTable
<1>9. ASSUME NEW kind \in {"Setup", "Identify", "UserDisconnected"}, ClientSends(p, kind)
      PROVE  DownstreamInv'
  <2>1. PICK id \in (IF kind = "UserDisconnected" THEN assigned[p] ELSE {0}) :
          inbox' = Append(inbox, <<p, kind, id>>)
    BY <1>9 DEF ClientSends
  <2>2. id \in Ids
    BY <2>1, GameServerAssumption DEF Ids
  <2>3. inbox' \in Seq(Datagram)
    BY <2>1, <2>2 DEF Datagram
  <2>4. sent' \in 0 .. SendCap
    BY <1>9, GameServerAssumption DEF ClientSends
  <2>5. QED
    BY <1>9, <2>3, <2>4 DEF ClientSends, MadeAreInTable
<1>10. QED
  BY <1>2, <1>3, <1>4, <1>5, <1>6, <1>7, <1>8, <1>9 DEF Serve

-----------------------------------------------------------------------------
(* The theorems.                                                           *)

LEMMA InitIInv == Init => IInv
<1> SUFFICES ASSUME Init PROVE IInv
  OBVIOUS
<1>1. UpstreamInv
  <2>1. /\ router \in RouterConnection /\ ~router.myIsServer /\ ~router.myIsValid
        /\ history \in History
    BY GameServerAssumption DEF Init, RouterConnection, Unknown, NewSocket, History
  <2>2. socket \in Sockets /\ frames \in Nat
    BY GameServerAssumption DEF Init, Sockets
  <2>3. UpstreamTypeOK
    BY <2>1, <2>2 DEF Init, UpstreamTypeOK, Places
  <2>4. AcceptancesAreTrue
    BY <2>1 DEF Init, AcceptancesAreTrue
  <2>5. HandShakeDoesNotNest /\ WaitsDisconnected /\ ConnectedWasAccepted
    BY DEF Init, HandShakeDoesNotNest, WaitsDisconnected, ConnectedWasAccepted
  <2>6. QED
    BY <2>3, <2>4, <2>5 DEF UpstreamInv
<1>2. Cardinality({p \in Clients : myClients[p] # None}) \in Nat /\ Cardinality(Clients) \in Nat
  BY GameServerAssumption, FS_Subset, FS_CardinalityType
<1>3. DownstreamInv
  BY <1>2, GameServerAssumption DEF Init, DownstreamInv, MadeAreInTable
<1>4. QED
  BY <1>1, <1>3, Halves

LEMMA NextIInv == IInv /\ [Next]_vars => IInv'
<1> SUFFICES ASSUME IInv, [Next]_vars PROVE IInv'
  OBVIOUS
<1>1. UpstreamInv /\ DownstreamInv /\ TypeOK
  BY Halves DEF IInv
<1>2. ASSUME UNCHANGED upstream PROVE UpstreamInv'
  BY <1>1, <1>2
  DEF upstream, UpstreamInv, UpstreamTypeOK, HandShakeDoesNotNest, WaitsDisconnected,
      AcceptancesAreTrue, ConnectedWasAccepted
<1>3. ASSUME UNCHANGED downstream PROVE DownstreamInv'
  BY <1>1, <1>3 DEF downstream, DownstreamInv, MadeAreInTable
<1>4. CASE Upstream
  <2>1. UNCHANGED downstream
    BY <1>4 DEF Upstream, SendRequest, FlushInHandShake, FlushInListen, TimedOut, FlushEnds,
                ReceiveAcknowledge, ReceiveSetup
  <2>2. QED
    BY <1>1, <1>3, <1>4, <2>1, UpstreamStep, Halves
<1>5. CASE RouterSteps
  <2>1. UNCHANGED downstream
    BY <1>5 DEF RouterSteps, ClientRedirected, RouterGivesUp, RouterReaps, RouterReceives
  <2>2. QED
    BY <1>1, <1>3, <1>5, <2>1, RouterStep, Halves
<1>6. ASSUME NEW p \in Clients,
             \/ Serve(p) \/ ReceiveError(p) \/ ConnectionTimedOut(p)
             \/ \E kind \in {"Setup", "Identify", "UserDisconnected"} : ClientSends(p, kind)
      PROVE  IInv'
  <2>1. UNCHANGED upstream
    BY <1>6 DEF Serve, Accept, Refuse, Kick, ForwardGoodbye, Crash, ReceiveError,
                ConnectionTimedOut, ClientSends
  <2>2. QED
    BY <1>1, <1>2, <1>6, <2>1, DownstreamStep, Halves
<1>7. CASE UNCHANGED vars
  BY <1>1, <1>2, <1>3, <1>7, Halves DEF vars
<1>8. QED
  BY <1>4, <1>5, <1>6, <1>7 DEF Next, Environment, RouterSteps

(* Every reachable state satisfies the inductive invariant. *)
THEOREM IInvHolds == Spec => []IInv
  BY InitIInv, NextIInv, PTL DEF Spec

(* Every reachable state has its type, for any clients, sockets, width of  *)
(* ids and number of datagrams (TGameServer/ServerMain.cpp).               *)
THEOREM TypeCorrect == Spec => []TypeOK
<1>1. IInv => TypeOK
  BY DEF IInv
<1>2. QED
  BY <1>1, IInvHolds, PTL

(* A reconnect from inside Flush never nests in a handshake, however often *)
(* the router is lost (ServerMain.cpp:177-184).                            *)
THEOREM HandShakeDoesNotNestHolds == Spec => []HandShakeDoesNotNest
<1>1. IInv => HandShakeDoesNotNest
  BY DEF IInv
<1>2. QED
  BY <1>1, IInvHolds, PTL

(* The game server is connected only when the router has accepted its      *)
(* present socket, also when a Flush reads several answers and a           *)
(* redirected client's request among them (ServerMain.cpp:236-268).        *)
THEOREM ConnectedWasAcceptedHolds == Spec => []ConnectedWasAccepted
<1>1. IInv => ConnectedWasAccepted
  BY DEF IInv
<1>2. QED
  BY <1>1, IInvHolds, PTL

-----------------------------------------------------------------------------
(* The table, while ids are not used up and no recvfrom fails.             *)

(* IDCOUNTER does not wrap round to an id that is in use. *)
IdsFit == Cardinality(Clients) < IdModulus

(* Entries have the ids IDCOUNTER gave out, no two of them the same. *)
IdsAreApart ==
  errors = 0 =>
    /\ \A p \in Present(myClients) : \E n \in 1 .. made : myClients[p].myID = IdOf(n)
    /\ \A p, q \in Present(myClients) : myClients[p].myID = myClients[q].myID => p = q

RosterInv == IdsAreApart /\ RosterIsComplete

LEMMA RemaindersDiffer ==
  ASSUME NEW a \in Nat, NEW b \in Nat, NEW m \in Nat \ {0}, a < b, b - a < m
  PROVE  a % m # b % m
<1> DEFINE j == a \div m
           k == b \div m
<1>1. SUFFICES ASSUME a % m = b % m PROVE FALSE
  OBVIOUS
<1>2. j \in Int /\ k \in Int /\ a = m * j + (a % m) /\ b = m * k + (b % m)
      /\ a % m \in Int /\ b % m \in Int
  OBVIOUS
<1> HIDE DEF j, k
<1>3. PICK d \in Int : d = k - j
  BY <1>2
<1>4. m * k = m * j + m * d
  BY <1>2, <1>3
<1>5. b - a = m * d
  BY <1>1, <1>2, <1>4
<1>6. CASE d <= 0
  <2>1. m * d <= 0
    BY <1>6
  <2>2. QED
    BY <1>5, <2>1
<1>7. CASE d >= 1
  <2>1. m * d >= m
    BY <1>7
  <2>2. QED
    BY <1>5, <2>1
<1>8. QED
  BY <1>3, <1>6, <1>7

(* IDCOUNTER gives different ids to fewer connections than there are ids. *)
LEMMA IdsDiffer ==
  ASSUME IdsFit, NEW n \in 1 .. Cardinality(Clients), NEW k \in 1 .. Cardinality(Clients), n < k
  PROVE  IdOf(n) # IdOf(k)
<1>1. Cardinality(Clients) \in Nat /\ IdModulus \in Nat \ {0}
  BY GameServerAssumption, FS_CardinalityType
<1>2. 3 + n \in Nat /\ 3 + k \in Nat /\ 3 + n < 3 + k /\ (3 + k) - (3 + n) < IdModulus
  BY <1>1 DEF IdsFit
<1>3. (3 + n) % IdModulus # (3 + k) % IdModulus
  BY <1>1, <1>2, RemaindersDiffer
<1>4. QED
  BY <1>3 DEF IdOf

(* What a datagram leaves in p's place is the entry p had, or one with the *)
(* next id.                                                                *)
LEMMA EntryIsApart ==
  ASSUME IdsFit, TypeOK, MadeAreInTable, IdsAreApart, errors = 0, NEW p \in Clients, Reads(p),
         NEW c \in Connection, c.myID = Entry(p).myID, myClients' = [myClients EXCEPT ![p] = c]
  PROVE  /\ \A q \in Present(myClients') : \E n \in 1 .. made' : myClients'[q].myID = IdOf(n)
         /\ \A q, r \in Present(myClients') : myClients'[q].myID = myClients'[r].myID => q = r
<1>1. made' \in 0 .. Cardinality(Clients) /\ Cardinality(Clients) \in Nat /\ made \in Nat
  <2>1. made' \in 0 .. Cardinality(Clients)
    BY ReadsKeeps
  <2>2. Cardinality(Clients) \in Nat
    BY GameServerAssumption, FS_CardinalityType
  <2>3. made \in 0 .. Cardinality(Clients)
    BY DEF TypeOK
  <2>4. QED
    BY <2>1, <2>2, <2>3
<1>2. /\ myClients'[p] = c /\ \A q \in Clients \ {p} : myClients'[q] = myClients[q]
      /\ Present(myClients') = Present(myClients) \union {p} /\ Present(myClients) \subseteq Clients
  BY NoneAssumption DEF TypeOK, Present
<1>3. CASE myClients[p] # None
  <2>1. made' = made /\ p \in Present(myClients) /\ c.myID = myClients[p].myID
    BY <1>3 DEF Reads, Entry, Present, TypeOK
  <2>2. Present(myClients') = Present(myClients)
    BY <1>2, <2>1
  <2>3. \A q \in Present(myClients) : myClients'[q].myID = myClients[q].myID
    BY <1>2, <2>1
  <2>4. /\ \A q \in Present(myClients) : \E n \in 1 .. made : myClients[q].myID = IdOf(n)
        /\ \A q, r \in Present(myClients) : myClients[q].myID = myClients[r].myID => q = r
    BY DEF IdsAreApart
  <2>5. ASSUME NEW q \in Present(myClients') PROVE \E n \in 1 .. made' : myClients'[q].myID = IdOf(n)
    BY <2>1, <2>2, <2>3, <2>4
  <2>6. ASSUME NEW q \in Present(myClients'), NEW r \in Present(myClients'),
               myClients'[q].myID = myClients'[r].myID
        PROVE  q = r
    BY <2>2, <2>3, <2>4, <2>6
  <2>7. QED
    BY <2>5, <2>6
<1>4. CASE myClients[p] = None
  <2>1. made' = made + 1 /\ c.myID = IdOf(made') /\ p \notin Present(myClients)
    BY <1>4 DEF Reads, Entry, Present
  <2>2. \A n \in 1 .. made : IdOf(n) # IdOf(made')
    BY <1>1, <2>1, IdsDiffer
  <2>3. \A q \in Present(myClients) : /\ q # p /\ myClients'[q] = myClients[q]
                                      /\ myClients[q].myID # c.myID
    BY <1>2, <2>1, <2>2 DEF IdsAreApart
  <2>4. \A q \in Present(myClients') : \E n \in 1 .. made' : myClients'[q].myID = IdOf(n)
    <3>1. made' \in 1 .. made' /\ \A n \in 1 .. made : n \in 1 .. made'
      BY <1>1, <2>1
    <3>2. QED
      BY <1>2, <2>1, <2>3, <3>1 DEF IdsAreApart
  <2>5. \A q, r \in Present(myClients) : myClients[q].myID = myClients[r].myID => q = r
    BY DEF IdsAreApart
  <2>6. ASSUME NEW q \in Present(myClients'), NEW r \in Present(myClients'),
               myClients'[q].myID = myClients'[r].myID
        PROVE  q = r
    BY <1>2, <2>3, <2>5, <2>6
  <2>7. ASSUME NEW q \in Present(myClients')
        PROVE  \E n \in 1 .. made' : myClients'[q].myID = IdOf(n)
    <3>1. CASE q = p
      <4>1. made' \in 1 .. made' /\ myClients'[q].myID = IdOf(made')
        BY <1>1, <1>2, <2>1, <3>1
      <4>2. QED
        BY <4>1
    <3>2. CASE q # p
      BY <1>2, <2>4, <2>7, <3>2
    <3>3. QED
      BY <3>1, <3>2
  <2>8. QED
    BY <2>6, <2>7
<1>5. QED
  BY <1>3, <1>4

LEMMA RosterStep ==
  ASSUME IdsFit, TypeOK, MadeAreInTable, RosterInv, NEW p \in Clients,
         Serve(p) \/ ReceiveError(p) \/ ConnectionTimedOut(p)
  PROVE  RosterInv'
<1>1. /\ \A q \in Present(myClients) : q \in Clients /\ myClients[q] \in Connection
      /\ told \in [Clients -> SUBSET Ids] /\ Entry(p) \in Connection
  BY EntryType DEF Present, TypeOK
<1>2. CASE ReceiveError(p)
  <2>1. errors' # 0
    BY <1>2, GameServerAssumption DEF ReceiveError, TypeOK
  <2>2. QED
    BY <2>1 DEF RosterInv, IdsAreApart, RosterIsComplete
<1>3. CASE Crash(p)
  BY <1>3 DEF Crash, RosterInv, IdsAreApart, RosterIsComplete, Present
<1>4. ASSUME myClients[p] # None, myClients' = [myClients EXCEPT ![p].myIsValid = FALSE],
             UNCHANGED <<made, errors, told, left>>
      PROVE  RosterInv'
  <2>1. \A q \in Clients : /\ myClients'[q] = None <=> myClients[q] = None
                           /\ myClients[q] # None =>
                                /\ myClients'[q].myID = myClients[q].myID
                                /\ myClients'[q].myIsValid => myClients[q].myIsValid
    <3>1. myClients' = [myClients EXCEPT ![p] = [myClients[p] EXCEPT !.myIsValid = FALSE]]
      BY <1>4
    <3>2. myClients[p] \in Connection /\ \A q \in Clients \ {p} : myClients'[q] = myClients[q]
      BY <1>4, <3>1 DEF TypeOK
    <3>3. /\ myClients'[p] = [myClients[p] EXCEPT !.myIsValid = FALSE]
          /\ myClients'[p] \in Connection
      BY <3>1, <3>2 DEF TypeOK, Connection
    <3>4. myClients'[p] # None /\ myClients'[p].myID = myClients[p].myID /\ ~myClients'[p].myIsValid
      BY <3>2, <3>3, NoneAssumption DEF Connection
    <3>5. QED
      BY <1>4, <3>2, <3>4
  <2>2. Present(myClients') = Present(myClients)
    <3>1. DOMAIN myClients' = Clients /\ DOMAIN myClients = Clients
      BY <1>4 DEF TypeOK
    <3>2. QED
      BY <2>1, <3>1 DEF Present
  <2>3. \A q \in Present(myClients) : /\ q \in Clients
                                      /\ myClients'[q].myID = myClients[q].myID
                                      /\ myClients'[q].myIsValid => myClients[q].myIsValid
    BY <1>1, <2>1 DEF Present
  <2>4. ASSUME errors' = 0
        PROVE  /\ \A q \in Present(myClients') : \E n \in 1 .. made' : myClients'[q].myID = IdOf(n)
               /\ \A q, r \in Present(myClients') : myClients'[q].myID = myClients'[r].myID => q = r
    <3>1. /\ \A q \in Present(myClients) : \E n \in 1 .. made : myClients[q].myID = IdOf(n)
          /\ \A q, r \in Present(myClients) : myClients[q].myID = myClients[r].myID => q = r
      BY <1>4, <2>4 DEF RosterInv, IdsAreApart
    <3>2. made' = made
      BY <1>4
    <3>3. ASSUME NEW q \in Present(myClients')
          PROVE  \E n \in 1 .. made' : myClients'[q].myID = IdOf(n)
      BY <2>2, <2>3, <3>1, <3>2
    <3>4. ASSUME NEW q \in Present(myClients'), NEW r \in Present(myClients'),
                 myClients'[q].myID = myClients'[r].myID
          PROVE  q = r
      BY <2>2, <2>3, <3>1, <3>4
    <3>5. QED
      BY <3>3, <3>4
  <2>5. RosterIsComplete'
    BY <1>4, <2>2, <2>3 DEF RosterInv, RosterIsComplete
  <2>6. QED
    BY <2>4, <2>5 DEF RosterInv, IdsAreApart
<1>5. CASE ConnectionTimedOut(p)
  BY <1>4, <1>5 DEF ConnectionTimedOut
<1>6. ASSUME Reads(p), NEW c \in Connection, c.myID = Entry(p).myID, UNCHANGED errors,
             myClients' = [myClients EXCEPT ![p] = c]
      PROVE  IdsAreApart'
  BY <1>6, EntryIsApart DEF RosterInv, IdsAreApart
<1>7. CASE Kick(p)
  <2>1. myClients[p] # None
    BY <1>7 DEF Kick, Entry
  <2>2. made' = made
    BY <1>7, <2>1 DEF Kick, Reads
  <2>3. QED
    BY <1>4, <1>7, <2>1, <2>2 DEF Kick
<1>8. CASE Refuse(p)
  <2>1. myClients' = [myClients EXCEPT ![p] = Entry(p)] /\ UNCHANGED <<errors, told, left>>
    BY <1>8 DEF Refuse
  <2>2. IdsAreApart'
    BY <1>1, <1>6, <1>8, <2>1 DEF Refuse
  <2>3. /\ myClients'[p] = Entry(p) /\ ~Entry(p).myIsValid
        /\ \A q \in Clients \ {p} : myClients'[q] = myClients[q]
        /\ Present(myClients') \subseteq Present(myClients) \union {p}
    BY <1>8, <2>1 DEF TypeOK, Refuse, Present
  <2>4. RosterIsComplete'
    BY <1>1, <2>1, <2>3 DEF RosterInv, RosterIsComplete
  <2>5. QED
    BY <2>2, <2>4 DEF RosterInv
<1>9. CASE Accept(p)
  <2> DEFINE c == [Entry(p) EXCEPT !.myIsValid = TRUE]
             table == [myClients EXCEPT ![p] = c]
  <2>1. c \in Connection /\ c.myID = Entry(p).myID
    BY <1>1 DEF Connection
  <2>2. /\ Reads(p) /\ UNCHANGED errors /\ myClients' = table
        /\ told' = AnnounceConnected(table, p, told) /\ left' = left \ {table[p].myID}
    BY <1>9 DEF Accept
  <2> HIDE DEF c
  <2>3. IdsAreApart'
    BY <1>6, <2>1, <2>2
  <2>4. /\ table[p] = c /\ \A q \in Clients \ {p} : table[q] = myClients[q]
        /\ DOMAIN table = Clients
        /\ Present(table) = Present(myClients) \union {p} /\ p \in Present(table)
    BY <1>1, <2>1, NoneAssumption DEF TypeOK, Present
  <2> HIDE DEF table
  <2>5. ASSUME errors' = 0, NEW q \in Present(myClients'), NEW r \in Present(myClients'), q # r,
               myClients'[q].myIsValid, myClients'[r].myIsValid, myClients'[r].myID \notin left'
        PROVE  myClients'[r].myID \in told'[q]
    <3>1. /\ q \in Clients /\ table[q] # None /\ r \in Clients /\ table[r] # None
          /\ table[q].myID # table[r].myID
      BY <2>2, <2>3, <2>4, <2>5 DEF Present, IdsAreApart
    <3>2. CASE q = p
      <4>1. told'[p] = told[p] \union ({table[s].myID : s \in Present(table)} \ {table[p].myID})
        BY <2>2, <2>4, <3>1, <3>2 DEF AnnounceConnected
      <4>2. r \in Present(table)
        BY <2>2, <2>5
      <4>3. QED
        BY <2>2, <3>1, <3>2, <4>1, <4>2
    <3>3. CASE q # p /\ r = p
      <4>1. told'[q] = told[q] \union {table[p].myID}
        BY <2>2, <2>4, <3>1, <3>3 DEF AnnounceConnected
      <4>2. QED
        BY <2>2, <3>3, <4>1
    <3>4. CASE q # p /\ r # p
      <4>1. table[q] = myClients[q] /\ table[r] = myClients[r] /\ q \in Present(myClients)
            /\ r \in Present(myClients)
        BY <2>2, <2>4, <2>5, <3>1, <3>4
      <4>2. table[r].myID # table[p].myID
        BY <2>2, <2>3, <2>4, <2>5, <3>1, <3>4 DEF IdsAreApart
      <4>3. table[r].myID \notin left
        BY <2>2, <2>5, <4>2
      <4>4. table[r].myID \in told[q]
        BY <2>2, <2>5, <3>4, <4>1, <4>3 DEF RosterInv, RosterIsComplete
      <4>5. told[q] \subseteq told'[q]
        BY <2>2, <2>4, <3>1 DEF AnnounceConnected
      <4>6. QED
        BY <2>2, <4>4, <4>5
    <3>5. QED
      BY <3>2, <3>3, <3>4
  <2>6. QED
    BY <2>3, <2>5 DEF RosterInv, RosterIsComplete
<1>10. CASE ForwardGoodbye(p)
  <2>1. /\ UNCHANGED <<myClients, errors>> /\ myClients[p] # None
        /\ told' = AnnounceDisconnected(myClients, Head(inbox)[3], told)
        /\ left' = left \union {Head(inbox)[3]}
    BY <1>10 DEF ForwardGoodbye, Entry
  <2>2. made' = made
    BY <1>10, <2>1 DEF ForwardGoodbye, Reads
  <2>3. \A q \in Clients, id \in Ids : id \in told[q] /\ id # Head(inbox)[3] => id \in told'[q]
    BY <2>1 DEF AnnounceDisconnected, TypeOK
  <2>4. \A q \in Present(myClients) : myClients[q].myID \in Ids
    BY <1>1 DEF Connection
  <2>5. RosterIsComplete'
    BY <1>1, <2>1, <2>3, <2>4 DEF RosterInv, RosterIsComplete
  <2>6. IdsAreApart'
    BY <2>1, <2>2 DEF RosterInv, IdsAreApart
  <2>7. QED
    BY <2>5, <2>6 DEF RosterInv
<1>11. QED
  BY <1>2, <1>3, <1>5, <1>7, <1>8, <1>9, <1>10 DEF Serve

LEMMA NextRosterInv == IdsFit /\ IInv /\ RosterInv /\ [Next]_vars => RosterInv'
<1> SUFFICES ASSUME IdsFit, IInv, RosterInv, [Next]_vars PROVE RosterInv'
  OBVIOUS
<1>1. TypeOK /\ MadeAreInTable
  BY DEF IInv
<1>2. ASSUME UNCHANGED <<myClients, made, errors, told, left>> PROVE RosterInv'
  BY <1>2 DEF RosterInv, IdsAreApart, RosterIsComplete
<1>3. CASE Upstream
  BY <1>2, <1>3 DEF Upstream, SendRequest, FlushInHandShake, FlushInListen, TimedOut, FlushEnds,
                    ReceiveAcknowledge, ReceiveSetup, downstream
<1>4. CASE RouterSteps
  BY <1>2, <1>4 DEF RouterSteps, ClientRedirected, RouterGivesUp, RouterReaps, RouterReceives,
                    downstream
<1>5. ASSUME NEW p \in Clients, NEW kind, ClientSends(p, kind) PROVE RosterInv'
  BY <1>2, <1>5 DEF ClientSends
<1>6. ASSUME NEW p \in Clients, Serve(p) \/ ReceiveError(p) \/ ConnectionTimedOut(p)
      PROVE  RosterInv'
  BY <1>1, <1>6, RosterStep
<1>7. CASE UNCHANGED vars
  BY <1>2, <1>7 DEF vars, downstream
<1>8. QED
  BY <1>3, <1>4, <1>5, <1>6, <1>7 DEF Next, Environment, RouterSteps

(* While fewer clients than ids connect, two valid connections know of     *)
(* each other whatever order they join, are kicked, time out, come back    *)
(* and say goodbye in, and although dead entries stay in the table         *)
(* (ServerMain.cpp:392-459).                                               *)
THEOREM RosterIsCompleteHolds == ASSUME IdsFit PROVE Spec => []RosterIsComplete
<1>1. Init => RosterInv
  BY DEF Init, RosterInv, IdsAreApart, RosterIsComplete, Present
<1>2. IInv /\ RosterInv /\ [Next]_vars => RosterInv'
  BY NextRosterInv
<1>3. RosterInv => RosterIsComplete
  BY DEF RosterInv
<1>4. QED
  BY <1>1, <1>2, <1>3, IInvHolds, PTL DEF Spec

-----------------------------------------------------------------------------
(* The process itself.                                                     *)

(***************************************************************************)
(* The process ends only after a recvfrom has failed: without an error     *)
(* every entry of the table was made by a datagram, with its callback      *)
(* (TGameServer/ServerMain.cpp:355-380).                                   *)
(***************************************************************************)
SurvivesWithoutErrors == errors = 0 => running

(* Entries that operator[] did not make have a callback. *)
CallbacksAreSet ==
  errors = 0 => running /\ \A p \in Clients : myClients[p] # None => myClients[p].hasCallback

LEMMA NextCallbacks == TypeOK /\ CallbacksAreSet /\ [Next]_vars => CallbacksAreSet'
<1> SUFFICES ASSUME TypeOK, CallbacksAreSet, [Next]_vars, errors' = 0
             PROVE  /\ running'
                    /\ \A p \in Clients : myClients'[p] # None => myClients'[p].hasCallback
  BY DEF CallbacksAreSet
<1>1. CASE UNCHANGED <<myClients, errors, running>>
  BY <1>1 DEF CallbacksAreSet
<1>2. CASE Upstream
  BY <1>1, <1>2 DEF Upstream, SendRequest, FlushInHandShake, FlushInListen, TimedOut, FlushEnds,
                    ReceiveAcknowledge, ReceiveSetup, downstream
<1>3. CASE RouterSteps
  BY <1>1, <1>3 DEF RouterSteps, ClientRedirected, RouterGivesUp, RouterReaps, RouterReceives,
                    downstream
<1>4. ASSUME NEW p \in Clients, Serve(p) \/ ReceiveError(p) \/ ConnectionTimedOut(p)
      PROVE  /\ running'
             /\ \A q \in Clients : myClients'[q] # None => myClients'[q].hasCallback
  <2>1. errors = 0 /\ ~ReceiveError(p)
    BY <1>4, GameServerAssumption
       DEF Serve, Accept, Refuse, Kick, ForwardGoodbye, Crash, ReceiveError,
           ConnectionTimedOut, TypeOK
  <2>2. running /\ \A q \in Clients : myClients[q] # None => myClients[q].hasCallback
    BY <2>1 DEF CallbacksAreSet
  <2>3. ~Crash(p)
    BY <2>2 DEF Crash
  <2>4. running'
    BY <1>4, <2>1, <2>2, <2>3
       DEF Serve, Accept, Refuse, Kick, ForwardGoodbye, ConnectionTimedOut
  <2>5. Entry(p) \in Connection /\ Entry(p).hasCallback
    BY <2>2, EntryType DEF Entry
  <2>6. CASE ForwardGoodbye(p)
    BY <2>2, <2>4, <2>6 DEF ForwardGoodbye
  <2>7. CASE Accept(p) \/ Refuse(p)
    <3>1. [Entry(p) EXCEPT !.myIsValid = TRUE].hasCallback
      BY <2>5 DEF Connection
    <3>2. \/ myClients' = [myClients EXCEPT ![p] = [Entry(p) EXCEPT !.myIsValid = TRUE]]
          \/ myClients' = [myClients EXCEPT ![p] = Entry(p)]
      BY <2>7 DEF Accept, Refuse
    <3>3. QED
      BY <2>2, <2>4, <2>5, <3>1, <3>2 DEF TypeOK
  <2>8. CASE Kick(p) \/ ConnectionTimedOut(p)
    <3>1. myClients[p] # None
      BY <2>8 DEF Kick, Entry, ConnectionTimedOut
    <3>2. myClients[p] \in Connection /\ myClients[p].hasCallback
      BY <2>2, <3>1 DEF TypeOK
    <3>3. [myClients[p] EXCEPT !.myIsValid = FALSE].hasCallback
      BY <3>2 DEF Connection
    <3>4. myClients' = [myClients EXCEPT ![p] = [myClients[p] EXCEPT !.myIsValid = FALSE]]
      BY <2>8 DEF Kick, ConnectionTimedOut
    <3>5. QED
      BY <2>2, <2>4, <3>3, <3>4 DEF TypeOK
  <2>9. QED
    BY <1>4, <2>1, <2>3, <2>6, <2>7, <2>8 DEF Serve
<1>5. ASSUME NEW p \in Clients, NEW kind, ClientSends(p, kind)
      PROVE  UNCHANGED <<myClients, errors, running>>
  BY <1>5 DEF ClientSends
<1>6. CASE UNCHANGED vars
  BY <1>1, <1>6 DEF vars, downstream
<1>7. QED
  BY <1>1, <1>2, <1>3, <1>4, <1>5, <1>6 DEF Next, Environment, RouterSteps

(* Only a failed recvfrom can end the game server's process.               *)
THEOREM SurvivesWithoutErrorsHolds == Spec => []SurvivesWithoutErrors
<1>1. Init => CallbacksAreSet
  BY DEF Init, CallbacksAreSet
<1>2. CallbacksAreSet => SurvivesWithoutErrors
  BY DEF CallbacksAreSet, SurvivesWithoutErrors
<1>3. QED
  BY <1>1, <1>2, NextCallbacks, TypeCorrect, PTL DEF Spec

-----------------------------------------------------------------------------
(* The handshake is never stuck.                                           *)

Request == <<"Setup", socket>>
Identity == <<"Identify", socket>>

(* The server sends m again, and the router has not heard it. *)
Unheard(m) == pending[m] > 0 /\ m \notin router.recent

(***************************************************************************)
(* Something brings the server nearer to the router until it has joined:   *)
(* before it is connected the request it is about to send or sends again,  *)
(* or an acceptance on its way; afterwards its identity, sent until the    *)
(* router has it.  Only a router that gives the socket up, and a Flush of  *)
(* HandShake that reads the acceptance after another answer, leave it      *)
(* without (TGameServer/ServerMain.cpp:200-234, 471-489).                  *)
(***************************************************************************)
JoiningGoesOn ==
  ~history.givenUp /\ ~history.unheeded =>
    /\ ~myIsConnected =>
         \/ router.myIsValid /\ \E d \in fromRouter : d[1] = "Accept"
         \/ ~router.myIsValid /\ (at = "request" \/ Unheard(Request))
    /\ myIsConnected => router.myIsServer \/ at = "receiving" \/ Unheard(Identity)

(* While the router keeps the socket it has heard what it acknowledges,    *)
(* and accepted a request it has heard; the identity of a socket is sent   *)
(* when it is accepted, and makes the connection a server's.               *)
RouterKeeps ==
  ~history.givenUp =>
    /\ history.accepted => router.myIsValid
    /\ \A m \in Message : <<"Acknowledge", m>> \in fromRouter /\ m[1] = "Setup" => router.myIsValid
    /\ \A m \in router.recent : m[1] = "Setup" => router.myIsValid
    /\ <<"Acknowledge", Identity>> \in fromRouter => router.myIsServer
    /\ Identity \in router.recent => router.myIsServer

(* No message of a socket that is not opened yet is sent, the identity of  *)
(* the present one when the server is connected; Listen runs when it is.   *)
SendsInOrder ==
  /\ \A m \in Message : m \in toRouter \/ pending[m] > 0 => m[2] <= socket
  /\ Identity \in toRouter \/ pending[Identity] > 0 => myIsConnected
  /\ at = "listen" => myIsConnected

JoiningInv == JoiningGoesOn /\ RouterKeeps /\ SendsInOrder

(* Only the identity of an older socket can be refused while a handshake   *)
(* waits.                                                                  *)
FirstIsHeeded ==
  socket = 1 =>
    /\ ~history.unheeded
    /\ \A d \in fromRouter : d[1] = "Refuse" => myIsConnected
    /\ at = "receiving" /\ ~myIsHandshaking => myIsConnected

LEMMA RouterJoins ==
  ASSUME TypeOK, ConnectedWasAccepted, JoiningInv, FirstIsHeeded,
         NEW m \in Message, RouterReceives(m)
  PROVE  JoiningInv' /\ FirstIsHeeded'
<1> DEFINE isNew == m \notin router.recent
           answers == {<<"Acknowledge", m>>} \union
             (IF ~isNew \/ router.myIsValid THEN {}
              ELSE IF m[1] = "Setup" THEN {<<"Accept", m>>} ELSE {<<"Refuse", m>>})
<1>1. /\ m \in toRouter /\ toRouter' = toRouter \ {m} /\ fromRouter' = fromRouter \union answers
      /\ UNCHANGED <<socket, at, myIsConnected, myIsHandshaking, pending>>
      /\ router' = [router EXCEPT
           !.recent = @ \union {m},
           !.myIsValid = @ \/ (isNew /\ m[1] = "Setup"),
           !.myIsServer = @ \/ (isNew /\ router.myIsValid /\ m[1] = "Identify")]
      /\ history' = [history EXCEPT !.accepted = @ \/ <<"Accept", m>> \in answers]
  BY DEF RouterReceives
<1>2. /\ router \in RouterConnection /\ history \in History
      /\ Identity \in Message /\ Request \in Message
  BY DEF TypeOK, Message, Identity, Request
<1>3. /\ router'.recent = router.recent \union {m}
      /\ router'.myIsValid = (router.myIsValid \/ (isNew /\ m[1] = "Setup"))
      /\ router'.myIsServer
           = (router.myIsServer \/ (isNew /\ router.myIsValid /\ m[1] = "Identify"))
  BY <1>1, <1>2 DEF RouterConnection
<1>4. /\ history'.givenUp = history.givenUp /\ history'.unheeded = history.unheeded
      /\ history'.accepted = (history.accepted \/ <<"Accept", m>> \in answers)
  BY <1>1, <1>2 DEF History
<1>5. Identity' = Identity /\ Request' = Request
  BY <1>1 DEF Identity, Request
<1>6. /\ \A n \in Message : <<"Acknowledge", n>> \in answers => n = m
      /\ \A n \in Message : <<"Accept", n>> \in answers => n = m /\ m[1] = "Setup" /\ isNew
      /\ ~router.myIsValid /\ m[1] = "Setup" /\ isNew => <<"Accept", m>> \in answers
      /\ \A d \in answers : d[1] = "Refuse" => m[1] # "Setup"
  OBVIOUS
<1> HIDE DEF answers
<1>7. SendsInOrder'
  BY <1>1, <1>5 DEF JoiningInv, SendsInOrder
<1>8. m = Identity => m[1] = "Identify" /\ myIsConnected
  BY <1>1 DEF JoiningInv, SendsInOrder, Identity
<1>9. m = Identity /\ ~history.givenUp => router'.myIsServer
  <2>1. m = Identity /\ ~history.givenUp => router.myIsValid
    BY <1>8 DEF JoiningInv, RouterKeeps, ConnectedWasAccepted
  <2>2. CASE isNew
    BY <1>3, <1>8, <2>1, <2>2
  <2>3. CASE ~isNew
    BY <1>3, <2>3 DEF JoiningInv, RouterKeeps
  <2>4. QED
    BY <2>2, <2>3
<1>10. m[1] = "Setup" /\ ~history.givenUp => router'.myIsValid
  BY <1>3 DEF JoiningInv, RouterKeeps
<1>11. RouterKeeps'
  <2> SUFFICES ASSUME ~history.givenUp PROVE
        /\ history'.accepted => router'.myIsValid
        /\ \A n \in Message :
             <<"Acknowledge", n>> \in fromRouter' /\ n[1] = "Setup" => router'.myIsValid
        /\ \A n \in router'.recent : n[1] = "Setup" => router'.myIsValid
        /\ <<"Acknowledge", Identity>> \in fromRouter' => router'.myIsServer
        /\ Identity \in router'.recent => router'.myIsServer
    BY <1>4, <1>5 DEF RouterKeeps
  <2>1. router.myIsValid => router'.myIsValid
    BY <1>3
  <2>2. router.myIsServer => router'.myIsServer
    BY <1>3
  <2>3. history'.accepted => router'.myIsValid
    BY <1>4, <1>6, <1>10, <2>1 DEF JoiningInv, RouterKeeps
  <2>4. \A n \in Message :
          <<"Acknowledge", n>> \in fromRouter' /\ n[1] = "Setup" => router'.myIsValid
    BY <1>1, <1>6, <1>10, <2>1 DEF JoiningInv, RouterKeeps
  <2>5. \A n \in router'.recent : n[1] = "Setup" => router'.myIsValid
    BY <1>3, <1>10, <2>1 DEF JoiningInv, RouterKeeps
  <2>6. <<"Acknowledge", Identity>> \in fromRouter' => router'.myIsServer
    BY <1>1, <1>2, <1>6, <1>9, <2>2 DEF JoiningInv, RouterKeeps
  <2>7. Identity \in router'.recent => router'.myIsServer
    BY <1>3, <1>9, <2>2 DEF JoiningInv, RouterKeeps
  <2>8. QED
    BY <2>3, <2>4, <2>5, <2>6, <2>7
<1>12. JoiningGoesOn'
  <2> SUFFICES ASSUME ~history.givenUp, ~history.unheeded PROVE
        /\ ~myIsConnected =>
             \/ router'.myIsValid /\ \E d \in fromRouter' : d[1] = "Accept"
             \/ ~router'.myIsValid /\ (at = "request" \/ Unheard(Request)')
        /\ myIsConnected => router'.myIsServer \/ at = "receiving" \/ Unheard(Identity)'
    BY <1>1, <1>4 DEF JoiningGoesOn
  <2>1. ASSUME ~myIsConnected
        PROVE  \/ router'.myIsValid /\ \E d \in fromRouter' : d[1] = "Accept"
               \/ ~router'.myIsValid /\ (at = "request" \/ Unheard(Request)')
    <3>1. CASE router.myIsValid
      BY <1>1, <1>3, <2>1, <3>1 DEF JoiningInv, JoiningGoesOn
    <3>2. CASE ~router.myIsValid /\ m[1] = "Setup"
      <4>1. isNew
        BY <3>2 DEF JoiningInv, RouterKeeps
      <4>2. <<"Accept", m>> \in fromRouter'
        BY <1>1, <1>6, <3>2, <4>1
      <4>3. QED
        BY <1>3, <3>2, <4>1, <4>2
    <3>3. CASE ~router.myIsValid /\ m[1] # "Setup"
      <4>1. ~router'.myIsValid
        BY <1>3, <3>3
      <4>2. Unheard(Request) => Unheard(Request)'
        BY <1>1, <1>3, <1>5, <3>3 DEF Unheard, Request
      <4>3. QED
        BY <2>1, <3>3, <4>1, <4>2 DEF JoiningInv, JoiningGoesOn
    <3>4. QED
      BY <3>1, <3>2, <3>3
  <2>2. ASSUME myIsConnected
        PROVE  router'.myIsServer \/ at = "receiving" \/ Unheard(Identity)'
    <3>1. CASE m = Identity
      BY <1>9, <3>1
    <3>2. CASE m # Identity
      BY <1>1, <1>3, <1>5, <2>2, <3>2 DEF JoiningInv, JoiningGoesOn, Unheard
    <3>3. QED
      BY <3>1, <3>2
  <2>3. QED
    BY <2>1, <2>2
<1>13. FirstIsHeeded'
  <2>1. ASSUME socket = 1, NEW d \in answers, d[1] = "Refuse" PROVE myIsConnected
    <3>1. m[1] = "Identify" /\ m[2] \in Sockets
      BY <1>6, <2>1 DEF Message
    <3>2. m[2] = 1
      BY <1>1, <2>1, <3>1, GameServerAssumption DEF JoiningInv, SendsInOrder, Sockets
    <3>3. m = Identity
      BY <2>1, <3>1, <3>2 DEF Message, Identity
    <3>4. QED
      BY <1>8, <3>3
  <2>2. QED
    BY <1>1, <1>4, <2>1 DEF FirstIsHeeded
<1>14. QED
  BY <1>7, <1>11, <1>12, <1>13 DEF JoiningInv

(* A Connection the router gives up, or erases, keeps the rest of it. *)
LEMMA RouterForgets ==
  ASSUME TypeOK, AcceptancesAreTrue, ConnectedWasAccepted, JoiningInv, FirstIsHeeded,
         RouterGivesUp \/ RouterReaps \/ ClientRedirected
  PROVE  JoiningInv' /\ FirstIsHeeded'
<1>1. /\ UNCHANGED <<socket, at, myIsConnected, myIsHandshaking, pending, toRouter>>
      /\ Identity' = Identity /\ Request' = Request
  BY DEF RouterGivesUp, RouterReaps, ClientRedirected, Identity, Request
<1>2. SendsInOrder'
  BY <1>1 DEF JoiningInv, SendsInOrder
<1>3. history \in History /\ router \in RouterConnection
  BY DEF TypeOK
<1>4. CASE RouterGivesUp
  <2>1. history'.givenUp /\ history'.unheeded = history.unheeded /\ fromRouter' = fromRouter
    BY <1>3, <1>4 DEF RouterGivesUp, History
  <2>2. QED
    BY <1>1, <1>2, <2>1 DEF JoiningInv, JoiningGoesOn, RouterKeeps, FirstIsHeeded
<1>5. CASE RouterReaps
  <2>1. /\ history'.givenUp = history.givenUp /\ history'.unheeded = history.unheeded
        /\ history'.accepted = history.accepted /\ fromRouter' \subseteq fromRouter
        /\ ~router.myIsValid /\ router' = Unknown
    BY <1>3, <1>5 DEF RouterReaps, History
  <2>2. FirstIsHeeded'
    BY <1>1, <2>1 DEF FirstIsHeeded
  <2>3. ~history.givenUp => ~history.accepted /\ ~router.myIsServer /\ ~myIsConnected
    BY <2>1 DEF JoiningInv, RouterKeeps, AcceptancesAreTrue, ConnectedWasAccepted
  <2>4. RouterKeeps'
    BY <1>1, <2>1, <2>3 DEF JoiningInv, RouterKeeps, Unknown
  <2>5. JoiningGoesOn'
    BY <1>1, <2>1, <2>3 DEF JoiningInv, JoiningGoesOn, Unknown, Unheard
  <2>6. QED
    BY <1>2, <2>2, <2>4, <2>5 DEF JoiningInv
<1>6. CASE ClientRedirected
  <2>1. /\ router' = [router EXCEPT !.redirects = TRUE]
        /\ fromRouter' = fromRouter \union {Redirected} /\ UNCHANGED history
    BY <1>6 DEF ClientRedirected
  <2>2. /\ router'.recent = router.recent /\ router'.myIsValid = router.myIsValid
        /\ router'.myIsServer = router.myIsServer
    BY <1>3, <2>1 DEF RouterConnection
  <2>3. Redirected[1] = "Redirected" /\ \A n : Redirected # <<"Acknowledge", n>>
    BY DEF Redirected
  <2>4. JoiningGoesOn'
    BY <1>1, <2>1, <2>2 DEF JoiningInv, JoiningGoesOn, Unheard
  <2>5. RouterKeeps'
    BY <1>1, <2>1, <2>2, <2>3 DEF JoiningInv, RouterKeeps
  <2>6. FirstIsHeeded'
    BY <1>1, <2>1, <2>3 DEF FirstIsHeeded
  <2>7. QED
    BY <1>2, <2>4, <2>5, <2>6 DEF JoiningInv
<1>7. QED
  BY <1>4, <1>5, <1>6

LEMMA UpstreamJoins ==
  ASSUME TypeOK, WaitsDisconnected, ConnectedWasAccepted, JoiningInv, FirstIsHeeded, Upstream
  PROVE  JoiningInv' /\ FirstIsHeeded'
<1> USE DEF JoiningInv
<1>1. /\ router \in RouterConnection /\ socket \in Sockets /\ pending \in [Message -> Nat]
      /\ history \in History
      /\ Identity \in Message /\ Request \in Message /\ Identity # Request
  BY DEF TypeOK, Message, Identity, Request
<1>2. CASE SendRequest
  <2>1. /\ at = "request" /\ at' = "waiting" /\ pending' = [pending EXCEPT ![Request] = @ + 1]
        /\ toRouter' = toRouter \union {Request}
        /\ UNCHANGED <<socket, myIsConnected, fromRouter, router, history>>
    BY <1>2 DEF SendRequest, SendUpstream, Request
  <2>2. Identity' = Identity /\ Request' = Request /\ Request[2] = socket
    BY <2>1 DEF Identity, Request
  <2>3. /\ pending'[Request] > 0
        /\ \A m \in Message : m # Request => pending'[m] = pending[m]
    BY <1>1, <2>1
  <2>4. ~history.givenUp /\ ~router.myIsValid => Request \notin router.recent
    BY DEF RouterKeeps, Request
  <2>5. JoiningGoesOn'
    BY <1>1, <2>1, <2>2, <2>3, <2>4 DEF JoiningGoesOn, Unheard
  <2>6. RouterKeeps'
    BY <2>1, <2>2 DEF RouterKeeps
  <2>7. SendsInOrder'
    BY <1>1, <2>1, <2>2, <2>3 DEF SendsInOrder, Sockets
  <2>8. FirstIsHeeded'
    BY <2>1 DEF FirstIsHeeded
  <2>9. QED
    BY <2>5, <2>6, <2>7, <2>8
<1>3. CASE FlushInHandShake \/ FlushInListen
  <2>1. PICK due \in SUBSET Waiting : toRouter' = toRouter \union due
    BY <1>3 DEF FlushInHandShake, FlushInListen, Resend
  <2>2. /\ \/ at' = at /\ at = "listen"
           \/ at = "waiting" /\ at' = "receiving" /\ myIsHandshaking'
        /\ UNCHANGED <<socket, myIsConnected, pending, fromRouter, router, history>>
    BY <1>3 DEF FlushInHandShake, FlushInListen
  <2>3. Identity' = Identity /\ Request' = Request
    BY <2>2 DEF Identity, Request
  <2>4. SendsInOrder'
    BY <2>1, <2>2, <2>3 DEF SendsInOrder, Waiting
  <2>5. JoiningGoesOn'
    BY <2>2, <2>3 DEF JoiningGoesOn, Unheard
  <2>6. RouterKeeps' /\ FirstIsHeeded'
    BY <2>2, <2>3 DEF RouterKeeps, FirstIsHeeded
  <2>7. QED
    BY <2>4, <2>5, <2>6
<1>4. CASE TimedOut
  <2>1. /\ socket < MaxSockets /\ socket' = socket + 1 /\ toRouter' = {} /\ fromRouter' = {}
        /\ router' = Unknown /\ ~myIsConnected' /\ at' = "request" /\ pending' = pending
        /\ history' = NewSocket
    BY <1>4 DEF TimedOut, Connect
  <2>2. socket' \in Sockets /\ socket' > socket /\ socket' # 1
    BY <1>1, <2>1, GameServerAssumption DEF Sockets
  <2>3. \A m \in Message : pending'[m] > 0 => m[2] < socket'
    BY <1>1, <2>1, GameServerAssumption DEF SendsInOrder, Sockets, Message
  <2>4. pending'[Identity'] = 0
    <3>1. Identity' \in Message /\ Identity'[2] = socket'
      BY <2>2 DEF Identity, Message
    <3>2. QED
      BY <1>1, <2>1, <2>2, <2>3, <3>1 DEF Sockets
  <2>5. SendsInOrder'
    BY <1>1, <2>1, <2>2, <2>3, <2>4, GameServerAssumption DEF SendsInOrder, Sockets, Message
  <2>6. JoiningGoesOn' /\ RouterKeeps'
    BY <2>1 DEF JoiningGoesOn, RouterKeeps, Unknown, NewSocket
  <2>7. QED
    BY <2>2, <2>5, <2>6 DEF FirstIsHeeded
<1>5. CASE FlushEnds
  <2>1. UNCHANGED <<socket, myIsConnected, fromRouter, router, history>> /\ at = "receiving"
    BY <1>5 DEF FlushEnds
  <2>2. Identity' = Identity /\ Request' = Request /\ Identity[2] = socket
    BY <2>1 DEF Identity, Request
  <2>3. CASE at' \in {"waiting", "request"} /\ UNCHANGED <<pending, toRouter>>
             /\ ~myIsConnected
    <3>1. JoiningGoesOn'
      BY <2>1, <2>2, <2>3 DEF JoiningGoesOn, Unheard
    <3>2. QED
      BY <2>1, <2>2, <2>3, <3>1 DEF RouterKeeps, SendsInOrder, FirstIsHeeded
  <2>4. CASE myIsConnected /\ at' = "listen" /\ SendUpstream(Identity)
    <3>1. /\ pending' = [pending EXCEPT ![Identity] = @ + 1]
          /\ toRouter' = toRouter \union {Identity}
      BY <2>4 DEF SendUpstream
    <3>2. /\ pending'[Identity] > 0
          /\ \A m \in Message : m # Identity => pending'[m] = pending[m]
      BY <1>1, <3>1
    <3>3. SendsInOrder'
      BY <1>1, <2>1, <2>2, <2>4, <3>1, <3>2 DEF SendsInOrder, Sockets
    <3>4. JoiningGoesOn'
      BY <2>1, <2>2, <2>4, <3>2 DEF JoiningGoesOn, RouterKeeps, Unheard
    <3>5. RouterKeeps' /\ FirstIsHeeded'
      BY <2>1, <2>2, <2>4 DEF RouterKeeps, FirstIsHeeded
    <3>6. QED
      BY <3>3, <3>4, <3>5
  <2>5. QED
    BY <1>5, <2>1, <2>3, <2>4 DEF FlushEnds, Identity, WaitsDisconnected
<1>6. ASSUME NEW m \in Message, ReceiveAcknowledge(m) PROVE JoiningInv' /\ FirstIsHeeded'
  <2>1. /\ <<"Acknowledge", m>> \in fromRouter
        /\ fromRouter' = fromRouter \ {<<"Acknowledge", m>>}
        /\ pending' = [pending EXCEPT ![m] = IF @ > 0 THEN @ - 1 ELSE 0]
        /\ UNCHANGED <<socket, at, myIsConnected, myIsHandshaking, toRouter, router, history>>
    BY <1>6 DEF ReceiveAcknowledge
  <2>2. Identity' = Identity /\ Request' = Request /\ Request[1] = "Setup"
    BY <2>1 DEF Identity, Request
  <2>3. \A n \in Message : /\ n # m => pending'[n] = pending[n]
                           /\ pending'[n] > 0 => pending[n] > 0
    BY <1>1, <2>1
  <2>4. \A d \in fromRouter : d[1] = "Accept" => d \in fromRouter'
    BY <2>1
  <2>5. JoiningGoesOn'
    <3> SUFFICES ASSUME ~history.givenUp, ~history.unheeded PROVE
          /\ ~myIsConnected =>
               \/ router.myIsValid /\ \E d \in fromRouter' : d[1] = "Accept"
               \/ ~router.myIsValid /\ (at = "request" \/ Unheard(Request)')
          /\ myIsConnected => router.myIsServer \/ at = "receiving" \/ Unheard(Identity)'
      BY <2>1 DEF JoiningGoesOn
    <3>1. m = Request => router.myIsValid
      BY <2>1, <2>2 DEF RouterKeeps
    <3>2. m = Identity => router.myIsServer
      BY <2>1 DEF RouterKeeps
    <3>3. \A n \in Message \ {m} : Unheard(n) => pending'[n] > 0 /\ n \notin router'.recent
      BY <2>1, <2>3 DEF Unheard
    <3>4. QED
      BY <1>1, <2>1, <2>2, <2>4, <3>1, <3>2, <3>3 DEF JoiningGoesOn, Unheard
  <2>6. RouterKeeps' /\ FirstIsHeeded'
    BY <2>1, <2>2 DEF RouterKeeps, FirstIsHeeded
  <2>7. SendsInOrder'
    BY <1>1, <2>1, <2>2, <2>3 DEF SendsInOrder
  <2>8. QED
    BY <2>5, <2>6, <2>7
<1>7. ASSUME NEW d \in fromRouter, ReceiveSetup(d) PROVE JoiningInv' /\ FirstIsHeeded'
  <2>1. /\ at \in {"receiving", "listen"}
        /\ fromRouter' = fromRouter \ {d} /\ d[1] # "Acknowledge"
        /\ UNCHANGED <<socket, at, pending, toRouter, router>>
    BY <1>7 DEF ReceiveSetup
  <2>2. \/ /\ myIsHandshaking /\ ~myIsHandshaking' /\ UNCHANGED history
           /\ myIsConnected => myIsConnected'
           /\ d[1] # "Refuse" => myIsConnected'
           /\ ~myIsConnected /\ d[1] = "Refuse" => ~myIsConnected'
        \/ /\ ~myIsHandshaking /\ UNCHANGED <<myIsHandshaking, myIsConnected>>
           /\ history' = [history EXCEPT !.unheeded = @ \/ (~myIsConnected /\ d[1] = "Accept")]
    <3>1. CASE HandShakeAttempt(d) /\ UNCHANGED history
      <4>1. myIsConnected' = (myIsConnected \/ d[1] # "Refuse")
        BY <3>1 DEF HandShakeAttempt
      <4>2. /\ myIsConnected => myIsConnected'
            /\ d[1] # "Refuse" => myIsConnected'
            /\ ~myIsConnected /\ d[1] = "Refuse" => ~myIsConnected'
        BY <4>1, Zenon
      <4>3. QED
        BY <3>1, <4>2 DEF HandShakeAttempt
    <3>2. CASE ~HandShakeAttempt(d) \/ ~UNCHANGED history
      BY <1>7, <3>2 DEF ReceiveSetup
    <3>3. QED
      BY <3>1, <3>2
  <2>3. /\ history'.givenUp = history.givenUp /\ history'.accepted = history.accepted
        /\ history.unheeded => history'.unheeded
        /\ history'.unheeded => \/ history.unheeded
                                \/ ~myIsHandshaking /\ ~myIsConnected /\ d[1] = "Accept"
        /\ ~history'.unheeded /\ ~myIsHandshaking /\ ~myIsConnected => d[1] # "Accept"
    <3>1. CASE UNCHANGED history /\ myIsHandshaking
      BY <3>1
    <3>2. CASE /\ ~myIsHandshaking
               /\ history' = [history EXCEPT !.unheeded = @ \/ (~myIsConnected /\ d[1] = "Accept")]
      <4>1. /\ history'.givenUp = history.givenUp /\ history'.accepted = history.accepted
            /\ history'.unheeded = (history.unheeded \/ (~myIsConnected /\ d[1] = "Accept"))
        BY <1>1, <3>2 DEF History
      <4>2. /\ history.unheeded => history'.unheeded
            /\ history'.unheeded => history.unheeded \/ (~myIsConnected /\ d[1] = "Accept")
            /\ ~history'.unheeded /\ ~myIsConnected => d[1] # "Accept"
        BY <4>1, Zenon
      <4>3. QED
        BY <3>2, <4>1, <4>2
    <3>3. QED
      BY <2>2, <3>1, <3>2
  <2>4. Identity' = Identity /\ Request' = Request
    BY <2>1 DEF Identity, Request
  <2>5. /\ myIsConnected => myIsConnected'
        /\ at = "listen" => myIsConnected /\ myIsConnected'
    BY <2>2 DEF SendsInOrder
  <2>6. ASSUME ~myIsConnected', ~history'.unheeded
        PROVE  /\ ~myIsConnected /\ ~history.unheeded
               /\ \A e \in fromRouter : e[1] = "Accept" => e \in fromRouter'
    BY <2>1, <2>2, <2>3, <2>6
  <2>7. ASSUME ~history'.givenUp, ~history'.unheeded, myIsConnected'
        PROVE  router'.myIsServer \/ at' = "receiving" \/ Unheard(Identity)'
    BY <2>1, <2>3, <2>4, <2>5, <2>7 DEF JoiningGoesOn, Unheard
  <2>8. ASSUME ~history'.givenUp, ~history'.unheeded, ~myIsConnected'
        PROVE  \/ router'.myIsValid /\ \E e \in fromRouter' : e[1] = "Accept"
               \/ ~router'.myIsValid /\ (at' = "request" \/ Unheard(Request)')
    BY <2>1, <2>3, <2>4, <2>6, <2>8 DEF JoiningGoesOn, Unheard
  <2>9. JoiningGoesOn'
    BY <2>7, <2>8 DEF JoiningGoesOn
  <2>10. RouterKeeps' /\ SendsInOrder'
    BY <2>1, <2>3, <2>4, <2>5 DEF RouterKeeps, SendsInOrder
  <2>11. FirstIsHeeded'
    BY <2>1, <2>2, <2>3, <2>5 DEF FirstIsHeeded
  <2>12. QED
    BY <2>9, <2>10, <2>11
<1>8. QED
  BY <1>2, <1>3, <1>4, <1>5, <1>6, <1>7 DEF Upstream

LEMMA NextJoiningInv ==
  IInv /\ JoiningInv /\ FirstIsHeeded /\ [Next]_vars => JoiningInv' /\ FirstIsHeeded'
<1> SUFFICES ASSUME IInv, JoiningInv, FirstIsHeeded, [Next]_vars
             PROVE  JoiningInv' /\ FirstIsHeeded'
  OBVIOUS
<1>1. TypeOK /\ WaitsDisconnected /\ ConnectedWasAccepted /\ AcceptancesAreTrue
  BY DEF IInv
<1>2. ASSUME UNCHANGED upstream PROVE JoiningInv' /\ FirstIsHeeded'
  BY <1>2 DEF upstream, JoiningInv, JoiningGoesOn, RouterKeeps, SendsInOrder, FirstIsHeeded,
              Unheard, Request, Identity
<1>3. ASSUME NEW p \in Clients,
             \/ Serve(p) \/ ReceiveError(p) \/ ConnectionTimedOut(p)
             \/ \E kind \in {"Setup", "Identify", "UserDisconnected"} : ClientSends(p, kind)
      PROVE  UNCHANGED upstream
  BY <1>3 DEF Serve, Accept, Refuse, Kick, ForwardGoodbye, Crash, ReceiveError,
              ConnectionTimedOut, ClientSends
<1>4. CASE UNCHANGED vars
  BY <1>2, <1>4 DEF vars
<1>5. QED
  BY <1>1, <1>2, <1>3, <1>4, RouterForgets, RouterJoins, UpstreamJoins DEF Next, Environment

THEOREM JoiningInvHolds == Spec => [](JoiningInv /\ FirstIsHeeded)
<1>1. Init => JoiningInv /\ FirstIsHeeded
  BY GameServerAssumption
     DEF Init, Unknown, NewSocket, JoiningInv, JoiningGoesOn, RouterKeeps, SendsInOrder,
         FirstIsHeeded, Identity, Message, Sockets
<1>2. QED
  BY <1>1, NextJoiningInv, IInvHolds, PTL DEF Spec

(***************************************************************************)
(* The handshake with the router is never stuck, whatever messages of old  *)
(* sockets are still sent again and whatever the router refuses and        *)
(* erases, unless the router gave the socket up, or a Flush of HandShake   *)
(* read its acceptance after another answer                                *)
(* (TGameServer/ServerMain.cpp:200-234).                                   *)
(***************************************************************************)
THEOREM JoiningGoesOnHolds == Spec => []JoiningGoesOn
<1>1. JoiningInv => JoiningGoesOn
  BY DEF JoiningInv
<1>2. QED
  BY <1>1, JoiningInvHolds, PTL

(* On its first socket the server heeds the acceptance: only what it sends *)
(* again for an older socket can be refused, and so be read before it      *)
(* (TGameServer/ServerMain.cpp:200-268).                                   *)
FirstHandShakeIsHeeded == socket = 1 => ~history.unheeded

THEOREM FirstHandShakeIsHeededHolds == Spec => []FirstHandShakeIsHeeded
<1>1. FirstIsHeeded => FirstHandShakeIsHeeded
  BY DEF FirstIsHeeded, FirstHandShakeIsHeeded
<1>2. QED
  BY <1>1, JoiningInvHolds, PTL
=============================================================================
