------------------------ MODULE RedirectServerProofs ------------------------
(* Theorems about RedirectServer, for every value of its constants.        *)
EXTENDS RedirectServer, FiniteSetTheorems, WellFoundedInduction, TLAPS

-----------------------------------------------------------------------------
(* The inductive invariants.                                               *)

Tables == [Peers -> Connection \union {None}]

(* Each hook belongs to a NetIdentify of the connection. *)
HooksOfIdentify == \A p \in Present(myClients) : myClients[p].hooks <= myClients[p].identified

(* What was told to a peer went with its entry. *)
AbsentHeardNothing == \A p \in Peers : myClients[p] = None => told[p] = {}

IInv == TypeOK /\ HooksOfIdentify /\ AbsentHeardNothing /\ RosterHasNoGhosts

-----------------------------------------------------------------------------
(* Lemmas about the table.                                                 *)

(* A set of naturals has a smallest element: 0 .. n is well founded by     *)
(* inclusion.                                                              *)
LEMMA SmallestExists ==
  ASSUME NEW S \in SUBSET Nat, S # {}
  PROVE  \E x \in S : \A y \in S : x <= y
<1> DEFINE T == {0 .. n : n \in S}
<1>1. IsWellFoundedOn(StrictSubsetOrdering(Nat), FiniteSubsetsOf(Nat))
  BY FS_StrictSubsetOrderingWellFounded
<1>2. T \subseteq FiniteSubsetsOf(Nat) /\ T # {}
  <2>1. \A n \in S : 0 .. n \subseteq Nat /\ IsFiniteSet(0 .. n)
    BY FS_Interval
  <2>2. QED
    BY <2>1 DEF FiniteSubsetsOf
<1>3. \E X \in T : \A Y \in T : ~(<<Y, X>> \in StrictSubsetOrdering(Nat))
  <2> HIDE DEF T
  <2>1. QED
    BY <1>1, <1>2, WFMin
<1>4. PICK x \in S : \A y \in S : ~(<<0 .. y, 0 .. x>> \in StrictSubsetOrdering(Nat))
  BY <1>3
<1>5. ASSUME NEW y \in S, y < x PROVE FALSE
  <2>1. x \in Nat /\ y \in Nat
    OBVIOUS
  <2>2. 0 .. y \subseteq 0 .. x /\ 0 .. y # 0 .. x /\ 0 .. x \subseteq Nat
    <3>1. x \in 0 .. x /\ x \notin 0 .. y
      BY <1>5, <2>1
    <3>2. \A i \in 0 .. y : i \in 0 .. x
      BY <1>5, <2>1
    <3>3. QED
      BY <3>1, <3>2
  <2>3. QED
    BY <1>4, <2>2 DEF StrictSubsetOrdering
<1>6. \A y \in S : x <= y
  BY <1>5
<1>7. QED
  BY <1>6

(* The connection chosen by EvaluateRedirectResult is one that was noted,  *)
(* and none that was noted has a smaller ping.                             *)
LEMMA BestIsNoticed ==
  ASSUME NEW c \in Connection, Noticed(c) # {}
  PROVE  /\ Best(c) \in Noticed(c)
         /\ \A b \in Noticed(c) : c.myEvaluations[Best(c)].myPing <= c.myEvaluations[b].myPing
<1> DEFINE pings == {c.myEvaluations[a].myPing : a \in Noticed(c)}
           best == {a \in Noticed(c) :
                      \A b \in Noticed(c) : c.myEvaluations[a].myPing <= c.myEvaluations[b].myPing}
<1>1. \A a \in Noticed(c) : a \in Nat /\ c.myEvaluations[a].myPing \in Nat
  <2>1. c.myEvaluations \in [Addresses -> Evaluation \union {None}]
    BY DEF Connection
  <2>2. Addresses \subseteq Nat /\ Pings \union {0} \subseteq Nat
    BY PeersAssumption, BoundsAssumption DEF Addresses, Peers, Wild
  <2>3. \A e \in Evaluation : e.myPing \in Nat
    BY <2>2 DEF Evaluation
  <2>4. QED
    BY <2>1, <2>2, <2>3 DEF Noticed
<1>2. PICK least \in pings : \A y \in pings : least <= y
  <2>1. pings \in SUBSET Nat /\ pings # {}
    BY <1>1
  <2>2. QED
    BY <2>1, SmallestExists
<1>3. best # {} /\ best \in SUBSET Nat
  BY <1>1, <1>2
<1>4. \E x \in best : \A y \in best : x <= y
  BY <1>3, SmallestExists
<1>5. Best(c) \in best
  BY <1>4 DEF Best, Min
<1>6. QED
  BY <1>5

(* The cast to unsigned short gives an id. *)
LEMMA IdOfType == ASSUME NEW n \in Nat PROVE IdOf(n) \in Ids
  BY BoundsAssumption DEF IdOf, Ids

LEMMA NewConnectionsType ==
  ASSUME NEW n \in Objects
  PROVE  NewConnections(n) \subseteq Connection
<1>1. IdOf(n) \in Ids
  BY BoundsAssumption, IdOfType DEF Objects
<1>2. 0 \in 0 .. IdentifyCap /\ 0 \in 0 .. RedirectTimeout + 1
  BY BoundsAssumption
<1>3. [a \in Addresses |-> None] \in [Addresses -> Evaluation \union {None}]
  OBVIOUS
<1>4. \A memory \in Memory : /\ memory.myIsServer \in BOOLEAN
                             /\ memory.myServerAddress \in Addresses
                             /\ memory.myPotentialRedirectCount \in Int
  BY MemoryAssumption
<1>5. ASSUME NEW memory \in Memory
      PROVE  [object |-> n, myID |-> IdOf(n), myIsValid |-> FALSE,
              myIsServer |-> memory.myIsServer, myServerAddress |-> memory.myServerAddress,
              identified |-> 0, hooks |-> 0, myIsRedirecting |-> FALSE, sinceRedirect |-> 0,
              myPotentialRedirectCount |-> memory.myPotentialRedirectCount,
              myEvaluations |-> [a \in Addresses |-> None]] \in Connection
  BY <1>1, <1>2, <1>3, <1>4 DEF Connection
<1>6. QED
  BY <1>5 DEF NewConnections

(* The tables in which a datagram is handled are tables, with an entry. *)
LEMMA WithEntryType ==
  ASSUME myClients \in Tables, made \in 0 .. MaxConnections, NEW p \in Peers, CountMade(p),
         NEW table \in WithEntry(p)
  PROVE  /\ table \in Tables /\ table[p] \in Connection /\ made' \in 0 .. MaxConnections
         /\ \A q \in Peers \ {p} : table[q] = myClients[q]
         /\ myClients[p] # None => table = myClients
         /\ myClients[p] = None => table[p] \in NewConnections(made + 1) /\ made + 1 \in Objects
<1>1. CASE myClients[p] # None
  BY <1>1 DEF WithEntry, CountMade, Tables
<1>2. CASE myClients[p] = None
  <2>1. made + 1 \in Objects /\ made' \in 0 .. MaxConnections
    BY <1>2, BoundsAssumption DEF CountMade, Objects
  <2>2. PICK c \in NewConnections(made + 1) : table = [myClients EXCEPT ![p] = c]
    BY <1>2 DEF WithEntry
  <2>3. c \in Connection
    BY <2>1, NewConnectionsType
  <2>4. QED
    BY <1>2, <2>1, <2>2, <2>3 DEF Tables
<1>3. QED
  BY <1>1, <1>2

(* What TransmitMessage tells the connections of a table are ids. *)
LEMMA AnnounceType ==
  ASSUME NEW table \in Tables, NEW k \in Peers, NEW id \in Ids,
         NEW heard \in [Peers -> SUBSET Ids], table[k] \in Connection
  PROVE  /\ AnnounceConnected(table, k, heard) \in [Peers -> SUBSET Ids]
         /\ AnnounceDisconnected(table, id, heard) \in [Peers -> SUBSET Ids]
<1>1. \A p \in Present(table) : p \in Peers /\ table[p].myID \in Ids
  BY DEF Present, Connection, Tables
<1>2. table[k].myID \in Ids /\ DOMAIN table = Peers
  BY DEF Connection, Tables
<1>3. AnnounceConnected(table, k, heard) \in [Peers -> SUBSET Ids]
  BY <1>1, <1>2 DEF AnnounceConnected
<1>4. AnnounceDisconnected(table, id, heard) \in [Peers -> SUBSET Ids]
  BY <1>2 DEF AnnounceDisconnected
<1>5. QED
  BY <1>3, <1>4

(* As many servers are candidates as can be counted. *)
LEMMA CandidatesCount ==
  ASSUME NEW table \in Tables
  PROVE  IsFiniteSet(Candidates(table)) /\ Cardinality(Candidates(table)) \in Nat
<1>1. Candidates(table) \subseteq Peers
  BY DEF Candidates, Present, Tables
<1>2. QED
  BY <1>1, PeersAssumption, FS_Subset, FS_CardinalityType

(* BeginRedirect changes one connection, and keeps it one. *)
LEMMA BeginRedirectType ==
  ASSUME NEW table \in Tables, NEW k \in Peers, table[k] \in Connection,
         NEW claim \in Claims(table)
  PROVE  BeginRedirect(table, k, claim) \in Tables /\ BeginRedirect(table, k, claim)[k] \in Connection
<1> DEFINE evaluations ==
             [a \in Addresses |-> IF a \in Offers(table)
                                  THEN Noted(table[k].myEvaluations[a], table[claim[a]].object)
                                  ELSE table[k].myEvaluations[a]]
           c == [table[k] EXCEPT
                   !.myIsRedirecting = TRUE,
                   !.sinceRedirect = 0,
                   !.myPotentialRedirectCount = Cardinality(Candidates(table)),
                   !.myEvaluations = evaluations]
<1>1. ASSUME NEW a \in Offers(table) PROVE table[claim[a]].object \in Objects
  <2>1. claim[a] \in Candidates(table)
    BY DEF Claims
  <2>2. QED
    BY <2>1 DEF Candidates, Present, Tables, Connection
<1>2. ASSUME NEW a \in Addresses, a \in Offers(table)
      PROVE  Noted(table[k].myEvaluations[a], table[claim[a]].object) \in Evaluation
  <2>1. table[k].myEvaluations[a] \in Evaluation \union {None}
    BY DEF Connection
  <2>2. QED
    BY <1>1, <1>2, <2>1 DEF Noted, Evaluation
<1>3. evaluations \in [Addresses -> Evaluation \union {None}]
  BY <1>2 DEF Connection
<1>4. 0 \in 0 .. RedirectTimeout + 1 /\ Cardinality(Candidates(table)) \in Int
  BY BoundsAssumption, CandidatesCount
<1> HIDE DEF evaluations
<1>5. c \in Connection
  BY <1>3, <1>4 DEF Connection
<1>6. BeginRedirect(table, k, claim) = [table EXCEPT ![k] = c]
  BY DEF BeginRedirect, c, evaluations
<1> HIDE DEF c
<1>7. QED
  BY <1>5, <1>6 DEF Tables

(* What is offered, and chosen, are addresses. *)
LEMMA OffersType == ASSUME NEW table \in Tables PROVE Offers(table) \subseteq Addresses
  BY DEF Offers, Candidates, Present, Tables, Connection

(* EvaluateRedirectResult keeps the types. *)
LEMMA EvaluateType ==
  ASSUME NEW table \in Tables, NEW k \in Peers, table[k] \in Connection, NEW flag \in BOOLEAN,
         EvaluateRedirectResult(table, k, flag),
         offered \in [Peers -> SUBSET Addresses],
         target \in [Peers -> Addresses \union {None}]
  PROVE  /\ myClients' \in Tables
         /\ offered' \in [Peers -> SUBSET Addresses]
         /\ target' \in [Peers -> Addresses \union {None}]
<1>1. CASE myClients' = table /\ UNCHANGED <<offered, target>>
  BY <1>1
<1>2. CASE /\ \E a \in ReadServerAddress(table,
                       table[k].myEvaluations[Best(table[k])].myConnection) :
                target' = [target EXCEPT ![k] = a]
           /\ myClients' = [table EXCEPT ![k].myIsRedirecting = FALSE, ![k].sinceRedirect = 0]
           /\ UNCHANGED offered
  <2>1. \A object : ReadServerAddress(table, object) \subseteq Addresses
    BY DEF ReadServerAddress, Present, Tables, Connection
  <2>2. target' \in [Peers -> Addresses \union {None}]
    BY <1>2, <2>1
  <2>3. [table[k] EXCEPT !.myIsRedirecting = FALSE, !.sinceRedirect = 0] \in Connection
    <3>1. 0 \in 0 .. RedirectTimeout + 1
      BY BoundsAssumption
    <3>2. QED
      BY <3>1 DEF Connection
  <2>4. myClients' \in Tables
    BY <1>2, <2>3 DEF Tables
  <2>5. QED
    BY <1>2, <2>2, <2>4
<1>3. CASE /\ \E claim \in Claims(table) : myClients' = BeginRedirect(table, k, claim)
           /\ offered' = [offered EXCEPT ![k] = @ \union Offers(table)]
           /\ UNCHANGED target
  BY <1>3, BeginRedirectType, OffersType
<1>4. QED
  BY <1>1, <1>2, <1>3 DEF EvaluateRedirectResult

(* A Connection that is given up gets the standing of one that lapsed. *)
LEMMA LapsesType ==
  ASSUME TypeOK, NEW k \in Peers, NEW valid, Lapses(k, valid)
  PROVE  standing' \in [Objects -> {"new", "server", "lapsed"}]
  BY DEF Lapses, TypeOK

-----------------------------------------------------------------------------
(* Type correctness, with the bound on hooks that it rests on.             *)

TypeInv == TypeOK /\ HooksOfIdentify

(* Every other step that handles a datagram, or lets time pass. *)
LEMMA OthersType ==
  ASSUME TypeInv, NEW p \in Peers,
         \/ Reap(p) \/ ReceiveError(p) \/ ReceiveAtDefaultEntry(p)
         \/ ReceiveSetup(p) \/ RefuseHandShake(p) \/ IdentifyServer(p) \/ IdentifyClient(p)
         \/ Kick(p) \/ \E id \in Ids : UserDisconnected(p, id)
  PROVE  TypeOK'
<1> USE DEF TypeOK, TypeInv
<1>1. CASE Reap(p)
  <2>1. myClients[p] \in Connection /\ myClients[p].myID \in Ids
    BY <1>1 DEF Reap, IsNext, Present, Connection
  <2>2. AnnounceDisconnected(myClients, myClients[p].myID, told) \in [Peers -> SUBSET Ids]
    BY <2>1, AnnounceType DEF Tables
  <2>3. QED
    BY <1>1, <2>2 DEF Reap, VisitIsOver
<1>2. CASE ReceiveError(p)
  <2>1. errors' \in 0 .. ErrorBound
    BY <1>2, BoundsAssumption DEF ReceiveError
  <2>2. CASE myClients[p] # None
    <3>1. [myClients[p] EXCEPT !.myIsValid = FALSE, !.hooks = 0] \in Connection
      <4>1. myClients[p] \in Connection /\ 0 \in 0 .. IdentifyCap
        BY <2>2, BoundsAssumption
      <4>2. QED
        BY <4>1 DEF Connection
    <3>2. myClients' = [myClients EXCEPT ![p] =
                          [myClients[p] EXCEPT !.myIsValid = FALSE, !.hooks = 0]]
      BY <1>2, <2>2 DEF ReceiveError
    <3>3. QED
      BY <1>2, <2>1, <2>2, <3>1, <3>2, LapsesType DEF ReceiveError, Receiving
  <2>3. CASE myClients[p] = None
    <3>1. PICK id \in Ids, c \in NewConnections(0) :
            myClients' = [myClients EXCEPT ![p] = [c EXCEPT !.myID = id]]
      BY <1>2, <2>3 DEF ReceiveError
    <3>2. c \in Connection
      BY NewConnectionsType, BoundsAssumption DEF Objects
    <3>3. [c EXCEPT !.myID = id] \in Connection
      BY <3>2 DEF Connection
    <3>4. QED
      BY <1>2, <2>1, <2>3, <3>1, <3>3 DEF ReceiveError, Receiving
  <2>4. QED
    BY <2>2, <2>3
<1>3. CASE ReceiveAtDefaultEntry(p)
  BY <1>3 DEF ReceiveAtDefaultEntry, Receiving, sentOut
<1>4. CASE ReceiveSetup(p)
  <2>1. PICK table \in WithEntry(p) :
          \/ /\ table[p].myIsValid
             /\ UNCHANGED <<myClients, told, assigned, left>>
          \/ /\ ~table[p].myIsValid
             /\ myClients' = [table EXCEPT ![p].myIsValid = TRUE]
             /\ told' = AnnounceConnected(table, p, told)
             /\ assigned' = [assigned EXCEPT ![p] = @ \union {table[p].myID}]
             /\ left' = left \ {table[p].myID}
    BY <1>4 DEF ReceiveSetup
  <2>2. table \in Tables /\ table[p] \in Connection /\ made' \in 0 .. MaxConnections
    BY <1>4, WithEntryType DEF ReceiveSetup, Tables
  <2>3. table[p].myID \in Ids /\ [table[p] EXCEPT !.myIsValid = TRUE] \in Connection
    BY <2>2 DEF Connection
  <2>4. AnnounceConnected(table, p, told) \in [Peers -> SUBSET Ids]
    BY <2>2, <2>3, AnnounceType
  <2>5. [table EXCEPT ![p].myIsValid = TRUE] \in [Peers -> Connection \union {None}]
    BY <2>2, <2>3 DEF Tables
  <2>6. myClients' \in [Peers -> Connection \union {None}]
    BY <2>1, <2>5
  <2>7. told' \in [Peers -> SUBSET Ids] /\ assigned' \in [Peers -> SUBSET Ids] /\ left' \subseteq Ids
    BY <2>1, <2>3, <2>4
  <2>8. QED
    BY <1>4, <2>2, <2>6, <2>7 DEF ReceiveSetup, Receiving
<1>5. CASE RefuseHandShake(p)
  <2>1. PICK table \in WithEntry(p) : myClients' = table
    BY <1>5 DEF RefuseHandShake
  <2>2. table \in Tables /\ made' \in 0 .. MaxConnections
    BY <1>5, WithEntryType DEF RefuseHandShake, Tables
  <2>3. QED
    BY <1>5, <2>1, <2>2 DEF RefuseHandShake, Receiving, sentOut, Tables
<1>6. CASE IdentifyServer(p)
  <2>1. myClients[p] \in Connection /\ p \in Addresses
    BY <1>6 DEF IdentifyServer, IsValid, Addresses
  <2>2. [myClients[p] EXCEPT !.myIsServer = TRUE, !.myServerAddress = p] \in Connection
    BY <2>1 DEF Connection
  <2>3. QED
    BY <1>6, <2>2 DEF IdentifyServer, Receiving, sentOut
<1>7. CASE IdentifyClient(p)
  <2>1. myClients[p] \in Connection /\ myClients[p].hooks <= myClients[p].identified
    BY <1>7 DEF IdentifyClient, IsValid, HooksOfIdentify, Present
  <2>2. /\ myClients[p].hooks + 1 \in 0 .. IdentifyCap
        /\ myClients[p].identified + 1 \in 0 .. IdentifyCap
    BY <1>7, <2>1, BoundsAssumption DEF IdentifyClient, Connection
  <2>3. [myClients[p] EXCEPT !.myIsServer = FALSE, !.identified = @ + 1, !.hooks = @ + 1]
          \in Connection
    BY <2>1, <2>2 DEF Connection
  <2>4. QED
    BY <1>7, <2>3 DEF IdentifyClient, Receiving, sentOut
<1>8. CASE Kick(p)
  <2>1. [myClients[p] EXCEPT !.myIsValid = FALSE] \in Connection
    BY <1>8 DEF Kick, IsValid, Connection
  <2>2. QED
    BY <1>8, <2>1, LapsesType DEF Kick, Receiving, sentOut
<1>9. ASSUME NEW id \in Ids, UserDisconnected(p, id) PROVE TypeOK'
  <2>1. AnnounceDisconnected(myClients, id, told) \in [Peers -> SUBSET Ids]
    BY <1>9, AnnounceType DEF UserDisconnected, IsValid, Tables
  <2>2. QED
    BY <1>9, <2>1 DEF UserDisconnected, Receiving
<1>10. QED
  BY <1>1, <1>2, <1>3, <1>4, <1>5, <1>6, <1>7, <1>8, <1>9

LEMMA TickType ==
  ASSUME TypeOK, Tick
  PROVE  /\ TypeOK'
         /\ \A q \in Peers :
              \/ myClients'[q] = myClients[q]
              \/ /\ myClients[q] \in Connection /\ myClients'[q] \in Connection
                 /\ myClients'[q] = [myClients[q] EXCEPT !.sinceRedirect = @ + 1]
<1> USE DEF TypeOK
<1>1. ASSUME NEW p \in Peers, myClients[p] # None,
             myClients[p].sinceRedirect <= RedirectTimeout
      PROVE  [myClients[p] EXCEPT !.sinceRedirect = @ + 1] \in Connection
  <2>1. myClients[p] \in Connection
    BY <1>1
  <2>2. myClients[p].sinceRedirect + 1 \in 0 .. RedirectTimeout + 1
    BY <1>1, <2>1, BoundsAssumption DEF Connection
  <2>3. QED
    BY <2>1, <2>2 DEF Connection
<1>2. TypeOK'
  BY <1>1 DEF Tick, sentOut
<1>3. \A q \in Peers :
        \/ myClients'[q] = myClients[q]
        \/ /\ myClients[q] # None /\ myClients[q].sinceRedirect <= RedirectTimeout
           /\ myClients'[q] = [myClients[q] EXCEPT !.sinceRedirect = @ + 1]
  BY DEF Tick
<1>4. QED
  BY <1>1, <1>2, <1>3

-----------------------------------------------------------------------------
(* What the redirect leaves alone.                                         *)

(* Connections, and tables, that differ in redirects, used up hooks and    *)
(* the timeouts of those who may time out only.                            *)
Like(new, old) ==
  /\ new.object = old.object /\ new.myID = old.myID
  /\ new.identified = old.identified /\ new.hooks <= old.hooks
  /\ new.myIsServer = old.myIsServer /\ new.myServerAddress = old.myServerAddress
  /\ new.myIsValid => old.myIsValid

Alike(new, old) ==
  \A q \in Peers :
    /\ new[q] = None <=> old[q] = None
    /\ old[q] # None => Like(new[q], old[q])
    /\ old[q] # None /\ q \notin MayTimeOut => new[q].myIsValid = old[q].myIsValid

LEMMA LikeItself == ASSUME NEW c \in Connection PROVE Like(c, c)
<1>1. c.hooks \in Int
  BY BoundsAssumption DEF Connection
<1>2. QED
  BY <1>1 DEF Like

LEMMA AlikeTransitive ==
  ASSUME NEW a \in Tables, NEW b \in Tables, NEW c \in Tables, Alike(a, b), Alike(b, c)
  PROVE  Alike(a, c)
<1>1. \A q \in Peers : /\ a[q] # None => a[q].hooks \in Int
                       /\ b[q] # None => b[q].hooks \in Int
                       /\ c[q] # None => c[q].hooks \in Int
  BY BoundsAssumption DEF Tables, Connection
<1>2. QED
  BY <1>1 DEF Alike, Like

(* A table with one connection changed in these fields only is alike. *)
LEMMA ChangeAlike ==
  ASSUME NEW old \in Tables, NEW k \in Peers, old[k] \in Connection, NEW c \in Connection,
         Like(c, old[k]), k \notin MayTimeOut => c.myIsValid = old[k].myIsValid
  PROVE  /\ [old EXCEPT ![k] = c] \in Tables
         /\ Alike([old EXCEPT ![k] = c], old)
<1> DEFINE new == [old EXCEPT ![k] = c]
<1>1. \A q \in Peers : old[q] # None => Like(old[q], old[q])
  BY LikeItself DEF Tables
<1>2. \A q \in Peers : q # k => new[q] = old[q]
  BY DEF Tables
<1>3. new[k] = c /\ c # None /\ old[k] # None
  BY NoneAssumption DEF Tables
<1>4. new \in Tables
  BY DEF Tables
<1> HIDE DEF new
<1>5. Alike(new, old)
  BY <1>1, <1>2, <1>3 DEF Alike
<1>6. QED
  BY <1>4, <1>5 DEF new

LEMMA BeginRedirectAlike ==
  ASSUME NEW table \in Tables, NEW k \in Peers, table[k] \in Connection,
         NEW claim \in Claims(table)
  PROVE  Alike(BeginRedirect(table, k, claim), table)
<1> DEFINE c == BeginRedirect(table, k, claim)[k]
<1>1. c \in Connection
  BY BeginRedirectType
<1>2. BeginRedirect(table, k, claim) = [table EXCEPT ![k] = c]
  BY DEF BeginRedirect, Tables
<1>3. table[k].hooks \in Int
  BY BoundsAssumption DEF Connection
<1>4. Like(c, table[k]) /\ c.myIsValid = table[k].myIsValid
  BY <1>3 DEF BeginRedirect, Tables, Connection, Like
<1> HIDE DEF c
<1>5. QED
  BY <1>1, <1>2, <1>4, ChangeAlike

LEMMA EvaluateAlike ==
  ASSUME NEW table \in Tables, NEW k \in Peers, table[k] \in Connection, NEW flag \in BOOLEAN,
         EvaluateRedirectResult(table, k, flag)
  PROVE  Alike(myClients', table)
<1>1. CASE myClients' = table
  <2>1. \A q \in Peers : table[q] # None => Like(table[q], table[q])
    BY LikeItself DEF Tables
  <2>2. QED
    BY <1>1, <2>1 DEF Alike
<1>2. CASE myClients' = [table EXCEPT ![k].myIsRedirecting = FALSE, ![k].sinceRedirect = 0]
  <2> DEFINE c == [table[k] EXCEPT !.myIsRedirecting = FALSE, !.sinceRedirect = 0]
  <2>1. c \in Connection
    <3>1. 0 \in 0 .. RedirectTimeout + 1
      BY BoundsAssumption
    <3>2. QED
      BY <3>1 DEF Connection
  <2>2. myClients' = [table EXCEPT ![k] = c]
    BY <1>2 DEF Tables
  <2>3. table[k].hooks \in Int
    BY BoundsAssumption DEF Connection
  <2>4. Like(c, table[k]) /\ c.myIsValid = table[k].myIsValid
    BY <2>3 DEF Connection, Like
  <2> HIDE DEF c
  <2>5. QED
    BY <2>1, <2>2, <2>4, ChangeAlike
<1>3. CASE \E claim \in Claims(table) : myClients' = BeginRedirect(table, k, claim)
  BY <1>3, BeginRedirectAlike
<1>4. QED
  BY <1>1, <1>2, <1>3 DEF EvaluateRedirectResult

(* Tables whose connections have noted the same servers, perhaps with      *)
(* other measurements.                                                     *)
SameNotes(new, old) ==
  \A q \in Peers, a \in Addresses : old[q] # None =>
    /\ new[q].myIsRedirecting = old[q].myIsRedirecting
    /\ new[q].myPotentialRedirectCount = old[q].myPotentialRedirectCount
    /\ new[q].myEvaluations[a] = None <=> old[q].myEvaluations[a] = None
    /\ old[q].myEvaluations[a] # None =>
         new[q].myEvaluations[a].myConnection = old[q].myEvaluations[a].myConnection

(***************************************************************************)
(* What the steps of a redirect do with the connection at k: nothing, a    *)
(* decision, or a new beginning.                                           *)
(***************************************************************************)
GoesOn(table, k) ==
  \/ myClients' = table /\ UNCHANGED <<offered, target>>
  \/ \E flag \in BOOLEAN : (flag => IsLate(k)) /\ EvaluateRedirectResult(table, k, flag)
  \/ /\ \E claim \in Claims(table) : myClients' = BeginRedirect(table, k, claim)
     /\ offered' = [offered EXCEPT ![k] = @ \union Offers(table)]
     /\ UNCHANGED target

LEMMA GoesOnType ==
  ASSUME NEW table \in Tables, NEW k \in Peers, table[k] \in Connection, GoesOn(table, k),
         offered \in [Peers -> SUBSET Addresses],
         target \in [Peers -> Addresses \union {None}]
  PROVE  /\ myClients' \in Tables /\ Alike(myClients', table)
         /\ offered' \in [Peers -> SUBSET Addresses]
         /\ target' \in [Peers -> Addresses \union {None}]
<1>1. CASE myClients' = table /\ UNCHANGED <<offered, target>>
  <2>1. \A q \in Peers : table[q] # None => Like(table[q], table[q])
    BY LikeItself DEF Tables
  <2>2. QED
    BY <1>1, <2>1 DEF Alike
<1>2. ASSUME NEW flag \in BOOLEAN, EvaluateRedirectResult(table, k, flag)
      PROVE  /\ myClients' \in Tables /\ Alike(myClients', table)
             /\ offered' \in [Peers -> SUBSET Addresses]
             /\ target' \in [Peers -> Addresses \union {None}]
  BY <1>2, EvaluateType, EvaluateAlike
<1>3. CASE /\ \E claim \in Claims(table) : myClients' = BeginRedirect(table, k, claim)
           /\ offered' = [offered EXCEPT ![k] = @ \union Offers(table)]
           /\ UNCHANGED target
  BY <1>3, BeginRedirectType, BeginRedirectAlike, OffersType
<1>4. QED
  BY <1>1, <1>2, <1>3 DEF GoesOn

(* Game servers that are valid stay so, or are given up for good. *)
Lasts(table) ==
  \A q \in Servers : myClients[q] # None /\ myClients[q].myIsValid =>
    table[q].myIsValid \/ standing'[myClients[q].object] = "lapsed"

(* Flush: a timeout, and a decision that can wait no longer. *)
LEMMA FlushGoesOn ==
  ASSUME TypeOK, NEW k \in Peers, Flush(k)
  PROVE  \E table \in Tables :
           /\ table[k] \in Connection /\ Alike(table, myClients)
           /\ SameNotes(table, myClients) /\ Lasts(table) /\ GoesOn(table, k)
<1>1. myClients \in Tables /\ myClients[k] \in Connection /\ myClients[k].myIsValid = TRUE
  BY DEF Flush, IsNext, Present, Tables, TypeOK, Connection
<1>2. PICK valid \in (IF k \in MayTimeOut THEN BOOLEAN ELSE {TRUE}) :
        LET table == [myClients EXCEPT ![k].myIsValid = valid] IN
        /\ Lapses(k, valid)
        /\ IF table[k].myIsRedirecting /\ table[k].sinceRedirect > RedirectTimeout
           THEN EvaluateRedirectResult(table, k, TRUE)
           ELSE myClients' = table /\ UNCHANGED <<offered, target>>
  BY DEF Flush
<1> DEFINE c == [myClients[k] EXCEPT !.myIsValid = valid]
           table == [myClients EXCEPT ![k] = c]
<1>3. valid \in BOOLEAN /\ (k \notin MayTimeOut => valid = TRUE)
  BY <1>2
<1>4. c \in Connection
  BY <1>1, <1>3 DEF Connection
<1>5. myClients[k].hooks \in Int
  BY <1>1, BoundsAssumption DEF Connection
<1>6. /\ Like(c, myClients[k]) /\ c.myEvaluations = myClients[k].myEvaluations
      /\ k \notin MayTimeOut => c.myIsValid = myClients[k].myIsValid
  BY <1>1, <1>3, <1>5 DEF Connection, Like
<1>7. /\ c.myPotentialRedirectCount = myClients[k].myPotentialRedirectCount
      /\ c.myIsRedirecting = myClients[k].myIsRedirecting
      /\ c.sinceRedirect = myClients[k].sinceRedirect
  BY <1>1 DEF Connection
<1>8. [myClients EXCEPT ![k].myIsValid = valid] = table
  BY <1>1 DEF Tables
<1> HIDE DEF c
<1>9. table \in Tables /\ Alike(table, myClients)
  BY <1>1, <1>4, <1>6, ChangeAlike
<1>10. table[k] = c /\ \A q \in Peers : q # k => table[q] = myClients[q]
  BY <1>1 DEF Tables
<1> HIDE DEF table
<1>11. \/ IsLate(k) /\ EvaluateRedirectResult(table, k, TRUE)
       \/ myClients' = table /\ UNCHANGED <<offered, target>>
  BY <1>2, <1>7, <1>8, <1>10 DEF IsLate
<1>12. SameNotes(table, myClients)
  BY <1>6, <1>7, <1>10 DEF SameNotes
<1>13. GoesOn(table, k)
  BY <1>11 DEF GoesOn
<1>14. Lasts(table)
  <2>1. c.myIsValid = valid
    BY <1>1, <1>3 DEF Connection, c
  <2>2. k \in Servers /\ ~valid => standing'[myClients[k].object] = "lapsed"
    BY <1>1, <1>2 DEF Lapses, TypeOK, Connection
  <2>3. QED
    BY <1>10, <2>1, <2>2 DEF Lasts, Peers
<1>15. QED
  BY <1>4, <1>9, <1>10, <1>12, <1>13, <1>14

(* EvaluatedServer: a measurement, and perhaps the decision. *)
LEMMA EvaluatedServerGoesOn ==
  ASSUME TypeOK, NEW k \in Peers, NEW a \in Addresses, NEW ping \in Pings,
         EvaluatedServer(k, a, ping)
  PROVE  \E table \in Tables :
           /\ table[k] \in Connection /\ Alike(table, myClients)
           /\ SameNotes(table, myClients) /\ Lasts(table) /\ GoesOn(table, k)
<1>1. myClients \in Tables /\ myClients[k] \in Connection
  BY DEF EvaluatedServer, IsValid, Tables, TypeOK
<1>2. myClients[k].hooks \in Int
  BY <1>1, BoundsAssumption DEF Connection
<1>3. CASE a \notin Noticed(myClients[k])
  <2>1. EvaluateRedirectResult(myClients, k, FALSE)
    BY <1>3 DEF EvaluatedServer
  <2>2. Alike(myClients, myClients)
    BY <1>1, LikeItself DEF Alike, Tables
  <2>3. QED
    BY <1>1, <2>1, <2>2 DEF SameNotes, Lasts, GoesOn
<1>4. CASE a \in Noticed(myClients[k])
  <2> DEFINE e == [myClients[k].myEvaluations[a] EXCEPT !.myPing = ping, !.myHasResult = TRUE]
             c == [myClients[k] EXCEPT !.myEvaluations = [@ EXCEPT ![a] = e]]
             table == [myClients EXCEPT ![k] = c]
  <2>1. myClients[k].myEvaluations[a] \in Evaluation
    BY <1>1, <1>4 DEF Noticed, Connection
  <2>2. /\ e \in Evaluation /\ e # None
        /\ e.myConnection = myClients[k].myEvaluations[a].myConnection
    BY <2>1, NoneAssumption DEF Evaluation
  <2> HIDE DEF e
  <2>3. /\ c \in Connection /\ Like(c, myClients[k]) /\ c.myIsValid = myClients[k].myIsValid
        /\ c.myPotentialRedirectCount = myClients[k].myPotentialRedirectCount
        /\ c.myIsRedirecting = myClients[k].myIsRedirecting
    BY <1>1, <1>2, <2>2 DEF Connection, Like
  <2>4. \A b \in Addresses :
          c.myEvaluations[b] = IF b = a THEN e ELSE myClients[k].myEvaluations[b]
    BY <1>1 DEF Connection
  <2>5. table = [myClients EXCEPT ![k].myEvaluations[a].myPing = ping,
                                  ![k].myEvaluations[a].myHasResult = TRUE]
    BY <1>1, <2>1 DEF Tables, Connection, e
  <2> HIDE DEF c
  <2>6. table \in Tables /\ Alike(table, myClients)
    BY <1>1, <2>3, ChangeAlike
  <2>7. table[k] = c /\ \A q \in Peers : q # k => table[q] = myClients[q]
    BY <1>1 DEF Tables
  <2> HIDE DEF table
  <2>8. EvaluateRedirectResult(table, k, FALSE)
    BY <1>4, <2>5 DEF EvaluatedServer
  <2>9. SameNotes(table, myClients)
    BY <1>4, <2>2, <2>3, <2>4, <2>7 DEF SameNotes, Noticed
  <2>10. Lasts(table)
    BY <2>3, <2>7 DEF Lasts, Peers
  <2>11. GoesOn(table, k)
    BY <2>8 DEF GoesOn
  <2>12. QED
    BY <2>3, <2>6, <2>7, <2>9, <2>10, <2>11
<1>5. QED
  BY <1>3, <1>4

(* What tables that are alike offer is the same. *)
LEMMA AlikeOffers ==
  ASSUME NEW new \in Tables, NEW old \in Tables, Alike(new, old),
         \A q \in Peers : old[q] # None => new[q].myIsValid = old[q].myIsValid
  PROVE  /\ Candidates(new) = Candidates(old)
         /\ Offers(new) = Offers(old) /\ Claims(new) = Claims(old)
<1>1. Present(new) = Present(old) /\ Present(old) \subseteq Peers
  BY DEF Present, Tables, Alike
<1>2. \A q \in Present(old) : /\ new[q].myIsValid = old[q].myIsValid
                              /\ new[q].myIsServer = old[q].myIsServer
                              /\ new[q].myServerAddress = old[q].myServerAddress
  BY <1>1 DEF Present, Alike, Like
<1>3. Candidates(new) = Candidates(old) /\ Candidates(old) \subseteq Present(old)
  BY <1>1, <1>2 DEF Candidates
<1>4. Offers(new) = Offers(old)
  BY <1>2, <1>3 DEF Offers
<1>5. QED
  BY <1>2, <1>3, <1>4 DEF Claims

(* AckIdentify: the callback begins the redirect. *)
LEMMA AckIdentifyGoesOn ==
  ASSUME TypeOK, NEW k \in Peers, AckIdentify(k)
  PROVE  \E table \in Tables :
           /\ table[k] \in Connection /\ Alike(table, myClients)
           /\ SameNotes(table, myClients) /\ Lasts(table) /\ GoesOn(table, k)
<1>1. myClients \in Tables /\ myClients[k] \in Connection /\ myClients[k].hooks > 0
  BY DEF AckIdentify, Tables, TypeOK
<1> DEFINE c == [myClients[k] EXCEPT !.hooks = @ - 1]
           table == [myClients EXCEPT ![k] = c]
<1>2. myClients[k].hooks - 1 \in 0 .. IdentifyCap /\ myClients[k].hooks - 1 <= myClients[k].hooks
  BY <1>1, BoundsAssumption DEF Connection
<1>3. c \in Connection /\ Like(c, myClients[k])
  BY <1>1, <1>2 DEF Connection, Like
<1>4. /\ c.myEvaluations = myClients[k].myEvaluations
      /\ c.myPotentialRedirectCount = myClients[k].myPotentialRedirectCount
      /\ c.myIsRedirecting = myClients[k].myIsRedirecting
      /\ c.myIsValid = myClients[k].myIsValid
  BY <1>1 DEF Connection
<1>5. table = [myClients EXCEPT ![k].hooks = @ - 1]
  BY <1>1 DEF Tables
<1> HIDE DEF c
<1>6. table \in Tables /\ Alike(table, myClients)
  BY <1>1, <1>3, <1>4, ChangeAlike
<1>7. table[k] = c /\ \A q \in Peers : q # k => table[q] = myClients[q]
  BY <1>1 DEF Tables
<1> HIDE DEF table
<1>8. Offers(table) = Offers(myClients) /\ Claims(table) = Claims(myClients)
  BY <1>1, <1>4, <1>6, <1>7, AlikeOffers
<1>9. GoesOn(table, k)
  BY <1>5, <1>8 DEF AckIdentify, GoesOn
<1>10. SameNotes(table, myClients)
  BY <1>4, <1>7 DEF SameNotes
<1>11. Lasts(table)
  BY <1>4, <1>7 DEF Lasts, Peers
<1>12. QED
  BY <1>3, <1>6, <1>7, <1>9, <1>10, <1>11

Redirecting(k) ==
  \/ Flush(k) \/ AckIdentify(k)
  \/ \E a \in Addresses, ping \in Pings : EvaluatedServer(k, a, ping)

LEMMA RedirectingGoesOn ==
  ASSUME TypeOK, NEW k \in Peers, Redirecting(k)
  PROVE  \E table \in Tables :
           /\ table[k] \in Connection /\ Alike(table, myClients)
           /\ SameNotes(table, myClients) /\ Lasts(table) /\ GoesOn(table, k)
  BY FlushGoesOn, AckIdentifyGoesOn, EvaluatedServerGoesOn DEF Redirecting

LEMMA RedirectingType ==
  ASSUME TypeOK, NEW k \in Peers, Redirecting(k)
  PROVE  TypeOK' /\ Alike(myClients', myClients)
<1>1. PICK table \in Tables :
        /\ table[k] \in Connection /\ Alike(table, myClients)
        /\ SameNotes(table, myClients) /\ Lasts(table) /\ GoesOn(table, k)
  BY RedirectingGoesOn
<1>2. /\ myClients' \in Tables /\ Alike(myClients', table)
      /\ offered' \in [Peers -> SUBSET Addresses]
      /\ target' \in [Peers -> Addresses \union {None}]
  BY <1>1, GoesOnType DEF TypeOK
<1>3. Alike(myClients', myClients)
  BY <1>1, <1>2, AlikeTransitive DEF TypeOK, Tables
<1>4. /\ UNCHANGED <<made, errors, running, told, assigned, left>>
      /\ visiting' \in BOOLEAN /\ visited' \subseteq Peers
  BY DEF Redirecting, Flush, AckIdentify, EvaluatedServer, Receiving, TypeOK
<1>5. standing' \in [Objects -> {"new", "server", "lapsed"}]
  <2>1. (\E valid : Lapses(k, valid)) \/ UNCHANGED standing
    BY DEF Redirecting, Flush, AckIdentify, EvaluatedServer
  <2>2. QED
    BY <2>1, LapsesType DEF TypeOK
<1>6. QED
  BY <1>2, <1>3, <1>4, <1>5 DEF TypeOK, Tables

-----------------------------------------------------------------------------
(* The roster.                                                             *)

RosterInv == AbsentHeardNothing /\ RosterHasNoGhosts

(* As long as entries keep their ids and nothing is told, nothing changes. *)
LEMMA SameIdsKeepRoster ==
  ASSUME TypeOK, TypeOK', RosterInv, UNCHANGED told,
         \A q \in Peers : /\ myClients'[q] = None <=> myClients[q] = None
                          /\ myClients[q] # None => myClients'[q].myID = myClients[q].myID
  PROVE  RosterInv'
<1>1. Present(myClients') = Present(myClients) /\ Present(myClients) \subseteq Peers
  BY DEF Present, TypeOK
<1>2. {myClients'[q].myID : q \in Present(myClients')} = {myClients[q].myID : q \in Present(myClients)}
  BY <1>1 DEF Present
<1>3. QED
  BY <1>1, <1>2 DEF RosterInv, AbsentHeardNothing, RosterHasNoGhosts

(* An entry is made, or filled by a handshake, and may be announced. *)
LEMMA NewcomerKeepsRoster ==
  ASSUME TypeOK, TypeOK', RosterInv, NEW p \in Peers, NEW table \in Tables,
         table[p] \in Connection, \A q \in Peers \ {p} : table[q] = myClients[q],
         myClients[p] # None => table[p].myID = myClients[p].myID,
         \A q \in Peers : /\ myClients'[q] = None <=> table[q] = None
                          /\ table[q] # None => myClients'[q].myID = table[q].myID,
         \/ told' = told
         \/ told' = [told EXCEPT ![p] = {}]
         \/ told' = AnnounceConnected(table, p, told)
  PROVE  RosterInv'
<1> DEFINE ids == {table[q].myID : q \in Present(table)}
<1>1. Present(myClients') = Present(table) /\ Present(table) \subseteq Peers
  BY DEF Present, TypeOK, Tables
<1>2. {myClients'[q].myID : q \in Present(myClients')} = ids
  BY <1>1 DEF Present
<1>3. p \in Present(table) /\ table[p].myID \in ids
  BY NoneAssumption DEF Present, Tables
<1>4. \A q \in Peers : told[q] \subseteq ids
  <2>1. {myClients[q].myID : q \in Present(myClients)} \subseteq ids
    <3>1. ASSUME NEW q \in Present(myClients) PROVE myClients[q].myID \in ids
      <4>1. q \in Peers /\ myClients[q] # None
        BY DEF Present, TypeOK
      <4>2. q \in Present(table) /\ table[q].myID = myClients[q].myID
        BY <1>3, <4>1 DEF Present, Tables
      <4>3. QED
        BY <4>2
    <3>2. QED
      BY <3>1
  <2>2. \A q \in Peers : q \in Present(myClients) \/ told[q] = {}
    BY DEF RosterInv, AbsentHeardNothing, Present, TypeOK
  <2>3. QED
    BY <2>1, <2>2 DEF RosterInv, RosterHasNoGhosts
<1>5. \A q \in Peers : table[q] = None => told[q] = {} /\ q # p
  BY NoneAssumption DEF RosterInv, AbsentHeardNothing
<1>6. \A q \in Peers : told'[q] \subseteq ids /\ (table[q] = None => told'[q] = {})
  <2>1. CASE told' = told \/ told' = [told EXCEPT ![p] = {}]
    BY <1>4, <1>5, <2>1 DEF TypeOK
  <2>2. CASE told' = AnnounceConnected(table, p, told)
    <3>1. DOMAIN table = Peers
      BY DEF Tables
    <3>2. \A q \in Peers :
            \/ told'[q] = told[q]
            \/ table[q] # None /\ told'[q] = told[q] \union (ids \ {table[p].myID})
            \/ table[q] # None /\ told'[q] = told[q] \union {table[p].myID}
      BY <2>2, <3>1, Zenon DEF AnnounceConnected
    <3>3. QED
      BY <1>3, <1>4, <1>5, <3>2
  <2>3. QED
    BY <2>1, <2>2
<1> HIDE DEF ids
<1>7. QED
  BY <1>1, <1>2, <1>6 DEF RosterInv, AbsentHeardNothing, RosterHasNoGhosts, Present, TypeOK, Tables

(* An entry that goes is announced to all that may know its id. *)
LEMMA ReapKeepsRoster ==
  ASSUME TypeOK, TypeOK', RosterInv, NEW k \in Peers, Reap(k)
  PROVE  RosterInv'
<1> DEFINE id == myClients[k].myID
           ids == {myClients[q].myID : q \in Present(myClients)}
           idsLeft == {myClients'[q].myID : q \in Present(myClients')}
<1>1. Present(myClients') = Present(myClients) \ {k} /\ Present(myClients) \subseteq Peers
  BY DEF Reap, Present, TypeOK
<1>2. ids \ {id} \subseteq idsLeft
  BY <1>1 DEF Reap, TypeOK, Present
<1>3. \A q \in Present(myClients') : myClients'[q].myID \in idsLeft /\ myClients'[q] = myClients[q]
  BY <1>1 DEF Reap, TypeOK, Present
<1>4. told' = [AnnounceDisconnected(myClients, id, told) EXCEPT ![k] = {}]
  BY DEF Reap
<1>5. \A q \in Peers : told[q] \subseteq ids /\ (myClients[q] = None => told[q] = {})
  BY DEF RosterInv, RosterHasNoGhosts, AbsentHeardNothing, Present, TypeOK
<1>6. \A q \in Peers : told'[q] =
        IF q = k THEN {}
        ELSE IF myClients[q] # None /\ myClients[q].myID # id THEN told[q] \ {id} ELSE told[q]
  BY <1>4 DEF AnnounceDisconnected, TypeOK
<1> HIDE DEF id, ids, idsLeft
<1>7. \A q \in Present(myClients') : told'[q] \subseteq idsLeft
  <2> TAKE q \in Present(myClients')
  <2>1. q \in Peers /\ q # k
    BY <1>1
  <2>2. CASE myClients[q] # None /\ myClients[q].myID # id
    BY <1>2, <1>5, <1>6, <2>1, <2>2
  <2>3. CASE myClients[q] # None /\ myClients[q].myID = id
    BY <1>2, <1>3, <1>5, <1>6, <2>1, <2>3
  <2>4. QED
    BY <1>1, <2>1, <2>2, <2>3 DEF Present
<1>8. \A q \in Peers : myClients'[q] = None => told'[q] = {}
  BY <1>5, <1>6 DEF Reap, TypeOK
<1>9. QED
  BY <1>7, <1>8 DEF RosterInv, RosterHasNoGhosts, AbsentHeardNothing, idsLeft

(* A goodbye only makes others forget. *)
LEMMA GoodbyeKeepsRoster ==
  ASSUME TypeOK, TypeOK', RosterInv, NEW p \in Peers, NEW id \in Ids, UserDisconnected(p, id)
  PROVE  RosterInv'
<1>1. \A q \in Peers : told'[q] \subseteq told[q]
  BY DEF UserDisconnected, AnnounceDisconnected, TypeOK
<1>2. myClients' = myClients /\ Present(myClients) \subseteq Peers
  BY DEF UserDisconnected, Present, TypeOK
<1>3. QED
  BY <1>1, <1>2 DEF RosterInv, AbsentHeardNothing, RosterHasNoGhosts

-----------------------------------------------------------------------------
(* The inductive step.                                                     *)

(* The steps that handle a datagram and are no part of a redirect. *)
LEMMA OthersKeepRest ==
  ASSUME TypeOK, TypeOK', HooksOfIdentify, RosterInv, NEW p \in Peers,
         \/ ReceiveError(p) \/ ReceiveAtDefaultEntry(p)
         \/ ReceiveSetup(p) \/ RefuseHandShake(p) \/ IdentifyServer(p) \/ IdentifyClient(p)
         \/ Kick(p)
  PROVE  HooksOfIdentify' /\ RosterInv'
<1>1. Present(myClients) \subseteq Peers /\ Present(myClients') \subseteq Peers
  BY DEF Present, TypeOK
<1>2. \A q \in Peers : /\ myClients[q] # None => myClients[q] \in Connection
                       /\ myClients'[q] # None => myClients'[q] \in Connection
  BY DEF TypeOK
<1>3. \A q \in Peers : myClients[q] # None => myClients[q].hooks <= myClients[q].identified
  BY DEF HooksOfIdentify, Present, TypeOK
<1>4. ASSUME NEW table \in Tables, table[p] \in Connection,
             \A q \in Peers \ {p} : table[q] = myClients[q],
             myClients[p] # None => table = myClients,
             myClients[p] = None => table[p].hooks = 0
      PROVE  \A q \in Peers : table[q] # None => table[q].hooks <= table[q].identified
  BY <1>3, <1>4, BoundsAssumption DEF Connection
<1>5. CASE ReceiveError(p)
  <2>1. CASE myClients[p] # None
    <3>1. /\ myClients' = [myClients EXCEPT ![p].myIsValid = FALSE, ![p].hooks = 0]
          /\ UNCHANGED told
      BY <1>5, <2>1 DEF ReceiveError
    <3>2. RosterInv'
      <4>1. \A q \in Peers : /\ myClients'[q] = None <=> myClients[q] = None
                             /\ myClients[q] # None => myClients'[q].myID = myClients[q].myID
        <5> DEFINE c == [myClients[p] EXCEPT !.myIsValid = FALSE, !.hooks = 0]
        <5>1. myClients[p] \in Connection /\ 0 \in 0 .. IdentifyCap
          BY <1>2, <2>1, BoundsAssumption
        <5>2. c \in Connection /\ c.myID = myClients[p].myID
          BY <5>1 DEF Connection
        <5>3. myClients' = [myClients EXCEPT ![p] = c]
          BY <3>1 DEF TypeOK
        <5> HIDE DEF c
        <5>4. QED
          BY <2>1, <5>2, <5>3, NoneAssumption DEF TypeOK
      <4>2. QED
        BY <3>1, <4>1, SameIdsKeepRoster
    <3>3. HooksOfIdentify'
      BY <1>1, <1>2, <1>3, <2>1, <3>1 DEF HooksOfIdentify, Present, TypeOK, Connection
    <3>4. QED
      BY <3>2, <3>3
  <2>2. CASE myClients[p] = None
    <3>1. PICK id \in Ids, c \in NewConnections(0) :
            myClients' = [myClients EXCEPT ![p] = [c EXCEPT !.myID = id]]
      BY <1>5, <2>2 DEF ReceiveError
    <3>2. told' = [told EXCEPT ![p] = {}]
      BY <1>5, <2>2 DEF ReceiveError
    <3>3. c \in Connection /\ c.hooks = 0
      BY NewConnectionsType, BoundsAssumption DEF Objects, NewConnections
    <3>4. myClients' \in Tables /\ myClients'[p] \in Connection /\ myClients'[p].hooks = 0
      BY <3>1, <3>3 DEF Connection, Tables, TypeOK
    <3>5. \A q \in Peers \ {p} : myClients'[q] = myClients[q]
      BY <3>1 DEF TypeOK
    <3>6. RosterInv'
      BY <2>2, <3>2, <3>4, <3>5, NewcomerKeepsRoster
    <3>7. HooksOfIdentify'
      BY <1>1, <1>4, <2>2, <3>4, <3>5 DEF HooksOfIdentify, Present
    <3>8. QED
      BY <3>6, <3>7
  <2>3. QED
    BY <2>1, <2>2
<1>6. CASE ReceiveAtDefaultEntry(p) \/ IdentifyServer(p) \/ IdentifyClient(p) \/ Kick(p)
  <2>1. \A q \in Peers \ {p} : myClients'[q] = myClients[q]
    BY <1>6 DEF ReceiveAtDefaultEntry, IdentifyServer, IdentifyClient, Kick, TypeOK
  <2>2. \/ myClients'[p] = myClients[p]
        \/ /\ myClients[p] # None /\ myClients'[p] # None
           /\ myClients'[p].myID = myClients[p].myID
           /\ \/ /\ myClients'[p].hooks = myClients[p].hooks
                 /\ myClients'[p].identified = myClients[p].identified
              \/ /\ myClients'[p].hooks = myClients[p].hooks + 1
                 /\ myClients'[p].identified = myClients[p].identified + 1
    <3>1. CASE ReceiveAtDefaultEntry(p)
      BY <3>1 DEF ReceiveAtDefaultEntry
    <3>2. CASE IdentifyServer(p) \/ IdentifyClient(p) \/ Kick(p)
      <4>1. myClients[p] # None /\ myClients[p] \in Connection
        BY <1>2, <3>2 DEF IdentifyServer, IdentifyClient, Kick, IsValid
      <4>2. \/ myClients'[p] = [myClients[p] EXCEPT !.myIsServer = TRUE, !.myServerAddress = p]
            \/ myClients'[p] = [myClients[p] EXCEPT !.myIsServer = FALSE, !.identified = @ + 1,
                                                    !.hooks = @ + 1]
            \/ myClients'[p] = [myClients[p] EXCEPT !.myIsValid = FALSE]
        BY <3>2 DEF IdentifyServer, IdentifyClient, Kick, TypeOK
      <4>3. /\ myClients'[p].myID = myClients[p].myID
            /\ \/ /\ myClients'[p].hooks = myClients[p].hooks
                  /\ myClients'[p].identified = myClients[p].identified
               \/ /\ myClients'[p].hooks = myClients[p].hooks + 1
                  /\ myClients'[p].identified = myClients[p].identified + 1
        BY <4>1, <4>2 DEF Connection
      <4>4. myClients'[p] # None
        <5>1. CASE IdentifyServer(p) \/ Kick(p)
          <6>1. p \in Addresses
            BY DEF Addresses
          <6>2. /\ [myClients[p] EXCEPT !.myIsServer = TRUE, !.myServerAddress = p] \in Connection
                /\ [myClients[p] EXCEPT !.myIsValid = FALSE] \in Connection
            BY <4>1, <6>1 DEF Connection
          <6>3. QED
            BY <5>1, <6>2, NoneAssumption DEF IdentifyServer, Kick, TypeOK
        <5>2. CASE IdentifyClient(p)
          <6>1. /\ myClients[p].hooks + 1 \in 0 .. IdentifyCap
                /\ myClients[p].identified + 1 \in 0 .. IdentifyCap
            BY <1>3, <4>1, <5>2, BoundsAssumption DEF IdentifyClient, Connection
          <6>2. [myClients[p] EXCEPT !.myIsServer = FALSE, !.identified = @ + 1, !.hooks = @ + 1]
                  \in Connection
            BY <4>1, <6>1 DEF Connection
          <6>3. QED
            BY <5>2, <6>2, NoneAssumption DEF IdentifyClient, TypeOK
        <5>3. QED
          BY <3>2, <5>1, <5>2
      <4>5. QED
        BY <4>1, <4>3, <4>4
    <3>3. QED
      BY <1>6, <3>1, <3>2
  <2>3. UNCHANGED told
    BY <1>6 DEF ReceiveAtDefaultEntry, IdentifyServer, IdentifyClient, Kick, sentOut
  <2>4. RosterInv'
    BY <2>1, <2>2, <2>3, SameIdsKeepRoster
  <2>5. \A q \in Peers : myClients[q] # None =>
          myClients[q].hooks \in Int /\ myClients[q].identified \in Int
    BY <1>2, BoundsAssumption DEF Connection
  <2>6. HooksOfIdentify'
    BY <1>1, <1>3, <2>1, <2>2, <2>5 DEF HooksOfIdentify, Present
  <2>7. QED
    BY <2>4, <2>6
<1>7. CASE ReceiveSetup(p) \/ RefuseHandShake(p)
  <2>1. CountMade(p)
    BY <1>7 DEF ReceiveSetup, RefuseHandShake
  <2>2. PICK table \in WithEntry(p) :
          \/ myClients' = myClients /\ told' = told
          \/ myClients' = table /\ told' = told
          \/ /\ myClients' = [table EXCEPT ![p].myIsValid = TRUE]
             /\ told' = AnnounceConnected(table, p, told)
    BY <1>7 DEF ReceiveSetup, RefuseHandShake, sentOut
  <2>3. /\ table \in Tables /\ table[p] \in Connection
        /\ \A q \in Peers \ {p} : table[q] = myClients[q]
        /\ myClients[p] # None => table = myClients
        /\ myClients[p] = None => table[p] \in NewConnections(made + 1)
    BY <2>1, WithEntryType DEF TypeOK, Tables
  <2>4. myClients[p] = None => table[p].hooks = 0
    BY <2>3 DEF NewConnections
  <2>5. \A q \in Peers : table[q] # None => table[q].hooks <= table[q].identified
    BY <1>4, <2>3, <2>4
  <2>6. CASE myClients' = myClients /\ told' = told
    BY <1>1, <2>6, SameIdsKeepRoster DEF HooksOfIdentify
  <2>7. CASE myClients' = table /\ told' = told
    <3>1. RosterInv'
      BY <2>3, <2>7, NewcomerKeepsRoster
    <3>2. HooksOfIdentify'
      BY <1>1, <2>5, <2>7 DEF HooksOfIdentify, Present
    <3>3. QED
      BY <3>1, <3>2
  <2>8. CASE /\ myClients' = [table EXCEPT ![p].myIsValid = TRUE]
             /\ told' = AnnounceConnected(table, p, told)
    <3>1. \A q \in Peers :
            /\ myClients'[q] = None <=> table[q] = None
            /\ table[q] # None => /\ myClients'[q].myID = table[q].myID
                                  /\ myClients'[q].hooks = table[q].hooks
                                  /\ myClients'[q].identified = table[q].identified
      <4>1. myClients' = [table EXCEPT ![p] = [table[p] EXCEPT !.myIsValid = TRUE]]
        BY <2>8
      <4>2. /\ myClients'[p] = [table[p] EXCEPT !.myIsValid = TRUE]
            /\ \A q \in Peers \ {p} : myClients'[q] = table[q]
        BY <2>3, <4>1 DEF Tables
      <4>3. /\ myClients'[p] \in Connection /\ myClients'[p].myID = table[p].myID
            /\ myClients'[p].hooks = table[p].hooks
            /\ myClients'[p].identified = table[p].identified
        BY <2>3, <4>2 DEF Connection
      <4>4. myClients'[p] # None /\ table[p] # None
        BY <2>3, <4>3, NoneAssumption
      <4>5. QED
        BY <4>2, <4>3, <4>4
    <3>2. RosterInv'
      BY <2>3, <2>8, <3>1, NewcomerKeepsRoster
    <3>3. HooksOfIdentify'
      BY <1>1, <2>5, <3>1 DEF HooksOfIdentify, Present
    <3>4. QED
      BY <3>2, <3>3
  <2>9. QED
    BY <2>2, <2>6, <2>7, <2>8
<1>8. QED
  BY <1>5, <1>6, <1>7

LEMMA InitIInv == Init => IInv
<1> SUFFICES ASSUME Init PROVE IInv
  OBVIOUS
<1>1. Present(myClients) = {}
  BY DEF Init, Present
<1>2. TypeOK
  BY BoundsAssumption DEF Init, TypeOK
<1>3. QED
  BY <1>1, <1>2 DEF Init, IInv, HooksOfIdentify, AbsentHeardNothing, RosterHasNoGhosts

LEMMA NextIInv == IInv /\ [Next]_vars => IInv'
<1> SUFFICES ASSUME IInv, [Next]_vars PROVE IInv'
  OBVIOUS
<1>1. TypeOK /\ HooksOfIdentify /\ RosterInv /\ TypeInv
  BY DEF IInv, RosterInv, TypeInv
<1>2. ASSUME TypeOK', HooksOfIdentify', RosterInv' PROVE IInv'
  BY <1>2 DEF IInv, RosterInv
<1>3. ASSUME NEW p \in Peers, Redirecting(p) PROVE IInv'
  <2>1. TypeOK' /\ Alike(myClients', myClients)
    BY <1>1, <1>3, RedirectingType
  <2>2. UNCHANGED told
    BY <1>3 DEF Redirecting, Flush, AckIdentify, EvaluatedServer
  <2>3. RosterInv'
    BY <1>1, <2>1, <2>2, SameIdsKeepRoster DEF Alike, Like
  <2>4. \A q \in Peers : myClients[q] # None =>
          /\ myClients[q].hooks <= myClients[q].identified
          /\ myClients'[q].hooks <= myClients[q].hooks
          /\ myClients'[q].identified = myClients[q].identified
    BY <1>1, <2>1 DEF HooksOfIdentify, Present, TypeOK, Alike, Like
  <2>5. \A q \in Peers : myClients[q] # None =>
          /\ myClients[q].hooks \in Int /\ myClients[q].identified \in Int
          /\ myClients'[q].hooks \in Int
    BY <1>1, <2>1, BoundsAssumption DEF TypeOK, Alike, Connection
  <2>6. HooksOfIdentify'
    BY <2>1, <2>4, <2>5 DEF HooksOfIdentify, Present, TypeOK, Alike
  <2>7. QED
    BY <1>2, <2>1, <2>3, <2>6
<1>4. ASSUME NEW p \in Peers, Reap(p) PROVE IInv'
  <2>1. TypeOK'
    BY <1>1, <1>4, OthersType
  <2>2. HooksOfIdentify'
    BY <1>1, <1>4 DEF Reap, HooksOfIdentify, Present, TypeOK
  <2>3. QED
    BY <1>1, <1>2, <1>4, <2>1, <2>2, ReapKeepsRoster
<1>5. ASSUME NEW p \in Peers, NEW id \in Ids, UserDisconnected(p, id) PROVE IInv'
  <2>1. TypeOK'
    BY <1>1, <1>5, OthersType
  <2>2. HooksOfIdentify'
    BY <1>1, <1>5 DEF UserDisconnected, HooksOfIdentify
  <2>3. QED
    BY <1>1, <1>2, <1>5, <2>1, <2>2, GoodbyeKeepsRoster
<1>6. ASSUME NEW p \in Peers,
             \/ ReceiveError(p) \/ ReceiveAtDefaultEntry(p)
             \/ ReceiveSetup(p) \/ RefuseHandShake(p) \/ IdentifyServer(p) \/ IdentifyClient(p)
             \/ Kick(p)
      PROVE  IInv'
  <2>1. TypeOK'
    BY <1>1, <1>6, OthersType
  <2>2. QED
    BY <1>1, <1>2, <1>6, <2>1, OthersKeepRest
<1>7. CASE Tick
  <2>1. TypeOK'
    BY <1>1, <1>7, TickType
  <2>2. \A q \in Peers :
          /\ myClients'[q] = None <=> myClients[q] = None
          /\ myClients[q] # None => /\ myClients'[q].myID = myClients[q].myID
                                    /\ myClients'[q].hooks = myClients[q].hooks
                                    /\ myClients'[q].identified = myClients[q].identified
    <3> TAKE q \in Peers
    <3>1. CASE myClients'[q] = myClients[q]
      BY <3>1
    <3>2. CASE /\ myClients[q] \in Connection /\ myClients'[q] \in Connection
               /\ myClients'[q] = [myClients[q] EXCEPT !.sinceRedirect = @ + 1]
      BY <3>2, NoneAssumption DEF Connection
    <3>3. QED
      BY <1>1, <1>7, <3>1, <3>2, TickType
  <2>3. UNCHANGED told
    BY <1>7 DEF Tick, sentOut
  <2>4. RosterInv'
    BY <1>1, <2>1, <2>2, <2>3, SameIdsKeepRoster
  <2>5. HooksOfIdentify'
    BY <1>1, <2>1, <2>2 DEF HooksOfIdentify, Present, TypeOK
  <2>6. QED
    BY <1>2, <2>1, <2>4, <2>5
<1>8. CASE VisitEnds \/ WouldBlock \/ UNCHANGED vars
  <2>1. UNCHANGED <<myClients, made, errors, running, standing, sentOut>>
    BY <1>8 DEF VisitEnds, WouldBlock, vars, sentOut
  <2>2. visiting' \in BOOLEAN /\ visited' \subseteq Peers
    BY <1>1, <1>8 DEF VisitEnds, VisitIsOver, WouldBlock, Receiving, vars, TypeOK
  <2>3. QED
    BY <1>1, <1>2, <2>1, <2>2
    DEF TypeOK, HooksOfIdentify, RosterInv, AbsentHeardNothing, RosterHasNoGhosts, sentOut
<1>9. QED
  BY <1>3, <1>4, <1>5, <1>6, <1>7, <1>8 DEF Next, Visit, Receive, Redirecting

(* Every reachable state satisfies the inductive invariant. *)
THEOREM IInvHolds == Spec => []IInv
  BY InitIInv, NextIInv, PTL DEF Spec

(* Every reachable state has its type, for any peers, timeouts, ids and    *)
(* failures (TRedirectServer/ServerMain.cpp, Connection.cpp).              *)
THEOREM TypeCorrect == Spec => []TypeOK
<1>1. IInv => TypeOK
  BY DEF IInv
<1>2. QED
  BY <1>1, IInvHolds, PTL

(* Nobody keeps a ghost: what was announced and not retracted is still in  *)
(* the table, also when ids wrap and two entries share one, and when a     *)
(* failing recvfrom makes an entry (ServerMain.cpp:137-147, 193-258).      *)
THEOREM RosterHasNoGhostsHolds == Spec => []RosterHasNoGhosts
<1>1. IInv => RosterHasNoGhosts
  BY DEF IInv
<1>2. QED
  BY <1>1, IInvHolds, PTL

-----------------------------------------------------------------------------
(* Who knows of whom, while ids are not used up and no recvfrom fails.     *)

(* IDCOUNTER does not wrap round to an id that was given out. *)
IdsFit == MaxConnections < IdModulus

(* The ids in a table are some of the first n IDCOUNTER gave, all different. *)
Apart(table, n) ==
  /\ \A p \in Present(table) : \E k \in 1 .. n : table[p].myID = IdOf(k)
  /\ \A p, q \in Present(table) : table[p].myID = table[q].myID => p = q

CompleteInv == (errors = 0 => Apart(myClients, made)) /\ RosterIsComplete

LEMMA RemaindersDiffer ==
  ASSUME NEW a \in Nat, NEW b \in Nat, NEW m \in Nat \ {0}, a < b, b - a < m
  PROVE  a % m # b % m
<1> DEFINE j == a \div m
           k == b \div m
<1>1. SUFFICES ASSUME a % m = b % m PROVE FALSE
  OBVIOUS
<1>2. j \in Int /\ k \in Int /\ a = m * j + (a % m) /\ b = m * k + (b % m)
      /\ a % m \in Int /\ b % m \in Int
  OBVIOUS
<1> HIDE DEF j, k
<1>3. PICK d \in Int : d = k - j
  BY <1>2
<1>4. m * k = m * j + m * d
  BY <1>2, <1>3
<1>5. b - a = m * d
  BY <1>1, <1>2, <1>4
<1>6. CASE d <= 0
  <2>1. m * d <= 0
    BY <1>6
  <2>2. QED
    BY <1>5, <2>1
<1>7. CASE d >= 1
  <2>1. m * d >= m
    BY <1>7
  <2>2. QED
    BY <1>5, <2>1
<1>8. QED
  BY <1>3, <1>6, <1>7

(* IDCOUNTER gives different ids to fewer connections than there are ids. *)
LEMMA IdsDiffer ==
  ASSUME IdsFit, NEW n \in 1 .. MaxConnections, NEW k \in 1 .. MaxConnections, n < k
  PROVE  IdOf(n) # IdOf(k)
<1>1. 3 + n \in Nat /\ 3 + k \in Nat /\ 3 + n < 3 + k /\ (3 + k) - (3 + n) < IdModulus
  BY BoundsAssumption DEF IdsFit
<1>2. (3 + n) % IdModulus # (3 + k) % IdModulus
  BY <1>1, BoundsAssumption, RemaindersDiffer
<1>3. QED
  BY <1>2 DEF IdOf

(* A step that leaves entries their ids and revives none keeps all. *)
LEMMA SameIdsKeepComplete ==
  ASSUME TypeOK, TypeOK', CompleteInv, UNCHANGED <<made, errors, told, left>>,
         \A q \in Peers : /\ myClients'[q] = None <=> myClients[q] = None
                          /\ myClients[q] # None =>
                               /\ myClients'[q].myID = myClients[q].myID
                               /\ myClients'[q].myIsValid => myClients[q].myIsValid
  PROVE  CompleteInv'
<1>1. Present(myClients') = Present(myClients) /\ Present(myClients) \subseteq Peers
  BY DEF Present, TypeOK
<1>2. \A q \in Present(myClients) : /\ myClients'[q].myID = myClients[q].myID
                                    /\ myClients'[q].myIsValid => myClients[q].myIsValid
  BY <1>1 DEF Present
<1>3. ASSUME errors' = 0 PROVE Apart(myClients', made')
  <2>1. Apart(myClients, made)
    BY <1>3 DEF CompleteInv
  <2>2. \A q \in Present(myClients') : \E n \in 1 .. made' : myClients'[q].myID = IdOf(n)
    BY <1>1, <1>2, <2>1 DEF Apart
  <2>3. \A q, r \in Present(myClients') : myClients'[q].myID = myClients'[r].myID => q = r
    BY <1>1, <1>2, <2>1 DEF Apart
  <2>4. QED
    BY <2>2, <2>3 DEF Apart
<1>4. RosterIsComplete'
  BY <1>1, <1>2 DEF CompleteInv, RosterIsComplete
<1>5. QED
  BY <1>3, <1>4 DEF CompleteInv

(* The entry a datagram makes has an id of its own. *)
LEMMA NewcomerIsApart ==
  ASSUME IdsFit, TypeOK, Apart(myClients, made), NEW p \in Peers, CountMade(p),
         NEW table \in WithEntry(p)
  PROVE  Apart(table, made')
<1>1. /\ table \in Tables /\ table[p] \in Connection /\ made' \in 0 .. MaxConnections
      /\ \A q \in Peers \ {p} : table[q] = myClients[q]
      /\ myClients[p] # None => table = myClients
      /\ myClients[p] = None => table[p] \in NewConnections(made + 1)
  BY WithEntryType DEF TypeOK, Tables
<1>2. CASE myClients[p] # None
  BY <1>1, <1>2 DEF CountMade
<1>3. CASE myClients[p] = None
  <2>1. made' = made + 1 /\ table[p].myID = IdOf(made') /\ made \in Nat
        /\ MaxConnections \in Nat
    BY <1>1, <1>3, BoundsAssumption DEF CountMade, NewConnections, TypeOK
  <2>2. /\ Present(table) = Present(myClients) \union {p} /\ p \notin Present(myClients)
        /\ \A q \in Present(myClients) : q # p /\ table[q] = myClients[q]
    BY <1>1, <1>3, NoneAssumption DEF Present, Tables, TypeOK
  <2>3. \A n \in 1 .. made : IdOf(n) # IdOf(made')
    BY <1>1, <2>1, IdsDiffer
  <2>4. /\ \A q \in Present(myClients) : \E n \in 1 .. made : myClients[q].myID = IdOf(n)
        /\ \A q, r \in Present(myClients) : myClients[q].myID = myClients[r].myID => q = r
    BY DEF Apart
  <2>5. \A q \in Present(myClients) : table[q].myID # table[p].myID
    BY <2>1, <2>2, <2>3, <2>4
  <2>6. ASSUME NEW q \in Present(table) PROVE \E n \in 1 .. made' : table[q].myID = IdOf(n)
    <3>1. made' \in 1 .. made' /\ \A n \in 1 .. made : n \in 1 .. made'
      BY <2>1
    <3>2. CASE q = p
      BY <2>1, <3>1, <3>2
    <3>3. CASE q # p
      BY <2>2, <2>4, <3>1, <3>3
    <3>4. QED
      BY <3>2, <3>3
  <2>7. ASSUME NEW q \in Present(table), NEW r \in Present(table), table[q].myID = table[r].myID
        PROVE  q = r
    BY <2>2, <2>4, <2>5, <2>7
  <2>8. QED
    BY <2>6, <2>7 DEF Apart
<1>4. QED
  BY <1>2, <1>3

(* A refused handshake leaves at most a new entry, which is not valid. *)
LEMMA RefuseKeepsComplete ==
  ASSUME IdsFit, TypeOK, CompleteInv, NEW p \in Peers, RefuseHandShake(p)
  PROVE  CompleteInv'
<1>1. PICK table \in WithEntry(p) : ~table[p].myIsValid /\ myClients' = table
  BY DEF RefuseHandShake
<1>2. CountMade(p) /\ UNCHANGED <<errors, told, left>>
  BY DEF RefuseHandShake, sentOut
<1>3. /\ table \in Tables /\ \A q \in Peers \ {p} : table[q] = myClients[q]
  BY <1>2, WithEntryType DEF TypeOK, Tables
<1>4. errors' = 0 => Apart(myClients', made')
  BY <1>1, <1>2, NewcomerIsApart DEF CompleteInv
<1>5. \A q \in Present(myClients') : myClients'[q].myIsValid =>
        q \in Present(myClients) /\ myClients'[q] = myClients[q]
  BY <1>1, <1>3 DEF Present, Tables, TypeOK
<1>6. RosterIsComplete'
  BY <1>2, <1>5 DEF CompleteInv, RosterIsComplete
<1>7. QED
  BY <1>4, <1>6 DEF CompleteInv

(* A handshake tells the newcomer of all others, and all others of it. *)
LEMMA SetupKeepsComplete ==
  ASSUME IdsFit, TypeOK, CompleteInv, NEW p \in Peers, ReceiveSetup(p)
  PROVE  CompleteInv'
<1>1. PICK table \in WithEntry(p) :
        \/ /\ table[p].myIsValid
           /\ UNCHANGED <<myClients, told, assigned, left>>
        \/ /\ ~table[p].myIsValid
           /\ myClients' = [table EXCEPT ![p].myIsValid = TRUE]
           /\ told' = AnnounceConnected(table, p, told)
           /\ left' = left \ {table[p].myID}
  BY DEF ReceiveSetup
<1>2. CountMade(p) /\ UNCHANGED errors
  BY DEF ReceiveSetup
<1>3. /\ table \in Tables /\ table[p] \in Connection
      /\ \A q \in Peers \ {p} : table[q] = myClients[q]
      /\ myClients[p] = None => table[p] \in NewConnections(made + 1)
  BY <1>2, WithEntryType DEF TypeOK, Tables
<1>4. CASE table[p].myIsValid /\ UNCHANGED <<myClients, told, assigned, left>>
  <2>1. made' = made
    BY <1>2, <1>3, <1>4 DEF CountMade, NewConnections
  <2>2. QED
    BY <1>2, <1>4, <2>1 DEF CompleteInv, RosterIsComplete
<1>5. CASE /\ myClients' = [table EXCEPT ![p].myIsValid = TRUE]
           /\ told' = AnnounceConnected(table, p, told)
           /\ left' = left \ {table[p].myID}
  <2> DEFINE c == [table[p] EXCEPT !.myIsValid = TRUE]
  <2>1. c \in Connection /\ c.myID = table[p].myID
    BY <1>3 DEF Connection
  <2>2. myClients' = [table EXCEPT ![p] = c]
    BY <1>5
  <2> HIDE DEF c
  <2>3. /\ myClients'[p] = c /\ c # None /\ table[p] # None
        /\ \A q \in Peers \ {p} : myClients'[q] = table[q]
        /\ DOMAIN myClients' = Peers /\ DOMAIN table = Peers /\ DOMAIN myClients = Peers
    BY <1>3, <2>1, <2>2, NoneAssumption DEF Tables, TypeOK
  <2>4. Present(myClients') = Present(table) /\ Present(table) \subseteq Peers
    BY <2>3 DEF Present
  <2>5. \A q \in Present(table) : myClients'[q].myID = table[q].myID
    BY <2>1, <2>3, <2>4
  <2>6. ASSUME errors' = 0 PROVE Apart(table, made')
    BY <1>2, <2>6, NewcomerIsApart DEF CompleteInv
  <2>7. ASSUME errors' = 0 PROVE Apart(myClients', made')
    <3>1. \A q \in Present(myClients') : \E n \in 1 .. made' : myClients'[q].myID = IdOf(n)
      BY <2>4, <2>5, <2>6, <2>7 DEF Apart
    <3>2. \A q, r \in Present(myClients') : myClients'[q].myID = myClients'[r].myID => q = r
      BY <2>4, <2>5, <2>6, <2>7 DEF Apart
    <3>3. QED
      BY <3>1, <3>2 DEF Apart
  <2>8. ASSUME errors' = 0, NEW q \in Present(myClients'), NEW r \in Present(myClients'), q # r,
               myClients'[q].myIsValid, myClients'[r].myIsValid, myClients'[r].myID \notin left'
        PROVE  myClients'[r].myID \in told'[q]
    <3>1. /\ q \in Present(table) /\ r \in Present(table) /\ q \in Peers /\ r \in Peers
          /\ table[q] # None /\ table[r] # None
          /\ myClients'[r].myID = table[r].myID /\ table[r].myID # table[q].myID
      BY <2>4, <2>5, <2>6, <2>8 DEF Apart, Present
    <3>2. CASE q = p
      <4>1. told'[p] = told[p] \union ({table[s].myID : s \in Present(table)} \ {table[p].myID})
        BY <1>5, <2>3, <3>1, <3>2 DEF AnnounceConnected
      <4>2. QED
        BY <3>1, <3>2, <4>1
    <3>3. ASSUME q # p PROVE table[q].myID # table[p].myID
      <4>1. p \in Present(table)
        BY <2>3 DEF Present
      <4>2. QED
        BY <2>6, <2>8, <3>1, <3>3, <4>1 DEF Apart
    <3>4. CASE q # p
      <4>1. told'[q] = told[q] \union {table[p].myID}
        BY <1>5, <2>3, <3>1, <3>3, <3>4 DEF AnnounceConnected
      <4>2. CASE r = p
        BY <3>1, <4>1, <4>2
      <4>3. CASE r # p
        <5>1. /\ myClients[q] = table[q] /\ myClients[r] = table[r]
              /\ myClients'[q] = table[q] /\ myClients'[r] = table[r]
              /\ q \in Present(myClients) /\ r \in Present(myClients)
          BY <1>3, <2>3, <3>1, <3>4, <4>3 DEF Present
        <5>2. table[r].myID # table[p].myID
          <6>1. p \in Present(table)
            BY <2>3 DEF Present
          <6>2. QED
            BY <2>6, <2>8, <3>1, <4>3, <6>1 DEF Apart
        <5>3. myClients[r].myID \notin left
          BY <1>5, <2>8, <3>1, <5>1, <5>2
        <5>4. myClients[r].myID \in told[q]
          BY <1>2, <2>8, <5>1, <5>3 DEF CompleteInv, RosterIsComplete
        <5>5. QED
          BY <3>1, <4>1, <5>1, <5>4
      <4>4. QED
        BY <4>2, <4>3
    <3>5. QED
      BY <3>2, <3>4
  <2>9. QED
    BY <2>7, <2>8 DEF CompleteInv, RosterIsComplete
<1>6. QED
  BY <1>1, <1>4, <1>5

(* An entry that goes takes with it an id nobody else has. *)
LEMMA ReapKeepsComplete ==
  ASSUME TypeOK, CompleteInv, NEW k \in Peers, Reap(k)
  PROVE  CompleteInv'
<1> DEFINE id == myClients[k].myID
<1>1. /\ Present(myClients') = Present(myClients) \ {k} /\ Present(myClients) \subseteq Peers
      /\ k \in Present(myClients)
      /\ \A q \in Present(myClients') : myClients'[q] = myClients[q]
  BY DEF Reap, IsNext, Present, TypeOK
<1>2. UNCHANGED <<made, errors, left>>
  BY DEF Reap
<1>3. \A q \in Peers \ {k} : told[q] \ {id} \subseteq told'[q]
  BY DEF Reap, AnnounceDisconnected, TypeOK
<1>4. errors' = 0 => Apart(myClients', made')
  BY <1>1, <1>2 DEF CompleteInv, Apart
<1>5. ASSUME errors' = 0, NEW q \in Present(myClients'), NEW r \in Present(myClients'), q # r,
             myClients'[q].myIsValid, myClients'[r].myIsValid, myClients'[r].myID \notin left'
      PROVE  myClients'[r].myID \in told'[q]
  <2>1. /\ q \in Present(myClients) /\ r \in Present(myClients) /\ q \in Peers \ {k} /\ r # k
        /\ myClients'[q] = myClients[q] /\ myClients'[r] = myClients[r]
    BY <1>1, <1>5
  <2>2. myClients[r].myID # id
    BY <1>1, <1>2, <1>5, <2>1 DEF CompleteInv, Apart
  <2>3. myClients[r].myID \in told[q]
    BY <1>2, <1>5, <2>1 DEF CompleteInv, RosterIsComplete
  <2>4. QED
    BY <1>3, <2>1, <2>2, <2>3
<1>6. QED
  BY <1>4, <1>5 DEF CompleteInv, RosterIsComplete

(* A goodbye retracts the id that it puts among those that left. *)
LEMMA GoodbyeKeepsComplete ==
  ASSUME TypeOK, CompleteInv, NEW p \in Peers, NEW id \in Ids, UserDisconnected(p, id)
  PROVE  CompleteInv'
<1>1. UNCHANGED <<myClients, made, errors>> /\ left' = left \union {id}
  BY DEF UserDisconnected
<1>2. Present(myClients) \subseteq Peers /\ \A q \in Peers : told[q] \ {id} \subseteq told'[q]
  BY DEF UserDisconnected, AnnounceDisconnected, Present, TypeOK
<1>3. RosterIsComplete'
  BY <1>1, <1>2 DEF CompleteInv, RosterIsComplete
<1>4. QED
  BY <1>1, <1>3 DEF CompleteInv

(* Identify and Kick leave entries their ids and revive none. *)
LEMMA ParseKeepsComplete ==
  ASSUME TypeOK, TypeOK', HooksOfIdentify, CompleteInv, NEW p \in Peers,
         IdentifyServer(p) \/ IdentifyClient(p) \/ Kick(p)
  PROVE  CompleteInv'
<1>1. myClients[p] \in Connection /\ myClients[p] # None /\ myClients[p].myIsValid
  BY DEF IdentifyServer, IdentifyClient, Kick, IsValid, TypeOK
<1>2. \/ myClients' = [myClients EXCEPT ![p].myIsServer = TRUE, ![p].myServerAddress = p]
      \/ myClients' = [myClients EXCEPT ![p].myIsServer = FALSE, ![p].identified = @ + 1,
                                        ![p].hooks = @ + 1]
      \/ myClients' = [myClients EXCEPT ![p].myIsValid = FALSE]
  BY DEF IdentifyServer, IdentifyClient, Kick
<1>3. \/ myClients'[p] = [myClients[p] EXCEPT !.myIsServer = TRUE, !.myServerAddress = p]
      \/ myClients'[p] = [myClients[p] EXCEPT !.myIsServer = FALSE, !.identified = @ + 1,
                                              !.hooks = @ + 1]
      \/ myClients'[p] = [myClients[p] EXCEPT !.myIsValid = FALSE]
  BY <1>2 DEF TypeOK
<1>4. myClients'[p].myID = myClients[p].myID
  BY <1>1, <1>3 DEF Connection
<1>5. myClients'[p] # None
  <2>1. CASE IdentifyServer(p) \/ Kick(p)
    <3>1. p \in Addresses
      BY DEF Addresses
    <3>2. /\ [myClients[p] EXCEPT !.myIsServer = TRUE, !.myServerAddress = p] \in Connection
          /\ [myClients[p] EXCEPT !.myIsValid = FALSE] \in Connection
      BY <1>1, <3>1 DEF Connection
    <3>3. QED
      BY <2>1, <3>2, NoneAssumption DEF IdentifyServer, Kick, TypeOK
  <2>2. CASE IdentifyClient(p)
    <3>1. /\ myClients[p].hooks + 1 \in 0 .. IdentifyCap
          /\ myClients[p].identified + 1 \in 0 .. IdentifyCap
      <4>1. myClients[p].hooks <= myClients[p].identified
        BY <1>1 DEF HooksOfIdentify, Present, TypeOK
      <4>2. QED
        BY <1>1, <2>2, <4>1, BoundsAssumption DEF IdentifyClient, Connection
    <3>2. [myClients[p] EXCEPT !.myIsServer = FALSE, !.identified = @ + 1, !.hooks = @ + 1]
            \in Connection
      BY <1>1, <3>1 DEF Connection
    <3>3. QED
      BY <2>2, <3>2, NoneAssumption DEF IdentifyClient, TypeOK
  <2>3. QED
    BY <2>1, <2>2
<1>6. \A q \in Peers \ {p} : myClients'[q] = myClients[q]
  BY <1>2 DEF TypeOK
<1>7. UNCHANGED <<made, errors, told, left>>
  BY DEF IdentifyServer, IdentifyClient, Kick, sentOut
<1>8. QED
  BY <1>1, <1>4, <1>5, <1>6, <1>7, SameIdsKeepComplete

LEMMA NextCompleteInv == IdsFit /\ IInv /\ CompleteInv /\ [Next]_vars => CompleteInv'
<1> SUFFICES ASSUME IdsFit, IInv, CompleteInv, [Next]_vars PROVE CompleteInv'
  OBVIOUS
<1>1. TypeOK /\ TypeOK' /\ HooksOfIdentify
  BY NextIInv DEF IInv
<1>2. ASSUME NEW p \in Peers, Redirecting(p) PROVE CompleteInv'
  <2>1. Alike(myClients', myClients)
    BY <1>1, <1>2, RedirectingType
  <2>2. UNCHANGED <<made, errors, told, left>>
    BY <1>2 DEF Redirecting, Flush, AckIdentify, EvaluatedServer
  <2>3. QED
    BY <1>1, <2>1, <2>2, SameIdsKeepComplete DEF Alike, Like
<1>3. ASSUME NEW p \in Peers, Reap(p) PROVE CompleteInv'
  BY <1>1, <1>3, ReapKeepsComplete
<1>4. ASSUME NEW p \in Peers, NEW id \in Ids, UserDisconnected(p, id) PROVE CompleteInv'
  BY <1>1, <1>4, GoodbyeKeepsComplete
<1>5. ASSUME NEW p \in Peers, ReceiveSetup(p) PROVE CompleteInv'
  BY <1>1, <1>5, SetupKeepsComplete
<1>6. ASSUME NEW p \in Peers, RefuseHandShake(p) PROVE CompleteInv'
  BY <1>1, <1>6, RefuseKeepsComplete
<1>7. ASSUME NEW p \in Peers, IdentifyServer(p) \/ IdentifyClient(p) \/ Kick(p)
      PROVE  CompleteInv'
  BY <1>1, <1>7, ParseKeepsComplete
<1>8. ASSUME NEW p \in Peers, ReceiveError(p) PROVE CompleteInv'
  <2>1. errors' # 0
    BY <1>1, <1>8 DEF ReceiveError, TypeOK
  <2>2. QED
    BY <2>1 DEF CompleteInv, RosterIsComplete
<1>9. CASE Tick
  <2>1. \A q \in Peers :
          /\ myClients'[q] = None <=> myClients[q] = None
          /\ myClients[q] # None => /\ myClients'[q].myID = myClients[q].myID
                                    /\ myClients'[q].myIsValid => myClients[q].myIsValid
    <3> TAKE q \in Peers
    <3>1. CASE myClients'[q] = myClients[q]
      BY <3>1
    <3>2. CASE /\ myClients[q] \in Connection /\ myClients'[q] \in Connection
               /\ myClients'[q] = [myClients[q] EXCEPT !.sinceRedirect = @ + 1]
      BY <3>2, NoneAssumption DEF Connection
    <3>3. QED
      BY <1>1, <1>9, <3>1, <3>2, TickType
  <2>2. UNCHANGED <<made, errors, told, left>>
    BY <1>9 DEF Tick, sentOut
  <2>3. QED
    BY <1>1, <2>1, <2>2, SameIdsKeepComplete
<1>10. ASSUME UNCHANGED <<myClients, made, errors, told, left>> PROVE CompleteInv'
  BY <1>10 DEF CompleteInv, RosterIsComplete
<1>11. CASE VisitEnds \/ WouldBlock \/ (\E p \in Peers : ReceiveAtDefaultEntry(p)) \/ UNCHANGED vars
  BY <1>10, <1>11 DEF VisitEnds, WouldBlock, ReceiveAtDefaultEntry, vars, sentOut
<1>12. QED
  BY <1>2, <1>3, <1>4, <1>5, <1>6, <1>7, <1>8, <1>9, <1>11 DEF Next, Visit, Receive, Redirecting

(* While fewer connections than ids are made, two valid connections know   *)
(* of each other, whatever order they come, die, are reaped, come back and *)
(* are redirected in (ServerMain.cpp:92-147, 193-258).                     *)
THEOREM RosterIsCompleteHolds == ASSUME IdsFit PROVE Spec => []RosterIsComplete
<1>1. Init => CompleteInv
  BY DEF Init, CompleteInv, Apart, RosterIsComplete, Present
<1>2. IInv /\ CompleteInv /\ [Next]_vars => CompleteInv'
  BY NextCompleteInv
<1>3. CompleteInv => RosterIsComplete
  BY DEF CompleteInv
<1>4. QED
  BY <1>1, <1>2, <1>3, IInvHolds, PTL DEF Spec

-----------------------------------------------------------------------------
(* What becomes of an entry in the steps that are not of a redirect.       *)

Keeps(new, old) ==
  /\ new.object = old.object
  /\ new.myEvaluations = old.myEvaluations
  /\ new.myPotentialRedirectCount = old.myPotentialRedirectCount
  /\ new.myIsRedirecting = old.myIsRedirecting
  /\ new.myIsValid => old.myIsValid \/ old.object # 0

(* A new entry is a new object, unless a failed recvfrom made it. *)
IsFresh(c) ==
  /\ \/ c.object = made + 1 /\ made' = made + 1
     \/ c.object = 0 /\ ~c.myIsValid /\ errors' # 0
  /\ ~c.myIsRedirecting
  /\ \A a \in Addresses : c.myEvaluations[a] = None

(* Every entry keeps these, but p's, which may be new or go. *)
KeepsBut(p) ==
  \A q \in Peers : myClients'[q] # None =>
    \/ myClients[q] # None /\ Keeps(myClients'[q], myClients[q])
    \/ q = p /\ myClients[q] = None /\ IsFresh(myClients'[q])

LEMMA OthersKeepEntries ==
  ASSUME TypeOK, NEW p \in Peers,
         \/ Reap(p) \/ ReceiveError(p) \/ ReceiveAtDefaultEntry(p)
         \/ ReceiveSetup(p) \/ RefuseHandShake(p) \/ IdentifyServer(p) \/ IdentifyClient(p)
         \/ Kick(p) \/ \E id \in Ids : UserDisconnected(p, id)
  PROVE  KeepsBut(p)
<1>1. myClients \in Tables /\ \A q \in Peers : myClients[q] # None => myClients[q] \in Connection
  BY DEF TypeOK, Tables
<1>2. ASSUME made' = made + 1, NEW c \in NewConnections(made + 1)
      PROVE  IsFresh(c) /\ IsFresh([c EXCEPT !.myIsValid = TRUE])
  BY <1>2 DEF NewConnections, IsFresh
<1>3. \A c \in Connection :
        /\ Keeps([c EXCEPT !.myIsValid = FALSE], c)
        /\ c.object # 0 => Keeps([c EXCEPT !.myIsValid = TRUE], c)
        /\ Keeps([c EXCEPT !.myIsValid = FALSE, !.hooks = 0], c)
        /\ Keeps([c EXCEPT !.myIsServer = TRUE, !.myServerAddress = p], c)
        /\ Keeps([c EXCEPT !.myIsServer = FALSE, !.identified = @ + 1, !.hooks = @ + 1], c)
  BY DEF Connection, Keeps
<1>4. \A c : Keeps(c, c)
  BY DEF Keeps
<1>5. CASE ReceiveAtDefaultEntry(p) \/ \E id \in Ids : UserDisconnected(p, id)
  BY <1>4, <1>5 DEF ReceiveAtDefaultEntry, UserDisconnected, KeepsBut
<1>6. CASE Reap(p)
  BY <1>1, <1>4, <1>6 DEF Reap, Tables, KeepsBut
<1>7. ASSUME NEW c, myClients' = [myClients EXCEPT ![p] = c],
             \/ myClients[p] = None /\ IsFresh(c)
             \/ myClients[p] # None /\ Keeps(c, myClients[p])
      PROVE  KeepsBut(p)
  <2>1. \A q \in Peers : myClients'[q] = IF q = p THEN c ELSE myClients[q]
    BY <1>1, <1>7 DEF Tables
  <2>2. QED
    BY <1>4, <1>7, <2>1 DEF KeepsBut
<1>8. CASE Kick(p)
  <2>1. myClients' = [myClients EXCEPT ![p] = [myClients[p] EXCEPT !.myIsValid = FALSE]]
    BY <1>8 DEF Kick
  <2>2. QED
    BY <1>1, <1>3, <1>7, <1>8, <2>1 DEF Kick, IsValid
<1>9. CASE IdentifyServer(p)
  <2>1. myClients' = [myClients EXCEPT
                        ![p] = [myClients[p] EXCEPT !.myIsServer = TRUE, !.myServerAddress = p]]
    BY <1>1, <1>9 DEF IdentifyServer, Tables
  <2>2. QED
    BY <1>1, <1>3, <1>7, <1>9, <2>1 DEF IdentifyServer, IsValid
<1>10. CASE IdentifyClient(p)
  <2>1. myClients' = [myClients EXCEPT
                        ![p] = [myClients[p] EXCEPT !.myIsServer = FALSE, !.identified = @ + 1,
                                                    !.hooks = @ + 1]]
    BY <1>1, <1>10 DEF IdentifyClient, Tables
  <2>2. QED
    BY <1>1, <1>3, <1>7, <1>10, <2>1 DEF IdentifyClient, IsValid
<1>11. CASE ReceiveError(p)
  <2>1. CASE /\ myClients[p] # None
             /\ myClients' = [myClients EXCEPT ![p].myIsValid = FALSE, ![p].hooks = 0]
    <3>1. myClients' = [myClients EXCEPT
                          ![p] = [myClients[p] EXCEPT !.myIsValid = FALSE, !.hooks = 0]]
      BY <1>1, <2>1 DEF Tables
    <3>2. QED
      BY <1>1, <1>3, <1>7, <2>1, <3>1
  <2>2. ASSUME myClients[p] = None, NEW id \in Ids, NEW c \in NewConnections(0),
               myClients' = [myClients EXCEPT ![p] = [c EXCEPT !.myID = id]]
        PROVE  KeepsBut(p)
    <3>1. errors' # 0
      BY <1>11 DEF ReceiveError, TypeOK
    <3>2. IsFresh([c EXCEPT !.myID = id])
      BY <3>1 DEF NewConnections, IsFresh
    <3>3. QED
      BY <1>7, <2>2, <3>2
  <2>3. QED
    BY <1>11, <2>1, <2>2 DEF ReceiveError
<1>12. CASE ReceiveSetup(p) \/ RefuseHandShake(p)
  <2>1. PICK table \in WithEntry(p) :
          \/ myClients' = myClients
          \/ myClients' = table
          \/ myClients' = [table EXCEPT ![p].myIsValid = TRUE]
    BY <1>12 DEF ReceiveSetup, RefuseHandShake
  <2>2. CASE myClients' = myClients
    BY <1>4, <2>2 DEF KeepsBut
  <2>3. CASE myClients[p] # None
    <3>1. table = myClients /\ myClients[p].object # 0
      BY <1>12, <2>3 DEF WithEntry, ReceiveSetup, RefuseHandShake, HasCallback
    <3>2. CASE myClients' = [myClients EXCEPT ![p] = [myClients[p] EXCEPT !.myIsValid = TRUE]]
      BY <1>1, <1>3, <1>7, <2>3, <3>1, <3>2
    <3>3. QED
      BY <2>1, <2>2, <3>1, <3>2
  <2>4. CASE myClients[p] = None
    <3>1. PICK c \in NewConnections(made + 1) : table = [myClients EXCEPT ![p] = c]
      BY <2>4 DEF WithEntry
    <3>2. table[p] = c
      BY <1>1, <3>1 DEF Tables
    <3>3. [table EXCEPT ![p].myIsValid = TRUE]
            = [myClients EXCEPT ![p] = [c EXCEPT !.myIsValid = TRUE]]
      BY <1>1, <3>1, <3>2 DEF Tables
    <3>4. IsFresh(c) /\ IsFresh([c EXCEPT !.myIsValid = TRUE])
      BY <1>2, <1>12, <2>4 DEF ReceiveSetup, RefuseHandShake, CountMade
    <3>5. CASE myClients' = table
      BY <1>7, <2>4, <3>1, <3>4, <3>5
    <3>6. CASE myClients' = [table EXCEPT ![p].myIsValid = TRUE]
      BY <1>7, <2>4, <3>3, <3>4, <3>6
    <3>7. QED
      BY <2>1, <2>2, <3>5, <3>6
  <2>5. QED
    BY <2>3, <2>4
<1>13. QED
  BY <1>5, <1>6, <1>8, <1>9, <1>10, <1>11, <1>12

(***************************************************************************)
(* The process ends only after a recvfrom has failed: without an error no  *)
(* datagram finds an entry whose callback is empty, whatever is reaped and *)
(* made again (TRedirectServer/ServerMain.cpp:155-188).                    *)
(***************************************************************************)
SurvivesWithoutErrors == errors = 0 => running

(* Entries that operator[] did not make have a callback. *)
CallbacksAreSet ==
  errors = 0 => running /\ \A p \in Peers : myClients[p] # None => myClients[p].object # 0

LEMMA NextCallbacks == IInv /\ CallbacksAreSet /\ [Next]_vars => CallbacksAreSet'
<1> SUFFICES ASSUME IInv, CallbacksAreSet, [Next]_vars, errors' = 0
             PROVE  /\ running'
                    /\ \A p \in Peers : myClients'[p] # None => myClients'[p].object # 0
  BY DEF CallbacksAreSet
<1>1. TypeOK /\ made \in Nat
  BY BoundsAssumption DEF IInv, TypeOK
<1>2. CASE \E k \in Peers : Redirecting(k)
  <2>1. PICK k \in Peers : Redirecting(k)
    BY <1>2
  <2>2. Alike(myClients', myClients)
    BY <1>1, <2>1, RedirectingType
  <2>3. UNCHANGED <<errors, running>>
    BY <2>1 DEF Redirecting, Flush, AckIdentify, EvaluatedServer
  <2>4. QED
    BY <2>2, <2>3 DEF Alike, Like, CallbacksAreSet
<1>3. ASSUME NEW p \in Peers,
             \/ Reap(p) \/ ReceiveError(p) \/ ReceiveAtDefaultEntry(p)
             \/ ReceiveSetup(p) \/ RefuseHandShake(p) \/ IdentifyServer(p) \/ IdentifyClient(p)
             \/ Kick(p) \/ \E id \in Ids : UserDisconnected(p, id)
      PROVE  /\ running'
             /\ \A q \in Peers : myClients'[q] # None => myClients'[q].object # 0
  <2>1. errors = 0
    <3>1. ReceiveError(p) => errors' = errors + 1 /\ errors \in Nat
      BY <1>1, BoundsAssumption DEF ReceiveError, TypeOK
    <3>2. ReceiveError(p) \/ errors' = errors
      BY <1>3 DEF Reap, ReceiveAtDefaultEntry, ReceiveSetup, RefuseHandShake,
                  IdentifyServer, IdentifyClient, Kick, UserDisconnected
    <3>3. QED
      BY <3>1, <3>2
  <2>2. running /\ \A q \in Peers : myClients[q] # None => myClients[q].object # 0
    BY <2>1 DEF CallbacksAreSet
  <2>3. ~ReceiveAtDefaultEntry(p)
    BY <2>2 DEF ReceiveAtDefaultEntry, HasCallback
  <2>4. running'
    BY <1>3, <2>2, <2>3 DEF Reap, ReceiveError, ReceiveSetup, RefuseHandShake,
                      IdentifyServer, IdentifyClient, Kick, UserDisconnected, sentOut
  <2>5. \A q \in Peers : myClients'[q] # None =>
          \/ myClients[q] # None /\ Keeps(myClients'[q], myClients[q])
          \/ IsFresh(myClients'[q])
    BY <1>1, <1>3, OthersKeepEntries DEF KeepsBut
  <2>6. \A q \in Peers : myClients'[q] # None => myClients'[q].object # 0
    BY <1>1, <2>2, <2>5 DEF Keeps, IsFresh
  <2>7. QED
    BY <2>4, <2>6
<1>4. CASE Tick
  <2>1. \A q \in Peers : myClients'[q] # None =>
          myClients[q] # None /\ myClients'[q].object = myClients[q].object
    <3> TAKE q \in Peers
    <3>1. CASE myClients'[q] = myClients[q]
      BY <3>1
    <3>2. CASE /\ myClients[q] \in Connection
               /\ myClients'[q] = [myClients[q] EXCEPT !.sinceRedirect = @ + 1]
      BY <3>2, NoneAssumption DEF Connection
    <3>3. QED
      BY <1>1, <1>4, <3>1, <3>2, TickType
  <2>2. QED
    BY <1>4, <2>1 DEF Tick, CallbacksAreSet
<1>5. CASE VisitEnds \/ WouldBlock \/ UNCHANGED vars
  BY <1>5 DEF VisitEnds, WouldBlock, vars, sentOut, CallbacksAreSet
<1>6. QED
  BY <1>2, <1>3, <1>4, <1>5 DEF Next, Visit, Receive, Redirecting

(* Only a failed recvfrom can end the router's process.                    *)
THEOREM SurvivesWithoutErrorsHolds == Spec => []SurvivesWithoutErrors
<1>1. Init => CallbacksAreSet
  BY DEF Init, CallbacksAreSet
<1>2. CallbacksAreSet => SurvivesWithoutErrors
  BY DEF CallbacksAreSet, SurvivesWithoutErrors
<1>3. QED
  BY <1>1, <1>2, NextCallbacks, IInvHolds, PTL DEF Spec

-----------------------------------------------------------------------------
(* What the notes of a redirect are worth.                                 *)

(***************************************************************************)
(* IDCOUNTER counts the objects, so two entries share one only if          *)
(* operator[] made both, and a handshake cannot make such an entry valid.  *)
(***************************************************************************)
ObjectsAreApart ==
  /\ \A p \in Peers : myClients[p] # None =>
       myClients[p].object \in 0 .. made /\ (myClients[p].myIsValid => myClients[p].object # 0)
  /\ \A p, q \in Peers :
       /\ myClients[p] # None /\ myClients[q] # None
       /\ myClients[p].object = myClients[q].object /\ myClients[p].object # 0
       => p = q

(* The game server at a is connected, under its own address. *)
IsServerNow(a) ==
  /\ myClients[a] # None /\ myClients[a].myIsValid
  /\ myClients[a].myIsServer /\ myClients[a].myServerAddress = a

ServersStand ==
  \A o \in Objects : standing[o] = "server" =>
    \E a \in Servers : IsServerNow(a) /\ myClients[a].object = o

(* A note is of a Connection that was made, at an address that was offered. *)
NotesAreOffered ==
  \A p \in Peers, a \in Addresses : myClients[p] # None /\ myClients[p].myEvaluations[a] # None =>
    a \in offered[p] /\ myClients[p].myEvaluations[a].myConnection \in 1 .. made

(* The note of p at a is of a's Connection, which has not been given up. *)
IsLive(p, a) ==
  /\ myClients[p].myEvaluations[a] # None /\ myClients[a] # None
  /\ myClients[p].myEvaluations[a].myConnection = myClients[a].object
  /\ standing[myClients[a].object] # "lapsed"

NotesOfServers ==
  \A p \in Peers, a \in Servers : myClients[p] # None /\ IsLive(p, a) =>
    IsServerNow(a)

(* As many answers are waited for as there are such notes, if not more. *)
LiveNotes(p) == {a \in Servers : IsLive(p, a)}

CountsCoverNotes ==
  \A p \in Peers : myClients[p] # None /\ LiveNotes(p) # {} =>
    Cardinality(LiveNotes(p)) <= myClients[p].myPotentialRedirectCount

RedirectInv ==
  /\ ObjectsAreApart /\ ServersStand
  /\ NotesAreOffered /\ NotesOfServers /\ CountsCoverNotes

(* Entries stay what they are, but p's, which may be new or go. *)
EntriesGoOn(p) ==
  /\ made' \in {made, made + 1}
  /\ \A q \in Peers : myClients'[q] # None =>
       \/ /\ myClients[q] # None /\ myClients'[q].object = myClients[q].object
          /\ myClients'[q].myIsValid => myClients[q].myIsValid \/ myClients[q].object # 0
       \/ /\ q = p /\ myClients[q] = None
          /\ \/ myClients'[q].object = made + 1 /\ made' = made + 1
             \/ myClients'[q].object = 0 /\ ~myClients'[q].myIsValid

(* A connected game server stays, or lapses, and nobody else becomes one. *)
ServersGoOn ==
  /\ \A q \in Servers : myClients[q] # None /\ myClients[q].myIsValid =>
       /\ myClients'[q] # None
       /\ myClients'[q].myIsValid \/ standing'[myClients[q].object] = "lapsed"
       /\ myClients[q].myIsServer /\ myClients[q].myServerAddress = q =>
            myClients'[q].myIsServer /\ myClients'[q].myServerAddress = q
  /\ \A o \in Objects :
       /\ standing[o] = "lapsed" => standing'[o] = "lapsed"
       /\ standing'[o] = "server" =>
            \/ standing[o] = "server"
            \/ \E a \in Servers : IsServerNow(a)' /\ myClients'[a].object = o

HasNoNotes(c) == \A a \in Addresses : c.myEvaluations[a] = None

HasSameNotes(new, old) ==
  /\ new.myPotentialRedirectCount = old.myPotentialRedirectCount
  /\ \A a \in Addresses :
       /\ new.myEvaluations[a] = None <=> old.myEvaluations[a] = None
       /\ old.myEvaluations[a] # None =>
            new.myEvaluations[a].myConnection = old.myEvaluations[a].myConnection

(* BeginRedirect: the connected servers of now, and notes from before. *)
Begins(k, new, old) ==
  /\ new.myPotentialRedirectCount = Cardinality(Candidates(myClients'))
  /\ \A a \in Addresses : new.myEvaluations[a] # None =>
       \/ /\ old.myEvaluations[a] # None
          /\ new.myEvaluations[a].myConnection = old.myEvaluations[a].myConnection
       \/ /\ a \in offered'[k]
          /\ \E r \in Candidates(myClients') :
               /\ myClients'[r].myServerAddress = a
               /\ new.myEvaluations[a].myConnection = myClients'[r].object

NotesGoOn ==
  \A q \in Peers :
    /\ offered[q] \subseteq offered'[q]
    /\ myClients'[q] # None =>
         \/ HasNoNotes(myClients'[q])
         \/ myClients[q] # None /\ HasSameNotes(myClients'[q], myClients[q])
         \/ myClients[q] # None /\ Begins(q, myClients'[q], myClients[q])

(* Steps that do this keep the invariant. *)
LEMMA ObjectsStayApart ==
  ASSUME TypeOK, ObjectsAreApart, NEW p \in Peers, EntriesGoOn(p)
  PROVE  ObjectsAreApart'
<1>1. made \in Nat
  BY BoundsAssumption DEF TypeOK
<1>2. \A q \in Peers : myClients[q] # None => myClients[q].object \in 0 .. made
  BY DEF ObjectsAreApart
<1>3. ASSUME NEW q \in Peers, myClients'[q] # None
      PROVE  /\ myClients'[q].object \in 0 .. made'
             /\ myClients'[q].myIsValid => myClients'[q].object # 0
  BY <1>1, <1>2, <1>3 DEF EntriesGoOn, ObjectsAreApart
<1>4. ASSUME NEW q \in Peers, NEW r \in Peers, myClients'[q] # None, myClients'[r] # None,
             myClients'[q].object = myClients'[r].object, myClients'[q].object # 0
      PROVE  q = r
  BY <1>1, <1>2, <1>4 DEF EntriesGoOn, ObjectsAreApart
<1>5. QED
  BY <1>3, <1>4 DEF ObjectsAreApart

LEMMA ServersStandOn ==
  ASSUME TypeOK, ServersStand, NEW p \in Peers, EntriesGoOn(p), ServersGoOn
  PROVE  ServersStand'
<1> SUFFICES ASSUME NEW o \in Objects, standing'[o] = "server"
             PROVE  \E a \in Servers : IsServerNow(a)' /\ myClients'[a].object = o
  BY DEF ServersStand
<1>1. CASE standing[o] # "server"
  BY <1>1 DEF ServersGoOn
<1>2. CASE standing[o] = "server"
  <2>1. PICK a \in Servers : IsServerNow(a) /\ myClients[a].object = o
    BY <1>2 DEF ServersStand
  <2>2. a \in Peers
    BY DEF Peers
  <2>3. /\ myClients'[a] # None /\ myClients'[a].myIsValid
        /\ myClients'[a].myIsServer /\ myClients'[a].myServerAddress = a
    BY <2>1 DEF IsServerNow, ServersGoOn
  <2>4. myClients'[a].object = o
    BY <2>1, <2>2, <2>3 DEF EntriesGoOn, IsServerNow
  <2>5. QED
    BY <2>3, <2>4 DEF IsServerNow
<1>3. QED
  BY <1>1, <1>2

(* A note that was there points to a Connection of before the step. *)
LEMMA OldNotesAreNoted ==
  ASSUME TypeOK, NotesAreOffered, NEW q \in Peers, NEW a \in Addresses, myClients[q] # None,
         myClients[q].myEvaluations[a] # None, NEW object,
         myClients[q].myEvaluations[a].myConnection = object
  PROVE  a \in offered[q] /\ object \in 1 .. made /\ made \in Nat
  BY BoundsAssumption DEF NotesAreOffered, TypeOK

LEMMA CandidateIsApart ==
  ASSUME TypeOK', ObjectsAreApart', NEW r \in Candidates(myClients')
  PROVE  /\ r \in Peers /\ myClients'[r] # None /\ myClients'[r].myIsValid
         /\ myClients'[r].myIsServer /\ myClients'[r].object \in 1 .. made'
         /\ made' \in Nat
<1>1. r \in Peers /\ myClients'[r] # None /\ myClients'[r].myIsValid /\ myClients'[r].myIsServer
  BY DEF Candidates, Present, TypeOK
<1>2. myClients'[r].object \in 0 .. made' /\ myClients'[r].object # 0 /\ made' \in Nat
  BY <1>1, BoundsAssumption DEF ObjectsAreApart, TypeOK
<1>3. QED
  BY <1>1, <1>2

LEMMA NotesStayOffered ==
  ASSUME TypeOK, TypeOK', RedirectInv, ObjectsAreApart',
         NEW p \in Peers, EntriesGoOn(p), NotesGoOn
  PROVE  NotesAreOffered'
<1> SUFFICES ASSUME NEW q \in Peers, NEW a \in Addresses, myClients'[q] # None,
                    myClients'[q].myEvaluations[a] # None
             PROVE  a \in offered'[q] /\ myClients'[q].myEvaluations[a].myConnection \in 1 .. made'
  BY DEF NotesAreOffered
<1> DEFINE object == myClients'[q].myEvaluations[a].myConnection
<1>1. CASE /\ myClients[q] # None /\ myClients[q].myEvaluations[a] # None
           /\ myClients[q].myEvaluations[a].myConnection = object
  <2>1. a \in offered[q] /\ object \in 1 .. made /\ made \in Nat
    BY <1>1, OldNotesAreNoted DEF RedirectInv
  <2>2. offered[q] \subseteq offered'[q] /\ made' \in {made, made + 1}
    BY DEF NotesGoOn, EntriesGoOn
  <2>3. QED
    BY <2>1, <2>2
<1>2. CASE /\ a \in offered'[q]
           /\ \E r \in Candidates(myClients') : object = myClients'[r].object
  BY <1>2, CandidateIsApart
<1>3. QED
  BY <1>1, <1>2 DEF NotesGoOn, HasNoNotes, HasSameNotes, Begins

(* A note that points to a server's Connection pointed to it before. *)
LEMMA LiveNotesWereLive ==
  ASSUME TypeOK, TypeOK', RedirectInv, NEW p \in Peers, EntriesGoOn(p), ServersGoOn,
         NEW q \in Peers, NEW a \in Servers, myClients'[q] # None, IsLive(q, a)',
         myClients[q] # None, myClients[q].myEvaluations[a] # None,
         myClients[q].myEvaluations[a].myConnection = myClients'[q].myEvaluations[a].myConnection
  PROVE  /\ IsLive(q, a) /\ myClients'[a].object = myClients[a].object
         /\ IsServerNow(a)'
<1> DEFINE object == myClients'[q].myEvaluations[a].myConnection
<1>1. a \in Peers /\ a \in Addresses
  BY DEF Peers, Addresses
<1>2. object \in 1 .. made /\ made \in Nat
  BY <1>1, OldNotesAreNoted DEF RedirectInv
<1>3. myClients'[a] # None /\ myClients'[a].object = object /\ standing'[object] # "lapsed"
  BY DEF IsLive
<1>4. myClients[a] # None /\ myClients[a].object = object
  BY <1>1, <1>2, <1>3 DEF EntriesGoOn
<1>5. object \in Objects
  BY <1>1, <1>4 DEF TypeOK, Connection
<1>6. standing[object] # "lapsed"
  BY <1>3, <1>5 DEF ServersGoOn
<1>7. IsLive(q, a)
  BY <1>4, <1>6 DEF IsLive
<1>8. IsServerNow(a)
  BY <1>4, <1>7 DEF RedirectInv, NotesOfServers
<1>9. IsServerNow(a)'
  BY <1>3, <1>4, <1>8 DEF IsServerNow, ServersGoOn
<1>10. QED
  BY <1>3, <1>4, <1>7, <1>9 DEF IsServerNow

LEMMA NotesStayOfServers ==
  ASSUME TypeOK, TypeOK', RedirectInv, ObjectsAreApart',
         NEW p \in Peers, EntriesGoOn(p), ServersGoOn, NotesGoOn
  PROVE  NotesOfServers'
<1> SUFFICES ASSUME NEW q \in Peers, NEW a \in Servers, myClients'[q] # None, IsLive(q, a)'
             PROVE  IsServerNow(a)'
  BY DEF NotesOfServers
<1> DEFINE object == myClients'[q].myEvaluations[a].myConnection
<1>1. a \in Peers /\ a \in Addresses /\ myClients'[q].myEvaluations[a] # None
  BY DEF Peers, Addresses, IsLive
<1>2. CASE /\ myClients[q] # None /\ myClients[q].myEvaluations[a] # None
           /\ myClients[q].myEvaluations[a].myConnection = object
  BY <1>2, LiveNotesWereLive
<1>3. ASSUME NEW r \in Candidates(myClients'), myClients'[r].myServerAddress = a,
             object = myClients'[r].object
      PROVE  IsServerNow(a)'
  <2>1. /\ r \in Peers /\ myClients'[r] # None /\ myClients'[r].myIsValid
        /\ myClients'[r].myIsServer /\ myClients'[r].object # 0
    BY CandidateIsApart
  <2>2. myClients'[a] # None /\ myClients'[a].object = myClients'[r].object
    BY <1>3 DEF IsLive
  <2>3. r = a
    BY <1>1, <2>1, <2>2 DEF ObjectsAreApart
  <2>4. QED
    BY <1>3, <2>1, <2>3 DEF IsServerNow
<1>4. QED
  BY <1>1, <1>2, <1>3 DEF NotesGoOn, HasNoNotes, HasSameNotes, Begins

LEMMA CountsStillCover ==
  ASSUME TypeOK, TypeOK', RedirectInv, NotesOfServers',
         NEW p \in Peers, EntriesGoOn(p), ServersGoOn, NotesGoOn
  PROVE  CountsCoverNotes'
<1> SUFFICES ASSUME NEW q \in Peers, myClients'[q] # None, LiveNotes(q)' # {}
             PROVE  Cardinality(LiveNotes(q)') <= myClients'[q].myPotentialRedirectCount
  BY DEF CountsCoverNotes
<1>1. Servers \subseteq Peers /\ Servers \subseteq Addresses /\ IsFiniteSet(Servers)
  BY PeersAssumption, FS_Subset DEF Peers, Addresses
<1>2. ~HasNoNotes(myClients'[q])
  BY <1>1 DEF LiveNotes, IsLive, HasNoNotes
<1>3. CASE myClients[q] # None /\ HasSameNotes(myClients'[q], myClients[q])
  <2>1. LiveNotes(q)' \subseteq LiveNotes(q)
    BY <1>1, <1>3, LiveNotesWereLive DEF LiveNotes, HasSameNotes, IsLive
  <2>2. IsFiniteSet(LiveNotes(q))
    BY <1>1, FS_Subset DEF LiveNotes
  <2>3. /\ Cardinality(LiveNotes(q)') <= Cardinality(LiveNotes(q))
        /\ Cardinality(LiveNotes(q)') \in Nat /\ Cardinality(LiveNotes(q)) \in Nat
    BY <2>1, <2>2, FS_Subset, FS_CardinalityType
  <2>4. /\ Cardinality(LiveNotes(q)) <= myClients[q].myPotentialRedirectCount
        /\ myClients[q].myPotentialRedirectCount \in Int
    BY <1>3, <2>1 DEF RedirectInv, CountsCoverNotes, TypeOK, Connection
  <2>5. myClients'[q].myPotentialRedirectCount = myClients[q].myPotentialRedirectCount
    BY <1>3 DEF HasSameNotes
  <2>6. QED
    BY <2>3, <2>4, <2>5
<1>4. CASE Begins(q, myClients'[q], myClients[q])
  <2>1. LiveNotes(q)' \subseteq Candidates(myClients')
    <3>1. ASSUME NEW a \in LiveNotes(q)' PROVE a \in Candidates(myClients')
      <4>1. a \in Peers /\ IsServerNow(a)'
        BY <1>1 DEF LiveNotes, NotesOfServers
      <4>2. QED
        BY <4>1 DEF IsServerNow, Candidates, Present, TypeOK
    <3>2. QED
      BY <3>1
  <2>2. IsFiniteSet(Candidates(myClients'))
    BY CandidatesCount DEF TypeOK, Tables
  <2>3. QED
    BY <1>4, <2>1, <2>2, FS_Subset DEF Begins
<1>5. QED
  BY <1>2, <1>3, <1>4 DEF NotesGoOn

LEMMA StepKeepsRedirects ==
  ASSUME TypeOK, TypeOK', RedirectInv, NEW p \in Peers, EntriesGoOn(p), ServersGoOn, NotesGoOn
  PROVE  RedirectInv'
<1>1. ObjectsAreApart' /\ ServersStand'
  BY ObjectsStayApart, ServersStandOn DEF RedirectInv
<1>2. NotesAreOffered' /\ NotesOfServers'
  BY <1>1, NotesStayOffered, NotesStayOfServers
<1>3. CountsCoverNotes'
  BY <1>2, CountsStillCover
<1>4. QED
  BY <1>1, <1>2, <1>3 DEF RedirectInv

(* The steps that are not of a redirect. *)
NobodyIsRedirected ==
  /\ UNCHANGED target
  /\ \A q \in Peers : IsRedirecting(q) /\ myClients'[q] # None => IsRedirecting(q)'

LEMMA KeepsGoesOn ==
  ASSUME NEW p \in Peers, KeepsBut(p), made' \in {made, made + 1}, UNCHANGED <<offered, target>>
  PROVE  EntriesGoOn(p) /\ NotesGoOn /\ NobodyIsRedirected
<1>1. EntriesGoOn(p)
  BY DEF KeepsBut, Keeps, IsFresh, EntriesGoOn
<1>2. NotesGoOn
  BY DEF KeepsBut, Keeps, IsFresh, NotesGoOn, HasNoNotes, HasSameNotes
<1>3. NobodyIsRedirected
  BY DEF KeepsBut, Keeps, NobodyIsRedirected, IsRedirecting
<1>4. QED
  BY <1>1, <1>2, <1>3

(* The game servers, when only the entry of p changes. *)
LEMMA OneEntryServersGoOn ==
  ASSUME TypeOK, NEW p \in Peers, \A q \in Peers \ {p} : myClients'[q] = myClients[q],
         UNCHANGED standing \/ Lapses(p, FALSE),
         p \in Servers /\ myClients[p] # None /\ myClients[p].myIsValid =>
           /\ myClients'[p] # None
           /\ myClients'[p].myIsValid \/ standing'[myClients[p].object] = "lapsed"
           /\ myClients[p].myIsServer /\ myClients[p].myServerAddress = p =>
                myClients'[p].myIsServer /\ myClients'[p].myServerAddress = p
  PROVE  ServersGoOn
<1>1. \A o \in Objects : standing'[o] \in {standing[o], "lapsed"}
  BY DEF Lapses, TypeOK
<1>2. Servers \subseteq Peers
  BY DEF Peers
<1>3. QED
  BY <1>1, <1>2 DEF ServersGoOn

LEMMA OthersServersGoOn ==
  ASSUME TypeOK, NEW p \in Peers,
         \/ Reap(p) \/ ReceiveError(p) \/ ReceiveAtDefaultEntry(p)
         \/ ReceiveSetup(p) \/ RefuseHandShake(p) \/ IdentifyClient(p)
         \/ Kick(p) \/ \E id \in Ids : UserDisconnected(p, id)
  PROVE  ServersGoOn
<1>1. myClients \in Tables /\ \A q \in Peers : myClients[q] # None => myClients[q] \in Connection
  BY DEF TypeOK, Tables
<1>2. CASE Reap(p)
  BY <1>1, <1>2, OneEntryServersGoOn DEF Reap, Tables
<1>3. CASE ReceiveAtDefaultEntry(p) \/ \E id \in Ids : UserDisconnected(p, id)
  BY <1>3, OneEntryServersGoOn DEF ReceiveAtDefaultEntry, UserDisconnected
<1>4. CASE IdentifyClient(p)
  <2>1. p \notin Servers
    BY <1>4, PeersAssumption DEF IdentifyClient
  <2>2. QED
    BY <1>1, <1>4, <2>1, OneEntryServersGoOn DEF IdentifyClient, Tables
<1>5. CASE ReceiveSetup(p) \/ RefuseHandShake(p)
  <2>1. PICK table \in WithEntry(p) :
          \/ myClients' = myClients
          \/ ~table[p].myIsValid /\ myClients' = table
          \/ ~table[p].myIsValid /\ myClients' = [table EXCEPT ![p].myIsValid = TRUE]
    BY <1>5 DEF ReceiveSetup, RefuseHandShake
  <2>2. /\ \A q \in Peers \ {p} : table[q] = myClients[q]
        /\ table \in Tables
        /\ myClients[p] # None => table = myClients
    BY <1>1, <1>5, WithEntryType DEF ReceiveSetup, RefuseHandShake, TypeOK
  <2>3. \A q \in Peers \ {p} : myClients'[q] = myClients[q]
    BY <2>1, <2>2 DEF Tables
  <2>4. p \in Servers /\ myClients[p] # None /\ myClients[p].myIsValid => myClients' = myClients
    BY <2>1, <2>2
  <2>5. UNCHANGED standing
    BY <1>5 DEF ReceiveSetup, RefuseHandShake
  <2>6. QED
    BY <2>3, <2>4, <2>5, OneEntryServersGoOn
<1>6. ASSUME myClients[p] # None, Lapses(p, FALSE),
             \/ myClients' = [myClients EXCEPT ![p].myIsValid = FALSE]
             \/ myClients' = [myClients EXCEPT ![p].myIsValid = FALSE, ![p].hooks = 0]
      PROVE  ServersGoOn
  <2> DEFINE c == myClients'[p]
  <2>1. \/ c = [myClients[p] EXCEPT !.myIsValid = FALSE]
        \/ c = [myClients[p] EXCEPT !.myIsValid = FALSE, !.hooks = 0]
    BY <1>1, <1>6 DEF Tables
  <2>2. /\ c.myIsServer = myClients[p].myIsServer
        /\ c.myServerAddress = myClients[p].myServerAddress
    BY <1>1, <1>6, <2>1 DEF Connection
  <2>3. c # None
    <3>1. 0 \in 0 .. IdentifyCap
      BY BoundsAssumption
    <3>2. c \in Connection
      BY <1>1, <1>6, <2>1, <3>1 DEF Connection
    <3>3. QED
      BY <3>2, NoneAssumption
  <2>4. p \in Servers => standing'[myClients[p].object] = "lapsed"
    BY <1>1, <1>6 DEF Lapses, TypeOK, Connection
  <2>5. \A q \in Peers \ {p} : myClients'[q] = myClients[q]
    BY <1>1, <1>6 DEF Tables
  <2>6. QED
    BY <1>6, <2>2, <2>3, <2>4, <2>5, OneEntryServersGoOn
<1>7. CASE Kick(p)
  BY <1>6, <1>7 DEF Kick, IsValid
<1>8. CASE ReceiveError(p)
  <2>1. CASE myClients[p] # None
    BY <1>6, <1>8, <2>1 DEF ReceiveError
  <2>2. CASE myClients[p] = None
    BY <1>1, <1>8, <2>2, OneEntryServersGoOn DEF ReceiveError, Tables
  <2>3. QED
    BY <2>1, <2>2
<1>9. QED
  BY <1>2, <1>3, <1>4, <1>5, <1>7, <1>8

(* A game server that identifies itself is one from now on. *)
LEMMA IdentifyServersGoOn ==
  ASSUME TypeOK, NEW p \in Peers, IdentifyServer(p)
  PROVE  ServersGoOn
<1>1. /\ p \in Servers /\ myClients[p] # None /\ myClients[p].myIsValid
      /\ myClients[p] \in Connection /\ p \in Addresses
  BY DEF IdentifyServer, IsValid, TypeOK, Addresses
<1> DEFINE c == [myClients[p] EXCEPT !.myIsServer = TRUE, !.myServerAddress = p]
<1>2. c \in Connection
  BY <1>1 DEF Connection
<1>3. /\ c.object = myClients[p].object /\ c.myIsValid
      /\ c.myIsServer /\ c.myServerAddress = p
  BY <1>1 DEF Connection
<1>4. myClients' = [myClients EXCEPT ![p] = c]
  BY DEF IdentifyServer, TypeOK
<1> HIDE DEF c
<1>5. c # None
  BY <1>2, NoneAssumption
<1>6. myClients'[p] = c /\ \A q \in Peers \ {p} : myClients'[q] = myClients[q]
  BY <1>4 DEF TypeOK
<1>7. IsServerNow(p)' /\ myClients'[p].object = myClients[p].object
  BY <1>3, <1>5, <1>6 DEF IsServerNow
<1>8. \A o \in Objects :
        /\ standing[o] = "lapsed" => standing'[o] = "lapsed"
        /\ standing'[o] = "server" => standing[o] = "server" \/ o = myClients[p].object
  BY DEF IdentifyServer, TypeOK
<1>9. \A q \in Servers : q \in Peers
  BY DEF Peers
<1>10. QED
  BY <1>1, <1>3, <1>5, <1>6, <1>7, <1>8, <1>9 DEF ServersGoOn

LEMMA OthersGoOn ==
  ASSUME TypeOK, NEW p \in Peers,
         \/ Reap(p) \/ ReceiveError(p) \/ ReceiveAtDefaultEntry(p)
         \/ ReceiveSetup(p) \/ RefuseHandShake(p) \/ IdentifyServer(p) \/ IdentifyClient(p)
         \/ Kick(p) \/ \E id \in Ids : UserDisconnected(p, id)
  PROVE  EntriesGoOn(p) /\ ServersGoOn /\ NotesGoOn /\ NobodyIsRedirected
<1>1. ServersGoOn
  BY OthersServersGoOn, IdentifyServersGoOn
<1>2. made' \in {made, made + 1}
  BY DEF Reap, ReceiveError, ReceiveAtDefaultEntry, ReceiveSetup, RefuseHandShake, CountMade,
         IdentifyServer, IdentifyClient, Kick, UserDisconnected
<1>3. UNCHANGED <<offered, target>>
  BY DEF Reap, ReceiveError, ReceiveAtDefaultEntry, ReceiveSetup, RefuseHandShake,
         IdentifyServer, IdentifyClient, Kick, UserDisconnected, sentOut
<1>4. QED
  BY <1>1, <1>2, <1>3, OthersKeepEntries, KeepsGoesOn

(* Time passes, or nothing that matters happens. *)
LEMMA TickGoesOn ==
  ASSUME TypeOK, Tick, NEW p \in Peers
  PROVE  EntriesGoOn(p) /\ ServersGoOn /\ NotesGoOn /\ NobodyIsRedirected
<1>1. UNCHANGED <<made, standing, offered, target>>
  BY DEF Tick, sentOut
<1>2. \A q \in Peers :
        /\ myClients'[q] # None <=> myClients[q] # None
        /\ myClients[q] # None =>
             /\ Keeps(myClients'[q], myClients[q])
             /\ myClients'[q].myIsServer = myClients[q].myIsServer
             /\ myClients'[q].myIsValid = myClients[q].myIsValid
             /\ myClients'[q].myServerAddress = myClients[q].myServerAddress
  <2> TAKE q \in Peers
  <2>1. CASE myClients'[q] = myClients[q]
    BY <2>1 DEF Keeps
  <2>2. CASE /\ myClients[q] \in Connection /\ myClients'[q] \in Connection
             /\ myClients'[q] = [myClients[q] EXCEPT !.sinceRedirect = @ + 1]
    BY <2>2, NoneAssumption DEF Connection, Keeps
  <2>3. QED
    BY <2>1, <2>2, TickType
<1>3. KeepsBut(p)
  BY <1>2 DEF KeepsBut
<1>4. ServersGoOn
  BY <1>1, <1>2 DEF ServersGoOn, Peers
<1>5. QED
  BY <1>1, <1>3, <1>4, KeepsGoesOn

LEMMA IdleGoesOn ==
  ASSUME TypeOK, VisitEnds \/ WouldBlock \/ UNCHANGED vars, NEW p \in Peers
  PROVE  EntriesGoOn(p) /\ ServersGoOn /\ NotesGoOn /\ NobodyIsRedirected
<1>1. UNCHANGED <<myClients, made, standing, offered, target>>
  BY DEF VisitEnds, WouldBlock, vars, sentOut
<1>2. KeepsBut(p)
  BY <1>1 DEF KeepsBut, Keeps
<1>3. ServersGoOn
  BY <1>1, OneEntryServersGoOn
<1>4. QED
  BY <1>1, <1>2, <1>3, KeepsGoesOn

(* What BeginRedirect notes, in terms of the table it leaves behind. *)
LEMMA BeginRedirectBegins ==
  ASSUME NEW table \in Tables, NEW k \in Peers, table[k] \in Connection,
         NEW claim \in Claims(table), myClients' = BeginRedirect(table, k, claim),
         offered \in [Peers -> SUBSET Addresses],
         offered' = [offered EXCEPT ![k] = @ \union Offers(table)]
  PROVE  Begins(k, myClients'[k], table[k])
<1>1. myClients' \in Tables /\ Alike(myClients', table)
  BY BeginRedirectType, BeginRedirectAlike
<1>2. /\ \A q \in Peers : q # k => myClients'[q] = table[q]
      /\ myClients'[k].myIsValid = table[k].myIsValid
      /\ myClients'[k].myPotentialRedirectCount = Cardinality(Candidates(table))
      /\ \A a \in Addresses : myClients'[k].myEvaluations[a] =
           IF a \in Offers(table) THEN Noted(table[k].myEvaluations[a], table[claim[a]].object)
           ELSE table[k].myEvaluations[a]
  BY DEF BeginRedirect, Tables, Connection
<1>3. Candidates(myClients') = Candidates(table)
  BY <1>1, <1>2, AlikeOffers
<1>4. Offers(table) \subseteq offered'[k]
  OBVIOUS
<1>5. ASSUME NEW a \in Addresses, a \in Offers(table)
      PROVE  \E r \in Candidates(myClients') :
               /\ myClients'[r].myServerAddress = a
               /\ myClients'[k].myEvaluations[a].myConnection = myClients'[r].object
  <2>1. claim[a] \in Candidates(table) /\ table[claim[a]].myServerAddress = a
    BY <1>5 DEF Claims
  <2>2. claim[a] \in Peers /\ table[claim[a]] # None
    BY <2>1 DEF Candidates, Present, Tables
  <2>3. /\ myClients'[claim[a]].object = table[claim[a]].object
        /\ myClients'[claim[a]].myServerAddress = a
    BY <1>1, <2>1, <2>2 DEF Alike, Like
  <2>4. table[k].myEvaluations[a] \in Evaluation \union {None}
    BY <1>5 DEF Connection
  <2>5. Noted(table[k].myEvaluations[a], table[claim[a]].object).myConnection
          = table[claim[a]].object
    BY <2>4 DEF Noted, Evaluation
  <2>6. QED
    BY <1>2, <1>3, <1>5, <2>1, <2>3, <2>5
<1>6. ASSUME NEW a \in Addresses, myClients'[k].myEvaluations[a] # None
      PROVE  \/ /\ table[k].myEvaluations[a] # None
                /\ myClients'[k].myEvaluations[a].myConnection
                     = table[k].myEvaluations[a].myConnection
             \/ /\ a \in offered'[k]
                /\ \E r \in Candidates(myClients') :
                     /\ myClients'[r].myServerAddress = a
                     /\ myClients'[k].myEvaluations[a].myConnection = myClients'[r].object
  <2>1. CASE a \in Offers(table)
    BY <1>4, <1>5, <2>1
  <2>2. CASE a \notin Offers(table)
    BY <1>2, <1>6, <2>2
  <2>3. QED
    BY <2>1, <2>2
<1>7. QED
  BY <1>2, <1>3, <1>6 DEF Begins

(* The steps of a redirect: nothing, a new beginning, or the end of it. *)
Ends(table, k) ==
  /\ \E flag \in BOOLEAN : (flag => IsLate(k)) /\ Decides(table[k], flag)
  /\ Noticed(table[k]) # {}
  /\ \E a \in ReadServerAddress(table, Chosen(table[k])) : target' = [target EXCEPT ![k] = a]
  /\ UNCHANGED offered

LEMMA GoesOnOutcome ==
  ASSUME NEW table \in Tables, NEW k \in Peers, table[k] \in Connection, GoesOn(table, k),
         offered \in [Peers -> SUBSET Addresses]
  PROVE  /\ \A q \in Peers : q # k => myClients'[q] = table[q]
         /\ myClients'[k].myIsValid = table[k].myIsValid
         /\ \A q \in Peers : offered[q] \subseteq offered'[q]
         /\ \/ /\ UNCHANGED target /\ myClients'[k].myIsRedirecting = table[k].myIsRedirecting
               /\ myClients'[k].myEvaluations = table[k].myEvaluations
               /\ myClients'[k].myPotentialRedirectCount = table[k].myPotentialRedirectCount
            \/ /\ UNCHANGED target /\ myClients'[k].myIsRedirecting
               /\ Begins(k, myClients'[k], table[k])
            \/ /\ Ends(table, k)
               /\ myClients'[k].myEvaluations = table[k].myEvaluations
               /\ myClients'[k].myPotentialRedirectCount = table[k].myPotentialRedirectCount
<1>1. CASE myClients' = table /\ UNCHANGED <<offered, target>>
  BY <1>1
<1>2. CASE /\ \E claim \in Claims(table) : myClients' = BeginRedirect(table, k, claim)
           /\ offered' = [offered EXCEPT ![k] = @ \union Offers(table)]
           /\ UNCHANGED target
  <2>1. Begins(k, myClients'[k], table[k])
    BY <1>2, BeginRedirectBegins
  <2>2. /\ \A q \in Peers : q # k => myClients'[q] = table[q]
        /\ myClients'[k].myIsValid = table[k].myIsValid /\ myClients'[k].myIsRedirecting
    BY <1>2 DEF BeginRedirect, Tables, Connection
  <2>3. \A q \in Peers : offered[q] \subseteq offered'[q]
    BY <1>2
  <2>4. QED
    BY <1>2, <2>1, <2>2, <2>3
<1>3. ASSUME NEW flag \in BOOLEAN, flag => IsLate(k), Decides(table[k], flag),
             Noticed(table[k]) # {},
             \E a \in ReadServerAddress(table,
                        table[k].myEvaluations[Best(table[k])].myConnection) :
                target' = [target EXCEPT ![k] = a],
             myClients' = [table EXCEPT ![k].myIsRedirecting = FALSE, ![k].sinceRedirect = 0],
             UNCHANGED offered
      PROVE  /\ \A q \in Peers : q # k => myClients'[q] = table[q]
             /\ myClients'[k].myIsValid = table[k].myIsValid
             /\ \A q \in Peers : offered[q] \subseteq offered'[q]
             /\ Ends(table, k)
             /\ myClients'[k].myEvaluations = table[k].myEvaluations
             /\ myClients'[k].myPotentialRedirectCount = table[k].myPotentialRedirectCount
  <2>1. Ends(table, k)
    BY <1>3 DEF Ends, Chosen
  <2>2. QED
    BY <1>3, <2>1 DEF Tables, Connection
<1>4. CASE \E flag \in BOOLEAN : (flag => IsLate(k)) /\ EvaluateRedirectResult(table, k, flag)
  <2>1. PICK flag \in BOOLEAN : (flag => IsLate(k)) /\ EvaluateRedirectResult(table, k, flag)
    BY <1>4
  <2>2. \/ myClients' = table /\ UNCHANGED <<offered, target>>
        \/ /\ Decides(table[k], flag) /\ Noticed(table[k]) # {}
           /\ \E a \in ReadServerAddress(table,
                         table[k].myEvaluations[Best(table[k])].myConnection) :
                target' = [target EXCEPT ![k] = a]
           /\ myClients' = [table EXCEPT ![k].myIsRedirecting = FALSE, ![k].sinceRedirect = 0]
           /\ UNCHANGED offered
        \/ /\ \E claim \in Claims(table) : myClients' = BeginRedirect(table, k, claim)
           /\ offered' = [offered EXCEPT ![k] = @ \union Offers(table)]
           /\ UNCHANGED target
    BY <2>1 DEF EvaluateRedirectResult
  <2>3. QED
    BY <1>1, <1>2, <1>3, <2>1, <2>2
<1>5. QED
  BY <1>1, <1>2, <1>4 DEF GoesOn

LEMMA RedirectingGoesOnToo ==
  ASSUME TypeOK, NEW k \in Peers, Redirecting(k)
  PROVE  EntriesGoOn(k) /\ ServersGoOn /\ NotesGoOn
<1>1. PICK table \in Tables :
        /\ table[k] \in Connection /\ Alike(table, myClients)
        /\ SameNotes(table, myClients) /\ Lasts(table) /\ GoesOn(table, k)
  BY RedirectingGoesOn
<1>2. /\ TypeOK' /\ Alike(myClients', myClients) /\ Alike(myClients', table)
      /\ offered \in [Peers -> SUBSET Addresses]
  BY <1>1, RedirectingType, GoesOnType DEF TypeOK
<1>3. made' = made
  BY DEF Redirecting, Flush, AckIdentify, EvaluatedServer
<1>4. EntriesGoOn(k)
  BY <1>2, <1>3 DEF EntriesGoOn, Alike, Like
<1>5. \A q \in Peers : myClients'[q].myIsValid = table[q].myIsValid
  BY <1>1, <1>2, GoesOnOutcome
<1>6. ServersGoOn
  <2>1. \A o \in Objects : standing'[o] \in {standing[o], "lapsed"}
    BY DEF Redirecting, Flush, AckIdentify, EvaluatedServer, Lapses, TypeOK
  <2>2. ASSUME NEW q \in Servers, myClients[q] # None, myClients[q].myIsValid
        PROVE  /\ myClients'[q] # None
               /\ myClients'[q].myIsValid \/ standing'[myClients[q].object] = "lapsed"
               /\ myClients'[q].myIsServer = myClients[q].myIsServer
               /\ myClients'[q].myServerAddress = myClients[q].myServerAddress
    BY <1>1, <1>2, <1>5, <2>2 DEF Lasts, Alike, Like, Peers
  <2>3. QED
    BY <2>1, <2>2 DEF ServersGoOn
<1>7. NotesGoOn
  <2> SUFFICES ASSUME NEW q \in Peers, myClients'[q] # None
               PROVE  /\ myClients[q] # None
                      /\ \/ HasSameNotes(myClients'[q], myClients[q])
                         \/ Begins(q, myClients'[q], myClients[q])
    BY <1>1, <1>2, GoesOnOutcome DEF NotesGoOn
  <2>1. myClients[q] # None
    BY <1>2 DEF Alike
  <2>2. HasSameNotes(table[q], myClients[q])
    <3>1. \E a \in Addresses : TRUE
      BY DEF Addresses
    <3>2. QED
      BY <1>1, <2>1, <3>1 DEF SameNotes, HasSameNotes
  <2>3. CASE q # k
    <3>1. myClients'[q] = table[q]
      BY <1>1, <1>2, <2>3, GoesOnOutcome
    <3>2. QED
      BY <2>1, <2>2, <3>1
  <2>4. CASE q = k /\ Begins(k, myClients'[k], table[k])
    <3>1. Begins(k, myClients'[k], myClients[k])
      BY <2>2, <2>4 DEF Begins, HasSameNotes
    <3>2. QED
      BY <2>1, <2>4, <3>1
  <2>5. CASE /\ q = k /\ myClients'[k].myEvaluations = table[k].myEvaluations
             /\ myClients'[k].myPotentialRedirectCount = table[k].myPotentialRedirectCount
    BY <2>1, <2>2, <2>5 DEF HasSameNotes
  <2>6. QED
    BY <1>1, <1>2, <2>3, <2>4, <2>5, GoesOnOutcome
<1>8. QED
  BY <1>4, <1>6, <1>7

-----------------------------------------------------------------------------
(* Where the end of a redirect sends the client.                           *)

(* Two connections with the same evaluations choose the same. *)
LEMMA ChoiceIsByEvaluations ==
  ASSUME NEW c, NEW d, c.myEvaluations = d.myEvaluations
  PROVE  /\ Noticed(c) = Noticed(d) /\ Answered(c) = Answered(d)
         /\ Best(c) = Best(d) /\ Chosen(c) = Chosen(d)
<1>1. Noticed(c) = Noticed(d)
  BY DEF Noticed
<1>2. Best(c) = Best(d)
  BY <1>1 DEF Best
<1>3. QED
  BY <1>1, <1>2 DEF Answered, Chosen

LEMMA NobodyIsRedirectedWell ==
  ASSUME NobodyIsRedirected
  PROVE  RedirectsToConnected /\ RedirectsToNearest
  BY DEF NobodyIsRedirected, RedirectsToConnected, RedirectsToNearest, IsRedirected

(* What is read through the pointer to a server that has stood: its address. *)
LEMMA StandingIsRead ==
  ASSUME TypeOK, RedirectInv, NEW table \in Tables, Alike(table, myClients),
         NEW object, standing[object] = "server", object \in Objects
  PROVE  \E q \in Servers : /\ IsServerNow(q) /\ myClients[q].object = object
                            /\ ReadServerAddress(table, object) = {q}
<1>1. PICK q \in Servers : IsServerNow(q) /\ myClients[q].object = object
  BY DEF RedirectInv, ServersStand
<1>2. q \in Peers /\ myClients[q] # None /\ object # 0
  BY <1>1 DEF Peers, IsServerNow, RedirectInv, ObjectsAreApart
<1>3. Present(table) = Present(myClients) /\ Present(table) \subseteq Peers
  BY DEF Alike, Present, Tables, TypeOK
<1>4. \A r \in Present(table) :
        /\ r \in Peers /\ myClients[r] # None /\ table[r].object = myClients[r].object
        /\ table[r].myServerAddress = myClients[r].myServerAddress
  BY <1>3 DEF Alike, Like, Present
<1>5. q \in Present(table)
  BY <1>2, <1>3 DEF Present, TypeOK
<1>6. {r \in Present(table) : table[r].object = object} = {q}
  BY <1>1, <1>2, <1>4, <1>5 DEF RedirectInv, ObjectsAreApart
<1>7. table[q].myServerAddress = q
  BY <1>1, <1>4, <1>5 DEF IsServerNow
<1>8. ReadServerAddress(table, object) = {q}
  BY <1>6, <1>7 DEF ReadServerAddress
<1>9. QED
  BY <1>1, <1>8

(* All notes are answered, where so many answers as live notes are there. *)
LEMMA SoundNotesAreAnswered ==
  ASSUME TypeOK, RedirectInv, NEW k \in Peers, myClients[k] # None, NEW c \in Connection,
         HasSameNotes(c, myClients[k]), \A a \in Noticed(c) : IsSound(c, a), Noticed(c) # {},
         Cardinality(Answered(c)) >= c.myPotentialRedirectCount
  PROVE  Answered(c) = Noticed(c)
<1>1. Noticed(c) = LiveNotes(k)
  <2>1. ASSUME NEW a \in Noticed(c) PROVE a \in LiveNotes(k)
    BY <2>1 DEF Noticed, IsSound, HasSameNotes, LiveNotes, IsLive
  <2>2. ASSUME NEW a \in LiveNotes(k) PROVE a \in Noticed(c)
    BY <2>2 DEF Noticed, HasSameNotes, LiveNotes, IsLive, Addresses, Peers
  <2>3. QED
    BY <2>1, <2>2
<1>2. Cardinality(LiveNotes(k)) <= myClients[k].myPotentialRedirectCount
  BY <1>1 DEF RedirectInv, CountsCoverNotes
<1>3. c.myPotentialRedirectCount = myClients[k].myPotentialRedirectCount
  BY DEF HasSameNotes
<1>4. IsFiniteSet(Noticed(c)) /\ Answered(c) \subseteq Noticed(c)
  <2>1. Noticed(c) \subseteq Peers
    BY <1>1 DEF LiveNotes, Peers
  <2>2. QED
    BY <2>1, PeersAssumption, FS_Subset DEF Answered
<1>5. /\ Cardinality(Answered(c)) <= Cardinality(Noticed(c))
      /\ Cardinality(Answered(c)) = Cardinality(Noticed(c)) => Answered(c) = Noticed(c)
      /\ Cardinality(Answered(c)) \in Nat /\ Cardinality(Noticed(c)) \in Nat
  BY <1>4, FS_Subset, FS_CardinalityType
<1>6. c.myPotentialRedirectCount \in Int
  BY DEF Connection
<1>7. QED
  BY <1>1, <1>2, <1>3, <1>5, <1>6

LEMMA RedirectingRedirectsWell ==
  ASSUME TypeOK, RedirectInv, NEW k \in Peers, Redirecting(k)
  PROVE  RedirectsToConnected /\ RedirectsToNearest
<1>1. PICK table \in Tables :
        /\ table[k] \in Connection /\ Alike(table, myClients)
        /\ SameNotes(table, myClients) /\ Lasts(table) /\ GoesOn(table, k)
  BY RedirectingGoesOn
<1>2. /\ TypeOK' /\ Alike(myClients', myClients)
      /\ offered \in [Peers -> SUBSET Addresses] /\ target \in [Peers -> Addresses \union {None}]
  BY RedirectingType DEF TypeOK
<1>3. /\ \A q \in Peers : q # k => myClients'[q] = table[q]
      /\ \A q \in Peers : offered[q] \subseteq offered'[q]
  BY <1>1, <1>2, GoesOnOutcome
<1>4. myClients[k] # None /\ HasSameNotes(table[k], myClients[k])
  <2>1. myClients[k] # None /\ \E a \in Addresses : TRUE
    BY <1>1, NoneAssumption DEF Alike, Addresses
  <2>2. QED
    BY <1>1, <2>1 DEF SameNotes, HasSameNotes
<1>5. \A q \in Peers : myClients[q] # None =>
        table[q].myIsRedirecting = myClients[q].myIsRedirecting
  <2>1. \E a \in Addresses : TRUE
    BY DEF Addresses
  <2>2. QED
    BY <1>1, <2>1 DEF SameNotes
<1>6. \A q \in Peers : q # k /\ IsRedirecting(q) /\ myClients'[q] # None => IsRedirecting(q)'
  BY <1>3, <1>5 DEF IsRedirecting
<1>7. CASE UNCHANGED target /\ (IsRedirecting(k) => myClients'[k].myIsRedirecting)
  <2>1. NobodyIsRedirected
    BY <1>6, <1>7 DEF NobodyIsRedirected, IsRedirecting
  <2>2. QED
    BY <2>1, NobodyIsRedirectedWell
<1>8. CASE /\ Ends(table, k) /\ myClients'[k].myEvaluations = table[k].myEvaluations
           /\ myClients'[k].myPotentialRedirectCount = table[k].myPotentialRedirectCount
  <2> DEFINE c == myClients'[k]
             b == Best(table[k])
  <2>1. /\ Noticed(c) = Noticed(table[k]) /\ Answered(c) = Answered(table[k])
        /\ Best(c) = b /\ Chosen(c) = Chosen(table[k])
    BY <1>8, ChoiceIsByEvaluations
  <2>2. /\ b \in Noticed(c)
        /\ \A a \in Noticed(c) : c.myEvaluations[b].myPing <= c.myEvaluations[a].myPing
    BY <1>1, <1>8, <2>1, BestIsNoticed DEF Ends
  <2>3. Chosen(c) = table[k].myEvaluations[b].myConnection /\ Chosen(c) \in Objects
    <3>1. table[k].myEvaluations[b] \in Evaluation
      BY <1>1, <2>1, <2>2 DEF Noticed, Connection
    <3>2. QED
      BY <2>1, <3>1 DEF Chosen, Evaluation
  <2>4. PICK a \in ReadServerAddress(table, Chosen(c)) : target' = [target EXCEPT ![k] = a]
    BY <1>8, <2>1 DEF Ends
  <2>5. \A p \in Peers : IsRedirected(p) => p = k
    BY <1>2, <1>6, <2>4 DEF IsRedirected
  <2>6. target'[k] = a
    BY <1>2, <2>4
  <2>7. IsRedirecting(k) => myClients'[k] # None
    BY <1>2, <1>4 DEF Alike
  <2> HIDE DEF c, b
  <2>8. standing[Chosen(c)] = "server" =>
          /\ a \in Servers /\ IsServerNow(a) /\ myClients[a].object = Chosen(c)
    BY <1>1, <2>3, <2>4, StandingIsRead
  <2>9. RedirectsToConnected
    <3>1. standing[Chosen(c)] = "server" => IsConnectedServer(a)
      BY <2>8 DEF IsServerNow, IsConnectedServer, Peers
    <3>2. QED
      BY <2>5, <2>6, <3>1 DEF RedirectsToConnected, c
  <2>10. ASSUME \A n \in Noticed(c) : IsSound(c, n) PROVE GoesToBest(k, c)
    <3>1. /\ b \in Servers /\ myClients[b] # None /\ standing[myClients[b].object] = "server"
          /\ c.myEvaluations[b].myConnection = myClients[b].object
      BY <2>2, <2>10 DEF IsSound
    <3>2. Chosen(c) = myClients[b].object
      BY <2>1, <3>1 DEF Chosen
    <3>3. a = b
      <4>1. /\ a \in Peers /\ b \in Peers /\ myClients[a] # None
            /\ myClients[a].object = myClients[b].object /\ myClients[a].object # 0
        BY <2>8, <3>1, <3>2 DEF IsServerNow, Peers, RedirectInv, ObjectsAreApart
      <4>2. QED
        BY <3>1, <4>1 DEF RedirectInv, ObjectsAreApart
    <3>4. b \in offered[k]
      BY <1>4, <2>1, <2>2 DEF Noticed, HasSameNotes, RedirectInv, NotesAreOffered
    <3>5. Answered(c) = Noticed(c) \/ IsLate(k)
      <4>1. PICK flag \in BOOLEAN : (flag => IsLate(k)) /\ Decides(table[k], flag)
        BY <1>8 DEF Ends
      <4>2. CASE flag
        BY <4>1, <4>2
      <4>3. CASE ~flag
        <5>1. Cardinality(Answered(table[k])) >= table[k].myPotentialRedirectCount
          BY <4>1, <4>3 DEF Decides
        <5>2. \A n \in Noticed(table[k]) : IsSound(table[k], n)
          BY <1>8, <2>1, <2>10 DEF IsSound, c
        <5>3. Noticed(table[k]) # {}
          BY <1>8 DEF Ends
        <5>4. Answered(table[k]) = Noticed(table[k])
          BY <1>1, <1>4, <5>1, <5>2, <5>3, SoundNotesAreAnswered
        <5>5. QED
          BY <2>1, <5>4
      <4>4. QED
        BY <4>2, <4>3
    <3>6. QED
      BY <2>2, <2>6, <3>3, <3>4, <3>5 DEF GoesToBest
  <2>11. RedirectsToNearest
    BY <2>5, <2>10 DEF RedirectsToNearest, c
  <2>12. QED
    BY <2>9, <2>11
<1>9. QED
  BY <1>1, <1>2, <1>4, <1>5, <1>7, <1>8, GoesOnOutcome DEF IsRedirecting

LEMMA NextRedirectInv ==
  ASSUME IInv, RedirectInv, [Next]_vars
  PROVE  RedirectInv' /\ RedirectsToConnected /\ RedirectsToNearest
<1>1. TypeOK /\ TypeOK'
  BY NextIInv DEF IInv
<1>2. ASSUME NEW p \in Peers, EntriesGoOn(p), ServersGoOn, NotesGoOn, NobodyIsRedirected
      PROVE  RedirectInv' /\ RedirectsToConnected /\ RedirectsToNearest
  BY <1>1, <1>2, StepKeepsRedirects, NobodyIsRedirectedWell
<1>3. ASSUME NEW p \in Peers, Redirecting(p)
      PROVE  RedirectInv' /\ RedirectsToConnected /\ RedirectsToNearest
  BY <1>1, <1>3, RedirectingGoesOnToo, RedirectingRedirectsWell, StepKeepsRedirects
<1>4. ASSUME NEW p \in Peers,
             \/ Reap(p) \/ ReceiveError(p) \/ ReceiveAtDefaultEntry(p)
             \/ ReceiveSetup(p) \/ RefuseHandShake(p) \/ IdentifyServer(p) \/ IdentifyClient(p)
             \/ Kick(p) \/ \E id \in Ids : UserDisconnected(p, id)
      PROVE  RedirectInv' /\ RedirectsToConnected /\ RedirectsToNearest
  BY <1>1, <1>2, <1>4, OthersGoOn
<1>5. CASE Tick \/ VisitEnds \/ WouldBlock \/ UNCHANGED vars
  <2>1. PICK p \in Peers : TRUE
    BY PeersAssumption
  <2>2. QED
    BY <1>1, <1>2, <1>5, TickGoesOn, IdleGoesOn
<1>6. QED
  BY <1>3, <1>4, <1>5 DEF Next, Visit, Receive, Redirecting

LEMMA InitRedirectInv == Init => RedirectInv
  BY DEF Init, RedirectInv, ObjectsAreApart, ServersStand, NotesAreOffered, NotesOfServers,
         CountsCoverNotes

(***************************************************************************)
(* A client is redirected to a game server that is connected, unless the   *)
(* Connection that is chosen has been given up since it was noted, or was  *)
(* noted for a flag nobody had set: whoever times out, is kicked, reaped   *)
(* or made again, and whatever memory holds                                *)
(* (TRedirectServer/Connection.cpp:16-26, 243-309).                        *)
(***************************************************************************)
THEOREM RedirectTargetConnectedHolds == Spec => RedirectTargetConnected
<1>1. IInv /\ RedirectInv /\ [Next]_vars => RedirectInv'
  BY NextRedirectInv
<1>2. IInv /\ RedirectInv /\ [Next]_vars => [RedirectsToConnected]_vars
  BY NextRedirectInv
<1>3. QED
  BY <1>1, <1>2, InitRedirectInv, IInvHolds, PTL DEF Spec, RedirectTargetConnected

(***************************************************************************)
(* A client whose notes are of game servers that identified themselves and *)
(* stayed goes to one it was offered, with the smallest ping of them, all  *)
(* of them measured unless the redirect is late, though the map of notes   *)
(* outlives redirects and the count is of the last one                     *)
(* (TRedirectServer/Connection.cpp:243-309).                               *)
(***************************************************************************)
THEOREM RedirectIsToNearestHolds == Spec => RedirectIsToNearest
<1>1. IInv /\ RedirectInv /\ [Next]_vars => RedirectInv'
  BY NextRedirectInv
<1>2. IInv /\ RedirectInv /\ [Next]_vars => [RedirectsToNearest]_vars
  BY NextRedirectInv
<1>3. QED
  BY <1>1, <1>2, InitRedirectInv, IInvHolds, PTL DEF Spec, RedirectIsToNearest

=============================================================================
