-------------------------- MODULE NetworkInterface --------------------------
(***************************************************************************)
(* TShared/NetworkInterface.cpp: the reliability layer under every client, *)
(* game server and router connection.  An interface resends each tracked   *)
(* message until it is acknowledged, acknowledges everything it hears, and *)
(* drops what it heard less than MESSAGEDUPLICATIONTIMEOUT ago.            *)
(*                                                                         *)
(* One element of Interfaces is one NetworkInterface object: the client's, *)
(* the game server's upstream one, or one Connection of a server.  An      *)
(* element of Messages stands for the bytes of one message, so Src[m] and  *)
(* Id[m] (myNetMessageID, a counter of the sending process) determine it,  *)
(* and so does the pair (id, hash) that a NetPackResponse carries.         *)
(*                                                                         *)
(* Time is a count of Tick steps; ages saturate one tick past the largest  *)
(* value the code compares them with.                                      *)
(***************************************************************************)
EXTENDS Integers, FiniteSets, SequencesExt

CONSTANTS
  Interfaces,          \* the NetworkInterface objects
  Messages,            \* the messages they exchange
  Src, Dst, Id,        \* [Messages -> ...] sender, receiver, myNetMessageID
  Hooked,              \* messages sent with HookCallBack
  Invalidated,         \* interfaces whose owner may call Clear: a server's
                       \* Connection does, the client and the upstream do not
  ResendTimer,         \* RESENDTIMER, in ticks
  DuplicationTimeout,  \* MESSAGEDUPLICATIONTIMEOUT, in ticks
  ResendCap,           \* RESENDCAP
  CharMin, CharMax,    \* the range of the char that holds sentCount
  SendCap,             \* how often one message may be given to the interface
  Duplicates,          \* TRUE: the network may deliver a datagram repeatedly
  Prompt               \* TRUE: no time passes while a Flush has work to do
                       \* or a datagram is under way

ASSUME MessagesAssumption ==
  /\ Src \in [Messages -> Interfaces]
  /\ Dst \in [Messages -> Interfaces]
  /\ \A m, n \in Messages : Src[m] = Src[n] /\ Id[m] = Id[n] => m = n
  /\ Hooked \subseteq Messages
  /\ Invalidated \subseteq Interfaces

ASSUME TimingAssumption ==
  /\ ResendTimer \in Nat
  /\ DuplicationTimeout \in Nat
  /\ ResendCap \in Nat
  /\ CharMin \in Int /\ CharMin <= 0
  /\ CharMax \in Int /\ ResendCap < CharMax
  /\ SendCap \in Nat
  /\ Duplicates \in BOOLEAN /\ Prompt \in BOOLEAN

VARIABLES
  myPendingAccepts,    \* [Interfaces -> sequence of trackers]
  myRecentMesseges,    \* [Interfaces -> sequence of ids with their age]
  myCallbacks,         \* messages whose callback is hooked at Src
  data,                \* datagrams in flight, by the message they carry
  acks,                \* NetPackResponses in flight, by the message they name
  sends,               \* how often each message was given to the interface
  timedOut             \* interfaces on which TimedOut() was called

(***************************************************************************)
(* History, read only by properties: handed counts (to 2) how often        *)
(* PreProcessReceive returned true for a message, confirmed holds those    *)
(* whose tracker an acknowledgement removed, fired counts callback runs,   *)
(* quiet is the age of the last arrival at the receiver since its last     *)
(* Clear.                                                                  *)
(***************************************************************************)
VARIABLES handed, confirmed, fired, quiet

history == <<handed, confirmed, fired, quiet>>
vars == <<myPendingAccepts, myRecentMesseges, myCallbacks, data, acks, sends,
          timedOut, history>>

SendAges == 0 .. ResendTimer + 1
HeardAges == 0 .. DuplicationTimeout + 1
Forgotten == DuplicationTimeout + 1

Ids == {Id[m] : m \in Messages}
Tracker == [msg : Messages, lastSent : SendAges, sentCount : CharMin .. CharMax]
Heard == [id : Ids, age : HeardAges]

TypeOK ==
  /\ myPendingAccepts \in [Interfaces -> Seq(Tracker)]
  /\ myRecentMesseges \in [Interfaces -> Seq(Heard)]
  /\ myCallbacks \subseteq Hooked
  /\ data \subseteq Messages
  /\ acks \subseteq Messages
  /\ sends \in [Messages -> 0 .. SendCap]
  /\ timedOut \subseteq Interfaces
  /\ handed \in [Messages -> 0 .. 2]
  /\ confirmed \subseteq Messages
  /\ fired \in [Messages -> Nat]
  /\ quiet \in [Messages -> HeardAges]

Init ==
  /\ myPendingAccepts = [i \in Interfaces |-> <<>>]
  /\ myRecentMesseges = [i \in Interfaces |-> <<>>]
  /\ myCallbacks = {}
  /\ data = {}
  /\ acks = {}
  /\ sends = [m \in Messages |-> 0]
  /\ timedOut = {}
  /\ handed = [m \in Messages |-> 0]
  /\ confirmed = {}
  /\ fired = [m \in Messages |-> 0]
  /\ quiet = [m \in Messages |-> Forgotten]

-----------------------------------------------------------------------------
(* Sending.                                                                *)

NewTracker(m) == [msg |-> m, lastSent |-> 0, sentCount |-> 0]

(***************************************************************************)
(* PreProcessAndSend of an important message (every type but the           *)
(* acknowledgement is).  A caller that wants a callback hooks it just      *)
(* before; a handshake that was rejected sends the same message again,     *)
(* which adds a second tracker for the same id.                            *)
(***************************************************************************)
PreProcessAndSend(m) ==
  /\ sends[m] < SendCap
  /\ sends' = [sends EXCEPT ![m] = @ + 1]
  /\ myPendingAccepts' =
       [myPendingAccepts EXCEPT ![Src[m]] = Append(@, NewTracker(m))]
  /\ myCallbacks' = IF m \in Hooked /\ sends[m] = 0
                    THEN myCallbacks \union {m} ELSE myCallbacks
  /\ data' = data \union {m}
  /\ UNCHANGED <<myRecentMesseges, acks, timedOut, history>>

-----------------------------------------------------------------------------
(* Receiving.                                                              *)

Remembers(i, id) == \E k \in DOMAIN myRecentMesseges[i] : myRecentMesseges[i][k].id = id

(* What the network does with a datagram it has delivered. *)
Consumed(m, flight) == IF Duplicates THEN flight ELSE flight \ {m}

More(n) == IF n < 2 THEN n + 1 ELSE n

(***************************************************************************)
(* The receiving half of PreProcessReceive for an id that is not in        *)
(* myRecentMesseges: remember it, acknowledge it, return true.             *)
(***************************************************************************)
Accept(m) ==
  LET i == Dst[m] IN
  /\ m \in data
  /\ ~Remembers(i, Id[m])
  /\ myRecentMesseges' =
       [myRecentMesseges EXCEPT ![i] = Append(@, [id |-> Id[m], age |-> 0])]
  /\ data' = Consumed(m, data)
  /\ acks' = acks \union {m}
  /\ handed' = [handed EXCEPT ![m] = More(@)]
  /\ quiet' = [quiet EXCEPT ![m] = 0]
  /\ UNCHANGED <<myPendingAccepts, myCallbacks, sends, timedOut, confirmed, fired>>

(* Mutant: the time of the entry is not renewed. *)
RefreshKeepsTime(r, k) == Append(RemoveAt(r, k), r[k])

(* Mutant: the entry is renewed where it stands. *)
RefreshInPlace(r, k) == [r EXCEPT ![k].age = 0]

(* The refreshed entry goes to the back, which keeps the oldest in front. *)
Refresh(r, k) == Append(RemoveAt(r, k), [id |-> r[k].id, age |-> 0])

(* Mutant: a duplicate is dropped without a new acknowledgement. *)
RejectSilently(m) ==
  LET i == Dst[m]
      r == myRecentMesseges[i] IN
  /\ m \in data
  /\ \E k \in DOMAIN r :
       /\ r[k].id = Id[m]
       /\ myRecentMesseges' = [myRecentMesseges EXCEPT ![i] = Refresh(r, k)]
  /\ data' = Consumed(m, data)
  /\ quiet' = [quiet EXCEPT ![m] = 0]
  /\ UNCHANGED <<myPendingAccepts, myCallbacks, acks, sends, timedOut,
                 handed, confirmed, fired>>

(* Mutant: the ids are not compared. *)
RejectAny(m) ==
  LET i == Dst[m]
      r == myRecentMesseges[i] IN
  /\ m \in data
  /\ \E k \in DOMAIN r : myRecentMesseges' = [myRecentMesseges EXCEPT ![i] = Refresh(r, k)]
  /\ data' = Consumed(m, data)
  /\ acks' = acks \union {m}
  /\ quiet' = [quiet EXCEPT ![m] = 0]
  /\ UNCHANGED <<myPendingAccepts, myCallbacks, sends, timedOut,
                 handed, confirmed, fired>>

(***************************************************************************)
(* The same for an id that is remembered: the first entry with that id is  *)
(* refreshed, the message is acknowledged again and consumed.              *)
(***************************************************************************)
RejectDuplicate(m) ==
  LET i == Dst[m]
      r == myRecentMesseges[i] IN
  /\ m \in data
  /\ \E k \in DOMAIN r :
       /\ r[k].id = Id[m]
       /\ \A j \in 1 .. k - 1 : r[j].id # Id[m]
       /\ myRecentMesseges' = [myRecentMesseges EXCEPT ![i] = Refresh(r, k)]
  /\ data' = Consumed(m, data)
  /\ acks' = acks \union {m}
  /\ quiet' = [quiet EXCEPT ![m] = 0]
  /\ UNCHANGED <<myPendingAccepts, myCallbacks, sends, timedOut,
                 handed, confirmed, fired>>

(* Mutant: the first tracker goes, whatever its id and hash. *)
AckFirst(m) ==
  LET i == Src[m]
      p == myPendingAccepts[i] IN
  /\ m \in acks
  /\ p # <<>>
  /\ myPendingAccepts' = [myPendingAccepts EXCEPT ![i] = RemoveAt(p, 1)]
  /\ acks' = Consumed(m, acks)
  /\ confirmed' = confirmed \union {p[1].msg}
  /\ UNCHANGED <<myRecentMesseges, myCallbacks, data, sends, timedOut,
                 handed, fired, quiet>>

(* Mutant: the callback stays hooked after it has run. *)
AckKeepsCallback(m) ==
  LET i == Src[m]
      p == myPendingAccepts[i] IN
  /\ m \in acks
  /\ \E k \in DOMAIN p :
       /\ p[k].msg = m
       /\ myPendingAccepts' = [myPendingAccepts EXCEPT ![i] = RemoveAt(p, k)]
  /\ acks' = Consumed(m, acks)
  /\ confirmed' = confirmed \union {m}
  /\ fired' = IF m \in myCallbacks THEN [fired EXCEPT ![m] = @ + 1] ELSE fired
  /\ UNCHANGED <<myRecentMesseges, myCallbacks, data, sends, timedOut, handed, quiet>>

(***************************************************************************)
(* The acknowledgement half of PreProcessReceive: the first tracker with   *)
(* that id and hash goes, and its callback runs and is unhooked.           *)
(***************************************************************************)
AckTracked(m) ==
  LET i == Src[m]
      p == myPendingAccepts[i] IN
  /\ m \in acks
  /\ \E k \in DOMAIN p :
       /\ p[k].msg = m
       /\ \A j \in 1 .. k - 1 : p[j].msg # m
       /\ myPendingAccepts' = [myPendingAccepts EXCEPT ![i] = RemoveAt(p, k)]
  /\ acks' = Consumed(m, acks)
  /\ confirmed' = confirmed \union {m}
  /\ fired' = IF m \in myCallbacks THEN [fired EXCEPT ![m] = @ + 1] ELSE fired
  /\ myCallbacks' = myCallbacks \ {m}
  /\ UNCHANGED <<myRecentMesseges, data, sends, timedOut, handed, quiet>>

(* An acknowledgement that matches no tracker is consumed and changes nothing. *)
AckUnknown(m) ==
  /\ m \in acks
  /\ \A k \in DOMAIN myPendingAccepts[Src[m]] : myPendingAccepts[Src[m]][k].msg # m
  /\ acks' = acks \ {m}
  /\ UNCHANGED <<myPendingAccepts, myRecentMesseges, myCallbacks, data, sends,
                 timedOut, history>>

-----------------------------------------------------------------------------
(* Timers.                                                                 *)

IsDue(tracker) == tracker.lastSent > ResendTimer

(* Mutant: an entry goes one tick early. *)
IsExpiredEarly(entry) == entry.age >= DuplicationTimeout
IsExpired(entry) == entry.age > DuplicationTimeout

(* Mutants: the counter leaves its type; the counter is never advanced. *)
CharOverflow(n) == n + 1
CharStuck(n) == n

(* sentCount++ on a char: the value after the largest is the smallest. *)
CharIncrement(n) == IF n = CharMax THEN CharMin ELSE n + 1

Resend(tracker) ==
  IF IsDue(tracker)
  THEN [msg |-> tracker.msg, lastSent |-> 0,
        sentCount |-> CharIncrement(tracker.sentCount)]
  ELSE tracker

(* How many entries the loop at the end of Flush pops: all expired ones in front. *)
IsExpiredPrefix(r, n) ==
  /\ \A k \in 1 .. n : IsExpired(r[k])
  /\ n < Len(r) => ~IsExpired(r[n + 1])

(* Every due tracker is sent again, and those over the cap report TimedOut. *)
Flush(i) ==
  LET p == myPendingAccepts[i]
      r == myRecentMesseges[i]
      due == {k \in DOMAIN p : IsDue(p[k])} IN
  /\ myPendingAccepts' =
       [myPendingAccepts EXCEPT ![i] = [k \in 1 .. Len(p) |-> Resend(p[k])]]
  /\ data' = data \union {p[k].msg : k \in due}
  /\ timedOut' = IF \E k \in due : p[k].sentCount > ResendCap
                 THEN timedOut \union {i} ELSE timedOut
  /\ \E n \in 0 .. Len(r) :
       /\ IsExpiredPrefix(r, n)
       /\ myRecentMesseges' =
            [myRecentMesseges EXCEPT ![i] = SubSeq(r, n + 1, Len(r))]
  /\ UNCHANGED <<myCallbacks, acks, sends, history>>

(* Clear leaves the hooked callbacks in place. *)
Clear(i) ==
  /\ myPendingAccepts' = [myPendingAccepts EXCEPT ![i] = <<>>]
  /\ myRecentMesseges' = [myRecentMesseges EXCEPT ![i] = <<>>]
  /\ quiet' = [m \in Messages |-> IF Dst[m] = i THEN Forgotten ELSE quiet[m]]
  /\ UNCHANGED <<myCallbacks, data, acks, sends, timedOut, handed, confirmed, fired>>

HasWork(i) ==
  \/ \E k \in DOMAIN myPendingAccepts[i] : IsDue(myPendingAccepts[i][k])
  \/ Len(myRecentMesseges[i]) > 0 /\ IsExpired(myRecentMesseges[i][1])

Older(age, last) == IF age < last THEN age + 1 ELSE last

OlderTracker(tracker) ==
  [msg |-> tracker.msg, lastSent |-> Older(tracker.lastSent, ResendTimer + 1),
   sentCount |-> tracker.sentCount]

OlderEntry(entry) == [id |-> entry.id, age |-> Older(entry.age, Forgotten)]

Tick ==
  /\ Prompt => /\ \A i \in Interfaces : ~HasWork(i)
               /\ data = {} /\ acks = {}
  /\ myPendingAccepts' =
       [i \in Interfaces |->
          [k \in 1 .. Len(myPendingAccepts[i]) |-> OlderTracker(myPendingAccepts[i][k])]]
  /\ myRecentMesseges' =
       [i \in Interfaces |->
          [k \in 1 .. Len(myRecentMesseges[i]) |-> OlderEntry(myRecentMesseges[i][k])]]
  /\ quiet' = [m \in Messages |-> Older(quiet[m], Forgotten)]
  /\ UNCHANGED <<myCallbacks, data, acks, sends, timedOut, handed, confirmed, fired>>

-----------------------------------------------------------------------------
(* The network.                                                            *)

LoseData(m) ==
  /\ m \in data
  /\ data' = data \ {m}
  /\ UNCHANGED <<myPendingAccepts, myRecentMesseges, myCallbacks, acks, sends,
                 timedOut, history>>

LoseAck(m) ==
  /\ m \in acks
  /\ acks' = acks \ {m}
  /\ UNCHANGED <<myPendingAccepts, myRecentMesseges, myCallbacks, data, sends,
                 timedOut, history>>

Next ==
  \/ \E m \in Messages :
       \/ PreProcessAndSend(m)
       \/ Accept(m) \/ RejectDuplicate(m)
       \/ AckTracked(m) \/ AckUnknown(m)
       \/ LoseData(m) \/ LoseAck(m)
  \/ \E i \in Interfaces : Flush(i)
  \/ \E i \in Invalidated : Clear(i)
  \/ Tick

Spec == Init /\ [][Next]_vars

-----------------------------------------------------------------------------
(* Fairness.  Every process runs its loop for ever and its clock advances. *)
(* Timers asks nothing of the network; Delivers, an assumption of one      *)
(* property only, asks that a datagram sent again and again gets through   *)
(* again and again.                                                        *)

Timers == WF_vars(Tick) /\ \A i \in Interfaces : WF_vars(Flush(i))

Delivers ==
  \A m \in Messages :
    /\ SF_vars(Accept(m)) /\ SF_vars(RejectDuplicate(m))
    /\ SF_vars(AckTracked(m))

TimerSpec == Spec /\ Timers

-----------------------------------------------------------------------------
(* Properties.                                                             *)

Tracked(m) == \E k \in DOMAIN myPendingAccepts[Src[m]] : myPendingAccepts[Src[m]][k].msg = m

(***************************************************************************)
(* A sender stops resending a message because of an acknowledgement only   *)
(* after PreProcessReceive has returned true for that message at its       *)
(* receiver: what is acknowledged has been handed to Receive.              *)
(***************************************************************************)
NoSilentLoss == \A m \in confirmed : handed[m] > 0

(***************************************************************************)
(* A hooked callback runs at most once, however often its message and its  *)
(* acknowledgements are repeated, and only after the message was handed.   *)
(***************************************************************************)
CallbackSound == \A m \in Messages : fired[m] > 0 => fired[m] = 1 /\ handed[m] > 0

(***************************************************************************)
(* A message heard within MESSAGEDUPLICATIONTIMEOUT is still remembered,   *)
(* with an age that is no greater: nothing Flush pops and nothing that     *)
(* PreProcessReceive moves to the back is forgotten too early.             *)
(***************************************************************************)
RememberedSince(i, id, age) ==
  \E k \in 1 .. Len(myRecentMesseges[i]) :
    myRecentMesseges[i][k].id = id /\ myRecentMesseges[i][k].age <= age

RemembersRecent ==
  \A m \in Messages :
    quiet[m] <= DuplicationTimeout => RememberedSince(Dst[m], Id[m], quiet[m])

(***************************************************************************)
(* A message is handed to Receive a second time only when it has not       *)
(* arrived for longer than MESSAGEDUPLICATIONTIMEOUT.                      *)
(***************************************************************************)
RepeatAfterSilence ==
  \A m \in Messages : Accept(m) => handed[m] = 0 \/ quiet[m] > DuplicationTimeout

RepeatOnlyAfterSilence == [][RepeatAfterSilence]_vars

(***************************************************************************)
(* A Flush leaves no expired id behind, whenever it runs.  It pops from    *)
(* the front of the vector only, so this rests on the vector staying in    *)
(* order of age through every refresh.                                     *)
(***************************************************************************)
FlushForgetsExpired ==
  \A i \in Interfaces : \A n \in 0 .. Len(myRecentMesseges[i]) :
    IsExpiredPrefix(myRecentMesseges[i], n) =>
      \A k \in n + 1 .. Len(myRecentMesseges[i]) : ~IsExpired(myRecentMesseges[i][k])

(***************************************************************************)
(* The sender is never left waiting: each tracked message is acknowledged, *)
(* cleared, or TimedOut is called on its interface, whatever the network   *)
(* does.                                                                   *)
(***************************************************************************)
EventuallyResolved ==
  \A m \in Messages : Tracked(m) ~> (~Tracked(m) \/ Src[m] \in timedOut)

(***************************************************************************)
(* Over a network that lets a datagram through now and then, resending     *)
(* stops: every tracker is removed in the end, also when the same message  *)
(* is tracked twice or its acknowledgements are lost.                      *)
(***************************************************************************)
EventuallyAcknowledged == Delivers => \A m \in Messages : Tracked(m) ~> ~Tracked(m)

-----------------------------------------------------------------------------
(* The inductive invariant behind the safety properties.                   *)

(* myRecentMesseges is in order of age, the oldest entry in front. *)
RecentsInOrder ==
  \A i \in Interfaces : \A j, k \in 1 .. Len(myRecentMesseges[i]) :
    j < k => myRecentMesseges[i][j].age >= myRecentMesseges[i][k].age

(* Every remembered id is that of a message its receiver was handed. *)
RecentsWereHanded ==
  \A i \in Interfaces : \A k \in 1 .. Len(myRecentMesseges[i]) :
    \E m \in Messages : Dst[m] = i /\ Id[m] = myRecentMesseges[i][k].id /\ handed[m] > 0

AcksWereHanded == \A m \in acks : handed[m] > 0

(* Whatever is tracked, in flight or handed was given to PreProcessAndSend. *)
AllWereSent ==
  /\ \A i \in Interfaces : \A k \in 1 .. Len(myPendingAccepts[i]) :
       sends[myPendingAccepts[i][k].msg] > 0
  /\ \A m \in data : sends[m] > 0
  /\ \A m \in Messages : handed[m] > 0 => sends[m] > 0

(* A callback that is still hooked has not run; one that ran was confirmed. *)
CallbackOnce ==
  /\ \A m \in myCallbacks : fired[m] = 0 /\ sends[m] > 0
  /\ \A m \in Messages : fired[m] > 0 => fired[m] = 1 /\ sends[m] > 0 /\ m \in confirmed

(***************************************************************************)
(* The inductive invariant: nothing is remembered, acknowledged, confirmed *)
(* or called back that did not happen before it in that order.             *)
(***************************************************************************)
IInv ==
  /\ TypeOK
  /\ RemembersRecent
  /\ RecentsInOrder
  /\ RecentsWereHanded
  /\ AcksWereHanded
  /\ NoSilentLoss
  /\ AllWereSent
  /\ CallbackOnce

(* No two messages for one receiver carry the same id. *)
NoCollision == \A m, n \in Messages : Dst[m] = Dst[n] /\ Id[m] = Id[n] => m = n

(***************************************************************************)
(* What the log line of the duplicate branch says of the message it drops: *)
(* it was handed to Receive before.                                        *)
(***************************************************************************)
DropsOnlyHanded == \A m \in Messages : RejectDuplicate(m) => handed[m] > 0

DroppedWasHanded == [][DropsOnlyHanded]_vars

-----------------------------------------------------------------------------
(* Implementation of the abstract delivery service.                        *)

Promise == INSTANCE Delivery WITH
  offered <- {m \in Messages : sends[m] > 0},
  handed <- {m \in Messages : handed[m] > 0},
  confirmed <- confirmed

(***************************************************************************)
(* NetworkInterface implements Delivery: it hands only what was given to   *)
(* PreProcessAndSend and confirms only what it handed.                     *)
(***************************************************************************)
ImplementsDelivery == Promise!Spec
=============================================================================
