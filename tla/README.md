# A verification project for ClientMigration

TLA+ models of the networking core of ClientMigration, the TLC runs that check
them on small instances, and TLAPS proofs of their safety properties for every
value of the constants. Paths are relative to `src/ClientMigration/`.

Contents: [the system](#1-the-system) · [the plan](#2-the-plan) ·
[modules and code](#3-modules-and-code) · [runs](#4-runs) ·
[findings](#5-findings) · [fairness](#6-fairness) · [proofs](#7-proofs) ·
[limits](#8-what-is-not-shown)

## 1. The system

Three kinds of programs talk over UDP. A **client** connects to a **router**
("redirect server") that sends it on to one of the **game servers** connected to
the router at the time. Each program is a single thread that polls a
non-blocking socket; there are no locks and no persistent state. What makes the
system hard is the network between the threads (loss, delay, order, repetition),
callbacks and handlers that re-enter the loops they were called from, and
entries, pointers and addresses that are used later than they were read.

| Component | Source | State | Operations |
|---|---|---|---|
| NetworkInterface | `TShared/NetworkInterface.*`, `NetMessage.*` | `myPendingAccepts` (trackers of unacknowledged messages), `myRecentMesseges` (ids heard, with times), `myCallbacks` | `PreProcessAndSend`, `PreProcessReceive`, `Flush`, `Clear`, `HookCallBack`; calls `Send`, `Receive`, `TimedOut` of its owner |
| Router | `TRedirectServer/ServerMain.*`, `Connection.*` | `myClients` (a hash table of Connections), `IDCOUNTER`; in each Connection validity, kind, addresses, the redirect in progress, `myEvaluations` | a pass of `Listen`; `HandShake`, `Parse`, `BeginRedirect`, `EvaluateRedirectResult`, `Flush`, `TimedOut`, `Invalidate`; `TransmitMessage`, `RequestList` |
| Game server | `TGameServer/ServerMain.*`, `Connection.*` | upstream: socket, `myIsConnected`, `myIsHandshaking` and an interface; downstream: `myClients`, `IDCOUNTER` | `Connect`, `HandShake`, `HandShakeAttempt`, `Flush`, `Receive`, `TimedOut`; `Listen`, `TransmitMessage`, and the Connection's `HandShake`, `Parse`, `TimedOut`, `Invalidate` |
| Big file transfer | `TShared/BigFileMessage.*` | segment counter, chunks left, chunks in transit, completion, memory | `Start`, three `Accept`s, two callbacks, `SendNextSegmentHeader`, `SendMissingChunks`, `SendSegmentResponse` |
| Client | `TClient/TClient.*` | target address, send buffer, `myIsConnected`, `myIsHandshaking`, evaluations | `Connect`, `HandShake`, `Flush`, `Receive`, `EvaluateServer`, `Disconnect`, `TimedOut` |
| Launchers, addresses, utilities | `Launcher_*`, `TShared/NetworkHelpers.*`, `TimeHelper.*`, `Random.*`, ... | none that matters here | process control, name resolution, clock |

### How they interact

* Every program sends through a NetworkInterface and gives it every datagram it
  receives. The interface returns TRUE when the datagram is new and is to be
  handled. The router and the game server have one interface *per connection*;
  the client and the game server's upstream side have one *per process*,
  whatever address a datagram is from.
* Client and game server open with a `SetupMessage`, and send a `NetIdentify`
  once it is accepted. To a client the router answers with a `NetIdentify` of its
  own, and the *acknowledgement of that answer*, through a hooked callback, begins
  the redirect: one `PotentialServer` for each game server, one `EvaluatedServer`
  back for each that was measured, then `ConnectToServer` when all are measured
  or 5 s have passed.
* The router and the game server tell their connections of each other
  (`UserConnected`, `UserOnline`, `UserDisconnected`).

### Hard behaviours, and what correctness means

* **Reliable delivery.** An id is remembered for 2 s while its message is resent
  for 8 s; the resend counter is a `char`; a repeated handshake gives one id
  two trackers; the acknowledgement may be lost, late or repeated. *Correct*: what
  is acknowledged was handed over; a message is repeated only after a silence; a
  callback runs at most once; the sender is freed in the end.
* **The router's table.** Entries die in the middle of a pass; the pass removes
  one and stops; entries are seen by others before they shook hands; an entry may
  be made by `operator[]` in the error path. *Correct*: nobody hears of a
  connection without hearing that it went, valid connections know each other, and
  dead ones are removed.
* **The redirect.** Measurements, a timeout and changes of the table race;
  `myEvaluations` keeps pointers into the table. *Correct*: the client ends up at
  a connected server that it was offered, and it ends up somewhere.
* **The game server's reconnect.** `TimedOut` calls `Connect` and `HandShake` from
  inside `Flush`, and `HandShake` calls `Flush`; trackers of the old connection
  survive. *Correct*: no nesting, no false "connected", the server joins, and its
  clients are served again.
* **The client's migration.** `Receive` calls `HandShake`, which calls `Flush`, which
  calls `Receive`; each `recvfrom` overwrites the address the buffer goes to; the
  router may give the client up at any moment and meet it again with a new
  Connection. *Correct*: the client's main loop runs only when it is connected,
  nobody is sent on who was not identified, everything is acknowledged in the
  end, and the client is sent on, and arrives.
* **File transfer.** A chunk does not say which segment it belongs to; one `char`
  counts what is on its way; the two sides compute the number of segments
  differently. *Correct*: no chunk in the wrong segment, no side finishes early,
  both finish.

`PROJECT.json` lists each hazard at its line, with the properties aimed at it.

## 2. The plan

Done:

1. `Delivery`, `NetworkInterface`, its runs and proofs: everything else relies on it.
2. `Roster` and `RedirectServer`: the table, the redirect.
3. `BigFile`: a protocol on top of the interface, and `FileTransfer`, what it promises.
4. `GameServer`: the reconnect and the listening table.
5. `Client`: nested handshakes, the buffer and the target address, `Disconnect`.
6. `Migration`: one client composed with the Connection the router has for it and a
   game server that is there throughout.
7. Proofs of every safety property the passing runs check, the refinements of `Delivery` and
   `FileTransfer` included. None of these modules uses a RECURSIVE operator.

Left, in the order of what it would add:

8. The acknowledgements of `Migration` with time, so that the race of 2 s against
   8 s in `NetworkInterface` meets the handshakes of the client.
9. A second client in `Migration`, so that the redirects of two clients and the
   roster messages share the router.

## 3. Modules and code

`PROJECT.json` maps each definition to its lines. The names of the code are kept
where possible, misspellings included (`myRecentMesseges`).

**`Delivery`** is what the reliability layer promises: a message is *offered*, then
*handed over*, then *confirmed*, in that order, with no way back.

**`NetworkInterface`** models every function of the class. An element of `Interfaces` is
one object, an element of `Messages` the bytes of one message. `PreProcessAndSend` adds a
tracker and a datagram. `PreProcessReceive` is four actions: a new message
(`Accept`) and a duplicate (`RejectDuplicate`), both acknowledged; an
acknowledgement of a tracked message (`AckTracked`) and of another (`AckUnknown`).
`Flush(i)` resends what is due, calls `TimedOut`, and pops expired ids; `Clear(i)` is
what a Connection's `Invalidate` does. `Tick` lets time pass; ages saturate one past the
largest value the code compares them with, so nothing that the code can tell
apart is merged. `LoseData`, `LoseAck` and the constant `Duplicates` are the network:
in flight is a set, so any order of delivery happens. `handed`, `confirmed`,
`fired` and `quiet` are history for the properties. Not in the model: the hash in an
acknowledgement (taken as free of collisions), custom addresses (a tracker's
address is that of `Dst`).

**`Roster`** is `TransmitMessage`, which the router and the game server have in common word
for word, as two operators on a table.

**`RedirectServer`** models the router. `visiting` and `visited` are the place in `Listen`: a
pass takes the entries in any order (`Flush`, `Reap`, which ends it, `VisitEnds`), then
`Receive` handles one datagram or none. Each case of `Parse` and `HandShake` is an
action; the acknowledgement of the router's `NetIdentify` (`AckIdentify`) runs
`BeginRedirect` and may come late or after the connection died. A Connection has
the number of its object, so that a pointer kept in `myEvaluations` may be told
from a live one; reading through a dangling one gives any address. The three members the
constructor leaves alone (`myIsServer`, `myServerAddress`, `myPotentialRedirectCount`) hold
together any of the records of `Memory`. `standing` is history for the properties: whether
an object's Connection never identified itself as a game server's, did and has been
valid ever since, or is a game server's that was given up. `Kick` is what `Parse` does with
a status or a type it does not know. A peer is its key in the table: the key is made of the family and the port
(`TRedirectServer/ServerMain.cpp:158`), so two peers with one port are one peer here, whose
datagrams reach one Connection, as they do in the code.

**`FileTransfer`** is what a file transfer promises: segments are *put in place* one after the
other and stay, the sender *confirms* each when it is in place, and neither side
*ends* before all are.

**`BigFile`** models a sender and a receiver above an interface that hands over and
acknowledges each message, in any order. Sizes are in chunks. `CharModulus` is the
`char` of the transit count; with 4 chunks to a segment and 8 values it has the
ratio of the code, 128 to 256.

**`GameServer`** models one thread with two halves. Upstream, `at` is the place in
`HandShake` or `Listen`, `frames` the number of its invocations, and the router is what it
keeps for the current socket and what it answers, taken from the code of the
router; trackers of old sockets stay and are resent from the new one, as in the
code. A `Flush` reads all the answers there are, and only the first `SetupMessage` of one is the
answer `HandShake` waits for. `RouterGivesUp` is the router's `TimedOut` or `Invalidate`,
`RouterReaps` the removal by its `Listen`; the next message then meets a new Connection,
which refuses all but a request. `history` is for the properties. Downstream, `Listen` handles one datagram at a time, only when `at` is `listen`. A
datagram is a request, a goodbye, or an identity, which stands for everything
else: what `Parse` does not know makes it kick the sender, whatever it is.

**`Client`** models the client's thread. `frames` is the stack of the invocations of
`HandShake` that have not returned, `at` the place in the innermost one, or in the main
loop. A `Flush` is two halves: `FlushSends` sends the buffer to what `myTargetAddress` is,
and then one action for each datagram that `recvfrom` returns: an acknowledgement, a
duplicate, or a new message, which `HandShakeAttempt`, `Reconnect`, `Redirect`, `EvaluateServer` or
`ReceiveIdentify` handles. `FlushEnds`, `FlushEndsInHandShake` and `HandShakeReturns` are the three ways
on when `recvfrom` would block. The one flag `myIsHandshaking` is shared by all
invocations, as in the code. `TimedOut` is a place without a way out.

**`Migration`** adds the router's Connection for the client: validity, the redirect in
progress, what it has heard and what it tracks. `GivesUp` is `TimedOut`, `Reap` the removal
by `Listen`, after which the next datagram makes a new Connection with a new id. The
game server is known by the address of its *upstream* socket
(`TRedirectServer/Connection.cpp:215`), so what reaches it is read by `CServerMain::Flush`,
acknowledged to the router, and answered by nobody; `toRouter` therefore takes only what
is sent to the router. Handshakes, redirects and Connections are numbered, so that a
late answer may be told from a new one.

**`RedirectServerProofs`, `GameServerProofs`, `BigFileProofs`, `MigrationProofs`, `NetworkInterfaceProofs`** hold the
theorems; see [section 7](#7-proofs).

**`MC*`** extend these with the model values and functions the configurations name.

## 4. Runs

`tlc -workers 2 -config X.cfg M`, each within three minutes. The bounds are constants
of the modules, named there and set in the cfgs.

| Run | Shows |
|---|---|
| `ni_safety` | With two messages of one process, loss, repetition and `Clear` on both sides: `NoSilentLoss`, `RemembersRecent`, `FlushForgetsExpired`, `RepeatOnlyAfterSilence`, `DroppedWasHanded`; and the refinement of `Delivery`. Timeout 2 and two messages are what the order of the vector needs to go wrong; `char` is -2..2, so it wraps. |
| `ni_live` | One message given twice, with a callback, deadlock checked: `CallbackSound`, `EventuallyResolved` (no assumption on the network) and `EventuallyAcknowledged` (assuming it delivers). |
| `ni_sharedids` | Finding 1. No time passes while something is under way, so lateness plays no part in it. |
| `router_live` | Two servers and one client; server 1 and the client may time out, be kicked, be reaped and return, and a new Connection finds either nothing in its memory or what server 1's left there: `RedirectTargetConnected`, `RedirectIsToNearest`, `RedirectConcludes`, `DeadAreReaped`. Each peer identifies itself once; three Connection objects, so that one peer has a second one where another does not come. Server 2 stays, so that a measured server competes with one that is gone. Ids and goodbyes decide nothing here (`IdModulus = 1`, `MayLeave = {}`). |
| `router_churn` | One server and two clients that die, are kicked, return, say goodbye, and one receive error; four Connection objects for three peers: `RosterHasNoGhosts`, `RosterIsComplete`. |
| `router_measured` | Finding 2. |
| `file_transfer` | Files of 0, 1, 4, 5 and 11 chunks of which 4 make a segment: none, less than one, one, two, three segments, the last one full or not; two corruptions and one repeated head. `TransitIsCounted`, `ChunksAreForThisSegment`, `CompletesIntact`, `SenderOutlivesTransfer`; `SomethingIsToCome` and `MessagesAreBounded`, which between them leave a transfer no way but to its end; `EndsAgree`; the refinement of `FileTransfer`; `TransferCompletes`. |
| `gs_serve` | Two upstream sockets, so one timeout and reconnect, one client datagram at any moment: `ConnectedWasAccepted`, `HandShakeDoesNotNest`, `JoinsRouter`, `ClientsAreServed`. The router may give up the Connection of the first socket, before and after it has joined, and erase one of each socket; it keeps the second, so that the run shows joining after an outage. A `Flush` reads any number of answers. |
| `gs_table` | Two clients with four datagrams, timeouts and a receive error: `RosterIsComplete`. The order of what the two send is free, so a third client adds no new pair. |
| `migration_outage` | One client; the router gives it up once, makes a second Connection, and one datagram is repeated while its acknowledgement is on its way; a goodbye and a timeout at any moment. `MainLoopIsConnected`, `RedirectedWasIdentified`; and `OneSession`, which is about the states before the router gives the client up. Two invocations of `HandShake` are what nesting needs; two Connections what a late answer needs. |
| `migration_redirect` | The same client without outages or repetitions, to the end: `ClientIsAnswered`, `RouterIsAnswered`, `ClientIsSentOn`. |
| `migration_waits` | Finding 3, on the instance of `migration_redirect`. |

Each module has one `TypeOK`, which also carries the widths: `sentCount` stays a `char`,
ids stay in the range of `IDCOUNTER`, segment counters stay within the memory of the file.

`CHECK_DEADLOCK FALSE` is set where the system may stop: a process that
`std::bad_function_call` has ended, a transfer that is over, a bound that is used up.

## 5. Findings

Runs that are expected to find a violation; each quotes the line that says otherwise.

1. **`ni_sharedids`** (`TShared/NetworkInterface.cpp:53`). A duplicate is recognised by
   its id alone, and every process counts from 100. A game server's upstream
   interface hears the router and the clients that ping it, so a first message
   is acknowledged and dropped. `DroppedWasHandedHolds` proves that distinct ids are
   all it takes.
2. **`router_measured`** (`TRedirectServer/Connection.cpp:288`). On a timeout, a server
   without a result competes with a ping of 0 and wins. `RedirectIsToNearestHolds` proves the
   rest: a redirect that is not late goes to the fastest of the servers that stayed, all of
   them measured.
3. **`migration_waits`** (`TClient/TClient.cpp:413`). A redirected client is sent to the
   address the router sees the server at, that of its upstream socket, which does
   not answer requests. The router's next resend turns the client's target back to
   the router, which acknowledges the request and ignores it. The client stays in
   `HandShake`. `migration_redirect` shows that nothing else is stuck: every message is
   acknowledged.

Smaller observations, seen in the models by changing a constant of a run, in no
run of their own:

* A file whose size fills its last segment, the empty file included: the receiver's
  rounded-down count, compared with an index, is never reached, and the receiver does
  not end (`TShared/BigFileMessage.cpp:34` and `:71`). `EndsAgree` and `TransferCompletes` ask for the
  receiver's end only where the last segment is not full.
* With `Repeatable = {"SegmentDeclaration"}` or `{"Chunk"}` a repetition that outlives the
  duplicate filter shifts the receiver's segment or its count. The proofs about
  `BigFile` suppose that only the head comes twice.
* The `NetIdentify` a client sends after each handshake would get it kicked by the
  game server (`TGameServer/Connection.cpp:165`).
* A refusal of a message of the old handshake and the acceptance of the new one, read in
  one `Flush` (`TGameServer/ServerMain.cpp:212`): the acceptance is ignored, and the request
  that follows has an id the router has seen, so nothing answers it. The server waits in
  `HandShake` for ever and serves no client. `gs_serve` reaches this state; `JoinsRouter` and
  `ClientsAreServed` name it as an exception (`history.unheeded`).
* A router that gives a game server up tells it nothing. In `Listen` the server sends nothing
  upstream, so it never times out and takes itself for connected; its `NetIdentify`, if that
  is still on its way, is refused and acknowledged, which it ignores. In `HandShake`, after
  its request was acknowledged, it waits for ever. This is the other exception
  (`history.givenUp`).
* A server that is given up between `BeginRedirect` and the decision is still in
  `myEvaluations`, and its address is read through a dangling pointer once the entry is
  erased (`TRedirectServer/Connection.cpp:255` and `:300`). A new Connection may count as a
  server before it has identified itself, with an address from its memory
  (`TRedirectServer/Connection.cpp:16-26`). `router_live` reaches both, and both may send a
  client anywhere. `RedirectTargetConnected` is about the other redirects: without its
  condition on `standing` it is violated, by either.
* The request of a redirected client reaches the game server's upstream socket, and
  `HandShakeAttempt` reads it as an acceptance. `ConnectedWasAccepted` still holds: such a
  request needs a router that has accepted the socket.
* After an outage a late or repeated request is accepted by a second Connection. The
  client does not wait for that answer, prints "Connection invalidated!" and begins a
  handshake with a router that takes it for connected and ignores it
  (`TClient/TClient.cpp:417`).
* A `Disconnect` that a redirect overtakes begins that handshake inside its own wait, and
  does not return (`TClient/TClient.cpp:265`). A goodbye that meets a new Connection, which
  is not valid, is acknowledged and told to nobody.
* No program of the repository calls `Disconnect` or makes a `BigFile`, and none sends a
  datagram without content or a status its peer does not know.

## 6. Fairness

* `NetworkInterface`: `Timers`. Every program calls `Flush` in each round of an endless
  loop, and the clock advances: weak fairness of `Flush(i)` and `Tick`. Nothing is asked
  of the network, except in `EventuallyAcknowledged`, which has `Delivers` as its
  hypothesis: strong fairness of the four receptions, that is, a datagram that is
  sent again and again arrives again and again.
* `RedirectServer`: weak fairness of `Visit`, `Receive` and `Tick`: `Listen` loops, and
  `recvfrom` returns, with a datagram or without (`WouldBlock`). No datagram is
  promised. `RedirectConcludes` supposes that some game server is connected for ever
  from some time on.
* `BigFile`: weak fairness of `Next`: what is on the wire is handed over in the end, which
  is what `ni_live` shows of the interface.
* `GameServer`: weak fairness of the steps of the thread and of the router's handling of a
  message that keeps being resent, and strong fairness of reading an answer to
  the current socket: it is enabled again and again, between the halves of a `Flush`
  that is run for ever. Nothing is asked of the order in which answers are read, nor
  that the router gives anything up or erases it.
* `Migration`: weak fairness of the loops of the client and of the router's handling of what
  reaches it, of the decision at `REDIRECTTIMEOUT`, and of `Reap`. Strong fairness of sending
  again what has no acknowledgement on its way, of hearing an acknowledgement, and of
  hearing a message of the router that is new or whose acknowledgement did not get
  through: what is tracked is sent again and again, and the client's `recvfrom` is passed
  again and again, but not all the time. Each of these stands for all messages at
  once; there are finitely many, and each is dealt with once, so none waits behind
  the others for ever. `TimedOut` and `Disconnect` may happen and need not; `Left` is what
  the properties then allow.

## 7. Proofs

Each module of proofs has one inductive invariant, `IInv`, a conjunction of named parts
with a lemma for each action that may disturb them, and ends in the theorems.

### NetworkInterface

`NetworkInterfaceProofs` proves, for any sets of interfaces and messages, any timeouts,
caps and `char` range:

| Theorem | States |
|---|---|
| `TypeCorrect` | `Spec => []TypeOK` |
| `RemembersRecentHolds`, `RepeatOnlyAfterSilenceHolds` | the duplicate filter remembers long enough; repetition needs silence |
| `FlushForgetsExpiredHolds` | popping the front removes every expired id |
| `NoSilentLossHolds`*, `DroppedWasHandedHolds`* | what is acknowledged or dropped was handed over |
| `CallbackSoundHolds`* | callbacks run once, after the message was handed over |
| `AllWereSentHolds` | nothing comes from nowhere |
| `LostToSharedIdOnlyHolds` | an acknowledged message was handed over, unless another one with its id was, at the same receiver |
| `AloneIsNotLost` | a message with an id of its own at its receiver is neither lost nor dropped unheard |
| `IInvHolds`*, `ImplementsDeliveryHolds`* | the inductive invariant; the refinement of `Delivery` |

Those with a * assume `NoCollision` (no two messages for one receiver share an
id); finding 1 is what happens without it. The two theorems before the last line say how
far it goes: with any ids, shared ones included, it takes another message with the same
id to lose one. The other assumptions are those named in the module, on the types of the constants, and that `ResendCap` is below `CharMax`.

The argument. `RemembersRecent` is not inductive alone: `Flush` pops from the front, so
an entry is safe only if everything before it is older, which is `RecentsInOrder`.
That order survives a refresh because the code moves the refreshed entry to the
*back* with the present time; the lemmas `RemoveAtProperties`, `RefreshProperties`, `PopProperties` and
`RejectVector` state what the code's vector operations do to the entries and their
order. `NoSilentLoss` needs the chain *remembered → handed* (`RecentsWereHanded`),
*acknowledged → handed* (`AcksWereHanded`), *confirmed → acknowledged*; the first link is where
`NoCollision` comes in, as an id in the vector must stand for one message.
`CallbackSound` adds that a hooked callback has not run and that one that ran was
confirmed (`CallbackOnce`), and needs `AllWereSent` so that a message cannot be hooked again.
`IInv` is the conjunction of these; the proof that `Next` preserves each part has one step
for each action.

### RedirectServer

For any peers, ids, addresses, timeouts, errors and contents of memory: `TypeCorrect`, and
`RosterHasNoGhostsHolds`. The roster needs `AbsentHeardNothing`, that what a peer was told is
forgotten with its entry, and that every way an entry leaves the table announces it.
`HooksOfIdentify` bounds the callbacks.

For the same constants, with no assumption on who stays, `RedirectTargetConnectedHolds` and
`RedirectIsToNearestHolds`. Both rest on `RedirectInv`:

* an object is that of one entry, unless `operator[]` made it (`ObjectsAreApart`);
* an object whose Connection is in good standing as a server's is that of a connected
  server, in the table under its own address (`ServersStand`);
* the notes in `myEvaluations` are of addresses the client was offered and of objects that
  were made (`NotesAreOffered`), and a note whose object is still the one at its address and in
  good standing is of a connected server (`NotesOfServers`);
* as many answers are waited for as there are such notes, if not more
  (`CountsCoverNotes`), so that the count that ends the wait means that all of them have
  answered, although the map keeps the notes of earlier redirects.

A step either makes, marks and erases entries without touching notes (`EntriesGoOn`,
`ServersGoOn`), or writes the notes of one client from the table as it is (`NotesGoOn`);
`StepKeepsRedirects` says that either keeps `RedirectInv`. What is *not* true, and why the
theorems look at the standing of the chosen Connection, is in section 5.

`SurvivesWithoutErrorsHolds`: the process ends only if a `recvfrom` has failed. Its invariant,
`CallbacksAreSet`, is that every entry was made by a datagram, which sets its callbacks,
until an error makes one by `operator[]`.

`RosterIsCompleteHolds` assumes `IdsFit`: `IDCOUNTER`, an `unsigned short`, does not come round to
an id it gave before (`MaxConnections < IdModulus`, connections that are gone included; the
instance of `router_churn`). Then the entries of the table have ids no two of which are the same
(`Apart`, from `RemaindersDiffer` and `IdsDiffer`), so the announcement that one left takes no other
connection from what its peers know; a handshake tells both sides; and no other step
revives a connection.

### GameServer

For any clients and any number of sockets: `TypeCorrect`, `HandShakeDoesNotNestHolds`, `ConnectedWasAcceptedHolds`.
The key is `WaitsDisconnected`: while a handshake waits `myIsConnected` is FALSE, so `TimedOut`, which
connects again only when it is TRUE, does nothing inside it. `AcceptancesAreTrue` says that
what reads as an acceptance, the request of a redirected client included, comes from a
router that has accepted this socket. `MadeAreInTable` bounds `IDCOUNTER`.

`RosterIsCompleteHolds` is the same theorem as the router's, with the same argument (`IdsAreApart`),
under `IdsFit`: as an entry never leaves this table there is one Connection for each client at most, so it
suffices that there are fewer clients than ids. Both instances satisfy it.

`SurvivesWithoutErrorsHolds` is the router's theorem too.

`JoiningGoesOnHolds` is the safety half of `JoinsRouter`: unless the router has given the
socket up or an acceptance was not heeded, a server that is not connected is about to
send its request, sends it again to a router that has not heard it, or has an acceptance on
its way; one that is connected sends its identity until the router has it. Resends of old
sockets carry the present address and may have the router refuse and erase, so
`JoiningInv` keeps what the router has heard, acknowledged and accepted together
(`RouterKeeps`): what it acknowledged it has heard, a request it heard it accepted, and no
identity is sent before an acceptance (`SendsInOrder`). `JoiningInvHolds` needs no assumption on
the constants. `FirstHandShakeIsHeededHolds` says how far the second exception goes: on the
first socket nothing can be read before the acceptance, as only what is sent again for an
older socket is refused. `JoinsRouter` itself, which needs fairness, stays with TLC.

### BigFile

For files of any size, segments of fewer chunks than a `char` has values, any order of
delivery and any number of corrupted chunks, under `HeadsOnly` (only the head is handed
over twice):

| Theorem | States |
|---|---|
| `TypeCorrect` | `Spec => []TypeOK` |
| `TransitIsCountedHolds`, `ChunksAreForThisSegmentHolds` | the count is that of the chunks on the wire, each in its own segment |
| `CompletesIntactHolds`, `SenderOutlivesTransferHolds` | neither side ends before the receiver holds the file |
| `SomethingIsToComeHolds`, `MessagesAreBoundedHolds`, `EndsAgreeHolds` | no side waits for the other, finitely many messages are sent, and when no segment is left both have ended |
| `ImplementsFileTransferHolds` | the refinement of `FileTransfer` |

The invariant says that a transfer is in one of six phases: announced, declared, expecting
chunks, chunks on their way, answered, over; in each the two counters, the checksum, the
wire and the hooks fit each other, and the segments before the present one are in
memory. `RoundedUpByOne` is why the receiver does not end early: the sender's number of
segments is at most one more than the receiver's, which is compared with an index; and
`RoundedUpIfPartial` why it ends at all when the last segment is not full: then it is
exactly one more.

Each phase also bounds what was sent so far (`Spent`): the rounds of the segments before,
and one for each corrupted chunk. The bound is inductive because a round is lost only
to a chunk that was corrupted in it: `RoundIsClean` says that each chunk of the segment is
in place or on its way, so a clean round leaves nothing missing and the segment's own
checksum right.

Together these are the safety half of `TransferCompletes`. Each step takes a message from the
wire or a callback from the hooks, or is one of the `Repeats` repetitions, so bounded
messages mean finitely many steps; and before the last segment something is to come.
What is left to TLC is the last inference, which needs fairness.

### Migration

For any number of handshakes, redirects, Connections, repetitions and outages (the one
assumption on the constants, `NoneAssumption`, is that `None` is no Connection):

| Theorem | States |
|---|---|
| `TypeCorrect` | `Spec => []TypeOK` |
| `MainLoopIsConnectedHolds` | however handshakes nest, the main loop runs only when connected |
| `RedirectedWasIdentifiedHolds` | nobody is sent on who was not accepted and identified |
| `OneSessionHolds` | until the router gives the client up, a connected client has the id of the valid Connection the router has for it, and was refused nothing |
| `RouterLosesNothing` | the router stops sending a message only when the client heard it, or when it drops a Connection it has given up |
| `ClientLosesNothing` | until the router gives it up, the client stops sending a message again only when its Connection heard it |

`MainLoopIsConnected` needs only `AsksInHandShake`. `RedirectedWasIdentified` is a chain: what is acknowledged was heard (`AcksWereHeard`); the
client identifies itself, and the router answers, only after an acceptance was heard
(`IdentifiedWasAccepted`); a redirect begins with the acknowledgement of that answer
(`RedirectsWereBegun`). None of these looks at which Connection says it, so outages
and second Connections do not matter.

`OneSession` needs `Session`, which says what is on its way: before the router has a
Connection nothing but requests, so none of them can be refused; afterwards no refusal and
no acceptance but of that Connection, so the outer of two nested handshakes cannot be left
with the id of another. The two `LosesNothing` theorems are action properties. For the router
the cause is *acknowledged → heard* (`AcksWereHeard`); for the client it is `Answered`, that
what the router acknowledges its Connection has heard, which holds only while there is one
Connection to speak of. They are the safety half of `RouterIsAnswered` and `ClientIsAnswered`.

### Out of reach

Out of the provers' reach and left to TLC: liveness and `ENABLED` (no rules for
fairness), induction over data (what the recursive or folded value of every input
is), and modules with RECURSIVE operators. No proof is left open.

## 8. What is not shown

* Only model-checked: liveness (`RedirectConcludes`, `DeadAreReaped`, `JoinsRouter`, `ClientsAreServed`,
  `EventuallyResolved`, `EventuallyAcknowledged`, `TransferCompletes`, `ClientIsAnswered`, `RouterIsAnswered`,
  `ClientIsSentOn`). `RosterIsComplete` is neither checked nor proved once
  `IDCOUNTER` has come round (2^16 connections); then two entries may have one id.
* Not modelled: how a client fares at a game server's listening socket that a router
  sent it to, for it never gets there (finding 3), although `GameServer` has clients that
  have the address from elsewhere; time in `Migration`, where a datagram is late or
  repeated within bounds and no duplicate filter forgets; failing socket calls in
  `Connect`; iterators that a callback or a nested `HandShake` invalidates (undefined
  behaviour of memory, not a choice over outcomes); the float clock; bytes, names and log
  lines; launchers (process control), name resolution (pure I/O) and the utilities
  (profiling, random numbers, clipboard), which hold no state of the protocol.
* A game server that the router gives up, or whose acceptance is not heeded, does not come
  back in the code, and no property asks it to (section 5).
* A client that is redirected to a Connection that was given up, or that never identified
  itself, may be sent anywhere; no property asks more (section 5).
* `BigFile` is checked and proved with the head as the only message that is handed over
  twice, although the interface may do that to any message after 2 s of silence (section 5).
* Two peers behind one key of a table are one peer; which of the two hears the
  answers is not told apart.
* In `RedirectServer` the interface below each connection is abstracted to "late,
  repeated or never"; that a sender is not left waiting is shown in `NetworkInterface`.
  In `GameServer` lateness stands for loss, as what is lost is resent.
