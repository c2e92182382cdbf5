------------------------------- MODULE BigFile -------------------------------
(***************************************************************************)
(* The transfer of a file in TShared/BigFileMessage.cpp: a BigFile object  *)
(* that sends and one that receives, each over a NetworkInterface.  The    *)
(* sender announces the file (Head) and then each segment in turn; the     *)
(* acknowledgement of a segment's declaration starts its chunks, and the   *)
(* receiver answers with the chunks that are missing once it has counted   *)
(* as many as it expected.                                                 *)
(*                                                                         *)
(* A message on the wire is one that NetworkInterface will hand over, in   *)
(* any order, and hands over again when the duplicate filter has forgotten *)
(* it (at most Repeats times in all).  Handing over a message lets its     *)
(* callback run at the other side.  Sizes are counted in chunks, and a     *)
(* chunk's data is named by the place it has in the file.                  *)
(***************************************************************************)
EXTENDS Integers, FiniteSets, FiniteSetsExt

CONSTANTS
  Sizes,              \* sizes a file may have, in chunks
  CHUNKSPERSEGMENT,
  CharModulus,        \* the values of a char, 2^8
  UninitFlags,        \* values an uninitialised bool may hold
  Corruptions,        \* bound on chunks that fail their checksum
  Repeatable,         \* kinds of messages that may be handed over again
  Repeats             \* bound on messages handed over again

ASSUME SizesAssumption ==
  /\ CHUNKSPERSEGMENT \in Nat \ {0} /\ CharModulus \in Nat
  /\ CHUNKSPERSEGMENT < CharModulus
  /\ IsFiniteSet(Sizes) /\ Sizes # {} /\ Sizes \subseteq Nat

ASSUME BoundsAssumption ==
  /\ UninitFlags \subseteq BOOLEAN /\ UninitFlags # {}
  /\ Corruptions \in Nat /\ Repeats \in Nat
  /\ Repeatable \subseteq {"Head", "SegmentDeclaration", "Chunk", "SegmentResponse"}

VARIABLES
  myDataSize,  \* of the file
  sender,      \* the sending BigFile
  receiver,    \* the receiving BigFile
  myData,      \* the receiver's memory, by segment and chunk
  wire,        \* messages to be handed over
  hooks,       \* the sender's hooked callbacks: [id, callback, heard]
  ids,         \* the next message id
  corrupted, repeated

vars == <<myDataSize, sender, receiver, myData, wire, hooks, ids, corrupted, repeated>>

Indices == 0 .. CHUNKSPERSEGMENT - 1

(* mySegmentCount of the sender, rounded up; that of the receiver, where   *)
(* the division is one of integers, rounded down.                          *)
SegmentsToSend(size) == (size + CHUNKSPERSEGMENT - 1) \div CHUNKSPERSEGMENT

(* Mutants of SegmentsToExpect: rounded up, and still compared with an     *)
(* index; one too few.                                                     *)
SegmentsRoundedUp(size) == (size + CHUNKSPERSEGMENT - 1) \div CHUNKSPERSEGMENT

SegmentsOneLess(size) == (size \div CHUNKSPERSEGMENT) - 1

SegmentsToExpect(size) == size \div CHUNKSPERSEGMENT

(* Bound on both counters: repeats may take them past the end of the file. *)
LastSegment == SegmentsToSend(Max(Sizes)) + Repeats
Segments == 0 .. LastSegment
Nothing == <<-1, -1>>    \* memory that no chunk has been written to
Contents == (Segments \X Indices) \union {Nothing}

Message ==
  [id : Nat, kind : {"Head"}]
  \union [id : Nat, kind : {"SegmentDeclaration"}, segment : Segments]
  \union [id : Nat, kind : {"Chunk"}, segment : Segments, index : Indices]
  \union [id : Nat, kind : {"SegmentResponse"}, missing : SUBSET Indices]

Sender ==
  [mySegmentCounter : Segments \union {-1}, myIsComplete : BOOLEAN,
   myChunksLeft : SUBSET Indices]

Receiver ==
  [made : BOOLEAN, mySegmentCounter : Segments \union {-1}, myIsComplete : BOOLEAN,
   myChecksum : Segments \union {-1}, myChunksLeft : SUBSET Indices,
   myChunksLeftInTransit : 0 .. CharModulus - 1]

TypeOK ==
  /\ myDataSize \in Sizes
  /\ sender \in Sender
  /\ sender.mySegmentCounter <= SegmentsToSend(myDataSize) + repeated
  /\ receiver \in Receiver
  /\ myData \in [Segments -> [Indices -> Contents]]
  /\ \A m \in wire : m \in Message
  /\ \A h \in hooks : h.id \in Nat /\ h.callback \in {"PeerAcceptedHead", "PeerAcceptedSegmentHeader"}
  /\ ids \in Nat
  /\ corrupted \in 0 .. Corruptions
  /\ repeated \in 0 .. Repeats

(* Start() has been called: the announcement of the file is on its way. *)
Init ==
  /\ myDataSize \in Sizes
  /\ \E flag \in UninitFlags :
       sender = [mySegmentCounter |-> -1, myIsComplete |-> flag, myChunksLeft |-> {}]
  /\ \E flag \in UninitFlags :
       receiver = [made |-> FALSE, mySegmentCounter |-> -1, myIsComplete |-> flag,
                   myChecksum |-> -1, myChunksLeft |-> {}, myChunksLeftInTransit |-> 0]
  /\ myData = [s \in Segments |-> [i \in Indices |-> Nothing]]
  /\ wire = {[id |-> 0, kind |-> "Head"]}
  /\ hooks = {[id |-> 0, callback |-> "PeerAcceptedHead", heard |-> FALSE]}
  /\ ids = 1
  /\ corrupted = 0
  /\ repeated = 0

-----------------------------------------------------------------------------
(* The sender.  rest is the wire without what the caller took from it.     *)

(* SendMissingChunks: one message for each chunk left of the segment. *)
SendMissingChunks(segment, left, rest) ==
  /\ wire' = rest \union
       {[id |-> ids + Cardinality({j \in left : j < i}), kind |-> "Chunk",
         segment |-> segment, index |-> i] : i \in left}
  /\ ids' = ids + Cardinality(left)

(* Mutant of SendNextSegmentHeader: the end of the file is not noticed. *)
SendHeaderForEver(rest, waiting) ==
  /\ sender' = [sender EXCEPT !.mySegmentCounter = @ + 1, !.myChunksLeft = Indices]
  /\ wire' = rest \union
       {[id |-> ids, kind |-> "SegmentDeclaration", segment |-> sender.mySegmentCounter + 1]}
  /\ hooks' = waiting \union
       {[id |-> ids, callback |-> "PeerAcceptedSegmentHeader", heard |-> FALSE]}
  /\ ids' = ids + 1

(* Mutant of SendNextSegmentHeader: the chunks do not wait for the answer. *)
SendChunksAtOnce(rest, waiting) ==
  LET segment == sender.mySegmentCounter + 1 IN
  IF segment = SegmentsToSend(myDataSize)
  THEN /\ sender' = [sender EXCEPT !.mySegmentCounter = segment, !.myIsComplete = TRUE]
       /\ UNCHANGED ids
       /\ wire' = rest
       /\ hooks' = waiting
  ELSE /\ sender' = [sender EXCEPT !.mySegmentCounter = segment, !.myChunksLeft = Indices]
       /\ hooks' = waiting
       /\ ids' = ids + 1 + CHUNKSPERSEGMENT
       /\ wire' = rest
            \union {[id |-> ids, kind |-> "SegmentDeclaration", segment |-> segment]}
            \union {[id |-> ids + 1 + i, kind |-> "Chunk", segment |-> segment, index |-> i]
                      : i \in Indices}

(* The next segment is declared, or the file is complete. *)
SendNextSegmentHeader(rest, waiting) ==
  LET segment == sender.mySegmentCounter + 1 IN
  IF segment = SegmentsToSend(myDataSize)
  THEN /\ sender' = [sender EXCEPT !.mySegmentCounter = segment, !.myIsComplete = TRUE]
       /\ wire' = rest
       /\ hooks' = waiting
       /\ ids' = ids
  ELSE /\ sender' = [sender EXCEPT !.mySegmentCounter = segment, !.myChunksLeft = Indices]
       /\ wire' = rest \union {[id |-> ids, kind |-> "SegmentDeclaration", segment |-> segment]}
       /\ hooks' = waiting \union
            {[id |-> ids, callback |-> "PeerAcceptedSegmentHeader", heard |-> FALSE]}
       /\ ids' = ids + 1

PeerAcceptedHead(h) ==
  /\ h.heard /\ h.callback = "PeerAcceptedHead"
  /\ SendNextSegmentHeader(wire, hooks \ {h})
  /\ UNCHANGED <<myDataSize, receiver, myData, corrupted, repeated>>

PeerAcceptedSegmentHeader(h) ==
  /\ h.heard /\ h.callback = "PeerAcceptedSegmentHeader"
  /\ SendMissingChunks(sender.mySegmentCounter, sender.myChunksLeft, wire)
  /\ hooks' = hooks \ {h}
  /\ UNCHANGED <<myDataSize, sender, receiver, myData, corrupted, repeated>>

-----------------------------------------------------------------------------
(* The receiver.                                                           *)

(* What stays on the wire of a message that is handed over. *)
Taken(m, rest) ==
  \/ /\ rest = wire \ {m}
     /\ repeated' = repeated
  \/ /\ m.kind \in Repeatable /\ repeated < Repeats
     /\ rest = wire
     /\ repeated' = repeated + 1

(* Its acknowledgement, which may run a callback. *)
Acknowledge(m) == hooks' = {IF h.id = m.id THEN [h EXCEPT !.heard = TRUE] ELSE h : h \in hooks}

(* Mutant of AcceptSegment: the count of chunks in transit is left as it was. *)
AcceptSegmentOnly(r, segment) ==
  [r EXCEPT !.mySegmentCounter = @ + 1, !.myChecksum = segment, !.myChunksLeft = Indices]

(* Accept(SegmentDeclaration): the next segment, whichever was declared. *)
AcceptSegment(r, segment) ==
  [r EXCEPT !.mySegmentCounter = @ + 1,
            !.myChecksum = segment,
            !.myChunksLeft = Indices,
            !.myChunksLeftInTransit = CHUNKSPERSEGMENT % CharModulus]

(* Head: the program that receives makes the BigFile, once. *)
ReceiveHead(m) ==
  /\ m.kind = "Head"
  /\ \E rest \in {wire, wire \ {m}} : Taken(m, rest) /\ wire' = rest
  /\ receiver' = [receiver EXCEPT !.made = TRUE]
  /\ Acknowledge(m)
  /\ UNCHANGED <<myDataSize, sender, myData, ids, corrupted>>

ReceiveDeclaration(m) ==
  /\ m.kind = "SegmentDeclaration"
  /\ receiver.mySegmentCounter < LastSegment
  /\ \E rest \in {wire, wire \ {m}} : Taken(m, rest) /\ wire' = rest
  /\ receiver' = AcceptSegment(receiver, m.segment)
  /\ Acknowledge(m)
  /\ UNCHANGED <<myDataSize, sender, myData, ids, corrupted>>

(* Mutant of ChecksumMatches: what is hashed begins one chunk late. *)
ChecksumShifted(r, data) ==
  \A i \in Indices \ {0} : data[r.mySegmentCounter][i] = <<r.myChecksum, i - 1>>

(* The segment in memory is the one that was declared (no collisions). *)
ChecksumMatches(r, data) ==
  \A i \in Indices : data[r.mySegmentCounter][i] = <<r.myChecksum, i>>

(***************************************************************************)
(* Accept(Chunk) with SendSegmentResponse.  A chunk that fails its own     *)
(* checksum is counted but not stored.  The last chunk in transit makes    *)
(* the receiver answer; a segment that fails its checksum is missing as a  *)
(* whole.  The transfer is complete when nothing is missing of the segment *)
(* whose index is mySegmentCount.                                          *)
(***************************************************************************)
ReceiveChunk(m) ==
  /\ m.kind = "Chunk"
  /\ \E intact \in BOOLEAN, rest \in {wire, wire \ {m}} :
       LET at == receiver.mySegmentCounter
           data == IF intact THEN [myData EXCEPT ![at][m.index] = <<m.segment, m.index>>]
                   ELSE myData
           left == IF intact THEN receiver.myChunksLeft \ {m.index} ELSE receiver.myChunksLeft
           inTransit == (receiver.myChunksLeftInTransit - 1) % CharModulus
           missing == IF ChecksumMatches(receiver, data) THEN left ELSE Indices
       IN
       /\ Taken(m, rest)
       /\ ~intact => corrupted < Corruptions
       /\ corrupted' = IF intact THEN corrupted ELSE corrupted + 1
       /\ myData' = data
       /\ IF inTransit = 0
          THEN /\ receiver' = [receiver EXCEPT
                    !.myChunksLeft = missing,
                    !.myChunksLeftInTransit = Cardinality(missing) % CharModulus,
                    !.myIsComplete = @ \/ (missing = {} /\ at = SegmentsToExpect(myDataSize))]
               /\ wire' = rest \union {[id |-> ids, kind |-> "SegmentResponse", missing |-> missing]}
               /\ ids' = ids + 1
          ELSE /\ receiver' = [receiver EXCEPT !.myChunksLeft = left,
                                               !.myChunksLeftInTransit = inTransit]
               /\ wire' = rest
               /\ ids' = ids
  /\ Acknowledge(m)
  /\ UNCHANGED <<myDataSize, sender>>

(* Mutant of ReceiveResponse: the bits that are set are taken as received. *)
ReceiveResponseInverted(m) ==
  /\ m.kind = "SegmentResponse"
  /\ \E rest \in {wire, wire \ {m}} :
       /\ Taken(m, rest)
       /\ SendNextSegmentHeader(rest, hooks)
  /\ UNCHANGED <<myDataSize, receiver, myData, corrupted>>

(* Accept(SegmentResponse), at the sender. *)
ReceiveResponse(m) ==
  /\ m.kind = "SegmentResponse"
  /\ \E rest \in {wire, wire \ {m}} :
       /\ Taken(m, rest)
       /\ \/ /\ m.missing # {}
             /\ SendMissingChunks(sender.mySegmentCounter, m.missing, rest)
             /\ sender' = [sender EXCEPT !.myChunksLeft = m.missing]
             /\ UNCHANGED hooks
          \/ /\ m.missing = {} /\ sender.mySegmentCounter < LastSegment
             /\ SendNextSegmentHeader(rest, hooks)
  /\ UNCHANGED <<myDataSize, receiver, myData, corrupted>>

Next ==
  \/ \E h \in hooks : PeerAcceptedHead(h) \/ PeerAcceptedSegmentHeader(h)
  \/ \E m \in wire :
       ReceiveHead(m) \/ ReceiveDeclaration(m) \/ ReceiveChunk(m) \/ ReceiveResponse(m)

Spec == Init /\ [][Next]_vars

(* NetworkInterface hands over, and acknowledges, what it has been given. *)
LiveSpec == Spec /\ WF_vars(Next)

-----------------------------------------------------------------------------
(* Properties.                                                             *)

Chunks == {m \in wire : m.kind = "Chunk"}

(***************************************************************************)
(* myChunksLeftInTransit is the number of chunks still to come, whichever  *)
(* failed their checksum and were asked for again and in whichever order   *)
(* they come: the receiver answers after the last of them, and never while *)
(* one is on its way.  It takes that only the head is handed over twice.   *)
(***************************************************************************)
TransitIsCounted ==
  Chunks # {} => receiver.myChunksLeftInTransit = Cardinality(Chunks) % CharModulus

(***************************************************************************)
(* A chunk carries no segment number; it is right only because the segment *)
(* the receiver is filling is the one the chunk was cut from.              *)
(***************************************************************************)
ChunksAreForThisSegment == \A m \in Chunks : m.segment = receiver.mySegmentCounter

IntactUpTo(n) == \A s \in 0 .. n - 1 : \A i \in Indices : myData[s][i] = <<s, i>>

(***************************************************************************)
(* "All segments recieved ending transmission": when the receiver says so  *)
(* its memory holds the file.                                              *)
(***************************************************************************)
EndsWithWholeFile ==
  ~receiver.myIsComplete /\ receiver'.myIsComplete
    => IntactUpTo(SegmentsToSend(myDataSize))'

CompletesIntact == [][EndsWithWholeFile]_vars

(***************************************************************************)
(* The sender is not complete, and so free to be destroyed, before the     *)
(* receiver holds the file.                                                *)
(***************************************************************************)
SenderEndsAfterReceipt ==
  ~sender.myIsComplete /\ sender'.myIsComplete => IntactUpTo(SegmentsToSend(myDataSize))

SenderOutlivesTransfer == [][SenderEndsAfterReceipt]_vars

(***************************************************************************)
(* Neither side waits for the other: while segments are left something is  *)
(* on its way, or has been heard and is to be called back.                 *)
(***************************************************************************)
SomethingIsToCome ==
  sender.mySegmentCounter # SegmentsToSend(myDataSize)
    => wire # {} \/ \E h \in hooks : h.heard

(***************************************************************************)
(* The sender's end is the receiver's: when no segment is left both say    *)
(* so.  The receiver does not where the last segment is full, as its count *)
(* is rounded down and compared with an index.                             *)
(***************************************************************************)
EndsAgree ==
  sender.mySegmentCounter = SegmentsToSend(myDataSize) =>
    /\ sender.myIsComplete
    /\ myDataSize % CHUNKSPERSEGMENT # 0 => receiver.myIsComplete

(* One declaration, one response and all chunks for each segment, after    *)
(* the head; all chunks and one response for each chunk that was corrupted. *)
MessagesFor(segments, corruptions) ==
  1 + segments * (CHUNKSPERSEGMENT + 2) + corruptions * (CHUNKSPERSEGMENT + 1)

(***************************************************************************)
(* A corrupted chunk costs no more than another round of its segment,      *)
(* although a segment that fails its checksum is sent again as a whole     *)
(* and a chunk may fail again: a transfer sends finitely many messages.    *)
(***************************************************************************)
MessagesAreBounded == ids <= MessagesFor(SegmentsToSend(myDataSize), corrupted)

(***************************************************************************)
(* A transfer implements FileTransfer: segments are put in place in order, *)
(* the sender goes on and ends when they are, and the receiver ends when   *)
(* all are.                                                                *)
(***************************************************************************)
SegmentsInPlace ==
  {s \in 0 .. SegmentsToSend(myDataSize) - 1 : \A i \in Indices : myData[s][i] = <<s, i>>}

Confirmed == IF sender.mySegmentCounter = -1 THEN 0 ELSE sender.mySegmentCounter

Abstract == INSTANCE FileTransfer WITH
  count <- SegmentsToSend(myDataSize), inPlace <- SegmentsInPlace, confirmed <- Confirmed,
  senderEnded <- sender.myIsComplete, receiverEnded <- receiver.myIsComplete

ImplementsFileTransfer == Abstract!Spec

(***************************************************************************)
(* Once everything that was sent has been handed over both sides are       *)
(* complete, the receiver unless the last segment is full.                 *)
(***************************************************************************)
TransferCompletes ==
  <>(/\ sender.myIsComplete
     /\ myDataSize % CHUNKSPERSEGMENT # 0 => receiver.myIsComplete)
=============================================================================
