--------------------------- MODULE BigFileProofs ---------------------------
(* Theorems about BigFile, for files of any size, segments of any length   *)
(* and any order of delivery, as long as only the head comes twice.        *)
EXTENDS BigFile, FiniteSetTheorems, WellFoundedInduction, TLAPS

-----------------------------------------------------------------------------
(* The inductive invariant.                                                *)

(* What is on the wire besides the head. *)
Work == {m \in wire : m.kind # "Head"}

(* The sender is at a segment of the file, and those before it are right.  *)
UnderWay ==
  /\ sender.mySegmentCounter \in 0 .. SegmentsToSend(myDataSize) - 1
  /\ IntactUpTo(sender.mySegmentCounter)

(* The receiver is at the same segment, and knows its checksum.            *)
Agreed ==
  /\ UnderWay
  /\ receiver.mySegmentCounter = sender.mySegmentCounter
  /\ receiver.myChecksum = sender.mySegmentCounter

(* What a segment has cost before its declaration: as much as those before *)
(* it, and a round for each corrupted chunk.                               *)
Spent(segment) == MessagesFor(segment, corrupted)

(* A chunk is in place, or on its way.                                     *)
Holds(segment, i) == myData[segment][i] = <<segment, i>>
Covered(i) ==
  \/ \E m \in Work : m.index = i
  \/ i \notin receiver.myChunksLeft /\ Holds(sender.mySegmentCounter, i)

(* Nothing of this round is corrupted so far: unless it will be, nothing   *)
(* will be missing after it.                                               *)
RoundIsClean == \A i \in Indices : Covered(i)

LastIsPartial == myDataSize % CHUNKSPERSEGMENT # 0

(* The six states of a transfer: the head is announced; a segment is       *)
(* declared; the receiver expects its chunks; chunks are on their way; the *)
(* receiver has answered; all is over.                                     *)
Announced ==
  /\ sender.mySegmentCounter = -1 /\ receiver.mySegmentCounter = -1
  /\ Work = {}
  /\ \E h \in hooks : /\ hooks = {h} /\ h.id = 0 /\ h.callback = "PeerAcceptedHead"
                      /\ h.heard \/ wire # {}
  /\ ids = 1

Declared ==
  /\ UnderWay
  /\ receiver.mySegmentCounter = sender.mySegmentCounter - 1
  /\ sender.myChunksLeft = Indices
  /\ \E m \in Work, h \in hooks :
       /\ Work = {m} /\ m.kind = "SegmentDeclaration" /\ m.segment = sender.mySegmentCounter
       /\ hooks = {h} /\ h.callback = "PeerAcceptedSegmentHeader"
       /\ h.id = m.id /\ h.id # 0 /\ ~h.heard
  /\ ids <= Spent(sender.mySegmentCounter) + 1

Expecting ==
  /\ Agreed
  /\ sender.myChunksLeft = Indices
  /\ receiver.myChunksLeftInTransit = CHUNKSPERSEGMENT
  /\ Work = {}
  /\ \E h \in hooks : /\ hooks = {h} /\ h.id # 0 /\ h.callback = "PeerAcceptedSegmentHeader"
                      /\ h.heard
  /\ ids <= Spent(sender.mySegmentCounter) + 1

OnTheirWay ==
  /\ Agreed
  /\ hooks = {}
  /\ Work # {} /\ IsFiniteSet(Work) /\ Cardinality(Work) <= CHUNKSPERSEGMENT
  /\ \A m \in Work : m.kind = "Chunk" /\ m.segment = sender.mySegmentCounter
  /\ receiver.myChunksLeftInTransit = Cardinality(Work)
  /\ \/ ids <= Spent(sender.mySegmentCounter)
     \/ RoundIsClean /\ ids <= Spent(sender.mySegmentCounter) + 1 + CHUNKSPERSEGMENT

Answered ==
  /\ Agreed
  /\ hooks = {}
  /\ \E m \in Work :
       /\ Work = {m} /\ m.kind = "SegmentResponse"
       /\ receiver.myChunksLeftInTransit = Cardinality(m.missing)
       /\ receiver.myChunksLeft = m.missing
       /\ \A i \in Indices \ m.missing : Holds(sender.mySegmentCounter, i)
       /\ m.missing # {} => ids <= Spent(sender.mySegmentCounter) + 1
       /\ m.missing = {} =>
            /\ IntactUpTo(sender.mySegmentCounter + 1)
            /\ ids <= Spent(sender.mySegmentCounter + 1)
            /\ sender.mySegmentCounter + 1 = SegmentsToSend(myDataSize) /\ LastIsPartial
                 => receiver.myIsComplete

Over ==
  /\ hooks = {} /\ Work = {}
  /\ sender.mySegmentCounter = SegmentsToSend(myDataSize)
  /\ IntactUpTo(sender.mySegmentCounter)
  /\ ids <= Spent(sender.mySegmentCounter)
  /\ sender.myIsComplete
  /\ LastIsPartial => receiver.myIsComplete

Phases == Announced \/ Declared \/ Expecting \/ OnTheirWay \/ Answered \/ Over

(* The head has the first id, which no callback but its own waits for.     *)
HeadIsFirst == ids >= 1 /\ \A m \in wire : m.kind = "Head" => m.id = 0

HooksTyped ==
  \A h \in hooks : h \in [id : Nat, callback : {"PeerAcceptedHead", "PeerAcceptedSegmentHeader"},
                          heard : BOOLEAN]

IInv == TypeOK /\ HooksTyped /\ HeadIsFirst /\ Phases

-----------------------------------------------------------------------------
(* Lemmas about numbers.                                                   *)

(* A finite set of naturals has a largest element: the sets of larger ones *)
(* are well founded by inclusion.                                          *)
LEMMA LargestExists == Max(Sizes) \in Sizes /\ \A n \in Sizes : Max(Sizes) >= n
<1> DEFINE Larger(n) == {x \in Sizes : x > n}
           T == {Larger(n) : n \in Sizes}
<1>1. IsWellFoundedOn(StrictSubsetOrdering(Sizes), FiniteSubsetsOf(Sizes))
  BY FS_StrictSubsetOrderingWellFounded
<1>2. T \subseteq FiniteSubsetsOf(Sizes) /\ T # {}
  <2>1. ASSUME NEW n \in Sizes PROVE Larger(n) \in FiniteSubsetsOf(Sizes)
    <3>1. Larger(n) \subseteq Sizes
      OBVIOUS
    <3> HIDE DEF Larger
    <3>2. IsFiniteSet(Larger(n))
      BY <3>1, SizesAssumption, FS_Subset
    <3>3. QED
      BY <3>1, <3>2 DEF FiniteSubsetsOf
  <2> HIDE DEF Larger
  <2>2. QED
    BY <2>1, SizesAssumption
<1>3. \E X \in T : \A Y \in T : ~(<<Y, X>> \in StrictSubsetOrdering(Sizes))
  <2> HIDE DEF T
  <2>1. QED
    BY <1>1, <1>2, WFMin
<1>4. PICK n \in Sizes :
        \A k \in Sizes : ~(<<Larger(k), Larger(n)>> \in StrictSubsetOrdering(Sizes))
  BY <1>3
<1>5. ASSUME NEW y \in Sizes, y > n PROVE FALSE
  <2>1. y \in Nat /\ n \in Nat
    BY SizesAssumption
  <2>2. y \in Larger(n) /\ y \notin Larger(y)
    BY <1>5, <2>1
  <2>3. ASSUME NEW x \in Sizes, x > y PROVE x > n
    BY <1>5, <2>1, <2>3, SizesAssumption
  <2>4. Larger(y) \subseteq Larger(n) /\ Larger(n) \subseteq Sizes
    BY <2>3
  <2> HIDE DEF Larger
  <2>5. Larger(y) # Larger(n) /\ Larger(y) \subseteq Sizes
    BY <2>2, <2>4
  <2>6. QED
    BY <1>4, <2>4, <2>5 DEF StrictSubsetOrdering
<1>6. \A y \in Sizes : n >= y
  BY <1>5, SizesAssumption
<1>7. QED
  BY <1>6 DEF Max

LEMMA DivType ==
  ASSUME NEW a \in Nat, NEW b \in Nat \ {0}
  PROVE  a \div b \in Nat
  OBVIOUS

LEMMA SegmentsType ==
  /\ SegmentsToSend(Max(Sizes)) \in Nat /\ LastSegment \in Nat
  /\ \A size \in Sizes : SegmentsToSend(size) \in Nat /\ SegmentsToExpect(size) \in Nat
<1>1. \A size \in Sizes : size \in Nat /\ size + CHUNKSPERSEGMENT - 1 \in Nat
  BY SizesAssumption
<1>2. \A size \in Sizes : SegmentsToSend(size) \in Nat /\ SegmentsToExpect(size) \in Nat
  BY <1>1, DivType, SizesAssumption DEF SegmentsToSend, SegmentsToExpect
<1>3. QED
  BY <1>2, LargestExists, BoundsAssumption DEF LastSegment

(* Rounding up gives at most one more than rounding down. *)
LEMMA RoundedUpByOne ==
  ASSUME NEW size \in Sizes
  PROVE  SegmentsToSend(size) <= SegmentsToExpect(size) + 1
<1> DEFINE b == CHUNKSPERSEGMENT
           up == SegmentsToSend(size)
           down == SegmentsToExpect(size)
<1>1. size \in Nat /\ b \in Nat \ {0}
  BY SizesAssumption
<1>2. down \in Nat /\ up \in Nat
  BY SegmentsType
<1>3. size < b * down + b
  BY <1>1, <1>2 DEF SegmentsToExpect
<1>4. b * up <= size + b - 1
  BY <1>1, <1>2 DEF SegmentsToSend
<1> HIDE DEF b, up, down
<1>5. ASSUME up >= down + 2 PROVE FALSE
  <2>1. PICK more \in Nat : up = down + 2 + more
    <3>1. up - down - 2 \in Nat /\ up = down + 2 + (up - down - 2)
      BY <1>2, <1>5
    <3>2. QED
      BY <3>1
  <2>2. b * up = b * down + 2 * b + b * more /\ b * more >= 0
    BY <1>1, <1>2, <2>1
  <2>3. QED
    BY <1>1, <1>2, <1>3, <1>4, <2>1, <2>2
<1>6. up <= down + 1
  BY <1>2, <1>5
<1>7. QED
  BY <1>6 DEF up, down

(* Exactly one more, where the last segment is not full. *)
LEMMA RoundedUpIfPartial ==
  ASSUME NEW size \in Sizes, size % CHUNKSPERSEGMENT # 0
  PROVE  SegmentsToSend(size) = SegmentsToExpect(size) + 1
<1> DEFINE b == CHUNKSPERSEGMENT
           up == SegmentsToSend(size)
           down == SegmentsToExpect(size)
           r == size % b
<1>1. size \in Nat /\ b \in Nat \ {0}
  BY SizesAssumption
<1>2. down \in Nat /\ up \in Nat
  BY SegmentsType
<1>3. size = b * down + r /\ r \in 0 .. b - 1
  BY <1>1, <1>2 DEF SegmentsToExpect
<1>4. size + b - 1 < b * up + b
  BY <1>1, <1>2 DEF SegmentsToSend
<1>5. r >= 1
  BY <1>1, <1>3
<1> HIDE DEF b, up, down, r
<1>6. b * down < b * up
  BY <1>1, <1>2, <1>3, <1>4, <1>5
<1>7. up >= down + 1
  <2>1. ASSUME down >= up PROVE FALSE
    <3>1. PICK more \in Nat : down = up + more
      <4>1. down - up \in Nat /\ down = up + (down - up)
        BY <1>2, <2>1
      <4>2. QED
        BY <4>1
    <3>2. b * down = b * up + b * more /\ b * more >= 0
      BY <1>1, <1>2, <3>1
    <3>3. QED
      BY <1>1, <1>2, <1>6, <3>1, <3>2
  <2>2. QED
    BY <1>2, <2>1
<1>8. up <= down + 1
  BY RoundedUpByOne DEF up, down
<1>9. QED
  BY <1>2, <1>7, <1>8 DEF up, down

(* A file has no more segments than the largest one. *)
LEMMA SegmentsFit ==
  ASSUME NEW size \in Sizes
  PROVE  /\ 0 .. SegmentsToSend(size) - 1 \subseteq Segments
         /\ SegmentsToSend(size) <= LastSegment
<1>1. Max(Sizes) \in Sizes /\ size <= Max(Sizes) /\ size \in Nat /\ Max(Sizes) \in Nat
  BY LargestExists, SizesAssumption
<1>2. PICK largest \in Nat : largest = Max(Sizes) /\ size <= largest
  BY <1>1
<1> DEFINE b == CHUNKSPERSEGMENT
           up == SegmentsToSend(size)
           most == SegmentsToSend(largest)
<1>3. b \in Nat \ {0} /\ up \in Nat /\ most \in Nat /\ LastSegment = most + Repeats
  BY <1>2, SegmentsType, SizesAssumption DEF LastSegment
<1>4. b * up <= size + b - 1
  BY <1>3, <1>1 DEF SegmentsToSend
<1>5. largest + b - 1 < b * most + b
  BY <1>2, <1>3 DEF SegmentsToSend
<1> HIDE DEF b, up, most
<1>6. b * up < b * most + b
  BY <1>1, <1>2, <1>3, <1>4, <1>5
<1>7. up <= most
  <2>1. ASSUME up >= most + 1 PROVE FALSE
    <3>1. PICK more \in Nat : up = most + 1 + more
      <4>1. up - most - 1 \in Nat /\ up = most + 1 + (up - most - 1)
        BY <1>3, <2>1
      <4>2. QED
        BY <4>1
    <3>2. b * up = b * most + b + b * more /\ b * more >= 0
      BY <1>3, <3>1
    <3>3. QED
      BY <1>3, <1>6, <3>1, <3>2
  <2>2. QED
    BY <1>3, <2>1
<1>8. up <= LastSegment
  BY <1>3, <1>7, BoundsAssumption
<1>9. QED
  BY <1>3, <1>8, SegmentsType DEF up, Segments

(* What another segment, and another corrupted chunk, may cost. *)
LEMMA MessagesForNext ==
  ASSUME NEW n \in Nat, NEW c \in Nat
  PROVE  /\ MessagesFor(n, c) \in Nat
         /\ MessagesFor(n + 1, c) = MessagesFor(n, c) + CHUNKSPERSEGMENT + 2
         /\ MessagesFor(n, c + 1) = MessagesFor(n, c) + CHUNKSPERSEGMENT + 1
<1>1. CHUNKSPERSEGMENT \in Nat
  BY SizesAssumption
<1>2. /\ (n + 1) * (CHUNKSPERSEGMENT + 2) = n * (CHUNKSPERSEGMENT + 2) + CHUNKSPERSEGMENT + 2
      /\ n * (CHUNKSPERSEGMENT + 2) \in Nat
  BY <1>1
<1>3. /\ (c + 1) * (CHUNKSPERSEGMENT + 1) = c * (CHUNKSPERSEGMENT + 1) + CHUNKSPERSEGMENT + 1
      /\ c * (CHUNKSPERSEGMENT + 1) \in Nat
  BY <1>1
<1>4. QED
  BY <1>1, <1>2, <1>3 DEF MessagesFor

LEMMA MessagesForGrows ==
  ASSUME NEW n \in Nat, NEW k \in Nat, n <= k, NEW c \in Nat
  PROVE  MessagesFor(n, c) <= MessagesFor(k, c)
<1>1. CHUNKSPERSEGMENT \in Nat
  BY SizesAssumption
<1>2. PICK more \in Nat : k = n + more
  <2>1. k - n \in Nat /\ k = n + (k - n)
    OBVIOUS
  <2>2. QED
    BY <2>1
<1>3. k * (CHUNKSPERSEGMENT + 2) = n * (CHUNKSPERSEGMENT + 2) + more * (CHUNKSPERSEGMENT + 2)
      /\ n * (CHUNKSPERSEGMENT + 2) \in Nat /\ more * (CHUNKSPERSEGMENT + 2) \in Nat
  BY <1>1, <1>2
<1>4. c * (CHUNKSPERSEGMENT + 1) \in Nat
  BY <1>1
<1>5. QED
  BY <1>1, <1>3, <1>4 DEF MessagesFor

(* A count of chunks fits into a char. *)
LEMMA CharHolds ==
  ASSUME NEW n \in 0 .. CHUNKSPERSEGMENT
  PROVE  n % CharModulus = n
  BY SizesAssumption

LEMMA SpentType ==
  ASSUME TypeOK, NEW n \in Nat
  PROVE  Spent(n) \in Nat /\ Spent(n + 1) = Spent(n) + CHUNKSPERSEGMENT + 2 /\ corrupted \in Nat
<1>1. corrupted \in Nat
  BY BoundsAssumption DEF TypeOK
<1>2. QED
  BY <1>1, MessagesForNext DEF Spent

-----------------------------------------------------------------------------
(* Lemmas about messages.                                                  *)

LEMMA ChunksOfSegment == IsFiniteSet(Indices) /\ Cardinality(Indices) = CHUNKSPERSEGMENT
<1>1. 0 \in Int /\ CHUNKSPERSEGMENT - 1 \in Int /\ 0 <= CHUNKSPERSEGMENT - 1
  BY SizesAssumption
<1>2. QED
  BY <1>1, FS_Interval, SizesAssumption DEF Indices

LEMMA SomeChunks ==
  ASSUME NEW left \in SUBSET Indices
  PROVE  IsFiniteSet(left) /\ Cardinality(left) \in 0 .. CHUNKSPERSEGMENT
  BY ChunksOfSegment, FS_Subset, FS_CardinalityType, SizesAssumption

(* SendMissingChunks: one message for each. *)
LEMMA SentChunks ==
  ASSUME NEW segment \in Segments, NEW left \in SUBSET Indices, NEW rest,
         ids \in Nat, SendMissingChunks(segment, left, rest)
  PROVE  \E chunks :
           /\ wire' = rest \union chunks
           /\ \A m \in chunks : m \in Message /\ m.kind = "Chunk" /\ m.segment = segment
           /\ IsFiniteSet(chunks) /\ Cardinality(chunks) = Cardinality(left)
           /\ left # {} => chunks # {}
           /\ \A i \in left : \E m \in chunks : m.index = i
           /\ ids' \in Nat /\ ids' >= ids /\ ids' <= ids + CHUNKSPERSEGMENT
<1> DEFINE place(i) == Cardinality({j \in left : j < i})
           msg(i) == [id |-> ids + place(i), kind |-> "Chunk", segment |-> segment, index |-> i]
           chunks == {msg(i) : i \in left}
           f == [i \in left |-> msg(i)]
<1>1. ASSUME NEW i \in left PROVE msg(i) \in Message /\ msg(i).index = i
  <2>1. place(i) \in Nat
    BY SomeChunks, FS_Subset, FS_CardinalityType
  <2> HIDE DEF place
  <2>2. ids + place(i) \in Nat /\ i \in Indices
    BY <2>1
  <2>3. QED
    BY <2>2 DEF Message
<1> HIDE DEF place
<1>2. f \in Bijection(left, chunks)
  <2>1. f \in [left -> chunks] /\ \A m \in chunks : \E i \in left : f[i] = m
    OBVIOUS
  <2>2. ASSUME NEW i \in left, NEW j \in left, f[i] = f[j] PROVE i = j
    BY <1>1, <2>2
  <2>3. QED
    BY <2>1, <2>2 DEF Bijection, Injection, Surjection, IsInjective
<1>3. IsFiniteSet(chunks) /\ Cardinality(chunks) = Cardinality(left)
  BY <1>2, SomeChunks, FS_Bijection DEF ExistsBijection
<1>4. wire' = rest \union chunks /\ ids' = ids + Cardinality(left)
  BY DEF SendMissingChunks, place
<1>5. ids' \in Nat /\ ids' >= ids /\ ids' <= ids + CHUNKSPERSEGMENT
  BY <1>4, SomeChunks, SizesAssumption
<1>6. \A m \in chunks : m \in Message /\ m.kind = "Chunk" /\ m.segment = segment
  BY <1>1
<1>7. left # {} => chunks # {}
  OBVIOUS
<1>8. \A i \in left : \E m \in chunks : m.index = i
  BY <1>1
<1> HIDE DEF chunks
<1>9. QED
  BY <1>3, <1>4, <1>5, <1>6, <1>7, <1>8

-----------------------------------------------------------------------------
(* The steps of the transfer.                                              *)

(* Only the head comes twice. *)
HeadsOnly == Repeatable \subseteq {"Head"}

LEMMA TakenOnce ==
  ASSUME TypeOK, NEW m \in wire, NEW rest, Taken(m, rest)
  PROVE  /\ repeated' \in 0 .. Repeats /\ repeated' >= repeated
         /\ rest = wire \/ rest = wire \ {m}
         /\ HeadsOnly /\ m.kind # "Head" => rest = wire \ {m}
<1>1. repeated \in 0 .. Repeats /\ Repeats \in Nat
  BY BoundsAssumption DEF TypeOK
<1>2. CASE rest = wire \ {m} /\ repeated' = repeated
  BY <1>1, <1>2
<1>3. CASE m.kind \in Repeatable /\ repeated < Repeats /\ rest = wire /\ repeated' = repeated + 1
  <2>1. repeated' \in 0 .. Repeats /\ repeated' >= repeated
    BY <1>1, <1>3
  <2>2. ~(HeadsOnly /\ m.kind # "Head")
    BY <1>3 DEF HeadsOnly
  <2>3. QED
    BY <1>3, <2>1, <2>2
<1>4. QED
  BY <1>2, <1>3 DEF Taken

(* The next segment is declared, or there is none. *)
LEMMA NextSegment ==
  ASSUME TypeOK, HeadIsFirst, NEW rest \in SUBSET wire, \A m \in rest : m.kind = "Head",
         SendNextSegmentHeader(rest, {}),
         sender.mySegmentCounter + 1 \in 0 .. SegmentsToSend(myDataSize),
         sender.mySegmentCounter + 1 \in Segments,
         receiver.mySegmentCounter = sender.mySegmentCounter,
         IntactUpTo(sender.mySegmentCounter + 1),
         ids <= Spent(sender.mySegmentCounter + 1),
         sender.mySegmentCounter + 1 = SegmentsToSend(myDataSize) /\ LastIsPartial
           => receiver.myIsComplete,
         UNCHANGED <<myDataSize, receiver, myData, corrupted>>
  PROVE  /\ sender' \in Sender /\ sender'.mySegmentCounter <= SegmentsToSend(myDataSize)
         /\ (\A m \in wire' : m \in Message) /\ ids' \in Nat
         /\ HooksTyped' /\ HeadIsFirst' /\ Phases'
<1> DEFINE segment == sender.mySegmentCounter + 1
           declaration == [id |-> ids, kind |-> "SegmentDeclaration", segment |-> segment]
           hook == [id |-> ids, callback |-> "PeerAcceptedSegmentHeader", heard |-> FALSE]
<1>1. myDataSize \in Sizes /\ SegmentsToSend(myDataSize) \in Nat /\ segment \in Int
  BY SegmentsType DEF TypeOK
<1>2. \A m \in rest : m \in Message /\ m.id = 0
  BY DEF TypeOK, HeadIsFirst
<1>3. sender \in Sender /\ ids \in Nat /\ ids >= 1
  BY DEF TypeOK, HeadIsFirst
<1>4. CASE segment = SegmentsToSend(myDataSize)
  <2>1. /\ sender' = [sender EXCEPT !.mySegmentCounter = segment, !.myIsComplete = TRUE]
        /\ wire' = rest /\ hooks' = {} /\ ids' = ids
    BY <1>4 DEF SendNextSegmentHeader
  <2>2. /\ sender' \in Sender /\ sender'.mySegmentCounter = segment
        /\ sender'.myIsComplete = TRUE
    BY <1>3, <2>1 DEF Sender
  <2>3. Work' = {}
    BY <2>1 DEF Work
  <2>4. PICK n : n = segment
    OBVIOUS
  <2>10. IntactUpTo(n) /\ ids <= Spent(n)
    BY <2>4
  <2>11. sender'.mySegmentCounter = n
    BY <2>2, <2>4
  <2> HIDE DEF segment
  <2>7. IntactUpTo(sender.mySegmentCounter)' /\ ids' <= Spent(sender.mySegmentCounter)'
    BY <2>1, <2>10, <2>11 DEF IntactUpTo, Spent
  <2>8. LastIsPartial' => receiver'.myIsComplete
    BY <1>4 DEF LastIsPartial, segment
  <2>9. Over'
    BY <1>4, <2>1, <2>2, <2>3, <2>7, <2>8 DEF Over, SegmentsToSend
  <2>5. HeadIsFirst' /\ HooksTyped'
    BY <1>2, <1>3, <2>1 DEF HeadIsFirst, HooksTyped
  <2>6. QED
    BY <1>1, <1>2, <1>3, <1>4, <2>1, <2>2, <2>9, <2>5 DEF Phases
<1>5. CASE segment # SegmentsToSend(myDataSize)
  <2>1. /\ sender' = [sender EXCEPT !.mySegmentCounter = segment, !.myChunksLeft = Indices]
        /\ wire' = rest \union {declaration} /\ hooks' = {hook} /\ ids' = ids + 1
    BY <1>5 DEF SendNextSegmentHeader
  <2>2. /\ sender' \in Sender /\ sender'.mySegmentCounter = segment
        /\ sender'.myChunksLeft = Indices
    BY <1>3, <2>1 DEF Sender
  <2>3. declaration \in Message
    BY <1>3 DEF Message
  <2>4. Work' = {declaration}
    BY <2>1 DEF Work
  <2>5. UnderWay'
    <3>1. segment \in 0 .. SegmentsToSend(myDataSize) - 1
      BY <1>1, <1>5
    <3>2. \A s \in 0 .. segment - 1 : \A i \in Indices : myData'[s][i] = <<s, i>>
      BY DEF IntactUpTo
    <3> HIDE DEF segment
    <3>3. IntactUpTo(sender.mySegmentCounter)'
      BY <2>2, <3>2 DEF IntactUpTo
    <3>4. QED
      BY <2>2, <3>1, <3>3 DEF UnderWay, SegmentsToSend
  <2>6. receiver'.mySegmentCounter = sender'.mySegmentCounter - 1
    BY <1>1, <1>3, <2>2 DEF Sender, Segments
  <2>7. Declared'
    <3>1. \E m \in Work', h \in hooks' :
            /\ Work' = {m} /\ m.kind = "SegmentDeclaration"
            /\ m.segment = sender'.mySegmentCounter
            /\ hooks' = {h} /\ h.callback = "PeerAcceptedSegmentHeader"
            /\ h.id = m.id /\ h.id # 0 /\ ~h.heard
      BY <1>3, <2>1, <2>2, <2>4
    <3>2. PICK n \in Nat : n = segment
      BY <1>1
    <3>3. Spent(n) \in Nat /\ ids <= Spent(n)
      BY <3>2, SpentType
    <3>4. ids' <= Spent(sender.mySegmentCounter)' + 1
      <4>1. Spent(sender.mySegmentCounter)' = Spent(n)
        BY <2>2, <3>2 DEF Spent
      <4>2. ids' = ids + 1
        BY <2>1
      <4>3. QED
        BY <1>3, <3>3, <4>1, <4>2
    <3>5. QED
      BY <2>2, <2>5, <2>6, <3>1, <3>4 DEF Declared
  <2>8. HeadIsFirst' /\ HooksTyped'
    BY <1>2, <1>3, <2>1 DEF HeadIsFirst, HooksTyped
  <2>9. QED
    BY <1>1, <1>2, <1>3, <2>1, <2>2, <2>3, <2>7, <2>8 DEF Phases
<1>6. QED
  BY <1>4, <1>5

(* Chunks are sent to a receiver that expects as many. *)
LEMMA ChunksGo ==
  ASSUME TypeOK, HeadIsFirst, NEW left \in SUBSET Indices, left # {},
         NEW rest \in SUBSET wire, \A m \in rest : m.kind = "Head",
         SendMissingChunks(sender.mySegmentCounter, left, rest),
         Agreed, sender'.mySegmentCounter = sender.mySegmentCounter,
         receiver.myChunksLeftInTransit = Cardinality(left),
         \A i \in Indices \ left :
           i \notin receiver.myChunksLeft /\ Holds(sender.mySegmentCounter, i),
         ids <= Spent(sender.mySegmentCounter) + 1,
         UNCHANGED <<myDataSize, receiver, myData, corrupted>>, hooks' = {}
  PROVE  /\ \A m \in wire' : m \in Message
         /\ ids' \in Nat /\ HooksTyped' /\ HeadIsFirst' /\ Phases'
<1>1. sender.mySegmentCounter \in Segments
  BY SegmentsType DEF Agreed, UnderWay, TypeOK, Sender, Segments
<1>2. PICK chunks :
        /\ wire' = rest \union chunks
        /\ \A m \in chunks : /\ m \in Message /\ m.kind = "Chunk"
                             /\ m.segment = sender.mySegmentCounter
        /\ IsFiniteSet(chunks) /\ Cardinality(chunks) = Cardinality(left)
        /\ chunks # {}
        /\ \A i \in left : \E m \in chunks : m.index = i
        /\ ids' \in Nat /\ ids' >= ids /\ ids' <= ids + CHUNKSPERSEGMENT
  BY <1>1, SentChunks DEF TypeOK
<1>3. Work' = chunks
  BY <1>2 DEF Work
<1>4. Cardinality(chunks) <= CHUNKSPERSEGMENT
  BY <1>2, SomeChunks
<1>5. Agreed'
  BY DEF Agreed, UnderWay, IntactUpTo, SegmentsToSend
<1>6. RoundIsClean'
  <2>1. ASSUME NEW i \in Indices, i \in left PROVE Covered(i)'
    BY <1>2, <1>3, <2>1 DEF Covered
  <2>2. ASSUME NEW i \in Indices, i \notin left PROVE Covered(i)'
    <3>1. i \notin receiver'.myChunksLeft /\ Holds(sender.mySegmentCounter, i)
      BY <2>2
    <3>2. Holds(sender.mySegmentCounter, i)'
      BY <3>1 DEF Holds
    <3>3. QED
      BY <3>1, <3>2 DEF Covered
  <2>3. QED
    BY <2>1, <2>2 DEF RoundIsClean
<1>7. ids' <= Spent(sender.mySegmentCounter)' + 1 + CHUNKSPERSEGMENT
  <2>1. sender.mySegmentCounter \in Nat /\ corrupted \in Nat /\ ids \in Nat
    BY SegmentsType, BoundsAssumption DEF Agreed, UnderWay, TypeOK
  <2>2. Spent(sender.mySegmentCounter) \in Nat
    BY <2>1, MessagesForNext DEF Spent
  <2>3. Spent(sender.mySegmentCounter)' = Spent(sender.mySegmentCounter)
    BY DEF Spent
  <2>4. QED
    BY <1>2, <2>1, <2>2, <2>3, SizesAssumption
<1>8. OnTheirWay'
  BY <1>2, <1>3, <1>4, <1>5, <1>6, <1>7 DEF OnTheirWay
<1>9. HeadIsFirst' /\ HooksTyped'
  BY <1>2 DEF HeadIsFirst, HooksTyped, TypeOK
<1>10. QED
  BY <1>2, <1>8, <1>9 DEF Phases, TypeOK

(* What is on the wire, or hooked, tells the phase. *)
LEMMA PhaseOfHook ==
  ASSUME Phases, NEW h \in hooks
  PROVE  /\ h.callback = "PeerAcceptedHead" => Announced /\ hooks = {h}
         /\ h.callback = "PeerAcceptedSegmentHeader" /\ h.heard => Expecting /\ hooks = {h}
<1>1. CASE Announced
  <2>1. PICK k \in hooks : /\ hooks = {k} /\ k.id = 0 /\ k.callback = "PeerAcceptedHead"
                           /\ k.heard \/ wire # {}
    BY <1>1 DEF Announced
  <2>2. QED
    BY <1>1, <2>1
<1>2. CASE Declared
  <2>1. PICK k \in hooks : hooks = {k} /\ k.callback = "PeerAcceptedSegmentHeader" /\ ~k.heard
    BY <1>2 DEF Declared
  <2>2. QED
    BY <2>1
<1>3. CASE Expecting
  BY <1>3 DEF Expecting
<1>4. CASE OnTheirWay \/ Answered \/ Over
  BY <1>4 DEF OnTheirWay, Answered, Over
<1>5. QED
  BY <1>1, <1>2, <1>3, <1>4 DEF Phases

LEMMA PhaseOfMessage ==
  ASSUME Phases, NEW m \in wire
  PROVE  /\ m.kind = "SegmentDeclaration" => Declared /\ Work = {m}
         /\ m.kind = "Chunk" => OnTheirWay
         /\ m.kind = "SegmentResponse" => Answered /\ Work = {m}
<1>1. m.kind # "Head" => m \in Work
  BY DEF Work
<1>2. CASE Announced \/ Expecting \/ Over
  BY <1>1, <1>2 DEF Announced, Expecting, Over
<1>3. CASE Declared
  BY <1>1, <1>3 DEF Declared
<1>4. CASE OnTheirWay
  BY <1>1, <1>4 DEF OnTheirWay
<1>5. CASE Answered
  BY <1>1, <1>5 DEF Answered
<1>6. QED
  BY <1>2, <1>3, <1>4, <1>5 DEF Phases

LEMMA PeerAcceptedHeadStep ==
  ASSUME IInv, NEW h \in hooks, PeerAcceptedHead(h)
  PROVE  IInv'
<1>1. Announced /\ hooks = {h}
  BY PhaseOfHook DEF IInv, PeerAcceptedHead
<1>2. /\ SendNextSegmentHeader(wire, {})
      /\ UNCHANGED <<myDataSize, receiver, myData, corrupted, repeated>>
  BY <1>1 DEF PeerAcceptedHead
<1>3. \A m \in wire : m.kind = "Head"
  BY <1>1 DEF Announced, Work
<1>4. sender.mySegmentCounter + 1 = 0 /\ receiver.mySegmentCounter = sender.mySegmentCounter
  BY <1>1 DEF Announced
<1>5. /\ sender.mySegmentCounter + 1 \in 0 .. SegmentsToSend(myDataSize)
      /\ sender.mySegmentCounter + 1 \in Segments
  BY <1>4, SegmentsType DEF Segments, IInv, TypeOK
<1>6. IntactUpTo(sender.mySegmentCounter + 1)
  BY <1>4 DEF IntactUpTo
<1>7. ids <= Spent(sender.mySegmentCounter + 1)
  <2>1. corrupted \in Nat
    BY SpentType DEF IInv
  <2>2. MessagesFor(0, corrupted) >= 1
    <3>1. CHUNKSPERSEGMENT \in Nat
      BY SizesAssumption
    <3>2. 0 * (CHUNKSPERSEGMENT + 2) = 0 /\ corrupted * (CHUNKSPERSEGMENT + 1) \in Nat
      BY <2>1, <3>1
    <3>3. QED
      BY <3>1, <3>2 DEF MessagesFor
  <2>3. QED
    BY <1>1, <1>4, <2>2 DEF Announced, Spent
<1>8. sender.mySegmentCounter + 1 = SegmentsToSend(myDataSize) => ~LastIsPartial
  <2>1. myDataSize \in Sizes
    BY DEF IInv, TypeOK
  <2>2. ASSUME LastIsPartial PROVE SegmentsToSend(myDataSize) >= 1
    <3>1. SegmentsToSend(myDataSize) = SegmentsToExpect(myDataSize) + 1
      BY <2>1, <2>2, RoundedUpIfPartial DEF LastIsPartial
    <3>2. QED
      BY <2>1, <3>1, SegmentsType
  <2>3. QED
    BY <1>4, <2>2
<1>9. /\ sender' \in Sender /\ sender'.mySegmentCounter <= SegmentsToSend(myDataSize)
      /\ (\A m \in wire' : m \in Message) /\ ids' \in Nat
      /\ HooksTyped' /\ HeadIsFirst' /\ Phases'
  BY <1>2, <1>3, <1>4, <1>5, <1>6, <1>7, <1>8, NextSegment DEF IInv
<1>10. sender'.mySegmentCounter <= SegmentsToSend(myDataSize) + repeated
  BY <1>9, SegmentsType, BoundsAssumption DEF IInv, TypeOK, Sender, Segments
<1>11. QED
  BY <1>2, <1>9, <1>10 DEF IInv, TypeOK, HooksTyped, SegmentsToSend

LEMMA PeerAcceptedSegmentHeaderStep ==
  ASSUME IInv, NEW h \in hooks, PeerAcceptedSegmentHeader(h)
  PROVE  IInv'
<1>1. Expecting /\ hooks = {h}
  BY PhaseOfHook DEF IInv, PeerAcceptedSegmentHeader
<1>2. /\ SendMissingChunks(sender.mySegmentCounter, Indices, wire)
      /\ hooks' = {}
      /\ UNCHANGED <<myDataSize, sender, receiver, myData, corrupted, repeated>>
  BY <1>1 DEF PeerAcceptedSegmentHeader, Expecting
<1>3. Indices # {} /\ receiver.myChunksLeftInTransit = Cardinality(Indices)
  <2>1. 0 \in Indices
    BY SizesAssumption DEF Indices
  <2>2. QED
    BY <1>1, <2>1, ChunksOfSegment DEF Expecting
<1>4. \A m \in wire : m.kind = "Head"
  BY <1>1 DEF Expecting, Work
<1>5. /\ (\A m \in wire' : m \in Message) /\ ids' \in Nat
      /\ HooksTyped' /\ HeadIsFirst' /\ Phases'
  <2>1. \A i \in Indices \ Indices :
          i \notin receiver.myChunksLeft /\ Holds(sender.mySegmentCounter, i)
    OBVIOUS
  <2>2. Agreed /\ ids <= Spent(sender.mySegmentCounter) + 1
    BY <1>1 DEF Expecting
  <2>3. QED
    BY <1>2, <1>3, <1>4, <2>1, <2>2, ChunksGo DEF IInv
<1>6. QED
  BY <1>2, <1>5 DEF IInv, TypeOK, HooksTyped, SegmentsToSend

(* Hearing the head again changes nothing but the head's own callback. *)
LEMMA ReceiveHeadStep ==
  ASSUME IInv, NEW m \in wire, ReceiveHead(m)
  PROVE  IInv'
<1>1. m.kind = "Head" /\ m.id = 0
  BY DEF ReceiveHead, IInv, HeadIsFirst
<1>2. PICK rest : Taken(m, rest) /\ wire' = rest
  BY DEF ReceiveHead
<1>3. /\ repeated' \in 0 .. Repeats /\ repeated' >= repeated
      /\ wire' \subseteq wire /\ Work' = Work
  <2>1. /\ repeated' \in 0 .. Repeats /\ repeated' >= repeated
        /\ rest = wire \/ rest = wire \ {m}
    BY <1>2, TakenOnce DEF IInv
  <2>2. QED
    BY <1>1, <1>2, <2>1 DEF Work
<1>4. /\ receiver' = [receiver EXCEPT !.made = TRUE]
      /\ UNCHANGED <<myDataSize, sender, myData, ids, corrupted>>
  BY DEF ReceiveHead
<1>5. /\ receiver' \in Receiver
      /\ receiver'.mySegmentCounter = receiver.mySegmentCounter
      /\ receiver'.myChecksum = receiver.myChecksum
      /\ receiver'.myChunksLeftInTransit = receiver.myChunksLeftInTransit
      /\ receiver'.myChunksLeft = receiver.myChunksLeft
      /\ receiver'.myIsComplete = receiver.myIsComplete
  BY <1>4 DEF IInv, TypeOK, Receiver
<1>6. /\ Spent(sender.mySegmentCounter)' = Spent(sender.mySegmentCounter)
       /\ Spent(sender.mySegmentCounter + 1)' = Spent(sender.mySegmentCounter + 1)
       /\ IntactUpTo(sender.mySegmentCounter)' = IntactUpTo(sender.mySegmentCounter)
       /\ IntactUpTo(sender.mySegmentCounter + 1)' = IntactUpTo(sender.mySegmentCounter + 1)
       /\ \A i : Holds(sender.mySegmentCounter, i)' = Holds(sender.mySegmentCounter, i)
       /\ LastIsPartial' = LastIsPartial
       /\ SegmentsToSend(myDataSize)' = SegmentsToSend(myDataSize)
  BY <1>4 DEF Spent, IntactUpTo, Holds, LastIsPartial, SegmentsToSend
<1>7. RoundIsClean' = RoundIsClean
  BY <1>3, <1>5, <1>6 DEF RoundIsClean, Covered
<1>8. hooks' = {IF h.id = 0 THEN [h EXCEPT !.heard = TRUE] ELSE h : h \in hooks}
  BY <1>1 DEF ReceiveHead, Acknowledge
<1>9. HooksTyped'
  BY <1>8 DEF IInv, HooksTyped
<1>10. TypeOK'
  <2>1. sender.mySegmentCounter <= SegmentsToSend(myDataSize) + repeated'
    BY <1>3, SegmentsType, BoundsAssumption DEF IInv, TypeOK, Sender, Segments
  <2>2. QED
    BY <1>3, <1>4, <1>5, <1>9, <2>1 DEF IInv, TypeOK, HooksTyped, SegmentsToSend
<1>11. HeadIsFirst'
  BY <1>3, <1>4 DEF IInv, HeadIsFirst
<1>12. UnderWay => UnderWay'
  BY <1>4 DEF UnderWay, IntactUpTo, SegmentsToSend
<1>13. Agreed => Agreed'
  BY <1>4, <1>5, <1>12 DEF Agreed
<1>14. (\A h \in hooks : h.id # 0) => hooks' = hooks
  BY <1>8
<1>15. CASE Announced
  <2>1. PICK h \in hooks : /\ hooks = {h} /\ h.id = 0 /\ h.callback = "PeerAcceptedHead"
                           /\ h.heard \/ wire # {}
    BY <1>15 DEF Announced
  <2>2. hooks' = {[h EXCEPT !.heard = TRUE]}
    BY <1>8, <2>1
  <2>3. /\ [h EXCEPT !.heard = TRUE].id = 0 /\ [h EXCEPT !.heard = TRUE].heard
        /\ [h EXCEPT !.heard = TRUE].callback = "PeerAcceptedHead"
    BY <2>1 DEF IInv, HooksTyped
  <2>4. Announced'
    BY <1>3, <1>4, <1>5, <1>15, <2>2, <2>3 DEF Announced
  <2>5. QED
    BY <1>9, <1>10, <1>11, <2>4 DEF IInv, Phases
<1>16. CASE Declared
  <2>1. Declared'
    BY <1>3, <1>4, <1>5, <1>12, <1>14, <1>16, <1>6 DEF Declared
  <2>2. QED
    BY <1>9, <1>10, <1>11, <2>1 DEF IInv, Phases
<1>17. CASE Expecting
  <2>1. Expecting'
    BY <1>3, <1>4, <1>5, <1>13, <1>14, <1>17, <1>6 DEF Expecting
  <2>2. QED
    BY <1>9, <1>10, <1>11, <2>1 DEF IInv, Phases
<1>18. CASE OnTheirWay
  <2>1. OnTheirWay'
    BY <1>3, <1>4, <1>5, <1>13, <1>14, <1>18, <1>6, <1>7 DEF OnTheirWay
  <2>2. QED
    BY <1>9, <1>10, <1>11, <2>1 DEF IInv, Phases
<1>19. CASE Answered
  <2>1. Answered'
    BY <1>3, <1>4, <1>5, <1>13, <1>14, <1>19, <1>6 DEF Answered
  <2>2. QED
    BY <1>9, <1>10, <1>11, <2>1 DEF IInv, Phases
<1>20. CASE Over
  <2>1. Over'
    BY <1>3, <1>4, <1>5, <1>14, <1>20, <1>6 DEF Over
  <2>2. QED
    BY <1>9, <1>10, <1>11, <2>1 DEF IInv, Phases
<1>21. QED
  BY <1>15, <1>16, <1>17, <1>18, <1>19, <1>20 DEF IInv, Phases
(* The declaration is heard while the receiver is at the segment before. *)
LEMMA ReceiveDeclarationStep ==
  ASSUME IInv, HeadsOnly, NEW m \in wire, ReceiveDeclaration(m)
  PROVE  IInv'
<1>1. m \in Work /\ m.kind = "SegmentDeclaration"
  BY DEF ReceiveDeclaration, Work
<1>2. Declared
  BY <1>1, PhaseOfMessage DEF IInv
<1>3. PICK h \in hooks :
        /\ Work = {m} /\ m.segment = sender.mySegmentCounter
        /\ hooks = {h} /\ h.callback = "PeerAcceptedSegmentHeader"
        /\ h.id = m.id /\ h.id # 0
  BY <1>1, <1>2 DEF Declared
<1>4. PICK rest : Taken(m, rest) /\ wire' = rest
  BY DEF ReceiveDeclaration
<1>5. /\ repeated' \in 0 .. Repeats /\ repeated' >= repeated
      /\ wire' = wire \ {m} /\ Work' = {}
  <2>1. /\ repeated' \in 0 .. Repeats /\ repeated' >= repeated
        /\ rest = wire \ {m}
    BY <1>1, <1>4, TakenOnce DEF IInv
  <2>2. QED
    BY <1>3, <1>4, <2>1 DEF Work
<1>6. /\ receiver' = AcceptSegment(receiver, m.segment)
      /\ UNCHANGED <<myDataSize, sender, myData, ids, corrupted>>
  BY DEF ReceiveDeclaration
<1>7. /\ sender.mySegmentCounter \in Segments
      /\ receiver.mySegmentCounter + 1 = sender.mySegmentCounter
  BY <1>2, SegmentsType DEF Declared, UnderWay, IInv, TypeOK, Sender, Receiver, Segments
<1>8. CHUNKSPERSEGMENT % CharModulus = CHUNKSPERSEGMENT
      /\ CHUNKSPERSEGMENT \in 0 .. CharModulus - 1
  BY CharHolds, SizesAssumption
<1>9. /\ receiver' \in Receiver
      /\ receiver'.mySegmentCounter = sender.mySegmentCounter
      /\ receiver'.myChecksum = sender.mySegmentCounter
      /\ receiver'.myChunksLeftInTransit = CHUNKSPERSEGMENT
  <2>1. receiver \in Receiver
    BY DEF IInv, TypeOK
  <2>2. QED
    BY <1>3, <1>6, <1>7, <1>8, <2>1 DEF AcceptSegment, Receiver
<1>10. \E k \in hooks' : /\ hooks' = {k} /\ k.id # 0 /\ k.callback = "PeerAcceptedSegmentHeader"
                         /\ k.heard
  <2>1. hooks' = {[h EXCEPT !.heard = TRUE]}
    BY <1>3 DEF ReceiveDeclaration, Acknowledge
  <2>2. /\ [h EXCEPT !.heard = TRUE].id # 0 /\ [h EXCEPT !.heard = TRUE].heard
        /\ [h EXCEPT !.heard = TRUE].callback = "PeerAcceptedSegmentHeader"
    BY <1>3 DEF IInv, HooksTyped
  <2>3. QED
    BY <2>1, <2>2
<1>11. HooksTyped'
  BY DEF ReceiveDeclaration, Acknowledge, IInv, HooksTyped
<1>12. Agreed'
  BY <1>2, <1>6, <1>9 DEF Declared, Agreed, UnderWay, IntactUpTo, SegmentsToSend
<1>13. Expecting'
  BY <1>2, <1>5, <1>6, <1>9, <1>10, <1>12 DEF Declared, Expecting, Spent
<1>14. TypeOK'
  <2>1. sender.mySegmentCounter <= SegmentsToSend(myDataSize) + repeated'
    BY <1>5, SegmentsType, BoundsAssumption DEF IInv, TypeOK, Sender, Segments
  <2>2. QED
    BY <1>5, <1>6, <1>9, <1>11, <2>1 DEF IInv, TypeOK, HooksTyped, SegmentsToSend
<1>15. HeadIsFirst'
  BY <1>5, <1>6 DEF IInv, HeadIsFirst
<1>16. QED
  BY <1>11, <1>13, <1>14, <1>15 DEF IInv, Phases

(* A chunk is heard, by a receiver that is at its segment. *)
LEMMA ReceiveChunkStep ==
  ASSUME IInv, HeadsOnly, NEW m \in wire, ReceiveChunk(m)
  PROVE  /\ IInv'
         /\ receiver'.myIsComplete => receiver.myIsComplete \/ IntactUpTo(SegmentsToSend(myDataSize))'
<1>1. m \in Work /\ m.kind = "Chunk" /\ m \in Message
  BY DEF ReceiveChunk, Work, IInv, TypeOK
<1>2. OnTheirWay
  BY <1>1, PhaseOfMessage DEF IInv
<1>3. PICK intact \in BOOLEAN, rest \in {wire, wire \ {m}} :
        LET at == receiver.mySegmentCounter
            data == IF intact THEN [myData EXCEPT ![at][m.index] = <<m.segment, m.index>>]
                    ELSE myData
            left == IF intact THEN receiver.myChunksLeft \ {m.index} ELSE receiver.myChunksLeft
            inTransit == (receiver.myChunksLeftInTransit - 1) % CharModulus
            missing == IF ChecksumMatches(receiver, data) THEN left ELSE Indices
        IN
        /\ Taken(m, rest)
        /\ ~intact => corrupted < Corruptions
        /\ corrupted' = IF intact THEN corrupted ELSE corrupted + 1
        /\ myData' = data
        /\ IF inTransit = 0
           THEN /\ receiver' = [receiver EXCEPT
                     !.myChunksLeft = missing,
                     !.myChunksLeftInTransit = Cardinality(missing) % CharModulus,
                     !.myIsComplete = @ \/ (missing = {} /\ at = SegmentsToExpect(myDataSize))]
                /\ wire' = rest \union {[id |-> ids, kind |-> "SegmentResponse", missing |-> missing]}
                /\ ids' = ids + 1
           ELSE /\ receiver' = [receiver EXCEPT !.myChunksLeft = left,
                                                !.myChunksLeftInTransit = inTransit]
                /\ wire' = rest
                /\ ids' = ids
  BY DEF ReceiveChunk
<1>4. UNCHANGED <<myDataSize, sender>> /\ hooks' = {} /\ HooksTyped'
  BY <1>2 DEF ReceiveChunk, Acknowledge, OnTheirWay, HooksTyped
<1>5. repeated' \in 0 .. Repeats /\ repeated' >= repeated /\ rest = wire \ {m}
  BY <1>1, <1>3, TakenOnce DEF IInv
<1>6. corrupted' \in 0 .. Corruptions
  BY <1>3, BoundsAssumption DEF IInv, TypeOK
<1>7. PICK at \in Segments :
        /\ at = receiver.mySegmentCounter /\ at = sender.mySegmentCounter
        /\ at = receiver.myChecksum /\ at = m.segment
        /\ at \in 0 .. SegmentsToSend(myDataSize) - 1 /\ IntactUpTo(at)
  <2>1. sender.mySegmentCounter \in Segments
    BY <1>2, SegmentsType DEF OnTheirWay, Agreed, UnderWay, IInv, TypeOK, Sender, Segments
  <2>2. QED
    BY <1>1, <1>2, <2>1 DEF OnTheirWay, Agreed, UnderWay
<1>8. m.index \in Indices
  BY <1>1 DEF Message
<1> DEFINE data == IF intact THEN [myData EXCEPT ![at][m.index] = <<m.segment, m.index>>]
                   ELSE myData
           left == IF intact THEN receiver.myChunksLeft \ {m.index} ELSE receiver.myChunksLeft
           inTransit == (receiver.myChunksLeftInTransit - 1) % CharModulus
           missing == IF ChecksumMatches(receiver, data) THEN left ELSE Indices
           complete == receiver.myIsComplete
                         \/ (missing = {} /\ at = SegmentsToExpect(myDataSize))
           response == [id |-> ids, kind |-> "SegmentResponse", missing |-> missing]
<1>9. /\ receiver \in Receiver /\ myData \in [Segments -> [Indices -> Contents]]
      /\ ids \in Nat /\ ids >= 1
  BY DEF IInv, TypeOK, HeadIsFirst
<1>10. myData' = data /\ data \in [Segments -> [Indices -> Contents]]
  <2>1. <<m.segment, m.index>> \in Contents
    BY <1>7, <1>8 DEF Contents
  <2>2. QED
    BY <1>3, <1>7, <1>8, <1>9, <2>1
<1>11. left \in SUBSET Indices /\ missing \in SUBSET Indices
  BY <1>9 DEF Receiver
<1>12. IntactUpTo(at)'
  <2>1. \A s \in 0 .. at - 1 : s \in Segments /\ s # at
    BY <1>7, SegmentsType DEF Segments
  <2>2. \A s \in 0 .. at - 1 : data[s] = myData[s]
    BY <1>9, <2>1
  <2> HIDE DEF data
  <2>3. QED
    BY <1>7, <1>10, <2>2 DEF IntactUpTo
<1>13. missing = {} => IntactUpTo(at + 1)'
  <2>1. ASSUME missing = {} PROVE \A i \in Indices : data[at][i] = <<at, i>>
    <3>1. Indices # {}
      BY SizesAssumption DEF Indices
    <3> HIDE DEF data
    <3>2. ChecksumMatches(receiver, data)
      BY <2>1, <3>1
    <3>3. QED
      BY <1>7, <3>2 DEF ChecksumMatches
  <2> HIDE DEF data, missing
  <2>2. \A s \in 0 .. (at + 1) - 1 : s = at \/ s \in 0 .. at - 1
    BY <1>7, SegmentsType DEF Segments
  <2>3. QED
    BY <1>10, <1>12, <2>1, <2>2 DEF IntactUpTo
(* The count of what is still to come. *)
<1>14. /\ IsFiniteSet(Work \ {m}) /\ Cardinality(Work \ {m}) = Cardinality(Work) - 1
       /\ Cardinality(Work) \in 1 .. CHUNKSPERSEGMENT
       /\ Work \ {m} = {} <=> Cardinality(Work \ {m}) = 0
  <2>1. IsFiniteSet(Work) /\ Cardinality(Work) <= CHUNKSPERSEGMENT
    BY <1>2 DEF OnTheirWay
  <2>2. IsFiniteSet(Work \ {m}) /\ Cardinality(Work \ {m}) = Cardinality(Work) - 1
    BY <1>1, <2>1, FS_RemoveElement
  <2>3. Cardinality(Work) \in Nat /\ Cardinality(Work \ {m}) \in Nat
    BY <2>1, <2>2, FS_CardinalityType
  <2>4. Work \ {m} = {} <=> Cardinality(Work \ {m}) = 0
    BY <2>2, FS_EmptySet
  <2>5. QED
    BY <2>1, <2>2, <2>3, <2>4, SizesAssumption
<1>15. inTransit = Cardinality(Work \ {m}) /\ inTransit \in 0 .. CharModulus - 1
  <2>1. receiver.myChunksLeftInTransit - 1 = Cardinality(Work \ {m})
    BY <1>2, <1>14 DEF OnTheirWay
  <2>2. Cardinality(Work \ {m}) \in 0 .. CHUNKSPERSEGMENT
    BY <1>14, SizesAssumption
  <2>3. QED
    BY <2>1, <2>2, CharHolds, SizesAssumption
<1>16. Cardinality(missing) % CharModulus = Cardinality(missing)
       /\ Cardinality(missing) \in 0 .. CharModulus - 1
  <2> HIDE DEF missing
  <2>1. Cardinality(missing) \in 0 .. CHUNKSPERSEGMENT
    BY <1>11, SomeChunks
  <2>2. QED
    BY <2>1, CharHolds, SizesAssumption
<1>17. \A k \in wire \ {m} : k \in Message /\ (k.kind = "Head" => k.id = 0)
  BY DEF IInv, TypeOK, HeadIsFirst
<1>18. sender.mySegmentCounter <= SegmentsToSend(myDataSize) + repeated'
  BY <1>5, SegmentsType, BoundsAssumption DEF IInv, TypeOK, Sender, Segments
(* What the segment has cost: a chunk that is corrupted pays for the next round. *)
<1>19. /\ corrupted' = IF intact THEN corrupted ELSE corrupted + 1
       /\ at \in Nat /\ Spent(at) \in Nat
       /\ Spent(at)' = IF intact THEN Spent(at) ELSE Spent(at) + CHUNKSPERSEGMENT + 1
       /\ Spent(at + 1)' = Spent(at)' + CHUNKSPERSEGMENT + 2
       /\ ids <= Spent(at) \/ (RoundIsClean /\ ids <= Spent(at) + 1 + CHUNKSPERSEGMENT)
  <2>1. corrupted' = IF intact THEN corrupted ELSE corrupted + 1
    BY <1>3
  <2>2. at \in Nat /\ corrupted \in Nat /\ corrupted' \in Nat
    BY <1>6, <1>7, SegmentsType, BoundsAssumption DEF Segments, IInv, TypeOK
  <2>3. Spent(at) \in Nat /\ MessagesFor(at, corrupted + 1) = Spent(at) + CHUNKSPERSEGMENT + 1
    BY <2>2, MessagesForNext DEF Spent
  <2>4. Spent(at)' = IF intact THEN Spent(at) ELSE Spent(at) + CHUNKSPERSEGMENT + 1
    BY <2>1, <2>3 DEF Spent
  <2>5. Spent(at + 1)' = Spent(at)' + CHUNKSPERSEGMENT + 2
    BY <2>2, MessagesForNext DEF Spent
  <2>6. ids <= Spent(at) \/ (RoundIsClean /\ ids <= Spent(at) + 1 + CHUNKSPERSEGMENT)
    BY <1>2, <1>7 DEF OnTheirWay
  <2>7. QED
    BY <2>1, <2>2, <2>3, <2>4, <2>5, <2>6
<1>20. ASSUME RoundIsClean, intact, NEW i \in Indices
       PROVE  \/ \E k \in Work \ {m} : k.index = i
              \/ i \notin left /\ data[at][i] = <<at, i>>
  <2>1. Covered(i) /\ data = [myData EXCEPT ![at][m.index] = <<at, m.index>>]
        /\ left = receiver.myChunksLeft \ {m.index}
    BY <1>7, <1>20 DEF RoundIsClean
  <2>2. data[at][i] = IF i = m.index THEN <<at, i>> ELSE myData[at][i]
    BY <1>7, <1>8, <1>9, <2>1
  <2> HIDE DEF data, left
  <2>3. CASE i = m.index
    BY <2>1, <2>2, <2>3
  <2>4. CASE i # m.index
    BY <1>7, <2>1, <2>2, <2>4 DEF Covered, Holds
  <2>5. QED
    BY <2>3, <2>4
<1>21. CASE inTransit = 0
  <2>1. /\ receiver' = [receiver EXCEPT
             !.myChunksLeft = missing,
             !.myChunksLeftInTransit = Cardinality(missing) % CharModulus,
             !.myIsComplete = complete]
        /\ wire' = (wire \ {m}) \union {response}
        /\ ids' = ids + 1
    BY <1>3, <1>5, <1>7, <1>21
  <2>2. complete \in BOOLEAN
    BY <1>9 DEF Receiver
  <2>3. complete <=> receiver.myIsComplete \/ (missing = {} /\ at = SegmentsToExpect(myDataSize))
    OBVIOUS
  <2>12. \A i \in Indices \ missing : data[at][i] = <<at, i>>
    BY <1>7 DEF ChecksumMatches
  <2>13. RoundIsClean /\ intact => missing = {}
    <3>1. Work \ {m} = {}
      BY <1>14, <1>15, <1>21
    <3>2. SUFFICES ASSUME RoundIsClean, intact PROVE missing = {}
      OBVIOUS
    <3> HIDE DEF data, left
    <3>3. \A i \in Indices : i \notin left /\ data[at][i] = <<at, i>>
      BY <1>20, <3>1, <3>2
    <3>4. ChecksumMatches(receiver, data)
      BY <1>7, <3>3 DEF ChecksumMatches
    <3>5. QED
      BY <1>11, <3>3, <3>4
  <2> HIDE DEF missing, complete, inTransit, data, left
  <2>4. /\ receiver' \in Receiver /\ receiver'.myIsComplete = complete
        /\ receiver'.mySegmentCounter = at /\ receiver'.myChecksum = at
        /\ receiver'.myChunksLeftInTransit = Cardinality(missing)
        /\ receiver'.myChunksLeft = missing
    BY <1>7, <1>9, <1>11, <1>16, <2>1, <2>2 DEF Receiver
  <2>5. response \in Message
    BY <1>9, <1>11 DEF Message
  <2>6. Work' = {response}
    <3>1. Work \ {m} = {}
      BY <1>14, <1>15, <1>21
    <3>2. QED
      BY <2>1, <3>1 DEF Work
  <2>7. Answered'
    <3>1. Agreed'
      BY <1>4, <1>7, <1>12, <2>4 DEF Agreed, UnderWay, SegmentsToSend
    <3>2. missing = {} => IntactUpTo(sender.mySegmentCounter + 1)'
      BY <1>4, <1>7, <1>13 DEF IntactUpTo
    <3>3. \A i \in Indices \ missing : Holds(sender.mySegmentCounter, i)'
      BY <1>4, <1>7, <1>10, <2>12 DEF Holds
    <3>4. missing # {} => ids' <= Spent(sender.mySegmentCounter)' + 1
      <4>1. missing # {} => ids + 1 <= Spent(at)' + 1
        BY <1>9, <1>19, <2>13, SizesAssumption
      <4>2. Spent(sender.mySegmentCounter)' = Spent(at)'
        BY <1>4, <1>7 DEF Spent
      <4>3. QED
        BY <2>1, <4>1, <4>2
    <3>5. missing = {} => ids' <= Spent(sender.mySegmentCounter + 1)'
      <4>1. ids + 1 <= Spent(at + 1)'
        BY <1>9, <1>19, SizesAssumption
      <4>2. Spent(sender.mySegmentCounter + 1)' = Spent(at + 1)'
        BY <1>4, <1>7 DEF Spent
      <4>3. QED
        BY <2>1, <4>1, <4>2
    <3>6. ASSUME missing = {}, at + 1 = SegmentsToSend(myDataSize), LastIsPartial
          PROVE  receiver'.myIsComplete
      <4>1. myDataSize \in Sizes /\ SegmentsToExpect(myDataSize) \in Nat
        BY SegmentsType DEF IInv, TypeOK
      <4>2. SegmentsToSend(myDataSize) = SegmentsToExpect(myDataSize) + 1
        BY <3>6, <4>1, RoundedUpIfPartial DEF LastIsPartial
      <4>3. at = SegmentsToExpect(myDataSize)
        BY <1>19, <3>6, <4>1, <4>2
      <4>4. QED
        BY <2>3, <2>4, <3>6, <4>3
    <3>7. missing = {} =>
            (sender'.mySegmentCounter + 1 = SegmentsToSend(myDataSize)' /\ LastIsPartial'
               => receiver'.myIsComplete)
      BY <1>4, <1>7, <3>6 DEF LastIsPartial, SegmentsToSend
    <3>8. response \in Work' /\ response.kind = "SegmentResponse" /\ response.missing = missing
      BY <2>6
    <3> HIDE DEF response
    <3>9. QED
      BY <1>4, <2>4, <2>6, <3>1, <3>2, <3>3, <3>4, <3>5, <3>7, <3>8 DEF Answered
  <2>8. TypeOK'
    BY <1>4, <1>5, <1>6, <1>9, <1>10, <1>17, <1>18, <2>1, <2>4, <2>5 DEF IInv, TypeOK, SegmentsToSend
  <2>9. HeadIsFirst'
    BY <1>9, <1>17, <2>1 DEF HeadIsFirst
  <2>10. ASSUME receiver'.myIsComplete, ~receiver.myIsComplete
         PROVE  IntactUpTo(SegmentsToSend(myDataSize))'
    <3>1. missing = {} /\ at = SegmentsToExpect(myDataSize)
      BY <2>3, <2>4, <2>10
    <3>2. SegmentsToSend(myDataSize) = at + 1
      <4>1. myDataSize \in Sizes
        BY DEF IInv, TypeOK
      <4>2. SegmentsToSend(myDataSize) <= at + 1
        BY <3>1, <4>1, RoundedUpByOne
      <4>3. QED
        BY <1>7, <4>1, <4>2, SegmentsType
    <3>3. SegmentsToSend(myDataSize)' = at + 1
      BY <1>4, <3>2 DEF SegmentsToSend
    <3>4. QED
      BY <1>13, <3>1, <3>3 DEF IntactUpTo
  <2>11. QED
    BY <1>4, <2>7, <2>8, <2>9, <2>10 DEF IInv, Phases
<1>22. CASE inTransit # 0
  <2>1. /\ receiver' = [receiver EXCEPT !.myChunksLeft = left, !.myChunksLeftInTransit = inTransit]
        /\ wire' = wire \ {m}
        /\ ids' = ids
    BY <1>3, <1>5, <1>22
  <2> HIDE DEF missing, complete, inTransit, data, left
  <2>2. /\ receiver' \in Receiver /\ receiver'.myIsComplete = receiver.myIsComplete
        /\ receiver'.mySegmentCounter = at /\ receiver'.myChecksum = at
        /\ receiver'.myChunksLeftInTransit = inTransit /\ receiver'.myChunksLeft = left
    BY <1>7, <1>9, <1>11, <1>15, <2>1 DEF Receiver
  <2>3. Work' = Work \ {m}
    BY <2>1 DEF Work
  <2>4. OnTheirWay'
    <3>1. Agreed'
      BY <1>4, <1>7, <1>12, <2>2 DEF Agreed, UnderWay, SegmentsToSend
    <3>2. Work' # {} /\ IsFiniteSet(Work') /\ Cardinality(Work') <= CHUNKSPERSEGMENT
      BY <1>14, <1>15, <1>22, <2>3, SizesAssumption
    <3>3. \A k \in Work' : k.kind = "Chunk" /\ k.segment = sender.mySegmentCounter
      BY <1>2, <2>3 DEF OnTheirWay
    <3>4. RoundIsClean /\ intact => RoundIsClean'
      <4>1. SUFFICES ASSUME RoundIsClean, intact, NEW i \in Indices PROVE Covered(i)'
        BY DEF RoundIsClean
      <4>2. CASE \E k \in Work \ {m} : k.index = i
        BY <2>3, <4>2 DEF Covered
      <4>3. CASE i \notin left /\ data[at][i] = <<at, i>>
        BY <1>4, <1>7, <1>10, <2>2, <4>3 DEF Covered, Holds
      <4>4. QED
        BY <1>20, <4>1, <4>2, <4>3
    <3>5. \/ ids' <= Spent(sender.mySegmentCounter)'
          \/ RoundIsClean' /\ ids' <= Spent(sender.mySegmentCounter)' + 1 + CHUNKSPERSEGMENT
      <4>1. Spent(sender.mySegmentCounter)' = Spent(at)' /\ ids' = ids
        BY <1>4, <1>7, <2>1 DEF Spent
      <4>2. \/ ids <= Spent(at)'
            \/ RoundIsClean' /\ ids <= Spent(at)' + 1 + CHUNKSPERSEGMENT
        BY <1>9, <1>19, <3>4, SizesAssumption
      <4>3. QED
        BY <4>1, <4>2
    <3>6. QED
      BY <1>4, <1>15, <2>2, <2>3, <3>1, <3>2, <3>3, <3>5 DEF OnTheirWay
  <2>5. TypeOK'
    BY <1>4, <1>5, <1>6, <1>9, <1>10, <1>17, <1>18, <2>1, <2>2 DEF IInv, TypeOK, SegmentsToSend
  <2>6. HeadIsFirst'
    BY <1>9, <1>17, <2>1 DEF HeadIsFirst
  <2>7. QED
    BY <1>4, <2>2, <2>4, <2>5, <2>6 DEF IInv, Phases
<1>23. QED
  BY <1>21, <1>22

(* The answer is heard: what is missing is sent, or the next segment is declared. *)
LEMMA ReceiveResponseStep ==
  ASSUME IInv, HeadsOnly, NEW m \in wire, ReceiveResponse(m)
  PROVE  /\ IInv'
         /\ sender'.myIsComplete => sender.myIsComplete \/ IntactUpTo(SegmentsToSend(myDataSize))
<1>1. m \in Work /\ m.kind = "SegmentResponse" /\ m \in Message
  BY DEF ReceiveResponse, Work, IInv, TypeOK
<1>2. Answered
  BY <1>1, PhaseOfMessage DEF IInv
<1>3. /\ Work = {m} /\ hooks = {} /\ Agreed
      /\ receiver.myChunksLeftInTransit = Cardinality(m.missing)
      /\ receiver.myChunksLeft = m.missing
      /\ \A i \in Indices \ m.missing : Holds(sender.mySegmentCounter, i)
      /\ m.missing # {} => ids <= Spent(sender.mySegmentCounter) + 1
      /\ m.missing = {} =>
           /\ IntactUpTo(sender.mySegmentCounter + 1)
           /\ ids <= Spent(sender.mySegmentCounter + 1)
           /\ sender.mySegmentCounter + 1 = SegmentsToSend(myDataSize) /\ LastIsPartial
                => receiver.myIsComplete
  BY <1>1, <1>2 DEF Answered
<1>4. PICK rest \in {wire, wire \ {m}} :
        /\ Taken(m, rest)
        /\ \/ /\ m.missing # {}
              /\ SendMissingChunks(sender.mySegmentCounter, m.missing, rest)
              /\ sender' = [sender EXCEPT !.myChunksLeft = m.missing]
              /\ UNCHANGED hooks
           \/ /\ m.missing = {} /\ sender.mySegmentCounter < LastSegment
              /\ SendNextSegmentHeader(rest, hooks)
  BY DEF ReceiveResponse
<1>5. UNCHANGED <<myDataSize, receiver, myData, corrupted>>
  BY DEF ReceiveResponse
<1>6. /\ repeated' \in 0 .. Repeats /\ repeated' >= repeated /\ rest = wire \ {m}
      /\ rest \in SUBSET wire /\ \A k \in rest : k.kind = "Head"
  <2>1. repeated' \in 0 .. Repeats /\ repeated' >= repeated /\ rest = wire \ {m}
    BY <1>1, <1>4, TakenOnce DEF IInv
  <2>2. QED
    BY <1>3, <2>1 DEF Work
<1>7. m.missing \in SUBSET Indices
  BY <1>1 DEF Message
<1>8. /\ sender.mySegmentCounter \in 0 .. SegmentsToSend(myDataSize) - 1
      /\ SegmentsToSend(myDataSize) \in Nat /\ LastSegment \in Nat
      /\ receiver.mySegmentCounter = sender.mySegmentCounter
      /\ sender \in Sender
  BY <1>3, SegmentsType DEF Agreed, UnderWay, IInv, TypeOK
<1>9. CASE m.missing # {}
  <2>1. /\ SendMissingChunks(sender.mySegmentCounter, m.missing, rest)
        /\ sender' = [sender EXCEPT !.myChunksLeft = m.missing] /\ hooks' = {}
    BY <1>3, <1>4, <1>9
  <2>2. /\ sender' \in Sender /\ sender'.mySegmentCounter = sender.mySegmentCounter
        /\ sender'.myIsComplete = sender.myIsComplete
    BY <1>7, <1>8, <2>1 DEF Sender
  <2>3. /\ \A k \in wire' : k \in Message
        /\ ids' \in Nat /\ HooksTyped' /\ HeadIsFirst' /\ Phases'
    BY <1>3, <1>5, <1>6, <1>7, <1>9, <2>1, <2>2, ChunksGo DEF IInv
  <2>4. sender'.mySegmentCounter <= SegmentsToSend(myDataSize) + repeated'
    BY <1>6, <1>8, <2>2, BoundsAssumption DEF IInv, TypeOK
  <2>5. QED
    BY <1>5, <1>6, <2>2, <2>3, <2>4 DEF IInv, TypeOK, HooksTyped, SegmentsToSend
<1>10. CASE m.missing = {}
  <2>1. sender.mySegmentCounter < LastSegment /\ SendNextSegmentHeader(rest, {})
    BY <1>3, <1>4, <1>10
  <2>2. /\ IntactUpTo(sender.mySegmentCounter + 1)
        /\ ids <= Spent(sender.mySegmentCounter + 1)
        /\ sender.mySegmentCounter + 1 = SegmentsToSend(myDataSize) /\ LastIsPartial
             => receiver.myIsComplete
    BY <1>3, <1>10
  <2>3. /\ sender.mySegmentCounter + 1 \in 0 .. SegmentsToSend(myDataSize)
        /\ sender.mySegmentCounter + 1 \in Segments
    BY <1>8, <2>1 DEF Segments
  <2>4. /\ sender' \in Sender /\ sender'.mySegmentCounter <= SegmentsToSend(myDataSize)
        /\ (\A k \in wire' : k \in Message) /\ ids' \in Nat
        /\ HooksTyped' /\ HeadIsFirst' /\ Phases'
    BY <1>5, <1>6, <1>8, <2>1, <2>2, <2>3, NextSegment DEF IInv
  <2>5. sender'.mySegmentCounter <= SegmentsToSend(myDataSize) + repeated'
    BY <1>6, <1>8, <2>4, BoundsAssumption DEF Sender, Segments
  <2>6. IInv'
    BY <1>5, <1>6, <2>4, <2>5 DEF IInv, TypeOK, HooksTyped, SegmentsToSend
  <2>7. ASSUME sender'.myIsComplete, ~sender.myIsComplete
        PROVE  IntactUpTo(SegmentsToSend(myDataSize))
    <3>1. sender.mySegmentCounter + 1 = SegmentsToSend(myDataSize)
      BY <1>8, <2>1, <2>7 DEF SendNextSegmentHeader, Sender
    <3>2. QED
      BY <2>2, <3>1
  <2>8. QED
    BY <2>6, <2>7
<1>11. QED
  BY <1>9, <1>10
LEMMA InitIInv == Init => IInv
<1> SUFFICES ASSUME Init PROVE IInv
  OBVIOUS
<1>1. myDataSize \in Sizes /\ SegmentsToSend(myDataSize) \in Nat /\ LastSegment \in Nat
  BY SegmentsType DEF Init
<1>2. PICK flag \in UninitFlags :
        sender = [mySegmentCounter |-> -1, myIsComplete |-> flag, myChunksLeft |-> {}]
  BY DEF Init
<1>3. PICK other \in UninitFlags :
        receiver = [made |-> FALSE, mySegmentCounter |-> -1, myIsComplete |-> other,
                    myChecksum |-> -1, myChunksLeft |-> {}, myChunksLeftInTransit |-> 0]
  BY DEF Init
<1>4. flag \in BOOLEAN /\ other \in BOOLEAN /\ 0 \in 0 .. CharModulus - 1
  BY BoundsAssumption, SizesAssumption
<1>5. sender \in Sender /\ sender.mySegmentCounter = -1
  BY <1>2, <1>4 DEF Sender
<1>6. receiver \in Receiver /\ receiver.mySegmentCounter = -1
  BY <1>3, <1>4 DEF Receiver
<1>7. myData \in [Segments -> [Indices -> Contents]]
  BY DEF Init, Contents
<1>8. /\ wire = {[id |-> 0, kind |-> "Head"]} /\ ids = 1 /\ corrupted = 0 /\ repeated = 0
      /\ hooks = {[id |-> 0, callback |-> "PeerAcceptedHead", heard |-> FALSE]}
  BY DEF Init
<1>9. \A m \in wire : m \in Message /\ m.kind = "Head" /\ m.id = 0
  BY <1>8 DEF Message
<1>10. 0 \in 0 .. Corruptions /\ 0 \in 0 .. Repeats
  BY BoundsAssumption
<1>11. HooksTyped
  <2>1. FALSE \in BOOLEAN /\ 0 \in Nat
    OBVIOUS
  <2>2. [id |-> 0, callback |-> "PeerAcceptedHead", heard |-> FALSE]
          \in [id : Nat, callback : {"PeerAcceptedHead", "PeerAcceptedSegmentHeader"},
               heard : BOOLEAN]
    BY <2>1
  <2>3. QED
    BY <1>8, <2>2, Zenon DEF HooksTyped
<1>12. TypeOK
  BY <1>1, <1>5, <1>6, <1>7, <1>8, <1>9, <1>10, <1>11 DEF TypeOK, HooksTyped
<1>13. Announced
  <2>1. \E h \in hooks : /\ hooks = {h} /\ h.id = 0 /\ h.callback = "PeerAcceptedHead"
                         /\ h.heard \/ wire # {}
    BY <1>8
  <2>2. QED
    BY <1>5, <1>6, <1>8, <1>9, <2>1 DEF Announced, Work
<1>14. QED
  BY <1>8, <1>9, <1>11, <1>12, <1>13 DEF IInv, HeadIsFirst, Phases

LEMMA StutterIInv == IInv /\ UNCHANGED vars => IInv'
<1> SUFFICES ASSUME IInv, UNCHANGED vars PROVE IInv'
  OBVIOUS
<1>1. TypeOK' /\ HooksTyped' /\ HeadIsFirst'
  BY DEF vars, IInv, TypeOK, HooksTyped, HeadIsFirst, SegmentsToSend
<1>2. UnderWay' = UnderWay /\ Agreed' = Agreed /\ Work' = Work
  BY DEF vars, UnderWay, Agreed, IntactUpTo, SegmentsToSend, Work
<1>3. Phases'
  <2>1. /\ Spent(sender.mySegmentCounter)' = Spent(sender.mySegmentCounter)
        /\ Spent(sender.mySegmentCounter + 1)' = Spent(sender.mySegmentCounter + 1)
        /\ IntactUpTo(sender.mySegmentCounter)' = IntactUpTo(sender.mySegmentCounter)
        /\ IntactUpTo(sender.mySegmentCounter + 1)' = IntactUpTo(sender.mySegmentCounter + 1)
        /\ \A i : Holds(sender.mySegmentCounter, i)' = Holds(sender.mySegmentCounter, i)
        /\ LastIsPartial' = LastIsPartial
        /\ SegmentsToSend(myDataSize)' = SegmentsToSend(myDataSize)
    BY DEF vars, Spent, IntactUpTo, Holds, LastIsPartial, SegmentsToSend
  <2>2. RoundIsClean' = RoundIsClean
    BY <1>2, <2>1 DEF vars, RoundIsClean, Covered
  <2>3. CASE Announced \/ Declared \/ Expecting \/ OnTheirWay
    BY <1>2, <2>1, <2>2, <2>3 DEF Phases, vars, Announced, Declared, Expecting, OnTheirWay
  <2>4. CASE Answered \/ Over
    BY <1>2, <2>1, <2>4 DEF Phases, vars, Answered, Over
  <2>5. QED
    BY <2>3, <2>4 DEF IInv, Phases
<1>4. QED
  BY <1>1, <1>3 DEF IInv

(* What a step keeps, and what it may end. *)
LEMMA NextIInv ==
  ASSUME HeadsOnly, IInv, [Next]_vars
  PROVE  IInv' /\ EndsWithWholeFile /\ SenderEndsAfterReceipt
<1>1. ASSUME NEW h \in hooks, PeerAcceptedHead(h)
      PROVE  IInv' /\ EndsWithWholeFile /\ SenderEndsAfterReceipt
  <2>1. IInv' /\ Announced
    BY <1>1, PeerAcceptedHeadStep, PhaseOfHook DEF IInv, PeerAcceptedHead
  <2>2. UNCHANGED receiver
    BY <1>1 DEF PeerAcceptedHead
  <2>3. ASSUME sender'.myIsComplete, ~sender.myIsComplete
        PROVE  IntactUpTo(SegmentsToSend(myDataSize))
    <3>1. sender.mySegmentCounter + 1 = SegmentsToSend(myDataSize)
      BY <1>1, <2>3 DEF PeerAcceptedHead, SendNextSegmentHeader, IInv, TypeOK, Sender
    <3>2. SegmentsToSend(myDataSize) = 0
      BY <2>1, <3>1 DEF Announced
    <3>3. QED
      BY <3>2 DEF IntactUpTo
  <2>4. QED
    BY <2>1, <2>2, <2>3 DEF EndsWithWholeFile, SenderEndsAfterReceipt
<1>2. ASSUME NEW h \in hooks, PeerAcceptedSegmentHeader(h)
      PROVE  IInv' /\ EndsWithWholeFile /\ SenderEndsAfterReceipt
  <2>1. UNCHANGED <<sender, receiver>>
    BY <1>2 DEF PeerAcceptedSegmentHeader
  <2>2. QED
    BY <1>2, <2>1, PeerAcceptedSegmentHeaderStep DEF EndsWithWholeFile, SenderEndsAfterReceipt
<1>3. ASSUME NEW m \in wire, ReceiveHead(m)
      PROVE  IInv' /\ EndsWithWholeFile /\ SenderEndsAfterReceipt
  <2>1. UNCHANGED sender /\ receiver'.myIsComplete = receiver.myIsComplete
    BY <1>3 DEF ReceiveHead, IInv, TypeOK, Receiver
  <2>2. QED
    BY <1>3, <2>1, ReceiveHeadStep DEF EndsWithWholeFile, SenderEndsAfterReceipt
<1>4. ASSUME NEW m \in wire, ReceiveDeclaration(m)
      PROVE  IInv' /\ EndsWithWholeFile /\ SenderEndsAfterReceipt
  <2>1. UNCHANGED sender /\ receiver'.myIsComplete = receiver.myIsComplete
    BY <1>4 DEF ReceiveDeclaration, AcceptSegment, IInv, TypeOK, Receiver
  <2>2. QED
    BY <1>4, <2>1, ReceiveDeclarationStep DEF EndsWithWholeFile, SenderEndsAfterReceipt
<1>5. ASSUME NEW m \in wire, ReceiveChunk(m)
      PROVE  IInv' /\ EndsWithWholeFile /\ SenderEndsAfterReceipt
  <2>1. UNCHANGED sender
    BY <1>5 DEF ReceiveChunk
  <2>2. QED
    BY <1>5, <2>1, ReceiveChunkStep DEF EndsWithWholeFile, SenderEndsAfterReceipt
<1>6. ASSUME NEW m \in wire, ReceiveResponse(m)
      PROVE  IInv' /\ EndsWithWholeFile /\ SenderEndsAfterReceipt
  <2>1. UNCHANGED receiver
    BY <1>6 DEF ReceiveResponse
  <2>2. QED
    BY <1>6, <2>1, ReceiveResponseStep DEF EndsWithWholeFile, SenderEndsAfterReceipt
<1>7. CASE UNCHANGED vars
  BY <1>7, StutterIInv DEF vars, EndsWithWholeFile, SenderEndsAfterReceipt
<1>8. QED
  BY <1>1, <1>2, <1>3, <1>4, <1>5, <1>6, <1>7 DEF Next

-----------------------------------------------------------------------------
(* Theorems.                                                               *)

(* A transfer is always in one of its six phases, in which the sender, the *)
(* receiver and the wire agree on the segment and on what is to come.      *)
THEOREM IInvHolds == ASSUME HeadsOnly PROVE Spec => []IInv
<1>1. IInv /\ [Next]_vars => IInv'
  BY NextIInv
<1>2. QED
  BY InitIInv, <1>1, PTL DEF Spec

(* Every variable keeps its type: no counter leaves the file. *)
THEOREM TypeCorrect == ASSUME HeadsOnly PROVE Spec => []TypeOK
<1>1. IInv => TypeOK
  BY DEF IInv
<1>2. QED
  BY IInvHolds, <1>1, PTL

(* The receiver's count is that of the chunks on their way: it answers     *)
(* after the last of them.                                                 *)
THEOREM TransitIsCountedHolds == ASSUME HeadsOnly PROVE Spec => []TransitIsCounted
<1>1. IInv => TransitIsCounted
  <2> SUFFICES ASSUME IInv, Chunks # {}
               PROVE  receiver.myChunksLeftInTransit = Cardinality(Chunks) % CharModulus
    BY DEF TransitIsCounted
  <2>1. OnTheirWay
    BY PhaseOfMessage DEF IInv, Chunks
  <2>2. Chunks = Work
    BY <2>1 DEF OnTheirWay, Chunks, Work
  <2>3. Cardinality(Work) \in 0 .. CHUNKSPERSEGMENT
    BY <2>1, FS_CardinalityType, SizesAssumption DEF OnTheirWay
  <2>4. QED
    BY <2>1, <2>2, <2>3, CharHolds DEF OnTheirWay
<1>2. QED
  BY IInvHolds, <1>1, PTL

(* A chunk is heard in the segment it was cut from. *)
THEOREM ChunksAreForThisSegmentHolds == ASSUME HeadsOnly PROVE Spec => []ChunksAreForThisSegment
<1>1. IInv => ChunksAreForThisSegment
  BY PhaseOfMessage DEF IInv, ChunksAreForThisSegment, Chunks, Work, OnTheirWay, Agreed
<1>2. QED
  BY IInvHolds, <1>1, PTL

(* When the receiver ends the transfer, its memory holds the file. *)
THEOREM CompletesIntactHolds == ASSUME HeadsOnly PROVE Spec => CompletesIntact
<1>1. IInv /\ [Next]_vars => [EndsWithWholeFile]_vars
  BY NextIInv
<1>2. QED
  BY IInvHolds, <1>1, PTL DEF Spec, CompletesIntact

(* The sender ends after the receiver's memory holds the file. *)
THEOREM SenderOutlivesTransferHolds == ASSUME HeadsOnly PROVE Spec => SenderOutlivesTransfer
<1>1. IInv /\ [Next]_vars => [SenderEndsAfterReceipt]_vars
  BY NextIInv
<1>2. QED
  BY IInvHolds, <1>1, PTL DEF Spec, SenderOutlivesTransfer

(* Neither side waits for the other: what the next step needs is on its    *)
(* way, or has been heard.                                                 *)
THEOREM SomethingIsToComeHolds == ASSUME HeadsOnly PROVE Spec => []SomethingIsToCome
<1>1. IInv => SomethingIsToCome
  <2> SUFFICES ASSUME IInv, sender.mySegmentCounter # SegmentsToSend(myDataSize)
               PROVE  wire # {} \/ \E h \in hooks : h.heard
    BY DEF SomethingIsToCome
  <2>1. CASE Announced \/ Expecting
    BY <2>1 DEF Announced, Expecting
  <2>2. CASE Declared \/ OnTheirWay \/ Answered
    <3>1. Work # {}
      BY <2>2 DEF Declared, OnTheirWay, Answered
    <3>2. QED
      BY <3>1 DEF Work
  <2>3. ~Over
    BY DEF Over
  <2>4. QED
    BY <2>1, <2>2, <2>3 DEF IInv, Phases
<1>2. QED
  BY IInvHolds, <1>1, PTL

(* When no segment is left both sides have ended, the receiver where the   *)
(* last segment is not a full one.                                         *)
THEOREM EndsAgreeHolds == ASSUME HeadsOnly PROVE Spec => []EndsAgree
<1>1. IInv => EndsAgree
  <2> SUFFICES ASSUME IInv, sender.mySegmentCounter = SegmentsToSend(myDataSize)
               PROVE  sender.myIsComplete /\ (LastIsPartial => receiver.myIsComplete)
    BY DEF EndsAgree, LastIsPartial
  <2>1. SegmentsToSend(myDataSize) \in Nat
    BY SegmentsType DEF IInv, TypeOK
  <2>2. ~UnderWay /\ ~Announced
    BY <2>1 DEF UnderWay, Announced
  <2>3. Over
    BY <2>2 DEF IInv, Phases, Declared, Expecting, OnTheirWay, Answered, Agreed
  <2>4. QED
    BY <2>3 DEF Over
<1>2. QED
  BY IInvHolds, <1>1, PTL

(***************************************************************************)
(* A transfer sends finitely many messages: a round for each segment, and  *)
(* at most one more for each chunk that was corrupted.                     *)
(***************************************************************************)
THEOREM MessagesAreBoundedHolds == ASSUME HeadsOnly PROVE Spec => []MessagesAreBounded
<1>1. IInv => MessagesAreBounded
  <2> SUFFICES ASSUME IInv PROVE ids <= Spent(SegmentsToSend(myDataSize))
    BY DEF MessagesAreBounded, Spent
  <2>1. PICK n \in Nat : n = SegmentsToSend(myDataSize)
    BY SegmentsType DEF IInv, TypeOK
  <2>2. /\ corrupted \in Nat /\ ids \in Nat /\ CHUNKSPERSEGMENT \in Nat
        /\ \A k \in Nat : Spent(k) \in Nat
        /\ \A k \in Nat : k <= n => Spent(k) <= Spent(n)
    BY SpentType, MessagesForGrows, SizesAssumption DEF IInv, TypeOK, Spent
  <2>3. CASE Announced
    <3>1. Spent(0) >= 1
      <4>1. 0 * (CHUNKSPERSEGMENT + 2) = 0 /\ corrupted * (CHUNKSPERSEGMENT + 1) \in Nat
        BY <2>2
      <4>2. QED
        BY <4>1 DEF Spent, MessagesFor
    <3>2. Spent(0) <= Spent(n) /\ Spent(0) \in Nat /\ Spent(n) \in Nat
      BY <2>2
    <3>3. QED
      BY <2>1, <2>3, <3>1, <3>2 DEF Announced
  <2>4. ASSUME UnderWay,
               \/ ids <= Spent(sender.mySegmentCounter) + 1 + CHUNKSPERSEGMENT
               \/ ids <= Spent(sender.mySegmentCounter + 1)
        PROVE  ids <= Spent(n)
    <3>1. PICK k \in Nat : k = sender.mySegmentCounter /\ k + 1 <= n
      BY <2>1, <2>4 DEF UnderWay
    <3>2. Spent(k) + 1 + CHUNKSPERSEGMENT <= Spent(k + 1) /\ k + 1 \in Nat
      BY <2>2, SpentType DEF IInv
    <3>3. Spent(k + 1) <= Spent(n)
      BY <2>2, <3>1, <3>2
    <3>4. ids <= Spent(k) + 1 + CHUNKSPERSEGMENT \/ ids <= Spent(k + 1)
      BY <2>4, <3>1
    <3>5. QED
      BY <2>2, <3>2, <3>3, <3>4
  <2>5. CASE Declared \/ Expecting
    <3>1. UnderWay /\ ids <= Spent(sender.mySegmentCounter) + 1
      BY <2>5 DEF Declared, Expecting, Agreed
    <3>2. Spent(sender.mySegmentCounter) \in Nat
      BY <2>1, <2>2, <3>1 DEF UnderWay
    <3>3. QED
      BY <2>1, <2>2, <2>4, <3>1, <3>2
  <2>6. CASE OnTheirWay
    <3>1. /\ UnderWay
          /\ \/ ids <= Spent(sender.mySegmentCounter)
             \/ ids <= Spent(sender.mySegmentCounter) + 1 + CHUNKSPERSEGMENT
      BY <2>6 DEF OnTheirWay, Agreed
    <3>2. Spent(sender.mySegmentCounter) \in Nat
      BY <2>1, <2>2, <3>1 DEF UnderWay
    <3>3. QED
      BY <2>1, <2>2, <2>4, <3>1, <3>2
  <2>7. CASE Answered
    <3>1. /\ UnderWay
          /\ \/ ids <= Spent(sender.mySegmentCounter) + 1
             \/ ids <= Spent(sender.mySegmentCounter + 1)
      BY <2>7 DEF Answered, Agreed
    <3>2. Spent(sender.mySegmentCounter) \in Nat
      BY <2>1, <2>2, <3>1 DEF UnderWay
    <3>3. QED
      BY <2>1, <2>2, <2>4, <3>1, <3>2
  <2>8. CASE Over
    BY <2>8 DEF Over
  <2>9. QED
    BY <2>1, <2>3, <2>5, <2>6, <2>7, <2>8 DEF IInv, Phases
<1>2. QED
  BY IInvHolds, <1>1, PTL

-----------------------------------------------------------------------------
(* Implementation of FileTransfer.                                         *)

(* A file that is announced is one of which nothing is in place. *)
LEMMA InitImplements == Init => Abstract!Init
<1> SUFFICES ASSUME Init PROVE Abstract!Init
  OBVIOUS
<1>1. SegmentsToSend(myDataSize) \in Nat /\ SegmentsToSend(myDataSize) - 1 \in Int
  BY SegmentsType DEF Init
<1>2. SegmentsInPlace = {}
  <2>1. ASSUME NEW s \in SegmentsInPlace PROVE FALSE
    <3>1. s \in 0 .. SegmentsToSend(myDataSize) - 1 /\ \A i \in Indices : myData[s][i] = <<s, i>>
      BY <2>1 DEF SegmentsInPlace
    <3>2. 0 \in Indices
      BY SizesAssumption DEF Indices
    <3>3. s \in Segments
      BY <3>1, SegmentsFit DEF Init
    <3>4. myData[s][0] = Nothing
      BY <3>2, <3>3 DEF Init
    <3>5. s \in Nat
      BY <3>3, SegmentsType DEF Segments
    <3>6. QED
      BY <3>1, <3>2, <3>4, <3>5 DEF Nothing
  <2>2. QED
    BY <2>1
<1>3. sender.mySegmentCounter = -1 /\ sender.myIsComplete \in BOOLEAN
      /\ receiver.myIsComplete \in BOOLEAN
  BY BoundsAssumption DEF Init
<1>4. QED
  BY <1>1, <1>2, <1>3 DEF Abstract!Init, Confirmed

(* A chunk may complete the segment it belongs to, and disturbs no other. *)
LEMMA ChunkFills ==
  ASSUME IInv, HeadsOnly, NEW m \in wire, ReceiveChunk(m)
  PROVE  Abstract!Fill \/ UNCHANGED Abstract!vars
<1>1. OnTheirWay /\ m \in Work /\ m \in Message
  BY PhaseOfMessage DEF IInv, TypeOK, ReceiveChunk, Work
<1>2. PICK at \in Segments :
        /\ at = sender.mySegmentCounter /\ at = receiver.mySegmentCounter /\ at = m.segment
        /\ at \in 0 .. SegmentsToSend(myDataSize) - 1
  <2>1. sender.mySegmentCounter \in Segments
    BY <1>1, SegmentsType DEF OnTheirWay, Agreed, UnderWay, IInv, TypeOK, Sender, Segments
  <2>2. QED
    BY <1>1, <2>1 DEF OnTheirWay, Agreed, UnderWay
<1>3. UNCHANGED <<myDataSize, sender>>
  BY DEF ReceiveChunk
<1>4. m.index \in Indices
  BY <1>1 DEF ReceiveChunk, Message
<1>5. myData' = myData \/ myData' = [myData EXCEPT ![at][m.index] = <<at, m.index>>]
  BY <1>2 DEF ReceiveChunk
<1>6. myData \in [Segments -> [Indices -> Contents]]
  BY DEF IInv, TypeOK
<1>7. \A s \in Segments : s # at => myData'[s] = myData[s]
  BY <1>5, <1>6
<1>8. \A i \in Indices : myData[at][i] = <<at, i>> => myData'[at][i] = <<at, i>>
  BY <1>4, <1>5, <1>6
<1>9. 0 .. SegmentsToSend(myDataSize) - 1 \subseteq Segments
  BY SegmentsFit DEF IInv, TypeOK
<1> DEFINE right == \A i \in Indices : myData'[at][i] = <<at, i>>
<1>10. SegmentsInPlace' = IF right THEN SegmentsInPlace \union {at} ELSE SegmentsInPlace
  <2>1. ASSUME NEW s \in 0 .. SegmentsToSend(myDataSize) - 1
        PROVE  (\A i \in Indices : myData'[s][i] = <<s, i>>)
                 <=> \/ \A i \in Indices : myData[s][i] = <<s, i>>
                     \/ right /\ s = at
    BY <1>7, <1>8, <1>9
  <2>2. SegmentsInPlace' = {s \in 0 .. SegmentsToSend(myDataSize) - 1 :
                              \A i \in Indices : myData'[s][i] = <<s, i>>}
    BY <1>3 DEF SegmentsInPlace, SegmentsToSend
  <2> HIDE DEF right
  <2>3. QED
    BY <1>2, <2>1, <2>2 DEF SegmentsInPlace
<1>11. /\ receiver'.myIsComplete \in BOOLEAN /\ receiver.myIsComplete \in BOOLEAN
       /\ receiver.myIsComplete => receiver'.myIsComplete
  <2>1. receiver \in Receiver /\ receiver' \in Receiver
    BY ReceiveChunkStep DEF IInv, TypeOK
  <2>2. QED
    BY <2>1 DEF ReceiveChunk, Receiver
<1>12. receiver'.myIsComplete /\ ~receiver.myIsComplete
         => right /\ SegmentsInPlace' = 0 .. SegmentsToSend(myDataSize) - 1
  <2> SUFFICES ASSUME receiver'.myIsComplete, ~receiver.myIsComplete
               PROVE  right /\ SegmentsInPlace' = 0 .. SegmentsToSend(myDataSize) - 1
    OBVIOUS
  <2>1. IntactUpTo(SegmentsToSend(myDataSize))'
    BY ReceiveChunkStep
  <2>2. \A s \in 0 .. SegmentsToSend(myDataSize) - 1 :
          \A i \in Indices : myData'[s][i] = <<s, i>>
    BY <1>3, <2>1 DEF IntactUpTo, SegmentsToSend
  <2>3. QED
    BY <1>2, <1>3, <2>2 DEF SegmentsInPlace, SegmentsToSend
<1> HIDE DEF right
<1>13. Confirmed = at /\ Confirmed' = at /\ SegmentsToSend(myDataSize)' = SegmentsToSend(myDataSize)
  <2>1. at # -1
    BY SegmentsType DEF Segments
  <2>2. QED
    BY <1>2, <1>3, <2>1 DEF Confirmed, SegmentsToSend
<1>14. CASE right
  <2>1. \/ receiver'.myIsComplete = receiver.myIsComplete
        \/ /\ SegmentsInPlace' = 0 .. SegmentsToSend(myDataSize) - 1
           /\ receiver'.myIsComplete = TRUE
    BY <1>11, <1>12, Zenon
  <2>2. Abstract!ReceiverMayEnd
    BY <1>13, <2>1, Zenon DEF Abstract!ReceiverMayEnd, Abstract!All
  <2>3. Abstract!Fill
    BY <1>2, <1>3, <1>10, <1>13, <1>14, <2>2 DEF Abstract!Fill, Abstract!All
  <2>4. QED
    BY <2>3
<1>15. CASE ~right
  <2>1. receiver'.myIsComplete = receiver.myIsComplete /\ SegmentsInPlace' = SegmentsInPlace
    BY <1>10, <1>11, <1>12, <1>15
  <2>2. QED
    BY <1>3, <1>13, <2>1 DEF Abstract!vars
<1>16. QED
  BY <1>14, <1>15

(* The answer that nothing is missing confirms the segment. *)
LEMMA ResponseConfirms ==
  ASSUME IInv, HeadsOnly, NEW m \in wire, ReceiveResponse(m)
  PROVE  Abstract!Confirm \/ UNCHANGED Abstract!vars
<1>1. Answered /\ Work = {m}
  BY PhaseOfMessage DEF IInv, ReceiveResponse
<1>2. UNCHANGED <<myDataSize, receiver, myData>> /\ hooks = {}
  BY <1>1 DEF ReceiveResponse, Answered
<1>3. PICK at \in Nat : at = sender.mySegmentCounter /\ at + 1 <= SegmentsToSend(myDataSize)
  BY <1>1, SegmentsType DEF Answered, Agreed, UnderWay, IInv, TypeOK
<1>4. SegmentsToSend(myDataSize)' = SegmentsToSend(myDataSize) /\ SegmentsInPlace' = SegmentsInPlace
  BY <1>2 DEF SegmentsToSend, SegmentsInPlace
<1>5. sender \in Sender /\ SegmentsToSend(myDataSize) \in Nat
  BY SegmentsType DEF IInv, TypeOK
<1>6. CASE m.missing # {}
  <2>1. sender' = [sender EXCEPT !.myChunksLeft = m.missing]
    BY <1>6 DEF ReceiveResponse
  <2>2. /\ sender'.mySegmentCounter = sender.mySegmentCounter
        /\ sender'.myIsComplete = sender.myIsComplete
    BY <1>5, <2>1 DEF Sender
  <2>3. Confirmed' = Confirmed
    BY <2>2 DEF Confirmed
  <2>4. QED
    BY <1>2, <1>4, <2>2, <2>3 DEF Abstract!vars
<1>7. CASE m.missing = {}
  <2>1. PICK rest : SendNextSegmentHeader(rest, hooks)
    BY <1>7 DEF ReceiveResponse
  <2>2. at \in SegmentsInPlace
    <3>1. IntactUpTo(at + 1)
      BY <1>1, <1>3, <1>7 DEF Answered
    <3>2. at \in 0 .. (at + 1) - 1 /\ at \in 0 .. SegmentsToSend(myDataSize) - 1
      BY <1>3, <1>5
    <3>3. QED
      BY <3>1, <3>2 DEF IntactUpTo, SegmentsInPlace
  <2>3. /\ sender'.mySegmentCounter = at + 1
        /\ sender'.myIsComplete = (sender.myIsComplete \/ at + 1 = SegmentsToSend(myDataSize))
    <3>1. CASE at + 1 = SegmentsToSend(myDataSize)
      BY <1>3, <1>5, <2>1, <3>1 DEF SendNextSegmentHeader, Sender
    <3>2. CASE at + 1 # SegmentsToSend(myDataSize)
      BY <1>3, <1>5, <2>1, <3>2 DEF SendNextSegmentHeader, Sender
    <3>3. QED
      BY <3>1, <3>2
  <2>4. Confirmed = at /\ Confirmed' = at + 1
    BY <1>3, <2>3 DEF Confirmed
  <2>5. Abstract!Confirm
    BY <1>2, <1>4, <2>2, <2>3, <2>4 DEF Abstract!Confirm
  <2>6. QED
    BY <2>5
<1>8. QED
  BY <1>6, <1>7

(* Each step fills a segment, confirms one, ends an empty file, or does    *)
(* nothing that FileTransfer sees.                                         *)
LEMMA StepImplements ==
  ASSUME HeadsOnly, IInv, [Next]_vars
  PROVE  [Abstract!Next]_(Abstract!vars)
<1>1. ASSUME NEW h \in hooks, PeerAcceptedHead(h)
      PROVE  Abstract!EndEmpty \/ UNCHANGED Abstract!vars
  <2>1. Announced
    BY <1>1, PhaseOfHook DEF IInv, PeerAcceptedHead
  <2>2. UNCHANGED <<myDataSize, receiver, myData>> /\ sender.mySegmentCounter = -1
        /\ sender \in Sender
    BY <1>1, <2>1 DEF PeerAcceptedHead, Announced, IInv, TypeOK
  <2>3. /\ sender'.mySegmentCounter = 0
        /\ \/ SegmentsToSend(myDataSize) = 0 /\ sender'.myIsComplete = TRUE
           \/ sender'.myIsComplete = sender.myIsComplete
    <3>1. SendNextSegmentHeader(wire, hooks \ {h}) /\ sender.mySegmentCounter + 1 = 0
      BY <1>1, <2>2 DEF PeerAcceptedHead
    <3>2. CASE SegmentsToSend(myDataSize) = 0
      BY <2>2, <3>1, <3>2 DEF SendNextSegmentHeader, Sender
    <3>3. CASE SegmentsToSend(myDataSize) # 0
      BY <2>2, <3>1, <3>3 DEF SendNextSegmentHeader, Sender
    <3>4. QED
      BY <3>2, <3>3
  <2>4. /\ SegmentsToSend(myDataSize)' = SegmentsToSend(myDataSize)
        /\ SegmentsInPlace' = SegmentsInPlace /\ Confirmed' = Confirmed
    BY <2>2, <2>3 DEF SegmentsToSend, SegmentsInPlace, Confirmed
  <2>5. QED
    BY <2>2, <2>3, <2>4 DEF Abstract!EndEmpty, Abstract!vars
<1>2. ASSUME UNCHANGED <<myDataSize, sender, myData>>,
             receiver'.myIsComplete = receiver.myIsComplete
      PROVE  UNCHANGED Abstract!vars
  BY <1>2 DEF Abstract!vars, SegmentsToSend, SegmentsInPlace, Confirmed
<1>3. ASSUME NEW h \in hooks, PeerAcceptedSegmentHeader(h)
      PROVE  UNCHANGED Abstract!vars
  BY <1>2, <1>3 DEF PeerAcceptedSegmentHeader
<1>4. ASSUME NEW m \in wire, ReceiveHead(m) \/ ReceiveDeclaration(m)
      PROVE  UNCHANGED Abstract!vars
  <2>1. receiver \in Receiver
    BY DEF IInv, TypeOK
  <2>2. receiver'.myIsComplete = receiver.myIsComplete
    BY <1>4, <2>1 DEF ReceiveHead, ReceiveDeclaration, AcceptSegment, Receiver
  <2>3. QED
    BY <1>2, <1>4, <2>2 DEF ReceiveHead, ReceiveDeclaration
<1>5. CASE UNCHANGED vars
  BY <1>2, <1>5 DEF vars
<1>6. QED
  BY <1>1, <1>3, <1>4, <1>5, ChunkFills, ResponseConfirms DEF Next, Abstract!Next

(***************************************************************************)
(* A transfer implements FileTransfer: the segments are put in place in    *)
(* order and stay, and neither side ends before the last one is in place,  *)
(* whatever is corrupted and in whichever order chunks are heard.          *)
(***************************************************************************)
THEOREM ImplementsFileTransferHolds == ASSUME HeadsOnly PROVE Spec => ImplementsFileTransfer
BY IInvHolds, InitImplements, StepImplements, PTL
   DEF Spec, ImplementsFileTransfer, Abstract!Spec
=============================================================================
