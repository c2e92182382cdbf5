----------------------- MODULE NetworkInterfaceProofs -----------------------
(* Theorems about NetworkInterface, for every value of its constants.      *)
EXTENDS NetworkInterface, SequenceTheorems, TLAPS

-----------------------------------------------------------------------------
(* The vectors of the interface.                                           *)

(* What vector::erase at a position leaves. *)
LEMMA RemoveAtProperties ==
  ASSUME NEW S, NEW s \in Seq(S), NEW k \in 1 .. Len(s)
  PROVE  /\ RemoveAt(s, k) \in Seq(S)
         /\ Len(RemoveAt(s, k)) = Len(s) - 1
         /\ \A j \in 1 .. Len(s) - 1 :
              RemoveAt(s, k)[j] = IF j < k THEN s[j] ELSE s[j + 1]
<1> DEFINE front == SubSeq(s, 1, k - 1)
           back == SubSeq(s, k + 1, Len(s))
<1>1. /\ front \in Seq(S) /\ Len(front) = k - 1
      /\ \A j \in 1 .. k - 1 : front[j] = s[j]
  OBVIOUS
<1>2. /\ back \in Seq(S) /\ Len(back) = Len(s) - k
      /\ \A j \in 1 .. Len(s) - k : back[j] = s[j + k]
  OBVIOUS
<1>3. RemoveAt(s, k) = front \o back
  BY DEF RemoveAt
<1> HIDE DEF front, back
<1>4. /\ front \o back \in Seq(S)
      /\ Len(front \o back) = Len(front) + Len(back)
      /\ \A j \in 1 .. Len(front) + Len(back) :
           (front \o back)[j] = IF j <= Len(front) THEN front[j] ELSE back[j - Len(front)]
  BY <1>1, <1>2, ConcatProperties
<1>5. ASSUME NEW j \in 1 .. Len(s) - 1
      PROVE  RemoveAt(s, k)[j] = IF j < k THEN s[j] ELSE s[j + 1]
  <2>1. CASE j < k
    BY <1>1, <1>2, <1>3, <1>4, <2>1
  <2>2. CASE j >= k
    <3>1. j - (k - 1) \in 1 .. Len(s) - k
      BY <2>2
    <3>2. back[j - (k - 1)] = s[j + 1]
      BY <1>2, <3>1
    <3>3. QED
      BY <1>1, <1>2, <1>3, <1>4, <2>2, <3>2
  <2>3. QED
    BY <2>1, <2>2
<1>6. QED
  BY <1>1, <1>2, <1>3, <1>4, <1>5

(* What the loop at the end of Flush leaves when it has popped n entries. *)
LEMMA PopProperties ==
  ASSUME NEW S, NEW s \in Seq(S), NEW n \in 0 .. Len(s)
  PROVE  /\ SubSeq(s, n + 1, Len(s)) \in Seq(S)
         /\ Len(SubSeq(s, n + 1, Len(s))) = Len(s) - n
         /\ \A j \in 1 .. Len(s) - n : SubSeq(s, n + 1, Len(s))[j] = s[n + j]
  OBVIOUS

(* Moving a refreshed entry to the back keeps the others in order before it. *)
LEMMA RefreshProperties ==
  ASSUME NEW r \in Seq(Heard), NEW k \in 1 .. Len(r)
  PROVE  /\ Refresh(r, k) \in Seq(Heard)
         /\ Len(Refresh(r, k)) = Len(r)
         /\ Refresh(r, k)[Len(r)] = [id |-> r[k].id, age |-> 0]
         /\ \A j \in 1 .. Len(r) - 1 :
              Refresh(r, k)[j] = IF j < k THEN r[j] ELSE r[j + 1]
<1>1. r[k] \in Heard
  OBVIOUS
<1>2. [id |-> r[k].id, age |-> 0] \in Heard
  BY <1>1, TimingAssumption DEF Heard, HeardAges
<1>3. QED
  BY <1>2, RemoveAtProperties DEF Refresh

-----------------------------------------------------------------------------
(* Type correctness.                                                       *)

(* What PreProcessAndSend appends to myPendingAccepts is a tracker. *)
LEMMA NewTrackerType == ASSUME NEW m \in Messages PROVE NewTracker(m) \in Tracker
  BY TimingAssumption DEF NewTracker, Tracker, SendAges

(* Flush keeps a tracker's message, and sentCount stays in the range of a char. *)
LEMMA ResendType == ASSUME NEW t \in Tracker PROVE Resend(t) \in Tracker /\ Resend(t).msg = t.msg
  BY TimingAssumption DEF Resend, CharIncrement, Tracker, SendAges

(* The passing of time keeps trackers and remembered ids what they are. *)
LEMMA AgingType ==
  /\ \A t \in Tracker : OlderTracker(t) \in Tracker /\ OlderTracker(t).msg = t.msg
  /\ \A h \in Heard : OlderEntry(h) \in Heard /\ OlderEntry(h).id = h.id
  /\ \A a \in HeardAges : Older(a, Forgotten) \in HeardAges
<1> USE TimingAssumption
<1>1. \A a \in SendAges : Older(a, ResendTimer + 1) \in SendAges
  BY DEF Older, SendAges
<1>2. \A a \in HeardAges : Older(a, Forgotten) \in HeardAges
  BY DEF Older, HeardAges, Forgotten
<1>3. QED
  BY <1>1, <1>2 DEF OlderTracker, OlderEntry, Tracker, Heard

(* The step of RejectDuplicate, at the position it refreshes. *)
RefreshedAt(m, k) ==
  LET r == myRecentMesseges[Dst[m]] IN
  /\ r[k].id = Id[m]
  /\ \A j \in 1 .. k - 1 : r[j].id # Id[m]
  /\ myRecentMesseges' = [myRecentMesseges EXCEPT ![Dst[m]] = Refresh(r, k)]

(* The duplicate branch of PreProcessReceive refreshes one entry, the first with the id. *)
LEMMA RejectEffect ==
  ASSUME myRecentMesseges \in [Interfaces -> Seq(Heard)],
         NEW m \in Messages, RejectDuplicate(m)
  PROVE  \E k \in 1 .. Len(myRecentMesseges[Dst[m]]) : RefreshedAt(m, k)
<1>1. \E k \in DOMAIN myRecentMesseges[Dst[m]] : RefreshedAt(m, k)
  BY Zenon DEF RejectDuplicate, RefreshedAt
<1>2. myRecentMesseges[Dst[m]] \in Seq(Heard)
  BY MessagesAssumption
<1>3. DOMAIN myRecentMesseges[Dst[m]] = 1 .. Len(myRecentMesseges[Dst[m]])
  BY <1>2
<1>4. QED
  BY <1>1, <1>3

(* A new interface, with both vectors empty, is well typed. *)
LEMMA InitTypeOK == Init => TypeOK
  BY TimingAssumption DEF Init, TypeOK, HeardAges, Forgotten

(* Every operation of the interface keeps it well typed. *)
LEMMA NextTypeOK == TypeOK /\ [Next]_vars => TypeOK'
<1> SUFFICES ASSUME TypeOK, [Next]_vars PROVE TypeOK'
  OBVIOUS
<1> USE MessagesAssumption, TimingAssumption DEF TypeOK, history
<1>1. ASSUME NEW m \in Messages, PreProcessAndSend(m) PROVE TypeOK'
  BY <1>1, NewTrackerType DEF PreProcessAndSend
<1>2. ASSUME NEW m \in Messages, Accept(m) PROVE TypeOK'
  <2>1. [id |-> Id[m], age |-> 0] \in Heard
    BY DEF Heard, Ids, HeardAges
  <2>2. QED
    BY <1>2, <2>1 DEF Accept, Consumed, More, HeardAges
<1>3. ASSUME NEW m \in Messages, RejectDuplicate(m) PROVE TypeOK'
  <2>1. PICK k \in 1 .. Len(myRecentMesseges[Dst[m]]) :
          RefreshedAt(m, k)
    BY <1>3, RejectEffect
  <2>2. Refresh(myRecentMesseges[Dst[m]], k) \in Seq(Heard)
    BY <2>1, RefreshProperties
  <2>3. myRecentMesseges' \in [Interfaces -> Seq(Heard)]
    BY <2>1, <2>2 DEF RefreshedAt
  <2>4. /\ data' = Consumed(m, data) /\ acks' = acks \union {m} /\ quiet' = [quiet EXCEPT ![m] = 0]
        /\ UNCHANGED <<myPendingAccepts, myCallbacks, sends, timedOut, handed, confirmed, fired>>
    BY <1>3, Zenon DEF RejectDuplicate
  <2>5. data' \subseteq Messages /\ acks' \subseteq Messages
    BY <2>4 DEF Consumed
  <2>6. quiet' \in [Messages -> HeardAges]
    BY <2>4 DEF HeardAges
  <2>7. QED
    BY <2>3, <2>4, <2>5, <2>6
<1>4. ASSUME NEW m \in Messages, AckTracked(m) PROVE TypeOK'
  <2>1. myPendingAccepts' \in [Interfaces -> Seq(Tracker)]
    BY <1>4, RemoveAtProperties DEF AckTracked
  <2>2. QED
    BY <1>4, <2>1 DEF AckTracked, Consumed
<1>5. ASSUME NEW m \in Messages, AckUnknown(m) PROVE TypeOK'
  BY <1>5 DEF AckUnknown
<1>6. ASSUME NEW m \in Messages, LoseData(m) \/ LoseAck(m) PROVE TypeOK'
  BY <1>6 DEF LoseData, LoseAck
<1>7. ASSUME NEW i \in Interfaces, Flush(i) PROVE TypeOK'
  <2> DEFINE p == myPendingAccepts[i]
             q == [k \in 1 .. Len(p) |-> Resend(p[k])]
  <2>1. q \in Seq(Tracker)
    BY ResendType
  <2>2. myPendingAccepts' \in [Interfaces -> Seq(Tracker)]
    BY <1>7, <2>1 DEF Flush
  <2>3. myRecentMesseges' \in [Interfaces -> Seq(Heard)]
    BY <1>7, PopProperties DEF Flush
  <2>4. data' \subseteq Messages
    <3>1. \A k \in DOMAIN p : p[k] \in Tracker
      OBVIOUS
    <3>2. \A k \in DOMAIN p : p[k].msg \in Messages
      BY <3>1 DEF Tracker
    <3>3. data' = data \union {p[k].msg : k \in {l \in DOMAIN p : IsDue(p[l])}}
      BY <1>7 DEF Flush
    <3> HIDE DEF p
    <3>4. QED
      BY <3>2, <3>3
  <2>5. QED
    BY <1>7, <2>2, <2>3, <2>4 DEF Flush
<1>8. ASSUME NEW i \in Interfaces, Clear(i) PROVE TypeOK'
  BY <1>8 DEF Clear, HeardAges, Forgotten
<1>9. ASSUME Tick PROVE TypeOK'
  <2>1. ASSUME NEW i \in Interfaces
        PROVE  [k \in 1 .. Len(myPendingAccepts[i]) |->
                  OlderTracker(myPendingAccepts[i][k])] \in Seq(Tracker)
    BY AgingType
  <2>2. ASSUME NEW i \in Interfaces
        PROVE  [k \in 1 .. Len(myRecentMesseges[i]) |->
                  OlderEntry(myRecentMesseges[i][k])] \in Seq(Heard)
    BY AgingType
  <2>3. quiet' \in [Messages -> HeardAges]
    BY <1>9, AgingType DEF Tick
  <2>4. QED
    BY <1>9, <2>1, <2>2, <2>3 DEF Tick
<1>10. CASE UNCHANGED vars
  BY <1>10 DEF vars
<1>11. QED
  BY <1>1, <1>2, <1>3, <1>4, <1>5, <1>6, <1>7, <1>8, <1>9, <1>10 DEF Next

(* Type correctness, in particular that sentCount stays within its char. *)
THEOREM TypeCorrect == Spec => []TypeOK
  BY InitTypeOK, NextTypeOK, PTL DEF Spec

-----------------------------------------------------------------------------
(* What each step does to the vector of remembered ids.                    *)

(* Accept puts the new id at the back of the receiver's vector. *)
LEMMA AcceptEffect ==
  ASSUME TypeOK, NEW m \in Messages, Accept(m)
  PROVE  LET r == myRecentMesseges[Dst[m]]
             s == myRecentMesseges'[Dst[m]] IN
         /\ r \in Seq(Heard) /\ s \in Seq(Heard)
         /\ Len(s) = Len(r) + 1
         /\ \A k \in 1 .. Len(r) : s[k] = r[k]
         /\ s[Len(s)] = [id |-> Id[m], age |-> 0]
         /\ \A i \in Interfaces \ {Dst[m]} : myRecentMesseges'[i] = myRecentMesseges[i]
<1> DEFINE r == myRecentMesseges[Dst[m]]
           e == [id |-> Id[m], age |-> 0]
<1>1. e \in Heard
  BY TimingAssumption DEF Heard, Ids, HeardAges
<1>2. /\ r \in Seq(Heard)
      /\ myRecentMesseges \in [Interfaces -> Seq(Heard)]
      /\ Dst[m] \in Interfaces
  BY MessagesAssumption DEF TypeOK
<1>3. myRecentMesseges' = [myRecentMesseges EXCEPT ![Dst[m]] = Append(r, e)]
  BY DEF Accept
<1> HIDE DEF e
<1>4. QED
  BY <1>1, <1>2, <1>3 DEF e

(* RejectDuplicate moves one entry to the back and makes it new. *)
LEMMA RejectVector ==
  ASSUME TypeOK, NEW m \in Messages, NEW k \in 1 .. Len(myRecentMesseges[Dst[m]]),
         RefreshedAt(m, k)
  PROVE  LET r == myRecentMesseges[Dst[m]]
             s == myRecentMesseges'[Dst[m]] IN
         /\ r \in Seq(Heard) /\ s \in Seq(Heard)
         /\ Len(s) = Len(r)
         /\ \A j \in 1 .. Len(r) - 1 : s[j] = IF j < k THEN r[j] ELSE r[j + 1]
         /\ s[Len(r)] = [id |-> Id[m], age |-> 0]
         /\ \A i \in Interfaces \ {Dst[m]} : myRecentMesseges'[i] = myRecentMesseges[i]
<1>1. /\ myRecentMesseges[Dst[m]] \in Seq(Heard)
      /\ myRecentMesseges \in [Interfaces -> Seq(Heard)]
      /\ Dst[m] \in Interfaces
  BY MessagesAssumption DEF TypeOK
<1>2. myRecentMesseges'[Dst[m]] = Refresh(myRecentMesseges[Dst[m]], k)
  BY <1>1 DEF RefreshedAt
<1>3. \A i \in Interfaces \ {Dst[m]} : myRecentMesseges'[i] = myRecentMesseges[i]
  BY <1>1 DEF RefreshedAt
<1>4. myRecentMesseges[Dst[m]][k].id = Id[m]
  BY DEF RefreshedAt
<1>5. QED
  BY <1>1, <1>2, <1>3, <1>4, RefreshProperties

(* Flush drops n expired entries from the front of its own vector. *)
LEMMA FlushVector ==
  ASSUME TypeOK, NEW i \in Interfaces, Flush(i)
  PROVE  \E n \in 0 .. Len(myRecentMesseges[i]) :
           /\ IsExpiredPrefix(myRecentMesseges[i], n)
           /\ myRecentMesseges'[i] \in Seq(Heard)
           /\ Len(myRecentMesseges'[i]) = Len(myRecentMesseges[i]) - n
           /\ \A j \in 1 .. Len(myRecentMesseges[i]) - n :
                myRecentMesseges'[i][j] = myRecentMesseges[i][n + j]
           /\ \A o \in Interfaces \ {i} : myRecentMesseges'[o] = myRecentMesseges[o]
<1>1. PICK n \in 0 .. Len(myRecentMesseges[i]) :
        /\ IsExpiredPrefix(myRecentMesseges[i], n)
        /\ myRecentMesseges' = [myRecentMesseges EXCEPT
             ![i] = SubSeq(myRecentMesseges[i], n + 1, Len(myRecentMesseges[i]))]
  BY Zenon DEF Flush
<1>2. /\ myRecentMesseges[i] \in Seq(Heard)
      /\ myRecentMesseges \in [Interfaces -> Seq(Heard)]
  BY DEF TypeOK
<1>3. myRecentMesseges'[i] = SubSeq(myRecentMesseges[i], n + 1, Len(myRecentMesseges[i]))
  BY <1>1, <1>2
<1>4. \A o \in Interfaces \ {i} : myRecentMesseges'[o] = myRecentMesseges[o]
  BY <1>1, <1>2
<1>5. /\ myRecentMesseges'[i] \in Seq(Heard)
      /\ Len(myRecentMesseges'[i]) = Len(myRecentMesseges[i]) - n
      /\ \A j \in 1 .. Len(myRecentMesseges[i]) - n :
           myRecentMesseges'[i][j] = myRecentMesseges[i][n + j]
  BY <1>2, <1>3, PopProperties
<1>6. QED
  BY <1>1, <1>4, <1>5

(* Time makes every entry older and leaves the vectors as they are. *)
LEMMA TickVector ==
  ASSUME TypeOK, Tick, NEW i \in Interfaces
  PROVE  /\ Len(myRecentMesseges'[i]) = Len(myRecentMesseges[i])
         /\ \A k \in 1 .. Len(myRecentMesseges[i]) :
              /\ myRecentMesseges[i][k] \in Heard
              /\ myRecentMesseges'[i][k] = OlderEntry(myRecentMesseges[i][k])
<1>1. myRecentMesseges[i] \in Seq(Heard)
  BY DEF TypeOK
<1>2. myRecentMesseges'[i] =
        [k \in 1 .. Len(myRecentMesseges[i]) |-> OlderEntry(myRecentMesseges[i][k])]
  BY DEF Tick
<1>3. QED
  BY <1>1, <1>2

-----------------------------------------------------------------------------
(* Nothing heard recently is forgotten.                                    *)

(* No operation forgets an id that was heard within the duplication timeout. *)
LEMMA NextRemembersRecent ==
  TypeOK /\ RemembersRecent /\ [Next]_vars => RemembersRecent'
<1> SUFFICES ASSUME TypeOK, RemembersRecent, [Next]_vars, NEW n \in Messages,
                    quiet'[n] <= DuplicationTimeout
             PROVE  RememberedSince(Dst[n], Id[n], quiet[n])'
  BY DEF RemembersRecent
<1> USE MessagesAssumption, TimingAssumption
<1>0. /\ quiet[n] \in HeardAges /\ Dst[n] \in Interfaces
      /\ quiet[n] <= DuplicationTimeout => RememberedSince(Dst[n], Id[n], quiet[n])
  BY DEF TypeOK, RemembersRecent
<1>1. CASE UNCHANGED <<myRecentMesseges, quiet>>
  BY <1>0, <1>1 DEF RememberedSince
<1>2. ASSUME NEW m \in Messages, Accept(m) PROVE RememberedSince(Dst[n], Id[n], quiet[n])'
  <2>1. quiet'[n] = IF n = m THEN 0 ELSE quiet[n]
    BY <1>2 DEF Accept, TypeOK
  <2> DEFINE r == myRecentMesseges[Dst[m]]
             s == myRecentMesseges'[Dst[m]]
  <2>0. /\ r \in Seq(Heard) /\ Len(s) = Len(r) + 1
        /\ \A k \in 1 .. Len(r) : s[k] = r[k]
        /\ s[Len(s)] = [id |-> Id[m], age |-> 0]
        /\ \A i \in Interfaces \ {Dst[m]} : myRecentMesseges'[i] = myRecentMesseges[i]
    BY <1>2, AcceptEffect
  <2> HIDE DEF r, s
  <2>2. CASE n = m
    <3>1. Len(s) \in 1 .. Len(s) /\ s[Len(s)].id = Id[m] /\ s[Len(s)].age = 0
      BY <2>0
    <3>2. QED
      BY <2>1, <2>2, <3>1 DEF RememberedSince, s
  <2>3. CASE n # m
    <3>1. PICK k \in 1 .. Len(myRecentMesseges[Dst[n]]) :
            /\ myRecentMesseges[Dst[n]][k].id = Id[n]
            /\ myRecentMesseges[Dst[n]][k].age <= quiet[n]
      BY <1>0, <2>1, <2>3 DEF RememberedSince
    <3>2. /\ k \in 1 .. Len(myRecentMesseges'[Dst[n]])
          /\ myRecentMesseges'[Dst[n]][k] = myRecentMesseges[Dst[n]][k]
      <4>1. CASE Dst[n] = Dst[m]
        BY <2>0, <3>1, <4>1 DEF r, s
      <4>2. CASE Dst[n] # Dst[m]
        BY <1>0, <2>0, <3>1, <4>2
      <4>3. QED
        BY <4>1, <4>2
    <3>3. QED
      BY <2>1, <2>3, <3>1, <3>2 DEF RememberedSince
  <2>4. QED
    BY <2>2, <2>3
<1>3. ASSUME NEW m \in Messages, RejectDuplicate(m)
      PROVE  RememberedSince(Dst[n], Id[n], quiet[n])'
  <2> DEFINE r == myRecentMesseges[Dst[n]]
             s == myRecentMesseges'[Dst[n]]
  <2>1. quiet'[n] = IF n = m THEN 0 ELSE quiet[n]
    BY <1>3 DEF RejectDuplicate, TypeOK
  <2>2. PICK k \in 1 .. Len(myRecentMesseges[Dst[m]]) : RefreshedAt(m, k)
    BY <1>3, RejectEffect DEF TypeOK
  <2>3. CASE n = m
    <3>1. Len(r) \in 1 .. Len(s) /\ s[Len(r)] = [id |-> Id[n], age |-> 0]
      BY <2>2, <2>3, RejectVector
    <3>2. QED
      BY <2>1, <2>3, <3>1 DEF RememberedSince
  <2>4. CASE n # m
    <3>1. PICK j \in 1 .. Len(r) : r[j].id = Id[n] /\ r[j].age <= quiet[n]
      BY <1>0, <2>1, <2>4 DEF RememberedSince
    <3>2. CASE Dst[n] # Dst[m]
      <4>1. s = r
        BY <1>0, <2>2, <3>2, RejectVector
      <4>2. QED
        BY <2>1, <2>4, <3>1, <4>1 DEF RememberedSince
    <3>3. CASE Dst[n] = Dst[m]
      <4>1. /\ r \in Seq(Heard) /\ Len(s) = Len(r)
            /\ \A l \in 1 .. Len(r) - 1 : s[l] = IF l < k THEN r[l] ELSE r[l + 1]
            /\ s[Len(r)] = [id |-> Id[m], age |-> 0]
            /\ k \in 1 .. Len(r)
        BY <2>2, <3>3, RejectVector
      <4>2. r[k].id = Id[m]
        BY <2>2, <3>3 DEF RefreshedAt
      <4> HIDE DEF r, s
      <4>3. \E l \in 1 .. Len(s) : s[l].id = Id[n] /\ s[l].age <= quiet[n]
        <5>1. CASE j < k
          <6>1. s[j] = r[j] /\ j \in 1 .. Len(s)
            BY <4>1, <5>1
          <6>2. QED
            BY <3>1, <6>1
        <5>2. CASE j = k
          <6>1. Len(r) \in 1 .. Len(s) /\ s[Len(r)].id = Id[n] /\ s[Len(r)].age = 0
            BY <3>1, <4>1, <4>2, <5>2
          <6>2. QED
            BY <1>0, <6>1 DEF HeardAges
        <5>3. CASE j > k
          <6>1. s[j - 1] = r[j] /\ j - 1 \in 1 .. Len(s)
            BY <4>1, <5>3
          <6>2. QED
            BY <3>1, <6>1
        <5>4. QED
          BY <5>1, <5>2, <5>3, <4>1
      <4>4. QED
        BY <2>1, <2>4, <4>3 DEF RememberedSince, s
    <3>4. QED
      BY <3>2, <3>3
  <2>5. QED
    BY <2>3, <2>4
<1>4. ASSUME NEW i \in Interfaces, Flush(i) PROVE RememberedSince(Dst[n], Id[n], quiet[n])'
  <2>1. quiet' = quiet
    BY <1>4 DEF Flush, history
  <2>2. PICK k \in 1 .. Len(myRecentMesseges[Dst[n]]) :
          /\ myRecentMesseges[Dst[n]][k].id = Id[n]
          /\ myRecentMesseges[Dst[n]][k].age <= quiet[n]
    BY <1>0, <2>1 DEF RememberedSince
  <2>3. PICK d \in 0 .. Len(myRecentMesseges[i]) :
          /\ IsExpiredPrefix(myRecentMesseges[i], d)
          /\ Len(myRecentMesseges'[i]) = Len(myRecentMesseges[i]) - d
          /\ \A j \in 1 .. Len(myRecentMesseges[i]) - d :
               myRecentMesseges'[i][j] = myRecentMesseges[i][d + j]
          /\ \A o \in Interfaces \ {i} : myRecentMesseges'[o] = myRecentMesseges[o]
    BY <1>4, FlushVector
  <2>4. CASE Dst[n] # i
    <3>1. myRecentMesseges'[Dst[n]] = myRecentMesseges[Dst[n]]
      BY <1>0, <2>3, <2>4
    <3>2. QED
      BY <2>1, <2>2, <3>1 DEF RememberedSince
  <2>5. CASE Dst[n] = i
    <3>1. myRecentMesseges[i] \in Seq(Heard) /\ myRecentMesseges[i][k] \in Heard
      BY <2>2, <2>5 DEF TypeOK
    <3>2. myRecentMesseges[i][k].age <= DuplicationTimeout
      BY <1>0, <2>1, <2>2, <2>5, <3>1 DEF Heard, HeardAges
    <3>3. ~(k \in 1 .. d)
      BY <2>3, <3>1, <3>2 DEF IsExpiredPrefix, IsExpired, Heard, HeardAges
    <3>4. k - d \in 1 .. Len(myRecentMesseges[i]) - d
      BY <2>2, <2>3, <2>5, <3>1, <3>3
    <3>5. /\ k - d \in 1 .. Len(myRecentMesseges'[i])
          /\ myRecentMesseges'[i][k - d] = myRecentMesseges[i][k]
      BY <2>3, <3>4
    <3>6. QED
      BY <2>1, <2>2, <2>5, <3>5 DEF RememberedSince
  <2>6. QED
    BY <2>4, <2>5
<1>5. ASSUME NEW i \in Interfaces, Clear(i) PROVE RememberedSince(Dst[n], Id[n], quiet[n])'
  <2>1. quiet'[n] = IF Dst[n] = i THEN Forgotten ELSE quiet[n]
    BY <1>5 DEF Clear
  <2>2. Dst[n] # i
    BY <2>1 DEF Forgotten
  <2>3. myRecentMesseges'[Dst[n]] = myRecentMesseges[Dst[n]]
    BY <1>0, <1>5, <2>2 DEF Clear, TypeOK
  <2>4. QED
    BY <1>0, <2>1, <2>2, <2>3 DEF RememberedSince
<1>6. ASSUME Tick PROVE RememberedSince(Dst[n], Id[n], quiet[n])'
  <2>1. quiet'[n] = Older(quiet[n], Forgotten)
    BY <1>6 DEF Tick
  <2>2. quiet[n] <= DuplicationTimeout /\ quiet'[n] = quiet[n] + 1
    BY <1>0, <2>1 DEF Older, HeardAges, Forgotten
  <2>3. PICK k \in 1 .. Len(myRecentMesseges[Dst[n]]) :
          /\ myRecentMesseges[Dst[n]][k].id = Id[n]
          /\ myRecentMesseges[Dst[n]][k].age <= quiet[n]
    BY <1>0, <2>2 DEF RememberedSince
  <2>4. /\ Len(myRecentMesseges'[Dst[n]]) = Len(myRecentMesseges[Dst[n]])
        /\ myRecentMesseges[Dst[n]][k] \in Heard
        /\ myRecentMesseges'[Dst[n]][k] = OlderEntry(myRecentMesseges[Dst[n]][k])
    BY <1>0, <1>6, <2>3, TickVector
  <2>5. /\ myRecentMesseges'[Dst[n]][k].id = Id[n]
        /\ myRecentMesseges'[Dst[n]][k].age <= quiet'[n]
    BY <1>0, <2>2, <2>3, <2>4 DEF OlderEntry, Older, Heard, HeardAges, Forgotten
  <2>6. QED
    BY <2>3, <2>4, <2>5 DEF RememberedSince
<1>7. ASSUME NEW m \in Messages,
             \/ PreProcessAndSend(m) \/ AckTracked(m) \/ AckUnknown(m)
             \/ LoseData(m) \/ LoseAck(m)
      PROVE  UNCHANGED <<myRecentMesseges, quiet>>
  BY <1>7 DEF PreProcessAndSend, AckTracked, AckUnknown, LoseData, LoseAck, history
<1>8. CASE UNCHANGED vars
  BY <1>1, <1>8 DEF vars, history
<1>9. QED
  BY <1>1, <1>2, <1>3, <1>4, <1>5, <1>6, <1>7, <1>8 DEF Next

-----------------------------------------------------------------------------
(* The oldest entry is always in front.                                    *)

InOrder(r) == \A j, k \in 1 .. Len(r) : j < k => r[j].age >= r[k].age

(* Every operation leaves myRecentMesseges in order of age. *)
LEMMA NextRecentsInOrder == TypeOK /\ RecentsInOrder /\ [Next]_vars => RecentsInOrder'
<1> SUFFICES ASSUME TypeOK, RecentsInOrder, [Next]_vars, NEW o \in Interfaces
             PROVE  InOrder(myRecentMesseges'[o])
  BY DEF RecentsInOrder, InOrder
<1> USE MessagesAssumption, TimingAssumption
<1>0. /\ InOrder(myRecentMesseges[o])
      /\ myRecentMesseges[o] \in Seq(Heard)
  BY DEF TypeOK, RecentsInOrder, InOrder
<1>a. \A k \in 1 .. Len(myRecentMesseges[o]) :
        myRecentMesseges[o][k] \in Heard /\ myRecentMesseges[o][k].age \in Nat
  <2>1. \A k \in 1 .. Len(myRecentMesseges[o]) : myRecentMesseges[o][k] \in Heard
    BY <1>0
  <2>2. \A h \in Heard : h.age \in Nat
    BY DEF Heard, HeardAges
  <2>3. QED
    BY <2>1, <2>2
<1>1. CASE UNCHANGED myRecentMesseges
  BY <1>0, <1>1
<1>2. ASSUME NEW m \in Messages, Accept(m) PROVE InOrder(myRecentMesseges'[o])
  <2>1. CASE o # Dst[m]
    BY <1>0, <1>2, <2>1, AcceptEffect
  <2>2. CASE o = Dst[m]
    <3> DEFINE r == myRecentMesseges[o]
               s == myRecentMesseges'[o]
    <3>1. /\ Len(s) = Len(r) + 1
          /\ \A k \in 1 .. Len(r) : s[k] = r[k]
          /\ s[Len(s)] = [id |-> Id[m], age |-> 0]
      BY <1>2, <2>2, AcceptEffect
    <3>2. /\ Len(r) \in Nat
          /\ \A k \in 1 .. Len(r) : r[k].age \in Nat
          /\ \A j, k \in 1 .. Len(r) : j < k => r[j].age >= r[k].age
      BY <1>0, <1>a DEF InOrder
    <3> HIDE DEF r, s
    <3>3. ASSUME NEW j \in 1 .. Len(s), NEW k \in 1 .. Len(s), j < k
          PROVE  s[j].age >= s[k].age
      <4>1. j \in 1 .. Len(r) /\ s[j] = r[j]
        BY <3>1, <3>2, <3>3
      <4>2. CASE k = Len(s)
        BY <3>1, <3>2, <4>1, <4>2
      <4>3. CASE k # Len(s)
        <5>1. k \in 1 .. Len(r) /\ s[k] = r[k]
          BY <3>1, <3>2, <4>3
        <5>2. QED
          BY <3>2, <3>3, <4>1, <5>1
      <4>4. QED
        BY <4>2, <4>3
    <3>4. InOrder(s)
      BY <3>3 DEF InOrder
    <3>5. QED
      BY <2>2, <3>4 DEF s
  <2>3. QED
    BY <2>1, <2>2
<1>3. ASSUME NEW m \in Messages, RejectDuplicate(m) PROVE InOrder(myRecentMesseges'[o])
  <2>1. PICK k \in 1 .. Len(myRecentMesseges[Dst[m]]) : RefreshedAt(m, k)
    BY <1>3, RejectEffect DEF TypeOK
  <2>2. CASE o # Dst[m]
    BY <1>0, <2>1, <2>2, RejectVector
  <2>3. CASE o = Dst[m]
    <3> DEFINE r == myRecentMesseges[o]
               s == myRecentMesseges'[o]
    <3>1. /\ Len(s) = Len(r) /\ k \in 1 .. Len(r) /\ r \in Seq(Heard)
          /\ \A j \in 1 .. Len(r) - 1 : s[j] = IF j < k THEN r[j] ELSE r[j + 1]
          /\ s[Len(r)] = [id |-> Id[m], age |-> 0]
      BY <2>1, <2>3, RejectVector
    <3>2. /\ InOrder(r)
          /\ \A j \in 1 .. Len(r) : r[j].age \in Nat
      BY <1>0, <1>a
    <3> HIDE DEF r, s
    <3>3. ASSUME NEW a \in 1 .. Len(s), NEW b \in 1 .. Len(s), a < b
          PROVE  s[a].age >= s[b].age
      <4>1. a \in 1 .. Len(r) - 1 /\ s[a].age \in Nat
        BY <3>1, <3>2, <3>3
      <4>2. CASE b = Len(r)
        BY <3>1, <4>1, <4>2
      <4>3. CASE b # Len(r)
        <5>1. b \in 1 .. Len(r) - 1
          BY <3>1, <4>3
        <5>2. QED
          BY <3>1, <3>2, <3>3, <4>1, <5>1 DEF InOrder
      <4>4. QED
        BY <4>2, <4>3
    <3>4. QED
      BY <3>3 DEF InOrder, s
  <2>4. QED
    BY <2>2, <2>3
<1>4. ASSUME NEW i \in Interfaces, Flush(i) PROVE InOrder(myRecentMesseges'[o])
  <2>1. PICK d \in 0 .. Len(myRecentMesseges[i]) :
          /\ Len(myRecentMesseges'[i]) = Len(myRecentMesseges[i]) - d
          /\ \A j \in 1 .. Len(myRecentMesseges[i]) - d :
               myRecentMesseges'[i][j] = myRecentMesseges[i][d + j]
          /\ \A l \in Interfaces \ {i} : myRecentMesseges'[l] = myRecentMesseges[l]
    BY <1>4, FlushVector
  <2>2. CASE o = i
    <3> DEFINE r == myRecentMesseges[i]
               s == myRecentMesseges'[i]
    <3>1. /\ InOrder(r) /\ r \in Seq(Heard) /\ d \in 0 .. Len(r)
          /\ Len(s) = Len(r) - d
          /\ \A j \in 1 .. Len(r) - d : s[j] = r[d + j]
      BY <1>0, <2>1, <2>2
    <3> HIDE DEF r, s
    <3>2. ASSUME NEW a \in 1 .. Len(s), NEW b \in 1 .. Len(s), a < b
          PROVE  s[a].age >= s[b].age
      <4>1. s[a] = r[d + a] /\ s[b] = r[d + b]
        BY <3>1
      <4>2. d + a \in 1 .. Len(r) /\ d + b \in 1 .. Len(r) /\ d + a < d + b
        BY <3>1, <3>2
      <4>3. QED
        BY <3>1, <4>1, <4>2 DEF InOrder
    <3>3. QED
      BY <2>2, <3>2 DEF InOrder, s
  <2>3. CASE o # i
    BY <1>0, <2>1, <2>3
  <2>4. QED
    BY <2>2, <2>3
<1>5. ASSUME NEW i \in Interfaces, Clear(i) PROVE InOrder(myRecentMesseges'[o])
  BY <1>0, <1>5 DEF Clear, TypeOK, InOrder
<1>6. ASSUME Tick PROVE InOrder(myRecentMesseges'[o])
  <2>1. /\ Len(myRecentMesseges'[o]) = Len(myRecentMesseges[o])
        /\ \A k \in 1 .. Len(myRecentMesseges[o]) :
             myRecentMesseges'[o][k].age = Older(myRecentMesseges[o][k].age, Forgotten)
    <3>1. /\ Len(myRecentMesseges'[o]) = Len(myRecentMesseges[o])
          /\ \A k \in 1 .. Len(myRecentMesseges[o]) :
               myRecentMesseges'[o][k] = OlderEntry(myRecentMesseges[o][k])
      BY <1>6, TickVector
    <3>2. \A h \in Heard : OlderEntry(h).age = Older(h.age, Forgotten)
      BY DEF OlderEntry
    <3>3. QED
      BY <1>a, <3>1, <3>2
  <2>2. \A a, b \in Nat : a >= b => Older(a, Forgotten) >= Older(b, Forgotten)
    BY DEF Older, Forgotten
  <2>3. QED
    BY <1>0, <1>a, <2>1, <2>2 DEF InOrder
<1>7. ASSUME NEW m \in Messages,
             \/ PreProcessAndSend(m) \/ AckTracked(m) \/ AckUnknown(m)
             \/ LoseData(m) \/ LoseAck(m)
      PROVE  UNCHANGED myRecentMesseges
  BY <1>7 DEF PreProcessAndSend, AckTracked, AckUnknown, LoseData, LoseAck
<1>8. CASE UNCHANGED vars
  BY <1>1, <1>8 DEF vars
<1>9. QED
  BY <1>1, <1>2, <1>3, <1>4, <1>5, <1>6, <1>7, <1>8 DEF Next

(* Because the vector is in order, popping from its front is enough. *)
LEMMA FlushLeavesNoneExpired == TypeOK /\ RecentsInOrder => FlushForgetsExpired
<1> SUFFICES ASSUME TypeOK, RecentsInOrder, NEW i \in Interfaces,
                    NEW n \in 0 .. Len(myRecentMesseges[i]),
                    IsExpiredPrefix(myRecentMesseges[i], n),
                    NEW k \in n + 1 .. Len(myRecentMesseges[i])
             PROVE  ~IsExpired(myRecentMesseges[i][k])
  BY DEF FlushForgetsExpired
<1> DEFINE r == myRecentMesseges[i]
<1>1. /\ r \in Seq(Heard) /\ InOrder(r)
  BY DEF TypeOK, RecentsInOrder, InOrder
<1>2. IsExpiredPrefix(r, n) /\ n \in 0 .. Len(r) /\ k \in n + 1 .. Len(r)
  OBVIOUS
<1> HIDE DEF r
<1>3. k \in 1 .. Len(r) /\ n + 1 \in 1 .. Len(r)
  BY <1>1, <1>2
<1>4. r[k] \in Heard /\ r[n + 1] \in Heard
  BY <1>1, <1>3
<1>5. ~IsExpired(r[n + 1])
  BY <1>1, <1>2, <1>3 DEF IsExpiredPrefix
<1>6. r[n + 1].age >= r[k].age
  <2>1. CASE k = n + 1
    BY <1>4, <2>1 DEF Heard, HeardAges
  <2>2. CASE k > n + 1
    BY <1>1, <1>2, <1>3, <2>2 DEF InOrder
  <2>3. QED
    BY <1>2, <1>3, <2>1, <2>2
<1>7. QED
  BY <1>4, <1>5, <1>6, TimingAssumption DEF IsExpired, Heard, HeardAges, r

-----------------------------------------------------------------------------
(* What is remembered, acknowledged and confirmed was handed over.         *)

(* No operation takes back that a message was handed to Receive. *)
LEMMA HandedGrows ==
  ASSUME TypeOK, [Next]_vars, NEW n \in Messages
  PROVE  /\ handed'[n] \in 0 .. 2
         /\ handed[n] > 0 => handed'[n] > 0
         /\ handed'[n] # handed[n] => Accept(n)
<1>0. handed \in [Messages -> 0 .. 2]
  BY DEF TypeOK
<1>1. ASSUME NEW m \in Messages, Accept(m) PROVE handed' = [handed EXCEPT ![m] = More(@)]
  BY <1>1 DEF Accept
<1>2. CASE handed' = handed
  BY <1>0, <1>2
<1>3. ASSUME NEW m \in Messages,
             \/ PreProcessAndSend(m) \/ RejectDuplicate(m) \/ AckTracked(m)
             \/ AckUnknown(m) \/ LoseData(m) \/ LoseAck(m)
      PROVE  handed' = handed
  BY <1>3 DEF PreProcessAndSend, RejectDuplicate, AckTracked, AckUnknown, LoseData,
              LoseAck, history
<1>4. ASSUME NEW i \in Interfaces, Flush(i) \/ Clear(i) PROVE handed' = handed
  BY <1>4 DEF Flush, Clear, history
<1>5. ASSUME Tick \/ UNCHANGED vars PROVE handed' = handed
  BY <1>5 DEF Tick, vars, history
<1>6. ASSUME NEW m \in Messages, Accept(m)
      PROVE  /\ handed'[n] \in 0 .. 2
             /\ handed[n] > 0 => handed'[n] > 0
             /\ handed'[n] # handed[n] => n = m
  BY <1>0, <1>1, <1>6 DEF More
<1>7. QED
  BY <1>2, <1>3, <1>4, <1>5, <1>6, MessagesAssumption DEF Next

(* An id is remembered because it was, or because Accept just took it in. *)
LEMMA EntriesStem ==
  ASSUME TypeOK, [Next]_vars, NEW o \in Interfaces,
         NEW k \in 1 .. Len(myRecentMesseges'[o])
  PROVE  \/ \E j \in 1 .. Len(myRecentMesseges[o]) :
              myRecentMesseges[o][j].id = myRecentMesseges'[o][k].id
         \/ \E m \in Messages :
              Accept(m) /\ Dst[m] = o /\ myRecentMesseges'[o][k].id = Id[m]
<1> DEFINE r == myRecentMesseges[o]
           s == myRecentMesseges'[o]
           Old == \E j \in 1 .. Len(r) : r[j].id = s[k].id
           New(m) == Accept(m) /\ Dst[m] = o /\ s[k].id = Id[m]
<1>0. r \in Seq(Heard) /\ k \in 1 .. Len(s)
  BY DEF TypeOK
<1>1. ASSUME s = r PROVE Old
  BY <1>0, <1>1
<1>2. ASSUME NEW m \in Messages, Accept(m) PROVE Old \/ New(m)
  <2>1. CASE o # Dst[m]
    BY <1>0, <1>2, <2>1, AcceptEffect
  <2>2. CASE o = Dst[m]
    <3>1. /\ Len(s) = Len(r) + 1
          /\ \A j \in 1 .. Len(r) : s[j] = r[j]
          /\ s[Len(s)] = [id |-> Id[m], age |-> 0]
      BY <1>2, <2>2, AcceptEffect
    <3> HIDE DEF r, s
    <3>2. k \in 1 .. Len(r) \/ k = Len(s)
      BY <1>0, <3>1
    <3>3. QED
      BY <1>2, <2>2, <3>1, <3>2
  <2>3. QED
    BY <2>1, <2>2
<1>3. ASSUME NEW m \in Messages, RejectDuplicate(m) PROVE Old
  <2>1. PICK l \in 1 .. Len(myRecentMesseges[Dst[m]]) : RefreshedAt(m, l)
    BY <1>3, RejectEffect DEF TypeOK
  <2>2. CASE o # Dst[m]
    BY <1>0, <2>1, <2>2, RejectVector
  <2>3. CASE o = Dst[m]
    <3>1. /\ Len(s) = Len(r) /\ l \in 1 .. Len(r)
          /\ \A j \in 1 .. Len(r) - 1 : s[j] = IF j < l THEN r[j] ELSE r[j + 1]
          /\ s[Len(r)] = [id |-> Id[m], age |-> 0]
      BY <2>1, <2>3, RejectVector
    <3>2. r[l].id = Id[m]
      BY <2>1, <2>3 DEF RefreshedAt
    <3> HIDE DEF r, s
    <3>3. CASE k = Len(r)
      BY <3>1, <3>2, <3>3
    <3>4. CASE k # Len(r)
      <4>1. k \in 1 .. Len(r) - 1 /\ k + 1 \in 1 .. Len(r) /\ k \in 1 .. Len(r)
        BY <1>0, <3>1, <3>4
      <4>2. s[k] = r[k] \/ s[k] = r[k + 1]
        BY <3>1, <4>1
      <4>3. QED
        BY <4>1, <4>2
    <3>5. QED
      BY <3>3, <3>4
  <2>4. QED
    BY <2>2, <2>3
<1>4. ASSUME NEW i \in Interfaces, Flush(i) PROVE Old
  <2>1. PICK d \in 0 .. Len(myRecentMesseges[i]) :
          /\ Len(myRecentMesseges'[i]) = Len(myRecentMesseges[i]) - d
          /\ \A j \in 1 .. Len(myRecentMesseges[i]) - d :
               myRecentMesseges'[i][j] = myRecentMesseges[i][d + j]
          /\ \A l \in Interfaces \ {i} : myRecentMesseges'[l] = myRecentMesseges[l]
    BY <1>4, FlushVector
  <2>2. CASE o = i
    <3>1. /\ d \in 0 .. Len(r) /\ Len(s) = Len(r) - d
          /\ \A j \in 1 .. Len(r) - d : s[j] = r[d + j]
      BY <2>1, <2>2
    <3> HIDE DEF r, s
    <3>2. d + k \in 1 .. Len(r) /\ s[k] = r[d + k]
      BY <1>0, <3>1
    <3>3. QED
      BY <3>2
  <2>3. CASE o # i
    BY <1>0, <2>1, <2>3
  <2>4. QED
    BY <2>2, <2>3
<1>5. ASSUME NEW i \in Interfaces, Clear(i) PROVE Old
  <2>1. CASE o = i
    <3>1. s = <<>>
      BY <1>5, <2>1 DEF Clear, TypeOK
    <3>2. QED
      BY <1>0, <3>1
  <2>2. CASE o # i
    <3>1. s = r
      BY <1>5, <2>2 DEF Clear, TypeOK
    <3>2. QED
      BY <1>1, <3>1
  <2>3. QED
    BY <2>1, <2>2
<1>6. ASSUME Tick PROVE Old
  <2>1. Len(s) = Len(r) /\ s[k] = OlderEntry(r[k]) /\ r[k] \in Heard
    BY <1>0, <1>6, TickVector
  <2>2. \A h \in Heard : OlderEntry(h).id = h.id
    BY AgingType
  <2>3. QED
    BY <1>0, <2>1, <2>2
<1>7. ASSUME NEW m \in Messages,
             \/ PreProcessAndSend(m) \/ AckTracked(m) \/ AckUnknown(m)
             \/ LoseData(m) \/ LoseAck(m)
      PROVE  s = r
  BY <1>7 DEF PreProcessAndSend, AckTracked, AckUnknown, LoseData, LoseAck
<1>8. ASSUME UNCHANGED vars PROVE s = r
  BY <1>8 DEF vars
<1>9. Old \/ \E m \in Messages : New(m)
  <2> HIDE DEF r, s, Old, New
  <2>1. QED
    BY <1>1, <1>2, <1>3, <1>4, <1>5, <1>6, <1>7, <1>8, MessagesAssumption DEF Next
<1>10. QED
  BY <1>9

(* An id enters myRecentMesseges only with a message that is handed to Receive. *)
LEMMA NextRecentsWereHanded ==
  TypeOK /\ RecentsWereHanded /\ [Next]_vars => RecentsWereHanded'
<1> SUFFICES ASSUME TypeOK, RecentsWereHanded, [Next]_vars, NEW o \in Interfaces,
                    NEW k \in 1 .. Len(myRecentMesseges'[o])
             PROVE  \E m \in Messages :
                      Dst[m] = o /\ Id[m] = myRecentMesseges'[o][k].id /\ handed'[m] > 0
  BY DEF RecentsWereHanded
<1>1. CASE \E j \in 1 .. Len(myRecentMesseges[o]) :
             myRecentMesseges[o][j].id = myRecentMesseges'[o][k].id
  <2>1. PICK j \in 1 .. Len(myRecentMesseges[o]) :
          myRecentMesseges[o][j].id = myRecentMesseges'[o][k].id
    BY <1>1
  <2>2. PICK m \in Messages :
          Dst[m] = o /\ Id[m] = myRecentMesseges[o][j].id /\ handed[m] > 0
    BY DEF RecentsWereHanded
  <2>3. handed'[m] > 0
    BY <2>2, HandedGrows
  <2>4. QED
    BY <2>1, <2>2, <2>3
<1>2. ASSUME NEW m \in Messages, Accept(m), Dst[m] = o,
             myRecentMesseges'[o][k].id = Id[m]
      PROVE  handed'[m] > 0
  <2>1. handed' = [handed EXCEPT ![m] = More(@)] /\ handed \in [Messages -> 0 .. 2]
    BY <1>2 DEF Accept, TypeOK
  <2>2. QED
    BY <2>1 DEF More
<1>3. QED
  BY <1>1, <1>2, EntriesStem

(* With one id per message at a receiver, a duplicate was handed before. *)
LEMMA DuplicateWasHanded ==
  ASSUME NoCollision, TypeOK, RecentsWereHanded,
         NEW m \in Messages, RejectDuplicate(m)
  PROVE  handed[m] > 0
<1>1. PICK k \in 1 .. Len(myRecentMesseges[Dst[m]]) : RefreshedAt(m, k)
  BY RejectEffect DEF TypeOK
<1>2. myRecentMesseges[Dst[m]][k].id = Id[m]
  BY <1>1 DEF RefreshedAt
<1>3. PICK n \in Messages : Dst[n] = Dst[m] /\ Id[n] = Id[m] /\ handed[n] > 0
  BY <1>1, <1>2, MessagesAssumption DEF RecentsWereHanded
<1>4. QED
  BY <1>3 DEF NoCollision

(* A new acknowledgement is of a message that has just been heard. *)
LEMMA AcknowledgedWasHeard ==
  ASSUME [Next]_vars, NEW n \in acks', n \notin acks
  PROVE  \E m \in Messages : (Accept(m) \/ RejectDuplicate(m)) /\ n = m
<1>1. ASSUME NEW m \in Messages, Accept(m) \/ RejectDuplicate(m) PROVE n = m
  BY <1>1 DEF Accept, RejectDuplicate
<1>2. ASSUME NEW m \in Messages, PreProcessAndSend(m) \/ LoseData(m) PROVE FALSE
  BY <1>2 DEF PreProcessAndSend, LoseData
<1>3. ASSUME NEW m \in Messages, AckTracked(m) \/ AckUnknown(m) \/ LoseAck(m) PROVE FALSE
  BY <1>3 DEF AckTracked, AckUnknown, LoseAck, Consumed
<1>4. ASSUME NEW i \in Interfaces, Flush(i) \/ Clear(i) PROVE FALSE
  BY <1>4 DEF Flush, Clear
<1>5. ASSUME Tick \/ UNCHANGED vars PROVE FALSE
  BY <1>5 DEF Tick, vars
<1>6. QED
  BY <1>1, <1>2, <1>3, <1>4, <1>5, MessagesAssumption DEF Next

(* An acknowledgement is sent only for a message that has been handed to Receive. *)
LEMMA NextAcksWereHanded ==
  ASSUME NoCollision
  PROVE  TypeOK /\ RecentsWereHanded /\ AcksWereHanded /\ [Next]_vars => AcksWereHanded'
<1> SUFFICES ASSUME TypeOK, RecentsWereHanded, AcksWereHanded, [Next]_vars,
                    NEW n \in acks'
             PROVE  handed'[n] > 0
  BY DEF AcksWereHanded
<1>1. CASE n \in acks
  <2>1. n \in Messages /\ handed[n] > 0
    BY <1>1 DEF AcksWereHanded, TypeOK
  <2>2. QED
    BY <2>1, HandedGrows
<1>2. ASSUME NEW m \in Messages, Accept(m), n = m PROVE handed'[n] > 0
  <2>1. handed' = [handed EXCEPT ![m] = More(@)] /\ handed \in [Messages -> 0 .. 2]
    BY <1>2 DEF Accept, TypeOK
  <2>2. QED
    BY <1>2, <2>1 DEF More
<1>3. ASSUME NEW m \in Messages, RejectDuplicate(m), n = m PROVE handed'[n] > 0
  <2>1. handed[m] > 0
    BY <1>3, DuplicateWasHanded
  <2>2. QED
    BY <1>3, <2>1, HandedGrows
<1>4. n \notin acks => \E m \in Messages : (Accept(m) \/ RejectDuplicate(m)) /\ n = m
  BY AcknowledgedWasHeard
<1>5. QED
  BY <1>1, <1>2, <1>3, <1>4

(* A message is confirmed by an acknowledgement of it. *)
LEMMA ConfirmedByAck ==
  ASSUME [Next]_vars, NEW n \in confirmed', n \notin confirmed
  PROVE  AckTracked(n) /\ n \in acks /\ n \in Messages
<1>1. ASSUME NEW m \in Messages, AckTracked(m) PROVE n = m /\ m \in acks
  BY <1>1 DEF AckTracked
<1>2. ASSUME NEW m \in Messages,
             \/ PreProcessAndSend(m) \/ Accept(m) \/ RejectDuplicate(m)
             \/ AckUnknown(m) \/ LoseData(m) \/ LoseAck(m)
      PROVE  FALSE
  BY <1>2 DEF PreProcessAndSend, Accept, RejectDuplicate, AckUnknown, LoseData,
              LoseAck, history
<1>3. ASSUME NEW i \in Interfaces, Flush(i) \/ Clear(i) PROVE FALSE
  BY <1>3 DEF Flush, Clear, history
<1>4. ASSUME Tick \/ UNCHANGED vars PROVE FALSE
  BY <1>4 DEF Tick, vars, history
<1>5. QED
  BY <1>1, <1>2, <1>3, <1>4, MessagesAssumption DEF Next

(* A tracker is removed by an acknowledgement of its own message only. *)
LEMMA NextNoSilentLoss ==
  TypeOK /\ AcksWereHanded /\ NoSilentLoss /\ [Next]_vars => NoSilentLoss'
<1> SUFFICES ASSUME TypeOK, AcksWereHanded, NoSilentLoss, [Next]_vars,
                    NEW n \in confirmed'
             PROVE  handed'[n] > 0
  BY DEF NoSilentLoss
<1>1. n \in Messages /\ handed[n] > 0
  <2>1. CASE n \in confirmed
    BY <2>1 DEF NoSilentLoss, TypeOK
  <2>2. CASE n \notin confirmed
    BY <2>2, ConfirmedByAck DEF AcksWereHanded
  <2>3. QED
    BY <2>1, <2>2
<1>2. QED
  BY <1>1, HandedGrows

-----------------------------------------------------------------------------
(* Theorems on what is acknowledged and what is dropped.                   *)

(* A new interface remembers, acknowledges and confirms nothing. *)
LEMMA InitEvidence ==
  Init => /\ RemembersRecent /\ RecentsInOrder /\ RecentsWereHanded
          /\ AcksWereHanded /\ NoSilentLoss
<1> SUFFICES ASSUME Init
             PROVE  /\ RemembersRecent /\ RecentsInOrder /\ RecentsWereHanded
                    /\ AcksWereHanded /\ NoSilentLoss
  OBVIOUS
<1>1. RemembersRecent
  BY TimingAssumption DEF Init, RemembersRecent, Forgotten
<1>2. \A i \in Interfaces : Len(myRecentMesseges[i]) = 0
  BY DEF Init
<1>3. RecentsInOrder /\ RecentsWereHanded
  BY <1>2 DEF RecentsInOrder, RecentsWereHanded
<1>4. AcksWereHanded /\ NoSilentLoss
  BY DEF Init, AcksWereHanded, NoSilentLoss
<1>5. QED
  BY <1>1, <1>3, <1>4

(***************************************************************************)
(* Whatever is heard within the duplication timeout is remembered, for any *)
(* timers, any messages and any network.                                   *)
(***************************************************************************)
THEOREM RemembersRecentHolds == Spec => []RemembersRecent
  BY TypeCorrect, InitEvidence, NextRemembersRecent, PTL DEF Spec

(* A message is handed over again only after a silence of that length. *)
THEOREM RepeatOnlyAfterSilenceHolds == Spec => RepeatOnlyAfterSilence
<1>1. TypeOK /\ RemembersRecent /\ [Next]_vars => [RepeatAfterSilence]_vars
  <2> SUFFICES ASSUME TypeOK, RemembersRecent, NEW m \in Messages, Accept(m)
               PROVE  quiet[m] > DuplicationTimeout
    BY DEF RepeatAfterSilence
  <2>1. ~ RememberedSince(Dst[m], Id[m], quiet[m])
    <3>1. myRecentMesseges[Dst[m]] \in Seq(Heard)
      BY MessagesAssumption DEF TypeOK
    <3>2. \A k \in 1 .. Len(myRecentMesseges[Dst[m]]) : myRecentMesseges[Dst[m]][k].id # Id[m]
      BY <3>1 DEF Accept, Remembers
    <3>3. QED
      BY <3>2 DEF RememberedSince
  <2>2. quiet[m] \in HeardAges
    BY DEF TypeOK
  <2>3. QED
    BY <2>1, <2>2, TimingAssumption DEF RemembersRecent, HeardAges
<1>2. QED
  BY <1>1, TypeCorrect, RemembersRecentHolds, PTL DEF Spec, RepeatOnlyAfterSilence

(* Flush leaves no id behind that is older than the duplication timeout. *)
THEOREM FlushForgetsExpiredHolds == Spec => []FlushForgetsExpired
<1>1. Spec => []RecentsInOrder
  BY TypeCorrect, InitEvidence, NextRecentsInOrder, PTL DEF Spec
<1>2. QED
  BY <1>1, TypeCorrect, FlushLeavesNoneExpired, PTL

(* Every remembered id is that of a message its receiver was handed. *)
LEMMA RecentsWereHandedHolds == Spec => []RecentsWereHanded
  BY TypeCorrect, InitEvidence, NextRecentsWereHanded, PTL DEF Spec

(***************************************************************************)
(* Where no two messages for one receiver share an id, an acknowledged     *)
(* message has been handed to its receiver ...                             *)
(***************************************************************************)
THEOREM NoSilentLossHolds == ASSUME NoCollision PROVE Spec => []NoSilentLoss
<1>1. Spec => []AcksWereHanded
  BY TypeCorrect, RecentsWereHandedHolds, InitEvidence, NextAcksWereHanded, PTL DEF Spec
<1>2. QED
  BY <1>1, TypeCorrect, InitEvidence, NextNoSilentLoss, PTL DEF Spec

(* ... and a message that is dropped as a duplicate has been, too. *)
THEOREM DroppedWasHandedHolds == ASSUME NoCollision PROVE Spec => DroppedWasHanded
<1>1. TypeOK /\ RecentsWereHanded /\ [Next]_vars => [DropsOnlyHanded]_vars
  BY DuplicateWasHanded DEF DropsOnlyHanded
<1>2. QED
  BY <1>1, TypeCorrect, RecentsWereHandedHolds, PTL DEF Spec, DroppedWasHanded

-----------------------------------------------------------------------------
(* The same without the assumption on the ids.                             *)

(* The receiver of m was handed a message that carries the id of m. *)
IdWasHanded(m) == \E n \in Messages : Dst[n] = Dst[m] /\ Id[n] = Id[m] /\ handed[n] > 0

(* No other message to its receiver carries the id of m. *)
Alone(m) == \A n \in Messages : Dst[n] = Dst[m] /\ Id[n] = Id[m] => n = m

AcksWereEarned == \A m \in acks \union confirmed : IdWasHanded(m)

(* Nothing takes back that an id was handed over. *)
LEMMA IdsStayHanded ==
  ASSUME TypeOK, [Next]_vars, NEW m \in Messages, IdWasHanded(m)
  PROVE  IdWasHanded(m)'
<1>1. PICK n \in Messages : Dst[n] = Dst[m] /\ Id[n] = Id[m] /\ handed[n] > 0
  BY DEF IdWasHanded
<1>2. handed'[n] > 0
  BY <1>1, HandedGrows
<1>3. QED
  BY <1>1, <1>2 DEF IdWasHanded

(* A message is acknowledged for being handed over or for its id. *)
LEMMA AcknowledgedIdWasHanded ==
  ASSUME TypeOK, RecentsWereHanded, [Next]_vars,
         NEW m \in Messages, Accept(m) \/ RejectDuplicate(m)
  PROVE  IdWasHanded(m)'
<1>1. CASE Accept(m)
  <2>1. handed' = [handed EXCEPT ![m] = More(@)] /\ handed \in [Messages -> 0 .. 2]
    BY <1>1 DEF Accept, TypeOK
  <2>2. handed'[m] > 0
    BY <2>1 DEF More
  <2>3. QED
    BY <2>2 DEF IdWasHanded
<1>2. CASE RejectDuplicate(m)
  <2>1. PICK k \in 1 .. Len(myRecentMesseges[Dst[m]]) : RefreshedAt(m, k)
    BY <1>2, RejectEffect DEF TypeOK
  <2>2. IdWasHanded(m)
    BY <2>1, MessagesAssumption DEF RefreshedAt, RecentsWereHanded, IdWasHanded
  <2>3. QED
    BY <2>2, IdsStayHanded
<1>3. QED
  BY <1>1, <1>2

LEMMA NextAcksWereEarned ==
  TypeOK /\ RecentsWereHanded /\ AcksWereEarned /\ [Next]_vars => AcksWereEarned'
<1> SUFFICES ASSUME TypeOK, RecentsWereHanded, AcksWereEarned, [Next]_vars,
                    NEW n \in acks' \union confirmed'
             PROVE  IdWasHanded(n)'
  BY DEF AcksWereEarned
<1>1. CASE n \in acks \union confirmed
  <2>1. n \in Messages /\ IdWasHanded(n)
    BY <1>1 DEF AcksWereEarned, TypeOK
  <2>2. QED
    BY <2>1, IdsStayHanded
<1>2. CASE n \in acks' /\ n \notin acks
  <2>1. \E m \in Messages : (Accept(m) \/ RejectDuplicate(m)) /\ n = m
    BY <1>2, AcknowledgedWasHeard
  <2>2. QED
    BY <2>1, AcknowledgedIdWasHanded
<1>3. CASE n \in confirmed' /\ n \notin confirmed
  <2>1. n \in acks
    BY <1>3, ConfirmedByAck
  <2>2. QED
    BY <1>1, <2>1
<1>4. QED
  BY <1>1, <1>2, <1>3

LEMMA AcksWereEarnedHolds == Spec => []AcksWereEarned
<1>1. Init => AcksWereEarned
  BY DEF Init, AcksWereEarned
<1>2. QED
  BY <1>1, TypeCorrect, RecentsWereHandedHolds, NextAcksWereEarned, PTL DEF Spec

(***************************************************************************)
(* Whatever the ids, an acknowledged message was handed to its receiver    *)
(* unless another message was that carries the same id: nothing but a      *)
(* shared id loses a message silently (NetworkInterface.cpp:53-66).        *)
(***************************************************************************)
LostToSharedIdOnly ==
  \A m \in confirmed :
    handed[m] > 0 \/ \E n \in Messages \ {m} : Dst[n] = Dst[m] /\ Id[n] = Id[m] /\ handed[n] > 0

THEOREM LostToSharedIdOnlyHolds == Spec => []LostToSharedIdOnly
<1>1. AcksWereEarned => LostToSharedIdOnly
  BY DEF AcksWereEarned, IdWasHanded, LostToSharedIdOnly
<1>2. QED
  BY <1>1, AcksWereEarnedHolds, PTL

(***************************************************************************)
(* So a message with an id of its own at its receiver is never lost,       *)
(* though others share theirs: acknowledged, and dropped as a duplicate,   *)
(* only after it was handed over.                                          *)
(***************************************************************************)
THEOREM AloneIsNotLost ==
  ASSUME NEW m \in Messages, Alone(m)
  PROVE  Spec => /\ [](m \in confirmed => handed[m] > 0)
                 /\ [][RejectDuplicate(m) => handed[m] > 0]_vars
<1>1. LostToSharedIdOnly => (m \in confirmed => handed[m] > 0)
  BY DEF LostToSharedIdOnly, Alone
<1>2. TypeOK /\ RecentsWereHanded /\ [Next]_vars => [RejectDuplicate(m) => handed[m] > 0]_vars
  <2> SUFFICES ASSUME TypeOK, RecentsWereHanded, RejectDuplicate(m) PROVE handed[m] > 0
    OBVIOUS
  <2>1. PICK k \in 1 .. Len(myRecentMesseges[Dst[m]]) : RefreshedAt(m, k)
    BY RejectEffect DEF TypeOK
  <2>2. \E n \in Messages : Dst[n] = Dst[m] /\ Id[n] = Id[m] /\ handed[n] > 0
    BY <2>1, MessagesAssumption DEF RefreshedAt, RecentsWereHanded
  <2>3. QED
    BY <2>2 DEF Alone
<1>3. QED
  BY <1>1, <1>2, LostToSharedIdOnlyHolds, TypeCorrect, RecentsWereHandedHolds, PTL DEF Spec

-----------------------------------------------------------------------------
(* What is tracked, in flight or handed was sent.                          *)

(* No operation takes back that a message was given to PreProcessAndSend. *)
LEMMA SendsGrow ==
  ASSUME TypeOK, [Next]_vars, NEW n \in Messages, sends[n] > 0
  PROVE  sends'[n] > 0
<1>0. sends \in [Messages -> 0 .. SendCap]
  BY DEF TypeOK
<1>1. ASSUME NEW m \in Messages, PreProcessAndSend(m) PROVE sends'[n] > 0
  BY <1>0, <1>1, TimingAssumption DEF PreProcessAndSend
<1>2. ASSUME NEW m \in Messages,
             \/ Accept(m) \/ RejectDuplicate(m) \/ AckTracked(m)
             \/ AckUnknown(m) \/ LoseData(m) \/ LoseAck(m)
      PROVE  sends' = sends
  BY <1>2 DEF Accept, RejectDuplicate, AckTracked, AckUnknown, LoseData, LoseAck
<1>3. ASSUME NEW i \in Interfaces, Flush(i) \/ Clear(i) PROVE sends' = sends
  BY <1>3 DEF Flush, Clear
<1>4. ASSUME Tick \/ UNCHANGED vars PROVE sends' = sends
  BY <1>4 DEF Tick, vars
<1>5. QED
  BY <1>1, <1>2, <1>3, <1>4, MessagesAssumption DEF Next

(* A message in any vector of trackers of the next state was sent. *)
LEMMA NextTrackedWereSent ==
  ASSUME TypeOK, AllWereSent, [Next]_vars, NEW o \in Interfaces,
         NEW k \in 1 .. Len(myPendingAccepts'[o])
  PROVE  sends'[myPendingAccepts'[o][k].msg] > 0
<1> DEFINE p == myPendingAccepts[o]
           q == myPendingAccepts'[o]
           Old == \E j \in 1 .. Len(p) : p[j].msg = q[k].msg
<1> USE MessagesAssumption
<1>0. p \in Seq(Tracker) /\ k \in 1 .. Len(q)
  BY DEF TypeOK
<1>1. ASSUME Old PROVE sends'[q[k].msg] > 0
  <2>1. PICK j \in 1 .. Len(p) : p[j].msg = q[k].msg
    BY <1>1
  <2>2. p[j] \in Tracker
    BY <1>0, <2>1
  <2>3. p[j].msg \in Messages /\ sends[p[j].msg] > 0
    BY <2>1, <2>2 DEF AllWereSent, Tracker
  <2>4. QED
    BY <2>1, <2>3, SendsGrow
<1>2. ASSUME q = p PROVE Old
  BY <1>0, <1>2
<1>3. ASSUME NEW m \in Messages, PreProcessAndSend(m) PROVE sends'[q[k].msg] > 0
  <2>1. /\ sends[m] \in 0 .. SendCap /\ sends' = [sends EXCEPT ![m] = @ + 1]
        /\ myPendingAccepts' =
             [myPendingAccepts EXCEPT ![Src[m]] = Append(@, NewTracker(m))]
    BY <1>3 DEF PreProcessAndSend, TypeOK
  <2>2. CASE o # Src[m]
    BY <1>0, <1>1, <1>2, <2>1, <2>2 DEF TypeOK
  <2>3. CASE o = Src[m]
    <3>1. q = Append(p, NewTracker(m))
      BY <2>1, <2>3 DEF TypeOK
    <3>2. NewTracker(m) \in Tracker /\ NewTracker(m).msg = m
      BY NewTrackerType DEF NewTracker
    <3> HIDE DEF p, q
    <3>3. CASE k = Len(p) + 1
      <4>1. q[k] = NewTracker(m)
        BY <1>0, <3>1, <3>2, <3>3
      <4>2. sends'[m] > 0
        BY <2>1, TimingAssumption DEF TypeOK
      <4>3. QED
        BY <3>2, <4>1, <4>2
    <3>4. CASE k # Len(p) + 1
      <4>1. k \in 1 .. Len(p) /\ q[k] = p[k]
        BY <1>0, <3>1, <3>2, <3>4
      <4>2. QED
        BY <1>1, <4>1
    <3>5. QED
      BY <3>3, <3>4
  <2>4. QED
    BY <2>2, <2>3
<1>4. ASSUME NEW m \in Messages, AckTracked(m) PROVE Old
  <2>1. PICK l \in DOMAIN myPendingAccepts[Src[m]] :
          myPendingAccepts' = [myPendingAccepts EXCEPT
            ![Src[m]] = RemoveAt(myPendingAccepts[Src[m]], l)]
    BY <1>4, Zenon DEF AckTracked
  <2>2. CASE o # Src[m]
    BY <1>0, <1>2, <2>1, <2>2 DEF TypeOK
  <2>3. CASE o = Src[m]
    <3>1. q = RemoveAt(p, l) /\ l \in 1 .. Len(p)
      BY <1>0, <2>1, <2>3 DEF TypeOK
    <3> HIDE DEF p, q
    <3>2. /\ Len(q) = Len(p) - 1
          /\ \A j \in 1 .. Len(p) - 1 : q[j] = IF j < l THEN p[j] ELSE p[j + 1]
      BY <1>0, <3>1, RemoveAtProperties
    <3>3. /\ k \in 1 .. Len(p) /\ k + 1 \in 1 .. Len(p)
          /\ q[k] = p[k] \/ q[k] = p[k + 1]
      BY <1>0, <3>2
    <3>4. QED
      BY <3>3
  <2>4. QED
    BY <2>2, <2>3
<1>5. ASSUME NEW i \in Interfaces, Flush(i) PROVE Old
  <2>1. CASE o # i
    BY <1>0, <1>2, <1>5, <2>1 DEF Flush, TypeOK
  <2>2. CASE o = i
    <3>1. q = [j \in 1 .. Len(p) |-> Resend(p[j])]
      BY <1>5, <2>2 DEF Flush, TypeOK
    <3> HIDE DEF p, q
    <3>2. k \in 1 .. Len(p) /\ q[k] = Resend(p[k]) /\ p[k] \in Tracker
      BY <1>0, <3>1
    <3>3. QED
      BY <3>2, ResendType
  <2>3. QED
    BY <2>1, <2>2
<1>6. ASSUME NEW i \in Interfaces, Clear(i) PROVE Old
  <2>1. q = p \/ q = <<>>
    BY <1>6 DEF Clear, TypeOK
  <2>2. QED
    BY <1>0, <1>2, <2>1
<1>7. ASSUME Tick PROVE Old
  <2>1. q = [j \in 1 .. Len(p) |-> OlderTracker(p[j])]
    BY <1>7 DEF Tick
  <2> HIDE DEF p, q
  <2>2. k \in 1 .. Len(p) /\ q[k] = OlderTracker(p[k]) /\ p[k] \in Tracker
    BY <1>0, <2>1
  <2>3. QED
    BY <2>2, AgingType
<1>8. ASSUME NEW m \in Messages,
             \/ Accept(m) \/ RejectDuplicate(m) \/ AckUnknown(m)
             \/ LoseData(m) \/ LoseAck(m)
      PROVE  q = p
  BY <1>8 DEF Accept, RejectDuplicate, AckUnknown, LoseData, LoseAck
<1>9. ASSUME UNCHANGED vars PROVE q = p
  BY <1>9 DEF vars
<1>10. Old \/ sends'[q[k].msg] > 0
  <2> HIDE DEF p, q, Old
  <2>1. QED
    BY <1>2, <1>3, <1>4, <1>5, <1>6, <1>7, <1>8, <1>9 DEF Next
<1>11. QED
  BY <1>1, <1>10

(* Flush resends, and PreProcessReceive hands over, only what was sent. *)
LEMMA NextAllWereSent == TypeOK /\ AllWereSent /\ [Next]_vars => AllWereSent'
<1> SUFFICES ASSUME TypeOK, AllWereSent, [Next]_vars PROVE AllWereSent'
  OBVIOUS
<1> USE MessagesAssumption
<1>0. TypeOK'
  BY NextTypeOK
<1>1. \A o \in Interfaces : \A k \in 1 .. Len(myPendingAccepts'[o]) :
        sends'[myPendingAccepts'[o][k].msg] > 0
  BY NextTrackedWereSent
<1>2. ASSUME NEW n \in data' PROVE sends'[n] > 0
  <2>0. n \in Messages
    BY <1>0 DEF TypeOK
  <2>1. CASE n \in data
    BY <2>0, <2>1, SendsGrow DEF AllWereSent
  <2>2. ASSUME NEW m \in Messages, PreProcessAndSend(m), n = m PROVE sends'[n] > 0
    BY <2>2, TimingAssumption DEF PreProcessAndSend, TypeOK
  <2>3. ASSUME NEW i \in Interfaces, Flush(i), n \notin data PROVE sends'[n] > 0
    <3>1. PICK k \in DOMAIN myPendingAccepts[i] : n = myPendingAccepts[i][k].msg
      BY <1>2, <2>3 DEF Flush
    <3>2. DOMAIN myPendingAccepts[i] = 1 .. Len(myPendingAccepts[i])
      BY DEF TypeOK
    <3>3. sends[n] > 0
      BY <3>1, <3>2 DEF AllWereSent
    <3>4. QED
      BY <2>0, <3>3, SendsGrow
  <2>4. ASSUME n \notin data
        PROVE  \/ \E m \in Messages : PreProcessAndSend(m) /\ n = m
               \/ \E i \in Interfaces : Flush(i)
    <3>1. ASSUME NEW m \in Messages, PreProcessAndSend(m) PROVE n = m
      BY <1>2, <2>4, <3>1 DEF PreProcessAndSend
    <3>2. ASSUME NEW m \in Messages,
                 Accept(m) \/ RejectDuplicate(m) \/ AckTracked(m) \/ AckUnknown(m)
          PROVE  FALSE
      BY <1>2, <2>4, <3>2 DEF Accept, RejectDuplicate, AckTracked, AckUnknown, Consumed
    <3>3. ASSUME NEW m \in Messages, LoseData(m) \/ LoseAck(m) PROVE FALSE
      BY <1>2, <2>4, <3>3 DEF LoseData, LoseAck
    <3>4. ASSUME NEW i \in Interfaces, Clear(i) PROVE FALSE
      BY <1>2, <2>4, <3>4 DEF Clear
    <3>5. ASSUME Tick \/ UNCHANGED vars PROVE FALSE
      BY <1>2, <2>4, <3>5 DEF Tick, vars
    <3>6. QED
      BY <3>1, <3>2, <3>3, <3>4, <3>5 DEF Next
  <2>5. QED
    BY <2>1, <2>2, <2>3, <2>4
<1>3. ASSUME NEW n \in Messages, handed'[n] > 0 PROVE sends'[n] > 0
  <2>1. CASE handed'[n] = handed[n]
    BY <1>3, <2>1, SendsGrow DEF AllWereSent
  <2>2. CASE handed'[n] # handed[n]
    <3>1. n \in data
      BY <2>2, HandedGrows DEF Accept
    <3>2. QED
      BY <3>1, SendsGrow DEF AllWereSent
  <2>3. QED
    BY <2>1, <2>2
<1>4. QED
  BY <1>1, <1>2, <1>3 DEF AllWereSent

(* A new interface tracks nothing. *)
LEMMA InitAllWereSent == Init => AllWereSent
<1> SUFFICES ASSUME Init PROVE AllWereSent
  OBVIOUS
<1>1. \A i \in Interfaces : Len(myPendingAccepts[i]) = 0
  BY DEF Init
<1>2. QED
  BY <1>1 DEF Init, AllWereSent

(* What is tracked, in flight or handed over was given to PreProcessAndSend. *)
THEOREM AllWereSentHolds == Spec => []AllWereSent
  BY TypeCorrect, InitAllWereSent, NextAllWereSent, PTL DEF Spec

-----------------------------------------------------------------------------
(* Callbacks.                                                              *)

(* A callback is unhooked in the step that runs it. *)
LEMMA NextCallbackOnce == TypeOK /\ CallbackOnce /\ [Next]_vars => CallbackOnce'
<1> SUFFICES ASSUME TypeOK, CallbackOnce, [Next]_vars PROVE CallbackOnce'
  OBVIOUS
<1> USE MessagesAssumption
<1>0. /\ sends \in [Messages -> 0 .. SendCap] /\ fired \in [Messages -> Nat]
      /\ myCallbacks \subseteq Messages /\ confirmed \subseteq Messages
  BY DEF TypeOK
<1>1. ASSUME NEW m \in Messages, PreProcessAndSend(m) PROVE CallbackOnce'
  <2>1. /\ fired' = fired /\ confirmed' = confirmed
        /\ sends' = [sends EXCEPT ![m] = @ + 1]
        /\ myCallbacks' = myCallbacks \/ (myCallbacks' = myCallbacks \union {m} /\ sends[m] = 0)
    BY <1>1 DEF PreProcessAndSend, history
  <2>2. \A n \in Messages : sends[n] > 0 => sends'[n] > 0
    BY <1>1, SendsGrow
  <2>3. sends'[m] > 0
    BY <1>0, <2>1, TimingAssumption
  <2>4. sends[m] = 0 => fired[m] = 0
    BY <1>0 DEF CallbackOnce
  <2>5. QED
    BY <1>0, <2>1, <2>2, <2>3, <2>4 DEF CallbackOnce
<1>2. ASSUME NEW m \in Messages, AckTracked(m) PROVE CallbackOnce'
  <2>1. /\ sends' = sends /\ confirmed' = confirmed \union {m}
        /\ myCallbacks' = myCallbacks \ {m}
        /\ fired' = IF m \in myCallbacks THEN [fired EXCEPT ![m] = @ + 1] ELSE fired
    BY <1>2 DEF AckTracked
  <2>2. CASE m \in myCallbacks
    <3>1. fired[m] = 0 /\ sends[m] > 0
      BY <2>2 DEF CallbackOnce
    <3>2. fired' = [fired EXCEPT ![m] = 1]
      BY <1>0, <2>1, <2>2, <3>1
    <3>3. QED
      BY <1>0, <2>1, <3>1, <3>2 DEF CallbackOnce
  <2>3. CASE m \notin myCallbacks
    BY <1>0, <2>1, <2>3 DEF CallbackOnce
  <2>4. QED
    BY <2>2, <2>3
<1>3. CASE UNCHANGED <<myCallbacks, fired, sends, confirmed>>
  BY <1>3 DEF CallbackOnce
<1>4. ASSUME NEW m \in Messages,
             \/ Accept(m) \/ RejectDuplicate(m) \/ AckUnknown(m)
             \/ LoseData(m) \/ LoseAck(m)
      PROVE  UNCHANGED <<myCallbacks, fired, sends, confirmed>>
  BY <1>4 DEF Accept, RejectDuplicate, AckUnknown, LoseData, LoseAck, history
<1>5. ASSUME NEW i \in Interfaces, Flush(i) \/ Clear(i)
      PROVE  UNCHANGED <<myCallbacks, fired, sends, confirmed>>
  BY <1>5 DEF Flush, Clear, history
<1>6. ASSUME Tick \/ UNCHANGED vars
      PROVE  UNCHANGED <<myCallbacks, fired, sends, confirmed>>
  BY <1>6 DEF Tick, vars, history
<1>7. QED
  BY <1>1, <1>2, <1>3, <1>4, <1>5, <1>6 DEF Next

(* A hooked callback runs at most once, and after its message was handed. *)
THEOREM CallbackSoundHolds == ASSUME NoCollision PROVE Spec => []CallbackSound
<1>1. Init => CallbackOnce
  BY DEF Init, CallbackOnce
<1>2. TypeOK /\ CallbackOnce /\ NoSilentLoss => CallbackSound
  BY DEF CallbackOnce, NoSilentLoss, CallbackSound
<1>3. QED
  BY <1>1, <1>2, TypeCorrect, NextCallbackOnce, NoSilentLossHolds, PTL DEF Spec

(***************************************************************************)
(* The whole inductive invariant: what is remembered, acknowledged,        *)
(* confirmed and called back in the interface always stems from a message  *)
(* that was sent and handed over.                                          *)
(***************************************************************************)
THEOREM IInvHolds == ASSUME NoCollision PROVE Spec => []IInv
<1>1. Spec => []AcksWereHanded
  BY TypeCorrect, RecentsWereHandedHolds, InitEvidence, NextAcksWereHanded, PTL DEF Spec
<1>2. Spec => []RecentsInOrder
  BY TypeCorrect, InitEvidence, NextRecentsInOrder, PTL DEF Spec
<1>3. Init => CallbackOnce
  BY DEF Init, CallbackOnce
<1>4. Spec => []CallbackOnce
  BY <1>3, TypeCorrect, NextCallbackOnce, PTL DEF Spec
<1>5. TypeOK /\ RemembersRecent /\ RecentsInOrder /\ RecentsWereHanded /\ AcksWereHanded
        /\ NoSilentLoss /\ AllWereSent /\ CallbackOnce => IInv
  BY DEF IInv
<1>6. QED
  BY <1>1, <1>2, <1>4, <1>5, TypeCorrect, RemembersRecentHolds, RecentsWereHandedHolds,
     NoSilentLossHolds, AllWereSentHolds, PTL

-----------------------------------------------------------------------------
(* Implementation of Delivery.                                             *)

(* A new interface is one that was offered nothing. *)
LEMMA InitImplements == Init => Promise!Init
  BY DEF Init, Promise!Init

(* Each operation offers, hands over or confirms one message, or none. *)
LEMMA StepImplements ==
  ASSUME TypeOK, TypeOK', AllWereSent, AcksWereHanded, [Next]_vars
  PROVE  [Promise!Next]_(Promise!vars)
<1> DEFINE Offered == {m \in Messages : sends[m] > 0}
           Handed == {m \in Messages : handed[m] > 0}
<1> USE MessagesAssumption
<1>0. /\ sends \in [Messages -> 0 .. SendCap] /\ handed \in [Messages -> 0 .. 2]
      /\ data \subseteq Messages /\ acks \subseteq Messages
  BY DEF TypeOK
<1>1. ASSUME NEW m \in Messages, PreProcessAndSend(m) PROVE Promise!Offer(m)
  <2>1. sends' = [sends EXCEPT ![m] = @ + 1] /\ handed' = handed /\ confirmed' = confirmed
    BY <1>1 DEF PreProcessAndSend, history
  <2>2. \A n \in Messages : sends'[n] > 0 <=> sends[n] > 0 \/ n = m
    BY <1>0, <2>1, TimingAssumption
  <2>3. QED
    BY <2>1, <2>2 DEF Promise!Offer
<1>2. ASSUME NEW m \in Messages, Accept(m) PROVE Promise!HandOver(m)
  <2>1. /\ handed' = [handed EXCEPT ![m] = More(@)] /\ m \in data
        /\ sends' = sends /\ confirmed' = confirmed
    BY <1>2 DEF Accept
  <2>2. \A n \in Messages : handed'[n] > 0 <=> handed[n] > 0 \/ n = m
    BY <1>0, <2>1 DEF More
  <2>3. sends[m] > 0
    BY <2>1 DEF AllWereSent
  <2>4. QED
    BY <2>1, <2>2, <2>3 DEF Promise!HandOver
<1>3. ASSUME NEW m \in Messages, AckTracked(m) PROVE Promise!Confirm(m)
  <2>1. /\ confirmed' = confirmed \union {m} /\ m \in acks
        /\ sends' = sends /\ handed' = handed
    BY <1>3 DEF AckTracked
  <2>2. handed[m] > 0
    BY <2>1 DEF AcksWereHanded
  <2>3. QED
    BY <2>1, <2>2 DEF Promise!Confirm
<1>4. CASE UNCHANGED <<sends, handed, confirmed>>
  BY <1>4 DEF Promise!vars
<1>5. ASSUME NEW m \in Messages,
             RejectDuplicate(m) \/ AckUnknown(m) \/ LoseData(m) \/ LoseAck(m)
      PROVE  UNCHANGED <<sends, handed, confirmed>>
  BY <1>5 DEF RejectDuplicate, AckUnknown, LoseData, LoseAck, history
<1>6. ASSUME NEW i \in Interfaces, Flush(i) \/ Clear(i)
      PROVE  UNCHANGED <<sends, handed, confirmed>>
  BY <1>6 DEF Flush, Clear, history
<1>7. ASSUME Tick \/ UNCHANGED vars PROVE UNCHANGED <<sends, handed, confirmed>>
  BY <1>7 DEF Tick, vars, history
<1>8. QED
  BY <1>1, <1>2, <1>3, <1>4, <1>5, <1>6, <1>7 DEF Next, Promise!Next

(***************************************************************************)
(* The interface implements the delivery service, stuttering through       *)
(* resends, duplicates, losses and the passing of time.                    *)
(***************************************************************************)
THEOREM ImplementsDeliveryHolds == ASSUME NoCollision PROVE Spec => ImplementsDelivery
<1>1. Spec => []AcksWereHanded
  BY TypeCorrect, RecentsWereHandedHolds, InitEvidence, NextAcksWereHanded, PTL DEF Spec
<1>2. QED
  BY <1>1, TypeCorrect, AllWereSentHolds, InitImplements, StepImplements, PTL
     DEF Spec, ImplementsDelivery, Promise!Spec

=============================================================================
