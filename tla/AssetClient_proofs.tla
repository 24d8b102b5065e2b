------------------------ MODULE AssetClient_proofs -------------------------
(***************************************************************************)
(* The way of a reply to the one who asked, for any plan of packets, kinds *)
(* of requests, resets and Nodes.                                          *)
(*                                                                         *)
(* First the receiving half of Connection, as ConnectionReceive has it:    *)
(* the loss list is the set of missing packets, ACKs cover only what has   *)
(* arrived, and messages are handed over in order.  The sequence numbers   *)
(* in use must not wrap: LossList, whose ranges are told apart by their    *)
(* order, loses packets when they do.  Then that AssetClient calls the     *)
(* callback of a request once, and with success only with a whole reply.   *)
(***************************************************************************)
EXTENDS AssetClient, LossList_proofs, SequenceTheorems, FiniteSetTheorems, TLAPS
-----------------------------------------------------------------------------
\* No number in use wraps, and none is the one before 0
NoneWraps == \A initial \in Initials : initial > 0 /\ initial + Len(Plan) - 1 <= MAX

\* The number of the i-th packet
Num(i) == initialReceiveSequenceNumber + i - 1

\* What the record of missing packets says of the packets that have arrived
RecordInv ==
    hasReceivedHandshake =>
        /\ initialReceiveSequenceNumber \in Initials
        /\ accepted \subseteq Offsets
        /\ lastReceivedSequenceNumber \in Num(0) .. Num(Len(Plan))
        /\ \A i \in accepted : Num(i) <= lastReceivedSequenceNumber
        /\ lastReceivedSequenceNumber # Num(0) =>
                \E i \in accepted : Num(i) = lastReceivedSequenceNumber
        /\ SortedList(lossList)
        /\ Members(lossList) =
                {Num(i) : i \in {j \in Offsets : j \notin accepted /\ Num(j) < lastReceivedSequenceNumber}}

\* An ACK states what the record says
AckInv ==
    sent.kind = "ACK" =>
        hasReceivedHandshake /\ sent.seq = NextACK(lossList, lastReceivedSequenceNumber)

\* The numbers in use are ordered as integers
LEMMA NumbersInUse ==
  ASSUME NoneWraps, initialReceiveSequenceNumber \in Initials
  PROVE  /\ Len(Plan) \in Nat /\ Len(Plan) + 1 < THRESHOLD
         /\ initialReceiveSequenceNumber \in SeqNum /\ initialReceiveSequenceNumber > 0
         /\ \A i \in Offsets : SeqNumOf(i) = Num(i) /\ Num(i) \in SeqNum /\ Num(i) > 0
         /\ Num(0) .. Num(Len(Plan)) \subseteq SeqNum
         /\ \A x, y \in Num(0) .. Num(Len(Plan)) :
                /\ Gt(x, y) <=> x > y
                /\ Leq(x, y) <=> x <= y
                /\ x - y < THRESHOLD
<1>1. Len(Plan) \in Nat /\ Len(Plan) + 1 < THRESHOLD
  BY ReceiveAssumption, LenProperties
<1>2. /\ initialReceiveSequenceNumber \in Int /\ initialReceiveSequenceNumber > 0
      /\ initialReceiveSequenceNumber + Len(Plan) - 1 <= MAX
      /\ initialReceiveSequenceNumber \in SeqNum
  BY ReceiveAssumption DEF NoneWraps, SeqNum
<1>3. MAX \in Nat /\ THRESHOLD \in Nat /\ MAX = 2 * THRESHOLD + 1
  BY SequenceNumberAssumption
<1>4. \A i \in Offsets : SeqNumOf(i) = Num(i) /\ Num(i) \in SeqNum /\ Num(i) > 0
  BY <1>1, <1>2, <1>3 DEF SeqNumOf, Num, Plus, Offsets, SeqNum
<1>5. Num(0) .. Num(Len(Plan)) \subseteq SeqNum
  BY <1>1, <1>2, <1>3 DEF Num, SeqNum
<1>6. ASSUME NEW x \in Num(0) .. Num(Len(Plan)), NEW y \in Num(0) .. Num(Len(Plan))
      PROVE  /\ Gt(x, y) <=> x > y
             /\ Leq(x, y) <=> x <= y
             /\ x - y < THRESHOLD
  BY <1>1, <1>2, <1>3 DEF Num, Gt, Leq, Near
<1> QED BY <1>1, <1>2, <1>4, <1>5, <1>6

\* The offset of a number in use
LEMMA OffsetOf ==
  ASSUME NoneWraps, initialReceiveSequenceNumber \in Initials, NEW x \in Num(1) .. Num(Len(Plan))
  PROVE  \E i \in Offsets : Num(i) = x
<1>1. /\ Len(Plan) \in Nat /\ initialReceiveSequenceNumber \in Int
  BY NumbersInUse DEF SeqNum
<1>2. x - initialReceiveSequenceNumber + 1 \in Offsets
  BY <1>1 DEF Num, Offsets
<1>3. Num(x - initialReceiveSequenceNumber + 1) = x
  BY <1>1 DEF Num
<1> QED BY <1>2, <1>3

\* processReceivedSequenceNumber takes a packet for new if it has not arrived,
\* and afterwards misses what is below the last received one and has not either
LEMMA RecordedMissing ==
  ASSUME NoneWraps, RecordInv, hasReceivedHandshake, NEW i \in Offsets
  PROVE  LET seq == SeqNumOf(i)
             last == LastReceived(seq)
             recorded == Recorded(lossList, lastReceivedSequenceNumber, seq)
         IN  /\ last = (IF seq > lastReceivedSequenceNumber THEN seq ELSE lastReceivedSequenceNumber)
             /\ seq = Num(i) /\ last \in Num(0) .. Num(Len(Plan))
             /\ recorded.isNew <=> i \notin accepted
             /\ SortedList(recorded.list)
             /\ Members(recorded.list) =
                    {Num(k) : k \in {j \in Offsets : j \notin accepted \cup {i} /\ Num(j) < last}}
<1> DEFINE seq == SeqNumOf(i)
           old == lastReceivedSequenceNumber
           last == LastReceived(seq)
           recorded == Recorded(lossList, old, seq)
<1>1. /\ initialReceiveSequenceNumber \in Initials
      /\ accepted \subseteq Offsets
      /\ old \in Num(0) .. Num(Len(Plan))
      /\ \A j \in accepted : Num(j) <= old
      /\ old # Num(0) => \E j \in accepted : Num(j) = old
      /\ SortedList(lossList)
      /\ Members(lossList) = {Num(k) : k \in {j \in Offsets : j \notin accepted /\ Num(j) < old}}
  BY DEF RecordInv
<1>2. /\ Len(Plan) \in Nat /\ Len(Plan) + 1 < THRESHOLD
      /\ initialReceiveSequenceNumber \in SeqNum /\ initialReceiveSequenceNumber > 0
      /\ initialReceiveSequenceNumber \in Int
      /\ \A j \in Offsets : SeqNumOf(j) = Num(j) /\ Num(j) \in SeqNum /\ Num(j) > 0
      /\ old \in SeqNum /\ old \in Int
  BY <1>1, NumbersInUse DEF SeqNum
<1>3. seq = Num(i) /\ seq \in Num(1) .. Num(Len(Plan)) /\ seq \in Num(0) .. Num(Len(Plan)) /\ seq \in SeqNum
      /\ seq \in Int
  BY <1>2 DEF Num, Offsets, SeqNum
<1>4. (Gt(seq, old) <=> seq > old) /\ seq - old < THRESHOLD
  BY <1>1, <1>3, NumbersInUse
<1>5. last = (IF seq > old THEN seq ELSE old) /\ last \in Num(0) .. Num(Len(Plan))
  BY <1>1, <1>3, <1>4 DEF LastReceived
<1>6. \A j, k \in Offsets : Num(j) = Num(k) => j = k
  BY <1>2 DEF Num, Offsets
<1>7. CASE seq > old
  <2>1. /\ Plus(old, 1) = old + 1 /\ Minus(seq, 1) = seq - 1
        /\ old + 1 \in SeqNum /\ seq - 1 \in SeqNum /\ i \notin accepted
    <3>1. old < MAX /\ seq > 0 /\ old + 1 \in SeqNum /\ seq - 1 \in SeqNum
      BY <1>2, <1>3, <1>7, SequenceNumberAssumption DEF SeqNum
    <3>2. i \notin accepted
      BY <1>1, <1>2, <1>3, <1>7
    <3> HIDE DEF seq, old
    <3> QED BY <3>1, <3>2, <1>2, <1>3, SequenceNumberAssumption DEF SeqNum, Plus, Minus
  <2>2. Gt(seq, old + 1) <=> seq > old + 1
    <3>1. old + 1 \in Num(0) .. Num(Len(Plan))
      BY <1>1, <1>2, <1>3, <1>7 DEF Num
    <3> QED BY <3>1, <1>1, <1>3, NumbersInUse
  <2>3. recorded = [list |-> IF seq > old + 1 THEN AppendRange(lossList, old + 1, seq - 1) ELSE lossList,
                    isNew |-> TRUE]
    BY <2>1, <2>2, <1>4, <1>7 DEF Recorded, AppendOne
  <2>4. \A x \in Members(lossList) : x < old /\ x \in Num(0) .. Num(Len(Plan))
    BY <1>1, <1>2 DEF Num, Offsets
  <2>5. SortedList(recorded.list) /\ Members(recorded.list) = Members(lossList) \cup (old + 1 .. seq - 1)
    <3>1. CASE seq > old + 1
      <4>1. \A x \in Members(lossList) : x < old + 1 /\ seq - 1 - x < THRESHOLD
        <5> SUFFICES ASSUME NEW x \in Members(lossList) PROVE x < old + 1 /\ seq - 1 - x < THRESHOLD
          OBVIOUS
        <5>1. x < old /\ x \in Num(0) .. Num(Len(Plan))
          BY <2>4
        <5>2. seq - x < THRESHOLD
          BY <5>1, <1>1, <1>3, NumbersInUse
        <5>3. x \in Int
          BY <5>1, <1>2 DEF Num
        <5> QED BY <5>1, <5>2, <5>3, <1>2, <1>3, SequenceNumberAssumption
      <4>2. old + 1 <= seq - 1 /\ seq - 1 - (old + 1) < THRESHOLD
        BY <3>1, <1>2, <1>3, <1>4, SequenceNumberAssumption
      <4> QED BY <4>1, <4>2, <3>1, <2>1, <2>3, <1>1, AppendIsUnion
    <3>2. CASE ~(seq > old + 1)
      <4>1. old + 1 .. seq - 1 = {}
        BY <3>2, <1>2, <1>3
      <4> QED BY <4>1, <3>2, <2>3, <1>1
    <3> QED BY <3>1, <3>2
  <2>6. Members(recorded.list) = {Num(k) : k \in {j \in Offsets : j \notin accepted \cup {i} /\ Num(j) < last}}
    <3> DEFINE missing == {Num(k) : k \in {j \in Offsets : j \notin accepted \cup {i} /\ Num(j) < last}}
    <3>1. ASSUME NEW x \in Members(lossList) \cup (old + 1 .. seq - 1) PROVE x \in missing
      <4>1. CASE x \in Members(lossList)
        <5>1. PICK j \in Offsets : x = Num(j) /\ j \notin accepted /\ Num(j) < old
          BY <4>1, <1>1
        <5>2. Num(j) < seq /\ j # i
          BY <5>1, <1>2, <1>3, <1>7 DEF SeqNum
        <5> QED BY <5>1, <5>2, <1>5, <1>7
      <4>2. CASE x \in old + 1 .. seq - 1
        <5>1. x \in Num(1) .. Num(Len(Plan))
          BY <4>2, <1>1, <1>2, <1>3 DEF Num
        <5>2. PICK j \in Offsets : x = Num(j)
          BY <5>1, <1>1, OffsetOf
        <5>3. Num(j) > old /\ Num(j) < seq /\ j # i
          BY <4>2, <5>2, <1>2, <1>3
        <5>4. j \notin accepted
          BY <5>2, <5>3, <1>1, <1>2 DEF SeqNum
        <5> QED BY <5>2, <5>3, <5>4, <1>5, <1>7
      <4> QED BY <3>1, <4>1, <4>2
    <3>2. ASSUME NEW x \in missing PROVE x \in Members(lossList) \cup (old + 1 .. seq - 1)
      <4>1. PICK j \in Offsets : x = Num(j) /\ j \notin accepted /\ Num(j) < seq
        BY <3>2, <1>5, <1>7
      <4>2. CASE Num(j) < old
        BY <4>1, <4>2, <1>1
      <4>3. CASE Num(j) > old
        <5>1. x \in old + 1 .. seq - 1
          BY <4>1, <4>3, <1>2, <1>3 DEF SeqNum
        <5> QED BY <5>1
      <4>4. CASE Num(j) = old
        <5>1. old # Num(0)
          BY <4>1, <4>4, <1>2 DEF Num, Offsets
        <5> QED BY <5>1, <4>1, <4>4, <1>1, <1>6
      <4> QED BY <4>2, <4>3, <4>4, <4>1, <1>2 DEF SeqNum
    <3> QED BY <3>1, <3>2, <2>5
  <2> QED BY <2>1, <2>3, <2>5, <2>6, <1>3, <1>5
<1>8. CASE ~(seq > old)
  <2>1. ~Gt(seq, Plus(old, 1))
    <3>1. CASE old = MAX
      <4>1. Plus(old, 1) = 0 /\ seq > THRESHOLD
        BY <3>1, <1>1, <1>2, <1>3, SequenceNumberAssumption DEF Plus, Num
      <4> QED BY <4>1, <1>3, SequenceNumberAssumption DEF Gt, Near
    <3>2. CASE old # MAX
      <4>1. Plus(old, 1) = old + 1
        BY <3>2, <1>2, SequenceNumberAssumption DEF Plus, SeqNum
      <4>2. old - seq < THRESHOLD - 1
        <5> HIDE DEF seq, old
        <5>1. /\ old <= initialReceiveSequenceNumber + Len(Plan) - 1
              /\ initialReceiveSequenceNumber <= seq
          BY <1>1, <1>2, <1>3 DEF Num
        <5> QED BY <5>1, <1>2, <1>3, SequenceNumberAssumption
      <4> QED BY <4>1, <4>2, <1>2, <1>3, <1>8, SequenceNumberAssumption DEF Gt, Near
    <3> QED BY <3>1, <3>2
  <2>2. recorded = [list |-> RemoveOne(lossList, seq).list, isNew |-> RemoveOne(lossList, seq).found]
    BY <2>1, <1>4, <1>8 DEF Recorded
  <2>3. /\ recorded.isNew <=> seq \in Members(lossList)
        /\ SortedList(recorded.list)
        /\ Members(recorded.list) = Members(lossList) \ {seq}
    BY <2>2, <1>1, <1>3, RemoveIsDifference
  <2>4. seq \in Members(lossList) <=> i \notin accepted
    <3>1. ASSUME seq \in Members(lossList) PROVE i \notin accepted
      BY <3>1, <1>1, <1>3, <1>6
    <3>2. ASSUME i \notin accepted PROVE seq \in Members(lossList)
      <4>1. seq # old
        <5>1. seq # Num(0)
          BY <1>2, <1>3 DEF Num
        <5> QED BY <5>1, <3>2, <1>1, <1>3, <1>6
      <4>2. Num(i) < old
        BY <4>1, <1>2, <1>3, <1>8
      <4> QED BY <4>2, <3>2, <1>1, <1>3
    <3> QED BY <3>1, <3>2
  <2>5. Members(recorded.list) = {Num(k) : k \in {j \in Offsets : j \notin accepted \cup {i} /\ Num(j) < last}}
    <3>1. last = old
      BY <1>5, <1>8
    <3> HIDE DEF recorded, last, old
    <3> QED BY <3>1, <2>3, <1>1, <1>3, <1>6
  <2> QED BY <2>3, <2>4, <2>5, <1>3, <1>5
<1> QED BY <1>7, <1>8

\* The ACK is the last number before the first packet that has not arrived
AckBeforeMissing ==
    LET ack == NextACK(lossList, lastReceivedSequenceNumber)
    IN  /\ ack \in Num(0) .. Num(Len(Plan))
        /\ \A i \in Offsets : Num(i) <= ack => i \in accepted
        /\ \A i \in Offsets : Num(i) = ack + 1 => i \notin accepted

\* So sendACK finds it
LEMMA AckIsBeforeMissing ==
  ASSUME NoneWraps, RecordInv, hasReceivedHandshake
  PROVE  AckBeforeMissing
<1> DEFINE last == lastReceivedSequenceNumber
           ack == NextACK(lossList, last)
<1>1. /\ initialReceiveSequenceNumber \in Initials
      /\ accepted \subseteq Offsets
      /\ last \in Num(0) .. Num(Len(Plan))
      /\ \A j \in accepted : Num(j) <= last
      /\ last # Num(0) => \E j \in accepted : Num(j) = last
      /\ SortedList(lossList)
      /\ Members(lossList) = {Num(k) : k \in {j \in Offsets : j \notin accepted /\ Num(j) < last}}
  BY DEF RecordInv
<1>2. /\ Len(Plan) \in Nat /\ initialReceiveSequenceNumber \in Int
      /\ \A j \in Offsets : Num(j) \in SeqNum /\ Num(j) \in Int /\ Num(j) > Num(0)
      /\ last \in Int
      /\ \A j, k \in Offsets : Num(j) = Num(k) => j = k
  BY <1>1, NumbersInUse DEF SeqNum, Offsets, Num
<1>3. /\ lossList.length \in Nat
      /\ lossList.length > 0 <=> Members(lossList) # {}
      /\ lossList.length > 0 => /\ FirstOf(lossList) \in Members(lossList)
                               /\ \A x \in Members(lossList) : FirstOf(lossList) <= x
  BY <1>1, FirstIsLeast
<1>4. CASE lossList.length > 0
  <2>1. PICK k \in Offsets : FirstOf(lossList) = Num(k) /\ k \notin accepted /\ Num(k) < last
    BY <1>1, <1>3, <1>4
  <2>2. ack = Num(k) - 1
    <3>1. Num(k) \in SeqNum /\ Num(k) > 0
      BY <1>1, NumbersInUse
    <3> QED BY <3>1, <2>1, <1>4 DEF NextACK, Minus, SeqNum
  <2>3. ack \in Num(0) .. Num(Len(Plan))
    BY <2>2, <1>2 DEF Num, Offsets
  <2>4. ASSUME NEW i \in Offsets, Num(i) <= ack PROVE i \in accepted
    <3>1. Num(i) < Num(k) /\ Num(i) < last
      BY <2>1, <2>2, <2>4, <1>2
    <3>2. Num(i) \notin Members(lossList)
      BY <3>1, <2>1, <1>2, <1>3, <1>4
    <3> QED BY <3>1, <3>2, <1>1
  <2>5. ASSUME NEW i \in Offsets, Num(i) = ack + 1 PROVE i \notin accepted
    <3>1. Num(i) = Num(k)
      BY <2>2, <2>5, <1>2
    <3> QED BY <3>1, <2>1, <1>2
  <2> QED BY <2>3, <2>4, <2>5 DEF AckBeforeMissing
<1>5. CASE ~(lossList.length > 0)
  <2>1. ack = last
    BY <1>5 DEF NextACK
  <2>2. ASSUME NEW i \in Offsets, Num(i) <= ack PROVE i \in accepted
    <3>1. CASE Num(i) = last
      BY <3>1, <1>1, <1>2
    <3>2. CASE Num(i) < last
      BY <3>2, <1>1, <1>3, <1>5
    <3> QED BY <3>1, <3>2, <2>1, <2>2, <1>2
  <2>3. ASSUME NEW i \in Offsets, Num(i) = ack + 1 PROVE i \notin accepted
    BY <2>1, <2>3, <1>1, <1>2
  <2> QED BY <2>1, <2>2, <2>3, <1>1 DEF AckBeforeMissing
<1> QED BY <1>4, <1>5

\* An empty list misses nothing
LEMMA EmptyListIsSorted == SortedList(EmptyList) /\ Members(EmptyList) = {}
<1>1. EmptyList.ranges = <<>> /\ EmptyList.length = 0
  BY DEF EmptyList
<1>2. EmptyList.ranges \in Seq(OneRange) /\ Len(EmptyList.ranges) = 0
  BY <1>1
<1>3. Members(EmptyList) = {}
  BY <1>2 DEF Members
<1> QED BY <1>1, <1>2, <1>3, FS_EmptySet DEF SortedList

-----------------------------------------------------------------------------
\* The packet of offset i arrives
LEMMA ReceivePacketRecord ==
  ASSUME NoneWraps, RecordInv, NEW i \in Offsets, ReceivePacket(i)
  PROVE  /\ RecordInv' /\ AckInv'
         /\ accepted' = accepted \cup {i}
         /\ IF i \in accepted
            THEN UNCHANGED <<delivered, pendingReceivedMessages>>
            ELSE QueueReceivedMessagePacket(Plan[i])
<1> DEFINE seq == SeqNumOf(i)
           last == LastReceived(seq)
           recorded == Recorded(lossList, lastReceivedSequenceNumber, seq)
<1>1. /\ hasReceivedHandshake /\ hasReceivedHandshake'
      /\ initialReceiveSequenceNumber' = initialReceiveSequenceNumber
      /\ lastReceivedSequenceNumber' = last
      /\ lossList' = recorded.list
      /\ sent' = [kind |-> "ACK", seq |-> NextACK(recorded.list, last)]
      /\ IF recorded.isNew
         THEN accepted' = accepted \cup {i} /\ QueueReceivedMessagePacket(Plan[i])
         ELSE UNCHANGED <<accepted, delivered, pendingReceivedMessages>>
  BY DEF ReceivePacket, handshakeVars
<1>2. /\ last = (IF seq > lastReceivedSequenceNumber THEN seq ELSE lastReceivedSequenceNumber)
      /\ seq = Num(i) /\ last \in Num(0) .. Num(Len(Plan))
      /\ recorded.isNew <=> i \notin accepted
      /\ SortedList(recorded.list)
      /\ Members(recorded.list) =
            {Num(k) : k \in {j \in Offsets : j \notin accepted \cup {i} /\ Num(j) < last}}
  BY <1>1, RecordedMissing
<1> HIDE DEF seq, last, recorded
<1>3. /\ initialReceiveSequenceNumber \in Initials
      /\ accepted \subseteq Offsets
      /\ lastReceivedSequenceNumber \in Num(0) .. Num(Len(Plan))
      /\ \A j \in accepted : Num(j) <= lastReceivedSequenceNumber
      /\ lastReceivedSequenceNumber # Num(0) => \E j \in accepted : Num(j) = lastReceivedSequenceNumber
  BY <1>1 DEF RecordInv
<1>4. \A j \in Offsets : Num(j) \in Int
  BY <1>3, NumbersInUse DEF SeqNum
<1>5. accepted' = accepted \cup {i}
      /\ IF i \in accepted
         THEN UNCHANGED <<delivered, pendingReceivedMessages>>
         ELSE QueueReceivedMessagePacket(Plan[i])
  BY <1>1, <1>2
<1>6. \A j \in accepted \cup {i} : Num(j) <= last
  <2>1. lastReceivedSequenceNumber \in Int
    BY <1>3, NumbersInUse DEF SeqNum
  <2> QED BY <2>1, <1>2, <1>3, <1>4
<1>7. last # Num(0) => \E j \in accepted \cup {i} : Num(j) = last
  BY <1>2, <1>3
<1>8. \A j : Num(j)' = Num(j)
  BY <1>1 DEF Num
<1>9. RecordInv'
  BY <1>1, <1>2, <1>3, <1>5, <1>6, <1>7, <1>8 DEF RecordInv, Offsets
<1>10. AckInv'
  BY <1>1 DEF AckInv
<1> QED BY <1>5, <1>9, <1>10

\* A handshake that is new starts the record again
LEMMA ProcessHandshakeRecord ==
  ASSUME NoneWraps, RecordInv, NEW initial \in Initials, ProcessHandshake(initial)
  PROVE  RecordInv' /\ AckInv'
<1>1. AckInv'
  BY DEF ProcessHandshake, AckInv
<1>2. CASE ~hasReceivedHandshake \/ initial # initialReceiveSequenceNumber
  <2>1. /\ initialReceiveSequenceNumber' = initial
        /\ lastReceivedSequenceNumber' = Minus(initial, 1)
        /\ lossList' = EmptyList /\ accepted' = {}
    BY <1>2 DEF ProcessHandshake, ResetReceiveState
  <2>2. initial \in Int /\ initial > 0 /\ Len(Plan) \in Nat
    BY ReceiveAssumption, LenProperties DEF NoneWraps, SeqNum
  <2>3. lastReceivedSequenceNumber' = Num(0)' /\ lastReceivedSequenceNumber' \in Num(0)' .. Num(Len(Plan))'
    BY <2>1, <2>2 DEF Num, Minus
  <2>4. {Num(i)' : i \in {j \in Offsets : j \notin accepted' /\ Num(j)' < lastReceivedSequenceNumber'}} = {}
    BY <2>1, <2>2, <2>3 DEF Num, Offsets
  <2>5. RecordInv'
    BY <2>1, <2>3, <2>4, EmptyListIsSorted DEF RecordInv, Offsets
  <2> QED BY <1>1, <2>5
<1>3. CASE ~(~hasReceivedHandshake \/ initial # initialReceiveSequenceNumber)
  <2>1. /\ hasReceivedHandshake
        /\ UNCHANGED <<initialReceiveSequenceNumber, lastReceivedSequenceNumber, lossList, accepted>>
    BY <1>3 DEF ProcessHandshake
  <2>2. \A j : Num(j)' = Num(j)
    BY <2>1 DEF Num
  <2>3. RecordInv'
    BY <2>1, <2>2 DEF RecordInv, Offsets
  <2> QED BY <1>1, <2>3
<1> QED BY <1>2, <1>3

\* Every step keeps the record
LEMMA RecordInvariance ==
  ASSUME NoneWraps
  PROVE  /\ Init => RecordInv /\ AckInv
         /\ RecordInv /\ AckInv /\ [Next]_vars => (RecordInv /\ AckInv)'
<1>1. Init => RecordInv /\ AckInv
  BY DEF Init, RecordInv, AckInv, None
<1>2. ASSUME RecordInv, AckInv, [Next]_vars
      PROVE  RecordInv' /\ AckInv'
  <2>1. CASE RequestHandshake
    BY <2>1 DEF RequestHandshake, RecordInv, AckInv
  <2>2. ASSUME NEW i \in Offsets, ReceivePacket(i) PROVE RecordInv' /\ AckInv'
    BY <1>2, <2>2, ReceivePacketRecord
  <2>3. ASSUME NEW initial \in Initials, ProcessHandshake(initial) PROVE RecordInv' /\ AckInv'
    BY <1>2, <2>3, ProcessHandshakeRecord
  <2>4. CASE CleanupConnection
    BY <2>4 DEF CleanupConnection, RecordInv, AckInv, None
  <2>5. CASE UNCHANGED vars
    <3>1. UNCHANGED <<hasReceivedHandshake, initialReceiveSequenceNumber, lastReceivedSequenceNumber,
                      lossList, accepted, sent>>
      BY <2>5 DEF vars, handshakeVars
    <3>2. \A j : Num(j)' = Num(j)
      BY <3>1 DEF Num
    <3> QED BY <3>1, <3>2, <1>2 DEF RecordInv, AckInv, Offsets
  <2> QED BY <1>2, <2>1, <2>2, <2>3, <2>4, <2>5 DEF Next
<1> QED BY <1>1, <1>2

-----------------------------------------------------------------------------
(***************************************************************************)
(* PendingReceivedMessage: the parts of each message                       *)
(***************************************************************************)
\* The packets of the plan
PartPacket == [msg : Nat, part : Nat, last : BOOLEAN]

\* The parts of a message that have arrived
Arrived(m) == {Plan[i].part : i \in PartsOf(m) \cap accepted}

\* The parts that wait are in order
InOrder(packets) ==
    \A j, k \in 1 .. Len(packets) : j < k => packets[j].part < packets[k].part

\* A pending message holds what has arrived and was not next in line
PendingHolds(m) ==
    LET pending == pendingReceivedMessages[m]
        n == Len(delivered[m])
    IN  /\ pending \in [packets : Seq(PartPacket), nextPartNumber : Nat]
        /\ pending.nextPartNumber = n
        /\ InOrder(pending.packets)
        /\ \A k \in 1 .. Len(pending.packets) :
            /\ pending.packets[k].part > n
            /\ \E i \in PartsOf(m) \cap accepted : pending.packets[k] = Plan[i]
        /\ \A i \in PartsOf(m) \cap accepted :
            Plan[i].part >= n => \E k \in 1 .. Len(pending.packets) : pending.packets[k] = Plan[i]
        /\ Arrived(m) # {} /\ n < Cardinality(PartsOf(m))

\* What has been handed over are the parts up to the first that has not arrived
MessageInv(m) ==
    LET n == Len(delivered[m])
    IN  /\ n \in Nat /\ delivered[m] = [k \in 1 .. n |-> k - 1]
        /\ 0 .. n - 1 \subseteq Arrived(m) /\ n \notin Arrived(m)
        /\ IF m \in DOMAIN pendingReceivedMessages
           THEN PendingHolds(m)
           ELSE Arrived(m) = {} \/ n = Cardinality(PartsOf(m))

\* Every message is handed over in order
OrderInv ==
    /\ accepted \subseteq Offsets
    /\ delivered = [m \in Messages |-> delivered[m]]
    /\ DOMAIN pendingReceivedMessages \subseteq Messages
    /\ \A m \in Messages : MessageInv(m)

\* The greatest of some numbers
LEMMA MaxIsGreatest ==
  ASSUME NEW S, NEW n \in Nat, S \subseteq 0 .. n, S # {}
  PROVE  Max(S) \in S /\ \A x \in S : x <= Max(S)
<1> DEFINE T == {k \in 0 .. n : n - k \in S}
<1>1. PICK m \in T : \A other \in T : ~ (<<other, m>> \in OpToRel(<, Nat))
  <2>1. IsWellFoundedOn(OpToRel(<, Nat), Nat)
    BY NatLessThanWellFounded
  <2>2. T \subseteq Nat
    OBVIOUS
  <2>3. PICK y \in S : TRUE
    OBVIOUS
  <2>4. n - y \in T
    <3>1. n - y \in 0 .. n /\ n - (n - y) = y
      BY <2>3
    <3> QED BY <3>1, <2>3
  <2>5. \E x \in T : \A other \in T : ~ (<<other, x>> \in OpToRel(<, Nat))
    BY <2>1, <2>2, <2>4, WFMin
  <2> QED BY <2>5
<1>2. \A other \in T : m <= other
  <2>1. ASSUME NEW other \in T PROVE m <= other
    <3>1. other \in Nat /\ m \in Nat
      OBVIOUS
    <3>2. <<other, m>> \in OpToRel(<, Nat) <=> <<other, m>> \in {ss \in Nat \X Nat : ss[1] < ss[2]}
      BY Zenon DEF OpToRel
    <3>3. ~ (<<other, m>> \in {ss \in Nat \X Nat : ss[1] < ss[2]})
      BY <1>1, <3>2
    <3> QED BY <3>1, <3>3
  <2> QED BY <2>1
<1>3. n - m \in S /\ \A x \in S : n - m >= x
  <2>1. n - m \in S
    OBVIOUS
  <2>2. ASSUME NEW x \in S PROVE n - m >= x
    <3>1. n - x \in 0 .. n /\ n - (n - x) = x
      OBVIOUS
    <3>2. n - x \in T
      BY <3>1
    <3>3. m <= n - x
      BY <3>2, <1>2
    <3> QED BY <3>1, <3>3
  <2> QED BY <2>1, <2>2
<1>4. Max(S) \in S /\ \A x \in S : Max(S) >= x
  BY <1>3 DEF Max
<1>5. S \subseteq Int
  OBVIOUS
<1> QED BY <1>4, <1>5

\* What PendingReceivedMessage holds
Pendings == [packets : Seq(PartPacket), nextPartNumber : Nat]

\* and their types
LEMMA PendingTypes ==
  ASSUME NEW p \in Pendings
  PROVE  /\ p.packets \in Seq(PartPacket) /\ Len(p.packets) \in Nat
         /\ \A k \in 1 .. Len(p.packets) : p.packets[k] \in PartPacket /\ p.packets[k].part \in Nat
         /\ p.nextPartNumber \in Nat
         /\ p = [packets |-> p.packets, nextPartNumber |-> p.nextPartNumber]
<1>1. p.packets \in Seq(PartPacket) /\ p.nextPartNumber \in Nat
      /\ p = [packets |-> p.packets, nextPartNumber |-> p.nextPartNumber]
  BY DEF Pendings
<1>2. Len(p.packets) \in Nat
  BY <1>1, LenProperties
<1>3. ASSUME NEW k \in 1 .. Len(p.packets)
      PROVE  p.packets[k] \in PartPacket
  BY <1>1, ElementOfSeq
<1> QED BY <1>1, <1>2, <1>3 DEF PartPacket

\* enqueuePacket puts a part that is not there yet in its place
LEMMA EnqueueInOrder ==
  ASSUME NEW p \in Pendings, NEW packet \in PartPacket, InOrder(p.packets),
         \A k \in 1 .. Len(p.packets) : p.packets[k].part # packet.part
  PROVE  LET queued == EnqueuePacket(p, packet)
         IN  /\ queued \in Pendings /\ queued.nextPartNumber = p.nextPartNumber
             /\ InOrder(queued.packets)
             /\ \A k \in 1 .. Len(queued.packets) :
                    \/ queued.packets[k] = packet
                    \/ \E j \in 1 .. Len(p.packets) : queued.packets[k] = p.packets[j]
             /\ \E k \in 1 .. Len(queued.packets) : queued.packets[k] = packet
             /\ \A j \in 1 .. Len(p.packets) :
                    \E k \in 1 .. Len(queued.packets) : queued.packets[k] = p.packets[j]
<1> DEFINE ps == p.packets
           n == Len(ps)
           I == {j \in 1 .. n : packet.part >= ps[j].part}
           k == SelectLastInSeq(ps, LAMBDA v : packet.part >= v.part)
           queued == EnqueuePacket(p, packet)
<1>1. /\ ps \in Seq(PartPacket) /\ n \in Nat
      /\ \A j \in 1 .. n : ps[j] \in PartPacket /\ ps[j].part \in Nat
      /\ p.nextPartNumber \in Nat
      /\ p = [packets |-> ps, nextPartNumber |-> p.nextPartNumber]
      /\ packet.part \in Nat
  BY PendingTypes DEF PartPacket
<1>2. k = IF I # {} THEN Max(I) ELSE 0
  BY DEF SelectLastInSeq
<1> HIDE DEF k
<1>3. /\ k \in 0 .. n
      /\ \A j \in 1 .. n : j <= k => ps[j].part < packet.part
      /\ \A j \in 1 .. n : j > k => ps[j].part > packet.part
  <2>1. CASE I = {}
    <3>1. k = 0
      BY <1>2, <2>1
    <3>2. \A j \in 1 .. n : ~(packet.part >= ps[j].part)
      BY <2>1
    <3> QED BY <3>1, <3>2, <1>1
  <2>2. CASE I # {}
    <3>1. I \subseteq 0 .. n
      BY <1>1
    <3>2. k \in I /\ \A j \in I : j <= k
      BY <3>1, <2>2, <1>1, <1>2, MaxIsGreatest
    <3>3. k \in 1 .. n /\ ps[k].part < packet.part
      BY <3>2, <1>1
    <3>4. ASSUME NEW j \in 1 .. n, j <= k PROVE ps[j].part < packet.part
      <4>1. CASE j = k
        BY <4>1, <3>3
      <4>2. CASE j < k
        BY <4>2, <3>3, <1>1 DEF InOrder
      <4> QED BY <4>1, <4>2, <3>4, <3>3
    <3>5. ASSUME NEW j \in 1 .. n, j > k PROVE ps[j].part > packet.part
      <4>1. j \notin I
        BY <3>2, <3>3, <3>5
      <4> QED BY <4>1, <1>1
    <3> QED BY <3>3, <3>4, <3>5
  <2> QED BY <2>1, <2>2
<1> DEFINE b == k + 1
           us == Splice(ps, k, <<packet>>, b)
<1>4. queued = [packets |-> us, nextPartNumber |-> p.nextPartNumber]
  <2>1. ~(k > 0 /\ ps[k].part = packet.part)
    BY <1>1, <1>3
  <2>2. queued = [p EXCEPT !.packets = InsertAt(@, b, packet)]
    BY <2>1 DEF EnqueuePacket, k
  <2>3. b - 1 = k
    BY <1>3
  <2> HIDE DEF b, ps
  <2>4. InsertAt(ps, b, packet) = us
    BY <2>3 DEF InsertAt, Splice
  <2> HIDE DEF us
  <2> QED BY <2>2, <2>4, <1>1 DEF ps
<1>5. /\ us \in Seq(PartPacket) /\ Len(us) = n + 1
      /\ \A j \in 1 .. Len(us) :
            /\ j <= k => j \in 1 .. n /\ us[j] = ps[j]
            /\ j = k + 1 => us[j] = packet
            /\ k + 1 < j => j - 1 \in 1 .. n /\ us[j] = ps[j - 1] /\ j - 1 > k
  <2>0. k \in 0 .. Len(ps) /\ b \in k + 1 .. Len(ps) + 1 /\ ps \in Seq(PartPacket)
    BY <1>1, <1>3
  <2>1. b = k + 1
    OBVIOUS
  <2>2. <<packet>> \in Seq(PartPacket) /\ Len(<<packet>>) = 1 /\ <<packet>>[1] = packet
    OBVIOUS
  <2> DEFINE t == <<packet>>
             m == Len(t)
  <2>3. t \in Seq(PartPacket) /\ m = 1 /\ t[1] = packet
    BY <2>2
  <2> HIDE DEF t, ps, b
  <2> DEFINE u == Splice(ps, k, t, b)
  <2>4. u = us
    BY DEF t
  <2>5. t \in Seq(PartPacket)
    BY <2>3
  <2>6. /\ u \in Seq(PartPacket) /\ Len(u) = k + m + (n - b + 1)
        /\ \A j \in 1 .. Len(u) :
            /\ j <= k => j \in 1 .. n /\ u[j] = ps[j]
            /\ k < j /\ j <= k + m => j - k \in 1 .. m /\ u[j] = t[j - k]
            /\ k + m < j => j - m - k + b - 1 \in b .. n /\ u[j] = ps[j - m - k + b - 1]
    <3> HIDE DEF u, m
    <3>1. u \in Seq(PartPacket) /\ Len(u) = k + m + (n - b + 1)
      <4>1. u \in Seq(PartPacket)
        BY <2>0, <2>5, Spliced DEF u
      <4>2. Len(u) = k + m + (n - b + 1)
        BY <2>0, <2>5, Spliced DEF u, m
      <4> QED BY <4>1, <4>2
    <3>2. \A j \in 1 .. Len(u) :
            /\ j <= k => j \in 1 .. n /\ u[j] = ps[j]
            /\ k < j /\ j <= k + m => j - k \in 1 .. m /\ u[j] = t[j - k]
            /\ k + m < j => j - m - k + b - 1 \in b .. n /\ u[j] = ps[j - m - k + b - 1]
      BY <2>0, <2>5, Spliced DEF u, m
    <3> QED BY <3>1, <3>2
  <2> HIDE DEF u, us
  <2> HIDE DEF m, n
  <2>7. Len(u) = n + 1
    BY <2>1, <2>3, <2>6, <1>1, <1>3
  <2>8. ASSUME NEW j \in 1 .. Len(u)
        PROVE  /\ j <= k => j \in 1 .. n /\ u[j] = ps[j]
               /\ j = k + 1 => u[j] = packet
               /\ k + 1 < j => j - 1 \in 1 .. n /\ u[j] = ps[j - 1] /\ j - 1 > k
    <3>1. k \in Int /\ j \in Int
      BY <1>3
    <3>2. ASSUME j = k + 1 PROVE u[j] = packet
      <4>1. k < j /\ j <= k + m /\ j - k = 1
        BY <3>1, <3>2, <2>3
      <4> QED BY <4>1, <2>3, <2>6
    <3>3. ASSUME k + 1 < j PROVE j - 1 \in 1 .. n /\ u[j] = ps[j - 1] /\ j - 1 > k
      <4>1. k + m < j /\ j - m - k + b - 1 = j - 1
        BY <3>1, <3>3, <2>1, <2>3
      <4>2. j - 1 \in b .. n /\ u[j] = ps[j - 1]
        BY <4>1, <2>6
      <4>3. b \in Int /\ n \in Int
        BY <3>1, <2>1, <1>1
      <4>4. j - 1 \in 1 .. n /\ j - 1 > k
        <5> HIDE DEF b
        <5> QED BY <4>2, <4>3, <3>1, <3>3, <2>1, <1>3
      <4> QED BY <4>2, <4>4
    <3> QED BY <3>2, <3>3, <2>6
  <2> QED BY <2>4, <2>6, <2>7, <2>8
<1>6. queued.packets = us /\ queued.nextPartNumber = p.nextPartNumber /\ queued \in Pendings
  BY <1>1, <1>4, <1>5 DEF Pendings
<1> HIDE DEF us, queued, ps, n
<1>7. InOrder(us)
  <2> SUFFICES ASSUME NEW j \in 1 .. Len(us), NEW h \in 1 .. Len(us), j < h
               PROVE  us[j].part < us[h].part
    BY DEF InOrder
  <2>0. k \in Int /\ \A x, y \in 1 .. n : x < y => ps[x].part < ps[y].part
    BY <1>3 DEF InOrder, ps, n
  <2>1. CASE j <= k
    <3>1. CASE h <= k
      BY <2>0, <2>1, <3>1, <1>5
    <3>2. CASE h = k + 1
      BY <2>1, <3>2, <1>3, <1>5
    <3>3. CASE k + 1 < h
      BY <2>0, <2>1, <3>3, <1>5
    <3> QED BY <3>1, <3>2, <3>3, <2>0
  <2>2. CASE j = k + 1
    BY <2>0, <2>2, <1>1, <1>3, <1>5
  <2>3. CASE k + 1 < j
    BY <2>0, <2>3, <1>5
  <2> QED BY <2>0, <2>1, <2>2, <2>3
<1>8. ASSUME NEW j \in 1 .. Len(us)
      PROVE  us[j] = packet \/ \E h \in 1 .. n : us[j] = ps[h]
  BY <1>3, <1>5
<1>9. \E j \in 1 .. Len(us) : us[j] = packet
  <2>1. k + 1 \in 1 .. Len(us)
    BY <1>1, <1>3, <1>5
  <2> QED BY <2>1, <1>5
<1>10. ASSUME NEW h \in 1 .. n PROVE \E j \in 1 .. Len(us) : us[j] = ps[h]
  <2>1. CASE h <= k
    <3>1. h \in 1 .. Len(us)
      BY <1>1, <1>5
    <3> QED BY <3>1, <2>1, <1>5
  <2>2. CASE h > k
    <3>1. h + 1 \in 1 .. Len(us) /\ k + 1 < h + 1 /\ h + 1 - 1 = h
      BY <2>2, <1>1, <1>3, <1>5
    <3> QED BY <3>1, <1>5
  <2> QED BY <2>1, <2>2, <1>3
<1> QED BY <1>6, <1>7, <1>8, <1>9, <1>10 DEF ps, n, queued

\* The parts hasAvailablePackets lets go are the next ones, and the one after is missing
LEMMA AvailableAreNext ==
  ASSUME NEW p \in Pendings, InOrder(p.packets),
         \A k \in 1 .. Len(p.packets) : p.packets[k].part >= p.nextPartNumber
  PROVE  LET a == Available(p)
         IN  /\ a \in 0 .. Len(p.packets)
             /\ \A k \in 1 .. a : p.packets[k].part = p.nextPartNumber + k - 1
             /\ \A k \in a + 1 .. Len(p.packets) : p.packets[k].part > p.nextPartNumber + a
<1> DEFINE ps == p.packets
           n == Len(ps)
           next == p.nextPartNumber
           S == {0} \cup {j \in 1 .. n : \A i \in 1 .. j : ps[i].part = next + i - 1}
           a == Available(p)
<1>1. n \in Nat /\ next \in Nat /\ \A k \in 1 .. n : ps[k].part \in Nat
  BY PendingTypes
<1>2. a = Max(S)
  BY DEF Available
<1>3. a \in S /\ \A x \in S : x <= a
  <2>1. S \subseteq 0 .. n /\ S # {}
    BY <1>1
  <2> HIDE DEF S, a
  <2> QED BY <2>1, <1>1, <1>2, MaxIsGreatest
<1> HIDE DEF a
<1>4. a \in 0 .. n /\ \A k \in 1 .. a : ps[k].part = next + k - 1
  BY <1>1, <1>3
<1>5. ASSUME a < n PROVE ps[a + 1].part > next + a
  <2>1. a + 1 \in 1 .. n
    BY <1>1, <1>4, <1>5
  <2>2. a + 1 \notin S
    BY <1>3, <1>4
  <2>3. ps[a + 1].part # next + (a + 1) - 1
    <3> SUFFICES ASSUME ps[a + 1].part = next + (a + 1) - 1 PROVE FALSE
      OBVIOUS
    <3>1. \A i \in 1 .. a + 1 : i \in 1 .. a \/ i = a + 1
      BY <1>4
    <3>2. \A i \in 1 .. a + 1 : ps[i].part = next + i - 1
      BY <3>1, <1>4
    <3> QED BY <3>2, <2>1, <2>2
  <2>4. ps[a + 1].part >= next + a
    <3>1. CASE a = 0
      BY <3>1, <2>1, <1>1
    <3>2. CASE a # 0
      <4>1. a \in 1 .. a /\ a \in 1 .. n /\ a < a + 1
        BY <3>2, <1>1, <1>4
      <4>2. ps[a].part < ps[a + 1].part /\ ps[a].part = next + a - 1
        BY <4>1, <2>1, <1>4 DEF InOrder
      <4> QED BY <4>1, <4>2, <2>1, <1>1
    <3> QED BY <3>1, <3>2
  <2>5. ps[a + 1].part \in Int /\ next + a \in Int /\ next + (a + 1) - 1 = next + a
    BY <2>1, <1>1, <1>4
  <2> QED BY <2>3, <2>4, <2>5
<1>6. ASSUME NEW k \in a + 1 .. n PROVE ps[k].part > next + a
  <2>1. a < n /\ a + 1 \in 1 .. n /\ k \in 1 .. n
    BY <1>1, <1>4
  <2>2. CASE k = a + 1
    BY <2>1, <2>2, <1>5
  <2>3. CASE k # a + 1
    <3>1. a + 1 < k
      BY <2>3, <1>4
    <3>2. ps[a + 1].part < ps[k].part
      BY <3>1, <2>1 DEF InOrder
    <3> QED BY <3>2, <2>1, <1>1, <1>4, <1>5
  <2> QED BY <2>2, <2>3
<1> QED BY <1>4, <1>6 DEF a

\* Parts are numbered from 0 and finitely many
LEMMA PartFacts ==
  /\ Len(Plan) \in Nat
  /\ \A i \in Offsets : Plan[i] \in PartPacket /\ Plan[i].part \in Nat /\ Plan[i].msg \in Messages
  /\ \A m \in Messages : Cardinality(PartsOf(m)) \in Nat
  /\ \A i \in Offsets : Plan[i].part \in 0 .. Cardinality(PartsOf(Plan[i].msg)) - 1
<1>1. Len(Plan) \in Nat /\ Plan \in Seq(PartPacket)
  BY ReceiveAssumption, LenProperties DEF PartPacket
<1>2. ASSUME NEW i \in Offsets PROVE Plan[i] \in PartPacket
  BY <1>1, ElementOfSeq DEF Offsets
<1>3. \A i \in Offsets : Plan[i].part \in Nat /\ Plan[i].msg \in Messages
  BY <1>2 DEF PartPacket, Messages
<1>4. ASSUME NEW m \in Messages PROVE Cardinality(PartsOf(m)) \in Nat
  <2>1. IsFiniteSet(Offsets)
    BY <1>1, FS_Interval DEF Offsets
  <2>2. PartsOf(m) \in SUBSET Offsets
    BY DEF PartsOf
  <2> QED BY <2>1, <2>2, FS_Subset, FS_CardinalityType
<1>5. ASSUME NEW i \in Offsets PROVE Plan[i].part \in 0 .. Cardinality(PartsOf(Plan[i].msg)) - 1
  <2>1. i \in PartsOf(Plan[i].msg) /\ Plan[i].msg \in Messages
    BY <1>3 DEF PartsOf
  <2> QED BY <2>1, PlanAssumption
<1> QED BY <1>1, <1>2, <1>3, <1>4, <1>5

\* The packets of p are the arrived parts of m from the n-th on
Holds(p, m, n) ==
    /\ p \in Pendings /\ p.nextPartNumber = n /\ InOrder(p.packets)
    /\ \A k \in 1 .. Len(p.packets) :
        /\ p.packets[k].part >= n
        /\ \E i \in PartsOf(m) \cap accepted : p.packets[k] = Plan[i]
    /\ \A i \in PartsOf(m) \cap accepted :
        Plan[i].part >= n => \E k \in 1 .. Len(p.packets) : p.packets[k] = Plan[i]

\* What a new packet finds of its message
LEMMA BeforePacket ==
  ASSUME OrderInv, NEW i \in Offsets, i \notin accepted
  PROVE  LET m == Plan[i].msg
             n == Len(delivered[m])
             before == IF m \in DOMAIN pendingReceivedMessages
                       THEN pendingReceivedMessages[m] ELSE NewPending
         IN  /\ n \in Nat /\ n < Cardinality(PartsOf(m))
             /\ Plan[i].part \notin Arrived(m) /\ Plan[i].part >= n
             /\ Holds(before, m, n)
<1> DEFINE m == Plan[i].msg
           n == Len(delivered[m])
           before == IF m \in DOMAIN pendingReceivedMessages
                     THEN pendingReceivedMessages[m] ELSE NewPending
<1>1. m \in Messages /\ Plan[i].part \in 0 .. Cardinality(PartsOf(m)) - 1
      /\ Cardinality(PartsOf(m)) \in Nat
  BY PartFacts
<1>2. MessageInv(m)
  BY <1>1 DEF OrderInv
<1>3. n \in Nat /\ 0 .. n - 1 \subseteq Arrived(m) /\ n \notin Arrived(m)
  BY <1>2 DEF MessageInv
<1>4. Plan[i].part \notin Arrived(m)
  <2> SUFFICES ASSUME NEW j \in PartsOf(m) \cap accepted, Plan[i].part = Plan[j].part
               PROVE  FALSE
    BY DEF Arrived
  <2>1. j \in Offsets /\ Plan[j].msg = m
    BY DEF PartsOf
  <2> QED BY <2>1, PlanAssumption
<1>5. Plan[i].part >= n
  BY <1>1, <1>3, <1>4
<1>6. CASE m \in DOMAIN pendingReceivedMessages
  <2>1. PendingHolds(m) /\ before = pendingReceivedMessages[m]
    BY <1>2, <1>6 DEF MessageInv
  <2>2. \A k \in 1 .. Len(before.packets) : before.packets[k].part >= n
    <3>1. before \in Pendings
      BY <2>1 DEF PendingHolds, Pendings
    <3>2. \A k \in 1 .. Len(before.packets) : before.packets[k].part \in Nat /\ before.packets[k].part > n
      BY <2>1, <3>1, PendingTypes DEF PendingHolds
    <3> QED BY <3>2, <1>3
  <2>3. Holds(before, m, n) /\ n < Cardinality(PartsOf(m))
    <3> HIDE DEF before
    <3> QED BY <2>1, <2>2 DEF PendingHolds, Holds, Pendings
  <2> QED BY <2>3, <1>3, <1>4, <1>5
<1>7. CASE m \notin DOMAIN pendingReceivedMessages
  <2>1. Arrived(m) = {}
    <3> SUFFICES ASSUME n = Cardinality(PartsOf(m)) PROVE FALSE
      BY <1>2, <1>7 DEF MessageInv
    <3> QED BY <1>1, <1>3, <1>4
  <2>2. n = 0
    <3>1. n # 0 => 0 \in 0 .. n - 1
      BY <1>3
    <3> QED BY <3>1, <1>3, <2>1
  <2>3. PartsOf(m) \cap accepted = {}
    BY <2>1 DEF Arrived
  <2>4. before = [packets |-> <<>>, nextPartNumber |-> 0]
    BY <1>7 DEF NewPending
  <2>5. before \in Pendings /\ Len(before.packets) = 0 /\ before.nextPartNumber = 0
    <3> HIDE DEF before
    <3> QED BY <2>4 DEF Pendings
  <2>6. Holds(before, m, n)
    <3> HIDE DEF before
    <3> QED BY <2>2, <2>3, <2>5 DEF Holds, InOrder
  <2> QED BY <2>2, <2>6, <1>1, <1>3, <1>4, <1>5
<1> QED BY <1>6, <1>7

\* A new packet hands over its message up to the first part that is still missing
LEMMA QueuePacketOrder ==
  ASSUME OrderInv, NEW i \in Offsets, i \notin accepted,
         accepted' = accepted \cup {i}, QueueReceivedMessagePacket(Plan[i])
  PROVE  OrderInv'
<1> DEFINE m == Plan[i].msg
           n == Len(delivered[m])
           size == Cardinality(PartsOf(m))
           before == IF m \in DOMAIN pendingReceivedMessages
                     THEN pendingReceivedMessages[m] ELSE NewPending
           queued == EnqueuePacket(before, Plan[i])
           qs == queued.packets
           a == Available(queued)
           got == PartsOf(m) \cap accepted'
           ready == SubSeq(qs, 1, a)
           processedLastOrOnly == \E k \in 1 .. Len(ready) : ready[k].last
           others == DOMAIN pendingReceivedMessages \ {m}
<1>1. /\ n \in Nat /\ n < size /\ size \in Nat
      /\ Plan[i].part \notin Arrived(m) /\ Plan[i].part >= n /\ Plan[i].part \in Nat
      /\ Holds(before, m, n)
      /\ m \in Messages /\ i \in PartsOf(m)
  BY BeforePacket, PartFacts DEF PartsOf
<1>2. /\ delivered' = [delivered EXCEPT ![m] = @ \o [k \in 1 .. Len(ready) |-> ready[k].part]]
      /\ pendingReceivedMessages' =
            IF processedLastOrOnly
            THEN Restrict(pendingReceivedMessages, others)
            ELSE [k \in others \cup {m} |->
                    IF k = m THEN RemoveAvailable(queued) ELSE pendingReceivedMessages[k]]
  BY DEF QueueReceivedMessagePacket
<1>3. /\ before \in Pendings /\ before.nextPartNumber = n /\ InOrder(before.packets)
      /\ \A k \in 1 .. Len(before.packets) :
            /\ before.packets[k].part >= n
            /\ \E j \in PartsOf(m) \cap accepted : before.packets[k] = Plan[j]
      /\ \A j \in PartsOf(m) \cap accepted :
            Plan[j].part >= n => \E k \in 1 .. Len(before.packets) : before.packets[k] = Plan[j]
  BY <1>1 DEF Holds
<1> HIDE DEF before
<1>4. \A k \in 1 .. Len(before.packets) : before.packets[k].part # Plan[i].part
  BY <1>1, <1>3 DEF Arrived
<1>5. /\ queued \in Pendings /\ queued.nextPartNumber = n
      /\ InOrder(qs)
      /\ \A k \in 1 .. Len(qs) :
            qs[k] = Plan[i] \/ \E j \in 1 .. Len(before.packets) : qs[k] = before.packets[j]
      /\ \E k \in 1 .. Len(qs) : qs[k] = Plan[i]
      /\ \A j \in 1 .. Len(before.packets) : \E k \in 1 .. Len(qs) : qs[k] = before.packets[j]
  <2>1. Plan[i] \in PartPacket
    BY PartFacts
  <2> QED BY <2>1, <1>3, <1>4, EnqueueInOrder
<1> HIDE DEF queued
<1>6. /\ qs \in Seq(PartPacket) /\ Len(qs) \in Nat
      /\ \A k \in 1 .. Len(qs) : qs[k] \in PartPacket /\ qs[k].part \in Nat
  BY <1>5, PendingTypes
<1>7. /\ \A k \in 1 .. Len(qs) : qs[k].part >= n /\ \E j \in got : qs[k] = Plan[j]
      /\ \A j \in got : Plan[j].part >= n => \E k \in 1 .. Len(qs) : qs[k] = Plan[j]
  <2>1. got = (PartsOf(m) \cap accepted) \cup {i}
    BY <1>1
  <2> HIDE DEF m, qs, n, got
  <2>2. ASSUME NEW k \in 1 .. Len(qs) PROVE qs[k].part >= n /\ \E j \in got : qs[k] = Plan[j]
    <3>1. CASE qs[k] = Plan[i]
      BY <3>1, <2>1, <1>1
    <3>2. CASE \E j \in 1 .. Len(before.packets) : qs[k] = before.packets[j]
      BY <3>2, <2>1, <1>3
    <3> QED BY <3>1, <3>2, <1>5
  <2>3. ASSUME NEW j \in got, Plan[j].part >= n PROVE \E k \in 1 .. Len(qs) : qs[k] = Plan[j]
    BY <2>1, <2>3, <1>3, <1>5
  <2> QED BY <2>2, <2>3
<1>8. /\ a \in 0 .. Len(qs)
      /\ \A k \in 1 .. a : qs[k].part = n + k - 1
      /\ \A k \in a + 1 .. Len(qs) : qs[k].part > n + a
  BY <1>5, <1>7, AvailableAreNext
<1> HIDE DEF a
<1>9. /\ ready \in Seq(PartPacket) /\ Len(ready) = a
      /\ \A k \in 1 .. a : ready[k] = qs[k]
  <2>1. \A k \in 1 .. a : qs[k] \in PartPacket
    BY <1>6, <1>8
  <2> HIDE DEF qs
  <2>2. /\ ready \in Seq(PartPacket) /\ Len(ready) = IF 1 <= a THEN a - 1 + 1 ELSE 0
        /\ \A k \in 1 .. a - 1 + 1 : ready[k] = qs[1 + k - 1]
    BY <2>1, <1>8, SubSeqProperties
  <2> HIDE DEF ready
  <2>3. Len(ready) = a /\ a - 1 + 1 = a /\ \A k \in 1 .. a : 1 + k - 1 = k
    BY <2>2, <1>8
  <2> QED BY <2>2, <2>3
<1> HIDE DEF qs, ready
<1> DEFINE counts == n \in Nat /\ size \in Nat /\ a \in Nat /\ Len(qs) \in Nat /\ a <= Len(qs) /\ n < size
<1>c. counts
  BY <1>1, <1>6, <1>8
\* Arrived parts
<1>10. Arrived(m)' = {Plan[j].part : j \in got}
  BY DEF Arrived, PartsOf, Offsets
<1>11. 0 .. n - 1 \subseteq Arrived(m)'
  <2>1. 0 .. n - 1 \subseteq Arrived(m)
    BY <1>1 DEF OrderInv, MessageInv
  <2>2. Arrived(m) \subseteq Arrived(m)'
    BY <1>10 DEF Arrived
  <2> QED BY <2>1, <2>2
<1>12. 0 .. n + a - 1 \subseteq Arrived(m)'
  <2> SUFFICES ASSUME NEW k \in 0 .. n + a - 1 PROVE k \in Arrived(m)'
    OBVIOUS
  <2>1. CASE k < n
    <3>1. k \in 0 .. n - 1
      BY <2>1, <1>1
    <3> QED BY <3>1, <1>11
  <2>2. CASE k >= n
    <3>1. k - n + 1 \in 1 .. a /\ n + (k - n + 1) - 1 = k /\ k - n + 1 \in 1 .. Len(qs)
      BY <2>2, <1>1, <1>6, <1>8
    <3>2. qs[k - n + 1].part = k
      BY <3>1, <1>8
    <3>3. PICK j \in got : qs[k - n + 1] = Plan[j]
      BY <3>1, <1>7
    <3> QED BY <3>2, <3>3, <1>10
  <2> QED BY <2>1, <2>2, <1>1
<1>13. n + a \notin Arrived(m)'
  <2> SUFFICES ASSUME NEW j \in got, Plan[j].part = n + a PROVE FALSE
    BY <1>10
  <2>1. PICK k \in 1 .. Len(qs) : qs[k] = Plan[j]
    BY <1>1, <1>7, <1>8
  <2>2. k > a
    <3> SUFFICES ASSUME k <= a PROVE FALSE
      BY <1>c
    <3>1. k \in 1 .. a
      BY <1>c
    <3>2. qs[k].part = n + k - 1 /\ qs[k].part = n + a
      BY <3>1, <2>1, <1>8
    <3> HIDE DEF n, size
    <3> QED BY <3>1, <3>2, <1>c
  <2>3. k \in a + 1 .. Len(qs)
    BY <2>2, <1>6, <1>8
  <2>4. qs[k].part > n + a /\ qs[k].part = n + a
    BY <2>1, <2>3, <1>8
  <2>5. n + a \in Int
    BY <1>c
  <2> HIDE DEF n
  <2> QED BY <2>4, <2>5
<1>14. n + a <= size
  <2>1. CASE a = 0
    BY <2>1, <1>1
  <2>2. CASE a # 0
    <3>1. n + a - 1 \in Arrived(m)'
      BY <2>2, <1>1, <1>8, <1>12
    <3>2. PICK j \in got : Plan[j].part = n + a - 1
      BY <3>1, <1>10
    <3>3. Plan[j].part \in 0 .. size - 1
      <4>1. j \in Offsets /\ Plan[j].msg = m
        BY DEF PartsOf
      <4> QED BY <4>1, PartFacts
    <3> QED BY <3>2, <3>3, <1>1, <1>8
  <2> QED BY <2>1, <2>2
\* The last part has gone when all have
<1>15. processedLastOrOnly <=> n + a = size
  <2>1. ASSUME NEW k \in 1 .. a PROVE ready[k].last <=> n + k = size
    <3>1. k \in 1 .. Len(qs) /\ ready[k] = qs[k] /\ qs[k].part = n + k - 1
      BY <1>6, <1>8, <1>9
    <3>2. PICK j \in got : qs[k] = Plan[j]
      BY <3>1, <1>7
    <3>3. Plan[j].last <=> Plan[j].part = size - 1
      BY <1>1, PlanAssumption
    <3> QED BY <3>1, <3>2, <3>3, <1>1
  <2>2. ASSUME n + a = size PROVE a \in 1 .. a
    BY <2>2, <1>1, <1>8
  <2>3. ASSUME NEW k \in 1 .. a, n + k = size PROVE n + a = size
    <3> HIDE DEF n, size
    <3> QED BY <2>3, <1>c, <1>14
  <2> QED BY <2>1, <2>2, <2>3, <1>9
<1>16. /\ Len(delivered'[m]) = n + a
       /\ delivered'[m] = [k \in 1 .. n + a |-> k - 1]
       /\ \A k \in Messages \ {m} : delivered'[k] = delivered[k]
       /\ delivered' = [k \in Messages |-> delivered'[k]]
  <2>1. delivered = [k \in Messages |-> delivered[k]] /\ delivered[m] = [k \in 1 .. n |-> k - 1]
    BY <1>1 DEF OrderInv, MessageInv
  <2>2. delivered'[m] = delivered[m] \o [k \in 1 .. Len(ready) |-> ready[k].part]
    BY <2>1, <1>1, <1>2
  <2>3. [k \in 1 .. Len(ready) |-> ready[k].part] = [k \in 1 .. a |-> n + k - 1]
    BY <1>6, <1>8, <1>9
  <2> DEFINE s == [k \in 1 .. n |-> k - 1]
             t == [k \in 1 .. a |-> n + k - 1]
             u == [k \in 1 .. n + a |-> k - 1]
  <2>4. /\ s \in Seq(Nat) /\ Len(s) = n /\ \A k \in 1 .. n : s[k] = k - 1
        /\ t \in Seq(Nat) /\ Len(t) = a /\ \A k \in 1 .. a : t[k] = n + k - 1
        /\ u \in Seq(Nat) /\ Len(u) = n + a /\ \A k \in 1 .. n + a : u[k] = k - 1
    <3>1. n \in Nat /\ a \in Nat
      BY <1>c
    <3> HIDE DEF n
    <3> QED BY <3>1
  <2> HIDE DEF s, t, u
  <2>5. /\ s \o t \in Seq(Nat) /\ Len(s \o t) = n + a
        /\ \A k \in 1 .. n + a : (s \o t)[k] = IF k <= n THEN s[k] ELSE t[k - n]
    <3>1. s \in Seq(Nat) /\ t \in Seq(Nat) /\ Len(s) = n /\ Len(t) = a
      BY <2>4
    <3> HIDE DEF n
    <3>2. /\ s \o t \in Seq(Nat) /\ Len(s \o t) = Len(s) + Len(t)
          /\ \A k \in 1 .. Len(s) + Len(t) : (s \o t)[k] = IF k <= Len(s) THEN s[k] ELSE t[k - Len(s)]
      BY <3>1, ConcatProperties
    <3> QED BY <3>1, <3>2
  <2>6. s \o t = u
    <3>1. ASSUME NEW k \in 1 .. n + a PROVE (s \o t)[k] = u[k]
      <4>1. CASE k <= n
        BY <4>1, <2>4, <2>5, <1>1, <1>8
      <4>2. CASE ~(k <= n)
        <5>1. k - n \in 1 .. a /\ n + (k - n) - 1 = k - 1
          <6> HIDE DEF n, size
          <6> QED BY <4>2, <1>c
        <5> QED BY <5>1, <4>2, <2>4, <2>5
      <4> QED BY <4>1, <4>2
    <3> DEFINE v == s \o t
    <3> HIDE DEF v
    <3>2. v \in Seq(Nat) /\ Len(v) = Len(u) /\ \A k \in 1 .. Len(v) : v[k] = u[k]
      BY <3>1, <2>4, <2>5 DEF v
    <3>3. v = u
      BY <3>2, <2>4, SeqEqual
    <3> QED BY <3>3 DEF v
  <2>7. delivered'[m] = u
    BY <2>1, <2>2, <2>3, <2>6 DEF s, t
  <2>8. (\A k \in Messages \ {m} : delivered'[k] = delivered[k])
        /\ delivered' = [k \in Messages |-> delivered'[k]]
    BY <2>1, <1>2
  <2> QED BY <2>4, <2>7, <2>8 DEF u
<1>17. /\ DOMAIN pendingReceivedMessages' \subseteq Messages
       /\ \A k \in Messages \ {m} :
            /\ k \in DOMAIN pendingReceivedMessages' <=> k \in DOMAIN pendingReceivedMessages
            /\ k \in DOMAIN pendingReceivedMessages =>
                    pendingReceivedMessages'[k] = pendingReceivedMessages[k]
       /\ m \in DOMAIN pendingReceivedMessages' <=> ~processedLastOrOnly
       /\ ~processedLastOrOnly => pendingReceivedMessages'[m] = RemoveAvailable(queued)
  <2>1. DOMAIN pendingReceivedMessages \subseteq Messages
    BY DEF OrderInv
  <2> HIDE DEF processedLastOrOnly, m
  <2> QED BY <2>1, <1>1, <1>2 DEF Restrict
<1>18. accepted' \subseteq Offsets
  BY DEF OrderInv
<1>19. ASSUME NEW k \in Messages \ {m} PROVE MessageInv(k)'
  <2>1. MessageInv(k)
    BY <1>19 DEF OrderInv
  <2>2. PartsOf(k) \cap accepted' = PartsOf(k) \cap accepted
    BY <1>19 DEF PartsOf
  <2>3. /\ Arrived(k)' = Arrived(k) /\ PartsOf(k)' = PartsOf(k)
        /\ delivered'[k] = delivered[k]
        /\ k \in DOMAIN pendingReceivedMessages' <=> k \in DOMAIN pendingReceivedMessages
        /\ k \in DOMAIN pendingReceivedMessages => pendingReceivedMessages'[k] = pendingReceivedMessages[k]
    BY <2>2, <1>16, <1>17 DEF Arrived, PartsOf, Offsets
  <2> HIDE DEF m
  <2>4. CASE k \in DOMAIN pendingReceivedMessages
    <3>1. PendingHolds(k)
      BY <2>1, <2>4 DEF MessageInv
    <3>2. PendingHolds(k)'
      BY <3>1, <2>2, <2>3, <2>4 DEF PendingHolds, InOrder
    <3> QED BY <3>2, <2>1, <2>3, <2>4 DEF MessageInv
  <2>5. CASE k \notin DOMAIN pendingReceivedMessages
    BY <2>1, <2>3, <2>5 DEF MessageInv
  <2> QED BY <2>4, <2>5
<1>20. ~processedLastOrOnly => PendingHolds(m)'
  <2> SUFFICES ASSUME ~processedLastOrOnly PROVE PendingHolds(m)'
    OBVIOUS
  <2> DEFINE pending == pendingReceivedMessages'[m]
             rest == SubSeq(qs, a + 1, Len(qs))
  <2>1. pending = [packets |-> rest, nextPartNumber |-> n + a]
    BY <1>5, <1>17 DEF RemoveAvailable, a, qs
  <2>2. /\ rest \in Seq(PartPacket) /\ Len(rest) = Len(qs) - a
        /\ \A k \in 1 .. Len(rest) : rest[k] = qs[a + k] /\ a + k \in a + 1 .. Len(qs) /\ a + k \in 1 .. Len(qs)
    <3>1. \A k \in a + 1 .. Len(qs) : qs[k] \in PartPacket
      BY <1>6, <1>8
    <3>2. /\ rest \in Seq(PartPacket)
          /\ Len(rest) = IF a + 1 <= Len(qs) THEN Len(qs) - (a + 1) + 1 ELSE 0
          /\ \A k \in 1 .. Len(qs) - (a + 1) + 1 : rest[k] = qs[a + 1 + k - 1]
      BY <3>1, <1>6, <1>8, SubSeqProperties
    <3> HIDE DEF rest
    <3>3. Len(rest) = Len(qs) - a
      BY <3>2, <1>6, <1>8
    <3>4. ASSUME NEW k \in 1 .. Len(rest)
          PROVE  rest[k] = qs[a + k] /\ a + k \in a + 1 .. Len(qs) /\ a + k \in 1 .. Len(qs)
      <4>1. k \in 1 .. Len(qs) - (a + 1) + 1 /\ a + 1 + k - 1 = a + k
            /\ a + k \in a + 1 .. Len(qs) /\ a + k \in 1 .. Len(qs)
        BY <3>3, <1>6, <1>8
      <4> QED BY <4>1, <3>2
    <3> QED BY <3>2, <3>3, <3>4
  <2> HIDE DEF rest
  <2>3. InOrder(rest)
    <3> SUFFICES ASSUME NEW j \in 1 .. Len(rest), NEW k \in 1 .. Len(rest), j < k
                 PROVE  rest[j].part < rest[k].part
      BY DEF InOrder
    <3>1. a + j < a + k
      BY <1>8
    <3> QED BY <3>1, <2>2, <1>5 DEF InOrder
  <2>4. ASSUME NEW k \in 1 .. Len(rest)
        PROVE  rest[k].part > n + a /\ \E j \in got : rest[k] = Plan[j]
    <3>1. rest[k] = qs[a + k] /\ a + k \in a + 1 .. Len(qs) /\ a + k \in 1 .. Len(qs)
      BY <2>2
    <3> DEFINE h == a + k
    <3>2. rest[k] = qs[h] /\ h \in a + 1 .. Len(qs) /\ h \in 1 .. Len(qs)
      BY <3>1
    <3> HIDE DEF h, n, got
    <3>3. qs[h].part > n + a
      BY <3>2, <1>8
    <3> QED BY <3>2, <3>3, <1>7
  <2>5. ASSUME NEW j \in got, Plan[j].part >= n + a
        PROVE  \E k \in 1 .. Len(rest) : rest[k] = Plan[j]
    <3>1. Plan[j].part \in Nat
      BY PartFacts DEF PartsOf
    <3>2. PICK k \in 1 .. Len(qs) : qs[k] = Plan[j]
      BY <3>1, <2>5, <1>1, <1>7, <1>8
    <3>3. ~(k <= a)
      <4> SUFFICES ASSUME k <= a PROVE FALSE
        OBVIOUS
      <4>1. k \in 1 .. a
        BY <3>2, <1>8
      <4>2. qs[k].part = n + k - 1 /\ qs[k].part >= n + a
        BY <4>1, <3>2, <2>5, <1>8
      <4> HIDE DEF n, size
      <4> QED BY <4>1, <4>2, <1>c
    <3>4. k - a \in 1 .. Len(rest) /\ a + (k - a) = k
      BY <3>3, <2>2, <1>6, <1>8
    <3> QED BY <3>2, <3>4, <2>2
  <2>6. Arrived(m)' # {}
    BY <1>1, <1>10
  <2>7. n + a < size
    <3>1. n + a # size /\ n + a <= size
      BY <1>14, <1>15
    <3> HIDE DEF n, size
    <3> QED BY <3>1, <1>c
  <2>8. pending \in [packets : Seq(PartPacket), nextPartNumber : Nat]
        /\ pending.packets = rest /\ pending.nextPartNumber = n + a
    BY <2>1, <2>2, <1>1, <1>8
  <2>9. PartsOf(m)' = PartsOf(m)
    BY DEF PartsOf, Offsets
  <2> HIDE DEF pending
  <2> QED BY <2>3, <2>4, <2>5, <2>6, <2>7, <2>8, <2>9, <1>16 DEF PendingHolds, InOrder, pending
<1>21. MessageInv(m)'
  <2>1. PartsOf(m)' = PartsOf(m) /\ n + a \in Nat
    BY <1>1, <1>8 DEF PartsOf, Offsets
  <2> DEFINE d == delivered'[m]
  <2>2. /\ Len(d) \in Nat /\ d = [k \in 1 .. Len(d) |-> k - 1]
        /\ 0 .. Len(d) - 1 \subseteq Arrived(m)' /\ Len(d) \notin Arrived(m)'
    <3>1. Len(d) = n + a /\ d = [k \in 1 .. n + a |-> k - 1]
      BY <1>16
    <3> DEFINE N == n + a
               arrived == Arrived(m)'
    <3>a. 0 .. n + a - 1 \subseteq arrived /\ n + a \notin arrived
      BY <1>12, <1>13
    <3>b. n \in Nat /\ a \in Nat
      BY <1>c
    <3> HIDE DEF arrived, n, d
    <3>2. /\ N \in Nat /\ 0 .. N - 1 \subseteq arrived /\ N \notin arrived
          /\ Len(d) = N /\ d = [k \in 1 .. N |-> k - 1]
      BY <3>1, <3>a, <3>b
    <3> HIDE DEF N
    <3> QED BY <3>2 DEF arrived
  <2>3. IF m \in DOMAIN pendingReceivedMessages'
        THEN PendingHolds(m)'
        ELSE Arrived(m)' = {} \/ Len(d) = Cardinality(PartsOf(m)')
    <3>1. CASE processedLastOrOnly
      <4>1. m \notin DOMAIN pendingReceivedMessages' /\ n + a = size
        BY <3>1, <1>15, <1>17
      <4> QED BY <4>1, <2>1, <1>16
    <3>2. CASE ~processedLastOrOnly
      BY <3>2, <1>17, <1>20
    <3> QED BY <3>1, <3>2
  <2> HIDE DEF m
  <2> QED BY <2>2, <2>3 DEF MessageInv
<1> QED BY <1>16, <1>17, <1>18, <1>19, <1>21 DEF OrderInv, Messages, Offsets

\* Nothing has arrived
NothingArrived ==
    /\ accepted = {}
    /\ delivered = [m \in Messages |-> <<>>]
    /\ pendingReceivedMessages = NoMessages

\* At the start and after a reset
LEMMA NothingArrivedOrder == NothingArrived => OrderInv
<1> SUFFICES ASSUME NothingArrived PROVE OrderInv
  OBVIOUS
<1> USE DEF NothingArrived
<1>1. DOMAIN pendingReceivedMessages = {}
  BY DEF NoMessages
<1>2. ASSUME NEW m \in Messages PROVE MessageInv(m)
  <2>1. delivered[m] = <<>> /\ Len(delivered[m]) = 0
    BY EmptySeq
  <2>2. Arrived(m) = {}
    BY DEF Arrived
  <2>3. <<>> = [k \in 1 .. 0 |-> k - 1]
    OBVIOUS
  <2> QED BY <1>1, <2>1, <2>2, <2>3 DEF MessageInv
<1> QED BY <1>1, <1>2 DEF OrderInv

\* Every step keeps the order
LEMMA OrderStep ==
  ASSUME NoneWraps
  PROVE  /\ Init => OrderInv
         /\ RecordInv /\ OrderInv /\ [Next]_vars => OrderInv'
<1>0. NothingArrived => OrderInv
  BY NothingArrivedOrder
<1>1. Init => OrderInv
  BY <1>0 DEF Init, NothingArrived
<1>2. ASSUME accepted' = {}, delivered' = [m \in Messages |-> <<>>],
             pendingReceivedMessages' = NoMessages
      PROVE  OrderInv'
  <2>1. NothingArrived' => OrderInv'
    BY <1>0, PTL
  <2>2. NothingArrived'
    BY <1>2 DEF NothingArrived, Messages, Offsets, NoMessages, None
  <2> QED BY <2>1, <2>2
<1>3. ASSUME OrderInv, UNCHANGED <<accepted, delivered, pendingReceivedMessages>>
      PROVE  OrderInv'
  <2>1. Messages' = Messages /\ Offsets' = Offsets
    BY DEF Messages, Offsets
  <2>2. ASSUME NEW m \in Messages PROVE MessageInv(m)'
    <3>1. MessageInv(m)
      BY <1>3 DEF OrderInv
    <3>2. PartsOf(m)' = PartsOf(m)
      BY DEF PartsOf, Offsets
    <3>3. Arrived(m)' = Arrived(m)
      BY <1>3, <3>2 DEF Arrived
    <3>4. PendingHolds(m)' <=> PendingHolds(m)
      BY <1>3, <3>2, <3>3 DEF PendingHolds, InOrder
    <3> QED BY <1>3, <3>1, <3>2, <3>3, <3>4 DEF MessageInv
  <2> QED BY <1>3, <2>1, <2>2 DEF OrderInv
<1>4. ASSUME RecordInv, OrderInv, [Next]_vars PROVE OrderInv'
  <2>1. CASE RequestHandshake
    BY <2>1, <1>3, <1>4 DEF RequestHandshake
  <2>2. ASSUME NEW i \in Offsets, ReceivePacket(i) PROVE OrderInv'
    <3>1. /\ accepted' = accepted \cup {i}
          /\ IF i \in accepted
             THEN UNCHANGED <<delivered, pendingReceivedMessages>>
             ELSE QueueReceivedMessagePacket(Plan[i])
      BY <1>4, <2>2, ReceivePacketRecord
    <3>2. CASE i \in accepted
      BY <3>1, <3>2, <1>3, <1>4
    <3>3. CASE i \notin accepted
      BY <3>1, <3>3, <1>4, QueuePacketOrder
    <3> QED BY <3>2, <3>3
  <2>3. ASSUME NEW initial \in Initials, ProcessHandshake(initial) PROVE OrderInv'
    <3>1. CASE ~hasReceivedHandshake \/ initial # initialReceiveSequenceNumber
      BY <2>3, <3>1, <1>2 DEF ProcessHandshake, ResetReceiveState
    <3>2. CASE ~(~hasReceivedHandshake \/ initial # initialReceiveSequenceNumber)
      BY <2>3, <3>2, <1>3, <1>4 DEF ProcessHandshake
    <3> QED BY <3>1, <3>2
  <2>4. CASE CleanupConnection
    BY <2>4, <1>2 DEF CleanupConnection
  <2>5. CASE UNCHANGED vars
    BY <2>5, <1>3, <1>4 DEF vars
  <2> QED BY <1>4, <2>1, <2>2, <2>3, <2>4, <2>5 DEF Next
<1> QED BY <1>1, <1>4

-----------------------------------------------------------------------------
(***************************************************************************)
(* The receiving half                                                      *)
(***************************************************************************)
\* What holds of the receiving half at any time
ReceiveInv == RecordInv /\ AckInv /\ OrderInv

\* The invariant of the receiving half holds in every reachable state
THEOREM ReceiveInvariance ==
  ASSUME NoneWraps PROVE Spec => []ReceiveInv
<1>1. Init => ReceiveInv
  BY RecordInvariance, OrderStep DEF ReceiveInv
<1>2. ReceiveInv /\ [Next]_vars => ReceiveInv'
  BY RecordInvariance, OrderStep DEF ReceiveInv
<1> QED BY <1>1, <1>2, PTL DEF Spec

(***************************************************************************)
(* For any plan and any order of arrival, loss and repetition: _lossList   *)
(* holds exactly the packets before the last received one that are missing *)
(* (processReceivedSequenceNumber with LossList's append and remove).      *)
(***************************************************************************)
THEOREM LossListAlwaysAllMissing ==
  ASSUME NoneWraps PROVE Spec => []LossListIsAllMissing
<1>1. RecordInv => LossListIsAllMissing
  <2> SUFFICES ASSUME RecordInv, hasReceivedHandshake
               PROVE  Members(lossList) = {SeqNumOf(i) : i \in
                        {j \in Offsets : j \notin accepted /\ \E k \in accepted : k > j}}
    BY DEF LossListIsAllMissing
  <2>1. /\ initialReceiveSequenceNumber \in Initials
        /\ accepted \subseteq Offsets
        /\ \A j \in accepted : Num(j) <= lastReceivedSequenceNumber
        /\ lastReceivedSequenceNumber # Num(0) => \E j \in accepted : Num(j) = lastReceivedSequenceNumber
        /\ Members(lossList) =
              {Num(i) : i \in {j \in Offsets : j \notin accepted /\ Num(j) < lastReceivedSequenceNumber}}
        /\ lastReceivedSequenceNumber \in Num(0) .. Num(Len(Plan))
    BY DEF RecordInv
  <2>2. \A i \in Offsets : SeqNumOf(i) = Num(i)
    BY <2>1, NumbersInUse
  <2>3. initialReceiveSequenceNumber \in Int /\ Len(Plan) \in Nat
    BY <2>1, NumbersInUse DEF SeqNum
  <2>4. lastReceivedSequenceNumber \in Int
    BY <2>1, <2>3 DEF Num
  <2>5. ASSUME NEW j \in Offsets
        PROVE  Num(j) < lastReceivedSequenceNumber <=> \E k \in accepted : k > j
    <3>1. ASSUME Num(j) < lastReceivedSequenceNumber PROVE \E k \in accepted : k > j
      <4>1. lastReceivedSequenceNumber # Num(0)
        BY <3>1, <2>3 DEF Num, Offsets
      <4>2. PICK k \in accepted : Num(k) = lastReceivedSequenceNumber
        BY <4>1, <2>1
      <4>3. k > j
        BY <4>2, <3>1, <2>1, <2>3 DEF Num, Offsets
      <4> QED BY <4>2, <4>3
    <3>2. ASSUME NEW k \in accepted, k > j PROVE Num(j) < lastReceivedSequenceNumber
      <4>1. Num(j) < Num(k) /\ Num(k) <= lastReceivedSequenceNumber /\ Num(j) \in Int /\ Num(k) \in Int
        BY <3>2, <2>1, <2>3 DEF Num, Offsets
      <4> QED BY <4>1, <2>4
    <3> QED BY <3>1, <3>2
  <2> QED BY <2>1, <2>2, <2>5
<1> QED BY <1>1, ReceiveInvariance, PTL DEF ReceiveInv

(***************************************************************************)
(* sendACK never covers a packet that has not arrived, so SendQueue::ack   *)
(* never forgets one that the receiver still needs.                        *)
(***************************************************************************)
THEOREM AckAlwaysCoversReceived ==
  ASSUME NoneWraps PROVE Spec => []AckCoversOnlyReceived
<1>1. RecordInv /\ AckInv => AckCoversOnlyReceived
  <2> SUFFICES ASSUME RecordInv, AckInv, sent.kind = "ACK",
                      NEW i \in Offsets, Leq(SeqNumOf(i), sent.seq)
               PROVE  i \in accepted
    BY DEF AckCoversOnlyReceived
  <2>1. hasReceivedHandshake /\ sent.seq = NextACK(lossList, lastReceivedSequenceNumber)
    BY DEF AckInv
  <2>2. sent.seq \in Num(0) .. Num(Len(Plan)) /\ (Num(i) <= sent.seq => i \in accepted)
    BY <2>1, AckIsBeforeMissing DEF AckBeforeMissing
  <2>3. initialReceiveSequenceNumber \in Initials
    BY <2>1 DEF RecordInv
  <2>4. SeqNumOf(i) = Num(i) /\ Num(i) \in Num(0) .. Num(Len(Plan))
    BY <2>3, NumbersInUse DEF Num, Offsets, SeqNum
  <2>5. Num(i) <= sent.seq
    BY <2>2, <2>3, <2>4, NumbersInUse
  <2> QED BY <2>2, <2>5
<1> QED BY <1>1, ReceiveInvariance, PTL DEF ReceiveInv

(***************************************************************************)
(* The ACKs of one handshake never go back.                                *)
(***************************************************************************)
THEOREM AcksAlwaysAdvance ==
  ASSUME NoneWraps PROVE Spec => AcksAdvance
<1>a. RecordInv /\ hasReceivedHandshake => AckBeforeMissing
  BY AckIsBeforeMissing
<1>0. RecordInv' /\ hasReceivedHandshake' => AckBeforeMissing'
  BY <1>a, PTL
<1>1. RecordInv /\ AckInv /\ [Next]_vars
        => [sent.kind = "ACK" /\ sent'.kind = "ACK" => Leq(sent.seq, sent'.seq)]_vars
  <2> SUFFICES ASSUME RecordInv, AckInv, Next, sent.kind = "ACK", sent'.kind = "ACK"
               PROVE  Leq(sent.seq, sent'.seq)
    OBVIOUS
  <2>1. PICK i \in Offsets : ReceivePacket(i)
    BY DEF Next, RequestHandshake, ProcessHandshake, CleanupConnection, None
  <2>2. RecordInv' /\ AckInv' /\ accepted' = accepted \cup {i}
    BY <2>1, ReceivePacketRecord
  <2>3. hasReceivedHandshake /\ sent.seq = NextACK(lossList, lastReceivedSequenceNumber)
    BY DEF AckInv
  <2>4. hasReceivedHandshake' /\ sent'.seq = NextACK(lossList', lastReceivedSequenceNumber')
    BY <2>2 DEF AckInv
  <2>5. initialReceiveSequenceNumber' = initialReceiveSequenceNumber /\ \A j : Num(j)' = Num(j)
    BY <2>1 DEF ReceivePacket, handshakeVars, Num
  <2>6. initialReceiveSequenceNumber \in Initials
    BY <2>3 DEF RecordInv
  <2>7. /\ sent.seq \in Num(0) .. Num(Len(Plan))
        /\ \A j \in Offsets : Num(j) <= sent.seq => j \in accepted
    BY <2>3, AckIsBeforeMissing DEF AckBeforeMissing
  <2>8. /\ sent'.seq \in Num(0) .. Num(Len(Plan))
        /\ \A j \in Offsets : Num(j) = sent'.seq + 1 => j \notin accepted'
    BY <1>0, <2>2, <2>4, <2>5 DEF AckBeforeMissing, Offsets
  <2>9. sent.seq <= sent'.seq
    <3> SUFFICES ASSUME sent'.seq < sent.seq PROVE FALSE
      BY <2>6, <2>7, <2>8, NumbersInUse DEF Num, SeqNum
    <3>1. sent'.seq + 1 \in Num(1) .. Num(Len(Plan)) /\ sent'.seq + 1 <= sent.seq
      BY <2>6, <2>7, <2>8, NumbersInUse DEF Num, SeqNum
    <3>2. PICK j \in Offsets : Num(j) = sent'.seq + 1
      BY <3>1, <2>6, OffsetOf
    <3>3. j \in accepted /\ j \notin accepted'
      BY <3>1, <3>2, <2>7, <2>8
    <3> QED BY <3>3, <2>2
  <2> QED BY <2>6, <2>7, <2>8, <2>9, NumbersInUse
<1> QED BY <1>1, ReceiveInvariance, PTL DEF ReceiveInv, Spec, AcksAdvance

(***************************************************************************)
(* queueReceivedMessagePacket hands over the parts of every message in order,*)
(* each once, and each as soon as all those before it have arrived.        *)
(***************************************************************************)
THEOREM AlwaysInOrderOnce ==
  ASSUME NoneWraps PROVE Spec => []InOrderOnceWithoutDelay
<1>1. OrderInv => InOrderOnceWithoutDelay
  <2> SUFFICES ASSUME OrderInv, NEW m \in Messages
               PROVE  delivered[m] =
                        [k \in 1 .. Min({k \in 0 .. Cardinality(Arrived(m)) : k \notin Arrived(m)}) |-> k - 1]
    BY DEF InOrderOnceWithoutDelay, Arrived
  <2> DEFINE n == Len(delivered[m])
             S == {k \in 0 .. Cardinality(Arrived(m)) : k \notin Arrived(m)}
  <2>1. /\ n \in Nat /\ delivered[m] = [k \in 1 .. n |-> k - 1]
        /\ 0 .. n - 1 \subseteq Arrived(m) /\ n \notin Arrived(m)
    BY DEF OrderInv, MessageInv
  <2>2. n <= Cardinality(Arrived(m)) /\ Cardinality(Arrived(m)) \in Nat
    <3>1. IsFiniteSet(Arrived(m))
      <4>1. Arrived(m) \in SUBSET (0 .. Cardinality(PartsOf(m)) - 1)
        BY PartFacts DEF Arrived, PartsOf
      <4>2. IsFiniteSet(0 .. Cardinality(PartsOf(m)) - 1)
        BY PartFacts, FS_Interval
      <4> QED BY <4>1, <4>2, FS_Subset
    <3>2. Cardinality(0 .. n - 1) = n
      <4>1. n - 1 \in Int /\ 0 \in Int
        BY <2>1
      <4>2. Cardinality(0 .. n - 1) = IF 0 > n - 1 THEN 0 ELSE n - 1 - 0 + 1
        BY <4>1, FS_Interval
      <4> QED BY <4>2, <2>1
    <3>3. Cardinality(0 .. n - 1) <= Cardinality(Arrived(m))
      BY <2>1, <3>1, FS_Subset
    <3> QED BY <3>1, <3>2, <3>3, FS_CardinalityType
  <2>3. n \in S /\ \A k \in S : n <= k
    <3>1. n \in S
      BY <2>1, <2>2
    <3>2. ASSUME NEW k \in S PROVE n <= k
      <4>1. k \in Nat /\ k \notin 0 .. n - 1
        BY <2>1, <2>2
      <4> HIDE DEF S, n
      <4> QED BY <4>1, <2>1
    <3> QED BY <3>1, <3>2
  <2>4. Min(S) = n
    <3>1. S \subseteq Int
      BY <2>2
    <3> HIDE DEF S, n
    <3>2. Min(S) \in S /\ \A k \in S : Min(S) <= k
      BY <2>3 DEF Min
    <3>3. n \in Int /\ Min(S) \in Int /\ Min(S) <= n /\ n <= Min(S)
      BY <3>1, <3>2, <2>3
    <3> QED BY <3>3
  <2> QED BY <2>1, <2>4
<1> QED BY <1>1, ReceiveInvariance, PTL DEF ReceiveInv

(***************************************************************************)
(* _pendingReceivedMessages has a message from its first packet until its  *)
(* last part is handed over, and no longer.                                *)
(***************************************************************************)
THEOREM AlwaysPendingUntilComplete ==
  ASSUME NoneWraps PROVE Spec => []PendingUntilComplete
<1>1. OrderInv => PendingUntilComplete
  <2> SUFFICES ASSUME OrderInv, NEW m \in Messages
               PROVE  m \in DOMAIN pendingReceivedMessages
                        <=> PartsOf(m) \cap accepted # {} /\ Len(delivered[m]) < Cardinality(PartsOf(m))
    BY DEF OrderInv, PendingUntilComplete
  <2>1. MessageInv(m)
    BY DEF OrderInv
  <2>2. Arrived(m) = {} <=> PartsOf(m) \cap accepted = {}
    BY DEF Arrived
  <2>3. CASE m \in DOMAIN pendingReceivedMessages
    BY <2>1, <2>2, <2>3 DEF MessageInv, PendingHolds
  <2>4. CASE m \notin DOMAIN pendingReceivedMessages
    <3>1. Cardinality(PartsOf(m)) \in Nat
      BY PartFacts
    <3> QED BY <3>1, <2>1, <2>2, <2>4 DEF MessageInv
  <2> QED BY <2>3, <2>4
<1> QED BY <1>1, ReceiveInvariance, PTL DEF ReceiveInv

(***************************************************************************)
(* AssetClient's specification takes the steps of the receiving half, so all*)
(* that is proved of it holds there.                                       *)
(***************************************************************************)
THEOREM ClientReceives == ClientSpec => Spec
<1>1. ClientInit => Init
  BY DEF ClientInit
<1>2. [ClientNext]_clientVars => [Next]_vars
  <2> SUFFICES ASSUME [ClientNext]_clientVars PROVE [Next]_vars
    OBVIOUS
  <2>1. CASE \E i \in Offsets : Receive(i)
    BY <2>1 DEF Receive, Next
  <2>2. CASE RequestHandshakeOfNode
    BY <2>2 DEF RequestHandshakeOfNode, Next
  <2>3. CASE \E initial \in Initials : Handshake(initial)
    BY <2>3 DEF Handshake, Next
  <2>4. CASE KillNode
    BY <2>4 DEF KillNode, Next
  <2>5. CASE AddNode
    BY <2>5 DEF AddNode
  <2>6. CASE Call
    BY <2>6 DEF Call
  <2>7. CASE FindAssetServer
    BY <2>7 DEF FindAssetServer
  <2>8. CASE SendRequest \/ FailToSendRequest
    BY <2>8 DEF SendRequest, FailToSendRequest
  <2>9. CASE \E r \in Requests : CancelRequest(r)
    BY <2>9 DEF CancelRequest
  <2>10. CASE FinishGetReply
    BY <2>10 DEF FinishGetReply
  <2>11. CASE HandleEvent
    BY <2>11 DEF HandleEvent
  <2>12. CASE UNCHANGED clientVars
    BY <2>12 DEF clientVars
  <2> QED BY <2>1, <2>2, <2>3, <2>4, <2>5, <2>6, <2>7, <2>8, <2>9, <2>10, <2>11, <2>12 DEF ClientNext
<1> QED BY <1>1, <1>2, PTL DEF ClientSpec, Spec

-----------------------------------------------------------------------------
(***************************************************************************)
(* AssetClient: the callback of a request                                  *)
(***************************************************************************)
\* The record handleAssetGetReply works on is still in the map at its end,
\* since nothing else runs on the thread between its steps
HandlingInv ==
    /\ handling.kind = "sending" => currentID < Len(Kinds)
    /\ handling.kind = "reply" => handling.request \in DOMAIN pendingRequests

\* Which requests there are, and how often each has been answered
RequestsInv ==
    /\ currentID \in 0 .. Len(Kinds)
    /\ DOMAIN pendingRequests \subseteq 1 .. currentID
    /\ cancelled \subseteq 1 .. currentID
    /\ DOMAIN pendingRequests \cap cancelled = {}
    /\ answers = [r \in Requests |-> answers[r]]
    /\ \A r \in Requests :
        /\ r > currentID \/ r \in DOMAIN pendingRequests \cup cancelled => answers[r] = <<>>
        /\ ~(r > currentID \/ r \in DOMAIN pendingRequests \cup cancelled) =>
              \E outcome : answers[r] = <<outcome>>

IInv == HandlingInv /\ RequestsInv

-----------------------------------------------------------------------------
\* A first answer is one answer
LEMMA AppendToNone ==
    \A outcome : Append(<<>>, outcome) = <<outcome>> /\ Len(<<outcome>>) = 1 /\ Len(<<>>) = 0
<1> SUFFICES ASSUME NEW outcome
             PROVE  Append(<<>>, outcome) = <<outcome>> /\ Len(<<outcome>>) = 1 /\ Len(<<>>) = 0
  OBVIOUS
<1>1. <<>> \in Seq({outcome}) /\ outcome \in {outcome}
  OBVIOUS
<1> QED BY <1>1

\* The maps change together: the requests of rs are answered and erased
LEMMA AnsweredAndErased ==
    ASSUME RequestsInv, NEW rs, rs \subseteq DOMAIN pendingRequests,
           answers' = [r \in Requests |-> answers'[r]],
           \A r \in rs : \E outcome : answers'[r] = Append(answers[r], outcome),
           \A r \in Requests \ rs : answers'[r] = answers[r],
           DOMAIN pendingRequests' = DOMAIN pendingRequests \ rs,
           UNCHANGED <<currentID, cancelled>>
    PROVE  RequestsInv'
<1>1. ASSUME NEW r \in rs
      PROVE  /\ r \in Requests /\ r \in 1 .. currentID /\ r \notin cancelled
             /\ \E outcome : answers'[r] = <<outcome>>
  <2>1. r \in 1 .. currentID /\ r \in Requests /\ r \notin cancelled
    BY <1>1, ClientAssumption DEF RequestsInv, Requests
  <2>2. answers[r] = <<>>
    BY <1>1, <2>1 DEF RequestsInv
  <2>3. PICK outcome : answers'[r] = Append(answers[r], outcome)
    BY <1>1
  <2>4. answers'[r] = <<outcome>>
    BY <2>2, <2>3, AppendToNone
  <2> QED BY <2>1, <2>4
<1>2. ASSUME NEW r \in Requests
      PROVE  /\ r > currentID' \/ r \in DOMAIN pendingRequests' \cup cancelled' => answers'[r] = <<>>
             /\ ~(r > currentID' \/ r \in DOMAIN pendingRequests' \cup cancelled') =>
                   \E outcome : answers'[r] = <<outcome>>
  <2>1. CASE r \in rs
    <3>1. ~(r > currentID') /\ r \notin DOMAIN pendingRequests' \cup cancelled'
      BY <2>1, <1>1 DEF RequestsInv
    <3> QED BY <3>1, <2>1, <1>1
  <2>2. CASE r \notin rs
    <3>1. answers'[r] = answers[r] /\ (r \in DOMAIN pendingRequests' <=> r \in DOMAIN pendingRequests)
      BY <2>2
    <3> QED BY <3>1 DEF RequestsInv
  <2> QED BY <2>1, <2>2
<1>3. /\ currentID' \in 0 .. Len(Kinds)
      /\ DOMAIN pendingRequests' \subseteq 1 .. currentID'
      /\ cancelled' \subseteq 1 .. currentID'
      /\ DOMAIN pendingRequests' \cap cancelled' = {}
  BY DEF RequestsInv
<1> QED BY <1>2, <1>3 DEF RequestsInv

-----------------------------------------------------------------------------
\* No request is pending before the first
LEMMA InitIInv == ClientInit => IInv
<1> SUFFICES ASSUME ClientInit PROVE IInv
  OBVIOUS
<1>1. handling.kind = "none" /\ DOMAIN pendingRequests = {}
  BY DEF ClientInit, None, NoMessages
<1>2. answers = [r \in Requests |-> <<>>] /\ currentID = 0 /\ cancelled = {}
  BY DEF ClientInit
<1>3. \A r \in Requests : answers[r] = <<>> /\ r > 0
  BY <1>2, ClientAssumption DEF Requests
<1>4. 0 \in 0 .. Len(Kinds)
  BY ClientAssumption
<1> QED BY <1>1, <1>2, <1>3, <1>4 DEF IInv, HandlingInv, RequestsInv

\* A request is pending from its sending on
LEMMA SendKeeps == IInv /\ SendRequest => IInv'
<1> SUFFICES ASSUME IInv, SendRequest PROVE IInv'
  OBVIOUS
<1>1. handling'.kind = "none" /\ currentID' = currentID + 1 /\ currentID < Len(Kinds)
  BY DEF SendRequest, IInv, HandlingInv, None
<1>2. DOMAIN pendingRequests' = DOMAIN pendingRequests \cup {currentID'}
  BY DEF SendRequest
<1>3. currentID \in 0 .. Len(Kinds) /\ Len(Kinds) \in Nat
  BY ClientAssumption DEF IInv, RequestsInv
<1>4. answers' = answers /\ cancelled' = cancelled
  BY DEF SendRequest
<1>5. /\ currentID' \in 0 .. Len(Kinds)
      /\ DOMAIN pendingRequests' \subseteq 1 .. currentID'
      /\ cancelled' \subseteq 1 .. currentID'
      /\ DOMAIN pendingRequests' \cap cancelled' = {}
  BY <1>1, <1>2, <1>3, <1>4 DEF IInv, RequestsInv
<1>6. ASSUME NEW r \in Requests
      PROVE  (r > currentID' \/ r \in DOMAIN pendingRequests' \cup cancelled') <=>
             (r > currentID \/ r \in DOMAIN pendingRequests \cup cancelled)
  BY <1>1, <1>2, <1>3, <1>4 DEF Requests
<1> QED BY <1>1, <1>4, <1>5, <1>6 DEF IInv, HandlingInv, RequestsInv

\* One that cannot be sent is answered at once
LEMMA FailToSendKeeps ==
    ASSUME IInv, FailToSendRequest
    PROVE  /\ IInv'
           /\ answers'[currentID'] = <<Failure>>
           /\ \A r \in Requests \ {currentID'} : answers'[r] = answers[r]
<1>1. /\ handling'.kind = "none" /\ currentID' = currentID + 1 /\ currentID < Len(Kinds)
      /\ UNCHANGED <<pendingRequests, cancelled>>
  BY DEF FailToSendRequest, IInv, HandlingInv, None
<1>2. currentID \in 0 .. Len(Kinds) /\ Len(Kinds) \in Nat
  BY ClientAssumption DEF IInv, RequestsInv
<1>3. currentID' \in Requests /\ currentID' > currentID
  BY <1>1, <1>2 DEF Requests
<1>4. answers = [r \in Requests |-> answers[r]] /\ answers[currentID'] = <<>>
  BY <1>3 DEF IInv, RequestsInv
<1>5. answers' = [r \in Requests |-> IF r = currentID' THEN <<Failure>> ELSE answers[r]]
  <2>1. answers' = [answers EXCEPT ![currentID'] = Append(<<>>, Failure)]
    BY <1>4 DEF FailToSendRequest, Answer
  <2>2. Append(<<>>, Failure) = <<Failure>>
    BY AppendToNone
  <2> QED BY <2>1, <2>2, <1>3, <1>4
<1>6. /\ DOMAIN pendingRequests' \subseteq 1 .. currentID'
      /\ cancelled' \subseteq 1 .. currentID'
      /\ currentID' \notin DOMAIN pendingRequests' \cup cancelled'
      /\ currentID' \in 0 .. Len(Kinds)
  BY <1>1, <1>2 DEF IInv, RequestsInv
<1>7. ASSUME NEW r \in Requests, r # currentID'
      PROVE  r > currentID' <=> r > currentID
  BY <1>1, <1>2, <1>7 DEF Requests
<1>8. ASSUME NEW r \in Requests
      PROVE  /\ r > currentID' \/ r \in DOMAIN pendingRequests' \cup cancelled' => answers'[r] = <<>>
             /\ ~(r > currentID' \/ r \in DOMAIN pendingRequests' \cup cancelled') =>
                   \E outcome : answers'[r] = <<outcome>>
  <2>1. CASE r = currentID'
    <3>1. ~(r > currentID') /\ answers'[r] = <<Failure>>
      BY <2>1, <1>2, <1>3, <1>5, <1>6
    <3> QED BY <2>1, <3>1, <1>6
  <2>2. CASE r # currentID'
    <3>1. answers'[r] = answers[r]
      BY <2>2, <1>5
    <3> QED BY <2>2, <3>1, <1>1, <1>7 DEF IInv, RequestsInv
  <2> QED BY <2>1, <2>2
<1>9. RequestsInv'
  BY <1>1, <1>5, <1>6, <1>8 DEF IInv, RequestsInv, Requests
<1> QED BY <1>1, <1>3, <1>5, <1>9 DEF IInv, HandlingInv

\* A cancelled request is pending no more
LEMMA CancelKeeps ==
    ASSUME IInv, NEW r \in Requests, CancelRequest(r) PROVE IInv'
<1>1. DOMAIN pendingRequests' = DOMAIN pendingRequests \ {r} /\ r \in DOMAIN pendingRequests
  BY DEF CancelRequest, Erase, Restrict
<1>2. /\ cancelled' = cancelled \cup {r} /\ UNCHANGED <<currentID, answers, handling>>
      /\ handling.kind = "none"
  BY DEF CancelRequest, None
<1> QED BY <1>1, <1>2 DEF IInv, HandlingInv, RequestsInv

\* The answer of one request, as every handler gives it
LEMMA AnswerKeeps ==
    ASSUME RequestsInv, NEW r, r \in DOMAIN pendingRequests, NEW outcome,
           Answer(r, outcome), pendingRequests' = Erase({r}),
           UNCHANGED <<currentID, cancelled>>
    PROVE  RequestsInv'
<1>1. r \in Requests
  BY ClientAssumption DEF RequestsInv, Requests
<1>2. DOMAIN pendingRequests' = DOMAIN pendingRequests \ {r}
  BY DEF Erase, Restrict
<1>3. answers = [q \in Requests |-> answers[q]]
  BY DEF RequestsInv
<1>4. answers' = [q \in Requests |-> IF q = r THEN Append(answers[r], outcome) ELSE answers[q]]
  BY <1>1, <1>3 DEF Answer
<1>5. answers' = [q \in Requests |-> answers'[q]]
  BY <1>4
<1>6. \A q \in {r} : \E o : answers'[q] = Append(answers[q], o)
  BY <1>1, <1>4
<1>7. \A q \in Requests \ {r} : answers'[q] = answers[q]
  BY <1>4
<1> QED BY <1>2, <1>5, <1>6, <1>7, AnsweredAndErased

\* The end of handleAssetGetReply answers the request it began with
LEMMA FinishKeeps == IInv /\ FinishGetReply => IInv'
<1> SUFFICES ASSUME IInv, FinishGetReply PROVE IInv'
  OBVIOUS
<1>1. handling'.kind = "none" /\ UNCHANGED <<currentID, cancelled>>
  BY DEF FinishGetReply, None
<1>2. HandlingInv'
  BY <1>1 DEF HandlingInv
<1>3. RequestsInv'
  <2>1. CASE messages[handling.message].isComplete
    <3>1. /\ Answer(handling.request, Outcome(handling.message))
          /\ pendingRequests' = Erase({handling.request})
          /\ handling.request \in DOMAIN pendingRequests
      BY <2>1 DEF FinishGetReply, IInv, HandlingInv
    <3> QED BY <3>1, <1>1, AnswerKeeps DEF IInv
  <2>2. CASE ~messages[handling.message].isComplete
    <3>1. UNCHANGED <<answers, pendingRequests>>
      BY <2>2 DEF FinishGetReply
    <3> QED BY <3>1, <1>1 DEF IInv, RequestsInv
  <2> QED BY <2>1, <2>2
<1> QED BY <1>2, <1>3 DEF IInv

\* handleNodeKilled and handleNodeClientConnectionReset answer what they erase
LEMMA FailKeeps ==
    ASSUME RequestsInv, NEW rs \in SUBSET DOMAIN pendingRequests, FailRequests(rs),
           UNCHANGED <<currentID, cancelled>>
    PROVE  RequestsInv'
<1>1. rs \subseteq Requests
  BY ClientAssumption DEF RequestsInv, Requests
<1>2. DOMAIN pendingRequests' = DOMAIN pendingRequests \ rs
  BY DEF FailRequests, Erase, Restrict
<1>3. answers' = [r \in Requests |-> IF r \in rs THEN Append(answers[r], Failure) ELSE answers[r]]
  BY DEF FailRequests
<1>4. answers' = [r \in Requests |-> answers'[r]]
  BY <1>3
<1>5. \A r \in rs : \E o : answers'[r] = Append(answers[r], o)
  BY <1>1, <1>3
<1>6. \A r \in Requests \ rs : answers'[r] = answers[r]
  BY <1>3
<1> QED BY <1>2, <1>4, <1>5, <1>6, AnsweredAndErased

\* Each event answers requests that are pending
LEMMA EventKeeps == IInv /\ HandleEvent => IInv'
<1> SUFFICES ASSUME IInv, HandleEvent PROVE IInv'
  OBVIOUS
<1> DEFINE e == Head(events)
           ofNode == {r \in DOMAIN pendingRequests : IsPendingAt(r, e.node)}
<1>1. handling.kind = "none" /\ UNCHANGED <<currentID, cancelled>>
  BY DEF HandleEvent, None
<1>2. \/ BeginGetReply(e)
      \/ HandleReply(e)
      \/ HandleCompleteCallback(e)
      \/ FailRequests(ofNode)
      \/ FailRequests({r \in ofNode : Kinds[r] # "upload"})
  BY DEF HandleEvent
<1> HIDE DEF e, ofNode
<1>3. CASE BeginGetReply(e)
  <2>1. CASE IsPendingAt(replyTo[e.message], e.node)
    <3>1. /\ DOMAIN pendingRequests' = DOMAIN pendingRequests /\ answers' = answers
          /\ handling' = [kind |-> "reply", message |-> e.message, request |-> replyTo[e.message]]
          /\ replyTo[e.message] \in DOMAIN pendingRequests
      BY <1>3, <2>1 DEF BeginGetReply, IsPendingAt
    <3>2. handling'.kind = "reply" /\ handling'.request \in DOMAIN pendingRequests'
      BY <3>1
    <3> QED BY <3>1, <3>2, <1>1 DEF IInv, HandlingInv, RequestsInv
  <2>2. CASE ~IsPendingAt(replyTo[e.message], e.node)
    <3>1. UNCHANGED <<pendingRequests, handling, answers>>
      BY <1>3, <2>2 DEF BeginGetReply
    <3> QED BY <3>1, <1>1 DEF IInv, HandlingInv, RequestsInv
  <2> QED BY <2>1, <2>2
<1>4. CASE HandleReply(e)
  <2>1. handling' = handling
    BY <1>4 DEF HandleReply
  <2>2. CASE IsPendingAt(replyTo[e.message], e.node)
    <3>1. /\ Answer(replyTo[e.message], Outcome(e.message))
          /\ pendingRequests' = Erase({replyTo[e.message]})
          /\ replyTo[e.message] \in DOMAIN pendingRequests
      BY <1>4, <2>2 DEF HandleReply, IsPendingAt
    <3> QED BY <3>1, <2>1, <1>1, AnswerKeeps DEF IInv, HandlingInv
  <2>3. CASE ~IsPendingAt(replyTo[e.message], e.node)
    <3>1. UNCHANGED <<pendingRequests, answers>>
      BY <1>4, <2>3 DEF HandleReply
    <3> QED BY <3>1, <2>1, <1>1 DEF IInv, HandlingInv, RequestsInv
  <2> QED BY <2>2, <2>3
<1>5. CASE HandleCompleteCallback(e)
  <2>1. handling' = handling
    BY <1>5 DEF HandleCompleteCallback
  <2> DEFINE r == replyTo[e.message]
             message == pendingRequests[r].message
  <2>2. CASE IsPendingAt(r, e.node) /\ message # NoMessage
    <3>1. /\ Answer(r, IF messages[message].failed THEN Failure ELSE Outcome(message))
          /\ pendingRequests' = Erase({r})
          /\ r \in DOMAIN pendingRequests
      BY <1>5, <2>2 DEF HandleCompleteCallback, IsPendingAt
    <3> QED BY <3>1, <2>1, <1>1, AnswerKeeps DEF IInv, HandlingInv
  <2>3. CASE ~(IsPendingAt(r, e.node) /\ message # NoMessage)
    <3>1. UNCHANGED <<pendingRequests, answers>>
      BY <1>5, <2>3 DEF HandleCompleteCallback
    <3> QED BY <3>1, <2>1, <1>1 DEF IInv, HandlingInv, RequestsInv
  <2> QED BY <2>2, <2>3
<1>6. ASSUME NEW rs \in SUBSET DOMAIN pendingRequests, FailRequests(rs) PROVE IInv'
  <2>1. handling' = handling
    BY <1>6 DEF FailRequests
  <2> QED BY <2>1, <1>1, <1>6, FailKeeps DEF IInv, HandlingInv
<1>7. CASE FailRequests(ofNode)
  BY <1>6, <1>7 DEF ofNode
<1>8. CASE FailRequests({r \in ofNode : Kinds[r] # "upload"})
  BY <1>6, <1>8 DEF ofNode
<1> QED BY <1>2, <1>3, <1>4, <1>5, <1>7, <1>8

\* Every step keeps the invariant of the pending requests
LEMMA NextKeeps == IInv /\ [ClientNext]_clientVars => IInv'
<1> SUFFICES ASSUME IInv, [ClientNext]_clientVars PROVE IInv'
  OBVIOUS
<1>1. ASSUME UNCHANGED askingVars PROVE IInv'
  BY <1>1 DEF askingVars, IInv, HandlingInv, RequestsInv
<1>2. CASE \E i \in Offsets : Receive(i)
  BY <1>1, <1>2 DEF Receive
<1>3. CASE RequestHandshakeOfNode
  BY <1>1, <1>3 DEF RequestHandshakeOfNode
<1>4. CASE \E initial \in Initials : Handshake(initial)
  BY <1>1, <1>4 DEF Handshake
<1>5. CASE KillNode
  BY <1>1, <1>5 DEF KillNode
<1>6. CASE AddNode
  BY <1>1, <1>6 DEF AddNode
<1>7. CASE Call
  BY <1>1, <1>7 DEF Call
<1>8. CASE FindAssetServer
  <2>1. /\ handling' = [kind |-> "sending", node |-> node] /\ currentID < Len(Kinds)
        /\ UNCHANGED <<pendingRequests, currentID, answers, cancelled>>
    BY <1>8 DEF FindAssetServer
  <2>2. handling'.kind = "sending"
    BY <2>1
  <2> QED BY <2>1, <2>2 DEF IInv, HandlingInv, RequestsInv
<1>9. CASE SendRequest \/ FailToSendRequest
  BY <1>9, SendKeeps, FailToSendKeeps
<1>10. CASE \E r \in Requests : CancelRequest(r)
  BY <1>10, CancelKeeps
<1>11. CASE FinishGetReply
  BY <1>11, FinishKeeps
<1>12. CASE HandleEvent
  BY <1>12, EventKeeps
<1>13. CASE UNCHANGED clientVars
  BY <1>1, <1>13 DEF clientVars, askingVars
<1> QED BY <1>2, <1>3, <1>4, <1>5, <1>6, <1>7, <1>8, <1>9, <1>10, <1>11, <1>12, <1>13 DEF ClientNext

\* which has each request answered once, or not yet
LEMMA IInvImpliesAnsweredOnce == IInv => AnsweredOnce
<1> SUFFICES ASSUME IInv, NEW r \in Requests
             PROVE  Len(answers[r]) =
                       IF r > currentID \/ r \in DOMAIN pendingRequests \cup cancelled THEN 0 ELSE 1
  BY DEF AnsweredOnce
<1>1. CASE r > currentID \/ r \in DOMAIN pendingRequests \cup cancelled
  BY <1>1, AppendToNone DEF IInv, RequestsInv
<1>2. CASE ~(r > currentID \/ r \in DOMAIN pendingRequests \cup cancelled)
  BY <1>2, AppendToNone DEF IInv, RequestsInv
<1> QED BY <1>1, <1>2

\* The invariant of the pending requests holds in every reachable state
LEMMA RequestsInvariance == ClientSpec => []IInv
<1>1. ClientInit => IInv
  BY InitIInv
<1>2. IInv /\ [ClientNext]_clientVars => IInv'
  BY NextKeeps
<1> QED BY <1>1, <1>2, PTL DEF ClientSpec

(***************************************************************************)
(* Whatever comes together of a reply, the completed signal posted before  *)
(* disconnect, a failure of its message, a reset, the death of the Node    *)
(* and a cancel: AssetClient calls the callback of a request exactly once, *)
(* unless the request is still pending or was cancelled.                   *)
(***************************************************************************)
THEOREM AnsweredOnceAlways == ClientSpec => []AnsweredOnce
<1>1. ClientSpec => []IInv
  BY RequestsInvariance
<1>2. IInv => AnsweredOnce
  BY IInvImpliesAnsweredOnce
<1> QED BY <1>1, <1>2, PTL

-----------------------------------------------------------------------------
(***************************************************************************)
(* A success is the whole reply: what PacketReceiver has of every message  *)
(* against what Connection has handed over, through its queued calls.      *)
(***************************************************************************)
\* A message that has been made and is known to answer a request
Known(message) == message \in DOMAIN messages /\ message \in DOMAIN replyTo

\* A received message's data are its packets in order, all of one Connection
DataInv ==
    \A message \in DOMAIN messages :
        LET data == messages[message].data
        IN  /\ messages[message] = [data |-> data, isComplete |-> messages[message].isComplete,
                                    failed |-> messages[message].failed]
            /\ Len(data) \in Nat /\ data = [k \in 1 .. Len(data) |-> <<message[2], k - 1>>]

\* What PacketReceiver has of a message of which it was given the first packets
PacketReceiverHas(m, handed) ==
    IF m \in DOMAIN pendingMessages
    THEN /\ pendingMessages[m] = Message(m) /\ Known(Message(m))
         /\ Len(messages[Message(m)].data) = handed
         /\ 0 < handed /\ handed < NumPackets(m)
    ELSE handed = 0 \/ handed = NumPackets(m)

IsFailing(m) == \E k \in 1 .. Len(calls) : calls[k].call = "failed" /\ calls[k].msg = m

\* The last q calls bring the last q parts handed over of message w, and
\* PacketReceiver has got all before them, or is yet to hear of a failure
CallsHold(q, w) ==
    /\ \A k \in 1 .. Len(calls) - q : calls[k].call # "packet"
    /\ q > 0 => /\ w \in Messages /\ q <= Len(delivered[w]) /\ Message(w) \in DOMAIN replyTo
                /\ \A j \in 1 .. q :
                    calls[Len(calls) - q + j] =
                        [call |-> "packet", msg |-> w, part |-> Len(delivered[w]) - q + j - 1]
    /\ \A m \in Messages : IsFailing(m) => q = 0 /\ Len(delivered[m]) = 0
    /\ \A m \in Messages :
        IsFailing(m) \/ PacketReceiverHas(m, Len(delivered[m]) - IF m = w THEN q ELSE 0)

CallsInv ==
    /\ DOMAIN pendingMessages \subseteq Messages
    /\ \E q \in 0 .. Len(calls) : \E w \in Messages \cup {0} : CallsHold(q, w)

\* What is posted and what is pending of a reply concerns a known message
RepliesInv ==
    /\ \A k \in 1 .. Len(calls) :
        /\ calls[k].call = "deliver" => Known(calls[k].message)
        /\ calls[k].call = "signal" => calls[k].event.event # "reply"
    /\ \A k \in 1 .. Len(events) : events[k].event = "reply" => Known(events[k].message)
    /\ handling.kind = "reply" =>
        Known(handling.message) /\ replyTo[handling.message] = handling.request
    /\ \A r \in DOMAIN pendingRequests :
        LET message == pendingRequests[r].message
        IN  /\ pendingRequests[r] = [node |-> pendingRequests[r].node, message |-> message]
            /\ message # NoMessage => Known(message) /\ replyTo[message] = r

\* A sequence, whatever its elements
Plain(s) == Len(s) \in Nat /\ s = [k \in 1 .. Len(s) |-> s[k]]

WholeInv ==
    /\ Plain(calls) /\ Plain(events) /\ resets \in Nat
    /\ DataInv /\ CallsInv /\ RepliesInv
    /\ SuccessIsWhole

-----------------------------------------------------------------------------
\* so it is a sequence of its elements
LEMMA PlainIsSeq ==
  ASSUME NEW s, Plain(s) PROVE s \in Seq({s[k] : k \in 1 .. Len(s)})
BY SeqDef DEF Plain

\* A function on 1 .. n is a sequence
LEMMA FunctionIsPlain ==
  ASSUME NEW n \in Nat, NEW s, s = [k \in 1 .. n |-> s[k]]
  PROVE  Plain(s) /\ Len(s) = n
<1> DEFINE S == {s[k] : k \in 1 .. n}
<1>1. s \in [1 .. n -> S]
  OBVIOUS
<1>2. s \in Seq(S)
  BY <1>1, SeqDef
<1>3. Len(s) \in Nat /\ DOMAIN s = 1 .. Len(s) /\ DOMAIN s = 1 .. n
  BY <1>1, <1>2, LenProperties
<1>4. Len(s) = n
  <2> HIDE DEF S
  <2> QED BY <1>3
<1> QED BY <1>4 DEF Plain

\* Two sequences one behind the other
LEMMA ConcatPlain ==
  ASSUME NEW s, NEW t, Plain(s), Plain(t)
  PROVE  /\ Plain(s \o t) /\ Len(s \o t) = Len(s) + Len(t)
         /\ \A k \in 1 .. Len(s) + Len(t) : (s \o t)[k] = IF k <= Len(s) THEN s[k] ELSE t[k - Len(s)]
<1> DEFINE S == {s[k] : k \in 1 .. Len(s)} \cup {t[k] : k \in 1 .. Len(t)}
           u == s \o t
<1>1. s \in Seq(S) /\ t \in Seq(S)
  <2>1. s \in Seq({s[k] : k \in 1 .. Len(s)}) /\ t \in Seq({t[k] : k \in 1 .. Len(t)})
    BY PlainIsSeq
  <2> QED BY <2>1, SeqMonotonic
<1> HIDE DEF S
<1>2. /\ u \in Seq(S) /\ Len(u) = Len(s) + Len(t)
      /\ \A k \in 1 .. Len(s) + Len(t) : u[k] = IF k <= Len(s) THEN s[k] ELSE t[k - Len(s)]
  BY <1>1, ConcatProperties
<1>3. Plain(u)
  <2>1. Len(u) \in Nat /\ u \in [1 .. Len(u) -> S]
    BY <1>2, LenProperties
  <2> HIDE DEF u
  <2> QED BY <2>1 DEF Plain
<1> QED BY <1>2, <1>3

\* A sequence without its first element
LEMMA TailPlain ==
  ASSUME NEW s, Plain(s), s # <<>>
  PROVE  /\ Plain(Tail(s)) /\ Len(Tail(s)) = Len(s) - 1 /\ Len(s) > 0 /\ Head(s) = s[1]
         /\ \A k \in 1 .. Len(s) - 1 : Tail(s)[k] = s[k + 1]
<1> DEFINE S == {s[k] : k \in 1 .. Len(s)}
           u == Tail(s)
<1>1. s \in Seq(S)
  BY PlainIsSeq
<1> HIDE DEF S
<1>2. /\ u \in Seq(S) /\ Len(u) = Len(s) - 1 /\ Len(s) \in Nat
      /\ \A k \in 1 .. Len(u) : u[k] = s[k + 1]
  BY <1>1, HeadTailProperties, LenProperties
<1>3. Head(s) = s[1]
  BY <1>1
<1>4. Plain(u)
  <2>1. Len(u) \in Nat /\ u \in [1 .. Len(u) -> S]
    BY <1>2, LenProperties
  <2> HIDE DEF u
  <2> QED BY <2>1 DEF Plain
<1>5. Len(s) > 0
  BY <1>1, EmptySeq
<1> QED BY <1>2, <1>3, <1>4, <1>5

\* The sequences of one element and of none
LEMMA OnePlain ==
  /\ \A e : Plain(<<e>>) /\ Len(<<e>>) = 1 /\ <<e>>[1] = e
  /\ Plain(<<>>) /\ Len(<<>>) = 0
<1>1. ASSUME NEW e PROVE Plain(<<e>>) /\ Len(<<e>>) = 1 /\ <<e>>[1] = e
  <2>1. <<e>> = [k \in 1 .. 1 |-> <<e>>[k]] /\ <<e>>[1] = e
    OBVIOUS
  <2> QED BY <2>1, FunctionIsPlain
<1>2. Plain(<<>>) /\ Len(<<>>) = 0
  BY EmptySeq DEF Plain
<1> QED BY <1>1, <1>2

\* Every message that waits for a part fails
LEMMA FailuresOfAll ==
  ASSUME DOMAIN pendingReceivedMessages \subseteq Messages
  PROVE  /\ Plain(Failures)
         /\ \A k \in 1 .. Len(Failures) : Failures[k].call = "failed"
         /\ \A m \in DOMAIN pendingReceivedMessages :
                \E k \in 1 .. Len(Failures) : Failures[k].call = "failed" /\ Failures[k].msg = m
<1> DEFINE ms == DOMAIN pendingReceivedMessages
           below(m) == {before \in ms : before < m}
           rank(m) == Cardinality(below(m))
           fs == Failures
<1>1. IsFiniteSet(ms) /\ ms \subseteq Nat
  <2>1. IsFiniteSet(Offsets)
    BY PartFacts, FS_Interval DEF Offsets
  <2> DEFINE f == [i \in Offsets |-> Plan[i].msg]
  <2>2. f \in Surjection(Offsets, Messages)
    BY DEF Surjection, Messages
  <2> HIDE DEF f
  <2>3. IsFiniteSet(Messages)
    BY <2>1, <2>2, FS_Surjection
  <2>4. Messages \subseteq Nat
    BY PartFacts DEF Messages, PartPacket
  <2> QED BY <2>3, <2>4, FS_Subset
<1> HIDE DEF ms
<1>2. ASSUME NEW m \in ms
      PROVE  IsFiniteSet(below(m)) /\ rank(m) \in Nat /\ rank(m) < Cardinality(ms) /\ Cardinality(ms) \in Nat
  <2>1. below(m) \in SUBSET ms /\ m \notin below(m)
    BY <1>1
  <2> HIDE DEF below
  <2>2. /\ IsFiniteSet(below(m)) /\ Cardinality(below(m)) <= Cardinality(ms)
        /\ Cardinality(ms) = Cardinality(below(m)) => ms = below(m)
    BY <2>1, <1>1, FS_Subset
  <2>3. Cardinality(below(m)) \in Nat /\ Cardinality(ms) \in Nat
    BY <2>2, <1>1, FS_CardinalityType
  <2>4. Cardinality(ms) # Cardinality(below(m))
    BY <2>1, <2>2
  <2> QED BY <2>2, <2>3, <2>4
<1>3. ASSUME NEW m \in ms, NEW o \in ms, m < o PROVE rank(m) # rank(o)
  <2>1. below(m) \in SUBSET below(o) /\ m \in below(o) /\ m \notin below(m)
    <3>1. \A x \in ms : x \in Nat
      BY <1>1
    <3>2. ASSUME NEW x \in below(m) PROVE x \in below(o)
      <4>1. x \in ms /\ x < m /\ x \in Nat /\ m \in Nat /\ o \in Nat
        BY <3>1
      <4> QED BY <4>1, <1>3
    <3>3. m \in below(o) /\ m \notin below(m)
      BY <3>1, <1>3
    <3> HIDE DEF below
    <3> QED BY <3>2, <3>3
  <2>2. IsFiniteSet(below(o))
    BY <1>2
  <2> HIDE DEF below
  <2>3. Cardinality(below(o)) = Cardinality(below(m)) => below(o) = below(m)
    BY <2>1, <2>2, FS_Subset
  <2> QED BY <2>1, <2>3
<1>4. \A m, o \in ms : rank(m) = rank(o) => m = o
  <2> SUFFICES ASSUME NEW m \in ms, NEW o \in ms, m # o PROVE rank(m) # rank(o)
    OBVIOUS
  <2>1. m < o \/ o < m
    BY <1>1
  <2> QED BY <2>1, <1>3
<1>5. fs = [k \in 1 .. Cardinality(ms) |->
              [call |-> "failed", msg |-> CHOOSE m \in ms : rank(m) = k - 1]]
  BY DEF Failures, ms
<1>6. Cardinality(ms) \in Nat
  BY <1>1, FS_CardinalityType
<1> HIDE DEF fs, below
<1>7. Plain(fs) /\ Len(fs) = Cardinality(ms)
  BY <1>5, <1>6, FunctionIsPlain
<1>8. ASSUME NEW m \in ms PROVE \E k \in 1 .. Len(fs) : fs[k].call = "failed" /\ fs[k].msg = m
  <2> DEFINE k == rank(m) + 1
  <2>1. k \in 1 .. Len(fs) /\ k - 1 = rank(m)
    BY <1>2, <1>7
  <2> HIDE DEF k
  <2>2. (CHOOSE o \in ms : rank(o) = k - 1) = m
    BY <2>1, <1>4
  <2>3. fs[k].call = "failed" /\ fs[k].msg = m
    BY <2>1, <2>2, <1>5, <1>7
  <2> QED BY <2>1, <2>3
<1>9. \A k \in 1 .. Len(fs) : fs[k].call = "failed"
  BY <1>5, <1>7
<1> QED BY <1>7, <1>8, <1>9 DEF fs, ms
\* What the order of delivery says of the parts handed over
LEMMA DeliveredFacts ==
  ASSUME OrderInv, NEW m \in Messages
  PROVE  /\ Len(delivered[m]) \in Nat /\ NumPackets(m) \in Nat
         /\ Len(delivered[m]) <= NumPackets(m)
         /\ \A k \in 1 .. Len(delivered[m]) : delivered[m][k] = k - 1
         /\ Len(delivered[m]) > 0 /\ Len(delivered[m]) < NumPackets(m)
              => m \in DOMAIN pendingReceivedMessages
<1> DEFINE n == Len(delivered[m])
<1>1. /\ n \in Nat /\ delivered[m] = [k \in 1 .. n |-> k - 1]
      /\ 0 .. n - 1 \subseteq Arrived(m)
      /\ m \notin DOMAIN pendingReceivedMessages => Arrived(m) = {} \/ n = Cardinality(PartsOf(m))
  BY DEF OrderInv, MessageInv
<1>2. Cardinality(PartsOf(m)) \in Nat
  BY PartFacts
<1>3. Arrived(m) \subseteq 0 .. Cardinality(PartsOf(m)) - 1
  BY PartFacts, PlanAssumption DEF Arrived
<1> HIDE DEF n
<1>4. n <= Cardinality(PartsOf(m))
  <2>1. CASE n = 0
    BY <2>1, <1>2
  <2>2. CASE n > 0
    <3>1. n - 1 \in 0 .. Cardinality(PartsOf(m)) - 1
      BY <2>2, <1>1, <1>3
    <3> QED BY <3>1, <1>1, <1>2
  <2> QED BY <2>1, <2>2, <1>1
<1>5. n > 0 => Arrived(m) # {}
  BY <1>1
<1>6. \A k \in 1 .. n : delivered[m][k] = k - 1
  BY <1>1
<1> QED BY <1>1, <1>2, <1>4, <1>5, <1>6 DEF NumPackets, n

\* and of those handed over after a step
LEMMA DeliveredNext ==
  OrderInv' => \A m \in Messages :
    Len(delivered'[m]) \in Nat /\ \A k \in 1 .. Len(delivered'[m]) : delivered'[m][k] = k - 1
<1> DEFINE Facts == \A m \in Messages :
             Len(delivered[m]) \in Nat /\ \A k \in 1 .. Len(delivered[m]) : delivered[m][k] = k - 1
<1>1. OrderInv => Facts
  BY DeliveredFacts
<1>2. OrderInv' => Facts'
  BY <1>1, PTL
<1>3. Messages' = Messages
  BY DEF Messages, Offsets
<1> QED BY <1>2, <1>3

\* A packet adds to its own message only
LEMMA ReceivedAdds ==
  ASSUME OrderInv, OrderInv', NEW i \in Offsets,
         accepted' \in {accepted, accepted \cup {i}}
  PROVE  /\ Len(delivered[Plan[i].msg]) <= Len(delivered'[Plan[i].msg])
         /\ \A m \in Messages : m # Plan[i].msg => Len(delivered'[m]) = Len(delivered[m])
<1>0. /\ PartsOf(Plan[i].msg)' = PartsOf(Plan[i].msg) /\ Plan[i].msg \in Messages
      /\ \A m : PartsOf(m)' = PartsOf(m)
      /\ Messages' = Messages
  BY PartFacts DEF PartsOf, Messages, Offsets
<1>1. ASSUME NEW m \in Messages
      PROVE  /\ Arrived(m) \subseteq Arrived(m)'
             /\ m # Plan[i].msg => Arrived(m)' = Arrived(m)
  BY <1>0 DEF Arrived, PartsOf
<1>2. ASSUME NEW m \in Messages
      PROVE  /\ Len(delivered[m]) \in Nat /\ 0 .. Len(delivered[m]) - 1 \subseteq Arrived(m)
             /\ Len(delivered[m]) \notin Arrived(m)
  BY DEF OrderInv, MessageInv
<1>3. ASSUME NEW m \in Messages
      PROVE  /\ Len(delivered'[m]) \in Nat /\ 0 .. Len(delivered'[m]) - 1 \subseteq Arrived(m)'
             /\ Len(delivered'[m]) \notin Arrived(m)'
  <2>1. MessageInv(m)'
    BY <1>0 DEF OrderInv
  <2> QED BY <2>1 DEF MessageInv
<1>4. ASSUME NEW n \in Nat, NEW o \in Nat, NEW A, NEW B, A \subseteq B,
             0 .. n - 1 \subseteq A, o \notin B
      PROVE  n <= o
  BY <1>4
<1>5. \A m \in Messages : Len(delivered[m]) <= Len(delivered'[m])
  BY <1>1, <1>2, <1>3, <1>4
<1>6. ASSUME NEW m \in Messages, m # Plan[i].msg PROVE Len(delivered'[m]) = Len(delivered[m])
  <2>1. Len(delivered'[m]) <= Len(delivered[m])
    BY <1>1, <1>2, <1>3, <1>4, <1>6
  <2> QED BY <2>1, <1>2, <1>3, <1>5
<1> QED BY <1>0, <1>5, <1>6

\* Between two events PacketReceiver has all that was handed over
LEMMA WhenIdle ==
  ASSUME OrderInv, CallsInv, calls = <<>>, NEW m \in Messages
  PROVE  PacketReceiverHas(m, Len(delivered[m]))
<1>1. Len(calls) = 0
  BY OnePlain
<1>2. PICK q \in 0 .. Len(calls) : \E w \in Messages \cup {0} : CallsHold(q, w)
  BY DEF CallsInv
<1>3. PICK w \in Messages \cup {0} : CallsHold(q, w)
  BY <1>2
<1>4. q = 0 /\ ~IsFailing(m)
  BY <1>1 DEF IsFailing
<1>5. PacketReceiverHas(m, Len(delivered[m]) - IF m = w THEN q ELSE 0)
  BY <1>3, <1>4 DEF CallsHold
<1>6. (Len(delivered[m]) - IF m = w THEN q ELSE 0) = Len(delivered[m])
  BY <1>4, DeliveredFacts
<1> QED BY <1>5, <1>6

\* Maps only grow
Grows ==
    /\ DOMAIN messages \subseteq DOMAIN messages' /\ DOMAIN replyTo \subseteq DOMAIN replyTo'
    /\ \A message \in DOMAIN replyTo : replyTo'[message] = replyTo[message]

\* What PacketReceiver has does not change by what others do
LEMMA HasKept ==
  ASSUME Grows, UNCHANGED <<messages, pendingMessages, resets>>, NEW m, NEW handed,
         PacketReceiverHas(m, handed)
  PROVE  PacketReceiverHas(m, handed)'
<1>1. Message(m)' = Message(m) /\ NumPackets(m)' = NumPackets(m)
  BY DEF Message, NumPackets, PartsOf, Offsets
<1>2. Known(Message(m)) => Known(Message(m))'
  BY <1>1 DEF Known, Grows
<1> QED BY <1>1, <1>2 DEF PacketReceiverHas

\* The calls of a step that makes none and hands over nothing
LEMMA CallsKept ==
  ASSUME CallsInv, Grows, UNCHANGED <<calls, delivered, resets, messages, pendingMessages>>
  PROVE  CallsInv'
<1>1. PICK q \in 0 .. Len(calls) : \E w \in Messages \cup {0} : CallsHold(q, w)
  BY DEF CallsInv
<1>2. PICK w \in Messages \cup {0} : CallsHold(q, w)
  BY <1>1
<1>3. Messages' = Messages /\ (\A m : IsFailing(m)' <=> IsFailing(m)) /\ Message(w)' = Message(w)
  BY DEF Messages, Offsets, IsFailing, Message
<1>4. Message(w) \in DOMAIN replyTo => Message(w)' \in DOMAIN replyTo'
  BY <1>3 DEF Grows
<1>5. ASSUME NEW m \in Messages
      PROVE  \/ IsFailing(m)'
             \/ PacketReceiverHas(m, Len(delivered[m]) - IF m = w THEN q ELSE 0)'
  BY <1>2, <1>3, HasKept DEF CallsHold
<1>6. CallsHold(q, w)'
  BY <1>2, <1>3, <1>4, <1>5 DEF CallsHold
<1> QED BY <1>3, <1>6 DEF CallsInv

\* The calls of a packet's Connection
LEMMA ReceiveCalls ==
  ASSUME OrderInv, OrderInv', CallsInv, NEW i \in Offsets, Receive(i)
  PROVE  /\ CallsInv' /\ Plain(calls') /\ Grows
         /\ \A k \in 1 .. Len(calls') : calls'[k].call = "packet"
<1> DEFINE m == Plan[i].msg
           old == Len(delivered[m])
           new == Len(delivered'[m])
<1>1. /\ calls = <<>> /\ UNCHANGED <<pendingMessages, messages, resets>>
      /\ accepted' \in {accepted, accepted \cup {i}}
  BY DEF Receive, ReceivePacket
<1>2. /\ m \in Messages /\ Messages' = Messages
      /\ \A x : Message(x)' = Message(x)
  BY <1>1, PartFacts DEF Messages, Offsets, Message
<1>3. Grows /\ Message(m) \in DOMAIN replyTo'
  <2>1. CASE Message(m) \in DOMAIN replyTo
    BY <2>1, <1>1 DEF Receive, Grows
  <2>2. CASE Message(m) \notin DOMAIN replyTo
    <3>1. PICK r : replyTo' = Put(replyTo, Message(m), r)
      BY <2>2 DEF Receive
    <3> QED BY <3>1, <2>2, <1>1 DEF Grows, Put
  <2> QED BY <2>1, <2>2
<1>4. /\ old \in Nat /\ new \in Nat /\ old <= new
      /\ \A k \in 1 .. new : delivered'[m][k] = k - 1
      /\ \A x \in Messages : Len(delivered[x]) \in Nat
      /\ \A x \in Messages : x # m => Len(delivered'[x]) = Len(delivered[x])
  <2>1. \A x \in Messages : Len(delivered[x]) \in Nat
    BY DeliveredFacts
  <2>2. new \in Nat /\ \A k \in 1 .. new : delivered'[m][k] = k - 1
    BY <1>2, DeliveredNext
  <2>3. old <= new /\ \A x \in Messages : x # m => Len(delivered'[x]) = Len(delivered[x])
    BY <1>1, ReceivedAdds
  <2> QED BY <2>1, <2>2, <2>3, <1>2
<1>0. PICK q \in Nat : q = new - old
  <2> HIDE DEF new, old
  <2> QED BY <1>4
<1>5. calls' = [k \in 1 .. q |-> [call |-> "packet", msg |-> m, part |-> delivered'[m][old + k]]]
  BY <1>0 DEF Receive
<1>6. \A k \in 1 .. q : calls'[k] = [call |-> "packet", msg |-> m, part |-> new - q + k - 1]
  <2> SUFFICES ASSUME NEW k \in 1 .. q
               PROVE  calls'[k] = [call |-> "packet", msg |-> m, part |-> new - q + k - 1]
    OBVIOUS
  <2> HIDE DEF m, old, new
  <2>1. old + k \in 1 .. new /\ new - q + k - 1 = old + k - 1
    BY <1>0, <1>4
  <2>2. delivered'[m][old + k] = new - q + k - 1
    BY <2>1, <1>4
  <2> QED BY <2>2, <1>5
<1>7. q \in Nat /\ q <= new /\ Plain(calls') /\ Len(calls') = q
  <2> HIDE DEF m, old, new
  <2>1. q <= new
    BY <1>0, <1>4
  <2> QED BY <2>1, <1>5, FunctionIsPlain
<1>c. \A k \in 1 .. Len(calls') : calls'[k].call = "packet"
  <2> HIDE DEF m, new
  <2> QED BY <1>6, <1>7
<1>8. \A x : ~IsFailing(x)'
  BY <1>c DEF IsFailing
<1>9. ASSUME NEW x \in Messages
      PROVE  PacketReceiverHas(x, Len(delivered[x]) - IF x = m THEN q ELSE 0)'
  <2>1. PacketReceiverHas(x, Len(delivered[x]))
    BY <1>1, WhenIdle
  <2>2. Len(delivered'[x]) - (IF x = m THEN q ELSE 0) = Len(delivered[x])
    <3>1. CASE x = m
      <4>1. new - q = old
        <5> HIDE DEF new, old
        <5> QED BY <1>0, <1>4
      <4> QED BY <3>1, <4>1
    <3>2. CASE x # m
      BY <3>2, <1>4
    <3> QED BY <3>1, <3>2
  <2>3. PacketReceiverHas(x, Len(delivered'[x]) - (IF x = m THEN q ELSE 0))
    BY <2>1, <2>2
  <2> QED BY <2>3, <1>1, <1>3, HasKept
<1>10. CallsHold(q, m)'
  <2>1. \A k \in 1 .. Len(calls') - q : calls'[k].call # "packet"
    BY <1>7
  <2>2. \A j \in 1 .. q : calls'[Len(calls') - q + j] =
            [call |-> "packet", msg |-> m, part |-> new - q + j - 1]
    <3> HIDE DEF new, m
    <3>1. \A j \in 1 .. q : Len(calls') - q + j = j
      BY <1>7
    <3> QED BY <3>1, <1>6
  <2>3. Message(m)' \in DOMAIN replyTo'
    BY <1>2, <1>3
  <2> QED BY <2>1, <2>2, <2>3, <1>2, <1>7, <1>8, <1>9 DEF CallsHold
<1>11. DOMAIN pendingMessages' \subseteq Messages'
  BY <1>1, <1>2 DEF CallsInv
<1>12. q \in 0 .. Len(calls')
  BY <1>7
<1>13. CallsInv'
  BY <1>2, <1>10, <1>11, <1>12 DEF CallsInv
<1> QED BY <1>3, <1>7, <1>13, <1>c

\* The calls when the receive state is reset
LEMMA FailingCalls ==
  ASSUME OrderInv, CallsInv, calls = <<>>, Plain(calls'), UNCHANGED <<messages, pendingMessages>>,
         delivered' = [m \in Messages |-> <<>>],
         \A k \in 1 .. Len(calls') : calls'[k].call # "packet",
         \A m \in DOMAIN pendingReceivedMessages :
            \E k \in 1 .. Len(calls') : calls'[k].call = "failed" /\ calls'[k].msg = m
  PROVE  CallsInv'
<1>1. Messages' = Messages /\ \A m \in Messages : Len(delivered'[m]) = 0
  BY OnePlain DEF Messages, Offsets
<1>2. ASSUME NEW m \in Messages
      PROVE  IsFailing(m)' \/ PacketReceiverHas(m, Len(delivered[m]) - IF m = 0 THEN 0 ELSE 0)'
  <2>1. CASE m \in DOMAIN pendingMessages
    <3>1. 0 < Len(delivered[m]) /\ Len(delivered[m]) < NumPackets(m)
      BY <2>1, WhenIdle DEF PacketReceiverHas
    <3>2. m \in DOMAIN pendingReceivedMessages
      BY <3>1, DeliveredFacts
    <3> QED BY <3>2 DEF IsFailing
  <2>2. CASE m \notin DOMAIN pendingMessages
    <3>1. Len(delivered'[m]) - (IF m = 0 THEN 0 ELSE 0) = 0
      BY <1>1
    <3> QED BY <3>1, <2>2 DEF PacketReceiverHas
  <2> QED BY <2>1, <2>2
<1>3. Len(calls') \in Nat
  BY DEF Plain
<1>4. CallsHold(0, 0)'
  <2>1. \A k \in 1 .. Len(calls') - 0 : calls'[k].call # "packet"
    BY <1>3
  <2> QED BY <2>1, <1>1, <1>2 DEF CallsHold
<1>5. 0 \in 0 .. Len(calls')
  BY <1>3
<1> QED BY <1>1, <1>4, <1>5 DEF CallsInv

\* A sequence with an element more
LEMMA AppendPlain ==
  ASSUME NEW s, Plain(s), NEW e
  PROVE  /\ Len(Append(s, e)) = Len(s) + 1
         /\ Append(s, e) = [k \in 1 .. Len(s) + 1 |-> IF k = Len(s) + 1 THEN e ELSE s[k]]
<1> DEFINE S == {s[k] : k \in 1 .. Len(s)} \cup {e}
           u == Append(s, e)
<1>1. s \in Seq(S)
  <2>1. s \in Seq({s[k] : k \in 1 .. Len(s)})
    BY PlainIsSeq
  <2> QED BY <2>1, SeqMonotonic
<1>2. e \in S
  OBVIOUS
<1> HIDE DEF S
<1>3. /\ u \in Seq(S) /\ Len(u) = Len(s) + 1
      /\ \A k \in 1 .. Len(s) : u[k] = s[k]
      /\ u[Len(s) + 1] = e
  BY <1>1, <1>2, AppendProperties
<1>4. Len(u) \in Nat /\ u \in [1 .. Len(u) -> S] /\ Len(s) \in Nat
  BY <1>1, <1>3, LenProperties
<1> HIDE DEF u
<1>5. u = [k \in 1 .. Len(u) |-> u[k]]
  BY <1>4
<1>6. \A k \in 1 .. Len(s) + 1 : u[k] = IF k = Len(s) + 1 THEN e ELSE s[k]
  BY <1>3, <1>4
<1>7. u = [k \in 1 .. Len(s) + 1 |-> IF k = Len(s) + 1 THEN e ELSE s[k]]
  BY <1>3, <1>5, <1>6
<1> QED BY <1>3, <1>7 DEF u

\* The calls that a call makes come before those that were there
LEMMA PrependCalls ==
  ASSUME Plain(calls), calls # <<>>, NEW X, Plain(X), calls' = X \o Tail(calls)
  PROVE  /\ Plain(calls') /\ Len(X) \in Nat /\ Len(calls) \in Nat \ {0}
         /\ Len(calls') = Len(X) + Len(calls) - 1
         /\ \A k \in 1 .. Len(X) : calls'[k] = X[k]
         /\ \A k \in 1 .. Len(calls) - 1 : calls'[Len(X) + k] = calls[k + 1]
         /\ \A k \in 1 .. Len(calls') :
              \/ k \in 1 .. Len(X) /\ calls'[k] = X[k]
              \/ \E h \in 2 .. Len(calls) : calls'[k] = calls[h]
         /\ Head(calls) = calls[1]
<1> DEFINE t == Tail(calls)
           n == Len(calls)
<1>1. /\ Plain(t) /\ Len(t) = n - 1 /\ n > 0 /\ Head(calls) = calls[1]
      /\ \A k \in 1 .. n - 1 : t[k] = calls[k + 1]
  BY TailPlain
<1>2. Len(X) \in Nat /\ n \in Nat
  BY DEF Plain
<1>3. /\ Plain(calls') /\ Len(calls') = Len(X) + Len(t)
      /\ \A k \in 1 .. Len(X) + Len(t) : calls'[k] = IF k <= Len(X) THEN X[k] ELSE t[k - Len(X)]
  BY <1>1, ConcatPlain
<1> HIDE DEF t, n
<1>4. Len(calls') = Len(X) + n - 1
  BY <1>1, <1>2, <1>3
<1>5. \A k \in 1 .. Len(X) : calls'[k] = X[k]
  BY <1>1, <1>2, <1>3
<1>6. ASSUME NEW k \in 1 .. n - 1 PROVE calls'[Len(X) + k] = calls[k + 1]
  <2>1. Len(X) + k \in 1 .. Len(X) + Len(t) /\ ~(Len(X) + k <= Len(X)) /\ Len(X) + k - Len(X) = k
    BY <1>1, <1>2
  <2> QED BY <2>1, <1>1, <1>3
<1>7. ASSUME NEW k \in 1 .. Len(calls')
      PROVE  \/ k \in 1 .. Len(X) /\ calls'[k] = X[k]
             \/ \E h \in 2 .. n : calls'[k] = calls[h]
  <2>1. CASE k <= Len(X)
    BY <2>1, <1>2, <1>5
  <2>2. CASE k > Len(X)
    <3> DEFINE j == k - Len(X)
    <3>1. j \in 1 .. n - 1 /\ Len(X) + j = k /\ j + 1 \in 2 .. n
      BY <2>2, <1>2, <1>4
    <3> QED BY <3>1, <1>6
  <2> QED BY <2>1, <2>2, <1>2
<1> QED BY <1>1, <1>2, <1>3, <1>4, <1>5, <1>6, <1>7 DEF n

KnownAfter(message) == message \in DOMAIN messages' /\ message \in DOMAIN replyTo'

\* The call with a packet
LEMMA PacketCall ==
  ASSUME OrderInv, Plain(calls), CallsInv, DataInv, calls # <<>>, Head(calls).call = "packet",
         HandleVerifiedMessagePacket(Head(calls)),
         UNCHANGED <<delivered, resets, replyTo>>
  PROVE  /\ Grows /\ DataInv' /\ CallsInv' /\ Plain(calls')
         /\ \A k \in 1 .. Len(calls') :
              \/ calls'[k].call = "deliver" /\ KnownAfter(calls'[k].message)
              \/ calls'[k].call \in {"completed", "packet"}
<1> DEFINE c == Head(calls)
           n == Len(calls)
<1>1. /\ c = calls[1] /\ n \in Nat /\ n > 0
  BY TailPlain DEF Plain
<1>2. PICK q \in 0 .. n : \E w \in Messages \cup {0} : CallsHold(q, w)
  BY DEF CallsInv
<1>3. PICK w \in Messages \cup {0} : CallsHold(q, w)
  BY <1>2
<1>4. q = n
  <2>1. ~(1 \in 1 .. n - q)
    BY <1>1, <1>3 DEF CallsHold
  <2> HIDE DEF n
  <2> QED BY <2>1, <1>1, <1>2
<1> DEFINE part == Len(delivered[w]) - q
           size == NumPackets(w)
<1>5. /\ w \in Messages /\ q <= Len(delivered[w]) /\ Message(w) \in DOMAIN replyTo
      /\ \A j \in 1 .. n : calls[j] = [call |-> "packet", msg |-> w, part |-> part + j - 1]
  <2>1. q > 0
    BY <1>1, <1>4
  <2>2. \A j \in 1 .. q : n - q + j = j
    <3> HIDE DEF n
    <3> QED BY <1>1, <1>4
  <2> QED BY <2>1, <2>2, <1>3, <1>4 DEF CallsHold
<1>6. /\ \A m \in Messages : Len(delivered[m]) \in Nat
      /\ size \in Nat /\ Len(delivered[w]) <= size /\ Len(delivered[w]) \in Nat
  BY <1>5, DeliveredFacts
<1>7. part \in Nat /\ part < size /\ c.call = "packet" /\ c.msg = w /\ c.part = part
  <2>1. part \in Nat /\ part < size /\ part + 1 - 1 = part
    <3> HIDE DEF n, size
    <3> QED BY <1>1, <1>4, <1>5, <1>6
  <2>2. 1 \in 1 .. n
    BY <1>1
  <2> HIDE DEF n, part, size, c
  <2>3. c = [call |-> "packet", msg |-> w, part |-> part]
    BY <2>1, <2>2, <1>1, <1>5
  <2> QED BY <2>1, <2>3
<1>b. \A j \in 1 .. n : calls[j].call = "packet"
  <2> SUFFICES ASSUME NEW j \in 1 .. n PROVE calls[j].call = "packet"
    OBVIOUS
  <2> DEFINE p == part + j - 1
  <2>1. calls[j] = [call |-> "packet", msg |-> w, part |-> p]
    BY <1>5
  <2> HIDE DEF p
  <2> QED BY <2>1
<1>8. \A m : ~IsFailing(m)
  BY <1>b DEF IsFailing
<1>9. \A m \in Messages : PacketReceiverHas(m, Len(delivered[m]) - IF m = w THEN q ELSE 0)
  BY <1>3, <1>8 DEF CallsHold
<1>10. /\ PacketReceiverHas(w, part)
       /\ \A m \in Messages : m # w => PacketReceiverHas(m, Len(delivered[m]))
  <2>1. PacketReceiverHas(w, Len(delivered[w]) - IF w = w THEN q ELSE 0)
    BY <1>5, <1>9
  <2>2. ASSUME NEW m \in Messages, m # w PROVE PacketReceiverHas(m, Len(delivered[m]))
    <3>1. (Len(delivered[m]) - IF m = w THEN q ELSE 0) = Len(delivered[m])
      BY <2>2, <1>6
    <3> QED BY <3>1, <1>9
  <2> QED BY <2>1, <2>2
<1> DEFINE isLast == part = size - 1
           message == Message(w)
<1>a. /\ messages[message].data = messages[message].data
      /\ Messages' = Messages /\ \A m : Message(m)' = Message(m) /\ NumPackets(m)' = NumPackets(m)
      /\ \A m : m # w => Message(m) # message
      /\ message[2] = resets
  BY DEF Messages, Offsets, Message, NumPackets, PartsOf
<1> HIDE DEF size, n
\* The message itself
<1>11. /\ message \in DOMAIN messages' /\ DOMAIN messages \subseteq DOMAIN messages'
       /\ \A o \in DOMAIN messages' : o # message => o \in DOMAIN messages /\ messages'[o] = messages[o]
       /\ messages'[message] = [data |-> messages'[message].data,
                                isComplete |-> messages'[message].isComplete,
                                failed |-> messages'[message].failed]
       /\ Len(messages'[message].data) = part + 1
       /\ messages'[message].data = [k \in 1 .. part + 1 |-> <<resets, k - 1>>]
       /\ IF isLast THEN w \notin DOMAIN pendingMessages'
          ELSE w \in DOMAIN pendingMessages' /\ pendingMessages'[w] = message
       /\ \A m : m # w => (m \in DOMAIN pendingMessages' <=> m \in DOMAIN pendingMessages)
       /\ \A m \in DOMAIN pendingMessages : m # w => pendingMessages'[m] = pendingMessages[m]
       /\ \E X : /\ Plain(X) /\ calls' = X \o Tail(calls)
                 /\ \A k \in 1 .. Len(X) :
                        \/ X[k] = [call |-> "deliver", message |-> message]
                        \/ X[k].call = "completed"
  <2>1. CASE w \notin DOMAIN pendingMessages
    <3>1. part = 0
      BY <2>1, <1>7, <1>10 DEF PacketReceiverHas, size
    <3> DEFINE new == [data |-> <<<<resets, part>>>>, isComplete |-> isLast, failed |-> FALSE]
               X == IF isLast \/ DeliverPending(message)
                    THEN <<[call |-> "deliver", message |-> message]>> ELSE <<>>
    <3>2. /\ messages' = Put(messages, message, new)
          /\ pendingMessages' = IF isLast THEN pendingMessages ELSE Put(pendingMessages, w, message)
          /\ calls' = IF isLast \/ DeliverPending(message)
                      THEN <<[call |-> "deliver", message |-> message]>> \o Tail(calls)
                      ELSE Tail(calls)
      BY <2>1, <1>7 DEF HandleVerifiedMessagePacket, size
    <3>3. Plain(X) /\ \A k \in 1 .. Len(X) : X[k] = [call |-> "deliver", message |-> message]
      BY OnePlain
    <3>4. calls' = X \o Tail(calls)
      <4>1. Tail(calls) \in Seq({Tail(calls)[k] : k \in 1 .. Len(Tail(calls))})
        BY TailPlain, PlainIsSeq
      <4>2. <<>> \o Tail(calls) = Tail(calls)
        BY <4>1, ConcatEmptySeq
      <4> QED BY <4>2, <3>2
    <3>5. Len(<<<<resets, part>>>>) = 1 /\ <<<<resets, part>>>> = [k \in 1 .. 1 |-> <<resets, k - 1>>]
      <4>1. <<<<resets, part>>>> = [k \in 1 .. 1 |-> <<resets, part>>] /\ Len(<<<<resets, part>>>>) = 1
        BY OnePlain DEF Plain
      <4> QED BY <4>1, <3>1
    <3>6. messages'[message] = new /\ DOMAIN messages' = DOMAIN messages \cup {message}
          /\ \A o \in DOMAIN messages : o # message => messages'[o] = messages[o]
      BY <3>2 DEF Put
    <3>7. new.data = [k \in 1 .. part + 1 |-> <<resets, k - 1>>] /\ Len(new.data) = part + 1
          /\ new = [data |-> new.data, isComplete |-> new.isComplete, failed |-> new.failed]
      BY <3>1, <3>5
    <3> HIDE DEF new, X, isLast, message
    <3>8. /\ IF isLast THEN w \notin DOMAIN pendingMessages'
             ELSE w \in DOMAIN pendingMessages' /\ pendingMessages'[w] = message
          /\ \A m : m # w => (m \in DOMAIN pendingMessages' <=> m \in DOMAIN pendingMessages)
          /\ \A m \in DOMAIN pendingMessages : m # w => pendingMessages'[m] = pendingMessages[m]
      BY <2>1, <3>2 DEF Put
    <3>9. \E Y : /\ Plain(Y) /\ calls' = Y \o Tail(calls)
                 /\ \A k \in 1 .. Len(Y) :
                        \/ Y[k] = [call |-> "deliver", message |-> message]
                        \/ Y[k].call = "completed"
      BY <3>3, <3>4
    <3> QED BY <3>6, <3>7, <3>8, <3>9
  <2>2. CASE w \in DOMAIN pendingMessages
    <3>1. /\ pendingMessages[w] = message /\ message \in DOMAIN messages
          /\ Len(messages[message].data) = part
      BY <2>2, <1>10 DEF PacketReceiverHas, Known
    <3> DEFINE data == messages[message].data
    <3>2. /\ messages[message] = [data |-> data, isComplete |-> messages[message].isComplete,
                                  failed |-> messages[message].failed]
          /\ data = [k \in 1 .. part |-> <<resets, k - 1>>]
      BY <3>1, <1>a DEF DataInv
    <3> DEFINE A == IF isLast THEN <<[call |-> "completed", message |-> message]>> ELSE <<>>
               B == IF isLast /\ ~DeliverPending(message)
                    THEN <<[call |-> "deliver", message |-> message]>> ELSE <<>>
               X == A \o B
    <3>3. /\ messages' = [messages EXCEPT ![message].data = Append(@, <<resets, part>>),
                                          ![message].isComplete = isLast]
          /\ pendingMessages' = IF isLast THEN Restrict(pendingMessages, DOMAIN pendingMessages \ {w})
                                ELSE pendingMessages
          /\ calls' = A \o B \o Tail(calls)
      BY <2>2, <3>1, <1>7 DEF HandleVerifiedMessagePacket, size
    <3>4. /\ Plain(A) /\ Plain(B)
          /\ \A k \in 1 .. Len(A) : A[k].call = "completed"
          /\ \A k \in 1 .. Len(B) : B[k] = [call |-> "deliver", message |-> message]
      BY OnePlain
    <3> HIDE DEF A, B
    <3>5. /\ Plain(X)
          /\ \A k \in 1 .. Len(X) : X[k] = [call |-> "deliver", message |-> message] \/ X[k].call = "completed"
      <4>1. /\ Plain(X) /\ Len(X) = Len(A) + Len(B) /\ Len(A) \in Nat /\ Len(B) \in Nat
            /\ \A k \in 1 .. Len(A) + Len(B) : X[k] = IF k <= Len(A) THEN A[k] ELSE B[k - Len(A)]
        BY <3>4, ConcatPlain DEF Plain
      <4> HIDE DEF X, message
      <4>2. ASSUME NEW k \in 1 .. Len(X)
            PROVE  X[k] = [call |-> "deliver", message |-> message] \/ X[k].call = "completed"
        <5>1. CASE k <= Len(A)
          <6>1. k \in 1 .. Len(A) /\ k \in 1 .. Len(A) + Len(B)
            BY <4>1, <5>1
          <6> QED BY <6>1, <5>1, <3>4, <4>1
        <5>2. CASE ~(k <= Len(A))
          <6>1. k - Len(A) \in 1 .. Len(B) /\ k \in 1 .. Len(A) + Len(B)
            BY <4>1, <5>2
          <6> QED BY <6>1, <5>2, <3>4, <4>1
        <5> QED BY <5>1, <5>2
      <4> QED BY <4>1, <4>2
    <3>6. calls' = X \o Tail(calls)
      BY <3>3
    <3> HIDE DEF X
    <3>7. /\ Len(Append(data, <<resets, part>>)) = part + 1
          /\ Append(data, <<resets, part>>) = [k \in 1 .. part + 1 |-> <<resets, k - 1>>]
      <4> HIDE DEF part
      <4>1. Plain(data) /\ Len(data) = part
        BY <3>2, <1>7, FunctionIsPlain
      <4> HIDE DEF data
      <4>2. /\ Len(Append(data, <<resets, part>>)) = part + 1
            /\ Append(data, <<resets, part>>) =
                  [k \in 1 .. part + 1 |-> IF k = part + 1 THEN <<resets, part>> ELSE data[k]]
        BY <4>1, AppendPlain
      <4>3. \A k \in 1 .. part + 1 :
              (IF k = part + 1 THEN <<resets, part>> ELSE data[k]) = <<resets, k - 1>>
        BY <3>2, <1>7 DEF data
      <4> QED BY <4>2, <4>3
    <3> HIDE DEF isLast, message, part
    <3>8. /\ messages'[message] = [data |-> Append(data, <<resets, part>>), isComplete |-> isLast,
                                   failed |-> messages[message].failed]
          /\ DOMAIN messages' = DOMAIN messages
          /\ \A o \in DOMAIN messages : o # message => messages'[o] = messages[o]
      <4> HIDE DEF data
      <4>1. /\ DOMAIN messages' = DOMAIN messages
            /\ \A o \in DOMAIN messages : o # message => messages'[o] = messages[o]
        BY <3>3
      <4>2. messages'[message] = [messages[message] EXCEPT !.data = Append(@, <<resets, part>>),
                                                           !.isComplete = isLast]
        BY <3>1, <3>3
      <4>3. messages[message].data = data
        BY DEF data
      <4> QED BY <4>1, <4>2, <4>3, <3>2
    <3> HIDE DEF data
    <3>9. /\ IF isLast THEN w \notin DOMAIN pendingMessages'
             ELSE w \in DOMAIN pendingMessages' /\ pendingMessages'[w] = message
          /\ \A m : m # w => (m \in DOMAIN pendingMessages' <=> m \in DOMAIN pendingMessages)
          /\ \A m \in DOMAIN pendingMessages : m # w => pendingMessages'[m] = pendingMessages[m]
      BY <2>2, <3>1, <3>3 DEF Restrict
    <3>10. \E Y : /\ Plain(Y) /\ calls' = Y \o Tail(calls)
                  /\ \A k \in 1 .. Len(Y) :
                        \/ Y[k] = [call |-> "deliver", message |-> message]
                        \/ Y[k].call = "completed"
      BY <3>5, <3>6
    <3>11. /\ messages'[message].data = [k \in 1 .. part + 1 |-> <<resets, k - 1>>]
           /\ Len(messages'[message].data) = part + 1
           /\ messages'[message] = [data |-> messages'[message].data,
                                    isComplete |-> messages'[message].isComplete,
                                    failed |-> messages'[message].failed]
      <4>1. messages'[message].data = Append(data, <<resets, part>>)
        BY <3>8
      <4>2. messages'[message] = [data |-> messages'[message].data,
                                  isComplete |-> messages'[message].isComplete,
                                  failed |-> messages'[message].failed]
        BY <3>8
      <4> QED BY <4>1, <4>2, <3>7
    <3> QED BY <3>1, <3>8, <3>9, <3>10, <3>11
  <2> QED BY <2>1, <2>2
<1>12. Grows
  BY <1>11 DEF Grows
<1>13. DataInv'
  <2> SUFFICES ASSUME NEW o \in DOMAIN messages'
               PROVE  LET data == messages'[o].data
                      IN  /\ messages'[o] = [data |-> data, isComplete |-> messages'[o].isComplete,
                                             failed |-> messages'[o].failed]
                          /\ Len(data) \in Nat /\ data = [k \in 1 .. Len(data) |-> <<o[2], k - 1>>]
    BY DEF DataInv
  <2>1. CASE o = message
    <3> HIDE DEF part
    <3>1. part + 1 \in Nat
      BY <1>7
    <3> QED BY <2>1, <3>1, <1>11, <1>a
  <2>2. CASE o # message
    <3>1. o \in DOMAIN messages /\ messages'[o] = messages[o]
      BY <2>2, <1>11
    <3> QED BY <3>1 DEF DataInv
  <2> QED BY <2>1, <2>2
<1>14. PICK X : /\ Plain(X) /\ calls' = X \o Tail(calls)
                /\ \A k \in 1 .. Len(X) :
                      \/ X[k] = [call |-> "deliver", message |-> message]
                      \/ X[k].call = "completed"
  BY <1>11
<1>15. /\ Plain(calls') /\ Len(X) \in Nat
       /\ Len(calls') = Len(X) + n - 1
       /\ \A k \in 1 .. Len(X) : calls'[k] = X[k]
       /\ \A k \in 1 .. n - 1 : calls'[Len(X) + k] = calls[k + 1]
       /\ \A k \in 1 .. Len(calls') :
            \/ k \in 1 .. Len(X) /\ calls'[k] = X[k]
            \/ \E h \in 2 .. n : calls'[k] = calls[h]
  BY <1>14, PrependCalls DEF n
<1>16. Known(message)' /\ KnownAfter(message)
  BY <1>5, <1>11, <1>a DEF Known, KnownAfter
<1>17. \A k \in 1 .. Len(calls') :
          \/ calls'[k] = [call |-> "deliver", message |-> message]
          \/ calls'[k].call \in {"completed", "packet"}
  <2> SUFFICES ASSUME NEW k \in 1 .. Len(calls')
               PROVE  \/ calls'[k] = [call |-> "deliver", message |-> message]
                      \/ calls'[k].call \in {"completed", "packet"}
    OBVIOUS
  <2> HIDE DEF message, part
  <2>1. CASE k \in 1 .. Len(X) /\ calls'[k] = X[k]
    BY <2>1, <1>14
  <2>2. CASE \E h \in 2 .. n : calls'[k] = calls[h]
    <3>1. PICK h \in 2 .. n : calls'[k] = calls[h]
      BY <2>2
    <3>2. h \in 1 .. n
      BY <1>1
    <3> QED BY <3>1, <3>2, <1>b
  <2> QED BY <2>1, <2>2, <1>15
<1>18. \A k \in 1 .. Len(calls') :
          \/ calls'[k].call = "deliver" /\ KnownAfter(calls'[k].message)
          \/ calls'[k].call \in {"completed", "packet"}
  <2> SUFFICES ASSUME NEW k \in 1 .. Len(calls')
               PROVE  \/ calls'[k].call = "deliver" /\ KnownAfter(calls'[k].message)
                      \/ calls'[k].call \in {"completed", "packet"}
    OBVIOUS
  <2>1. CASE calls'[k] = [call |-> "deliver", message |-> message]
    <3> HIDE DEF message
    <3>1. calls'[k].call = "deliver" /\ calls'[k].message = message
      BY <2>1
    <3> QED BY <3>1, <1>16
  <2> QED BY <2>1, <1>17
\* The calls that are left
<1>19. PICK r \in Nat : r = q - 1 /\ r <= n - 1
  BY <1>1, <1>4 DEF n
<1>20. \A m : ~IsFailing(m)'
  BY <1>17 DEF IsFailing
<1>21. ASSUME NEW m \in Messages
       PROVE  PacketReceiverHas(m, Len(delivered[m]) - IF m = w THEN r ELSE 0)'
  <2>1. CASE m = w
    <3>1. Len(delivered'[m]) - (IF m = w THEN r ELSE 0) = part + 1
      BY <2>1, <1>4, <1>5, <1>6, <1>19
    <3>2. IF w \in DOMAIN pendingMessages'
          THEN /\ pendingMessages'[w] = message /\ Known(message)'
               /\ Len(messages'[message].data) = part + 1
               /\ 0 < part + 1 /\ part + 1 < size
          ELSE part + 1 = 0 \/ part + 1 = size
      <4> HIDE DEF part, message
      <4>1. CASE isLast
        <5>1. part + 1 = size
          BY <4>1, <1>6, <1>7 DEF size
        <5> QED BY <5>1, <4>1, <1>11
      <4>2. CASE ~isLast
        <5>1. 0 < part + 1 /\ part + 1 < size
          BY <4>2, <1>6, <1>7
        <5> QED BY <5>1, <4>2, <1>11, <1>16
      <4> QED BY <4>1, <4>2
    <3>3. Message(w)' = message /\ NumPackets(w)' = size
      BY <1>a DEF size
    <3> HIDE DEF part
    <3> QED BY <2>1, <3>1, <3>2, <3>3 DEF PacketReceiverHas
  <2>2. CASE m # w
    <3>1. Len(delivered'[m]) - (IF m = w THEN r ELSE 0) = Len(delivered[m])
      BY <2>2, <1>6
    <3>2. PacketReceiverHas(m, Len(delivered[m]))
      BY <2>2, <1>10
    <3>3. /\ m \in DOMAIN pendingMessages' <=> m \in DOMAIN pendingMessages
          /\ m \in DOMAIN pendingMessages => pendingMessages'[m] = pendingMessages[m]
          /\ Message(m)' = Message(m) /\ NumPackets(m)' = NumPackets(m)
      BY <2>2, <1>11, <1>a
    <3>4. ASSUME Known(Message(m))
          PROVE  Known(Message(m))' /\ messages'[Message(m)] = messages[Message(m)]
      <4>1. Message(m) \in DOMAIN messages' /\ Message(m) # message
        BY <3>4, <2>2, <1>11, <1>a DEF Known
      <4>2. messages'[Message(m)] = messages[Message(m)]
        BY <4>1, <1>11
      <4> QED BY <4>1, <4>2, <3>3, <3>4 DEF Known
    <3> HIDE DEF message
    <3> QED BY <3>1, <3>2, <3>3, <3>4 DEF PacketReceiverHas
  <2> QED BY <2>1, <2>2
<1>22. CallsHold(r, w)'
  <2>1. ASSUME NEW k \in 1 .. Len(calls') - r PROVE calls'[k].call # "packet"
    <3>1. k \in 1 .. Len(X)
      BY <1>1, <1>4, <1>15, <1>19 DEF n
    <3> QED BY <3>1, <1>14, <1>15
  <2>2. ASSUME NEW j \in 1 .. r
        PROVE  calls'[Len(calls') - r + j] =
                  [call |-> "packet", msg |-> w, part |-> Len(delivered'[w]) - r + j - 1]
    <3>1. Len(calls') - r + j = Len(X) + j /\ j \in 1 .. n - 1 /\ j + 1 \in 1 .. n
      BY <1>1, <1>4, <1>15, <1>19
    <3>2. calls'[Len(X) + j] = calls[j + 1]
      BY <3>1, <1>15
    <3>3. part + (j + 1) - 1 = Len(delivered'[w]) - r + j - 1
      BY <1>4, <1>6, <1>19, <1>5
    <3>4. calls[j + 1] = [call |-> "packet", msg |-> w, part |-> part + (j + 1) - 1]
      BY <3>1, <1>5
    <3> QED BY <3>1, <3>2, <3>3, <3>4
  <2>3. r <= Len(delivered'[w])
    BY <1>5, <1>6, <1>19
  <2>4. w \in Messages' /\ Message(w)' \in DOMAIN replyTo'
    BY <1>5, <1>a
  <2> HIDE DEF part
  <2> QED BY <2>1, <2>2, <2>3, <2>4, <1>20, <1>21, <1>a DEF CallsHold
<1>23. DOMAIN pendingMessages' \subseteq Messages'
  <2>1. \A m \in DOMAIN pendingMessages' : m = w \/ m \in DOMAIN pendingMessages
    BY <1>11
  <2> QED BY <2>1, <1>5, <1>a DEF CallsInv
<1>24. r \in 0 .. Len(calls')
  BY <1>1, <1>15, <1>19
<1>25. CallsInv'
  BY <1>22, <1>23, <1>24, <1>a, <1>5 DEF CallsInv
<1> QED BY <1>12, <1>13, <1>15, <1>18, <1>25

\* Any other call
LEMMA OtherCall ==
  ASSUME OrderInv, Plain(calls), CallsInv, calls # <<>>, Head(calls).call # "packet",
         NEW X, Plain(X), calls' = X \o Tail(calls), \A k \in 1 .. Len(X) : X[k].call = "completed",
         UNCHANGED <<delivered, resets, replyTo>>,
         \A m \in DOMAIN pendingMessages' :
            m \in DOMAIN pendingMessages /\ pendingMessages'[m] = pendingMessages[m],
         \A m \in DOMAIN pendingMessages :
            m \notin DOMAIN pendingMessages' <=> Head(calls).call = "failed" /\ Head(calls).msg = m,
         DOMAIN messages' = DOMAIN messages,
         \A o \in DOMAIN messages : messages'[o].data = messages[o].data
  PROVE  CallsInv'
<1> DEFINE n == Len(calls)
<1>1. /\ Plain(calls') /\ Len(X) \in Nat /\ n \in Nat \ {0}
      /\ Len(calls') = Len(X) + n - 1
      /\ \A k \in 1 .. Len(X) : calls'[k] = X[k]
      /\ \A k \in 1 .. n - 1 : calls'[Len(X) + k] = calls[k + 1]
      /\ \A k \in 1 .. Len(calls') :
            \/ k \in 1 .. Len(X) /\ calls'[k] = X[k]
            \/ \E h \in 2 .. n : calls'[k] = calls[h]
      /\ Head(calls) = calls[1]
  BY PrependCalls
<1>2. PICK q \in 0 .. n : \E w \in Messages \cup {0} : CallsHold(q, w)
  BY DEF CallsInv
<1>3. PICK w \in Messages \cup {0} : CallsHold(q, w)
  BY <1>2
<1>4. /\ \A k \in 1 .. n - q : calls[k].call # "packet"
      /\ q > 0 => /\ w \in Messages /\ q <= Len(delivered[w]) /\ Message(w) \in DOMAIN replyTo
                  /\ \A j \in 1 .. q :
                       calls[n - q + j] =
                          [call |-> "packet", msg |-> w, part |-> Len(delivered[w]) - q + j - 1]
      /\ \A m \in Messages : IsFailing(m) => q = 0 /\ Len(delivered[m]) = 0
      /\ \A m \in Messages :
            IsFailing(m) \/ PacketReceiverHas(m, Len(delivered[m]) - IF m = w THEN q ELSE 0)
  BY <1>3 DEF CallsHold
<1>a. Messages' = Messages /\ \A m : Message(m)' = Message(m) /\ NumPackets(m)' = NumPackets(m)
  BY DEF Messages, Offsets, Message, NumPackets, PartsOf
<1> HIDE DEF n
<1>5. q <= n - 1
  <2>1. CASE q = n
    <3>1. 1 \in 1 .. q /\ n - q + 1 = 1 /\ q > 0
      BY <2>1, <1>1
    <3> DEFINE p == Len(delivered[w]) - q + 1 - 1
    <3>2. calls[n - q + 1] = [call |-> "packet", msg |-> w, part |-> p]
      BY <3>1, <1>4
    <3> HIDE DEF p
    <3>3. calls[1].call = "packet"
      BY <3>1, <3>2
    <3> QED BY <3>3, <1>1
  <2> QED BY <2>1, <1>1, <1>2
<1>6. ASSUME NEW k \in 1 .. Len(calls') - q PROVE calls'[k].call # "packet"
  <2>1. CASE k <= Len(X)
    <3>1. k \in 1 .. Len(X)
      BY <2>1, <1>1
    <3> QED BY <3>1, <1>1
  <2>2. CASE k > Len(X)
    <3> DEFINE j == k - Len(X)
               h == j + 1
    <3>1. j \in 1 .. n - 1 /\ Len(X) + j = k /\ h \in 1 .. n - q
      BY <2>2, <1>1, <1>2
    <3>2. calls'[Len(X) + j] = calls[h]
      BY <3>1, <1>1
    <3> HIDE DEF j, h
    <3> QED BY <3>1, <3>2, <1>4
  <2> QED BY <2>1, <2>2, <1>1
<1>7. ASSUME NEW j \in 1 .. q
      PROVE  calls'[Len(calls') - q + j] =
                [call |-> "packet", msg |-> w, part |-> Len(delivered[w]) - q + j - 1]
  <2> DEFINE i == n - 1 - q + j
             h == i + 1
  <2>0. /\ n \in Nat /\ q \in Nat /\ j \in Nat /\ q <= n - 1 /\ 1 <= j /\ j <= q
        /\ Len(X) \in Nat /\ Len(calls') = Len(X) + n - 1
    BY <1>1, <1>2, <1>5
  <2>1. i \in 1 .. n - 1 /\ Len(calls') - q + j = Len(X) + i /\ h = n - q + j /\ q > 0
    <3> DEFINE lx == Len(X)
               lc == Len(calls')
    <3>1. lx \in Nat /\ lc = lx + n - 1
      BY <2>0
    <3> HIDE DEF lx, lc
    <3>2. i \in 1 .. n - 1 /\ lc - q + j = lx + i /\ h = n - q + j /\ q > 0
      BY <2>0, <3>1
    <3> QED BY <3>2 DEF lx, lc
  <2>2. calls'[Len(X) + i] = calls[h]
    BY <2>1, <1>1
  <2> HIDE DEF i, h
  <2> QED BY <2>1, <2>2, <1>4
<1>8. ASSUME NEW m \in Messages, IsFailing(m)' PROVE IsFailing(m)
  <2>1. PICK k \in 1 .. Len(calls') : calls'[k].call = "failed" /\ calls'[k].msg = m
    BY <1>8 DEF IsFailing
  <2>2. ~(k \in 1 .. Len(X) /\ calls'[k] = X[k])
    BY <2>1
  <2>3. PICK h \in 2 .. n : calls'[k] = calls[h]
    BY <2>2, <1>1
  <2>4. h \in 1 .. Len(calls)
    BY <1>1 DEF n
  <2> QED BY <2>1, <2>3, <2>4 DEF IsFailing
<1>9. ASSUME NEW m \in Messages, IsFailing(m), ~IsFailing(m)' PROVE m \notin DOMAIN pendingMessages'
  <2>1. PICK k \in 1 .. n : calls[k].call = "failed" /\ calls[k].msg = m
    BY <1>9 DEF IsFailing, n
  <2>2. CASE k = 1
    BY <2>1, <2>2, <1>1
  <2>3. CASE k # 1
    <3> DEFINE j == k - 1
    <3>1. j \in 1 .. n - 1 /\ j + 1 = k /\ Len(X) + j \in 1 .. Len(calls')
      BY <2>3, <1>1
    <3>2. calls'[Len(X) + j] = calls[k]
      BY <3>1, <1>1
    <3> HIDE DEF j
    <3> QED BY <2>1, <3>1, <3>2, <1>9 DEF IsFailing
  <2> QED BY <2>2, <2>3
<1>10. ASSUME NEW m \in Messages
       PROVE  IsFailing(m)' \/ PacketReceiverHas(m, Len(delivered[m]) - IF m = w THEN q ELSE 0)'
  <2>1. CASE IsFailing(m)
    <3> SUFFICES ASSUME ~IsFailing(m)'
                 PROVE  PacketReceiverHas(m, Len(delivered[m]) - IF m = w THEN q ELSE 0)'
      OBVIOUS
    <3>1. m \notin DOMAIN pendingMessages'
      BY <2>1, <1>9
    <3>2. Len(delivered'[m]) - (IF m = w THEN q ELSE 0) = 0
      BY <2>1, <1>4
    <3> QED BY <3>1, <3>2 DEF PacketReceiverHas
  <2>2. CASE ~IsFailing(m)
    <3>1. PacketReceiverHas(m, Len(delivered[m]) - IF m = w THEN q ELSE 0)
      BY <2>2, <1>4
    <3>2. m \in DOMAIN pendingMessages => m \in DOMAIN pendingMessages'
      <4> SUFFICES ASSUME m \in DOMAIN pendingMessages, m \notin DOMAIN pendingMessages' PROVE FALSE
        OBVIOUS
      <4>1. calls[1].call = "failed" /\ calls[1].msg = m /\ 1 \in 1 .. Len(calls)
        BY <1>1 DEF n
      <4> QED BY <4>1, <2>2 DEF IsFailing
    <3>3. Known(Message(m)) => Known(Message(m))' /\ messages'[Message(m)].data = messages[Message(m)].data
      BY <1>a DEF Known
    <3>4. m \in DOMAIN pendingMessages' => m \in DOMAIN pendingMessages /\ pendingMessages'[m] = pendingMessages[m]
      OBVIOUS
    <3>5. delivered' = delivered /\ Message(m)' = Message(m) /\ NumPackets(m)' = NumPackets(m)
      BY <1>a
    <3> QED BY <3>1, <3>2, <3>3, <3>4, <3>5 DEF PacketReceiverHas
  <2> QED BY <2>1, <2>2
<1>11. CallsHold(q, w)'
  <2>1. delivered' = delivered /\ replyTo' = replyTo /\ Message(w)' = Message(w)
    BY <1>a
  <2> QED BY <2>1, <1>4, <1>6, <1>7, <1>8, <1>10, <1>a DEF CallsHold
<1>12. DOMAIN pendingMessages' \subseteq Messages'
  BY <1>a DEF CallsInv
<1>13. q \in 0 .. Len(calls')
  BY <1>1, <1>2, <1>5
<1> QED BY <1>11, <1>12, <1>13, <1>3, <1>a DEF CallsInv

\* Calls that are neither packets nor failures
LEMMA IdleCalls ==
  ASSUME OrderInv, CallsInv, calls = <<>>, Plain(calls'),
         UNCHANGED <<messages, pendingMessages, delivered, resets, replyTo>>,
         \A k \in 1 .. Len(calls') : calls'[k].call \notin {"packet", "failed"}
  PROVE  CallsInv'
<1>1. Messages' = Messages /\ Grows /\ \A m : ~IsFailing(m)'
  BY DEF Messages, Offsets, Grows, IsFailing
<1>2. ASSUME NEW m \in Messages
      PROVE  PacketReceiverHas(m, Len(delivered[m]) - IF m = 0 THEN 0 ELSE 0)'
  <2>1. PacketReceiverHas(m, Len(delivered[m]))'
    BY WhenIdle, HasKept, <1>1
  <2>2. Len(delivered'[m]) - (IF m = 0 THEN 0 ELSE 0) = Len(delivered'[m])
    BY DeliveredFacts
  <2> QED BY <2>1, <2>2
<1>3. Len(calls') \in Nat
  BY DEF Plain
<1>4. CallsHold(0, 0)'
  <2>1. \A k \in 1 .. Len(calls') - 0 : calls'[k].call # "packet"
    BY <1>3
  <2> QED BY <2>1, <1>1, <1>2 DEF CallsHold
<1>5. 0 \in 0 .. Len(calls')
  BY <1>3
<1> QED BY <1>1, <1>4, <1>5 DEF CallsInv

\* What the elements of calls and events may be after a step
CallsConcernKnown ==
    \A k \in 1 .. Len(calls') :
        /\ calls'[k].call = "deliver" => KnownAfter(calls'[k].message)
        /\ calls'[k].call = "signal" => calls'[k].event.event # "reply"

EventsConcernKnown ==
    \A k \in 1 .. Len(events') : events'[k].event = "reply" => KnownAfter(events'[k].message)

\* What is pending and what has been answered is not touched by NodeList's thread
LEMMA RepliesKept ==
  ASSUME Grows, RepliesInv, SuccessIsWhole, CallsConcernKnown, EventsConcernKnown,
         UNCHANGED <<pendingRequests, handling, answers>>
  PROVE  RepliesInv' /\ SuccessIsWhole'
<1>1. \A message : Known(message) => Known(message)' /\ replyTo'[message] = replyTo[message]
  BY DEF Known, Grows
<1>2. \A message : KnownAfter(message) => Known(message)'
  BY DEF Known, KnownAfter
<1>3. ASSUME NEW r \in DOMAIN pendingRequests
      PROVE  LET message == pendingRequests[r].message
             IN  /\ pendingRequests[r] = [node |-> pendingRequests[r].node, message |-> message]
                 /\ message # NoMessage => Known(message)' /\ replyTo'[message] = r
  BY <1>1 DEF RepliesInv
<1>4. RepliesInv'
  BY <1>1, <1>2, <1>3 DEF RepliesInv, CallsConcernKnown, EventsConcernKnown, NoMessage, Known
<1>5. SuccessIsWhole'
  <2>1. Requests' = Requests /\ \A m : NumPackets(m)' = NumPackets(m)
    BY DEF Requests, NumPackets, PartsOf, Offsets
  <2> SUFFICES ASSUME NEW r \in Requests, NEW a \in Range(answers[r]), a.success
               PROVE  \E message \in DOMAIN replyTo' :
                        /\ replyTo'[message] = r
                        /\ a.data = [k \in 1 .. NumPackets(message[1]) |-> <<message[2], k - 1>>]
    BY <2>1 DEF SuccessIsWhole
  <2>2. PICK message \in DOMAIN replyTo :
          /\ replyTo[message] = r
          /\ a.data = [k \in 1 .. NumPackets(message[1]) |-> <<message[2], k - 1>>]
    BY DEF SuccessIsWhole
  <2> QED BY <2>2 DEF Grows
<1> QED BY <1>4, <1>5

\* What a call posts
LEMMA PostedEvents ==
  ASSUME NEW c
  PROVE  /\ Plain(Posted(c))
         /\ \A k \in 1 .. Len(Posted(c)) :
              \/ c.call = "signal" /\ Posted(c)[k] = c.event
              \/ c.call = "deliver" /\ Posted(c)[k].message = c.message
              \/ Posted(c)[k].event = "completed"
<1>1. CASE c.call = "signal"
  <2>1. Posted(c) = <<c.event>>
    BY <1>1 DEF Posted
  <2> QED BY <2>1, <1>1, OnePlain
<1>2. CASE c.call = "deliver"
  <2>1. Posted(c) = <<[event |-> "reply", message |-> c.message, node |-> node]>>
    BY <1>2 DEF Posted
  <2> QED BY <2>1, <1>2, OnePlain
<1>3. CASE c.call = "completed" /\ c.message \in DOMAIN connected
  <2>1. Posted(c) = <<[event |-> "completed", message |-> c.message, node |-> connected[c.message]]>>
    BY <1>3 DEF Posted
  <2> QED BY <2>1, OnePlain
<1>4. CASE c.call \notin {"signal", "deliver"} /\ ~(c.call = "completed" /\ c.message \in DOMAIN connected)
  <2>1. Posted(c) = <<>>
    BY <1>4 DEF Posted
  <2> QED BY <2>1, OnePlain
<1> QED BY <1>1, <1>2, <1>3, <1>4

\* What is posted goes behind what was
LEMMA PostKeeps ==
  ASSUME Plain(events), Grows, RepliesInv, Plain(calls), calls # <<>>,
         events' = events \o Posted(Head(calls))
  PROVE  Plain(events') /\ EventsConcernKnown
<1> DEFINE c == Head(calls)
           P == Posted(c)
<1>1. c = calls[1] /\ 1 \in 1 .. Len(calls)
  BY TailPlain DEF Plain
<1>2. /\ c.call = "deliver" => Known(c.message)
      /\ c.call = "signal" => c.event.event # "reply"
  BY <1>1 DEF RepliesInv
<1> HIDE DEF c
<1>3. /\ Plain(P) /\ \A k \in 1 .. Len(P) :
              \/ c.call = "signal" /\ P[k] = c.event
              \/ c.call = "deliver" /\ P[k].message = c.message
              \/ P[k].event = "completed"
  BY PostedEvents
<1>4. events' = events \o P
  BY DEF c
<1> HIDE DEF P
<1>5. /\ Plain(events') /\ Len(events') = Len(events) + Len(P) /\ Len(events) \in Nat /\ Len(P) \in Nat
      /\ \A k \in 1 .. Len(events) + Len(P) :
            events'[k] = IF k <= Len(events) THEN events[k] ELSE P[k - Len(events)]
  <2>1. Len(events) \in Nat /\ Len(P) \in Nat
    BY <1>3 DEF Plain
  <2> QED BY <2>1, <1>3, <1>4, ConcatPlain
<1>6. \A message : Known(message) => KnownAfter(message)
  BY DEF Known, KnownAfter, Grows
<1>7. ASSUME NEW k \in 1 .. Len(events'), events'[k].event = "reply" PROVE KnownAfter(events'[k].message)
  <2>1. CASE k <= Len(events)
    <3>1. events'[k] = events[k] /\ k \in 1 .. Len(events)
      BY <2>1, <1>5
    <3> QED BY <3>1, <1>6, <1>7 DEF RepliesInv
  <2>2. CASE ~(k <= Len(events))
    <3>1. PICK j \in 1 .. Len(P) : events'[k] = P[j]
      <4> DEFINE j == k - Len(events)
      <4>1. j \in 1 .. Len(P) /\ k \in 1 .. Len(events) + Len(P)
        BY <2>2, <1>5
      <4> QED BY <4>1, <2>2, <1>5
    <3>2. c.call = "deliver" /\ P[j].message = c.message
      BY <3>1, <1>2, <1>3, <1>7
    <3> QED BY <3>1, <3>2, <1>2, <1>6
  <2> QED BY <2>1, <2>2
<1> QED BY <1>5, <1>7 DEF EventsConcernKnown

\* What is left of the calls concerns known messages as before
LEMMA CallsLeft ==
  ASSUME Plain(calls), calls # <<>>, Grows, RepliesInv,
         NEW X, Plain(X), calls' = X \o Tail(calls), \A k \in 1 .. Len(X) : X[k].call = "completed"
  PROVE  Plain(calls') /\ CallsConcernKnown
<1>1. /\ Plain(calls')
      /\ \A k \in 1 .. Len(calls') :
            \/ k \in 1 .. Len(X) /\ calls'[k] = X[k]
            \/ \E h \in 2 .. Len(calls) : calls'[k] = calls[h]
      /\ Len(calls) \in Nat
  BY PrependCalls
<1>2. \A message : Known(message) => KnownAfter(message)
  BY DEF Known, KnownAfter, Grows
<1>3. ASSUME NEW k \in 1 .. Len(calls')
      PROVE  /\ calls'[k].call = "deliver" => KnownAfter(calls'[k].message)
             /\ calls'[k].call = "signal" => calls'[k].event.event # "reply"
  <2>1. CASE k \in 1 .. Len(X) /\ calls'[k] = X[k]
    BY <2>1
  <2>2. CASE \E h \in 2 .. Len(calls) : calls'[k] = calls[h]
    <3>1. PICK h \in 2 .. Len(calls) : calls'[k] = calls[h]
      BY <2>2
    <3>2. h \in 1 .. Len(calls)
      BY <1>1
    <3> QED BY <3>1, <3>2, <1>2 DEF RepliesInv
  <2> QED BY <2>1, <2>2, <1>1
<1> QED BY <1>1, <1>3 DEF CallsConcernKnown

\* setFailed's two assignments to a message
Marked(message, yes) == [message EXCEPT !.failed = yes, !.isComplete = yes]

\* leave its data as they are
LEMMA MarkedFailed ==
  ASSUME NEW data, NEW isComplete, NEW failed, NEW yes, NEW message,
         message = [data |-> data, isComplete |-> isComplete, failed |-> failed]
  PROVE  Marked(message, yes) = [data |-> data, isComplete |-> yes, failed |-> yes]
<1>1. [message EXCEPT !.failed = yes] = [data |-> data, isComplete |-> isComplete, failed |-> yes]
  OBVIOUS
<1>2. [message EXCEPT !.failed = yes, !.isComplete = yes] =
         [[message EXCEPT !.failed = yes] EXCEPT !.isComplete = yes]
  OBVIOUS
<1>3. [[data |-> data, isComplete |-> isComplete, failed |-> yes] EXCEPT !.isComplete = yes] =
         [data |-> data, isComplete |-> yes, failed |-> yes]
  OBVIOUS
<1> QED BY <1>1, <1>2, <1>3 DEF Marked

\* A failure marks the message, and leaves what has come of it
LEMMA FailureCall ==
  ASSUME DataInv, Plain(calls), calls # <<>>, HandleMessageFailure(Head(calls)), UNCHANGED replyTo
  PROVE  /\ DataInv' /\ Grows /\ DOMAIN messages' = DOMAIN messages
         /\ \A o \in DOMAIN messages : messages'[o].data = messages[o].data
         /\ \A m \in DOMAIN pendingMessages' :
              m \in DOMAIN pendingMessages /\ pendingMessages'[m] = pendingMessages[m]
         /\ \A m \in DOMAIN pendingMessages :
              m \notin DOMAIN pendingMessages' <=> Head(calls).msg = m
         /\ \E X : /\ Plain(X) /\ calls' = X \o Tail(calls)
                   /\ \A k \in 1 .. Len(X) : X[k].call = "completed"
<1> DEFINE c == Head(calls)
<1>0. <<>> \o Tail(calls) = Tail(calls)
  <2>1. Tail(calls) \in Seq({Tail(calls)[k] : k \in 1 .. Len(Tail(calls))})
    BY TailPlain, PlainIsSeq
  <2> QED BY <2>1, ConcatEmptySeq
<1>1. CASE c.msg \in DOMAIN pendingMessages
  <2> DEFINE message == pendingMessages[c.msg]
  <2>1. /\ messages' = [messages EXCEPT ![message].failed = TRUE, ![message].isComplete = TRUE]
        /\ pendingMessages' = Restrict(pendingMessages, DOMAIN pendingMessages \ {c.msg})
        /\ calls' = <<[call |-> "completed", message |-> message]>> \o Tail(calls)
    BY <1>1 DEF HandleMessageFailure
  <2> HIDE DEF message, c
  <2>2. DOMAIN messages' = DOMAIN messages
    BY <2>1
  <2>3. ASSUME NEW o \in DOMAIN messages
        PROVE  /\ messages'[o].data = messages[o].data
               /\ messages'[o] = [data |-> messages'[o].data, isComplete |-> messages'[o].isComplete,
                                  failed |-> messages'[o].failed]
    <3> DEFINE data == messages[o].data
               isComplete == messages[o].isComplete
               failed == messages[o].failed
               yes == TRUE
    <3>1. messages[o] = [data |-> data, isComplete |-> isComplete, failed |-> failed]
      BY DEF DataInv
    <3>2. CASE o = message
      <4>1. messages'[o] = Marked(messages[o], yes)
        BY <2>1, <3>2 DEF Marked
      <4> HIDE DEF data, isComplete, failed, yes
      <4>2. messages'[o] = [data |-> data, isComplete |-> yes, failed |-> yes]
        BY <3>1, <4>1, MarkedFailed
      <4> QED BY <4>2 DEF data
    <3>3. CASE o # message
      <4>1. messages'[o] = messages[o]
        BY <2>1, <3>3
      <4> QED BY <3>1, <4>1
    <3> QED BY <3>2, <3>3
  <2>4. DataInv'
    <3> SUFFICES ASSUME NEW o \in DOMAIN messages'
                 PROVE  LET data == messages'[o].data
                        IN  /\ messages'[o] = [data |-> data, isComplete |-> messages'[o].isComplete,
                                               failed |-> messages'[o].failed]
                            /\ Len(data) \in Nat /\ data = [k \in 1 .. Len(data) |-> <<o[2], k - 1>>]
      BY DEF DataInv
    <3> QED BY <2>2, <2>3 DEF DataInv
  <2>5. Grows
    BY <2>2 DEF Grows
  <2>6. \E X : /\ Plain(X) /\ calls' = X \o Tail(calls)
               /\ \A k \in 1 .. Len(X) : X[k].call = "completed"
    <3> DEFINE done == [call |-> "completed", message |-> message]
    <3>1. Plain(<<done>>) /\ Len(<<done>>) = 1 /\ <<done>>[1] = done
      BY OnePlain
    <3>2. done.call = "completed" /\ calls' = <<done>> \o Tail(calls)
      BY <2>1
    <3> HIDE DEF done
    <3>3. \A k \in 1 .. Len(<<done>>) : <<done>>[k].call = "completed"
      BY <3>1, <3>2
    <3> QED BY <3>1, <3>2, <3>3
  <2> QED BY <2>1, <2>2, <2>3, <2>4, <2>5, <2>6 DEF Restrict, c
<1>2. CASE c.msg \notin DOMAIN pendingMessages
  <2>1. calls' = Tail(calls) /\ UNCHANGED <<messages, pendingMessages>>
    BY <1>2 DEF HandleMessageFailure
  <2>2. \E X : /\ Plain(X) /\ calls' = X \o Tail(calls)
               /\ \A k \in 1 .. Len(X) : X[k].call = "completed"
    BY <2>1, <1>0, OnePlain
  <2>3. DataInv' /\ Grows
    BY <2>1 DEF DataInv, Grows
  <2> QED BY <1>2, <2>1, <2>2, <2>3
<1> QED BY <1>1, <1>2

\* One call of NodeList's thread
LEMMA CallKeeps ==
  ASSUME OrderInv, WholeInv, Call PROVE WholeInv'
<1> DEFINE c == Head(calls)
<1>1. /\ Plain(calls) /\ Plain(events) /\ resets \in Nat /\ DataInv /\ CallsInv /\ RepliesInv
      /\ SuccessIsWhole
  BY DEF WholeInv
<1>2. /\ calls # <<>> /\ events' = events \o Posted(Head(calls))
      /\ UNCHANGED <<delivered, resets, replyTo, pendingRequests, handling, answers>>
  BY DEF Call, vars, askingVars
<1>3. /\ Grows /\ DataInv' /\ CallsInv' /\ Plain(calls') /\ CallsConcernKnown
  <2>1. CASE c.call = "packet"
    <3>1. HandleVerifiedMessagePacket(c)
      BY <2>1 DEF Call
    <3>2. /\ Grows /\ DataInv' /\ CallsInv' /\ Plain(calls')
          /\ \A k \in 1 .. Len(calls') :
              \/ calls'[k].call = "deliver" /\ KnownAfter(calls'[k].message)
              \/ calls'[k].call \in {"completed", "packet"}
      BY <1>1, <1>2, <2>1, <3>1, PacketCall
    <3> QED BY <3>2 DEF CallsConcernKnown
  <2>2. CASE c.call = "failed"
    <3>1. HandleMessageFailure(c)
      BY <2>2 DEF Call
    <3>2. /\ DataInv' /\ Grows /\ DOMAIN messages' = DOMAIN messages
          /\ \A o \in DOMAIN messages : messages'[o].data = messages[o].data
          /\ \A m \in DOMAIN pendingMessages' :
               m \in DOMAIN pendingMessages /\ pendingMessages'[m] = pendingMessages[m]
          /\ \A m \in DOMAIN pendingMessages : m \notin DOMAIN pendingMessages' <=> c.msg = m
          /\ \E X : /\ Plain(X) /\ calls' = X \o Tail(calls)
                    /\ \A k \in 1 .. Len(X) : X[k].call = "completed"
      BY <1>1, <1>2, <3>1, FailureCall
    <3>3. PICK X : /\ Plain(X) /\ calls' = X \o Tail(calls)
                   /\ \A k \in 1 .. Len(X) : X[k].call = "completed"
      BY <3>2
    <3>4. CallsInv'
      BY <1>1, <1>2, <2>2, <3>2, <3>3, OtherCall
    <3>5. Plain(calls') /\ CallsConcernKnown
      BY <1>1, <1>2, <3>2, <3>3, CallsLeft
    <3> QED BY <3>2, <3>4, <3>5
  <2>3. CASE c.call \notin {"packet", "failed"}
    <3>1. calls' = Tail(calls) /\ UNCHANGED <<pendingMessages, messages>>
      BY <2>3 DEF Call
    <3>2. calls' = <<>> \o Tail(calls)
      <4>1. Tail(calls) \in Seq({Tail(calls)[k] : k \in 1 .. Len(Tail(calls))})
        BY <1>1, <1>2, TailPlain, PlainIsSeq
      <4> QED BY <3>1, <4>1, ConcatEmptySeq
    <3>3. Plain(<<>>) /\ \A k \in 1 .. Len(<<>>) : <<>>[k].call = "completed"
      BY OnePlain
    <3>4. Grows /\ DataInv'
      BY <1>1, <1>2, <3>1 DEF Grows, DataInv
    <3>5. CallsInv'
      BY <1>1, <1>2, <2>3, <3>1, <3>2, <3>3, OtherCall
    <3>6. Plain(calls') /\ CallsConcernKnown
      BY <1>1, <1>2, <3>2, <3>3, <3>4, CallsLeft
    <3> QED BY <3>4, <3>5, <3>6
  <2> QED BY <2>1, <2>2, <2>3
<1>4. Plain(events') /\ EventsConcernKnown
  BY <1>1, <1>2, <1>3, PostKeeps
<1>5. RepliesInv' /\ SuccessIsWhole'
  BY <1>1, <1>2, <1>3, <1>4, RepliesKept
<1> QED BY <1>1, <1>2, <1>3, <1>4, <1>5 DEF WholeInv

\* A step of NodeList's thread that posts nothing and touches no message
LEMMA StepKeeps ==
  ASSUME WholeInv, Grows, UNCHANGED <<messages, events, pendingRequests, handling, answers>>,
         resets' \in Nat, CallsConcernKnown, Plain(calls'), CallsInv'
  PROVE  WholeInv'
<1>1. EventsConcernKnown
  BY DEF EventsConcernKnown, WholeInv, RepliesInv, Known, KnownAfter, Grows
<1>2. RepliesInv' /\ SuccessIsWhole'
  BY <1>1, RepliesKept DEF WholeInv
<1>3. DataInv' /\ Plain(events')
  BY DEF WholeInv, DataInv
<1> QED BY <1>2, <1>3 DEF WholeInv

\* Nothing but the Node list or the Connection's request for a handshake
LEMMA QuietKeeps ==
  ASSUME WholeInv,
         UNCHANGED <<messages, pendingMessages, calls, delivered, resets, replyTo, events,
                     pendingRequests, handling, answers>>
  PROVE  WholeInv'
<1>1. Grows
  BY DEF Grows
<1>2. CallsInv' /\ Plain(calls')
  BY <1>1, CallsKept DEF WholeInv
<1>3. CallsConcernKnown
  BY DEF CallsConcernKnown, WholeInv, RepliesInv, Known, KnownAfter
<1> QED BY <1>1, <1>2, <1>3, StepKeeps DEF WholeInv

\* A packet of the Connection
LEMMA ReceiveKeeps ==
  ASSUME OrderInv, OrderInv', WholeInv, NEW i \in Offsets, Receive(i) PROVE WholeInv'
<1>1. /\ CallsInv' /\ Plain(calls') /\ Grows
      /\ \A k \in 1 .. Len(calls') : calls'[k].call = "packet"
  BY ReceiveCalls DEF WholeInv
<1>2. CallsConcernKnown
  BY <1>1 DEF CallsConcernKnown
<1>3. UNCHANGED <<messages, events, pendingRequests, handling, answers, resets>>
  BY DEF Receive, ReceivePacket, askingVars
<1> QED BY <1>1, <1>2, <1>3, StepKeeps DEF WholeInv

\* A handshake, with the failures of a reset before its signal
LEMMA HandshakeKeeps ==
  ASSUME OrderInv, WholeInv, NEW initial \in Initials, Handshake(initial) PROVE WholeInv'
<1> DEFINE A == IF resets' # resets THEN Failures ELSE <<>>
           signal == [call |-> "signal", event |-> [event |-> "reset", node |-> node]]
           B == IF didRequestHandshake THEN <<signal>> ELSE <<>>
<1>1. /\ calls = <<>> /\ calls' = A \o B
      /\ UNCHANGED <<messages, pendingMessages, events, pendingRequests, handling, answers, replyTo>>
      /\ resets \in Nat /\ CallsInv
  BY DEF Handshake, askingVars, WholeInv
<1>2. DOMAIN pendingReceivedMessages \subseteq Messages
  BY DEF OrderInv
<1>3. /\ Plain(Failures) /\ \A k \in 1 .. Len(Failures) : Failures[k].call = "failed"
      /\ \A m \in DOMAIN pendingReceivedMessages :
            \E k \in 1 .. Len(Failures) : Failures[k].call = "failed" /\ Failures[k].msg = m
  BY <1>2, FailuresOfAll
<1>4. /\ Plain(A) /\ \A k \in 1 .. Len(A) : A[k].call = "failed"
  BY <1>3, OnePlain
<1>5. Plain(B) /\ \A k \in 1 .. Len(B) : B[k] = signal
  BY OnePlain
<1>6. signal.call = "signal" /\ signal.event.event = "reset"
  OBVIOUS
<1> HIDE DEF signal
<1>7. \/ /\ resets' = resets + 1 /\ delivered' = [m \in Messages |-> <<>>] /\ A = Failures
      \/ /\ resets' = resets /\ delivered' = delivered /\ A = <<>>
  BY <1>1 DEF Handshake, ProcessHandshake, ResetReceiveState
<1> HIDE DEF A, B
<1>8. /\ Plain(calls') /\ Len(calls') = Len(A) + Len(B) /\ Len(A) \in Nat /\ Len(B) \in Nat
      /\ \A k \in 1 .. Len(A) + Len(B) : calls'[k] = IF k <= Len(A) THEN A[k] ELSE B[k - Len(A)]
  <2>1. Len(A) \in Nat /\ Len(B) \in Nat
    BY <1>4, <1>5 DEF Plain
  <2> QED BY <2>1, <1>1, <1>4, <1>5, ConcatPlain
<1>9. ASSUME NEW k \in 1 .. Len(calls')
      PROVE  \/ k <= Len(A) /\ k \in 1 .. Len(A) /\ calls'[k].call = "failed"
             \/ ~(k <= Len(A)) /\ calls'[k] = signal
  <2>1. CASE k <= Len(A)
    <3>1. k \in 1 .. Len(A) /\ calls'[k] = A[k]
      BY <2>1, <1>8
    <3> QED BY <2>1, <3>1, <1>4
  <2>2. CASE ~(k <= Len(A))
    <3> DEFINE j == k - Len(A)
    <3>1. j \in 1 .. Len(B) /\ calls'[k] = B[j]
      BY <2>2, <1>8
    <3> HIDE DEF j
    <3> QED BY <2>2, <3>1, <1>5
  <2> QED BY <2>1, <2>2
<1>10. Grows /\ CallsConcernKnown
  BY <1>1, <1>6, <1>9 DEF Grows, CallsConcernKnown
<1>11. CallsInv'
  <2>1. CASE resets' = resets + 1 /\ delivered' = [m \in Messages |-> <<>>] /\ A = Failures
    <3>1. ASSUME NEW m \in DOMAIN pendingReceivedMessages
          PROVE  \E k \in 1 .. Len(calls') : calls'[k].call = "failed" /\ calls'[k].msg = m
      <4>1. PICK k \in 1 .. Len(A) : A[k].call = "failed" /\ A[k].msg = m
        BY <2>1, <1>3
      <4>2. k \in 1 .. Len(calls') /\ calls'[k] = A[k]
        BY <1>8
      <4> QED BY <4>1, <4>2
    <3>2. \A k \in 1 .. Len(calls') : calls'[k].call # "packet"
      BY <1>6, <1>9
    <3> QED BY <2>1, <3>1, <3>2, <1>1, <1>8, FailingCalls
  <2>2. CASE resets' = resets /\ delivered' = delivered /\ A = <<>>
    <3>1. Len(A) = 0
      BY <2>2, OnePlain
    <3>2. \A k \in 1 .. Len(calls') : calls'[k].call \notin {"packet", "failed"}
      BY <3>1, <1>6, <1>9
    <3> QED BY <2>2, <3>2, <1>1, <1>8, IdleCalls
  <2> QED BY <2>1, <2>2, <1>7
<1>12. resets' \in Nat
  BY <1>1, <1>7
<1> QED BY <1>1, <1>8, <1>10, <1>11, <1>12, StepKeeps

\* The Node's end, with its signal before the failures
LEMMA KillKeeps ==
  ASSUME OrderInv, WholeInv, KillNode PROVE WholeInv'
<1> DEFINE A == Failures
           signal == [call |-> "signal", event |-> [event |-> "killed", node |-> node]]
           B == <<signal>>
<1>1. /\ calls = <<>> /\ calls' = B \o A
      /\ UNCHANGED <<messages, pendingMessages, events, pendingRequests, handling, answers, replyTo, resets>>
      /\ delivered' = [m \in Messages |-> <<>>]
      /\ resets \in Nat /\ CallsInv
  BY DEF KillNode, CleanupConnection, askingVars, WholeInv
<1>2. DOMAIN pendingReceivedMessages \subseteq Messages
  BY DEF OrderInv
<1>3. /\ Plain(A) /\ \A k \in 1 .. Len(A) : A[k].call = "failed"
      /\ \A m \in DOMAIN pendingReceivedMessages :
            \E k \in 1 .. Len(A) : A[k].call = "failed" /\ A[k].msg = m
  BY <1>2, FailuresOfAll
<1>4. signal.call = "signal" /\ signal.event.event = "killed"
  OBVIOUS
<1> HIDE DEF signal
<1>5. Plain(B) /\ Len(B) = 1 /\ B[1] = signal
  BY OnePlain
<1> HIDE DEF A, B
<1>6. /\ Plain(calls') /\ Len(calls') = 1 + Len(A) /\ Len(A) \in Nat
      /\ \A k \in 1 .. 1 + Len(A) : calls'[k] = IF k <= 1 THEN B[k] ELSE A[k - 1]
  <2>1. Len(A) \in Nat
    BY <1>3 DEF Plain
  <2>2. /\ Plain(B \o A) /\ Len(B \o A) = Len(B) + Len(A)
        /\ \A k \in 1 .. Len(B) + Len(A) : (B \o A)[k] = IF k <= Len(B) THEN B[k] ELSE A[k - Len(B)]
    BY <1>3, <1>5, ConcatPlain
  <2> QED BY <2>1, <2>2, <1>1, <1>5
<1>7. ASSUME NEW k \in 1 .. Len(calls') PROVE calls'[k].call = "failed" \/ calls'[k] = signal
  <2>1. CASE k = 1
    BY <2>1, <1>5, <1>6
  <2>2. CASE k # 1
    <3> DEFINE j == k - 1
    <3>1. j \in 1 .. Len(A) /\ calls'[k] = A[j]
      BY <2>2, <1>6
    <3> HIDE DEF j
    <3> QED BY <3>1, <1>3
  <2> QED BY <2>1, <2>2
<1>8. Grows /\ CallsConcernKnown
  BY <1>1, <1>4, <1>7 DEF Grows, CallsConcernKnown
<1>9. CallsInv'
  <2>1. ASSUME NEW m \in DOMAIN pendingReceivedMessages
        PROVE  \E k \in 1 .. Len(calls') : calls'[k].call = "failed" /\ calls'[k].msg = m
    <3>1. PICK k \in 1 .. Len(A) : A[k].call = "failed" /\ A[k].msg = m
      BY <1>3
    <3> DEFINE h == k + 1
    <3>2. h \in 1 .. Len(calls') /\ calls'[h] = A[k]
      BY <1>6
    <3> HIDE DEF h
    <3> QED BY <3>1, <3>2
  <2>2. \A k \in 1 .. Len(calls') : calls'[k].call # "packet"
    BY <1>4, <1>7
  <2> QED BY <2>1, <2>2, <1>1, <1>6, FailingCalls
<1> QED BY <1>1, <1>6, <1>8, <1>9, StepKeeps

-----------------------------------------------------------------------------
\* A callback that is called with a message's outcome, or with a failure
LEMMA AnswerIsWhole ==
  ASSUME RequestsInv, DataInv, SuccessIsWhole, NEW r \in DOMAIN pendingRequests,
         NEW message, Known(message), replyTo[message] = r, NEW outcome,
         outcome \in {Outcome(message), Failure}, Answer(r, outcome), UNCHANGED replyTo
  PROVE  SuccessIsWhole'
<1>1. /\ r \in Requests /\ answers = [q \in Requests |-> answers[q]] /\ answers[r] = <<>>
      /\ Requests' = Requests /\ \A m : NumPackets(m)' = NumPackets(m)
  BY ClientAssumption DEF RequestsInv, Requests, NumPackets, PartsOf, Offsets
<1>2. answers'[r] = <<outcome>> /\ \A q \in Requests : q # r => answers'[q] = answers[q]
  <2>1. answers' = [answers EXCEPT ![r] = Append(<<>>, outcome)]
    BY <1>1 DEF Answer
  <2>2. Append(<<>>, outcome) = <<outcome>>
    BY AppendToNone
  <2> QED BY <2>1, <2>2, <1>1
<1>3. ASSUME outcome.success
      PROVE  outcome.data = [k \in 1 .. NumPackets(message[1]) |-> <<message[2], k - 1>>]
  <2>1. outcome # Failure
    BY <1>3 DEF Failure
  <2>2. outcome = Outcome(message)
    BY <2>1
  <2>3. IsWhole(message) /\ outcome.data = messages[message].data
    BY <2>1, <2>2 DEF Outcome
  <2> QED BY <2>3 DEF IsWhole, DataInv, Known
<1>4. ASSUME NEW q \in Requests, NEW a \in Range(answers'[q]), a.success
      PROVE  \E o \in DOMAIN replyTo :
                /\ replyTo[o] = q
                /\ a.data = [k \in 1 .. NumPackets(o[1]) |-> <<o[2], k - 1>>]
  <2>1. CASE q = r
    <3>1. a = outcome
      BY <2>1, <1>2 DEF Range
    <3> QED BY <2>1, <3>1, <1>3, <1>4 DEF Known
  <2>2. CASE q # r
    <3>1. a \in Range(answers[q])
      BY <2>2, <1>2
    <3> QED BY <3>1, <1>4 DEF SuccessIsWhole
  <2> QED BY <2>1, <2>2
<1> QED BY <1>1, <1>4 DEF SuccessIsWhole

\* A failure is no success
LEMMA FailuresAreNone ==
  ASSUME RequestsInv, SuccessIsWhole, NEW rs \in SUBSET DOMAIN pendingRequests, FailRequests(rs),
         UNCHANGED replyTo
  PROVE  SuccessIsWhole'
<1>1. /\ rs \subseteq Requests /\ \A r \in rs : answers[r] = <<>>
      /\ Requests' = Requests /\ \A m : NumPackets(m)' = NumPackets(m)
  BY ClientAssumption DEF RequestsInv, Requests, NumPackets, PartsOf, Offsets
<1>2. \A r \in Requests : answers'[r] = IF r \in rs THEN <<Failure>> ELSE answers[r]
  <2>1. \A r \in Requests : answers'[r] = IF r \in rs THEN Append(answers[r], Failure) ELSE answers[r]
    BY DEF FailRequests
  <2> QED BY <2>1, <1>1, AppendToNone
<1>3. ASSUME NEW q \in Requests, NEW a \in Range(answers'[q]), a.success
      PROVE  \E o \in DOMAIN replyTo :
                /\ replyTo[o] = q
                /\ a.data = [k \in 1 .. NumPackets(o[1]) |-> <<o[2], k - 1>>]
  <2>1. q \notin rs
    <3> SUFFICES ASSUME q \in rs PROVE FALSE
      OBVIOUS
    <3>1. a = Failure
      BY <1>2 DEF Range
    <3> QED BY <3>1, <1>3 DEF Failure
  <2>2. a \in Range(answers[q])
    BY <2>1, <1>2
  <2> QED BY <2>2, <1>3 DEF SuccessIsWhole
<1> QED BY <1>1, <1>3 DEF SuccessIsWhole

\* AssetClient's thread touches neither the calls nor the messages
LEMMA AskingKeeps ==
  ASSUME WholeInv, UNCHANGED <<vars, receiverVars, replyTo>>, RepliesInv', SuccessIsWhole',
         Plain(events')
  PROVE  WholeInv'
<1>1. Grows
  BY DEF Grows, receiverVars
<1>2. UNCHANGED <<calls, delivered, resets, messages, pendingMessages>>
  BY DEF vars, receiverVars
<1>3. CallsInv'
  BY <1>1, <1>2, CallsKept DEF WholeInv
<1>4. DataInv' /\ Plain(calls') /\ resets' \in Nat
  BY <1>2 DEF WholeInv, DataInv
<1> QED BY <1>3, <1>4 DEF WholeInv

\* The pending requests that are left are as they were
LEMMA RequestsLeft ==
  ASSUME RepliesInv, UNCHANGED <<calls, messages, replyTo>>,
         \A r \in DOMAIN pendingRequests' :
            r \in DOMAIN pendingRequests /\ pendingRequests'[r] = pendingRequests[r],
         handling' = handling \/ handling'.kind # "reply",
         \A k \in 1 .. Len(events') : events'[k].event = "reply" => Known(events'[k].message)
  PROVE  RepliesInv'
<1>1. \A message : Known(message)' <=> Known(message)
  BY DEF Known
<1>2. handling'.kind = "reply" => handling' = handling
  OBVIOUS
<1>3. ASSUME NEW r \in DOMAIN pendingRequests'
      PROVE  LET message == pendingRequests'[r].message
             IN  /\ pendingRequests'[r] = [node |-> pendingRequests'[r].node, message |-> message]
                 /\ message # NoMessage => Known(message) /\ replyTo[message] = r
  BY DEF RepliesInv
<1> QED BY <1>1, <1>2, <1>3 DEF RepliesInv, NoMessage

\* A request that is begun, sent or cancelled
LEMMA SendingKeeps ==
  ASSUME IInv, WholeInv, FindAssetServer \/ SendRequest \/ \E r \in Requests : CancelRequest(r)
  PROVE  WholeInv'
<1>1. /\ UNCHANGED <<vars, receiverVars, replyTo, events, answers>>
      /\ UNCHANGED <<calls, messages>>
  BY DEF FindAssetServer, SendRequest, CancelRequest, receiverVars
<1>2. SuccessIsWhole' /\ Plain(events')
  BY <1>1 DEF WholeInv, SuccessIsWhole, Requests, NumPackets, PartsOf, Offsets
<1>3. \A k \in 1 .. Len(events') : events'[k].event = "reply" => Known(events'[k].message)
  BY <1>1 DEF WholeInv, RepliesInv
<1>4. RepliesInv'
  <2>1. CASE FindAssetServer
    <3>1. handling'.kind # "reply" /\ UNCHANGED pendingRequests
      BY <2>1 DEF FindAssetServer
    <3> QED BY <1>1, <1>3, <3>1, RequestsLeft DEF WholeInv
  <2>2. CASE SendRequest
    <3>1. /\ handling'.kind # "reply" /\ handling.kind = "sending"
          /\ pendingRequests' = [r \in DOMAIN pendingRequests \cup {currentID'} |->
                IF r = currentID' THEN [node |-> handling.node, message |-> NoMessage]
                ELSE pendingRequests[r]]
      BY <2>2 DEF SendRequest, None
    <3>2. \A message : Known(message)' <=> Known(message)
      BY <1>1 DEF Known
    <3>3. ASSUME NEW r \in DOMAIN pendingRequests'
          PROVE  LET message == pendingRequests'[r].message
                 IN  /\ pendingRequests'[r] = [node |-> pendingRequests'[r].node, message |-> message]
                     /\ message # NoMessage => Known(message) /\ replyTo[message] = r
      <4>1. CASE r = currentID'
        <5>1. pendingRequests'[r] = [node |-> handling.node, message |-> NoMessage]
          BY <3>1, <4>1
        <5> QED BY <5>1
      <4>2. CASE r # currentID'
        <5>1. r \in DOMAIN pendingRequests /\ pendingRequests'[r] = pendingRequests[r]
          BY <3>1, <4>2
        <5> QED BY <5>1 DEF WholeInv, RepliesInv
      <4> QED BY <4>1, <4>2
    <3> QED BY <1>1, <1>3, <3>1, <3>2, <3>3 DEF RepliesInv, NoMessage, WholeInv
  <2>3. CASE \E r \in Requests : CancelRequest(r)
    <3>1. PICK r \in Requests : CancelRequest(r)
      BY <2>3
    <3>2. pendingRequests' = Restrict(pendingRequests, DOMAIN pendingRequests \ {r}) /\ handling' = handling
      BY <3>1 DEF CancelRequest, Erase
    <3>3. \A q \in DOMAIN pendingRequests' :
             q \in DOMAIN pendingRequests /\ pendingRequests'[q] = pendingRequests[q]
      BY <3>2 DEF Restrict
    <3> QED BY <1>1, <1>3, <3>2, <3>3, RequestsLeft DEF WholeInv
  <2> QED BY <2>1, <2>2, <2>3
<1> QED BY <1>1, <1>2, <1>4, AskingKeeps

\* One that fails to be sent is not answered with success
LEMMA FailToSendIsWhole ==
  ASSUME IInv, WholeInv, FailToSendRequest PROVE WholeInv'
<1>1. /\ UNCHANGED <<vars, receiverVars, replyTo, events, pendingRequests>>
      /\ UNCHANGED <<calls, messages>> /\ handling'.kind # "reply"
  BY DEF FailToSendRequest, receiverVars, None
<1>2. /\ answers'[currentID'] = <<Failure>>
      /\ \A r \in Requests \ {currentID'} : answers'[r] = answers[r]
  BY FailToSendKeeps
<1>3. ASSUME NEW q \in Requests, NEW a \in Range(answers'[q]), a.success
      PROVE  \E o \in DOMAIN replyTo :
                /\ replyTo[o] = q
                /\ a.data = [k \in 1 .. NumPackets(o[1]) |-> <<o[2], k - 1>>]
  <2>1. CASE q = currentID'
    <3>1. a = Failure
      BY <2>1, <1>2, AppendToNone DEF Range
    <3> QED BY <3>1, <1>3 DEF Failure
  <2>2. CASE q # currentID'
    <3>1. a \in Range(answers[q])
      BY <2>2, <1>2
    <3> QED BY <3>1, <1>3 DEF WholeInv, SuccessIsWhole
  <2> QED BY <2>1, <2>2
<1>4. SuccessIsWhole'
  BY <1>1, <1>3 DEF SuccessIsWhole, Requests, NumPackets, PartsOf, Offsets
<1>5. Plain(events')
  BY <1>1 DEF WholeInv
<1>6. \A k \in 1 .. Len(events') : events'[k].event = "reply" => Known(events'[k].message)
  BY <1>1 DEF WholeInv, RepliesInv
<1>7. RepliesInv'
  <2>1. \A r \in DOMAIN pendingRequests' :
          r \in DOMAIN pendingRequests /\ pendingRequests'[r] = pendingRequests[r]
    BY <1>1
  <2> QED BY <1>1, <1>6, <2>1, RequestsLeft DEF WholeInv
<1> QED BY <1>1, <1>4, <1>5, <1>7, AskingKeeps

\* The end of handleAssetGetReply answers with what its own message holds
LEMMA FinishIsWhole ==
  ASSUME IInv, WholeInv, FinishGetReply PROVE WholeInv'
<1> DEFINE message == handling.message
           r == handling.request
<1>1. /\ UNCHANGED <<vars, receiverVars, replyTo, events>>
      /\ UNCHANGED <<calls, messages>>
      /\ handling.kind = "reply" /\ handling'.kind # "reply"
  BY DEF FinishGetReply, receiverVars, None
<1>2. /\ r \in DOMAIN pendingRequests /\ Known(message) /\ replyTo[message] = r
  BY <1>1 DEF IInv, HandlingInv, WholeInv, RepliesInv
<1>3. \A k \in 1 .. Len(events') : events'[k].event = "reply" => Known(events'[k].message)
  BY <1>1 DEF WholeInv, RepliesInv
<1>4. Plain(events')
  BY <1>1 DEF WholeInv
<1>5. RepliesInv'
  <2>1. pendingRequests' \in {Erase({r}), pendingRequests}
    BY DEF FinishGetReply
  <2>2. \A q \in DOMAIN pendingRequests' :
             q \in DOMAIN pendingRequests /\ pendingRequests'[q] = pendingRequests[q]
    BY <2>1 DEF Erase, Restrict
  <2> QED BY <1>1, <1>3, <2>2, RequestsLeft DEF WholeInv
<1>6. SuccessIsWhole'
  <2>1. CASE messages[message].isComplete
    <3>1. Answer(r, Outcome(message))
      BY <2>1 DEF FinishGetReply
    <3> QED BY <3>1, <1>1, <1>2, AnswerIsWhole DEF WholeInv, IInv
  <2>2. CASE ~messages[message].isComplete
    <3>1. answers' = answers
      BY <2>2 DEF FinishGetReply
    <3> QED BY <3>1, <1>1 DEF WholeInv, SuccessIsWhole, Requests, NumPackets, PartsOf, Offsets
  <2> QED BY <2>1, <2>2
<1> QED BY <1>1, <1>4, <1>5, <1>6, AskingKeeps

\* A posted event answers with what the message of its request holds
LEMMA EventIsWhole ==
  ASSUME IInv, WholeInv, HandleEvent PROVE WholeInv'
<1> DEFINE e == Head(events)
           ofNode == {r \in DOMAIN pendingRequests : IsPendingAt(r, e.node)}
           rs == {r \in ofNode : Kinds[r] # "upload"}
<1>1. /\ UNCHANGED <<vars, receiverVars, replyTo>> /\ UNCHANGED <<calls, messages>>
      /\ handling = None /\ events # <<>> /\ events' = Tail(events)
  BY DEF HandleEvent, receiverVars
<1>2. RequestsInv /\ DataInv /\ RepliesInv /\ SuccessIsWhole /\ Plain(events)
  BY DEF IInv, WholeInv
<1>3. /\ Plain(events') /\ Len(events') = Len(events) - 1 /\ e = events[1] /\ 1 \in 1 .. Len(events)
      /\ \A k \in 1 .. Len(events) - 1 : events'[k] = events[k + 1]
      /\ Len(events) \in Nat
  BY <1>1, <1>2, TailPlain DEF Plain
<1>4. e.event = "reply" => Known(e.message)
  BY <1>2, <1>3 DEF RepliesInv
<1>5. ASSUME NEW k \in 1 .. Len(events'), events'[k].event = "reply" PROVE Known(events'[k].message)
  <2> DEFINE h == k + 1
  <2>1. h \in 1 .. Len(events) /\ events'[k] = events[h]
    BY <1>3
  <2> HIDE DEF h
  <2> QED BY <2>1, <1>2, <1>5 DEF RepliesInv
<1>6. \/ e.event = "reply" /\ BeginGetReply(e)
      \/ e.event = "reply" /\ HandleReply(e)
      \/ HandleCompleteCallback(e)
      \/ FailRequests(ofNode)
      \/ FailRequests(rs)
  BY DEF HandleEvent
<1>7. ofNode \subseteq DOMAIN pendingRequests /\ rs \subseteq DOMAIN pendingRequests
  OBVIOUS
<1> HIDE DEF e, ofNode, rs
<1>8. ASSUME UNCHANGED answers PROVE SuccessIsWhole'
  BY <1>1, <1>2, <1>8 DEF SuccessIsWhole, Requests, NumPackets, PartsOf, Offsets
<1>9. ASSUME handling' = handling,
             \E erased : pendingRequests' = Restrict(pendingRequests, DOMAIN pendingRequests \ erased)
      PROVE  RepliesInv'
  <2>1. \A q \in DOMAIN pendingRequests' :
             q \in DOMAIN pendingRequests /\ pendingRequests'[q] = pendingRequests[q]
    BY <1>9 DEF Restrict
  <2> QED BY <1>1, <1>2, <1>5, <1>9, <2>1, RequestsLeft
<1>10. ASSUME UNCHANGED <<handling, pendingRequests>> PROVE RepliesInv'
  BY <1>1, <1>2, <1>5, <1>10, RequestsLeft
<1>11. RepliesInv' /\ SuccessIsWhole'
  <2>1. CASE e.event = "reply" /\ BeginGetReply(e)
    <3> DEFINE r == replyTo[e.message]
               message == e.message
    <3>1. CASE IsPendingAt(r, e.node)
      <4>1. /\ pendingRequests' = [pendingRequests EXCEPT ![r].message = message]
            /\ handling' = [kind |-> "reply", message |-> message, request |-> r]
            /\ r \in DOMAIN pendingRequests /\ answers' = answers
        BY <2>1, <3>1 DEF BeginGetReply, IsPendingAt
      <4>2. Known(message) /\ replyTo[message] = r
        BY <2>1, <1>4
      <4> HIDE DEF r, message
      <4>3. handling'.message = message /\ handling'.request = r
        BY <4>1
      <4>4. \A o : Known(o)' <=> Known(o)
        BY <1>1 DEF Known
      <4>5. ASSUME NEW q \in DOMAIN pendingRequests'
            PROVE  LET o == pendingRequests'[q].message
                   IN  /\ pendingRequests'[q] = [node |-> pendingRequests'[q].node, message |-> o]
                       /\ o # NoMessage => Known(o) /\ replyTo[o] = q
        <5>1. q \in DOMAIN pendingRequests
          BY <4>1
        <5>2. CASE q = r
          <6> DEFINE n == pendingRequests[r].node
                     o == pendingRequests[r].message
          <6>1. pendingRequests[r] = [node |-> n, message |-> o]
            BY <4>1, <1>2 DEF RepliesInv
          <6>2. pendingRequests'[q] = [pendingRequests[r] EXCEPT !.message = message]
            BY <4>1, <5>2
          <6> HIDE DEF n, o
          <6>3. pendingRequests'[q] = [node |-> n, message |-> message]
            BY <6>1, <6>2
          <6> QED BY <6>3, <5>2, <4>2
        <5>3. CASE q # r
          <6>1. pendingRequests'[q] = pendingRequests[q]
            BY <4>1, <5>1, <5>3
          <6> QED BY <5>1, <6>1, <1>2 DEF RepliesInv
        <5> QED BY <5>2, <5>3
      <4>6. RepliesInv'
        BY <1>1, <1>2, <1>5, <4>2, <4>3, <4>4, <4>5 DEF RepliesInv, NoMessage
      <4> QED BY <4>1, <4>6, <1>8
    <3>2. CASE ~IsPendingAt(r, e.node)
      <4>1. UNCHANGED <<pendingRequests, handling, answers>>
        BY <2>1, <3>2 DEF BeginGetReply
      <4> QED BY <4>1, <1>8, <1>10
    <3> QED BY <3>1, <3>2
  <2>2. CASE e.event = "reply" /\ HandleReply(e)
    <3> DEFINE r == replyTo[e.message]
    <3>1. CASE IsPendingAt(r, e.node)
      <4>1. /\ Answer(r, Outcome(e.message)) /\ pendingRequests' = Erase({r})
            /\ r \in DOMAIN pendingRequests /\ handling' = handling
        BY <2>2, <3>1 DEF HandleReply, IsPendingAt
      <4>2. RepliesInv'
        BY <4>1, <1>9 DEF Erase
      <4>3. SuccessIsWhole'
        BY <4>1, <2>2, <1>1, <1>2, <1>4, AnswerIsWhole
      <4> QED BY <4>2, <4>3
    <3>2. CASE ~IsPendingAt(r, e.node)
      <4>1. UNCHANGED <<pendingRequests, handling, answers>>
        BY <2>2, <3>2 DEF HandleReply
      <4> QED BY <4>1, <1>8, <1>10
    <3> QED BY <3>1, <3>2
  <2>3. CASE HandleCompleteCallback(e)
    <3> DEFINE r == replyTo[e.message]
               message == pendingRequests[r].message
               outcome == IF messages[message].failed THEN Failure ELSE Outcome(message)
    <3>1. CASE IsPendingAt(r, e.node) /\ message # NoMessage
      <4>1. /\ Answer(r, outcome) /\ pendingRequests' = Erase({r})
            /\ r \in DOMAIN pendingRequests /\ handling' = handling
        BY <2>3, <3>1 DEF HandleCompleteCallback, IsPendingAt
      <4>2. RepliesInv'
        BY <4>1, <1>9 DEF Erase
      <4>3. Known(message) /\ replyTo[message] = r
        BY <4>1, <3>1, <1>2 DEF RepliesInv
      <4>4. outcome \in {Outcome(message), Failure}
        OBVIOUS
      <4> HIDE DEF outcome, message, r
      <4>5. SuccessIsWhole'
        BY <4>1, <4>3, <4>4, <1>1, <1>2, AnswerIsWhole
      <4> QED BY <4>2, <4>5
    <3>2. CASE ~(IsPendingAt(r, e.node) /\ message # NoMessage)
      <4>1. UNCHANGED <<pendingRequests, handling, answers>>
        BY <2>3, <3>2 DEF HandleCompleteCallback
      <4> QED BY <4>1, <1>8, <1>10
    <3> QED BY <3>1, <3>2
  <2>4. ASSUME NEW failing \in SUBSET DOMAIN pendingRequests, FailRequests(failing)
        PROVE  RepliesInv' /\ SuccessIsWhole'
    <3>1. pendingRequests' = Erase(failing) /\ handling' = handling
      BY <2>4 DEF FailRequests
    <3>2. RepliesInv'
      BY <3>1, <1>9 DEF Erase
    <3>3. SuccessIsWhole'
      BY <2>4, <1>1, <1>2, FailuresAreNone
    <3> QED BY <3>2, <3>3
  <2> QED BY <2>1, <2>2, <2>3, <2>4, <1>6, <1>7
<1> QED BY <1>1, <1>3, <1>11, AskingKeeps

\* Nothing has been handed over, nor answered, at first
LEMMA InitWhole == ClientInit => WholeInv
<1> SUFFICES ASSUME ClientInit PROVE WholeInv
  OBVIOUS
<1>1. /\ calls = <<>> /\ events = <<>> /\ resets = 0
      /\ DOMAIN messages = {} /\ DOMAIN pendingMessages = {} /\ DOMAIN pendingRequests = {}
      /\ handling.kind = "none" /\ answers = [r \in Requests |-> <<>>]
      /\ delivered = [m \in Messages |-> <<>>]
  BY DEF ClientInit, Init, NoMessages, None
<1>2. Plain(calls) /\ Plain(events) /\ Len(calls) = 0 /\ Len(events) = 0
  BY <1>1, OnePlain
<1>3. CallsInv
  <2>1. \A m \in Messages : Len(delivered[m]) = 0
    BY <1>1, OnePlain
  <2>2. ASSUME NEW m \in Messages PROVE PacketReceiverHas(m, Len(delivered[m]) - IF m = 0 THEN 0 ELSE 0)
    <3>1. Len(delivered[m]) - (IF m = 0 THEN 0 ELSE 0) = 0
      BY <2>1
    <3> QED BY <3>1, <1>1 DEF PacketReceiverHas
  <2>3. CallsHold(0, 0)
    BY <1>2, <2>1, <2>2 DEF CallsHold, IsFailing
  <2> QED BY <1>1, <1>2, <2>3 DEF CallsInv
<1>4. DataInv /\ RepliesInv
  BY <1>1, <1>2 DEF DataInv, RepliesInv
<1>5. SuccessIsWhole
  <2>1. \A r \in Requests : Range(answers[r]) = {}
    BY <1>1 DEF Range
  <2> QED BY <2>1 DEF SuccessIsWhole
<1> QED BY <1>1, <1>2, <1>3, <1>4, <1>5 DEF WholeInv

\* Every step keeps PacketReceiver in line with the Connection
LEMMA NextIsWhole ==
  IInv /\ OrderInv /\ OrderInv' /\ WholeInv /\ [ClientNext]_clientVars => WholeInv'
<1> SUFFICES ASSUME IInv, OrderInv, OrderInv', WholeInv, [ClientNext]_clientVars PROVE WholeInv'
  OBVIOUS
<1>1. CASE \E i \in Offsets : Receive(i)
  BY <1>1, ReceiveKeeps
<1>2. CASE RequestHandshakeOfNode
  BY <1>2, QuietKeeps DEF RequestHandshakeOfNode, RequestHandshake, receiverVars, askingVars
<1>3. CASE \E initial \in Initials : Handshake(initial)
  BY <1>3, HandshakeKeeps
<1>4. CASE KillNode
  BY <1>4, KillKeeps
<1>5. CASE AddNode
  BY <1>5, QuietKeeps DEF AddNode, vars, askingVars
<1>6. CASE Call
  BY <1>6, CallKeeps
<1>7. CASE FindAssetServer \/ SendRequest \/ \E r \in Requests : CancelRequest(r)
  BY <1>7, SendingKeeps
<1>11. CASE FailToSendRequest
  BY <1>11, FailToSendIsWhole
<1>8. CASE FinishGetReply
  BY <1>8, FinishIsWhole
<1>9. CASE HandleEvent
  BY <1>9, EventIsWhole
<1>10. CASE UNCHANGED clientVars
  BY <1>10, QuietKeeps DEF clientVars, vars, receiverVars, askingVars
<1> QED BY <1>1, <1>2, <1>3, <1>4, <1>5, <1>6, <1>7, <1>8, <1>9, <1>10, <1>11
        DEF ClientNext

(***************************************************************************)
(* A callback that handleAssetGetReply or handleCompleteCallback calls with*)
(* success gets the packets, in order, of one message that answers its own *)
(* request, whatever resets, kills and failures cut across the messages    *)
(* under way; and each callback is called once.                            *)
(***************************************************************************)
THEOREM AnsweredOnceAndWholeAlways ==
  ASSUME NoneWraps PROVE ClientSpec => []AnsweredOnceAndWhole
<1>1. ClientSpec => []OrderInv
  BY ClientReceives, ReceiveInvariance, PTL DEF ReceiveInv
<1>2. ClientSpec => []IInv
  BY RequestsInvariance
<1>3. ClientInit => WholeInv
  BY InitWhole
<1>4. IInv /\ OrderInv /\ OrderInv' /\ WholeInv /\ [ClientNext]_clientVars => WholeInv'
  BY NextIsWhole
<1>5. WholeInv => SuccessIsWhole
  BY DEF WholeInv
<1>6. AnsweredOnce /\ SuccessIsWhole => AnsweredOnceAndWhole
  BY DEF AnsweredOnceAndWhole
<1> QED BY <1>1, <1>2, <1>3, <1>4, <1>5, <1>6, AnsweredOnceAlways, PTL DEF ClientSpec
=============================================================================
