------------------------- MODULE PacketQueue_proofs -------------------------
(***************************************************************************)
(* For any number of lists and of packets in them: takePacket always finds *)
(* a packet; neither the main channel nor the oldest list starves, with    *)
(* any limit of at least two on the channels served in a round; lists less *)
(* than MAX_MESSAGE_NUMBER apart never carry the same message number; and  *)
(* the channels are a FIFO queue per list.                                 *)
(***************************************************************************)
EXTENDS PacketQueue, SequenceTheorems, TLAPS

(***************************************************************************)
(* The inductive invariant                                                 *)
(***************************************************************************)

\* number is what the n-th list is given
IsNumberOf(number, n) ==
    /\ number \in 0 .. MAX_MESSAGE_NUMBER - 1
    /\ \E k \in Nat : n = k * MAX_MESSAGE_NUMBER + number

ListPacket ==
    {p \in [list : 0 .. MaxLists, message : Nat, part : Nat, isLast : BOOLEAN] :
        IsNumberOf(p.message, p.list)}

LonePacket == [list : {0}, part : Nat]

Packet == ListPacket \cup LonePacket

NumberInv ==
    /\ lists \in 0 .. MaxLists /\ alone \in Nat
    /\ IsNumberOf(currentMessageNumber, lists)
    /\ last \in Packet \cup {NoPacket}

\* Only the main channel, the first, may be empty, and the cursor is on one
ChannelInv ==
    /\ channels \in Seq(Seq(Packet))
    /\ \A i \in 2 .. Len(channels) : channels[i] # <<>>
    /\ currentChannel \in 1 .. Len(channels)

\* A round starts at the main channel; channelsVisitedCount bounds how long
\* the main channel has waited, and the second one since it was passed
TurnInv ==
    /\ channelsVisitedCount \in 0 .. MAX_CHANNELS_SENT_CONCURRENTLY - 1
    /\ currentChannel = 1 <=> channelsVisitedCount = 0
    /\ waits \in [1 .. 2 -> Nat]
    /\ waits[1] <= IF channelsVisitedCount = 0 THEN MAX_CHANNELS_SENT_CONCURRENTLY - 1
                   ELSE channelsVisitedCount - 1
    /\ currentChannel = 1 => waits[2] <= MAX_CHANNELS_SENT_CONCURRENTLY - 1
    /\ currentChannel = 2 => waits[2] <= MAX_CHANNELS_SENT_CONCURRENTLY
    /\ currentChannel > 2 => waits[2] <= channelsVisitedCount - 1

\* The first two need no limit on the channels of a round
QueueInv == NumberInv /\ ChannelInv

Inv == QueueInv /\ TurnInv

(***************************************************************************)
(* Message numbers                                                         *)
(***************************************************************************)

\* The next list gets the next number
LEMMA NextNumber ==
  ASSUME NEW number, NEW n \in Nat, IsNumberOf(number, n)
  PROVE  IsNumberOf((number + 1) % MAX_MESSAGE_NUMBER, n + 1)
<1>1. MAX_MESSAGE_NUMBER \in Nat /\ MAX_MESSAGE_NUMBER > 0
  BY PacketQueueAssumption
<1>2. number \in 0 .. MAX_MESSAGE_NUMBER - 1
  BY DEF IsNumberOf
<1>3. PICK k \in Nat : n = k * MAX_MESSAGE_NUMBER + number
  BY DEF IsNumberOf
<1>4. CASE number = MAX_MESSAGE_NUMBER - 1
  <2>1. (number + 1) % MAX_MESSAGE_NUMBER = 0
    BY <1>1, <1>4
  <2>2. n + 1 = (k + 1) * MAX_MESSAGE_NUMBER + 0 /\ k + 1 \in Nat
    BY <1>1, <1>3, <1>4
  <2>3. 0 \in 0 .. MAX_MESSAGE_NUMBER - 1
    BY <1>1
  <2> QED BY <2>1, <2>2, <2>3 DEF IsNumberOf
<1>5. CASE number # MAX_MESSAGE_NUMBER - 1
  <2>1. number + 1 \in 0 .. MAX_MESSAGE_NUMBER - 1
    BY <1>1, <1>2, <1>5
  <2>2. (number + 1) % MAX_MESSAGE_NUMBER = number + 1
    BY <1>1, <2>1
  <2>3. n + 1 = k * MAX_MESSAGE_NUMBER + (number + 1)
    BY <1>1, <1>2, <1>3
  <2> QED BY <2>1, <2>2, <2>3 DEF IsNumberOf
<1> QED BY <1>4, <1>5

\* Two lists with the same number are at least MAX_MESSAGE_NUMBER apart
LEMMA SameNumberFarApart ==
  ASSUME NEW number, NEW m \in Nat, NEW n \in Nat, m < n,
         IsNumberOf(number, m), IsNumberOf(number, n)
  PROVE  n - m >= MAX_MESSAGE_NUMBER
<1>1. MAX_MESSAGE_NUMBER \in Nat /\ MAX_MESSAGE_NUMBER > 0 /\ number \in Nat
  BY PacketQueueAssumption DEF IsNumberOf
<1>2. PICK i \in Nat : m = i * MAX_MESSAGE_NUMBER + number
  BY DEF IsNumberOf
<1>3. PICK j \in Nat : n = j * MAX_MESSAGE_NUMBER + number
  BY DEF IsNumberOf
<1>4. n - m = (j - i) * MAX_MESSAGE_NUMBER
  BY <1>1, <1>2, <1>3
<1> DEFINE d == j - i
<1>5. d \in Int /\ n - m = d * MAX_MESSAGE_NUMBER
  BY <1>4
<1> HIDE DEF d
<1>6. d >= 1
  <2>1. d <= 0 => d * MAX_MESSAGE_NUMBER <= 0
    BY <1>1, <1>5
  <2> QED BY <1>5, <2>1
<1>7. d * MAX_MESSAGE_NUMBER >= MAX_MESSAGE_NUMBER
  BY <1>1, <1>5, <1>6
<1> QED BY <1>5, <1>7

(***************************************************************************)
(* The channels                                                            *)
(***************************************************************************)

\* What channels[1] holds, the lone packets, can be changed at will
LEMMA MainChannel ==
  ASSUME NEW chs \in Seq(Seq(Packet)), Len(chs) >= 1, NEW main \in Seq(Packet)
  PROVE  /\ [chs EXCEPT ![1] = main] \in Seq(Seq(Packet))
         /\ Len([chs EXCEPT ![1] = main]) = Len(chs)
         /\ \A i \in 2 .. Len(chs) : [chs EXCEPT ![1] = main][i] = chs[i]
<1>1. 1 \in 1 .. Len(chs) /\ Len(chs) \in Nat
  OBVIOUS
<1> QED BY <1>1, ExceptSeq

\* The packets of a list that is queued
LEMMA PreparedList ==
  ASSUME NEW number, NEW l \in 0 .. MaxLists, IsNumberOf(number, l), NEW n \in Nat \ {0}
  PROVE  /\ [i \in 1 .. n |-> Prepared(l, number, i, n)] \in Seq(Packet)
         /\ [i \in 1 .. n |-> Prepared(l, number, i, n)] # <<>>
<1> DEFINE packetList == [i \in 1 .. n |-> Prepared(l, number, i, n)]
<1>1. \A i \in 1 .. n : Prepared(l, number, i, n) \in Packet
  <2> SUFFICES ASSUME NEW i \in 1 .. n PROVE Prepared(l, number, i, n) \in ListPacket
    BY DEF Packet
  <2>1. number \in Nat
    BY PacketQueueAssumption DEF IsNumberOf
  <2>2. i - 1 \in Nat
    OBVIOUS
  <2> QED BY <2>1, <2>2 DEF Prepared, ListPacket
<1>2. packetList \in [1 .. n -> Packet]
  BY <1>1
<1>3. packetList \in Seq(Packet)
  BY <1>2, SeqDef
<1>4. 1 \in DOMAIN packetList
  OBVIOUS
<1> HIDE DEF packetList
<1>5. packetList # <<>>
  BY <1>4
<1> QED BY <1>3, <1>5 DEF packetList

\* A channel that is emptied is taken out, the ones behind it move up
LEMMA RemoveChannel ==
  ASSUME NEW chs \in Seq(Seq(Packet)), NEW k \in 1 .. Len(chs)
  PROVE  /\ RemoveAt(chs, k) \in Seq(Seq(Packet))
         /\ Len(RemoveAt(chs, k)) = Len(chs) - 1
         /\ \A i \in 1 .. Len(chs) - 1 :
                RemoveAt(chs, k)[i] = IF i < k THEN chs[i] ELSE chs[i + 1]
<1> DEFINE S == Seq(Packet)
           front == SubSeq(chs, 1, k - 1)
           back == SubSeq(chs, k + 1, Len(chs))
<1>1. Len(chs) \in Nat /\ \A i \in 1 .. Len(chs) : chs[i] \in S
  BY ElementOfSeq
<1>2. /\ front \in Seq(S) /\ Len(front) = k - 1
      /\ \A i \in 1 .. k - 1 : front[i] = chs[i]
  BY <1>1, SubSeqProperties
<1>3. /\ back \in Seq(S) /\ Len(back) = Len(chs) - k
      /\ \A i \in 1 .. Len(chs) - k : back[i] = chs[k + i]
  BY <1>1, SubSeqProperties
<1>4. RemoveAt(chs, k) = front \o back
  BY DEF RemoveAt
<1> HIDE DEF front, back, S
<1>5. /\ front \o back \in Seq(S)
      /\ Len(front \o back) = Len(chs) - 1
      /\ \A i \in 1 .. k - 1 : (front \o back)[i] = front[i]
      /\ \A i \in k .. Len(chs) - 1 : (front \o back)[i] = back[i - k + 1]
  <2>1. /\ front \o back \in Seq(S)
        /\ Len(front \o back) = Len(front) + Len(back)
        /\ \A i \in 1 .. Len(front) + Len(back) : (front \o back)[i] =
               IF i <= Len(front) THEN front[i] ELSE back[i - Len(front)]
    BY <1>2, <1>3, ConcatProperties
  <2>2. Len(front) + Len(back) = Len(chs) - 1
    BY <1>1, <1>2, <1>3
  <2>3. ASSUME NEW i \in 1 .. k - 1 PROVE (front \o back)[i] = front[i]
    BY <1>1, <1>2, <2>1, <2>2
  <2>4. ASSUME NEW i \in k .. Len(chs) - 1 PROVE (front \o back)[i] = back[i - k + 1]
    <3>1. i - (k - 1) = i - k + 1 /\ ~(i <= k - 1) /\ i \in 1 .. Len(chs) - 1
      BY <1>1
    <3> QED BY <1>2, <2>1, <2>2, <3>1
  <2> QED BY <2>1, <2>2, <2>3, <2>4
<1>6. ASSUME NEW i \in 1 .. Len(chs) - 1
      PROVE  (front \o back)[i] = IF i < k THEN chs[i] ELSE chs[i + 1]
  <2>1. CASE i < k
    BY <1>2, <1>5, <2>1
  <2>2. CASE ~(i < k)
    <3>1. /\ i \in k .. Len(chs) - 1 /\ i - k + 1 \in 1 .. Len(chs) - k
          /\ k + (i - k + 1) = i + 1
      BY <1>1, <2>2
    <3>2. back[i - k + 1] = chs[k + (i - k + 1)]
      BY <1>3, <3>1
    <3> QED BY <1>5, <2>2, <3>1, <3>2
  <2> QED BY <2>1, <2>2
<1> QED BY <1>4, <1>5, <1>6 DEF S

(***************************************************************************)
(* The invariant is inductive                                              *)
(***************************************************************************)
LEMMA InitInv == Init => Inv
<1> SUFFICES ASSUME Init PROVE Inv
  OBVIOUS
<1> USE PacketQueueAssumption DEF Init
<1>1. NumberInv
  <2>1. 0 = 0 * MAX_MESSAGE_NUMBER + 0 /\ 0 \in 0 .. MAX_MESSAGE_NUMBER - 1
    OBVIOUS
  <2> QED BY <2>1 DEF NumberInv, IsNumberOf
<1>2. ChannelInv
  <2>1. channels \in Seq(Seq(Packet)) /\ Len(channels) = 1
    OBVIOUS
  <2> QED BY <2>1 DEF ChannelInv
<1>3. TurnInv
  BY DEF TurnInv
<1> QED BY <1>1, <1>2, <1>3 DEF Inv, QueueInv

\* A packet of its own goes behind the main channel's
LEMMA QueuePacketInv ==
  ASSUME QueueInv, QueuePacket PROVE QueueInv' /\ (TurnInv => TurnInv')
<1> USE DEF QueuePacket, QueueInv
<1>1. channels[1] \in Seq(Packet) /\ alone' \in Nat /\ 1 <= Len(channels)
  BY ElementOfSeq, PacketQueueAssumption DEF ChannelInv, NumberInv
<1>2. Lone(alone') \in Packet
  BY <1>1 DEF Lone, Packet, LonePacket
<1>3. Append(channels[1], Lone(alone')) \in Seq(Packet)
  BY <1>1, <1>2, AppendProperties
<1>4. channels' = [channels EXCEPT ![1] = Append(channels[1], Lone(alone'))]
  BY <1>1
<1>5. /\ channels' \in Seq(Seq(Packet)) /\ Len(channels') = Len(channels)
      /\ \A i \in 2 .. Len(channels) : channels'[i] = channels[i]
  BY <1>1, <1>3, <1>4, MainChannel DEF ChannelInv
<1>6. NumberInv'
  BY <1>1 DEF NumberInv
<1>7. ChannelInv' /\ (TurnInv => TurnInv')
  BY <1>5 DEF ChannelInv, TurnInv
<1> QED BY <1>6, <1>7

\* A message opens a channel of its own
LEMMA QueuePacketListInv ==
  ASSUME QueueInv, NEW n \in 1 .. MaxListLength, QueuePacketList(n)
  PROVE  QueueInv' /\ (TurnInv => TurnInv')
<1> USE DEF QueuePacketList, QueueInv
<1>1. lists' = lists + 1 /\ lists' \in 0 .. MaxLists /\ lists \in Nat
  BY PacketQueueAssumption DEF NumberInv
<1>2. IsNumberOf(NextMessageNumber, lists')
  BY <1>1, NextNumber DEF NumberInv, NextMessageNumber
<1>3. n \in Nat \ {0}
  BY PacketQueueAssumption
<1> DEFINE packetList == [i \in 1 .. n |-> Prepared(lists', NextMessageNumber, i, n)]
<1>4. packetList \in Seq(Packet) /\ packetList # <<>>
  BY <1>1, <1>2, <1>3, PreparedList
<1>5. channels' = Append(channels, packetList)
  OBVIOUS
<1> HIDE DEF packetList
<1>6. /\ channels' \in Seq(Seq(Packet)) /\ Len(channels') = Len(channels) + 1
      /\ \A i \in 1 .. Len(channels) : channels'[i] = channels[i]
      /\ channels'[Len(channels) + 1] = packetList
  <2> DEFINE S == Seq(Packet)
             c == channels
  <2>1. c \in Seq(S) /\ packetList \in S
    BY <1>4 DEF ChannelInv
  <2> HIDE DEF S, c
  <2>2. /\ Append(c, packetList) \in Seq(S)
        /\ Len(Append(c, packetList)) = Len(c) + 1
        /\ \A i \in 1 .. Len(c) : Append(c, packetList)[i] = c[i]
        /\ Append(c, packetList)[Len(c) + 1] = packetList
    BY <2>1, AppendProperties
  <2> QED BY <1>5, <2>2 DEF S, c
<1>7. NumberInv'
  BY <1>1, <1>2 DEF NumberInv
<1>8. ChannelInv'
  <2>1. Len(channels) \in Nat /\ currentChannel \in 1 .. Len(channels) + 1
    BY DEF ChannelInv
  <2>2. ASSUME NEW i \in 2 .. Len(channels) + 1 PROVE channels'[i] # <<>>
    <3>1. CASE i = Len(channels) + 1
      BY <1>4, <1>6, <3>1
    <3>2. CASE i # Len(channels) + 1
      <4>1. i \in 2 .. Len(channels) /\ i \in 1 .. Len(channels)
        BY <2>1, <3>2
      <4> QED BY <1>6, <4>1 DEF ChannelInv
    <3> QED BY <3>1, <3>2
  <2>3. currentChannel' = currentChannel
    OBVIOUS
  <2> QED BY <1>6, <2>1, <2>2, <2>3 DEF ChannelInv
<1>9. TurnInv => TurnInv'
  BY DEF TurnInv
<1> QED BY <1>7, <1>8, <1>9

\* takePacket finds a packet in the channel it turns to
LEMMA ServingHasPacket ==
  ASSUME ChannelInv, ~IsEmpty
  PROVE  /\ Serving \in 1 .. Len(channels) /\ channels[Serving] # <<>>
         /\ Serving \in {currentChannel, currentChannel + 1}
         /\ Serving # currentChannel => currentChannel = 1 /\ channels[1] = <<>>
         /\ Serving = 1 => currentChannel = 1
<1>1. Len(channels) \in Nat /\ currentChannel \in 1 .. Len(channels)
  BY DEF ChannelInv
<1>2. CASE currentChannel = 1 /\ channels[1] = <<>>
  <2>1. Serving = 2
    BY <1>2 DEF Serving
  <2>2. Len(channels) # 1
    BY <1>2 DEF IsEmpty
  <2>3. Len(channels) >= 2
    BY <1>1, <2>2
  <2> QED BY <1>1, <1>2, <2>1, <2>3 DEF ChannelInv
<1>3. CASE ~(currentChannel = 1 /\ channels[1] = <<>>)
  BY <1>1, <1>3 DEF Serving, ChannelInv
<1> QED BY <1>2, <1>3

\* In a round of at least two the lists get their turn
LEMMA TakePacketInv ==
  ASSUME QueueInv, TakePacket
  PROVE  /\ QueueInv'
         /\ MAX_CHANNELS_SENT_CONCURRENTLY >= 2 /\ TurnInv => TurnInv'
<1> USE DEF QueueInv
<1> DEFINE rest == Tail(channels[Serving])
           emptied == rest = <<>> /\ Serving # 1
           next == IF emptied THEN Serving ELSE Serving + 1
           left == IF emptied THEN RemoveAt(channels, Serving)
                   ELSE [channels EXCEPT ![Serving] = rest]
           restart == Restarts(next, Len(left), channelsVisitedCount + 1)
<1>1. /\ channels' = left
      /\ currentChannel' = IF restart THEN 1 ELSE next
      /\ channelsVisitedCount' = IF restart THEN 0 ELSE channelsVisitedCount + 1
      /\ last' = Head(channels[Serving])
      /\ waits' = [i \in 1 .. 2 |->
            IF Serving = i \/ i > Len(channels) \/ channels[i] = <<>> THEN 0 ELSE waits[i] + 1]
      /\ UNCHANGED <<currentMessageNumber, lists, alone>>
  BY DEF TakePacket
<1>2. /\ channels \in Seq(Seq(Packet)) /\ Len(channels) \in Nat
      /\ currentChannel \in 1 .. Len(channels)
  BY DEF ChannelInv
<1>3. /\ Serving \in 1 .. Len(channels) /\ channels[Serving] # <<>>
      /\ Serving \in {currentChannel, currentChannel + 1}
      /\ Serving # currentChannel => currentChannel = 1 /\ channels[1] = <<>>
      /\ Serving = 1 => currentChannel = 1
  BY ServingHasPacket DEF TakePacket
<1>4. channels[Serving] \in Seq(Packet)
  BY <1>2, <1>3, ElementOfSeq
<1>5. Head(channels[Serving]) \in Packet /\ rest \in Seq(Packet)
  BY <1>3, <1>4, HeadTailProperties
<1>6. NumberInv'
  BY <1>1, <1>5 DEF NumberInv
<1> DEFINE k == Serving
<1> HIDE DEF rest, k
<1>7. /\ left \in Seq(Seq(Packet))
      /\ Len(left) = IF emptied THEN Len(channels) - 1 ELSE Len(channels)
      /\ \A i \in 2 .. Len(left) : left[i] # <<>>
  <2>1. CASE emptied
    <3>1. left = RemoveAt(channels, Serving)
      BY <2>1
    <3>2. /\ left \in Seq(Seq(Packet)) /\ Len(left) = Len(channels) - 1
          /\ \A i \in 1 .. Len(channels) - 1 :
                left[i] = IF i < Serving THEN channels[i] ELSE channels[i + 1]
      BY <1>2, <1>3, <3>1, RemoveChannel
    <3>3. ASSUME NEW i \in 2 .. Len(channels) - 1 PROVE left[i] # <<>>
      <4>1. i \in 2 .. Len(channels) /\ i + 1 \in 2 .. Len(channels) /\ i \in 1 .. Len(channels) - 1
        BY <1>2
      <4> QED BY <3>2, <4>1 DEF ChannelInv
    <3> QED BY <2>1, <3>2, <3>3
  <2>2. CASE ~emptied
    <3>1. left = [channels EXCEPT ![Serving] = rest]
      BY <2>2
    <3>2. /\ left \in Seq(Seq(Packet)) /\ Len(left) = Len(channels)
          /\ \A i \in 1 .. Len(channels) : left[i] = IF i = Serving THEN rest ELSE channels[i]
      <4> DEFINE c == channels
                 S == Seq(Packet)
      <4>1. c \in Seq(S) /\ k \in 1 .. Len(c) /\ rest \in S
        BY <1>2, <1>3, <1>5 DEF k
      <4>2. left = [c EXCEPT ![k] = rest]
        BY <3>1 DEF k
      <4> HIDE DEF left, c, S
      <4>3. /\ [c EXCEPT ![k] = rest] \in Seq(S)
            /\ Len([c EXCEPT ![k] = rest]) = Len(c)
            /\ \A i \in 1 .. Len(c) : [c EXCEPT ![k] = rest][i] = IF i = k THEN rest ELSE c[i]
        BY <4>1, ExceptSeq
      <4> QED BY <4>2, <4>3 DEF c, S, k
    <3>3. ASSUME NEW i \in 2 .. Len(channels) PROVE left[i] # <<>>
      <4>1. i \in 1 .. Len(channels)
        BY <1>2
      <4> QED BY <2>2, <3>2, <4>1 DEF ChannelInv
    <3> QED BY <2>2, <3>2, <3>3
  <2> QED BY <2>1, <2>2
<1> DEFINE m == Len(left)
<1>8. /\ m \in Nat /\ m >= 1
      /\ next \in {Serving, Serving + 1} /\ next >= 2
      /\ Serving \in Nat
      /\ restart <=> next > m \/ channelsVisitedCount + 1 >= MAX_CHANNELS_SENT_CONCURRENTLY
  <2>1. m \in Nat /\ m >= 1
    BY <1>2, <1>3, <1>7
  <2>2. next \in {Serving, Serving + 1} /\ next >= 2
    BY <1>2, <1>3
  <2> QED BY <1>2, <1>3, <2>1, <2>2 DEF Restarts
<1>9. Len(channels) = 1 => restart
  <2>1. Len(channels) = 1 => Serving = 1
    BY <1>3
  <2>2. Serving = 1 => ~emptied /\ next = 2
    OBVIOUS
  <2> HIDE DEF left, next, restart, emptied
  <2> QED BY <1>7, <1>8, <2>1, <2>2
<1> HIDE DEF left, next, restart, m
<1>10. ChannelInv'
  <2>1. m = Len(left)
    BY DEF m
  <2> QED BY <1>1, <1>7, <1>8, <2>1 DEF ChannelInv
<1>11. ASSUME MAX_CHANNELS_SENT_CONCURRENTLY >= 2, TurnInv PROVE TurnInv'
  <2> USE <1>11
  <2>0. channelsVisitedCount \in Nat
    BY DEF TurnInv
  <2>1. /\ MAX_CHANNELS_SENT_CONCURRENTLY \in Nat
        /\ waits'[1] = IF Serving = 1 \/ 1 > Len(channels) \/ channels[1] = <<>>
                       THEN 0 ELSE waits[1] + 1
        /\ waits'[2] = IF Serving = 2 \/ 2 > Len(channels) \/ channels[2] = <<>>
                       THEN 0 ELSE waits[2] + 1
        /\ waits[1] \in Nat /\ waits[2] \in Nat
    BY <1>1, PacketQueueAssumption DEF TurnInv
  <2>2. waits' \in [1 .. 2 -> Nat]
    BY <1>1, <2>1 DEF TurnInv
  <2>3. currentChannel' = IF restart THEN 1 ELSE next
    BY <1>1
  <2>4. channelsVisitedCount' = IF restart THEN 0 ELSE channelsVisitedCount + 1
    BY <1>1
  <2>5. /\ channelsVisitedCount' \in 0 .. MAX_CHANNELS_SENT_CONCURRENTLY - 1
        /\ currentChannel' = 1 <=> channelsVisitedCount' = 0
    BY <1>8, <2>0, <2>1, <2>3, <2>4
  \* the main channel is served first in a round unless it is empty
  <2>6. waits'[1] <= IF channelsVisitedCount' = 0 THEN MAX_CHANNELS_SENT_CONCURRENTLY - 1
                     ELSE channelsVisitedCount' - 1
    <3>1. waits'[1] <= channelsVisitedCount
      BY <1>2, <1>3, <1>8, <2>0, <2>1 DEF TurnInv
    <3>2. channelsVisitedCount <= MAX_CHANNELS_SENT_CONCURRENTLY - 1
      BY <2>1 DEF TurnInv
    <3> QED BY <1>8, <2>0, <2>1, <2>2, <2>4, <3>1, <3>2
  \* the second one is passed over only by the main channel, and served then
  <2>7. /\ currentChannel' = 1 => waits'[2] <= MAX_CHANNELS_SENT_CONCURRENTLY - 1
        /\ currentChannel' = 2 => waits'[2] <= MAX_CHANNELS_SENT_CONCURRENTLY
        /\ currentChannel' > 2 => waits'[2] <= channelsVisitedCount' - 1
    <3>1. CASE Serving = 2
      BY <1>8, <2>0, <2>1, <2>3, <2>4, <3>1
    <3>2. CASE Serving = 1
      <4>1. currentChannel = 1 /\ channelsVisitedCount = 0
        BY <1>3, <3>2 DEF TurnInv
      <4>2. waits'[2] <= MAX_CHANNELS_SENT_CONCURRENTLY
        BY <2>1, <4>1 DEF TurnInv
      <4>3. restart => Len(channels) = 1
        BY <1>2, <1>3, <1>7, <1>8, <2>1, <3>2, <4>1 DEF m, next
      <4>4. Len(channels) = 1 => waits'[2] = 0
        BY <2>1
      <4>5. ~restart => currentChannel' = 2
        BY <2>3, <3>2 DEF next
      <4> QED BY <2>1, <2>3, <4>2, <4>3, <4>4, <4>5
    <3>3. CASE Serving > 2
      <4>1. currentChannel > 2
        BY <1>2, <1>3, <3>3
      <4>2. waits'[2] <= channelsVisitedCount
        BY <1>8, <2>0, <2>1, <4>1 DEF TurnInv
      <4>3. channelsVisitedCount <= MAX_CHANNELS_SENT_CONCURRENTLY - 1
        BY <2>1 DEF TurnInv
      <4>4. currentChannel' # 2
        BY <1>8, <2>3, <3>3
      <4> QED BY <1>8, <2>0, <2>1, <2>2, <2>3, <2>4, <4>2, <4>3, <4>4
    <3> QED BY <1>8, <1>3, <3>1, <3>2, <3>3
  <2> QED BY <2>2, <2>5, <2>6, <2>7 DEF TurnInv
<1> QED BY <1>6, <1>10, <1>11

\* A new queue starts empty
LEMMA RecreateInv == ASSUME QueueInv, Recreate PROVE QueueInv' /\ TurnInv'
<1> USE PacketQueueAssumption DEF Recreate, QueueInv
<1>1. NumberInv'
  BY DEF NumberInv
<1>2. ChannelInv'
  <2>1. channels' \in Seq(Seq(Packet)) /\ Len(channels') = 1
    OBVIOUS
  <2> QED BY <2>1 DEF ChannelInv
<1>3. TurnInv'
  BY DEF TurnInv
<1> QED BY <1>1, <1>2, <1>3

\* Every step preserves the invariant
LEMMA NextInv ==
  ASSUME QueueInv, [Next]_vars
  PROVE  /\ QueueInv'
         /\ MAX_CHANNELS_SENT_CONCURRENTLY >= 2 /\ TurnInv => TurnInv'
<1>1. CASE TakeNothing
  BY <1>1 DEF TakeNothing, queueVars, QueueInv, NumberInv, ChannelInv, TurnInv
<1>2. CASE UNCHANGED vars
  BY <1>2 DEF vars, queueVars, QueueInv, NumberInv, ChannelInv, TurnInv
<1> QED BY <1>1, <1>2, QueuePacketInv, QueuePacketListInv, TakePacketInv, RecreateInv DEF Next

-----------------------------------------------------------------------------
(***************************************************************************)
(* The theorems                                                            *)
(***************************************************************************)

\* The invariant holds in every reachable state
THEOREM QueueInvariance == Spec => []QueueInv
<1>1. Init => QueueInv
  BY InitInv DEF Inv
<1>2. QueueInv /\ [Next]_vars => QueueInv'
  BY NextInv
<1> QED BY <1>1, <1>2, PTL DEF Spec

(***************************************************************************)
(* Every queuePacket, queuePacketList, takePacket and new SendQueue leaves *)
(* the channels as PacketQueue's methods expect to find them.              *)
(***************************************************************************)
THEOREM Invariance ==
  ASSUME MAX_CHANNELS_SENT_CONCURRENTLY >= 2 PROVE Spec => []Inv
<1>1. Init => Inv
  BY InitInv
<1>2. Inv /\ [Next]_vars => Inv'
  BY NextInv DEF Inv
<1> QED BY <1>1, <1>2, PTL DEF Spec

(***************************************************************************)
(* takePacket's assertions: the channel it turns to exists and has a       *)
(* packet whenever isEmpty says there is one.                              *)
(***************************************************************************)
THEOREM CursorAlwaysOnPacket == Spec => []CursorOnPacket
<1>1. QueueInv => CursorOnPacket
  <2> SUFFICES ASSUME QueueInv PROVE CursorOnPacket
    OBVIOUS
  <2>1. ~IsEmpty => Serving \in 1 .. Len(channels) /\ channels[Serving] # <<>>
    BY ServingHasPacket DEF QueueInv
  <2> QED BY <2>1 DEF QueueInv, ChannelInv, CursorOnPacket
<1> QED BY <1>1, QueueInvariance, PTL

(***************************************************************************)
(* Neither the main channel nor the oldest list waits for more than        *)
(* MAX_CHANNELS_SENT_CONCURRENTLY turns (the cursor's return to the main   *)
(* channel in takePacket).  With a limit of one the cursor would go back   *)
(* to the main channel after each of its packets and the lists starve.     *)
(***************************************************************************)
THEOREM AlwaysServedInTurn ==
  ASSUME MAX_CHANNELS_SENT_CONCURRENTLY >= 2 PROVE Spec => []ServedInTurn
<1>1. Inv => ServedInTurn
  <2> SUFFICES ASSUME Inv PROVE ServedInTurn
    OBVIOUS
  <2>1. /\ MAX_CHANNELS_SENT_CONCURRENTLY \in Nat
        /\ currentChannel \in Nat /\ currentChannel >= 1
        /\ waits[1] \in Nat /\ waits[2] \in Nat
    BY PacketQueueAssumption DEF Inv, QueueInv, ChannelInv, TurnInv
  <2> QED BY <2>1 DEF Inv, TurnInv, ServedInTurn
<1> QED BY <1>1, Invariance, PTL

\* What is queued, or was sent last, is a packet
LEMMA PacketsAreTyped ==
  ASSUME QueueInv PROVE Packets \cup ({last} \ {NoPacket}) \subseteq Packet
<1>1. channels \in Seq(Seq(Packet)) /\ last \in Packet \cup {NoPacket}
  BY DEF QueueInv, NumberInv, ChannelInv
<1>2. ASSUME NEW i \in 1 .. Len(channels) PROVE ToSet(channels[i]) \subseteq Packet
  <2>1. channels[i] \in Seq(Packet)
    BY <1>1, ElementOfSeq
  <2> DEFINE c == channels[i]
  <2>2. c \in Seq(Packet)
    BY <2>1
  <2> HIDE DEF c
  <2>3. DOMAIN c = 1 .. Len(c) /\ \A j \in 1 .. Len(c) : c[j] \in Packet
    BY <2>2, LenProperties, ElementOfSeq
  <2>4. ToSet(c) \subseteq Packet
    BY <2>3 DEF ToSet
  <2> QED BY <2>4 DEF c
<1> QED BY <1>1, <1>2 DEF Packets

\* Packets of two lists with one message number
SameNumberApart ==
    \A p, q \in Packets \cup ({last} \ {NoPacket}) :
        p.list > 0 /\ q.list > p.list /\ p.message = q.message
            => q.list - p.list >= MAX_MESSAGE_NUMBER

(***************************************************************************)
(* The receiver files packets by message number.  Two waiting or just sent *)
(* packets of different lists only share one if MAX_MESSAGE_NUMBER lists   *)
(* were queued from the one to the other, whether or not the queue was     *)
(* made again in between (getNextMessageNumber, and                        *)
(* Connection::getSendQueue, which hands the number on to the next queue). *)
(***************************************************************************)
THEOREM SameNumberAlwaysApart == Spec => []SameNumberApart
<1>1. QueueInv => SameNumberApart
  <2> SUFFICES ASSUME QueueInv,
                      NEW p \in Packets \cup ({last} \ {NoPacket}),
                      NEW q \in Packets \cup ({last} \ {NoPacket}),
                      p.list > 0, q.list > p.list, p.message = q.message
               PROVE  q.list - p.list >= MAX_MESSAGE_NUMBER
    BY DEF SameNumberApart
  <2>1. p \in Packet /\ q \in Packet
    BY PacketsAreTyped
  <2>2. p.list \in Nat /\ q.list \in Nat
    BY <2>1, PacketQueueAssumption DEF Packet, ListPacket, LonePacket
  <2>3. p \in ListPacket /\ q \in ListPacket
    BY <2>1, <2>2 DEF Packet, LonePacket
  <2>4. IsNumberOf(p.message, p.list) /\ IsNumberOf(q.message, q.list)
    BY <2>3 DEF ListPacket
  <2> QED BY <2>2, <2>4, SameNumberFarApart
<1> QED BY <1>1, QueueInvariance, PTL

(***************************************************************************)
(* So as long as no more lists are queued in all than there are numbers,   *)
(* no number is met twice (PacketQueue.h's MessageNumber).                 *)
(***************************************************************************)
THEOREM MessageNumbersAlwaysDistinct ==
  ASSUME MaxLists <= MAX_MESSAGE_NUMBER
  PROVE  Spec => []MessageNumbersDistinct
<1>1. QueueInv /\ SameNumberApart => MessageNumbersDistinct
  <2> SUFFICES ASSUME QueueInv, SameNumberApart,
                      NEW p \in Packets \cup ({last} \ {NoPacket}),
                      NEW q \in Packets \cup ({last} \ {NoPacket}),
                      p.list > 0, q.list > 0, p.list # q.list, p.message = q.message
               PROVE  FALSE
    BY DEF MessageNumbersDistinct
  <2>1. p \in Packet /\ q \in Packet
    BY PacketsAreTyped
  <2>2. p.list \in 1 .. MaxLists /\ q.list \in 1 .. MaxLists
    BY <2>1, PacketQueueAssumption DEF Packet, ListPacket, LonePacket
  <2>3. MaxLists \in Nat /\ MAX_MESSAGE_NUMBER \in Nat
    BY PacketQueueAssumption
  <2>4. CASE p.list < q.list
    BY <2>2, <2>3, <2>4 DEF SameNumberApart
  <2>5. CASE q.list < p.list
    BY <2>2, <2>3, <2>5 DEF SameNumberApart
  <2> QED BY <2>2, <2>4, <2>5
<1> QED BY <1>1, QueueInvariance, SameNumberAlwaysApart, PTL

-----------------------------------------------------------------------------
(***************************************************************************)
(* The promise: a FIFO queue per list.  chs is channels, or what a step    *)
(* makes of it                                                             *)
(***************************************************************************)

Shaped(chs) ==
    /\ chs \in Seq(Seq(Packet)) /\ Len(chs) >= 1
    /\ \A i \in 2 .. Len(chs) : chs[i] # <<>>

\* A channel behind the main one is one list's, and later lists are behind
Owned(chs, n) ==
    /\ \A j \in 1 .. Len(chs[1]) : chs[1][j].list = 0
    /\ \A i \in 2 .. Len(chs) :
        /\ chs[i][1].list \in 1 .. n
        /\ \A j \in 1 .. Len(chs[i]) : chs[i][j].list = chs[i][1].list
    /\ \A i, k \in 2 .. Len(chs) : i < k => chs[i][1].list < chs[k][1].list

WaitingIn(chs, f) ==
    IF f = 0 THEN chs[1]
    ELSE IF \E i \in 2 .. Len(chs) : chs[i][1].list = f
         THEN chs[CHOOSE i \in 2 .. Len(chs) : chs[i][1].list = f]
         ELSE <<>>

\* Each channel holds the packets of one list
OneListPerChannel == Owned(channels, lists)

OwnersInv == QueueInv /\ OneListPerChannel

\* A channel has a packet if it is not empty
LEMMA ShapedTypes ==
  ASSUME NEW chs, Shaped(chs)
  PROVE  /\ Len(chs) \in Nat /\ Len(chs) >= 1
         /\ \A i \in 1 .. Len(chs) :
                /\ chs[i] \in Seq(Packet) /\ Len(chs[i]) \in Nat
                /\ chs[i] # <<>> <=> Len(chs[i]) >= 1
         /\ \A i \in 2 .. Len(chs) : Len(chs[i]) >= 1
<1>1. Len(chs) \in Nat /\ Len(chs) >= 1
  BY DEF Shaped
<1>2. ASSUME NEW i \in 1 .. Len(chs)
      PROVE  /\ chs[i] \in Seq(Packet) /\ Len(chs[i]) \in Nat
             /\ chs[i] # <<>> <=> Len(chs[i]) >= 1
  <2> DEFINE c == chs[i]
  <2>1. c \in Seq(Packet)
    BY ElementOfSeq DEF Shaped
  <2> HIDE DEF c
  <2>2. Len(c) \in Nat /\ (c # <<>> <=> Len(c) >= 1)
    BY <2>1, EmptySeq
  <2> QED BY <2>1, <2>2 DEF c
<1>3. ASSUME NEW i \in 2 .. Len(chs) PROVE Len(chs[i]) >= 1
  <2>1. i \in 1 .. Len(chs) /\ chs[i] # <<>>
    BY <1>1 DEF Shaped
  <2> QED BY <2>1, <1>2
<1> QED BY <1>1, <1>2, <1>3

\* The invariant gives the channels their shape
LEMMA ChannelsShaped ==
  ASSUME QueueInv
  PROVE  Shaped(channels) /\ lists \in 0 .. MaxLists /\ MaxLists \in Nat
BY PacketQueueAssumption DEF QueueInv, NumberInv, ChannelInv, Shaped

\* Of two channels with packets of one list there is only one
LEMMA OneOwner ==
  ASSUME NEW chs, NEW n \in Nat, Shaped(chs), Owned(chs, n),
         NEW i \in 2 .. Len(chs), NEW k \in 2 .. Len(chs),
         chs[i][1].list = chs[k][1].list
  PROVE  i = k
<1>1. chs[i][1].list \in Nat /\ i \in Nat /\ k \in Nat
  BY ShapedTypes DEF Owned
<1>2. ~(k < i) /\ ~(i < k)
  BY <1>1 DEF Owned
<1> QED BY <1>1, <1>2

\* What waits of a list is its channel
LEMMA WaitingOf ==
  ASSUME NEW chs, NEW n \in Nat, Shaped(chs), Owned(chs, n)
  PROVE  /\ WaitingIn(chs, 0) = chs[1]
         /\ \A i \in 2 .. Len(chs) : WaitingIn(chs, chs[i][1].list) = chs[i]
         /\ \A f \in Fifos \ {0} :
                (\A i \in 2 .. Len(chs) : chs[i][1].list # f) => WaitingIn(chs, f) = <<>>
<1>1. ASSUME NEW i \in 2 .. Len(chs) PROVE WaitingIn(chs, chs[i][1].list) = chs[i]
  <2> DEFINE f == chs[i][1].list
             k == CHOOSE h \in 2 .. Len(chs) : chs[h][1].list = f
  <2>1. k \in 2 .. Len(chs) /\ chs[k][1].list = f
    OBVIOUS
  <2> HIDE DEF k
  <2>2. k = i
    BY <2>1, OneOwner
  <2>3. f # 0
    BY DEF Owned
  <2> HIDE DEF f
  <2>4. WaitingIn(chs, f) = chs[k]
    BY <2>1, <2>3 DEF WaitingIn, k
  <2> QED BY <2>2, <2>4 DEF f
<1>2. WaitingIn(chs, 0) = chs[1]
  BY DEF WaitingIn
<1>3. ASSUME NEW f \in Fifos \ {0}, \A i \in 2 .. Len(chs) : chs[i][1].list # f
      PROVE  WaitingIn(chs, f) = <<>>
  BY <1>3 DEF WaitingIn
<1> QED BY <1>1, <1>2, <1>3

\* Lists keep what waits of them if their channel stays what it is
LEMMA SameWaiting ==
  ASSUME NEW c, NEW m \in Nat, Shaped(c), Owned(c, m),
         NEW d, NEW n \in Nat, Shaped(d), Owned(d, n),
         NEW g \in Fifos \ {0},
         \A i \in 2 .. Len(c) : c[i][1].list = g => \E k \in 2 .. Len(d) : d[k] = c[i],
         \A k \in 2 .. Len(d) : d[k][1].list = g => \E i \in 2 .. Len(c) : c[i] = d[k]
  PROVE  WaitingIn(d, g) = WaitingIn(c, g)
<1>1. CASE \E i \in 2 .. Len(c) : c[i][1].list = g
  <2>1. PICK i \in 2 .. Len(c) : c[i][1].list = g
    BY <1>1
  <2>2. PICK k \in 2 .. Len(d) : d[k] = c[i]
    BY <2>1
  <2>3. WaitingIn(c, c[i][1].list) = c[i] /\ WaitingIn(d, d[k][1].list) = d[k]
    BY WaitingOf
  <2> QED BY <2>1, <2>2, <2>3
<1>2. CASE ~\E i \in 2 .. Len(c) : c[i][1].list = g
  <2>1. \A k \in 2 .. Len(d) : d[k][1].list # g
    BY <1>2
  <2> QED BY <1>2, <2>1, WaitingOf
<1> QED BY <1>1, <1>2

\* A lone packet more in the main channel
LEMMA OneMoreAlone ==
  ASSUME NEW c, NEW n \in Nat, Shaped(c), Owned(c, n),
         NEW d, Shaped(d), Len(d) = Len(c),
         NEW p \in Packet, p.list = 0, d[1] = Append(c[1], p),
         \A i \in 2 .. Len(c) : d[i] = c[i]
  PROVE  /\ Owned(d, n) /\ WaitingIn(d, 0) = Append(WaitingIn(c, 0), p)
         /\ \A g \in Fifos \ {0} : WaitingIn(d, g) = WaitingIn(c, g)
<1>1. c[1] \in Seq(Packet)
  BY ShapedTypes
<1>2. ASSUME NEW j \in 1 .. Len(d[1]) PROVE d[1][j].list = 0
  <2> DEFINE s == c[1]
  <2>1. s \in Seq(Packet) /\ \A i \in 1 .. Len(s) : s[i].list = 0
    BY <1>1 DEF Owned
  <2>2. d[1] = Append(s, p)
    OBVIOUS
  <2> HIDE DEF s
  <2>3. /\ Len(Append(s, p)) = Len(s) + 1 /\ Append(s, p)[Len(s) + 1] = p
        /\ \A i \in 1 .. Len(s) : Append(s, p)[i] = s[i]
    BY <2>1, AppendProperties
  <2> QED BY <2>1, <2>2, <2>3
<1>3. Owned(d, n)
  BY <1>2 DEF Owned
<1>4. \A g \in Fifos \ {0} : WaitingIn(d, g) = WaitingIn(c, g)
  BY <1>3, SameWaiting
<1> QED BY <1>3, <1>4, WaitingOf

\* A channel more, for the next list
LEMMA OneMoreList ==
  ASSUME NEW c, NEW n \in Nat, Shaped(c), Owned(c, n), n + 1 \in Fifos,
         NEW d, Shaped(d), Len(d) = Len(c) + 1,
         \A i \in 1 .. Len(c) : d[i] = c[i],
         \A j \in 1 .. Len(d[Len(d)]) : d[Len(d)][j].list = n + 1
  PROVE  /\ Owned(d, n + 1) /\ WaitingIn(c, n + 1) = <<>> /\ WaitingIn(d, n + 1) = d[Len(d)]
         /\ \A g \in Fifos \ {n + 1} : WaitingIn(d, g) = WaitingIn(c, g)
<1>1. Len(c) \in Nat /\ Len(c) >= 1 /\ Len(d) \in 2 .. Len(d)
  BY ShapedTypes
<1>2. d[Len(d)][1].list = n + 1
  BY <1>1, ShapedTypes
<1>3. \A i \in 2 .. Len(d) : i = Len(d) \/ (i \in 2 .. Len(c) /\ d[i] = c[i])
  BY <1>1
<1>4. d[1] = c[1]
  BY <1>1
<1>5. Owned(d, n + 1)
  <2>1. \A j \in 1 .. Len(d[1]) : d[1][j].list = 0
    BY <1>4 DEF Owned
  <2>2. ASSUME NEW i \in 2 .. Len(d)
        PROVE  /\ d[i][1].list \in 1 .. n + 1
               /\ \A j \in 1 .. Len(d[i]) : d[i][j].list = d[i][1].list
    BY <1>2, <1>3 DEF Owned
  <2>3. ASSUME NEW i \in 2 .. Len(d), NEW k \in 2 .. Len(d), i < k
        PROVE  d[i][1].list < d[k][1].list
    <3>1. i \in 2 .. Len(c) /\ d[i] = c[i] /\ d[i][1].list \in 1 .. n
      BY <1>1, <1>3, <2>3 DEF Owned
    <3>2. CASE k = Len(d)
      BY <1>2, <3>1, <3>2
    <3>3. CASE k \in 2 .. Len(c) /\ d[k] = c[k]
      BY <2>3, <3>1, <3>3 DEF Owned
    <3> QED BY <1>3, <3>2, <3>3
  <2> QED BY <2>1, <2>2, <2>3 DEF Owned
<1>6. n + 1 \in Fifos \ {0} /\ \A i \in 2 .. Len(c) : c[i][1].list # n + 1
  BY DEF Owned
<1>7. WaitingIn(c, n + 1) = <<>>
  BY <1>6, WaitingOf
<1>8. WaitingIn(d, n + 1) = d[Len(d)]
  <2>1. WaitingIn(d, d[Len(d)][1].list) = d[Len(d)]
    BY <1>1, <1>5, WaitingOf
  <2> QED BY <1>2, <2>1
<1>9. ASSUME NEW g \in Fifos \ {n + 1} PROVE WaitingIn(d, g) = WaitingIn(c, g)
  <2>1. CASE g = 0
    BY <1>4, <1>5, <2>1, WaitingOf
  <2>2. CASE g # 0
    <3>1. \A i \in 2 .. Len(c) : i \in 2 .. Len(d) /\ d[i] = c[i]
      BY <1>1
    <3>2. \A k \in 2 .. Len(d) : d[k][1].list = g => k \in 2 .. Len(c) /\ c[k] = d[k]
      BY <1>2, <1>3
    <3> QED BY <1>5, <2>2, <3>1, <3>2, SameWaiting
  <2> QED BY <2>1, <2>2
<1> QED BY <1>5, <1>7, <1>8, <1>9

\* A packet less in channel k, which stays
LEMMA OneLess ==
  ASSUME NEW c, NEW n \in 0 .. MaxLists, MaxLists \in Nat, Shaped(c), Owned(c, n),
         NEW d, Shaped(d), Len(d) = Len(c),
         NEW k \in 1 .. Len(c), c[k] # <<>>,
         \A i \in 1 .. Len(c) : d[i] = IF i = k THEN Tail(c[k]) ELSE c[i]
  PROVE  LET f == IF k = 1 THEN 0 ELSE c[k][1].list IN
         /\ Owned(d, n) /\ f \in Fifos /\ WaitingIn(c, f) = c[k] /\ WaitingIn(d, f) = Tail(c[k])
         /\ \A g \in Fifos \ {f} : WaitingIn(d, g) = WaitingIn(c, g)
<1> DEFINE f == IF k = 1 THEN 0 ELSE c[k][1].list
<1>1. Len(c) \in Nat /\ k \in Nat /\ 1 \in 1 .. Len(c) /\ n \in Nat
  BY ShapedTypes
<1>2. \A j \in 1 .. Len(c[k]) : c[k][j].list = f
  BY <1>1 DEF Owned
<1>3. \A j \in 1 .. Len(d[k]) : d[k][j].list = f
  <2> DEFINE s == c[k]
  <2>1. s \in Seq(Packet) /\ s # <<>> /\ d[k] = Tail(s) /\ \A j \in 1 .. Len(s) : s[j].list = f
    BY <1>2, ShapedTypes
  <2> HIDE DEF s, f
  <2>2. Len(Tail(s)) = Len(s) - 1 /\ \A j \in 1 .. Len(Tail(s)) : Tail(s)[j] = s[j + 1]
    BY <2>1, HeadTailProperties
  <2>3. Len(s) \in Nat
    BY <2>1
  <2> QED BY <2>1, <2>2, <2>3
<1>4. \A i \in 2 .. Len(c) : d[i][1].list = c[i][1].list
  <2> SUFFICES ASSUME NEW i \in 2 .. Len(c) PROVE d[i][1].list = c[i][1].list
    OBVIOUS
  <2>1. i \in 1 .. Len(c) /\ i # 1
    BY <1>1
  <2>2. 1 \in 1 .. Len(d[i])
    BY ShapedTypes
  <2> QED BY <1>3, <2>1, <2>2
<1>5. Owned(d, n)
  <2>1. \A j \in 1 .. Len(d[1]) : d[1][j].list = 0
    BY <1>1, <1>3 DEF Owned
  <2>2. ASSUME NEW i \in 2 .. Len(d)
        PROVE  /\ d[i][1].list \in 1 .. n
               /\ \A j \in 1 .. Len(d[i]) : d[i][j].list = d[i][1].list
    <3>1. i \in 2 .. Len(c) /\ i \in 1 .. Len(c) /\ d[i][1].list = c[i][1].list
      BY <1>1, <1>4
    <3>2. CASE i = k
      BY <1>3, <3>1, <3>2 DEF Owned
    <3>3. CASE i # k
      BY <3>1, <3>3 DEF Owned
    <3> QED BY <3>2, <3>3
  <2>3. \A i, j \in 2 .. Len(d) : i < j => d[i][1].list < d[j][1].list
    BY <1>4 DEF Owned
  <2> QED BY <2>1, <2>2, <2>3 DEF Owned
<1>6. f \in Fifos
  BY <1>1 DEF Owned, Fifos
<1>7. WaitingIn(c, f) = c[k] /\ WaitingIn(d, f) = d[k]
  <2>1. CASE k = 1
    BY <1>1, <1>5, <2>1, WaitingOf
  <2>2. CASE k # 1
    <3>1. k \in 2 .. Len(c) /\ k \in 2 .. Len(d) /\ f = c[k][1].list /\ f = d[k][1].list
      BY <1>1, <1>4, <2>2
    <3>2. WaitingIn(c, c[k][1].list) = c[k] /\ WaitingIn(d, d[k][1].list) = d[k]
      BY <1>1, <1>5, <3>1, WaitingOf
    <3> QED BY <3>1, <3>2
  <2> QED BY <2>1, <2>2
<1>8. ASSUME NEW g \in Fifos \ {f} PROVE WaitingIn(d, g) = WaitingIn(c, g)
  <2>1. CASE g = 0
    <3>1. k # 1 /\ d[1] = c[1]
      BY <1>1, <1>8, <2>1
    <3> QED BY <1>1, <1>5, <2>1, <3>1, WaitingOf
  <2>2. CASE g # 0
    <3>1. ASSUME NEW i \in 2 .. Len(c), c[i][1].list = g \/ d[i][1].list = g PROVE d[i] = c[i]
      <4>1. i # k
        BY <1>1, <1>4, <1>8, <3>1
      <4>2. i \in 1 .. Len(c)
        BY <1>1
      <4> QED BY <4>1, <4>2
    <3>2. \A i \in 2 .. Len(c) : c[i][1].list = g => \E j \in 2 .. Len(d) : d[j] = c[i]
      BY <3>1
    <3>3. \A j \in 2 .. Len(d) : d[j][1].list = g => \E i \in 2 .. Len(c) : c[i] = d[j]
      BY <3>1
    <3> QED BY <1>1, <1>5, <2>2, <3>2, <3>3, SameWaiting
  <2> QED BY <2>1, <2>2
<1>9. d[k] = Tail(c[k])
  OBVIOUS
<1> HIDE DEF f
<1>10. Owned(d, n) /\ f \in Fifos /\ WaitingIn(c, f) = c[k] /\ WaitingIn(d, f) = Tail(c[k])
  BY <1>5, <1>6, <1>7, <1>9
<1> QED BY <1>8, <1>10 DEF f

\* The last packet of channel k, which is taken out
LEMMA LastOfChannel ==
  ASSUME NEW c, NEW n \in 0 .. MaxLists, MaxLists \in Nat, Shaped(c), Owned(c, n),
         NEW d, Shaped(d), Len(d) = Len(c) - 1,
         NEW k \in 2 .. Len(c), Tail(c[k]) = <<>>,
         \A i \in 1 .. Len(c) - 1 : d[i] = IF i < k THEN c[i] ELSE c[i + 1]
  PROVE  LET f == c[k][1].list IN
         /\ Owned(d, n) /\ f \in Fifos /\ WaitingIn(c, f) = c[k] /\ WaitingIn(d, f) = Tail(c[k])
         /\ \A g \in Fifos \ {f} : WaitingIn(d, g) = WaitingIn(c, g)
<1> DEFINE f == c[k][1].list
           From(i) == IF i < k THEN i ELSE i + 1
           To(i) == IF i < k THEN i ELSE i - 1
<1>1. Len(c) \in Nat /\ k \in Nat /\ k >= 2 /\ n \in Nat
  BY ShapedTypes
<1>2. ASSUME NEW i \in 2 .. Len(d)
      PROVE  From(i) \in 2 .. Len(c) /\ From(i) # k /\ d[i] = c[From(i)]
  BY <1>1
<1>3. ASSUME NEW i \in 2 .. Len(c), i # k
      PROVE  To(i) \in 2 .. Len(d) /\ d[To(i)] = c[i]
  BY <1>1, <1>3
<1>4. \A i, j \in 2 .. Len(d) : i < j => From(i) < From(j)
  BY <1>1
<1>5. d[1] = c[1]
  BY <1>1
<1> HIDE DEF From, To
<1>6. Owned(d, n)
  <2>1. \A j \in 1 .. Len(d[1]) : d[1][j].list = 0
    BY <1>5 DEF Owned
  <2>2. ASSUME NEW i \in 2 .. Len(d)
        PROVE  /\ d[i][1].list \in 1 .. n
               /\ \A j \in 1 .. Len(d[i]) : d[i][j].list = d[i][1].list
    <3>1. PICK h \in 2 .. Len(c) : d[i] = c[h]
      BY <1>2
    <3> QED BY <3>1 DEF Owned
  <2>3. \A i, j \in 2 .. Len(d) : i < j => d[i][1].list < d[j][1].list
    BY <1>2, <1>4 DEF Owned
  <2> QED BY <2>1, <2>2, <2>3 DEF Owned
<1>7. f \in Fifos \ {0}
  BY <1>1 DEF Owned, Fifos
<1>8. \A i \in 2 .. Len(d) : d[i][1].list # f
  <2> SUFFICES ASSUME NEW i \in 2 .. Len(d), d[i][1].list = f PROVE FALSE
    OBVIOUS
  <2> QED BY <1>1, <1>2, OneOwner
<1>9. WaitingIn(c, f) = c[k] /\ WaitingIn(d, f) = <<>>
  BY <1>1, <1>6, <1>7, <1>8, WaitingOf
<1>10. ASSUME NEW g \in Fifos \ {f} PROVE WaitingIn(d, g) = WaitingIn(c, g)
  <2>1. CASE g = 0
    BY <1>1, <1>5, <1>6, <2>1, WaitingOf
  <2>2. CASE g # 0
    <3>1. \A i \in 2 .. Len(c) : c[i][1].list = g => \E j \in 2 .. Len(d) : d[j] = c[i]
      BY <1>3, <1>10
    <3>2. \A j \in 2 .. Len(d) : d[j][1].list = g => \E i \in 2 .. Len(c) : c[i] = d[j]
      BY <1>2
    <3>3. g \in Fifos \ {0} /\ n \in Nat
      BY <1>1, <2>2
    <3> QED BY <1>6, <3>1, <3>2, <3>3, SameWaiting
  <2> QED BY <2>1, <2>2
<1> QED BY <1>6, <1>7, <1>9, <1>10

\* The channels as they are
LEMMA ChannelsTyped ==
  ASSUME QueueInv
  PROVE  /\ Len(channels) \in Nat /\ Len(channels) >= 1
         /\ \A i \in 1 .. Len(channels) :
                /\ channels[i] \in Seq(Packet) /\ Len(channels[i]) \in Nat
                /\ channels[i] # <<>> <=> Len(channels[i]) >= 1
         /\ \A i \in 2 .. Len(channels) : Len(channels[i]) >= 1
BY ChannelsShaped, ShapedTypes

\* queuePacket lengthens the main channel
LEMMA QueuedPacket ==
  ASSUME QueueInv, QueuePacket
  PROVE  /\ Len(channels') = Len(channels) /\ channels'[1] = Append(channels[1], Lone(alone'))
         /\ \A i \in 2 .. Len(channels) : channels'[i] = channels[i]
         /\ Lone(alone') \in Packet /\ Lone(alone').list = 0 /\ lists' = lists
<1>1. channels[1] \in Seq(Packet) /\ channels \in Seq(Seq(Packet)) /\ 1 \in 1 .. Len(channels) /\ alone' \in Nat
  BY ChannelsTyped, PacketQueueAssumption DEF QueueInv, ChannelInv, NumberInv, QueuePacket
<1>2. Lone(alone') \in Packet /\ Lone(alone').list = 0
  BY <1>1 DEF Lone, Packet, LonePacket
<1>3. Append(channels[1], Lone(alone')) \in Seq(Packet)
  BY <1>1, <1>2, AppendProperties
<1>4. channels' = [channels EXCEPT ![1] = Append(channels[1], Lone(alone'))]
  BY <1>1 DEF QueuePacket
<1>5. /\ Len(channels') = Len(channels)
      /\ \A i \in 2 .. Len(channels) : channels'[i] = channels[i]
  BY <1>1, <1>3, <1>4, MainChannel DEF ChannelInv, QueueInv
<1>6. channels'[1] = Append(channels[1], Lone(alone'))
  <2> DEFINE u == Append(channels[1], Lone(alone'))
  <2>1. u \in Seq(Packet) /\ channels' = [channels EXCEPT ![1] = u]
    BY <1>3, <1>4
  <2> HIDE DEF u
  <2>2. channels'[1] = u
    BY <1>1, <2>1
  <2> QED BY <2>2 DEF u
<1> QED BY <1>2, <1>5, <1>6 DEF QueuePacket

\* queuePacketList adds a channel
LEMMA QueuedList ==
  ASSUME QueueInv, NEW n \in 1 .. MaxListLength, QueuePacketList(n)
  PROVE  \E c \in Seq(Packet) :
         /\ c # <<>> /\ \A j \in 1 .. Len(c) : c[j].list = lists'
         /\ Len(channels') = Len(channels) + 1 /\ channels'[Len(channels) + 1] = c
         /\ \A i \in 1 .. Len(channels) : channels'[i] = channels[i]
         /\ lists' = lists + 1 /\ lists' <= MaxLists
<1>1. lists' = lists + 1 /\ lists' \in 0 .. MaxLists /\ lists \in Nat
  BY PacketQueueAssumption DEF NumberInv, QueueInv, QueuePacketList
<1>2. IsNumberOf(NextMessageNumber, lists')
  BY <1>1, NextNumber DEF NumberInv, NextMessageNumber, QueueInv
<1>3. n \in Nat \ {0}
  BY PacketQueueAssumption
<1> DEFINE c == [i \in 1 .. n |-> Prepared(lists', NextMessageNumber, i, n)]
<1>4. c \in Seq(Packet) /\ c # <<>>
  BY <1>1, <1>2, <1>3, PreparedList
<1>5. channels' = Append(channels, c)
  BY DEF QueuePacketList
<1>6. \A j \in 1 .. Len(c) : c[j].list = lists'
  <2>1. Len(c) = n
    BY <1>3
  <2>2. \A j \in 1 .. n : c[j].list = lists'
    BY DEF Prepared
  <2> QED BY <2>1, <2>2
<1> HIDE DEF c
<1>7. /\ Len(channels') = Len(channels) + 1
      /\ \A i \in 1 .. Len(channels) : channels'[i] = channels[i]
      /\ channels'[Len(channels) + 1] = c
  <2> DEFINE S == Seq(Packet)
             s == channels
  <2>1. s \in Seq(S) /\ c \in S
    BY <1>4 DEF ChannelInv, QueueInv
  <2> HIDE DEF S, s
  <2>2. /\ Len(Append(s, c)) = Len(s) + 1
        /\ \A i \in 1 .. Len(s) : Append(s, c)[i] = s[i]
        /\ Append(s, c)[Len(s) + 1] = c
    BY <2>1, AppendProperties
  <2> QED BY <1>5, <2>2 DEF s
<1> QED BY <1>1, <1>4, <1>6, <1>7

\* takePacket shortens one channel, or takes it out when it is empty
LEMMA TakenPacket ==
  ASSUME QueueInv, TakePacket
  PROVE  LET k == Serving IN
         /\ k \in 1 .. Len(channels) /\ channels[k] # <<>> /\ last' = Head(channels[k])
         /\ lists' = lists
         /\ \/ /\ Len(channels') = Len(channels)
               /\ \A i \in 1 .. Len(channels) :
                    channels'[i] = IF i = k THEN Tail(channels[k]) ELSE channels[i]
               /\ k # 1 => Tail(channels[k]) # <<>>
            \/ /\ k # 1 /\ Tail(channels[k]) = <<>>
               /\ Len(channels') = Len(channels) - 1
               /\ \A i \in 1 .. Len(channels) - 1 :
                    channels'[i] = IF i < k THEN channels[i] ELSE channels[i + 1]
<1> DEFINE k == Serving
           rest == Tail(channels[k])
           c == channels
<1>1. k \in 1 .. Len(c) /\ c[k] # <<>>
  BY ServingHasPacket DEF QueueInv, TakePacket
<1>2. c \in Seq(Seq(Packet)) /\ rest \in Seq(Packet)
  <2>1. c[k] \in Seq(Packet) /\ c \in Seq(Seq(Packet))
    BY <1>1, ChannelsTyped DEF QueueInv, ChannelInv
  <2> QED BY <1>1, <2>1, HeadTailProperties
<1>3. /\ last' = Head(c[k]) /\ lists' = lists
      /\ channels' = IF rest = <<>> /\ k # 1 THEN RemoveAt(c, k) ELSE [c EXCEPT ![k] = rest]
  BY DEF TakePacket
<1> HIDE DEF k, rest, c
<1>4. CASE rest = <<>> /\ k # 1
  <2>1. /\ Len(channels') = Len(c) - 1
        /\ \A i \in 1 .. Len(c) - 1 : channels'[i] = IF i < k THEN c[i] ELSE c[i + 1]
    BY <1>1, <1>2, <1>3, <1>4, RemoveChannel
  <2> QED BY <1>1, <1>3, <1>4, <2>1 DEF k, rest, c
<1>5. CASE ~(rest = <<>> /\ k # 1)
  <2> DEFINE S == Seq(Packet)
             u == [c EXCEPT ![k] = rest]
  <2>1. c \in Seq(S) /\ rest \in S /\ channels' = u
    BY <1>2, <1>3, <1>5
  <2> HIDE DEF S
  <2>2. Len(u) = Len(c) /\ \A i \in 1 .. Len(c) : u[i] = IF i = k THEN rest ELSE c[i]
    BY <1>1, <2>1, ExceptSeq
  <2> QED BY <1>1, <1>3, <1>5, <2>1, <2>2 DEF k, rest, c
<1> QED BY <1>4, <1>5

\* What a sequence is appended to is its front
LEMMA PrefixOfAppend ==
  ASSUME NEW s \in Seq(Packet), NEW p \in Packet
  PROVE  Len(Append(s, p)) > Len(s) /\ SubSeq(Append(s, p), 1, Len(s)) = s
<1>1. Len(s) \in Nat /\ Append(s, p) \in Seq(Packet) /\ Len(Append(s, p)) = Len(s) + 1
      /\ \A i \in 1 .. Len(s) : Append(s, p)[i] = s[i]
  BY AppendProperties
<1> DEFINE t == Append(s, p)
           u == SubSeq(t, 1, Len(s))
<1> HIDE DEF t
<1>2. t \in Seq(Packet) /\ Len(t) = Len(s) + 1 /\ \A i \in 1 .. Len(s) : t[i] = s[i]
  BY <1>1 DEF t
<1>3. u \in Seq(Packet) /\ Len(u) = Len(s) /\ \A i \in 1 .. Len(s) : u[i] = t[i]
  BY <1>1, <1>2, SubSeqProperties
<1> HIDE DEF u
<1>4. u = s
  BY <1>2, <1>3, SeqEqual
<1> QED BY <1>1, <1>4 DEF t, u

\* What waits of each list, before and after a step
LEMMA FifosAre ==
  /\ \A f : Waiting(f) = WaitingIn(channels, f)
  /\ \A f : Waiting(f)' = WaitingIn(channels', f)
BY DEF Waiting, WaitingIn

\* Queueing adds to the end of one queue
LEMMA PutStep ==
  ASSUME NEW f \in Fifos, UNCHANGED last,
         Len(WaitingIn(channels', f)) > Len(WaitingIn(channels, f)),
         SubSeq(WaitingIn(channels', f), 1, Len(WaitingIn(channels, f))) = WaitingIn(channels, f),
         \A g \in Fifos \ {f} : WaitingIn(channels', g) = WaitingIn(channels, g)
  PROVE  Fifo!Put
<1>1. /\ Len(Waiting(f)') > Len(Waiting(f))
      /\ SubSeq(Waiting(f)', 1, Len(Waiting(f))) = Waiting(f)
      /\ \A g \in Fifos \ {f} : Waiting(g)' = Waiting(g)
  BY FifosAre
<1> QED BY <1>1 DEF Fifo!Put

\* Taking takes the first of one queue
LEMMA TakeStep ==
  ASSUME NEW f \in Fifos, WaitingIn(channels, f) # <<>>, last' = Head(WaitingIn(channels, f)),
         WaitingIn(channels', f) = Tail(WaitingIn(channels, f)),
         \A g \in Fifos \ {f} : WaitingIn(channels', g) = WaitingIn(channels, g)
  PROVE  Fifo!Take
<1>1. /\ Waiting(f) # <<>> /\ last' = Head(Waiting(f))
      /\ Waiting(f)' = Tail(Waiting(f))
      /\ \A g \in Fifos \ {f} : Waiting(g)' = Waiting(g)
  BY FifosAre
<1>2. [g \in Fifos |-> Waiting(g)'] = [[g \in Fifos |-> Waiting(g)] EXCEPT ![f] = Tail(@)]
  BY <1>1
<1> QED BY <1>1, <1>2 DEF Fifo!Take

\* queuePacket
LEMMA QueuePacketPuts ==
  ASSUME OwnersInv, QueueInv', QueuePacket PROVE OneListPerChannel' /\ Fifo!Put
<1> DEFINE c == channels
           d == channels'
           p == Lone(alone')
<1>1. /\ Shaped(c) /\ Owned(c, lists) /\ lists \in Nat
      /\ Shaped(d) /\ Len(d) = Len(c) /\ d[1] = Append(c[1], p)
      /\ \A i \in 2 .. Len(c) : d[i] = c[i]
      /\ p \in Packet /\ p.list = 0 /\ lists' = lists /\ 0 \in Fifos /\ last' = last
  <2>1. Shaped(c) /\ Owned(c, lists) /\ lists \in Nat /\ 0 \in Fifos
    BY ChannelsShaped DEF OwnersInv, OneListPerChannel, Fifos
  <2>2. Shaped(d)
    BY DEF QueueInv, ChannelInv, Shaped
  <2>3. last' = last
    BY DEF QueuePacket
  <2> QED BY <2>1, <2>2, <2>3, QueuedPacket DEF OwnersInv
<1> HIDE DEF p
<1>2. /\ Owned(d, lists) /\ WaitingIn(d, 0) = Append(WaitingIn(c, 0), p)
      /\ \A g \in Fifos \ {0} : WaitingIn(d, g) = WaitingIn(c, g)
  BY <1>1, OneMoreAlone
<1>3. WaitingIn(c, 0) \in Seq(Packet)
  BY <1>1, WaitingOf, ShapedTypes
<1>4. /\ Len(WaitingIn(d, 0)) > Len(WaitingIn(c, 0))
      /\ SubSeq(WaitingIn(d, 0), 1, Len(WaitingIn(c, 0))) = WaitingIn(c, 0)
  <2> DEFINE s == WaitingIn(c, 0)
             t == WaitingIn(d, 0)
  <2>1. s \in Seq(Packet) /\ t = Append(s, p) /\ p \in Packet
    BY <1>1, <1>2, <1>3
  <2> HIDE DEF s, t
  <2>2. Len(t) > Len(s) /\ SubSeq(t, 1, Len(s)) = s
    BY <2>1, PrefixOfAppend
  <2> QED BY <2>2 DEF s, t
<1>5. OneListPerChannel'
  BY <1>1, <1>2 DEF OneListPerChannel
<1> QED BY <1>1, <1>2, <1>4, <1>5, PutStep

\* queuePacketList
LEMMA QueuePacketListPuts ==
  ASSUME OwnersInv, QueueInv', NEW n \in 1 .. MaxListLength, QueuePacketList(n)
  PROVE  OneListPerChannel' /\ Fifo!Put
<1> DEFINE c == channels
           d == channels'
           f == lists + 1
<1>1. PICK s \in Seq(Packet) :
      /\ s # <<>> /\ \A j \in 1 .. Len(s) : s[j].list = lists'
      /\ Len(d) = Len(c) + 1 /\ d[Len(c) + 1] = s
      /\ \A i \in 1 .. Len(c) : d[i] = c[i]
      /\ lists' = f /\ lists' <= MaxLists
  BY QueuedList DEF OwnersInv
<1>2. /\ Shaped(c) /\ Owned(c, lists) /\ lists \in Nat /\ Shaped(d) /\ f \in Fifos
      /\ last' = last
  <2>1. Shaped(c) /\ Owned(c, lists) /\ lists \in Nat /\ MaxLists \in Nat
    BY ChannelsShaped DEF OwnersInv, OneListPerChannel
  <2>2. Shaped(d)
    BY DEF QueueInv, ChannelInv, Shaped
  <2>3. f \in Fifos
    BY <1>1, <2>1 DEF Fifos
  <2>4. last' = last
    BY DEF QueuePacketList
  <2> QED BY <2>1, <2>2, <2>3, <2>4
<1>3. /\ Owned(d, f) /\ WaitingIn(c, f) = <<>> /\ WaitingIn(d, f) = s
      /\ \A g \in Fifos \ {f} : WaitingIn(d, g) = WaitingIn(c, g)
  BY <1>1, <1>2, OneMoreList
<1>4. OneListPerChannel'
  BY <1>1, <1>3 DEF OneListPerChannel
<1>5. /\ Len(WaitingIn(d, f)) > Len(WaitingIn(c, f))
      /\ SubSeq(WaitingIn(d, f), 1, Len(WaitingIn(c, f))) = WaitingIn(c, f)
  <2>1. Len(s) > 0 /\ Len(<<>>) = 0 /\ SubSeq(s, 1, 0) = <<>>
    BY <1>1, EmptySeq
  <2> QED BY <1>3, <2>1
<1> HIDE DEF f
<1> QED BY <1>2, <1>3, <1>4, <1>5, PutStep

\* takePacket
LEMMA TakePacketTakes ==
  ASSUME OwnersInv, QueueInv', TakePacket PROVE OneListPerChannel' /\ Fifo!Take
<1> DEFINE c == channels
           d == channels'
           k == Serving
           f == IF k = 1 THEN 0 ELSE c[k][1].list
<1>1. /\ Shaped(c) /\ Owned(c, lists) /\ lists \in 0 .. MaxLists /\ MaxLists \in Nat
      /\ Shaped(d)
  <2>1. Shaped(d)
    BY DEF QueueInv, ChannelInv, Shaped
  <2> QED BY <2>1, ChannelsShaped DEF OwnersInv, OneListPerChannel
<1>2. /\ k \in 1 .. Len(c) /\ c[k] # <<>> /\ last' = Head(c[k]) /\ lists' = lists
      /\ \/ /\ Len(d) = Len(c)
            /\ \A i \in 1 .. Len(c) : d[i] = IF i = k THEN Tail(c[k]) ELSE c[i]
         \/ /\ k # 1 /\ Tail(c[k]) = <<>>
            /\ Len(d) = Len(c) - 1
            /\ \A i \in 1 .. Len(c) - 1 : d[i] = IF i < k THEN c[i] ELSE c[i + 1]
  BY TakenPacket DEF OwnersInv
<1> HIDE DEF k
<1>3. /\ Owned(d, lists) /\ f \in Fifos /\ WaitingIn(c, f) = c[k] /\ WaitingIn(d, f) = Tail(c[k])
      /\ \A g \in Fifos \ {f} : WaitingIn(d, g) = WaitingIn(c, g)
  <2>1. CASE /\ Len(d) = Len(c)
             /\ \A i \in 1 .. Len(c) : d[i] = IF i = k THEN Tail(c[k]) ELSE c[i]
    BY <1>1, <1>2, <2>1, OneLess
  <2>2. CASE /\ k # 1 /\ Tail(c[k]) = <<>>
             /\ Len(d) = Len(c) - 1
             /\ \A i \in 1 .. Len(c) - 1 : d[i] = IF i < k THEN c[i] ELSE c[i + 1]
    <3>1. k \in 2 .. Len(c) /\ f = c[k][1].list
      BY <1>1, <1>2, <2>2, ShapedTypes
    <3>2. LET h == c[k][1].list IN
          /\ Owned(d, lists) /\ h \in Fifos /\ WaitingIn(c, h) = c[k] /\ WaitingIn(d, h) = Tail(c[k])
          /\ \A g \in Fifos \ {h} : WaitingIn(d, g) = WaitingIn(c, g)
      BY <1>1, <2>2, <3>1, LastOfChannel
    <3> QED BY <3>1, <3>2
  <2> QED BY <1>2, <2>1, <2>2
<1>4. OneListPerChannel'
  BY <1>2, <1>3 DEF OneListPerChannel
<1> HIDE DEF f
<1>5. Fifo!Take
  <2>1. /\ f \in Fifos /\ WaitingIn(c, f) # <<>> /\ last' = Head(WaitingIn(c, f))
        /\ WaitingIn(d, f) = Tail(WaitingIn(c, f))
        /\ \A g \in Fifos \ {f} : WaitingIn(d, g) = WaitingIn(c, g)
    BY <1>2, <1>3
  <2> QED BY <2>1, TakeStep
<1> QED BY <1>4, <1>5

\* An empty queue, at first and when it is made again
LEMMA NothingWaits ==
  ASSUME NEW chs, chs = <<<<>>>>, NEW n
  PROVE  Owned(chs, n) /\ \A f \in Fifos : WaitingIn(chs, f) = <<>>
<1>1. Len(chs) = 1 /\ chs[1] = <<>> /\ Len(<<>>) = 0 /\ 2 .. 1 = {}
  OBVIOUS
<1> QED BY <1>1 DEF Owned, WaitingIn

LEMMA EmptyFifos ==
  ASSUME Init PROVE OneListPerChannel /\ Fifo!Init
<1>1. /\ Owned(channels, lists) /\ \A f \in Fifos : WaitingIn(channels, f) = <<>>
      /\ last = NoPacket
  BY NothingWaits DEF Init
<1>2. \A f \in Fifos : Waiting(f) = <<>>
  BY <1>1, FifosAre
<1> QED BY <1>1, <1>2 DEF Fifo!Init, OneListPerChannel

\* A new SendQueue after Connection::stopSendQueue
LEMMA RecreateDiscards ==
  ASSUME Recreate PROVE OneListPerChannel' /\ Fifo!Discard
<1>1. /\ Owned(channels', lists') /\ \A f \in Fifos : WaitingIn(channels', f) = <<>>
      /\ last' = last
  BY NothingWaits DEF Recreate
<1>2. \A f \in Fifos : Waiting(f)' = <<>>
  BY <1>1, FifosAre
<1> QED BY <1>1, <1>2 DEF Fifo!Discard, OneListPerChannel

\* takePacket on an empty queue
LEMMA TakeNothingTakesNothing ==
  ASSUME OwnersInv, TakeNothing PROVE OneListPerChannel' /\ Fifo!TakeNothing
<1>1. channels' = channels /\ lists' = lists /\ last' = NoPacket
      /\ Len(channels) = 1 /\ channels[1] = <<>>
  BY DEF TakeNothing, queueVars, IsEmpty
<1>2. \A f \in Fifos : WaitingIn(channels, f) = <<>>
  <2>1. 2 .. Len(channels) = {}
    BY <1>1
  <2> QED BY <1>1, <2>1 DEF WaitingIn
<1>3. \A f \in Fifos : Waiting(f) = <<>> /\ Waiting(f)' = Waiting(f)
  BY <1>1, <1>2, FifosAre
<1> QED BY <1>1, <1>3 DEF Fifo!TakeNothing, OneListPerChannel, OwnersInv

\* Every step is one of the abstract queues'
LEMMA FifoStep ==
  ASSUME OwnersInv, QueueInv', [Next]_vars PROVE OneListPerChannel' /\ [Fifo!Next]_(Fifo!vars)
<1>1. CASE UNCHANGED vars
  <2>1. channels' = channels /\ lists' = lists /\ last' = last
    BY <1>1 DEF vars, queueVars
  <2>2. \A f \in Fifos : Waiting(f)' = Waiting(f)
    BY <2>1, FifosAre
  <2> QED BY <2>1, <2>2 DEF OneListPerChannel, OwnersInv, Fifo!vars
<1>2. CASE Next
  BY <1>2, QueuePacketPuts, QueuePacketListPuts, TakePacketTakes, RecreateDiscards,
     TakeNothingTakesNothing DEF Next, Fifo!Next
<1> QED BY <1>1, <1>2

\* Each channel but the first belongs to one list, the oldest in front
THEOREM OwnersInvariance == Spec => []OwnersInv
<1>1. Init => OwnersInv
  BY EmptyFifos, InitInv DEF OwnersInv, Inv
<1>2. OwnersInv /\ [Next]_vars => OwnersInv'
  BY NextInv, FifoStep DEF OwnersInv
<1> QED BY <1>1, <1>2, PTL DEF Spec

(***************************************************************************)
(* The channels, with one that takePacket empties taken out and the ones   *)
(* behind it moved up, are a FIFO queue for the packets queued alone and   *)
(* one for each list; takePacket returns nothing only when all are empty,  *)
(* and only a new SendQueue drops what is queued.                          *)
(***************************************************************************)
THEOREM MultiFifoImplemented == Spec => ImplementsMultiFifo
<1>1. Init => Fifo!Init
  BY EmptyFifos
<1>2. OwnersInv /\ OwnersInv' /\ [Next]_vars => [Fifo!Next]_(Fifo!vars)
  BY FifoStep DEF OwnersInv
<1> QED BY <1>1, <1>2, OwnersInvariance, PTL DEF Spec, Fifo!Spec, ImplementsMultiFifo
=============================================================================
