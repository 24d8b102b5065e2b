-------------------------- MODULE Connection_proofs --------------------------
(***************************************************************************)
(* For every window, number of packets, of resets and of late datagrams:   *)
(* a reliable packet is delivered at most once on one handshake, and can   *)
(* be sent again until it is ACKed.  As long as no late datagram is taken, *)
(* it is also delivered at most once in all, and only forgotten by its     *)
(* sender when it has been delivered.                                      *)
(***************************************************************************)
EXTENDS Connection, WellFoundedInduction, TLAPS

(***************************************************************************)
(* The inductive invariant.  First, what holds whatever arrives            *)
(***************************************************************************)

\* Sequence numbers a sender that starts at initial may use, with the ones
\* around them
Span(initial) == initial - 1 .. initial + MaxPackets

\* The numbers of all spans and those between them
Zone == {n \in Nat : \E i, j \in Initials : i - 1 <= n /\ n <= j + MaxPackets}

\* Everything that was ever written, and what is kept to be sent again
Written == wire \cup late \cup sentPackets

\* The queue's numbers: before the handshake's end none is used, after it
\* no more than packets were queued
SenderInv ==
    /\ initialSequenceNumber \in used
    /\ ~hasSendQueue => packets = 0 /\ sentPackets = {}
    /\ ~hasReceivedHandshakeACK => sentPackets = {}
    /\ hasSendQueue /\ ~hasReceivedHandshakeACK =>
            /\ current = initialSequenceNumber - 1
            /\ lastReceivedACK = initialSequenceNumber - 1
    /\ hasReceivedHandshakeACK =>
            /\ initialSequenceNumber - 1 <= lastReceivedACK
            /\ lastReceivedACK <= QueueCurrent
            /\ QueueCurrent - initialSequenceNumber + 1 <= queued - packets
    /\ hasSendQueue =>
            {m.seq : m \in sentPackets} = lastReceivedACK + 1 .. current

\* No packet was ever written under two numbers, and none wraps
NumberInv ==
    /\ \A s \in SeqNum : Ctl("Handshake", s) \in Written => s \in Initials
    /\ \A s \in SeqNum : Ctl("ACK", s) \in Written => s \in Zone
    /\ \A m \in Data : m \in Written =>
            /\ m.seq \in Zone /\ m.seq - 1 \in Zone /\ m.seq + 1 \in Zone
            /\ m.payload <= queued - packets
    /\ \A m, n \in Data : m \in Written /\ n \in Written /\ m.payload = n.payload => m.seq = n.seq

\* The receiver's state, of whichever Connection it is
StateInv ==
    hasReceivedHandshake =>
        /\ lastReceivedSequenceNumber \in Zone /\ lastReceivedSequenceNumber + 1 \in Zone
        /\ \A k \in lossList : k \in Zone /\ k - 1 \in Zone /\ k <= lastReceivedSequenceNumber

\* What was delivered on the present handshake is neither above the last
\* received number nor in the loss list
OnceInv ==
    /\ \A p \in Payloads : delivered[p] = before[p] \/ delivered[p] = before[p] + 1
    /\ ~hasReceivedHandshake => delivered = before
    /\ \A p \in Payloads : p > queued - packets => delivered[p] = before[p]
    /\ \A m \in Data : m \in Written /\ delivered[m.payload] # before[m.payload] =>
            m.seq <= lastReceivedSequenceNumber /\ m.seq \notin lossList

Always == TypeOK /\ SenderInv /\ NumberInv /\ StateInv /\ OnceInv

(***************************************************************************)
(* Second, what holds as long as no late datagram was taken                *)
(***************************************************************************)

\* The receiver's state belongs to the sender's present initial number
Synced == hasReceivedHandshake /\ initialReceiveSequenceNumber = initialSequenceNumber

\* Packets of the present queue: on their way, or kept to be sent again
Numbered == wire \cup sentPackets

\* What a datagram tells of its sender when it is still on its way; in
\* particular the numbers and the packets of Data match one to one
WireInv ==
    /\ \A s \in SeqNum : Ctl("Handshake", s) \in wire =>
            s = initialSequenceNumber /\ (hasReceivedHandshakeACK => hasReceivedHandshake)
    /\ \A s \in SeqNum : Ctl("HandshakeACK", s) \in wire => s = initialSequenceNumber /\ Synced
    /\ Request \in wire => hasReceivedHandshakeACK /\ ~hasReceivedHandshake
    /\ \A s \in SeqNum : Ctl("ACK", s) \in wire =>
            /\ hasReceivedHandshakeACK /\ Synced
            /\ initialSequenceNumber - 1 <= s /\ s <= lastReceivedSequenceNumber
            /\ \A k \in lossList : k > s
    /\ \A m \in Data : m \in Numbered =>
            /\ hasReceivedHandshakeACK
            /\ initialSequenceNumber <= m.seq /\ m.seq <= QueueCurrent
            /\ m.payload <= queued - packets
    /\ \A m, n \in Data : m \in Numbered /\ n \in Numbered => (m.seq = n.seq <=> m.payload = n.payload)

\* The receiver has only seen what its sender has sent since the handshake
ReceiverInv ==
    /\ hasReceivedHandshake => initialReceiveSequenceNumber \in used
    /\ hasReceivedHandshakeACK /\ hasReceivedHandshake => Synced
    /\ Synced /\ ~hasReceivedHandshakeACK =>
            lastReceivedSequenceNumber = initialSequenceNumber - 1 /\ lossList = {}
    /\ Synced /\ hasReceivedHandshakeACK =>
            /\ initialSequenceNumber - 1 <= lastReceivedSequenceNumber
            /\ lastReceivedSequenceNumber <= QueueCurrent
            /\ \A k \in lossList :
                    initialSequenceNumber <= k /\ k <= lastReceivedSequenceNumber

\* A packet has been delivered if and only if its number is neither above
\* the last received one nor in the loss list
HistoryInv ==
    /\ \A p \in Payloads : delivered[p] = 0 \/ delivered[p] = 1
    /\ \A p \in Payloads : p > queued - packets => delivered[p] = 0
    /\ \A p \in acked : delivered[p] = 1
    /\ Synced => \A m \in Data : m \in Numbered =>
            (delivered[m.payload] = 1 <=>
                m.seq <= lastReceivedSequenceNumber /\ m.seq \notin lossList)

Fresh == WireInv /\ ReceiverInv /\ HistoryInv

Inv == Always /\ (lateTaken = 0 => Fresh)

(***************************************************************************)
(* Arithmetic                                                              *)
(***************************************************************************)

\* Where no number wraps the operators are those of the integers
LEMMA ZoneArithmetic ==
  ASSUME NEW a \in Zone, NEW b \in Zone
  PROVE  /\ a \in SeqNum /\ a \in Nat
         /\ Gt(a, b) <=> a > b
         /\ Leq(a, b) <=> a <= b
         /\ a + 1 \in Zone => Plus(a, 1) = a + 1
         /\ a - 1 \in Zone => Minus(a, 1) = a - 1
         /\ a <= b => Seqlen(a, b) = b - a + 1
         /\ a - b < THRESHOLD
<1>1. /\ MAX = 2 * THRESHOLD + 1 /\ THRESHOLD \in Nat /\ MaxPackets \in Nat
      /\ \A i \in Initials : i \in Nat /\ i >= 1 /\ i + MaxPackets <= MAX
      /\ \A i, j \in Initials : i - j + MaxPackets + 2 < THRESHOLD
  BY SequenceNumberAssumption, ConnectionAssumption
<1>2. a \in Nat /\ b \in Nat /\ a <= MAX /\ b <= MAX
  BY <1>1 DEF Zone
<1>3. a - b < THRESHOLD /\ b - a < THRESHOLD
  <2>1. PICK i, j \in Initials : i - 1 <= a /\ a <= j + MaxPackets
    BY DEF Zone
  <2>2. PICK k, l \in Initials : k - 1 <= b /\ b <= l + MaxPackets
    BY DEF Zone
  <2>3. j - k + MaxPackets + 2 < THRESHOLD /\ l - i + MaxPackets + 2 < THRESHOLD
    BY <1>1
  <2> QED BY <1>1, <1>2, <2>1, <2>2, <2>3
<1>4. Near(a, b)
  BY <1>1, <1>2, <1>3 DEF Near
<1>5. a + 1 \in Zone => a + 1 <= MAX
  BY <1>1 DEF Zone
<1>6. a - 1 \in Zone => a >= 1
  BY <1>2 DEF Zone
<1> QED
  BY <1>1, <1>2, <1>3, <1>4, <1>5, <1>6 DEF SeqNum, Gt, Leq, Plus, Minus, Seqlen

\* Nothing between two numbers of the zone is outside it
LEMMA ZoneIsConvex ==
  ASSUME NEW a \in Zone, NEW b \in Zone, NEW n \in Int, a <= n, n <= b
  PROVE  n \in Zone
<1>1. PICK i \in Initials : i - 1 <= a
  BY DEF Zone
<1>2. PICK j \in Initials : b <= j + MaxPackets
  BY DEF Zone
<1>3. i \in Int /\ j \in Int /\ MaxPackets \in Int /\ a \in Nat /\ b \in Nat
  BY SequenceNumberAssumption, ConnectionAssumption DEF Zone
<1>4. n \in Nat /\ i - 1 <= n /\ n <= j + MaxPackets
  BY <1>1, <1>2, <1>3
<1> QED BY <1>4 DEF Zone

\* A span is part of the zone
LEMMA SpanInZone == ASSUME NEW initial \in Initials PROVE Span(initial) \subseteq Zone
<1>1. initial \in Nat /\ initial >= 1
  BY SequenceNumberAssumption, ConnectionAssumption
<1>2. ASSUME NEW n \in Span(initial) PROVE n \in Zone
  <2>1. n \in Nat /\ initial - 1 <= n /\ n <= initial + MaxPackets
    BY <1>1, ConnectionAssumption DEF Span
  <2> QED BY <2>1 DEF Zone
<1> QED BY <1>2

\* ... so where one sender's numbers do not wrap, they are integers too
LEMMA SpanArithmetic ==
  ASSUME NEW initial \in Initials,
         NEW a \in Span(initial), NEW b \in Span(initial)
  PROVE  /\ a \in SeqNum /\ a \in Nat
         /\ Gt(a, b) <=> a > b
         /\ Leq(a, b) <=> a <= b
         /\ a < initial + MaxPackets => Plus(a, 1) = a + 1
         /\ a >= initial => Minus(a, 1) = a - 1
         /\ a <= b => Seqlen(a, b) = b - a + 1
<1>1. a \in Zone /\ b \in Zone /\ a \in Int /\ initial \in Int /\ MaxPackets \in Nat
  BY SpanInZone, SequenceNumberAssumption, ConnectionAssumption DEF Span
<1>2. /\ a < initial + MaxPackets => a + 1 \in Span(initial)
      /\ a >= initial => a - 1 \in Span(initial)
  BY <1>1 DEF Span
<1>3. /\ a < initial + MaxPackets => a + 1 \in Zone
      /\ a >= initial => a - 1 \in Zone
  BY <1>2, SpanInZone
<1> QED BY <1>1, <1>3, ZoneArithmetic

\* Where every sequence of packets starts
LEMMA InitialInSpan ==
  ASSUME NEW initial \in Initials
  PROVE  /\ initial \in Span(initial) /\ initial - 1 \in Span(initial)
         /\ initial \in SeqNum /\ initial - 1 \in SeqNum
         /\ initial \in Nat
         /\ Minus(initial, 1) = initial - 1
         /\ Plus(initial - 1, 1) = initial
<1>1. initial \in Span(initial) /\ initial - 1 \in Span(initial) /\ initial \in Int /\ MaxPackets \in Nat
  BY SequenceNumberAssumption, ConnectionAssumption DEF Span
<1> QED BY <1>1, SpanArithmetic

\* The gap a packet leaves is the interval between its ends
LEMMA RunIsInterval ==
  ASSUME NEW a \in Zone, NEW b \in Zone, a <= b
  PROVE  Run(a, b) = a .. b
<1>1. Seqlen(a, b) = b - a + 1 /\ a \in Nat /\ b \in Nat /\ b <= MAX /\ MAX \in Nat
  BY ZoneArithmetic, SequenceNumberAssumption DEF SeqNum
<1>2. \A k \in 0 .. b - a : Plus(a, k) = a + k
  BY <1>1 DEF Plus
<1>3. Run(a, b) = {a + k : k \in 0 .. b - a}
  BY <1>1, <1>2 DEF Run
<1>4. {a + k : k \in 0 .. b - a} = a .. b
  <2>1. ASSUME NEW x \in a .. b PROVE x \in {a + k : k \in 0 .. b - a}
    <3>1. x - a \in 0 .. b - a /\ x = a + (x - a)
      BY <1>1
    <3> QED BY <3>1
  <2>2. ASSUME NEW k \in 0 .. b - a PROVE a + k \in a .. b
    BY <1>1
  <2> QED BY <2>1, <2>2
<1> QED BY <1>3, <1>4

\* The loss list has a first number
LEMMA FirstIsFirst ==
  ASSUME NEW S \in SUBSET Zone, S # {}
  PROVE  First(S) \in S /\ \A other \in S : First(S) <= other
<1>1. S \subseteq Nat
  BY DEF Zone
<1>2. PICK m \in S : \A other \in S : ~ (<<other, m>> \in OpToRel(<, Nat))
  <2>1. IsWellFoundedOn(OpToRel(<, Nat), Nat)
    BY NatLessThanWellFounded
  <2>2. \E x \in S : \A y \in S : ~ (<<y, x>> \in OpToRel(<, Nat))
    BY <1>1, <2>1, WFMin
  <2> QED BY <2>2
<1>3. \A other \in S : m <= other
  <2>1. ASSUME NEW other \in S PROVE m <= other
    <3>1. other \in Nat /\ m \in Nat
      BY <1>1
    <3>2. <<other, m>> \in OpToRel(<, Nat) <=> <<other, m>> \in {ss \in Nat \X Nat : ss[1] < ss[2]}
      BY Zenon DEF OpToRel
    <3>3. ~ (<<other, m>> \in {ss \in Nat \X Nat : ss[1] < ss[2]})
      BY <1>2, <3>2
    <3> QED BY <3>1, <3>3
  <2> QED BY <2>1
<1>4. \A x, y \in S : Leq(x, y) <=> x <= y
  BY ZoneArithmetic
<1>5. \E x \in S : \A other \in S : Leq(x, other)
  BY <1>3, <1>4
<1>6. First(S) \in S /\ \A other \in S : Leq(First(S), other)
  BY <1>5 DEF First
<1> QED BY <1>4, <1>6

(***************************************************************************)
(* Consequences used at every step                                         *)
(***************************************************************************)

\* Numbers the sender uses are in the span of its initial number
LEMMA SenderInSpan ==
  ASSUME TypeOK, SenderInv
  PROVE  /\ initialSequenceNumber \in Initials
         /\ MaxPackets \in Nat
         /\ hasReceivedHandshakeACK =>
                /\ lastReceivedACK \in Span(initialSequenceNumber)
                /\ QueueCurrent \in Span(initialSequenceNumber)
                /\ QueueCurrent < initialSequenceNumber + MaxPackets
         /\ hasSendQueue =>
                /\ lastReceivedACK \in Span(initialSequenceNumber)
                /\ current \in Span(initialSequenceNumber)
<1>1. /\ initialSequenceNumber \in Initials /\ initialSequenceNumber \in Int
      /\ MaxPackets \in Nat /\ queued \in 0 .. MaxPackets /\ packets \in 0 .. queued
      /\ lastReceivedACK \in Int /\ current \in Int
      /\ initialSequenceNumber - 1 < initialSequenceNumber + MaxPackets
  BY InitialInSpan, ConnectionAssumption, SequenceNumberAssumption DEF TypeOK, SeqNum
<1>2. QueueCurrent \in Int
  BY <1>1, InitialInSpan DEF QueueCurrent
<1>3. ASSUME hasReceivedHandshakeACK
      PROVE  /\ lastReceivedACK \in Span(initialSequenceNumber)
             /\ QueueCurrent \in Span(initialSequenceNumber)
             /\ QueueCurrent < initialSequenceNumber + MaxPackets
  BY <1>1, <1>2, <1>3 DEF SenderInv, Span
<1>4. ASSUME hasSendQueue
      PROVE  /\ lastReceivedACK \in Span(initialSequenceNumber)
             /\ current \in Span(initialSequenceNumber)
  BY <1>1, <1>3, <1>4 DEF SenderInv, Span, QueueCurrent
<1> QED BY <1>1, <1>3, <1>4

\* Datagrams of different kinds are different
LEMMA Kinds ==
  /\ \A m \in Data : m.kind = "Data" /\ m.seq \in SeqNum /\ m.payload \in Payloads
  /\ \A k, s : Ctl(k, s).kind = k /\ Ctl(k, s).seq = s
  /\ \A s \in SeqNum : \A k \in {"ACK", "Handshake", "HandshakeACK"} : Ctl(k, s) \in Datagrams
  /\ Request.kind = "HandshakeRequest" /\ Request \in Datagrams
  /\ Data \subseteq Datagrams
BY DEF Data, Ctl, Request, Datagrams, Control

\* A datagram that arrives was written, and was written since the last reset
\* if none late has been taken
LEMMA ArrivesFrom ==
  ASSUME TypeOK, NEW m, Arrives(m)
  PROVE  /\ m \in wire \cup late /\ m \in Written /\ lateTaken' \in 0 .. MaxLate
         /\ lateTaken' = 0 => lateTaken = 0 /\ m \in wire
BY ConnectionAssumption DEF TypeOK, Arrives, Written

\* The first state: nothing has been sent
LEMMA InitInv == Init => Inv
<1> SUFFICES ASSUME Init PROVE Inv
  OBVIOUS
<1>1. 0 \in SeqNum /\ 0 \in 0 .. MaxPackets /\ 0 \in 0 .. MaxCleanups /\ 0 \in 0 .. MaxLate
  BY SequenceNumberAssumption, ConnectionAssumption DEF SeqNum
<1>2. TypeOK
  <2>1. packets \in 0 .. queued /\ [p \in Payloads |-> 0] \in [Payloads -> Nat]
    BY DEF Init
  <2> QED BY <1>1, <2>1 DEF Init, TypeOK
<1>3. SenderInv
  BY DEF Init, SenderInv
<1>4. NumberInv /\ StateInv /\ OnceInv
  BY DEF Init, NumberInv, StateInv, OnceInv, Written
<1>5. WireInv
  BY DEF Init, WireInv, Numbered
<1>6. ReceiverInv
  BY DEF Init, ReceiverInv, Synced
<1>7. HistoryInv
  BY DEF Init, HistoryInv, Synced
<1> QED BY <1>2, <1>3, <1>4, <1>5, <1>6, <1>7 DEF Inv, Always, Fresh

(***************************************************************************)
(* What holds whatever arrives: the steps of the sender                    *)
(***************************************************************************)

\* A step that writes nothing new and leaves the receiver alone
LEMMA NothingWritten ==
  ASSUME Always, Written' \subseteq Written, queued - packets <= queued' - packets',
         {queued, packets, queued', packets'} \subseteq Int,
         UNCHANGED <<hasReceivedHandshake, lastReceivedSequenceNumber, lossList, delivered, before>>
  PROVE  NumberInv' /\ StateInv' /\ OnceInv'
<1>1. \A p \in Payloads : p \in Int
  BY ConnectionAssumption DEF Payloads
<1>2. \A m \in Data : m.payload \in Int
  BY <1>1, Kinds
<1>3. NumberInv'
  <2>1. \A m \in Data : m.payload <= queued - packets => m.payload <= queued' - packets'
    BY <1>2
  <2> QED BY <2>1 DEF Always, NumberInv
<1>4. StateInv'
  BY DEF Always, StateInv
<1>5. OnceInv'
  <2>1. \A p \in Payloads : p > queued' - packets' => p > queued - packets
    BY <1>1
  <2> QED BY <2>1 DEF Always, OnceInv
<1> QED BY <1>3, <1>4, <1>5

\* queuePacket may make the queue, with the numbers QueueCurrent foretells
LEMMA SendReliablePacketAlways == Always /\ SendReliablePacket => Always'
<1> SUFFICES ASSUME Always, SendReliablePacket PROVE Always'
  OBVIOUS
<1> USE DEF SendReliablePacket, senderVars, receiverVars
<1>1. /\ initialSequenceNumber - 1 \in SeqNum
      /\ Minus(initialSequenceNumber, 1) = initialSequenceNumber - 1
      /\ queued \in Int /\ packets \in Int /\ MaxPackets \in Int
      /\ initialSequenceNumber \in Int
  BY InitialInSpan, ConnectionAssumption DEF Always, TypeOK
<1>2. TypeOK'
  BY <1>1, ConnectionAssumption DEF Always, TypeOK, QueueCurrent, QueueACK
<1>3. hasReceivedHandshakeACK => QueueCurrent' = QueueCurrent
  BY DEF QueueCurrent
<1>4. SenderInv'
  <2>1. queued' - packets' = queued - packets
    BY <1>1
  <2>2. ~hasSendQueue => current' = lastReceivedACK' /\ sentPackets = {}
    BY DEF Always, SenderInv, QueueCurrent, QueueACK
  <2>3. hasSendQueue => current' = current /\ lastReceivedACK' = lastReceivedACK
    BY DEF QueueCurrent, QueueACK
  <2>4. {m.seq : m \in sentPackets'} = lastReceivedACK' + 1 .. current'
    <3>1. CASE hasSendQueue
      BY <3>1, <2>3 DEF Always, SenderInv
    <3>2. CASE ~hasSendQueue
      <4>1. lastReceivedACK' + 1 .. current' = {}
        BY <3>2, <2>2, <1>2, SequenceNumberAssumption DEF TypeOK, SeqNum
      <4> QED BY <3>2, <2>2, <4>1
    <3> QED BY <3>1, <3>2
  <2>5. hasReceivedHandshakeACK => lastReceivedACK' = lastReceivedACK
    BY <2>3 DEF QueueCurrent, QueueACK
  <2>6. ~hasReceivedHandshakeACK =>
            current' = initialSequenceNumber - 1 /\ lastReceivedACK' = initialSequenceNumber - 1
    BY <1>1 DEF Always, SenderInv, QueueCurrent, QueueACK
  <2> QED BY <1>1, <1>3, <2>1, <2>4, <2>5, <2>6 DEF Always, SenderInv
<1>5. NumberInv' /\ StateInv' /\ OnceInv'
  BY <1>1, NothingWritten DEF Written
<1> QED BY <1>2, <1>4, <1>5 DEF Always

\* A Handshake carries the initial number
LEMMA SendHandshakeAlways == Always /\ SendHandshake => Always'
<1> SUFFICES ASSUME Always, SendHandshake PROVE Always'
  OBVIOUS
<1> USE DEF SendHandshake, senderVars, receiverVars
<1>1. Plus(current, 1) = initialSequenceNumber /\ initialSequenceNumber \in SeqNum
      /\ initialSequenceNumber \in Initials
  BY InitialInSpan DEF Always, TypeOK, SenderInv
<1>2. /\ wire' = wire \cup {Ctl("Handshake", initialSequenceNumber)}
      /\ Written' = Written \cup {Ctl("Handshake", initialSequenceNumber)}
  BY <1>1 DEF Write, Written
<1>3. TypeOK'
  BY <1>1, <1>2, Kinds DEF Always, TypeOK, Write
<1>4. SenderInv' /\ StateInv'
  BY DEF Always, SenderInv, StateInv, QueueCurrent
<1>5. \A m \in Data : m \in Written' => m \in Written
  BY <1>2, Kinds
<1>6. \A s \in SeqNum : /\ Ctl("ACK", s) \in Written' => Ctl("ACK", s) \in Written
                        /\ Ctl("Handshake", s) \in Written' =>
                              Ctl("Handshake", s) \in Written \/ s = initialSequenceNumber
  BY <1>2, Kinds
<1>7. NumberInv'
  BY <1>1, <1>5, <1>6 DEF Always, NumberInv
<1>8. OnceInv'
  BY <1>5 DEF Always, OnceInv
<1> QED BY <1>3, <1>4, <1>7, <1>8 DEF Always

\* A new packet gets the number after the last and is not yet delivered
LEMMA SendNewPacketAlways == Always /\ SendNewPacket => Always'
<1> SUFFICES ASSUME Always, SendNewPacket PROVE Always'
  OBVIOUS
<1> DEFINE m == [kind |-> "Data", seq |-> Plus(current, 1), payload |-> queued - packets + 1]
<1> USE DEF SendNewPacket, HasPacket, receiverVars
<1>1. /\ queued \in Int /\ packets \in Int /\ MaxPackets \in Int /\ queued <= MaxPackets
      /\ packets > 0 /\ packets <= queued
      /\ initialSequenceNumber \in Int /\ current \in Int /\ lastReceivedACK \in Int
      /\ initialSequenceNumber \in Initials
  BY SequenceNumberAssumption, InitialInSpan, ConnectionAssumption DEF Always, TypeOK, SeqNum
<1>2. /\ QueueCurrent = current /\ QueueCurrent' = current'
      /\ current \in Span(initialSequenceNumber)
      /\ initialSequenceNumber - 1 <= lastReceivedACK /\ lastReceivedACK <= current
      /\ current - initialSequenceNumber + 1 <= queued - packets
  BY SenderInSpan DEF Always, SenderInv, QueueCurrent
<1>3. Plus(current, 1) = current + 1 /\ current + 1 \in Span(initialSequenceNumber)
  BY <1>1, <1>2, SpanArithmetic DEF Span
<1>4. current + 1 \in SeqNum
  BY <1>1, <1>3, SpanArithmetic
<1>5. /\ m \in Data /\ m.seq = current + 1 /\ m.payload = queued - packets + 1
      /\ m.payload \in Payloads
  BY <1>1, <1>3, <1>4 DEF Data, Payloads
<1>6. wire' = wire \cup {m} /\ sentPackets' = sentPackets \cup {m} /\ Written' = Written \cup {m}
  BY DEF Write, Written
<1>7. current' = current + 1
  BY <1>3
<1> HIDE DEF m
<1>8. TypeOK'
  <2>1. packets' \in 0 .. queued' /\ queued' \in 0 .. MaxPackets
    BY <1>1
  <2> QED BY <1>4, <1>5, <1>6, <1>7, <2>1, Kinds DEF Always, TypeOK, Write
<1>9. SenderInv'
  <2>1. {n.seq : n \in sentPackets'} = {n.seq : n \in sentPackets} \cup {current + 1}
    BY <1>5, <1>6
  <2>2. {n.seq : n \in sentPackets'} = lastReceivedACK' + 1 .. current'
    BY <1>1, <1>2, <1>7, <2>1 DEF Always, SenderInv
  <2> QED BY <1>1, <1>2, <1>7, <2>2 DEF Always, SenderInv
<1>10. \A n \in Data : n \in Written => n.payload \in Int /\ n.payload # m.payload
  <2>1. \A n \in Data : n.payload \in Int
    BY Kinds, ConnectionAssumption DEF Payloads
  <2> QED BY <1>1, <1>5, <2>1 DEF Always, NumberInv
<1>11. NumberInv'
  <2>1. \A s \in SeqNum : /\ Ctl("ACK", s) \in Written' => Ctl("ACK", s) \in Written
                          /\ Ctl("Handshake", s) \in Written' => Ctl("Handshake", s) \in Written
    BY <1>5, <1>6, Kinds
  <2>2. m.seq \in Zone /\ m.seq - 1 \in Zone /\ m.seq + 1 \in Zone /\ m.payload <= queued' - packets'
    <3>1. current + 2 \in Span(initialSequenceNumber) /\ m.seq + 1 = current + 2 /\ m.seq - 1 = current
      BY <1>1, <1>2, <1>5 DEF Span
    <3> QED BY <1>1, <1>2, <1>3, <1>5, <3>1, SpanInZone
  <2>3. \A n \in Data : n \in Written => n.payload <= queued' - packets'
    BY <1>1, <1>10 DEF Always, NumberInv
  <2>4. \A n, o \in Data : n \in Written' /\ o \in Written' /\ n.payload = o.payload => n.seq = o.seq
    BY <1>6, <1>10 DEF Always, NumberInv
  <2>5. \A n \in Data : n \in Written' =>
            n.seq \in Zone /\ n.seq - 1 \in Zone /\ n.seq + 1 \in Zone /\ n.payload <= queued' - packets'
    BY <1>6, <2>2, <2>3 DEF Always, NumberInv
  <2> QED BY <2>1, <2>4, <2>5 DEF Always, NumberInv
<1>12. StateInv'
  BY DEF Always, StateInv
<1>13. OnceInv'
  <2>1. \A p \in Payloads : p > queued' - packets' => p > queued - packets
    BY <1>1, ConnectionAssumption DEF Payloads
  <2>2. delivered[m.payload] = before[m.payload]
    <3>1. m.payload > queued - packets
      BY <1>1, <1>5
    <3> QED BY <1>5, <3>1 DEF Always, OnceInv
  <2> QED BY <1>6, <2>1, <2>2 DEF Always, OnceInv
<1> QED BY <1>8, <1>9, <1>11, <1>12, <1>13 DEF Always

\* Sending again writes nothing new
LEMMA ResendPacketAlways == ASSUME NEW m \in Data PROVE Always /\ ResendPacket(m) => Always'
<1> SUFFICES ASSUME Always, ResendPacket(m) PROVE Always'
  OBVIOUS
<1> USE DEF ResendPacket, senderVars, receiverVars
<1>1. wire' = wire \cup {m} /\ Written' = Written
  BY DEF Write, Written
<1>2. TypeOK'
  BY <1>1, Kinds DEF Always, TypeOK, Write
<1>3. SenderInv'
  BY DEF Always, SenderInv, QueueCurrent
<1>4. queued \in Int /\ packets \in Int
  BY ConnectionAssumption DEF Always, TypeOK
<1>5. NumberInv' /\ StateInv' /\ OnceInv'
  BY <1>1, <1>4, NothingWritten
<1> QED BY <1>2, <1>3, <1>5 DEF Always

\* An inactive queue leaves its number in the last ACK
LEMMA QueueInactiveAlways == Always /\ QueueInactive => Always'
<1> SUFFICES ASSUME Always, QueueInactive PROVE Always'
  OBVIOUS
<1> USE DEF QueueInactive, senderVars, receiverVars
<1>1. TypeOK'
  BY DEF Always, TypeOK
<1>2. QueueCurrent' = QueueCurrent
  BY DEF QueueCurrent
<1>3. SenderInv'
  BY <1>2 DEF Always, SenderInv
<1>4. Written' \subseteq Written /\ queued \in Int /\ packets \in Int
  BY ConnectionAssumption DEF Written, Always, TypeOK
<1>5. NumberInv' /\ StateInv' /\ OnceInv'
  BY <1>4, NothingWritten
<1> QED BY <1>1, <1>3, <1>5 DEF Always

\* An ACK, from whichever Connection, is only taken between the last one and
\* the largest number sent
LEMMA ProcessACKAlways == ASSUME NEW ack \in SeqNum PROVE Always /\ ProcessACK(ack) => Always'
<1> SUFFICES ASSUME Always, ProcessACK(ack) PROVE Always'
  OBVIOUS
<1> DEFINE gone == {m \in sentPackets : Leq(lastReceivedACK, m.seq) /\ Leq(m.seq, ack)}
<1> USE DEF ProcessACK, receiverVars
<1>1. ack \in Zone /\ lateTaken' \in 0 .. MaxLate
  BY ArrivesFrom DEF Always, NumberInv
<1>2. /\ initialSequenceNumber \in Initials /\ initialSequenceNumber \in Int
      /\ QueueCurrent \in Span(initialSequenceNumber) /\ QueueCurrent \in Int
      /\ lastReceivedACK \in Span(initialSequenceNumber) /\ lastReceivedACK \in Int
      /\ ack \in Int
      /\ initialSequenceNumber - 1 <= lastReceivedACK /\ lastReceivedACK <= QueueCurrent
  BY <1>1, SenderInSpan, InitialInSpan DEF Always, SenderInv, Span, Zone
<1>3. QueueCurrent \in Zone /\ lastReceivedACK \in Zone
  BY <1>2, SpanInZone
<1>4. /\ Gt(ack, QueueCurrent) <=> ack > QueueCurrent
      /\ Gt(ack, lastReceivedACK) <=> ack > lastReceivedACK
  BY <1>1, <1>3, ZoneArithmetic
<1>5. QueueCurrent' = QueueCurrent /\ current' = QueueCurrent /\ QueueCurrent \in SeqNum
  BY <1>2, SpanArithmetic DEF QueueCurrent
<1>6. queued \in Int /\ packets \in Int
  BY ConnectionAssumption DEF Always, TypeOK
<1>7. CASE ~(~Gt(ack, QueueCurrent) /\ Gt(ack, lastReceivedACK))
  <2>1. lastReceivedACK' = lastReceivedACK /\ sentPackets' = sentPackets /\ acked' = acked
    BY <1>7
  <2>2. TypeOK'
    BY <1>1, <1>5, <2>1 DEF Always, TypeOK
  <2>3. {m.seq : m \in sentPackets'} = lastReceivedACK' + 1 .. current'
    <3>1. CASE hasSendQueue
      BY <2>1, <3>1 DEF Always, SenderInv, QueueCurrent
    <3>2. CASE ~hasSendQueue
      <4>1. current' = lastReceivedACK /\ sentPackets = {}
        BY <3>2 DEF Always, SenderInv, QueueCurrent
      <4>2. lastReceivedACK' + 1 .. current' = {}
        BY <1>2, <2>1, <4>1
      <4> QED BY <2>1, <4>1, <4>2
    <3> QED BY <3>1, <3>2
  <2>4. SenderInv'
    BY <1>5, <2>1, <2>3 DEF Always, SenderInv
  <2>5. Written' \subseteq Written
    BY <2>1 DEF Written
  <2> QED BY <1>6, <2>2, <2>4, <2>5, NothingWritten DEF Always
<1>8. CASE ~Gt(ack, QueueCurrent) /\ Gt(ack, lastReceivedACK)
  <2>1. /\ lastReceivedACK' = ack /\ sentPackets' = sentPackets \ gone
        /\ acked' = acked \cup {m.payload : m \in gone}
    BY <1>8
  <2>2. lastReceivedACK < ack /\ ack <= QueueCurrent
    BY <1>2, <1>4, <1>8
  <2>3. hasSendQueue /\ current = QueueCurrent
    BY <1>2, <2>2 DEF QueueCurrent
  <2>4. \A m \in sentPackets :
            /\ m \in Data /\ m.seq \in Zone /\ m.seq \in Int /\ lastReceivedACK <= m.seq
    <3>1. \A m \in sentPackets : m \in Data /\ m.seq \in Zone /\ m.seq \in Int
      BY SequenceNumberAssumption DEF Always, TypeOK, NumberInv, Written, Zone
    <3> QED BY <1>2, <2>3, <3>1 DEF Always, SenderInv
  <2>5. \A m \in sentPackets : m \in gone <=> m.seq <= ack
    BY <1>1, <1>3, <2>4, ZoneArithmetic
  <2>6. \A m \in gone : m \in sentPackets
    OBVIOUS
  <2> HIDE DEF gone
  <2>7. TypeOK'
    <3>1. acked' \subseteq Payloads
      BY <2>1, <2>4, <2>6, Kinds DEF Always, TypeOK
    <3> QED BY <1>1, <1>5, <2>1, <3>1 DEF Always, TypeOK
  <2>8. Written' \subseteq Written
    BY <2>1 DEF Written
  <2>9. {m.seq : m \in sentPackets'} = ack + 1 .. current'
    <3>1. {m.seq : m \in sentPackets} = lastReceivedACK + 1 .. current
      BY <2>3 DEF Always, SenderInv
    <3>2. ASSUME NEW m \in sentPackets' PROVE m.seq \in ack + 1 .. current'
      BY <1>2, <1>5, <2>1, <2>3, <2>4, <2>5, <3>1, <3>2
    <3>3. ASSUME NEW s \in ack + 1 .. current' PROVE \E m \in sentPackets' : m.seq = s
      <4>1. s \in lastReceivedACK + 1 .. current /\ ~(s <= ack)
        BY <1>2, <1>5, <2>2, <2>3
      <4>2. PICK m \in sentPackets : m.seq = s
        BY <3>1, <4>1
      <4> QED BY <2>1, <2>5, <4>1, <4>2
    <3> QED BY <3>2, <3>3
  <2>10. SenderInv'
    <3>1. initialSequenceNumber - 1 <= ack
      BY <1>2, <2>2
    <3> QED BY <1>5, <2>1, <2>2, <2>9, <3>1 DEF Always, SenderInv
  <2> QED BY <1>6, <2>7, <2>8, <2>10, NothingWritten DEF Always
<1> QED BY <1>7, <1>8

\* The HandshakeACK of this initial number, late or not, ends the handshake
LEMMA ProcessHandshakeACKAlways ==
  ASSUME NEW seq \in SeqNum
  PROVE  Always /\ ProcessHandshakeACK(seq) => Always'
<1> SUFFICES ASSUME Always, ProcessHandshakeACK(seq) PROVE Always'
  OBVIOUS
<1> USE DEF ProcessHandshakeACK, receiverVars
<1>1. /\ initialSequenceNumber \in Int /\ queued \in Int /\ packets \in Int
      /\ packets <= queued /\ current \in Int
  BY SequenceNumberAssumption, ConnectionAssumption, InitialInSpan DEF Always, TypeOK, SeqNum
<1>2. TypeOK'
  BY ArrivesFrom DEF Always, TypeOK
<1>3. QueueCurrent' = current /\ QueueCurrent = current
  BY DEF QueueCurrent
<1>4. SenderInv'
  BY <1>1, <1>3 DEF Always, SenderInv
<1>5. Written' \subseteq Written
  BY DEF Written
<1>6. NumberInv' /\ StateInv' /\ OnceInv'
  BY <1>1, <1>5, NothingWritten
<1> QED BY <1>2, <1>4, <1>6 DEF Always

\* What a reset or destroyed sender had written stays written
LEMMA DiscardAlways ==
  ASSUME Always, DiscardSendQueue, lateTaken' \in 0 .. MaxLate,
         UNCHANGED <<queued, acked, receiverVars>>,
         used' \subseteq Initials, initialSequenceNumber' \in used',
         current' \in SeqNum, lastReceivedACK' \in SeqNum
  PROVE  Always'
<1> USE DEF DiscardSendQueue, AllLate, receiverVars
<1>1. /\ queued \in Int /\ queued >= 0 /\ queued <= MaxPackets
      /\ MaxPackets \in Int /\ packets \in Int /\ packets >= 0 /\ packets' = 0 /\ packets' \in Int
      /\ queued' = queued
  BY ConnectionAssumption DEF Always, TypeOK
<1>2. TypeOK'
  <2>1. packets' \in 0 .. queued' /\ dropped' \subseteq Payloads
    BY <1>1 DEF Payloads
  <2> QED BY <2>1 DEF Always, TypeOK
<1>3. SenderInv'
  BY DEF SenderInv
<1>4. Written' \subseteq Written
  BY DEF Written
<1>5. queued - packets <= queued' - packets'
  BY <1>1
<1>6. NumberInv' /\ StateInv' /\ OnceInv'
  BY <1>1, <1>4, <1>5, NothingWritten
<1> QED BY <1>2, <1>3, <1>6 DEF Always

\* A HandshakeRequest, late or not, discards the queue
LEMMA ProcessHandshakeRequestAlways == Always /\ ProcessHandshakeRequest => Always'
<1> SUFFICES ASSUME Always, ProcessHandshakeRequest PROVE Always'
  OBVIOUS
<1> USE DEF ProcessHandshakeRequest
<1>1. lateTaken' \in 0 .. MaxLate
  BY ArrivesFrom DEF Always
<1>2. /\ used' \subseteq Initials /\ initialSequenceNumber' \in used'
      /\ current' \in SeqNum /\ lastReceivedACK' \in SeqNum
  BY DEF Always, TypeOK, SenderInv
<1> QED BY <1>1, <1>2, DiscardAlways

\* A new sending Connection
LEMMA CleanupSenderAlways ==
  ASSUME NEW initial \in Initials PROVE Always /\ CleanupSender(initial) => Always'
<1> SUFFICES ASSUME Always, CleanupSender(initial) PROVE Always'
  OBVIOUS
<1> USE DEF CleanupSender
<1>1. /\ used' \subseteq Initials /\ initialSequenceNumber' \in used'
      /\ current' \in SeqNum /\ lastReceivedACK' \in SeqNum /\ lateTaken' \in 0 .. MaxLate
  BY SequenceNumberAssumption DEF Always, TypeOK, SeqNum
<1> QED BY <1>1, DiscardAlways

(***************************************************************************)
(* What holds whatever arrives: the steps of the receiver                  *)
(***************************************************************************)

\* A new receiving Connection starts its counts again
LEMMA CleanupReceiverAlways == Always /\ CleanupReceiver => Always'
<1> SUFFICES ASSUME Always, CleanupReceiver PROVE Always'
  OBVIOUS
<1> USE DEF CleanupReceiver, AllLate, senderVars
<1>1. TypeOK'
  <2>1. 0 \in SeqNum /\ cleanups' \in 0 .. MaxCleanups
    BY SequenceNumberAssumption, ConnectionAssumption DEF Always, TypeOK, SeqNum
  <2> QED BY <2>1 DEF Always, TypeOK
<1>2. SenderInv'
  BY DEF Always, SenderInv, QueueCurrent
<1>3. Written' \subseteq Written
  BY DEF Written
<1>4. NumberInv'
  BY <1>3 DEF Always, NumberInv
<1>5. StateInv' /\ OnceInv'
  BY DEF StateInv, OnceInv
<1> QED BY <1>1, <1>2, <1>4, <1>5 DEF Always

\* A request carries no number
LEMMA RequestHandshakeAlways ==
  ASSUME NEW m \in Data PROVE Always /\ RequestHandshake(m) => Always'
<1> SUFFICES ASSUME Always, RequestHandshake(m) PROVE Always'
  OBVIOUS
<1> USE DEF RequestHandshake, senderVars, receiverVars
<1>1. wire' = wire \cup {Request} /\ Written' = Written \cup {Request}
  BY DEF Write, Written
<1>2. \A n \in Data : n \in Written' => n \in Written
  BY <1>1, Kinds
<1>3. \A s \in SeqNum : /\ Ctl("ACK", s) \in Written' => Ctl("ACK", s) \in Written
                        /\ Ctl("Handshake", s) \in Written' => Ctl("Handshake", s) \in Written
  BY <1>1, Kinds
<1>4. TypeOK'
  BY <1>1, Kinds, ArrivesFrom DEF Always, TypeOK, Write
<1>5. SenderInv' /\ StateInv'
  BY DEF Always, SenderInv, StateInv, QueueCurrent
<1>6. NumberInv'
  BY <1>2, <1>3 DEF Always, NumberInv
<1>7. OnceInv'
  BY <1>2 DEF Always, OnceInv
<1> QED BY <1>4, <1>5, <1>6, <1>7 DEF Always

\* A Handshake, late or not, either changes nothing or starts the state again
LEMMA ProcessHandshakeAlways ==
  ASSUME NEW initial \in SeqNum PROVE Always /\ ProcessHandshake(initial) => Always'
<1> SUFFICES ASSUME Always, ProcessHandshake(initial) PROVE Always'
  OBVIOUS
<1> USE DEF ProcessHandshake, senderVars
<1>1. initial \in Initials /\ lateTaken' \in 0 .. MaxLate
  BY ArrivesFrom DEF Always, NumberInv
<1>2. /\ initial - 1 \in SeqNum /\ Minus(initial, 1) = initial - 1 /\ initial \in Int
      /\ initial - 1 \in Zone /\ initial \in Zone /\ (initial - 1) + 1 = initial
  BY <1>1, InitialInSpan, SpanInZone
<1>3. /\ wire' = wire \cup {Ctl("HandshakeACK", initial)}
      /\ Written' = Written \cup {Ctl("HandshakeACK", initial)}
  BY DEF Write, Written
<1>4. \A n \in Data : n \in Written' => n \in Written
  BY <1>3, Kinds
<1>5. \A s \in SeqNum : /\ Ctl("ACK", s) \in Written' => Ctl("ACK", s) \in Written
                        /\ Ctl("Handshake", s) \in Written' => Ctl("Handshake", s) \in Written
  BY <1>3, Kinds
<1>6. TypeOK'
  BY <1>1, <1>2, <1>3, Kinds DEF Always, TypeOK, Write
<1>7. SenderInv'
  BY DEF Always, SenderInv, QueueCurrent
<1>8. NumberInv'
  BY <1>4, <1>5 DEF Always, NumberInv
<1>9. CASE ~hasReceivedHandshake \/ initial # initialReceiveSequenceNumber
  <2>1. lastReceivedSequenceNumber' = initial - 1 /\ lossList' = {} /\ before' = delivered'
    BY <1>2, <1>9
  <2>2. StateInv' /\ OnceInv'
    BY <1>2, <2>1 DEF StateInv, OnceInv
  <2> QED BY <1>6, <1>7, <1>8, <2>2 DEF Always
<1>10. CASE ~(~hasReceivedHandshake \/ initial # initialReceiveSequenceNumber)
  <2>1. StateInv' /\ OnceInv'
    BY <1>4, <1>10 DEF Always, StateInv, OnceInv
  <2> QED BY <1>6, <1>7, <1>8, <2>1 DEF Always
<1> QED BY <1>9, <1>10

\* What the state becomes when a packet arrives, as integers
LEMMA ReceivedState ==
  ASSUME Always, NEW m \in Data, ReceivePacket(m)
  PROVE  /\ m \in Written /\ m.seq \in Zone /\ m.seq \in Int
         /\ lastReceivedSequenceNumber \in Zone /\ lastReceivedSequenceNumber \in Int
         /\ \A k \in lossList : k \in Int /\ k <= lastReceivedSequenceNumber
         /\ lastReceivedSequenceNumber' =
                IF m.seq > lastReceivedSequenceNumber THEN m.seq ELSE lastReceivedSequenceNumber
         /\ lossList' = IF m.seq > lastReceivedSequenceNumber + 1
                        THEN lossList \cup (lastReceivedSequenceNumber + 1 .. m.seq - 1)
                        ELSE lossList \ {m.seq}
         /\ IsNew(m.seq) <=> ~(m.seq <= lastReceivedSequenceNumber /\ m.seq \notin lossList)
<1> DEFINE last == lastReceivedSequenceNumber
<1> USE DEF ReceivePacket
<1>1. m \in Written /\ m.seq \in Zone /\ m.seq - 1 \in Zone /\ m.seq \in Int
  BY ArrivesFrom DEF Always, NumberInv, Zone
<1>2. /\ last \in Zone /\ last + 1 \in Zone /\ last \in Int
      /\ \A k \in lossList : k \in Int /\ k <= last
  BY DEF Always, StateInv, Zone
<1>3. /\ Gt(m.seq, last) <=> m.seq > last
      /\ Plus(last, 1) = last + 1
      /\ Gt(m.seq, last + 1) <=> m.seq > last + 1
      /\ Minus(m.seq, 1) = m.seq - 1
  BY <1>1, <1>2, ZoneArithmetic
<1>4. m.seq > last + 1 => Run(last + 1, m.seq - 1) = last + 1 .. m.seq - 1
  BY <1>1, <1>2, RunIsInterval
<1>5. lossList' = IF m.seq > last + 1 THEN lossList \cup (last + 1 .. m.seq - 1)
                  ELSE lossList \ {m.seq}
  BY <1>3, <1>4 DEF Missing
<1>6. IsNew(m.seq) <=> ~(m.seq <= last /\ m.seq \notin lossList)
  BY <1>1, <1>2, <1>3 DEF IsNew
<1>7. last' = IF m.seq > last THEN m.seq ELSE last
  BY <1>3
<1> QED BY <1>1, <1>2, <1>5, <1>6, <1>7

\* Of the packets of one handshake only new ones are delivered
LEMMA ReceivePacketAlways ==
  ASSUME NEW m \in Data PROVE Always /\ ReceivePacket(m) => Always'
<1> SUFFICES ASSUME Always, ReceivePacket(m) PROVE Always'
  OBVIOUS
<1> DEFINE last == lastReceivedSequenceNumber
           ack == NextACK(Missing(m.seq), last')
<1> USE DEF ReceivePacket, senderVars
<1>1. /\ m \in Written /\ m.seq \in Zone /\ m.seq \in Int
      /\ last \in Zone /\ last \in Int
      /\ \A k \in lossList : k \in Int /\ k <= last
      /\ last' = IF m.seq > last THEN m.seq ELSE last
      /\ lossList' = IF m.seq > last + 1 THEN lossList \cup (last + 1 .. m.seq - 1)
                     ELSE lossList \ {m.seq}
      /\ IsNew(m.seq) <=> ~(m.seq <= last /\ m.seq \notin lossList)
  BY ReceivedState
<1>2. /\ m.seq - 1 \in Zone /\ m.seq + 1 \in Zone /\ last + 1 \in Zone
      /\ \A k \in lossList : k \in Zone /\ k - 1 \in Zone
      /\ m.payload \in Payloads
  BY <1>1, Kinds DEF Always, NumberInv, StateInv
<1>3. \A k \in lossList' : k \in Zone /\ k - 1 \in Zone /\ k \in Int /\ k <= last'
  <2>1. ASSUME NEW k \in lossList' PROVE k \in Zone /\ k - 1 \in Zone /\ k \in Int /\ k <= last'
    <3>1. CASE k \in lossList
      BY <1>1, <1>2, <3>1
    <3>2. CASE k \notin lossList
      <4>1. k \in Int /\ last + 1 <= k /\ k <= m.seq - 1 /\ m.seq > last + 1
        BY <1>1, <3>2
      <4>2. k \in Zone
        BY <1>1, <1>2, <4>1, ZoneIsConvex
      <4>3. k - 1 \in Int /\ last <= k - 1 /\ k - 1 <= m.seq - 1
        BY <1>1, <4>1
      <4>4. k - 1 \in Zone
        BY <1>1, <1>2, <4>3, ZoneIsConvex
      <4> QED BY <1>1, <4>1, <4>2, <4>4
    <3> QED BY <3>1, <3>2
  <2> QED BY <2>1
<1>4. last' \in Zone /\ last' + 1 \in Zone /\ last' \in Int
  BY <1>1, <1>2
<1>5. StateInv'
  BY <1>3, <1>4 DEF StateInv
<1>6. ack \in Zone
  <2>1. Missing(m.seq) = lossList'
    OBVIOUS
  <2>2. CASE lossList' = {}
    BY <1>4, <2>1, <2>2 DEF NextACK
  <2>3. CASE lossList' # {}
    <3>1. First(lossList') \in lossList'
      BY <1>3, <2>3, FirstIsFirst
    <3>2. ack = First(lossList') - 1
      BY <1>3, <2>1, <2>3, <3>1, ZoneArithmetic DEF NextACK
    <3> QED BY <1>3, <3>1, <3>2
  <2> QED BY <2>2, <2>3
<1>7. wire' = wire \cup {Ctl("ACK", ack)} /\ Written' = Written \cup {Ctl("ACK", ack)}
  BY DEF Write, Written
<1> HIDE DEF ack
<1>8. \A n \in Data : n \in Written' => n \in Written
  BY <1>7, Kinds
<1>9. NumberInv'
  <2>1. \A s \in SeqNum : /\ Ctl("ACK", s) \in Written' => Ctl("ACK", s) \in Written \/ s = ack
                          /\ Ctl("Handshake", s) \in Written' => Ctl("Handshake", s) \in Written
    BY <1>7, Kinds
  <2> QED BY <1>6, <1>8, <2>1 DEF Always, NumberInv
\* a packet that is new has not been delivered on this handshake
<1>10. IsNew(m.seq) => delivered[m.payload] = before[m.payload]
  BY <1>1 DEF Always, OnceInv
<1>11. /\ delivered' \in [Payloads -> Nat]
       /\ \A p \in Payloads : p # m.payload => delivered'[p] = delivered[p]
       /\ delivered'[m.payload] = before[m.payload] \/ delivered'[m.payload] = before[m.payload] + 1
  <2>1. delivered \in [Payloads -> Nat] /\ before \in [Payloads -> Nat]
    BY DEF Always, TypeOK
  <2>2. CASE IsNew(m.seq)
    <3>1. delivered' = [delivered EXCEPT ![m.payload] = delivered[m.payload] + 1]
      BY <2>2
    <3> QED BY <1>2, <1>10, <2>1, <2>2, <3>1
  <2>3. CASE ~IsNew(m.seq)
    BY <1>2, <2>1, <2>3 DEF Always, OnceInv
  <2> QED BY <2>2, <2>3
<1>12. TypeOK'
  <2>1. last' \in SeqNum /\ lossList' \subseteq SeqNum /\ ack \in SeqNum
    BY <1>3, <1>4, <1>6, ZoneArithmetic
  <2> QED BY <1>7, <1>11, <2>1, Kinds, ArrivesFrom DEF Always, TypeOK, Write
<1>13. SenderInv'
  BY DEF Always, SenderInv, QueueCurrent
<1>14. OnceInv'
  <2>1. \A p \in Payloads : delivered'[p] = before[p] \/ delivered'[p] = before[p] + 1
    BY <1>11 DEF Always, OnceInv
  <2>2. \A p \in Payloads : p > queued - packets => delivered'[p] = before[p]
    <3>1. m.payload <= queued - packets
      BY <1>1 DEF Always, NumberInv
    <3>2. m.payload \in Int /\ queued \in Int /\ packets \in Int
      BY Kinds, ConnectionAssumption DEF Payloads, Always, TypeOK
    <3>3. \A p \in Payloads : p > queued - packets => p # m.payload
      BY <3>1, <3>2, ConnectionAssumption DEF Payloads
    <3> QED BY <1>11, <3>3 DEF Always, OnceInv
  <2>3. ASSUME NEW n \in Data, n \in Written, delivered'[n.payload] # before[n.payload]
        PROVE  n.seq <= last' /\ n.seq \notin lossList'
    <3>1. n.seq \in Int /\ n.payload \in Payloads
      BY Kinds, SequenceNumberAssumption DEF SeqNum
    <3>2. CASE n.payload = m.payload
      <4>1. n.seq = m.seq
        BY <1>1, <2>3, <3>2 DEF Always, NumberInv
      <4> QED BY <1>1, <4>1
    <3>3. CASE n.payload # m.payload
      <4>1. n.seq <= last /\ n.seq \notin lossList
        BY <1>11, <2>3, <3>1, <3>3 DEF Always, OnceInv
      <4> QED BY <1>1, <3>1, <4>1
    <3> QED BY <3>2, <3>3
  <2> QED BY <1>8, <2>1, <2>2, <2>3 DEF Always, OnceInv
<1> QED BY <1>5, <1>9, <1>12, <1>13, <1>14 DEF Always

(***************************************************************************)
(* What holds as long as no late datagram is taken                         *)
(***************************************************************************)

\* Numbers in use are in the span of the present initial number
LEMMA FreshInSpan ==
  ASSUME Always, Fresh
  PROVE  /\ initialSequenceNumber \in Initials
         /\ MaxPackets \in Nat
         /\ hasReceivedHandshakeACK =>
                /\ lastReceivedACK \in Span(initialSequenceNumber)
                /\ QueueCurrent \in Span(initialSequenceNumber)
                /\ QueueCurrent < initialSequenceNumber + MaxPackets
         /\ hasSendQueue =>
                /\ lastReceivedACK \in Span(initialSequenceNumber)
                /\ current \in Span(initialSequenceNumber)
         /\ Synced =>
                /\ lastReceivedSequenceNumber \in Span(initialSequenceNumber)
                /\ lossList \subseteq Span(initialSequenceNumber)
         /\ \A m \in Data : m \in Numbered => m.seq \in Span(initialSequenceNumber)
<1>1. /\ initialSequenceNumber \in Initials /\ initialSequenceNumber \in Int
      /\ MaxPackets \in Nat /\ lastReceivedSequenceNumber \in Int /\ lossList \subseteq Int
      /\ initialSequenceNumber - 1 < initialSequenceNumber + MaxPackets
  BY InitialInSpan, ConnectionAssumption, SequenceNumberAssumption DEF Always, TypeOK, SeqNum
<1>2. hasReceivedHandshakeACK =>
            /\ lastReceivedACK \in Span(initialSequenceNumber)
            /\ QueueCurrent \in Span(initialSequenceNumber)
            /\ QueueCurrent < initialSequenceNumber + MaxPackets
  BY SenderInSpan DEF Always
<1>3. hasSendQueue =>
            /\ lastReceivedACK \in Span(initialSequenceNumber)
            /\ current \in Span(initialSequenceNumber)
  BY SenderInSpan DEF Always
<1>4. ASSUME Synced
      PROVE  /\ lastReceivedSequenceNumber \in Span(initialSequenceNumber)
             /\ lossList \subseteq Span(initialSequenceNumber)
  <2>1. CASE hasReceivedHandshakeACK
    BY <1>1, <1>2, <1>4, <2>1 DEF Fresh, ReceiverInv, Span
  <2>2. CASE ~hasReceivedHandshakeACK
    BY <1>1, <1>4, <2>2 DEF Fresh, ReceiverInv, Span
  <2> QED BY <2>1, <2>2
<1>5. ASSUME NEW m \in Data, m \in Numbered
      PROVE  m.seq \in Span(initialSequenceNumber)
  <2>1. m.seq \in Int
    BY SequenceNumberAssumption DEF Data, SeqNum
  <2> QED BY <1>1, <1>2, <1>5, <2>1 DEF Fresh, WireInv, Span
<1> QED BY <1>1, <1>2, <1>3, <1>4, <1>5

\* queuePacket may make the queue, with the numbers QueueCurrent foretells
LEMMA SendReliablePacketFresh == Always /\ Fresh /\ SendReliablePacket /\ lateTaken' = 0 => Fresh'
<1> SUFFICES ASSUME Always, Fresh, SendReliablePacket, lateTaken' = 0 PROVE Fresh'
  OBVIOUS
<1> USE DEF SendReliablePacket, senderVars, receiverVars
<1>1. /\ initialSequenceNumber - 1 \in SeqNum
      /\ Minus(initialSequenceNumber, 1) = initialSequenceNumber - 1
      /\ queued \in Int /\ packets \in Int /\ MaxPackets \in Int
      /\ initialSequenceNumber \in Int
  BY InitialInSpan, ConnectionAssumption DEF Always, Fresh, TypeOK
<1>2. hasReceivedHandshakeACK => QueueCurrent' = QueueCurrent
  BY DEF QueueCurrent
<1>3. WireInv'
  BY <1>1, <1>2 DEF Always, Fresh, WireInv, Numbered, Synced
<1>4. ReceiverInv'
  BY <1>2 DEF Always, Fresh, ReceiverInv, Synced
<1>5. HistoryInv'
  BY <1>1 DEF Always, Fresh, HistoryInv, Synced, Numbered
<1> QED BY <1>3, <1>4, <1>5 DEF Always, Fresh

\* A Handshake carries the initial number
LEMMA SendHandshakeFresh == Always /\ Fresh /\ SendHandshake /\ lateTaken' = 0 => Fresh'
<1> SUFFICES ASSUME Always, Fresh, SendHandshake, lateTaken' = 0 PROVE Fresh'
  OBVIOUS
<1> USE DEF SendHandshake, senderVars, receiverVars
<1>1. Plus(current, 1) = initialSequenceNumber /\ initialSequenceNumber \in SeqNum
  BY InitialInSpan DEF Always, Fresh, TypeOK, SenderInv
<1>2. wire' = wire \cup {Ctl("Handshake", initialSequenceNumber)}
  BY <1>1 DEF Write
<1>3. ReceiverInv'
  BY DEF Always, Fresh, SenderInv, ReceiverInv, Synced, QueueCurrent
<1>4. \A m \in Data : m \in Numbered' => m \in Numbered
  BY <1>2, Kinds DEF Numbered
<1>5. WireInv'
  BY <1>1, <1>2, <1>4, Kinds DEF Always, Fresh, WireInv, Synced, QueueCurrent
<1>6. HistoryInv'
  BY <1>4 DEF Always, Fresh, HistoryInv, Synced
<1> QED BY <1>3, <1>5, <1>6 DEF Always, Fresh

\* Sending again writes nothing new
LEMMA ResendPacketFresh == ASSUME NEW m \in Data PROVE Always /\ Fresh /\ ResendPacket(m) /\ lateTaken' = 0 => Fresh'
<1> SUFFICES ASSUME Always, Fresh, ResendPacket(m), lateTaken' = 0 PROVE Fresh'
  OBVIOUS
<1> USE DEF ResendPacket, senderVars, receiverVars
<1>1. wire' = wire \cup {m} /\ Numbered' = Numbered
  BY DEF Write, Numbered
<1>2. ReceiverInv'
  BY DEF Always, Fresh, SenderInv, ReceiverInv, Synced, QueueCurrent
<1>3. WireInv'
  BY <1>1, Kinds DEF Always, Fresh, WireInv, Synced, QueueCurrent
<1>4. HistoryInv'
  BY <1>1 DEF Always, Fresh, HistoryInv, Synced
<1> QED BY <1>2, <1>3, <1>4 DEF Always, Fresh

\* An inactive queue leaves its number in the last ACK
LEMMA QueueInactiveFresh == Always /\ Fresh /\ QueueInactive /\ lateTaken' = 0 => Fresh'
<1> SUFFICES ASSUME Always, Fresh, QueueInactive, lateTaken' = 0 PROVE Fresh'
  OBVIOUS
<1> USE DEF QueueInactive, senderVars, receiverVars
<1>1. QueueCurrent' = QueueCurrent
  BY DEF QueueCurrent
<1>2. ReceiverInv'
  BY <1>1 DEF Always, Fresh, SenderInv, ReceiverInv, Synced
<1>3. Numbered' \subseteq Numbered
  BY DEF Numbered
<1>4. WireInv'
  BY <1>1, <1>3 DEF Always, Fresh, WireInv, Synced
<1>5. HistoryInv'
  BY <1>3 DEF Always, Fresh, HistoryInv, Synced
<1> QED BY <1>2, <1>4, <1>5 DEF Always, Fresh

\* The HandshakeACK shows that the receiver waits for the first packet
LEMMA ProcessHandshakeACKFresh ==
  ASSUME NEW seq \in SeqNum
  PROVE  Always /\ Fresh /\ ProcessHandshakeACK(seq) /\ lateTaken' = 0 => Fresh'
<1> SUFFICES ASSUME Always, Fresh, ProcessHandshakeACK(seq), lateTaken' = 0 PROVE Fresh'
  OBVIOUS
<1> USE DEF ProcessHandshakeACK, senderVars, receiverVars
<1>1. Synced
  BY ArrivesFrom DEF Always, Fresh, WireInv
<1>2. /\ initialSequenceNumber \in Int /\ queued \in Int /\ packets \in Int
      /\ packets <= queued /\ current \in Int
  BY SequenceNumberAssumption, InitialInSpan DEF Always, Fresh, TypeOK, SeqNum
<1>3. QueueCurrent' = current /\ QueueCurrent = current
  BY DEF QueueCurrent
<1>4. ReceiverInv'
  BY <1>1, <1>2, <1>3 DEF Always, Fresh, SenderInv, ReceiverInv, Synced
<1>5. WireInv'
  BY <1>1, <1>3 DEF Always, Fresh, WireInv, Synced, Numbered
<1>6. HistoryInv'
  BY DEF Always, Fresh, HistoryInv, Synced, Numbered
<1> QED BY <1>4, <1>5, <1>6 DEF Always, Fresh

\* A discarded queue leaves no packet to be mistaken for one of the next
LEMMA ProcessHandshakeRequestFresh ==
  Always /\ Fresh /\ ProcessHandshakeRequest /\ lateTaken' = 0 => Fresh'
<1> SUFFICES ASSUME Always, Fresh, ProcessHandshakeRequest, lateTaken' = 0 PROVE Fresh'
  OBVIOUS
<1> USE DEF ProcessHandshakeRequest, DiscardSendQueue, receiverVars
<1>1. wire' = {} /\ Numbered' = {}
  BY DEF AllLate, Numbered
<1>2. ~hasReceivedHandshake
  BY ArrivesFrom DEF Always, Fresh, WireInv
<1>3. WireInv'
  BY <1>1 DEF WireInv
<1>4. ReceiverInv'
  BY <1>2 DEF ReceiverInv, Synced
<1>5. HistoryInv'
  <2>1. \A p \in Payloads : p > queued' - packets' => p > queued - packets
    BY ConnectionAssumption DEF Always, Fresh, TypeOK, Payloads
  <2> QED BY <1>1, <1>2, <2>1 DEF Always, Fresh, HistoryInv, Synced
<1> QED BY <1>3, <1>4, <1>5 DEF Always, Fresh

\* A new sending Connection has a number its receiver has not seen
LEMMA CleanupSenderFresh ==
  ASSUME NEW initial \in Initials
  PROVE  Always /\ Fresh /\ CleanupSender(initial) /\ lateTaken' = 0 => Fresh'
<1> SUFFICES ASSUME Always, Fresh, CleanupSender(initial), lateTaken' = 0 PROVE Fresh'
  OBVIOUS
<1> USE DEF CleanupSender, DiscardSendQueue, receiverVars
<1>1. wire' = {} /\ Numbered' = {}
  BY DEF AllLate, Numbered
<1>2. ~Synced'
  BY DEF Always, Fresh, ReceiverInv, Synced
<1>3. WireInv'
  BY <1>1 DEF WireInv
<1>4. ReceiverInv'
  BY <1>2 DEF Always, Fresh, ReceiverInv
<1>5. HistoryInv'
  <2>1. \A p \in Payloads : p > queued' - packets' => p > queued - packets
    BY ConnectionAssumption DEF Always, Fresh, TypeOK, Payloads
  <2> QED BY <1>1, <1>2, <2>1 DEF Always, Fresh, HistoryInv
<1> QED BY <1>3, <1>4, <1>5 DEF Always, Fresh

\* A new packet gets the number after the last and is not yet delivered
LEMMA SendNewPacketFresh == Always /\ Fresh /\ SendNewPacket /\ lateTaken' = 0 => Fresh'
<1> SUFFICES ASSUME Always, Fresh, SendNewPacket, lateTaken' = 0 PROVE Fresh'
  OBVIOUS
<1> DEFINE m == [kind |-> "Data", seq |-> Plus(current, 1), payload |-> queued - packets + 1]
<1> USE DEF SendNewPacket, HasPacket, receiverVars
<1>1. /\ queued \in Int /\ packets \in Int /\ MaxPackets \in Int /\ queued <= MaxPackets
      /\ packets > 0 /\ packets <= queued
      /\ initialSequenceNumber \in Int /\ current \in Int /\ lastReceivedACK \in Int
  BY SequenceNumberAssumption, InitialInSpan, ConnectionAssumption DEF Always, Fresh, TypeOK, SeqNum
<1>2. /\ QueueCurrent = current /\ QueueCurrent' = current'
      /\ current \in Span(initialSequenceNumber)
      /\ initialSequenceNumber - 1 <= lastReceivedACK /\ lastReceivedACK <= current
      /\ current - initialSequenceNumber + 1 <= queued - packets
  BY FreshInSpan DEF Always, Fresh, SenderInv, QueueCurrent
<1>3. Plus(current, 1) = current + 1 /\ current + 1 \in Span(initialSequenceNumber)
  BY <1>1, <1>2, SpanArithmetic DEF Always, Fresh, TypeOK, Span
<1>4. current + 1 \in SeqNum
  BY <1>3, SpanArithmetic DEF Always, Fresh, TypeOK
<1>5. /\ m \in Data /\ m.seq = current + 1 /\ m.payload = queued - packets + 1
      /\ m.payload \in Payloads
  BY <1>1, <1>3, <1>4 DEF Data, Payloads
<1>6. wire' = wire \cup {m} /\ sentPackets' = sentPackets \cup {m} /\ Numbered' = Numbered \cup {m}
  BY DEF Write, Numbered
<1>7. current' = current + 1
  BY <1>3
<1> HIDE DEF m
<1>8. \A n \in Data : n \in Numbered => n.seq <= current /\ n.payload <= queued - packets
  BY <1>2 DEF Always, Fresh, WireInv
<1>9. WireInv'
  <2>1. \A c \in {"ACK", "Handshake", "HandshakeACK"}, s \in SeqNum :
            Ctl(c, s) \in wire' => Ctl(c, s) \in wire
    BY <1>5, <1>6, Kinds
  <2>2. Request \in wire' => Request \in wire
    BY <1>5, <1>6, Kinds
  <2>3. \A n \in Data : n \in Numbered' =>
            /\ initialSequenceNumber <= n.seq /\ n.seq <= current'
            /\ n.payload <= queued' - packets'
    <3>1. \A n \in Data : n.seq \in Int /\ n.payload \in Int
      BY SequenceNumberAssumption, ConnectionAssumption DEF Data, SeqNum, Payloads
    <3> QED BY <1>1, <1>2, <1>5, <1>6, <1>7, <1>8, <3>1 DEF Always, Fresh, WireInv
  <2>4. \A n, o \in Data : n \in Numbered' /\ o \in Numbered' =>
            (n.seq = o.seq <=> n.payload = o.payload)
    <3>1. \A n \in Data : n \in Numbered => n.seq # m.seq /\ n.payload # m.payload
      BY <1>1, <1>5, <1>8
    <3> QED BY <1>6, <3>1 DEF Always, Fresh, WireInv
  <2> QED BY <1>2, <2>1, <2>2, <2>3, <2>4 DEF Always, Fresh, WireInv, Synced
<1>10. ReceiverInv'
  <2>1. Synced' <=> Synced
    BY DEF Synced
  <2>2. lastReceivedSequenceNumber \in Int
    BY SequenceNumberAssumption DEF Always, Fresh, TypeOK, SeqNum
  <2> QED BY <1>1, <1>2, <1>7, <2>1, <2>2 DEF Always, Fresh, ReceiverInv
<1>11. HistoryInv'
  <2>1. Synced' <=> Synced
    BY DEF Synced
  <2>2. \A p \in Payloads : p > queued' - packets' => p > queued - packets
    BY <1>1, ConnectionAssumption DEF Payloads
  <2>3. Synced => lastReceivedSequenceNumber < m.seq
    BY <1>1, <1>2, <1>5, SequenceNumberAssumption DEF Always, Fresh, TypeOK, ReceiverInv, SeqNum
  <2>4. delivered[m.payload] = 0
    BY <1>1, <1>5 DEF Always, Fresh, HistoryInv
  <2>5. Synced => ~(m.seq <= lastReceivedSequenceNumber)
    BY <1>1, <1>5, <2>3, SequenceNumberAssumption DEF Always, Fresh, TypeOK, SeqNum
  <2> QED BY <1>6, <2>1, <2>2, <2>4, <2>5 DEF Always, Fresh, HistoryInv
<1> QED BY <1>9, <1>10, <1>11 DEF Always, Fresh

\* An ACK covers numbers that are not missing below the last received one
LEMMA ProcessACKFresh == ASSUME NEW ack \in SeqNum PROVE Always /\ Fresh /\ ProcessACK(ack) /\ lateTaken' = 0 => Fresh'
<1> SUFFICES ASSUME Always, Fresh, ProcessACK(ack), lateTaken' = 0 PROVE Fresh'
  OBVIOUS
<1> DEFINE gone == {m \in sentPackets : Leq(lastReceivedACK, m.seq) /\ Leq(m.seq, ack)}
<1> USE DEF ProcessACK, receiverVars
<1>1. /\ Synced /\ initialSequenceNumber - 1 <= ack /\ ack <= lastReceivedSequenceNumber
      /\ \A k \in lossList : k > ack
  BY ArrivesFrom DEF Always, Fresh, WireInv
<1>2. /\ lastReceivedSequenceNumber <= QueueCurrent /\ lastReceivedACK <= QueueCurrent
      /\ initialSequenceNumber - 1 <= lastReceivedACK
      /\ QueueCurrent - initialSequenceNumber + 1 <= queued - packets
  BY <1>1 DEF Always, Fresh, ReceiverInv, SenderInv
<1>3. /\ ack \in Int /\ initialSequenceNumber \in Int /\ lastReceivedSequenceNumber \in Int
      /\ QueueCurrent \in Int /\ lastReceivedACK \in Int /\ MaxPackets \in Int
      /\ initialSequenceNumber \in Initials
      /\ QueueCurrent \in Span(initialSequenceNumber)
      /\ lastReceivedACK \in Span(initialSequenceNumber)
  BY FreshInSpan, InitialInSpan, SequenceNumberAssumption DEF Always, Fresh, TypeOK, SeqNum, Span
<1>4. ack \in Span(initialSequenceNumber) /\ ack <= QueueCurrent
  BY <1>1, <1>2, <1>3 DEF Span
<1>5. ~Gt(ack, QueueCurrent) /\ (Gt(ack, lastReceivedACK) <=> ack > lastReceivedACK)
  BY <1>3, <1>4, SpanArithmetic
<1>6. QueueCurrent' = QueueCurrent /\ current' = QueueCurrent
  BY DEF QueueCurrent
<1>7. CASE ~Gt(ack, lastReceivedACK)
  <2>1. Numbered' = Numbered /\ acked' = acked
    BY <1>7 DEF Numbered
  <2>2. WireInv' /\ ReceiverInv'
    BY <1>6, <2>1 DEF Fresh, WireInv, ReceiverInv, Synced
  <2>3. HistoryInv'
    BY <2>1 DEF Fresh, HistoryInv, Synced
  <2> QED BY <2>2, <2>3 DEF Fresh
<1>8. CASE Gt(ack, lastReceivedACK)
  <2>1. sentPackets' = sentPackets \ gone /\ acked' = acked \cup {m.payload : m \in gone}
    BY <1>5, <1>8
  <2>2. \A m \in gone :
            /\ m \in sentPackets /\ m \in Data /\ m.seq \in Span(initialSequenceNumber)
            /\ m.seq \in Int /\ m.seq <= ack
    <3>1. \A m \in gone : m \in sentPackets /\ Leq(m.seq, ack)
      OBVIOUS
    <3>2. \A m \in sentPackets : m \in Data /\ m.seq \in Span(initialSequenceNumber) /\ m.seq \in Int
      BY FreshInSpan, SequenceNumberAssumption DEF Always, TypeOK, Numbered, Data, SeqNum
    <3> QED BY <1>3, <1>4, <3>1, <3>2, SpanArithmetic
  <2> HIDE DEF gone
  <2>3. Numbered' \subseteq Numbered
    BY <2>1 DEF Numbered
  <2>4. WireInv'
    BY <1>6, <2>3 DEF Fresh, WireInv, Synced
  <2>5. ReceiverInv'
    BY <1>6 DEF Fresh, ReceiverInv, Synced
  <2>6. HistoryInv'
    <3>1. ASSUME NEW m \in gone PROVE delivered[m.payload] = 1
      <4>1. m \in Data /\ m \in Numbered
        BY <2>2 DEF Numbered
      <4>2. m.seq <= lastReceivedSequenceNumber /\ m.seq \notin lossList
        BY <1>1, <1>3, <2>2
      <4> QED BY <1>1, <4>1, <4>2 DEF Fresh, HistoryInv
    <3> QED BY <2>1, <2>3, <3>1 DEF Fresh, HistoryInv, Synced
  <2> QED BY <2>4, <2>5, <2>6 DEF Fresh
<1> QED BY <1>7, <1>8

\* A new receiving Connection has no state to be mistaken for the old one's
LEMMA CleanupReceiverFresh ==
  Always /\ Fresh /\ CleanupReceiver /\ lateTaken' = 0 => Fresh'
<1> SUFFICES ASSUME Always, Fresh, CleanupReceiver, lateTaken' = 0 PROVE Fresh'
  OBVIOUS
<1> USE DEF CleanupReceiver, senderVars
<1>1. wire' = {} /\ Numbered' = sentPackets
  BY DEF AllLate, Numbered
<1>2. QueueCurrent' = QueueCurrent /\ ~Synced'
  BY DEF QueueCurrent, Synced
<1>3. WireInv'
  BY <1>1, <1>2 DEF Always, Fresh, WireInv, Numbered
<1>4. ReceiverInv'
  BY <1>2 DEF Always, Fresh, ReceiverInv
<1>5. HistoryInv'
  BY <1>2 DEF Always, Fresh, HistoryInv
<1> QED BY <1>3, <1>4, <1>5 DEF Always, Fresh

\* Only an end without a handshake asks for one
LEMMA RequestHandshakeFresh ==
  ASSUME NEW m \in Data PROVE Always /\ Fresh /\ RequestHandshake(m) /\ lateTaken' = 0 => Fresh'
<1> SUFFICES ASSUME Always, Fresh, RequestHandshake(m), lateTaken' = 0 PROVE Fresh'
  OBVIOUS
<1> USE DEF RequestHandshake, senderVars, receiverVars
<1>1. wire' = wire \cup {Request}
  BY DEF Write
<1>2. \A n \in Data : n \in Numbered' => n \in Numbered
  BY <1>1, Kinds DEF Numbered
<1>3. ReceiverInv'
  BY DEF Always, Fresh, SenderInv, ReceiverInv, Synced, QueueCurrent
<1>4. \A c \in {"ACK", "Handshake", "HandshakeACK"}, s \in SeqNum :
            Ctl(c, s) \in wire' => Ctl(c, s) \in wire
  BY <1>1, Kinds
<1>5. WireInv'
  <2>1. hasReceivedHandshakeACK
    BY ArrivesFrom DEF Always, Fresh, WireInv, Numbered
  <2> QED BY <1>2, <1>4, <2>1 DEF Always, Fresh, WireInv, Synced, QueueCurrent
<1>6. HistoryInv'
  BY <1>2 DEF Always, Fresh, HistoryInv, Synced
<1> QED BY <1>3, <1>5, <1>6 DEF Always, Fresh

\* A handshake never finds packets of the same initial number missing
LEMMA ProcessHandshakeFresh ==
  ASSUME NEW initial \in SeqNum PROVE Always /\ Fresh /\ ProcessHandshake(initial) /\ lateTaken' = 0 => Fresh'
<1> SUFFICES ASSUME Always, Fresh, ProcessHandshake(initial), lateTaken' = 0 PROVE Fresh'
  OBVIOUS
<1> USE DEF ProcessHandshake, senderVars
<1>1. /\ initial = initialSequenceNumber
      /\ hasReceivedHandshakeACK => hasReceivedHandshake
  BY ArrivesFrom DEF Always, Fresh, WireInv
<1>2. /\ initial - 1 \in SeqNum /\ Minus(initial, 1) = initial - 1
  BY <1>1, InitialInSpan DEF Always, Fresh, TypeOK
<1>3. wire' = wire \cup {Ctl("HandshakeACK", initial)}
  BY DEF Write
<1>4. Synced' /\ QueueCurrent' = QueueCurrent
  BY <1>1 DEF Synced, QueueCurrent
<1>5. \A n \in Data : n \in Numbered' => n \in Numbered
  BY <1>3, Kinds DEF Numbered
<1>6. /\ Synced => /\ lastReceivedSequenceNumber' = lastReceivedSequenceNumber
                   /\ lossList' = lossList
      /\ ~Synced => /\ ~hasReceivedHandshakeACK
                    /\ lastReceivedSequenceNumber' = initial - 1 /\ lossList' = {}
  BY <1>1, <1>2 DEF Always, Fresh, ReceiverInv, Synced
<1>7. WireInv'
  <2>1. \A s \in SeqNum : /\ Ctl("ACK", s) \in wire' => Ctl("ACK", s) \in wire
                          /\ Ctl("Handshake", s) \in wire' => Ctl("Handshake", s) \in wire
                          /\ Ctl("HandshakeACK", s) \in wire' =>
                                Ctl("HandshakeACK", s) \in wire \/ s = initial
    BY <1>3, Kinds
  <2>2. Request \notin wire'
    <3>1. Request \in wire' => Request \in wire
      BY <1>3, Kinds
    \* the request is older than the handshake it asked for
    <3>2. Request \notin wire
      BY <1>1 DEF Always, Fresh, WireInv
    <3> QED BY <3>1, <3>2
  <2> QED BY <1>1, <1>4, <1>5, <1>6, <2>1, <2>2 DEF Always, Fresh, WireInv
<1>8. ReceiverInv'
  BY <1>1, <1>4, <1>6 DEF Always, Fresh, SenderInv, ReceiverInv
<1>9. HistoryInv'
  <2>1. ~hasReceivedHandshakeACK => \A m \in Data : m \notin Numbered
    BY DEF Always, Fresh, WireInv
  <2> QED BY <1>5, <1>6, <2>1 DEF Always, Fresh, HistoryInv
<1> QED BY <1>7, <1>8, <1>9 DEF Always, Fresh

\* A packet is new exactly if it has not been delivered
LEMMA ReceivePacketFresh ==
  ASSUME NEW m \in Data PROVE Always /\ Fresh /\ ReceivePacket(m) /\ lateTaken' = 0 => Fresh'
<1> SUFFICES ASSUME Always, Fresh, ReceivePacket(m), lateTaken' = 0 PROVE Fresh'
  OBVIOUS
<1> DEFINE last == lastReceivedSequenceNumber
           ack == NextACK(Missing(m.seq), last')
<1> USE DEF ReceivePacket, senderVars
<1>1. hasReceivedHandshakeACK /\ Synced /\ m \in Numbered
  BY ArrivesFrom DEF Always, Fresh, WireInv, ReceiverInv, Numbered
<1>2. /\ initialSequenceNumber \in Initials /\ initialSequenceNumber \in Int
      /\ MaxPackets \in Int
      /\ last \in Span(initialSequenceNumber) /\ last \in Int
      /\ initialSequenceNumber - 1 <= last /\ last <= QueueCurrent
      /\ QueueCurrent \in Span(initialSequenceNumber) /\ QueueCurrent \in Int
      /\ lossList \subseteq Span(initialSequenceNumber)
      /\ m.seq \in Span(initialSequenceNumber) /\ m.seq \in Int
      /\ initialSequenceNumber <= m.seq /\ m.seq <= QueueCurrent
  BY <1>1, FreshInSpan, InitialInSpan DEF Always, Fresh, WireInv, ReceiverInv, Span
<1>3. \A k \in lossList : k \in Int /\ initialSequenceNumber <= k /\ k <= last
  BY <1>1, <1>2 DEF Always, Fresh, ReceiverInv, Span
<1>4. /\ last' = IF m.seq > last THEN m.seq ELSE last
      /\ IsNew(m.seq) <=> ~(m.seq <= last /\ m.seq \notin lossList)
  BY ReceivedState
<1>5. lossList' = IF m.seq > last + 1 THEN lossList \cup (last + 1 .. m.seq - 1)
                  ELSE lossList \ {m.seq}
  BY ReceivedState
<1>6. /\ last <= last' /\ last' <= QueueCurrent /\ last' \in Int
      /\ initialSequenceNumber - 1 <= last' /\ last' \in Span(initialSequenceNumber)
  BY <1>2, <1>4
<1>7. \A k \in lossList' :
            /\ k \in Int /\ initialSequenceNumber <= k /\ k <= last'
            /\ k \in Span(initialSequenceNumber)
            /\ k \in lossList \/ k > last
  BY <1>2, <1>3, <1>4, <1>5 DEF Span
<1>8. /\ ack \in Span(initialSequenceNumber) /\ ack \in SeqNum
      /\ initialSequenceNumber - 1 <= ack /\ ack <= last'
      /\ \A k \in lossList' : k > ack
  <2>1. Missing(m.seq) = lossList'
    OBVIOUS
  <2>2. CASE lossList' = {}
    <3>1. ack = last'
      BY <2>1, <2>2 DEF NextACK
    <3> QED BY <1>6, <2>2, <3>1, <1>2, SpanArithmetic
  <2>3. CASE lossList' # {}
    <3>1. lossList' \in SUBSET Zone
      BY <1>2, <1>7, SpanInZone
    <3>2. First(lossList') \in lossList' /\ \A k \in lossList' : First(lossList') <= k
      BY <1>2, <2>3, <3>1, FirstIsFirst
    <3>3. ack = Minus(First(lossList'), 1)
      BY <2>1, <2>3 DEF NextACK
    <3>4. /\ First(lossList') \in Int /\ initialSequenceNumber <= First(lossList')
          /\ First(lossList') <= last' /\ First(lossList') \in Span(initialSequenceNumber)
      BY <1>7, <3>2
    <3>5. ack = First(lossList') - 1
      BY <1>2, <3>3, <3>4, SpanArithmetic
    <3>6. ack \in Span(initialSequenceNumber)
      BY <1>2, <3>4, <3>5 DEF Span
    <3> HIDE DEF ack
    <3>7. ack \in SeqNum
      BY <1>2, <3>6, SpanArithmetic
    <3> QED BY <1>2, <1>6, <1>7, <3>2, <3>4, <3>5, <3>6, <3>7
  <2> QED BY <2>2, <2>3
<1>9. wire' = wire \cup {Ctl("ACK", ack)}
  BY DEF Write
<1>10. QueueCurrent' = QueueCurrent /\ Synced'
  BY <1>1 DEF QueueCurrent, Synced
<1> HIDE DEF ack
<1>11. \A n \in Data : n \in Numbered' => n \in Numbered
  BY <1>9, Kinds DEF Numbered
\* the code takes the packet as new exactly if it is not delivered yet
<1>12. IsNew(m.seq) <=> delivered[m.payload] = 0
  <2>1. IsNew(m.seq) <=> ~(m.seq <= last /\ m.seq \notin lossList)
    BY <1>4
  <2>2. delivered[m.payload] = 0 \/ delivered[m.payload] = 1
    BY Kinds DEF Always, Fresh, HistoryInv
  <2> QED BY <1>1, <2>1, <2>2 DEF Always, Fresh, HistoryInv
<1>13. /\ delivered' \in [Payloads -> Nat] /\ delivered'[m.payload] = 1
       /\ \A p \in Payloads : p # m.payload => delivered'[p] = delivered[p]
  <2>1. m.payload \in Payloads /\ delivered \in [Payloads -> Nat]
        /\ (delivered[m.payload] = 0 \/ delivered[m.payload] = 1)
    BY Kinds DEF Always, Fresh, TypeOK, HistoryInv
  <2>2. CASE IsNew(m.seq)
    <3>1. delivered' = [delivered EXCEPT ![m.payload] = delivered[m.payload] + 1]
      BY <2>2
    <3> QED BY <1>12, <2>1, <2>2, <3>1
  <2>3. CASE ~IsNew(m.seq)
    BY <1>12, <2>1, <2>3
  <2> QED BY <2>2, <2>3
<1>14. WireInv'
  <2>1. \A s \in SeqNum : /\ Ctl("ACK", s) \in wire' => Ctl("ACK", s) \in wire \/ s = ack
                          /\ Ctl("Handshake", s) \in wire' => Ctl("Handshake", s) \in wire
                          /\ Ctl("HandshakeACK", s) \in wire' => Ctl("HandshakeACK", s) \in wire
    BY <1>9, Kinds
  <2>2. Request \notin wire'
    BY <1>9, Kinds DEF Always, Fresh, WireInv
  <2>3. \A s \in SeqNum : Ctl("ACK", s) \in wire' =>
            /\ initialSequenceNumber - 1 <= s /\ s <= last'
            /\ \A k \in lossList' : k > s
    <3>1. ASSUME NEW s \in SeqNum, Ctl("ACK", s) \in wire, s # ack
          PROVE  /\ initialSequenceNumber - 1 <= s /\ s <= last'
                 /\ \A k \in lossList' : k > s
      <4>1. s \in Int /\ initialSequenceNumber - 1 <= s /\ s <= last /\ \A k \in lossList : k > s
        BY <3>1, SequenceNumberAssumption DEF Always, Fresh, WireInv, SeqNum
      <4> QED BY <1>2, <1>6, <1>7, <4>1
    <3> QED BY <1>8, <2>1, <3>1
  <2> QED BY <1>1, <1>10, <1>11, <2>1, <2>2, <2>3 DEF Always, Fresh, WireInv
<1>15. ReceiverInv'
  BY <1>1, <1>6, <1>7, <1>10 DEF Always, Fresh, ReceiverInv, Synced
<1>16. HistoryInv'
  <2>1. \A n \in Data : n \in Numbered' =>
            (delivered'[n.payload] = 1 <=> n.seq <= last' /\ n.seq \notin lossList')
    <3> SUFFICES ASSUME NEW n \in Data, n \in Numbered
                 PROVE  delivered'[n.payload] = 1 <=> n.seq <= last' /\ n.seq \notin lossList'
      BY <1>11
    <3>1. n.payload \in Payloads /\ n.seq \in Int
      BY Kinds, SequenceNumberAssumption DEF SeqNum
    <3>2. n.seq = m.seq <=> n.payload = m.payload
      BY <1>1 DEF Always, Fresh, WireInv
    <3>3. delivered[n.payload] = 1 <=> n.seq <= last /\ n.seq \notin lossList
      BY <1>1 DEF Always, Fresh, HistoryInv
    <3>4. CASE n.seq = m.seq
      <4>1. delivered'[n.payload] = 1
        BY <1>13, <3>2, <3>4
      <4>2. n.seq <= last' /\ n.seq \notin lossList'
        BY <1>2, <1>3, <1>4, <1>5, <3>1, <3>4
      <4> QED BY <4>1, <4>2
    <3>5. CASE n.seq # m.seq
      <4>1. delivered'[n.payload] = delivered[n.payload]
        BY <1>13, <3>1, <3>2, <3>5
      <4>2. n.seq <= last /\ n.seq \notin lossList <=> n.seq <= last' /\ n.seq \notin lossList'
        BY <1>2, <1>3, <1>4, <1>5, <3>1, <3>5
      <4> QED BY <3>3, <4>1, <4>2
    <3> QED BY <3>4, <3>5
  <2>2. \A p \in Payloads : delivered'[p] = 0 \/ delivered'[p] = 1
    BY <1>13 DEF Always, Fresh, HistoryInv
  <2>3. \A p \in Payloads : p > queued - packets => delivered'[p] = 0
    <3>1. m.payload <= queued - packets
      BY <1>1 DEF Always, Fresh, WireInv
    <3>2. m.payload \in Int /\ queued \in Int /\ packets \in Int
      BY Kinds, ConnectionAssumption DEF Payloads, Always, TypeOK
    <3>3. \A p \in Payloads : p > queued - packets => p # m.payload
      BY <3>1, <3>2, ConnectionAssumption DEF Payloads
    <3> QED BY <1>13, <3>3 DEF Always, Fresh, HistoryInv
  <2>4. \A p \in acked : delivered'[p] = 1
    BY <1>13 DEF Always, Fresh, TypeOK, HistoryInv
  <2> QED BY <2>1, <2>2, <2>3, <2>4 DEF HistoryInv
<1> QED BY <1>14, <1>15, <1>16 DEF Always, Fresh

(***************************************************************************)
(* The theorems                                                            *)
(***************************************************************************)
\* Every step preserves the invariant
LEMMA NextInv == Inv /\ [Next]_vars => Inv'
<1> SUFFICES ASSUME Inv, [Next]_vars PROVE Inv'
  OBVIOUS
<1>1. Always /\ (lateTaken = 0 => Fresh)
  BY DEF Inv
<1>2. ASSUME Next PROVE lateTaken' = 0 => lateTaken = 0
  BY <1>1, <1>2, ArrivesFrom
     DEF Next, Receive, Always, SendReliablePacket, SendHandshake, SendNewPacket, ResendPacket,
         QueueInactive, ProcessACK, ProcessHandshakeACK, ProcessHandshake, ProcessHandshakeRequest,
         ReceivePacket, RequestHandshake, CleanupSender, CleanupReceiver
<1>3. CASE SendReliablePacket
  BY <1>1, <1>2, <1>3, SendReliablePacketAlways, SendReliablePacketFresh DEF Inv, Next
<1>4. CASE SendHandshake
  BY <1>1, <1>2, <1>4, SendHandshakeAlways, SendHandshakeFresh DEF Inv, Next
<1>5. CASE SendNewPacket
  BY <1>1, <1>2, <1>5, SendNewPacketAlways, SendNewPacketFresh DEF Inv, Next
<1>6. CASE \E m \in Data : ResendPacket(m)
  BY <1>1, <1>2, <1>6, ResendPacketAlways, ResendPacketFresh DEF Inv, Next
<1>7. CASE QueueInactive
  BY <1>1, <1>2, <1>7, QueueInactiveAlways, QueueInactiveFresh DEF Inv, Next
<1>8. CASE Receive
  <2>1. lateTaken' = 0 => lateTaken = 0
    BY <1>2, <1>8 DEF Next
  <2>2. ASSUME NEW seq \in SeqNum, ProcessACK(seq) PROVE Inv'
    BY <1>1, <2>1, <2>2, ProcessACKAlways, ProcessACKFresh DEF Inv
  <2>3. ASSUME NEW seq \in SeqNum, ProcessHandshakeACK(seq) PROVE Inv'
    BY <1>1, <2>1, <2>3, ProcessHandshakeACKAlways, ProcessHandshakeACKFresh DEF Inv
  <2>4. ASSUME NEW seq \in SeqNum, ProcessHandshake(seq) PROVE Inv'
    BY <1>1, <2>1, <2>4, ProcessHandshakeAlways, ProcessHandshakeFresh DEF Inv
  <2>5. ASSUME ProcessHandshakeRequest PROVE Inv'
    BY <1>1, <2>1, <2>5, ProcessHandshakeRequestAlways, ProcessHandshakeRequestFresh DEF Inv
  <2>6. ASSUME NEW m \in Data, ReceivePacket(m) PROVE Inv'
    BY <1>1, <2>1, <2>6, ReceivePacketAlways, ReceivePacketFresh DEF Inv
  <2>7. ASSUME NEW m \in Data, RequestHandshake(m) PROVE Inv'
    BY <1>1, <2>1, <2>7, RequestHandshakeAlways, RequestHandshakeFresh DEF Inv
  <2> QED BY <1>8, <2>2, <2>3, <2>4, <2>5, <2>6, <2>7 DEF Receive
<1>9. CASE \E initial \in Initials : CleanupSender(initial)
  BY <1>1, <1>2, <1>9, CleanupSenderAlways, CleanupSenderFresh DEF Inv, Next
<1>10. CASE CleanupReceiver
  BY <1>1, <1>2, <1>10, CleanupReceiverAlways, CleanupReceiverFresh DEF Inv, Next
<1>11. CASE UNCHANGED vars
  <2> USE <1>11 DEF vars, senderVars, receiverVars
  <2>1. QueueCurrent' = QueueCurrent /\ (Synced' <=> Synced) /\ Numbered' = Numbered /\ Written' = Written
    BY DEF QueueCurrent, Synced, Numbered, Written
  <2>2. TypeOK' /\ SenderInv'
    BY <1>1, <2>1 DEF Always, TypeOK, SenderInv
  <2>3. NumberInv' /\ StateInv' /\ OnceInv'
    BY <1>1, <2>1 DEF Always, NumberInv, StateInv, OnceInv
  <2>4. lateTaken' = 0 => WireInv' /\ ReceiverInv' /\ HistoryInv'
    BY <1>1, <2>1 DEF Fresh, WireInv, ReceiverInv, HistoryInv
  <2> QED BY <2>2, <2>3, <2>4 DEF Inv, Always, Fresh
<1> QED BY <1>3, <1>4, <1>5, <1>6, <1>7, <1>8, <1>9, <1>10, <1>11 DEF Next

(***************************************************************************)
(* The invariant holds in every reachable state: its first part whatever   *)
(* datagrams of other Connections arrive, its second until one does.       *)
(***************************************************************************)
THEOREM Invariance == Spec => []Inv
BY InitInv, NextInv, PTL DEF Spec

(***************************************************************************)
(* Connection's variables keep their types, and a packet number is never   *)
(* outside the ring.                                                       *)
(***************************************************************************)
THEOREM TypeCorrect == Spec => []TypeOK
<1>1. Inv => TypeOK
  BY DEF Inv, Always
<1> QED BY Invariance, <1>1, PTL

(***************************************************************************)
(* No packet reaches the application twice on one handshake, whatever      *)
(* arrives late; nor on two as long as nothing late is taken               *)
(* (processReceivedSequenceNumber's duplicate test).                       *)
(***************************************************************************)
THEOREM AtMostOnce == Spec => []DeliveredAtMostOnce
<1>1. Inv => DeliveredAtMostOnce
  <2>1. Inv => \A p \in Payloads : delivered[p] \in Nat /\ before[p] \in Nat
    BY DEF Inv, Always, TypeOK
  <2>2. Inv => \A p \in Payloads : delivered[p] <= before[p] + 1
    BY <2>1 DEF Inv, Always, OnceInv
  <2>3. Inv /\ lateTaken = 0 => \A p \in Payloads : delivered[p] <= 1
    BY DEF Inv, Fresh, HistoryInv
  <2> QED BY <2>2, <2>3 DEF DeliveredAtMostOnce
<1> QED BY Invariance, <1>1, PTL

(***************************************************************************)
(* A packet SendQueue::ack forgets has been delivered, as long as nothing  *)
(* late is taken.                                                          *)
(***************************************************************************)
THEOREM AckedDelivered == Spec => []AckedWasDelivered
<1>1. Inv => AckedWasDelivered
  BY DEF Inv, Fresh, HistoryInv, AckedWasDelivered
<1> QED BY Invariance, <1>1, PTL

(***************************************************************************)
(* SendQueue keeps every packet that is not ACKed to send it again, also   *)
(* when ACKs, HandshakeACKs and HandshakeRequests come late.               *)
(***************************************************************************)
THEOREM UnackedKept == Spec => []UnackedCanBeResent
<1>1. Inv => UnackedCanBeResent
  <2> SUFFICES ASSUME Always, hasSendQueue PROVE UnackedCanBeResent
    BY DEF Inv, UnackedCanBeResent
  <2>1. {m.seq : m \in sentPackets} = lastReceivedACK + 1 .. current
    BY DEF Always, SenderInv
  <2>2. lastReceivedACK + 1 .. current =
            {seq \in SeqNum : Gt(seq, lastReceivedACK) /\ Leq(seq, current)}
    <3>1. /\ lastReceivedACK \in SeqNum /\ current \in SeqNum /\ lastReceivedACK <= current
          /\ current - lastReceivedACK < THRESHOLD
      <4>1. /\ lastReceivedACK \in Span(initialSequenceNumber)
            /\ current \in Span(initialSequenceNumber) /\ initialSequenceNumber \in Int
            /\ initialSequenceNumber \in Initials
        BY SenderInSpan, InitialInSpan DEF Always
      <4>2. lastReceivedACK <= current
        BY <4>1 DEF Always, SenderInv, QueueCurrent, Span
      <4> QED BY <4>1, <4>2, ConnectionAssumption, SequenceNumberAssumption DEF Always, TypeOK, Span
    <3>2. ASSUME NEW seq \in SeqNum
          PROVE  Gt(seq, lastReceivedACK) /\ Leq(seq, current) <=>
                    seq \in lastReceivedACK + 1 .. current
      BY <3>1, SequenceNumberAssumption DEF Gt, Leq, Near, SeqNum
    <3>3. lastReceivedACK + 1 .. current \subseteq SeqNum
      BY <3>1, SequenceNumberAssumption DEF SeqNum
    <3> QED BY <3>2, <3>3
  <2> QED BY <2>1, <2>2 DEF UnackedCanBeResent
<1> QED BY Invariance, <1>1, PTL
=============================================================================
