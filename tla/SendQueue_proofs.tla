--------------------------- MODULE SendQueue_proofs ---------------------------
(***************************************************************************)
(* For any initial sequence number, the ones next to the wrap included,    *)
(* and any number of packets, losses and flow window: however the queue's  *)
(* thread and the Connection's interleave, every unACKed packet can be     *)
(* sent again, none is kept that is not needed, nothing is on the wire or  *)
(* ACKed that was not sent, and the flow window is kept.                   *)
(***************************************************************************)
EXTENDS SendQueue, WellFoundedInduction, TLAPS

(***************************************************************************)
(* Numbers as distances.  Near the wrap a later number may be the smaller  *)
(* one, so the invariant does not compare numbers but their distances from *)
(* the one before the initial number, which the first queue starts at.     *)
(***************************************************************************)
Base == Minus(Initial, 1)

Dist(s) == IF s >= Base THEN s - Base ELSE s - Base + MAX + 1

\* The largest number sent so far, which the next queue will start from
High == IF hasSendQueue THEN current ELSE lastReceivedACK

(***************************************************************************)
(* The inductive invariant                                                 *)
(***************************************************************************)
TypeInv ==
    /\ {current, lastACK, lastReceivedACK} \subseteq SeqNum
    /\ packets \in Nat /\ queued \in 0 .. NumPackets /\ flowWindow \in Nat
    /\ sentPackets \subseteq SeqNum
    /\ wire \subseteq SeqNum /\ received \subseteq SeqNum /\ acks \subseteq SeqNum

\* What the queue's thread may be doing, and when the queue may be stopped
\* other than by ~Connection: only once all it has sent is ACKed
ThreadInv ==
    /\ hasSendQueue <=> pc # "none"
    /\ cpc \in {"ackErase", "ackNaks", "ackStore", "join"} => hasSendQueue
    /\ hasSendQueue /\ ~hasReceivedHandshakeACK =>
            \/ pc \in {"start", "starting", "handshake", "waitHandshake", "done"}
            \/ pc = "loop" /\ state # "Running"
    /\ ~closed /\ hasSendQueue =>
            \/ pc \in {"start", "starting"} /\ state = "NotStarted"
            \/ pc \in {"stopping", "done"}
            \/ pc \notin {"start", "starting"} /\ state = "Running"
    /\ pc \in {"parkIdle", "waitIdle", "deactivate", "stopping"} => lastACK = current
    /\ pc = "done" /\ ~closed => lastACK = current
    /\ inactivePosted /\ ~closed => cpc # "join" /\ pc \in {"stopping", "done"}
    /\ cpc = "join" /\ ~closed => pc \in {"stopping", "done"}

\* Nothing is numbered before the handshake's end, which only comes if the
\* Handshake carried the initial number; then at most what was queued
NumberInv ==
    /\ hasReceivedHandshakeACK => handshakeSent
    /\ handshakeSent => Plus(Base, 1) = Initial
    /\ hasSendQueue =>
            /\ Dist(lastACK) <= Dist(lastReceivedACK)
            /\ Dist(lastReceivedACK) <= Dist(current)
            /\ Dist(current) + packets <= queued
    /\ hasSendQueue /\ ~hasReceivedHandshakeACK => current = Base /\ sentPackets = {}
    /\ hasReceivedHandshakeACK /\ ~closed => Dist(High) <= queued
    /\ cpc \in {"ackErase", "ackNaks", "ackStore"} => cAck = lastReceivedACK
    /\ pc \in {"transmit", "insert", "insertFailed"} => held = current

\* _sentPackets: from the last ACK on, and from the Connection's last ACK
\* on all of them
SentInv ==
    hasSendQueue =>
        /\ \A s \in sentPackets : Dist(lastACK) <= Dist(s) /\ Dist(s) <= Dist(current)
        /\ cpc \in {"ackNaks", "ackStore"} => \A s \in sentPackets : Dist(cAck) <= Dist(s)
        /\ \A s \in SeqNum :
                Dist(lastReceivedACK) < Dist(s) /\ Dist(s) <= Dist(current)
                    => s \in sentPackets \cup InHand

\* The network and the receiver only know numbers that were sent
NetInv ==
    /\ ~hasReceivedHandshakeACK => wire = {} /\ received = {} /\ acks = {}
    /\ hasReceivedHandshakeACK /\ (hasSendQueue \/ ~closed) =>
            \A s \in wire \cup received \cup acks : Dist(s) <= Dist(High)

WindowInv == hasSendQueue => Dist(current) - Dist(lastACK) <= flowWindow

Inv == TypeInv /\ ThreadInv /\ NumberInv /\ SentInv /\ NetInv /\ WindowInv

(***************************************************************************)
(* Arithmetic of distances                                                 *)
(***************************************************************************)

\* A number is determined by its distance
LEMMA DistIsPosition ==
  /\ Base \in SeqNum /\ Dist(Base) = 0
  /\ \A s \in SeqNum : Dist(s) \in 0 .. MAX
  /\ \A s, t \in SeqNum : Dist(s) = Dist(t) => s = t
BY SequenceNumberAssumption, SendQueueAssumption DEF Base, Dist, Minus, SeqNum

\* Among at most THRESHOLD numbers the comparisons are those of the distances
LEMMA DistIsOrder ==
  ASSUME NEW a \in SeqNum, NEW b \in SeqNum,
         Dist(a) <= NumPackets, Dist(b) <= NumPackets
  PROVE  /\ Lt(a, b) <=> Dist(a) < Dist(b)
         /\ Gt(a, b) <=> Dist(a) > Dist(b)
         /\ Leq(a, b) <=> Dist(a) <= Dist(b)
         /\ Geq(a, b) <=> Dist(a) >= Dist(b)
         /\ Dist(a) <= Dist(b) => Seqlen(a, b) = Dist(b) - Dist(a) + 1
<1>1. /\ Base \in 0 .. MAX /\ a \in 0 .. MAX /\ b \in 0 .. MAX
      /\ MAX = 2 * THRESHOLD + 1 /\ THRESHOLD \in Nat
      /\ NumPackets \in Nat /\ NumPackets + 2 < THRESHOLD
  BY DistIsPosition, SequenceNumberAssumption, SendQueueAssumption DEF SeqNum
<1> HIDE DEF Base
<1> QED BY <1>1 DEF Dist, Lt, Gt, Leq, Geq, Near, Seqlen

\* operator+= by one moves one further
LEMMA PlusOneIsFurther ==
  ASSUME NEW a \in SeqNum, Dist(a) < NumPackets
  PROVE  Plus(a, 1) \in SeqNum /\ Dist(Plus(a, 1)) = Dist(a) + 1
<1>1. /\ Base \in 0 .. MAX /\ a \in 0 .. MAX
      /\ MAX = 2 * THRESHOLD + 1 /\ THRESHOLD \in Nat
      /\ NumPackets \in Nat /\ NumPackets + 2 < THRESHOLD
  BY DistIsPosition, SequenceNumberAssumption, SendQueueAssumption DEF SeqNum
<1> HIDE DEF Base
<1> QED BY <1>1 DEF Dist, Plus, SeqNum

\* The numbers of the packets, if the Handshake carried the initial one
LEMMA NumbersAreNext ==
  ASSUME Plus(Base, 1) = Initial, NEW k \in 0 .. NumPackets - 1
  PROVE  Plus(Initial, k) \in SeqNum /\ Dist(Plus(Initial, k)) = k + 1
<1>1. /\ Base \in 0 .. MAX
      /\ MAX = 2 * THRESHOLD + 1 /\ THRESHOLD \in Nat
      /\ NumPackets \in Nat /\ NumPackets + 2 < THRESHOLD
  BY DistIsPosition, SequenceNumberAssumption, SendQueueAssumption DEF SeqNum
<1> HIDE DEF Base
<1> QED BY <1>1 DEF Dist, Plus, SeqNum

\* What is ACKed has been received, unless nothing is
LEMMA AckIsReceived ==
  ASSUME NEW got
  PROVE  NextACK(got) = Base \/ NextACK(got) \in got
<1> DEFINE S == {k \in 0 .. NumPackets : k < NumPackets => Plus(Initial, k) \notin got}
           Q(k) == /\ \A i \in 0 .. k - 1 : Plus(Initial, i) \in got
                   /\ k < NumPackets => Plus(Initial, k) \notin got
           n == CHOOSE k \in 0 .. NumPackets : Q(k)
<1>1. NumPackets \in Nat
  BY SendQueueAssumption
<1>2. PICK m \in S : \A other \in S : ~ (<<other, m>> \in OpToRel(<, Nat))
  <2>1. IsWellFoundedOn(OpToRel(<, Nat), Nat)
    BY NatLessThanWellFounded
  <2>2. S \subseteq Nat /\ NumPackets \in S
    BY <1>1
  <2>3. \E x \in S : \A y \in S : ~ (<<y, x>> \in OpToRel(<, Nat))
    BY <2>1, <2>2, WFMin
  <2> QED BY <2>3
<1>3. \A other \in S : m <= other
  <2>1. ASSUME NEW other \in S PROVE m <= other
    <3>1. other \in Nat /\ m \in Nat
      BY <1>1
    <3>2. <<other, m>> \in OpToRel(<, Nat) <=> <<other, m>> \in {ss \in Nat \X Nat : ss[1] < ss[2]}
      BY Zenon DEF OpToRel
    <3>3. ~ (<<other, m>> \in {ss \in Nat \X Nat : ss[1] < ss[2]})
      BY <1>2, <3>2
    <3> QED BY <3>1, <3>3
  <2> QED BY <2>1
<1>4. m \in 0 .. NumPackets /\ Q(m)
  BY <1>1, <1>3
<1>5. n \in 0 .. NumPackets /\ Q(n)
  BY <1>4
<1>6. NextACK(got) = IF n = 0 THEN Base ELSE Plus(Initial, n - 1)
  BY DEF NextACK, Base
<1> HIDE DEF n
<1>7. n # 0 => Plus(Initial, n - 1) \in got
  BY <1>1, <1>5
<1> QED BY <1>6, <1>7

(***************************************************************************)
(* The invariant is inductive                                              *)
(***************************************************************************)
LEMMA InitInv == Init => Inv
<1> SUFFICES ASSUME Init PROVE Inv
  OBVIOUS
<1>1. TypeInv
  BY SequenceNumberAssumption, SendQueueAssumption DEF Init, TypeInv, SeqNum
<1>2. ThreadInv /\ NumberInv /\ SentInv /\ NetInv /\ WindowInv
  BY DEF Init, ThreadInv, NumberInv, SentInv, NetInv, WindowInv
<1> QED BY <1>1, <1>2 DEF Inv

\* The packet in hand is the last one numbered
LEMMA InHandIsCurrent == ASSUME Inv, hasSendQueue PROVE InHand \subseteq {current}
BY DEF Inv, NumberInv, InHand

\* All numbers the queue uses are within NumPackets of the first
LEMMA InvInRange ==
  ASSUME Inv
  PROVE  /\ NumPackets \in Nat /\ packets \in Nat /\ queued \in Nat
         /\ current \in SeqNum /\ lastACK \in SeqNum /\ lastReceivedACK \in SeqNum
         /\ Dist(current) \in Nat /\ Dist(lastACK) \in Nat /\ Dist(lastReceivedACK) \in Nat
         /\ hasSendQueue =>
                /\ Dist(current) <= NumPackets /\ Dist(lastACK) <= NumPackets
                /\ Dist(lastReceivedACK) <= NumPackets
         /\ hasReceivedHandshakeACK /\ ~closed => Dist(lastReceivedACK) <= NumPackets
<1>1. /\ NumPackets \in Nat /\ packets \in Nat /\ queued \in Nat /\ queued <= NumPackets
      /\ current \in SeqNum /\ lastACK \in SeqNum /\ lastReceivedACK \in SeqNum
  BY SendQueueAssumption DEF Inv, TypeInv
<1>2. Dist(current) \in Nat /\ Dist(lastACK) \in Nat /\ Dist(lastReceivedACK) \in Nat
  BY <1>1, DistIsPosition, SequenceNumberAssumption
<1> QED BY <1>1, <1>2 DEF Inv, NumberInv, High

\* A step that only moves the threads on, or posts a signal, between the
\* steps that change numbers
LEMMA ControlStep ==
  ASSUME Inv,
         UNCHANGED <<packets, current, lastACK, sentPackets, hasSendQueue,
                     hasReceivedHandshakeACK, lastReceivedACK, queued, flowWindow,
                     wire, received, acks, handshakeSent>>,
         closed => closed',
         cpc' \in {"ackErase", "ackNaks", "ackStore"} =>
                (cpc' = cpc \/ cpc = "ackNaks") /\ cAck' = cAck,
         pc' \in {"transmit", "insert", "insertFailed"} =>
                pc \in {"transmit", "insert", "insertFailed"} /\ held' = held,
         InHand \subseteq InHand', ThreadInv'
  PROVE  Inv'
<1>1. TypeInv'
  BY DEF Inv, TypeInv
<1>2. High' = High
  BY DEF High
<1>3. NumberInv'
  BY <1>2 DEF Inv, NumberInv
<1>4. SentInv'
  BY DEF Inv, SentInv
<1>5. NetInv'
  BY <1>2 DEF Inv, NetInv
<1>6. WindowInv'
  BY DEF Inv, WindowInv
<1> QED BY <1>1, <1>3, <1>4, <1>5, <1>6 DEF Inv

\* The Connection's steps that change no number
LEMMA ConnectionControlInv ==
  ASSUME Inv,
         \/ NotifyEmptyCondition \/ AckNaks \/ AckNotify
         \/ FastRetransmit \/ NoFastRetransmit \/ QueueInactive \/ Close
  PROVE  Inv'
<1> USE DEF queueVars, connVars, netVars, sendVars
<1>1. CASE NotifyEmptyCondition
  <2>1. ThreadInv'
    BY <1>1 DEF NotifyEmptyCondition, Inv, ThreadInv
  <2> QED BY <1>1, <2>1, ControlStep DEF NotifyEmptyCondition, InHand
<1>2. CASE AckNaks
  <2>1. ThreadInv'
    BY <1>2 DEF AckNaks, Locked, Inv, ThreadInv
  <2> QED BY <1>2, <2>1, ControlStep DEF AckNaks, InHand
<1>3. CASE AckNotify
  <2>1. ThreadInv'
    BY <1>3 DEF AckNotify, Inv, ThreadInv
  <2> QED BY <1>3, <2>1, ControlStep DEF AckNotify, InHand
<1>4. CASE FastRetransmit
  <2>1. ThreadInv'
    BY <1>4 DEF FastRetransmit, Inv, ThreadInv
  <2> QED BY <1>4, <2>1, ControlStep DEF FastRetransmit, InHand
<1>5. CASE NoFastRetransmit
  <2>1. ThreadInv'
    BY <1>5 DEF NoFastRetransmit, Inv, ThreadInv
  <2> QED BY <1>5, <2>1, ControlStep DEF NoFastRetransmit, InHand
\* the queue that is stopped has posted the signal and is done
<1>6. CASE QueueInactive
  <2>1. ThreadInv'
    BY <1>6 DEF QueueInactive, RequestStop, Inv, ThreadInv
  <2> QED BY <1>6, <2>1, ControlStep DEF QueueInactive, RequestStop, InHand
<1>7. CASE Close
  <2>1. ThreadInv'
    BY <1>7 DEF Close, RequestStop, Inv, ThreadInv
  <2> QED BY <1>7, <2>1, ControlStep DEF Close, RequestStop, InHand
<1> QED BY <1>1, <1>2, <1>3, <1>4, <1>5, <1>6, <1>7

\* The queue's thread starts, waits and stops
LEMMA ThreadControlInv ==
  ASSUME Inv,
         \/ Run \/ SetRunning \/ WakeHandshake \/ Loop \/ PopNak
         \/ TransmitFails \/ AppendNak \/ EndLoop \/ CheckInactive \/ ChooseWait \/ Park
         \/ WakeNotified \/ IdleTimeout \/ AckTimeout \/ CheckStuck \/ AppendUnacked
         \/ EmitInactive \/ Deactivate
  PROVE  Inv'
<1> USE DEF queueVars, connVars, netVars
<1>1. CASE Run
  <2>1. ThreadInv'
    BY <1>1 DEF Run, Inv, ThreadInv
  <2> QED BY <1>1, <2>1, ControlStep DEF Run, InHand
<1>2. CASE SetRunning
  <2>1. ThreadInv'
    BY <1>2 DEF SetRunning, Inv, ThreadInv
  <2> QED BY <1>2, <2>1, ControlStep DEF SetRunning, InHand
<1>3. CASE WakeHandshake
  <2>1. ThreadInv'
    BY <1>3 DEF WakeHandshake, Inv, ThreadInv
  <2> QED BY <1>3, <2>1, ControlStep DEF WakeHandshake, InHand
<1>4. CASE Loop
  <2>1. ThreadInv'
    BY <1>4 DEF Loop, Inv, ThreadInv
  <2> QED BY <1>4, <2>1, ControlStep DEF Loop, InHand
<1>5. CASE PopNak
  <2>1. ThreadInv'
    BY <1>5 DEF PopNak, Inv, ThreadInv
  <2> QED BY <1>5, <2>1, ControlStep DEF PopNak, InHand
<1>6. CASE TransmitFails
  <2>1. ThreadInv'
    BY <1>6 DEF TransmitFails, Inv, ThreadInv
  <2> QED BY <1>6, <2>1, ControlStep DEF TransmitFails, InHand
<1>7. CASE AppendNak
  <2>1. ThreadInv'
    BY <1>7 DEF AppendNak, Inv, ThreadInv
  <2> QED BY <1>7, <2>1, ControlStep DEF AppendNak, InHand
<1>8. CASE CheckInactive
  <2>1. ThreadInv'
    BY <1>8 DEF CheckInactive, Inv, ThreadInv
  <2> QED BY <1>8, <2>1, ControlStep DEF CheckInactive, InHand
<1>9. CASE Park
  <2>1. ThreadInv'
    BY <1>9 DEF Park, Locked, Inv, ThreadInv
  <2> QED BY <1>9, <2>1, ControlStep DEF Park, Locked, InHand
<1>10. CASE WakeNotified
  <2>1. ThreadInv'
    BY <1>10 DEF WakeNotified, Inv, ThreadInv
  <2> QED BY <1>10, <2>1, ControlStep DEF WakeNotified, InHand
<1>11. CASE IdleTimeout
  <2>1. ThreadInv'
    BY <1>11 DEF IdleTimeout, Inv, ThreadInv
  <2> QED BY <1>11, <2>1, ControlStep DEF IdleTimeout, InHand
<1>12. CASE AckTimeout
  <2>1. ThreadInv'
    BY <1>12 DEF AckTimeout, Inv, ThreadInv
  <2> QED BY <1>12, <2>1, ControlStep DEF AckTimeout, InHand
<1>13. CASE EmitInactive
  <2>1. ThreadInv'
    BY <1>13 DEF EmitInactive, Inv, ThreadInv
  <2> QED BY <1>13, <2>1, ControlStep DEF EmitInactive, InHand
<1>14. CASE Deactivate
  <2>1. ThreadInv'
    BY <1>14 DEF Deactivate, Inv, ThreadInv
  <2> QED BY <1>14, <2>1, ControlStep DEF Deactivate, InHand
<1>15. CASE EndLoop
  <2>1. ThreadInv'
    BY <1>15 DEF EndLoop, Inv, ThreadInv
  <2> QED BY <1>15, <2>1, ControlStep DEF EndLoop, InHand
\* the queue goes to sleep for good only once all is ACKed
<1>16. CASE ChooseWait
  <2>1. ThreadInv'
    BY <1>16 DEF ChooseWait, Inv, ThreadInv
  <2> QED BY <1>16, <2>1, ControlStep DEF ChooseWait, InHand
<1>17. CASE CheckStuck
  <2>1. ThreadInv'
    BY <1>17 DEF CheckStuck, Inv, ThreadInv
  <2> QED BY <1>17, <2>1, ControlStep DEF CheckStuck, InHand
<1>18. CASE AppendUnacked
  <2>1. ThreadInv'
    BY <1>18 DEF AppendUnacked, Inv, ThreadInv
  <2> QED BY <1>18, <2>1, ControlStep DEF AppendUnacked, InHand
<1> QED BY <1>1, <1>2, <1>3, <1>4, <1>5, <1>6, <1>7, <1>8, <1>9, <1>10, <1>11, <1>12, <1>13, <1>14,
          <1>15, <1>16, <1>17, <1>18

\* A new queue starts where the last one, all of whose packets were ACKed,
\* left off, or before the initial number
LEMMA CreateSendQueueInv ==
  ASSUME Inv, ~hasSendQueue, ~closed,
         NEW n \in 0 .. 1, CreateSendQueue(n),
         queued + n \in 0 .. NumPackets, queued' = queued + n,
         cpc' \notin {"ackErase", "ackNaks", "ackStore", "join"},
         wire' = wire, received' = received, acks' \subseteq acks,
         UNCHANGED <<hasReceivedHandshakeACK, inactivePosted, closed, flowWindow, handshakeSent>>
  PROVE  Inv'
<1> USE DEF CreateSendQueue, FirstCurrent
<1>1. /\ current' \in SeqNum /\ current' = lastACK' /\ current' = lastReceivedACK'
      /\ ~hasReceivedHandshakeACK => current' = Base
      /\ hasReceivedHandshakeACK => current' = lastReceivedACK
  BY DistIsPosition, InvInRange DEF Base
<1>2. /\ Dist(current') \in Nat /\ queued \in Nat
      /\ Dist(current') <= queued
  <2>1. CASE hasReceivedHandshakeACK
    BY <1>1, <2>1, InvInRange DEF Inv, NumberInv, High
  <2>2. CASE ~hasReceivedHandshakeACK
    BY <1>1, <2>2, InvInRange, DistIsPosition
  <2> QED BY <2>1, <2>2
<1>3. hasSendQueue' /\ High' = current'
  BY DEF High
<1>4. TypeInv'
  BY <1>1 DEF Inv, TypeInv
<1>5. ThreadInv'
  BY DEF Inv, ThreadInv
<1>6. NumberInv'
  BY <1>1, <1>2, <1>3 DEF Inv, NumberInv
<1>7. SentInv'
  <2>1. \A s \in SeqNum : ~(Dist(current') < Dist(s) /\ Dist(s) <= Dist(current'))
    BY <1>2, DistIsPosition, SequenceNumberAssumption
  <2> QED BY <1>1, <2>1 DEF SentInv
<1>8. NetInv'
  BY <1>1, <1>3 DEF Inv, NetInv, High
<1>9. WindowInv'
  BY <1>1, <1>2 DEF Inv, TypeInv, WindowInv
<1> QED BY <1>4, <1>5, <1>6, <1>7, <1>8, <1>9 DEF Inv

\* A packet is queued
LEMMA QueuePacketInv == ASSUME Inv, QueuePacket PROVE Inv'
<1> USE DEF QueuePacket, netVars, sendVars
<1>1. CASE hasSendQueue
  <2>1. InHand' = InHand /\ High' = High
    BY <1>1 DEF InHand, High
  <2>2. TypeInv'
    BY <1>1, SendQueueAssumption DEF Inv, TypeInv
  <2>3. ThreadInv'
    BY <1>1 DEF Inv, ThreadInv
  <2>4. NumberInv'
    BY <1>1, <2>1, InvInRange DEF Inv, NumberInv, High
  <2>5. SentInv'
    BY <1>1, <2>1 DEF Inv, SentInv
  <2>6. NetInv' /\ WindowInv'
    BY <1>1, <2>1 DEF Inv, NetInv, WindowInv
  <2> QED BY <2>2, <2>3, <2>4, <2>5, <2>6 DEF Inv
<1>2. CASE ~hasSendQueue
  <2>1. queued + 1 \in 0 .. NumPackets /\ queued' = queued + 1
    BY InvInRange
  <2> QED BY <1>2, <2>1, CreateSendQueueInv
<1> QED BY <1>1, <1>2

\* An ACK that is let through is not above the largest number sent
LEMMA ProcessACKInv == ASSUME Inv, NEW a \in AckNumbers, ProcessACK(a) PROVE Inv'
<1> USE DEF ProcessACK
<1>1. a \in SeqNum /\ Dist(a) \in Nat
  BY DistIsPosition, SequenceNumberAssumption DEF Inv, TypeInv
<1>2. CASE hasSendQueue \/ ~hasReceivedHandshakeACK
  <2>1. CASE cpc' = cpc /\ lastReceivedACK' = lastReceivedACK
    <3>1. InHand' = InHand /\ High' = High
      BY <1>2, <2>1 DEF InHand, High, queueVars, sendVars
    <3>2. TypeInv' /\ ThreadInv'
      BY <1>2, <2>1 DEF Inv, TypeInv, ThreadInv, queueVars, sendVars
    <3>3. NumberInv'
      BY <1>2, <2>1, <3>1 DEF Inv, NumberInv, queueVars, sendVars
    <3>4. SentInv'
      BY <1>2, <2>1, <3>1 DEF Inv, SentInv, queueVars, sendVars
    <3>5. NetInv' /\ WindowInv'
      BY <1>2, <2>1, <3>1 DEF Inv, NetInv, WindowInv, queueVars, sendVars
    <3> QED BY <3>2, <3>3, <3>4, <3>5 DEF Inv
  <2>2. CASE ~(cpc' = cpc /\ lastReceivedACK' = lastReceivedACK)
    <3>1. /\ hasSendQueue /\ hasReceivedHandshakeACK
          /\ ~Gt(a, current) /\ ~Lt(a, lastReceivedACK)
          /\ cAck' = a /\ lastReceivedACK' = a
          /\ cpc' \in {"ackErase", "duplicate"}
      BY <1>2, <2>2
    <3>2. /\ UNCHANGED <<hasSendQueue, state, packets, current, lastACK, sentPackets,
                         pc, held, hasReceivedHandshakeACK, closed, queued,
                         inactivePosted, flowWindow, wire, received, handshakeSent>>
          /\ acks' \subseteq acks
      BY <1>2, <2>2 DEF queueVars, sendVars
    <3>3. Dist(a) <= Dist(current)
      BY <3>1 DEF Inv, NetInv, High
    <3>4. Dist(lastReceivedACK) <= Dist(a)
      BY <1>1, <3>1, <3>3, InvInRange, DistIsOrder
    <3>5. Dist(a) <= queued /\ InHand' = InHand /\ High' = current
      BY <1>1, <3>1, <3>2, <3>3, InvInRange DEF Inv, NumberInv, InHand, High
    <3>6. TypeInv' /\ ThreadInv'
      BY <1>1, <3>1, <3>2 DEF Inv, TypeInv, ThreadInv
    <3>7. NumberInv'
      BY <1>1, <3>1, <3>2, <3>3, <3>4, <3>5, InvInRange DEF Inv, NumberInv, High
    <3>8. SentInv'
      <4>1. \A s \in SeqNum : Dist(a) < Dist(s) => Dist(lastReceivedACK) < Dist(s)
        BY <1>1, <3>4, InvInRange, DistIsPosition
      <4> QED BY <3>1, <3>2, <3>5, <4>1 DEF Inv, SentInv
    <3>9. NetInv' /\ WindowInv'
      BY <3>1, <3>2, <3>5 DEF Inv, NetInv, WindowInv, High
    <3> QED BY <3>6, <3>7, <3>8, <3>9 DEF Inv
  <2> QED BY <2>1, <2>2
<1>3. CASE ~hasSendQueue /\ hasReceivedHandshakeACK
  <2>1. queued + 0 \in 0 .. NumPackets /\ queued' = queued + 0 /\ 0 \in 0 .. 1
    BY SendQueueAssumption DEF Inv, TypeInv
  <2>2. cpc' \in {"duplicate", "idle"} /\ CreateSendQueue(0)
    BY <1>3
  <2> QED BY <1>3, <2>1, <2>2, CreateSendQueueInv
<1> QED BY <1>2, <1>3

\* ack() removes what lies between the last ACK and this one, both included
LEMMA AckEraseInv == ASSUME Inv, AckErase PROVE Inv'
<1> USE DEF AckErase, connVars, netVars, sendVars
<1>1. hasSendQueue /\ cAck = lastReceivedACK
  BY DEF Inv, ThreadInv, NumberInv
<1>2. InHand' = InHand /\ High' = High
  BY DEF InHand, High
<1>3. \A s \in sentPackets :
            /\ s \in SeqNum /\ Dist(s) \in Nat /\ Dist(s) <= NumPackets
            /\ Erases(s) <=> Dist(s) <= Dist(cAck)
  <2>1. ASSUME NEW s \in sentPackets
        PROVE  /\ s \in SeqNum /\ Dist(s) \in Nat /\ Dist(s) <= NumPackets
               /\ Dist(lastACK) <= Dist(s)
    BY <1>1, InvInRange, DistIsPosition DEF Inv, TypeInv, SentInv
  <2>2. ASSUME NEW s \in sentPackets
        PROVE  Erases(s) <=> Dist(s) <= Dist(cAck)
    BY <1>1, <2>1, InvInRange, DistIsOrder DEF Erases
  <2> QED BY <2>1, <2>2
<1>4. TypeInv' /\ ThreadInv'
  BY DEF Inv, TypeInv, ThreadInv
<1>5. NumberInv'
  BY <1>1, <1>2 DEF Inv, NumberInv
<1>6. SentInv'
  <2>1. \A s \in sentPackets' : s \in sentPackets /\ Dist(cAck) <= Dist(s)
    BY <1>1, <1>3, InvInRange
  <2>2. \A s \in SeqNum : s \in sentPackets /\ Dist(lastReceivedACK) < Dist(s) => s \in sentPackets'
    BY <1>1, <1>3, InvInRange
  <2> QED BY <1>1, <1>2, <2>1, <2>2 DEF Inv, SentInv
<1>7. NetInv' /\ WindowInv'
  BY <1>2 DEF Inv, NetInv, WindowInv
<1> QED BY <1>4, <1>5, <1>6, <1>7 DEF Inv

\* The Connection's thread stores an ACK
LEMMA AckStoreInv == ASSUME Inv, AckStore PROVE Inv'
<1> USE DEF AckStore, connVars, netVars, sendVars
<1>1. hasSendQueue /\ cAck = lastReceivedACK
  BY DEF Inv, ThreadInv, NumberInv
<1>2. InHand' = InHand /\ High' = High
  BY DEF InHand, High
<1>3. TypeInv'
  BY <1>1 DEF Inv, TypeInv
<1>4. ThreadInv'
  \* once all was ACKed, the last ACK is the largest number sent
  <2>1. lastACK = current => cAck = current
    <3>1. /\ Dist(lastACK) <= Dist(cAck) /\ Dist(cAck) <= Dist(current)
      BY <1>1 DEF Inv, NumberInv
    <3>2. lastACK = current => Dist(cAck) = Dist(current)
      BY <1>1, <3>1, InvInRange
    <3> QED BY <1>1, <3>2, InvInRange, DistIsPosition
  <2> QED BY <1>1, <2>1 DEF Inv, ThreadInv
<1>5. NumberInv'
  BY <1>1, <1>2, InvInRange DEF Inv, NumberInv
<1>6. SentInv'
  BY <1>1, <1>2 DEF Inv, SentInv
<1>7. NetInv'
  BY <1>2 DEF Inv, NetInv
<1>8. WindowInv'
  BY <1>1, InvInRange DEF Inv, TypeInv, NumberInv, WindowInv
<1> QED BY <1>3, <1>4, <1>5, <1>6, <1>7, <1>8 DEF Inv

\* A handshake is acknowledged
LEMMA ProcessHandshakeACKInv == ASSUME Inv, ProcessHandshakeACK PROVE Inv'
<1> USE DEF ProcessHandshakeACK, queueVars, sendVars, netVars
<1>1. InHand' = InHand /\ High' = current
  BY DEF InHand, High
<1>2. TypeInv' /\ ThreadInv'
  BY DEF Inv, TypeInv, ThreadInv
<1>3. NumberInv'
  BY <1>1, InvInRange DEF Inv, NumberInv
<1>4. SentInv'
  BY <1>1 DEF Inv, SentInv
<1>5. NetInv' /\ WindowInv'
  BY <1>1 DEF Inv, NetInv, WindowInv
<1> QED BY <1>2, <1>3, <1>4, <1>5 DEF Inv

\* The Connection's last ACK is the largest number the queue has sent
LEMMA JoinInv == ASSUME Inv, Join PROVE Inv'
<1> USE DEF Join, netVars
<1>1. hasSendQueue
  BY DEF Inv, ThreadInv
<1>2. ~closed => lastReceivedACK = current
  <2> SUFFICES ASSUME ~closed PROVE lastReceivedACK = current
    OBVIOUS
  <2>1. lastACK = current
    BY DEF Inv, ThreadInv
  <2>2. Dist(lastReceivedACK) = Dist(current)
    BY <1>1, <2>1, InvInRange DEF Inv, NumberInv
  <2> QED BY <2>2, InvInRange, DistIsPosition
<1>3. /\ ~closed => High' = High
      /\ ~hasSendQueue'
  BY <1>1, <1>2 DEF High
<1>4. TypeInv' /\ ThreadInv'
  BY DEF Inv, TypeInv, ThreadInv
<1>5. NumberInv'
  BY <1>3 DEF Inv, NumberInv
<1>6. NetInv'
  BY <1>1, <1>3 DEF Inv, NetInv
<1>7. SentInv' /\ WindowInv'
  BY <1>3 DEF SentInv, WindowInv
<1> QED BY <1>4, <1>5, <1>6, <1>7 DEF Inv

\* The Handshake carries the number after the current one
LEMMA HandshakeInv == ASSUME Inv, Handshake PROVE Inv'
<1> USE DEF Handshake, queueVars, connVars
<1>1. InHand' = InHand /\ High' = High
  BY DEF InHand, High
<1>2. TypeInv' /\ ThreadInv'
  BY DEF Inv, TypeInv, ThreadInv
<1>3. NumberInv'
  BY <1>1, <1>2 DEF Inv, ThreadInv, NumberInv
<1>4. SentInv'
  BY <1>1 DEF Inv, SentInv
<1>5. NetInv' /\ WindowInv'
  BY <1>1 DEF Inv, NetInv, WindowInv
<1> QED BY <1>2, <1>3, <1>4, <1>5 DEF Inv

\* A step that only writes a number that has been given to the wire
LEMMA WriteInv ==
  ASSUME Inv, hasSendQueue,
         NEW seq \in SeqNum, wire' = wire \cup {seq}, Dist(seq) <= Dist(current),
         hasReceivedHandshakeACK, ThreadInv', InHand' = InHand,
         pc' \in {"transmit", "insert", "insertFailed"} =>
                pc \in {"transmit", "insert", "insertFailed"} /\ held' = held,
         UNCHANGED <<queueVars, connVars, received, acks, handshakeSent, losses, cpc>>
  PROVE  Inv'
<1> USE DEF queueVars, connVars
<1>1. High' = High /\ High = current
  BY DEF High
<1>2. TypeInv'
  BY DEF Inv, TypeInv
<1>3. NumberInv'
  BY <1>1 DEF Inv, NumberInv
<1>4. SentInv'
  BY DEF Inv, SentInv
<1>5. NetInv' /\ WindowInv'
  BY <1>1 DEF Inv, NetInv, WindowInv
<1> QED BY <1>2, <1>3, <1>4, <1>5 DEF Inv

\* A number from _naks is only sent again if its packet is kept
LEMMA ResendInv == ASSUME Inv, Resend PROVE Inv'
<1> USE DEF Resend
<1>1. ThreadInv'
  BY DEF Inv, ThreadInv, queueVars, connVars
<1>2. InHand' = InHand
  BY DEF InHand
<1>3. hasSendQueue
  BY DEF Inv, ThreadInv
<1>4. CASE Finds
  <2>1. /\ held \in SeqNum /\ Dist(held) <= Dist(current)
        /\ hasReceivedHandshakeACK
    BY <1>3, <1>4 DEF Finds, Inv, TypeInv, NumberInv, SentInv
  <2> QED BY <1>1, <1>2, <1>3, <1>4, <2>1, WriteInv
<1>5. CASE ~Finds
  BY <1>1, <1>2, <1>5, ControlStep DEF queueVars, connVars
<1> QED BY <1>4, <1>5

\* The queue's thread takes a packet, under its lock
LEMMA TakePacketInv == ASSUME Inv, TakePacket PROVE Inv'
<1> USE DEF TakePacket, connVars, netVars
<1>1. hasSendQueue /\ hasReceivedHandshakeACK
  BY DEF Inv, ThreadInv
<1>2. CASE ~MaySend
  <2>1. ThreadInv'
    BY <1>2 DEF Inv, ThreadInv
  <2> QED BY <1>2, <2>1, ControlStep DEF InHand
<1>3. CASE MaySend
  <2>1. packets > 0 /\ Dist(current) < NumPackets
    BY <1>1, <1>3, InvInRange DEF MaySend, Inv, TypeInv, NumberInv
  <2>2. /\ current' \in SeqNum /\ Dist(current') = Dist(current) + 1
        /\ held' = current' /\ InHand' = {current'} /\ InHand = {}
    BY <1>3, <2>1, InvInRange, PlusOneIsFurther DEF InHand
  <2>3. Dist(current) - Dist(lastACK) + 1 <= flowWindow
    <3>1. Dist(lastACK) <= Dist(current)
      BY <1>1, InvInRange DEF Inv, NumberInv
    <3>2. Seqlen(lastACK, current) = Dist(current) - Dist(lastACK) + 1
      BY <1>1, <3>1, InvInRange, DistIsOrder
    <3> QED BY <1>3, <3>2, InvInRange DEF Inv, TypeInv, MaySend, IsFlowWindowFull
  <2>4. TypeInv'
    BY <1>3, <2>1, <2>2, InvInRange DEF Inv, TypeInv
  <2>5. ThreadInv'
    BY <1>1, <1>3, <2>2 DEF Inv, ThreadInv
  <2>6. NumberInv'
    BY <1>1, <1>3, <2>1, <2>2, InvInRange DEF Inv, NumberInv, High
  <2>7. SentInv'
    <3>1. \A s \in SeqNum : Dist(s) <= Dist(current') =>
                Dist(s) <= Dist(current) \/ s = current'
      BY <1>1, <2>2, InvInRange, DistIsPosition
    <3>2. \A s \in sentPackets : Dist(s) <= Dist(current')
      <4>1. \A s \in sentPackets : s \in SeqNum /\ Dist(s) <= Dist(current)
        BY <1>1 DEF Inv, TypeInv, SentInv
      <4> QED BY <2>2, <4>1, InvInRange, DistIsPosition
    <3> QED BY <1>1, <1>3, <2>2, <3>1, <3>2 DEF Inv, SentInv
  <2>8. NetInv'
    <3>1. \A s \in SeqNum : Dist(s) <= Dist(current) => Dist(s) <= Dist(current')
      BY <2>2, InvInRange, DistIsPosition
    <3> QED BY <1>1, <3>1 DEF Inv, TypeInv, NetInv, High
  <2>9. WindowInv'
    BY <1>3, <2>2, <2>3, InvInRange DEF WindowInv
  <2> QED BY <2>4, <2>5, <2>6, <2>7, <2>8, <2>9 DEF Inv
<1> QED BY <1>2, <1>3

\* The queue's thread writes a packet
LEMMA TransmitInv == ASSUME Inv, Transmit PROVE Inv'
<1> USE DEF Transmit
<1>1. ThreadInv'
  BY DEF Inv, ThreadInv, queueVars, connVars
<1>2. hasSendQueue /\ hasReceivedHandshakeACK
  BY DEF Inv, ThreadInv
<1>3. held = current /\ current \in SeqNum /\ Dist(held) <= Dist(current)
  BY InvInRange DEF Inv, NumberInv
<1>4. InHand' = InHand
  BY DEF InHand
<1> QED BY <1>1, <1>2, <1>3, <1>4, WriteInv

\* A packet whose ACK came before it is in _sentPackets is at the last ACK
LEMMA InsertInv == ASSUME Inv, Insert PROVE Inv'
<1> USE DEF Insert, connVars, netVars
<1>1. hasSendQueue /\ hasReceivedHandshakeACK /\ held = current /\ High' = High
  BY DEF Inv, ThreadInv, NumberInv, High
<1>2. InHand \subseteq sentPackets'
  BY DEF InHand
<1>3. TypeInv'
  BY <1>1 DEF Inv, TypeInv
<1>4. ThreadInv'
  BY DEF Inv, ThreadInv
<1>5. NumberInv'
  BY <1>1 DEF Inv, NumberInv
<1>6. SentInv'
  <2>1. /\ Dist(lastACK) <= Dist(current) /\ Dist(current) <= Dist(current)
        /\ cpc \in {"ackNaks", "ackStore"} => Dist(cAck) <= Dist(current)
    BY <1>1, InvInRange DEF Inv, NumberInv
  <2> QED BY <1>1, <1>2, <2>1 DEF Inv, SentInv
<1>7. NetInv' /\ WindowInv'
  BY <1>1 DEF Inv, NetInv, WindowInv
<1> QED BY <1>3, <1>4, <1>5, <1>6, <1>7 DEF Inv

\* The receiver ACKs a number it has received, or the one before the first
LEMMA ReceiveInv == ASSUME Inv, NEW seq \in Numbers, Receive(seq) PROVE Inv'
<1> USE DEF Receive, queueVars, connVars, sendVars
<1>1. High' = High /\ InHand' = InHand
  BY DEF High, InHand
<1>2. hasReceivedHandshakeACK
  BY DEF Inv, NetInv
<1> DEFINE ack == NextACK(received')
<1>3. ack = Base \/ ack \in received'
  BY AckIsReceived
<1>4. acks' = acks \cup {ack} /\ received' \subseteq received \cup wire
  OBVIOUS
<1> HIDE DEF ack
<1>5. TypeInv'
  BY <1>3, <1>4, DistIsPosition DEF Inv, TypeInv
<1>6. ThreadInv' /\ NumberInv'
  BY <1>1 DEF Inv, ThreadInv, NumberInv
<1>7. SentInv'
  BY <1>1 DEF Inv, SentInv
<1>8. NetInv'
  <2>1. High \in SeqNum /\ Dist(Base) <= Dist(High)
    BY DistIsPosition, InvInRange DEF High
  <2> QED BY <1>1, <1>2, <1>3, <1>4, <2>1 DEF Inv, NetInv
<1>9. WindowInv'
  BY DEF Inv, WindowInv
<1> QED BY <1>5, <1>6, <1>7, <1>8, <1>9 DEF Inv

\* A packet on the wire is lost
LEMMA LoseInv == ASSUME Inv, Lose PROVE Inv'
<1> USE DEF Lose, queueVars, connVars, sendVars
<1>1. High' = High /\ InHand' = InHand /\ wire' \subseteq wire /\ acks' \subseteq acks
  BY DEF High, InHand
<1>2. TypeInv' /\ ThreadInv'
  BY <1>1 DEF Inv, TypeInv, ThreadInv
<1>3. NumberInv' /\ SentInv'
  BY <1>1 DEF Inv, NumberInv, SentInv
<1>4. NetInv' /\ WindowInv'
  BY <1>1 DEF Inv, NetInv, WindowInv
<1> QED BY <1>2, <1>3, <1>4 DEF Inv

\* Every step preserves the invariant
LEMMA NextInv == Inv /\ [Next]_vars => Inv'
<1> SUFFICES ASSUME Inv, [Next]_vars PROVE Inv'
  OBVIOUS
<1>1. CASE Application
  BY <1>1, QueuePacketInv, ConnectionControlInv DEF Application
<1>2. CASE Connection
  BY <1>2, ConnectionControlInv, ProcessACKInv, AckEraseInv, AckStoreInv,
     ProcessHandshakeACKInv, JoinInv DEF Connection
<1>3. CASE SendThread
  BY <1>3, ThreadControlInv, HandshakeInv, ResendInv, TakePacketInv, TransmitInv,
     InsertInv DEF SendThread
<1>4. CASE Network
  BY <1>4, ReceiveInv, LoseInv DEF Network
<1>5. CASE UNCHANGED vars
  <2>1. ThreadInv'
    BY <1>5 DEF Inv, ThreadInv, vars, queueVars, connVars, sendVars
  <2> QED BY <1>5, <2>1, ControlStep DEF InHand, vars, queueVars, connVars, netVars, sendVars
<1> QED BY <1>1, <1>2, <1>3, <1>4, <1>5 DEF Next

\* The invariant holds in every reachable state
THEOREM Invariance == Spec => []Inv
BY InitInv, NextInv, PTL DEF Spec

(***************************************************************************)
(* The theorems                                                            *)
(***************************************************************************)

(***************************************************************************)
(* A packet that has been numbered and not ACKed is in _sentPackets, or is *)
(* being put there (ack() against sendNewPacketAndAddToSentList).          *)
(***************************************************************************)
THEOREM UnackedKept == Spec => []UnackedCanBeResent
<1>1. Inv => UnackedCanBeResent
  <2> SUFFICES ASSUME Inv, hasSendQueue, NEW seq \in Numbers,
                      Lt(lastReceivedACK, seq), Leq(seq, current)
               PROVE  seq \in sentPackets \cup InHand
    BY DEF UnackedCanBeResent
  <2>1. CASE hasReceivedHandshakeACK
    <3>1. seq \in SeqNum /\ Dist(seq) <= NumPackets
      BY <2>1, NumbersAreNext, InvInRange DEF Numbers, Inv, NumberInv
    <3>2. Dist(lastReceivedACK) < Dist(seq) /\ Dist(seq) <= Dist(current)
      BY <3>1, InvInRange, DistIsOrder
    <3> QED BY <3>1, <3>2 DEF Inv, SentInv
  <2>2. CASE ~hasReceivedHandshakeACK
    \* no number is both after and not after the one before the initial
    <3>1. Dist(lastReceivedACK) = Dist(current)
      BY <2>2, InvInRange, DistIsPosition DEF Inv, NumberInv
    <3>2. lastReceivedACK = current
      BY <3>1, InvInRange, DistIsPosition
    <3>3. seq \in Int /\ current \in Int
      BY SequenceNumberAssumption, SendQueueAssumption, InvInRange DEF Numbers, Plus, SeqNum
    <3> QED BY <3>2, <3>3 DEF Lt, Leq, Near
  <2> QED BY <2>1, <2>2
<1> QED BY Invariance, <1>1, PTL

(***************************************************************************)
(* _sentPackets keeps nothing before the last ACK.  The packet of the last *)
(* ACK itself may stay until the next ACK: one that overtakes its packet's *)
(* insertion erases before the packet is there (SendQueue::ack).           *)
(***************************************************************************)
THEOREM NothingStaleKept == Spec => []NoStaleSentPackets
<1>1. Inv => NoStaleSentPackets
  <2> SUFFICES ASSUME Inv, hasSendQueue, NEW seq \in sentPackets PROVE Geq(seq, lastACK)
    BY DEF NoStaleSentPackets
  <2>1. seq \in SeqNum /\ Dist(lastACK) <= Dist(seq) /\ Dist(seq) <= Dist(current)
    BY DEF Inv, TypeInv, SentInv
  <2>2. Dist(seq) \in Nat /\ Dist(seq) <= NumPackets
    BY <2>1, InvInRange, DistIsPosition
  <2> QED BY <2>1, <2>2, InvInRange, DistIsOrder
<1> QED BY Invariance, <1>1, PTL

(***************************************************************************)
(* Whatever numbers _naks holds, only sent ones are on the wire            *)
(* (maybeResendPacket looks each one up in _sentPackets).                  *)
(***************************************************************************)
THEOREM OnlySentOnWire == Spec => []WireHasOnlySent
<1>1. Inv => WireHasOnlySent
  <2> SUFFICES ASSUME Inv, hasSendQueue, NEW seq \in wire PROVE Leq(seq, current)
    BY DEF WireHasOnlySent
  <2>1. seq \in SeqNum /\ Dist(seq) <= Dist(current)
    BY DEF Inv, TypeInv, NetInv, High
  <2>2. Dist(seq) \in Nat /\ Dist(seq) <= NumPackets
    BY <2>1, InvInRange, DistIsPosition
  <2> QED BY <2>1, <2>2, InvInRange, DistIsOrder
<1> QED BY Invariance, <1>1, PTL

(***************************************************************************)
(* processACK's assertion does not fail, and would not if the queue were   *)
(* made again at the last ACK (Connection::getSendQueue).                  *)
(***************************************************************************)
THEOREM AckNotBeyondSent == Spec => []NoAckBeyondSent
<1>1. Inv => NoAckBeyondSent
  <2> SUFFICES ASSUME Inv, hasReceivedHandshakeACK, ~closed, NEW a \in acks
               PROVE  Leq(a, High)
    BY DEF NoAckBeyondSent, High
  <2>1. a \in SeqNum /\ Dist(a) <= Dist(High)
    BY DEF Inv, TypeInv, NetInv
  <2>2. High \in SeqNum /\ Dist(High) \in Nat /\ Dist(High) <= NumPackets
    BY InvInRange DEF High
  <2>3. Dist(a) \in Nat /\ Dist(a) <= NumPackets
    BY <2>1, <2>2, InvInRange, DistIsPosition
  <2> QED BY <2>1, <2>2, <2>3, DistIsOrder
<1> QED BY Invariance, <1>1, PTL

(***************************************************************************)
(* The flow window is kept, though the Connection's thread stores the last *)
(* ACK between isFlowWindowFull and the numbering of the packet.           *)
(***************************************************************************)
THEOREM FlowWindowKept == Spec => []WithinFlowWindow
<1>1. Inv => WithinFlowWindow
  <2> SUFFICES ASSUME Inv, hasSendQueue PROVE Seqlen(lastACK, current) <= flowWindow + 1
    BY DEF WithinFlowWindow
  <2>1. Dist(lastACK) <= Dist(current) /\ Dist(current) - Dist(lastACK) <= flowWindow
    BY InvInRange DEF Inv, NumberInv, WindowInv
  <2>2. Seqlen(lastACK, current) = Dist(current) - Dist(lastACK) + 1
    BY <2>1, InvInRange, DistIsOrder
  <2> QED BY <2>1, <2>2, InvInRange DEF Inv, TypeInv
<1> QED BY Invariance, <1>1, PTL
=============================================================================
