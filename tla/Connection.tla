----------------------------- MODULE Connection -----------------------------
(***************************************************************************)
(* Two udt::Connections, one sending reliable packets and one receiving    *)
(* them, the datagrams between them, and what happens when Socket destroys *)
(* either end and makes it again.  (Both ends of a real connection are     *)
(* both; the two directions share no state.)  It composes the sender of    *)
(* module SendQueue with the receiver of ConnectionReceive, each handler a *)
(* single step: timers are nondeterministic, so any unACKed packet may be  *)
(* sent again at any time, and the loss list is the set it implements.     *)
(*                                                                         *)
(* A datagram that was written may arrive at any time after, out of order  *)
(* and more than once, or never.  One from before the last reset of either *)
(* end is late; nothing in the code keeps it away, so up to MaxLate times  *)
(* one is taken, and fairness never asks for it.                           *)
(***************************************************************************)
EXTENDS SequenceNumber

CONSTANTS
    Initials,       \* initial sequence numbers the sending Connections draw
    MaxPackets,     \* bound: reliable packets the application sends
    MaxCleanups,    \* bound: times the receiving end is destroyed
    FlowWindow,     \* _flowWindowSize
    MaxLate         \* bound: late datagrams that are taken

\* No sequence number in use wraps: operator- is two too low across zero,
\* which the runs of ConnectionReceive and SendQueue show to matter.  And
\* all of them are within half of the ring: of two Connections one's numbers
\* are above the other's, and so of all.
ASSUME ConnectionAssumption ==
    /\ MaxPackets \in Nat /\ MaxPackets + 2 < THRESHOLD
    /\ Initials \subseteq 1 .. MAX - MaxPackets
    /\ MaxCleanups \in Nat
    /\ FlowWindow \in Nat \ {0}
    /\ \A i, j \in Initials : i - j + MaxPackets + 2 < THRESHOLD
    /\ MaxLate \in Nat

VARIABLES
    initialSequenceNumber, used,    \* of the sending Connection, and of all so far
    hasReceivedHandshakeACK,
    hasSendQueue,
    packets,                        \* number of packets not yet numbered
    current, lastReceivedACK, sentPackets,
    hasReceivedHandshake, initialReceiveSequenceNumber,
    lastReceivedSequenceNumber,
    lossList,                       \* as a set
    wire, late,                     \* datagrams since the last reset, and from before
    lateTaken,
    queued,                         \* history: packets given to sendReliablePacket
    delivered, before,              \* history: how often each reached the application,
                                    \* and had when the receiver's state began
    acked, dropped,                 \* history: packets ACKed, packets discarded in a queue
    cleanups

senderVars == <<initialSequenceNumber, used, hasReceivedHandshakeACK, hasSendQueue,
                packets, current, lastReceivedACK, sentPackets, queued, acked, dropped>>
receiverVars == <<hasReceivedHandshake, initialReceiveSequenceNumber,
                  lastReceivedSequenceNumber, lossList, delivered, before, cleanups>>
vars == <<senderVars, receiverVars, wire, late, lateTaken>>

\* Packets are told apart by the order the application sent them in
Payloads == 1 .. MaxPackets

Data == [kind : {"Data"}, seq : SeqNum, payload : Payloads]
Control == [kind : {"ACK", "Handshake", "HandshakeACK"}, seq : SeqNum]
Request == [kind |-> "HandshakeRequest"]

Datagrams == Data \cup Control \cup {Request}

Ctl(kind, seq) == [kind |-> kind, seq |-> seq]

Write(m) == wire' = wire \cup {m} /\ UNCHANGED late

Arrives(m) ==
    \/ m \in wire /\ UNCHANGED lateTaken
    \/ m \in late \ wire /\ lateTaken < MaxLate /\ lateTaken' = lateTaken + 1

\* An end is destroyed or reset: what is on its way is late from now on
AllLate == late' = late \cup wire /\ wire' = {}

Init ==
    /\ initialSequenceNumber \in Initials /\ used = {initialSequenceNumber}
    /\ hasReceivedHandshakeACK = FALSE /\ hasSendQueue = FALSE
    /\ packets = 0 /\ current = 0 /\ lastReceivedACK = 0 /\ sentPackets = {}
    /\ hasReceivedHandshake = FALSE
    /\ initialReceiveSequenceNumber = 0 /\ lastReceivedSequenceNumber = 0 /\ lossList = {}
    /\ wire = {} /\ late = {} /\ lateTaken = 0
    /\ queued = 0 /\ delivered = [p \in Payloads |-> 0] /\ before = delivered /\ acked = {} /\ dropped = {}
    /\ cleanups = 0
-----------------------------------------------------------------------------
(***************************************************************************)
(* The sending Connection                                                  *)
(***************************************************************************)

\* getSendQueue, where current and last ACK are those of the queue there is
\* or of the new one
QueueCurrent ==
    IF hasSendQueue THEN current
    ELSE IF hasReceivedHandshakeACK THEN lastReceivedACK ELSE Minus(initialSequenceNumber, 1)

QueueACK == IF hasSendQueue THEN lastReceivedACK ELSE QueueCurrent

SendReliablePacket ==
    /\ queued < MaxPackets
    /\ queued' = queued + 1 /\ packets' = packets + 1
    /\ hasSendQueue' = TRUE /\ current' = QueueCurrent /\ lastReceivedACK' = QueueACK
    /\ UNCHANGED <<initialSequenceNumber, used, hasReceivedHandshakeACK, sentPackets,
                   acked, dropped, receiverVars, wire, late, lateTaken>>

SendHandshake ==
    /\ hasSendQueue /\ ~hasReceivedHandshakeACK
    /\ Write(Ctl("Handshake", Plus(current, 1)))
    /\ UNCHANGED <<senderVars, receiverVars, lateTaken>>

\* maybeSendNewPacket, with all of isFlowWindowFull
HasPacketUnchecked == TRUE
HasPacket == packets > 0

SendNewPacket ==
    /\ hasSendQueue /\ hasReceivedHandshakeACK
    /\ ~(Seqlen(lastReceivedACK, current) > FlowWindow)
    /\ HasPacket /\ packets' = packets - 1
    /\ current' = Plus(current, 1)
    /\ LET m == [kind |-> "Data", seq |-> Plus(current, 1), payload |-> queued - packets + 1]
       IN  Write(m) /\ sentPackets' = sentPackets \cup {m}
    /\ UNCHANGED <<initialSequenceNumber, used, hasReceivedHandshakeACK, hasSendQueue,
                   lastReceivedACK, queued, acked, dropped, receiverVars, lateTaken>>

\* maybeResendPacket, after a timeout or a fast retransmit
ResendPacketOnce(m) ==
    /\ hasSendQueue /\ hasReceivedHandshakeACK
    /\ m \in sentPackets
    /\ Write(m)
    /\ sentPackets' = sentPackets \ {m}
    /\ UNCHANGED <<initialSequenceNumber, used, hasReceivedHandshakeACK, hasSendQueue,
                   packets, current, lastReceivedACK, queued, acked, dropped, receiverVars,
                   lateTaken>>

ResendPacket(m) ==
    /\ hasSendQueue /\ hasReceivedHandshakeACK
    /\ m \in sentPackets
    /\ Write(m)
    /\ UNCHANGED <<senderVars, receiverVars, lateTaken>>

\* isInactive after five seconds, deactivate, and the queueInactive slot
QueueInactive ==
    /\ hasSendQueue /\ hasReceivedHandshakeACK
    /\ packets = 0 /\ lastReceivedACK = current
    /\ hasSendQueue' = FALSE /\ sentPackets' = {}
    /\ UNCHANGED <<initialSequenceNumber, used, hasReceivedHandshakeACK, packets, current,
                   lastReceivedACK, queued, acked, dropped, receiverVars, wire, late, lateTaken>>

\* processControl, processACK
ProcessACK(ack) ==
    /\ hasReceivedHandshakeACK
    /\ Arrives(Ctl("ACK", ack))
    /\ hasSendQueue' = TRUE /\ current' = QueueCurrent
    /\ IF ~Gt(ack, QueueCurrent) /\ Gt(ack, lastReceivedACK)
       THEN LET gone == {m \in sentPackets : Leq(lastReceivedACK, m.seq) /\ Leq(m.seq, ack)}
            IN  /\ lastReceivedACK' = ack
                /\ sentPackets' = sentPackets \ gone
                /\ acked' = acked \cup {m.payload : m \in gone}
       ELSE UNCHANGED <<lastReceivedACK, sentPackets, acked>>
    /\ UNCHANGED <<initialSequenceNumber, used, hasReceivedHandshakeACK, packets, queued,
                   dropped, receiverVars, wire, late>>

ProcessHandshakeACK(seq) ==
    /\ Arrives(Ctl("HandshakeACK", seq))
    /\ hasSendQueue /\ seq = initialSequenceNumber
    /\ hasReceivedHandshakeACK' = TRUE
    /\ UNCHANGED <<initialSequenceNumber, used, hasSendQueue, packets, current,
                   lastReceivedACK, sentPackets, queued, acked, dropped, receiverVars, wire, late>>

\* stopSendQueue on a queue that may not be done
DiscardSendQueue ==
    /\ hasReceivedHandshakeACK' = FALSE
    /\ hasSendQueue' = FALSE /\ packets' = 0 /\ sentPackets' = {}
    /\ dropped' = 1 .. queued \ acked
    /\ AllLate

\* A HandshakeRequest while active: the other end is likely to have a new
\* Connection
ProcessHandshakeRequest ==
    /\ Arrives(Request)
    /\ hasReceivedHandshakeACK
    /\ DiscardSendQueue
    /\ UNCHANGED <<initialSequenceNumber, used, current, lastReceivedACK, queued, acked, receiverVars>>

\* Socket::cleanupConnection; the next packet makes another Connection,
\* with a random number that was not drawn before
CleanupSender(initial) ==
    /\ initial \notin used
    /\ initialSequenceNumber' = initial /\ used' = used \cup {initial}
    /\ DiscardSendQueue
    /\ current' = 0 /\ lastReceivedACK' = 0
    /\ UNCHANGED <<queued, acked, receiverVars, lateTaken>>
-----------------------------------------------------------------------------
(***************************************************************************)
(* The receiving Connection                                                *)
(***************************************************************************)
\* The numbers from start to end
Run(start, end) == {Plus(start, k) : k \in 0 .. Seqlen(start, end) - 1}

\* A number before all others of the loss list
First(S) == CHOOSE seq \in S : \A other \in S : Leq(seq, other)

NextACKOfFirstLoss(S, last) == IF S # {} THEN First(S) ELSE last

NextACK(S, last) == IF S # {} THEN Minus(First(S), 1) ELSE last

\* What is missing once seq has come, and whether it is new
MissingForever(seq) ==
    IF Gt(seq, Plus(lastReceivedSequenceNumber, 1))
    THEN lossList \cup Run(Plus(lastReceivedSequenceNumber, 1), Minus(seq, 1))
    ELSE lossList

Missing(seq) ==
    IF Gt(seq, Plus(lastReceivedSequenceNumber, 1))
    THEN lossList \cup Run(Plus(lastReceivedSequenceNumber, 1), Minus(seq, 1))
    ELSE lossList \ {seq}

IsNew(seq) == Gt(seq, lastReceivedSequenceNumber) \/ seq \in lossList

\* readPendingDatagrams, processReceivedSequenceNumber
ReceivePacket(m) ==
    /\ Arrives(m)
    /\ hasReceivedHandshake
    /\ LET last == IF Gt(m.seq, lastReceivedSequenceNumber)
                   THEN m.seq ELSE lastReceivedSequenceNumber
       IN  /\ lastReceivedSequenceNumber' = last
           /\ lossList' = Missing(m.seq)
           /\ Write(Ctl("ACK", NextACK(Missing(m.seq), last)))
    /\ delivered' = IF IsNew(m.seq)
                    THEN [delivered EXCEPT ![m.payload] = @ + 1] ELSE delivered
    /\ UNCHANGED <<hasReceivedHandshake, initialReceiveSequenceNumber, before, cleanups, senderVars>>

RefuseWithoutRequest(m) ==
    /\ Arrives(m)
    /\ ~hasReceivedHandshake
    /\ UNCHANGED <<senderVars, receiverVars, wire, late>>

RequestHandshake(m) ==
    /\ Arrives(m)
    /\ ~hasReceivedHandshake
    /\ Write(Request)
    /\ UNCHANGED <<senderVars, receiverVars>>

ProcessHandshake(initial) ==
    /\ Arrives(Ctl("Handshake", initial))
    /\ IF ~hasReceivedHandshake \/ initial # initialReceiveSequenceNumber
       THEN /\ initialReceiveSequenceNumber' = initial
            /\ lastReceivedSequenceNumber' = Minus(initial, 1)
            /\ lossList' = {} /\ before' = delivered
       ELSE UNCHANGED <<initialReceiveSequenceNumber, lastReceivedSequenceNumber, lossList, before>>
    /\ hasReceivedHandshake' = TRUE
    /\ Write(Ctl("HandshakeACK", initial))
    /\ UNCHANGED <<delivered, cleanups, senderVars>>

\* Socket::cleanupConnection; the next datagram makes another Connection
CleanupReceiver ==
    /\ cleanups < MaxCleanups /\ cleanups' = cleanups + 1
    /\ hasReceivedHandshake' = FALSE
    /\ initialReceiveSequenceNumber' = 0 /\ lastReceivedSequenceNumber' = 0 /\ lossList' = {}
    /\ before' = delivered
    /\ AllLate
    /\ UNCHANGED <<delivered, senderVars, lateTaken>>
-----------------------------------------------------------------------------
Receive ==
    \/ \E seq \in SeqNum :
            ProcessACK(seq) \/ ProcessHandshakeACK(seq) \/ ProcessHandshake(seq)
    \/ ProcessHandshakeRequest
    \/ \E m \in Data : ReceivePacket(m) \/ RequestHandshake(m)

Next ==
    \/ SendReliablePacket \/ SendHandshake \/ SendNewPacket
    \/ \E m \in Data : ResendPacket(m)
    \/ QueueInactive
    \/ Receive
    \/ \E initial \in Initials : CleanupSender(initial)
    \/ CleanupReceiver

Spec == Init /\ [][Next]_vars

(***************************************************************************)
(* The queue's thread keeps running, and what is sent again and again      *)
(* arrives at some time.  Nothing is assumed of the application, of        *)
(* cleanups, of late datagrams, or of the inactivity timer.                *)
(***************************************************************************)
Fairness ==
    /\ WF_vars(SendHandshake) /\ WF_vars(SendNewPacket)
    /\ \A m \in Data : WF_vars(ResendPacket(m)) /\ WF_vars(m \in wire /\ ReceivePacket(m))
    /\ WF_vars(\E m \in Data : m \in wire /\ RequestHandshake(m))
    /\ WF_vars(Request \in wire /\ ProcessHandshakeRequest)
    /\ \A seq \in SeqNum :
            /\ WF_vars(Ctl("Handshake", seq) \in wire /\ ProcessHandshake(seq))
            /\ WF_vars(Ctl("HandshakeACK", seq) \in wire /\ ProcessHandshakeACK(seq))
            /\ WF_vars(Ctl("ACK", seq) \in wire /\ ProcessACK(seq))

FairSpec == Spec /\ Fairness
-----------------------------------------------------------------------------
TypeOK ==
    /\ initialSequenceNumber \in Initials /\ used \subseteq Initials
    /\ hasReceivedHandshakeACK \in BOOLEAN /\ hasSendQueue \in BOOLEAN
    /\ current \in SeqNum /\ lastReceivedACK \in SeqNum
    /\ hasReceivedHandshake \in BOOLEAN
    /\ initialReceiveSequenceNumber \in SeqNum /\ lastReceivedSequenceNumber \in SeqNum
    /\ sentPackets \subseteq Data /\ lossList \subseteq SeqNum
    /\ wire \subseteq Datagrams /\ late \subseteq Datagrams /\ lateTaken \in 0 .. MaxLate
    /\ queued \in 0 .. MaxPackets /\ packets \in 0 .. queued
    /\ delivered \in [Payloads -> Nat] /\ before \in [Payloads -> Nat]
    /\ acked \subseteq Payloads /\ dropped \subseteq Payloads
    /\ cleanups \in 0 .. MaxCleanups

(***************************************************************************)
(* No packet reaches the application twice on one handshake, however it is *)
(* repeated or delayed by the network or sent again after a timeout, and   *)
(* whatever comes of other Connections.  Nor on two, when a receiver has   *)
(* lost its state, unless a late datagram was taken: a late Handshake      *)
(* starts the receiver again at numbers it has had, and their packets are  *)
(* then new once more.                                                     *)
(***************************************************************************)
DeliveredAtMostOnce ==
    \A p \in Payloads :
        /\ delivered[p] <= before[p] + 1
        /\ lateTaken = 0 => delivered[p] <= 1

(***************************************************************************)
(* What the sender forgets because an ACK covers it has been delivered,    *)
(* unless a late datagram was taken: after a HandshakeRequest the sender   *)
(* numbers from the same initial number again, so a packet from before it  *)
(* is taken for one after it, and its ACK covers that one.                 *)
(***************************************************************************)
AckedWasDelivered == lateTaken = 0 => \A p \in acked : delivered[p] > 0

(***************************************************************************)
(* The queue can still send every packet it numbered and that is not       *)
(* ACKed, whatever ACK, HandshakeACK or HandshakeRequest comes late.       *)
(***************************************************************************)
UnackedCanBeResent ==
    hasSendQueue =>
        {m.seq : m \in sentPackets} =
            {seq \in SeqNum : Gt(seq, lastReceivedACK) /\ Leq(seq, current)}

(***************************************************************************)
(* Every packet is ACKed in the end, or discarded because an end was       *)
(* destroyed, unless a late datagram is taken: a sender whose peer has a   *)
(* new Connection finds out and starts again, and no handshake is awaited  *)
(* forever.                                                                *)
(***************************************************************************)
EveryPacketSettled ==
    \A p \in Payloads : queued >= p ~> p \in acked \cup dropped \/ lateTaken > 0
=============================================================================
