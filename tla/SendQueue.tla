----------------------------- MODULE SendQueue -----------------------------
(***************************************************************************)
(* udt::SendQueue and the part of udt::Connection that drives it.  The     *)
(* queue's own thread (pc: run, maybeResendPacket, maybeSendNewPacket,     *)
(* isInactive) and the Connection's thread (cpc: queuePacket, ack,         *)
(* fastRetransmit, stop) interleave between any two lock regions or atomic *)
(* accesses.  Packets differ only by their sequence numbers; the receiver  *)
(* is the set of numbers it has got and the ACKs it has sent for them.     *)
(***************************************************************************)
EXTENDS LossList

CONSTANTS
    Initial,        \* Connection::_initialSequenceNumber
    NumPackets,     \* bound: reliable packets the application sends
    FlowWindows,    \* the windows the congestion control may give it
    MaxLosses       \* bound: datagrams the network drops, writes that fail

ASSUME SendQueueAssumption ==
    /\ Initial \in SeqNum
    /\ NumPackets \in Nat /\ NumPackets + 2 < THRESHOLD
    /\ FlowWindows \subseteq Nat \ {0}
    /\ MaxLosses \in Nat

VARIABLES
    pc, cpc,                    \* where the two threads are
    hasSendQueue,               \* Connection::_sendQueue is not null
    state,                      \* _state
    hasReceivedHandshakeACK,    \* of the queue and of the Connection
    packets,                    \* number of packets in _packets
    current,                    \* _currentSequenceNumber
    lastACK,                    \* _lastACKSequenceNumber
    naks,                       \* _naks
    sentPackets,                \* keys of _sentPackets
    attempted, signalled,       \* attemptedToSendPacket; a notify reached a waiter
    held,                       \* the number maybeResend/SendNewPacket works on
    lastReceivedACK, cAck,      \* of the Connection; the ACK it is processing
    inactivePosted,             \* a queueInactive signal is in its event queue
    closed,                     \* the Connection is being destroyed
    flowWindow,                 \* _flowWindowSize, the same throughout
    queued,                     \* history: packets given to sendReliablePacket
    wire, received, acks,       \* datagrams on their way, numbers received
    handshakeSent,
    losses

queueVars == <<state, packets, current, lastACK, naks, sentPackets>>
connVars == <<hasSendQueue, hasReceivedHandshakeACK, lastReceivedACK, cAck, inactivePosted, closed,
             flowWindow, queued>>
netVars == <<wire, received, acks, handshakeSent, losses>>
sendVars == <<pc, attempted, held>>
vars == <<queueVars, connVars, netVars, sendVars, cpc, signalled>>

None == -1

\* The queue's thread is asleep on one of its condition variables
Waiting == pc \in {"waitHandshake", "waitIdle", "waitACK"}

\* ... or in isInactive, holding the locks of _packets and _naks
Locked == pc \in {"empty", "parkIdle", "parkACK", "stuck", "timedOut"}

Notify == signalled' = (signalled \/ Waiting)

IsFlowWindowFullOffByOne == Seqlen(lastACK, current) > flowWindow + 1

IsFlowWindowFull == Seqlen(lastACK, current) > flowWindow

\* _packets.isEmpty() || isFlowWindowFull(), with _naks.isEmpty()
NothingToSend == (packets = 0 \/ IsFlowWindowFull) /\ naks.length = 0

Numbers == {Plus(Initial, k) : k \in 0 .. NumPackets - 1}

\* Every ACK there can be
AckNumbers == Numbers \cup {Minus(Initial, 1)}

\* What the receiver ACKs: the number before the first it misses
NextACK(got) ==
    LET n == CHOOSE k \in 0 .. NumPackets :
                /\ \A i \in 0 .. k - 1 : Plus(Initial, i) \in got
                /\ k < NumPackets => Plus(Initial, k) \notin got
    IN  IF n = 0 THEN Minus(Initial, 1) ELSE Plus(Initial, n - 1)

Init ==
    /\ pc = "none" /\ cpc = "idle"
    /\ hasSendQueue = FALSE /\ state = "NotStarted"
    /\ hasReceivedHandshakeACK = FALSE
    /\ packets = 0 /\ naks = EmptyList /\ sentPackets = {}
    /\ current = 0 /\ lastACK = 0 /\ lastReceivedACK = 0
    /\ attempted = FALSE /\ signalled = FALSE /\ held = None /\ cAck = None
    /\ inactivePosted = FALSE /\ closed = FALSE /\ queued = 0 /\ flowWindow \in FlowWindows
    /\ wire = {} /\ received = {} /\ acks = {} /\ handshakeSent = FALSE
    /\ losses = 0
-----------------------------------------------------------------------------
(***************************************************************************)
(* The Connection's thread                                                 *)
(***************************************************************************)

\* getSendQueue: a queue made before the handshake starts one before the
\* initial sequence number, a later one at the last ACK received
FirstCurrentAlwaysInitial == Minus(Initial, 1)

FirstCurrent == IF hasReceivedHandshakeACK THEN lastReceivedACK ELSE Minus(Initial, 1)

\* The new queue, whose thread starts in run(), holding n packets
CreateSendQueue(n) ==
    /\ hasSendQueue' = TRUE
    /\ state' = "NotStarted" /\ pc' = "start"
    /\ current' = FirstCurrent /\ lastACK' = FirstCurrent /\ lastReceivedACK' = FirstCurrent
    /\ packets' = n /\ naks' = EmptyList /\ sentPackets' = {}
    /\ attempted' = FALSE /\ held' = None /\ signalled' = FALSE

\* sendReliablePacket: getSendQueue().queuePacket(), up to its notify_one
QueuePacket ==
    /\ cpc = "idle" /\ ~closed /\ queued < NumPackets
    /\ ~Locked
    /\ queued' = queued + 1
    /\ cpc' = "notify"
    /\ IF hasSendQueue
       THEN /\ packets' = packets + 1
            /\ UNCHANGED <<hasSendQueue, state, current, lastACK, lastReceivedACK, naks,
                           sentPackets, signalled, sendVars>>
       ELSE CreateSendQueue(1)
    /\ UNCHANGED <<hasReceivedHandshakeACK, cAck, inactivePosted, closed, flowWindow, netVars>>

\* The notify_one that ends queuePacket and fastRetransmit
NotifyEmptyCondition ==
    /\ cpc = "notify"
    /\ Notify
    /\ cpc' = "idle"
    /\ UNCHANGED <<queueVars, connVars, netVars, sendVars>>

\* processControl, processACK: dropped before the handshake, above the
\* largest number sent (assertion), or below the last ACK; getSendQueue
\* makes a queue first when there is none
ProcessACK(a) ==
    /\ cpc = "idle" /\ ~closed
    /\ a \in acks /\ acks' = acks \ {a}
    /\ IF hasSendQueue \/ ~hasReceivedHandshakeACK
       THEN /\ UNCHANGED <<hasSendQueue, queueVars, sendVars, signalled>>
            /\ IF ~hasReceivedHandshakeACK \/ Gt(a, current) \/ Lt(a, lastReceivedACK)
               THEN UNCHANGED <<cpc, cAck, lastReceivedACK>>
               ELSE /\ cAck' = a /\ lastReceivedACK' = a
                    /\ cpc' = IF Gt(a, lastReceivedACK) THEN "ackErase" ELSE "duplicate"
       ELSE /\ CreateSendQueue(0)
            /\ IF a = lastReceivedACK
               THEN cAck' = a /\ cpc' = "duplicate"
               ELSE UNCHANGED <<cAck, cpc>>
    /\ UNCHANGED <<hasReceivedHandshakeACK, inactivePosted, closed, flowWindow, queued,
                   wire, received, handshakeSent, losses>>

\* ack(): under _sentLock, from the last ACK (included) to this one
ErasesWithNext(s) == Leq(lastACK, s) /\ Leq(s, Plus(cAck, 1))
ErasesWithoutLast(s) == Gt(s, lastACK) /\ Leq(s, cAck)
Erases(s) == Leq(lastACK, s) /\ Leq(s, cAck)

AckErase ==
    /\ cpc = "ackErase"
    /\ sentPackets' = {s \in sentPackets : ~Erases(s)}
    /\ cpc' = "ackNaks"
    /\ UNCHANGED <<state, packets, current, lastACK, naks, connVars, netVars, sendVars, signalled>>

\* ... under _naksLock
AckNaks ==
    /\ cpc = "ackNaks" /\ ~Locked
    /\ naks' = IF naks.length > 0 /\ Leq(FirstOf(naks), cAck)
               THEN RemoveRange(naks, FirstOf(naks), cAck) ELSE naks
    /\ cpc' = "ackStore"
    /\ UNCHANGED <<state, packets, current, lastACK, sentPackets, connVars, netVars, sendVars, signalled>>

AckStore ==
    /\ cpc = "ackStore"
    /\ lastACK' = cAck
    /\ cpc' = "ackNotify"
    /\ UNCHANGED <<state, packets, current, naks, sentPackets, connVars, netVars, sendVars, signalled>>

AckNotify ==
    /\ cpc = "ackNotify"
    /\ Notify
    /\ cpc' = "congestion"
    /\ UNCHANGED <<queueVars, connVars, netVars, sendVars>>

\* TCPVegasCC::onACK may ask for ack + 1 again: if that was sent and has
\* timed out, or when it counts three duplicates, whether ack + 1 was sent
\* or not
FastRetransmit ==
    /\ cpc = "duplicate" \/ (cpc = "congestion" /\ Plus(cAck, 1) \in sentPackets)
    /\ ~Locked
    /\ naks' = InsertRange(naks, Plus(cAck, 1), Plus(cAck, 1))
    /\ cpc' = "notify"
    /\ UNCHANGED <<state, packets, current, lastACK, sentPackets, connVars, netVars, sendVars, signalled>>

NoFastRetransmit ==
    /\ cpc \in {"duplicate", "congestion"}
    /\ cpc' = "idle"
    /\ UNCHANGED <<queueVars, connVars, netVars, sendVars, signalled>>

\* processHandshakeACK
ProcessHandshakeACK ==
    /\ cpc = "idle" /\ ~closed
    /\ hasSendQueue /\ handshakeSent /\ ~hasReceivedHandshakeACK
    /\ hasReceivedHandshakeACK' = TRUE
    /\ Notify
    /\ UNCHANGED <<queueVars, sendVars, cpc, hasSendQueue, lastReceivedACK, cAck,
                   inactivePosted, closed, flowWindow, queued, netVars>>

\* stopSendQueue up to the wait for the thread: stop()
RequestStop ==
    /\ state' = "Stopped"
    /\ Notify
    /\ cpc' = "join"
    /\ UNCHANGED <<packets, current, lastACK, naks, sentPackets, sendVars, netVars>>

\* The queueInactive slot
QueueInactive ==
    /\ cpc = "idle" /\ inactivePosted
    /\ inactivePosted' = FALSE
    /\ IF hasSendQueue
       THEN RequestStop
       ELSE UNCHANGED <<queueVars, sendVars, netVars, cpc, signalled>>
    /\ UNCHANGED <<hasSendQueue, hasReceivedHandshakeACK, lastReceivedACK, cAck, closed, flowWindow, queued>>

\* ~Connection, from Socket::cleanupConnection or clearConnections
Close ==
    /\ cpc = "idle" /\ ~closed
    /\ closed' = TRUE
    /\ IF hasSendQueue
       THEN RequestStop
       ELSE UNCHANGED <<queueVars, sendVars, netVars, cpc, signalled>>
    /\ UNCHANGED <<hasSendQueue, hasReceivedHandshakeACK, lastReceivedACK, cAck, inactivePosted,
                   flowWindow, queued>>

\* sendQueueThread->wait() returns; the queue and all it held are gone
Join ==
    /\ cpc = "join" /\ pc = "done"
    /\ hasSendQueue' = FALSE
    /\ pc' = "none" /\ packets' = 0 /\ naks' = EmptyList /\ sentPackets' = {}
    /\ signalled' = FALSE
    /\ cpc' = "idle"
    /\ UNCHANGED <<state, current, lastACK, attempted, held, hasReceivedHandshakeACK,
                   lastReceivedACK, cAck, inactivePosted, closed, flowWindow, queued, netVars>>

-----------------------------------------------------------------------------
(***************************************************************************)
(* The queue's own thread                                                  *)
(***************************************************************************)

\* run() tests _state ...
Run ==
    /\ pc = "start"
    /\ pc' = IF state = "Stopped" THEN "done" ELSE "starting"
    /\ UNCHANGED <<queueVars, attempted, held, connVars, netVars, cpc, signalled>>

\* ... and sets it: a stop() between the two is overwritten
SetRunning ==
    /\ pc = "starting"
    /\ state' = "Running" /\ pc' = "handshake"
    /\ UNCHANGED <<packets, current, lastACK, naks, sentPackets, attempted, held,
                   connVars, netVars, cpc, signalled>>

\* The handshake loop's test and sendHandshake, up to its wait_for; the
\* Handshake carries current + 1
HandshakeWithoutState ==
    /\ pc = "handshake"
    /\ IF ~hasReceivedHandshakeACK
       THEN /\ handshakeSent' = (handshakeSent \/ Plus(current, 1) = Initial)
            /\ pc' = "waitHandshake"
       ELSE pc' = "loop" /\ UNCHANGED handshakeSent
    /\ UNCHANGED <<queueVars, connVars, wire, received, acks, losses, attempted, held, cpc, signalled>>

Handshake ==
    /\ pc = "handshake"
    /\ IF state = "Running" /\ ~hasReceivedHandshakeACK
       THEN /\ handshakeSent' = (handshakeSent \/ Plus(current, 1) = Initial)
            /\ pc' = "waitHandshake"
       ELSE pc' = "loop" /\ UNCHANGED handshakeSent
    /\ UNCHANGED <<queueVars, connVars, wire, received, acks, losses, attempted, held, cpc, signalled>>

\* 100 ms have passed or handshakeACK or stop has notified
WakeHandshake ==
    /\ pc = "waitHandshake"
    /\ pc' = "handshake" /\ signalled' = FALSE
    /\ UNCHANGED <<queueVars, connVars, netVars, attempted, held, cpc>>

\* while (_state == State::Running)
Loop ==
    /\ pc = "loop"
    /\ pc' = IF state = "Running" THEN "resend" ELSE "done"
    /\ attempted' = FALSE
    /\ UNCHANGED <<queueVars, connVars, netVars, held, cpc, signalled>>

\* maybeResendPacket: take the first number of _naks, under _naksLock
PopNak ==
    /\ pc = "resend"
    /\ IF naks.length > 0
       THEN held' = FirstOf(naks) /\ naks' = PopFirst(naks) /\ pc' = "lookup"
       ELSE pc' = "new" /\ UNCHANGED <<held, naks>>
    /\ UNCHANGED <<state, packets, current, lastACK, sentPackets, attempted,
                   connVars, netVars, cpc, signalled>>

\* ... send it again if it is still in _sentPackets, or try the next one
FindsUnchecked == TRUE
Finds == held \in sentPackets

Resend ==
    /\ pc = "lookup"
    /\ IF Finds
       THEN wire' = wire \cup {held} /\ attempted' = TRUE /\ pc' = "events"
       ELSE pc' = "resend" /\ UNCHANGED <<wire, attempted>>
    /\ held' = None
    /\ UNCHANGED <<queueVars, connVars, received, acks, handshakeSent, losses, cpc, signalled>>

\* maybeSendNewPacket: number and take a packet if the window allows
MaySend == ~IsFlowWindowFull /\ packets > 0

TakePacket ==
    /\ pc = "new"
    /\ IF MaySend
       THEN /\ current' = Plus(current, 1) /\ held' = Plus(current, 1)
            /\ packets' = packets - 1
            /\ attempted' = TRUE /\ pc' = "transmit"
       ELSE pc' = "events" /\ UNCHANGED <<current, held, packets, attempted>>
    /\ UNCHANGED <<state, lastACK, naks, sentPackets, connVars, netVars, cpc, signalled>>

\* sendNewPacketAndAddToSentList: the packet is on the wire before it is
\* in _sentPackets, so its ACK can come in between
Transmit ==
    /\ pc = "transmit"
    /\ wire' = wire \cup {held}
    /\ pc' = "insert"
    /\ UNCHANGED <<queueVars, connVars, received, acks, handshakeSent, losses, attempted, held, cpc, signalled>>

TransmitFails ==
    /\ pc = "transmit"
    /\ losses < MaxLosses /\ losses' = losses + 1
    /\ pc' = "insertFailed"
    /\ UNCHANGED <<queueVars, connVars, wire, received, acks, handshakeSent, attempted, held, cpc, signalled>>

Insert ==
    /\ pc \in {"insert", "insertFailed"}
    /\ sentPackets' = sentPackets \cup {held}
    /\ IF pc = "insert"
       THEN pc' = "events" /\ held' = None
       ELSE pc' = "appendNak" /\ UNCHANGED held
    /\ UNCHANGED <<state, packets, current, lastACK, naks, attempted, connVars, netVars, cpc, signalled>>

AppendNak ==
    /\ pc = "appendNak"
    /\ naks' = AppendOne(naks, held)
    /\ held' = None /\ pc' = "events"
    /\ UNCHANGED <<state, packets, current, lastACK, sentPackets, attempted, connVars, netVars, cpc, signalled>>

\* The end of run()'s loop: isInactive only looks further when nothing was sent
EndLoop ==
    /\ pc = "events"
    /\ pc' = IF state # "Running" THEN "done" ELSE IF attempted THEN "loop" ELSE "inactive"
    /\ UNCHANGED <<queueVars, connVars, netVars, attempted, held, cpc, signalled>>

\* isInactive takes both locks ...
CheckInactive ==
    /\ pc = "inactive"
    /\ pc' = IF NothingToSend THEN "empty" ELSE "loop"
    /\ UNCHANGED <<queueVars, connVars, netVars, attempted, held, cpc, signalled>>

\* ... and decides what to wait for
ChooseWait ==
    /\ pc = "empty"
    /\ pc' = IF lastACK = current THEN "parkIdle" ELSE "parkACK"
    /\ UNCHANGED <<queueVars, connVars, netVars, attempted, held, cpc, signalled>>

\* wait_for: notifications are only seen from here on
Park ==
    /\ pc \in {"parkIdle", "parkACK"}
    /\ pc' = IF pc = "parkIdle" THEN "waitIdle" ELSE "waitACK"
    /\ signalled' = FALSE
    /\ UNCHANGED <<queueVars, connVars, netVars, attempted, held, cpc>>

WakeNotified ==
    /\ pc \in {"waitIdle", "waitACK"} /\ signalled
    /\ pc' = "loop" /\ signalled' = FALSE
    /\ UNCHANGED <<queueVars, connVars, netVars, attempted, held, cpc>>

\* 5 seconds without a notification, or with one that came too early
IdleTimeout ==
    /\ pc = "waitIdle"
    /\ pc' = IF NothingToSend THEN "deactivate" ELSE "loop"
    /\ signalled' = FALSE
    /\ UNCHANGED <<queueVars, connVars, netVars, attempted, held, cpc>>

\* The estimated timeout has passed, since the wait or since the last send,
\* and the locks are held again
AckTimeout ==
    /\ pc = "waitACK"
    /\ pc' = IF NothingToSend THEN "stuck" ELSE "loop"
    /\ signalled' = FALSE
    /\ UNCHANGED <<queueVars, connVars, netVars, attempted, held, cpc>>

\* _lastACKSequenceNumber is loaded once to see whether all is ACKed ...
CheckStuck ==
    /\ pc = "stuck"
    /\ pc' = IF Lt(lastACK, current) THEN "timedOut" ELSE "loop"
    /\ UNCHANGED <<queueVars, connVars, netVars, attempted, held, cpc, signalled>>

\* ... and once more for the range that is asked for again.  (The timeout
\* signal that follows only concerns the congestion control.)
NaksWithoutTimeout == naks
NaksAfterTimeout == AppendRange(naks, Plus(lastACK, 1), current)

AppendUnacked ==
    /\ pc = "timedOut"
    /\ naks' = NaksAfterTimeout
    /\ pc' = "loop"
    /\ UNCHANGED <<state, packets, current, lastACK, sentPackets, connVars, netVars,
                   attempted, held, cpc, signalled>>

\* deactivate, with the locks released
EmitInactive ==
    /\ pc = "deactivate"
    /\ inactivePosted' = TRUE
    /\ pc' = "stopping"
    /\ UNCHANGED <<queueVars, hasSendQueue, hasReceivedHandshakeACK, lastReceivedACK, cAck,
                   closed, flowWindow, queued, netVars, attempted, held, cpc, signalled>>

Deactivate ==
    /\ pc = "stopping"
    /\ state' = "Stopped" /\ pc' = "done"
    /\ UNCHANGED <<packets, current, lastACK, naks, sentPackets, connVars, netVars,
                   attempted, held, cpc, signalled>>
-----------------------------------------------------------------------------
(***************************************************************************)
(* The network and the receiver                                            *)
(***************************************************************************)
Receive(seq) ==
    /\ seq \in wire
    /\ wire' = wire \ {seq}
    /\ received' = received \cup {seq}
    /\ acks' = acks \cup {NextACK(received')}
    /\ UNCHANGED <<queueVars, connVars, sendVars, handshakeSent, losses, cpc, signalled>>

Lose ==
    /\ losses < MaxLosses /\ losses' = losses + 1
    /\ \/ \E seq \in wire : wire' = wire \ {seq} /\ UNCHANGED acks
       \/ \E a \in acks : acks' = acks \ {a} /\ UNCHANGED wire
    /\ UNCHANGED <<queueVars, connVars, sendVars, received, handshakeSent, cpc, signalled>>
-----------------------------------------------------------------------------
Application == QueuePacket \/ Close

Connection ==
    \/ NotifyEmptyCondition
    \/ \E a \in AckNumbers : ProcessACK(a)
    \/ AckErase \/ AckNaks \/ AckStore \/ AckNotify
    \/ FastRetransmit \/ NoFastRetransmit
    \/ ProcessHandshakeACK \/ QueueInactive \/ Join

SendThread ==
    \/ Run \/ SetRunning \/ Handshake \/ WakeHandshake \/ Loop \/ PopNak \/ Resend
    \/ TakePacket \/ Transmit \/ TransmitFails \/ Insert \/ AppendNak
    \/ EndLoop \/ CheckInactive \/ ChooseWait \/ Park \/ WakeNotified \/ IdleTimeout
    \/ AckTimeout \/ CheckStuck \/ AppendUnacked
    \/ EmitInactive \/ Deactivate

Network == (\E seq \in Numbers : Receive(seq)) \/ Lose

Next == Application \/ Connection \/ SendThread \/ Network

Spec == Init /\ [][Next]_vars

(***************************************************************************)
(* Both threads keep running.  The Connection's gets the locks in the end  *)
(* that the queue's thread releases when it waits, hence strong fairness;  *)
(* in which order it takes datagrams and signals is left open.  What is on *)
(* the wire arrives unless it is one of the MaxLosses dropped ones.  The   *)
(* application owes nothing.                                               *)
(***************************************************************************)
Fairness ==
    /\ WF_vars(SendThread)
    /\ SF_vars(Connection)
    /\ \A seq \in Numbers : WF_vars(Receive(seq))

FairSpec == Spec /\ Fairness
-----------------------------------------------------------------------------
\* The number of a packet the queue's thread has taken but not yet stored
InHand == IF pc \in {"transmit", "insert", "insertFailed"} THEN {held} ELSE {}

(***************************************************************************)
(* A packet that has been numbered and not ACKed can be sent again: it is  *)
(* in _sentPackets, or the queue's thread is about to put it there.  This  *)
(* is what lets a packet be lost on the wire, whichever way ack() and      *)
(* sendNewPacketAndAddToSentList overlap.                                  *)
(***************************************************************************)
UnackedCanBeResent ==
    hasSendQueue =>
        {seq \in Numbers : Lt(lastReceivedACK, seq) /\ Leq(seq, current)}
            \subseteq sentPackets \cup InHand

(***************************************************************************)
(* _sentPackets does not grow without bound: an ACK that overtakes the     *)
(* insertion of its packet leaves one entry, at the last ACK, and the next *)
(* ACK, whose loop starts there, removes it.                               *)
(***************************************************************************)
NoStaleSentPackets ==
    hasSendQueue => \A seq \in sentPackets : Geq(seq, lastACK)

(***************************************************************************)
(* Nothing is on the wire that the queue never sent, though the loss list  *)
(* may name such a number: the third duplicate of an ACK asks for the one  *)
(* after it even when there is none.                                       *)
(***************************************************************************)
WireHasOnlySent ==
    hasSendQueue => \A seq \in wire : Leq(seq, current)

(***************************************************************************)
(* Connection::processACK's assertion, "ACK received higher than largest   *)
(* sent sequence number", never fires, nor would it in the queue the next  *)
(* ACK or packet would make.                                               *)
(***************************************************************************)
NoAckBeyondSent ==
    hasReceivedHandshakeACK /\ ~closed =>
        \A a \in acks : Leq(a, IF hasSendQueue THEN current ELSE lastReceivedACK)

(***************************************************************************)
(* SendQueue never has more unACKed packets on their way than the window   *)
(* allows, though lastACK changes under the check.                         *)
(***************************************************************************)
WithinFlowWindow ==
    hasSendQueue => Seqlen(lastACK, current) <= flowWindow + 1

(***************************************************************************)
(* "Range start greater than range end": the assertion of LossList::append *)
(* and insert holds of every range of _naks.                               *)
(***************************************************************************)
NaksInOrder ==
    \A i \in 1 .. Len(naks.ranges) : Leq(naks.ranges[i].first, naks.ranges[i].second)

(***************************************************************************)
(* The SendQueue of a Connection that closes, or whose queue went          *)
(* inactive, comes down: stopSendQueue waits for its thread, on the thread *)
(* that serves every other connection.  Except for a stop that comes while *)
(* run() is between its test of _state and its assignment, or once an      *)
(* inverted range keeps maybeResendPacket in its loop.                     *)
(***************************************************************************)
StopCompletes ==
    cpc = "join" /\ state = "Stopped" /\ pc # "starting" ~> cpc # "join" \/ ~NaksInOrder

(***************************************************************************)
(* "wait on the send queue thread so we know the send queue is gone"       *)
(* (Connection::stopSendQueue): the wait ends.                             *)
(***************************************************************************)
WaitEnds == cpc = "join" ~> cpc # "join"

(***************************************************************************)
(* Every reliable packet given to a queue is eventually ACKed, unless the  *)
(* queue is stopped or an inverted range in _naks holds its thread:        *)
(* whatever is lost, and however the two threads miss each other's         *)
(* notifications, the queue empties or comes down.                         *)
(***************************************************************************)
QueueDrains ==
    hasSendQueue /\ (packets > 0 \/ lastReceivedACK # current)
        ~> \/ cpc = "join" \/ ~hasSendQueue \/ ~NaksInOrder
           \/ packets = 0 /\ lastReceivedACK = current

(***************************************************************************)
(* "SendQueue ... has been empty for 5 seconds and receiver has ACKed all  *)
(* packets": what isInactive says (SendQueue.cpp) of the queue it stops,   *)
(* at the moment the Connection destroys it.                               *)
(***************************************************************************)
InactiveQueueIsEmpty ==
    cpc = "join" /\ ~closed => packets = 0 /\ lastACK = current
=============================================================================
