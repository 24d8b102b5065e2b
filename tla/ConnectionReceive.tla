-------------------------- MODULE ConnectionReceive --------------------------
(***************************************************************************)
(* The receiving half of udt::Connection: the handshake, the record of     *)
(* missing packets, the ACK sent for every packet, and the reassembly of   *)
(* ordered messages (PendingReceivedMessage) up to Socket's message        *)
(* handler.  All of it runs on the Socket's thread, one datagram at a time.*)
(*                                                                         *)
(* The peer sends the packets of Plan with consecutive sequence numbers    *)
(* after its initial one; the network may lose, repeat and reorder them,   *)
(* so any of them may arrive next.  Packets of an earlier use of the same  *)
(* initial sequence number are not replayed here (module Connection does). *)
(***************************************************************************)
EXTENDS LossList, Functions

CONSTANTS
    Plan,       \* packets the peer sends: <<[msg, part, last], ...>>
    Initials,   \* initial sequence numbers a peer's Connection may have drawn
    MaxResets   \* bound: resets of the receive state

ASSUME ReceiveAssumption ==
    /\ Initials \subseteq SeqNum
    /\ Plan \in Seq([msg : Nat, part : Nat, last : BOOLEAN])
    /\ Len(Plan) + 1 < THRESHOLD
    /\ MaxResets \in Nat

Offsets == 1 .. Len(Plan)
Messages == {Plan[i].msg : i \in Offsets}
PartsOf(m) == {i \in Offsets : Plan[i].msg = m}

\* A message's parts are numbered from 0, once each, and the last one is marked
\* (PacketList::preparePackets)
ASSUME PlanAssumption ==
    /\ \A i, j \in Offsets :
        Plan[i].msg = Plan[j].msg /\ Plan[i].part = Plan[j].part => i = j
    /\ \A m \in Messages : {Plan[i].part : i \in PartsOf(m)} = 0 .. Cardinality(PartsOf(m)) - 1
    /\ \A m \in Messages : \A i \in PartsOf(m) :
        Plan[i].last <=> Plan[i].part = Cardinality(PartsOf(m)) - 1

None == [kind |-> "none"]

VARIABLES
    hasReceivedHandshake, didRequestHandshake,
    initialReceiveSequenceNumber, lastReceivedSequenceNumber,
    lossList,
    pendingReceivedMessages,    \* message number -> [packets, nextPartNumber]
    sent,                       \* the last control packet written back
    accepted,                   \* history: offsets taken as new since the reset
    delivered,                  \* history: parts handed to the message handler
    resets

handshakeVars == <<hasReceivedHandshake, didRequestHandshake, initialReceiveSequenceNumber>>
vars == <<handshakeVars, lastReceivedSequenceNumber, lossList,
          pendingReceivedMessages, sent, accepted, delivered, resets>>

SeqNumOf(i) == Plus(initialReceiveSequenceNumber, i - 1)

NoMessages == [m \in {} |-> None]

Init ==
    /\ hasReceivedHandshake = FALSE /\ didRequestHandshake = FALSE
    /\ initialReceiveSequenceNumber = 0 /\ lastReceivedSequenceNumber = 0
    /\ lossList = EmptyList
    /\ pendingReceivedMessages = NoMessages
    /\ sent = None
    /\ accepted = {} /\ delivered = [m \in Messages |-> <<>>]
    /\ resets = 0

(***************************************************************************)
(* PendingReceivedMessage                                                  *)
(***************************************************************************)
NewPending == [packets |-> <<>>, nextPartNumber |-> 0]

\* enqueuePacket: sorted by part number, searching from the end; a part
\* that is already there is dropped
EnqueueWithoutSorting(p, packet) == [p EXCEPT !.packets = Append(@, packet)]

EnqueuePacket(p, packet) ==
    LET k == SelectLastInSeq(p.packets, LAMBDA v : packet.part >= v.part)
    IN  IF k > 0 /\ p.packets[k].part = packet.part
        THEN p
        ELSE [p EXCEPT !.packets = InsertAt(@, k + 1, packet)]

\* How many removeNextPacket calls hasAvailablePackets allows
Available(p) ==
    Max({0} \cup {n \in 1 .. Len(p.packets) :
            \A i \in 1 .. n : p.packets[i].part = p.nextPartNumber + i - 1})

RemoveAvailable(p) ==
    [packets |-> SubSeq(p.packets, Available(p) + 1, Len(p.packets)),
     nextPartNumber |-> p.nextPartNumber + Available(p)]

(***************************************************************************)
(* queueReceivedMessagePacket: the packet goes into its message, every     *)
(* part that is next in line goes to Socket::messageReceived, and the      *)
(* message is dropped from the map once its last part has gone.            *)
(***************************************************************************)
QueueWithoutErasing(packet) ==
    LET m == packet.msg
        before == IF m \in DOMAIN pendingReceivedMessages
                  THEN pendingReceivedMessages[m] ELSE NewPending
        queued == EnqueuePacket(before, packet)
    IN  /\ delivered' = [delivered EXCEPT ![m] =
                @ \o [i \in 1 .. Available(queued) |-> queued.packets[i].part]]
        /\ pendingReceivedMessages' =
                [k \in DOMAIN pendingReceivedMessages \cup {m} |->
                    IF k = m THEN RemoveAvailable(queued) ELSE pendingReceivedMessages[k]]

QueueReceivedMessagePacket(packet) ==
    LET m == packet.msg
        before == IF m \in DOMAIN pendingReceivedMessages
                  THEN pendingReceivedMessages[m] ELSE NewPending
        queued == EnqueuePacket(before, packet)
        ready == SubSeq(queued.packets, 1, Available(queued))
        processedLastOrOnly == \E i \in 1 .. Len(ready) : ready[i].last
        others == DOMAIN pendingReceivedMessages \ {m}
    IN  /\ delivered' = [delivered EXCEPT ![m] = @ \o [i \in 1 .. Len(ready) |-> ready[i].part]]
        /\ pendingReceivedMessages' =
                IF processedLastOrOnly
                THEN Restrict(pendingReceivedMessages, others)
                ELSE [k \in others \cup {m} |->
                        IF k = m THEN RemoveAvailable(queued) ELSE pendingReceivedMessages[k]]

(***************************************************************************)
(* processReceivedSequenceNumber                                           *)
(***************************************************************************)
\* The loss list after seq arrives, and whether seq counts as new
RecordedOneOfGap(l, last, seq) ==
    IF Gt(seq, last)
    THEN [list |-> IF Gt(seq, Plus(last, 1)) THEN AppendOne(l, Plus(last, 1)) ELSE l, isNew |-> TRUE]
    ELSE [list |-> RemoveOne(l, seq).list, isNew |-> RemoveOne(l, seq).found]

Recorded(l, last, seq) ==
    LET next == Plus(last, 1)
        gap == IF ~Gt(seq, next) THEN l
               ELSE IF next = Minus(seq, 1)
               THEN AppendOne(l, next)
               ELSE AppendRange(l, next, Minus(seq, 1))
    IN  IF Gt(seq, last)
        THEN [list |-> gap, isNew |-> TRUE]
        ELSE [list |-> RemoveOne(gap, seq).list, isNew |-> RemoveOne(gap, seq).found]

NextACKOfFirstLoss(l, last) == IF l.length > 0 THEN FirstOf(l) ELSE last

NextACK(l, last) == IF l.length > 0 THEN Minus(FirstOf(l), 1) ELSE last

RequestHandshake ==
    /\ ~hasReceivedHandshake
    /\ sent' = [kind |-> "HandshakeRequest"]
    /\ didRequestHandshake' = TRUE
    /\ UNCHANGED <<hasReceivedHandshake, initialReceiveSequenceNumber,
                   lastReceivedSequenceNumber, lossList, pendingReceivedMessages,
                   accepted, delivered, resets>>

LastReceivedUnconditional(seq) == seq

LastReceived(seq) == IF Gt(seq, lastReceivedSequenceNumber) THEN seq ELSE lastReceivedSequenceNumber

ReceivePacket(i) ==
    LET seq == SeqNumOf(i)
        recorded == Recorded(lossList, lastReceivedSequenceNumber, seq)
        last == LastReceived(seq)
    IN  /\ hasReceivedHandshake
        /\ lastReceivedSequenceNumber' = last
        /\ lossList' = recorded.list
        /\ sent' = [kind |-> "ACK", seq |-> NextACK(recorded.list, last)]
        /\ IF recorded.isNew
           THEN /\ accepted' = accepted \cup {i}
                /\ QueueReceivedMessagePacket(Plan[i])
           ELSE UNCHANGED <<accepted, delivered, pendingReceivedMessages>>
        /\ UNCHANGED <<handshakeVars, resets>>

(***************************************************************************)
(* processHandshake: a first handshake, or one with another initial        *)
(* sequence number, resets the receive state; every handshake is ACKed.    *)
(***************************************************************************)
ResetReceiveState(initial) ==
    /\ resets < MaxResets /\ resets' = resets + 1
    /\ initialReceiveSequenceNumber' = initial
    /\ lastReceivedSequenceNumber' = Minus(initial, 1)
    /\ lossList' = EmptyList
    /\ pendingReceivedMessages' = NoMessages
    /\ accepted' = {} /\ delivered' = [m \in Messages |-> <<>>]

ProcessHandshake(initial) ==
    /\ IF ~hasReceivedHandshake \/ initial # initialReceiveSequenceNumber
       THEN ResetReceiveState(initial)
       ELSE UNCHANGED <<initialReceiveSequenceNumber, lastReceivedSequenceNumber,
                        lossList, pendingReceivedMessages, accepted, delivered, resets>>
    /\ sent' = [kind |-> "HandshakeACK", seq |-> initial]
    /\ hasReceivedHandshake' = TRUE
    /\ didRequestHandshake' = FALSE

\* Socket::cleanupConnection destroys the Connection; the next datagram
\* makes a new one
CleanupConnection ==
    /\ hasReceivedHandshake' = FALSE /\ didRequestHandshake' = FALSE
    /\ initialReceiveSequenceNumber' = 0 /\ lastReceivedSequenceNumber' = 0
    /\ lossList' = EmptyList
    /\ pendingReceivedMessages' = NoMessages
    /\ sent' = None
    /\ accepted' = {} /\ delivered' = [m \in Messages |-> <<>>]
    /\ UNCHANGED resets

Next ==
    \/ RequestHandshake
    \/ \E i \in Offsets : ReceivePacket(i)
    \/ \E initial \in Initials : ProcessHandshake(initial)
    \/ CleanupConnection

Spec == Init /\ [][Next]_vars
-----------------------------------------------------------------------------
(***************************************************************************)
(* Connection.h calls _lossList the "List of all missing packets": exactly *)
(* the packets before the last received one that have not arrived, so a    *)
(* late packet is taken once and a repeated one never.                     *)
(***************************************************************************)
LossListIsAllMissing ==
    hasReceivedHandshake =>
        Members(lossList) = {SeqNumOf(i) : i \in
            {j \in Offsets : j \notin accepted /\ \E k \in accepted : k > j}}

(***************************************************************************)
(* An ACK only ever covers packets that have arrived: the sender forgets   *)
(* every packet up to the ACKed one (SendQueue::ack), so one that covers a *)
(* missing packet loses it for good.                                       *)
(***************************************************************************)
AckCoversOnlyReceived ==
    sent.kind = "ACK" =>
        \A i \in Offsets : Leq(SeqNumOf(i), sent.seq) => i \in accepted

(***************************************************************************)
(* Whatever the order of arrival, each message's parts reach the handler   *)
(* in order, once each, and none is held back once all before it arrived.  *)
(***************************************************************************)
InOrderOnceWithoutDelay ==
    \A m \in Messages :
        LET arrived == {Plan[i].part : i \in PartsOf(m) \cap accepted}
            n == Min({k \in 0 .. Cardinality(arrived) : k \notin arrived})
        IN  delivered[m] = [k \in 1 .. n |-> k - 1]

(***************************************************************************)
(* A message stays pending from its first packet until its last part has   *)
(* been handed over: nothing completed is left to be reported as failed by *)
(* the next reset, and nothing begun is forgotten without being reported.  *)
(***************************************************************************)
PendingUntilComplete ==
    DOMAIN pendingReceivedMessages =
        {m \in Messages : /\ PartsOf(m) \cap accepted # {}
                          /\ Len(delivered[m]) < Cardinality(PartsOf(m))}

(***************************************************************************)
(* The ACKs of one handshake never go back: sendACK always states the      *)
(* first missing packet, and a packet never becomes missing again.         *)
(***************************************************************************)
AcksAdvance ==
    [][sent.kind = "ACK" /\ sent'.kind = "ACK" => Leq(sent.seq, sent'.seq)]_vars
=============================================================================
