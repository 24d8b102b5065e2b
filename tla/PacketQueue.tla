---------------------------- MODULE PacketQueue ----------------------------
(***************************************************************************)
(* udt::PacketQueue: the packets a SendQueue has yet to number and send,   *)
(* in channels that takePacket serves in turn.  channels[1] is the main    *)
(* channel, for packets queued alone; every packet list has its own.  All  *)
(* methods but the message numbering run under _packetsLock.               *)
(***************************************************************************)
EXTENDS SequencesExt, Integers

CONSTANTS
    MAX_CHANNELS_SENT_CONCURRENTLY,     \* 16 in the code
    MAX_MESSAGE_NUMBER,                 \* 2^30 in the code
    MaxListLength, MaxLists, MaxAlone   \* bounds: packets per list, lists, lone packets

ASSUME PacketQueueAssumption ==
    /\ {MAX_CHANNELS_SENT_CONCURRENTLY, MAX_MESSAGE_NUMBER, MaxListLength, MaxLists}
            \subseteq Nat \ {0}
    /\ MaxAlone \in Nat

VARIABLES
    channels, currentChannel, channelsVisitedCount, currentMessageNumber,
    last,               \* what takePacket returned last
    lists, alone,       \* history: lists and lone packets queued so far
    waits               \* history: turns the first two channels have waited

queueVars == <<channels, currentChannel, channelsVisitedCount>>
vars == <<queueVars, currentMessageNumber, last, lists, alone, waits>>

NoPacket == [list |-> "none"]

\* Packet i of n of list l, as PacketList::preparePackets numbers it
Prepared(l, number, i, n) ==
    [list |-> l, message |-> number, part |-> i - 1, isLast |-> i = n]

\* A lone packet; k tells them apart
Lone(k) == [list |-> 0, part |-> k]

Init ==
    /\ channels = <<<<>>>> /\ currentChannel = 1 /\ channelsVisitedCount = 0
    /\ currentMessageNumber = 0
    /\ last = NoPacket /\ lists = 0 /\ alone = 0 /\ waits = <<0, 0>>

IsEmpty == Len(channels) = 1 /\ channels[1] = <<>>

NextMessageNumber == (currentMessageNumber + 1) % MAX_MESSAGE_NUMBER

QueuePacketInFront ==
    /\ alone < MaxAlone /\ alone' = alone + 1
    /\ channels' = [channels EXCEPT ![1] = <<Lone(alone')>> \o @]
    /\ UNCHANGED <<currentChannel, channelsVisitedCount, currentMessageNumber, last, lists, waits>>

QueuePacket ==
    /\ alone < MaxAlone /\ alone' = alone + 1
    /\ channels' = [channels EXCEPT ![1] = Append(@, Lone(alone'))]
    /\ UNCHANGED <<currentChannel, channelsVisitedCount, currentMessageNumber, last, lists, waits>>

\* Socket::writePacketList turns empty lists away
QueuePacketList(n) ==
    /\ lists < MaxLists /\ lists' = lists + 1
    /\ currentMessageNumber' = NextMessageNumber
    /\ channels' = Append(channels,
                          [i \in 1 .. n |-> Prepared(lists', NextMessageNumber, i, n)])
    /\ UNCHANGED <<currentChannel, channelsVisitedCount, last, alone, waits>>

\* When takePacket goes back to the main channel
RestartsWithoutLimit(next, n, visited) == next > n
RestartsLate(next, n, visited) == next > n + 1 \/ visited >= MAX_CHANNELS_SENT_CONCURRENTLY
Restarts(next, n, visited) == next > n \/ visited >= MAX_CHANNELS_SENT_CONCURRENTLY

\* The channel takePacket serves: past the main channel when that is empty
Serving == IF currentChannel = 1 /\ channels[1] = <<>> THEN 2 ELSE currentChannel

TakePacket ==
    /\ ~IsEmpty
    /\ LET rest == Tail(channels[Serving])
           emptied == rest = <<>> /\ Serving # 1
           next == IF emptied THEN Serving ELSE Serving + 1
           visited == channelsVisitedCount + 1
           left == IF emptied THEN RemoveAt(channels, Serving)
                   ELSE [channels EXCEPT ![Serving] = rest]
           restart == Restarts(next, Len(left), visited)
       IN  /\ channels' = left
           /\ currentChannel' = IF restart THEN 1 ELSE next
           /\ channelsVisitedCount' = IF restart THEN 0 ELSE visited
           /\ last' = Head(channels[Serving])
           /\ waits' = [i \in 1 .. 2 |->
                IF Serving = i \/ i > Len(channels) \/ channels[i] = <<>> THEN 0 ELSE waits[i] + 1]
    /\ UNCHANGED <<currentMessageNumber, lists, alone>>

TakeNothing ==
    /\ IsEmpty
    /\ last' = NoPacket
    /\ UNCHANGED <<queueVars, currentMessageNumber, lists, alone, waits>>

RecreateWithoutNumber ==
    /\ channels' = <<<<>>>> /\ currentChannel' = 1 /\ channelsVisitedCount' = 0
    /\ currentMessageNumber' = 0 /\ waits' = <<0, 0>>
    /\ UNCHANGED <<last, lists, alone>>

\* Connection::stopSendQueue keeps only the message number, which
\* getSendQueue gives to the next queue
Recreate ==
    /\ channels' = <<<<>>>> /\ currentChannel' = 1 /\ channelsVisitedCount' = 0
    /\ waits' = <<0, 0>>
    /\ UNCHANGED <<currentMessageNumber, last, lists, alone>>

Next ==
    \/ QueuePacket
    \/ \E n \in 1 .. MaxListLength : QueuePacketList(n)
    \/ TakePacket \/ TakeNothing
    \/ Recreate

Spec == Init /\ [][Next]_vars

-----------------------------------------------------------------------------
Fifos == 0 .. MaxLists

Packets == UNION {ToSet(channels[i]) : i \in 1 .. Len(channels)}

(***************************************************************************)
(* The assertions of takePacket: when the queue is not empty, the channel  *)
(* it turns to exists and has a packet, however calls have interleaved     *)
(* with the erasing of emptied channels; and the cursor left between calls *)
(* is never the end of the list, which a later append would not move.      *)
(***************************************************************************)
CursorOnPacket ==
    /\ currentChannel \in 1 .. Len(channels)
    /\ ~IsEmpty => Serving \in 1 .. Len(channels) /\ channels[Serving] # <<>>

\* What waits of list f, or alone if f is 0: the channel that starts with it
Waiting(f) ==
    IF f = 0 THEN channels[1]
    ELSE IF \E i \in 2 .. Len(channels) : channels[i][1].list = f
         THEN channels[CHOOSE i \in 2 .. Len(channels) : channels[i][1].list = f]
         ELSE <<>>

(***************************************************************************)
(* Packets leave in the order they were queued within the main channel and *)
(* within each list, once each, and isEmpty (on which SendQueue sleeps) is *)
(* only true when there is nothing left in any channel.                    *)
(***************************************************************************)
Fifo == INSTANCE MultiFifo WITH
    None <- NoPacket,
    fifo <- [f \in Fifos |-> Waiting(f)]

ImplementsMultiFifo == Fifo!Spec

(***************************************************************************)
(* No channel at the front starves: the main channel, and the oldest list, *)
(* are served at least once in MAX_CHANNELS_SENT_CONCURRENTLY + 1 turns,   *)
(* whatever keeps being queued.                                            *)
(***************************************************************************)
ServedInTurn == \A i \in 1 .. 2 : waits[i] <= MAX_CHANNELS_SENT_CONCURRENTLY

(***************************************************************************)
(* The receiver files packets by message number.  Two lists waiting in the *)
(* queue never carry the same one, and none carries that of a packet just  *)
(* sent, even if the queue has been stopped and made again in between.     *)
(***************************************************************************)
MessageNumbersDistinct ==
    \A p, q \in Packets \cup ({last} \ {NoPacket}) :
        p.list > 0 /\ q.list > 0 /\ p.list # q.list => p.message # q.message
=============================================================================
