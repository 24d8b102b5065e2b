---------------------------- MODULE AssetClient ----------------------------
(***************************************************************************)
(* The way of a reply from a reliable Connection to the one who asked:     *)
(* PacketReceiver puts the packets that Connection hands over together to  *)
(* ReceivedMessages on the NodeList's thread, and AssetClient answers its  *)
(* pending requests on the resource manager's thread, to which replies,    *)
(* completed signals and the node list's signals are posted in order.      *)
(* A reply to a get is handled from its first packet on, so its message    *)
(* may become complete, or fail, at any point of its handler.              *)
(*                                                                         *)
(* The asset server is external: it answers each request at most once (an  *)
(* answer to one that could not be sent is dropped like any late one).     *)
(***************************************************************************)
EXTENDS ConnectionReceive

CONSTANTS
    Kinds,      \* kinds of the successive requests: "get", "info" or "upload"
    MaxNodes    \* bound: times the asset server is added to the node list

ASSUME ClientAssumption ==
    Kinds \in Seq({"get", "info", "upload"}) /\ MaxNodes \in Nat \ {0}

Requests == 1 .. Len(Kinds)

VARIABLES
    node,               \* the asset server's Node, or 0 while it has none
    nodes,              \* Nodes made for it so far
    calls,              \* what is left of the NodeList thread's current event
    pendingMessages,    \* PacketReceiver::_pendingMessages: number -> message
    messages,           \* every ReceivedMessage made
    events,             \* posted to the AssetClient's thread
    pendingRequests,    \* the four maps of pending requests, by message ID
    connected,          \* message with signals connected -> its sender's Node
    handling,           \* what the AssetClient's thread is in the middle of
    currentID,
    replyTo,            \* history: message -> the request it is the reply to
    answers,            \* history: what each request's callback was called with
    cancelled           \* history: requests cancelled while they were pending

receiverVars == <<node, nodes, calls, pendingMessages, messages>>
askingVars == <<pendingRequests, connected, handling, currentID, answers, cancelled>>
clientVars == <<vars, receiverVars, askingVars, events, replyTo>>

ClientInit ==
    /\ Init
    /\ node = 1 /\ nodes = 1
    /\ calls = <<>>
    /\ pendingMessages = NoMessages /\ messages = NoMessages
    /\ events = <<>>
    /\ pendingRequests = NoMessages
    /\ connected = NoMessages
    /\ handling = None
    /\ currentID = 0
    /\ replyTo = NoMessages
    /\ answers = [r \in Requests |-> <<>>]
    /\ cancelled = {}

NumPackets(m) == Cardinality(PartsOf(m))

\* operator[] of a map, assigned to
Put(f, key, value) == [k \in DOMAIN f \cup {key} |-> IF k = key THEN value ELSE f[k]]

\* Several Connections number their messages alike; each makes its own
Message(m) == <<m, resets>>
NoMessage == <<>>

\* registerListener's deliverPending
DeliverPending(message) == Kinds[replyTo[message]] = "get"
-----------------------------------------------------------------------------
(***************************************************************************)
(* The NodeList's thread: an event of the Connection or of the node list,  *)
(* and the calls it makes, one step each.                                  *)
(***************************************************************************)
\* A packet's Connection is only made, and the packet only taken, for a Node
\* of the list; the first packet of a message shows which request it answers
Receive(i) ==
    LET m == Plan[i].msg
        before == Len(delivered[m])
    IN  /\ node # 0 /\ calls = <<>>
        /\ ReceivePacket(i)
        /\ IF Message(m) \in DOMAIN replyTo
           THEN UNCHANGED replyTo
           ELSE \E r \in (1 .. currentID) \ Range(replyTo) :
                   replyTo' = Put(replyTo, Message(m), r)
        /\ calls' = [k \in 1 .. Len(delivered'[m]) - before |->
                        [call |-> "packet", msg |-> m, part |-> delivered'[m][before + k]]]
        /\ UNCHANGED <<node, nodes, pendingMessages, messages, events, askingVars>>

\* messageFailed, for every message of _pendingReceivedMessages in turn
Failures ==
    LET ms == DOMAIN pendingReceivedMessages
    IN  [k \in 1 .. Cardinality(ms) |->
            [call |-> "failed",
             msg |-> CHOOSE m \in ms : Cardinality({before \in ms : before < m}) = k - 1]]

RequestHandshakeOfNode ==
    /\ node # 0 /\ calls = <<>>
    /\ RequestHandshake
    /\ UNCHANGED <<receiverVars, askingVars, events, replyTo>>

\* processHandshake ends with receiverHandshakeRequestComplete, which
\* clientConnectionToSockAddrReset passes on for the Node with that address
Handshake(initial) ==
    /\ node # 0 /\ calls = <<>>
    /\ ProcessHandshake(initial)
    /\ calls' = (IF resets' # resets THEN Failures ELSE <<>>) \o
                (IF didRequestHandshake
                 THEN <<[call |-> "signal", event |-> [event |-> "reset", node |-> node]]>>
                 ELSE <<>>)
    /\ UNCHANGED <<node, nodes, pendingMessages, messages, events, askingVars, replyTo>>

\* killNodeWithUUID and handleNodeKill: the Node leaves the list, nodeKilled
\* is emitted, and then the Connection is destroyed
KillNode ==
    /\ node # 0 /\ calls = <<>>
    /\ node' = 0
    /\ calls' = <<[call |-> "signal", event |-> [event |-> "killed", node |-> node]]>> \o Failures
    /\ CleanupConnection
    /\ UNCHANGED <<nodes, pendingMessages, messages, events, askingVars, replyTo>>

AddNode ==
    /\ node = 0 /\ calls = <<>> /\ nodes < MaxNodes
    /\ nodes' = nodes + 1 /\ node' = nodes'
    /\ UNCHANGED <<vars, calls, pendingMessages, messages, events, askingVars, replyTo>>

\* PacketReceiver::handleVerifiedMessagePacket, up to the signal that
\* appendPacket emits and the delivery that follows it
HandleVerifiedMessagePacket(c) ==
    LET m == c.msg
        isLast == c.part = NumPackets(m) - 1
        new == [data |-> <<<<resets, c.part>>>>, isComplete |-> isLast, failed |-> FALSE]
        message == pendingMessages[m]
    IN  IF m \notin DOMAIN pendingMessages
        THEN /\ messages' = Put(messages, Message(m), new)
             /\ pendingMessages' = IF isLast THEN pendingMessages
                                   ELSE Put(pendingMessages, m, Message(m))
             /\ calls' = IF isLast \/ DeliverPending(Message(m))
                         THEN <<[call |-> "deliver", message |-> Message(m)]>> \o Tail(calls)
                         ELSE Tail(calls)
        ELSE /\ messages' = [messages EXCEPT ![message].data = Append(@, <<resets, c.part>>),
                                             ![message].isComplete = isLast]
             /\ pendingMessages' = IF isLast THEN Restrict(pendingMessages, DOMAIN pendingMessages \ {m})
                                   ELSE pendingMessages
             /\ calls' = (IF isLast THEN <<[call |-> "completed", message |-> message]>> ELSE <<>>) \o
                         (IF isLast /\ ~DeliverPending(message)
                          THEN <<[call |-> "deliver", message |-> message]>> ELSE <<>>) \o
                         Tail(calls)

HandleMessageFailureQuietly(c) ==
    /\ pendingMessages' = Restrict(pendingMessages, DOMAIN pendingMessages \ {c.msg})
    /\ calls' = Tail(calls) /\ UNCHANGED messages

\* handleMessageFailure and ReceivedMessage::setFailed
HandleMessageFailure(c) ==
    IF c.msg \in DOMAIN pendingMessages
    THEN LET message == pendingMessages[c.msg] IN
         /\ messages' = [messages EXCEPT ![message].failed = TRUE, ![message].isComplete = TRUE]
         /\ pendingMessages' = Restrict(pendingMessages, DOMAIN pendingMessages \ {c.msg})
         /\ calls' = <<[call |-> "completed", message |-> message]>> \o Tail(calls)
    ELSE calls' = Tail(calls) /\ UNCHANGED <<messages, pendingMessages>>

\* What the call posts to the AssetClient's thread
Posted(c) ==
    CASE c.call = "signal" -> <<c.event>>
      [] c.call = "deliver" -> <<[event |-> "reply", message |-> c.message, node |-> node]>>
      [] c.call = "completed" /\ c.message \in DOMAIN connected ->
            <<[event |-> "completed", message |-> c.message, node |-> connected[c.message]]>>
      [] OTHER -> <<>>

Call ==
    /\ calls # <<>>
    /\ LET c == Head(calls)
       IN  CASE c.call = "packet" -> HandleVerifiedMessagePacket(c)
             [] c.call = "failed" -> HandleMessageFailure(c)
             [] OTHER -> calls' = Tail(calls) /\ UNCHANGED <<pendingMessages, messages>>
    /\ events' = events \o Posted(Head(calls))
    /\ UNCHANGED <<vars, node, nodes, askingVars, replyTo>>
-----------------------------------------------------------------------------
(***************************************************************************)
(* The AssetClient's thread                                                *)
(***************************************************************************)
IsPendingAt(r, n) == r \in DOMAIN pendingRequests /\ pendingRequests[r].node = n

Erase(rs) == Restrict(pendingRequests, DOMAIN pendingRequests \ rs)

Failure == [success |-> FALSE, data |-> <<>>]

\* The length in the reply's head against what has come of its data
IsWhole(message) == Len(messages[message].data) = NumPackets(message[1])

Outcome(message) ==
    IF IsWhole(message) THEN [success |-> TRUE, data |-> messages[message].data] ELSE Failure

Answer(r, outcome) == answers' = [answers EXCEPT ![r] = Append(@, outcome)]

Disconnect(ms) == connected' = Restrict(connected, DOMAIN connected \ ms)

MessagesOf(rs) == {pendingRequests[r].message : r \in rs}

\* getAsset, getAssetInfo and uploadAsset find the Node, and ...
FindAssetServer ==
    /\ handling = None /\ currentID < Len(Kinds)
    /\ node # 0
    /\ handling' = [kind |-> "sending", node |-> node]
    /\ UNCHANGED <<vars, receiverVars, events, replyTo, pendingRequests, connected,
                   currentID, answers, cancelled>>

\* ... send the request to it; whether it is still in the list or not
SendRequest ==
    /\ handling.kind = "sending"
    /\ currentID' = currentID + 1
    /\ pendingRequests' = [r \in DOMAIN pendingRequests \cup {currentID'} |->
            IF r = currentID' THEN [node |-> handling.node, message |-> NoMessage]
            ELSE pendingRequests[r]]
    /\ handling' = None
    /\ UNCHANGED <<vars, receiverVars, events, replyTo, connected, answers, cancelled>>

\* A Node without an active socket cannot be sent anything
FailToSendRequest ==
    /\ handling.kind = "sending"
    /\ currentID' = currentID + 1
    /\ Answer(currentID', Failure)
    /\ handling' = None
    /\ UNCHANGED <<vars, receiverVars, events, replyTo, pendingRequests, connected, cancelled>>

CancelRequest(r) ==
    /\ handling = None
    /\ r \in DOMAIN pendingRequests
    /\ Disconnect(MessagesOf({r}))
    /\ pendingRequests' = Erase({r})
    /\ cancelled' = cancelled \cup {r}
    /\ UNCHANGED <<vars, receiverVars, events, replyTo, handling, currentID, answers>>

\* handleAssetGetReply, up to its test of isComplete
BeginGetReply(e) ==
    LET r == replyTo[e.message]
    IN  /\ IF IsPendingAt(r, e.node)
           THEN /\ pendingRequests' = [pendingRequests EXCEPT ![r].message = e.message]
                /\ connected' = Put(connected, e.message, e.node)
                /\ handling' = [kind |-> "reply", message |-> e.message, request |-> r]
           ELSE UNCHANGED <<pendingRequests, connected, handling>>
        /\ UNCHANGED answers

FinishGetReplyWithoutErasing ==
    LET message == handling.message
    IN  /\ handling.kind = "reply"
        /\ IF messages[message].isComplete
           THEN Disconnect({message}) /\ Answer(handling.request, Outcome(message))
           ELSE UNCHANGED <<connected, answers>>
        /\ handling' = None
        /\ UNCHANGED <<vars, receiverVars, events, replyTo, pendingRequests, currentID, cancelled>>

\* ... and from there to its end
FinishGetReply ==
    LET message == handling.message
        r == handling.request
    IN  /\ handling.kind = "reply"
        /\ IF messages[message].isComplete
           THEN /\ Disconnect({message})
                /\ Answer(r, Outcome(message))
                /\ pendingRequests' = Erase({r})
           ELSE UNCHANGED <<connected, answers, pendingRequests>>
        /\ handling' = None
        /\ UNCHANGED <<vars, receiverVars, events, replyTo, currentID, cancelled>>

\* handleAssetGetInfoReply and handleAssetUploadReply: the message is whole
HandleReply(e) ==
    LET r == replyTo[e.message]
    IN  /\ IF IsPendingAt(r, e.node)
           THEN Answer(r, Outcome(e.message)) /\ pendingRequests' = Erase({r})
           ELSE UNCHANGED <<answers, pendingRequests>>
        /\ UNCHANGED <<connected, handling>>

HandleCompleteCallback(e) ==
    LET r == replyTo[e.message]
        message == pendingRequests[r].message
    IN  /\ IF IsPendingAt(r, e.node) /\ message # NoMessage
           THEN /\ Answer(r, IF messages[message].failed THEN Failure ELSE Outcome(message))
                /\ pendingRequests' = Erase({r})
           ELSE UNCHANGED <<answers, pendingRequests>>
        /\ UNCHANGED <<connected, handling>>

\* handleNodeKilled fails every request to the Node, and
\* handleNodeClientConnectionReset all but the uploads
FailRequests(rs) ==
    /\ answers' = [r \in Requests |-> IF r \in rs THEN Append(answers[r], Failure) ELSE answers[r]]
    /\ Disconnect(MessagesOf(rs))
    /\ pendingRequests' = Erase(rs)
    /\ UNCHANGED handling

HandleEvent ==
    /\ handling = None /\ events # <<>>
    /\ LET e == Head(events)
           ofNode == {r \in DOMAIN pendingRequests : IsPendingAt(r, e.node)}
       IN  \/ e.event = "reply" /\ DeliverPending(e.message) /\ BeginGetReply(e)
           \/ e.event = "reply" /\ ~DeliverPending(e.message) /\ HandleReply(e)
           \/ e.event = "completed" /\ HandleCompleteCallback(e)
           \/ e.event = "killed" /\ FailRequests(ofNode)
           \/ e.event = "reset" /\ FailRequests({r \in ofNode : Kinds[r] # "upload"})
    /\ events' = Tail(events)
    /\ UNCHANGED <<vars, receiverVars, replyTo, currentID, cancelled>>
-----------------------------------------------------------------------------
ClientNext ==
    \/ \E i \in Offsets : Receive(i)
    \/ RequestHandshakeOfNode
    \/ \E initial \in Initials : Handshake(initial)
    \/ KillNode
    \/ AddNode
    \/ Call
    \/ FindAssetServer
    \/ SendRequest
    \/ FailToSendRequest
    \/ \E r \in Requests : CancelRequest(r)
    \/ FinishGetReply
    \/ HandleEvent

\* Both threads go on with what they have begun and with what is posted to
\* them; packets, handshakes and kills may never come
ClientFairness ==
    /\ WF_clientVars(Call)
    /\ WF_clientVars(SendRequest \/ FailToSendRequest)
    /\ WF_clientVars(FinishGetReply)
    /\ WF_clientVars(HandleEvent)

ClientSpec == ClientInit /\ [][ClientNext]_clientVars /\ ClientFairness
-----------------------------------------------------------------------------
(***************************************************************************)
(* Each request is pending until it is cancelled or its callback is called,*)
(* which happens once, whichever of the reply, the completed signal posted *)
(* before disconnect, a failure and a cancel come together.                *)
(***************************************************************************)
AnsweredOnce ==
    \A r \in Requests :
        Len(answers[r]) =
            IF r > currentID \/ r \in DOMAIN pendingRequests \cup cancelled THEN 0 ELSE 1

(***************************************************************************)
(* A callback only succeeds with the packets, in order, of one reply to its*)
(* request, never with parts of messages of two Connections that have one  *)
(* number.                                                                 *)
(***************************************************************************)
SuccessIsWhole ==
    \A r \in Requests : \A a \in Range(answers[r]) : a.success =>
        \E message \in DOMAIN replyTo :
            /\ replyTo[message] = r
            /\ a.data = [k \in 1 .. NumPackets(message[1]) |-> <<message[2], k - 1>>]

\* A request's callback is called once, and with the whole reply if with success
AnsweredOnceAndWhole == AnsweredOnce /\ SuccessIsWhole

\* What decides a request: its reply has been handed over whole, the reply
\* to a get was begun and its Connection has been reset or destroyed since,
\* or the Node it was sent to has been killed
Decided(r) ==
    \/ \E message \in DOMAIN replyTo :
        /\ replyTo[message] = r
        /\ \/ message = Message(message[1]) /\ Len(delivered[message[1]]) = NumPackets(message[1])
           \/ /\ DeliverPending(message) /\ message \in DOMAIN messages
              /\ message # Message(message[1]) \/ ~hasReceivedHandshake
    \/ pendingRequests[r].node # node

(***************************************************************************)
(* A request that is decided is answered in the end (or cancelled): none   *)
(* is left pending because its message became complete or failed between   *)
(* two steps of its handler, or before it was connected, because the Node  *)
(* was killed while the request was being sent, or because PacketReceiver  *)
(* takes a new message's packets for an old message's.                     *)
(***************************************************************************)
DecidedIsAnswered ==
    \A r \in Requests :
        (r \in DOMAIN pendingRequests /\ Decided(r)) ~> (r \notin DOMAIN pendingRequests)
=============================================================================
