------------------------------- MODULE Domain -------------------------------
(***************************************************************************)
(* How a domain server hands its static assignments (the mixers and        *)
(* servers) to assignment clients, and what each does when the other falls *)
(* silent.  DomainServer runs in one thread: each of its packet handlers   *)
(* is one step.  A client has three: the NodeList's receives packets, the  *)
(* main one starts and completes assignments, the assignment's own checks  *)
(* in; what one posts to another is handled later.                         *)
(*                                                                         *)
(* UUIDs are numbers drawn in order.  Each assignment has a type of its    *)
(* own, so the type in a packet is the assignment.  wire is the set of     *)
(* datagrams under way, in no order; faults counts those lost, restarts,   *)
(* and timeouts that expire while an answer is still under way.            *)
(***************************************************************************)
EXTENDS Naturals, Sequences, FiniteSets, SequencesExt

CONSTANTS
    NumAssignments, \* number of static assignments
    Clients,        \* assignment clients, each a process at its own address
    Deployments,    \* the ways to say which assignments each client asks for
    MaxSilent,      \* MAX_SILENT_DOMAIN_SERVER_CHECK_INS
    MaxFaults,      \* bound on faults, for each deployment
    None

Assignments == 1 .. NumAssignments

ASSUME DomainAssumption ==
    /\ NumAssignments \in Nat
    /\ Deployments \subseteq [Clients -> SUBSET Assignments]
    /\ MaxSilent \in Nat /\ MaxFaults \in [Deployments -> Nat]
    /\ None \notin Clients /\ None \notin Assignments /\ None \notin Nat

VARIABLES
    server,         \* the domain server's tables
    connectUUIDs,   \* number of unique UUIDs given out with a CreateAssignment
    sessions,       \* number of session UUIDs given out
    client,         \* each client's state
    wants,          \* the request type and pool of each client
    wire,
    faults

vars == <<server, connectUUIDs, sessions, client, wants, wire, faults>>

\* The UUID of an assignment: which one, and how often it was reset
AssignmentUUIDs == Assignments \X Nat

Packet(kind, c, id, type) == [kind |-> kind, client |-> c, id |-> id, type |-> type]

Send(S) == wire' = wire \cup S

Receive(m, replies) == wire' = (wire \ {m}) \cup replies

Underway(c) == {m \in wire : m.client = c}

\* A timer may run out on an answer that is still under way: the network's fault
Fault(timely) ==
    \/ timely /\ UNCHANGED faults
    \/ ~timely /\ faults < MaxFaults[wants] /\ faults' = faults + 1

-----------------------------------------------------------------------------
\* The domain server's tables and what its handlers make of them

Without(f, x) == Restrict(f, DOMAIN f \ {x})
With(f, x, y) == [z \in DOMAIN f \cup {x} |-> IF z = x THEN y ELSE f[z]]

\* resetUUID, and the assignment joins the queue under its new UUID
RefreshAndAddToQueue(d, a) ==
    LET fresh == <<a, d.uuid[a][2] + 1>>
    IN [uuid |-> [d.uuid EXCEPT ![a] = fresh],
        allAssignments |-> With(d.allAssignments, fresh, a),
        unfulfilled |-> Append(d.unfulfilled, a),
        pending |-> d.pending,
        nodes |-> d.nodes]

KillNodeWithoutRequeue(d, s) == [d EXCEPT !.nodes = Without(@, s)]

\* The node leaves the node list, and its assignment goes back to the queue
KillNode(d, s) ==
    LET id == d.nodes[s].assignment
        gone == [uuid |-> d.uuid,
                 allAssignments |-> Without(d.allAssignments, id),
                 unfulfilled |-> d.unfulfilled,
                 pending |-> d.pending,
                 nodes |-> Without(d.nodes, s)]
    IN IF id \in DOMAIN d.allAssignments
       THEN RefreshAndAddToQueue(gone, d.allAssignments[id])
       ELSE gone

AddNodeBesideOld(d, s, node) == [d EXCEPT !.nodes = With(@, s, node)]

\* A new node at the socket of an old one is a reconnection: kill the old node.
\* (No two assignments share a type, so no node of a solo type is replaced.)
AddNode(d, s, node) ==
    LET old == {t \in DOMAIN d.nodes : d.nodes[t].client = node.client}
        left == IF old = {} THEN d ELSE KillNode(d, CHOOSE t \in old : TRUE)
    IN [uuid |-> left.uuid,
        allAssignments |-> left.allAssignments,
        unfulfilled |-> left.unfulfilled,
        pending |-> left.pending,
        nodes |-> With(left.nodes, s, node)]

\* The places in the queue of the assignments a request matches
Deployable(d, wanted) == {i \in DOMAIN d.unfulfilled : d.unfulfilled[i] \in wanted}

DeployWithoutReturning(d, i, u) ==
    [d EXCEPT !.unfulfilled = RemoveAt(@, i),
              !.pending = With(@, u, d.uuid[d.unfulfilled[i]])]

\* An assignment handed out stays in the queue, at its back, until a node connects
Deploy(d, i, u) ==
    LET a == d.unfulfilled[i]
    IN [uuid |-> d.uuid,
        allAssignments |-> d.allAssignments,
        unfulfilled |-> Append(RemoveAt(d.unfulfilled, i), a),
        pending |-> With(d.pending, u, d.uuid[a]),
        nodes |-> d.nodes]

Matching(d, id, type) ==
    {i \in DOMAIN d.unfulfilled : d.unfulfilled[i] = type /\ d.uuid[d.unfulfilled[i]] = id}

\* A client that connects with a pending UUID takes its assignment off the queue
Dequeue(d, u, i) ==
    [uuid |-> d.uuid,
     allAssignments |-> d.allAssignments,
     unfulfilled |-> RemoveAt(d.unfulfilled, i),
     pending |-> Without(d.pending, u),
     nodes |-> d.nodes]

Connect(d, c, u, i, s) ==
    AddNode(Dequeue(d, u, i), s, [client |-> c, assignment |-> d.pending[u]])

\* A server that starts: every assignment is in the table under the UUID it was
\* made with, and again, refreshed, with a place in the queue
Start(uuid) ==
    LET made == [a \in Assignments |-> <<a, uuid[a][2] + 1>>]
        fresh == [a \in Assignments |-> <<a, uuid[a][2] + 2>>]
        known == {made[a] : a \in Assignments} \cup {fresh[a] : a \in Assignments}
    IN [uuid |-> fresh,
        allAssignments |-> [id \in known |-> id[1]],
        unfulfilled |-> [i \in Assignments |-> i],
        pending |-> [u \in {} |-> None],
        nodes |-> [s \in {} |-> None]]

-----------------------------------------------------------------------------
(***************************************************************************)
(* A client is unassigned; running an assignment; finished with it, while  *)
(* the object still exists; or, its object deleted, ends the thread.  From *)
(* finished to unassigned the packet receiver drops what arrives.  posted  *)
(* holds the CreateAssignments the main thread has yet to handle.  orphan: *)
(* _currentAssignment points to an assignment that was never started.      *)
(***************************************************************************)
Unassigned ==
    [phase |-> "unassigned", type |-> None, connectUUID |-> None, session |-> None,
     connected |-> FALSE, checkIns |-> 0, posted |-> {}, orphan |-> FALSE]

Init ==
    /\ server = Start([a \in Assignments |-> <<a, 0>>])
    /\ connectUUIDs = 0 /\ sessions = 0
    /\ client = [c \in Clients |-> Unassigned]
    /\ wants \in Deployments
    /\ wire = {} /\ faults = 0

serverVars == <<server, connectUUIDs, sessions>>

\* Every second an unassigned client asks
SendAssignmentRequest(c) ==
    /\ client[c].phase = "unassigned" /\ ~client[c].orphan
    /\ Fault(Underway(c) = {} /\ client[c].posted = {})
    /\ Send({Packet("RequestAssignment", c, None, None)})
    /\ UNCHANGED <<serverVars, client, wants>>

ProcessRequestAssignment(m) ==
    LET places == Deployable(server, wants[m.client])
        first == CHOOSE i \in places : \A j \in places : i <= j
        u == connectUUIDs + 1
    IN /\ m \in wire /\ m.kind = "RequestAssignment"
       /\ IF places = {}
          THEN Receive(m, {}) /\ UNCHANGED serverVars
          ELSE /\ server' = Deploy(server, first, u)
               /\ connectUUIDs' = u
               /\ Receive(m, {Packet("CreateAssignment", m.client, u, server.unfulfilled[first])})
               /\ UNCHANGED sessions
       /\ UNCHANGED <<client, wants, faults>>

Dropping(c) == client[c].phase \in {"finished", "deleted"}

ReceiveCreateAssignment(m) ==
    /\ m \in wire /\ m.kind = "CreateAssignment"
    /\ Receive(m, {})
    /\ client' = IF Dropping(m.client) THEN client
                 ELSE [client EXCEPT ![m.client].posted = @ \cup {m}]
    /\ UNCHANGED <<serverVars, wants, faults>>

\* The main thread; while _currentAssignment is set it ignores the packet
HandleCreateAssignment(c, m) ==
    LET rest == [client[c] EXCEPT !.posted = @ \ {m}]
    IN /\ m \in client[c].posted
       /\ client' = [client EXCEPT ![c] =
            CASE rest.phase = "unassigned" /\ ~rest.orphan ->
                    [rest EXCEPT !.phase = "running", !.type = m.type,
                                 !.connectUUID = m.id, !.checkIns = 0]
              [] rest.phase = "deleted" -> [rest EXCEPT !.orphan = TRUE]
              [] OTHER -> rest]
       /\ UNCHANGED <<serverVars, wants, wire, faults>>

\* Immediately, then every second: connect, or say the client is still there
CheckInWithDomainServer(c) ==
    /\ client[c].phase = "running" /\ client[c].checkIns < MaxSilent
    /\ client' = [client EXCEPT ![c].checkIns = @ + 1]
    /\ Send({IF client[c].connected
             THEN Packet("DomainListRequest", c, client[c].session, None)
             ELSE Packet("DomainConnectRequest", c, client[c].connectUUID, client[c].type)})
    /\ UNCHANGED <<serverVars, wants, faults>>

\* The assignment stops after too many check-ins without an answer; any other
\* reason to stop (its settings are refused, a StopNode) counts as a fault
Stop(c) ==
    /\ client[c].phase = "running"
    /\ Fault(client[c].checkIns >= MaxSilent /\ Underway(c) = {})
    /\ client' = [client EXCEPT ![c].phase = "finished", ![c].connected = FALSE]
    /\ Send(IF client[c].connected
            THEN {Packet("DomainDisconnectRequest", c, client[c].session, None)} ELSE {})
    /\ UNCHANGED <<serverVars, wants>>

DeleteAssignment(c) ==
    /\ client[c].phase = "finished"
    /\ client' = [client EXCEPT ![c].phase = "deleted"]
    /\ UNCHANGED <<serverVars, wants, wire, faults>>

CompletedWithOrphan(c) ==
    [Unassigned EXCEPT !.connectUUID = client[c].connectUUID, !.orphan = client[c].orphan]

\* The assignment's thread is gone, and main has handled what was posted before
Completed(c) == [Unassigned EXCEPT !.connectUUID = client[c].connectUUID]

AssignmentCompleted(c) ==
    /\ client[c].phase = "deleted" /\ client[c].posted = {}
    /\ client' = [client EXCEPT ![c] = Completed(c)]
    /\ UNCHANGED <<serverVars, wants, wire, faults>>

ProcessConnectRequest(m) ==
    LET u == m.id
        places == Matching(server, server.pending[u], m.type)
        s == sessions + 1
    IN /\ m \in wire /\ m.kind = "DomainConnectRequest"
       /\ IF u \in DOMAIN server.pending /\ places # {}
          THEN /\ server' = Connect(server, m.client, u, CHOOSE i \in places : TRUE, s)
               /\ sessions' = s
               /\ Receive(m, {Packet("DomainList", m.client, s, None)})
          ELSE Receive(m, {}) /\ UNCHANGED <<server, sessions>>
       /\ UNCHANGED <<connectUUIDs, client, wants, faults>>

\* A packet of a session without a node is dropped
ProcessListRequest(m) ==
    /\ m \in wire /\ m.kind = "DomainListRequest"
    /\ Receive(m, IF m.id \in DOMAIN server.nodes
                  THEN {Packet("DomainList", m.client, m.id, None)} ELSE {})
    /\ UNCHANGED <<serverVars, client, wants, faults>>

ProcessNodeDisconnectRequest(m) ==
    /\ m \in wire /\ m.kind = "DomainDisconnectRequest"
    /\ server' = IF m.id \in DOMAIN server.nodes THEN KillNode(server, m.id) ELSE server
    /\ Receive(m, {})
    /\ UNCHANGED <<connectUUIDs, sessions, client, wants, faults>>

\* Any list is taken, whichever check-in it answers, once the client has been given
\* the server's address; one with another session resets the node list
ProcessDomainList(m) ==
    /\ m \in wire /\ m.kind = "DomainList"
    /\ Receive(m, {})
    /\ client' = IF Dropping(m.client) \/ client[m.client].connectUUID = None THEN client
                 ELSE [client EXCEPT ![m.client].session = m.id,
                                     ![m.client].connected = TRUE,
                                     ![m.client].checkIns = 0]
    /\ UNCHANGED <<serverVars, wants, faults>>

\* Ten seconds without a packet of the session, ten times the interval of check-ins
SessionKinds == {"DomainList", "DomainListRequest", "DomainDisconnectRequest"}

Silent(s) ==
    LET c == server.nodes[s].client
    IN /\ ~(client[c].phase = "running" /\ client[c].connected /\ client[c].session = s)
       /\ \A m \in Underway(c) : ~(m.kind \in SessionKinds /\ m.id = s)

RemoveSilentNode(s) ==
    /\ s \in DOMAIN server.nodes
    /\ Fault(Silent(s))
    /\ server' = KillNode(server, s)
    /\ UNCHANGED <<connectUUIDs, sessions, client, wants, wire>>

-----------------------------------------------------------------------------
\* Faults

Lose(m) ==
    /\ m \in wire /\ Fault(FALSE)
    /\ Receive(m, {})
    /\ UNCHANGED <<serverVars, client, wants>>

RestartServer ==
    /\ Fault(FALSE)
    /\ server' = Start(server.uuid)
    /\ UNCHANGED <<connectUUIDs, sessions, client, wants, wire>>

\* The process dies, and the monitor that started it starts another at its address
RestartClient(c) ==
    /\ Fault(FALSE)
    /\ client' = [client EXCEPT ![c] = Unassigned]
    /\ UNCHANGED <<serverVars, wants, wire>>

ServerReceives(m) ==
    \/ ProcessRequestAssignment(m) \/ ProcessConnectRequest(m)
    \/ ProcessListRequest(m) \/ ProcessNodeDisconnectRequest(m)

ClientReceives(m) == ReceiveCreateAssignment(m) \/ ProcessDomainList(m)

ClientSteps(c) ==
    \/ SendAssignmentRequest(c)
    \/ \E m \in client[c].posted : HandleCreateAssignment(c, m)
    \/ CheckInWithDomainServer(c)
    \/ Stop(c) \/ DeleteAssignment(c) \/ AssignmentCompleted(c)

Next ==
    \/ \E c \in Clients : ClientSteps(c) \/ RestartClient(c)
    \/ \E m \in wire : ServerReceives(m) \/ ClientReceives(m) \/ Lose(m)
    \/ \E s \in DOMAIN server.nodes : RemoveSilentNode(s)
    \/ RestartServer

Safe == Init /\ [][Next]_vars

\* What is neither lost nor stopped is received in the end, event loops run what
\* is posted to them, and timers fire; no fault has to happen.
Timely(A) == A /\ UNCHANGED faults

Spec ==
    /\ Safe
    /\ \A c \in Clients :
        /\ WF_vars(Timely(ClientSteps(c)))
        /\ WF_vars(\E m \in Underway(c) : ServerReceives(m))
        /\ WF_vars(\E m \in Underway(c) : ClientReceives(m))
    /\ WF_vars(\E s \in DOMAIN server.nodes : Timely(RemoveSilentNode(s)))

-----------------------------------------------------------------------------
ServedBy(d, s, a) == d.nodes[s].assignment = d.uuid[a]

(***************************************************************************)
(* Every static assignment is either in the queue, once, or has exactly    *)
(* one node: through deployments that are late, doubled or refused, nodes  *)
(* that disconnect, fall silent or connect again, none is lost and none    *)
(* given away twice (deployableAssignmentForRequest,                       *)
(* dequeueMatchingAssignment, nodeKilled).                                 *)
(***************************************************************************)
QueuedOrServed ==
    /\ IsInjective(server.unfulfilled)
    /\ \A a \in Assignments :
        (a \in Range(server.unfulfilled))
            # (\E s \in DOMAIN server.nodes : ServedBy(server, s, a))
    /\ \A s, t \in DOMAIN server.nodes :
        server.nodes[s].assignment = server.nodes[t].assignment => s = t

(***************************************************************************)
(* The server's handlers do what AssignmentPool promises: an assignment    *)
(* passes to another client only through the queue, and a client that      *)
(* connects for another one gives up the one it held.                      *)
(***************************************************************************)
Holder(d, a) ==
    LET S == {s \in DOMAIN d.nodes : ServedBy(d, s, a)}
    IN IF S = {} THEN None ELSE d.nodes[CHOOSE s \in S : TRUE].client

Holders == [a \in Assignments |-> Holder(server, a)]

Pool == INSTANCE AssignmentPool WITH Nobody <- None, holder <- Holders

ImplementsPool == Pool!Spec

Serves(c, a) ==
    /\ client[c].phase = "running" /\ client[c].type = a
    /\ client[c].connected /\ client[c].session \in DOMAIN server.nodes
    /\ ServedBy(server, client[c].session, a)

OneTypeEach == \A c \in Clients : \E a \in Assignments : wants[c] = {a}

(***************************************************************************)
(* Whatever was lost and whoever crashed, every assignment that some       *)
(* client asks for is running again in the end, with the client connected  *)
(* as the node the server counts for it.  For clients that each ask for    *)
(* one type, as the servers overte-server starts do.                       *)
(***************************************************************************)
EveryAssignmentServed ==
    \A a \in Assignments :
        OneTypeEach /\ (\E c \in Clients : a \in wants[c]) ~> (\E c \in Clients : Serves(c, a))

(***************************************************************************)
(* No client stays with an assignment the server did not let it have: time *)
(* and again each is either free to ask for another or serves the one it   *)
(* runs.                                                                   *)
(***************************************************************************)
NoClientStuck ==
    \A c \in Clients :
        []<>(OneTypeEach =>
                \/ client[c].phase = "unassigned" /\ ~client[c].orphan
                \/ \E a \in Assignments : Serves(c, a))
=============================================================================
