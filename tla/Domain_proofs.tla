--------------------------- MODULE Domain_proofs ---------------------------
(***************************************************************************)
(* The domain server's assignments are neither lost nor given away twice,  *)
(* and its handlers implement AssignmentPool, for any number of clients,   *)
(* assignments and faults and whatever the clients ask for.                *)
(***************************************************************************)
EXTENDS Domain, SequenceTheorems, WellFoundedInduction, TLAPS

USE DEF Assignments, AssignmentUUIDs

\* Every assignment is in the table under the UUID it has
Known(d) ==
    /\ d.uuid \in [Assignments -> AssignmentUUIDs]
    /\ \A a \in Assignments :
        /\ d.uuid[a][1] = a
        /\ d.uuid[a] \in DOMAIN d.allAssignments
        /\ d.allAssignments[d.uuid[a]] = a

Queued(d, a) == \E i \in 1 .. Len(d.unfulfilled) : d.unfulfilled[i] = a

Served(d, a) == \E s \in DOMAIN d.nodes : ServedBy(d, s, a)

QueueOK(d) ==
    /\ d.unfulfilled \in Seq(Assignments)
    /\ \A i, j \in 1 .. Len(d.unfulfilled) :
        d.unfulfilled[i] = d.unfulfilled[j] => i = j

\* Each node serves one assignment, for a client that has no other node
NodesOK(d) ==
    /\ \A s \in DOMAIN d.nodes :
        /\ d.nodes[s].client \in Clients
        /\ \E a \in Assignments : ServedBy(d, s, a)
    /\ \A s, t \in DOMAIN d.nodes :
        \/ d.nodes[s].assignment = d.nodes[t].assignment
        \/ d.nodes[s].client = d.nodes[t].client
        => s = t

\* Queued or served, but for the assignments in out, which are neither
Placed(d, out) ==
    \A a \in Assignments :
        IF a \in out THEN ~Queued(d, a) /\ ~Served(d, a) ELSE Queued(d, a) <=> ~Served(d, a)

ServerInv(d, out) == Known(d) /\ QueueOK(d) /\ NodesOK(d) /\ Placed(d, out)

IInv ==
    /\ ServerInv(server, {})
    /\ sessions \in Nat
    /\ \A s \in DOMAIN server.nodes : s \in 1 .. sessions
    /\ \A m \in wire : m.client \in Clients

-----------------------------------------------------------------------------
\* Removing one element of a sequence keeps the others in their order
LEMMA RemoveAtFacts ==
    ASSUME NEW S, NEW q \in Seq(S), NEW i \in 1 .. Len(q)
    PROVE  /\ RemoveAt(q, i) \in Seq(S)
           /\ Len(RemoveAt(q, i)) = Len(q) - 1
           /\ \A j \in 1 .. Len(q) - 1 :
                RemoveAt(q, i)[j] = IF j < i THEN q[j] ELSE q[j + 1]
<1> DEFINE l == SubSeq(q, 1, i - 1)  r == SubSeq(q, i + 1, Len(q))
<1>0. RemoveAt(q, i) = l \o r
  BY DEF RemoveAt
<1>1. Len(q) \in Nat /\ i \in Nat
  BY LenProperties
<1>2. l \in Seq(S) /\ Len(l) = i - 1 /\ \A j \in 1 .. i - 1 : l[j] = q[j]
  BY <1>1, SubSeqProperties
<1>3. r \in Seq(S) /\ Len(r) = Len(q) - i /\ \A j \in 1 .. Len(q) - i : r[j] = q[i + j]
  <2>1. CASE i = Len(q)
    BY <1>1, <2>1, SubSeqProperties
  <2>2. CASE i < Len(q)
    BY <1>1, <2>2, SubSeqProperties
  <2> QED BY <1>1, <2>1, <2>2
<1> HIDE DEF l, r
<1>4. l \o r \in Seq(S) /\ Len(l \o r) = Len(q) - 1
  BY <1>1, <1>2, <1>3, ConcatProperties
<1>5. ASSUME NEW j \in 1 .. Len(q) - 1
      PROVE (l \o r)[j] = IF j < i THEN q[j] ELSE q[j + 1]
  <2>1. (l \o r)[j] = IF j <= i - 1 THEN l[j] ELSE r[j - (i - 1)]
    BY <1>1, <1>2, <1>3, <1>5, ConcatProperties
  <2> QED BY <1>1, <1>2, <1>3, <2>1
<1> QED BY <1>0, <1>4, <1>5

\* Appending an element that is not there yet keeps the elements distinct
LEMMA AppendFacts ==
    ASSUME NEW q \in Seq(Assignments), NEW a \in Assignments,
           \A i, j \in 1 .. Len(q) : q[i] = q[j] => i = j,
           \A i \in 1 .. Len(q) : q[i] # a
    PROVE  /\ Append(q, a) \in Seq(Assignments)
           /\ \A i, j \in 1 .. Len(Append(q, a)) : Append(q, a)[i] = Append(q, a)[j] => i = j
           /\ \A b : (\E i \in 1 .. Len(Append(q, a)) : Append(q, a)[i] = b)
                        <=> b = a \/ \E i \in 1 .. Len(q) : q[i] = b
<1>1. /\ Append(q, a) \in Seq(Assignments) /\ Len(q) \in Nat
      /\ Len(Append(q, a)) = Len(q) + 1
      /\ \A i \in 1 .. Len(q) : Append(q, a)[i] = q[i]
      /\ Append(q, a)[Len(q) + 1] = a
  BY AppendProperties, LenProperties
<1>2. \A i \in 1 .. Len(q) + 1 : i \in 1 .. Len(q) \/ i = Len(q) + 1
  BY <1>1
<1>3. Len(q) + 1 \in 1 .. Len(q) + 1 /\ \A i \in 1 .. Len(q) : i \in 1 .. Len(q) + 1
  BY <1>1
<1> QED BY <1>1, <1>2, <1>3

\* What taking an element out of the queue leaves
LEMMA RemoveFacts ==
    ASSUME NEW q \in Seq(Assignments), NEW i \in 1 .. Len(q),
           \A j, k \in 1 .. Len(q) : q[j] = q[k] => j = k
    PROVE  /\ RemoveAt(q, i) \in Seq(Assignments)
           /\ \A j, k \in 1 .. Len(RemoveAt(q, i)) :
                RemoveAt(q, i)[j] = RemoveAt(q, i)[k] => j = k
           /\ \A b : (\E j \in 1 .. Len(RemoveAt(q, i)) : RemoveAt(q, i)[j] = b)
                        <=> b # q[i] /\ \E j \in 1 .. Len(q) : q[j] = b
<1> DEFINE r == RemoveAt(q, i)  n == Len(q)
<1>1. /\ r \in Seq(Assignments) /\ Len(r) = n - 1 /\ n \in Nat
      /\ \A j \in 1 .. n - 1 : r[j] = IF j < i THEN q[j] ELSE q[j + 1]
  BY RemoveAtFacts, LenProperties
<1> HIDE DEF r
<1>2. \A j, k \in 1 .. Len(r) : r[j] = r[k] => j = k
  BY <1>1
<1>3. ASSUME NEW b, NEW j \in 1 .. Len(r), r[j] = b
      PROVE  b # q[i] /\ \E k \in 1 .. n : q[k] = b
  <2>1. CASE j < i
    BY <1>1, <1>3, <2>1
  <2>2. CASE ~(j < i)
    <3>1. j + 1 \in 1 .. n /\ j + 1 # i /\ q[j + 1] = b
      BY <1>1, <1>3, <2>2
    <3> QED BY <3>1
  <2> QED BY <2>1, <2>2
<1>4. ASSUME NEW b, b # q[i], NEW j \in 1 .. n, q[j] = b
      PROVE  \E k \in 1 .. Len(r) : r[k] = b
  <2>1. CASE j < i
    BY <1>1, <1>4, <2>1
  <2>2. CASE ~(j < i)
    <3>1. j - 1 \in 1 .. Len(r) /\ r[j - 1] = b
      BY <1>1, <1>4, <2>2
    <3> QED BY <3>1
  <2> QED BY <2>1, <2>2
<1> QED BY <1>1, <1>2, <1>3, <1>4 DEF r

-----------------------------------------------------------------------------
\* What killing a node changes: its assignment gets a fresh UUID and a place
LEMMA KillNodeFields ==
    ASSUME NEW d, Known(d), NEW s \in DOMAIN d.nodes, NEW a \in Assignments, ServedBy(d, s, a)
    PROVE  KillNode(d, s) =
             [uuid |-> [d.uuid EXCEPT ![a] = <<a, d.uuid[a][2] + 1>>],
              allAssignments |->
                With(Without(d.allAssignments, d.uuid[a]), <<a, d.uuid[a][2] + 1>>, a),
              unfulfilled |-> Append(d.unfulfilled, a),
              pending |-> d.pending,
              nodes |-> Without(d.nodes, s)]
BY DEF KillNode, RefreshAndAddToQueue, Known, ServedBy

\* Killing a node puts its assignment in the queue and leaves every other where it is
LEMMA KillNodeInv ==
    ASSUME NEW d, NEW out, ServerInv(d, out),
           NEW s \in DOMAIN d.nodes, NEW a \in Assignments, ServedBy(d, s, a)
    PROVE  /\ ServerInv(KillNode(d, s), out)
           /\ KillNode(d, s).nodes = Without(d.nodes, s)
           /\ \A b \in Assignments \ {a} : KillNode(d, s).uuid[b] = d.uuid[b]
           /\ ~Served(KillNode(d, s), a)
           /\ \A t \in DOMAIN d.nodes \ {s}, b \in Assignments :
                ServedBy(KillNode(d, s), t, b) <=> ServedBy(d, t, b)
<1> DEFINE e == KillNode(d, s)  n == d.uuid[a][2]  fresh == <<a, n + 1>>
<1> USE DEF ServerInv
<1>0. /\ e.uuid = [d.uuid EXCEPT ![a] = fresh]
      /\ e.allAssignments = With(Without(d.allAssignments, d.uuid[a]), fresh, a)
      /\ e.unfulfilled = Append(d.unfulfilled, a)
      /\ e.nodes = Without(d.nodes, s)
  BY KillNodeFields
<1> HIDE DEF e
<1>1. /\ n \in Nat /\ d.uuid[a] = <<a, n>>
      /\ \A b \in Assignments : d.uuid[b] \in AssignmentUUIDs /\ d.uuid[b][1] = b
  <2>1. \A b \in Assignments : d.uuid[b] \in AssignmentUUIDs /\ d.uuid[b][1] = b
    BY DEF Known
  <2>2. d.uuid[a] \in Assignments \X Nat /\ d.uuid[a][1] = a
    BY <2>1
  <2>3. d.uuid[a] = <<d.uuid[a][1], d.uuid[a][2]>> /\ d.uuid[a][2] \in Nat
    BY <2>2
  <2> QED BY <2>1, <2>2, <2>3
<1> HIDE DEF n
<1>2. fresh \in AssignmentUUIDs /\ fresh[1] = a /\ fresh # d.uuid[a]
  BY <1>1
<1> HIDE DEF fresh
<1>3. /\ e.uuid \in [Assignments -> AssignmentUUIDs] /\ e.uuid[a] = fresh
      /\ \A b \in Assignments \ {a} : e.uuid[b] = d.uuid[b]
  <2>1. d.uuid \in [Assignments -> AssignmentUUIDs]
    BY DEF Known
  <2> DEFINE u == d.uuid  v == e.uuid
  <2>2. u \in [Assignments -> AssignmentUUIDs] /\ v = [u EXCEPT ![a] = fresh]
    BY <1>0, <2>1
  <2> HIDE DEF u, v, AssignmentUUIDs, Assignments
  <2>3. /\ v \in [Assignments -> AssignmentUUIDs] /\ v[a] = fresh
        /\ \A b \in Assignments \ {a} : v[b] = u[b]
    BY <1>2, <2>2
  <2> QED BY <2>3 DEF u, v
<1>4. \A b \in Assignments \ {a} : d.uuid[b] # d.uuid[a] /\ d.uuid[b] # fresh
  BY <1>1, <1>2
<1>5. Known(e)
  <2>1. fresh \in DOMAIN e.allAssignments /\ e.allAssignments[fresh] = a
    BY <1>0 DEF With
  <2>2. ASSUME NEW b \in Assignments \ {a}
        PROVE  d.uuid[b] \in DOMAIN e.allAssignments /\ e.allAssignments[d.uuid[b]] = b
    <3>1. d.uuid[b] \in DOMAIN d.allAssignments \ {d.uuid[a]} /\ d.allAssignments[d.uuid[b]] = b
      BY <1>4 DEF Known
    <3>2. /\ d.uuid[b] \in DOMAIN Without(d.allAssignments, d.uuid[a])
          /\ Without(d.allAssignments, d.uuid[a])[d.uuid[b]] = b
      BY <3>1 DEF Without, Restrict
    <3> QED BY <3>2, <1>0, <1>4 DEF With
  <2> QED BY <1>1, <1>2, <1>3, <2>1, <2>2 DEF Known
<1>6. ~Queued(d, a) /\ a \notin out
  BY DEF Placed, Served
<1>7. QueueOK(e) /\ \A b : Queued(e, b) <=> b = a \/ Queued(d, b)
  BY <1>0, <1>6, AppendFacts DEF QueueOK, Queued
<1>8. /\ DOMAIN e.nodes = DOMAIN d.nodes \ {s}
      /\ \A t \in DOMAIN e.nodes : e.nodes[t] = d.nodes[t]
  BY <1>0 DEF Without, Restrict
<1>9. ASSUME NEW t \in DOMAIN e.nodes
      PROVE  \E b \in Assignments \ {a} : e.nodes[t].assignment = d.uuid[b]
  <2>1. PICK b \in Assignments : d.nodes[t].assignment = d.uuid[b]
    BY <1>8 DEF NodesOK, ServedBy
  <2>2. b # a
    BY <1>8, <2>1 DEF NodesOK, ServedBy
  <2> QED BY <1>8, <2>1, <2>2
<1>10. ASSUME NEW t \in DOMAIN e.nodes, NEW b \in Assignments
       PROVE  (ServedBy(e, t, b) <=> ServedBy(d, t, b)) /\ ~ServedBy(e, t, a)
  BY <1>1, <1>3, <1>4, <1>8, <1>9 DEF ServedBy
<1>11. NodesOK(e)
  BY <1>8, <1>10 DEF NodesOK
<1>12. ~Served(e, a)
  BY <1>10 DEF Served
<1>13. ASSUME NEW b \in Assignments \ {a} PROVE Served(e, b) <=> Served(d, b)
  <2>1. ~ServedBy(d, s, b)
    BY <1>4 DEF ServedBy
  <2> QED BY <1>8, <1>10, <2>1 DEF Served
<1>14. Placed(e, out)
  BY <1>6, <1>7, <1>12, <1>13 DEF Placed
<1> QED BY <1>0, <1>3, <1>5, <1>7, <1>8, <1>10, <1>11, <1>12, <1>14 DEF e

-----------------------------------------------------------------------------
\* The holder of an assignment is the client of the node that serves it
LEMMA HolderIs ==
    ASSUME NEW d, NodesOK(d), NEW a \in Assignments
    PROVE  /\ ~Served(d, a) => Holder(d, a) = None
           /\ \A s \in DOMAIN d.nodes :
                ServedBy(d, s, a) => Holder(d, a) = d.nodes[s].client
<1> DEFINE S == {s \in DOMAIN d.nodes : ServedBy(d, s, a)}
<1>1. ~Served(d, a) => Holder(d, a) = None
  BY DEF Served, Holder
<1>2. ASSUME NEW s \in DOMAIN d.nodes, ServedBy(d, s, a)
      PROVE  Holder(d, a) = d.nodes[s].client
  <2>1. S = {s}
    BY <1>2 DEF NodesOK, ServedBy
  <2>2. (CHOOSE t \in S : TRUE) = s
    BY <2>1
  <2> QED BY <2>1, <2>2 DEF Holder
<1> QED BY <1>1, <1>2

\* Killing a node frees its assignment and no other
LEMMA KillNodeHolder ==
    ASSUME NEW d, NEW out, ServerInv(d, out),
           NEW s \in DOMAIN d.nodes, NEW a \in Assignments, ServedBy(d, s, a)
    PROVE  /\ Holder(KillNode(d, s), a) = None
           /\ \A b \in Assignments \ {a} : Holder(KillNode(d, s), b) = Holder(d, b)
<1> DEFINE e == KillNode(d, s)
<1>1. /\ NodesOK(e) /\ ~Served(e, a) /\ NodesOK(d)
      /\ DOMAIN e.nodes = DOMAIN d.nodes \ {s}
      /\ \A t \in DOMAIN e.nodes : e.nodes[t] = d.nodes[t]
      /\ \A t \in DOMAIN e.nodes, b \in Assignments : ServedBy(e, t, b) <=> ServedBy(d, t, b)
  <2>1. /\ ServerInv(e, out) /\ e.nodes = Without(d.nodes, s) /\ ~Served(e, a)
        /\ \A t \in DOMAIN d.nodes \ {s}, b \in Assignments :
             ServedBy(e, t, b) <=> ServedBy(d, t, b)
    BY KillNodeInv
  <2> HIDE DEF e
  <2>2. /\ DOMAIN e.nodes = DOMAIN d.nodes \ {s}
        /\ \A t \in DOMAIN e.nodes : e.nodes[t] = d.nodes[t]
    BY <2>1 DEF Without, Restrict
  <2> QED BY <2>1, <2>2 DEF ServerInv
<1> HIDE DEF e
<1>2. ASSUME NEW b \in Assignments \ {a} PROVE Holder(e, b) = Holder(d, b)
  <2>1. ~ServedBy(d, s, b)
    BY DEF ServerInv, Known, ServedBy
  <2>2. CASE Served(e, b)
    BY <1>1, <2>2, HolderIs DEF Served
  <2>3. CASE ~Served(e, b)
    <3>1. ~Served(d, b)
      BY <1>1, <2>1, <2>3 DEF Served
    <3> QED BY <1>1, <2>3, <3>1, HolderIs
  <2> QED BY <2>2, <2>3
<1> QED BY <1>1, <1>2, HolderIs DEF e

\* The tables with a node more
PlaceNode(d, s, node) ==
    [uuid |-> d.uuid, allAssignments |-> d.allAssignments, unfulfilled |-> d.unfulfilled,
     pending |-> d.pending, nodes |-> With(d.nodes, s, node)]

\* A client without a node is given one, for the assignment that is nowhere
LEMMA PlaceNodeInv ==
    ASSUME NEW d, NEW a \in Assignments, ServerInv(d, {a}), NEW c \in Clients,
           NEW s, s \notin DOMAIN d.nodes,
           \A t \in DOMAIN d.nodes : d.nodes[t].client # c
    PROVE  LET e == PlaceNode(d, s, [client |-> c, assignment |-> d.uuid[a]])
           IN /\ ServerInv(e, {})
              /\ DOMAIN e.nodes = DOMAIN d.nodes \cup {s}
              /\ Holder(e, a) = c
              /\ \A b \in Assignments \ {a} : Holder(e, b) = Holder(d, b)
<1> DEFINE node == [client |-> c, assignment |-> d.uuid[a]]  e == PlaceNode(d, s, node)
<1>1. /\ e.uuid = d.uuid /\ e.allAssignments = d.allAssignments
      /\ e.unfulfilled = d.unfulfilled /\ e.nodes = With(d.nodes, s, node)
      /\ node.client = c /\ node.assignment = d.uuid[a]
  BY DEF PlaceNode
<1> HIDE DEF node, e
<1>2. /\ DOMAIN e.nodes = DOMAIN d.nodes \cup {s} /\ e.nodes[s] = node
      /\ \A t \in DOMAIN d.nodes : e.nodes[t] = d.nodes[t]
  BY <1>1 DEF With
<1>3. \A b \in Assignments : d.uuid[b] = d.uuid[a] => b = a
  BY DEF ServerInv, Known
<1>4. /\ ~Served(d, a) /\ ~Queued(d, a)
      /\ \A b \in Assignments \ {a} : Queued(d, b) <=> ~Served(d, b)
  BY DEF ServerInv, Placed
<1>5. /\ \A t \in DOMAIN d.nodes, b \in Assignments : ServedBy(e, t, b) <=> ServedBy(d, t, b)
      /\ \A b \in Assignments : ServedBy(e, s, b) <=> b = a
  BY <1>1, <1>2, <1>3 DEF ServedBy
<1>6. /\ Served(e, a) /\ \A b \in Assignments \ {a} : Served(e, b) <=> Served(d, b)
      /\ \A b : Queued(e, b) <=> Queued(d, b)
  BY <1>1, <1>2, <1>5 DEF Served, Queued
<1>7. /\ \A t \in DOMAIN d.nodes : d.nodes[t].assignment # d.uuid[a]
      /\ NodesOK(d)
  BY <1>4 DEF Served, ServedBy, ServerInv
<1>8. NodesOK(e)
  <2>1. ASSUME NEW t \in DOMAIN e.nodes
        PROVE  e.nodes[t].client \in Clients /\ \E b \in Assignments : ServedBy(e, t, b)
    BY <1>1, <1>2, <1>5, <1>7 DEF NodesOK
  <2>2. ASSUME NEW t \in DOMAIN e.nodes, NEW v \in DOMAIN e.nodes,
               \/ e.nodes[t].assignment = e.nodes[v].assignment
               \/ e.nodes[t].client = e.nodes[v].client
        PROVE  t = v
    <3>1. CASE t = s \/ v = s
      BY <1>1, <1>2, <1>7, <2>2, <3>1
    <3>2. CASE t \in DOMAIN d.nodes /\ v \in DOMAIN d.nodes
      BY <1>2, <1>7, <2>2, <3>2 DEF NodesOK
    <3> QED BY <1>2, <3>1, <3>2
  <2> QED BY <2>1, <2>2 DEF NodesOK
<1>9. ServerInv(e, {})
  <2>1. Known(e) /\ QueueOK(e)
    BY <1>1 DEF ServerInv, Known, QueueOK
  <2>2. Placed(e, {})
    BY <1>4, <1>6 DEF Placed
  <2> QED BY <1>8, <2>1, <2>2 DEF ServerInv
<1>10. Holder(e, a) = c
  BY <1>1, <1>2, <1>5, <1>8, HolderIs
<1>11. ASSUME NEW b \in Assignments \ {a} PROVE Holder(e, b) = Holder(d, b)
  <2>1. CASE Served(d, b)
    <3>1. PICK t \in DOMAIN d.nodes : ServedBy(d, t, b)
      BY <2>1 DEF Served
    <3> QED BY <1>2, <1>5, <1>7, <1>8, <3>1, HolderIs
  <2>2. CASE ~Served(d, b)
    BY <1>6, <1>7, <1>8, <2>2, HolderIs
  <2> QED BY <2>1, <2>2
<1> QED BY <1>2, <1>9, <1>10, <1>11 DEF e, node

\* A node more for a client: the one it had is killed first
LEMMA AddNodeInv ==
    ASSUME NEW d, NEW a \in Assignments, ServerInv(d, {a}), NEW c \in Clients,
           NEW s, s \notin DOMAIN d.nodes
    PROVE  LET e == AddNode(d, s, [client |-> c, assignment |-> d.uuid[a]])
           IN /\ ServerInv(e, {})
              /\ DOMAIN e.nodes \subseteq DOMAIN d.nodes \cup {s}
              /\ Holder(e, a) = c
              /\ \A b \in Assignments \ {a} :
                    Holder(e, b) = IF Holder(d, b) = c THEN None ELSE Holder(d, b)
<1> DEFINE node == [client |-> c, assignment |-> d.uuid[a]]
           e == AddNode(d, s, node)
           old == {t \in DOMAIN d.nodes : d.nodes[t].client = c}
<1>0. NodesOK(d) /\ Known(d) /\ ~Served(d, a) /\ None \notin Clients
  BY DomainAssumption DEF ServerInv, Placed
<1>1. CASE old = {}
  <2>1. e = PlaceNode(d, s, node)
    BY <1>1 DEF AddNode, PlaceNode
  <2>2. \A t \in DOMAIN d.nodes : d.nodes[t].client # c
    BY <1>1
  <2>3. /\ ServerInv(e, {}) /\ DOMAIN e.nodes \subseteq DOMAIN d.nodes \cup {s}
        /\ Holder(e, a) = c
        /\ \A b \in Assignments \ {a} : Holder(e, b) = Holder(d, b)
    BY <2>1, <2>2, PlaceNodeInv
  <2>4. ASSUME NEW b \in Assignments PROVE Holder(d, b) # c
    <3>1. CASE Served(d, b)
      <4>1. PICK t \in DOMAIN d.nodes : ServedBy(d, t, b)
        BY <3>1 DEF Served
      <4> QED BY <1>0, <2>2, <4>1, HolderIs
    <3> QED BY <1>0, <3>1, HolderIs
  <2> QED BY <2>3, <2>4
<1>2. CASE old # {}
  <2> DEFINE t == CHOOSE x \in old : TRUE  l == KillNode(d, t)
  <2>1. t \in DOMAIN d.nodes /\ d.nodes[t].client = c
    BY <1>2
  <2>2. e = PlaceNode(l, s, node)
    BY <1>2 DEF AddNode, PlaceNode
  <2> HIDE DEF t
  <2>3. PICK b0 \in Assignments : ServedBy(d, t, b0)
    BY <1>0, <2>1 DEF NodesOK
  <2>4. a # b0
    BY <1>0, <2>1, <2>3 DEF Served
  <2>5. /\ ServerInv(l, {a}) /\ l.nodes = Without(d.nodes, t) /\ l.uuid[a] = d.uuid[a]
        /\ Holder(l, b0) = None
        /\ \A b \in Assignments \ {b0} : Holder(l, b) = Holder(d, b)
    BY <2>1, <2>3, <2>4, KillNodeInv, KillNodeHolder
  <2> HIDE DEF l
  <2>6. /\ DOMAIN l.nodes = DOMAIN d.nodes \ {t}
        /\ \A x \in DOMAIN l.nodes : l.nodes[x] = d.nodes[x]
    BY <2>5 DEF Without, Restrict
  <2>7. s \notin DOMAIN l.nodes /\ \A x \in DOMAIN l.nodes : l.nodes[x].client # c
    BY <1>0, <2>1, <2>6 DEF NodesOK
  <2>8. /\ ServerInv(e, {}) /\ DOMAIN e.nodes = DOMAIN l.nodes \cup {s}
        /\ Holder(e, a) = c
        /\ \A b \in Assignments \ {a} : Holder(e, b) = Holder(l, b)
    <3> DEFINE f == PlaceNode(l, s, [client |-> c, assignment |-> l.uuid[a]])
    <3>1. e = f
      BY <2>2, <2>5
    <3>2. /\ ServerInv(f, {}) /\ DOMAIN f.nodes = DOMAIN l.nodes \cup {s}
          /\ Holder(f, a) = c
          /\ \A b \in Assignments \ {a} : Holder(f, b) = Holder(l, b)
      <4> HIDE DEF Assignments, node, old
      <4> QED BY <2>5, <2>7, PlaceNodeInv
    <3> HIDE DEF e, f
    <3> QED BY <3>1, <3>2
  <2>9. Holder(d, b0) = c
    BY <1>0, <2>1, <2>3, HolderIs
  <2>10. ASSUME NEW b \in Assignments \ {b0} PROVE Holder(d, b) # c
    <3>1. CASE Served(d, b)
      <4>1. PICK x \in DOMAIN d.nodes : ServedBy(d, x, b)
        BY <3>1 DEF Served
      <4>2. x # t
        BY <1>0, <2>3, <4>1 DEF Known, ServedBy
      <4>3. d.nodes[x].client # c
        BY <2>6, <2>7, <4>1, <4>2
      <4> QED BY <1>0, <4>1, <4>3, HolderIs
    <3> QED BY <1>0, <3>1, HolderIs
  <2> QED BY <2>4, <2>5, <2>6, <2>8, <2>9, <2>10
<1> QED BY <1>1, <1>2

\* An assignment that is in the queue is taken off it
LEMMA DequeueInv ==
    ASSUME NEW d, ServerInv(d, {}), NEW u, NEW i \in 1 .. Len(d.unfulfilled)
    PROVE  LET a == d.unfulfilled[i]  e == Dequeue(d, u, i)
           IN /\ a \in Assignments /\ ServerInv(e, {a})
              /\ e.uuid = d.uuid /\ e.nodes = d.nodes
              /\ Holder(d, a) = None
<1> DEFINE a == d.unfulfilled[i]  e == Dequeue(d, u, i)  q == d.unfulfilled
<1>1. /\ e.uuid = d.uuid /\ e.nodes = d.nodes /\ e.allAssignments = d.allAssignments
      /\ e.unfulfilled = RemoveAt(q, i)
  BY DEF Dequeue
<1>2. /\ QueueOK(d) /\ Known(d) /\ NodesOK(d) /\ q \in Seq(Assignments) /\ a \in Assignments
      /\ \A j, k \in 1 .. Len(q) : q[j] = q[k] => j = k
  <2>1. QueueOK(d) /\ Known(d) /\ NodesOK(d)
    BY DEF ServerInv
  <2>2. q \in Seq(Assignments) /\ \A j, k \in 1 .. Len(q) : q[j] = q[k] => j = k
    BY <2>1 DEF QueueOK
  <2>3. a \in Assignments
    BY <2>2, ElementOfSeq
  <2> QED BY <2>1, <2>2, <2>3
<1>3. /\ \A b \in Assignments : Queued(d, b) <=> ~Served(d, b)
      /\ Queued(d, a)
  BY DEF ServerInv, Placed, Queued
<1> HIDE DEF e
<1>4. QueueOK(e) /\ \A b : Queued(e, b) <=> b # a /\ Queued(d, b)
  <2> DEFINE r == RemoveAt(q, i)
  <2>1. /\ r \in Seq(Assignments)
        /\ \A j, k \in 1 .. Len(r) : r[j] = r[k] => j = k
        /\ \A b : (\E j \in 1 .. Len(r) : r[j] = b) <=> b # a /\ \E j \in 1 .. Len(q) : q[j] = b
    BY <1>2, RemoveFacts
  <2> HIDE DEF r
  <2>2. e.unfulfilled = r
    BY <1>1 DEF r
  <2> QED BY <2>1, <2>2 DEF QueueOK, Queued
<1>5. \A b \in Assignments : Served(e, b) <=> Served(d, b)
  BY <1>1 DEF Served, ServedBy
<1>6. Known(e) /\ NodesOK(e)
  BY <1>1, <1>2 DEF Known, NodesOK, ServedBy
<1>7. Placed(e, {a})
  BY <1>2, <1>3, <1>4, <1>5 DEF Placed
<1> QED BY <1>1, <1>2, <1>3, <1>4, <1>6, <1>7, HolderIs DEF e, ServerInv

\* An assignment handed out goes to the back of the queue, and all stay where they are
LEMMA DeployInv ==
    ASSUME NEW d, ServerInv(d, {}), NEW u, NEW i \in 1 .. Len(d.unfulfilled)
    PROVE  LET e == Deploy(d, i, u)
           IN /\ ServerInv(e, {}) /\ e.nodes = d.nodes
              /\ \A b \in Assignments : Holder(e, b) = Holder(d, b)
<1> DEFINE a == d.unfulfilled[i]  e == Deploy(d, i, u)  q == d.unfulfilled
           r == RemoveAt(q, i)
<1>1. /\ e.uuid = d.uuid /\ e.nodes = d.nodes /\ e.allAssignments = d.allAssignments
      /\ e.unfulfilled = Append(r, a)
  BY DEF Deploy
<1>2. /\ q \in Seq(Assignments) /\ a \in Assignments /\ Known(d) /\ NodesOK(d)
      /\ \A j, k \in 1 .. Len(q) : q[j] = q[k] => j = k
      /\ \A b \in Assignments : Queued(d, b) <=> ~Served(d, b)
  <2>1. QueueOK(d) /\ Known(d) /\ NodesOK(d) /\ Placed(d, {})
    BY DEF ServerInv
  <2>2. q \in Seq(Assignments) /\ \A j, k \in 1 .. Len(q) : q[j] = q[k] => j = k
    BY <2>1 DEF QueueOK
  <2>3. a \in Assignments
    BY <2>2, ElementOfSeq
  <2> QED BY <2>1, <2>2, <2>3 DEF Placed
<1>3. /\ r \in Seq(Assignments)
      /\ \A j, k \in 1 .. Len(r) : r[j] = r[k] => j = k
      /\ \A b : (\E j \in 1 .. Len(r) : r[j] = b) <=> b # a /\ \E j \in 1 .. Len(q) : q[j] = b
  BY <1>2, RemoveFacts
<1> HIDE DEF e, r
<1>4. \A j \in 1 .. Len(r) : r[j] # a
  BY <1>3
<1>5. QueueOK(e) /\ \A b : Queued(e, b) <=> Queued(d, b)
  <2> DEFINE p == Append(r, a)
  <2> HIDE DEF a, q
  <2>1. /\ p \in Seq(Assignments)
        /\ \A j, k \in 1 .. Len(p) : p[j] = p[k] => j = k
        /\ \A b : (\E j \in 1 .. Len(p) : p[j] = b)
                      <=> b = a \/ \E j \in 1 .. Len(r) : r[j] = b
    BY <1>2, <1>3, <1>4, AppendFacts
  <2> HIDE DEF p
  <2>2. e.unfulfilled = p /\ d.unfulfilled = q /\ \E j \in 1 .. Len(q) : q[j] = a
    BY <1>1 DEF p, q, a
  <2>3. \A b : (\E j \in 1 .. Len(p) : p[j] = b) <=> \E j \in 1 .. Len(q) : q[j] = b
    BY <1>3, <2>1, <2>2
  <2> QED BY <2>1, <2>2, <2>3 DEF QueueOK, Queued
<1>6. \A b \in Assignments : Served(e, b) <=> Served(d, b)
  BY <1>1 DEF Served, ServedBy
<1>7. Known(e) /\ NodesOK(e)
  BY <1>1, <1>2 DEF Known, NodesOK, ServedBy
<1>8. Placed(e, {})
  BY <1>2, <1>5, <1>6 DEF Placed
<1>9. \A b \in Assignments : Holder(e, b) = Holder(d, b)
  BY <1>1 DEF Holder, ServedBy
<1> QED BY <1>1, <1>5, <1>7, <1>8, <1>9 DEF e, ServerInv

\* A server that starts has every assignment in the queue, once
LEMMA StartInv ==
    ASSUME NEW uuid \in [Assignments -> AssignmentUUIDs], \A a \in Assignments : uuid[a][1] = a
    PROVE  /\ ServerInv(Start(uuid), {}) /\ DOMAIN Start(uuid).nodes = {}
           /\ \A a \in Assignments : Holder(Start(uuid), a) = None
<1> DEFINE e == Start(uuid)
           made == [a \in Assignments |-> <<a, uuid[a][2] + 1>>]
           fresh == [a \in Assignments |-> <<a, uuid[a][2] + 2>>]
           known == {made[a] : a \in Assignments} \cup {fresh[a] : a \in Assignments}
<1>0. NumAssignments \in Nat
  BY DomainAssumption
<1>1. /\ e.uuid = fresh /\ e.allAssignments = [id \in known |-> id[1]]
      /\ e.unfulfilled = [i \in Assignments |-> i] /\ DOMAIN e.nodes = {}
  BY DEF Start
<1> HIDE DEF e
<1>2. \A a \in Assignments : uuid[a][2] \in Nat
  OBVIOUS
<1>3. Known(e)
  <2>1. fresh \in [Assignments -> AssignmentUUIDs]
    BY <1>2
  <2>2. \A a \in Assignments : fresh[a][1] = a /\ fresh[a] \in known
    OBVIOUS
  <2> HIDE DEF fresh, known
  <2> QED BY <1>1, <2>1, <2>2 DEF Known
<1>4. e.unfulfilled \in Seq(Assignments) /\ Len(e.unfulfilled) = NumAssignments
  BY <1>0, <1>1, SeqDef
<1>5. \A a \in Assignments : Queued(e, a)
  BY <1>0, <1>1, <1>4 DEF Queued
<1>6. QueueOK(e) /\ NodesOK(e) /\ \A a \in Assignments : ~Served(e, a)
  BY <1>0, <1>1, <1>4 DEF QueueOK, NodesOK, Served
<1>7. Placed(e, {})
  BY <1>5, <1>6 DEF Placed
<1> QED BY <1>1, <1>3, <1>6, <1>7, HolderIs DEF e, ServerInv

-----------------------------------------------------------------------------
\* A step that leaves the tables alone
LEMMA QuietStep ==
    ASSUME IInv, server' = server, sessions' = sessions, \A m \in wire' : m.client \in Clients
    PROVE  IInv' /\ UNCHANGED Holders
BY DEF IInv, ServerInv, Known, QueueOK, NodesOK, Placed, Queued, Served, ServedBy,
   Holder, Holders

\* A node is killed: it releases its assignment
LEMMA KillStep ==
    ASSUME IInv, NEW s \in DOMAIN server.nodes, server' = KillNode(server, s),
           sessions' = sessions, \A m \in wire' : m.client \in Clients
    PROVE  IInv' /\ Pool!Next
<1> DEFINE d == server  e == KillNode(d, s)
<1>1. ServerInv(d, {}) /\ NodesOK(d) /\ sessions \in Nat
  BY DEF IInv, ServerInv
<1>2. PICK a \in Assignments : ServedBy(d, s, a)
  BY <1>1 DEF NodesOK
<1>3. /\ ServerInv(e, {}) /\ DOMAIN e.nodes = DOMAIN d.nodes \ {s}
      /\ Holder(e, a) = None
      /\ \A b \in Assignments \ {a} : Holder(e, b) = Holder(d, b)
  <2>1. ServerInv(e, {}) /\ e.nodes = Without(d.nodes, s)
    BY <1>1, <1>2, KillNodeInv
  <2>2. DOMAIN e.nodes = DOMAIN d.nodes \ {s}
    BY <2>1 DEF Without, Restrict
  <2> QED BY <1>1, <1>2, <2>1, <2>2, KillNodeHolder
<1>4. Holder(d, a) # None
  BY <1>1, <1>2, HolderIs, DomainAssumption DEF NodesOK
<1>5. ServerInv(server, {})' /\ \A b \in Assignments : Holder(server, b)' = Holder(e, b)
  BY <1>3 DEF ServerInv, Known, QueueOK, NodesOK, Placed, Queued, Served, ServedBy, Holder
<1>6. IInv'
  BY <1>3, <1>5 DEF IInv
<1>7. Holders' = [Holders EXCEPT ![a] = None]
  BY <1>3, <1>5 DEF Holders
<1>8. Pool!Release(a)
  BY <1>4, <1>7 DEF Pool!Release, Holders
<1> QED BY <1>6, <1>8 DEF Pool!Next

\* A client connects with an assignment it was given, and takes it
LEMMA ConnectStep ==
    ASSUME IInv, NEW m \in wire, ProcessConnectRequest(m),
           \A n \in wire' : n.client \in Clients
    PROVE  IInv' /\ (Pool!Next \/ UNCHANGED Holders)
<1> DEFINE d == server  u == m.id  s == sessions + 1
           places == Matching(d, d.pending[u], m.type)
<1>1. /\ ServerInv(d, {}) /\ sessions \in Nat /\ m.client \in Clients
      /\ \A t \in DOMAIN d.nodes : t \in 1 .. sessions
  BY DEF IInv
<1>2. CASE ~(u \in DOMAIN d.pending /\ places # {})
  BY <1>2, QuietStep DEF ProcessConnectRequest
<1>3. CASE u \in DOMAIN d.pending /\ places # {}
  <2> DEFINE i == CHOOSE x \in places : TRUE
  <2>1. /\ i \in places /\ server' = Connect(d, m.client, u, i, s) /\ sessions' = s
    BY <1>3 DEF ProcessConnectRequest
  <2> HIDE DEF i
  <2> DEFINE a == d.unfulfilled[i]  q == Dequeue(d, u, i)
             e == AddNode(q, s, [client |-> m.client, assignment |-> d.uuid[a]])
  <2>2. i \in 1 .. Len(d.unfulfilled) /\ d.uuid[a] = d.pending[u]
    <3>1. d.unfulfilled \in Seq(Assignments)
      BY <1>1 DEF ServerInv, QueueOK
    <3>2. DOMAIN d.unfulfilled = 1 .. Len(d.unfulfilled)
      BY <3>1, LenProperties
    <3> QED BY <2>1, <3>2 DEF Matching
  <2>3. /\ a \in Assignments /\ ServerInv(q, {a}) /\ q.uuid = d.uuid /\ q.nodes = d.nodes
        /\ Holder(d, a) = None
    BY <1>1, <2>2, DequeueInv
  <2>4. server' = e
    BY <2>1, <2>2 DEF Connect
  <2> HIDE DEF a, q
  <2>5. s \notin DOMAIN q.nodes /\ s \in Nat
    BY <1>1, <2>3
  <2>6. /\ ServerInv(e, {})
        /\ DOMAIN e.nodes \subseteq DOMAIN d.nodes \cup {s}
        /\ Holder(e, a) = m.client
        /\ \A b \in Assignments \ {a} :
                Holder(e, b) = IF Holder(q, b) = m.client THEN None ELSE Holder(q, b)
    <3> DEFINE f == AddNode(q, s, [client |-> m.client, assignment |-> q.uuid[a]])
    <3>1. f = e
      BY <2>3
    <3>2. /\ ServerInv(f, {})
          /\ DOMAIN f.nodes \subseteq DOMAIN q.nodes \cup {s}
          /\ Holder(f, a) = m.client
          /\ \A b \in Assignments \ {a} :
                Holder(f, b) = IF Holder(q, b) = m.client THEN None ELSE Holder(q, b)
      <4> HIDE DEF Assignments, s
      <4> QED BY <1>1, <2>3, <2>5, AddNodeInv
    <3> HIDE DEF e, f
    <3> QED BY <2>3, <3>1, <3>2
  <2>7. \A b \in Assignments : Holder(q, b) = Holder(d, b)
    BY <2>3 DEF Holder, ServedBy
  <2> HIDE DEF e
  <2>8. ServerInv(server, {})' /\ \A b \in Assignments : Holder(server, b)' = Holder(e, b)
    BY <2>4, <2>6
       DEF ServerInv, Known, QueueOK, NodesOK, Placed, Queued, Served, ServedBy, Holder
  <2>9. IInv'
    BY <1>1, <2>1, <2>4, <2>5, <2>6, <2>8 DEF IInv
  <2>10. Pool!Take(a, m.client)
    BY <2>3, <2>6, <2>7, <2>8 DEF Pool!Take, Holders
  <2> QED BY <1>1, <2>3, <2>9, <2>10 DEF Pool!Next
<1> QED BY <1>2, <1>3

\* An assignment is handed out: nobody holds it yet
LEMMA DeployStep ==
    ASSUME IInv, NEW m \in wire, ProcessRequestAssignment(m),
           \A n \in wire' : n.client \in Clients
    PROVE  IInv' /\ UNCHANGED Holders
<1> DEFINE places == Deployable(server, wants[m.client])
           i == CHOOSE x \in places : \A j \in places : x <= j
<1>1. CASE places = {}
  BY <1>1, QuietStep DEF ProcessRequestAssignment, serverVars
<1>2. CASE places # {}
  <2>1. ServerInv(server, {}) /\ server.unfulfilled \in Seq(Assignments)
    BY DEF IInv, ServerInv, QueueOK
  <2>2. places \subseteq 1 .. Len(server.unfulfilled) /\ Len(server.unfulfilled) \in Nat
    BY <2>1, LenProperties DEF Deployable
  <2>3. \E x \in places : \A j \in places : x <= j
    <3> DEFINE less == OpToRel(<, Nat)
    <3>1. places \subseteq Nat
      BY <2>2
    <3>2. IsWellFoundedOn(less, Nat)
      BY NatLessThanWellFounded
    <3>3. \A x, y \in Nat : <<y, x>> \in less <=> y < x
      BY DEF OpToRel
    <3> HIDE DEF places, less
    <3>4. PICK x \in places : \A y \in places : ~(<<y, x>> \in less)
      BY <1>2, <3>1, <3>2, WFMin
    <3>5. ASSUME NEW y \in places PROVE x <= y
      <4>1. x \in Nat /\ y \in Nat
        BY <3>1
      <4>2. ~(y < x)
        BY <3>3, <3>4, <4>1, Zenon
      <4> QED BY <4>1, <4>2
    <3> QED BY <3>5
  <2>4. i \in 1 .. Len(server.unfulfilled)
    BY <2>2, <2>3
  <2> DEFINE e == Deploy(server, i, connectUUIDs + 1)
  <2>5. server' = e /\ sessions' = sessions
    BY <1>2 DEF ProcessRequestAssignment
  <2> HIDE DEF i
  <2>6. /\ ServerInv(e, {}) /\ e.nodes = server.nodes
        /\ \A b \in Assignments : Holder(e, b) = Holder(server, b)
    BY <2>1, <2>4, DeployInv
  <2> HIDE DEF e
  <2>7. ServerInv(server, {})' /\ \A b \in Assignments : Holder(server, b)' = Holder(e, b)
    BY <2>5, <2>6
       DEF ServerInv, Known, QueueOK, NodesOK, Placed, Queued, Served, ServedBy, Holder
  <2>8. IInv'
    BY <2>5, <2>6, <2>7 DEF IInv
  <2> QED BY <2>6, <2>7, <2>8 DEF Holders
<1> QED BY <1>1, <1>2

\* The server starts anew, and nobody holds anything
LEMMA RestartStep ==
    ASSUME IInv, RestartServer
    PROVE  IInv' /\ Pool!Next
<1> DEFINE e == Start(server.uuid)
<1>1. /\ ServerInv(e, {}) /\ DOMAIN e.nodes = {} /\ \A a \in Assignments : Holder(e, a) = None
  BY StartInv DEF IInv, ServerInv, Known
<1> HIDE DEF e
<1>2. server' = e /\ sessions' = sessions /\ wire' = wire
  BY DEF RestartServer, e
<1>3. ServerInv(server, {})' /\ \A b \in Assignments : Holder(server, b)' = Holder(e, b)
  BY <1>1, <1>2 DEF ServerInv, Known, QueueOK, NodesOK, Placed, Queued, Served, ServedBy, Holder
<1>4. IInv'
  BY <1>1, <1>2, <1>3 DEF IInv
<1>5. Pool!ReleaseAll
  BY <1>1, <1>3 DEF Pool!ReleaseAll, Holders
<1> QED BY <1>4, <1>5 DEF Pool!Next

\* Every step keeps the invariant, and is a step of the pool or leaves it alone
LEMMA NextStep ==
    ASSUME IInv, [Next]_vars
    PROVE  IInv' /\ (Pool!Next \/ UNCHANGED Holders)
<1> USE DEF Send, Receive, Packet
<1>0. \A m \in wire : m.client \in Clients
  BY DEF IInv
<1>1. CASE UNCHANGED vars
  BY <1>0, <1>1, QuietStep DEF vars
<1>2. ASSUME NEW c \in Clients, ClientSteps(c) \/ RestartClient(c)
      PROVE  IInv' /\ UNCHANGED Holders
  <2>1. CASE SendAssignmentRequest(c)
    BY <1>0, <2>1, QuietStep DEF SendAssignmentRequest, serverVars
  <2>2. CASE CheckInWithDomainServer(c)
    BY <1>0, <2>2, QuietStep DEF CheckInWithDomainServer, serverVars
  <2>3. CASE Stop(c)
    BY <1>0, <2>3, QuietStep DEF Stop, serverVars
  <2>4. CASE server' = server /\ sessions' = sessions /\ wire' = wire
    BY <1>0, <2>4, QuietStep
  <2> QED
    BY <1>2, <2>1, <2>2, <2>3, <2>4 DEF ClientSteps, HandleCreateAssignment,
       DeleteAssignment, AssignmentCompleted, RestartClient, serverVars
<1>3. ASSUME NEW m \in wire, ServerReceives(m) \/ ClientReceives(m) \/ Lose(m)
      PROVE  IInv' /\ (Pool!Next \/ UNCHANGED Holders)
  <2>1. CASE ProcessRequestAssignment(m)
    <3>1. \A n \in wire' : n.client \in Clients
      BY <1>0, <2>1 DEF ProcessRequestAssignment
    <3> QED BY <2>1, <3>1, DeployStep
  <2>2. CASE ProcessConnectRequest(m)
    <3>1. \A n \in wire' : n.client \in Clients
      BY <1>0, <2>2 DEF ProcessConnectRequest
    <3> QED BY <2>2, <3>1, ConnectStep
  <2>3. CASE ProcessListRequest(m)
    <3>1. \A n \in wire' : n.client \in Clients
      BY <1>0, <2>3 DEF ProcessListRequest
    <3> QED BY <2>3, <3>1, QuietStep DEF ProcessListRequest, serverVars
  <2>4. CASE ProcessNodeDisconnectRequest(m)
    <3>1. \A n \in wire' : n.client \in Clients
      BY <1>0, <2>4 DEF ProcessNodeDisconnectRequest
    <3> QED BY <2>4, <3>1, QuietStep, KillStep DEF ProcessNodeDisconnectRequest
  <2>5. CASE ClientReceives(m) \/ Lose(m)
    BY <1>0, <2>5, QuietStep DEF ClientReceives, ReceiveCreateAssignment,
       ProcessDomainList, Lose, serverVars
  <2> QED BY <1>3, <2>1, <2>2, <2>3, <2>4, <2>5 DEF ServerReceives
<1>4. ASSUME NEW s \in DOMAIN server.nodes, RemoveSilentNode(s) PROVE IInv' /\ Pool!Next
  BY <1>0, <1>4, KillStep DEF RemoveSilentNode
<1> QED BY <1>1, <1>2, <1>3, <1>4, RestartStep DEF Next

LEMMA InitInv == Init => IInv /\ Pool!Init
<1> SUFFICES ASSUME Init PROVE IInv /\ Pool!Init
  OBVIOUS
<1> DEFINE uuid == [a \in Assignments |-> <<a, 0>>]  e == Start(uuid)
<1>1. uuid \in [Assignments -> AssignmentUUIDs] /\ \A a \in Assignments : uuid[a][1] = a
  OBVIOUS
<1> HIDE DEF uuid
<1>2. ServerInv(e, {}) /\ DOMAIN e.nodes = {} /\ \A a \in Assignments : Holder(e, a) = None
  BY <1>1, StartInv
<1> HIDE DEF e
<1>3. server = e /\ sessions = 0 /\ wire = {}
  BY DEF Init, e, uuid
<1> QED BY <1>2, <1>3 DEF IInv, Pool!Init, Holders

-----------------------------------------------------------------------------
LEMMA InvariantMeansQueuedOrServed == IInv => QueuedOrServed
<1> SUFFICES ASSUME IInv PROVE QueuedOrServed
  OBVIOUS
<1> DEFINE q == server.unfulfilled
<1>1. QueueOK(server) /\ NodesOK(server) /\ Placed(server, {})
  BY DEF IInv, ServerInv
<1>2. q \in Seq(Assignments) /\ DOMAIN q = 1 .. Len(q)
  BY <1>1, LenProperties DEF QueueOK
<1>3. IsInjective(q)
  BY <1>1, <1>2 DEF QueueOK, IsInjective
<1>4. \A a \in Assignments : a \in Range(q) <=> Queued(server, a)
  BY <1>2 DEF Range, Queued
<1> QED BY <1>1, <1>3, <1>4 DEF QueuedOrServed, Placed, Served, NodesOK

(***************************************************************************)
(* No assignment is lost or given away twice, whatever becomes of packets, *)
(* clients and the server: the queue and the nodes divide the assignments  *)
(* between them (deployableAssignmentForRequest,                           *)
(* dequeueMatchingAssignment, nodeKilled).                                 *)
(***************************************************************************)
THEOREM QueuedOrServedAlways == Safe => []QueuedOrServed
<1>1. Init => IInv
  BY InitInv
<1>2. IInv /\ [Next]_vars => IInv'
  BY NextStep
<1>3. IInv => QueuedOrServed
  BY InvariantMeansQueuedOrServed
<1> QED BY <1>1, <1>2, <1>3, PTL DEF Safe

(***************************************************************************)
(* The handlers of the domain server implement AssignmentPool: killing a   *)
(* node releases its assignment, a connection takes a free one and gives   *)
(* up the client's old one, a restart releases all, and nothing else       *)
(* changes who holds what.                                                 *)
(***************************************************************************)
THEOREM PoolImplemented == Safe => ImplementsPool
<1>1. Init => IInv /\ Pool!Init
  BY InitInv
<1>2. IInv /\ [Next]_vars => IInv' /\ [Pool!Next]_Holders
  BY NextStep
<1> QED BY <1>1, <1>2, PTL DEF Safe, ImplementsPool, Pool!Spec
=============================================================================
