# A verification development of overte-hs

TLA+ models of overte-hs, a single executable that runs all servers of an
Overte domain, checked with TLC on small instances and, where stated, proved
with TLAPS for every value of the constants. The code under `src/` is the only
reference; lines are cited as `file:line`, with `udt/` for
`src/libraries/networking/src/udt/`.

The development covers four parts of the system: the reliable transport of
`udt/`, on which every server rests, up to the asset client's callbacks; how the domain server and the assignment
clients share out the assignments; the asset server's mappings and files; and
`overte-server` itself, its supervisor with the data directory and the entity
server's persistence. The rest is inventoried below and planned.

To run a check: `tlc -config X.cfg M` for the pairs in the table of runs; to
check the proofs: `tlapm M.tla` for each of `LossList_proofs`, `SendQueue_proofs`,
`PacketQueue_proofs`, `Connection_proofs`, `AssetClient_proofs`, `Domain_proofs`,
`AssetServer_proofs` and `OverteServer_proofs`.

## 1. The system and its parts

| Part | Code | State | Operations |
| --- | --- | --- | --- |
| Supervisor | `overte-server/src/main.cpp` | pids, `alive`, `stopping`, `g_stopRequested` | parse the ports, prepare the data directory, fork a process per server, forward signals, reap, stop the rest when one dies |
| Data directory | same | files below `data/`, the legacy tree | migrate, seed default files, move |
| Domain server | `domain-server/src/` | nodes, pending connections, assignment queue, settings | connect requests, list requests, assignment requests, settings |
| Assignment clients | `assignment-client/src/`, `ThreadedAssignment` | the running assignment | request, start, finish, stop |
| Audio, avatar, messages, entity, entity-script, asset servers | `assignment-client/src/*` | per server | their packet handlers |
| Octree persistence | `libraries/octree/src/OctreePersistThread.cpp` | the tree, the file, backups, a pending replacement | load, persist, replace |
| Node lists | `LimitedNodeList`, `NodeList`, `DomainHandler` | node hash, sockets, connection IDs, check-in state | add, replace, kill, ping, check in |
| Asset client | `AssetClient` | pending requests of four kinds, by node and message ID | request, handle replies, cancel, fail |
| Packet receiver | `PacketReceiver`, `ReceivedMessage` | messages being received, listeners | dispatch packets, messages, failures |
| Socket | `udt/Socket.cpp` | hash of Connections, unfiltered handlers | read datagrams, write packets, make and destroy Connections |
| Connection | `udt/Connection.cpp` | both directions of one reliable connection | see below |
| Send queue | `udt/SendQueue.cpp`, `PacketQueue.cpp` | packets to send, sent and unacknowledged; a thread of its own | see below |
| Loss list, sequence numbers | `udt/LossList.cpp`, `SequenceNumber.*` | ranges of numbers | see below |
| Congestion control | `udt/TCPVegasCC.cpp` | window, RTT estimates | on ACK, on send, on timeout |

Interaction. The supervisor forks the servers and only ever signals and reaps
them. The servers are peers on UDP: each has one `NodeList` and one `Socket`;
the domain server tells them of one another. A server writes a packet or a
packet list through `NodeList` to `Socket`, which sends it unreliably or hands
it to the `Connection` of its destination. A `Connection` owns at most one
`SendQueue`, made at the first reliable packet and destroyed after five idle
seconds; the queue has a thread of its own. Everything that is received is
processed on the Socket's thread, which also runs the `Connection`: it answers
data with ACKs, gives ACKs to the `SendQueue`, and passes packets, or the parts
of a message in their order, to `PacketReceiver`. `NodeList` has `Socket`
destroy the Connection of a node it kills, on one end only.

What is hard here:

* Two threads share each `SendQueue` through two locks, three atomics and a
  condition variable notified without its lock.
* The network loses, repeats, delays and reorders; ACKs are sent once each.
* Either end of a connection can vanish and be made again while the other does
  not know it; only the `HandshakeRequest` packet tells.
* Sequence numbers wrap, and are compared by distance.
* The thread that serves every connection waits for a queue's thread to end.
* The domain server and its clients each fall silent, restart and time out
  without the other's knowledge; a client is itself three threads.
* Files and the maps that name them are changed in several steps, any of which
  may fail or be the last before a crash: `map.json` and the assets, the octree's
  file, its backup and its replacement, the legacy tree and the data directory.
* Signals arrive while processes are being forked, and any process may die at any point.

What makes each part correct, whether or not it is modelled yet:

* Sequence numbers: within the threshold, order and length are those of the true distance.
* Loss list: it behaves as the set of its numbers, and stays sorted and disjoint.
* Receiver: it misses exactly what it records as missing, never ACKs over a gap,
  hands every message part over in order, once, without delay.
* Send queue: what is not ACKed can still be sent; nothing is sent that is not its own;
  the window holds; it drains, and it stops.
* Packet queue: FIFO within a message, no starvation between messages.
* Connection, end to end: at most once; what the sender forgets was delivered; everything is settled.
* Socket: a Connection is never used after it is destroyed; one address has one Connection.
* Packet receiver: a message reaches one listener, whole or reported failed; handler and network do not race.
* Asset client: every request is answered, once, with the whole reply or with a failure.
* Node list: one node per UUID and socket; a killed node's connections are gone; no stale connection ID accepted.
* Domain server: an assignment is with at most one client, and is queued again when that one dies.
* Supervisor: no server outlives it; an unexpected exit stops the rest; a stop is never lost.
* Data directory: a crash in migration or seeding loses no data and the next start completes it.
* Octree persistence: at every crash there is a complete file; every edit is eventually in it.
* Asset server: the mapping on disk and in memory agree, also when a save fails.

`PROJECT.json` lists every component with what is modelled of it, and the
hazards of the code at their lines with the properties that watch them.

## 2. The modules

    SequenceNumber  <-  LossList  <-  ConnectionReceive  <-  MCConnectionReceive  <-  MCAssetClient
          ^                ^  ^              ^----  AssetClient  <-  AssetClient_proofs
          |                |  '----  SendQueue  <-  SendQueue_proofs       |
          |                '-------  MCLossList  -- implements -->  LossSet |
          |                               ^-----  LossList_proofs  <-------'
          '----  Connection   <-  Connection_proofs
    PacketQueue               -- implements -->  MultiFifo
      ^----  PacketQueue_proofs
    Domain                    -- implements -->  AssignmentPool
      ^----  MCDomain, Domain_proofs
    AssetServer   <-  MCAssetServer, AssetServer_proofs
    Supervisor, OctreePersist  <-  OverteServer  <-  OverteServer_proofs

`<-` is EXTENDS. Names are the code's wherever TLA+ allows. An operator whose
name says what it lacks (`FindsUnchecked`, `EnqueueWithoutSorting`,
`IsFlowWindowFullOffByOne`, `RestartsLate`, `StopsOthersNever`, ...) stands
directly before the operator it varies and is used by no action: each is a bug
one could make there, and substituting it makes TLC violate the property listed
for it under "mutants" in `PROJECT.json`.

**SequenceNumber** (`SequenceNumber.h`, `.cpp`). One operator per C++ operator,
for values `0 .. MAX`. `operator-=` is modelled as it is, two too low below
zero (`0 - 1` is `MAX - 2`). The ring is scaled down: `MAX = 2 * THRESHOLD + 1` is what the properties
need of the two constants of the header. What its operators return is checked and
proved in MCLossList, about the numbers a list may hold.

**LossList** (`LossList.cpp`). The list of ranges with its separately kept
length, and each method as a function from list to list (`AppendOne`,
`AppendRange`, `InsertRange`, `RemoveOne`, `RemoveRange`, `PopFirst`). A loop over the
ranges is a function of the turn (`Extended`, `Cut`).
**LossSet** is what it promises: the same calls on a set.

**ConnectionReceive** (`Connection.cpp`: `sendHandshakeRequest`,
`processReceivedSequenceNumber`, `nextACK`, `sendACK`, `queueReceivedMessagePacket`,
`processHandshake`, `resetReceiveState`; `PendingReceivedMessage`). One action per kind of
datagram, since all of it runs on the Socket's thread, one datagram at a time.
The peer's packets are the constant `Plan`; any of them may come at any time.

**AssetClient** (`PacketReceiver.cpp`, `ReceivedMessage.cpp`, `AssetClient.cpp`, and of
`LimitedNodeList.cpp` the killing of a node) puts what uses a Connection on top of
ConnectionReceive. Two threads: an event on the NodeList's thread (a packet, a
handshake, a kill) leaves the calls it makes in `calls`, and `Call` takes them one at
a time, so that setting `_isComplete` and emitting `completed` are two steps;
what is emitted or invoked goes to `events`, which the AssetClient's thread takes in order.
`handleAssetGetReply` is two steps (`BeginGetReply`, `FinishGetReply`), with its test
of `isComplete` in the second, and so is sending a request. A request that cannot be
sent is answered with a failure on the spot (`FailToSendRequest`). A disconnected message
emits nothing more, but what it posted before is still delivered, as Qt does. The
asset server is external: it answers each request at most once.

**SendQueue** (`SendQueue.cpp` and the sending half of `Connection.cpp`). The
state of the queue, of its thread (`pc`) and of the Connection's thread
(`cpc`). Between any two actions the other thread may take any number of steps. A
lock region is several actions where it reads an atomic that is written without the lock. In
particular: `run()`
tests `_state` and sets it in two steps; a new packet is written (`Transmit`),
then stored (`Insert`); `ack()` erases, prunes `_naks`, stores and notifies in
four steps. `isInactive` looks at the queues (`CheckInactive`), at what is ACKed
(`ChooseWait`) and waits (`Park`), all under both locks, and a notification before the wait, sent without the
lock, does not reach the waiter; after a timeout it looks at the queues again (`AckTimeout`), loads
`_lastACKSequenceNumber` to see whether something is not ACKed (`CheckStuck`), and loads it once more for the range
it asks for (`AppendUnacked`). Reporting inactivity and stopping are two
steps after the locks are released. `isFlowWindowFull` is evaluated at one moment: of its two atomics one
is only written by the evaluating thread. The receiver is reduced to the numbers it
has and the ACKs on their way.

**PacketQueue** (`PacketQueue.cpp`, `PacketList::preparePackets`). The channels,
the cursor and the count of channels visited; `takePacket` with the erasing of
emptied channels. `Recreate` is a queue stopped and made again. **MultiFifo** is
what it promises: one FIFO per message, served in some order.

**Connection** (both ends of `Connection.cpp` with a network). The
composition: the sending Connection with its queue reduced to what the other end
can tell (any unacknowledged packet may be sent again at any time), the
receiving Connection with its loss list as the set it was shown to be, and
`wire`, a set from which a datagram may arrive, late, repeatedly, out of
order, or never. When an end is destroyed or reset, what is in `wire` is in `late` from then on;
the code does nothing against a late datagram, so it may arrive as well, `MaxLate` times in all. Either end is destroyed and made again
(`CleanupSender`, `CleanupReceiver`, for `Socket::cleanupConnection`), and
`HandshakeRequest` resets the sender. The two directions of a connection share
no state but the address and are modelled one at a time.

**Domain** (`DomainServer.cpp`, `DomainGatekeeper.cpp`, `AssignmentClient.cpp`,
`ThreadedAssignment.cpp`, parts of `LimitedNodeList.cpp` and `NodeList.cpp`). The
domain server's tables (`allAssignments`, `_unfulfilledAssignments`,
`_pendingAssignedNodes`, the nodes) are one record, and each packet handler a
function of it: `Deploy` takes the first assignment that matches and puts it at the
back of the queue, `Connect` takes it off when a client connects with the UUID
it was given, `KillNode` puts it back under a fresh UUID. A client's three
threads are its `phase`, its `posted` packets and its check-ins. Any datagram may
be late, out of order or lost, either side may restart, and a timer may run out
while the answer is still under way. **AssignmentPool** is what the
server promises: an assignment is free or with one client, and changes hands only by being free.

**AssetServer** (`AssetServer.cpp`, `UploadAssetTask.cpp`, `BakeAssetTask.cpp`).
`server` holds the map in memory, the one in `map.json`, the files and the
pending bakes. A handler is the set of its outcomes (`SetMapping`,
`DeleteMappings`, `RenameMapping`, `SetBakingEnabled`, `FailedBake`,
`CompletedBake`, `Loaded`), nested writes and their failures included;
`Becomes` takes one of them, or lets the server die when the map was written and only some of
the files were removed. Uploads and bakes run beside. `deleteMappings` and `removeBakedPathsForDeletedAsset` call one
another for as long as a deleted folder leaves a file without a mapping: `Removals` is the least set of folders closed under
that, with the files that cannot be removed and the folders whose deletion cannot be written down as the places where it stops.
`lost` remembers the files that a failed upload has taken away.

**Supervisor** (`overte-server/src/main.cpp`: `flagSupervisor`, `runChildren`).
One action per step of the supervisor's loop, and what the kernel does with
children whose parent died before or after they asked to be told. A child comes up in three steps: it asks to be told of its
parent's death (`Arm`), its `ShutdownEventListener` catches SIGTERM (`Listen`), and its event loop runs (`Exec`). Told before
the second it dies, told after the third it leaves its loop; told in between it is *deaf*: the handler's `quit()` finds no loop, and `exec()` then
runs as if nothing had happened. The
supervisor tells it only once.
**OctreePersist** (`main.cpp`: migration and seeding;
`OctreePersistThread.cpp`, `Octree::writeToJSONFile`) has one action per file
operation: a crash may fall between any two. Which old backups are removed at a start (`RemoveOldBackups`) is left open, but for the newest.
**OverteServer** composes them: the
data directory is set up by the supervisor's process, the persist thread runs in the
entity server it forks, and each ends with its process.

### Abstractions

* Payloads are the order they were sent in; packets otherwise differ by their
  sequence numbers. Headers, obfuscation of packets resent many times, statistics and logging are left out.
* Real time: a timeout may fire at any time its wait is entered. The packet
  send period only delays, so it is left out. `try_lock` in `isInactive` failing is
  another turn of the loop; spurious wake-ups add no step that the timeouts do not.
* Congestion control is a constant window, any of a given set, and the freedom to ask for a fast
  retransmit whenever `TCPVegasCC::onACK` might: at the third duplicate ACK, or when
  the packet after the ACK was sent.
* In Connection, `QueueInactive` is one step: what happens between its parts is the subject of SendQueue.
* Domain: every assignment has a type of its own, as those the domain server
  makes by default have, so that no node of a solo type is displaced. UUIDs are drawn in order.
* AssetServer: a bake is one file and its meta file, and of the files an oven leaves that is the one a request is
  redirected to, or one of no use. A user may upload the very content of a bake: in the instance the second content is what the first bakes to. Textures, which are baked only
  once a meta file exists, are not among the bakeable paths, and the version of a bake is
  the present one. Folders cannot be renamed: `isValidFilePath` refuses a
  trailing slash before `renameMapping` gets there. The failures of one clean-up count as one. A meta file that is opened is written
  whole (`AssetServer.cpp:1559` looks at nothing). A crash between the writes of the map by two nested handlers
  is a failed write followed by a crash, and so costs one of the `MaxFaults`.
* OctreePersist: a world is where it came from and how often it was edited. Backups differ by age only in that one is the newest:
  the clock is taken to move forward, so that `cleanupOldReplacementBackups`, which keeps 20 files or 50 MB counted from the newest, keeps that one.
* Supervisor: it is started again only when nothing of the last run is left. The code does not test that; `main.cpp:484` asks for it
  ("only safe to run once, before any other process of the same data dir is alive"). A server that leaves its loop comes to its end; that its
  own shutdown may hang (run `sendQueueStopLost` shows one way) is left out.
* New initial sequence numbers do not repeat (27 random bits in the code). In
  Connection none wraps, see run `receiveWrap` for why that matters, and all lie within half of the ring, so that of two Connections'
  numbers one's are all above the other's.

## 3. The runs

| Run | Module, cfg | Question | Bounds |
| --- | --- | --- | --- |
| `lossList` | MCLossList | Does every history of calls that respect the assertions do what it would to a set? Are order, length and offset those of the true distance, on both sides of the wrap? | 6 consecutive numbers: three ranges with gaps, so that insertion can fall before, between, across and after ranges and join two; a ring of 16, every distance up to the threshold |
| `receive` | MCAssetClient, AssetClient | Is exactly the missing recorded as missing, no gap ACKed, every message in order, once, without delay? Is every request answered once, with the whole reply or a failure, and in the end? | 5 packets of two interleaved messages, any order with repetitions, two handshakes, destruction; a get and an upload, cancelled or not, the server's node killed and added again |
| `sendQueue` | SendQueue | Do the two threads keep every unACKed packet, nothing stale, nothing unsent, within the window? Does the queue drain, and does a stop complete? | 2 packets, window 1 or 2 (so it fills), one loss or failed write, idleness, destruction; 103 thousand states |
| `packetQueue` | PacketQueue | FIFO in each message, no starvation, cursor always on a packet, message numbers distinct? | 5 lists of up to 3 packets, 3 lone packets, 3 channels at once (so the limit bites), 5 message numbers (so they wrap when a queue is made again) |
| `connection` | Connection | At most once, nothing forgotten undelivered, every packet settled? What of that holds when a datagram outlives a reset? | 3 packets, window 2, two initial numbers, the receiver destroyed twice and the sender once, no bound on losses, repetitions, delays; one late datagram taken; 185 thousand states |
| `domain` | MCDomain, Domain | Is every assignment queued or served by one node, does it change hands only through the queue, is it served in the end, does no client get stuck? | 2 assignments, 2 clients; one fault (loss, restart, early timeout), two when both want the same |
| `assetServer` | MCAssetServer, AssetServer | Are mapped files kept, bakes never mapped without a file, leftovers removed by the next setup? | 2 assets, the second being what the first bakes to, 2 paths, one bakeable; one failed write, removal or upload, any number of crashes; 498 thousand states |
| `overteServer` | OverteServer | Is what was saved still there after any crash, is every edit saved, does everything stop that a signal reaches, and nothing stay behind? | 2 servers, 2 launches, 2 edits, one failed file operation, any backups, deaths and signals without bound; 881 thousand states |
| `sendQueueStopLost` | SendQueue | *violation*, see 4.1 | as `sendQueue`, window 2 |
| `sendQueueInactive` | SendQueue | *violation*, see 4.2 | 3 packets, window 2 |
| `sendQueueInverted` | SendQueue | *violation*, see 4.4 | 3 packets, window 2 |
| `receiveWrap` | MCConnectionReceive, ConnectionReceiveWrap | *violation*, see 4.3 | as `receive`, numbers that cross zero |

Why the bounds suffice. All interaction between packets is through order and
adjacency of their numbers: a gap needs three, a gap within a gap five. The
threads of SendQueue share one packet at a time; with two packets and a window of one or two there is
one acknowledged or on its way and one on its way or waiting at once, and the window is both full and not. A loss makes a timeout, a fast retransmit and a resend; a second one
repeats the first. In Connection losses cost nothing, since a datagram need
never arrive; one late datagram is enough for each of the exceptions that its properties make. For every safety property of `receive`, `sendQueue`, `packetQueue` and
`connection` the bounds fall away with the proofs of section 5.

Two assets are enough to share a hash between two paths and to be baked at the same time
as another is deleted; two clients and two assignments, to compete for one assignment
and to hold the wrong one; two servers, for one to fail while the other runs. One fault is any single
failure at any point, of any kind, with crashes of the asset server and of every process
of overte-server free beside it. For all but the liveness properties of `domain`, `assetServer`
and `overteServer`, the bounds fall away with the proofs of section 5.

`CHECK_DEADLOCK FALSE` stands in the configurations of SendQueue, Connection, AssetClient and OverteServer
only: there the system may really come to rest, when the application has sent
what it may (`NumPackets`, `MaxPackets`) and a closed Connection is gone, when the asset
server is not in the node list any more (`MaxNodes`), or when
the supervisor has ended as often as it is started (`MaxLaunches`).

### Fairness

*SendQueue.* `WF(SendThread)`: the operating system runs the queue's thread, and
its waits all have timeouts (100 ms, 5 s, or the estimated timeout). The
Connection's thread gets *strong* fairness, `SF(Connection)`, because
what it waits for is a mutex the queue's thread releases whenever it waits or
goes round its loop; nothing is said of which datagram or signal it takes first. `WF(Receive(seq))`: what is on the wire and not
among the `MaxLosses` dropped datagrams arrives. The application is never
obliged to send or to close.

*Connection.* The queue's thread runs (`SendHandshake`, `SendNewPacket`, each
`ResendPacket(m)`), and a datagram that is written again and again arrives at
some time: weak fairness of its reception while it is in `wire`, that is, since the last reset. Late
datagrams, cleanups, the inactivity timer and the application owe nothing.

*AssetClient.* Both threads go on with the event they are in and take the next that is posted.
Packets, handshakes, kills and cancels owe nothing: `DecidedIsAnswered` speaks of requests whose fate
is settled.

*Domain.* `Timely`: a client's timers and threads take their steps, provided
that what they would wait for is not under way; a packet that is not lost is handled in the end;
silent nodes are removed. A reception gets weak fairness per client and side, which is enough
as handling a packet is always possible. Faults owe nothing, and there are finitely many.

*OverteServer.* The supervisor's loop runs, with its sleeps; the persist
thread's file operations end; a child that was forked comes up; a server that SIGTERM has killed or whose loop it has
ended (`told`) comes to its end. A deaf server owes nothing, and the properties do not wait for it. Edits, signals, deaths and the next launch owe nothing.

*AssetServer* states safety only.

## 4. What the violations show

1. `sendQueueStopLost`. `SendQueue::run` tests `_state` for `Stopped` and assigns
   `Running` a few lines below; `stop()` on the other thread can come between
   and is overwritten. `stopSendQueue` then waits on the Socket's thread for a
   queue that waits for a handshake ACK which only the Socket's thread could
   receive. `StopCompletes` shows that every other stop completes, but for 4.
2. `sendQueueInactive`. Between the decision that a queue is idle, made under both
   locks, and the slot on the Connection's thread that destroys it, a packet can
   be queued; it is destroyed with the queue although the sender was told nothing.
3. `receiveWrap`. `operator-=` is two too low when it goes below zero: with `MAX = 15`, `0 - 1` is 13. In the trace the numbers start
   at 13; 13 arrives and is ACKed, and the next to arrive is 0. What is missing is 14 and 15; what `processReceivedSequenceNumber`
   appends to the loss list is the range from 14 to 13. That fails the assertion of `LossList::append`, "Range start greater than range end"
   (`udt/LossList.cpp:36`); in a release build it is an inverted range with a length of 16 and neither number in it. The ACK
   stays at 13, and 14 and 15 are refused as repeated when they come. In a longer gap the range is in order, and its last two numbers are
   left out of it. With 27-bit numbers and a
   random start this needs long connections or an unlucky draw; it is also why the
   other runs draw initial numbers whose packets do not wrap. An initial number of 0
   meets the same expression in `getSendQueue`.
4. `sendQueueInverted`. After a timeout `isInactive` loads `_lastACKSequenceNumber` to see whether something is not ACKed (`udt/SendQueue.cpp:535`),
   and loads it again to append the range from its successor to the current number (540). It holds `_naksLock`, but `ack()` stores
   the atomic without it (169). When the ACK of everything is stored in between, the range runs from `current + 1` to `current`: the
   assertion of 3 fails; in a release build the range has a length of `MAX + 1`, popping from it never empties it, and
   `maybeResendPacket` keeps looking for its numbers, finds none in `_sentPackets`, and neither sends nor returns. A `stopSendQueue` then waits
   for that thread for ever. `QueueDrains` and `StopCompletes` hold but for that.

Not shown by a run, but met on the way and in the models as it is:

* After a `HandshakeRequest` the sender starts again with the same initial
  number, and nothing tells a datagram of before from one after it. `connection` and the theorems about it say what holds all the same: no
  packet twice on one handshake, and the queue keeps what is not ACKed. They also say, by the condition `lateTaken = 0`, what does
  not: a late packet is taken for the one that has its number now, whose ACK makes the sender forget a packet that was never delivered;
  a late ACK fails the assertion of `Connection::processACK` (`udt/Connection.cpp:332`), and in a release build leaves the sender waiting; after the receiver was destroyed too, a late
  Handshake starts it again at numbers it has had, and their packets are delivered a second time. TLC finds each of these when the
  condition is dropped. They need a datagram that is older than a reset of its connection.
* After a failed write the queue's thread appends a number to `_naks` that a fast
  retransmit may just have inserted, which fails the assertion of `LossList::append`
  (`udt/LossList.cpp:20`).
* `processDomainList` takes any `DomainList`: a late one connects a client that
  runs one assignment as the node the server counts for another. `EveryAssignmentServed`
  is therefore stated for clients that each ask for one type, as those of
  overte-server do. In a debug build `assignmentCompleted`'s assertion can fail
  when a second `CreateAssignment` was handled between the assignment's deletion and its thread's end;
  in a release build the pointer is cleared all the same (`Completed`).
* When the asset server's Connection is made again and its handshake comes unasked, what was under way
  is reported as failed message by message. A reply of which nothing had been handed over, or which is delivered only
  whole (to a mapping, info or upload request), is dropped without a word, and its request stays
  pending until the node dies. `handleNodeClientConnectionReset`, which is "to cause anything pending to
  fail", does not fail uploads. `forceFailureOfPendingRequests` calls callbacks while it walks the
  map they may add to, and then clears it.
* The domain server's pending assignments never expire, and its local IDs are never
  given back: `findOrCreateLocalID` searches forever once 65 thousand sessions were
  seen. The comparator it sorts its queue with is true of two equal types, which
  `std::sort` does not allow.
* `AssetServer::renameMapping` cannot undo the overwriting of its destination when
  `map.json` is not written, and loses a path that is renamed to itself; a path
  that is not mapped is dereferenced. Disabling baking deletes the meta file and then marks
  the redirected name as not baked, which is not looked up any more, so that baking resumes; a bake that
  was running undoes it too. A server that could not read `map.json` still handles
  the requests it had queued, and writes their mappings over it.
* `OctreePersistThread::aboutToFinish`, which saves the tree, is called by nobody: a server that ends well
  loses what was edited since its last round (30 s). A file that could not be read is taken for an empty world,
  and saved over. `replaceData` ignores that the backup failed.
* A default file that was cut short by a crash is never seeded again.
* A server that exits with code 0 does not stop the others. When a fork fails `runChildren` returns before its loop (`main.cpp:742`), and the servers already
  started are only told by the death of the supervisor; one that had not yet
  called `prctl` is not told at all.
* A server that is told to stop between its `ShutdownEventListener` and `exec()` does not stop: `quit()` is called from the signal handler, when
  there is no loop to leave, and `exec()` starts afresh (`ShutdownEventListener.cpp:30`, `assignment-client/src/main.cpp:38`). The supervisor sends SIGTERM once and
  then waits in its loop (`main.cpp:781-834`). It happens when one server fails at once while the others are still coming up. `EverythingStops` excludes just these servers, and the supervisor's wait for them.
* If the supervisor inherits SIGCHLD ignored, a server that ends before `main.cpp:773` is never seen by `waitpid`, which returns -1 and
  leaves it alive in the supervisor's table: once it is stopping, its loop does not end.
* A user's upload of the content of a bake, when it fails, removes the file of the bake, and the request is then redirected to nothing
  (`UploadAssetTask.cpp:98`). `BakedFilesStored` excludes the files lost that way.

## 5. What is proved

For every value of the constants that meets the modules' assumptions:

* `LossList_proofs`: `OrderTheorem` and `LengthTheorem`, about the numbers
  within the threshold of any base: the number `k` steps after another is their sum on the ring
  (`IncIsNext`, `PlusOnRing`), and the comparisons and lengths follow by arithmetic;
  `AlwaysSortedDisjoint` and `LossSetImplemented`, about any history of calls on a window
  of up to `THRESHOLD` numbers that does not pass the wrap. These are all four properties of run `lossList`.
* `Connection_proofs`: `TypeCorrect`, `AtMostOnce`, `AckedDelivered` and `UnackedKept`, the type invariant and the three
  safety invariants of run `connection`, for any
  number of packets, cleanups and late datagrams, any initial numbers and any window.
* `SendQueue_proofs`: `UnackedKept`, `NothingStaleKept`, `OnlySentOnWire`, `AckNotBeyondSent` and
  `FlowWindowKept`, the five invariants of run `sendQueue`, for fewer than `THRESHOLD - 2` packets, any number of losses, failed
  writes and timeouts and any window, wherever on the ring the numbers start.
* `PacketQueue_proofs`: `CursorAlwaysOnPacket`, `AlwaysServedInTurn`, `SameNumberAlwaysApart`, `MessageNumbersAlwaysDistinct`
  and `MultiFifoImplemented`, for any lists, lone packets and channels. Service in turn needs a limit of at least
  two channels (the code's is 16): with one, only the main channel would ever be served. Distinct message numbers need
  that no more lists are queued at once than there are numbers.
* `AssetClient_proofs`: of ConnectionReceive, `LossListAlwaysAllMissing`, `AckAlwaysCoversReceived`, `AcksAlwaysAdvance`,
  `AlwaysInOrderOnce` and `AlwaysPendingUntilComplete`; of AssetClient on top of it, `AnsweredOnceAlways` and
  `AnsweredOnceAndWholeAlways`: for any messages, interleaved in any way `PacketList::preparePackets` could have
  numbered them (`PlanAssumption`), any requests, resets and nodes. All but `AnsweredOnceAlways` assume `NoneWraps`, that the numbers
  in use do not pass the end of the ring; run `receiveWrap` shows that they are false without it.
* `Domain_proofs`: `QueuedOrServedAlways` and `PoolImplemented`, for any assignments, clients and faults.
* `AssetServer_proofs`: `BakedFilesAlwaysStored`, `MappedFilesAreKept` and `SetupAlwaysCleans`, for any
  contents, paths, bakes and failures, finitely many or not.
* `OverteServer_proofs`: `WorldsAlwaysKept`, `CleanTreeIsAlwaysSaved` and `NoServerLeftBehind`,
  for any number of servers, launches, edits and failures. What `WorldsAlwaysKept` promises is the file and the newest backup; an older backup
  only until the code cleans it up, and a world whose rename or reading failed not at all.

*LossList.* `ListInv` says that the ranges are in order and apart (`SortedList`), that none wraps, and that
their length is the number of members, all of which are in the window; there the comparisons are those of the
integers (`WindowOrder`). What a method does is a lemma of its own: `AppendIsUnion`, `InsertIsUnion`, `RemoveIsDifference`,
`RemoveRangeIsDifference`. The loops need induction over the ranges, which goes by the least turn for which
the loop's invariant fails (`EveryTurn`); that the function of the turn exists goes the same way (`LoopRuns`).
For `insert` the invariant is `Grown` (the extended range covers what it swallowed and what is inserted, and nothing
that is neither); for `remove`, that the ranges up to the turn have lost just the numbers removed.

*Connection.* None of these is inductive. `Inv` adds what they rest on, in two parts. `Always` holds whatever late datagrams arrive:
`SenderInv` (the queue's numbers lie between the initial one and the number of
packets taken from it, and it holds exactly the unACKed ones), `NumberInv` (a packet keeps its number as long as datagrams of its Connection last, and no
number that was ever written wraps), `StateInv` and `OnceInv` (a packet that was delivered on the present handshake is neither above
the last received number nor in the loss list). `Fresh` holds while no late datagram was taken: `WireInv` (every
datagram since the last reset belongs to the present handshake, and an ACK covers no number of the loss list), `ReceiverInv` (a receiver in
step with the sender has received nothing above what was sent, and misses
nothing outside that range) and `HistoryInv` (a packet has been delivered if and
only if its number is neither above the last received one nor in the loss
list). `Invariance` has one step per
action, each with a step per part of `Inv` the action can disturb; most of the
work is in `ReceivePacket`, where the gap's numbers must be shown distinct from
the delivered ones, which rests on the assumption that no number in use wraps.

*SendQueue.* Near the wrap a later number may be the smaller one, so `Inv` compares no numbers but their
distances (`Dist`) from the one before the initial number; `DistIsOrder` turns the code's comparisons into arithmetic on them.
`ThreadInv` says what the two program counters and the state may be together, and that a queue is
only ever stopped when all it sent is ACKed, or by `~Connection`; `NumberInv`, that the last ACK the queue stored, the last one the Connection
received and the current number stand in that order, also between the steps of `ack()`; `SentInv`, that what was sent and not
ACKed is in `_sentPackets` or in the thread's hands; `NetInv`, that the network holds only what was sent.

*PacketQueue.* `QueueInv` says that only the main channel may be empty, that the cursor stands on a channel, and
that a message's number is its list's, modulo their count; `TurnInv` bounds how long the first two channels have waited by the channels visited since;
`OwnersInv`, that each channel behind the main one holds the rest of one list, and that later lists stand
behind earlier ones. The refinement maps a message's FIFO to what waits of it, wherever that is; a step takes the first of one FIFO,
adds a FIFO at the end, or changes none.

*ConnectionReceive and AssetClient.* `RemoveIsDifference` and `AppendIsUnion` of `LossList_proofs`, which
`AssetClient_proofs` extends for them alone, show that these methods act on `Members` as on a set, if the ranges are sorted; `RecordInv` then says what the loss list records, `AckInv` what the last ACK covers, and `OrderInv`
that a pending message has handed over exactly the parts before its next one. `IInv`
adds that the request whose reply is half handled is still in the map, and that a request about to be sent will have a fresh ID.
`WholeInv` ties the two layers together: what PacketReceiver holds of each message is what the Connection handed over,
minus the calls that are still queued, and a message that failed is never completed.

*The others.* Each of these proofs has an inductive invariant and one step per action.
`IInv` of Domain adds that every assignment is in the table under the UUID it has
(so that the death of its node finds it), that no two nodes share a client or an
assignment, and that session UUIDs are fresh. `Sound` of AssetServer says of both maps that
what a hidden path names is stored, or among the files an upload has lost, and that a meta file's path names a meta file, which no upload writes. The lemmas about
`Removals` say that what is removed is mapped by no map that is left. `SetupAlwaysCleans` rests on two facts: the faults counted only grow, and the clean-up that follows a
clean-up takes away nothing a mapping names, so that what the first made clean stays so. `WorldsInv` of OverteServer says where each owed world is at each
step: in a legacy file as long as there is no file, not in the legacy files once they are
about to be removed, and never in the file a step is about to overwrite, unless
it is the world the tree was read from. `SavingInv` ties what is being written to the tree
while no edit came. `KnowsRunning` says that a supervisor knows all that runs, whatever a signal has made of it, which rests
on its being started only when nothing does.

TLC finds each of these invariants to hold on the instance of its run as well.

Only model-checked: liveness (`QueueDrains`, `StopCompletes`, `EveryPacketSettled`, `DecidedIsAnswered`,
`EveryAssignmentServed`, `NoClientStuck`, `EverythingStops`, `EditsReachFile`),
which is beyond the prover.

## 6. What is not modelled, and the plan

Left out for good: rendering, physics, animation, codecs, the script engine, statistics,
the byte formats of packets, sockets themselves. The models stand on what those
do for the rest: the network that loses, repeats and reorders.

Of the modelled parts: users who connect to a domain, permissions, settings and content
backups, which are JSON and strings around one table lookup; assignments that are not static; connection IDs and
pings; the asset server's downloads, which only read, and the asset client's disk cache; the Windows build of overte-server.

Next, in this order:

1. **SendQueue with HandshakeRequest**: the reset of a running queue on the
   thread level, and the queued `queueInactive` that then meets a younger queue.
2. **ConnectionTable** (`udt/Socket.cpp`): the hash, its lock, writers on other threads,
   cleanup; address changes in the middle of a message.
3. The nodes that clients keep of one another (`NodeList`): connection IDs, pings, replacement.
4. The entity edit path: `OctreeInboundPacketProcessor`, `OctreeEditPacketSender` and their resends;
   the send thread of the entity server.
5. The window arithmetic of `TCPVegasCC`, with its integer widths.
6. An abstract **ReliableDelivery** (a FIFO of packets, at most once, discarded on a
   reset) and Connection shown to implement it.

Next to prove: the refinement of item 6.
