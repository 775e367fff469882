# maplang in TLA+

maplang runs graphs of nodes that hand packets to one another. A node's
implementation is a C++ object that handles packets (`IPathable`) or makes them
(`ISource`); a `DataGraph` connects nodes by edges, places implementations on
threads, and moves the packets. This directory holds TLA+ modules translated
from that code, the TLC configurations that check them, and proofs for TLAPS.

    tlc -workers 2 -config MCPacketRouting.cfg MCPacketRouting.tla
    tlapm PacketRoutingProofs.tla

and likewise for every other `MC*.cfg` and `*Proofs.tla`.

## 1. The system

| Component | State it keeps | Operations | Hard behaviour |
|---|---|---|---|
| Packet routing (`DataGraph.cpp`: `GraphPacketPusher`, `ThreadGroup`) | per thread group a lock-free queue and a `uv_async_t`; per node `lastReceivedParameters`; the call stacks of all threads | `pushPacket`, `sendPacket`, `packetReady`, `sendPacketToNode` | several producers against one callback, direct calls that re-enter the router, exceptions in the middle of a fan-out |
| Graph topology (`Graph.cpp`, `GraphNode.cpp`) | nodes, forward edges per channel, back edges | `createGraphNode`, `connect`, `disconnect`, visits | edges and back edges must agree after any sequence of edits |
| Instances and start (`Instance.cpp`, `DataGraph::startGraph`) | type, implementation, init parameters, thread group, the pusher of sources | `setType`, `setImplementation`, `setThreadGroupForInstance`, `startGraph`, ... | order of calls, failure of a factory in between, instances on several nodes, sources that push while the graph starts |
| Graph builder (`GraphBuilder.cpp`, `DotExporter.cpp`) | none | `buildDataGraph`, `implementDataGraph` | the order of mentions, a failure half way, groups and the users of their interfaces |
| uv threads (`UvLoopRunner.cpp`) | a loop, its thread, a mutex and condition | constructor, destructor, `drain`, `waitForExit` | start and exit handshakes, a loop asleep when it is drained, a count of handles changed from two threads |
| Blocking queue (`BlockOnEmptyConcurrentQueue.h`) | a lock-free queue, a mutex and condition | `push`, `pop`, destructor | a notification between check and wait, destruction while threads wait |
| Pools (`BufferPool`, `BlockingBufferPool`, `BlockingObjectPool`) | free list, number allocated | `Get`, return by the last reference | limit reached, buffer size grows while buffers are out |
| TCP group (`UvTcpConnectionGroup.cpp`) | connections by id, listening sockets, pending requests | packets to its interfaces, libuv callbacks | every order of connect, data, shutdown, close, error |
| Contextual router (`ContextualNode.cpp`) | instances per context key | packets on four kinds of interface | creation on first packet, removal, packets after removal |
| HTTP extractors, buffer accumulator, packet reader (`nodes/`) | what is left over of the last piece | `handlePacket` | message boundaries anywhere in the pieces |
| Streams (`MemoryStream`, `RingStream`) | buffers and offsets | searches, slices, reads, writes | wrap-around, boundaries between buffers |
| Key-value nodes | a table | packets on their interfaces | sequential |

The components meet in the router: every implementation is called by
`sendPacketToNode()` on the uv thread of its instance's thread group, and pushes
into the graph through the `IPacketPusher` it is given with the packet
(`IPathable`) or at the start (`ISource`). A thread group owns a `UvLoopRunner`;
TCP, timers and file I/O are callbacks on that same loop. Threads outside the
graph enter by `DataGraph::sendPacket()`, and implementations may push from
threads of their own ("This method is thread-safe", `IPacketPusher.h:33`).

What makes each component correct: the router delivers every pushed packet once
per edge, on the right thread, in order, and leaves none behind; the graph's
edges and back edges mirror one another; a started graph has an implementation,
a thread and a pusher everywhere; a thread that waits is woken; a pool never
hands out more than its limit nor one buffer twice; a connection is closed once
and reported closed once; a context's instances are dropped together; a stream
operation means what it means on the plain sequence of bytes.

## 2. The modules

| Module | Models | Kind |
|---|---|---|
| `PacketRouting` | how `DataGraph` moves packets | detailed specification |
| `PacketDelivery` | what a push promises | abstract specification |
| `PacketRoutingRefinement` | where each owed delivery sits; the properties that need it | refinement mapping |
| `MCPacketRouting` | small graphs for TLC | model |
| `PacketRoutingProofs` | theorems of `PacketRouting`, the refinement and the order of deliveries among them | proofs |
| `GraphBuilding` | the setup calls of `DataGraph`, and `startGraph` | detailed specification |
| `MCGraphBuilding` | a small graph for TLC | model |
| `GraphBuildingProofs` | theorems of `GraphBuilding`, and of `GraphBuilder`: that it implements it, and what of the files is in the graph | proofs |
| `TcpConnections` | the TCP group between libuv and the graph | detailed specification |
| `ConnectionLife` | what the graph is told of a connection | abstract specification |
| `MCTcpConnections` | two connections for TLC | model |
| `TcpConnectionsProofs` | theorems of `TcpConnections`, the refinement among them | proofs |
| `ContextualRouter` | the instances of a contextual node | detailed specification |
| `MCContextualRouter` | four types for TLC | model |
| `ContextualRouterProofs` | theorems of `ContextualRouter` | proofs |
| `GraphBuilder` | a graph from two files; extends `GraphBuilding` | composition, implements `GraphBuilding` |
| `MCGraphBuilder` | small files for TLC | model |
| `MemoryStream` | streams as sequences of slices | operators |
| `HttpExtractor` | the request extractor over one connection after the other | detailed specification |
| `BufferAccumulator` | the accumulator node | detailed specification |
| `HttpReceiving` | the two, with the queue between them | composition |
| `MCHttpReceiving` | texts for TLC | model |
| `HttpReceivingProofs` | theorems of `HttpReceiving`, what the stream operators compute among them | proofs |
| `BlockOnEmptyQueue` | the blocking queue | detailed specification |
| `BufferPools` | the three pools | detailed specification |
| `BufferPipeline` | a producer, the queue, poppers and the pool | composition |
| `MCBufferPipeline` | two poppers and five buffers for TLC | model |
| `BufferPipelineProofs` | theorems of `BufferPipeline` | proofs |
| `UvLoopRunner` | a uv loop's thread and those who wait for it | detailed specification |
| `MCUvLoopRunner` | two waiters and two handles for TLC | model |
| `UvLoopRunnerProofs` | theorems of `UvLoopRunner` | proofs |
| `SequenceProofs` | induction over the naturals, concatenation, `FlattenSeq()` | proofs |

### PacketRouting

A thread, the uv thread of a thread group or any other (`External`), is a call
stack. `pushPacket()` is a frame that fills in parameters (`Accumulate`), goes
over the edges of the channel (`PushEdgeDirectly` calls the target's handler on
top of the frame, `PushEdgeAside` remembers the target's group once), then
alternates `Enqueue` and `Signal` over the remembered groups. A handler is a
frame that may push again (`HandlerPushes`), return or throw; an exception unwinds
every frame up to a handler that catches (`Unwind`).

A handler pushes for its own node, and also through the pushers of other nodes
(`Pushers`): when `ContextRemover::handlePacket()` drops an instance,
`~HttpRequestExtractor()` ends its request through the pusher of the router's
node (`ContextualNode.cpp:297`, `HttpRequestExtractor.cpp:41`); when a router adds
an instance, a source that pushes at once does so through the pusher of whichever
router of the group gave it one (`ContextualNode.cpp:156`). Such a push follows no
edge and runs on the thread of the handler, whatever the group of the node it is
for. Which nodes a handler may push for is the constant `Borrows`, any relation. `packetReady()` is the state `callback`
of a group: it scans the producers' sub-queues one after the other (`Dequeue`;
the vendored queue keeps one per producing thread and gives no order between
them), then serves its batch edge by edge (`DeliverQueued`, `SkipEdge`,
`DeliverManual`, `NextPacket`) and looks again until it finds nothing.
`PacketReady` is libuv: it takes the pending flag down, then calls back.

| Code | Model |
|---|---|
| `ThreadGroup::mPacketQueue` | `queue[g][t]`: a FIFO per producing thread |
| `mPacketReadyAsync` | `signalled[g]` |
| local variables of `packetReady()` | `callback[g]` |
| activations of `pushPacket()`, `sendPacket()`, `handlePacket()` | `stack[t]` |
| `GraphNode::lastReceivedParameters` | `lastReceived[n]` |
| the deliveries made | `delivered` (history) |

A packet's buffers are left out; its parameters are a json null or an object,
because `insert()` tells those apart. The graph and the assignment of nodes to
groups are constants: a graph edited while packets are under way is left to a
later module. `GraphPacketPusher` shares ownership of the graph with its nodes,
so the weak pointers that `pushPacket()` and `packetReady()` lock never expire
and the early returns they guard are left out.

Two properties have an exception for calls that come back, over direct edges and
borrowed pushers (`Reached` is what a call can come to push for on its thread, at
any depth). When a push can run another push for its node inside its fan-out
(`Repushes`), the inner one is through first, and packets of one thread overtake
one another over an edge. When a handler can run inside itself (`Reenters`), its
slot of `lastReceivedParameters` is overwritten before its next push. Neither
needs a cycle of edges: where x pushes to y directly, and a handler that y pushes
to destroys an extractor that pushes for x, y's handler runs inside itself. Without
the exceptions TLC finds both violated, on a cycle of edges and over a
borrowed pusher alone.

Assumed: the application calls `sendPacket()` from outside handlers (nothing in
`src/src` calls it). An exception out of a push by a destructor ends the process in
the code; here it unwinds, which is one behaviour more.

Bounds: `MaxPushes` calls of `pushPacket()` and `sendPacket()`; `MaxDequeue` is
the code's `kMaxDequeueAtOnce` (100), 1 or 2 in the runs so that batches
fill up.

### GraphBuilding

The graph and its instances as one thread edits them, in any order, and as
`startGraph()` visits the nodes one by one. What the routing model takes as
constants is state here. A call that throws before it has changed anything is
not a step; one that fails after a change is: `SetType` whose factory throws has
dropped the old implementation, and a source that pushes as it is given its
pusher (`Eager`, `SendOnce.cpp:26`) throws out of `setType()` or `startGraph()`
when a target's instance does not exist. `startGraph()` stops at the first node
it cannot start (`StartFails`) and leaves the ones before it as they are.

| Code | Model |
|---|---|
| `Graph::mNameToNodeMap`, `GraphNode` | `nodes` |
| `DataGraphImpl::mInstances`, `Instance` | `instances`; a context is known by its thread group, a pusher by its node |
| inside `startGraph()`, and after it | `phase`, `left` |

An implementation of `SingleContext` is one that throws when it is given a context
again: the TCP group's Connector and Listener (`UvTcpConnectionGroup.cpp:801`),
which moreover share one context. `setThreadGroupForInstance()` has moved the
instance by then, so `ContextIsThreadGroup` excepts them.

Left out: `mThreadGroups` (a group is made when first named, and nothing asks
whether it was there), init parameters (only the factory reads them, and it may
throw anyway), node names of the DOT text. An implementation object belongs to
one instance: the application does not give the same object to two.

### TcpConnections

One uv thread: the packets on the group's interfaces and libuv's callbacks are
its steps. Each handler pushes last, if at all, so that a handler of the graph
that answers at once is the next step.

| Code | Model |
|---|---|
| `mTcpServer`, `mListeningAddressPortPair` | `server`, `listening` |
| the state libuv gives each `uv_tcp_t` (external) | `handle`, `reading` |
| `mConnections`, `mUvClientToConnection` | `connections`, `clients` |
| requests of `mUvWriteTPool` | `writes` |
| pending `uv_shutdown()` | `shutdowns` |
| the packets pushed | `told` (history), `over` (history: who was ended) |

The code has several paths on which the process ends or its behaviour is
undefined, and they are modelled as that: `crashed` is then true, or may be. They
are data for a connection that has gone (`SendDataLate`), a second disconnect
before libuv has called back (`Disconnect`), every completion of a shutdown
(`SenderShutdown`: `uv_shutdown_t::data` is never set), every closing of a
connection made by `connect()` (`ConnectionRemovedLate`, likewise), and the
failures that free a socket libuv still knows (`AcceptFails`, `Connect`,
`ConnectFails`). The properties are about what happens before; liveness excepts
a crashed process. Assumed of libuv: it reads from a socket until it is closed or
ends, completes or cancels what it was asked to do before it calls back about a
close, and does call back. The graph has nodes for Async Events and Receiver, so
that their pushers are set, and its interfaces are on one thread group.

### ContextualRouter

A contextual node makes an instance of its type for every value of its key
parameter. For a type that is a group there is a router per interface, and the
instance takes a place in each, one after the other. `handlePacket()` is an
activation on the stack of the routers' thread: it adds a new instance
(`CreateNewInstance`, then `AddNode` per router, then `Added`, which looks the
instance up again) or finds one (`HandlePacket`), and is then in the instance's
handler. While application code runs, in a handler or in a source that pushes as
it is given its pusher, any packet may come back to a router or to the remover,
and an exception may go up to any handler below (`Throw`).

| Code | Model |
|---|---|
| `mNodes`, `mReverseNodeLookup` of a router | `nodes`, `reverse` |
| `CohesiveGroupRouter::mNodeRouters` | `routers` |
| a router's `mPacketPusher`, an instance's | `given`, `pushers` |
| the owners behind the weak pointers | `owners` |
| activations of `handlePacket()` | `stack` |
| the type in the init parameters | `type`, chosen at the start |
| which instances the remover was asked to remove | `removed` (history) |

What ends the process is modelled as that: a source that pushes before its router
has a pusher, a new context after a router has been erased (`AddNodeToErased`), an
instance that a packet removed while it was made (`Added`), a group's router that
has outlived its contextual node (`CreatorGone`). A packet without the key may
(`HandleWithoutKey`). Assumed: the routers and the remover are on one thread, and
`startGraph()` does not call a router while its thread is inside it. The weak
pointers of a type that is no group are locked for as long as a packet is handled,
and owners go only in between (`Release`).

### GraphBuilder

`buildDataGraph()` and `implementDataGraph()` keep nothing of their own: they
read a file and make setup calls. A file is a set of mentions (nodes, subgraphs
and edges of the DOT text; members of the JSON text), `BuildCalls` and
`ImplementCalls` are the calls the code makes of it, in the code's order, and
each call is an action of `GraphBuilding`. The first that throws ends the
reading (`Throw`): the graph is dropped, or left half implemented. Three things
of the libraries matter and are modelled: cgraph gives every node an attribute
that one node sets, with an empty text (`Parameters`); the JSON parser orders the
members by name (`ByName`), so that a group whose name comes after that of a user
of its interface is not there yet, which throws or, when it was mentioned
before, dereferences null (`CrashOnGroup`, `DataGraph.cpp:623`); and each type name comes
to an instance for the first time, so `setType()` never finds it set already.

### HttpExtractor, BufferAccumulator, HttpReceiving

A text comes over a connection in pieces cut anywhere. `Receive` is
`handlePacket()` with the next piece: it collects the header data
(`HeaderPiece`), finds its end and announces the request (`HeadersComplete`), or
passes the piece on (`BodyPiece`). Each push may throw, and what was done before
stays done. A byte is a model value, with one for a whole `content-length` field:
the extractor reads the value of that field as a number although it is a string,
so that a request with it as its last header is never announced
(`UnreadableHeaders`); of several header lines only the last is kept (`HeaderLine`),
because the stream is assigned for each. `mBodyLength` is never assigned, and
the branches for a known length (lines 58-65, 71-74) are dead. The extractor is destroyed
with its connection (`Destroy`, which announces the end), and the router makes
another for the next one. What is told is told to one reader: a push that throws
counts as told to nobody, although a direct target earlier in its fan-out may have the
packet by then. A throw out of the destructor, which ends the process, is left out.

The accumulator is in another thread group, and what the extractor told reaches
it in order (`Deliver`). It owns buffers of which a part is used (`Appended`
fills the last one, then adds one); memory that was never written holds `Junk`.

`MemoryStream` has the stream's queries as operators over a sequence of slices,
with offsets that wrap (`SizeMax`), and `StreamsReadAsText` compares each with
its meaning on the plain text, for every stream of header data a run meets.
`FindIndex` is stated by what the code's loop finds, the buffer a byte is in and
its place there.

### BlockOnEmptyQueue, BufferPools, BufferPipeline

`pop()` is a thread's way through `pc`: a first look without the lock
(`FastPop`, `FindEmpty`), the lock, a second look (`CheckDone`, `CheckEmpty`), the sleep
(`Sleep`), and the way out (`Leave`). `push()` is two steps, `Enqueue` and
`NotifyOne`, neither with the lock, and so is the destructor (`ResetQueue`,
`NotifyAll`). Between `CheckEmpty` and `Sleep` a thread holds the lock but cannot
be notified: a notification there is lost, and `overtaken` remembers on whom. A
thread that locks after the object has gone, or that leaves as the last who
refers to the mutex, may use freed memory (`crashed`). `Lock` is one step with the
copies of `mSync` and `mQueue` before it, and `FastPop` and `FindEmpty` are one
each against `ResetQueue`: what is left out are more ways to use an object that is
being destroyed, all of which end as crashes.

| Code | Model |
|---|---|
| `mQueue`, `mSync->lock` | `queue`, `holder` |
| where a thread is in `pop()`, and what it took | `pc`, `item` |
| a pool's `bufferSize`, free queue, count | `bufferSize`, `free`, `total` |
| whose deleter still finds the pool's queue | `current` |
| the caller of `get()` | `asked`, `got` |

A pool is one of the three (`kind`); `get()` grows the pool (`GetBuffer`), then
makes a buffer (`Create`) or takes a returned one (`Reuse`, which waits). One
thread gets and pushes, as `get()` of a pool is not for two; any number pop.

### UvLoopRunner

The constructing thread, the loop's thread and the threads in `waitForExit()`.
`active` is libuv's count of referenced handles, in which the runner's own async
handle is one until `drain()`. `drain()` and the setup change it from other
threads than the loop's, while the loop may have read it to write it back
(`HandleEnds`, `CountOut`): `raced` remembers that, and the count may then be
wrong for ever. The model loses counts in one direction, and what `raced` exempts is
a wrong count in either. `waitForExit()` wakes the loop (`EnterWait`), for `drain()` does
not. The condition variable of the constructor is a local that
the loop's thread still notifies when the constructor may have returned
(`NotifyStarted`), and the destructor may free a loop that runs (`Destroy`):
`crashed`.

### What the code does otherwise than its documentation

Three such facts are in the models without a run of their own. After a packet
without parameters `pushPacket()` throws when a packet with parameters is pushed
(`AccumulateThrows`), although it "can safely be called from
ISink::handlePacket()" (`IPacketPusher.h:36`). An implementation made by
`setInstanceType()` is given no subgraph context (`Made`), nor does
`startGraph()` "set subgraph contexts" (`DataGraph.cpp:761`). And the remover of a
group looks contexts up among the names of interfaces (`Forget`), so that
"sending a packet to the "remove" partition" (`ContextualNode.h:60`) removes
nothing there. The runs that expect a violation show two more.

### Runs

| Run | Question | Result |
|---|---|---|
| `routing` | Is every push that returns delivered exactly once per edge and on the right thread (`ImplementsDelivery`, `HandlersStayHome`), and no packet left without a wakeup (`NoStrandedPacket`), when handlers throw and some catch? | holds |
| `routing_loop` | Does a handler's push inherit from the packet the handler was given, unless what it runs can run it again? | holds |
| `routing_fair` | Do packets of one thread stay in order over an edge, pushes through another node's pusher among them, and does everything pushed arrive? | holds |
| `routing_thread_safe` | Is `pushPacket()` thread-safe, as `IPacketPusher.h:33` says? | no: `lastReceivedParameters` is read and assigned unsynchronised |
| `graph` | After any sequence of setup calls, failed ones included: does an implementation have its thread group's context and its node's pusher, and is a graph that `startGraph()` accepted complete (`StartedDelivers`, `StartedPushesFromOwnNode`)? | holds |
| `graph_shared` | May nodes share an instance, as `DataGraph.h:70` says? | no: `startGraph()` throws |
| `tcp` | Do both tables hold whatever libuv calls back about (`TablesAgree`)? Is a connection announced once, its data and errors told in between, its end told once and last (`ImplementsLife`), and told at all (`EndsAreReported`)? | holds |
| `contextual` | Do a router's tables mirror one another (`TablesMirror`), is a packet handled by an instance of its own context (`ContextsApart`), has a source its pusher whichever came first (`SourcesKnowPusher`), do a group's routers agree (`GroupsCohere`), and is what was removed gone (`RemovedIsGone`)? | holds |
| `http` | However a request is cut: is exactly its body passed on (`CutDoesNotMatter`), and only its body when pushes throw (`BodyNeverStrays`); announced once and ended once (`ToldInOrder`); does the accumulator send the body whole (`AccumulatedIsBody`); do streams read as their text (`StreamsReadAsText`)? | holds |
| `pipeline` | Is a buffer in one place and large enough (`EveryBufferOnce`)? Does a thread sleep beside an item only if a notification overtook it (`OnlyOvertakenStay`)? Does `get()` return (`GetReturns`), and does the queue's destruction release who waits (`DestructionReleases`), but for that? | holds |
| `uv_loop` | Is what the constructor and `waitForExit()` tell true (`ToldTheTruth`)? Does the loop run until it is drained and empty (`OutlivesHandles`), and do waiters return then, or when their time has passed (`WaitersReturn`)? | holds |
| `builder` | Has the graph what the files say (`AsWritten`)? Does a crash need a group named late (`CrashNeedsLateGroup`)? Does a graph from two accepted files start, but for known reasons (`StartsAsWritten`)? | holds |

The graph of the first run has each kind of edge: direct on one thread, queued
on one thread, "direct" across threads, and a cycle through two threads. Two
pushes suffice for a producer to race a callback that is draining the first
packet, for a handler to push in the middle of a fan-out, and for an exception
to cut a fan-out short; one handler on the way pushes for two other nodes, in the middle of
a push for the first of them. `routing_loop` needs four: two to come back to the same
handler, one more from it, one to compare. In its graph two nodes call one another
directly, one runs again because it pushes for the node that calls it, and the fourth
may be pushed for inside its own push but never runs again: its slot is what the
property is about. In `routing_fair` a handler called from the queue pushes for
another node, and no node comes back to itself, so that the order is asked of all. Deadlock is not checked: a graph to
which nobody pushes any more is at rest.

`graph` has three nodes and two instances, so that two nodes share one and a
third does not, a node with a source's kind of edges and one with a sink's, one
type that is a source pushing at once and one implementation that is a group
and takes packets, two thread groups, and one delivery type (only routing reads
it). States are never cut off: the run covers all sequences of calls. The
names of nodes and of instances are symmetric, which is sound because all the
properties are invariants. Deadlock is checked.

`tcp` has two connections, each of which may be accepted or made, and two write
requests: handlers concern one connection, and two show that they do not touch
the other. Deadlock is not checked: when no peer comes, the group is at rest.
Its fairness is that the uv loop calls back about writes, shutdowns and closes;
nobody is assumed to connect, send or close.

`contextual` has a type that is no group and pushes at once, a quiet group, a
group whose source pushes at once, and one of three interfaces two of which share
a subgraph context, as the TCP group's do; two contexts, one of them with the name of an
interface, which is what the group's remover looks for; three instances, so that
one can be removed and made again beside another; and three activations, so that a
packet can come back while an instance is made on behalf of a packet that came
back. Instances are symmetric. Deadlock is not checked: a crash is an end.

`http` has texts without header lines, with one and with two, with a length as
the last field and before it, headers that never end, and bodies that look like
the end of headers, cut into up to four pieces (two cuts inside the four
characters that end the headers leave one on each side), one push that throws,
and a second connection with a shorter body, so that what is left of the first
would show. Sizes wrap at 32, more than any text is long. Deadlock is not checked: a peer
stops.

`pipeline` has two poppers, so that a notification can go to the one or the
other, two sizes and a limit of two with memory for five buffers, so that a
pool at its limit grows while all its buffers are out. The caller of `get()`
asks only while there is memory for it (`Room`), so that in the run nobody waits
at the limit while buffers of the old size are still out; the proofs take in that
case. No behaviour is cut otherwise.
Deadlock is not checked: all poppers may have been told that the queue is gone.
Fairness: a thread inside `push()`, `get()`, `pop()` or the destructor goes on, and a
popper comes back for more; nobody need ask or destroy, and nobody is woken
unasked for. One popper may not retire, or nobody would return a buffer.

`uv_loop` has two waiters, of which one may hold the mutex while the other
wakes, and two handles beside the runner's. Waits may be bounded or not.
Deadlock is not checked: the end of the object is one. Fairness: the loop's
thread goes on; a mutex that is released again and again is given to who asks
(strong fairness of `LookAgain`), and the time of a bounded wait passes. It is not assumed that
a handle ends or that anybody drains.

`builder` reads every pair of an architecture file of up to three nodes and an
implementation file over three instances that `MCGraphBuilder` lists: nodes that
share an instance, edges twice or to the node itself, missing attributes, a
group with users before and after it in the order of names. Deadlock is not
checked: a graph that is started or dropped is the end.

Fairness (`routing_fair`): a thread inside `pushPacket()` or `packetReady()`
goes on; a handler returns; libuv runs the callback of a pending async handle,
since the uv thread sits in `uv_run()` whenever it has nothing else to do.
Nobody is assumed to push.

### Proofs

`PacketRoutingProofs` proves for all graphs, thread assignments, batch sizes
and numbers of pushes:

- `TypeCorrect`: `Spec => []TypeOK`;
- `HandlersOnOwnThread`: `Spec => []HandlersStayHome`;
- `NothingStranded`: `Spec => []NoStrandedPacket`;
- `Refinement`: `Spec => ImplementsDelivery`;
- `InheritsFromOwn`: `Spec => []InheritsFromOwnPacket`;
- `InOrder`: `Spec => DeliveredInOrder`.

Assumed are only `GraphAssumption`, `ImplementationAssumption` and
`BoundAssumption` (the constants have their types, a group's thread is not an
external thread, batches are not empty). `HandlersStayHome` is not inductive: a
packet of `sendPacket()` is delivered to its node without looking at edges, so it
must have been queued to that node's group. `HomeInv` adds where packets may be:
a manual packet only in the frames, the queue and the batch of its node's group.
It is preserved by each action, one lemma each. `NoStrandedPacket` is inductive
relative to `HomeInv`; the lemmas follow the three ways a queue is attended to
(pending handle, callback that will look, producer about to signal), and the one
delicate step is `DequeueStranded`: what stays behind in a queue already visited
implies a full batch, hence another scan.

`Refinement` needs `OwingInv`. The mapping works out what a call owes from its
edges anew in every state, so a step implements one of `PacketDelivery` only if a
delivery is owed from one place at a time. What keeps two places apart is the
number of the call: it is in one activation (`CallsDistinct`), once in the hands of
a group (`GroupsOnce`), and not there yet while an activation has the group ahead
(`CallsSound`). For each step there is one lemma about the place it changes, and
the rest owes what it owed.

`InheritsFromOwn` rests on `NestInv`: of two activations in one stack the inner
one is a push or a handler that the outer one may run (`MayRun`), directly or
through others, through borrowed pushers too. So two pushes for one node in one stack
mean `Repushes`, and two handlers of one node `Reenters`; otherwise nothing
assigns the slot of a node while its handler runs (`ParamsInv`). Both hold
for every `Borrows`. `InOrder` adds `OrderInv`:
what a thread has in a group's queue or batch is in the order of its numbers
(`GroupsOrdered`), and no activation may still push something older than what it
has queued for the same node (`CallsNotOlder`).

Three more theorems say what the promise comes to. `NeverTwice` is what the
refinement leaves open: `delivered` is a set, so a delivery made a second time would
be a stutter there. The lemmas behind `Refinement` show that each call of a
handler makes one owed delivery (`MakesOne`), and what is owed has not been
delivered (`NotAgain`), which follows from the steps of `PacketDelivery` alone.
`LossNeedsFailure` reads off the same steps when a delivery may be dropped.
`RestsOnlyWhenDone` puts `NoStrandedPacket` and the mapping together: a graph in
which all threads, callbacks and async handles are at rest owes nothing.

`GraphBuildingProofs` proves all properties of run `graph`, and that no edge is
doubled (`EdgesAreSingle`), for any number of
nodes, instances, channels, types and groups, from `NamesAssumption` alone (the
constants have their types and `None` is none of the names). What is inductive
is `GraphInv`: nodes and instances well-formed one by one (`GoodNodes`,
`GoodInstances`), every edge leads to a node that allows incoming connections
(`EdgesAllowed`), and `VisitedReady`: whatever node `startGraph()` has visited is
usable and its instance's pusher is that node's. The last is what makes
`StartedDelivers` hold, since visiting a node changes an instance other nodes may
refer to: `StartNodeInv` shows that a visited node's instance is out of reach of
later visits because it already has a pusher. `NoInstanceShared` is the other
side of that: no graph with a shared instance ever starts, the finding of
`graph_shared` for every graph.

`TcpConnectionsProofs` proves, for any number of connections and requests, the
type invariant, `TablesAgree`, and `Refinement`: `Spec => ImplementsLife`. The
invariant `Inv` says that the tables hold exactly the sockets that are open or
closing; with it a connection's abstract life is a function of its socket alone
(`LifeIsSocket`), and every step is one of `ConnectionLife` or a stutter. Two
theorems are about the end of a connection: `EndedConnectionsLeave` (who was ended
is closing, in the table where the last callback looks, or gone) and
`ClosingOnlyDrains`, an action property: a closing connection is given no further
write or shutdown, and goes only when it has none. With fairness of libuv's
callbacks that is why `EndsAreReported` holds.

`ContextualRouterProofs` proves all six properties of run `contextual` for any
types, contexts, instances and depth of calls, from the assumptions that the
constants have their types, a type that is no group has one interface, and a
group's interfaces have different names. `TablesMirror` and `ContextsApart` are
inductive only together. `RemovedIsGone` needs `Entering`: an instance enters each
router once, and not after it has been removed from it, which is a fact about
every activation on the stack that is still adding one. `GroupsCohere` needs
`Cohering`: for a type whose sources do not push at once, only the activation on
top can be adding an instance, its routers done have it and those left have none
of its context. That is why the property excepts types with eager sources, for
which `TLC` finds routers that disagree.

Its second half is about files. `BuilderIsBuilding`, `BuilderSpec => Spec`, says
that reading them is a behaviour of `GraphBuilding`, so everything proved of the
setup calls is true of files; `FilesDeliver` draws the conclusion for the graphs
they start. `GraphIsAsWritten`, `CrashesOnLateGroups` and `FilesStart` are the three
properties of run `builder` for every pair of files. They assume
`BuilderAssumption`: entries of a file have their types, and `NameOrder` is the
instances, each once, in the order of their names. `FilesInv` says that each
call of the file being read is done or still to do (`Reads`, `Done`), and that the
graph is what the calls done so far make it: `BuiltSoFar` for the architecture
(`CreatedBy`, `PlacedBy`, `ConnectedBy`), `ImplementedSoFar` for the implementations,
where the last call for an instance decides. What an order of calls means for the
file is in `BuildsText` and `ImplementsText`, lemmas about `BuildCalls` and
`ImplementCalls`: an interface is asked for after its group was made unless the
group's name is later, which is why a crash needs such a group.

`HttpReceivingProofs` proves all six properties of run `http` for any texts, pieces,
connections and failed pushes, from three assumptions: a text is shorter than sizes
go (`TextsAssumption`), and the bounds are numbers (`BoundsAssumption`,
`SizeMaxAssumption`). Half of it is about data. The library's induction theorems take
an operator, which the provers cannot instantiate; `SequenceProofs` derives an
induction over a set instead, from the least element of a set of naturals (`WFMin`), and
proves what `FlattenSeq()` and concatenation do. With it follow what each operator of
`MemoryStream` returns, for any cut into buffers, and `HeaderDataReads`. The rest goes
by the five things a piece can do: it is passed on, waits for the end of the
headers, fails in a push, is rejected, or announces the request. `OrderInv` orders
what was told of one connection after the other; `BodyInv` compares the body told with
the text received, exactly unless a push has thrown; `CollectedInv` says that the
accumulator holds the body of the latest announcement delivered (`Latest`), and
`SentInv` what it has sent before.

`BufferPipelineProofs` proves for any number of poppers and buffers, any sizes
and any limit:

- `TypeCorrect`: `Spec => []TypeOK`, with the mutex held by one thread;
- `OnlyOvertaken`: `Spec => []OnlyOvertakenStay`;
- `BuffersOnce`: `Spec => []EveryBufferOnce`;
- `GetWaitsForSomebody`: `Spec => []GetWaits`, for a limit above zero and at least
  one popper.

The second is about wakeups that are not lost, and is not inductive: it speaks
of a state in which nobody is on his way. `Woken` is what is preserved: as long as
some thread that waits has not been overtaken, there are no more items than
threads on their way to look at the queue, counting a notification still to
come as one. Each of `push()`'s two steps, and each step of `pop()`, keeps the
balance; `NotifyOneWoken` is where a notification that finds nobody asleep makes
all who decide to sleep overtaken. For the third, `Owned` adds to the property
where a popper can hold an item (`Holding`) and the sizes (`Sized`: the buffers of
the present queue are all as large as the pool's last growth, and who asks asks
for no more), without which `get()` could hand out one too small. The fourth joins
the two: a blocking pool at its limit has counted only buffers that come back to
it, so one is in the queue or with a popper; and if no popper moves and no
notification is to come, `Woken` leaves only those who were overtaken. It needs
`Served` besides: nobody destroys the queue under `get()`, nobody was told that it
is gone, and not all poppers have stopped. Assumed are `PoppersAssumption` (finitely many poppers)
and the constants' types.

`UvLoopRunnerProofs` proves the three invariants of run `uv_loop` for any waiters
and number of handles. `LoopInv` counts: what libuv's count holds is the
runner's reference, the handles, and the one that is being counted out, unless
two threads have raced. `NoWakeUpMissed` adds the handshakes: nobody sleeps in
`waitForExit()` when the loop's thread has gone, and a loop that has been drained
and has no handle does not poll without a pending wake-up (`WakeInv`).

Model-checked only are the five properties of liveness (`EverythingArrives`,
`EndsAreReported`, `GetReturns`, `DestructionReleases`, `WaitersReturn`): they rest on
fairness, hence on ENABLED, which TLAPS does not reason about here. What is proved
of each is its safety half, that there is no state in which everybody waits before
it has come true: `RestsOnlyWhenDone`, `EndedConnectionsLeave` and
`ClosingOnlyDrains`, `GetWaitsForSomebody`, `OnlyOvertaken`, `NoWakeUpMissed`. All but
`OnlyOvertaken` are stated by the proofs alone, no run lists them; TLC found no
exception to them on the instances of the runs. The
properties of the two runs that expect a violation are false. Every other
property of a run is a theorem.

## 3. The plan

In order of importance to the system:

1. `PacketRouting` and its refinement: modelled, proved.
2. `GraphBuilding` and `GraphBuilder`: modelled, proved. Left: their composition with
   `PacketRouting`, a graph edited while packets are in its queues.
3. `TcpConnections` and its refinement: modelled, proved.
4. `ContextualRouter`: modelled, proved.
5. `HttpExtractor`, `BufferAccumulator`, `MemoryStream`: modelled, proved.
6. `BlockOnEmptyQueue`, `BufferPools`, `UvLoopRunner`: modelled; their
   invariants are proved, their liveness is checked.
7. Left to prove: of liveness the part that rests on fairness, which stays with TLC.

## 4. Not modelled

- The tables `VolatileKeyValueStore` and `VolatileKeyValueSet`: the
  constructors are handed a storage and drop it, `mStorage` stays null, and the
  first packet with a key is undefined.
- `PacketWriter` and `PacketReader`: the writer advances the pointer to its
  pointer (`**where++`) and writes where it should not with every packet; the
  reader takes its offsets from another layout, and never leaves its loop when a
  packet is incomplete. There is no behaviour of the pair to state a property of.
- `RingStream`: nothing in `src/src` but its factory makes one.
- The factories (tables filled once), `DotExporter` (reads the graph), the HTTP
  writers (formatting), `ObjectPool` (a stack for one thread), `TaskLooper`,
  `Subcomponent`, `JsonGraphBuilder` (stubs), logging.
- `json.hpp`, `concurrentqueue.h`, `blockingconcurrentqueue.h` and
  `lightweightsemaphore.h` are vendored, and more than two thirds of the lines
  under `src/`. They, libuv and cgraph are modelled by how the code uses them, and
  marked external.
- Destruction of a graph: a `DataGraph` and its pushers own one another, so that
  it is never destroyed.
