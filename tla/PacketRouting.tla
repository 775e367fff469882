--------------------------- MODULE PacketRouting ---------------------------
(***************************************************************************)
(* How DataGraph moves packets (src/DataGraph.cpp).                        *)
(*                                                                         *)
(* Every thread group owns a libuv thread, a lock-free queue and an async  *)
(* handle.  A node's implementation pushes a packet on one of the node's   *)
(* channels; GraphPacketPusher::pushPacket calls the targets that live on  *)
(* the calling thread directly, and queues the packet once to every other  *)
(* thread group concerned; ThreadGroup::packetReady drains the queue and   *)
(* works out again, from the edges, which targets it must call.            *)
(*                                                                         *)
(* A thread is a call stack of pushPacket and handlePacket activations:    *)
(* a direct call runs the target's handler in the middle of the loop over  *)
(* the edges, and that handler may push again: for its own node, and       *)
(* through the pusher of another node, when it destroys an instance that   *)
(* has something left to push (ContextRemover) or sets one up that pushes  *)
(* at once (SingleNodeRouter::addNode()).                                  *)
(***************************************************************************)
EXTENDS Naturals, Sequences, SequencesExt

CONSTANTS
  Nodes,        \* GraphNodes
  Channels,
  Groups,       \* thread groups; a group is also the name of its uv thread
  External,     \* every other thread that pushes: application, background
  Edges,        \* forwardEdges: [Nodes -> [Channels -> Seq(Edge)]]
  GroupOf,      \* node -> instance -> thread group: [Nodes -> Groups]
  Keys, Values, \* of the packets' parameters
  Null,         \* a json null in the place of the parameters
  Never,        \* lastReceivedParameters == nullptr
  Manual,       \* in the place of a channel: DataGraph::sendPacket()
  Borrows,      \* the other nodes a node's handler pushes for: [Nodes -> SUBSET Nodes]
  FreshParams,  \* parameters the implementations make up themselves
  Sources,      \* <<thread, node>>: the thread pushes for it unasked
  SendTargets,  \* nodes the application hands packets to with sendPacket()
  Throwing,     \* nodes whose handler may throw
  Catching,     \* nodes whose handler catches what its pushes throw
  MaxPushes,    \* bound: pushPacket() and sendPacket() calls
  MaxDequeue    \* kMaxDequeueAtOnce

Threads == Groups \cup External

Delivery == {"PushDirectlyToTarget", "AlwaysQueue"}

Edge == [next : Nodes, delivery : Delivery]

Objects == UNION {[K -> Values] : K \in SUBSET Keys}
Params  == Objects \cup {Null}

ASSUME GraphAssumption ==
  /\ Edges \in [Nodes -> [Channels -> Seq(Edge)]]
  /\ GroupOf \in [Nodes -> Groups]
  /\ Groups \cap External = {}
  /\ Manual \notin Channels

ASSUME ImplementationAssumption ==
  /\ Borrows \in [Nodes -> SUBSET Nodes]
  /\ FreshParams \subseteq Params
  /\ Sources \subseteq Threads \X Nodes
  /\ SendTargets \subseteq Nodes
  /\ Null \notin Objects
  /\ Never \notin Params

ASSUME BoundAssumption ==
  /\ MaxPushes \in Nat
  /\ MaxDequeue \in Nat \ {0}

VARIABLES
  stack,         \* per thread: the activations, innermost last
  callback,      \* per group: packetReady()
  queue,         \* per group: mPacketQueue, one FIFO per producing thread
  signalled,     \* per group: mPacketReadyAsync is pending
  lastReceived,  \* per node: lastReceivedParameters
  pushes,        \* calls of pushPacket() and sendPacket() so far
  delivered,     \* history: the deliveries made
  crashed        \* an exception left a uv callback

vars == <<stack, callback, queue, signalled, lastReceived, pushes, delivered,
          crashed>>

(***************************************************************************)
(* The packets and the activations.  A packet in flight is identified by   *)
(* the number of the call that pushed it; node is PushedPacketInfo's       *)
(* fromNode, or manualSendToNode when chan is Manual.                      *)
(***************************************************************************)
Info == [id : Nat, node : Nodes, chan : Channels \cup {Manual},
         params : Params, by : Threads]

EdgeInfo == [id : Nat, node : Nodes, chan : Channels, params : Params, by : Threads]

\* pushPacket() in its loop over the edges, then handing over to the groups;
\* sendPacket() begins with the latter.
EdgeFrame == [pc : {"accumulate", "edges"}, info : EdgeInfo,
              next : Nat \ {0}, groups : Seq(Groups)]

QueueFrame == [pc : {"enqueue", "signal"}, info : Info, next : Nat \ {0},
               groups : Seq(Groups) \ {<<>>}]

HandlerFrame == [pc : {"handler"}, node : Nodes, params : Params]

Frame == EdgeFrame \cup QueueFrame \cup HandlerFrame

CallbackState == [pc : {"idle", "scan", "run"}, left : SUBSET Threads,
             batch : Seq(Info), next : Nat \ {0}]

Idle == [pc |-> "idle", left |-> {}, batch |-> <<>>, next |-> 1]
Scanning == [pc |-> "scan", left |-> Threads, batch |-> <<>>, next |-> 1]

PushOf(info) ==
  [pc |-> "accumulate", info |-> info, next |-> 1, groups |-> <<>>]

HandOver(info, groups) ==
  [pc |-> "enqueue", info |-> info, next |-> 1, groups |-> groups]

HandlerOf(n, p) == [pc |-> "handler", node |-> n, params |-> p]

OutEdges(info) == Edges[info.node][info.chan]

\* Whose pushers a handler of n comes to use before it returns.
Pushers(n) == {n} \cup Borrows[n]

\* A fault: the thread is not compared.
GoesDirectAnywhere(t, edge) == edge.delivery = "PushDirectlyToTarget"

\* pushPacket(): the target is called from the loop over the edges.
GoesDirect(t, edge) ==
  /\ GroupOf[edge.next] = t
  /\ edge.delivery = "PushDirectlyToTarget"

\* packetReady() of g: a packet queued by thread t is due on this edge.
DueFromQueue(g, t, edge) ==
  /\ GroupOf[edge.next] = g
  /\ t # g \/ edge.delivery = "AlwaysQueue"

(***************************************************************************)
(* The pusher's parameters win; those the node received last fill the      *)
(* gaps.  nlohmann's insert() throws when its iterators belong to a json   *)
(* null, which a node holds after a packet without parameters.             *)
(***************************************************************************)
Merge(own, last) ==
  [k \in DOMAIN own \cup DOMAIN last |-> IF k \in DOMAIN own THEN own[k] ELSE last[k]]

\* A fault: nullptr is not ruled out when the packet has no parameters.
AccumulatedUnchecked(own, last) ==
  IF own = Null THEN last ELSE IF last = Never THEN own ELSE Merge(own, last)

Accumulated(own, last) ==
  IF last = Never THEN own ELSE IF own = Null THEN last ELSE Merge(own, last)

AccumulateThrows(own, last) == own # Null /\ last = Null

-----------------------------------------------------------------------------
Init ==
  /\ stack = [t \in Threads |-> <<>>]
  /\ callback = [g \in Groups |-> Idle]
  /\ queue = [g \in Groups |-> [t \in Threads |-> <<>>]]
  /\ signalled = [g \in Groups |-> FALSE]
  /\ lastReceived = [n \in Nodes |-> Never]
  /\ pushes = 0
  /\ delivered = {}
  /\ crashed = FALSE

AtRest(t) == stack[t] = <<>> /\ (t \in Groups => callback[t].pc = "idle")

Running(t, pc) == stack[t] # <<>> /\ Last(stack[t]).pc = pc

SetTop(t, frame) == stack' = [stack EXCEPT ![t] = Append(Front(@), frame)]

Call(t, frame) == stack' = [stack EXCEPT ![t] = Append(@, frame)]

Return(t) == stack' = [stack EXCEPT ![t] = Front(@)]

(***************************************************************************)
(* An exception leaves the innermost activation of t: it ends every        *)
(* activation up to a handler that catches, none of which queues what it   *)
(* had set aside.  An application's thread sees the exception; out of a    *)
(* uv callback it ends the process.                                        *)
(***************************************************************************)
Catchers(t) ==
  {i \in 1..(Len(stack[t]) - 1) :
     stack[t][i].pc = "handler" /\ stack[t][i].node \in Catching}

Unwind(t) ==
  \/ \E i \in Catchers(t) :
       /\ \A j \in Catchers(t) : j <= i
       /\ stack' = [stack EXCEPT ![t] = SubSeq(@, 1, i)]
       /\ UNCHANGED crashed
  \/ /\ Catchers(t) = {}
     /\ stack' = [stack EXCEPT ![t] = <<>>]
     /\ crashed' = (t \in Groups)

NewInfo(t, n, c, p) ==
  [id |-> pushes + 1, node |-> n, chan |-> c, params |-> p, by |-> t]

-----------------------------------------------------------------------------
\* IPathable::handlePacket() running on t pushes a packet: the one it was
\* given, or one with parameters of its own; through the pusher it was given,
\* or that of another node, when ~HttpRequestExtractor() ends a request.
HandlerPushes(t, n, c, p) ==
  /\ pushes < MaxPushes
  /\ Running(t, "handler")
  /\ n \in Pushers(Last(stack[t]).node)
  /\ p \in FreshParams \cup {Last(stack[t]).params}
  /\ Call(t, PushOf(NewInfo(t, n, c, p)))
  /\ pushes' = pushes + 1
  /\ UNCHANGED <<callback, queue, signalled, lastReceived, delivered, crashed>>

\* An ISource pushes, or a node completes something it began earlier.
SourcePushes(t, n, c, p) ==
  /\ pushes < MaxPushes
  /\ AtRest(t)
  /\ <<t, n>> \in Sources
  /\ Call(t, PushOf(NewInfo(t, n, c, p)))
  /\ pushes' = pushes + 1
  /\ UNCHANGED <<callback, queue, signalled, lastReceived, delivered, crashed>>

\* DataGraph::sendPacket(), up to its enqueue().
SendPacket(t, n, p) ==
  /\ pushes < MaxPushes
  /\ AtRest(t)
  /\ n \in SendTargets
  /\ Call(t, HandOver(NewInfo(t, n, Manual, p), <<GroupOf[n]>>))
  /\ pushes' = pushes + 1
  /\ UNCHANGED <<callback, queue, signalled, lastReceived, delivered, crashed>>

\* pushPacket(): fill in parameters, find the channel's edges.
Accumulate(t) ==
  /\ Running(t, "accumulate")
  /\ LET frame == Last(stack[t])
         last  == lastReceived[frame.info.node]
     IN  IF AccumulateThrows(frame.info.params, last)
         THEN Unwind(t)
         ELSE /\ UNCHANGED crashed
              /\ IF OutEdges(frame.info) = <<>>
                 THEN Return(t)
                 ELSE SetTop(t, [frame EXCEPT
                        !.pc = "edges",
                        !.info.params = Accumulated(@, last)])
  /\ UNCHANGED <<callback, queue, signalled, lastReceived, pushes, delivered>>

\* What one delivery of info over edge number i on thread t is.
DeliveryOf(info, i, t) ==
  [id |-> info.id, node |-> info.node, chan |-> info.chan, by |-> info.by,
   edge |-> i, on |-> t]

\* A fault: a packet without parameters leaves the node's last ones in place.
SendToNodeKeepingLast(t, n, info, i) ==
  /\ lastReceived' = [lastReceived EXCEPT
       ![n] = IF info.params = Null THEN @ ELSE info.params]
  /\ delivered' = delivered \cup {DeliveryOf(info, i, t)}

\* ThreadGroup::sendPacketToNode(), up to the call of the implementation.
SendToNode(t, n, info, i) ==
  /\ lastReceived' = [lastReceived EXCEPT ![n] = info.params]
  /\ delivered' = delivered \cup {DeliveryOf(info, i, t)}

\* pushPacket(): the next edge's target is called on this thread.
PushEdgeDirectly(t) ==
  /\ Running(t, "edges")
  /\ LET frame == Last(stack[t])
     IN  /\ frame.next <= Len(OutEdges(frame.info))
         /\ LET edge == OutEdges(frame.info)[frame.next]
            IN  /\ GoesDirect(t, edge)
                /\ SendToNode(t, edge.next, frame.info, frame.next)
                /\ stack' = [stack EXCEPT ![t] =
                     Append(Append(Front(@), [frame EXCEPT !.next = @ + 1]),
                            HandlerOf(edge.next, frame.info.params))]
  /\ UNCHANGED <<callback, queue, signalled, pushes, crashed>>

\* A fault: the group is remembered for every edge.
PushEdgeAsideEach(t) ==
  /\ Running(t, "edges")
  /\ LET frame == Last(stack[t])
     IN  /\ frame.next <= Len(OutEdges(frame.info))
         /\ LET edge == OutEdges(frame.info)[frame.next]
            IN  /\ ~ GoesDirect(t, edge)
                /\ SetTop(t, [frame EXCEPT
                     !.next = @ + 1,
                     !.groups = Append(@, GroupOf[edge.next])])
  /\ UNCHANGED <<callback, queue, signalled, lastReceived, pushes, delivered,
                 crashed>>

\* pushPacket(): the next edge's thread group is remembered, once.
PushEdgeAside(t) ==
  /\ Running(t, "edges")
  /\ LET frame == Last(stack[t])
     IN  /\ frame.next <= Len(OutEdges(frame.info))
         /\ LET edge == OutEdges(frame.info)[frame.next]
                g    == GroupOf[edge.next]
            IN  /\ ~ GoesDirect(t, edge)
                /\ SetTop(t, [frame EXCEPT
                     !.next = @ + 1,
                     !.groups = IF \E i \in DOMAIN @ : @[i] = g
                                THEN @ ELSE Append(@, g)])
  /\ UNCHANGED <<callback, queue, signalled, lastReceived, pushes, delivered,
                 crashed>>

\* pushPacket(): the loop over the edges is done.
EndEdges(t) ==
  /\ Running(t, "edges")
  /\ LET frame == Last(stack[t])
     IN  /\ frame.next > Len(OutEdges(frame.info))
         /\ IF frame.groups = <<>>
            THEN Return(t)
            ELSE SetTop(t, [frame EXCEPT !.pc = "enqueue"])
  /\ UNCHANGED <<callback, queue, signalled, lastReceived, pushes, delivered,
                 crashed>>

\* A fault: the newest packet goes first.
EnqueueInFront(t) ==
  /\ Running(t, "enqueue")
  /\ LET frame == Last(stack[t])
     IN  /\ queue' = [queue EXCEPT ![Head(frame.groups)][t] =
                                      <<frame.info>> \o @]
         /\ SetTop(t, [frame EXCEPT !.pc = "signal"])
  /\ UNCHANGED <<callback, signalled, lastReceived, pushes, delivered, crashed>>

\* mPacketQueue.enqueue() of the next group set aside.
Enqueue(t) ==
  /\ Running(t, "enqueue")
  /\ LET frame == Last(stack[t])
     IN  /\ queue' = [queue EXCEPT ![Head(frame.groups)][t] =
                                      Append(@, frame.info)]
         /\ SetTop(t, [frame EXCEPT !.pc = "signal"])
  /\ UNCHANGED <<callback, signalled, lastReceived, pushes, delivered, crashed>>

\* uv_async_send() to that group; the last one ends the call.
Signal(t) ==
  /\ Running(t, "signal")
  /\ LET frame == Last(stack[t])
     IN  /\ signalled' = [signalled EXCEPT ![Head(frame.groups)] = TRUE]
         /\ IF Tail(frame.groups) = <<>>
            THEN Return(t)
            ELSE SetTop(t, [frame EXCEPT !.pc = "enqueue", !.groups = Tail(@)])
  /\ UNCHANGED <<callback, queue, lastReceived, pushes, delivered, crashed>>

HandlerReturns(t) ==
  /\ Running(t, "handler")
  /\ Return(t)
  /\ UNCHANGED <<callback, queue, signalled, lastReceived, pushes, delivered,
                 crashed>>

HandlerThrows(t) ==
  /\ Running(t, "handler")
  /\ Last(stack[t]).node \in Throwing
  /\ Unwind(t)
  /\ UNCHANGED <<callback, queue, signalled, lastReceived, pushes, delivered>>

-----------------------------------------------------------------------------
\* libuv takes the pending flag down and calls packetReady().
PacketReady(g) ==
  /\ AtRest(g)
  /\ signalled[g]
  /\ signalled' = [signalled EXCEPT ![g] = FALSE]
  /\ callback' = [callback EXCEPT ![g] = Scanning]
  /\ UNCHANGED <<stack, queue, lastReceived, pushes, delivered, crashed>>

\* try_dequeue_bulk() visits the producers' queues one after the other.
Dequeue(g, t) ==
  /\ callback[g].pc = "scan"
  /\ t \in callback[g].left
  /\ Len(callback[g].batch) < MaxDequeue
  /\ LET room  == MaxDequeue - Len(callback[g].batch)
         avail == Len(queue[g][t])
         count == IF avail <= room THEN avail ELSE room
     IN  /\ callback' = [callback EXCEPT
              ![g].left = @ \ {t},
              ![g].batch = @ \o SubSeq(queue[g][t], 1, count)]
         /\ queue' = [queue EXCEPT ![g][t] = SubSeq(@, count + 1, avail)]
  /\ UNCHANGED <<stack, signalled, lastReceived, pushes, delivered, crashed>>

\* A fault: the pending flag is taken down when the queue has been drained.
DequeuedThenClear(g) ==
  /\ callback[g].pc = "scan"
  /\ callback[g].left = {} \/ Len(callback[g].batch) >= MaxDequeue
  /\ callback' = [callback EXCEPT ![g] =
       IF @.batch = <<>> THEN Idle ELSE [@ EXCEPT !.pc = "run", !.left = {}]]
  /\ signalled' = [signalled EXCEPT ![g] = @ /\ callback[g].batch # <<>>]
  /\ UNCHANGED <<stack, queue, lastReceived, pushes, delivered, crashed>>

\* try_dequeue_bulk() returns: nothing found ends packetReady().
Dequeued(g) ==
  /\ callback[g].pc = "scan"
  /\ callback[g].left = {} \/ Len(callback[g].batch) >= MaxDequeue
  /\ callback' = [callback EXCEPT ![g] =
       IF @.batch = <<>> THEN Idle ELSE [@ EXCEPT !.pc = "run", !.left = {}]]
  /\ UNCHANGED <<stack, queue, signalled, lastReceived, pushes, delivered,
                 crashed>>

\* packetReady() has the packet at the head of its batch in hand.
InHand(g) ==
  callback[g].pc = "run" /\ stack[g] = <<>> /\ callback[g].batch # <<>>

\* The next edge is due on this thread: the target's handler is called.
DeliverQueued(g) ==
  /\ InHand(g)
  /\ LET info == Head(callback[g].batch)
         i    == callback[g].next
     IN  /\ info.chan # Manual
         /\ i <= Len(OutEdges(info))
         /\ LET edge == OutEdges(info)[i]
            IN  /\ DueFromQueue(g, info.by, edge)
                /\ SendToNode(g, edge.next, info, i)
                /\ Call(g, HandlerOf(edge.next, info.params))
  /\ callback' = [callback EXCEPT ![g].next = @ + 1]
  /\ UNCHANGED <<queue, signalled, pushes, crashed>>

\* The next edge is another thread's, or was served by pushPacket() itself.
SkipEdge(g) ==
  /\ InHand(g)
  /\ LET info == Head(callback[g].batch)
         i    == callback[g].next
     IN  /\ info.chan # Manual
         /\ i <= Len(OutEdges(info))
         /\ ~ DueFromQueue(g, info.by, OutEdges(info)[i])
  /\ callback' = [callback EXCEPT ![g].next = @ + 1]
  /\ UNCHANGED <<stack, queue, signalled, lastReceived, pushes, delivered,
                 crashed>>

\* A packet of sendPacket() goes to its node.
DeliverManual(g) ==
  /\ InHand(g)
  /\ LET info == Head(callback[g].batch)
     IN  /\ info.chan = Manual
         /\ SendToNode(g, info.node, info, 0)
         /\ Call(g, HandlerOf(info.node, info.params))
  /\ callback' = [callback EXCEPT ![g].batch = Tail(@)]
  /\ UNCHANGED <<queue, signalled, pushes, crashed>>

\* All the packet's edges are seen.
NextPacket(g) ==
  /\ InHand(g)
  /\ LET info == Head(callback[g].batch)
     IN  info.chan # Manual /\ callback[g].next > Len(OutEdges(info))
  /\ callback' = [callback EXCEPT ![g].batch = Tail(@), ![g].next = 1]
  /\ UNCHANGED <<stack, queue, signalled, lastReceived, pushes, delivered,
                 crashed>>

\* A fault: one batch per call of packetReady().
NextBatchNever(g) ==
  /\ callback[g].pc = "run"
  /\ stack[g] = <<>>
  /\ callback[g].batch = <<>>
  /\ callback' = [callback EXCEPT ![g] = Idle]
  /\ UNCHANGED <<stack, queue, signalled, lastReceived, pushes, delivered,
                 crashed>>

\* The batch is done: packetReady() looks for more.
NextBatch(g) ==
  /\ callback[g].pc = "run"
  /\ stack[g] = <<>>
  /\ callback[g].batch = <<>>
  /\ callback' = [callback EXCEPT ![g] = Scanning]
  /\ UNCHANGED <<stack, queue, signalled, lastReceived, pushes, delivered,
                 crashed>>

-----------------------------------------------------------------------------
\* Code that runs by itself once entered.
PushStep(t) ==
  \/ Accumulate(t)
  \/ PushEdgeDirectly(t)
  \/ PushEdgeAside(t)
  \/ EndEdges(t)
  \/ Enqueue(t)
  \/ Signal(t)

CallbackStep(g) ==
  \/ PacketReady(g)
  \/ \E t \in Threads : Dequeue(g, t)
  \/ Dequeued(g)
  \/ DeliverQueued(g)
  \/ SkipEdge(g)
  \/ DeliverManual(g)
  \/ NextPacket(g)
  \/ NextBatch(g)

\* Code of the implementations and of the application.
Environment(t) ==
  \/ \E n \in Nodes, c \in Channels, p \in Params : HandlerPushes(t, n, c, p)
  \/ \E n \in Nodes, c \in Channels, p \in FreshParams : SourcePushes(t, n, c, p)
  \/ \E n \in Nodes, p \in FreshParams : SendPacket(t, n, p)
  \/ HandlerReturns(t)
  \/ HandlerThrows(t)

Next ==
  /\ ~ crashed
  /\ \/ \E t \in Threads : PushStep(t) \/ Environment(t)
     \/ \E g \in Groups : CallbackStep(g)

(***************************************************************************)
(* A thread inside the library goes on, a handler returns in the end, and  *)
(* libuv runs the callback of an async handle that is pending: the uv      *)
(* thread sits in uv_run() whenever it is at rest.                         *)
(***************************************************************************)
Fairness ==
  /\ \A t \in Threads :
       /\ WF_vars(~ crashed /\ PushStep(t))
       /\ WF_vars(~ crashed /\ HandlerReturns(t))
  /\ \A g \in Groups : WF_vars(~ crashed /\ CallbackStep(g))

Spec == Init /\ [][Next]_vars

FairSpec == Spec /\ Fairness

-----------------------------------------------------------------------------
TypeOK ==
  /\ stack \in [Threads -> Seq(Frame)]
  /\ callback \in [Groups -> CallbackState]
  /\ queue \in [Groups -> [Threads -> Seq(Info)]]
  /\ signalled \in [Groups -> BOOLEAN]
  /\ lastReceived \in [Nodes -> Params \cup {Never}]
  /\ pushes \in Nat
  /\ crashed \in BOOLEAN

\* Thread t is between enqueue() and uv_async_send() for group g.
Signalling(t, g) == Running(t, "signal") /\ Head(Last(stack[t]).groups) = g

\* packetReady() of g will look at t's part of the queue before it ends.
WillVisit(g, t) ==
  \/ callback[g].pc = "run"
  \/ /\ callback[g].pc = "scan"
     /\ t \in callback[g].left \/ callback[g].batch # <<>>

(***************************************************************************)
(* No packet is stranded in a queue (pushPacket()'s enqueue-then-signal    *)
(* against libuv's clear-then-drain): while the queue of a group is not    *)
(* empty, its async handle is pending, its packetReady() will still look,  *)
(* or the producer has yet to signal.                                      *)
(***************************************************************************)
NoStrandedPacket ==
  \A g \in Groups, t \in Threads :
    (queue[g][t] # <<>> /\ ~ crashed)
      => signalled[g] \/ WillVisit(g, t) \/ Signalling(t, g)

(***************************************************************************)
(* A handler only ever runs on the thread of its instance's group: what    *)
(* pushPacket(), packetReady() and sendPacket() each decide on their own   *)
(* ("A node instance only ever executes in a single thread", README.md).   *)
(***************************************************************************)
HandlersStayHome ==
  \A t \in Threads : \A i \in DOMAIN stack[t] :
    stack[t][i].pc = "handler" => GroupOf[stack[t][i].node] = t
=============================================================================
