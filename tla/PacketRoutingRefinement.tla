----------------------- MODULE PacketRoutingRefinement -----------------------
(***************************************************************************)
(* PacketRouting implements PacketDelivery: where each delivery that is    *)
(* still owed sits, in the frames, queues and batches of the threads.      *)
(***************************************************************************)
EXTENDS PacketRouting

TargetGroup(info, i) == GroupOf[OutEdges(info)[i].next]

\* The deliveries of info over its edges with the numbers in I.
Over(info, I) == {DeliveryOf(info, i, TargetGroup(info, i)) : i \in I}

ManualOf(info) == DeliveryOf(info, 0, GroupOf[info.node])

\* The edges that a call on t does not serve itself, and those it may still.
Aside(t, info) == {i \in DOMAIN OutEdges(info) : ~ GoesDirect(t, OutEdges(info)[i])}
ToSee(info, from) == {i \in DOMAIN OutEdges(info) : i >= from}

\* The groups that a call has yet to queue its packet to.
Ahead(f) == ToSet(IF f.pc = "signal" THEN Tail(f.groups) ELSE f.groups)

\* Owed by an activation of pushPacket() or sendPacket() on t.
OwedByFrame(t, f) ==
  CASE f.pc = "edges" ->
         Over(f.info, ToSee(f.info, f.next) \cup Aside(t, f.info))
    [] f.pc \in {"enqueue", "signal"} /\ f.info.chan = Manual ->
         {ManualOf(f.info) : g \in Ahead(f)}
    [] f.pc \in {"enqueue", "signal"} /\ f.info.chan # Manual ->
         Over(f.info, {i \in Aside(t, f.info) : TargetGroup(f.info, i) \in Ahead(f)})
    [] OTHER -> {}

\* Owed by a packet in the hands of group g, from its edge number from on.
OwedByPacket(g, info, from) ==
  IF info.chan = Manual
  THEN {ManualOf(info)}
  ELSE Over(info, {i \in ToSee(info, from) : DueFromQueue(g, info.by, OutEdges(info)[i])})

\* The places a delivery can be owed from: a stack, a queue, a batch.
OwedByStack(t, frames) == UNION {OwedByFrame(t, frames[i]) : i \in DOMAIN frames}

OwedByQueue(g, packets) == UNION {OwedByPacket(g, packets[i], 1) : i \in DOMAIN packets}

OwedByBatch(g, batch, from) ==
  IF batch = <<>> THEN {}
  ELSE OwedByPacket(g, Head(batch), from) \cup OwedByQueue(g, Tail(batch))

Owed ==
  UNION ({OwedByStack(t, stack[t]) : t \in Threads}
         \cup {OwedByQueue(g, queue[g][t]) : g \in Groups, t \in Threads}
         \cup {OwedByBatch(g, callback[g].batch, callback[g].next) : g \in Groups})

\* The calls that have taken their packet and not returned.
OpenInStack(frames) ==
  {frames[i].info.id :
     i \in {j \in DOMAIN frames : frames[j].pc \in {"edges", "enqueue", "signal"}}}

Open == UNION {OpenInStack(stack[t]) : t \in Threads}

Promise == INSTANCE PacketDelivery WITH owed <- Owed, open <- Open

(***************************************************************************)
(* Once a push has returned, every edge of its channel gets the packet     *)
(* exactly once, on its target's thread, whichever of the two loops over   *)
(* the edges (pushPacket(), packetReady()) serves it.                      *)
(***************************************************************************)
ImplementsDelivery == Promise!Spec

\* The nodes whose handlers a push for n on t calls directly, and those that
\* these handlers push for in turn.
CalledBy(t, n) ==
  {m \in Nodes : \E c \in Channels : \E e \in ToSet(Edges[n][c]) :
                    e.next = m /\ GoesDirect(t, e)}

PushedIn(t, n) == UNION {Pushers(m) : m \in CalledBy(t, n)}

\* The nodes that are pushed for on t, at any depth, once those of N are.
Reached(t, N) ==
  {n \in Nodes : \A S \in SUBSET Nodes :
                   (N \subseteq S /\ \A m \in S : PushedIn(t, m) \subseteq S) => n \in S}

\* A push for n on t may run another push for n before it returns.
Repushes(t, n) == n \in Reached(t, PushedIn(t, n))

\* A handler of n may run a handler of n before it returns.
Reenters(n) == \E m \in Reached(GroupOf[n], Pushers(n)) : n \in CalledBy(GroupOf[n], m)

(***************************************************************************)
(* Packets a thread pushed one after the other arrive over one edge in     *)
(* that order ("if called from multiple threads simultaneously, packet     *)
(* processing order is not guaranteed", IPacketPusher.h: so it is          *)
(* otherwise), unless a handler that the first push calls may come to push *)
(* for the same node, over a cycle of direct edges or through that node's  *)
(* pusher from another's handler: the push inside is through first.        *)
(***************************************************************************)
DeliveredInOrder ==
  [][\A d \in delivered' \ delivered, e \in Owed :
       (/\ <<e.node, e.chan, e.edge, e.by>> = <<d.node, d.chan, d.edge, d.by>>
        /\ e.id < d.id)
       => Repushes(d.by, d.node)]_vars

(***************************************************************************)
(* A packet that a handler pushes for its own node inherits from the       *)
(* packet the handler was given, not from another its node got meanwhile   *)
(* (lastReceivedParameters is one slot per node, read again by every       *)
(* push), unless what the handler pushes may come to run the same handler  *)
(* on another packet before the next push.                                 *)
(***************************************************************************)
InheritsFromOwnPacket ==
  \A t \in Threads :
    (Running(t, "accumulate") /\ Len(stack[t]) > 1)
      => LET n == Last(stack[t]).info.node
             handler == Last(Front(stack[t]))
         IN  handler.node = n =>
               Reenters(n) \/ lastReceived[n] = handler.params

(***************************************************************************)
(* Whatever is pushed gets where it is owed, if no call fails: the number  *)
(* of deliveries owed by any call falls to zero.                           *)
(***************************************************************************)
EverythingArrives ==
  \A id \in 1..MaxPushes :
    (\E d \in Owed : d.id = id) ~> (\A d \in Owed : d.id # id)

(***************************************************************************)
(* pushPacket() is thread-safe: no thread reads lastReceivedParameters of  *)
(* a node, a plain shared_ptr, as the node's own thread assigns it.        *)
(***************************************************************************)
AssignsLastReceivedOf(t, n) ==
  \/ /\ Running(t, "edges")
     /\ LET f == Last(stack[t])
        IN  /\ f.next <= Len(OutEdges(f.info))
            /\ GoesDirect(t, OutEdges(f.info)[f.next])
            /\ OutEdges(f.info)[f.next].next = n
  \/ /\ t \in Groups
     /\ InHand(t)
     /\ LET info == Head(callback[t].batch)
        IN  IF info.chan = Manual
            THEN info.node = n
            ELSE /\ callback[t].next <= Len(OutEdges(info))
                 /\ DueFromQueue(t, info.by, OutEdges(info)[callback[t].next])
                 /\ OutEdges(info)[callback[t].next].next = n

ReadsLastReceivedOf(t, n) ==
  Running(t, "accumulate") /\ Last(stack[t]).info.node = n

PushIsThreadSafe ==
  \A t, u \in Threads, n \in Nodes :
    t # u => ~ (ReadsLastReceivedOf(t, n) /\ AssignsLastReceivedOf(u, n))
=============================================================================
