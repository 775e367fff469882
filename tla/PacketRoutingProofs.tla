------------------------- MODULE PacketRoutingProofs -------------------------
(***************************************************************************)
(* What holds of PacketRouting for every graph, every assignment of nodes  *)
(* to threads, every number of threads and every batch size.               *)
(***************************************************************************)
EXTENDS PacketRoutingRefinement, SequenceTheorems, TLAPS

\* The last element of a sequence, and the rest of it.
LEMMA LastFront ==
  ASSUME NEW S, NEW s \in Seq(S), s # <<>>
  PROVE  /\ Last(s) \in S
         /\ Front(s) \in Seq(S)
         /\ Len(Front(s)) = Len(s) - 1
         /\ \A i \in 1..(Len(s)-1) : Front(s)[i] = s[i]
<1>. DEFINE n == Len(s) - 1
<1>1. Len(s) \in Nat \ {0} /\ n \in Int /\ 1 \in Int
  OBVIOUS
<1>2. \A i \in 1 .. n : s[i] \in S
  BY <1>1
<1>3. s[Len(s)] \in S
  BY <1>1
<1>. HIDE DEF n
<1>4. /\ SubSeq(s, 1, n) \in Seq(S)
      /\ Len(SubSeq(s, 1, n)) = IF 1 <= n THEN n-1+1 ELSE 0
      /\ \A i \in 1 .. n-1+1 : SubSeq(s, 1, n)[i] = s[1+i-1]
  BY <1>1, <1>2, SubSeqProperties
<1>5. Last(s) \in S
  BY <1>3 DEF Last
<1>6. Front(s) = SubSeq(s, 1, n) /\ n = Len(s) - 1
  BY DEF Front, n
<1>7. \A i \in 1..n : Front(s)[i] = s[i]
  <2>. SUFFICES ASSUME NEW i \in 1..n PROVE SubSeq(s, 1, n)[i] = s[i]
    BY <1>6
  <2>1. i \in 1..n-1+1 /\ 1+i-1 = i
    BY <1>1
  <2>. QED BY <2>1, <1>4
<1>8. Len(Front(s)) = n
  BY <1>1, <1>4, <1>6
<1>. QED BY <1>4, <1>5, <1>6, <1>7, <1>8

\* Cutting a sequence in two leaves sequences over the same set.
LEMMA SubSeqType ==
  ASSUME NEW S, NEW s \in Seq(S), NEW m \in Nat \ {0}, NEW n \in 0..Len(s)
  PROVE  SubSeq(s, m, n) \in Seq(S)
<1>1. m \in Int /\ n \in Int
  OBVIOUS
<1>2. \A i \in m..n : s[i] \in S
  OBVIOUS
<1>. QED BY <1>1, <1>2, SubSeqProperties

\* Parameters stay parameters when the node's last ones are merged in.
LEMMA MergeObjects ==
  ASSUME NEW own \in Objects, NEW last \in Objects
  PROVE  Merge(own, last) \in Objects
<1>1. PICK K \in SUBSET Keys : own \in [K -> Values]
  BY DEF Objects
<1>2. PICK L \in SUBSET Keys : last \in [L -> Values]
  BY DEF Objects
<1>3. Merge(own, last) \in [K \cup L -> Values]
  BY <1>1, <1>2 DEF Merge
<1>4. QED
  BY <1>3 DEF Objects

LEMMA AccumulatedParams ==
  ASSUME NEW own \in Params, NEW last \in Params \cup {Never},
         ~ AccumulateThrows(own, last)
  PROVE  Accumulated(own, last) \in Params
BY MergeObjects, ImplementationAssumption DEF Accumulated, AccumulateThrows, Params

-----------------------------------------------------------------------------
(***************************************************************************)
(* The invariant.  TypeOK does not say where a packet or a handler may be; *)
(* these sets do, and the invariant is that everything sits in its own.    *)
(***************************************************************************)

\* A packet of sendPacket() only travels to its node's group.
HomeInfo(g) == {i \in Info : i.chan = Manual => GroupOf[i.node] = g}

\* A handler runs at home; sendPacket() hands over to one group, the node's.
HomeFrame(t) ==
  {f \in Frame :
     /\ f.pc = "handler" => GroupOf[f.node] = t
     /\ (f.pc \in {"enqueue", "signal"} /\ f.info.chan = Manual)
          => \A j \in DOMAIN f.groups : f.groups[j] = GroupOf[f.info.node]}

StackInv ==
  /\ stack \in [Threads -> Seq(Frame)]
  /\ \A t \in Threads : stack[t] \in Seq(HomeFrame(t))

CallbackInv ==
  /\ callback \in [Groups -> CallbackState]
  /\ \A g \in Groups : callback[g].batch \in Seq(HomeInfo(g))

QueueInv ==
  /\ queue \in [Groups -> [Threads -> Seq(Info)]]
  /\ \A g \in Groups, t \in Threads : queue[g][t] \in Seq(HomeInfo(g))

ScalarInv ==
  /\ signalled \in [Groups -> BOOLEAN]
  /\ lastReceived \in [Nodes -> Params \cup {Never}]
  /\ pushes \in Nat
  /\ crashed \in BOOLEAN

HomeInv == StackInv /\ CallbackInv /\ QueueInv /\ ScalarInv

-----------------------------------------------------------------------------
\* Replacing one thread's stack by a good one keeps the stacks good.
LEMMA StackStep ==
  ASSUME StackInv, NEW t \in Threads, NEW s \in Seq(HomeFrame(t)),
         stack' = [stack EXCEPT ![t] = s]
  PROVE  StackInv'
<1>1. s \in Seq(Frame)
  <2>1. HomeFrame(t) \subseteq Frame
    BY DEF HomeFrame
  <2>. QED BY <2>1, SeqMonotonic
<1>2. stack' \in [Threads -> Seq(Frame)]
  BY <1>1 DEF StackInv
<1>3. \A u \in Threads : stack'[u] \in Seq(HomeFrame(u))
  BY DEF StackInv
<1>. QED BY <1>2, <1>3 DEF StackInv, HomeFrame

LEMMA CallStep ==
  ASSUME StackInv, NEW t \in Threads, NEW f \in HomeFrame(t), Call(t, f)
  PROVE  StackInv'
<1>1. Append(stack[t], f) \in Seq(HomeFrame(t))
  BY DEF StackInv
<1>. QED BY <1>1, StackStep DEF Call, StackInv

LEMMA SetTopStep ==
  ASSUME StackInv, NEW t \in Threads, stack[t] # <<>>, NEW f \in HomeFrame(t),
         SetTop(t, f)
  PROVE  StackInv'
<1>1. Front(stack[t]) \in Seq(HomeFrame(t))
  BY LastFront DEF StackInv
<1>2. Append(Front(stack[t]), f) \in Seq(HomeFrame(t))
  BY <1>1
<1>. QED BY <1>2, StackStep DEF SetTop, StackInv

LEMMA ReturnStep ==
  ASSUME StackInv, NEW t \in Threads, stack[t] # <<>>, Return(t)
  PROVE  StackInv'
<1>1. Front(stack[t]) \in Seq(HomeFrame(t))
  BY LastFront DEF StackInv
<1>. QED BY <1>1, StackStep DEF Return, StackInv

LEMMA UnwindStep ==
  ASSUME StackInv, NEW t \in Threads, Unwind(t)
  PROVE  StackInv'
<1>1. CASE \E i \in Catchers(t) : stack' = [stack EXCEPT ![t] = SubSeq(@, 1, i)]
  <2>1. PICK i \in Catchers(t) : stack' = [stack EXCEPT ![t] = SubSeq(@, 1, i)]
    BY <1>1
  <2>2. stack[t] \in Seq(HomeFrame(t)) /\ i \in 0..Len(stack[t])
    BY DEF StackInv, Catchers
  <2>3. SubSeq(stack[t], 1, i) \in Seq(HomeFrame(t))
    BY <2>2, SubSeqType
  <2>. QED BY <2>1, <2>3, StackStep DEF StackInv
<1>2. CASE stack' = [stack EXCEPT ![t] = <<>>]
  <2>1. <<>> \in Seq(HomeFrame(t))
    OBVIOUS
  <2>. QED BY <1>2, <2>1, StackStep
<1>. QED BY <1>1, <1>2 DEF Unwind

LEMMA UnwindScalar ==
  ASSUME crashed \in BOOLEAN, NEW t, Unwind(t)
  PROVE  crashed' \in BOOLEAN
<1>1. CASE UNCHANGED crashed
  BY <1>1
<1>2. CASE crashed' = (t \in Groups)
  BY <1>2
<1>. QED BY <1>1, <1>2 DEF Unwind

\* The activation t is in, by its program counter.
LEMMA TopFrame ==
  ASSUME StackInv, NEW t \in Threads, NEW pc, Running(t, pc)
  PROVE  /\ stack[t] # <<>>
         /\ Last(stack[t]) \in HomeFrame(t)
         /\ Last(stack[t]).pc = pc
         /\ pc \in {"accumulate", "edges"} => Last(stack[t]) \in EdgeFrame
         /\ pc \in {"enqueue", "signal"} => Last(stack[t]) \in QueueFrame
         /\ pc = "handler" => Last(stack[t]) \in HandlerFrame
<1>1. stack[t] # <<>> /\ Last(stack[t]).pc = pc /\ stack[t] \in Seq(HomeFrame(t))
  BY DEF Running, StackInv
<1>2. Last(stack[t]) \in HomeFrame(t)
  BY <1>1, LastFront
<1>3. Last(stack[t]) \in EdgeFrame \cup QueueFrame \cup HandlerFrame
  BY <1>2 DEF HomeFrame, Frame
<1>. QED BY <1>1, <1>2, <1>3 DEF EdgeFrame, QueueFrame, HandlerFrame

\* A frame of the loop over the edges has no place it must be.
LEMMA EdgeFrameHome ==
  ASSUME NEW t \in Threads, NEW f \in EdgeFrame
  PROVE  f \in HomeFrame(t)
BY DEF EdgeFrame, HomeFrame, Frame

\* A packet of pushPacket() is handed over by a frame that may be anywhere.
LEMMA QueueFrameHome ==
  ASSUME NEW t \in Threads, NEW f \in QueueFrame, f.info.chan # Manual
  PROVE  f \in HomeFrame(t)
BY DEF QueueFrame, HomeFrame, Frame

LEMMA HandlerHome ==
  ASSUME NEW t \in Threads, NEW n \in Nodes, NEW p \in Params, GroupOf[n] = t
  PROVE  HandlerOf(n, p) \in HomeFrame(t)
BY DEF HandlerOf, HandlerFrame, HomeFrame, Frame

\* The edges of a packet that came from a channel.
LEMMA EdgeType ==
  ASSUME NEW info, info.node \in Nodes, info.chan \in Channels,
         NEW i \in Nat \ {0}, i <= Len(OutEdges(info))
  PROVE  OutEdges(info)[i] \in Edge
<1>1. OutEdges(info) \in Seq(Edge)
  BY GraphAssumption DEF OutEdges
<1>2. i \in 1..Len(OutEdges(info))
  BY <1>1
<1>. QED BY <1>1, <1>2, ElementOfSeq

LEMMA SendToNodeStep ==
  ASSUME lastReceived \in [Nodes -> Params \cup {Never}],
         NEW t, NEW n \in Nodes, NEW info, info.params \in Params, NEW i,
         SendToNode(t, n, info, i)
  PROVE  lastReceived' \in [Nodes -> Params \cup {Never}]
BY DEF SendToNode

-----------------------------------------------------------------------------
\* One lemma per action: it leaves everything in its own place.

LEMMA HandlerPushesHome ==
  ASSUME HomeInv, NEW t \in Threads, NEW n \in Nodes, NEW c \in Channels,
         NEW p \in Params, HandlerPushes(t, n, c, p)
  PROVE  HomeInv'
<1>2. PushOf(NewInfo(t, n, c, p)) \in EdgeFrame
  BY DEF PushOf, NewInfo, EdgeFrame, EdgeInfo, HomeInv, ScalarInv
<1>3. StackInv'
  BY <1>2, EdgeFrameHome, CallStep DEF HandlerPushes, HomeInv
<1>4. CallbackInv' /\ QueueInv'
  BY DEF HandlerPushes, HomeInv, CallbackInv, QueueInv, HomeInfo
<1>5. ScalarInv'
  BY DEF HandlerPushes, HomeInv, ScalarInv
<1>. QED BY <1>3, <1>4, <1>5 DEF HomeInv

LEMMA SourcePushesHome ==
  ASSUME HomeInv, NEW t \in Threads, NEW n \in Nodes, NEW c \in Channels,
         NEW p \in FreshParams, SourcePushes(t, n, c, p)
  PROVE  HomeInv'
<1>1. PushOf(NewInfo(t, n, c, p)) \in EdgeFrame
  BY ImplementationAssumption
     DEF PushOf, NewInfo, EdgeFrame, EdgeInfo, HomeInv, ScalarInv
<1>2. StackInv'
  BY <1>1, EdgeFrameHome, CallStep DEF SourcePushes, HomeInv
<1>3. CallbackInv' /\ QueueInv'
  BY DEF SourcePushes, HomeInv, CallbackInv, QueueInv, HomeInfo
<1>4. ScalarInv'
  BY DEF SourcePushes, HomeInv, ScalarInv
<1>. QED BY <1>2, <1>3, <1>4 DEF HomeInv

LEMMA SendPacketHome ==
  ASSUME HomeInv, NEW t \in Threads, NEW n \in Nodes, NEW p \in FreshParams,
         SendPacket(t, n, p)
  PROVE  HomeInv'
<1>. DEFINE info == NewInfo(t, n, Manual, p)
            f    == HandOver(info, <<GroupOf[n]>>)
<1>1. info \in Info /\ info.node = n
  BY ImplementationAssumption DEF NewInfo, Info, HomeInv, ScalarInv
<1>2. <<GroupOf[n]>> \in Seq(Groups) \ {<<>>}
  BY GraphAssumption
<1>. HIDE DEF info
<1>3. f \in QueueFrame
  BY <1>1, <1>2 DEF QueueFrame, HandOver
<1>4. f \in HomeFrame(t)
  BY <1>1, <1>3 DEF HomeFrame, Frame, HandOver
<1>5. Call(t, f)
  BY DEF SendPacket, info
<1>6. StackInv'
  BY <1>4, <1>5, CallStep DEF HomeInv
<1>7. CallbackInv' /\ QueueInv'
  BY DEF SendPacket, HomeInv, CallbackInv, QueueInv, HomeInfo
<1>8. ScalarInv'
  BY DEF SendPacket, HomeInv, ScalarInv
<1>. QED BY <1>6, <1>7, <1>8 DEF HomeInv

LEMMA AccumulateHome ==
  ASSUME HomeInv, NEW t \in Threads, Accumulate(t)
  PROVE  HomeInv'
<1>. DEFINE frame == Last(stack[t])
            last  == lastReceived[frame.info.node]
            f     == [frame EXCEPT !.pc = "edges", !.info.params = Accumulated(@, last)]
<1>1. frame \in EdgeFrame /\ stack[t] # <<>>
  BY TopFrame DEF Accumulate, HomeInv
<1>2. last \in Params \cup {Never} /\ frame.info \in EdgeInfo
  BY <1>1 DEF EdgeFrame, EdgeInfo, HomeInv, ScalarInv
<1>3. StackInv'
  <2>1. CASE AccumulateThrows(frame.info.params, last)
    BY <2>1, UnwindStep DEF Accumulate, HomeInv
  <2>2. CASE ~ AccumulateThrows(frame.info.params, last)
    <3>1. CASE Return(t)
      BY <1>1, <3>1, ReturnStep DEF HomeInv
    <3>2. CASE SetTop(t, f)
      <4>1. Accumulated(frame.info.params, last) \in Params
        BY <1>2, <2>2, AccumulatedParams DEF EdgeInfo
      <4>2. f \in EdgeFrame
        BY <1>1, <4>1 DEF EdgeFrame, EdgeInfo
      <4>. HIDE DEF f
      <4>. QED BY <1>1, <3>2, <4>2, EdgeFrameHome, SetTopStep DEF HomeInv
    <3>. QED BY <2>2, <3>1, <3>2 DEF Accumulate
  <2>. QED BY <2>1, <2>2
<1>4. CallbackInv' /\ QueueInv'
  BY DEF Accumulate, HomeInv, CallbackInv, QueueInv, HomeInfo
<1>5. ScalarInv'
  <2>1. crashed' \in BOOLEAN
    BY UnwindScalar DEF Accumulate, HomeInv, ScalarInv
  <2>. QED BY <2>1 DEF Accumulate, HomeInv, ScalarInv
<1>. QED BY <1>3, <1>4, <1>5 DEF HomeInv

LEMMA PushEdgeDirectlyHome ==
  ASSUME HomeInv, NEW t \in Threads, PushEdgeDirectly(t)
  PROVE  HomeInv'
<1>. DEFINE frame == Last(stack[t])
            edge  == OutEdges(frame.info)[frame.next]
            after == [frame EXCEPT !.next = @ + 1]
            h     == HandlerOf(edge.next, frame.info.params)
<1>1. frame \in EdgeFrame /\ stack[t] # <<>>
  BY TopFrame DEF PushEdgeDirectly, HomeInv
<1>2. /\ frame.info.node \in Nodes
      /\ frame.info.chan \in Channels
      /\ frame.info.params \in Params
      /\ frame.next \in Nat \ {0}
  BY <1>1 DEF EdgeFrame, EdgeInfo
<1>3. /\ GoesDirect(t, edge)
      /\ SendToNode(t, edge.next, frame.info, frame.next)
      /\ stack' = [stack EXCEPT ![t] = Append(Append(Front(@), after), h)]
  BY DEF PushEdgeDirectly
<1>4. after \in HomeFrame(t)
  <2>1. after \in EdgeFrame
    BY <1>1 DEF EdgeFrame
  <2>. QED BY <2>1, EdgeFrameHome
<1>5. edge.next \in Nodes /\ h \in HomeFrame(t)
  <2>1. GroupOf[edge.next] = t
    BY <1>3 DEF GoesDirect
  <2>2. edge.next \in Nodes
    BY <1>2, EdgeType DEF PushEdgeDirectly, Edge
  <2>. QED BY <1>2, <2>1, <2>2, HandlerHome
<1>. HIDE DEF after, h
<1>6. StackInv'
  <2>1. Front(stack[t]) \in Seq(HomeFrame(t))
    BY <1>1, LastFront DEF HomeInv, StackInv
  <2>2. Append(Append(Front(stack[t]), after), h) \in Seq(HomeFrame(t))
    BY <2>1, <1>4, <1>5
  <2>. QED BY <1>3, <2>2, StackStep DEF HomeInv, StackInv
<1>7. CallbackInv' /\ QueueInv'
  BY SMTT(60) DEF PushEdgeDirectly, HomeInv, CallbackInv, QueueInv, HomeInfo
<1>8. ScalarInv'
  BY <1>2, <1>3, <1>5, SendToNodeStep DEF PushEdgeDirectly, HomeInv, ScalarInv
<1>. QED BY <1>6, <1>7, <1>8 DEF HomeInv

LEMMA PushEdgeAsideHome ==
  ASSUME HomeInv, NEW t \in Threads, PushEdgeAside(t)
  PROVE  HomeInv'
<1>. DEFINE frame == Last(stack[t])
            edge  == OutEdges(frame.info)[frame.next]
            g     == GroupOf[edge.next]
            gs    == IF \E i \in DOMAIN frame.groups : frame.groups[i] = g
                     THEN frame.groups ELSE Append(frame.groups, g)
            after == [frame EXCEPT !.next = @ + 1, !.groups = gs]
<1>1. frame \in EdgeFrame /\ stack[t] # <<>>
  BY TopFrame DEF PushEdgeAside, HomeInv
<1>2. frame.info.node \in Nodes /\ frame.info.chan \in Channels
      /\ frame.next \in Nat \ {0} /\ frame.groups \in Seq(Groups)
  BY <1>1 DEF EdgeFrame, EdgeInfo
<1>3. gs \in Seq(Groups)
  <2>1. g \in Groups
    BY SMTT(60), <1>2, EdgeType, GraphAssumption DEF PushEdgeAside, Edge
  <2>. QED BY SMTT(60), <1>2, <2>1
<1>4. SetTop(t, after)
  BY DEF PushEdgeAside
<1>. HIDE DEF gs
<1>5. after \in EdgeFrame
  <2>1. [frame EXCEPT !.next = @ + 1] \in EdgeFrame
    BY <1>1 DEF EdgeFrame
  <2>2. after = [[frame EXCEPT !.next = @ + 1] EXCEPT !.groups = gs]
    BY <1>1 DEF EdgeFrame
  <2>. HIDE DEF after
  <2>. QED BY <1>3, <2>1, <2>2 DEF EdgeFrame
<1>. HIDE DEF after
<1>6. StackInv'
  BY SMTT(60), <1>1, <1>4, <1>5, EdgeFrameHome, SetTopStep DEF HomeInv
<1>7. CallbackInv' /\ QueueInv'
  BY SMTT(60) DEF PushEdgeAside, HomeInv, CallbackInv, QueueInv, HomeInfo
<1>8. ScalarInv'
  BY DEF PushEdgeAside, HomeInv, ScalarInv
<1>. QED BY <1>6, <1>7, <1>8 DEF HomeInv

LEMMA EndEdgesHome ==
  ASSUME HomeInv, NEW t \in Threads, EndEdges(t)
  PROVE  HomeInv'
<1>. DEFINE frame == Last(stack[t])
            after == [frame EXCEPT !.pc = "enqueue"]
<1>1. frame \in EdgeFrame /\ stack[t] # <<>>
  BY TopFrame DEF EndEdges, HomeInv
<1>2. StackInv'
  <2>1. CASE frame.groups = <<>>
    BY <1>1, <2>1, ReturnStep DEF EndEdges, HomeInv
  <2>2. CASE frame.groups # <<>>
    <3>1. after \in QueueFrame /\ after.info.chan # Manual
      <4>1. frame.info \in Info /\ frame.info.chan # Manual
        BY <1>1, GraphAssumption DEF EdgeFrame, EdgeInfo, Info
      <4>. QED BY <1>1, <2>2, <4>1 DEF EdgeFrame, QueueFrame
    <3>2. SetTop(t, after)
      BY <2>2 DEF EndEdges
    <3>. QED BY <1>1, <3>1, <3>2, QueueFrameHome, SetTopStep DEF HomeInv
  <2>. QED BY <2>1, <2>2
<1>3. CallbackInv' /\ QueueInv'
  BY DEF EndEdges, HomeInv, CallbackInv, QueueInv, HomeInfo
<1>4. ScalarInv'
  BY DEF EndEdges, HomeInv, ScalarInv
<1>. QED BY <1>2, <1>3, <1>4 DEF HomeInv

LEMMA EnqueueHome ==
  ASSUME HomeInv, NEW t \in Threads, Enqueue(t)
  PROVE  HomeInv'
<1>. DEFINE frame == Last(stack[t])
            g     == Head(frame.groups)
            after == [frame EXCEPT !.pc = "signal"]
<1>1. frame \in QueueFrame /\ frame \in HomeFrame(t) /\ stack[t] # <<>>
      /\ frame.pc = "enqueue"
  BY TopFrame DEF Enqueue, HomeInv
<1>2. frame.groups \in Seq(Groups) /\ frame.groups # <<>> /\ frame.info \in Info
  BY <1>1 DEF QueueFrame
<1>3. g \in Groups /\ g = frame.groups[1] /\ 1 \in DOMAIN frame.groups
  BY <1>2
<1>4. frame.info \in HomeInfo(g)
  BY <1>1, <1>2, <1>3 DEF HomeFrame, HomeInfo
<1>5. StackInv'
  <2>1. after \in HomeFrame(t)
    BY <1>1 DEF QueueFrame, HomeFrame, Frame
  <2>2. SetTop(t, after)
    BY SMTT(60) DEF Enqueue
  <2>. QED BY <1>1, <2>1, <2>2, SetTopStep DEF HomeInv
<1>6. QueueInv'
  <2>1. queue' = [queue EXCEPT ![g][t] = Append(@, frame.info)]
    BY DEF Enqueue
  <2>2. queue[g][t] \in Seq(Info) /\ queue[g][t] \in Seq(HomeInfo(g))
    BY <1>3 DEF HomeInv, QueueInv
  <2>3. /\ Append(queue[g][t], frame.info) \in Seq(Info)
        /\ Append(queue[g][t], frame.info) \in Seq(HomeInfo(g))
    BY <1>2, <1>4, <2>2
  <2>. QED BY <1>3, <2>1, <2>3 DEF HomeInv, QueueInv, HomeInfo
<1>7. CallbackInv' /\ ScalarInv'
  BY DEF Enqueue, HomeInv, CallbackInv, ScalarInv, HomeInfo
<1>. QED BY <1>5, <1>6, <1>7 DEF HomeInv

LEMMA SignalHome ==
  ASSUME HomeInv, NEW t \in Threads, Signal(t)
  PROVE  HomeInv'
<1>. DEFINE frame == Last(stack[t])
            after == [frame EXCEPT !.pc = "enqueue", !.groups = Tail(@)]
<1>1. frame \in QueueFrame /\ frame \in HomeFrame(t) /\ stack[t] # <<>>
      /\ frame.pc = "signal"
  BY TopFrame DEF Signal, HomeInv
<1>2. frame.groups \in Seq(Groups) /\ frame.groups # <<>>
  BY <1>1 DEF QueueFrame
<1>3. StackInv'
  <2>1. CASE Tail(frame.groups) = <<>>
    BY <1>1, <2>1, ReturnStep DEF Signal, HomeInv
  <2>2. CASE Tail(frame.groups) # <<>>
    <3>1. /\ Tail(frame.groups) \in Seq(Groups) \ {<<>>}
          /\ \A j \in DOMAIN Tail(frame.groups) :
               j + 1 \in DOMAIN frame.groups
               /\ Tail(frame.groups)[j] = frame.groups[j + 1]
      BY <1>2, <2>2
    <3>2. after \in QueueFrame
      BY <1>1, <3>1 DEF QueueFrame
    <3>3. after.info = frame.info /\ after.groups = Tail(frame.groups)
      BY <1>1 DEF QueueFrame
    <3>4. after \in HomeFrame(t)
      <4>1. ASSUME frame.info.chan = Manual, NEW j \in DOMAIN after.groups
            PROVE  after.groups[j] = GroupOf[frame.info.node]
        BY <1>1, <3>1, <3>3, <4>1 DEF HomeFrame
      <4>2. after.pc = "enqueue"
        BY <1>1 DEF QueueFrame
      <4>. HIDE DEF after
      <4>. QED BY <3>2, <3>3, <4>1, <4>2 DEF HomeFrame, Frame
    <3>5. SetTop(t, after)
      BY <2>2 DEF Signal
    <3>. QED BY <1>1, <3>4, <3>5, SetTopStep DEF HomeInv
  <2>. QED BY <2>1, <2>2
<1>4. CallbackInv' /\ QueueInv'
  BY DEF Signal, HomeInv, CallbackInv, QueueInv, HomeInfo
<1>5. ScalarInv'
  BY DEF Signal, HomeInv, ScalarInv
<1>. QED BY <1>3, <1>4, <1>5 DEF HomeInv

\* Ending an activation disturbs nothing but the stack.
LEMMA HandlerEndsHome ==
  ASSUME HomeInv, NEW t \in Threads, HandlerReturns(t) \/ HandlerThrows(t)
  PROVE  HomeInv'
<1>1. stack[t] # <<>>
  BY TopFrame DEF HandlerReturns, HandlerThrows, HomeInv
<1>2. StackInv'
  BY <1>1, ReturnStep, UnwindStep DEF HandlerReturns, HandlerThrows, HomeInv
<1>3. CallbackInv' /\ QueueInv'
  BY DEF HandlerReturns, HandlerThrows, HomeInv, CallbackInv, QueueInv, HomeInfo
<1>4. ScalarInv'
  <2>1. crashed' \in BOOLEAN
    BY UnwindScalar DEF HandlerReturns, HandlerThrows, HomeInv, ScalarInv
  <2>. QED BY <2>1 DEF HandlerReturns, HandlerThrows, HomeInv, ScalarInv
<1>. QED BY <1>2, <1>3, <1>4 DEF HomeInv

\* Replacing one group's callback by a good one keeps the callbacks good.
LEMMA CallbackStateStep ==
  ASSUME CallbackInv, NEW g \in Groups, NEW cb \in CallbackState,
         cb.batch \in Seq(HomeInfo(g)), callback' = [callback EXCEPT ![g] = cb]
  PROVE  CallbackInv'
BY DEF CallbackInv, HomeInfo

LEMMA ScanningType ==
  ASSUME NEW g
  PROVE  /\ Scanning \in CallbackState /\ Scanning.batch \in Seq(HomeInfo(g))
         /\ Idle \in CallbackState /\ Idle.batch \in Seq(HomeInfo(g))
BY DEF Scanning, Idle, CallbackState

LEMMA PacketReadyHome ==
  ASSUME HomeInv, NEW g \in Groups, PacketReady(g)
  PROVE  HomeInv'
<1>1. CallbackInv'
  BY ScanningType, CallbackStateStep DEF PacketReady, HomeInv
<1>2. StackInv' /\ QueueInv'
  BY DEF PacketReady, HomeInv, StackInv, QueueInv, HomeInfo, HomeFrame
<1>3. ScalarInv'
  BY DEF PacketReady, HomeInv, ScalarInv
<1>. QED BY <1>1, <1>2, <1>3 DEF HomeInv

LEMMA DequeueHome ==
  ASSUME HomeInv, NEW g \in Groups, NEW t \in Threads, Dequeue(g, t)
  PROVE  HomeInv'
<1>. DEFINE room  == MaxDequeue - Len(callback[g].batch)
            avail == Len(queue[g][t])
            count == IF avail <= room THEN avail ELSE room
            taken == SubSeq(queue[g][t], 1, count)
            rest  == SubSeq(queue[g][t], count + 1, avail)
            cb    == [callback[g] EXCEPT !.left = @ \ {t}, !.batch = @ \o taken]
<1>1. callback[g] \in CallbackState /\ callback[g].batch \in Seq(HomeInfo(g))
  BY DEF HomeInv, CallbackInv
<1>2. callback[g].batch \in Seq(Info)
  BY <1>1 DEF CallbackState
<1>3. queue[g][t] \in Seq(Info) /\ queue[g][t] \in Seq(HomeInfo(g))
  BY DEF HomeInv, QueueInv
<1>4. count \in 0..Len(queue[g][t]) /\ count + 1 \in Nat \ {0}
      /\ avail \in 0..Len(queue[g][t]) /\ 1 \in Nat \ {0}
  <2>1. Len(callback[g].batch) \in Nat /\ avail \in Nat
    BY <1>2, <1>3, LenProperties
  <2>2. Len(callback[g].batch) < MaxDequeue
    BY DEF Dequeue
  <2>3. room \in Nat \ {0}
    BY <2>1, <2>2, BoundAssumption
  <2>. HIDE DEF room
  <2>. QED BY <2>1, <2>3
<1>. HIDE DEF count, avail
<1>5. /\ taken \in Seq(Info) /\ taken \in Seq(HomeInfo(g))
      /\ rest \in Seq(Info) /\ rest \in Seq(HomeInfo(g))
  BY <1>3, <1>4, SubSeqType
<1>6. /\ callback' = [callback EXCEPT ![g].left = @ \ {t}, ![g].batch = @ \o taken]
      /\ queue' = [queue EXCEPT ![g][t] = rest]
  BY DEF Dequeue, count, avail
<1>. HIDE DEF taken, rest
<1>7. CallbackInv'
  <2>1. callback[g].batch \o taken \in Seq(Info)
        /\ callback[g].batch \o taken \in Seq(HomeInfo(g))
    BY <1>1, <1>2, <1>5
  <2>2. cb.batch = callback[g].batch \o taken /\ cb \in CallbackState
    BY <1>1, <2>1 DEF CallbackState
  <2>3. callback' = [callback EXCEPT ![g] = cb]
    BY <1>6 DEF HomeInv, CallbackInv
  <2>. HIDE DEF cb
  <2>. QED BY <2>1, <2>2, <2>3, CallbackStateStep DEF HomeInv
<1>8. QueueInv'
  BY <1>5, <1>6 DEF HomeInv, QueueInv, HomeInfo
<1>9. StackInv' /\ ScalarInv'
  BY DEF Dequeue, HomeInv, StackInv, ScalarInv, HomeFrame
<1>. QED BY <1>7, <1>8, <1>9 DEF HomeInv

LEMMA DequeuedHome ==
  ASSUME HomeInv, NEW g \in Groups, Dequeued(g)
  PROVE  HomeInv'
<1>. DEFINE cb == IF callback[g].batch = <<>> THEN Idle
                  ELSE [callback[g] EXCEPT !.pc = "run", !.left = {}]
<1>1. callback[g] \in CallbackState /\ callback[g].batch \in Seq(HomeInfo(g))
  BY DEF HomeInv, CallbackInv
<1>2. cb \in CallbackState /\ cb.batch \in Seq(HomeInfo(g))
  <2>1. [callback[g] EXCEPT !.pc = "run", !.left = {}] \in CallbackState
        /\ [callback[g] EXCEPT !.pc = "run", !.left = {}].batch = callback[g].batch
    BY <1>1 DEF CallbackState
  <2>. QED BY <1>1, <2>1, ScanningType
<1>3. callback' = [callback EXCEPT ![g] = cb]
  BY DEF Dequeued
<1>. HIDE DEF cb
<1>4. CallbackInv'
  BY <1>2, <1>3, CallbackStateStep DEF HomeInv
<1>5. StackInv' /\ QueueInv' /\ ScalarInv'
  BY DEF Dequeued, HomeInv, StackInv, QueueInv, ScalarInv, HomeInfo, HomeFrame
<1>. QED BY <1>4, <1>5 DEF HomeInv

\* The packet in hand is one of the group's, and so is the rest of the batch.
LEMMA InHandType ==
  ASSUME HomeInv, NEW g \in Groups, InHand(g)
  PROVE  /\ Head(callback[g].batch) \in HomeInfo(g)
         /\ Tail(callback[g].batch) \in Seq(HomeInfo(g))
         /\ Head(callback[g].batch) \in Info
         /\ Tail(callback[g].batch) \in Seq(Info)
         /\ callback[g] \in CallbackState
         /\ callback[g].batch \in Seq(HomeInfo(g))
         /\ g \in Threads
<1>1. /\ callback[g] \in CallbackState
      /\ callback[g].batch \in Seq(HomeInfo(g))
      /\ callback[g].batch # <<>>
  BY DEF HomeInv, CallbackInv, InHand
<1>2. callback[g].batch \in Seq(Info)
  BY <1>1 DEF CallbackState
<1>3. \A S : callback[g].batch \in Seq(S) =>
               Head(callback[g].batch) \in S /\ Tail(callback[g].batch) \in Seq(S)
  BY <1>1, HeadTailProperties
<1>. QED BY <1>1, <1>2, <1>3 DEF Threads

LEMMA DeliverQueuedHome ==
  ASSUME HomeInv, NEW g \in Groups, DeliverQueued(g)
  PROVE  HomeInv'
<1>. DEFINE info == Head(callback[g].batch)
            i    == callback[g].next
            edge == OutEdges(info)[i]
            cb   == [callback[g] EXCEPT !.next = @ + 1]
<1>1. /\ info \in Info /\ callback[g] \in CallbackState
      /\ callback[g].batch \in Seq(HomeInfo(g)) /\ g \in Threads
  BY SMTT(60), InHandType DEF DeliverQueued
<1>2. /\ info.node \in Nodes /\ info.chan \in Channels /\ info.params \in Params
      /\ i \in Nat \ {0} /\ i <= Len(OutEdges(info))
  BY SMTT(60), <1>1 DEF Info, CallbackState, DeliverQueued
<1>3. edge.next \in Nodes /\ GroupOf[edge.next] = g
  BY SMTT(60), <1>2, EdgeType DEF DeliverQueued, DueFromQueue, Edge
<1>4. StackInv'
  BY <1>1, <1>2, <1>3, HandlerHome, CallStep DEF DeliverQueued, HomeInv
<1>5. CallbackInv'
  <2>1. cb \in CallbackState /\ cb.batch = callback[g].batch
    BY <1>1 DEF CallbackState
  <2>2. callback' = [callback EXCEPT ![g] = cb]
    BY SMTT(60) DEF DeliverQueued, HomeInv, CallbackInv
  <2>. HIDE DEF cb
  <2>. QED BY <1>1, <2>1, <2>2, CallbackStateStep DEF HomeInv
<1>6. ScalarInv'
  BY <1>2, <1>3, SendToNodeStep DEF DeliverQueued, HomeInv, ScalarInv
<1>7. QueueInv'
  BY DEF DeliverQueued, HomeInv, QueueInv, HomeInfo
<1>. QED BY SMTT(60), <1>4, <1>5, <1>6, <1>7 DEF HomeInv

LEMMA DeliverManualHome ==
  ASSUME HomeInv, NEW g \in Groups, DeliverManual(g)
  PROVE  HomeInv'
<1>. DEFINE info == Head(callback[g].batch)
            cb   == [callback[g] EXCEPT !.batch = Tail(@)]
<1>1. /\ info \in Info /\ callback[g] \in CallbackState /\ g \in Threads
      /\ info \in HomeInfo(g) /\ Tail(callback[g].batch) \in Seq(HomeInfo(g))
      /\ Tail(callback[g].batch) \in Seq(Info)
  BY InHandType DEF DeliverManual
<1>2. info.node \in Nodes /\ info.params \in Params /\ GroupOf[info.node] = g
  BY <1>1 DEF Info, HomeInfo, DeliverManual
<1>3. StackInv'
  BY <1>1, <1>2, HandlerHome, CallStep DEF DeliverManual, HomeInv
<1>4. CallbackInv'
  <2>1. cb \in CallbackState /\ cb.batch = Tail(callback[g].batch)
    BY <1>1 DEF CallbackState
  <2>2. callback' = [callback EXCEPT ![g] = cb]
    BY DEF DeliverManual, HomeInv, CallbackInv
  <2>. HIDE DEF cb
  <2>. QED BY <1>1, <2>1, <2>2, CallbackStateStep DEF HomeInv
<1>5. ScalarInv'
  BY <1>2, SendToNodeStep DEF DeliverManual, HomeInv, ScalarInv
<1>6. QueueInv'
  BY DEF DeliverManual, HomeInv, QueueInv, HomeInfo
<1>. QED BY <1>3, <1>4, <1>5, <1>6 DEF HomeInv

\* packetReady() moves on to the next edge, packet or batch.
LEMMA AdvanceHome ==
  ASSUME HomeInv, NEW g \in Groups, SkipEdge(g) \/ NextPacket(g) \/ NextBatch(g)
  PROVE  HomeInv'
<1>1. StackInv' /\ QueueInv' /\ ScalarInv'
  BY DEF SkipEdge, NextPacket, NextBatch, HomeInv, StackInv, QueueInv, ScalarInv,
         HomeInfo, HomeFrame
<1>2. CASE SkipEdge(g)
  <2>. DEFINE cb == [callback[g] EXCEPT !.next = @ + 1]
  <2>1. callback[g] \in CallbackState /\ callback[g].batch \in Seq(HomeInfo(g))
    BY <1>2, InHandType DEF SkipEdge
  <2>2. cb \in CallbackState /\ cb.batch = callback[g].batch
    BY <2>1 DEF CallbackState
  <2>3. callback' = [callback EXCEPT ![g] = cb]
    BY <1>2 DEF SkipEdge, HomeInv, CallbackInv
  <2>. HIDE DEF cb
  <2>. QED BY <1>1, <2>1, <2>2, <2>3, CallbackStateStep DEF HomeInv
<1>3. CASE NextPacket(g)
  <2>. DEFINE cb == [callback[g] EXCEPT !.batch = Tail(@), !.next = 1]
  <2>1. /\ callback[g] \in CallbackState
        /\ Tail(callback[g].batch) \in Seq(HomeInfo(g))
        /\ Tail(callback[g].batch) \in Seq(Info)
    BY <1>3, InHandType DEF NextPacket
  <2>2. cb \in CallbackState /\ cb.batch = Tail(callback[g].batch)
    <3>1. [callback[g] EXCEPT !.next = 1] \in CallbackState
      BY <2>1 DEF CallbackState
    <3>2. cb = [[callback[g] EXCEPT !.next = 1] EXCEPT !.batch = Tail(callback[g].batch)]
      BY <2>1 DEF CallbackState
    <3>. HIDE DEF cb
    <3>. QED BY <2>1, <3>1, <3>2 DEF CallbackState
  <2>3. callback' = [callback EXCEPT ![g] = cb]
    BY <1>3 DEF NextPacket, HomeInv, CallbackInv
  <2>. HIDE DEF cb
  <2>. QED BY <1>1, <2>1, <2>2, <2>3, CallbackStateStep DEF HomeInv
<1>4. CASE NextBatch(g)
  BY <1>1, <1>4, ScanningType, CallbackStateStep DEF NextBatch, HomeInv
<1>. QED BY <1>2, <1>3, <1>4

LEMMA InitHome == Init => HomeInv
<1>. SUFFICES ASSUME Init PROVE HomeInv
  OBVIOUS
<1>1. StackInv /\ QueueInv
  BY DEF Init, StackInv, QueueInv
<1>2. CallbackInv
  BY ScanningType DEF Init, CallbackInv
<1>3. ScalarInv
  BY DEF Init, ScalarInv
<1>. QED BY <1>1, <1>2, <1>3 DEF HomeInv

LEMMA NextHome == HomeInv /\ [Next]_vars => HomeInv'
<1>. SUFFICES ASSUME HomeInv, [Next]_vars PROVE HomeInv'
  OBVIOUS
<1>1. ASSUME NEW t \in Threads, PushStep(t) PROVE HomeInv'
  BY <1>1, AccumulateHome, PushEdgeDirectlyHome, PushEdgeAsideHome, EndEdgesHome,
     EnqueueHome, SignalHome DEF PushStep
<1>2. ASSUME NEW t \in Threads, Environment(t) PROVE HomeInv'
  BY <1>2, HandlerPushesHome, SourcePushesHome, SendPacketHome, HandlerEndsHome
     DEF Environment
<1>3. ASSUME NEW g \in Groups, CallbackStep(g) PROVE HomeInv'
  BY <1>3, PacketReadyHome, DequeueHome, DequeuedHome, DeliverQueuedHome,
     DeliverManualHome, AdvanceHome DEF CallbackStep
<1>4. CASE UNCHANGED vars
  BY <1>4 DEF vars, HomeInv, StackInv, CallbackInv, QueueInv, ScalarInv,
              HomeInfo, HomeFrame
<1>. QED BY <1>1, <1>2, <1>3, <1>4 DEF Next

LEMMA AlwaysHome == Spec => []HomeInv
BY InitHome, NextHome, PTL DEF Spec

(***************************************************************************)
(* The state keeps its type.                                               *)
(***************************************************************************)
THEOREM TypeCorrect == Spec => []TypeOK
<1>1. HomeInv => TypeOK
  BY DEF HomeInv, StackInv, CallbackInv, QueueInv, ScalarInv, TypeOK
<1>. QED BY <1>1, AlwaysHome, PTL

(***************************************************************************)
(* A handler only runs on the thread of its instance's group, however the  *)
(* packet got there: pushPacket(), packetReady() and sendPacket() agree.   *)
(***************************************************************************)
THEOREM HandlersOnOwnThread == Spec => []HandlersStayHome
<1>1. HomeInv => HandlersStayHome
  <2>. SUFFICES ASSUME HomeInv, NEW t \in Threads, NEW i \in DOMAIN stack[t],
                       stack[t][i].pc = "handler"
                PROVE  GroupOf[stack[t][i].node] = t
    BY DEF HandlersStayHome
  <2>1. stack[t][i] \in HomeFrame(t)
    BY ElementOfSeq DEF HomeInv, StackInv
  <2>. QED BY <2>1 DEF HomeFrame
<1>. QED BY <1>1, AlwaysHome, PTL

-----------------------------------------------------------------------------
(***************************************************************************)
(* No packet is stranded.  Given HomeInv the invariant is inductive: each  *)
(* lemma says what one kind of step does to the three ways a queue that is *)
(* not empty is attended to.                                               *)
(***************************************************************************)

\* Only the stack of a thread that is not about to signal changes.
LEMMA StackOnlyStranded ==
  ASSUME HomeInv, NoStrandedPacket, ~ crashed, NEW t \in Threads,
         ~ Running(t, "signal"),
         \A u \in Threads \ {t} : stack'[u] = stack[u],
         UNCHANGED <<callback, queue, signalled>>
  PROVE  NoStrandedPacket'
<1>. SUFFICES ASSUME NEW g \in Groups, NEW u \in Threads, queue[g][u] # <<>>
              PROVE  signalled[g] \/ WillVisit(g, u) \/ Signalling(u, g)'
  BY DEF NoStrandedPacket, WillVisit
<1>1. signalled[g] \/ WillVisit(g, u) \/ Signalling(u, g)
  BY DEF NoStrandedPacket
<1>2. Signalling(u, g) => u # t /\ Signalling(u, g)'
  BY DEF Signalling, Running
<1>. QED BY <1>1, <1>2

\* A thread is in one place at a time.
LEMMA NotSignalling ==
  ASSUME NEW t, NEW pc, pc # "signal", Running(t, pc)
  PROVE  ~ Running(t, "signal")
BY DEF Running

LEMMA OthersKeepStack ==
  ASSUME HomeInv, NEW t \in Threads, NEW f,
         Call(t, f) \/ SetTop(t, f) \/ Return(t) \/ Unwind(t)
  PROVE  \A u \in Threads \ {t} : stack'[u] = stack[u]
BY DEF Call, SetTop, Return, Unwind, HomeInv, StackInv

LEMMA PushStranded ==
  ASSUME HomeInv, NoStrandedPacket, ~ crashed, NEW t \in Threads,
         \/ Accumulate(t) \/ PushEdgeDirectly(t) \/ PushEdgeAside(t)
         \/ EndEdges(t) \/ Environment(t)
  PROVE  NoStrandedPacket'
<1>1. ~ Running(t, "signal")
  <2>1. stack[t] = <<>> => ~ Running(t, "signal")
    BY DEF Running
  <2>. QED BY <2>1, NotSignalling
       DEF Accumulate, PushEdgeDirectly, PushEdgeAside, EndEdges, Environment,
           HandlerPushes, SourcePushes, SendPacket, HandlerReturns,
           HandlerThrows, AtRest
<1>2. \A u \in Threads \ {t} : stack'[u] = stack[u]
  <2>1. CASE Accumulate(t)
    BY <2>1, OthersKeepStack DEF Accumulate
  <2>2. CASE PushEdgeDirectly(t)
    BY SMTT(60), <2>2 DEF PushEdgeDirectly, HomeInv, StackInv
  <2>3. CASE PushEdgeAside(t)
    BY <2>3, OthersKeepStack DEF PushEdgeAside
  <2>4. CASE EndEdges(t)
    BY <2>4, OthersKeepStack DEF EndEdges
  <2>5. CASE Environment(t)
    BY <2>5, OthersKeepStack
       DEF Environment, HandlerPushes, SourcePushes, SendPacket, HandlerReturns,
           HandlerThrows
  <2>. QED BY <2>1, <2>2, <2>3, <2>4, <2>5
<1>3. UNCHANGED <<callback, queue, signalled>>
  BY DEF Accumulate, PushEdgeDirectly, PushEdgeAside, EndEdges, Environment,
         HandlerPushes, SourcePushes, SendPacket, HandlerReturns, HandlerThrows
<1>. QED BY SMTT(60), <1>1, <1>2, <1>3, StackOnlyStranded

\* The queue that got a packet is its producer's, which signals next.
LEMMA EnqueueStranded ==
  ASSUME HomeInv, NoStrandedPacket, ~ crashed, NEW t \in Threads, Enqueue(t)
  PROVE  NoStrandedPacket'
<1>. DEFINE frame == Last(stack[t])
            after == [frame EXCEPT !.pc = "signal"]
<1>. PICK h : h = Head(frame.groups)
  OBVIOUS
<1>1. frame \in QueueFrame /\ stack[t] # <<>> /\ frame.pc = "enqueue"
  BY TopFrame DEF Enqueue, HomeInv
<1>2. /\ queue' = [queue EXCEPT ![h][t] = Append(@, frame.info)]
      /\ stack' = [stack EXCEPT ![t] = Append(Front(@), after)]
      /\ UNCHANGED <<callback, signalled>>
  BY DEF Enqueue, SetTop
<1>3. Signalling(t, h)'
  <2>1. Front(stack[t]) \in Seq(Frame) /\ after \in Frame /\ after.pc = "signal"
        /\ after.groups = frame.groups
    BY <1>1, LastFront DEF HomeInv, StackInv, QueueFrame, Frame
  <2>. HIDE DEF after
  <2>2. Append(Front(stack[t]), after) # <<>>
        /\ Last(Append(Front(stack[t]), after)) = after
    BY <2>1 DEF Last
  <2>3. stack'[t] = Append(Front(stack[t]), after)
    BY <1>2 DEF HomeInv, StackInv
  <2>. QED BY <2>1, <2>2, <2>3 DEF Signalling, Running
<1>. SUFFICES ASSUME NEW g \in Groups, NEW u \in Threads, queue'[g][u] # <<>>
              PROVE  signalled[g] \/ WillVisit(g, u) \/ Signalling(u, g)'
  BY <1>2 DEF NoStrandedPacket, WillVisit
<1>4. CASE u = t /\ g = h
  BY <1>3, <1>4
<1>5. CASE ~ (u = t /\ g = h)
  <2>1. queue'[g][u] = queue[g][u]
    BY SMTT(60), <1>2, <1>5 DEF HomeInv, QueueInv
  <2>2. Signalling(u, g) => u # t /\ stack'[u] = stack[u]
    BY <1>1, <1>2 DEF Signalling, Running, HomeInv, StackInv
  <2>3. Signalling(u, g) => Signalling(u, g)'
    BY <2>2 DEF Signalling, Running
  <2>. QED BY SMTT(60), <2>1, <2>3 DEF NoStrandedPacket
<1>. QED BY <1>4, <1>5

LEMMA SignalStranded ==
  ASSUME HomeInv, NoStrandedPacket, ~ crashed, NEW t \in Threads, Signal(t)
  PROVE  NoStrandedPacket'
<1>. DEFINE h == Head(Last(stack[t]).groups)
<1>1. /\ signalled' = [signalled EXCEPT ![h] = TRUE]
      /\ \A u \in Threads \ {t} : stack'[u] = stack[u]
      /\ UNCHANGED <<callback, queue>>
  BY OthersKeepStack DEF Signal
<1>. SUFFICES ASSUME NEW g \in Groups, NEW u \in Threads, queue[g][u] # <<>>
              PROVE  signalled'[g] \/ WillVisit(g, u) \/ Signalling(u, g)'
  BY <1>1 DEF NoStrandedPacket, WillVisit
<1>2. CASE g = h
  BY <1>1, <1>2 DEF HomeInv, ScalarInv
<1>3. CASE g # h
  <2>1. signalled'[g] = signalled[g]
    BY <1>1, <1>3 DEF HomeInv, ScalarInv
  <2>2. Signalling(u, g) => u # t
    BY <1>3 DEF Signalling
  <2>3. Signalling(u, g) => Signalling(u, g)'
    BY <1>1, <2>2 DEF Signalling, Running
  <2>. QED BY <2>1, <2>3 DEF NoStrandedPacket
<1>. QED BY <1>2, <1>3

\* A step of one group's callback that leaves the queues' supporters alone.
LEMMA CallbackStranded ==
  ASSUME HomeInv, NoStrandedPacket, ~ crashed, NEW g \in Groups,
         \A h \in Groups \ {g} :
           /\ callback'[h] = callback[h]
           /\ signalled'[h] = signalled[h]
           /\ queue'[h] = queue[h],
         \A h \in Groups, u \in Threads : Signalling(u, h) => Signalling(u, h)',
         \A u \in Threads : queue'[g][u] # <<>> =>
           signalled'[g] \/ WillVisit(g, u)' \/ Signalling(u, g)'
  PROVE  NoStrandedPacket'
<1>. SUFFICES ASSUME NEW h \in Groups, NEW u \in Threads, queue'[h][u] # <<>>, h # g
              PROVE  signalled'[h] \/ WillVisit(h, u)' \/ Signalling(u, h)'
  BY DEF NoStrandedPacket
<1>1. signalled[h] \/ WillVisit(h, u) \/ Signalling(u, h)
  BY DEF NoStrandedPacket
<1>2. WillVisit(h, u) => WillVisit(h, u)'
  BY DEF WillVisit
<1>. QED BY <1>1, <1>2

\* packetReady() has just been called, or begins another scan.
LEMMA ScanStranded ==
  ASSUME HomeInv, NoStrandedPacket, ~ crashed, NEW g \in Groups,
         PacketReady(g) \/ NextBatch(g)
  PROVE  NoStrandedPacket'
<1>1. /\ callback' = [callback EXCEPT ![g] = Scanning]
      /\ UNCHANGED <<stack, queue>>
      /\ \A h \in Groups \ {g} : signalled'[h] = signalled[h]
  BY DEF PacketReady, NextBatch, HomeInv, ScalarInv
<1>2. \A u \in Threads : WillVisit(g, u)'
  BY <1>1 DEF WillVisit, Scanning, HomeInv, CallbackInv
<1>3. \A h \in Groups, u \in Threads : Signalling(u, h) => Signalling(u, h)'
  BY <1>1 DEF Signalling, Running
<1>4. \A h \in Groups \ {g} : callback'[h] = callback[h] /\ queue'[h] = queue[h]
  BY <1>1 DEF HomeInv, CallbackInv
<1>. QED BY <1>1, <1>2, <1>3, <1>4, CallbackStranded

\* What is left in a queue that was visited means that the batch is full.
LEMMA DequeueStranded ==
  ASSUME HomeInv, NoStrandedPacket, ~ crashed, NEW g \in Groups,
         NEW t \in Threads, Dequeue(g, t)
  PROVE  NoStrandedPacket'
<1>. DEFINE batch == callback[g].batch
            room  == MaxDequeue - Len(batch)
            avail == Len(queue[g][t])
            count == IF avail <= room THEN avail ELSE room
            taken == SubSeq(queue[g][t], 1, count)
            rest  == SubSeq(queue[g][t], count + 1, avail)
<1>1. /\ callback' = [callback EXCEPT ![g].left = @ \ {t}, ![g].batch = @ \o taken]
      /\ queue' = [queue EXCEPT ![g][t] = rest]
      /\ callback[g].pc = "scan"
      /\ Len(batch) < MaxDequeue
      /\ UNCHANGED <<stack, signalled>>
  BY DEF Dequeue
<1>2. batch \in Seq(Info) /\ queue[g][t] \in Seq(Info)
  BY DEF HomeInv, CallbackInv, CallbackState, QueueInv
<1>3. room \in Nat \ {0} /\ avail \in Nat
  BY <1>1, <1>2, LenProperties, BoundAssumption
<1>. HIDE DEF room, avail
<1>4. /\ 1 \in Nat \ {0} /\ count \in 0..avail
      /\ count + 1 \in Nat \ {0} /\ avail \in 0..avail
      /\ avail <= room => count = avail
      /\ avail > room => count > 0
  BY <1>3
<1>. HIDE DEF count
<1>5. taken \in Seq(Info) /\ rest \in Seq(Info)
  BY <1>2, <1>4, SubSeqType DEF avail
<1>6. count = avail => rest = <<>>
  BY <1>3, <1>4
<1>7. count > 0 => taken # <<>>
  <2>1. 1 \in Int /\ count \in Int /\ \A i \in 1..count : queue[g][t][i] \in Info
    BY <1>2, <1>3, <1>4, ElementOfSeq DEF avail
  <2>2. count > 0 => Len(taken) = count - 1 + 1
    BY <2>1, <1>4, SubSeqProperties
  <2>3. Len(<<>>) = 0
    OBVIOUS
  <2>. HIDE DEF taken
  <2>. QED BY <2>1, <2>2, <2>3
<1>. HIDE DEF taken, rest
<1>8. /\ callback'[g].pc = "scan"
      /\ callback'[g].left = callback[g].left \ {t}
      /\ callback'[g].batch = batch \o taken
  BY <1>1 DEF HomeInv, CallbackInv, CallbackState
<1>9. batch # <<>> \/ taken # <<>> => batch \o taken # <<>>
  BY <1>2, <1>5
<1>10. \A u \in Threads : queue'[g][u] # <<>> =>
         signalled'[g] \/ WillVisit(g, u)' \/ Signalling(u, g)'
  <2>. SUFFICES ASSUME NEW u \in Threads, queue'[g][u] # <<>>
                PROVE  signalled'[g] \/ WillVisit(g, u)' \/ Signalling(u, g)'
    OBVIOUS
  <2>1. CASE u = t
    <3>1. queue'[g][t] = rest
      BY <1>1 DEF HomeInv, QueueInv
    <3>2. avail > room
      BY <1>3, <1>4, <1>6, <2>1, <3>1
    <3>. QED BY <1>4, <1>7, <1>8, <1>9, <3>2 DEF WillVisit
  <2>2. CASE u # t
    <3>1. queue'[g][u] = queue[g][u]
      BY <1>1, <2>2 DEF HomeInv, QueueInv
    <3>2. signalled[g] \/ WillVisit(g, u) \/ Signalling(u, g)
      BY <3>1 DEF NoStrandedPacket
    <3>3. CASE WillVisit(g, u)
      BY <1>1, <1>8, <1>9, <2>2, <3>3 DEF WillVisit
    <3>4. CASE signalled[g] \/ Signalling(u, g)
      BY <1>1, <3>4 DEF Signalling, Running
    <3>. QED BY <3>2, <3>3, <3>4
  <2>. QED BY <2>1, <2>2
<1>11. \A h \in Groups \ {g} :
         /\ callback'[h] = callback[h]
         /\ signalled'[h] = signalled[h]
         /\ queue'[h] = queue[h]
  BY <1>1 DEF HomeInv, CallbackInv, QueueInv
<1>12. \A h \in Groups, u \in Threads : Signalling(u, h) => Signalling(u, h)'
  BY <1>1 DEF Signalling, Running
<1>. QED BY <1>10, <1>11, <1>12, CallbackStranded

\* packetReady() ends only when it has seen every producer's queue.
LEMMA DequeuedStranded ==
  ASSUME HomeInv, NoStrandedPacket, ~ crashed, NEW g \in Groups, Dequeued(g)
  PROVE  NoStrandedPacket'
<1>1. UNCHANGED <<stack, queue, signalled>>
  BY DEF Dequeued
<1>2. \A h \in Groups \ {g} : callback'[h] = callback[h]
  BY DEF Dequeued, HomeInv, CallbackInv
<1>3. \A h \in Groups, u \in Threads : Signalling(u, h) => Signalling(u, h)'
  BY <1>1 DEF Signalling, Running
<1>4. CASE callback[g].batch = <<>>
  <2>1. callback[g].left = {}
    BY <1>4, BoundAssumption DEF Dequeued
  <2>2. \A u \in Threads : ~ WillVisit(g, u)
    BY <1>4, <2>1 DEF WillVisit, Dequeued
  <2>. QED BY <1>1, <1>2, <1>3, <2>2, CallbackStranded DEF NoStrandedPacket
<1>5. CASE callback[g].batch # <<>>
  <2>1. callback'[g] = [callback[g] EXCEPT !.pc = "run", !.left = {}]
    BY <1>5 DEF Dequeued, HomeInv, CallbackInv
  <2>2. callback'[g].pc = "run"
    BY <2>1 DEF HomeInv, CallbackInv, CallbackState
  <2>. QED BY <1>1, <1>2, <1>3, <2>2, CallbackStranded DEF WillVisit
<1>. QED BY <1>4, <1>5

\* A batch being worked off is followed by another scan.
LEMMA RunStranded ==
  ASSUME HomeInv, NoStrandedPacket, ~ crashed, NEW g \in Groups,
         DeliverQueued(g) \/ SkipEdge(g) \/ DeliverManual(g) \/ NextPacket(g)
  PROVE  NoStrandedPacket'
<1>1. /\ callback[g].pc = "run" /\ stack[g] = <<>>
      /\ UNCHANGED <<queue, signalled>>
      /\ g \in Threads
  BY DEF DeliverQueued, SkipEdge, DeliverManual, NextPacket, InHand, Threads
<1>2. /\ \A u \in Threads \ {g} : stack'[u] = stack[u]
      /\ \A h \in Groups \ {g} : callback'[h] = callback[h]
  BY <1>1, OthersKeepStack
     DEF DeliverQueued, SkipEdge, DeliverManual, NextPacket, HomeInv, CallbackInv,
         StackInv
<1>3. callback'[g].pc = "run"
  BY <1>1 DEF DeliverQueued, SkipEdge, DeliverManual, NextPacket, HomeInv,
              CallbackInv, CallbackState
<1>4. \A h \in Groups, u \in Threads : Signalling(u, h) => Signalling(u, h)'
  BY <1>1, <1>2 DEF Signalling, Running
<1>. QED BY <1>1, <1>2, <1>3, <1>4, CallbackStranded DEF WillVisit

LEMMA NextStranded ==
  HomeInv /\ NoStrandedPacket /\ [Next]_vars => NoStrandedPacket'
<1>. SUFFICES ASSUME HomeInv, NoStrandedPacket, [Next]_vars PROVE NoStrandedPacket'
  OBVIOUS
<1>1. ASSUME ~ crashed, NEW t \in Threads, PushStep(t) \/ Environment(t)
      PROVE  NoStrandedPacket'
  BY <1>1, PushStranded, EnqueueStranded, SignalStranded DEF PushStep
<1>2. ASSUME ~ crashed, NEW g \in Groups, CallbackStep(g)
      PROVE  NoStrandedPacket'
  BY <1>2, ScanStranded, DequeueStranded, DequeuedStranded, RunStranded
     DEF CallbackStep
<1>3. CASE UNCHANGED vars
  BY <1>3 DEF vars, NoStrandedPacket, WillVisit, Signalling, Running
<1>. QED BY <1>1, <1>2, <1>3 DEF Next

(***************************************************************************)
(* A packet that waits in a group's queue is attended to, whatever the     *)
(* interleaving of enqueue(), uv_async_send() and packetReady(), for every *)
(* number of threads and every batch size: no wakeup is lost.              *)
(***************************************************************************)
THEOREM NothingStranded == Spec => []NoStrandedPacket
<1>1. Init => NoStrandedPacket
  BY DEF Init, NoStrandedPacket
<1>. QED BY <1>1, NextStranded, AlwaysHome, PTL DEF Spec

-----------------------------------------------------------------------------
(***************************************************************************)
(* PacketRouting implements PacketDelivery: whatever calls, callbacks and  *)
(* exceptions interleave, each edge of a channel gets each packet once.    *)
(***************************************************************************)

(***************************************************************************)
(* The invariant.  What a call owes is worked out from its edges each time *)
(* it is looked at, so nothing but the numbers of the calls keeps two      *)
(* places from owing one delivery: a number is in one activation only, in  *)
(* the hands of a group once, and not yet in the hands of a group that its *)
(* activation still has ahead.                                             *)
(***************************************************************************)
IdsOf(packets) == {packets[i].id : i \in DOMAIN packets}

\* The calls whose packets are in the hands of group g.
InGroup(g) ==
  IdsOf(callback[g].batch) \cup UNION {IdsOf(queue[g][t]) : t \in Threads}

\* No two of these packets are of one call.
Once(packets) ==
  \A i, j \in DOMAIN packets : packets[i].id = packets[j].id => i = j

GroupOnce(g) ==
  /\ Once(callback[g].batch)
  /\ \A t \in Threads :
       /\ Once(queue[g][t])
       /\ IdsOf(queue[g][t]) \cap IdsOf(callback[g].batch) = {}
       /\ \A u \in Threads \ {t} : IdsOf(queue[g][t]) \cap IdsOf(queue[g][u]) = {}

GroupsOnce ==
  \A g \in Groups : GroupOnce(g) /\ InGroup(g) \subseteq 1..pushes

\* A group's loop over the edges begins anew with every packet.
BatchInv ==
  \A g \in Groups :
    LET c == callback[g]
    IN  /\ c.pc = "idle" => c.batch = <<>>
        /\ (c.pc = "scan" \/ c.batch = <<>> \/ Head(c.batch).chan = Manual) => c.next = 1

\* An activation of pushPacket() or sendPacket().
IsCall(f) == f.pc # "handler"

\* The groups that must not have seen the call's packet yet.
Unseen(f) == IF f.pc \in {"accumulate", "edges"} THEN Groups ELSE Ahead(f)

CallSound(t, f) ==
  /\ f.info.id \in 1..pushes
  /\ f.info.by = t
  /\ \A i, j \in DOMAIN f.groups : f.groups[i] = f.groups[j] => i = j
  /\ f.pc = "accumulate" =>
       /\ f.next = 1
       /\ f.groups = <<>>
       /\ \A d \in delivered : d.id # f.info.id
  /\ f.pc = "edges" =>
       \A i \in Aside(t, f.info) :
         i < f.next => TargetGroup(f.info, i) \in ToSet(f.groups)
  /\ \A g \in Unseen(f) : f.info.id \notin InGroup(g)

CallsSound ==
  \A t \in Threads : \A i \in DOMAIN stack[t] :
    IsCall(stack[t][i]) => CallSound(t, stack[t][i])

CallsDistinct ==
  \A t, u \in Threads : \A i \in DOMAIN stack[t], j \in DOMAIN stack[u] :
    (/\ IsCall(stack[t][i])
     /\ IsCall(stack[u][j])
     /\ stack[t][i].info.id = stack[u][j].info.id)
    => t = u /\ i = j

DeliveredKnown == \A d \in delivered : d.id \in 1..pushes

OwingInv == GroupsOnce /\ BatchInv /\ CallsSound /\ CallsDistinct /\ DeliveredKnown

-----------------------------------------------------------------------------
\* What deliveries and edges are, whatever the state.

LEMMA DeliveryFields ==
  ASSUME NEW info, NEW i, NEW g
  PROVE  /\ DeliveryOf(info, i, g).id = info.id
         /\ DeliveryOf(info, i, g).edge = i
         /\ DeliveryOf(info, i, g).on = g
BY DEF DeliveryOf

LEMMA TargetInGroups ==
  ASSUME NEW info, info.node \in Nodes, info.chan \in Channels,
         NEW i \in DOMAIN OutEdges(info)
  PROVE  TargetGroup(info, i) \in Groups
<1>1. OutEdges(info) \in Seq(Edge)
  BY GraphAssumption DEF OutEdges
<1>2. OutEdges(info)[i] \in Edge
  BY <1>1, ElementOfSeq
<1>. QED BY <1>2, GraphAssumption DEF TargetGroup, Edge

\* A packet in the hands of a group owes deliveries on that group's thread.
LEMMA OwedByPacketAt ==
  ASSUME NEW g \in Groups, NEW info \in HomeInfo(g), NEW from,
         NEW d \in OwedByPacket(g, info, from)
  PROVE  d.id = info.id /\ d.on = g
<1>1. CASE info.chan = Manual
  BY <1>1, DeliveryFields DEF OwedByPacket, ManualOf, HomeInfo
<1>2. CASE info.chan # Manual
  <2>1. PICK i \in DOMAIN OutEdges(info) :
          /\ d = DeliveryOf(info, i, TargetGroup(info, i))
          /\ DueFromQueue(g, info.by, OutEdges(info)[i])
    BY <1>2 DEF OwedByPacket, Over, ToSee
  <2>. QED BY <2>1, DeliveryFields DEF DueFromQueue, TargetGroup
<1>. QED BY <1>1, <1>2

LEMMA OwedByQueueAt ==
  ASSUME NEW g \in Groups, NEW packets \in Seq(HomeInfo(g)),
         NEW d \in OwedByQueue(g, packets)
  PROVE  d.id \in IdsOf(packets) /\ d.on = g
<1>1. PICK i \in DOMAIN packets : d \in OwedByPacket(g, packets[i], 1)
  BY DEF OwedByQueue
<1>2. packets[i] \in HomeInfo(g)
  BY <1>1, ElementOfSeq
<1>. QED BY <1>1, <1>2, OwedByPacketAt DEF IdsOf

\* The first packet and the others.
LEMMA HeadAndTail ==
  ASSUME NEW S, NEW s \in Seq(S), s # <<>>
  PROVE  /\ Head(s) = s[1] /\ 1 \in DOMAIN s
         /\ Tail(s) \in Seq(S)
         /\ Len(Tail(s)) = Len(s) - 1
         /\ \A i \in DOMAIN Tail(s) : i + 1 \in DOMAIN s /\ Tail(s)[i] = s[i + 1]
         /\ \A i \in DOMAIN s \ {1} : i - 1 \in DOMAIN Tail(s)
<1>1. Len(s) \in Nat \ {0}
  OBVIOUS
<1>2. /\ Tail(s) \in Seq(S) /\ Len(Tail(s)) = Len(s) - 1
      /\ \A i \in 1..Len(Tail(s)) : Tail(s)[i] = s[i + 1]
  BY HeadTailProperties
<1>3. DOMAIN s = 1..Len(s) /\ DOMAIN Tail(s) = 1..Len(Tail(s))
  BY <1>2
<1>4. Head(s) = s[1] /\ 1 \in DOMAIN s
  BY <1>1, <1>3
<1>. QED BY <1>1, <1>2, <1>3, <1>4

LEMMA OwedByBatchAt ==
  ASSUME NEW g \in Groups, NEW batch \in Seq(HomeInfo(g)), NEW from,
         NEW d \in OwedByBatch(g, batch, from)
  PROVE  d.id \in IdsOf(batch) /\ d.on = g
<1>1. batch # <<>>
  BY DEF OwedByBatch
<1>2. Head(batch) \in HomeInfo(g) /\ Head(batch).id \in IdsOf(batch)
  BY <1>1, HeadAndTail, ElementOfSeq DEF IdsOf
<1>3. Tail(batch) \in Seq(HomeInfo(g)) /\ IdsOf(Tail(batch)) \subseteq IdsOf(batch)
  BY <1>1, HeadAndTail DEF IdsOf
<1>4. CASE d \in OwedByPacket(g, Head(batch), from)
  BY <1>2, <1>4, OwedByPacketAt
<1>5. CASE d \in OwedByQueue(g, Tail(batch))
  BY <1>3, <1>5, OwedByQueueAt
<1>. QED BY <1>1, <1>4, <1>5 DEF OwedByBatch

\* An activation owes deliveries of its own packet, to groups that must not
\* have seen it yet or by itself.
LEMMA OwedByFrameAt ==
  ASSUME NEW t \in Threads, NEW f \in HomeFrame(t), NEW d \in OwedByFrame(t, f)
  PROVE  /\ f.pc \in {"edges", "enqueue", "signal"}
         /\ IsCall(f)
         /\ d.id = f.info.id
         /\ d.on \in Unseen(f)
<1>1. f.pc \in {"edges", "enqueue", "signal"}
  BY DEF OwedByFrame
<1>2. CASE f.pc = "edges"
  <2>1. f.info.node \in Nodes /\ f.info.chan \in Channels
    BY <1>2 DEF HomeFrame, Frame, EdgeFrame, QueueFrame, HandlerFrame, EdgeInfo
  <2>2. PICK i \in DOMAIN OutEdges(f.info) :
          d = DeliveryOf(f.info, i, TargetGroup(f.info, i))
    BY <1>2 DEF OwedByFrame, Over, ToSee, Aside
  <2>. QED BY <1>1, <1>2, <2>1, <2>2, DeliveryFields, TargetInGroups DEF Unseen, IsCall
<1>3. CASE f.pc # "edges" /\ f.info.chan = Manual
  <2>1. d = ManualOf(f.info) /\ Ahead(f) # {}
    BY <1>1, <1>3 DEF OwedByFrame
  <2>2. PICK g : g \in Ahead(f)
    BY <2>1
  <2>3. f \in QueueFrame
    BY <1>1, <1>3 DEF HomeFrame, Frame, EdgeFrame, HandlerFrame
  <2>4. f.groups \in Seq(Groups) /\ f.groups # <<>>
    BY <2>3 DEF QueueFrame
  <2>5. \E j \in DOMAIN f.groups : f.groups[j] = g
    BY <2>2, <2>4, HeadAndTail DEF Ahead, ToSet
  <2>6. g = GroupOf[f.info.node]
    BY <1>1, <1>3, <2>5 DEF HomeFrame
  <2>. QED BY <1>1, <1>3, <2>1, <2>2, <2>6, DeliveryFields DEF Unseen, IsCall, ManualOf
<1>4. CASE f.pc # "edges" /\ f.info.chan # Manual
  <2>1. PICK i \in Aside(t, f.info) :
          /\ TargetGroup(f.info, i) \in Ahead(f)
          /\ d = DeliveryOf(f.info, i, TargetGroup(f.info, i))
    BY <1>1, <1>4 DEF OwedByFrame, Over
  <2>. QED BY <1>1, <1>4, <2>1, DeliveryFields DEF Unseen, IsCall
<1>. QED BY <1>2, <1>3, <1>4

-----------------------------------------------------------------------------
\* What a stack owes and has open, by its innermost activation and the rest.

OpenByFrame(f) == IF f.pc \in {"edges", "enqueue", "signal"} THEN {f.info.id} ELSE {}

LEMMA StackAppend ==
  ASSUME NEW t, NEW s \in Seq(Frame), NEW f
  PROVE  /\ OwedByStack(t, Append(s, f)) = OwedByStack(t, s) \cup OwedByFrame(t, f)
         /\ OpenInStack(Append(s, f)) = OpenInStack(s) \cup OpenByFrame(f)
<1>. DEFINE r == Append(s, f)
            n == Len(s)
<1>1. /\ n \in Nat /\ DOMAIN s = 1..n /\ DOMAIN r = 1..(n + 1)
      /\ \A i \in DOMAIN s : r[i] = s[i]
      /\ r[n + 1] = f
  OBVIOUS
<1>. HIDE DEF r, n
<1>2. DOMAIN r = DOMAIN s \cup {n + 1}
  BY <1>1
<1>3. OwedByStack(t, r) = OwedByStack(t, s) \cup OwedByFrame(t, f)
  BY <1>1, <1>2 DEF OwedByStack
<1>4. OpenInStack(r) = OpenInStack(s) \cup OpenByFrame(f)
  BY <1>1, <1>2 DEF OpenInStack, OpenByFrame
<1>. QED BY <1>3, <1>4 DEF r

LEMMA StackTop ==
  ASSUME NEW t, NEW s \in Seq(Frame), s # <<>>
  PROVE  /\ OwedByStack(t, s) = OwedByStack(t, Front(s)) \cup OwedByFrame(t, Last(s))
         /\ OpenInStack(s) = OpenInStack(Front(s)) \cup OpenByFrame(Last(s))
<1>. DEFINE r == Front(s)
            f == Last(s)
            n == Len(s)
<1>1. /\ n \in Nat \ {0} /\ DOMAIN s = 1..n /\ DOMAIN r = 1..(n - 1)
      /\ \A i \in DOMAIN r : r[i] = s[i]
      /\ s[n] = f
  BY LastFront DEF Last
<1>. HIDE DEF r, f, n
<1>2. DOMAIN s = DOMAIN r \cup {n}
  BY <1>1
<1>3. OwedByStack(t, s) = OwedByStack(t, r) \cup OwedByFrame(t, f)
  BY <1>1, <1>2 DEF OwedByStack
<1>4. OpenInStack(s) = OpenInStack(r) \cup OpenByFrame(f)
  BY <1>1, <1>2 DEF OpenInStack, OpenByFrame
<1>. QED BY <1>3, <1>4 DEF r, f

\* Where the deliveries owed are, before and after a step.
LEMMA OwedMembers ==
  /\ \A d : d \in Owed <=>
       \/ \E t \in Threads : d \in OwedByStack(t, stack[t])
       \/ \E g \in Groups, t \in Threads : d \in OwedByQueue(g, queue[g][t])
       \/ \E g \in Groups : d \in OwedByBatch(g, callback[g].batch, callback[g].next)
  /\ \A d : d \in Owed' <=>
       \/ \E t \in Threads : d \in OwedByStack(t, stack'[t])
       \/ \E g \in Groups, t \in Threads : d \in OwedByQueue(g, queue'[g][t])
       \/ \E g \in Groups : d \in OwedByBatch(g, callback'[g].batch, callback'[g].next)
  /\ \A id : id \in Open <=> \E t \in Threads : id \in OpenInStack(stack[t])
  /\ \A id : id \in Open' <=> \E t \in Threads : id \in OpenInStack(stack'[t])
BY DEF Owed, Open

\* What is owed by everything but the stack of t, and is open in the others.
OwedBeside(t) ==
  UNION ({OwedByStack(u, stack[u]) : u \in Threads \ {t}}
         \cup {OwedByQueue(g, queue[g][u]) : g \in Groups, u \in Threads}
         \cup {OwedByBatch(g, callback[g].batch, callback[g].next) : g \in Groups})

OpenBeside(t) == UNION {OpenInStack(stack[u]) : u \in Threads \ {t}}

LEMMA ThreadOwes ==
  ASSUME NEW t \in Threads,
         \A u \in Threads \ {t} : stack'[u] = stack[u],
         UNCHANGED <<callback, queue>>
  PROVE  /\ Owed = OwedByStack(t, stack[t]) \cup OwedBeside(t)
         /\ Owed' = OwedByStack(t, stack'[t]) \cup OwedBeside(t)
         /\ Open = OpenInStack(stack[t]) \cup OpenBeside(t)
         /\ Open' = OpenInStack(stack'[t]) \cup OpenBeside(t)
<1>1. \A d : d \in OwedBeside(t) <=>
        \/ \E u \in Threads \ {t} : d \in OwedByStack(u, stack[u])
        \/ \E g \in Groups, u \in Threads : d \in OwedByQueue(g, queue[g][u])
        \/ \E g \in Groups : d \in OwedByBatch(g, callback[g].batch, callback[g].next)
  BY DEF OwedBeside
<1>2. \A id : id \in OpenBeside(t) <=>
        \E u \in Threads \ {t} : id \in OpenInStack(stack[u])
  BY DEF OpenBeside
<1>3. \A d : d \in Owed <=> d \in OwedByStack(t, stack[t]) \cup OwedBeside(t)
  BY <1>1, OwedMembers
<1>4. \A d : d \in Owed' <=> d \in OwedByStack(t, stack'[t]) \cup OwedBeside(t)
  BY <1>1, OwedMembers
<1>5. Open = OpenInStack(stack[t]) \cup OpenBeside(t)
  BY <1>2, OwedMembers
<1>6. Open' = OpenInStack(stack'[t]) \cup OpenBeside(t)
  BY <1>2, OwedMembers
<1>. QED BY <1>3, <1>4, <1>5, <1>6

\* The shapes a step gives the stack of its thread.
LEMMA CallShape ==
  ASSUME HomeInv, NEW t \in Threads, NEW f, Call(t, f)
  PROVE  /\ stack'[t] = Append(stack[t], f)
         /\ DOMAIN stack'[t] = 1..(Len(stack[t]) + 1)
         /\ Len(stack'[t]) = Len(stack[t]) + 1
         /\ \A i \in DOMAIN stack[t] : i \in DOMAIN stack'[t] /\ stack'[t][i] = stack[t][i]
         /\ stack'[t][Len(stack[t]) + 1] = f
<1>1. stack'[t] = Append(stack[t], f) /\ stack[t] \in Seq(Frame)
  BY DEF Call, HomeInv, StackInv
<1>. QED BY <1>1

LEMMA SetTopShape ==
  ASSUME HomeInv, NEW t \in Threads, stack[t] # <<>>, NEW f, SetTop(t, f)
  PROVE  /\ stack'[t] = Append(Front(stack[t]), f)
         /\ Front(stack[t]) \in Seq(Frame)
         /\ DOMAIN stack'[t] = DOMAIN stack[t]
         /\ Len(stack[t]) \in DOMAIN stack[t]
         /\ Last(stack[t]) = stack[t][Len(stack[t])]
         /\ \A i \in DOMAIN stack[t] \ {Len(stack[t])} : stack'[t][i] = stack[t][i]
         /\ stack'[t][Len(stack[t])] = f
<1>. DEFINE s == stack[t]
            r == Front(s)
            n == Len(s)
<1>1. stack'[t] = Append(r, f) /\ s \in Seq(Frame) /\ s # <<>>
  BY DEF SetTop, HomeInv, StackInv
<1>2. /\ r \in Seq(Frame) /\ Len(r) = n - 1
      /\ \A i \in 1..(n - 1) : r[i] = s[i]
  <2>. HIDE DEF s
  <2>. QED BY <1>1, LastFront
<1>5. n \in Nat \ {0} /\ DOMAIN s = 1..n
  <2>. HIDE DEF s
  <2>. QED BY <1>1
<1>3. Last(s) = s[n]
  BY DEF Last
<1>. HIDE DEF r, s
<1>4. /\ DOMAIN Append(r, f) = 1..n
      /\ \A i \in 1..(n - 1) : Append(r, f)[i] = r[i]
      /\ Append(r, f)[n] = f
  BY <1>2, <1>5
<1>. QED BY <1>1, <1>2, <1>3, <1>4, <1>5 DEF r, s

\* A return, and an exception, leave the outer activations as they were.
LEMMA ReturnShape ==
  ASSUME HomeInv, NEW t \in Threads, stack[t] # <<>>, Return(t)
  PROVE  /\ stack'[t] = Front(stack[t])
         /\ Front(stack[t]) \in Seq(Frame)
         /\ Len(stack[t]) \in DOMAIN stack[t]
         /\ Last(stack[t]) = stack[t][Len(stack[t])]
         /\ DOMAIN stack'[t] = 1..(Len(stack[t]) - 1)
         /\ \A i \in DOMAIN stack'[t] :
              i \in DOMAIN stack[t] \ {Len(stack[t])} /\ stack'[t][i] = stack[t][i]
<1>1. stack'[t] = Front(stack[t]) /\ stack[t] \in Seq(Frame)
  BY DEF Return, HomeInv, StackInv
<1>2. /\ Front(stack[t]) \in Seq(Frame) /\ Len(Front(stack[t])) = Len(stack[t]) - 1
      /\ \A i \in 1..(Len(stack[t])-1) : Front(stack[t])[i] = stack[t][i]
  BY <1>1, LastFront
<1>3. Len(stack[t]) \in Nat \ {0} /\ DOMAIN stack[t] = 1..Len(stack[t])
  BY <1>1
<1>4. Last(stack[t]) = stack[t][Len(stack[t])]
  BY DEF Last
<1>. QED BY SMTT(60), <1>1, <1>2, <1>3, <1>4

LEMMA UnwindShape ==
  ASSUME HomeInv, NEW t \in Threads, Unwind(t)
  PROVE  \A i \in DOMAIN stack'[t] : i \in DOMAIN stack[t] /\ stack'[t][i] = stack[t][i]
<1>1. stack[t] \in Seq(Frame)
  BY DEF HomeInv, StackInv
<1>2. ASSUME NEW m \in Catchers(t), stack' = [stack EXCEPT ![t] = SubSeq(@, 1, m)]
      PROVE  \A i \in DOMAIN stack'[t] : i \in DOMAIN stack[t] /\ stack'[t][i] = stack[t][i]
  <2>1. m \in Nat /\ m <= Len(stack[t]) /\ Len(stack[t]) \in Nat
    BY <1>1 DEF Catchers
  <2>2. 1 \in Int /\ m \in Int /\ \A i \in 1..m : stack[t][i] \in Frame
    BY <1>1, <2>1
  <2>3. /\ Len(SubSeq(stack[t], 1, m)) = IF 1 <= m THEN m-1+1 ELSE 0
        /\ SubSeq(stack[t], 1, m) \in Seq(Frame)
        /\ \A i \in 1..m-1+1 : SubSeq(stack[t], 1, m)[i] = stack[t][1+i-1]
    BY <2>2, SubSeqProperties
  <2>4. stack'[t] = SubSeq(stack[t], 1, m)
    BY <1>2 DEF HomeInv, StackInv
  <2>. SUFFICES ASSUME NEW i \in DOMAIN SubSeq(stack[t], 1, m)
                PROVE  i \in DOMAIN stack[t] /\ SubSeq(stack[t], 1, m)[i] = stack[t][i]
    BY <2>4
  <2>5. i \in 1..m
    BY <2>1, <2>3
  <2>6. i \in 1..m-1+1 /\ 1+i-1 = i /\ i \in DOMAIN stack[t]
    BY <1>1, <2>1, <2>5
  <2>. QED BY <2>3, <2>6
<1>3. CASE stack' = [stack EXCEPT ![t] = <<>>]
  BY <1>3 DEF HomeInv, StackInv
<1>. QED BY <1>2, <1>3 DEF Unwind

-----------------------------------------------------------------------------
\* What keeps the invariant.

\* A call that a step leaves alone stays sound: its number turns up in no
\* group it has ahead, nor among the deliveries if it has yet to begin.
LEMMA CallKept ==
  ASSUME NEW t, NEW f, CallSound(t, f), pushes \in Nat, pushes' \in {pushes, pushes + 1},
         \A g \in Unseen(f) : f.info.id \in InGroup(g)' => f.info.id \in InGroup(g),
         \A d \in delivered' : d.id = f.info.id /\ f.pc = "accumulate" => d \in delivered
  PROVE  CallSound(t, f)'
<1>1. f.info.id \in 1..pushes'
  BY DEF CallSound
<1>2. f.pc = "accumulate" => \A d \in delivered' : d.id # f.info.id
  BY DEF CallSound
<1>3. \A g \in Unseen(f) : f.info.id \notin InGroup(g)'
  BY DEF CallSound
<1>. QED BY <1>1, <1>2, <1>3 DEF CallSound

\* The packet of a call.
LEMMA CallInfo ==
  ASSUME HomeInv, NEW t \in Threads, NEW i \in DOMAIN stack[t], IsCall(stack[t][i])
  PROVE  /\ stack[t][i] \in HomeFrame(t)
         /\ stack[t][i] \in EdgeFrame \cup QueueFrame
         /\ stack[t][i].info \in Info
         /\ stack[t][i].info.id \in Nat
<1>1. stack[t][i] \in HomeFrame(t)
  BY ElementOfSeq DEF HomeInv, StackInv
<1>2. stack[t][i] \in EdgeFrame \cup QueueFrame
  BY <1>1 DEF HomeFrame, Frame, HandlerFrame, IsCall
<1>3. stack[t][i].info \in Info
  BY <1>2 DEF EdgeFrame, QueueFrame, EdgeInfo, Info
<1>. QED BY <1>1, <1>2, <1>3 DEF Info

\* Numbers stay distinct when a thread's calls keep theirs or take a new one.
LEMMA DistinctKept ==
  ASSUME HomeInv, OwingInv, NEW t \in Threads,
         \A u \in Threads \ {t} : stack'[u] = stack[u],
         \A i \in DOMAIN stack'[t] : IsCall(stack'[t][i]) =>
           \/ /\ i \in DOMAIN stack[t]
              /\ IsCall(stack[t][i])
              /\ stack'[t][i].info.id = stack[t][i].info.id
           \/ /\ i = Len(stack'[t])
              /\ stack'[t][i].info.id = pushes + 1
  PROVE  CallsDistinct'
<1>1. \A u \in Threads : \A i \in DOMAIN stack[u] : IsCall(stack[u][i]) =>
        stack[u][i].info.id # pushes + 1
  <2>. SUFFICES ASSUME NEW u \in Threads, NEW i \in DOMAIN stack[u], IsCall(stack[u][i])
                PROVE  stack[u][i].info.id # pushes + 1
    OBVIOUS
  <2>1. stack[u][i].info.id \in 1..pushes
    BY DEF OwingInv, CallsSound, CallSound
  <2>. QED BY <2>1 DEF HomeInv, ScalarInv
<1>. SUFFICES ASSUME NEW u \in Threads, NEW v \in Threads,
                     NEW i \in DOMAIN stack'[u], NEW j \in DOMAIN stack'[v],
                     IsCall(stack'[u][i]), IsCall(stack'[v][j]),
                     stack'[u][i].info.id = stack'[v][j].info.id
              PROVE  u = v /\ i = j
  BY DEF CallsDistinct
<1>2. \/ i \in DOMAIN stack[u] /\ IsCall(stack[u][i])
         /\ stack'[u][i].info.id = stack[u][i].info.id
      \/ u = t /\ i = Len(stack'[t]) /\ stack'[u][i].info.id = pushes + 1
  OBVIOUS
<1>3. \/ j \in DOMAIN stack[v] /\ IsCall(stack[v][j])
         /\ stack'[v][j].info.id = stack[v][j].info.id
      \/ v = t /\ j = Len(stack'[t]) /\ stack'[v][j].info.id = pushes + 1
  OBVIOUS
<1>. QED BY <1>1, <1>2, <1>3 DEF OwingInv, CallsDistinct

\* A step of a thread that touches no queue and no batch.
LEMMA ThreadStep ==
  ASSUME HomeInv, OwingInv, NEW t \in Threads,
         UNCHANGED <<callback, queue>>,
         pushes' \in {pushes, pushes + 1},
         \A u \in Threads \ {t} : stack'[u] = stack[u],
         \A f : \A i \in DOMAIN stack'[t] : (f = stack'[t][i] /\ IsCall(f)) =>
           \/ /\ i \in DOMAIN stack[t]
              /\ f = stack[t][i]
           \/ /\ CallSound(t, f)'
              /\ \/ /\ i \in DOMAIN stack[t]
                    /\ IsCall(stack[t][i])
                    /\ f.info.id = stack[t][i].info.id
                 \/ /\ i = Len(stack'[t])
                    /\ f.info.id = pushes + 1,
         \A d \in delivered' :
           \/ d \in delivered
           \/ \E i \in DOMAIN stack[t] :
                /\ IsCall(stack[t][i])
                /\ stack[t][i].pc # "accumulate"
                /\ d.id = stack[t][i].info.id
  PROVE  OwingInv'
<1>1. pushes \in Nat
  BY DEF HomeInv, ScalarInv
<1>2. \A g : InGroup(g)' = InGroup(g)
  BY DEF InGroup
<1>3. GroupsOnce'
  <2>. SUFFICES ASSUME NEW g \in Groups
                PROVE  GroupOnce(g)' /\ InGroup(g)' \subseteq 1..pushes'
    BY DEF GroupsOnce
  <2>1. GroupOnce(g)'
    BY DEF OwingInv, GroupsOnce, GroupOnce
  <2>. QED BY <1>1, <1>2, <2>1 DEF OwingInv, GroupsOnce
<1>4. BatchInv'
  BY DEF OwingInv, BatchInv
<1>5. CallsDistinct'
  BY DistinctKept
<1>6. CallsSound'
  <2>. SUFFICES ASSUME NEW u \in Threads, NEW i \in DOMAIN stack'[u],
                       NEW f, f = stack'[u][i], IsCall(f)
                PROVE  CallSound(u, f)'
    BY DEF CallsSound
  <2>1. CASE i \in DOMAIN stack[u] /\ f = stack[u][i]
    <3>1. CallSound(u, f)
      BY <2>1 DEF OwingInv, CallsSound
    <3>2. \A d \in delivered' : d.id = f.info.id /\ f.pc = "accumulate" => d \in delivered
      BY <2>1 DEF OwingInv, CallsDistinct
    <3>. QED BY <1>1, <1>2, <3>1, <3>2, CallKept
  <2>2. CASE ~ (i \in DOMAIN stack[u] /\ f = stack[u][i])
    BY <2>2
  <2>. QED BY <2>1, <2>2
<1>7. DeliveredKnown'
  <2>. SUFFICES ASSUME NEW d \in delivered' PROVE d.id \in 1..pushes'
    BY DEF DeliveredKnown
  <2>1. d.id \in 1..pushes
    BY DEF OwingInv, DeliveredKnown, CallsSound, CallSound
  <2>. QED BY <1>1, <2>1
<1>. QED BY <1>3, <1>4, <1>5, <1>6, <1>7 DEF OwingInv

-----------------------------------------------------------------------------
\* Whose deliveries are owed where.

\* A stack owes what none of the groups concerned has in its hands.
LEMMA StackOwesAt ==
  ASSUME HomeInv, OwingInv, NEW t \in Threads, NEW i \in DOMAIN stack[t],
         NEW d \in OwedByFrame(t, stack[t][i])
  PROVE  /\ IsCall(stack[t][i])
         /\ stack[t][i].pc \in {"edges", "enqueue", "signal"}
         /\ d.id = stack[t][i].info.id
         /\ d.id \in 1..pushes
         /\ d.id \notin InGroup(d.on)
<1>1. stack[t][i] \in HomeFrame(t)
  BY ElementOfSeq DEF HomeInv, StackInv
<1>2. /\ IsCall(stack[t][i])
      /\ stack[t][i].pc \in {"edges", "enqueue", "signal"}
      /\ d.id = stack[t][i].info.id
      /\ d.on \in Unseen(stack[t][i])
  BY <1>1, OwedByFrameAt
<1>3. CallSound(t, stack[t][i])
  BY <1>2 DEF OwingInv, CallsSound
<1>. QED BY <1>2, <1>3 DEF CallSound

\* A group owes, on its thread, what is in its hands.
LEMMA GroupOwesAt ==
  ASSUME HomeInv, OwingInv, NEW g \in Groups
  PROVE  /\ \A t \in Threads : \A d \in OwedByQueue(g, queue[g][t]) :
              d.on = g /\ d.id \in IdsOf(queue[g][t])
         /\ \A d \in OwedByBatch(g, callback[g].batch, callback[g].next) :
              d.on = g /\ d.id \in IdsOf(callback[g].batch)
         /\ \A t \in Threads : IdsOf(queue[g][t]) \subseteq InGroup(g)
         /\ IdsOf(callback[g].batch) \subseteq InGroup(g)
         /\ InGroup(g) \subseteq 1..pushes
<1>1. \A t \in Threads : \A d \in OwedByQueue(g, queue[g][t]) :
        d.on = g /\ d.id \in IdsOf(queue[g][t])
  BY OwedByQueueAt DEF HomeInv, QueueInv
<1>2. \A d \in OwedByBatch(g, callback[g].batch, callback[g].next) :
        d.on = g /\ d.id \in IdsOf(callback[g].batch)
  BY OwedByBatchAt DEF HomeInv, CallbackInv
<1>. QED BY <1>1, <1>2 DEF InGroup, OwingInv, GroupsOnce

\* Nothing known has the number of the next call.
LEMMA NumberIsFresh ==
  ASSUME HomeInv, OwingInv
  PROVE  /\ \A d \in Owed \cup delivered : d.id # pushes + 1
         /\ pushes + 1 \notin Open
         /\ \A g \in Groups : pushes + 1 \notin InGroup(g)
         /\ pushes + 1 \in 1..(pushes + 1) /\ pushes + 1 \in Nat
<1>1. pushes \in Nat
  BY DEF HomeInv, ScalarInv
<1>2. \A d \in Owed : d.id \in 1..pushes
  <2>. SUFFICES ASSUME NEW d \in Owed PROVE d.id \in 1..pushes
    OBVIOUS
  <2>1. ASSUME NEW t \in Threads, d \in OwedByStack(t, stack[t])
        PROVE  d.id \in 1..pushes
    BY <2>1, StackOwesAt DEF OwedByStack
  <2>2. ASSUME NEW g \in Groups,
               \/ \E t \in Threads : d \in OwedByQueue(g, queue[g][t])
               \/ d \in OwedByBatch(g, callback[g].batch, callback[g].next)
        PROVE  d.id \in 1..pushes
    BY <2>2, GroupOwesAt
  <2>. QED BY <2>1, <2>2, OwedMembers
<1>3. \A id \in Open : id \in 1..pushes
  BY OwedMembers DEF OpenInStack, OwingInv, CallsSound, CallSound, IsCall
<1>4. \A d \in delivered : d.id \in 1..pushes
  BY DEF OwingInv, DeliveredKnown
<1>5. \A g \in Groups : \A id \in InGroup(g) : id \in 1..pushes
  BY DEF OwingInv, GroupsOnce
<1>. QED BY <1>1, <1>2, <1>3, <1>4, <1>5

\* The call that t is in is open nowhere else, and nothing else owes
\* deliveries of its packet while it is in its loop over the edges.
LEMMA TopCallAlone ==
  ASSUME HomeInv, OwingInv, NEW t \in Threads, stack[t] # <<>>, IsCall(Last(stack[t]))
  PROVE  /\ Last(stack[t]).info.id \notin OpenInStack(Front(stack[t])) \cup OpenBeside(t)
         /\ CallSound(t, Last(stack[t]))
         /\ \A d \in OwedByStack(t, Front(stack[t])) : d.id # Last(stack[t]).info.id
         /\ Last(stack[t]).pc \in {"accumulate", "edges"} =>
              \A d \in OwedBeside(t) : d.id # Last(stack[t]).info.id
<1>. DEFINE n   == Len(stack[t])
            top == Last(stack[t])
            r   == Front(stack[t])
<1>1. /\ n \in DOMAIN stack[t] /\ top = stack[t][n]
      /\ DOMAIN r = 1..(n - 1)
      /\ \A i \in DOMAIN r : i \in DOMAIN stack[t] /\ i # n /\ r[i] = stack[t][i]
  <2>1. stack[t] \in Seq(Frame)
    BY DEF HomeInv, StackInv
  <2>2. /\ r \in Seq(Frame) /\ Len(r) = n - 1
        /\ \A i \in 1..(n-1) : r[i] = stack[t][i]
    BY <2>1, LastFront
  <2>3. n \in Nat \ {0} /\ DOMAIN stack[t] = 1..n
    BY <2>1
  <2>. QED BY <2>1, <2>2, <2>3 DEF Last
<1>. HIDE DEF n, top, r
<1>2. \A u \in Threads : \A i \in DOMAIN stack[u] :
        IsCall(stack[u][i]) /\ stack[u][i].info.id = top.info.id => u = t /\ i = n
  BY <1>1 DEF OwingInv, CallsDistinct, top
<1>3. top.info.id \notin OpenInStack(r)
  BY <1>1, <1>2 DEF OpenInStack, IsCall
<1>4. top.info.id \notin OpenBeside(t)
  BY <1>2 DEF OpenBeside, OpenInStack, IsCall
<1>5. CallSound(t, top)
  BY <1>1 DEF OwingInv, CallsSound, top
<1>6. \A d \in OwedByStack(t, r) : d.id # top.info.id
  BY <1>1, <1>2, StackOwesAt DEF OwedByStack
<1>7. ASSUME top.pc \in {"accumulate", "edges"}, NEW d \in OwedBeside(t)
      PROVE  d.id # top.info.id
  <2>1. \A g \in Groups : top.info.id \notin InGroup(g)
    BY <1>5, <1>7 DEF CallSound, Unseen
  <2>2. ASSUME NEW u \in Threads \ {t}, d \in OwedByStack(u, stack[u])
        PROVE  d.id # top.info.id
    BY <1>2, <2>2, StackOwesAt DEF OwedByStack
  <2>3. ASSUME NEW g \in Groups,
               \/ \E u \in Threads : d \in OwedByQueue(g, queue[g][u])
               \/ d \in OwedByBatch(g, callback[g].batch, callback[g].next)
        PROVE  d.id # top.info.id
    BY <2>1, <2>3, GroupOwesAt
  <2>. QED BY <2>2, <2>3 DEF OwedBeside
<1>. QED BY <1>3, <1>4, <1>5, <1>6, <1>7 DEF top, r

-----------------------------------------------------------------------------
(***************************************************************************)
(* One lemma per kind of step: it keeps the invariant, and it is a step    *)
(* of PacketDelivery or leaves what it says alone.                         *)
(***************************************************************************)
Serves == [Promise!Next]_<<Owed, delivered, Open>>

\* The step makes a delivery that is owed, and no other.
MakesOne == \E d \in Owed : Promise!Deliver(d)

\* A new activation on top leaves the rest of the stack alone.
LEMMA CallKeepsRest ==
  ASSUME HomeInv, OwingInv, NEW t \in Threads, NEW f,
         Call(t, f),
         UNCHANGED <<callback, queue, delivered>>,
         pushes' \in {pushes, pushes + 1},
         IsCall(f) => CallSound(t, f)' /\ f.info.id = pushes + 1
  PROVE  /\ OwingInv'
         /\ Owed' = Owed \cup OwedByFrame(t, f)
         /\ Open' = Open \cup OpenByFrame(f)
<1>1. \A u \in Threads \ {t} : stack'[u] = stack[u]
  BY OthersKeepStack
<1>2. /\ stack'[t] = Append(stack[t], f)
      /\ DOMAIN stack'[t] = 1..(Len(stack[t]) + 1)
      /\ Len(stack'[t]) = Len(stack[t]) + 1
      /\ \A i \in DOMAIN stack[t] : stack'[t][i] = stack[t][i]
      /\ stack'[t][Len(stack[t]) + 1] = f
  BY CallShape
<1>3. stack[t] \in Seq(Frame)
  BY DEF HomeInv, StackInv
<1>4. \A i \in DOMAIN stack'[t] : i \in DOMAIN stack[t] \/ i = Len(stack'[t])
  <2>1. DOMAIN stack[t] = 1..Len(stack[t]) /\ Len(stack[t]) \in Nat
    BY <1>3
  <2>. QED BY <1>2, <2>1
<1>5. OwingInv'
  <2>1. \A e : \A i \in DOMAIN stack'[t] : (e = stack'[t][i] /\ IsCall(e)) =>
          \/ i \in DOMAIN stack[t] /\ e = stack[t][i]
          \/ /\ CallSound(t, e)'
             /\ i = Len(stack'[t])
             /\ e.info.id = pushes + 1
    BY <1>2, <1>4
  <2>. QED BY <1>1, <2>1, ThreadStep
<1>6. Owed' = Owed \cup OwedByFrame(t, f) /\ Open' = Open \cup OpenByFrame(f)
  <2>1. /\ OwedByStack(t, stack'[t]) = OwedByStack(t, stack[t]) \cup OwedByFrame(t, f)
        /\ OpenInStack(stack'[t]) = OpenInStack(stack[t]) \cup OpenByFrame(f)
    BY <1>2, <1>3, StackAppend
  <2>. QED BY <1>1, <2>1, ThreadOwes
<1>. QED BY <1>5, <1>6

LEMMA PushOfServes ==
  ASSUME HomeInv, OwingInv, NEW t \in Threads, NEW n \in Nodes, NEW c \in Channels,
         NEW p, Call(t, PushOf(NewInfo(t, n, c, p))), pushes' = pushes + 1,
         UNCHANGED <<callback, queue, delivered>>
  PROVE  OwingInv' /\ Serves
<1>. PICK f : f = PushOf(NewInfo(t, n, c, p))
  OBVIOUS
<1>1. /\ f.pc = "accumulate" /\ f.info.id = pushes + 1 /\ f.info.by = t
      /\ f.next = 1 /\ f.groups = <<>>
  BY DEF PushOf, NewInfo
<1>2. CallSound(t, f)'
  <2>1. \A g \in Groups : f.info.id \notin InGroup(g)'
    BY <1>1, NumberIsFresh DEF InGroup
  <2>2. f.info.id \in 1..pushes'
    BY <1>1, NumberIsFresh
  <2>3. \A d \in delivered' : d.id # f.info.id
    BY <1>1, NumberIsFresh
  <2>. QED BY <1>1, <2>1, <2>2, <2>3 DEF CallSound, Unseen
<1>3. OwedByFrame(t, f) = {} /\ OpenByFrame(f) = {}
  BY <1>1 DEF OwedByFrame, OpenByFrame
<1>4. OwingInv' /\ Owed' = Owed \cup {} /\ Open' = Open \cup {}
  BY <1>1, <1>2, <1>3, CallKeepsRest
<1>5. OwingInv' /\ Owed' = Owed /\ Open' = Open
  BY <1>4
<1>. QED BY <1>5 DEF Serves

LEMMA HandlerPushesServes ==
  ASSUME HomeInv, OwingInv, NEW t \in Threads, NEW n \in Nodes, NEW c \in Channels,
         NEW p \in Params, HandlerPushes(t, n, c, p)
  PROVE  OwingInv' /\ Serves
BY PushOfServes DEF HandlerPushes

LEMMA SourcePushesServes ==
  ASSUME HomeInv, OwingInv, NEW t \in Threads, NEW n \in Nodes, NEW c \in Channels,
         NEW p \in FreshParams, SourcePushes(t, n, c, p)
  PROVE  OwingInv' /\ Serves
BY PushOfServes DEF SourcePushes

LEMMA SendPacketServes ==
  ASSUME HomeInv, OwingInv, NEW t \in Threads, NEW n \in Nodes, NEW p \in FreshParams,
         SendPacket(t, n, p)
  PROVE  OwingInv' /\ Serves
<1>. PICK info : info = NewInfo(t, n, Manual, p)
  OBVIOUS
<1>. PICK f : f = HandOver(info, <<GroupOf[n]>>)
  OBVIOUS
<1>1. /\ f.pc = "enqueue" /\ f.info = info /\ f.groups = <<GroupOf[n]>>
      /\ info.id = pushes + 1 /\ info.by = t /\ info.chan = Manual /\ info.node = n
  BY DEF HandOver, NewInfo
<1>2. Call(t, f) /\ pushes' = pushes + 1 /\ UNCHANGED <<callback, queue, delivered>>
  BY DEF SendPacket
<1>3. Ahead(f) = {GroupOf[n]} /\ GroupOf[n] \in Groups
  <2>1. DOMAIN f.groups = {1} /\ f.groups[1] = GroupOf[n]
    BY <1>1
  <2>2. ToSet(f.groups) = {GroupOf[n]}
    BY <2>1 DEF ToSet
  <2>3. Ahead(f) = ToSet(f.groups)
    BY <1>1 DEF Ahead
  <2>. QED BY <2>2, <2>3, GraphAssumption
<1>4. CallSound(t, f)'
  <2>1. \A g \in Unseen(f) : f.info.id \notin InGroup(g)'
    BY <1>1, <1>2, <1>3, NumberIsFresh DEF InGroup, Unseen
  <2>2. f.info.id \in 1..pushes'
    BY <1>1, <1>2, NumberIsFresh
  <2>. QED BY <1>1, <2>1, <2>2 DEF CallSound
<1>5. OwedByFrame(t, f) = {ManualOf(info)} /\ OpenByFrame(f) = {pushes + 1}
  BY <1>1, <1>3 DEF OwedByFrame, OpenByFrame
<1>6. OwingInv' /\ Owed' = Owed \cup {ManualOf(info)} /\ Open' = Open \cup {pushes + 1}
  BY <1>1, <1>2, <1>4, <1>5, CallKeepsRest
<1>7. ManualOf(info).id = pushes + 1
  BY <1>1, DeliveryFields DEF ManualOf
<1>8. Promise!Accept(pushes + 1)
  BY <1>2, <1>6, <1>7, NumberIsFresh DEF Promise!Accept, Promise!Of
<1>9. pushes + 1 \in Open' \ Open
  BY <1>6, NumberIsFresh
<1>. QED BY <1>6, <1>8, <1>9 DEF Serves, Promise!Next

\* A return of the innermost activation, which owes nothing any more.
LEMMA ReturnServes ==
  ASSUME HomeInv, OwingInv, NEW t \in Threads, stack[t] # <<>>, Return(t),
         UNCHANGED <<callback, queue, pushes, delivered>>,
         OwedByFrame(t, Last(stack[t])) = {}
  PROVE  OwingInv' /\ Serves
<1>. DEFINE top == Last(stack[t])
<1>1. \A u \in Threads \ {t} : stack'[u] = stack[u]
  BY OthersKeepStack
<1>2. /\ stack'[t] = Front(stack[t])
      /\ \A i \in DOMAIN stack'[t] : i \in DOMAIN stack[t] /\ stack'[t][i] = stack[t][i]
  BY ReturnShape
<1>3. OwingInv'
  BY <1>1, <1>2, ThreadStep
<1>4. stack[t] \in Seq(Frame)
  BY DEF HomeInv, StackInv
<1>5. Owed' = Owed
  <2>1. OwedByStack(t, stack[t]) = OwedByStack(t, Front(stack[t])) \cup {}
    BY SMTT(60), <1>4, StackTop
  <2>2. OwedByStack(t, stack'[t]) = OwedByStack(t, stack[t])
    BY <1>2, <2>1
  <2>. QED BY <1>1, <2>2, ThreadOwes
<1>6. /\ Open = OpenInStack(Front(stack[t])) \cup OpenBeside(t) \cup OpenByFrame(top)
      /\ Open' = OpenInStack(Front(stack[t])) \cup OpenBeside(t)
  BY <1>1, <1>2, <1>4, ThreadOwes, StackTop
<1>7. CASE top.pc \in {"edges", "enqueue", "signal"}
  <2>1. top.info.id \notin OpenInStack(Front(stack[t])) \cup OpenBeside(t)
    BY <1>7, TopCallAlone DEF IsCall
  <2>2. OpenByFrame(top) = {top.info.id}
    BY <1>7 DEF OpenByFrame
  <2>3. top.info.id \in Open /\ Open' = Open \ {top.info.id}
    BY <1>6, <2>1, <2>2
  <2>4. Promise!Return(top.info.id)
    BY <1>5, <2>3 DEF Promise!Return
  <2>. QED BY <1>3, <2>3, <2>4 DEF Serves, Promise!Next
<1>8. CASE top.pc \notin {"edges", "enqueue", "signal"}
  BY <1>3, <1>5, <1>6, <1>8 DEF OpenByFrame, Serves
<1>. QED BY <1>7, <1>8

\* An exception: what is lost was owed by calls that it ends.
LEMMA UnwindServes ==
  ASSUME HomeInv, OwingInv, NEW t \in Threads, Unwind(t),
         UNCHANGED <<callback, queue, pushes, delivered>>
  PROVE  OwingInv' /\ Serves
<1>1. \A u \in Threads \ {t} : stack'[u] = stack[u]
  BY OthersKeepStack
<1>2. \A i \in DOMAIN stack'[t] : i \in DOMAIN stack[t] /\ stack'[t][i] = stack[t][i]
  BY UnwindShape
<1>3. OwingInv'
  BY <1>1, <1>2, ThreadStep
<1>4. OwedByStack(t, stack'[t]) \subseteq OwedByStack(t, stack[t])
  BY <1>2 DEF OwedByStack
<1>5. OpenInStack(stack'[t]) \subseteq OpenInStack(stack[t])
  BY <1>2 DEF OpenInStack
<1>6. Owed' \subseteq Owed /\ Open' \subseteq Open
  BY <1>1, <1>4, <1>5, ThreadOwes
<1>7. ASSUME NEW d \in Owed \ Owed'
      PROVE  d.id \in Open \ Open'
  <2>1. d \in OwedByStack(t, stack[t]) /\ d \notin OwedByStack(t, stack'[t])
    BY <1>1, ThreadOwes
  <2>2. PICK i \in DOMAIN stack[t] : d \in OwedByFrame(t, stack[t][i])
    BY <2>1 DEF OwedByStack
  <2>3. i \notin DOMAIN stack'[t]
    BY <1>2, <2>1, <2>2 DEF OwedByStack
  <2>4. /\ IsCall(stack[t][i])
        /\ stack[t][i].pc \in {"edges", "enqueue", "signal"}
        /\ d.id = stack[t][i].info.id
    BY <2>2, StackOwesAt
  <2>5. d.id \in Open
    BY <2>4, OwedMembers DEF OpenInStack
  <2>6. \A u \in Threads : \A j \in DOMAIN stack'[u] :
          IsCall(stack'[u][j]) => stack'[u][j].info.id # d.id
    BY <1>1, <1>2, <2>3, <2>4 DEF OwingInv, CallsDistinct
  <2>7. d.id \notin Open'
    BY <2>6, OwedMembers DEF OpenInStack, IsCall
  <2>. QED BY <2>5, <2>7
<1>8. Promise!Fail
  BY <1>6, <1>7 DEF Promise!Fail
<1>. QED BY <1>3, <1>8 DEF Serves, Promise!Next

LEMMA HandlerEndsServes ==
  ASSUME HomeInv, OwingInv, NEW t \in Threads, HandlerReturns(t) \/ HandlerThrows(t)
  PROVE  OwingInv' /\ Serves
<1>1. CASE HandlerReturns(t)
  <2>1. stack[t] # <<>> /\ OwedByFrame(t, Last(stack[t])) = {}
    BY <1>1 DEF HandlerReturns, Running, OwedByFrame
  <2>. QED BY <1>1, <2>1, ReturnServes DEF HandlerReturns
<1>2. CASE HandlerThrows(t)
  BY <1>2, UnwindServes DEF HandlerThrows
<1>. QED BY <1>1, <1>2

\* What is owed, and open, but for the activation t is in.
OwedButTop(t) == OwedByStack(t, Front(stack[t])) \cup OwedBeside(t)
OpenButTop(t) == OpenInStack(Front(stack[t])) \cup OpenBeside(t)

\* The innermost call goes on: only what it owes itself changes.
LEMMA SetTopKeepsRest ==
  ASSUME HomeInv, OwingInv, NEW t \in Threads, NEW f,
         stack[t] # <<>>, IsCall(Last(stack[t])),
         SetTop(t, f), UNCHANGED <<callback, queue, pushes, delivered>>,
         f.info.id = Last(stack[t]).info.id,
         CallSound(t, f)'
  PROVE  /\ OwingInv'
         /\ Owed = OwedButTop(t) \cup OwedByFrame(t, Last(stack[t]))
         /\ Owed' = OwedButTop(t) \cup OwedByFrame(t, f)
         /\ Open = OpenButTop(t) \cup OpenByFrame(Last(stack[t]))
         /\ Open' = OpenButTop(t) \cup OpenByFrame(f)
<1>. PICK n : n = Len(stack[t])
  OBVIOUS
<1>1. \A u \in Threads \ {t} : stack'[u] = stack[u]
  BY OthersKeepStack
<1>2. /\ stack'[t] = Append(Front(stack[t]), f)
      /\ Front(stack[t]) \in Seq(Frame)
      /\ DOMAIN stack'[t] = DOMAIN stack[t]
      /\ n \in DOMAIN stack[t]
      /\ Last(stack[t]) = stack[t][n]
      /\ \A i \in DOMAIN stack[t] \ {n} : stack'[t][i] = stack[t][i]
      /\ stack'[t][n] = f
  BY SetTopShape
<1>3. stack[t] \in Seq(Frame)
  BY DEF HomeInv, StackInv
<1>4. OwingInv'
  <2>1. \A e : \A i \in DOMAIN stack'[t] : (e = stack'[t][i] /\ IsCall(e)) =>
          \/ i \in DOMAIN stack[t] /\ e = stack[t][i]
          \/ /\ CallSound(t, e)'
             /\ i \in DOMAIN stack[t]
             /\ IsCall(stack[t][i])
             /\ e.info.id = stack[t][i].info.id
    BY <1>2
  <2>. QED BY <1>1, <2>1, ThreadStep
<1>5. /\ OwedByStack(t, stack[t])
           = OwedByStack(t, Front(stack[t])) \cup OwedByFrame(t, Last(stack[t]))
      /\ OpenInStack(stack[t])
           = OpenInStack(Front(stack[t])) \cup OpenByFrame(Last(stack[t]))
  BY <1>3, StackTop
<1>6. /\ OwedByStack(t, stack'[t])
           = OwedByStack(t, Front(stack[t])) \cup OwedByFrame(t, f)
      /\ OpenInStack(stack'[t]) = OpenInStack(Front(stack[t])) \cup OpenByFrame(f)
  <2>. PICK r : r = Front(stack[t])
    OBVIOUS
  <2>1. r \in Seq(Frame) /\ stack'[t] = Append(r, f)
    BY <1>2
  <2>2. /\ OwedByStack(t, Append(r, f)) = OwedByStack(t, r) \cup OwedByFrame(t, f)
        /\ OpenInStack(Append(r, f)) = OpenInStack(r) \cup OpenByFrame(f)
    BY ZenonT(60), <2>1, StackAppend
  <2>. QED BY <2>1, <2>2
<1>. QED BY <1>1, <1>4, <1>5, <1>6, ThreadOwes DEF OwedButTop, OpenButTop

\* It goes on and owes and has open what it did.
LEMMA SetTopServes ==
  ASSUME HomeInv, OwingInv, NEW t \in Threads, NEW f,
         stack[t] # <<>>, IsCall(Last(stack[t])),
         SetTop(t, f), UNCHANGED <<callback, queue, pushes, delivered>>,
         f.info.id = Last(stack[t]).info.id,
         CallSound(t, f)',
         OwedByFrame(t, f) = OwedByFrame(t, Last(stack[t])),
         {f.pc, Last(stack[t]).pc} \subseteq {"edges", "enqueue", "signal"}
  PROVE  OwingInv' /\ Serves
<1>1. OpenByFrame(f) = OpenByFrame(Last(stack[t]))
  BY DEF OpenByFrame
<1>2. OwingInv' /\ Owed' = Owed /\ Open' = Open
  BY ZenonT(60), <1>1, SetTopKeepsRest
<1>. QED BY <1>2 DEF Serves

\* The innermost activation, when t is inside pushPacket() or sendPacket().
LEMMA TopCall ==
  ASSUME HomeInv, OwingInv, NEW t \in Threads,
         NEW pc \in {"accumulate", "edges", "enqueue", "signal"}, Running(t, pc)
  PROVE  /\ stack[t] # <<>>
         /\ IsCall(Last(stack[t]))
         /\ Last(stack[t]).pc = pc
         /\ pc \in {"accumulate", "edges"} => Last(stack[t]) \in EdgeFrame
         /\ pc \in {"enqueue", "signal"} => Last(stack[t]) \in QueueFrame
         /\ Last(stack[t]) \in HomeFrame(t)
         /\ CallSound(t, Last(stack[t]))
<1>1. /\ stack[t] # <<>>
      /\ Last(stack[t]).pc = pc
      /\ pc \in {"accumulate", "edges"} => Last(stack[t]) \in EdgeFrame
      /\ pc \in {"enqueue", "signal"} => Last(stack[t]) \in QueueFrame
      /\ Last(stack[t]) \in HomeFrame(t)
  BY TopFrame DEF HomeInv
<1>2. IsCall(Last(stack[t]))
  BY <1>1 DEF IsCall
<1>. QED BY <1>1, <1>2, TopCallAlone

\* The edges of a call are numbered from 1.
LEMMA OutEdgesType ==
  ASSUME NEW info, info.node \in Nodes, info.chan \in Channels
  PROVE  /\ OutEdges(info) \in Seq(Edge)
         /\ DOMAIN OutEdges(info) = 1..Len(OutEdges(info))
         /\ Len(OutEdges(info)) \in Nat
BY GraphAssumption DEF OutEdges

LEMMA AccumulateServes ==
  ASSUME HomeInv, OwingInv, NEW t \in Threads, Accumulate(t)
  PROVE  OwingInv' /\ Serves
<1>. PICK top : top = Last(stack[t])
  OBVIOUS
<1>. PICK last : last = lastReceived[top.info.node]
  OBVIOUS
<1>. PICK f : f = [top EXCEPT !.pc = "edges", !.info.params = Accumulated(@, last)]
  OBVIOUS
<1>1. /\ stack[t] # <<>> /\ IsCall(top) /\ top.pc = "accumulate"
      /\ top \in EdgeFrame /\ CallSound(t, top)
      /\ UNCHANGED <<callback, queue, pushes, delivered>>
  BY TopCall DEF Accumulate
<1>2. CASE Unwind(t)
  BY <1>1, <1>2, UnwindServes
<1>3. CASE Return(t)
  <2>1. OwedByFrame(t, top) = {}
    BY <1>1 DEF OwedByFrame
  <2>. QED BY <1>1, <1>3, <2>1, ReturnServes
<1>4. CASE SetTop(t, f) /\ OutEdges(top.info) # <<>>
  <2>1. /\ f.pc = "edges" /\ f.next = 1 /\ f.groups = top.groups
        /\ f.info.id = top.info.id /\ f.info.by = top.info.by
        /\ f.info.node = top.info.node /\ f.info.chan = top.info.chan
        /\ f.info.node \in Nodes /\ f.info.chan \in Channels
    BY SMTT(60), <1>1 DEF EdgeFrame, EdgeInfo, CallSound
  <2>2. OutEdges(f.info) # <<>>
    BY <1>4, <2>1 DEF OutEdges
  <2>3. DOMAIN OutEdges(f.info) = 1..Len(OutEdges(f.info)) /\ 1 \in DOMAIN OutEdges(f.info)
    BY SMTT(60), <2>1, <2>2, OutEdgesType
  <2>4. CallSound(t, f)'
    <3>1. \A g \in Groups : f.info.id \notin InGroup(g)'
      BY <1>1, <2>1 DEF InGroup, CallSound, Unseen
    <3>2. \A i \in Aside(t, f.info) : ~ (i < f.next)
      BY SMTT(60), <2>1, <2>3 DEF Aside
    <3>. QED BY SMTT(60), <1>1, <2>1, <3>1, <3>2 DEF CallSound, Unseen
  <2>5. /\ OwingInv'
        /\ Owed = OwedButTop(t) \cup OwedByFrame(t, top)
        /\ Owed' = OwedButTop(t) \cup OwedByFrame(t, f)
        /\ Open = OpenButTop(t) \cup OpenByFrame(top)
        /\ Open' = OpenButTop(t) \cup OpenByFrame(f)
    BY <1>1, <1>4, <2>1, <2>4, SetTopKeepsRest
  <2>6. OwedByFrame(t, top) = {} /\ OpenByFrame(top) = {} /\ OpenByFrame(f) = {f.info.id}
    BY <1>1, <2>1 DEF OwedByFrame, OpenByFrame
  <2>7. /\ \A d \in OwedByFrame(t, f) : d.id = f.info.id
        /\ OwedByFrame(t, f) # {}
    <3>1. OwedByFrame(t, f) = Over(f.info, ToSee(f.info, 1) \cup Aside(t, f.info))
      BY <2>1 DEF OwedByFrame
    <3>2. 1 \in ToSee(f.info, 1)
      BY <2>3 DEF ToSee
    <3>. QED BY <3>1, <3>2, DeliveryFields DEF Over
  <2>8. /\ f.info.id \notin OpenButTop(t)
        /\ \A d \in OwedButTop(t) : d.id # f.info.id
        /\ \A d \in delivered : d.id # f.info.id
    BY SMTT(60), <1>1, <2>1, TopCallAlone DEF OpenButTop, OwedButTop, CallSound
  <2>9. Promise!Accept(f.info.id)
    <3>1. f.info.id \notin Open
      BY SMTT(60), <2>5, <2>6, <2>8
    <3>2. \A d \in Owed \cup delivered : d.id # f.info.id
      BY SMTT(60), <2>5, <2>6, <2>8
    <3>3. Owed \subseteq Owed' /\ Owed' # Owed
      BY <2>5, <2>6, <2>7, <2>8
    <3>4. \A d \in Owed' \ Owed : d.id = f.info.id
      BY <2>5, <2>6, <2>7
    <3>5. Open' = Open \cup {f.info.id}
      BY <2>5, <2>6
    <3>. QED BY SMTT(60), <1>1, <3>1, <3>2, <3>3, <3>4, <3>5 DEF Promise!Accept, Promise!Of
  <2>10. f.info.id \in Open' \ Open
    BY <2>5, <2>6, <2>8
  <2>. QED BY <2>5, <2>9, <2>10 DEF Serves, Promise!Next
<1>. QED BY <1>2, <1>3, <1>4 DEF Accumulate

\* One delivery less.
LEMMA OverWithout ==
  ASSUME NEW info, NEW I, NEW i
  PROVE  Over(info, I \ {i}) = Over(info, I) \ {DeliveryOf(info, i, TargetGroup(info, i))}
<1>1. \A j \in I : DeliveryOf(info, j, TargetGroup(info, j))
                     = DeliveryOf(info, i, TargetGroup(info, i)) => j = i
  BY DeliveryFields
<1>. QED BY <1>1 DEF Over

\* Two activations on a stack that has lost its innermost one.
TwoOn(s, f, h) == Append(Append(Front(s), f), h)

LEMMA TwoOnFront ==
  ASSUME NEW s \in Seq(Frame), s # <<>>, NEW f \in Frame, NEW h \in HandlerFrame
  PROVE  /\ Len(s) \in DOMAIN s /\ Last(s) = s[Len(s)]
         /\ \A i \in DOMAIN TwoOn(s, f, h) :
              \/ i \in DOMAIN s /\ TwoOn(s, f, h)[i] = s[i]
              \/ i = Len(s) /\ TwoOn(s, f, h)[i] = f
              \/ TwoOn(s, f, h)[i] = h
         /\ \A t : OwedByStack(t, TwoOn(s, f, h))
                     = OwedByStack(t, Front(s)) \cup OwedByFrame(t, f)
         /\ OpenInStack(TwoOn(s, f, h)) = OpenInStack(Front(s)) \cup OpenByFrame(f)
<1>. PICK s2 : s2 = TwoOn(s, f, h)
  OBVIOUS
<1>. PICK n : n = Len(s)
  OBVIOUS
<1>1. n \in Nat \ {0} /\ DOMAIN s = 1..n
  OBVIOUS
<1>. PICK r : r = Front(s)
  OBVIOUS
<1>2. r \in Seq(Frame) /\ Len(r) = n - 1 /\ \A i \in 1..(n-1) : r[i] = s[i]
  BY LastFront
<1>. PICK q : q = Append(r, f)
  OBVIOUS
<1>3. q \in Seq(Frame) /\ Len(q) = n /\ q[n] = f /\ \A i \in 1..(n-1) : q[i] = r[i]
  BY <1>1, <1>2
<1>4. /\ s2 = Append(q, h) /\ DOMAIN s2 = 1..(n + 1) /\ s2[n + 1] = h
      /\ \A i \in 1..n : s2[i] = q[i]
  BY <1>1, <1>3 DEF TwoOn
<1>5. ASSUME NEW i \in DOMAIN s2
      PROVE  \/ i \in DOMAIN s /\ s2[i] = s[i]
             \/ i = n /\ s2[i] = f
             \/ s2[i] = h
  <2>1. i \in 1..(n - 1) \/ i = n \/ i = n + 1
    BY <1>1, <1>4
  <2>. QED BY SMTT(60), <1>1, <1>2, <1>3, <1>4, <2>1
<1>6. /\ \A t : OwedByStack(t, q) = OwedByStack(t, r) \cup OwedByFrame(t, f)
      /\ OpenInStack(q) = OpenInStack(r) \cup OpenByFrame(f)
  BY ZenonT(60), <1>2, StackAppend
<1>7. /\ \A t : OwedByStack(t, s2) = OwedByStack(t, q) \cup OwedByFrame(t, h)
      /\ OpenInStack(s2) = OpenInStack(q) \cup OpenByFrame(h)
  <2>1. \A t, x :
          /\ OwedByStack(t, Append(q, x)) = OwedByStack(t, q) \cup OwedByFrame(t, x)
          /\ OpenInStack(Append(q, x)) = OpenInStack(q) \cup OpenByFrame(x)
    BY <1>3, StackAppend
  <2>. QED BY <1>4, <2>1
<1>8. (\A t : OwedByFrame(t, h) = {}) /\ OpenByFrame(h) = {}
  BY DEF HandlerFrame, OwedByFrame, OpenByFrame
<1>9. Last(s) = s[n]
  BY DEF Last
<1>. QED BY <1>1, <1>5, <1>6, <1>7, <1>8, <1>9

\* The innermost call makes a delivery of its packet and calls a handler.
LEMMA DirectCallKeepsRest ==
  ASSUME HomeInv, OwingInv, NEW t \in Threads, NEW f \in Frame, NEW h \in HandlerFrame,
         NEW top, top = Last(stack[t]), stack[t] # <<>>, IsCall(top), top.pc # "accumulate",
         stack' = [stack EXCEPT ![t] = TwoOn(@, f, h)],
         UNCHANGED <<callback, queue, pushes>>,
         f.info.id = top.info.id, CallSound(t, f)',
         \A e \in delivered' : e \in delivered \/ e.id = top.info.id
  PROVE  /\ OwingInv'
         /\ Owed = OwedButTop(t) \cup OwedByFrame(t, top)
         /\ Owed' = OwedButTop(t) \cup OwedByFrame(t, f)
         /\ Open = OpenButTop(t) \cup OpenByFrame(top)
         /\ Open' = OpenButTop(t) \cup OpenByFrame(f)
<1>1. \A u \in Threads \ {t} : stack'[u] = stack[u]
  BY DEF HomeInv, StackInv
<1>2. stack[t] \in Seq(Frame) /\ stack'[t] = TwoOn(stack[t], f, h)
  BY DEF HomeInv, StackInv
<1>. PICK n : n = Len(stack[t])
  OBVIOUS
<1>3. /\ n \in DOMAIN stack[t] /\ top = stack[t][n]
      /\ \A i \in DOMAIN stack'[t] :
           \/ i \in DOMAIN stack[t] /\ stack'[t][i] = stack[t][i]
           \/ i = n /\ stack'[t][i] = f
           \/ stack'[t][i] = h
      /\ OwedByStack(t, stack'[t]) = OwedByStack(t, Front(stack[t])) \cup OwedByFrame(t, f)
      /\ OpenInStack(stack'[t]) = OpenInStack(Front(stack[t])) \cup OpenByFrame(f)
  <2>. PICK s : s = stack[t]
    OBVIOUS
  <2>1. s \in Seq(Frame) /\ s # <<>> /\ stack'[t] = TwoOn(s, f, h)
    BY <1>2
  <2>2. Len(s) \in DOMAIN s /\ Last(s) = s[Len(s)]
    BY <2>1, TwoOnFront
  <2>3. \A i \in DOMAIN TwoOn(s, f, h) :
          \/ i \in DOMAIN s /\ TwoOn(s, f, h)[i] = s[i]
          \/ i = Len(s) /\ TwoOn(s, f, h)[i] = f
          \/ TwoOn(s, f, h)[i] = h
    BY <2>1, TwoOnFront
  <2>4. OwedByStack(t, TwoOn(s, f, h)) = OwedByStack(t, Front(s)) \cup OwedByFrame(t, f)
    BY <2>1, TwoOnFront
  <2>5. OpenInStack(TwoOn(s, f, h)) = OpenInStack(Front(s)) \cup OpenByFrame(f)
    BY <2>1, TwoOnFront
  <2>. QED BY <2>1, <2>2, <2>3, <2>4, <2>5
<1>4. OwingInv'
  <2>1. ~ IsCall(h)
    BY DEF HandlerFrame, IsCall
  <2>2. \A e : \A i \in DOMAIN stack'[t] : (e = stack'[t][i] /\ IsCall(e)) =>
          \/ i \in DOMAIN stack[t] /\ e = stack[t][i]
          \/ /\ CallSound(t, e)'
             /\ \/ /\ i \in DOMAIN stack[t]
                   /\ IsCall(stack[t][i])
                   /\ e.info.id = stack[t][i].info.id
                \/ /\ i = Len(stack'[t])
                   /\ e.info.id = pushes + 1
    <3>. SUFFICES ASSUME NEW i \in DOMAIN stack'[t], NEW e, e = stack'[t][i], IsCall(e),
                         ~ (i \in DOMAIN stack[t] /\ e = stack[t][i])
                  PROVE  /\ CallSound(t, e)'
                         /\ i \in DOMAIN stack[t]
                         /\ IsCall(stack[t][i])
                         /\ e.info.id = stack[t][i].info.id
      OBVIOUS
    <3>1. i = n /\ e = f
      BY <1>3, <2>1
    <3>. QED BY <1>3, <3>1
  <2>3. \A e \in delivered' : e \in delivered \/
          \E i \in DOMAIN stack[t] :
            /\ IsCall(stack[t][i])
            /\ stack[t][i].pc # "accumulate"
            /\ e.id = stack[t][i].info.id
    BY <1>3
  <2>4. UNCHANGED <<callback, queue>> /\ pushes' \in {pushes, pushes + 1}
    OBVIOUS
  <2>. QED BY <1>1, <2>2, <2>3, <2>4, ThreadStep
<1>5. /\ OwedByStack(t, stack[t])
           = OwedByStack(t, Front(stack[t])) \cup OwedByFrame(t, top)
      /\ OpenInStack(stack[t]) = OpenInStack(Front(stack[t])) \cup OpenByFrame(top)
  BY <1>2, StackTop
<1>6. UNCHANGED <<callback, queue>>
  OBVIOUS
<1>. QED BY <1>1, <1>3, <1>4, <1>5, <1>6, ThreadOwes DEF OwedButTop, OpenButTop

LEMMA PushEdgeDirectlyServes ==
  ASSUME HomeInv, OwingInv, NEW t \in Threads, PushEdgeDirectly(t)
  PROVE  OwingInv' /\ Serves /\ MakesOne
<1>. PICK top : top = Last(stack[t])
  OBVIOUS
<1>. PICK k : k = top.next
  OBVIOUS
<1>. PICK edge : edge = OutEdges(top.info)[k]
  OBVIOUS
<1>. PICK f : f = [top EXCEPT !.next = @ + 1]
  OBVIOUS
<1>. PICK h : h = HandlerOf(edge.next, top.info.params)
  OBVIOUS
<1>. PICK d : d = DeliveryOf(top.info, k, t)
  OBVIOUS
<1>1. /\ stack[t] # <<>> /\ IsCall(top) /\ top.pc = "edges"
      /\ top \in EdgeFrame /\ CallSound(t, top)
      /\ k <= Len(OutEdges(top.info))
      /\ GoesDirect(t, edge)
      /\ delivered' = delivered \cup {d}
      /\ stack' = [stack EXCEPT ![t] = TwoOn(@, f, h)]
      /\ UNCHANGED <<callback, queue, pushes>>
  BY TopCall DEF PushEdgeDirectly, SendToNode, TwoOn
<1>2. /\ f.pc = "edges" /\ f.info = top.info /\ f.groups = top.groups
      /\ f.next = k + 1 /\ k \in Nat \ {0} /\ f \in Frame
      /\ top.info.node \in Nodes /\ top.info.chan \in Channels
      /\ top.info.params \in Params
  BY <1>1 DEF EdgeFrame, EdgeInfo, Frame
<1>3. /\ k \in DOMAIN OutEdges(top.info)
      /\ DOMAIN OutEdges(top.info) = 1..Len(OutEdges(top.info))
      /\ Len(OutEdges(top.info)) \in Nat
  BY <1>1, <1>2, OutEdgesType
<1>4. h \in HandlerFrame
  <2>1. edge \in Edge
    BY <1>1, <1>2, EdgeType
  <2>. QED BY <1>2, <2>1 DEF HandlerFrame, HandlerOf, Edge
<1>5. d.id = top.info.id /\ d = DeliveryOf(top.info, k, TargetGroup(top.info, k))
  BY <1>1, DeliveryFields DEF GoesDirect, TargetGroup
<1>6. k \notin Aside(t, top.info) /\ k \in ToSee(top.info, k)
  BY SMTT(60), <1>1, <1>2, <1>3 DEF Aside, ToSee
<1>7. CallSound(t, f)'
  <2>1. \A g \in Groups : f.info.id \notin InGroup(g)'
    BY <1>1, <1>2 DEF InGroup, CallSound, Unseen
  <2>2. \A i \in Aside(t, f.info) : i < f.next => i < top.next
    BY SMTT(60), <1>2, <1>3, <1>6 DEF Aside
  <2>. QED BY SMTT(60), <1>1, <1>2, <2>1, <2>2 DEF CallSound, Unseen
<1>8. /\ OwingInv'
      /\ Owed = OwedButTop(t) \cup OwedByFrame(t, top)
      /\ Owed' = OwedButTop(t) \cup OwedByFrame(t, f)
      /\ Open = OpenButTop(t) \cup OpenByFrame(top)
      /\ Open' = OpenButTop(t) \cup OpenByFrame(f)
  <2>1. top.pc # "accumulate" /\ f.info.id = top.info.id
        /\ \A e \in delivered' : e \in delivered \/ e.id = top.info.id
    BY <1>1, <1>2, <1>5
  <2>. QED BY ZenonT(60), <1>1, <1>2, <1>4, <1>7, <2>1, DirectCallKeepsRest
<1>9. OwedByFrame(t, f) = OwedByFrame(t, top) \ {d} /\ d \in OwedByFrame(t, top)
  <2>. PICK I : I = ToSee(top.info, k) \cup Aside(t, top.info)
    OBVIOUS
  <2>1. ToSee(top.info, k + 1) \cup Aside(t, top.info) = I \ {k}
    BY <1>2, <1>3, <1>6 DEF ToSee, Aside
  <2>2. OwedByFrame(t, top) = Over(top.info, I)
    BY <1>1 DEF OwedByFrame
  <2>3. OwedByFrame(t, f) = Over(top.info, I \ {k})
    BY <1>2, <2>1 DEF OwedByFrame
  <2>4. d \in Over(top.info, I)
    BY <1>5, <1>6 DEF Over
  <2>. QED BY <1>5, <2>2, <2>3, <2>4, OverWithout
<1>10. d \notin OwedButTop(t)
  BY <1>1, <1>5, TopCallAlone DEF OwedButTop
<1>11. Owed' = Owed \ {d} /\ d \in Owed
  BY <1>8, <1>9, <1>10
<1>12. Open' = Open
  BY <1>1, <1>2, <1>8 DEF OpenByFrame
<1>13. Promise!Deliver(d)
  BY <1>1, <1>11, <1>12 DEF Promise!Deliver
<1>. QED BY <1>8, <1>11, <1>13 DEF Serves, MakesOne, Promise!Next

\* The groups set aside: the next one, and those after it.
LEMMA GroupsAhead ==
  ASSUME NEW gs \in Seq(Groups), gs # <<>>,
         \A i, j \in DOMAIN gs : gs[i] = gs[j] => i = j
  PROVE  /\ ToSet(gs) = {Head(gs)} \cup ToSet(Tail(gs))
         /\ Head(gs) \notin ToSet(Tail(gs))
         /\ Head(gs) \in Groups /\ ToSet(gs) \subseteq Groups
         /\ Tail(gs) \in Seq(Groups)
         /\ \A i, j \in DOMAIN Tail(gs) : Tail(gs)[i] = Tail(gs)[j] => i = j
<1>r. PICK r : r = Tail(gs)
  OBVIOUS
<1>1. /\ Head(gs) = gs[1] /\ 1 \in DOMAIN gs /\ r \in Seq(Groups)
      /\ \A i \in DOMAIN r : i + 1 \in DOMAIN gs /\ r[i] = gs[i + 1]
      /\ \A i \in DOMAIN gs \ {1} : i - 1 \in DOMAIN r
  BY <1>r, HeadAndTail
<1>2. (\A i \in DOMAIN gs : i \in Int) /\ (\A i \in DOMAIN r : i \in Nat \ {0})
  BY <1>1
<1>3. \A i \in DOMAIN gs \ {1} : gs[i] = r[i - 1]
  BY <1>1, <1>2
<1>4. ToSet(gs) = {gs[1]} \cup ToSet(r)
  <2>1. \A g : g \in ToSet(gs) <=> \E i \in DOMAIN gs : gs[i] = g
    BY DEF ToSet
  <2>2. \A g : g \in ToSet(r) <=> \E i \in DOMAIN r : r[i] = g
    BY DEF ToSet
  <2>3. ToSet(gs) \subseteq {gs[1]} \cup ToSet(r)
    BY <1>1, <1>3, <2>1, <2>2
  <2>4. {gs[1]} \cup ToSet(r) \subseteq ToSet(gs)
    BY <1>1, <2>1, <2>2
  <2>. QED BY <2>3, <2>4
<1>5. gs[1] \notin ToSet(r)
  <2>. SUFFICES ASSUME NEW i \in DOMAIN r, r[i] = gs[1] PROVE FALSE
    BY DEF ToSet
  <2>1. i + 1 = 1
    BY <1>1
  <2>. QED BY <1>2, <2>1
<1>6. \A i, j \in DOMAIN r : r[i] = r[j] => i = j
  <2>. SUFFICES ASSUME NEW i \in DOMAIN r, NEW j \in DOMAIN r, r[i] = r[j] PROVE i = j
    OBVIOUS
  <2>1. i + 1 = j + 1
    BY <1>1
  <2>. QED BY <1>2, <2>1
<1>7. \A i \in DOMAIN gs : gs[i] \in Groups
  BY ElementOfSeq
<1>8. ToSet(gs) \subseteq Groups /\ Head(gs) \in Groups
  BY <1>1, <1>7 DEF ToSet
<1>. QED BY <1>1, <1>4, <1>5, <1>6, <1>8, <1>r

\* A group remembered once.
LEMMA RememberOnce ==
  ASSUME NEW gs \in Seq(Groups), NEW g \in Groups,
         \A i, j \in DOMAIN gs : gs[i] = gs[j] => i = j,
         NEW after,
         after = IF \E i \in DOMAIN gs : gs[i] = g THEN gs ELSE Append(gs, g)
  PROVE  /\ ToSet(after) = ToSet(gs) \cup {g}
         /\ \A i, j \in DOMAIN after : after[i] = after[j] => i = j
<1>1. CASE \E i \in DOMAIN gs : gs[i] = g
  BY <1>1 DEF ToSet
<1>2. CASE \A i \in DOMAIN gs : gs[i] # g
  <2>. PICK n : n = Len(gs)
    OBVIOUS
  <2>1. /\ n \in Nat /\ DOMAIN gs = 1..n /\ DOMAIN after = 1..(n + 1)
        /\ \A i \in 1..n : after[i] = gs[i]
        /\ after[n + 1] = g
    BY <1>2
  <2>2. DOMAIN after = DOMAIN gs \cup {n + 1}
    BY <2>1
  <2>3. ToSet(after) = ToSet(gs) \cup {g}
    BY <2>1, <2>2 DEF ToSet
  <2>4. \A i, j \in DOMAIN after : after[i] = after[j] => i = j
    BY <1>2, <2>1, <2>2
  <2>. QED BY <2>3, <2>4
<1>. QED BY <1>1, <1>2

\* What an activation owes, by where it is.
LEMMA OwedByFrameCases ==
  ASSUME NEW t, NEW f
  PROVE  /\ f.pc = "edges" =>
              OwedByFrame(t, f) = Over(f.info, ToSee(f.info, f.next) \cup Aside(t, f.info))
         /\ f.pc \in {"enqueue", "signal"} /\ f.info.chan = Manual =>
              OwedByFrame(t, f) = IF Ahead(f) = {} THEN {} ELSE {ManualOf(f.info)}
         /\ f.pc \in {"enqueue", "signal"} /\ f.info.chan # Manual =>
              OwedByFrame(t, f) =
                Over(f.info, {i \in Aside(t, f.info) : TargetGroup(f.info, i) \in Ahead(f)})
<1>1. CASE f.pc = "edges"
  BY <1>1 DEF OwedByFrame
<1>2. CASE f.pc \in {"enqueue", "signal"} /\ f.info.chan = Manual
  BY <1>2 DEF OwedByFrame
<1>3. CASE f.pc \in {"enqueue", "signal"} /\ f.info.chan # Manual
  BY <1>3 DEF OwedByFrame
<1>. QED BY <1>1, <1>2, <1>3

LEMMA PushEdgeAsideServes ==
  ASSUME HomeInv, OwingInv, NEW t \in Threads, PushEdgeAside(t)
  PROVE  OwingInv' /\ Serves
<1>. PICK top : top = Last(stack[t])
  OBVIOUS
<1>. PICK k : k = top.next
  OBVIOUS
<1>. PICK g : g = GroupOf[OutEdges(top.info)[k].next]
  OBVIOUS
<1>gs. PICK gs : gs = IF \E i \in DOMAIN top.groups : top.groups[i] = g
                       THEN top.groups ELSE Append(top.groups, g)
  OBVIOUS
<1>f. PICK f : f = [top EXCEPT !.next = @ + 1, !.groups = gs]
  OBVIOUS
<1>1. /\ stack[t] # <<>> /\ IsCall(top) /\ top.pc = "edges"
      /\ top \in EdgeFrame /\ CallSound(t, top)
  BY TopCall DEF PushEdgeAside
<1>2. /\ k <= Len(OutEdges(top.info))
      /\ ~ GoesDirect(t, OutEdges(top.info)[k])
      /\ SetTop(t, f)
      /\ UNCHANGED <<callback, queue, pushes, delivered>>
  BY <1>gs, <1>f DEF PushEdgeAside
<1>3. /\ f.pc = "edges" /\ f.info = top.info /\ f.groups = gs
      /\ f.next = k + 1 /\ k \in Nat \ {0} /\ top.groups \in Seq(Groups)
      /\ top.info.node \in Nodes /\ top.info.chan \in Channels
  BY <1>1, <1>f DEF EdgeFrame, EdgeInfo
<1>4. /\ k \in DOMAIN OutEdges(top.info)
      /\ DOMAIN OutEdges(top.info) = 1..Len(OutEdges(top.info))
      /\ Len(OutEdges(top.info)) \in Nat
  BY <1>2, <1>3, OutEdgesType
<1>5. k \in Aside(t, top.info) /\ k \in ToSee(top.info, k)
      /\ g = TargetGroup(top.info, k) /\ g \in Groups
  BY <1>2, <1>3, <1>4, TargetInGroups DEF Aside, ToSee, TargetGroup
<1>6. /\ ToSet(gs) = ToSet(top.groups) \cup {g}
      /\ \A i, j \in DOMAIN gs : gs[i] = gs[j] => i = j
  BY <1>1, <1>3, <1>5, <1>gs, RememberOnce DEF CallSound
<1>7. CallSound(t, f)'
  <2>1. \A h \in Groups : f.info.id \notin InGroup(h)'
    BY <1>1, <1>2, <1>3 DEF InGroup, CallSound, Unseen
  <2>2. ASSUME NEW i \in Aside(t, f.info), i < f.next
        PROVE  TargetGroup(f.info, i) \in ToSet(f.groups)
    <3>1. i < k \/ i = k
      BY <1>3, <1>4, <2>2 DEF Aside
    <3>. QED BY <1>1, <1>3, <1>5, <1>6, <2>2, <3>1 DEF CallSound
  <2>. QED BY <1>1, <1>2, <1>3, <1>6, <2>1, <2>2 DEF CallSound, Unseen
<1>8. OwedByFrame(t, f) = OwedByFrame(t, top)
  <2>1. ToSee(top.info, k + 1) \cup Aside(t, top.info)
          = ToSee(top.info, k) \cup Aside(t, top.info)
    BY <1>3, <1>4, <1>5 DEF ToSee, Aside
  <2>. QED BY ZenonT(60), <1>1, <1>3, <2>1, OwedByFrameCases
<1>. QED BY <1>1, <1>2, <1>3, <1>7, <1>8, SetTopServes

LEMMA EndEdgesServes ==
  ASSUME HomeInv, OwingInv, NEW t \in Threads, EndEdges(t)
  PROVE  OwingInv' /\ Serves
<1>. PICK top : top = Last(stack[t])
  OBVIOUS
<1>f. PICK f : f = [top EXCEPT !.pc = "enqueue"]
  OBVIOUS
<1>1. /\ stack[t] # <<>> /\ IsCall(top) /\ top.pc = "edges"
      /\ top \in EdgeFrame /\ CallSound(t, top)
  BY TopCall DEF EndEdges
<1>2. /\ top.next > Len(OutEdges(top.info))
      /\ IF top.groups = <<>> THEN Return(t) ELSE SetTop(t, f)
      /\ UNCHANGED <<callback, queue, pushes, delivered>>
  BY <1>f DEF EndEdges
<1>3. /\ f.pc = "enqueue" /\ f.info = top.info /\ f.groups = top.groups
      /\ top.next \in Nat /\ top.groups \in Seq(Groups)
      /\ top.info.node \in Nodes /\ top.info.chan \in Channels
      /\ top.info.chan # Manual
  BY <1>1, <1>f, GraphAssumption DEF EdgeFrame, EdgeInfo
<1>4. /\ DOMAIN OutEdges(top.info) = 1..Len(OutEdges(top.info))
      /\ Len(OutEdges(top.info)) \in Nat
  BY <1>3, OutEdgesType
<1>5. \A i \in Aside(t, top.info) : TargetGroup(top.info, i) \in ToSet(top.groups)
  <2>1. \A i \in Aside(t, top.info) : i < top.next
    BY <1>2, <1>3, <1>4 DEF Aside
  <2>. QED BY <1>1, <2>1 DEF CallSound
<1>6. OwedByFrame(t, top) = Over(top.info, Aside(t, top.info))
  <2>1. ToSee(top.info, top.next) = {}
    BY <1>2, <1>3, <1>4 DEF ToSee
  <2>2. OwedByFrame(t, top)
          = Over(top.info, ToSee(top.info, top.next) \cup Aside(t, top.info))
    BY <1>1 DEF OwedByFrame
  <2>. QED BY <2>1, <2>2
<1>7. CASE top.groups = <<>>
  <2>1. ToSet(top.groups) = {}
    BY <1>7 DEF ToSet
  <2>2. OwedByFrame(t, top) = {}
    BY <1>5, <1>6, <2>1 DEF Over
  <2>. QED BY <1>1, <1>2, <1>7, <2>2, ReturnServes
<1>8. CASE top.groups # <<>>
  <2>1. Ahead(f) = ToSet(top.groups)
    BY <1>3 DEF Ahead
  <2>2. OwedByFrame(t, f) = OwedByFrame(t, top)
    <3>1. {i \in Aside(t, top.info) : TargetGroup(top.info, i) \in Ahead(f)}
            = Aside(t, top.info)
      BY <1>5, <2>1
    <3>2. OwedByFrame(t, f) =
            Over(f.info, {i \in Aside(t, f.info) : TargetGroup(f.info, i) \in Ahead(f)})
      BY <1>3, OwedByFrameCases
    <3>. QED BY <1>3, <1>6, <3>1, <3>2
  <2>3. CallSound(t, f)'
    <3>1. ToSet(top.groups) \subseteq Groups
      BY <1>3, ElementOfSeq DEF ToSet
    <3>2. \A h \in Groups : f.info.id \notin InGroup(h)'
      BY <1>1, <1>2, <1>3 DEF InGroup, CallSound, Unseen
    <3>. QED BY <1>1, <1>2, <1>3, <2>1, <3>1, <3>2 DEF CallSound, Unseen
  <2>. QED BY <1>1, <1>2, <1>3, <1>8, <2>2, <2>3, SetTopServes
<1>. QED BY <1>7, <1>8

LEMMA SignalServes ==
  ASSUME HomeInv, OwingInv, NEW t \in Threads, Signal(t)
  PROVE  OwingInv' /\ Serves
<1>. PICK top : top = Last(stack[t])
  OBVIOUS
<1>f. PICK f : f = [top EXCEPT !.pc = "enqueue", !.groups = Tail(@)]
  OBVIOUS
<1>1. /\ stack[t] # <<>> /\ IsCall(top) /\ top.pc = "signal"
      /\ top \in QueueFrame /\ CallSound(t, top)
  BY TopCall DEF Signal
<1>2. /\ IF Tail(top.groups) = <<>> THEN Return(t) ELSE SetTop(t, f)
      /\ UNCHANGED <<callback, queue, pushes, delivered>>
  BY <1>f DEF Signal
<1>3. /\ f.pc = "enqueue" /\ f.info = top.info /\ f.groups = Tail(top.groups)
      /\ top.groups \in Seq(Groups) /\ top.groups # <<>>
  BY <1>1, <1>f DEF QueueFrame
<1>4. Ahead(top) = ToSet(Tail(top.groups)) /\ Ahead(f) = ToSet(Tail(top.groups))
  BY <1>1, <1>3 DEF Ahead
<1>5. CASE Tail(top.groups) = <<>>
  <2>1. Ahead(top) = {}
    BY <1>4, <1>5 DEF ToSet
  <2>2. OwedByFrame(t, top) = {}
    BY <1>1, <2>1 DEF OwedByFrame, Over
  <2>. QED BY <1>1, <1>2, <1>5, <2>2, ReturnServes
<1>6. CASE Tail(top.groups) # <<>>
  <2>1. OwedByFrame(t, f) = OwedByFrame(t, top)
    BY ZenonT(60), <1>1, <1>3, <1>4, OwedByFrameCases
  <2>2. CallSound(t, f)'
    <3>1. \A g \in Unseen(f) : f.info.id \notin InGroup(g)'
      BY <1>1, <1>2, <1>3, <1>4 DEF InGroup, CallSound, Unseen
    <3>2. \A i, j \in DOMAIN f.groups : f.groups[i] = f.groups[j] => i = j
      <4>1. \A i, j \in DOMAIN top.groups : top.groups[i] = top.groups[j] => i = j
        BY <1>1 DEF CallSound
      <4>2. PICK gs : gs = top.groups
        OBVIOUS
      <4>3. \A i, j \in DOMAIN Tail(gs) : Tail(gs)[i] = Tail(gs)[j] => i = j
        BY SMTT(60), <1>3, <4>1, <4>2, GroupsAhead
      <4>. QED BY <1>3, <4>2, <4>3
    <3>. QED BY <1>1, <1>2, <1>3, <3>1, <3>2 DEF CallSound
  <2>. QED BY <1>1, <1>2, <1>3, <1>6, <2>1, <2>2, SetTopServes
<1>. QED BY <1>5, <1>6

\* What a queue owes when a packet joins it.
LEMMA QueueAppend ==
  ASSUME NEW g, NEW s \in Seq(Info), NEW info
  PROVE  /\ OwedByQueue(g, Append(s, info))
              = OwedByQueue(g, s) \cup OwedByPacket(g, info, 1)
         /\ IdsOf(Append(s, info)) = IdsOf(s) \cup {info.id}
         /\ Once(s) /\ info.id \notin IdsOf(s) => Once(Append(s, info))
<1>r. PICK r : r = Append(s, info)
  OBVIOUS
<1>n. PICK n : n = Len(s)
  OBVIOUS
<1>1. /\ n \in Nat /\ DOMAIN s = 1..n /\ DOMAIN r = 1..(n + 1)
      /\ \A i \in DOMAIN s : r[i] = s[i]
      /\ r[n + 1] = info
  BY <1>r, <1>n
<1>2. DOMAIN r = DOMAIN s \cup {n + 1}
  BY <1>1
<1>3. OwedByQueue(g, r) = OwedByQueue(g, s) \cup OwedByPacket(g, info, 1)
  BY <1>1, <1>2 DEF OwedByQueue
<1>4. IdsOf(r) = IdsOf(s) \cup {info.id}
  BY <1>1, <1>2 DEF IdsOf
<1>5. Once(s) /\ info.id \notin IdsOf(s) => Once(r)
  BY <1>1, <1>2 DEF Once, IdsOf
<1>. QED BY <1>3, <1>4, <1>5, <1>r

\* A packet that joins one thread's part of a group's queue.
LEMMA GroupsOnceEnqueue ==
  ASSUME OwingInv, NEW t \in Threads, NEW h \in Groups, NEW id \in 1..pushes,
         id \notin InGroup(h),
         IdsOf(queue'[h][t]) = IdsOf(queue[h][t]) \cup {id},
         Once(queue[h][t]) /\ id \notin IdsOf(queue[h][t]) => Once(queue'[h][t]),
         \A g \in Groups, u \in Threads :
           ~ (g = h /\ u = t) => queue'[g][u] = queue[g][u],
         UNCHANGED <<callback, pushes>>
  PROVE  /\ GroupsOnce'
         /\ \A g \in Groups : InGroup(g)' = InGroup(g) \cup (IF g = h THEN {id} ELSE {})
<1>2. \A u \in Threads : IdsOf(queue'[h][u]) =
                           IdsOf(queue[h][u]) \cup (IF u = t THEN {id} ELSE {})
  OBVIOUS
<1>3. id \notin IdsOf(callback[h].batch)
      /\ \A u \in Threads : id \notin IdsOf(queue[h][u])
  BY DEF InGroup
<1>4. ASSUME NEW g \in Groups
      PROVE  InGroup(g)' = InGroup(g) \cup (IF g = h THEN {id} ELSE {})
  <2>1. CASE g # h
    BY <2>1 DEF InGroup
  <2>2. CASE g = h
    <3>1. \A x : x \in InGroup(h)' <=>
            \/ x \in IdsOf(callback[h].batch)
            \/ \E u \in Threads : x \in IdsOf(queue'[h][u])
      BY DEF InGroup
    <3>2. \A x : x \in InGroup(h) <=>
            \/ x \in IdsOf(callback[h].batch)
            \/ \E u \in Threads : x \in IdsOf(queue[h][u])
      BY DEF InGroup
    <3>3. \A x : x \in InGroup(h)' <=> x \in InGroup(h) \cup {id}
      BY <1>2, <3>1, <3>2
    <3>. QED BY <2>2, <3>3
  <2>. QED BY <2>1, <2>2
<1>5. ASSUME NEW g \in Groups
      PROVE  GroupOnce(g)'
  <2>1. GroupOnce(g)
    BY DEF OwingInv, GroupsOnce
  <2>2. CASE g # h
    BY <2>1, <2>2 DEF GroupOnce
  <2>3. CASE g = h
    <3>1. Once(callback'[h].batch)
      BY <2>1, <2>3 DEF GroupOnce
    <3>2. \A u \in Threads : Once(queue'[h][u])
      BY <1>3, <2>1, <2>3 DEF GroupOnce
    <3>3. \A u \in Threads : IdsOf(queue'[h][u]) \cap IdsOf(callback'[h].batch) = {}
      BY <1>2, <1>3, <2>1, <2>3 DEF GroupOnce
    <3>4. \A u \in Threads : \A v \in Threads \ {u} :
            IdsOf(queue'[h][u]) \cap IdsOf(queue'[h][v]) = {}
      BY <1>2, <1>3, <2>1, <2>3 DEF GroupOnce
    <3>. QED BY <2>3, <3>1, <3>2, <3>3, <3>4 DEF GroupOnce
  <2>. QED BY <2>2, <2>3
<1>6. GroupsOnce'
  BY <1>4, <1>5 DEF GroupsOnce, OwingInv
<1>. QED BY <1>4, <1>6

\* Of what a call has set aside, the packet now in its thread's part of the
\* queue of h owes what concerns h, and the call what concerns the others.
LEMMA EnqueueSplits ==
  ASSUME NEW t \in Threads, NEW top \in QueueFrame, NEW f, NEW h,
         top \in HomeFrame(t), CallSound(t, top), top.pc = "enqueue",
         h = Head(top.groups),
         f.pc = "signal", f.info = top.info, f.groups = top.groups
  PROVE  /\ OwedByFrame(t, top) = OwedByFrame(t, f) \cup OwedByPacket(h, top.info, 1)
         /\ Ahead(top) = {h} \cup Ahead(f) /\ h \notin Ahead(f)
         /\ h \in Groups /\ Ahead(f) \subseteq Groups
<1>1. /\ f.pc = "signal" /\ f.info = top.info /\ f.groups = top.groups
      /\ top.groups \in Seq(Groups) /\ top.groups # <<>> /\ top.info \in Info
  BY DEF QueueFrame
<1>2. PICK gs : gs = top.groups
  OBVIOUS
<1>3. \A i, j \in DOMAIN gs : gs[i] = gs[j] => i = j
  BY <1>2 DEF CallSound
<1>4. /\ ToSet(gs) = {Head(gs)} \cup ToSet(Tail(gs))
      /\ Head(gs) \notin ToSet(Tail(gs))
      /\ Head(gs) \in Groups /\ ToSet(gs) \subseteq Groups
  BY <1>1, <1>2, <1>3, GroupsAhead
<1>5. Ahead(top) = ToSet(gs) /\ Ahead(f) = ToSet(Tail(gs)) /\ h = Head(gs)
  BY <1>1, <1>2 DEF Ahead
<1>6. /\ Ahead(top) = {h} \cup Ahead(f) /\ h \notin Ahead(f)
      /\ h \in Groups /\ Ahead(f) \subseteq Groups
  BY <1>4, <1>5
<1>7. CASE top.info.chan = Manual
  <2>1. \A j \in DOMAIN gs : gs[j] = GroupOf[top.info.node]
    BY <1>2, <1>7 DEF HomeFrame
  <2>2. \A g \in Ahead(top) : g = GroupOf[top.info.node]
    BY <1>5, <2>1 DEF ToSet
  <2>3. Ahead(f) = {}
    BY <1>6, <2>2
  <2>4. OwedByFrame(t, top) = {ManualOf(top.info)} /\ OwedByFrame(t, f) = {}
    BY <1>1, <1>6, <1>7, <2>3, OwedByFrameCases
  <2>5. OwedByPacket(h, top.info, 1) = {ManualOf(top.info)}
    BY <1>7 DEF OwedByPacket
  <2>. QED BY <1>6, <2>4, <2>5
<1>8. CASE top.info.chan # Manual
  <2>1. top.info.node \in Nodes /\ top.info.chan \in Channels
    BY <1>1, <1>8 DEF Info
  <2>2. /\ OutEdges(top.info) \in Seq(Edge)
        /\ DOMAIN OutEdges(top.info) = 1..Len(OutEdges(top.info))
        /\ Len(OutEdges(top.info)) \in Nat
    BY <2>1, OutEdgesType
  <2>3. ToSee(top.info, 1) = DOMAIN OutEdges(top.info)
    BY <2>2 DEF ToSee
  <2>4. ASSUME NEW i \in DOMAIN OutEdges(top.info)
        PROVE  DueFromQueue(h, t, OutEdges(top.info)[i])
                 <=> i \in Aside(t, top.info) /\ TargetGroup(top.info, i) = h
    <3>0. OutEdges(top.info)[i] \in Edge
      BY <2>2, ElementOfSeq
    <3>1. OutEdges(top.info)[i].delivery \in {"PushDirectlyToTarget", "AlwaysQueue"}
      BY <3>0 DEF Edge, Delivery
    <3>. QED BY <3>1 DEF DueFromQueue, Aside, GoesDirect, TargetGroup
  <2>5. top.info.by = t
    BY DEF CallSound
  <2>6. PICK A : A = {i \in Aside(t, top.info) : TargetGroup(top.info, i) \in Ahead(top)}
    OBVIOUS
  <2>7. PICK B : B = {i \in Aside(t, top.info) : TargetGroup(top.info, i) \in Ahead(f)}
    OBVIOUS
  <2>8. PICK C : C = {i \in ToSee(top.info, 1) :
                        DueFromQueue(h, top.info.by, OutEdges(top.info)[i])}
    OBVIOUS
  <2>9. C = {i \in Aside(t, top.info) : TargetGroup(top.info, i) = h}
    BY <2>3, <2>4, <2>5, <2>8 DEF Aside
  <2>10. A = B \cup C
    BY <1>6, <2>6, <2>7, <2>9
  <2>11. OwedByFrame(t, top) = Over(top.info, A)
    BY <1>8, <2>6, OwedByFrameCases
  <2>12. OwedByFrame(t, f) = Over(top.info, B)
    <3>0. f.pc \in {"enqueue", "signal"} /\ f.info.chan # Manual
      BY <1>1, <1>8
    <3>1. OwedByFrame(t, f) =
            Over(f.info, {i \in Aside(t, f.info) : TargetGroup(f.info, i) \in Ahead(f)})
      BY <3>0, OwedByFrameCases
    <3>. QED BY <1>1, <2>7, <3>1
  <2>13. OwedByPacket(h, top.info, 1) = Over(top.info, C)
    BY <1>8, <2>8 DEF OwedByPacket
  <2>14. Over(top.info, A) = Over(top.info, B) \cup Over(top.info, C)
    BY <2>10 DEF Over
  <2>. QED BY <1>6, <2>11, <2>12, <2>13, <2>14
<1>. QED BY <1>7, <1>8

\* The groups a call must not have reached yet are groups.
LEMMA UnseenInGroups ==
  ASSUME HomeInv, NEW t \in Threads, NEW i \in DOMAIN stack[t], IsCall(stack[t][i]),
         CallSound(t, stack[t][i])
  PROVE  Unseen(stack[t][i]) \subseteq Groups
<1>. PICK f : f = stack[t][i]
  OBVIOUS
<1>1. f \in EdgeFrame \cup QueueFrame
  BY CallInfo
<1>2. CASE f.pc \in {"accumulate", "edges"}
  BY <1>2 DEF Unseen
<1>3. CASE f.pc \notin {"accumulate", "edges"}
  <2>1. PICK gs : gs = f.groups
    OBVIOUS
  <2>2. gs \in Seq(Groups) /\ gs # <<>>
    BY <1>1, <1>3, <2>1 DEF EdgeFrame, QueueFrame
  <2>3. \A j, k \in DOMAIN gs : gs[j] = gs[k] => j = k
    BY <2>1 DEF CallSound
  <2>4. ToSet(gs) \subseteq Groups /\ ToSet(Tail(gs)) \subseteq ToSet(gs)
    BY <2>2, <2>3, GroupsAhead
  <2>. QED BY <1>3, <2>1, <2>4 DEF Unseen, Ahead
<1>. QED BY <1>2, <1>3

LEMMA EnqueueServes ==
  ASSUME HomeInv, OwingInv, NEW t \in Threads, Enqueue(t)
  PROVE  OwingInv' /\ Serves
<1>. PICK top : top = Last(stack[t])
  OBVIOUS
<1>. PICK h : h = Head(top.groups)
  OBVIOUS
<1>f. PICK f : f = [top EXCEPT !.pc = "signal"]
  OBVIOUS
<1>n. PICK n : n = Len(stack[t])
  OBVIOUS
<1>1. /\ stack[t] # <<>> /\ IsCall(top) /\ top.pc = "enqueue"
      /\ top \in QueueFrame /\ top \in HomeFrame(t) /\ CallSound(t, top)
  BY TopCall DEF Enqueue
<1>2. /\ queue' = [queue EXCEPT ![h][t] = Append(@, top.info)]
      /\ SetTop(t, f)
      /\ UNCHANGED <<callback, pushes, delivered>>
  BY <1>f DEF Enqueue
<1>3. /\ f.pc = "signal" /\ f.info = top.info /\ f.groups = top.groups
      /\ top.info \in Info
  BY <1>1, <1>f DEF QueueFrame
<1>4. /\ OwedByFrame(t, top) = OwedByFrame(t, f) \cup OwedByPacket(h, top.info, 1)
      /\ Ahead(top) = {h} \cup Ahead(f) /\ h \notin Ahead(f)
      /\ h \in Groups /\ Ahead(f) \subseteq Groups
  BY <1>1, <1>3, EnqueueSplits
<1>5. top.info.id \in 1..pushes /\ top.info.id \notin InGroup(h)
  BY SMTT(60), <1>1, <1>4 DEF CallSound, Unseen
<1>q. /\ IdsOf(queue'[h][t]) = IdsOf(queue[h][t]) \cup {top.info.id}
      /\ Once(queue[h][t]) /\ top.info.id \notin IdsOf(queue[h][t]) => Once(queue'[h][t])
      /\ OwedByQueue(h, queue'[h][t])
           = OwedByQueue(h, queue[h][t]) \cup OwedByPacket(h, top.info, 1)
      /\ \A g \in Groups, u \in Threads :
           ~ (g = h /\ u = t) => queue'[g][u] = queue[g][u]
  <2>1. /\ queue'[h][t] = Append(queue[h][t], top.info)
        /\ queue[h][t] \in Seq(Info)
        /\ \A g \in Groups, u \in Threads :
             ~ (g = h /\ u = t) => queue'[g][u] = queue[g][u]
    BY <1>2, <1>4 DEF HomeInv, QueueInv
  <2>2. PICK s : s = queue[h][t]
    OBVIOUS
  <2>3. /\ OwedByQueue(h, Append(s, top.info))
             = OwedByQueue(h, s) \cup OwedByPacket(h, top.info, 1)
        /\ IdsOf(Append(s, top.info)) = IdsOf(s) \cup {top.info.id}
        /\ Once(s) /\ top.info.id \notin IdsOf(s) => Once(Append(s, top.info))
    <3>1. PICK info : info = top.info
      BY SMTT(60)
    <3>2. s \in Seq(Info)
      BY <2>1, <2>2
    <3>3. info \in Info
      BY <1>3, <3>1
    <3>4. OwedByQueue(h, Append(s, info)) = OwedByQueue(h, s) \cup OwedByPacket(h, info, 1)
      BY <3>2, <3>3, QueueAppend
    <3>5. IdsOf(Append(s, info)) = IdsOf(s) \cup {info.id}
      BY <3>2, <3>3, QueueAppend
    <3>6. Once(s) /\ info.id \notin IdsOf(s) => Once(Append(s, info))
      BY <3>2, <3>3, QueueAppend
    <3>. QED BY <3>1, <3>4, <3>5, <3>6
  <2>. QED BY ZenonT(60), <2>1, <2>2, <2>3
<1>6. /\ GroupsOnce'
      /\ \A g \in Groups :
           InGroup(g)' = InGroup(g) \cup (IF g = h THEN {top.info.id} ELSE {})
  <2>1. UNCHANGED <<callback, pushes>>
    BY <1>2
  <2>. QED BY <1>4, <1>5, <1>q, <2>1, GroupsOnceEnqueue
<1>7. \A u \in Threads \ {t} : stack'[u] = stack[u]
  BY <1>2, OthersKeepStack
<1>8. /\ stack'[t] = Append(Front(stack[t]), f)
      /\ Front(stack[t]) \in Seq(Frame)
      /\ DOMAIN stack'[t] = DOMAIN stack[t]
      /\ n \in DOMAIN stack[t]
      /\ top = stack[t][n]
      /\ \A i \in DOMAIN stack[t] \ {n} : stack'[t][i] = stack[t][i]
      /\ stack'[t][n] = f
  BY <1>1, <1>2, <1>n, SetTopShape
<1>9. CallSound(t, f)'
  <2>1. \A g \in Unseen(f) : f.info.id \notin InGroup(g)'
    BY <1>1, <1>3, <1>4, <1>6 DEF CallSound, Unseen
  <2>. QED BY <1>1, <1>2, <1>3, <2>1 DEF CallSound
<1>10. CallsDistinct'
  <2>1. \A i \in DOMAIN stack'[t] : IsCall(stack'[t][i]) =>
          /\ i \in DOMAIN stack[t]
          /\ IsCall(stack[t][i])
          /\ stack'[t][i].info.id = stack[t][i].info.id
    BY <1>1, <1>3, <1>8
  <2>. QED BY <1>7, <2>1, DistinctKept
<1>11. CallsSound'
  <2>. SUFFICES ASSUME NEW u \in Threads, NEW i \in DOMAIN stack'[u],
                       NEW e, e = stack'[u][i], IsCall(e)
                PROVE  CallSound(u, e)'
    BY DEF CallsSound
  <2>1. CASE u = t /\ i = n
    BY <1>8, <1>9, <2>1
  <2>2. CASE ~ (u = t /\ i = n)
    <3>1. i \in DOMAIN stack[u] /\ e = stack[u][i]
      BY <1>7, <1>8, <2>2
    <3>2. CallSound(u, e)
      BY <3>1 DEF OwingInv, CallsSound
    <3>3. e.info.id # top.info.id
      BY <1>1, <1>8, <2>2, <3>1 DEF OwingInv, CallsDistinct
    <3>4. Unseen(e) \subseteq Groups
      BY <3>1, <3>2, UnseenInGroups
    <3>5. \A g \in Unseen(e) : e.info.id \in InGroup(g)' => e.info.id \in InGroup(g)
      BY <1>6, <3>3, <3>4
    <3>6. pushes \in Nat /\ pushes' \in {pushes, pushes + 1}
      BY <1>2 DEF HomeInv, ScalarInv
    <3>7. \A d \in delivered' : d.id = e.info.id /\ e.pc = "accumulate" => d \in delivered
      BY <1>2
    <3>. QED BY <3>2, <3>5, <3>6, <3>7, CallKept
  <2>. QED BY <2>1, <2>2
<1>12. OwingInv'
  <2>1. BatchInv'
    BY <1>2 DEF OwingInv, BatchInv
  <2>2. DeliveredKnown'
    BY <1>2 DEF OwingInv, DeliveredKnown
  <2>. QED BY <1>6, <1>10, <1>11, <2>1, <2>2 DEF OwingInv
<1>13. /\ OwedByStack(t, stack[t])
            = OwedByStack(t, Front(stack[t])) \cup OwedByFrame(t, top)
       /\ OpenInStack(stack[t]) = OpenInStack(Front(stack[t])) \cup OpenByFrame(top)
  <2>1. stack[t] \in Seq(Frame)
    BY DEF HomeInv, StackInv
  <2>. QED BY <1>1, <2>1, StackTop
<1>14. /\ OwedByStack(t, stack'[t])
            = OwedByStack(t, Front(stack[t])) \cup OwedByFrame(t, f)
       /\ OpenInStack(stack'[t]) = OpenInStack(Front(stack[t])) \cup OpenByFrame(f)
  <2>1. PICK r : r = Front(stack[t])
    OBVIOUS
  <2>2. r \in Seq(Frame) /\ stack'[t] = Append(r, f)
    BY <1>8, <2>1
  <2>3. /\ OwedByStack(t, Append(r, f)) = OwedByStack(t, r) \cup OwedByFrame(t, f)
        /\ OpenInStack(Append(r, f)) = OpenInStack(r) \cup OpenByFrame(f)
    BY <2>2, StackAppend
  <2>. QED BY <2>1, <2>2, <2>3
<1>16. Owed' = Owed
  <2>1. ASSUME NEW d \in Owed PROVE d \in Owed'
    <3>1. CASE d \in OwedByPacket(h, top.info, 1)
      BY <1>4, <1>q, <3>1, OwedMembers
    <3>2. ASSUME NEW u \in Threads, d \in OwedByStack(u, stack[u]) PROVE d \in Owed'
      BY <1>4, <1>7, <1>13, <1>14, <3>1, <3>2, OwedMembers
    <3>3. ASSUME NEW g \in Groups, NEW u \in Threads, d \in OwedByQueue(g, queue[g][u])
          PROVE  d \in Owed'
      BY SMTT(60), <1>q, <3>3, OwedMembers
    <3>4. ASSUME NEW g \in Groups,
                 d \in OwedByBatch(g, callback[g].batch, callback[g].next)
          PROVE  d \in Owed'
      BY <1>2, <3>4, OwedMembers
    <3>. QED BY <3>2, <3>3, <3>4, OwedMembers
  <2>2. ASSUME NEW d \in Owed' PROVE d \in Owed
    <3>1. ASSUME NEW u \in Threads, d \in OwedByStack(u, stack'[u]) PROVE d \in Owed
      BY <1>4, <1>7, <1>13, <1>14, <3>1, OwedMembers
    <3>2. ASSUME NEW g \in Groups, NEW u \in Threads, d \in OwedByQueue(g, queue'[g][u])
          PROVE  d \in Owed
      BY SMTT(60), <1>4, <1>13, <1>q, <3>2, OwedMembers
    <3>3. ASSUME NEW g \in Groups,
                 d \in OwedByBatch(g, callback'[g].batch, callback'[g].next)
          PROVE  d \in Owed
      BY <1>2, <3>3, OwedMembers
    <3>. QED BY <3>1, <3>2, <3>3, OwedMembers
  <2>. QED BY <2>1, <2>2
<1>17. Open' = Open
  <2>1. OpenByFrame(f) = OpenByFrame(top)
    BY <1>1, <1>3 DEF OpenByFrame
  <2>2. \A u \in Threads : OpenInStack(stack'[u]) = OpenInStack(stack[u])
    BY <1>7, <1>13, <1>14, <2>1
  <2>. QED BY <2>2, OwedMembers
<1>. QED BY <1>2, <1>12, <1>16, <1>17 DEF Serves

-----------------------------------------------------------------------------
\* Packets on their way from the queues of a group into its batch.

\* The packets of whole are those of first and those of rest.
Parts(g, whole, first, rest) ==
  /\ OwedByQueue(g, whole) = OwedByQueue(g, first) \cup OwedByQueue(g, rest)
  /\ IdsOf(whole) = IdsOf(first) \cup IdsOf(rest)

\* Each call is in one of the two, once.
OnceInEither(first, rest) ==
  Once(first) /\ Once(rest) /\ IdsOf(first) \cap IdsOf(rest) = {}

\* A queue cut in two.
LEMMA QueueCut ==
  ASSUME NEW g, NEW s \in Seq(Info), NEW m \in 0..Len(s)
  PROVE  /\ SubSeq(s, 1, m) \in Seq(Info) /\ SubSeq(s, m + 1, Len(s)) \in Seq(Info)
         /\ Parts(g, s, SubSeq(s, 1, m), SubSeq(s, m + 1, Len(s)))
         /\ Once(s) => OnceInEither(SubSeq(s, 1, m), SubSeq(s, m + 1, Len(s)))
<1>a. PICK a : a = SubSeq(s, 1, m)
  OBVIOUS
<1>b. PICK b : b = SubSeq(s, m + 1, Len(s))
  OBVIOUS
<1>n. PICK n : n = Len(s)
  OBVIOUS
<1>1. /\ n \in Nat /\ m \in Nat /\ m <= n /\ DOMAIN s = 1..n
      /\ \A i \in 1..n : s[i] \in Info
  BY <1>n
<1>2. /\ a \in Seq(Info) /\ DOMAIN a = 1..m
      /\ \A i \in 1..m : a[i] = s[i]
  <2>1. /\ SubSeq(s, 1, m) \in Seq(Info)
        /\ Len(SubSeq(s, 1, m)) = IF 1 <= m THEN m-1+1 ELSE 0
        /\ \A i \in 1..m-1+1 : SubSeq(s, 1, m)[i] = s[1+i-1]
    <3>1. 1 \in Int /\ m \in Int /\ \A i \in 1..m : s[i] \in Info
      BY <1>1
    <3>. QED BY <3>1, SubSeqProperties
  <2>2. a \in Seq(Info)
    BY <1>a, <2>1
  <2>3. Len(a) = IF 1 <= m THEN m-1+1 ELSE 0
    BY <1>a, <2>1
  <2>4. Len(a) = m
    BY <1>1, <2>3
  <2>5. DOMAIN a = 1..m
    BY <2>2, <2>4
  <2>6. ASSUME NEW i \in 1..m PROVE a[i] = s[i]
    <3>1. i \in 1..m-1+1 /\ 1+i-1 = i
      BY <1>1
    <3>. QED BY <1>a, <2>1, <3>1
  <2>. QED BY <2>2, <2>5, <2>6
<1>3. /\ b \in Seq(Info) /\ DOMAIN b = 1..(n - m)
      /\ \A i \in 1..(n - m) : b[i] = s[i + m]
  <2>1. PICK k : k = m + 1
    OBVIOUS
  <2>2. k \in Int /\ n \in Int /\ \A i \in k..n : s[i] \in Info
    BY <1>1, <2>1
  <2>3. /\ SubSeq(s, k, n) \in Seq(Info)
        /\ Len(SubSeq(s, k, n)) = IF k <= n THEN n-k+1 ELSE 0
        /\ \A i \in 1..n-k+1 : SubSeq(s, k, n)[i] = s[k+i-1]
    BY <2>2, SubSeqProperties
  <2>4. Len(b) = n - m /\ b = SubSeq(s, k, n)
    <3>1. b = SubSeq(s, k, n)
      BY <1>b, <1>n, <2>1
    <3>2. Len(b) = IF k <= n THEN n-k+1 ELSE 0
      BY <2>3, <3>1
    <3>3. (IF k <= n THEN n-k+1 ELSE 0) = n - m
      BY <1>1, <2>1
    <3>. QED BY <3>1, <3>2, <3>3
  <2>5. \A i \in 1..(n - m) : i \in 1..n-k+1 /\ k+i-1 = i+m
    BY <1>1, <2>1
  <2>6. b \in Seq(Info)
    BY <2>3, <2>4
  <2>7. DOMAIN b = 1..(n - m)
    BY <2>4, <2>6
  <2>8. ASSUME NEW i \in 1..(n - m) PROVE b[i] = s[i + m]
    <3>1. i \in 1..n-k+1 /\ k+i-1 = i+m
      BY <2>5
    <3>. QED BY <2>3, <2>4, <3>1
  <2>. QED BY <2>6, <2>7, <2>8
<1>4. \A i \in DOMAIN s : i \in DOMAIN a \/ (i - m \in DOMAIN b /\ i - m + m = i)
  BY <1>1, <1>2, <1>3
<1>5. \A i \in DOMAIN a : i \in DOMAIN s /\ a[i] = s[i]
  BY <1>1, <1>2
<1>6. \A i \in DOMAIN b : i + m \in DOMAIN s /\ b[i] = s[i + m] /\ i + m \notin DOMAIN a
  BY <1>1, <1>2, <1>3
<1>7. OwedByQueue(g, s) = OwedByQueue(g, a) \cup OwedByQueue(g, b)
  <2>1. \A d : d \in OwedByQueue(g, s) =>
               d \in OwedByQueue(g, a) \cup OwedByQueue(g, b)
    <3>. SUFFICES ASSUME NEW d, NEW i \in DOMAIN s, d \in OwedByPacket(g, s[i], 1)
                  PROVE  d \in OwedByQueue(g, a) \cup OwedByQueue(g, b)
      BY DEF OwedByQueue
    <3>1. CASE i \in DOMAIN a
      BY <1>5, <3>1 DEF OwedByQueue
    <3>2. CASE i \notin DOMAIN a
      BY <1>4, <1>6, <3>2 DEF OwedByQueue
    <3>. QED BY <3>1, <3>2
  <2>2. OwedByQueue(g, a) \subseteq OwedByQueue(g, s)
    BY <1>5 DEF OwedByQueue
  <2>3. OwedByQueue(g, b) \subseteq OwedByQueue(g, s)
    BY <1>6 DEF OwedByQueue
  <2>. QED BY <2>1, <2>2, <2>3
<1>8. IdsOf(s) = IdsOf(a) \cup IdsOf(b)
  <2>1. ASSUME NEW i \in DOMAIN s PROVE s[i].id \in IdsOf(a) \cup IdsOf(b)
    <3>1. CASE i \in DOMAIN a
      BY <1>5, <3>1 DEF IdsOf
    <3>2. CASE i \notin DOMAIN a
      BY <1>4, <1>6, <3>2 DEF IdsOf
    <3>. QED BY <3>1, <3>2
  <2>2. IdsOf(a) \subseteq IdsOf(s)
    BY <1>5 DEF IdsOf
  <2>3. IdsOf(b) \subseteq IdsOf(s)
    BY <1>6 DEF IdsOf
  <2>. QED BY <2>1, <2>2, <2>3 DEF IdsOf
<1>9. ASSUME Once(s)
      PROVE  Once(a) /\ Once(b) /\ IdsOf(a) \cap IdsOf(b) = {}
  <2>1. Once(a)
    BY <1>5, <1>9 DEF Once
  <2>2. Once(b)
    <3>. SUFFICES ASSUME NEW i \in DOMAIN b, NEW j \in DOMAIN b, b[i].id = b[j].id
                  PROVE  i = j
      BY DEF Once
    <3>1. i + m = j + m
      BY <1>6, <1>9 DEF Once
    <3>2. i \in Nat /\ j \in Nat
      BY <1>1, <1>3
    <3>. QED BY <1>1, <3>1, <3>2
  <2>3. ASSUME NEW i \in DOMAIN a, NEW j \in DOMAIN b PROVE a[i].id # b[j].id
    <3>1. i \in DOMAIN s /\ a[i] = s[i]
      BY <1>5
    <3>2. j + m \in DOMAIN s /\ b[j] = s[j + m] /\ i # j + m
      BY <1>6
    <3>. QED BY <1>9, <3>1, <3>2 DEF Once
  <2>. QED BY <2>1, <2>2, <2>3 DEF IdsOf
<1>10. Parts(g, s, a, b)
  BY <1>7, <1>8 DEF Parts
<1>11. Once(s) => OnceInEither(a, b)
  BY <1>9 DEF OnceInEither
<1>. QED BY <1>2, <1>3, <1>10, <1>11, <1>a, <1>b

\* Two queues one after the other.
LEMMA QueueConcat ==
  ASSUME NEW g, NEW s \in Seq(Info), NEW r \in Seq(Info)
  PROVE  /\ s \o r \in Seq(Info)
         /\ Parts(g, s \o r, s, r)
         /\ OnceInEither(s, r) => Once(s \o r)
<1>b. PICK b : b = s \o r
  OBVIOUS
<1>n. PICK n : n = Len(s)
  OBVIOUS
<1>m. PICK m : m = Len(r)
  OBVIOUS
<1>1. /\ n \in Nat /\ m \in Nat /\ DOMAIN s = 1..n /\ DOMAIN r = 1..m
      /\ b \in Seq(Info)
      /\ DOMAIN b = 1..(n + m)
      /\ \A i \in 1..(n + m) : b[i] = IF i <= n THEN s[i] ELSE r[i - n]
  <2>1. n \in Nat /\ m \in Nat /\ DOMAIN s = 1..n /\ DOMAIN r = 1..m
    BY <1>n, <1>m
  <2>2. b \in Seq(Info)
    BY <1>b
  <2>3. Len(b) = n + m
    BY <1>b, <1>n, <1>m
  <2>4. \A i \in 1..(n + m) : b[i] = IF i <= n THEN s[i] ELSE r[i - n]
    BY <1>b, <1>n, <1>m
  <2>. QED BY <2>1, <2>2, <2>3, <2>4
<1>2. \A i \in DOMAIN s : i \in DOMAIN b /\ b[i] = s[i]
  BY <1>1
<1>3. \A i \in DOMAIN r : i + n \in DOMAIN b /\ b[i + n] = r[i]
  <2>. SUFFICES ASSUME NEW i \in DOMAIN r
                PROVE  i + n \in DOMAIN b /\ b[i + n] = r[i]
    OBVIOUS
  <2>1. i + n \in 1..(n + m) /\ ~ (i + n <= n) /\ i + n - n = i
    BY <1>1
  <2>2. b[i + n] = r[i + n - n]
    BY <1>1, <2>1
  <2>. QED BY <1>1, <2>1, <2>2
<1>4. \A i \in DOMAIN b : \/ i \in DOMAIN s /\ b[i] = s[i]
                          \/ i - n \in DOMAIN r /\ b[i] = r[i - n]
  <2>. SUFFICES ASSUME NEW i \in DOMAIN b
                PROVE  \/ i \in DOMAIN s /\ b[i] = s[i]
                       \/ i - n \in DOMAIN r /\ b[i] = r[i - n]
    OBVIOUS
  <2>1. i \in 1..(n + m) /\ i \in Nat
    BY <1>1
  <2>2. CASE i <= n
    BY <1>1, <2>1, <2>2
  <2>3. CASE ~ (i <= n)
    <3>1. i - n \in 1..m
      BY <1>1, <2>1, <2>3
    <3>. QED BY <1>1, <2>1, <2>3, <3>1
  <2>. QED BY <2>2, <2>3
<1>5. OwedByQueue(g, b) = OwedByQueue(g, s) \cup OwedByQueue(g, r)
  <2>1. ASSUME NEW i \in DOMAIN b
        PROVE  OwedByPacket(g, b[i], 1) \subseteq OwedByQueue(g, s) \cup OwedByQueue(g, r)
    BY <1>4 DEF OwedByQueue
  <2>2. OwedByQueue(g, b) \subseteq OwedByQueue(g, s) \cup OwedByQueue(g, r)
    BY <2>1 DEF OwedByQueue
  <2>3. OwedByQueue(g, s) \subseteq OwedByQueue(g, b)
    BY <1>2 DEF OwedByQueue
  <2>4. OwedByQueue(g, r) \subseteq OwedByQueue(g, b)
    BY <1>3 DEF OwedByQueue
  <2>. QED BY <2>2, <2>3, <2>4
<1>6. IdsOf(b) = IdsOf(s) \cup IdsOf(r)
  <2>1. \A i \in DOMAIN b : b[i].id \in IdsOf(s) \cup IdsOf(r)
    BY <1>4 DEF IdsOf
  <2>2. IdsOf(s) \subseteq IdsOf(b)
    BY <1>2 DEF IdsOf
  <2>3. IdsOf(r) \subseteq IdsOf(b)
    <3>1. ASSUME NEW i \in DOMAIN r PROVE r[i].id \in IdsOf(b)
      BY <1>3 DEF IdsOf
    <3>. QED BY <3>1 DEF IdsOf
  <2>. QED BY <2>1, <2>2, <2>3 DEF IdsOf
<1>7. ASSUME Once(s), Once(r), IdsOf(s) \cap IdsOf(r) = {}
      PROVE  Once(b)
  <2>. SUFFICES ASSUME NEW i \in DOMAIN b, NEW j \in DOMAIN b, b[i].id = b[j].id
                PROVE  i = j
    BY DEF Once
  <2>1. i \in Nat /\ j \in Nat
    BY <1>1
  <2>2. CASE i \in DOMAIN s /\ b[i] = s[i] /\ j \in DOMAIN s /\ b[j] = s[j]
    BY <1>7, <2>2 DEF Once
  <2>3. CASE i - n \in DOMAIN r /\ b[i] = r[i - n] /\ j - n \in DOMAIN r /\ b[j] = r[j - n]
    <3>1. i - n = j - n
      BY <1>7, <2>3 DEF Once
    <3>. QED BY <1>1, <2>1, <3>1
  <2>4. \A k \in DOMAIN s, l \in DOMAIN r : s[k].id # r[l].id
    BY <1>7 DEF IdsOf
  <2>. QED BY <1>4, <2>2, <2>3, <2>4
<1>8. Parts(g, b, s, r)
  BY <1>5, <1>6 DEF Parts
<1>9. OnceInEither(s, r) => Once(b)
  BY <1>7 DEF OnceInEither
<1>. QED BY <1>1, <1>8, <1>9, <1>b

\* The first packet of a batch and those after it.
LEMMA BatchCut ==
  ASSUME NEW g, NEW s \in Seq(Info), s # <<>>
  PROVE  /\ Head(s) \in Info /\ Tail(s) \in Seq(Info)
         /\ IdsOf(s) = {Head(s).id} \cup IdsOf(Tail(s))
         /\ OwedByQueue(g, s) = OwedByPacket(g, Head(s), 1) \cup OwedByQueue(g, Tail(s))
         /\ Once(s) => Once(Tail(s)) /\ Head(s).id \notin IdsOf(Tail(s))
<1>r. PICK r : r = Tail(s)
  OBVIOUS
<1>h. PICK h : h = Head(s)
  OBVIOUS
<1>1. /\ h = s[1] /\ 1 \in DOMAIN s /\ r \in Seq(Info)
      /\ \A i \in DOMAIN r : i + 1 \in DOMAIN s /\ r[i] = s[i + 1]
      /\ \A i \in DOMAIN s \ {1} : i - 1 \in DOMAIN r
  <2>1. h = s[1] /\ 1 \in DOMAIN s
    BY <1>h, HeadAndTail
  <2>2. r \in Seq(Info)
    BY <1>r, HeadAndTail
  <2>3. \A i \in DOMAIN r : i + 1 \in DOMAIN s /\ r[i] = s[i + 1]
    BY <1>r, HeadAndTail
  <2>4. \A i \in DOMAIN s \ {1} : i - 1 \in DOMAIN r
    BY <1>r, HeadAndTail
  <2>. QED BY <2>1, <2>2, <2>3, <2>4
<1>2. /\ \A i \in DOMAIN r : i \in Nat \ {0}
      /\ \A i \in DOMAIN s : i \in Nat
  BY <1>1
<1>3. \A i \in DOMAIN s : \/ i = 1 /\ s[i] = h
                          \/ i - 1 \in DOMAIN r /\ s[i] = r[i - 1]
  BY <1>1, <1>2
<1>4. h \in Info
  BY <1>1, ElementOfSeq
<1>5. IdsOf(s) = {h.id} \cup IdsOf(r)
  <2>1. \A i \in DOMAIN s : s[i].id \in {h.id} \cup IdsOf(r)
    BY <1>3 DEF IdsOf
  <2>2. h.id \in IdsOf(s)
    BY <1>1 DEF IdsOf
  <2>3. IdsOf(r) \subseteq IdsOf(s)
    BY <1>1 DEF IdsOf
  <2>. QED BY <2>1, <2>2, <2>3 DEF IdsOf
<1>6. OwedByQueue(g, s) = OwedByPacket(g, h, 1) \cup OwedByQueue(g, r)
  <2>1. \A i \in DOMAIN s :
          OwedByPacket(g, s[i], 1) \subseteq OwedByPacket(g, h, 1) \cup OwedByQueue(g, r)
    BY <1>3 DEF OwedByQueue
  <2>2. OwedByPacket(g, h, 1) \subseteq OwedByQueue(g, s)
    BY <1>1 DEF OwedByQueue
  <2>3. OwedByQueue(g, r) \subseteq OwedByQueue(g, s)
    BY <1>1 DEF OwedByQueue
  <2>. QED BY <2>1, <2>2, <2>3 DEF OwedByQueue
<1>7. ASSUME Once(s) PROVE Once(r) /\ h.id \notin IdsOf(r)
  <2>1. ASSUME NEW i \in DOMAIN r, NEW j \in DOMAIN r, r[i].id = r[j].id
        PROVE  i = j
    <3>1. i + 1 = j + 1
      BY <1>1, <1>7, <2>1 DEF Once
    <3>. QED BY <1>2, <3>1
  <2>2. ASSUME NEW i \in DOMAIN r PROVE r[i].id # h.id
    <3>1. i + 1 # 1
      BY <1>2
    <3>. QED BY <1>1, <1>7, <3>1 DEF Once
  <2>. QED BY <2>1, <2>2 DEF Once, IdsOf
<1>. QED BY <1>1, <1>4, <1>5, <1>6, <1>7, <1>r, <1>h

\* A batch not yet begun owes what a queue would.
LEMMA BatchAnew ==
  ASSUME NEW g, NEW s \in Seq(Info)
  PROVE  OwedByBatch(g, s, 1) = OwedByQueue(g, s)
<1>1. CASE s = <<>>
  BY <1>1 DEF OwedByBatch, OwedByQueue
<1>2. CASE s # <<>>
  BY <1>2, BatchCut DEF OwedByBatch
<1>. QED BY <1>1, <1>2

-----------------------------------------------------------------------------
\* The steps of packetReady().

\* What a group owes from its queues q and its callback c.
OwedByGroup(g, q, c) ==
  (UNION {OwedByQueue(g, q[t]) : t \in Threads}) \cup OwedByBatch(g, c.batch, c.next)

\* What is owed by the stacks and by the other groups.
OwedByOthers(g) ==
  UNION ({OwedByStack(t, stack[t]) : t \in Threads}
         \cup {OwedByGroup(h, queue[h], callback[h]) : h \in Groups \ {g}})

\* A step of a group leaves what others owe, and the calls, alone.
LEMMA GroupOwes ==
  ASSUME NEW g \in Groups,
         \A h \in Groups \ {g} : queue'[h] = queue[h] /\ callback'[h] = callback[h],
         \A t \in Threads : /\ OwedByStack(t, stack'[t]) = OwedByStack(t, stack[t])
                            /\ OpenInStack(stack'[t]) = OpenInStack(stack[t])
  PROVE  /\ Owed = OwedByOthers(g) \cup OwedByGroup(g, queue[g], callback[g])
         /\ Owed' = OwedByOthers(g) \cup OwedByGroup(g, queue'[g], callback'[g])
         /\ Open' = Open
<1>1. \A h, q, c, d : d \in OwedByGroup(h, q, c) <=>
        \/ \E t \in Threads : d \in OwedByQueue(h, q[t])
        \/ d \in OwedByBatch(h, c.batch, c.next)
  BY DEF OwedByGroup
<1>2. \A d : d \in OwedByOthers(g) <=>
        \/ \E t \in Threads : d \in OwedByStack(t, stack[t])
        \/ \E h \in Groups \ {g} : d \in OwedByGroup(h, queue[h], callback[h])
  BY DEF OwedByOthers
<1>3. \A d : d \in Owed <=>
        \/ \E t \in Threads : d \in OwedByStack(t, stack[t])
        \/ \E h \in Groups : d \in OwedByGroup(h, queue[h], callback[h])
  BY <1>1, OwedMembers
<1>4. \A d : d \in Owed' <=>
        \/ \E t \in Threads : d \in OwedByStack(t, stack[t])
        \/ \E h \in Groups : d \in OwedByGroup(h, queue'[h], callback'[h])
  BY <1>1, OwedMembers
<1>5. Owed = OwedByOthers(g) \cup OwedByGroup(g, queue[g], callback[g])
  BY <1>2, <1>3
<1>6. Owed' = OwedByOthers(g) \cup OwedByGroup(g, queue'[g], callback'[g])
  BY <1>2, <1>4
<1>7. Open' = Open
  BY OwedMembers
<1>. QED BY <1>5, <1>6, <1>7

\* A group that keeps or loses packets, and perhaps runs a handler.
LEMMA GroupStep ==
  ASSUME HomeInv, OwingInv, NEW g \in Groups,
         \A h \in Groups \ {g} : queue'[h] = queue[h] /\ callback'[h] = callback[h],
         GroupOnce(g)', InGroup(g)' \subseteq InGroup(g),
         callback'[g].pc = "idle" => callback'[g].batch = <<>>,
         (\/ callback'[g].pc = "scan" \/ callback'[g].batch = <<>>
          \/ Head(callback'[g].batch).chan = Manual) => callback'[g].next = 1,
         UNCHANGED pushes,
         \A t \in Threads : \A i \in DOMAIN stack'[t] : IsCall(stack'[t][i]) =>
           i \in DOMAIN stack[t] /\ stack'[t][i] = stack[t][i],
         \A d \in delivered' : d \in delivered \/ d.id \in InGroup(g)
  PROVE  OwingInv'
<1>1. \A h \in Groups \ {g} : InGroup(h)' = InGroup(h)
  BY DEF InGroup
<1>2. \A h \in Groups : InGroup(h)' \subseteq InGroup(h)
  BY <1>1
<1>3. GroupsOnce'
  <2>. SUFFICES ASSUME NEW h \in Groups
                PROVE  GroupOnce(h)' /\ InGroup(h)' \subseteq 1..pushes'
    BY DEF GroupsOnce
  <2>1. GroupOnce(h) /\ InGroup(h) \subseteq 1..pushes
    BY DEF OwingInv, GroupsOnce
  <2>2. CASE h # g
    BY <1>2, <2>1, <2>2 DEF GroupOnce
  <2>3. CASE h = g
    BY <1>2, <2>1, <2>3
  <2>. QED BY <2>2, <2>3
<1>4. BatchInv'
  <2>. SUFFICES ASSUME NEW h \in Groups, NEW c, c = callback'[h]
                PROVE  /\ c.pc = "idle" => c.batch = <<>>
                       /\ (c.pc = "scan" \/ c.batch = <<>> \/ Head(c.batch).chan = Manual)
                            => c.next = 1
    BY DEF BatchInv
  <2>1. CASE h = g
    BY <2>1
  <2>2. CASE h # g
    <3>1. c = callback[h]
      BY <2>2
    <3>. QED BY <3>1 DEF OwingInv, BatchInv
  <2>. QED BY <2>1, <2>2
<1>5. CallsDistinct'
  BY DEF OwingInv, CallsDistinct
<1>6. CallsSound'
  <2>. SUFFICES ASSUME NEW t \in Threads, NEW i \in DOMAIN stack'[t],
                       NEW f, f = stack'[t][i], IsCall(f)
                PROVE  CallSound(t, f)'
    BY DEF CallsSound
  <2>1. i \in DOMAIN stack[t] /\ f = stack[t][i]
    OBVIOUS
  <2>2. CallSound(t, f)
    BY <2>1 DEF OwingInv, CallsSound
  <2>3. Unseen(f) \subseteq Groups
    BY <2>1, <2>2, UnseenInGroups
  <2>4. \A d \in delivered' : d.id = f.info.id /\ f.pc = "accumulate" => d \in delivered
    BY <2>2 DEF CallSound, Unseen
  <2>5. pushes \in Nat
    BY DEF HomeInv, ScalarInv
  <2>. QED BY <1>2, <2>2, <2>3, <2>4, <2>5, CallKept
<1>7. DeliveredKnown'
  BY DEF OwingInv, DeliveredKnown, GroupsOnce
<1>. QED BY <1>3, <1>4, <1>5, <1>6, <1>7 DEF OwingInv

\* A step that delivers nothing: what the group owes stays what it was.
LEMMA GroupKeepsOwing ==
  ASSUME HomeInv, OwingInv, NEW g \in Groups,
         UNCHANGED <<stack, pushes, delivered>>,
         \A h \in Groups \ {g} : queue'[h] = queue[h] /\ callback'[h] = callback[h],
         GroupOnce(g)', InGroup(g)' \subseteq InGroup(g),
         callback'[g].pc = "idle" => callback'[g].batch = <<>>,
         (\/ callback'[g].pc = "scan" \/ callback'[g].batch = <<>>
          \/ Head(callback'[g].batch).chan = Manual) => callback'[g].next = 1,
         OwedByGroup(g, queue'[g], callback'[g]) = OwedByGroup(g, queue[g], callback[g])
  PROVE  OwingInv' /\ Serves
<1>1. OwingInv'
  BY GroupStep
<1>2. Owed' = Owed /\ Open' = Open
  <2>1. \A t \in Threads : /\ OwedByStack(t, stack'[t]) = OwedByStack(t, stack[t])
                           /\ OpenInStack(stack'[t]) = OpenInStack(stack[t])
    OBVIOUS
  <2>. QED BY <2>1, GroupOwes
<1>. QED BY <1>1, <1>2 DEF Serves

\* One that moves no packet either.
LEMMA GroupKeepsPackets ==
  ASSUME HomeInv, OwingInv, NEW g \in Groups,
         UNCHANGED <<stack, queue, pushes, delivered>>,
         \A h \in Groups \ {g} : callback'[h] = callback[h],
         callback'[g].batch = callback[g].batch,
         callback'[g].pc = "idle" => callback'[g].batch = <<>>,
         (\/ callback'[g].pc = "scan" \/ callback'[g].batch = <<>>
          \/ Head(callback'[g].batch).chan = Manual) => callback'[g].next = 1,
         OwedByBatch(g, callback[g].batch, callback'[g].next)
           = OwedByBatch(g, callback[g].batch, callback[g].next)
  PROVE  OwingInv' /\ Serves
<1>1. GroupOnce(g)'
  BY DEF OwingInv, GroupsOnce, GroupOnce
<1>2. InGroup(g)' = InGroup(g)
  BY DEF InGroup
<1>3. OwedByGroup(g, queue'[g], callback'[g]) = OwedByGroup(g, queue[g], callback[g])
  BY DEF OwedByGroup
<1>. QED BY <1>1, <1>2, <1>3, GroupKeepsOwing

LEMMA EmptyBatch ==
  ASSUME NEW g, NEW i, NEW j
  PROVE  OwedByBatch(g, <<>>, i) = OwedByBatch(g, <<>>, j)
BY DEF OwedByBatch

LEMMA PacketReadyServes ==
  ASSUME HomeInv, OwingInv, NEW g \in Groups, PacketReady(g)
  PROVE  OwingInv' /\ Serves
<1>1. callback[g].pc = "idle" /\ callback[g].batch = <<>>
  BY DEF PacketReady, AtRest, OwingInv, BatchInv
<1>2. /\ callback'[g] = Scanning
      /\ \A h \in Groups \ {g} : callback'[h] = callback[h]
      /\ UNCHANGED <<stack, queue, pushes, delivered>>
  BY DEF PacketReady, HomeInv, CallbackInv
<1>3. callback'[g].pc = "scan" /\ callback'[g].batch = <<>> /\ callback'[g].next = 1
  BY <1>2 DEF Scanning
<1>. QED BY <1>1, <1>2, <1>3, EmptyBatch, GroupKeepsPackets

LEMMA NextBatchServes ==
  ASSUME HomeInv, OwingInv, NEW g \in Groups, NextBatch(g)
  PROVE  OwingInv' /\ Serves
<1>1. callback[g].batch = <<>>
  BY DEF NextBatch
<1>2. /\ callback'[g] = Scanning
      /\ \A h \in Groups \ {g} : callback'[h] = callback[h]
      /\ UNCHANGED <<stack, queue, pushes, delivered>>
  BY DEF NextBatch, HomeInv, CallbackInv
<1>3. callback'[g].pc = "scan" /\ callback'[g].batch = <<>> /\ callback'[g].next = 1
  BY <1>2 DEF Scanning
<1>. QED BY <1>1, <1>2, <1>3, EmptyBatch, GroupKeepsPackets

LEMMA DequeuedServes ==
  ASSUME HomeInv, OwingInv, NEW g \in Groups, Dequeued(g)
  PROVE  OwingInv' /\ Serves
<1>1. /\ \A h \in Groups \ {g} : callback'[h] = callback[h]
      /\ UNCHANGED <<stack, queue, pushes, delivered>>
  BY DEF Dequeued, HomeInv, CallbackInv
<1>2. callback[g].next = 1
  BY DEF Dequeued, OwingInv, BatchInv
<1>3. CASE callback[g].batch = <<>>
  <2>1. callback'[g] = Idle
    BY <1>3 DEF Dequeued, HomeInv, CallbackInv
  <2>2. callback'[g].batch = <<>> /\ callback'[g].next = 1
    BY <2>1 DEF Idle
  <2>. QED BY <1>1, <1>3, <2>2, EmptyBatch, GroupKeepsPackets
<1>4. CASE callback[g].batch # <<>>
  <2>1. callback'[g] = [callback[g] EXCEPT !.pc = "run", !.left = {}]
    BY <1>4 DEF Dequeued, HomeInv, CallbackInv
  <2>2. callback[g] \in CallbackState
    BY DEF HomeInv, CallbackInv
  <2>3. /\ callback'[g].pc = "run"
        /\ callback'[g].batch = callback[g].batch
        /\ callback'[g].next = callback[g].next
    BY <2>1, <2>2 DEF CallbackState
  <2>. QED BY <1>1, <1>2, <2>3, GroupKeepsPackets
<1>. QED BY <1>3, <1>4

\* The packet a group has in hand, and those after it in its batch.
LEMMA PacketInHand ==
  ASSUME HomeInv, OwingInv, NEW g \in Groups, InHand(g),
         NEW info, info = Head(callback[g].batch)
  PROVE  /\ callback[g].batch # <<>> /\ callback[g].batch \in Seq(Info)
         /\ info \in HomeInfo(g) /\ info \in Info
         /\ Tail(callback[g].batch) \in Seq(Info)
         /\ callback[g].next \in Nat \ {0}
         /\ info.id \in InGroup(g)
         /\ info.id \notin IdsOf(Tail(callback[g].batch))
         /\ \A t \in Threads : info.id \notin IdsOf(queue[g][t])
         /\ IdsOf(callback[g].batch) = {info.id} \cup IdsOf(Tail(callback[g].batch))
         /\ Once(Tail(callback[g].batch))
         /\ info.chan = Manual => callback[g].next = 1
         /\ stack[g] = <<>>
<1>. PICK s : s = callback[g].batch
  OBVIOUS
<1>1. s # <<>> /\ s \in Seq(HomeInfo(g)) /\ callback[g].next \in Nat \ {0}
  BY DEF InHand, HomeInv, CallbackInv, CallbackState
<1>2. s \in Seq(Info)
  BY DEF HomeInv, CallbackInv, CallbackState
<1>3. GroupOnce(g)
  BY DEF OwingInv, GroupsOnce
<1>4. /\ Tail(s) \in Seq(Info)
      /\ IdsOf(s) = {Head(s).id} \cup IdsOf(Tail(s))
      /\ Once(Tail(s)) /\ Head(s).id \notin IdsOf(Tail(s))
  BY <1>1, <1>2, <1>3, BatchCut DEF GroupOnce
<1>5. info \in HomeInfo(g)
  BY <1>1, HeadAndTail, ElementOfSeq
<1>6. info.id \in IdsOf(s)
  BY <1>4
<1>7. info.id \in InGroup(g)
  BY <1>6 DEF InGroup
<1>8. \A t \in Threads : info.id \notin IdsOf(queue[g][t])
  BY <1>3, <1>6 DEF GroupOnce
<1>9. info.chan = Manual => callback[g].next = 1
  BY DEF OwingInv, BatchInv
<1>10. stack[g] = <<>>
  BY DEF InHand
<1>. QED BY <1>1, <1>2, <1>4, <1>5, <1>7, <1>8, <1>9, <1>10 DEF HomeInfo

\* An edge that is not due from the queue owes nothing there.
LEMMA SkipEdgeServes ==
  ASSUME HomeInv, OwingInv, NEW g \in Groups, SkipEdge(g)
  PROVE  OwingInv' /\ Serves
<1>. PICK info : info = Head(callback[g].batch)
  OBVIOUS
<1>i. PICK i : i = callback[g].next
  OBVIOUS
<1>1. /\ info \in Info /\ i \in Nat \ {0} /\ callback[g].batch # <<>>
  BY <1>i, PacketInHand DEF SkipEdge
<1>2. /\ info.chan # Manual
      /\ ~ DueFromQueue(g, info.by, OutEdges(info)[i])
  BY <1>i DEF SkipEdge
<1>3. /\ callback[g].pc = "run"
      /\ callback'[g] = [callback[g] EXCEPT !.next = i + 1]
      /\ \A h \in Groups \ {g} : callback'[h] = callback[h]
      /\ UNCHANGED <<stack, queue, pushes, delivered>>
  BY <1>i DEF SkipEdge, InHand, HomeInv, CallbackInv
<1>4. callback[g] \in CallbackState
  BY DEF HomeInv, CallbackInv
<1>5. /\ callback'[g].pc = "run"
      /\ callback'[g].batch = callback[g].batch
      /\ callback'[g].next = i + 1
  BY <1>3, <1>4 DEF CallbackState
<1>6. OwedByPacket(g, info, i + 1) = OwedByPacket(g, info, i)
  <2>1. /\ DOMAIN OutEdges(info) = 1..Len(OutEdges(info))
        /\ Len(OutEdges(info)) \in Nat
    BY <1>1, <1>2, OutEdgesType DEF Info
  <2>2. \A j \in DOMAIN OutEdges(info) : j >= i <=> j = i \/ j >= i + 1
    BY <1>1, <2>1
  <2>3. {j \in ToSee(info, i + 1) : DueFromQueue(g, info.by, OutEdges(info)[j])}
          = {j \in ToSee(info, i) : DueFromQueue(g, info.by, OutEdges(info)[j])}
    BY <1>2, <2>2 DEF ToSee
  <2>. QED BY <1>2, <2>3 DEF OwedByPacket
<1>7. OwedByBatch(g, callback[g].batch, i + 1) = OwedByBatch(g, callback[g].batch, i)
  BY <1>1, <1>6 DEF OwedByBatch
<1>. QED BY <1>1, <1>2, <1>3, <1>5, <1>7, <1>i, GroupKeepsPackets

\* The packet in hand leaves the batch.
LEMMA PacketLeavesBatch ==
  ASSUME HomeInv, OwingInv, NEW g \in Groups, InHand(g),
         UNCHANGED queue, callback'[g].batch = Tail(callback[g].batch)
  PROVE  GroupOnce(g)' /\ InGroup(g)' \subseteq InGroup(g)
<1>. PICK s : s = callback[g].batch
  OBVIOUS
<1>. PICK r : r = Tail(s)
  OBVIOUS
<1>1. IdsOf(r) \subseteq IdsOf(s) /\ Once(r)
  BY PacketInHand
<1>2. callback'[g].batch = r
  OBVIOUS
<1>3. GroupOnce(g)
  BY DEF OwingInv, GroupsOnce
<1>4. GroupOnce(g)'
  <2>1. Once(callback'[g].batch)
    BY <1>1, <1>2
  <2>2. \A t \in Threads : IdsOf(queue'[g][t]) \cap IdsOf(callback'[g].batch) = {}
    BY <1>1, <1>2, <1>3 DEF GroupOnce
  <2>. QED BY <1>3, <2>1, <2>2 DEF GroupOnce
<1>5. InGroup(g)' \subseteq InGroup(g)
  BY <1>1, <1>2 DEF InGroup
<1>. QED BY <1>4, <1>5

LEMMA NextPacketServes ==
  ASSUME HomeInv, OwingInv, NEW g \in Groups, NextPacket(g)
  PROVE  OwingInv' /\ Serves
<1>. PICK info : info = Head(callback[g].batch)
  OBVIOUS
<1>i. PICK i : i = callback[g].next
  OBVIOUS
<1>r. PICK r : r = Tail(callback[g].batch)
  OBVIOUS
<1>1. /\ InHand(g) /\ info \in Info /\ i \in Nat \ {0} /\ callback[g].batch # <<>>
      /\ r \in Seq(Info)
  BY <1>i, <1>r, PacketInHand DEF NextPacket
<1>2. info.chan # Manual /\ i > Len(OutEdges(info))
  BY <1>i DEF NextPacket
<1>3. /\ callback[g].pc = "run"
      /\ callback'[g] = [callback[g] EXCEPT !.batch = r, !.next = 1]
      /\ \A h \in Groups \ {g} : callback'[h] = callback[h]
      /\ UNCHANGED <<stack, queue, pushes, delivered>>
  BY <1>r DEF NextPacket, InHand, HomeInv, CallbackInv
<1>4. callback[g] \in CallbackState
  BY DEF HomeInv, CallbackInv
<1>5. callback'[g].pc = "run" /\ callback'[g].batch = r /\ callback'[g].next = 1
  BY <1>3, <1>4 DEF CallbackState
<1>6. OwedByPacket(g, info, i) = {}
  <2>1. /\ DOMAIN OutEdges(info) = 1..Len(OutEdges(info))
        /\ Len(OutEdges(info)) \in Nat
    BY <1>1, <1>2, OutEdgesType DEF Info
  <2>2. ToSee(info, i) = {}
    BY <1>1, <1>2, <2>1 DEF ToSee
  <2>. QED BY <1>2, <2>2 DEF OwedByPacket, Over
<1>7. OwedByBatch(g, callback[g].batch, i) = OwedByQueue(g, r)
  BY <1>1, <1>6, <1>r DEF OwedByBatch
<1>8. OwedByBatch(g, r, 1) = OwedByQueue(g, r)
  BY <1>1, BatchAnew
<1>9. OwedByGroup(g, queue'[g], callback'[g]) = OwedByGroup(g, queue[g], callback[g])
  BY <1>3, <1>5, <1>7, <1>8, <1>i DEF OwedByGroup
<1>10. GroupOnce(g)' /\ InGroup(g)' \subseteq InGroup(g)
  BY <1>1, <1>3, <1>5, <1>r, PacketLeavesBatch
<1>. QED BY <1>3, <1>5, <1>9, <1>10, GroupKeepsOwing

\* A delivery on the thread of g, of a packet that is in the hands of g, is
\* owed by g alone.
LEMMA GroupDelivers ==
  ASSUME HomeInv, OwingInv, NEW g \in Groups, NEW f, NEW d,
         Call(g, f), f.pc = "handler", delivered' = delivered \cup {d},
         UNCHANGED <<queue, pushes>>,
         \A h \in Groups \ {g} : callback'[h] = callback[h],
         GroupOnce(g)', InGroup(g)' \subseteq InGroup(g),
         callback'[g].pc = "run",
         (callback'[g].batch = <<>> \/ Head(callback'[g].batch).chan = Manual)
           => callback'[g].next = 1,
         d.on = g, d.id \in InGroup(g),
         d \in OwedByGroup(g, queue[g], callback[g]),
         OwedByGroup(g, queue'[g], callback'[g])
           = OwedByGroup(g, queue[g], callback[g]) \ {d}
  PROVE  OwingInv' /\ Serves /\ MakesOne
<1>1. g \in Threads
  BY DEF Threads
<1>2. /\ \A u \in Threads \ {g} : stack'[u] = stack[u]
      /\ stack'[g] = Append(stack[g], f)
      /\ DOMAIN stack'[g] = 1..(Len(stack[g]) + 1)
      /\ \A i \in DOMAIN stack[g] : i \in DOMAIN stack'[g] /\ stack'[g][i] = stack[g][i]
      /\ stack'[g][Len(stack[g]) + 1] = f
  BY <1>1, CallShape, OthersKeepStack
<1>3. stack[g] \in Seq(Frame) /\ DOMAIN stack[g] = 1..Len(stack[g]) /\ Len(stack[g]) \in Nat
  <2>1. stack[g] \in Seq(Frame)
    BY <1>1 DEF HomeInv, StackInv
  <2>. QED BY <2>1
<1>4. \A u \in Threads : \A i \in DOMAIN stack'[u] : IsCall(stack'[u][i]) =>
        i \in DOMAIN stack[u] /\ stack'[u][i] = stack[u][i]
  <2>. SUFFICES ASSUME NEW u \in Threads, NEW i \in DOMAIN stack'[u], IsCall(stack'[u][i])
                PROVE  i \in DOMAIN stack[u] /\ stack'[u][i] = stack[u][i]
    OBVIOUS
  <2>1. CASE u # g
    BY <1>2, <2>1
  <2>2. CASE u = g
    <3>1. i \in DOMAIN stack[g] \/ i = Len(stack[g]) + 1
      BY <1>2, <1>3, <2>2
    <3>2. i # Len(stack[g]) + 1
      BY <1>2, <2>2 DEF IsCall
    <3>. QED BY <1>2, <2>2, <3>1, <3>2
  <2>. QED BY <2>1, <2>2
<1>5. OwingInv'
  BY <1>4, GroupStep
<1>6. \A u \in Threads : /\ OwedByStack(u, stack'[u]) = OwedByStack(u, stack[u])
                         /\ OpenInStack(stack'[u]) = OpenInStack(stack[u])
  <2>1. OwedByFrame(g, f) = {} /\ OpenByFrame(f) = {}
    BY DEF OwedByFrame, OpenByFrame
  <2>2. /\ OwedByStack(g, stack'[g]) = OwedByStack(g, stack[g])
        /\ OpenInStack(stack'[g]) = OpenInStack(stack[g])
    <3>1. PICK s : s = stack[g]
      OBVIOUS
    <3>2. s \in Seq(Frame)
      BY <1>3, <3>1
    <3>3. OwedByStack(g, Append(s, f)) = OwedByStack(g, s) \cup OwedByFrame(g, f)
      BY <3>2, StackAppend
    <3>4. OpenInStack(Append(s, f)) = OpenInStack(s) \cup OpenByFrame(f)
      BY <3>2, StackAppend
    <3>5. stack'[g] = Append(s, f)
      BY <1>2, <3>1
    <3>. QED BY <2>1, <3>1, <3>3, <3>4, <3>5
  <2>. QED BY <1>2, <2>2
<1>7. /\ Owed = OwedByOthers(g) \cup OwedByGroup(g, queue[g], callback[g])
      /\ Owed' = OwedByOthers(g) \cup OwedByGroup(g, queue'[g], callback'[g])
      /\ Open' = Open
  BY <1>6, GroupOwes
<1>8. d \notin OwedByOthers(g)
  <2>1. ASSUME NEW t \in Threads, d \in OwedByStack(t, stack[t]) PROVE FALSE
    BY <2>1, StackOwesAt DEF OwedByStack
  <2>2. ASSUME NEW h \in Groups \ {g}, d \in OwedByGroup(h, queue[h], callback[h])
        PROVE  FALSE
    BY <2>2, GroupOwesAt DEF OwedByGroup
  <2>. QED BY <2>1, <2>2 DEF OwedByOthers
<1>9. d \in Owed /\ Owed' = Owed \ {d}
  BY <1>7, <1>8
<1>10. Promise!Deliver(d)
  BY <1>7, <1>9 DEF Promise!Deliver
<1>. QED BY <1>5, <1>9, <1>10 DEF Serves, MakesOne, Promise!Next

\* What a group owes, by the packet in hand and the rest.
LEMMA GroupOwesInHand ==
  ASSUME HomeInv, OwingInv, NEW g \in Groups, InHand(g)
  PROVE  \E rest :
           /\ \A d \in rest : d.id # Head(callback[g].batch).id
           /\ OwedByGroup(g, queue[g], callback[g])
                = OwedByPacket(g, Head(callback[g].batch), callback[g].next) \cup rest
           /\ rest = (UNION {OwedByQueue(g, queue[g][t]) : t \in Threads})
                     \cup OwedByQueue(g, Tail(callback[g].batch))
<1>. PICK info : info = Head(callback[g].batch)
  OBVIOUS
<1>. PICK r : r = Tail(callback[g].batch)
  OBVIOUS
<1>. PICK rest : rest = (UNION {OwedByQueue(g, queue[g][t]) : t \in Threads})
                        \cup OwedByQueue(g, r)
  OBVIOUS
<1>1. /\ callback[g].batch # <<>>
      /\ info.id \notin IdsOf(r)
      /\ \A t \in Threads : info.id \notin IdsOf(queue[g][t])
  BY PacketInHand
<1>2. \A t \in Threads : \A d \in OwedByQueue(g, queue[g][t]) : d.id # info.id
  BY <1>1, GroupOwesAt
<1>3. r \in Seq(HomeInfo(g))
  BY <1>1, HeadAndTail DEF HomeInv, CallbackInv
<1>4. ASSUME NEW d \in OwedByQueue(g, r) PROVE d.id # info.id
  <2>1. d.id \in IdsOf(r)
    BY <1>3, OwedByQueueAt
  <2>. QED BY <1>1, <2>1
<1>5. \A d \in rest : d.id # info.id
  BY <1>2, <1>4
<1>6. OwedByGroup(g, queue[g], callback[g])
        = OwedByPacket(g, info, callback[g].next) \cup rest
  BY <1>1 DEF OwedByGroup, OwedByBatch
<1>. QED BY <1>5, <1>6

LEMMA DeliverManualServes ==
  ASSUME HomeInv, OwingInv, NEW g \in Groups, DeliverManual(g)
  PROVE  OwingInv' /\ Serves /\ MakesOne
<1>. PICK info : info = Head(callback[g].batch)
  OBVIOUS
<1>r. PICK r : r = Tail(callback[g].batch)
  OBVIOUS
<1>. PICK d : d = DeliveryOf(info, 0, g)
  OBVIOUS
<1>f. PICK f : f = HandlerOf(info.node, info.params)
  OBVIOUS
<1>1. /\ InHand(g) /\ info \in HomeInfo(g) /\ info.chan = Manual
      /\ r \in Seq(Info) /\ info.id \in InGroup(g) /\ callback[g].next = 1
  BY <1>r, PacketInHand DEF DeliverManual
<1>2. /\ Call(g, f) /\ f.pc = "handler"
      /\ delivered' = delivered \cup {d}
      /\ UNCHANGED <<queue, pushes>>
  BY <1>f DEF DeliverManual, SendToNode, HandlerOf
<1>3. /\ callback'[g] = [callback[g] EXCEPT !.batch = r]
      /\ \A h \in Groups \ {g} : callback'[h] = callback[h]
  BY <1>r DEF DeliverManual, HomeInv, CallbackInv
<1>4. callback[g] \in CallbackState /\ callback[g].pc = "run"
  BY <1>1 DEF HomeInv, CallbackInv, InHand
<1>5. callback'[g].pc = "run" /\ callback'[g].batch = r /\ callback'[g].next = 1
  BY <1>1, <1>3, <1>4 DEF CallbackState
<1>6. d = ManualOf(info) /\ d.on = g /\ d.id = info.id
  BY <1>1, DeliveryFields DEF ManualOf, HomeInfo
<1>7. OwedByPacket(g, info, 1) = {d}
  BY <1>1, <1>6 DEF OwedByPacket
<1>8. PICK rest :
        /\ \A e \in rest : e.id # info.id
        /\ OwedByGroup(g, queue[g], callback[g]) = OwedByPacket(g, info, 1) \cup rest
        /\ rest = (UNION {OwedByQueue(g, queue[g][t]) : t \in Threads}) \cup OwedByQueue(g, r)
  BY <1>1, <1>r, GroupOwesInHand
<1>9. OwedByGroup(g, queue'[g], callback'[g]) = rest
  <2>1. OwedByBatch(g, r, 1) = OwedByQueue(g, r)
    BY <1>1, BatchAnew
  <2>. QED BY <1>2, <1>5, <1>8, <2>1 DEF OwedByGroup
<1>10. /\ d \in OwedByGroup(g, queue[g], callback[g])
       /\ OwedByGroup(g, queue'[g], callback'[g])
            = OwedByGroup(g, queue[g], callback[g]) \ {d}
  BY <1>6, <1>7, <1>8, <1>9
<1>11. GroupOnce(g)' /\ InGroup(g)' \subseteq InGroup(g)
  BY <1>1, <1>2, <1>5, <1>r, PacketLeavesBatch
<1>. QED BY <1>1, <1>2, <1>3, <1>5, <1>6, <1>10, <1>11, GroupDelivers

LEMMA DeliverQueuedServes ==
  ASSUME HomeInv, OwingInv, NEW g \in Groups, DeliverQueued(g)
  PROVE  OwingInv' /\ Serves /\ MakesOne
<1>. PICK info : info = Head(callback[g].batch)
  OBVIOUS
<1>i. PICK i : i = callback[g].next
  OBVIOUS
<1>. PICK d : d = DeliveryOf(info, i, g)
  OBVIOUS
<1>f. PICK f : f = HandlerOf(OutEdges(info)[i].next, info.params)
  BY SMTT(60)
<1>1. /\ InHand(g) /\ info \in Info /\ i \in Nat \ {0}
      /\ info.id \in InGroup(g) /\ callback[g].batch # <<>>
  BY SMTT(60), <1>i, PacketInHand DEF DeliverQueued
<1>2. /\ info.chan # Manual /\ i <= Len(OutEdges(info))
      /\ DueFromQueue(g, info.by, OutEdges(info)[i])
      /\ Call(g, f) /\ f.pc = "handler"
      /\ delivered' = delivered \cup {d}
      /\ UNCHANGED <<queue, pushes>>
  BY <1>f, <1>i DEF DeliverQueued, SendToNode, HandlerOf
<1>3. /\ callback'[g] = [callback[g] EXCEPT !.next = i + 1]
      /\ \A h \in Groups \ {g} : callback'[h] = callback[h]
  BY <1>i DEF DeliverQueued, HomeInv, CallbackInv
<1>4. callback[g] \in CallbackState /\ callback[g].pc = "run"
  BY <1>1 DEF HomeInv, CallbackInv, InHand
<1>5. /\ callback'[g].pc = "run"
      /\ callback'[g].batch = callback[g].batch
      /\ callback'[g].next = i + 1
  BY <1>3, <1>4 DEF CallbackState
<1>6. d.on = g /\ d.id = info.id
  BY DeliveryFields
<1>7. d = DeliveryOf(info, i, TargetGroup(info, i))
  BY <1>2 DEF DueFromQueue, TargetGroup
<1>8. /\ OwedByPacket(g, info, i + 1) = OwedByPacket(g, info, i) \ {d}
      /\ d \in OwedByPacket(g, info, i)
  <2>1. /\ DOMAIN OutEdges(info) = 1..Len(OutEdges(info))
        /\ Len(OutEdges(info)) \in Nat
    BY <1>1, <1>2, OutEdgesType DEF Info
  <2>2. \A j \in DOMAIN OutEdges(info) : j >= i <=> j = i \/ j >= i + 1
    BY <1>1, <2>1
  <2>3. i \in DOMAIN OutEdges(info) /\ i >= i /\ ~ (i >= i + 1)
    BY <1>1, <1>2, <2>1
  <2>4. PICK I : I = {j \in ToSee(info, i) : DueFromQueue(g, info.by, OutEdges(info)[j])}
    OBVIOUS
  <2>5. PICK J : J = {j \in ToSee(info, i + 1) :
                        DueFromQueue(g, info.by, OutEdges(info)[j])}
    OBVIOUS
  <2>6. J = I \ {i} /\ i \in I
    BY <1>2, <2>2, <2>3, <2>4, <2>5 DEF ToSee
  <2>7. Over(info, J) = Over(info, I) \ {d} /\ d \in Over(info, I)
    <3>1. Over(info, I \ {i}) = Over(info, I) \ {DeliveryOf(info, i, TargetGroup(info, i))}
      BY OverWithout
    <3>2. DeliveryOf(info, i, TargetGroup(info, i)) \in Over(info, I)
      BY <2>6 DEF Over
    <3>. QED BY <1>7, <2>6, <3>1, <3>2
  <2>8. OwedByPacket(g, info, i) = Over(info, I)
    BY <1>2, <2>4 DEF OwedByPacket
  <2>9. OwedByPacket(g, info, i + 1) = Over(info, J)
    BY <1>2, <2>5 DEF OwedByPacket
  <2>. QED BY <2>7, <2>8, <2>9
<1>9. PICK rest :
        /\ \A e \in rest : e.id # info.id
        /\ OwedByGroup(g, queue[g], callback[g]) = OwedByPacket(g, info, i) \cup rest
        /\ rest = (UNION {OwedByQueue(g, queue[g][t]) : t \in Threads})
                  \cup OwedByQueue(g, Tail(callback[g].batch))
  BY <1>1, <1>i, GroupOwesInHand
<1>10. OwedByGroup(g, queue'[g], callback'[g]) = OwedByPacket(g, info, i + 1) \cup rest
  BY <1>1, <1>2, <1>5, <1>9 DEF OwedByGroup, OwedByBatch
<1>11. /\ d \in OwedByGroup(g, queue[g], callback[g])
       /\ OwedByGroup(g, queue'[g], callback'[g])
            = OwedByGroup(g, queue[g], callback[g]) \ {d}
  BY <1>6, <1>8, <1>9, <1>10
<1>12. GroupOnce(g)' /\ InGroup(g)' \subseteq InGroup(g)
  <2>1. GroupOnce(g)
    BY DEF OwingInv, GroupsOnce
  <2>2. GroupOnce(g)'
    BY <1>2, <1>5, <2>1 DEF GroupOnce
  <2>. QED BY <1>2, <1>5, <2>2 DEF InGroup
<1>. QED BY <1>1, <1>2, <1>3, <1>5, <1>6, <1>11, <1>12, GroupDelivers

\* The packets a move from the queue s of thread t, which keeps r, to the
\* batch old, which becomes b.
LEMMA DequeueMoves ==
  ASSUME HomeInv, OwingInv, NEW g \in Groups, NEW t \in Threads,
         NEW s, NEW a, NEW r, NEW old, NEW b,
         queue[g][t] = s, callback[g].batch = old, callback[g].next = 1,
         queue'[g][t] = r, callback'[g].batch = b, callback'[g].next = 1,
         \A u \in Threads \ {t} : queue'[g][u] = queue[g][u],
         old \in Seq(Info), b \in Seq(Info),
         Parts(g, s, a, r), Once(s) => OnceInEither(a, r),
         Parts(g, b, old, a), OnceInEither(old, a) => Once(b)
  PROVE  /\ GroupOnce(g)'
         /\ InGroup(g)' = InGroup(g)
         /\ OwedByGroup(g, queue'[g], callback'[g]) = OwedByGroup(g, queue[g], callback[g])
<1>1. /\ OwedByQueue(g, s) = OwedByQueue(g, a) \cup OwedByQueue(g, r)
      /\ IdsOf(s) = IdsOf(a) \cup IdsOf(r)
      /\ Once(s) => Once(a) /\ Once(r) /\ IdsOf(a) \cap IdsOf(r) = {}
      /\ OwedByQueue(g, b) = OwedByQueue(g, old) \cup OwedByQueue(g, a)
      /\ IdsOf(b) = IdsOf(old) \cup IdsOf(a)
      /\ Once(old) /\ Once(a) /\ IdsOf(old) \cap IdsOf(a) = {} => Once(b)
  BY DEF Parts, OnceInEither
<1>2. GroupOnce(g)
  BY DEF OwingInv, GroupsOnce
<1>3. /\ Once(s) /\ Once(old) /\ IdsOf(s) \cap IdsOf(old) = {}
      /\ \A u \in Threads \ {t} :
           /\ Once(queue[g][u])
           /\ IdsOf(queue[g][u]) \cap IdsOf(old) = {}
           /\ IdsOf(queue[g][u]) \cap IdsOf(s) = {}
  BY <1>2 DEF GroupOnce
<1>6. Once(b) /\ Once(r) /\ IdsOf(r) \cap IdsOf(b) = {}
  BY <1>1, <1>3
<1>8. GroupOnce(g)'
  <2>1. Once(callback'[g].batch)
    BY <1>6
  <2>2. ASSUME NEW u \in Threads
        PROVE  Once(queue'[g][u]) /\ IdsOf(queue'[g][u]) \cap IdsOf(callback'[g].batch) = {}
    <3>1. CASE u = t
      BY <1>1, <1>6, <3>1
    <3>2. CASE u # t
      BY <1>1, <1>3, <3>2
    <3>. QED BY <3>1, <3>2
  <2>3. ASSUME NEW u \in Threads, NEW v \in Threads \ {u}
        PROVE  IdsOf(queue'[g][u]) \cap IdsOf(queue'[g][v]) = {}
    <3>1. IdsOf(queue[g][u]) \cap IdsOf(queue[g][v]) = {}
      BY <1>2 DEF GroupOnce
    <3>2. \A w \in Threads : IdsOf(queue'[g][w]) \subseteq IdsOf(queue[g][w])
      BY <1>1
    <3>. QED BY <3>1, <3>2
  <2>. QED BY <2>1, <2>2, <2>3 DEF GroupOnce
<1>9. InGroup(g)' = InGroup(g)
  <2>1. \A x : x \in InGroup(g)' <=>
          x \in IdsOf(callback'[g].batch) \/ \E u \in Threads : x \in IdsOf(queue'[g][u])
    BY DEF InGroup
  <2>2. \A x : x \in InGroup(g) <=>
          x \in IdsOf(callback[g].batch) \/ \E u \in Threads : x \in IdsOf(queue[g][u])
    BY DEF InGroup
  <2>3. \A x : x \in InGroup(g)' <=> x \in InGroup(g)
    BY <1>1, <2>1, <2>2
  <2>. QED BY <2>3
<1>10. OwedByGroup(g, queue'[g], callback'[g]) = OwedByGroup(g, queue[g], callback[g])
  <2>1. \A q, c, d : d \in OwedByGroup(g, q, c) <=>
          \/ \E u \in Threads : d \in OwedByQueue(g, q[u])
          \/ d \in OwedByBatch(g, c.batch, c.next)
    BY DEF OwedByGroup
  <2>2. OwedByBatch(g, b, 1) = OwedByQueue(g, b)
        /\ OwedByBatch(g, old, 1) = OwedByQueue(g, old)
    BY BatchAnew
  <2>3. ASSUME NEW d, d \in OwedByGroup(g, queue'[g], callback'[g])
        PROVE  d \in OwedByGroup(g, queue[g], callback[g])
    <3>1. CASE \E u \in Threads : d \in OwedByQueue(g, queue'[g][u])
      <4>1. \E u \in Threads : d \in OwedByQueue(g, queue[g][u])
        BY <1>1, <3>1
      <4>. QED BY <2>1, <4>1
    <3>2. CASE d \in OwedByQueue(g, b)
      <4>1. d \in OwedByQueue(g, old) \/ d \in OwedByQueue(g, queue[g][t])
        BY <1>1, <3>2
      <4>. QED BY <2>1, <2>2, <4>1
    <3>. QED BY <2>1, <2>2, <2>3, <3>1, <3>2
  <2>4. ASSUME NEW d, d \in OwedByGroup(g, queue[g], callback[g])
        PROVE  d \in OwedByGroup(g, queue'[g], callback'[g])
    <3>1. ASSUME NEW u \in Threads, d \in OwedByQueue(g, queue[g][u])
          PROVE  d \in OwedByQueue(g, queue'[g][u]) \/ d \in OwedByQueue(g, b)
      BY <1>1, <3>1
    <3>2. CASE d \in OwedByQueue(g, old)
      <4>1. d \in OwedByQueue(g, b)
        BY <1>1, <3>2
      <4>. QED BY <2>1, <2>2, <4>1
    <3>. QED BY <2>1, <2>2, <2>4, <3>1, <3>2
  <2>. QED BY <2>3, <2>4
<1>. QED BY <1>8, <1>9, <1>10

LEMMA DequeueServes ==
  ASSUME HomeInv, OwingInv, NEW g \in Groups, NEW t \in Threads, Dequeue(g, t)
  PROVE  OwingInv' /\ Serves
<1>n. PICK room : room = MaxDequeue - Len(callback[g].batch)
  OBVIOUS
<1>v. PICK avail : avail = Len(queue[g][t])
  OBVIOUS
<1>m. PICK m : m = IF avail <= room THEN avail ELSE room
  OBVIOUS
<1>b. PICK b : b = callback[g].batch \o SubSeq(queue[g][t], 1, m)
  OBVIOUS
<1>1. /\ queue[g][t] \in Seq(Info) /\ callback[g].batch \in Seq(Info)
      /\ callback[g] \in CallbackState
  BY DEF HomeInv, QueueInv, CallbackInv, CallbackState
<1>2. /\ callback[g].pc = "scan" /\ Len(callback[g].batch) < MaxDequeue
      /\ callback[g].next = 1
  BY DEF Dequeue, OwingInv, BatchInv
<1>3. m \in 0..Len(queue[g][t])
  <2>1. avail \in Nat
    BY <1>1, <1>v
  <2>2. Len(callback[g].batch) \in Nat /\ MaxDequeue \in Nat
    BY <1>1, BoundAssumption
  <2>3. room \in Nat
    BY <1>2, <1>n, <2>2
  <2>. QED BY <1>m, <1>v, <2>1, <2>3
<1>4. /\ callback' = [callback EXCEPT ![g].left = @ \ {t}, ![g].batch = b]
      /\ queue' = [queue EXCEPT ![g][t] = SubSeq(queue[g][t], m + 1, avail)]
      /\ UNCHANGED <<stack, pushes, delivered>>
  <2>1. PICK n : n = IF avail <= room THEN avail ELSE room
    OBVIOUS
  <2>2. m = n
    BY <1>m, <2>1
  <2>. QED BY <1>b, <1>n, <1>v, <2>1, <2>2 DEF Dequeue, HomeInv, CallbackInv, QueueInv
<1>5. /\ callback'[g] = [callback[g] EXCEPT !.left = @ \ {t}, !.batch = b]
      /\ \A h \in Groups \ {g} : callback'[h] = callback[h]
  BY <1>4 DEF HomeInv, CallbackInv
<1>6. callback'[g].pc = "scan" /\ callback'[g].batch = b /\ callback'[g].next = 1
  BY <1>1, <1>2, <1>5 DEF CallbackState
<1>7. /\ queue'[g][t] = SubSeq(queue[g][t], m + 1, Len(queue[g][t]))
      /\ \A u \in Threads \ {t} : queue'[g][u] = queue[g][u]
      /\ \A h \in Groups \ {g} : queue'[h] = queue[h]
  BY <1>4, <1>v DEF HomeInv, QueueInv
<1>8. /\ GroupOnce(g)'
      /\ InGroup(g)' = InGroup(g)
      /\ OwedByGroup(g, queue'[g], callback'[g]) = OwedByGroup(g, queue[g], callback[g])
  <2>s. PICK s : s = queue[g][t]
    OBVIOUS
  <2>a. PICK a : a = SubSeq(s, 1, m)
    OBVIOUS
  <2>r. PICK r : r = SubSeq(s, m + 1, Len(s))
    OBVIOUS
  <2>o. PICK old : old = callback[g].batch
    OBVIOUS
  <2>1. s \in Seq(Info) /\ old \in Seq(Info) /\ m \in 0..Len(s)
    BY <1>1, <1>3, <2>s, <2>o
  <2>2. /\ a \in Seq(Info) /\ r \in Seq(Info)
        /\ Parts(g, s, a, r)
        /\ Once(s) => OnceInEither(a, r)
    <3>1. a \in Seq(Info) /\ r \in Seq(Info)
      BY <2>1, <2>a, <2>r, QueueCut
    <3>2. Parts(g, s, a, r)
      BY <2>1, <2>a, <2>r, QueueCut
    <3>3. Once(s) => OnceInEither(a, r)
      BY <2>1, <2>a, <2>r, QueueCut
    <3>. QED BY <3>1, <3>2, <3>3
  <2>3. b = old \o a
    BY <1>b, <2>s, <2>a, <2>o
  <2>4. /\ b \in Seq(Info)
        /\ Parts(g, b, old, a)
        /\ OnceInEither(old, a) => Once(b)
    <3>1. b \in Seq(Info)
      BY <2>1, <2>2, <2>3, QueueConcat
    <3>2. Parts(g, b, old, a)
      BY <2>1, <2>2, <2>3, QueueConcat
    <3>3. OnceInEither(old, a) => Once(b)
      BY <2>1, <2>2, <2>3, QueueConcat
    <3>. QED BY <3>1, <3>2, <3>3
  <2>5. queue'[g][t] = r
    BY <1>7, <2>s, <2>r
  <2>6. queue[g][t] = s /\ callback[g].batch = old
    BY <2>s, <2>o
  <2>. QED BY <1>2, <1>6, <1>7, <2>1, <2>2, <2>4, <2>5, <2>6, DequeueMoves
<1>. QED BY <1>4, <1>5, <1>6, <1>7, <1>8, GroupKeepsOwing

-----------------------------------------------------------------------------
\* Every step, and the theorem.

LEMMA OwingInit == Init => OwingInv /\ Promise!Init
<1>. SUFFICES ASSUME Init PROVE OwingInv /\ Promise!Init
  OBVIOUS
<1>1. /\ \A t \in Threads : stack[t] = <<>> /\ DOMAIN stack[t] = {}
      /\ \A g \in Groups : callback[g] = Idle
      /\ \A g \in Groups, t \in Threads : queue[g][t] = <<>>
      /\ pushes = 0 /\ delivered = {}
  BY DEF Init
<1>2. \A g \in Groups : /\ callback[g].pc = "idle" /\ callback[g].batch = <<>>
                        /\ callback[g].next = 1
  BY <1>1 DEF Idle
<1>3. IdsOf(<<>>) = {} /\ Once(<<>>)
  BY DEF IdsOf, Once
<1>4. GroupsOnce
  <2>1. \A g \in Groups : InGroup(g) = {}
    BY <1>1, <1>2, <1>3 DEF InGroup
  <2>2. \A g \in Groups : GroupOnce(g)
    BY <1>1, <1>2, <1>3 DEF GroupOnce
  <2>. QED BY <2>1, <2>2 DEF GroupsOnce
<1>5. BatchInv
  BY <1>2 DEF BatchInv
<1>6. CallsSound /\ CallsDistinct
  BY <1>1 DEF CallsSound, CallsDistinct
<1>7. DeliveredKnown
  BY <1>1 DEF DeliveredKnown
<1>8. Owed = {}
  <2>1. \A t \in Threads : OwedByStack(t, stack[t]) = {}
    BY <1>1 DEF OwedByStack
  <2>2. \A g \in Groups, t \in Threads : OwedByQueue(g, queue[g][t]) = {}
    BY <1>1 DEF OwedByQueue
  <2>3. \A g \in Groups : OwedByBatch(g, callback[g].batch, callback[g].next) = {}
    BY <1>2 DEF OwedByBatch
  <2>. QED BY <2>1, <2>2, <2>3, OwedMembers
<1>9. Open = {}
  <2>1. \A t \in Threads : OpenInStack(stack[t]) = {}
    BY <1>1 DEF OpenInStack
  <2>. QED BY <2>1, OwedMembers
<1>. QED BY <1>1, <1>4, <1>5, <1>6, <1>7, <1>8, <1>9 DEF OwingInv, Promise!Init

LEMMA OwingNext == HomeInv /\ OwingInv /\ [Next]_vars => OwingInv' /\ Serves
<1>. SUFFICES ASSUME HomeInv, OwingInv, [Next]_vars
              PROVE  OwingInv' /\ Serves
  OBVIOUS
<1>1. ASSUME NEW t \in Threads, PushStep(t)
      PROVE  OwingInv' /\ Serves
  BY <1>1, AccumulateServes, PushEdgeDirectlyServes, PushEdgeAsideServes,
     EndEdgesServes, EnqueueServes, SignalServes DEF PushStep
<1>2. ASSUME NEW t \in Threads, Environment(t)
      PROVE  OwingInv' /\ Serves
  <2>1. CASE \E n \in Nodes, c \in Channels, p \in Params : HandlerPushes(t, n, c, p)
    BY <2>1, HandlerPushesServes
  <2>2. CASE \E n \in Nodes, c \in Channels, p \in FreshParams : SourcePushes(t, n, c, p)
    BY <2>2, SourcePushesServes
  <2>3. CASE \E n \in Nodes, p \in FreshParams : SendPacket(t, n, p)
    BY <2>3, SendPacketServes
  <2>4. CASE HandlerReturns(t) \/ HandlerThrows(t)
    BY <2>4, HandlerEndsServes
  <2>. QED BY <1>2, <2>1, <2>2, <2>3, <2>4 DEF Environment
<1>3. ASSUME NEW g \in Groups, CallbackStep(g)
      PROVE  OwingInv' /\ Serves
  BY <1>3, PacketReadyServes, DequeueServes, DequeuedServes, DeliverQueuedServes,
     SkipEdgeServes, DeliverManualServes, NextPacketServes, NextBatchServes
     DEF CallbackStep
<1>4. CASE UNCHANGED vars
  <2>1. UNCHANGED <<stack, callback, queue, pushes, delivered>>
    BY <1>4 DEF vars
  <2>2. OwingInv'
    <3>1. \A g : InGroup(g)' = InGroup(g) /\ (GroupOnce(g)' <=> GroupOnce(g))
      BY <2>1 DEF InGroup, GroupOnce
    <3>2. GroupsOnce' /\ BatchInv' /\ CallsDistinct' /\ DeliveredKnown'
      BY <2>1, <3>1
         DEF OwingInv, GroupsOnce, BatchInv, CallsDistinct, DeliveredKnown
    <3>3. \A t, f : CallSound(t, f)' <=> CallSound(t, f)
      BY <2>1, <3>1 DEF CallSound
    <3>4. CallsSound'
      BY <2>1, <3>3 DEF OwingInv, CallsSound
    <3>. QED BY <3>2, <3>4 DEF OwingInv
  <2>3. Owed' = Owed /\ Open' = Open
    BY <2>1 DEF Owed, Open
  <2>. QED BY <2>1, <2>2, <2>3 DEF Serves
<1>. QED BY <1>1, <1>2, <1>3, <1>4 DEF Next

(***************************************************************************)
(* A number is in one activation only and in the hands of a group once,    *)
(* whatever pushPacket(), sendPacket() and packetReady() do.               *)
(***************************************************************************)
LEMMA AlwaysOwing == Spec => []OwingInv
<1>. QED BY OwingInit, OwingNext, AlwaysHome, PTL DEF Spec

(***************************************************************************)
(* Every edge of a channel gets each packet once, on its target's thread,  *)
(* whichever of pushPacket() and packetReady() serves it, and loses it     *)
(* only to an exception out of the very call that pushed it: PacketRouting *)
(* implements PacketDelivery.                                              *)
(***************************************************************************)
THEOREM Refinement == Spec => ImplementsDelivery
<1>1. HomeInv /\ OwingInv /\ [Next]_vars => [Promise!Next]_(Promise!vars)
  BY OwingNext DEF Serves, Promise!vars
<1>. QED BY <1>1, OwingInit, AlwaysHome, AlwaysOwing, PTL
         DEF Spec, ImplementsDelivery, Promise!Spec
-----------------------------------------------------------------------------
(***************************************************************************)
(* The order, for every graph: packets pushed one after the other arrive   *)
(* in that order, and a push inherits from the packet its handler was      *)
(* given, wherever no activation inside can take the node up again.        *)
(***************************************************************************)

(***************************************************************************)
(* The invariant.  An activation deeper in a stack is one that the         *)
(* activations below it may run: a push for a node they reach, or a        *)
(* handler that such a push calls.  So one node's activations nest only as *)
(* Repushes and Reenters say; elsewhere a node has one at a time, what it  *)
(* queues is numbered in order, and nothing assigns its slot of parameters *)
(* before its handler is done.                                             *)
(***************************************************************************)
NodeOf(f) == IF f.pc = "handler" THEN f.node ELSE f.info.node

\* The nodes pushed for by what an activation runs, at any depth.
Inside(t, f) ==
  Reached(t, IF IsCall(f) THEN PushedIn(t, NodeOf(f)) ELSE Pushers(NodeOf(f)))

\* The handler of n is called by a push of f, or by f itself.
CalledInside(t, f, n) ==
  \/ IsCall(f) /\ n \in CalledBy(t, NodeOf(f))
  \/ \E m \in Inside(t, f) : n \in CalledBy(t, m)

\* h may be above f.
MayRun(t, f, h) ==
  IF IsCall(h) THEN NodeOf(h) \in Inside(t, f) ELSE CalledInside(t, f, NodeOf(h))

\* h may be right above f: a push of a handler, or a handler that a push calls.
Runs(t, f, h) ==
  IF IsCall(h)
  THEN ~ IsCall(f) /\ NodeOf(h) \in Pushers(NodeOf(f))
  ELSE IsCall(f) /\ NodeOf(h) \in CalledBy(t, NodeOf(f))

Nested(t, frames) ==
  \A i, j \in DOMAIN frames : i < j =>
    /\ MayRun(t, frames[i], frames[j])
    /\ j = i + 1 => Runs(t, frames[i], frames[j])

NestInv == \A t \in Threads : Nested(t, stack[t])

\* A handler's packet is the last one its node was given.
ParamsInv ==
  \A t \in Threads : \A i \in DOMAIN stack[t] :
    (stack[t][i].pc = "handler" /\ ~ Reenters(stack[t][i].node))
      => lastReceived[stack[t][i].node] = stack[t][i].params

-----------------------------------------------------------------------------
\* What is reached holds what it is reached from, and all that is pushed for
\* in turn.
LEMMA ReachedCloses ==
  ASSUME NEW t, NEW N \in SUBSET Nodes
  PROVE  /\ N \subseteq Reached(t, N)
         /\ Reached(t, N) \subseteq Nodes
         /\ \A m \in Reached(t, N) : PushedIn(t, m) \subseteq Reached(t, N)
<1>1. \A m \in Nodes : PushedIn(t, m) \subseteq Nodes
  BY ImplementationAssumption DEF PushedIn, Pushers, CalledBy
<1>2. ASSUME NEW m \in Reached(t, N), NEW n \in PushedIn(t, m)
      PROVE  n \in Reached(t, N)
  <2>1. n \in Nodes
    BY <1>1 DEF Reached
  <2>2. ASSUME NEW S \in SUBSET Nodes, N \subseteq S,
               \A q \in S : PushedIn(t, q) \subseteq S
        PROVE  n \in S
    BY <2>2 DEF Reached
  <2>. QED BY <2>1, <2>2 DEF Reached
<1>. QED BY <1>2 DEF Reached

\* The same for an activation, its own calls included.
LEMMA InsideCloses ==
  ASSUME NEW t, NEW f, NodeOf(f) \in Nodes
  PROVE  /\ IsCall(f) => PushedIn(t, NodeOf(f)) \subseteq Inside(t, f)
         /\ ~ IsCall(f) => Pushers(NodeOf(f)) \subseteq Inside(t, f)
         /\ \A m \in Inside(t, f) : PushedIn(t, m) \subseteq Inside(t, f)
<1>1. PushedIn(t, NodeOf(f)) \in SUBSET Nodes /\ Pushers(NodeOf(f)) \in SUBSET Nodes
  BY ImplementationAssumption DEF PushedIn, Pushers, CalledBy
<1>. QED BY <1>1, ReachedCloses DEF Inside

\* The activations below one that runs another may run it too.
LEMMA RunsInside ==
  ASSUME NEW t, NEW k, NEW h, Runs(t, k, h), NodeOf(k) \in Nodes
  PROVE  /\ MayRun(t, k, h)
         /\ \A f : NodeOf(f) \in Nodes /\ MayRun(t, f, k) => MayRun(t, f, h)
<1>1. MayRun(t, k, h)
  BY InsideCloses DEF Runs, MayRun, CalledInside
<1>2. ASSUME NEW f, NodeOf(f) \in Nodes, MayRun(t, f, k) PROVE MayRun(t, f, h)
  <2>1. CASE IsCall(h)
    <3>1. /\ ~ IsCall(k) /\ NodeOf(h) \in Pushers(NodeOf(k))
          /\ CalledInside(t, f, NodeOf(k))
      BY <1>2, <2>1 DEF Runs, MayRun
    <3>2. ASSUME NEW m, NodeOf(k) \in CalledBy(t, m) PROVE NodeOf(h) \in PushedIn(t, m)
      BY <3>1, <3>2 DEF PushedIn
    <3>3. NodeOf(h) \in Inside(t, f)
      BY <1>2, <3>1, <3>2, InsideCloses DEF CalledInside
    <3>. QED BY <2>1, <3>3 DEF MayRun
  <2>2. CASE ~ IsCall(h)
    BY <1>2, <2>2 DEF Runs, MayRun, CalledInside
  <2>. QED BY <2>1, <2>2
<1>. QED BY <1>1, <1>2

\* Two pushes for one node in one stack.
LEMMA NestedRepushes ==
  ASSUME NEW t, NEW frames, Nested(t, frames),
         NEW i \in DOMAIN frames, NEW j \in DOMAIN frames, i < j,
         IsCall(frames[i]), IsCall(frames[j]),
         NodeOf(frames[i]) = NodeOf(frames[j])
  PROVE  Repushes(t, NodeOf(frames[j]))
<1>1. MayRun(t, frames[i], frames[j])
  BY DEF Nested
<1>. QED BY <1>1 DEF MayRun, Inside, Repushes

\* Two handlers of one node in one stack, of the node's own thread.
LEMMA NestedReenters ==
  ASSUME NEW t, NEW frames, Nested(t, frames),
         NEW i \in DOMAIN frames, NEW j \in DOMAIN frames, i < j,
         ~ IsCall(frames[i]), ~ IsCall(frames[j]),
         NodeOf(frames[i]) = NodeOf(frames[j]), GroupOf[NodeOf(frames[j])] = t
  PROVE  Reenters(NodeOf(frames[j]))
<1>1. MayRun(t, frames[i], frames[j])
  BY DEF Nested
<1>. QED BY <1>1 DEF MayRun, CalledInside, Inside, Reenters

\* An activation keeps its part in a stack while its program counter moves.
SameRole(f, h) ==
  /\ NodeOf(f) = NodeOf(h)
  /\ IsCall(f) <=> IsCall(h)
  /\ IsCall(f) => f.info.id = h.info.id
  /\ ~ IsCall(f) => h.params = f.params

RolesKept ==
  \A t \in Threads : \A i \in DOMAIN stack'[t] :
    i \in DOMAIN stack[t] /\ SameRole(stack'[t][i], stack[t][i])

LEMMA SameIsSameRole == \A f : SameRole(f, f)
BY DEF SameRole

LEMMA SameCallIsSameRole ==
  ASSUME NEW f, NEW h, IsCall(f), IsCall(h),
         f.info.node = h.info.node, f.info.id = h.info.id
  PROVE  SameRole(f, h)
BY DEF SameRole, NodeOf, IsCall

\* Only the part counts.
LEMMA MayRunByRole ==
  ASSUME NEW t, NEW f, NEW h, NEW g, NEW k, SameRole(f, g), SameRole(h, k)
  PROVE  /\ MayRun(t, f, h) <=> MayRun(t, g, k)
         /\ Runs(t, f, h) <=> Runs(t, g, k)
<1>1. NodeOf(f) = NodeOf(g) /\ (IsCall(f) <=> IsCall(g))
  BY DEF SameRole
<1>2. NodeOf(h) = NodeOf(k) /\ (IsCall(h) <=> IsCall(k))
  BY DEF SameRole
<1>3. Inside(t, f) = Inside(t, g)
  BY <1>1 DEF Inside
<1>4. \A n : CalledInside(t, f, n) <=> CalledInside(t, g, n)
  BY <1>1, <1>3 DEF CalledInside
<1>. QED BY <1>1, <1>2, <1>3, <1>4 DEF MayRun, Runs

LEMMA NestKept ==
  ASSUME NestInv, RolesKept
  PROVE  NestInv'
<1>1. ASSUME NEW t \in Threads, NEW i \in DOMAIN stack'[t], NEW j \in DOMAIN stack'[t], i < j
      PROVE  /\ MayRun(t, stack'[t][i], stack'[t][j])
             /\ j = i + 1 => Runs(t, stack'[t][i], stack'[t][j])
  <2>1. /\ i \in DOMAIN stack[t] /\ SameRole(stack'[t][i], stack[t][i])
        /\ j \in DOMAIN stack[t] /\ SameRole(stack'[t][j], stack[t][j])
    BY DEF RolesKept
  <2>2. /\ MayRun(t, stack[t][i], stack[t][j])
        /\ j = i + 1 => Runs(t, stack[t][i], stack[t][j])
    BY <1>1, <2>1 DEF NestInv, Nested
  <2>. QED BY <2>1, <2>2, MayRunByRole
<1>2. \A t \in Threads : Nested(t, stack'[t])
  BY <1>1 DEF Nested
<1>. QED BY <1>2 DEF NestInv

\* No handler comes, and no node is given a packet.
LEMMA ParamsKept ==
  ASSUME ParamsInv, UNCHANGED lastReceived,
         \A t \in Threads : \A i \in DOMAIN stack'[t] :
           \/ IsCall(stack'[t][i])
           \/ i \in DOMAIN stack[t] /\ SameRole(stack'[t][i], stack[t][i])
  PROVE  ParamsInv'
<1>. SUFFICES ASSUME NEW t \in Threads, NEW i \in DOMAIN stack'[t],
                     stack'[t][i].pc = "handler", ~ Reenters(stack'[t][i].node)
              PROVE  lastReceived'[stack'[t][i].node] = stack'[t][i].params
  BY DEF ParamsInv, Reenters, Reached, PushedIn, CalledBy, Pushers, GoesDirect
<1>1. i \in DOMAIN stack[t] /\ SameRole(stack'[t][i], stack[t][i])
  BY DEF IsCall
<1>2. /\ stack[t][i].pc = "handler" /\ stack[t][i].node = stack'[t][i].node
      /\ stack[t][i].params = stack'[t][i].params
  BY <1>1 DEF SameRole, IsCall, NodeOf
<1>. QED BY <1>1, <1>2 DEF ParamsInv

\* A call of t puts f on its n activations.
CallOn(t, n, f) ==
  /\ DOMAIN stack[t] = 1..n /\ DOMAIN stack'[t] = 1..(n + 1)
  /\ \A i \in 1..n : SameRole(stack'[t][i], stack[t][i])
  /\ stack'[t][n + 1] = f
  /\ \A u \in Threads \ {t} : stack'[u] = stack[u]

\* A node is given a packet and its handler comes on top of the stack of t.
LEMMA ParamsPushed ==
  ASSUME ParamsInv, HomeInv, NestInv', NEW t \in Threads, NEW n \in Nat, NEW f,
         CallOn(t, n, f),
         f.pc = "handler", f.node \in Nodes, GroupOf[f.node] = t,
         lastReceived' = [lastReceived EXCEPT ![f.node] = f.params]
  PROVE  ParamsInv'
<1>. /\ DOMAIN stack[t] = 1..n /\ DOMAIN stack'[t] = 1..(n + 1)
     /\ \A i \in 1..n : SameRole(stack'[t][i], stack[t][i])
     /\ stack'[t][n + 1] = f
     /\ \A u \in Threads \ {t} : stack'[u] = stack[u]
  BY SMTT(60) DEF CallOn
<1>. SUFFICES ASSUME NEW u \in Threads, NEW i \in DOMAIN stack'[u],
                     stack'[u][i].pc = "handler", ~ Reenters(stack'[u][i].node)
              PROVE  lastReceived'[stack'[u][i].node] = stack'[u][i].params
  BY DEF ParamsInv, Reenters, Reached, PushedIn, CalledBy, Pushers, GoesDirect
<1>1. lastReceived'[f.node] = f.params
  BY DEF HomeInv, ScalarInv
<1>2. CASE u = t /\ i = n + 1
  BY <1>1, <1>2
<1>3. CASE ~ (u = t /\ i = n + 1)
  <2>1. i \in DOMAIN stack[u] /\ SameRole(stack'[u][i], stack[u][i])
    <3>1. CASE u = t
      BY <1>3, <3>1
    <3>2. CASE u # t
      BY <3>2, SameIsSameRole
    <3>. QED BY <3>1, <3>2
  <2>2. /\ stack[u][i].pc = "handler" /\ stack[u][i].node = stack'[u][i].node
        /\ stack[u][i].params = stack'[u][i].params
    BY <2>1 DEF SameRole, IsCall, NodeOf
  <2>3. stack[u][i] \in HomeFrame(u)
    BY <2>1, ElementOfSeq DEF HomeInv, StackInv
  <2>4. GroupOf[stack'[u][i].node] = u /\ stack'[u][i].node \in Nodes
    BY <2>2, <2>3 DEF HomeFrame, Frame, HandlerFrame, EdgeFrame, QueueFrame
  <2>5. stack'[u][i].node # f.node
    <3>. SUFFICES ASSUME stack'[u][i].node = f.node PROVE FALSE
      OBVIOUS
    <3>1. u = t /\ i \in DOMAIN stack'[t] /\ n + 1 \in DOMAIN stack'[t] /\ i < n + 1
      BY <1>3, <2>4
    <3>2. Nested(t, stack'[t])
      BY DEF NestInv
    <3>3. /\ NodeOf(stack'[t][i]) = f.node /\ NodeOf(stack'[t][n + 1]) = f.node
          /\ ~ IsCall(stack'[t][i]) /\ ~ IsCall(stack'[t][n + 1])
      BY <3>1 DEF NodeOf, IsCall
    <3>4. Reenters(f.node)
      BY <3>1, <3>2, <3>3, NestedReenters
    <3>. QED BY <3>4
  <2>6. lastReceived'[stack'[u][i].node] = lastReceived[stack'[u][i].node]
    BY <2>4, <2>5 DEF HomeInv, ScalarInv
  <2>. QED BY <2>1, <2>2, <2>6 DEF ParamsInv
<1>. QED BY <1>2, <1>3

LEMMA NodeOfFrame ==
  ASSUME HomeInv, NEW t \in Threads, NEW i \in DOMAIN stack[t]
  PROVE  NodeOf(stack[t][i]) \in Nodes
<1>1. stack[t][i] \in Frame
  BY ElementOfSeq DEF HomeInv, StackInv
<1>. QED BY <1>1 DEF Frame, EdgeFrame, QueueFrame, HandlerFrame, EdgeInfo, Info, NodeOf

\* A new activation on top of one that may run it.
LEMMA NestPushed ==
  ASSUME HomeInv, NestInv, NEW t \in Threads, NEW n \in Nat, NEW f,
         CallOn(t, n, f), n # 0 => Runs(t, stack[t][n], f)
  PROVE  NestInv'
<1>. /\ DOMAIN stack[t] = 1..n /\ DOMAIN stack'[t] = 1..(n + 1)
     /\ \A i \in 1..n : SameRole(stack'[t][i], stack[t][i])
     /\ stack'[t][n + 1] = f
     /\ \A u \in Threads \ {t} : stack'[u] = stack[u]
  BY DEF CallOn
<1>1. ASSUME NEW i \in 1..n
      PROVE  /\ MayRun(t, stack[t][i], f)
             /\ i = n => Runs(t, stack[t][i], f)
  <2>1. n # 0 /\ n \in DOMAIN stack[t] /\ i \in DOMAIN stack[t]
    OBVIOUS
  <2>2. NodeOf(stack[t][i]) \in Nodes /\ NodeOf(stack[t][n]) \in Nodes
    BY <2>1, NodeOfFrame
  <2>3. i # n => MayRun(t, stack[t][i], stack[t][n])
    BY <2>1 DEF NestInv, Nested
  <2>. QED BY <2>1, <2>2, <2>3, RunsInside
<1>2. ASSUME NEW i \in DOMAIN stack'[t], NEW j \in DOMAIN stack'[t], i < j
      PROVE  /\ MayRun(t, stack'[t][i], stack'[t][j])
             /\ j = i + 1 => Runs(t, stack'[t][i], stack'[t][j])
  <2>1. /\ i \in 1..n /\ SameRole(stack'[t][i], stack[t][i])
        /\ j \in 1..n \/ j = n + 1
    BY <1>2
  <2>2. CASE j \in 1..n
    <3>1. SameRole(stack'[t][j], stack[t][j])
      BY <2>2
    <3>2. /\ MayRun(t, stack[t][i], stack[t][j])
          /\ j = i + 1 => Runs(t, stack[t][i], stack[t][j])
      BY <1>2, <2>1, <2>2 DEF NestInv, Nested
    <3>. QED BY <2>1, <3>1, <3>2, MayRunByRole
  <2>3. CASE j = n + 1
    <3>1. stack'[t][j] = f /\ SameRole(stack'[t][j], f)
      BY <2>3, SameIsSameRole
    <3>2. MayRun(t, stack[t][i], f) /\ (j = i + 1 => Runs(t, stack[t][i], f))
      BY <1>1, <2>1, <2>3
    <3>. QED BY <2>1, <3>1, <3>2, MayRunByRole
  <2>. QED BY <2>1, <2>2, <2>3
<1>3. Nested(t, stack'[t])
  BY <1>2 DEF Nested
<1>4. \A u \in Threads : Nested(u, stack'[u])
  BY <1>3 DEF NestInv
<1>. QED BY <1>4 DEF NestInv

-----------------------------------------------------------------------------
\* The steps that keep every activation's part.

LEMMA ThreadKeepsRoles ==
  ASSUME NEW t \in Threads, \A u \in Threads \ {t} : stack'[u] = stack[u],
         \A i \in DOMAIN stack'[t] :
           i \in DOMAIN stack[t] /\ SameRole(stack'[t][i], stack[t][i])
  PROVE  RolesKept
BY SameIsSameRole DEF RolesKept

LEMMA StackKeepsRoles == UNCHANGED stack => RolesKept
BY SameIsSameRole DEF RolesKept

LEMMA ReturnKeepsRoles ==
  ASSUME HomeInv, NEW t \in Threads, stack[t] # <<>>, Return(t)
  PROVE  RolesKept
<1>1. \A u \in Threads \ {t} : stack'[u] = stack[u]
  BY OthersKeepStack
<1>2. \A i \in DOMAIN stack'[t] : i \in DOMAIN stack[t] /\ stack'[t][i] = stack[t][i]
  BY ReturnShape
<1>. QED BY <1>1, <1>2, SameIsSameRole, ThreadKeepsRoles

LEMMA UnwindKeepsRoles ==
  ASSUME HomeInv, NEW t \in Threads, Unwind(t)
  PROVE  RolesKept
<1>1. \A u \in Threads \ {t} : stack'[u] = stack[u]
  BY OthersKeepStack
<1>2. \A i \in DOMAIN stack'[t] : i \in DOMAIN stack[t] /\ stack'[t][i] = stack[t][i]
  BY UnwindShape
<1>. QED BY <1>1, <1>2, SameIsSameRole, ThreadKeepsRoles

LEMMA SetTopKeepsRoles ==
  ASSUME HomeInv, NEW t \in Threads, stack[t] # <<>>, NEW f, SetTop(t, f),
         SameRole(f, Last(stack[t]))
  PROVE  RolesKept
<1>. PICK n : n = Len(stack[t])
  OBVIOUS
<1>1. \A u \in Threads \ {t} : stack'[u] = stack[u]
  BY OthersKeepStack
<1>2. /\ DOMAIN stack'[t] = DOMAIN stack[t]
      /\ Last(stack[t]) = stack[t][n]
      /\ \A i \in DOMAIN stack[t] \ {n} : stack'[t][i] = stack[t][i]
      /\ stack'[t][n] = f
  BY SetTopShape
<1>3. ASSUME NEW i \in DOMAIN stack'[t]
      PROVE  i \in DOMAIN stack[t] /\ SameRole(stack'[t][i], stack[t][i])
  BY <1>2, SameIsSameRole
<1>. QED BY <1>1, <1>3, ThreadKeepsRoles

LEMMA AccumulateKeepsRoles ==
  ASSUME HomeInv, OwingInv, NEW t \in Threads, Accumulate(t)
  PROVE  RolesKept
<1>. PICK top : top = Last(stack[t])
  OBVIOUS
<1>. PICK last : last = lastReceived[top.info.node]
  OBVIOUS
<1>f. PICK f : f = [top EXCEPT !.pc = "edges", !.info.params = Accumulated(@, last)]
  OBVIOUS
<1>1. stack[t] # <<>> /\ IsCall(top) /\ top \in EdgeFrame
  BY TopCall DEF Accumulate
<1>2. f.pc = "edges" /\ f.info.id = top.info.id /\ f.info.node = top.info.node
  BY <1>1, <1>f DEF EdgeFrame, EdgeInfo
<1>3. SameRole(f, top)
  BY <1>1, <1>2, SameCallIsSameRole DEF IsCall
<1>4. Unwind(t) \/ Return(t) \/ SetTop(t, f)
  BY <1>f DEF Accumulate
<1>. QED BY <1>1, <1>3, <1>4, UnwindKeepsRoles, ReturnKeepsRoles, SetTopKeepsRoles

LEMMA PushEdgeAsideKeepsRoles ==
  ASSUME HomeInv, OwingInv, NEW t \in Threads, PushEdgeAside(t)
  PROVE  RolesKept
<1>. PICK top : top = Last(stack[t])
  OBVIOUS
<1>. PICK g : g = GroupOf[OutEdges(top.info)[top.next].next]
  OBVIOUS
<1>gs. PICK gs : gs = IF \E i \in DOMAIN top.groups : top.groups[i] = g
                       THEN top.groups ELSE Append(top.groups, g)
  OBVIOUS
<1>f. PICK f : f = [top EXCEPT !.next = @ + 1, !.groups = gs]
  OBVIOUS
<1>1. stack[t] # <<>> /\ IsCall(top) /\ top \in EdgeFrame
  BY TopCall DEF PushEdgeAside
<1>2. f.pc = top.pc /\ f.info = top.info
  BY <1>1, <1>f DEF EdgeFrame
<1>3. SameRole(f, top)
  BY SMTT(60), <1>1, <1>2, SameCallIsSameRole DEF IsCall
<1>4. SetTop(t, f)
  BY <1>gs, <1>f DEF PushEdgeAside
<1>. QED BY <1>1, <1>3, <1>4, SetTopKeepsRoles

LEMMA EndEdgesKeepsRoles ==
  ASSUME HomeInv, OwingInv, NEW t \in Threads, EndEdges(t)
  PROVE  RolesKept
<1>. PICK top : top = Last(stack[t])
  OBVIOUS
<1>f. PICK f : f = [top EXCEPT !.pc = "enqueue"]
  OBVIOUS
<1>1. stack[t] # <<>> /\ IsCall(top) /\ top \in EdgeFrame
  BY TopCall DEF EndEdges
<1>2. f.pc = "enqueue" /\ f.info = top.info
  BY <1>1, <1>f DEF EdgeFrame
<1>3. SameRole(f, top)
  BY <1>1, <1>2, SameCallIsSameRole DEF IsCall
<1>4. Return(t) \/ SetTop(t, f)
  BY <1>f DEF EndEdges
<1>. QED BY <1>1, <1>3, <1>4, ReturnKeepsRoles, SetTopKeepsRoles

LEMMA EnqueueKeepsRoles ==
  ASSUME HomeInv, OwingInv, NEW t \in Threads, Enqueue(t)
  PROVE  RolesKept
<1>. PICK top : top = Last(stack[t])
  OBVIOUS
<1>f. PICK f : f = [top EXCEPT !.pc = "signal"]
  OBVIOUS
<1>1. stack[t] # <<>> /\ IsCall(top) /\ top \in QueueFrame
  BY TopCall DEF Enqueue
<1>2. f.pc = "signal" /\ f.info = top.info
  BY <1>1, <1>f DEF QueueFrame
<1>3. SameRole(f, top)
  BY SMTT(60), <1>1, <1>2, SameCallIsSameRole DEF IsCall
<1>4. SetTop(t, f)
  BY <1>f DEF Enqueue
<1>. QED BY <1>1, <1>3, <1>4, SetTopKeepsRoles

LEMMA SignalKeepsRoles ==
  ASSUME HomeInv, OwingInv, NEW t \in Threads, Signal(t)
  PROVE  RolesKept
<1>. PICK top : top = Last(stack[t])
  OBVIOUS
<1>f. PICK f : f = [top EXCEPT !.pc = "enqueue", !.groups = Tail(@)]
  OBVIOUS
<1>1. stack[t] # <<>> /\ IsCall(top) /\ top \in QueueFrame
  BY TopCall DEF Signal
<1>2. f.pc = "enqueue" /\ f.info = top.info
  BY <1>1, <1>f DEF QueueFrame
<1>3. SameRole(f, top)
  BY <1>1, <1>2, SameCallIsSameRole DEF IsCall
<1>4. Return(t) \/ SetTop(t, f)
  BY <1>f DEF Signal
<1>. QED BY <1>1, <1>3, <1>4, ReturnKeepsRoles, SetTopKeepsRoles

LEMMA HandlerEndsKeepsRoles ==
  ASSUME HomeInv, NEW t \in Threads, HandlerReturns(t) \/ HandlerThrows(t)
  PROVE  RolesKept
<1>1. stack[t] # <<>> /\ (Return(t) \/ Unwind(t))
  BY DEF HandlerReturns, HandlerThrows, Running
<1>. QED BY <1>1, ReturnKeepsRoles, UnwindKeepsRoles

-----------------------------------------------------------------------------
\* The steps that push or call.

LEMMA StackDomain ==
  ASSUME HomeInv, NEW t \in Threads
  PROVE  /\ stack[t] \in Seq(Frame)
         /\ Len(stack[t]) \in Nat
         /\ DOMAIN stack[t] = 1..Len(stack[t])
         /\ stack[t] = <<>> <=> Len(stack[t]) = 0
         /\ stack[t] # <<>> => Last(stack[t]) = stack[t][Len(stack[t])]
<1>1. stack[t] \in Seq(Frame)
  BY DEF HomeInv, StackInv
<1>. QED BY <1>1 DEF Last

\* A handler has been called on t.
Called(t) == \E n \in Nat : \E f : CallOn(t, n, f) /\ ~ IsCall(f)

LEMMA CallOnKept ==
  ASSUME NEW t \in Threads, NEW n \in Nat, NEW f, CallOn(t, n, f),
         NEW u \in Threads, NEW i \in DOMAIN stack'[u]
  PROVE  \/ i \in DOMAIN stack[u] /\ SameRole(stack'[u][i], stack[u][i])
         \/ stack'[u][i] = f
<1>1. CASE u # t
  BY <1>1, SameIsSameRole DEF CallOn
<1>2. CASE u = t
  <2>1. i = n + 1 \/ i \in 1..n
    BY <1>2 DEF CallOn
  <2>. QED BY <1>2, <2>1 DEF CallOn
<1>. QED BY <1>1, <1>2

LEMMA CallIsCallOn ==
  ASSUME HomeInv, NEW t \in Threads, NEW f, Call(t, f)
  PROVE  CallOn(t, Len(stack[t]), f)
<1>1. DOMAIN stack[t] = 1..Len(stack[t])
  BY StackDomain
<1>2. /\ DOMAIN stack'[t] = 1..(Len(stack[t]) + 1)
      /\ \A i \in DOMAIN stack[t] : stack'[t][i] = stack[t][i]
      /\ stack'[t][Len(stack[t]) + 1] = f
  BY CallShape
<1>3. \A u \in Threads \ {t} : stack'[u] = stack[u]
  BY OthersKeepStack
<1>4. \A i \in 1..Len(stack[t]) : SameRole(stack'[t][i], stack[t][i])
  BY <1>1, <1>2, SameIsSameRole
<1>. QED BY <1>1, <1>2, <1>3, <1>4 DEF CallOn

\* Anything pushed onto an empty stack.
LEMMA NestFirst ==
  ASSUME NestInv, NEW t \in Threads, NEW f, CallOn(t, 0, f)
  PROVE  NestInv'
<1>1. DOMAIN stack'[t] = {1}
  BY DEF CallOn
<1>2. Nested(t, stack'[t])
  BY <1>1 DEF Nested
<1>. QED BY <1>2 DEF NestInv, CallOn

\* A call of pushPacket() or sendPacket() begins.
Pushed(t) ==
  \E n \in Nat : \E f :
    /\ CallOn(t, n, f) /\ IsCall(f) /\ f.info.id = pushes + 1 /\ f.info.by = t
    /\ UNCHANGED <<callback, queue, lastReceived, delivered>>

LEMMA PushedParams ==
  ASSUME ParamsInv, NEW t \in Threads, Pushed(t)
  PROVE  ParamsInv'
<1>. PICK n, f :
       n \in Nat /\ CallOn(t, n, f) /\ IsCall(f) /\ UNCHANGED lastReceived
  BY DEF Pushed
<1>1. ASSUME NEW u \in Threads, NEW i \in DOMAIN stack'[u]
      PROVE  \/ IsCall(stack'[u][i])
             \/ i \in DOMAIN stack[u] /\ SameRole(stack'[u][i], stack[u][i])
  BY CallOnKept
<1>. QED BY <1>1, ParamsKept

LEMMA HandlerPushesNests ==
  ASSUME HomeInv, NestInv, ParamsInv, NEW t \in Threads, NEW m \in Nodes,
         NEW c \in Channels, NEW p \in Params, HandlerPushes(t, m, c, p)
  PROVE  NestInv' /\ ParamsInv' /\ Pushed(t)
<1>. PICK n : n = Len(stack[t])
  OBVIOUS
<1>. PICK f : f = PushOf(NewInfo(t, m, c, p))
  OBVIOUS
<1>1. /\ stack[t] # <<>> /\ Last(stack[t]).pc = "handler"
      /\ m \in Pushers(Last(stack[t]).node)
      /\ Call(t, f) /\ UNCHANGED <<callback, queue, lastReceived, delivered>>
  BY DEF HandlerPushes, Running
<1>2. f.pc = "accumulate" /\ f.info.node = m /\ f.info.id = pushes + 1 /\ f.info.by = t
  BY DEF PushOf, NewInfo
<1>3. n \in Nat /\ n # 0 /\ Last(stack[t]) = stack[t][n]
  BY <1>1, StackDomain
<1>4. CallOn(t, n, f)
  BY <1>1, CallIsCallOn
<1>5. IsCall(f) /\ NodeOf(f) = m
  BY <1>2 DEF IsCall, NodeOf
<1>6. Runs(t, stack[t][n], f)
  BY <1>1, <1>3, <1>5 DEF Runs, NodeOf, IsCall
<1>7. NestInv'
  BY <1>3, <1>4, <1>6, NestPushed
<1>8. Pushed(t)
  BY <1>1, <1>2, <1>3, <1>4, <1>5 DEF Pushed
<1>. QED BY <1>7, <1>8, PushedParams

LEMMA SourcePushesNests ==
  ASSUME HomeInv, NestInv, ParamsInv, NEW t \in Threads, NEW n \in Nodes,
         NEW c \in Channels, NEW p \in FreshParams, SourcePushes(t, n, c, p)
  PROVE  NestInv' /\ ParamsInv' /\ Pushed(t)
<1>. PICK f : f = PushOf(NewInfo(t, n, c, p))
  OBVIOUS
<1>1. /\ stack[t] = <<>> /\ Call(t, f)
      /\ UNCHANGED <<callback, queue, lastReceived, delivered>>
  BY DEF SourcePushes, AtRest
<1>2. f.pc = "accumulate" /\ f.info.id = pushes + 1 /\ f.info.by = t
  BY DEF PushOf, NewInfo
<1>3. CallOn(t, 0, f)
  BY <1>1, CallIsCallOn, StackDomain
<1>4. Pushed(t)
  BY <1>1, <1>2, <1>3 DEF Pushed, IsCall
<1>. QED BY <1>3, <1>4, NestFirst, PushedParams

LEMMA SendPacketNests ==
  ASSUME HomeInv, NestInv, ParamsInv, NEW t \in Threads, NEW n \in Nodes,
         NEW p \in FreshParams, SendPacket(t, n, p)
  PROVE  NestInv' /\ ParamsInv' /\ Pushed(t)
<1>. PICK f : f = HandOver(NewInfo(t, n, Manual, p), <<GroupOf[n]>>)
  OBVIOUS
<1>1. /\ stack[t] = <<>> /\ Call(t, f)
      /\ UNCHANGED <<callback, queue, lastReceived, delivered>>
  BY DEF SendPacket, AtRest
<1>2. f.pc = "enqueue" /\ f.info.id = pushes + 1 /\ f.info.by = t
  BY DEF HandOver, NewInfo
<1>3. CallOn(t, 0, f)
  BY <1>1, CallIsCallOn, StackDomain
<1>4. Pushed(t)
  BY <1>1, <1>2, <1>3 DEF Pushed, IsCall
<1>. QED BY <1>3, <1>4, NestFirst, PushedParams

\* packetReady() calls a handler of a node of its own group.
LEMMA HandlerFirst ==
  ASSUME HomeInv, NestInv, ParamsInv, NEW g \in Groups, stack[g] = <<>>,
         NEW n \in Nodes, NEW info, NEW i, GroupOf[n] = g,
         SendToNode(g, n, info, i), Call(g, HandlerOf(n, info.params))
  PROVE  NestInv' /\ ParamsInv' /\ Called(g)
<1>. PICK f : f = HandlerOf(n, info.params)
  OBVIOUS
<1>1. f.pc = "handler" /\ f.node = n /\ f.params = info.params
  BY DEF HandlerOf
<1>2. g \in Threads
  BY DEF Threads
<1>3. CallOn(g, 0, f)
  BY <1>2, CallIsCallOn, StackDomain
<1>4. NestInv'
  BY <1>2, <1>3, NestFirst
<1>5. lastReceived' = [lastReceived EXCEPT ![f.node] = f.params]
  BY <1>1 DEF SendToNode
<1>6. f.node \in Nodes /\ GroupOf[f.node] = g
  BY <1>1
<1>7. ParamsInv'
  BY <1>1, <1>2, <1>3, <1>4, <1>5, <1>6, ParamsPushed
<1>8. Called(g)
  BY <1>1, <1>3 DEF Called, IsCall
<1>. QED BY <1>4, <1>7, <1>8

LEMMA DeliverQueuedNests ==
  ASSUME HomeInv, OwingInv, NestInv, ParamsInv, NEW g \in Groups, DeliverQueued(g)
  PROVE  NestInv' /\ ParamsInv' /\ Called(g)
<1>. PICK info : info = Head(callback[g].batch)
  OBVIOUS
<1>i. PICK i : i = callback[g].next
  OBVIOUS
<1>. PICK edge : edge = OutEdges(info)[i]
  BY SMTT(60)
<1>1. InHand(g) /\ info \in Info /\ i \in Nat \ {0} /\ stack[g] = <<>>
  BY SMTT(60), <1>i, PacketInHand DEF DeliverQueued
<1>2. /\ info.chan # Manual /\ i <= Len(OutEdges(info))
      /\ DueFromQueue(g, info.by, edge)
      /\ SendToNode(g, edge.next, info, i)
      /\ Call(g, HandlerOf(edge.next, info.params))
  BY SMTT(60), <1>i DEF DeliverQueued
<1>3. edge.next \in Nodes /\ GroupOf[edge.next] = g
  <2>1. edge \in Edge
    BY <1>1, <1>2, EdgeType DEF Info
  <2>. QED BY <1>2, <2>1 DEF Edge, DueFromQueue
<1>. QED BY <1>1, <1>2, <1>3, HandlerFirst

LEMMA DeliverManualNests ==
  ASSUME HomeInv, OwingInv, NestInv, ParamsInv, NEW g \in Groups, DeliverManual(g)
  PROVE  NestInv' /\ ParamsInv' /\ Called(g)
<1>. PICK info : info = Head(callback[g].batch)
  OBVIOUS
<1>1. InHand(g) /\ info \in HomeInfo(g) /\ info \in Info /\ stack[g] = <<>>
  BY PacketInHand DEF DeliverManual
<1>2. /\ info.chan = Manual
      /\ SendToNode(g, info.node, info, 0)
      /\ Call(g, HandlerOf(info.node, info.params))
  BY DEF DeliverManual
<1>3. info.node \in Nodes /\ GroupOf[info.node] = g
  BY <1>1, <1>2 DEF Info, HomeInfo
<1>. QED BY <1>1, <1>2, <1>3, HandlerFirst

LEMMA PushEdgeDirectlyNests ==
  ASSUME HomeInv, OwingInv, NestInv, ParamsInv, NEW t \in Threads, PushEdgeDirectly(t)
  PROVE  NestInv' /\ ParamsInv' /\ Called(t)
<1>n. PICK n : n = Len(stack[t])
  OBVIOUS
<1>. PICK top : top = Last(stack[t])
  OBVIOUS
<1>k. PICK k : k = top.next
  OBVIOUS
<1>. PICK edge : edge = OutEdges(top.info)[k]
  OBVIOUS
<1>f. PICK f : f = [top EXCEPT !.next = @ + 1]
  OBVIOUS
<1>h. PICK h : h = HandlerOf(edge.next, top.info.params)
  OBVIOUS
<1>1. /\ stack[t] # <<>> /\ IsCall(top) /\ top.pc = "edges" /\ top \in EdgeFrame
  BY SMTT(60), TopCall DEF PushEdgeDirectly
<1>2. /\ k <= Len(OutEdges(top.info)) /\ GoesDirect(t, edge)
      /\ lastReceived' = [lastReceived EXCEPT ![edge.next] = top.info.params]
      /\ stack' = [stack EXCEPT ![t] = Append(Append(Front(@), f), h)]
  BY <1>k, <1>f, <1>h DEF PushEdgeDirectly, SendToNode
<1>3. /\ f.pc = "edges" /\ f.info = top.info /\ k \in Nat \ {0}
      /\ top.info.node \in Nodes /\ top.info.chan \in Channels
  BY <1>1, <1>f, <1>k DEF EdgeFrame, EdgeInfo
<1>4. h.pc = "handler" /\ h.node = edge.next /\ h.params = top.info.params
  BY <1>h DEF HandlerOf
<1>5. edge \in ToSet(OutEdges(top.info)) /\ edge.next \in Nodes /\ GroupOf[edge.next] = t
  <2>1. /\ OutEdges(top.info) \in Seq(Edge)
        /\ k \in DOMAIN OutEdges(top.info)
    BY <1>2, <1>3, OutEdgesType
  <2>2. edge \in Edge
    BY <2>1, ElementOfSeq
  <2>. QED BY <1>2, <2>1, <2>2 DEF ToSet, Edge, GoesDirect
<1>6. /\ n \in Nat /\ n # 0 /\ DOMAIN stack[t] = 1..n /\ top = stack[t][n]
  BY <1>1, <1>n, StackDomain
<1>7. /\ DOMAIN stack'[t] = 1..(n + 1)
      /\ \A i \in 1..(n - 1) : stack'[t][i] = stack[t][i]
      /\ stack'[t][n] = f /\ stack'[t][n + 1] = h
  <2>. PICK a : a = Front(stack[t])
    OBVIOUS
  <2>1. /\ a \in Seq(Frame) /\ Len(a) = n - 1
        /\ \A i \in 1..(n - 1) : a[i] = stack[t][i]
    BY <1>1, <1>n, StackDomain, LastFront
  <2>b. PICK b : b = Append(a, f)
    OBVIOUS
  <2>2. /\ DOMAIN b = 1..n /\ b[n] = f /\ Len(b) = n
        /\ \A i \in 1..(n - 1) : b[i] = a[i]
    BY <1>6, <2>1, <2>b
  <2>c. PICK c : c = Append(b, h)
    OBVIOUS
  <2>3. /\ DOMAIN c = 1..(n + 1) /\ c[n + 1] = h
        /\ \A i \in 1..n : c[i] = b[i]
    <3>1. \E S : b \in Seq(S)
      <4>1. b \in Seq(Frame \cup {f})
        BY <2>1, <2>b
      <4>. QED BY <4>1
    <3>. QED BY <1>6, <2>2, <2>c, <3>1
  <2>4. stack'[t] = c
    BY <1>2, <2>b, <2>c DEF HomeInv, StackInv
  <2>. QED BY <1>6, <2>1, <2>2, <2>3, <2>4
<1>8. \A u \in Threads \ {t} : stack'[u] = stack[u]
  BY <1>2 DEF HomeInv, StackInv
<1>9. \A i \in 1..n : SameRole(stack'[t][i], stack[t][i])
  <2>1. SameRole(f, top)
    BY <1>1, <1>3, SameCallIsSameRole DEF IsCall
  <2>2. ASSUME NEW i \in 1..n PROVE SameRole(stack'[t][i], stack[t][i])
    <3>1. i = n \/ i \in 1..(n - 1)
      BY <1>6
    <3>. QED BY <1>6, <1>7, <2>1, <3>1, SameIsSameRole
  <2>. QED BY <2>2
<1>c. CallOn(t, n, h)
  BY <1>6, <1>7, <1>8, <1>9 DEF CallOn
<1>10. NestInv'
  <2>1. ~ IsCall(h) /\ NodeOf(h) = edge.next /\ IsCall(stack[t][n])
        /\ NodeOf(stack[t][n]) = top.info.node
    BY SMTT(60), <1>1, <1>4, <1>6 DEF IsCall, NodeOf
  <2>2. NodeOf(h) \in CalledBy(t, NodeOf(stack[t][n]))
    BY <1>2, <1>3, <1>5, <2>1 DEF CalledBy, OutEdges
  <2>3. Runs(t, stack[t][n], h)
    BY SMTT(60), <2>1, <2>2 DEF Runs
  <2>. QED BY <1>6, <1>c, <2>3, NestPushed
<1>11. ParamsInv'
  <2>1. lastReceived' = [lastReceived EXCEPT ![h.node] = h.params]
    BY <1>2, <1>4
  <2>2. h.node \in Nodes /\ GroupOf[h.node] = t
    BY <1>4, <1>5
  <2>. QED BY <1>4, <1>6, <1>c, <1>10, <2>1, <2>2, ParamsPushed
<1>12. Called(t)
  BY <1>4, <1>6, <1>c DEF Called, IsCall
<1>. QED BY <1>10, <1>11, <1>12

-----------------------------------------------------------------------------
\* The order of the packets in the hands of a group.

\* p goes before q if one call pushed after the other for their node.
Before(p, q) ==
  (p.by = q.by /\ p.node = q.node /\ ~ Repushes(p.by, p.node)) => p.id < q.id

Ordered(packets) ==
  \A i, j \in DOMAIN packets : i < j => Before(packets[i], packets[j])

\* Every packet of the one before every packet of the other.
AllBefore(first, rest) ==
  \A i \in DOMAIN first, j \in DOMAIN rest : Before(first[i], rest[j])

AllBy(t, packets) == \A i \in DOMAIN packets : packets[i].by = t

GroupOrdered(g) ==
  /\ Ordered(callback[g].batch)
  /\ \A t \in Threads :
       /\ Ordered(queue[g][t])
       /\ AllBy(t, queue[g][t])
       /\ AllBefore(callback[g].batch, queue[g][t])

\* The packets that group g has in hand.
Held(g) ==
  ToSet(callback[g].batch) \cup UNION {ToSet(queue[g][t]) : t \in Threads}

\* The call f of t pushes nothing older than p.
NotOlder(t, f, p) ==
  (/\ IsCall(f) /\ p.by = t /\ p.node = NodeOf(f)
   /\ ~ Repushes(t, p.node)) => p.id <= f.info.id

CallsNotOlder ==
  \A g \in Groups, t \in Threads : \A i \in DOMAIN stack[t] : \A p \in Held(g) :
    NotOlder(t, stack[t][i], p)

GroupsOrdered == \A g \in Groups : GroupOrdered(g)

OrderInv == GroupsOrdered /\ CallsNotOlder

LEMMA HeldMember ==
  /\ \A g, p : p \in Held(g) <=>
       \/ \E i \in DOMAIN callback[g].batch : p = callback[g].batch[i]
       \/ \E t \in Threads : \E i \in DOMAIN queue[g][t] : p = queue[g][t][i]
  /\ \A g, p : p \in Held(g)' <=>
       \/ \E i \in DOMAIN callback'[g].batch : p = callback'[g].batch[i]
       \/ \E t \in Threads : \E i \in DOMAIN queue'[g][t] : p = queue'[g][t][i]
BY DEF Held, ToSet

\* A packet in hand is numbered, and no younger than the calls so far.
LEMMA HeldKnown ==
  ASSUME HomeInv, OwingInv, NEW g \in Groups, NEW p \in Held(g)
  PROVE  p \in HomeInfo(g) /\ p \in Info /\ p.id \in InGroup(g) /\ p.id \in 1..pushes
<1>1. p \in HomeInfo(g) /\ p.id \in InGroup(g)
  <2>1. CASE \E i \in DOMAIN callback[g].batch : p = callback[g].batch[i]
    <3>1. p \in HomeInfo(g)
      BY <2>1, ElementOfSeq DEF HomeInv, CallbackInv
    <3>2. p.id \in IdsOf(callback[g].batch)
      BY <2>1 DEF IdsOf
    <3>. QED BY <3>1, <3>2 DEF InGroup
  <2>2. CASE \E t \in Threads : \E i \in DOMAIN queue[g][t] : p = queue[g][t][i]
    <3>1. PICK t \in Threads : \E i \in DOMAIN queue[g][t] : p = queue[g][t][i]
      BY <2>2
    <3>2. p \in HomeInfo(g)
      BY <3>1, ElementOfSeq DEF HomeInv, QueueInv
    <3>3. p.id \in IdsOf(queue[g][t])
      BY <3>1 DEF IdsOf
    <3>. QED BY <3>2, <3>3 DEF InGroup
  <2>. QED BY <2>1, <2>2, HeldMember
<1>2. InGroup(g) \subseteq 1..pushes
  BY DEF OwingInv, GroupsOnce
<1>. QED BY <1>1, <1>2 DEF HomeInfo

\* The calls of a stack are old ones or the one that begins, and no group
\* has got a packet.
LEMMA NotOlderKept ==
  ASSUME HomeInv, OwingInv, CallsNotOlder,
         \A g \in Groups : Held(g)' \subseteq Held(g),
         \A t \in Threads : \A i \in DOMAIN stack'[t] :
           \/ i \in DOMAIN stack[t] /\ SameRole(stack'[t][i], stack[t][i])
           \/ IsCall(stack'[t][i]) => stack'[t][i].info.id = pushes + 1
  PROVE  CallsNotOlder'
<1>1. ASSUME NEW g \in Groups, NEW t \in Threads, NEW i \in DOMAIN stack'[t],
             NEW p \in Held(g)'
      PROVE  NotOlder(t, stack'[t][i], p)
  <2>1. p \in Held(g)
    OBVIOUS
  <2>2. CASE i \in DOMAIN stack[t] /\ SameRole(stack'[t][i], stack[t][i])
    <3>1. NotOlder(t, stack[t][i], p)
      BY <2>1, <2>2 DEF CallsNotOlder
    <3>. QED BY <2>2, <3>1 DEF NotOlder, SameRole
  <2>3. CASE IsCall(stack'[t][i]) => stack'[t][i].info.id = pushes + 1
    <3>1. p.id \in 1..pushes /\ pushes \in Nat
      BY <2>1, HeldKnown DEF HomeInv, ScalarInv
    <3>2. p.id <= pushes + 1
      BY <3>1
    <3>. QED BY <2>3, <3>2 DEF NotOlder
  <2>. QED BY <2>2, <2>3
<1>. QED BY <1>1 DEF CallsNotOlder

\* The groups have what they had.
LEMMA OrderKept ==
  ASSUME HomeInv, OwingInv, OrderInv, UNCHANGED queue,
         \A g \in Groups : callback'[g].batch = callback[g].batch,
         \A t \in Threads : \A i \in DOMAIN stack'[t] :
           \/ i \in DOMAIN stack[t] /\ SameRole(stack'[t][i], stack[t][i])
           \/ IsCall(stack'[t][i]) => stack'[t][i].info.id = pushes + 1
  PROVE  OrderInv'
<1>1. GroupsOrdered'
  BY DEF OrderInv, GroupsOrdered, GroupOrdered
<1>2. \A g \in Groups : Held(g)' \subseteq Held(g)
  BY HeldMember
<1>. QED BY <1>1, <1>2, NotOlderKept DEF OrderInv

LEMMA RolesKeepOrder ==
  ASSUME HomeInv, OwingInv, OrderInv, RolesKept, UNCHANGED <<callback, queue>>
  PROVE  OrderInv'
BY OrderKept DEF RolesKept

LEMMA PushedKeepsOrder ==
  ASSUME HomeInv, OwingInv, OrderInv, NEW t \in Threads, Pushed(t)
  PROVE  OrderInv'
<1>1. PICK n, f :
        n \in Nat /\ CallOn(t, n, f) /\ f.info.id = pushes + 1 /\ UNCHANGED <<callback, queue>>
  BY DEF Pushed
<1>2. ASSUME NEW u \in Threads, NEW i \in DOMAIN stack'[u]
      PROVE  \/ i \in DOMAIN stack[u] /\ SameRole(stack'[u][i], stack[u][i])
             \/ stack'[u][i].info.id = pushes + 1
  BY <1>1, CallOnKept
<1>. QED BY <1>1, <1>2, OrderKept

\* Handlers queue nothing by being called.
LEMMA CalledKeepsNotOlder ==
  ASSUME HomeInv, OwingInv, CallsNotOlder, NEW t \in Threads, Called(t),
         \A g \in Groups : Held(g)' \subseteq Held(g)
  PROVE  CallsNotOlder'
<1>1. PICK n, f : n \in Nat /\ CallOn(t, n, f) /\ ~ IsCall(f)
  BY DEF Called
<1>2. ASSUME NEW u \in Threads, NEW i \in DOMAIN stack'[u]
      PROVE  \/ i \in DOMAIN stack[u] /\ SameRole(stack'[u][i], stack[u][i])
             \/ ~ IsCall(stack'[u][i])
  BY <1>1, CallOnKept
<1>. QED BY <1>2, NotOlderKept

\* Sequences in order.

LEMMA OrderedTail ==
  ASSUME NEW s \in Seq(Info), s # <<>>, Ordered(s)
  PROVE  /\ Ordered(Tail(s))
         /\ \A q : AllBefore(s, q) => AllBefore(Tail(s), q)
<1>1. \A i \in DOMAIN Tail(s) :
        i \in Nat /\ i + 1 \in DOMAIN s /\ Tail(s)[i] = s[i + 1]
  BY HeadAndTail
<1>2. ASSUME NEW i \in DOMAIN Tail(s), NEW j \in DOMAIN Tail(s), i < j
      PROVE  Before(Tail(s)[i], Tail(s)[j])
  <2>1. i + 1 \in DOMAIN s /\ j + 1 \in DOMAIN s /\ i + 1 < j + 1
    BY <1>1, <1>2
  <2>2. Before(s[i + 1], s[j + 1])
    BY <2>1 DEF Ordered
  <2>. QED BY <1>1, <2>2
<1>3. ASSUME NEW q, AllBefore(s, q) PROVE AllBefore(Tail(s), q)
  BY <1>1, <1>3 DEF AllBefore
<1>. QED BY <1>2, <1>3 DEF Ordered

\* a is the first m elements of s, and r the rest.
CutAt(s, m, a, r) ==
  /\ \A i \in DOMAIN a : i \in 1..m /\ i \in DOMAIN s /\ a[i] = s[i]
  /\ \A i \in DOMAIN r : i \in Nat \ {0} /\ m + i \in DOMAIN s /\ r[i] = s[m + i]

LEMMA SubSeqsCut ==
  ASSUME NEW s \in Seq(Info), NEW m \in 0..Len(s)
  PROVE  CutAt(s, m, SubSeq(s, 1, m), SubSeq(s, m + 1, Len(s)))
<1>1. Len(s) \in Nat /\ m \in Nat /\ m <= Len(s) /\ DOMAIN s = 1..Len(s)
  OBVIOUS
<1>a. PICK a : a = SubSeq(s, 1, m)
  OBVIOUS
<1>r. PICK r : r = SubSeq(s, m + 1, Len(s))
  OBVIOUS
<1>2. \A i \in DOMAIN a : i \in 1..m /\ i \in DOMAIN s /\ a[i] = s[i]
  BY <1>1, <1>a
<1>3. \A i \in DOMAIN r : i \in Nat \ {0} /\ m + i \in DOMAIN s /\ r[i] = s[m + i]
  BY <1>1, <1>r
<1>4. CutAt(s, m, a, r)
  BY <1>2, <1>3 DEF CutAt
<1>. QED BY <1>4, <1>a, <1>r

LEMMA OrderedCut ==
  ASSUME NEW t, NEW s, NEW m \in Nat, NEW a, NEW r, CutAt(s, m, a, r),
         Ordered(s), AllBy(t, s)
  PROVE  /\ Ordered(a) /\ Ordered(r) /\ AllBefore(a, r)
         /\ AllBy(t, a) /\ AllBy(t, r)
         /\ \A old : AllBefore(old, s) => AllBefore(old, a) /\ AllBefore(old, r)
<1>2. \A i \in DOMAIN a : i \in 1..m /\ i \in DOMAIN s /\ a[i] = s[i]
  BY DEF CutAt
<1>3. \A i \in DOMAIN r : i \in Nat \ {0} /\ m + i \in DOMAIN s /\ r[i] = s[m + i]
  BY DEF CutAt
<1>4. Ordered(a)
  BY <1>2 DEF Ordered
<1>5. Ordered(r)
  <2>1. ASSUME NEW i \in DOMAIN r, NEW j \in DOMAIN r, i < j
        PROVE  Before(r[i], r[j])
    <3>1. m + i \in DOMAIN s /\ m + j \in DOMAIN s /\ m + i < m + j
      BY <1>3, <2>1
    <3>2. Before(s[m + i], s[m + j])
      BY <3>1 DEF Ordered
    <3>. QED BY <1>3, <3>2
  <2>. QED BY <2>1 DEF Ordered
<1>6. AllBefore(a, r)
  <2>1. ASSUME NEW i \in DOMAIN a, NEW j \in DOMAIN r
        PROVE  Before(a[i], r[j])
    <3>1. i \in DOMAIN s /\ m + j \in DOMAIN s /\ i < m + j
      BY <1>2, <1>3
    <3>2. Before(s[i], s[m + j])
      BY <3>1 DEF Ordered
    <3>. QED BY <1>2, <1>3, <3>2
  <2>. QED BY <2>1 DEF AllBefore
<1>7. AllBy(t, a)
  BY <1>2 DEF AllBy
<1>8. AllBy(t, r)
  BY <1>3 DEF AllBy
<1>9. ASSUME NEW old, AllBefore(old, s) PROVE AllBefore(old, a)
  BY <1>2, <1>9 DEF AllBefore
<1>10. ASSUME NEW old, AllBefore(old, s) PROVE AllBefore(old, r)
  BY <1>3, <1>10 DEF AllBefore
<1>. QED BY <1>4, <1>5, <1>6, <1>7, <1>8, <1>9, <1>10

LEMMA OrderedConcat ==
  ASSUME NEW s \in Seq(Info), NEW r \in Seq(Info), Ordered(s), Ordered(r), AllBefore(s, r),
         NEW b, b = s \o r
  PROVE  /\ Ordered(b)
         /\ \A q : AllBefore(s, q) /\ AllBefore(r, q) => AllBefore(b, q)
<1>1. Len(s) \in Nat /\ DOMAIN s = 1..Len(s) /\ DOMAIN r = 1..Len(r) /\ Len(r) \in Nat
  OBVIOUS
<1>2. ASSUME NEW i \in DOMAIN b
      PROVE  \/ i \in DOMAIN s /\ b[i] = s[i]
             \/ i > Len(s) /\ i \in Nat /\ i - Len(s) \in DOMAIN r /\ b[i] = r[i - Len(s)]
  BY <1>1
<1>3. ASSUME NEW i \in DOMAIN b, NEW j \in DOMAIN b, i < j
      PROVE  Before(b[i], b[j])
  <2>1. CASE i \in DOMAIN s /\ b[i] = s[i] /\ j \in DOMAIN s /\ b[j] = s[j]
    BY <1>3, <2>1 DEF Ordered
  <2>2. CASE /\ i \in DOMAIN s /\ b[i] = s[i]
             /\ j - Len(s) \in DOMAIN r /\ b[j] = r[j - Len(s)]
    BY <2>2 DEF AllBefore
  <2>3. CASE /\ i > Len(s) /\ i \in Nat /\ i - Len(s) \in DOMAIN r /\ b[i] = r[i - Len(s)]
             /\ j \in Nat /\ j - Len(s) \in DOMAIN r /\ b[j] = r[j - Len(s)]
    <3>1. i - Len(s) < j - Len(s)
      BY <1>1, <1>3, <2>3
    <3>2. Before(r[i - Len(s)], r[j - Len(s)])
      BY <2>3, <3>1 DEF Ordered
    <3>. QED BY <2>3, <3>2
  <2>4. CASE i > Len(s) /\ i \in Nat /\ j \in DOMAIN s
    BY <1>1, <1>3, <2>4
  <2>5. /\ \/ i \in DOMAIN s /\ b[i] = s[i]
           \/ i > Len(s) /\ i \in Nat /\ i - Len(s) \in DOMAIN r /\ b[i] = r[i - Len(s)]
        /\ \/ j \in DOMAIN s /\ b[j] = s[j]
           \/ j > Len(s) /\ j \in Nat /\ j - Len(s) \in DOMAIN r /\ b[j] = r[j - Len(s)]
    BY <1>2
  <2>. QED BY <2>1, <2>2, <2>3, <2>4, <2>5
<1>4. ASSUME NEW q, AllBefore(s, q), AllBefore(r, q) PROVE AllBefore(b, q)
  <2>1. ASSUME NEW i \in DOMAIN b, NEW j \in DOMAIN q PROVE Before(b[i], q[j])
    BY <1>2, <1>4 DEF AllBefore
  <2>. QED BY <2>1 DEF AllBefore
<1>. QED BY <1>3, <1>4 DEF Ordered

LEMMA OrderedAppend ==
  ASSUME NEW s \in Seq(Info), NEW info, Ordered(s),
         \A i \in DOMAIN s : Before(s[i], info),
         NEW b, b = Append(s, info)
  PROVE  /\ Ordered(b)
         /\ \A i \in DOMAIN b : b[i] = info \/ (i \in DOMAIN s /\ b[i] = s[i])
<1>1. Len(s) \in Nat /\ DOMAIN s = 1..Len(s) /\ DOMAIN b = 1..(Len(s) + 1)
  OBVIOUS
<1>2. b[Len(s) + 1] = info /\ \A i \in 1..Len(s) : b[i] = s[i]
  OBVIOUS
<1>3. ASSUME NEW i \in DOMAIN b, NEW j \in DOMAIN b, i < j
      PROVE  Before(b[i], b[j])
  <2>1. i \in 1..Len(s) /\ (j \in 1..Len(s) \/ j = Len(s) + 1)
    BY <1>1, <1>3
  <2>2. b[i] = s[i] /\ i \in DOMAIN s
    BY <1>1, <1>2, <2>1
  <2>3. CASE j \in 1..Len(s)
    BY <1>1, <1>2, <1>3, <2>2, <2>3 DEF Ordered
  <2>4. CASE j = Len(s) + 1
    BY <1>2, <2>2, <2>4
  <2>. QED BY <2>1, <2>3, <2>4
<1>4. \A i \in DOMAIN b : b[i] = info \/ (i \in DOMAIN s /\ b[i] = s[i])
  BY <1>1, <1>2
<1>. QED BY <1>3, <1>4 DEF Ordered

-----------------------------------------------------------------------------
\* The steps that move packets.

\* Only the top of the stack of t, and t's queue to h, change.
LEMMA EnqueueKeepsOrder ==
  ASSUME HomeInv, OwingInv, NestInv, OrderInv, NEW t \in Threads, Enqueue(t)
  PROVE  OrderInv'
<1>. PICK top : top = Last(stack[t])
  OBVIOUS
<1>. PICK h : h = Head(top.groups)
  OBVIOUS
<1>i. PICK info : info = top.info
  OBVIOUS
<1>n. PICK n : n = Len(stack[t])
  OBVIOUS
<1>1. /\ stack[t] # <<>> /\ IsCall(top) /\ top.pc = "enqueue"
      /\ top \in QueueFrame /\ CallSound(t, top)
  BY TopCall DEF Enqueue
<1>2. /\ queue' = [queue EXCEPT ![h][t] = Append(@, info)]
      /\ UNCHANGED callback
  BY <1>i DEF Enqueue
<1>3. n \in DOMAIN stack[t] /\ top = stack[t][n] /\ DOMAIN stack[t] = 1..n /\ n \in Nat
  BY <1>1, <1>n, StackDomain
<1>4. /\ top.groups \in Seq(Groups) /\ top.groups # <<>> /\ info \in Info
      /\ NodeOf(top) = info.node /\ info.by = t
  BY <1>1, <1>i DEF QueueFrame, NodeOf, IsCall, CallSound
<1>5. h \in Groups /\ info.id \notin InGroup(h)
  <2>1. h \in Groups
    BY <1>4, HeadAndTail, ElementOfSeq
  <2>2. h \in Unseen(top)
    <3>1. 1 \in DOMAIN top.groups /\ h = top.groups[1]
      BY SMTT(60), <1>4, HeadAndTail
    <3>. QED BY <1>1, <3>1 DEF Unseen, Ahead, ToSet
  <2>. QED BY <1>1, <1>i, <2>1, <2>2 DEF CallSound
<1>6. /\ queue'[h][t] = Append(queue[h][t], info)
      /\ queue[h][t] \in Seq(Info)
      /\ \A g \in Groups, u \in Threads :
           ~ (g = h /\ u = t) => queue'[g][u] = queue[g][u]
  BY <1>2, <1>5 DEF HomeInv, QueueInv
<1>7. ASSUME NEW p \in Held(h) PROVE Before(p, info)
  <2>1. p.id \in InGroup(h) /\ p.id \in Nat /\ info.id \in Nat
    BY <1>4, <1>5, <1>7, HeldKnown DEF Info
  <2>2. NotOlder(t, top, p)
    BY <1>3, <1>5, <1>7 DEF OrderInv, CallsNotOlder
  <2>3. p.id # info.id
    BY <1>5, <2>1
  <2>. QED BY <1>1, <1>4, <1>i, <2>1, <2>2, <2>3 DEF NotOlder, Before
<1>8. GroupOrdered(h)
  BY <1>5 DEF OrderInv, GroupsOrdered
<1>s. PICK s : s = queue[h][t]
  OBVIOUS
<1>b. PICK b : b = Append(s, info)
  OBVIOUS
<1>9. /\ s \in Seq(Info) /\ Ordered(s) /\ AllBy(t, s) /\ AllBefore(callback[h].batch, s)
      /\ queue'[h][t] = b
  BY <1>6, <1>8, <1>s, <1>b DEF GroupOrdered
<1>10. \A i \in DOMAIN s : Before(s[i], info)
  BY <1>7, <1>s, HeldMember
<1>11. /\ Ordered(b)
       /\ \A i \in DOMAIN b : b[i] = info \/ (i \in DOMAIN s /\ b[i] = s[i])
  <2>1. s \in Seq(Info) /\ Ordered(s) /\ b = Append(s, info)
    BY <1>9, <1>b
  <2>2. Ordered(b)
    BY <1>10, <2>1, OrderedAppend
  <2>3. \A i \in DOMAIN b : b[i] = info \/ (i \in DOMAIN s /\ b[i] = s[i])
    BY <1>10, <2>1, OrderedAppend
  <2>. QED BY <2>2, <2>3
<1>12. AllBy(t, b)
  BY <1>4, <1>9, <1>11 DEF AllBy
<1>13. AllBefore(callback[h].batch, b)
  <2>1. \A i \in DOMAIN callback[h].batch : Before(callback[h].batch[i], info)
    BY SMTT(60), <1>7, HeldMember
  <2>. QED BY <1>9, <1>11, <2>1 DEF AllBefore
<1>14. GroupOrdered(h)'
  <2>1. ASSUME NEW u \in Threads
        PROVE  /\ Ordered(queue'[h][u])
               /\ AllBy(u, queue'[h][u])
               /\ AllBefore(callback'[h].batch, queue'[h][u])
    <3>1. CASE u = t
      BY <1>2, <1>9, <1>11, <1>12, <1>13, <3>1
    <3>2. CASE u # t
      BY ZenonT(60), <1>2, <1>5, <1>6, <1>8, <3>2 DEF GroupOrdered
    <3>. QED BY SMTT(60), <3>1, <3>2
  <2>2. Ordered(callback'[h].batch)
    BY SMTT(60), <1>2, <1>8 DEF GroupOrdered
  <2>. QED BY <2>1, <2>2 DEF GroupOrdered
<1>15. \A g \in Groups \ {h} : GroupOrdered(g)'
  <2>1. \A g \in Groups \ {h} : GroupOrdered(g)
    BY DEF OrderInv, GroupsOrdered
  <2>. QED BY ZenonT(60), <1>2, <1>6, <2>1 DEF GroupOrdered
<1>16. GroupsOrdered'
  BY <1>14, <1>15 DEF GroupsOrdered
<1>17. ASSUME NEW g \in Groups, NEW p \in Held(g)'
       PROVE  p \in Held(g) \/ p = info
  <2>1. CASE \E i \in DOMAIN callback'[g].batch : p = callback'[g].batch[i]
    BY <1>2, <2>1, HeldMember
  <2>2. CASE \E u \in Threads : \E i \in DOMAIN queue'[g][u] : p = queue'[g][u][i]
    <3>1. PICK u \in Threads : \E i \in DOMAIN queue'[g][u] : p = queue'[g][u][i]
      BY <2>2
    <3>2. PICK i \in DOMAIN queue'[g][u] : p = queue'[g][u][i]
      BY <3>1
    <3>3. CASE g = h /\ u = t
      <4>1. i \in DOMAIN b /\ p = b[i]
        BY <1>9, <3>2, <3>3
      <4>2. p = info \/ (i \in DOMAIN s /\ p = s[i])
        BY <1>11, <4>1
      <4>. QED BY <1>s, <3>3, <4>2, HeldMember
    <3>4. CASE ~ (g = h /\ u = t)
      BY <1>6, <3>2, <3>4, HeldMember
    <3>. QED BY <3>3, <3>4
  <2>. QED BY <1>17, <2>1, <2>2, HeldMember
<1>18. RolesKept
  BY EnqueueKeepsRoles
<1>19. ASSUME NEW g \in Groups, NEW u \in Threads, NEW i \in DOMAIN stack'[u],
              NEW p \in Held(g)'
       PROVE  NotOlder(u, stack'[u][i], p)
  <2>1. i \in DOMAIN stack[u] /\ SameRole(stack'[u][i], stack[u][i])
    BY <1>18 DEF RolesKept
  <2>2. NotOlder(u, stack[u][i], p)
    <3>1. CASE p \in Held(g)
      BY <2>1, <3>1 DEF OrderInv, CallsNotOlder
    <3>2. CASE p = info
      <4>. SUFFICES ASSUME IsCall(stack[u][i]), p.by = u, p.node = NodeOf(stack[u][i]),
                           ~ Repushes(u, p.node)
                    PROVE  p.id <= stack[u][i].info.id
        BY DEF NotOlder
      <4>1. u = t /\ i \in 1..n
        BY <1>3, <1>4, <2>1, <3>2
      <4>2. i = n
        <5>. SUFFICES ASSUME i # n PROVE FALSE
          OBVIOUS
        <5>1. i < n
          BY <1>3, <4>1
        <5>2. Nested(t, stack[t])
          BY DEF NestInv
        <5>3. NodeOf(stack[t][i]) = NodeOf(stack[t][n])
          BY <1>3, <1>4, <3>2, <4>1
        <5>4. i \in DOMAIN stack[t] /\ IsCall(stack[t][i])
          BY <2>1, <4>1
        <5>5. Repushes(t, NodeOf(stack[t][n]))
          BY <1>1, <1>3, <5>1, <5>2, <5>3, <5>4, NestedRepushes
        <5>. QED BY <1>3, <1>4, <3>2, <4>1, <5>5
      <4>3. p.id = stack[u][i].info.id /\ p.id \in Nat
        BY <1>3, <1>4, <1>i, <3>2, <4>1, <4>2 DEF Info
      <4>. QED BY <4>3
    <3>. QED BY <1>17, <3>1, <3>2
  <2>. QED BY <2>1, <2>2 DEF NotOlder, SameRole
<1>. QED BY <1>16, <1>19 DEF OrderInv, CallsNotOlder

\* A packet leaves the batch of g, or none does.
LEMMA BatchKeepsOrder ==
  ASSUME HomeInv, OwingInv, OrderInv, NEW g \in Groups, UNCHANGED queue,
         \A h \in Groups \ {g} : callback'[h] = callback[h],
         \/ callback'[g].batch = callback[g].batch
         \/ /\ callback[g].batch # <<>>
            /\ callback'[g].batch = Tail(callback[g].batch)
  PROVE  GroupsOrdered' /\ \A h \in Groups : Held(h)' \subseteq Held(h)
<1>s. PICK s : s = callback[g].batch
  OBVIOUS
<1>1. s \in Seq(Info) /\ GroupOrdered(g)
  BY <1>s DEF HomeInv, CallbackInv, CallbackState, OrderInv, GroupsOrdered
<1>2. CASE callback'[g].batch = s
  <2>1. \A h \in Groups : callback'[h].batch = callback[h].batch
    BY <1>2, <1>s
  <2>2. GroupsOrdered'
    BY <2>1 DEF OrderInv, GroupsOrdered, GroupOrdered
  <2>3. \A h \in Groups : Held(h)' \subseteq Held(h)
    BY <2>1, HeldMember
  <2>. QED BY <2>2, <2>3
<1>3. CASE s # <<>> /\ callback'[g].batch = Tail(s)
  <2>1. /\ Ordered(Tail(s))
        /\ \A q : AllBefore(s, q) => AllBefore(Tail(s), q)
    BY <1>1, <1>3, <1>s, OrderedTail DEF GroupOrdered
  <2>2. GroupOrdered(g)'
    BY <1>1, <1>3, <1>s, <2>1 DEF GroupOrdered
  <2>3. \A h \in Groups \ {g} : GroupOrdered(h)'
    BY DEF OrderInv, GroupsOrdered, GroupOrdered
  <2>4. \A i \in DOMAIN Tail(s) : i + 1 \in DOMAIN s /\ Tail(s)[i] = s[i + 1]
    BY <1>1, <1>3, HeadAndTail
  <2>5. Held(g)' \subseteq Held(g)
    <3>. SUFFICES ASSUME NEW p \in Held(g)' PROVE p \in Held(g)
      OBVIOUS
    <3>1. CASE \E i \in DOMAIN callback'[g].batch : p = callback'[g].batch[i]
      BY <1>3, <1>s, <2>4, <3>1, HeldMember
    <3>2. CASE \E u \in Threads : \E i \in DOMAIN queue'[g][u] : p = queue'[g][u][i]
      BY <3>2, HeldMember
    <3>. QED BY <3>1, <3>2, HeldMember
  <2>6. \A h \in Groups \ {g} : Held(h)' \subseteq Held(h)
    BY HeldMember
  <2>. QED BY <2>2, <2>3, <2>5, <2>6 DEF GroupsOrdered
<1>. QED BY <1>2, <1>3, <1>s

LEMMA DequeueKeepsOrder ==
  ASSUME HomeInv, OwingInv, OrderInv, NEW g \in Groups, NEW t \in Threads, Dequeue(g, t)
  PROVE  OrderInv'
<1>m. PICK m : m = IF Len(queue[g][t]) <= MaxDequeue - Len(callback[g].batch)
                   THEN Len(queue[g][t]) ELSE MaxDequeue - Len(callback[g].batch)
  OBVIOUS
<1>s. PICK s : s = queue[g][t]
  OBVIOUS
<1>o. PICK old : old = callback[g].batch
  OBVIOUS
<1>a. PICK a : a = SubSeq(s, 1, m)
  OBVIOUS
<1>r. PICK r : r = SubSeq(s, m + 1, Len(s))
  OBVIOUS
<1>b. PICK b : b = old \o a
  OBVIOUS
<1>1. s \in Seq(Info) /\ old \in Seq(Info) /\ callback[g] \in CallbackState
  BY <1>s, <1>o DEF HomeInv, QueueInv, CallbackInv, CallbackState
<1>2. m \in 0..Len(s)
  <2>1. Len(s) \in Nat /\ Len(old) \in Nat /\ MaxDequeue \in Nat /\ Len(old) < MaxDequeue
    BY <1>1, <1>o, BoundAssumption DEF Dequeue
  <2>2. PICK room : room = MaxDequeue - Len(old)
    OBVIOUS
  <2>3. room \in Nat
    BY <2>1, <2>2
  <2>4. m = IF Len(s) <= room THEN Len(s) ELSE room
    BY SMTT(60), <1>m, <1>s, <1>o, <2>2
  <2>. QED BY <2>1, <2>3, <2>4
<1>3. /\ callback' = [callback EXCEPT ![g].left = @ \ {t}, ![g].batch = b]
      /\ queue' = [queue EXCEPT ![g][t] = r]
      /\ UNCHANGED stack
  <2>1. PICK k : k = IF Len(queue[g][t]) <= MaxDequeue - Len(callback[g].batch)
                     THEN Len(queue[g][t]) ELSE MaxDequeue - Len(callback[g].batch)
    OBVIOUS
  <2>2. m = k
    BY <1>m, <2>1
  <2>. QED BY <1>s, <1>o, <1>a, <1>r, <1>b, <2>1, <2>2
           DEF Dequeue, HomeInv, CallbackInv, QueueInv
<1>4. /\ callback'[g] = [callback[g] EXCEPT !.left = @ \ {t}, !.batch = b]
      /\ \A h \in Groups \ {g} : callback'[h] = callback[h]
  BY <1>3 DEF HomeInv, CallbackInv
<1>5. callback'[g].batch = b
  BY <1>1, <1>4 DEF CallbackState
<1>6. /\ queue'[g][t] = r
      /\ \A u \in Threads \ {t} : queue'[g][u] = queue[g][u]
      /\ \A h \in Groups \ {g} : queue'[h] = queue[h]
  BY <1>3 DEF HomeInv, QueueInv
<1>7. GroupOrdered(g)
  BY DEF OrderInv, GroupsOrdered
<1>8. Ordered(s) /\ AllBy(t, s) /\ AllBefore(old, s) /\ Ordered(old)
  BY <1>7, <1>s, <1>o DEF GroupOrdered
<1>9. a \in Seq(Info)
  BY <1>1, <1>2, <1>a, SubSeqType
<1>10. /\ Ordered(a) /\ Ordered(r) /\ AllBefore(a, r)
       /\ AllBy(t, a) /\ AllBy(t, r)
       /\ AllBefore(old, a) /\ AllBefore(old, r)
  <2>c. m \in Nat /\ CutAt(s, m, a, r)
    BY <1>1, <1>2, <1>a, <1>r, SubSeqsCut
  <2>1. Ordered(a) /\ Ordered(r) /\ AllBefore(a, r)
    BY <1>8, <2>c, OrderedCut
  <2>2. AllBy(t, a) /\ AllBy(t, r)
    BY <1>8, <2>c, OrderedCut
  <2>3. AllBefore(old, a) /\ AllBefore(old, r)
    BY <1>8, <2>c, OrderedCut
  <2>. QED BY <2>1, <2>2, <2>3
<1>11. /\ Ordered(b)
       /\ \A q : AllBefore(old, q) /\ AllBefore(a, q) => AllBefore(b, q)
  <2>1. Ordered(b)
    BY <1>1, <1>8, <1>9, <1>10, <1>b, OrderedConcat
  <2>2. \A q : AllBefore(old, q) /\ AllBefore(a, q) => AllBefore(b, q)
    BY <1>1, <1>8, <1>9, <1>10, <1>b, OrderedConcat
  <2>. QED BY <2>1, <2>2
<1>12. GroupOrdered(g)'
  <2>1. ASSUME NEW u \in Threads
        PROVE  /\ Ordered(queue'[g][u])
               /\ AllBy(u, queue'[g][u])
               /\ AllBefore(callback'[g].batch, queue'[g][u])
    <3>1. CASE u = t
      BY <1>5, <1>6, <1>10, <1>11, <3>1
    <3>2. CASE u # t
      <4>1. /\ Ordered(queue[g][u]) /\ AllBy(u, queue[g][u])
            /\ AllBefore(old, queue[g][u])
        BY <1>7, <1>o DEF GroupOrdered
      <4>2. AllBefore(a, queue[g][u])
        BY <1>10, <3>2, <4>1 DEF AllBefore, AllBy, Before
      <4>. QED BY <1>5, <1>6, <1>11, <3>2, <4>1, <4>2
    <3>. QED BY <3>1, <3>2
  <2>. QED BY <1>5, <1>11, <2>1 DEF GroupOrdered
<1>13. GroupsOrdered'
  <2>1. \A h \in Groups \ {g} : GroupOrdered(h)'
    BY <1>4, <1>6 DEF OrderInv, GroupsOrdered, GroupOrdered
  <2>. QED BY <1>12, <2>1 DEF GroupsOrdered
<1>14. Held(g)' \subseteq Held(g)
  <2>1. \A i \in DOMAIN b : \/ i \in DOMAIN old /\ b[i] = old[i]
                            \/ \E j \in DOMAIN s : b[i] = s[j]
    <3>1. \A i \in DOMAIN a : i \in DOMAIN s /\ a[i] = s[i]
      BY <1>1, <1>2, <1>a
    <3>2. \A i \in DOMAIN b : \/ i \in DOMAIN old /\ b[i] = old[i]
                              \/ i - Len(old) \in DOMAIN a /\ b[i] = a[i - Len(old)]
      BY <1>1, <1>9, <1>b
    <3>. QED BY <3>1, <3>2
  <2>2. \A i \in DOMAIN r : \E j \in DOMAIN s : r[i] = s[j]
    <3>1. \A i \in DOMAIN r : m + i \in DOMAIN s /\ r[i] = s[m + i]
      BY <1>1, <1>2, <1>r
    <3>. QED BY <3>1
  <2>. SUFFICES ASSUME NEW p \in Held(g)' PROVE p \in Held(g)
    OBVIOUS
  <2>3. CASE \E i \in DOMAIN callback'[g].batch : p = callback'[g].batch[i]
    <3>1. \/ \E i \in DOMAIN old : p = old[i]
          \/ \E j \in DOMAIN s : p = s[j]
      BY <1>5, <2>1, <2>3
    <3>. QED BY <1>s, <1>o, <3>1, HeldMember
  <2>4. CASE \E u \in Threads : \E i \in DOMAIN queue'[g][u] : p = queue'[g][u][i]
    <3>1. PICK u \in Threads : \E i \in DOMAIN queue'[g][u] : p = queue'[g][u][i]
      BY <2>4
    <3>2. CASE u = t
      <4>1. \E j \in DOMAIN s : p = s[j]
        BY <1>6, <2>2, <3>1, <3>2
      <4>. QED BY <1>s, <4>1, HeldMember
    <3>3. CASE u # t
      BY <1>6, <3>1, <3>3, HeldMember
    <3>. QED BY <3>2, <3>3
  <2>. QED BY <2>3, <2>4, HeldMember
<1>15. \A h \in Groups : Held(h)' \subseteq Held(h)
  <2>1. \A h \in Groups \ {g} : Held(h)' \subseteq Held(h)
    BY <1>4, <1>6, HeldMember
  <2>. QED BY <1>14, <2>1
<1>16. RolesKept
  BY <1>3, StackKeepsRoles
<1>17. CallsNotOlder'
  BY <1>15, <1>16, NotOlderKept DEF OrderInv, RolesKept
<1>. QED BY <1>13, <1>17 DEF OrderInv

\* packetReady() begins, or passes over an edge or a packet: no node gets one.
LEMMA CallbackKeepsOrder ==
  ASSUME HomeInv, OwingInv, OrderInv, NEW g \in Groups,
         \/ PacketReady(g) \/ Dequeued(g) \/ SkipEdge(g)
         \/ NextPacket(g) \/ NextBatch(g)
  PROVE  OrderInv'
<1>0. callback \in [Groups -> CallbackState]
  BY DEF HomeInv, CallbackInv
<1>1. UNCHANGED <<stack, queue>>
  BY DEF PacketReady, Dequeued, SkipEdge, NextPacket, NextBatch
<1>2. \A h \in Groups \ {g} : callback'[h] = callback[h]
  BY <1>0 DEF PacketReady, Dequeued, SkipEdge, NextPacket, NextBatch
<1>3. \/ callback'[g].batch = callback[g].batch
      \/ /\ callback[g].batch # <<>>
         /\ callback'[g].batch = Tail(callback[g].batch)
  <2>1. CASE PacketReady(g)
    <3>1. callback[g].batch = <<>>
      BY <2>1 DEF PacketReady, AtRest, Threads, OwingInv, BatchInv
    <3>2. callback'[g] = Scanning
      BY <1>0, <2>1 DEF PacketReady
    <3>. QED BY <3>1, <3>2 DEF Scanning
  <2>2. CASE Dequeued(g)
    <3>1. callback'[g] = IF callback[g].batch = <<>>
                         THEN Idle ELSE [callback[g] EXCEPT !.pc = "run", !.left = {}]
      BY <1>0, <2>2 DEF Dequeued
    <3>2. CASE callback[g].batch = <<>>
      BY <3>1, <3>2 DEF Idle
    <3>3. CASE callback[g].batch # <<>>
      BY <1>0, <3>1, <3>3 DEF CallbackState
    <3>. QED BY <3>2, <3>3
  <2>3. CASE SkipEdge(g)
    <3>1. callback'[g] = [callback[g] EXCEPT !.next = @ + 1]
      BY <1>0, <2>3 DEF SkipEdge
    <3>. QED BY <1>0, <3>1 DEF CallbackState
  <2>4. CASE NextPacket(g)
    <3>1. /\ callback'[g] = [callback[g] EXCEPT !.batch = Tail(@), !.next = 1]
          /\ callback[g].batch # <<>>
      BY <1>0, <2>4 DEF NextPacket, InHand
    <3>. QED BY <1>0, <3>1 DEF CallbackState
  <2>5. CASE NextBatch(g)
    <3>1. callback'[g] = Scanning /\ callback[g].batch = <<>>
      BY <1>0, <2>5 DEF NextBatch
    <3>. QED BY <3>1 DEF Scanning
  <2>. QED BY <2>1, <2>2, <2>3, <2>4, <2>5
<1>4. GroupsOrdered' /\ \A h \in Groups : Held(h)' \subseteq Held(h)
  BY <1>1, <1>2, <1>3, BatchKeepsOrder
<1>5. RolesKept
  BY <1>1, StackKeepsRoles
<1>6. CallsNotOlder'
  BY <1>4, <1>5, NotOlderKept DEF OrderInv, RolesKept
<1>. QED BY <1>4, <1>6 DEF OrderInv

LEMMA DeliverKeepsOrder ==
  ASSUME HomeInv, OwingInv, OrderInv, NEW g \in Groups, Called(g),
         DeliverQueued(g) \/ DeliverManual(g)
  PROVE  OrderInv'
<1>0. callback \in [Groups -> CallbackState] /\ g \in Threads
  BY DEF HomeInv, CallbackInv, Threads
<1>1. UNCHANGED queue /\ \A h \in Groups \ {g} : callback'[h] = callback[h]
  BY <1>0 DEF DeliverQueued, DeliverManual
<1>2. \/ callback'[g].batch = callback[g].batch
      \/ /\ callback[g].batch # <<>>
         /\ callback'[g].batch = Tail(callback[g].batch)
  <2>1. CASE DeliverQueued(g)
    <3>1. callback'[g] = [callback[g] EXCEPT !.next = @ + 1]
      BY <1>0, <2>1 DEF DeliverQueued
    <3>. QED BY SMTT(60), <1>0, <3>1 DEF CallbackState
  <2>2. CASE DeliverManual(g)
    <3>1. /\ callback'[g] = [callback[g] EXCEPT !.batch = Tail(@)]
          /\ callback[g].batch # <<>>
      BY <1>0, <2>2 DEF DeliverManual, InHand
    <3>. QED BY <1>0, <3>1 DEF CallbackState
  <2>. QED BY <2>1, <2>2
<1>3. GroupsOrdered' /\ \A h \in Groups : Held(h)' \subseteq Held(h)
  BY <1>1, <1>2, BatchKeepsOrder
<1>4. CallsNotOlder'
  BY <1>0, <1>3, CalledKeepsNotOlder DEF OrderInv
<1>. QED BY <1>3, <1>4 DEF OrderInv

-----------------------------------------------------------------------------
\* Every step.

LEMMA OrderInit == Init => NestInv /\ ParamsInv /\ OrderInv
<1>. SUFFICES ASSUME Init PROVE NestInv /\ ParamsInv /\ OrderInv
  OBVIOUS
<1>1. /\ \A t \in Threads : DOMAIN stack[t] = {}
      /\ \A g \in Groups : DOMAIN callback[g].batch = {}
      /\ \A g \in Groups, t \in Threads : DOMAIN queue[g][t] = {}
  BY DEF Init, Idle
<1>2. NestInv /\ ParamsInv
  BY <1>1 DEF NestInv, Nested, ParamsInv
<1>3. GroupsOrdered
  BY <1>1 DEF GroupsOrdered, GroupOrdered, Ordered, AllBy, AllBefore
<1>4. CallsNotOlder
  BY <1>1 DEF CallsNotOlder
<1>. QED BY <1>2, <1>3, <1>4 DEF OrderInv

\* A step that keeps the activations' parts, and what the groups have.
LEMMA QuietStep ==
  ASSUME HomeInv, OwingInv, NestInv, ParamsInv, OrderInv,
         RolesKept, UNCHANGED <<callback, queue, lastReceived>>
  PROVE  NestInv' /\ ParamsInv' /\ OrderInv'
<1>1. NestInv'
  BY NestKept
<1>2. ParamsInv'
  BY ParamsKept DEF RolesKept
<1>. QED BY <1>1, <1>2, RolesKeepOrder

LEMMA OrderNext ==
  HomeInv /\ OwingInv /\ NestInv /\ ParamsInv /\ OrderInv /\ [Next]_vars
    => NestInv' /\ ParamsInv' /\ OrderInv'
<1>. SUFFICES ASSUME HomeInv, OwingInv, NestInv, ParamsInv, OrderInv, [Next]_vars
              PROVE  NestInv' /\ ParamsInv' /\ OrderInv'
  OBVIOUS
<1>1. ASSUME NEW t \in Threads, PushStep(t)
      PROVE  NestInv' /\ ParamsInv' /\ OrderInv'
  <2>1. CASE Accumulate(t)
    <3>1. UNCHANGED <<callback, queue, lastReceived>>
      BY <2>1 DEF Accumulate
    <3>. QED BY <2>1, <3>1, AccumulateKeepsRoles, QuietStep
  <2>2. CASE PushEdgeDirectly(t)
    <3>1. NestInv' /\ ParamsInv' /\ Called(t)
      BY <2>2, PushEdgeDirectlyNests
    <3>2. UNCHANGED <<callback, queue>>
      BY <2>2 DEF PushEdgeDirectly
    <3>3. GroupsOrdered' /\ \A g \in Groups : Held(g)' \subseteq Held(g)
      BY <3>2 DEF OrderInv, GroupsOrdered, GroupOrdered, Held
    <3>4. CallsNotOlder'
      BY SMTT(60), <3>1, <3>3, CalledKeepsNotOlder DEF OrderInv
    <3>. QED BY <3>1, <3>3, <3>4 DEF OrderInv
  <2>3. CASE PushEdgeAside(t)
    <3>1. UNCHANGED <<callback, queue, lastReceived>>
      BY <2>3 DEF PushEdgeAside
    <3>. QED BY <2>3, <3>1, PushEdgeAsideKeepsRoles, QuietStep
  <2>4. CASE EndEdges(t)
    <3>1. UNCHANGED <<callback, queue, lastReceived>>
      BY <2>4 DEF EndEdges
    <3>. QED BY <2>4, <3>1, EndEdgesKeepsRoles, QuietStep
  <2>5. CASE Enqueue(t)
    <3>1. RolesKept /\ UNCHANGED lastReceived
      BY <2>5, EnqueueKeepsRoles DEF Enqueue
    <3>2. NestInv'
      BY <3>1, NestKept
    <3>3. ParamsInv'
      BY <3>1, ParamsKept DEF RolesKept
    <3>4. OrderInv'
      BY <2>5, EnqueueKeepsOrder
    <3>. QED BY SMTT(60), <3>2, <3>3, <3>4
  <2>6. CASE Signal(t)
    <3>1. UNCHANGED <<callback, queue, lastReceived>>
      BY <2>6 DEF Signal
    <3>. QED BY <2>6, <3>1, SignalKeepsRoles, QuietStep
  <2>. QED BY <1>1, <2>1, <2>2, <2>3, <2>4, <2>5, <2>6 DEF PushStep
<1>2. ASSUME NEW t \in Threads, Environment(t)
      PROVE  NestInv' /\ ParamsInv' /\ OrderInv'
  <2>1. CASE \E n \in Nodes, c \in Channels, p \in Params : HandlerPushes(t, n, c, p)
    BY <2>1, HandlerPushesNests, PushedKeepsOrder
  <2>2. CASE \E n \in Nodes, c \in Channels, p \in FreshParams : SourcePushes(t, n, c, p)
    BY <2>2, SourcePushesNests, PushedKeepsOrder
  <2>3. CASE \E n \in Nodes, p \in FreshParams : SendPacket(t, n, p)
    BY <2>3, SendPacketNests, PushedKeepsOrder
  <2>4. CASE HandlerReturns(t) \/ HandlerThrows(t)
    <3>1. UNCHANGED <<callback, queue, lastReceived>>
      BY <2>4 DEF HandlerReturns, HandlerThrows
    <3>. QED BY <2>4, <3>1, HandlerEndsKeepsRoles, QuietStep
  <2>. QED BY <1>2, <2>1, <2>2, <2>3, <2>4 DEF Environment
<1>3. ASSUME NEW g \in Groups, CallbackStep(g)
      PROVE  NestInv' /\ ParamsInv' /\ OrderInv'
  <2>1. CASE DeliverQueued(g)
    BY <2>1, DeliverQueuedNests, DeliverKeepsOrder
  <2>2. CASE DeliverManual(g)
    BY <2>2, DeliverManualNests, DeliverKeepsOrder
  <2>3. CASE \E t \in Threads : Dequeue(g, t)
    <3>1. RolesKept /\ UNCHANGED lastReceived
      BY <2>3, StackKeepsRoles DEF Dequeue
    <3>2. NestInv'
      BY <3>1, NestKept
    <3>3. ParamsInv'
      BY <3>1, ParamsKept DEF RolesKept
    <3>4. OrderInv'
      BY <2>3, DequeueKeepsOrder
    <3>. QED BY <3>2, <3>3, <3>4
  <2>4. CASE \/ PacketReady(g) \/ Dequeued(g) \/ SkipEdge(g)
             \/ NextPacket(g) \/ NextBatch(g)
    <3>1. UNCHANGED <<stack, lastReceived>>
      BY <2>4 DEF PacketReady, Dequeued, SkipEdge, NextPacket, NextBatch
    <3>2. RolesKept
      BY <3>1, StackKeepsRoles
    <3>3. NestInv'
      BY <3>2, NestKept
    <3>4. ParamsInv'
      BY <3>1, <3>2, ParamsKept DEF RolesKept
    <3>5. OrderInv'
      BY <2>4, CallbackKeepsOrder
    <3>. QED BY <3>3, <3>4, <3>5
  <2>. QED BY <1>3, <2>1, <2>2, <2>3, <2>4 DEF CallbackStep
<1>4. CASE UNCHANGED vars
  <2>1. UNCHANGED <<stack, callback, queue, lastReceived>>
    BY <1>4 DEF vars
  <2>. QED BY <2>1, StackKeepsRoles, QuietStep
<1>. QED BY <1>1, <1>2, <1>3, <1>4 DEF Next

\* In every state, at any depth of calls, packets and activations in order.
LEMMA AlwaysOrdered == Spec => [](NestInv /\ ParamsInv /\ OrderInv)
<1>. QED BY OrderInit, OrderNext, AlwaysHome, AlwaysOwing, PTL DEF Spec

(***************************************************************************)
(* A packet that a handler pushes for its node inherits from the packet    *)
(* the handler was given, if nothing that the handler runs, pushes through *)
(* other nodes' pushers included, can run it again inside itself:          *)
(* pushPacket() reads the node's one slot of parameters anew, and nothing  *)
(* has assigned it meanwhile.                                              *)
(***************************************************************************)
THEOREM InheritsFromOwn == Spec => []InheritsFromOwnPacket
<1>1. HomeInv /\ NestInv /\ ParamsInv => InheritsFromOwnPacket
  <2>. SUFFICES ASSUME HomeInv, NestInv, ParamsInv, NEW t \in Threads,
                       Running(t, "accumulate"), Len(stack[t]) > 1
                PROVE  LET n == Last(stack[t]).info.node
                           handler == Last(Front(stack[t]))
                       IN  handler.node = n =>
                             Reenters(n) \/ lastReceived[n] = handler.params
    BY DEF InheritsFromOwnPacket
  <2>. PICK k : k = Len(stack[t])
    OBVIOUS
  <2>1. /\ stack[t] \in Seq(Frame) /\ k \in Nat /\ k > 1 /\ DOMAIN stack[t] = 1..k
        /\ stack[t] # <<>> /\ Last(stack[t]) = stack[t][k]
        /\ stack[t][k].pc = "accumulate"
    BY StackDomain DEF Running
  <2>2. k - 1 \in DOMAIN stack[t] /\ k \in DOMAIN stack[t] /\ k - 1 < k /\ k = (k - 1) + 1
    BY <2>1
  <2>3. Last(Front(stack[t])) = stack[t][k - 1]
    <3>. PICK f : f = Front(stack[t])
      OBVIOUS
    <3>1. /\ Len(f) = k - 1
          /\ \A i \in 1..(k - 1) : f[i] = stack[t][i]
      BY <2>1, LastFront
    <3>2. Last(f) = f[k - 1]
      BY <3>1 DEF Last
    <3>. QED BY <2>1, <3>1, <3>2
  <2>4. Runs(t, stack[t][k - 1], stack[t][k])
    BY <2>2 DEF NestInv, Nested
  <2>5. stack[t][k - 1].pc = "handler"
    BY <2>1, <2>4 DEF Runs, IsCall
  <2>6. \/ Reenters(stack[t][k - 1].node)
        \/ lastReceived[stack[t][k - 1].node] = stack[t][k - 1].params
    BY <2>2, <2>5 DEF ParamsInv
  <2>. QED BY <2>3, <2>6
<1>. QED BY <1>1, AlwaysHome, AlwaysOrdered, PTL

-----------------------------------------------------------------------------
\* Where the deliveries of a packet are owed from.

\* e is a delivery of the packet info.
IsOf(e, info) ==
  e.id = info.id /\ e.node = info.node /\ e.chan = info.chan /\ e.by = info.by

EdgeOf(e) == Edges[e.node][e.chan][e.edge]

\* The group whose queue e goes through, if any.
QueuedTo(g, e) ==
  IF e.chan = Manual THEN GroupOf[e.node] = g ELSE DueFromQueue(g, e.by, EdgeOf(e))

LEMMA OverIsOf ==
  ASSUME NEW info, NEW I, NEW e \in Over(info, I)
  PROVE  /\ IsOf(e, info)
         /\ e.edge \in I
         /\ EdgeOf(e) = OutEdges(info)[e.edge]
<1>1. PICK i \in I : e = DeliveryOf(info, i, TargetGroup(info, i))
  BY DEF Over
<1>2. IsOf(e, info) /\ e.edge = i
  BY <1>1 DEF DeliveryOf, IsOf
<1>. QED BY <1>2 DEF EdgeOf, OutEdges, IsOf

LEMMA ManualIsOf == \A info : IsOf(ManualOf(info), info)
BY DEF ManualOf, DeliveryOf, IsOf

LEMMA FrameIsOf ==
  ASSUME NEW t, NEW f, NEW e \in OwedByFrame(t, f)
  PROVE  IsOf(e, f.info) /\ IsCall(f)
<1>1. f.pc \in {"edges", "enqueue", "signal"}
  BY DEF OwedByFrame
<1>2. IsCall(f)
  BY <1>1 DEF IsCall
<1>3. CASE f.pc = "edges"
  <2>. PICK I : I = ToSee(f.info, f.next) \cup Aside(t, f.info)
    OBVIOUS
  <2>1. e \in Over(f.info, I)
    BY <1>3 DEF OwedByFrame
  <2>. QED BY <1>2, <2>1, OverIsOf
<1>4. CASE f.pc \in {"enqueue", "signal"} /\ f.info.chan = Manual
  <2>1. e = ManualOf(f.info)
    BY <1>4, OwedByFrameCases
  <2>. QED BY <1>2, <2>1, ManualIsOf
<1>5. CASE f.pc \in {"enqueue", "signal"} /\ f.info.chan # Manual
  <2>. PICK I : I = {i \in Aside(t, f.info) : TargetGroup(f.info, i) \in Ahead(f)}
    OBVIOUS
  <2>1. e \in Over(f.info, I)
    BY <1>5 DEF OwedByFrame
  <2>. QED BY <1>2, <2>1, OverIsOf
<1>. QED BY <1>1, <1>3, <1>4, <1>5

LEMMA PacketIsOf ==
  ASSUME NEW g, NEW info \in HomeInfo(g), NEW from, NEW e \in OwedByPacket(g, info, from)
  PROVE  IsOf(e, info) /\ QueuedTo(g, e)
<1>1. CASE info.chan = Manual
  <2>1. e = ManualOf(info)
    BY <1>1 DEF OwedByPacket
  <2>2. IsOf(e, info)
    BY <2>1, ManualIsOf
  <2>. QED BY <1>1, <2>2 DEF IsOf, QueuedTo, HomeInfo
<1>2. CASE info.chan # Manual
  <2>. PICK I : I = {i \in ToSee(info, from) : DueFromQueue(g, info.by, OutEdges(info)[i])}
    OBVIOUS
  <2>1. e \in Over(info, I)
    BY <1>2 DEF OwedByPacket
  <2>2. IsOf(e, info) /\ e.edge \in I /\ EdgeOf(e) = OutEdges(info)[e.edge]
    BY <2>1, OverIsOf
  <2>. QED BY <1>2, <2>2 DEF IsOf, QueuedTo
<1>. QED BY <1>1, <1>2

\* What is owed: by a call of its thread, by a packet in a queue, by the head
\* of a batch or by a packet after it.
OwedByCall(e, t) ==
  \E i \in DOMAIN stack[t] : IsCall(stack[t][i]) /\ IsOf(e, stack[t][i].info) /\ e.by = t

OwedFromQueue(e, g) ==
  \E t \in Threads : \E i \in DOMAIN queue[g][t] : IsOf(e, queue[g][t][i])

OwedFromBatch(e, g) ==
  \E i \in DOMAIN callback[g].batch : IsOf(e, callback[g].batch[i])

LEMMA OwedFrom ==
  ASSUME HomeInv, OwingInv, NEW e \in Owed
  PROVE  \/ \E t \in Threads : OwedByCall(e, t)
         \/ \E g \in Groups : QueuedTo(g, e) /\ (OwedFromQueue(e, g) \/ OwedFromBatch(e, g))
<1>1. CASE \E t \in Threads : e \in OwedByStack(t, stack[t])
  <2>1. PICK t \in Threads : e \in OwedByStack(t, stack[t])
    BY <1>1
  <2>2. PICK i \in DOMAIN stack[t] : e \in OwedByFrame(t, stack[t][i])
    BY <2>1 DEF OwedByStack
  <2>3. IsOf(e, stack[t][i].info) /\ IsCall(stack[t][i])
    BY <2>2, FrameIsOf
  <2>4. stack[t][i].info.by = t
    BY <2>3 DEF OwingInv, CallsSound, CallSound
  <2>. QED BY <2>3, <2>4 DEF OwedByCall, IsOf
<1>2. CASE \E g \in Groups, t \in Threads : e \in OwedByQueue(g, queue[g][t])
  <2>1. PICK g \in Groups, t \in Threads : e \in OwedByQueue(g, queue[g][t])
    BY <1>2
  <2>2. PICK i \in DOMAIN queue[g][t] : e \in OwedByPacket(g, queue[g][t][i], 1)
    BY <2>1 DEF OwedByQueue
  <2>3. queue[g][t][i] \in HomeInfo(g)
    BY ElementOfSeq DEF HomeInv, QueueInv
  <2>4. IsOf(e, queue[g][t][i]) /\ QueuedTo(g, e)
    BY <2>2, <2>3, PacketIsOf
  <2>. QED BY <2>4 DEF OwedFromQueue
<1>3. CASE \E g \in Groups : e \in OwedByBatch(g, callback[g].batch, callback[g].next)
  <2>1. PICK g \in Groups : e \in OwedByBatch(g, callback[g].batch, callback[g].next)
    BY <1>3
  <2>. PICK s : s = callback[g].batch
    OBVIOUS
  <2>2. s \in Seq(HomeInfo(g)) /\ s # <<>>
    BY <2>1 DEF HomeInv, CallbackInv, OwedByBatch
  <2>3. /\ Head(s) = s[1] /\ 1 \in DOMAIN s
        /\ \A i \in DOMAIN Tail(s) : i + 1 \in DOMAIN s /\ Tail(s)[i] = s[i + 1]
    BY <2>2, HeadAndTail
  <2>4. \E j \in DOMAIN s : \E from : e \in OwedByPacket(g, s[j], from)
    <3>1. CASE e \in OwedByPacket(g, Head(s), callback[g].next)
      BY <2>3, <3>1
    <3>2. CASE e \in OwedByQueue(g, Tail(s))
      <4>1. PICK i \in DOMAIN Tail(s) : e \in OwedByPacket(g, Tail(s)[i], 1)
        BY <3>2 DEF OwedByQueue
      <4>. QED BY <2>3, <4>1
    <3>. QED BY <2>1, <2>2, <3>1, <3>2 DEF OwedByBatch
  <2>5. PICK j, from : j \in DOMAIN s /\ e \in OwedByPacket(g, s[j], from)
    BY <2>4
  <2>6. s[j] \in HomeInfo(g)
    BY <2>2, <2>5, ElementOfSeq
  <2>7. IsOf(e, s[j]) /\ QueuedTo(g, e)
    BY <2>5, <2>6, PacketIsOf
  <2>. QED BY <2>5, <2>7 DEF OwedFromBatch
<1>. QED BY <1>1, <1>2, <1>3, OwedMembers

\* A delivery goes through the queue of one group.
LEMMA QueuedToOne ==
  ASSUME NEW g, NEW h, NEW d, NEW e, QueuedTo(g, d), QueuedTo(h, e),
         <<e.node, e.chan, e.edge, e.by>> = <<d.node, d.chan, d.edge, d.by>>
  PROVE  g = h
<1>1. e.node = d.node /\ e.chan = d.chan /\ e.edge = d.edge /\ e.by = d.by
  OBVIOUS
<1>2. EdgeOf(e) = EdgeOf(d)
  BY <1>1 DEF EdgeOf
<1>. QED BY <1>1, <1>2 DEF QueuedTo, DueFromQueue

\* d is the delivery a step makes; what is owed over its edge is younger.
NoneOlder(d) ==
  \A e \in Owed :
    (/\ <<e.node, e.chan, e.edge, e.by>> = <<d.node, d.chan, d.edge, d.by>>
     /\ e.id < d.id)
    => Repushes(d.by, d.node)

\* pushPacket() delivers: an older packet is that of a call beneath it.
LEMMA DirectInOrder ==
  ASSUME HomeInv, OwingInv, NestInv, NEW t \in Threads, PushEdgeDirectly(t),
         NEW d \in delivered' \ delivered
  PROVE  NoneOlder(d)
<1>n. PICK n : n = Len(stack[t])
  OBVIOUS
<1>. PICK top : top = Last(stack[t])
  OBVIOUS
<1>k. PICK k : k = top.next
  OBVIOUS
<1>1. /\ stack[t] # <<>> /\ IsCall(top) /\ top.pc = "edges"
      /\ top \in EdgeFrame /\ CallSound(t, top)
  BY TopCall DEF PushEdgeDirectly
<1>2. d = DeliveryOf(top.info, k, t) /\ GoesDirect(t, OutEdges(top.info)[k])
  BY <1>k DEF PushEdgeDirectly, SendToNode
<1>3. /\ IsOf(d, top.info) /\ d.edge = k /\ d.by = t
      /\ d.chan # Manual /\ EdgeOf(d) = OutEdges(top.info)[k]
  <2>1. /\ d.id = top.info.id /\ d.node = top.info.node /\ d.chan = top.info.chan
        /\ d.by = top.info.by /\ d.edge = k
    BY <1>2 DEF DeliveryOf
  <2>2. top.info.by = t /\ top.info.chan \in Channels
    BY <1>1 DEF CallSound, EdgeFrame, EdgeInfo
  <2>. QED BY <2>1, <2>2, GraphAssumption DEF IsOf, EdgeOf, OutEdges
<1>4. n \in DOMAIN stack[t] /\ top = stack[t][n] /\ DOMAIN stack[t] = 1..n /\ n \in Nat
  BY <1>1, <1>n, StackDomain
<1>5. NodeOf(top) = d.node
  BY <1>1, <1>3 DEF NodeOf, IsOf
<1>. SUFFICES ASSUME NEW e \in Owed,
                     <<e.node, e.chan, e.edge, e.by>> = <<d.node, d.chan, d.edge, d.by>>,
                     e.id < d.id
              PROVE  Repushes(d.by, d.node)
  BY DEF NoneOlder
<1>6. e.node = d.node /\ e.chan = d.chan /\ e.edge = d.edge /\ e.by = d.by
  OBVIOUS
<1>7. CASE \E u \in Threads : OwedByCall(e, u)
  <2>1. OwedByCall(e, t)
    BY <1>3, <1>6, <1>7 DEF OwedByCall
  <2>2. PICK i \in DOMAIN stack[t] : IsCall(stack[t][i]) /\ IsOf(e, stack[t][i].info)
    BY <2>1 DEF OwedByCall
  <2>3. i # n
    <3>. SUFFICES ASSUME i = n PROVE FALSE
      OBVIOUS
    <3>1. e.id = d.id /\ d.id \in Nat
      BY <1>1, <1>3, <1>4, <2>2 DEF IsOf, EdgeFrame, EdgeInfo
    <3>. QED BY <3>1
  <2>4. i < n
    BY <1>4, <2>3
  <2>5. NodeOf(stack[t][i]) = NodeOf(stack[t][n])
    BY <1>4, <1>5, <1>6, <2>2 DEF NodeOf, IsCall, IsOf
  <2>6. Nested(t, stack[t])
    BY DEF NestInv
  <2>7. Repushes(t, NodeOf(stack[t][n]))
    BY <1>1, <1>4, <2>2, <2>4, <2>5, <2>6, NestedRepushes
  <2>. QED BY <1>3, <1>4, <1>5, <2>7
<1>8. CASE \E g \in Groups : QueuedTo(g, e)
  <2>1. PICK g \in Groups : QueuedTo(g, e)
    BY <1>8
  <2>2. DueFromQueue(g, t, EdgeOf(d))
    BY <1>3, <1>6, <2>1 DEF QueuedTo, EdgeOf
  <2>. QED BY <1>2, <1>3, <2>2 DEF DueFromQueue, GoesDirect
<1>. QED BY <1>7, <1>8, OwedFrom

\* packetReady() delivers the packet at the head of its batch.
LEMMA InHandInOrder ==
  ASSUME HomeInv, OwingInv, OrderInv, NEW g \in Groups, InHand(g),
         NEW d, IsOf(d, Head(callback[g].batch)), QueuedTo(g, d)
  PROVE  NoneOlder(d)
<1>. PICK info : info = Head(callback[g].batch)
  OBVIOUS
<1>s. PICK s : s = callback[g].batch
  OBVIOUS
<1>1. s \in Seq(Info) /\ s # <<>> /\ info = s[1] /\ 1 \in DOMAIN s
  <2>1. s \in Seq(Info) /\ s # <<>>
    BY <1>s DEF HomeInv, CallbackInv, CallbackState, InHand
  <2>. QED BY <1>s, <2>1, HeadAndTail
<1>2. info \in Held(g)
  BY <1>1, <1>s, HeldMember
<1>3. IsOf(d, info) /\ d.id \in Nat
  BY <1>2, HeldKnown DEF IsOf, Info
<1>. SUFFICES ASSUME NEW e \in Owed,
                     <<e.node, e.chan, e.edge, e.by>> = <<d.node, d.chan, d.edge, d.by>>,
                     e.id < d.id, ~ Repushes(d.by, d.node)
              PROVE  FALSE
  BY DEF NoneOlder
<1>4. e.node = d.node /\ e.chan = d.chan /\ e.edge = d.edge /\ e.by = d.by
  OBVIOUS
<1>5. ~ \E t \in Threads : OwedByCall(e, t)
  <2>. SUFFICES ASSUME NEW t \in Threads, OwedByCall(e, t) PROVE FALSE
    OBVIOUS
  <2>1. PICK i \in DOMAIN stack[t] :
          IsCall(stack[t][i]) /\ IsOf(e, stack[t][i].info) /\ e.by = t
    BY DEF OwedByCall
  <2>2. NotOlder(t, stack[t][i], info)
    BY <1>2 DEF OrderInv, CallsNotOlder
  <2>3. NodeOf(stack[t][i]) = e.node
    BY <2>1 DEF NodeOf, IsCall, IsOf
  <2>4. info.id <= stack[t][i].info.id
    BY <1>3, <1>4, <2>1, <2>2, <2>3 DEF NotOlder, IsOf
  <2>5. d.id <= e.id /\ e.id \in Nat
    <3>1. stack[t][i].info.id \in Nat
      BY <2>1, CallInfo
    <3>. QED BY <1>3, <2>1, <2>4, <3>1 DEF IsOf
  <2>. QED BY <1>3, <2>5
<1>6. PICK h \in Groups : QueuedTo(h, e) /\ (OwedFromQueue(e, h) \/ OwedFromBatch(e, h))
  BY <1>5, OwedFrom
<1>7. h = g
  BY <1>4, <1>6, QueuedToOne
<1>8. GroupOrdered(g)
  BY DEF OrderInv, GroupsOrdered
<1>9. \A p \in Held(g) : IsOf(e, p) => ~ Before(info, p)
  <2>. SUFFICES ASSUME NEW p \in Held(g), IsOf(e, p), Before(info, p) PROVE FALSE
    OBVIOUS
  <2>1. d.id < e.id /\ e.id \in Nat
    BY <1>3, <1>4, HeldKnown DEF Before, IsOf, Info
  <2>. QED BY <1>3, <2>1
<1>10. CASE OwedFromQueue(e, g)
  <2>1. PICK t \in Threads : \E i \in DOMAIN queue[g][t] : IsOf(e, queue[g][t][i])
    BY <1>10 DEF OwedFromQueue
  <2>2. PICK i \in DOMAIN queue[g][t] : IsOf(e, queue[g][t][i])
    BY <2>1
  <2>3. queue[g][t][i] \in Held(g)
    BY HeldMember
  <2>4. Before(info, queue[g][t][i])
    BY <1>1, <1>8, <1>s DEF GroupOrdered, AllBefore
  <2>. QED BY <1>9, <2>2, <2>3, <2>4
<1>11. CASE OwedFromBatch(e, g)
  <2>1. PICK i \in DOMAIN s : IsOf(e, s[i])
    BY <1>11, <1>s DEF OwedFromBatch
  <2>2. s[i] \in Held(g)
    BY <1>s, HeldMember
  <2>3. i # 1
    BY <1>1, <1>3, <2>1 DEF IsOf
  <2>4. 1 < i
    BY <1>1, <2>3
  <2>5. Before(info, s[i])
    BY <1>1, <1>8, <1>s, <2>4 DEF GroupOrdered, Ordered
  <2>. QED BY <1>9, <2>1, <2>2, <2>5
<1>. QED BY <1>6, <1>7, <1>10, <1>11

LEMMA DeliverInOrder ==
  ASSUME HomeInv, OwingInv, OrderInv, NEW g \in Groups,
         DeliverQueued(g) \/ DeliverManual(g), NEW d \in delivered' \ delivered
  PROVE  NoneOlder(d)
<1>. PICK info : info = Head(callback[g].batch)
  OBVIOUS
<1>1. InHand(g) /\ info \in HomeInfo(g)
  BY PacketInHand DEF DeliverQueued, DeliverManual
<1>2. CASE DeliverQueued(g)
  <2>. PICK i : i = callback[g].next
    BY SMTT(60)
  <2>1. /\ info.chan # Manual /\ DueFromQueue(g, info.by, OutEdges(info)[i])
        /\ d = DeliveryOf(info, i, g)
    BY <1>2 DEF DeliverQueued, SendToNode
  <2>2. IsOf(d, info) /\ d.edge = i
    BY SMTT(60), <2>1 DEF DeliveryOf, IsOf
  <2>3. QueuedTo(g, d)
    BY <2>1, <2>2 DEF QueuedTo, EdgeOf, OutEdges, IsOf
  <2>. QED BY <1>1, <2>2, <2>3, InHandInOrder
<1>3. CASE DeliverManual(g)
  <2>1. info.chan = Manual /\ d = DeliveryOf(info, 0, g)
    BY <1>3 DEF DeliverManual, SendToNode
  <2>2. IsOf(d, info)
    BY <2>1 DEF DeliveryOf, IsOf
  <2>3. QueuedTo(g, d)
    BY <1>1, <2>1, <2>2 DEF QueuedTo, HomeInfo, IsOf
  <2>. QED BY <1>1, <2>2, <2>3, InHandInOrder
<1>. QED BY <1>2, <1>3

\* No other step delivers.
LEMMA WhoDelivers ==
  ASSUME [Next]_vars, NEW d \in delivered' \ delivered
  PROVE  \/ \E t \in Threads : PushEdgeDirectly(t)
         \/ \E g \in Groups : DeliverQueued(g) \/ DeliverManual(g)
<1>1. delivered' # delivered
  OBVIOUS
<1>2. ~ UNCHANGED vars
  BY SMTT(60), <1>1 DEF vars
<1>3. ASSUME NEW t \in Threads, PushStep(t) PROVE PushEdgeDirectly(t)
  BY <1>1, <1>3 DEF PushStep, Accumulate, PushEdgeAside, EndEdges, Enqueue, Signal
<1>4. ASSUME NEW t \in Threads, Environment(t) PROVE FALSE
  BY <1>1, <1>4
     DEF Environment, HandlerPushes, SourcePushes, SendPacket, HandlerReturns, HandlerThrows
<1>5. ASSUME NEW g \in Groups, CallbackStep(g) PROVE DeliverQueued(g) \/ DeliverManual(g)
  BY <1>1, <1>5
     DEF CallbackStep, PacketReady, Dequeue, Dequeued, SkipEdge, NextPacket, NextBatch
<1>. QED BY <1>2, <1>3, <1>4, <1>5 DEF Next

(***************************************************************************)
(* What one thread pushes for a node arrives over each of its edges in the *)
(* order of the pushes, unless a push may run another for the node inside  *)
(* itself: pushPacket() on the one hand, the queues, try_dequeue_bulk()    *)
(* and packetReady() on the other never let a packet overtake.             *)
(***************************************************************************)
THEOREM InOrder == Spec => DeliveredInOrder
<1>1. ASSUME HomeInv, OwingInv, NestInv, OrderInv, [Next]_vars,
             NEW d \in delivered' \ delivered
      PROVE  NoneOlder(d)
  BY <1>1, WhoDelivers, DirectInOrder, DeliverInOrder
<1>2. HomeInv /\ OwingInv /\ NestInv /\ OrderInv /\ [Next]_vars
        => [\A d \in delivered' \ delivered, e \in Owed :
              (/\ <<e.node, e.chan, e.edge, e.by>> = <<d.node, d.chan, d.edge, d.by>>
               /\ e.id < d.id)
              => Repushes(d.by, d.node)]_vars
  BY <1>1 DEF NoneOlder
<1>. QED BY <1>2, AlwaysHome, AlwaysOwing, AlwaysOrdered, PTL DEF Spec, DeliveredInOrder

-----------------------------------------------------------------------------
(* What the promise comes to.                                              *)

\* Nothing that was delivered is still to be made, on any path.
NotAgain == Owed \cap delivered = {}

\* pushPacket() or packetReady() calls a handler.
CallsHandler ==
  \/ \E t \in Threads : PushEdgeDirectly(t)
  \/ \E g \in Groups : DeliverQueued(g) \/ DeliverManual(g)

\* Each handler that is called makes one delivery, which was owed and was not
\* made before.
EachIsNew ==
  [][CallsHandler =>
       \E d \in Owed \ delivered :
         Owed' = Owed \ {d} /\ delivered' = delivered \cup {d}]_vars

\* A delivery that is no longer owed was made, or was lost with its own call;
\* and none is made that was not owed.
OnlyFailureLoses ==
  [][/\ \A d \in Owed \ Owed' : d \in delivered' \/ d.id \in Open \ Open'
     /\ delivered \subseteq delivered'
     /\ delivered' \ delivered \subseteq Owed]_vars

\* No thread is in the library or in a handler, and no callback is to come.
Quiet ==
  /\ \A t \in Threads : stack[t] = <<>>
  /\ \A g \in Groups : callback[g].pc = "idle" /\ ~ signalled[g]

\* When all is quiet there is nothing left to deliver.
QuietOwesNothing == Quiet /\ ~ crashed => Owed = {}

LEMMA PromiseKept ==
  ASSUME Promise!Next
  PROVE  /\ NotAgain => NotAgain'
         /\ \A d \in Owed \ Owed' : d \in delivered' \/ d.id \in Open \ Open'
         /\ delivered \subseteq delivered'
         /\ delivered' \ delivered \subseteq Owed
<1>1. ASSUME NEW id \in Open' \ Open, Promise!Accept(id)
      PROVE  /\ NotAgain => NotAgain'
             /\ Owed \subseteq Owed' /\ delivered' = delivered
  <2>1. /\ \A d \in Owed' \ Owed : d.id = id
        /\ \A d \in delivered : d.id # id
    BY <1>1 DEF Promise!Accept, Promise!Of
  <2>. QED BY <1>1, <2>1 DEF Promise!Accept, NotAgain
<1>2. ASSUME NEW d \in Owed, Promise!Deliver(d)
      PROVE  /\ NotAgain => NotAgain'
             /\ Owed' = Owed \ {d} /\ delivered' = delivered \cup {d}
  BY <1>2 DEF Promise!Deliver, NotAgain
<1>3. ASSUME NEW id \in Open, Promise!Return(id)
      PROVE  NotAgain' = NotAgain /\ Owed' = Owed /\ delivered' = delivered
  BY <1>3 DEF Promise!Return, NotAgain
<1>4. ASSUME Promise!Fail
      PROVE  /\ NotAgain => NotAgain'
             /\ \A d \in Owed \ Owed' : d.id \in Open \ Open'
             /\ delivered' = delivered
  BY <1>4 DEF Promise!Fail, NotAgain
<1>. QED BY <1>1, <1>2, <1>3, <1>4 DEF Promise!Next

LEMMA QuietIsDone ==
  ASSUME HomeInv, OwingInv, NoStrandedPacket
  PROVE  QuietOwesNothing
<1>. SUFFICES ASSUME Quiet, ~ crashed, NEW d \in Owed PROVE FALSE
  BY DEF QuietOwesNothing
<1>1. ASSUME NEW t \in Threads PROVE d \notin OwedByStack(t, stack[t])
  BY DEF Quiet, OwedByStack
<1>2. ASSUME NEW g \in Groups, NEW t \in Threads PROVE d \notin OwedByQueue(g, queue[g][t])
  <2>1. queue[g][t] = <<>>
    BY DEF Quiet, NoStrandedPacket, WillVisit, Signalling, Running
  <2>. QED BY <2>1 DEF OwedByQueue
<1>3. ASSUME NEW g \in Groups
      PROVE  d \notin OwedByBatch(g, callback[g].batch, callback[g].next)
  <2>1. callback[g].batch = <<>>
    BY DEF Quiet, OwingInv, BatchInv
  <2>. QED BY <2>1 DEF OwedByBatch
<1>. QED BY <1>1, <1>2, <1>3, OwedMembers

LEMMA AlwaysNotAgain == Spec => []NotAgain
<1>1. Init => NotAgain
  BY DEF Init, NotAgain
<1>2. NotAgain /\ HomeInv /\ OwingInv /\ [Next]_vars => NotAgain'
  BY OwingNext, PromiseKept DEF Serves, NotAgain
<1>. QED BY <1>1, <1>2, AlwaysHome, AlwaysOwing, PTL DEF Spec

(***************************************************************************)
(* No edge's target is called twice with a packet: what pushPacket() has   *)
(* delivered from its loop is in no queue, and what packetReady() has      *)
(* delivered is neither in its batch nor with a call that has yet to queue *)
(* it.  The promise alone leaves this open, since a delivery made again    *)
(* would not show in the set of those made.                                *)
(***************************************************************************)
THEOREM NeverTwice == Spec => EachIsNew
<1>1. HomeInv /\ OwingInv /\ NotAgain
        => [CallsHandler =>
              \E d \in Owed \ delivered :
                Owed' = Owed \ {d} /\ delivered' = delivered \cup {d}]_vars
  BY PushEdgeDirectlyServes, DeliverQueuedServes, DeliverManualServes
     DEF CallsHandler, MakesOne, NotAgain, Promise!Deliver
<1>. QED BY <1>1, AlwaysHome, AlwaysOwing, AlwaysNotAgain, PTL DEF Spec, EachIsNew

(***************************************************************************)
(* A packet is lost only to an exception that ends the very call that      *)
(* pushed it: once pushPacket() or sendPacket() has returned, no exception *)
(* of any handler, on any thread, takes a delivery away.                   *)
(***************************************************************************)
THEOREM LossNeedsFailure == Spec => OnlyFailureLoses
<1>1. HomeInv /\ OwingInv /\ [Next]_vars
        => [/\ \A d \in Owed \ Owed' : d \in delivered' \/ d.id \in Open \ Open'
            /\ delivered \subseteq delivered'
            /\ delivered' \ delivered \subseteq Owed]_vars
  BY OwingNext, PromiseKept DEF Serves
<1>. QED BY <1>1, AlwaysHome, AlwaysOwing, PTL DEF Spec, OnlyFailureLoses

(***************************************************************************)
(* When no thread is in a call or a handler, no packetReady() runs and no  *)
(* async handle is pending, everything that was pushed is delivered, or    *)
(* was lost to an exception: the graph cannot come to rest with a packet   *)
(* in it.  What EverythingArrives adds is that it does come to rest.       *)
(***************************************************************************)
THEOREM RestsOnlyWhenDone == Spec => []QuietOwesNothing
BY QuietIsDone, AlwaysHome, AlwaysOwing, NothingStranded, PTL
=============================================================================
