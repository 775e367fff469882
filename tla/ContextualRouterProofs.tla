------------------------ MODULE ContextualRouterProofs ------------------------
(***************************************************************************)
(* Theorems of ContextualRouter, for any contexts, types and instances and *)
(* however deep packets come back to the routers.                          *)
(***************************************************************************)
EXTENDS ContextualRouter, SequenceTheorems, TLAPS

-----------------------------------------------------------------------------
\* What becomes of the stack.
Cut(d) == d \in 0..Depth /\ stack' = SubSeq(stack, 1, d)
Push(frame) == frame \in Frame /\ stack' = Append(stack, frame)
Swap(frame) == frame \in Frame /\ stack # <<>> /\ stack' = [stack EXCEPT ![Depth] = frame]

LEMMA CutFrames ==
  ASSUME stack \in Seq(Frame), NEW d, Cut(d)
  PROVE  /\ stack' \in Seq(Frame)
         /\ Depth' = d
         /\ \A e \in 1..d : stack'[e] = stack[e]
<1>1. d \in Int /\ 1 \in Int /\ \A e \in 1..d : stack[e] \in Frame
  BY DEF Cut, Depth
<1>2. /\ SubSeq(stack, 1, d) \in Seq(Frame)
      /\ Len(SubSeq(stack, 1, d)) = IF 1 <= d THEN d-1+1 ELSE 0
      /\ \A e \in 1..d-1+1 : SubSeq(stack, 1, d)[e] = stack[1+e-1]
  BY <1>1, SubSeqProperties
<1>3. \A e \in 1..d : e \in 1..d-1+1 /\ 1+e-1 = e
  BY <1>1
<1>4. d \in Nat
  BY DEF Cut, Depth
<1>. QED BY <1>2, <1>3, <1>4 DEF Cut, Depth

LEMMA PushFrames ==
  ASSUME stack \in Seq(Frame), NEW frame, Push(frame)
  PROVE  /\ stack' \in Seq(Frame)
         /\ Depth' = Depth + 1
         /\ \A e \in 1..Depth : stack'[e] = stack[e]
         /\ stack'[Depth + 1] = frame
BY DEF Push, Depth

LEMMA SwapFrames ==
  ASSUME stack \in Seq(Frame), NEW frame, Swap(frame)
  PROVE  /\ stack' \in Seq(Frame)
         /\ Depth' = Depth
         /\ Depth \in 1..Depth
         /\ \A e \in 1..Depth : e # Depth => stack'[e] = stack[e]
         /\ stack'[Depth] = frame
BY DEF Swap, Depth

LEMMA TopFrame ==
  ASSUME stack \in Seq(Frame), stack # <<>>
  PROVE  Depth \in Nat \ {0} /\ Depth \in DOMAIN stack /\ Top \in Frame
BY DEF Depth, Top

LEMMA TopParts ==
  ASSUME TypeOK, stack # <<>>
  PROVE  /\ Top.router \in Interfaces /\ Top.context \in Contexts
         /\ Top.instance \in Instances
         /\ Top.left \in Seq(Interfaces)
         /\ Depth \in Nat \ {0} /\ Depth \in 1..Depth /\ Top = stack[Depth]
<1>1. Top \in Frame /\ Depth \in Nat \ {0}
  BY TopFrame DEF TypeOK
<1>2. Top = stack[Depth] /\ Depth \in 1..Depth
  BY <1>1 DEF Top
<1>. HIDE DEF Top
<1>. QED BY <1>1, <1>2 DEF Frame

LEMMA SomeType ==
  ASSUME type \in Types
  PROVE  /\ type.interfaces \in Seq(Interfaces)
         /\ Members(type.interfaces) \subseteq Interfaces
         /\ type.sources \cup type.pathables \cup type.single \subseteq Members(type.interfaces)
         /\ type.eager \subseteq type.sources
<1>1. Members(type.interfaces) \subseteq Interfaces
  BY DEF Interfaces
<1>2. type.interfaces \in Seq(Members(type.interfaces))
  BY TypesAssumption
<1>. QED BY <1>1, <1>2, TypesAssumption, SeqMonotonic

LEMMA Frames ==
  ASSUME TypeOK, NEW f \in Interfaces, NEW k \in Contexts, NEW i \in Instances
  PROVE  Handling(f, k, i) \in Frame /\ Adding(f, k, i) \in Frame
<1>1. <<>> \in Seq(Interfaces) /\ type.interfaces \in Seq(Interfaces)
  BY SomeType DEF TypeOK
<1>. QED BY <1>1 DEF Handling, Adding, Frame

LEMMA MovedFrame ==
  ASSUME TypeOK, stack # <<>>, Top.left # <<>>
  PROVE  /\ Head(Top.left) \in Interfaces
         /\ Head(Top.left) = Top.left[1] /\ 1 \in DOMAIN Top.left
         /\ Moved(Head(Top.left)) \in Frame
         /\ Moved(Head(Top.left)).left = Tail(Top.left)
         /\ Moved(Head(Top.left)).calls <=> Head(Top.left) \in type.eager
         /\ Moved(Head(Top.left)).at = Top.at
         /\ Moved(Head(Top.left)).instance = Top.instance
         /\ Moved(Head(Top.left)).context = Top.context
<1>1. Top \in Frame
  BY TopFrame DEF TypeOK
<1>2. Top.left \in Seq(Interfaces)
  BY <1>1 DEF Frame
<1>3. Tail(Top.left) \in Seq(Interfaces) /\ Head(Top.left) \in Interfaces
  BY <1>2
<1>4. (Head(Top.left) \in type.eager) \in BOOLEAN
  OBVIOUS
<1>5. Head(Top.left) = Top.left[1] /\ 1 \in DOMAIN Top.left
  BY <1>2
<1>. DEFINE top == Top  h == Head(Top.left)  b == h \in type.eager  t == Tail(Top.left)
<1>6. Moved(h) = [top EXCEPT !.left = t, !.calls = b]
  BY DEF Moved
<1>7. top \in Frame /\ b \in BOOLEAN /\ t \in Seq(Interfaces)
  BY <1>1, <1>3, <1>4
<1>. HIDE DEF top, b, t, h
<1>8. LET m == [top EXCEPT !.left = t, !.calls = b]
      IN  /\ m \in Frame
          /\ m.left = t
          /\ m.calls <=> b
          /\ m.at = top.at
          /\ m.instance = top.instance
          /\ m.context = top.context
  BY <1>7 DEF Frame
<1>. QED BY <1>3, <1>5, <1>6, <1>8 DEF top, h, b, t

\* What each operation does to the stack.
LEMMA ThrowCuts ==
  ASSUME TypeOK, Throw, stack # <<>>
  PROVE  \E d \in 0..(Depth - 1) : Cut(d)
BY TopFrame DEF Throw, Cut, TypeOK

LEMMA HandlePacketPushes ==
  ASSUME TypeOK, NEW f \in Interfaces, NEW k \in Contexts, HandlePacket(f, k)
  PROVE  /\ nodes[f][k] \in Instances
         /\ Push(Handling(f, k, nodes[f][k]))
<1>1. nodes[f][k] \in Instances
  BY DEF HandlePacket, TypeOK
<1>. QED BY <1>1, Frames DEF HandlePacket, Call, Push

LEMMA CreatePushes ==
  ASSUME TypeOK, NEW f \in Interfaces, NEW k \in Contexts, NEW i \in Instances,
         CreateNewInstance(f, k, i)
  PROVE  Push(Adding(f, k, i))
BY Frames DEF CreateNewInstance, Call, Push

LEMMA AddNodeMoves ==
  ASSUME TypeOK, AddNode
  PROVE  \/ Swap(Moved(Head(Top.left)))
         \/ \E d \in 0..(Depth - 1) : Cut(d)
BY ThrowCuts, MovedFrame DEF AddNode, Swap

LEMMA AddedSwaps ==
  ASSUME TypeOK, Added
  PROVE  \/ /\ nodes[Top.router][Top.context] \in Instances
            /\ Swap(Handling(Top.router, Top.context, nodes[Top.router][Top.context]))
         \/ UNCHANGED stack
<1>1. Top.router \in Interfaces /\ Top.context \in Contexts
  BY TopFrame DEF Added, TypeOK, Frame
<1>2. nodes[Top.router][Top.context] \in Instances \cup {None}
  BY <1>1 DEF TypeOK
<1>. QED BY <1>1, <1>2, Frames DEF Added, Swap

LEMMA ReturnCuts == ASSUME TypeOK, HandlerReturns PROVE Cut(Depth - 1)
BY TopFrame DEF HandlerReturns, Cut, TypeOK

-----------------------------------------------------------------------------
LEMMA InitType == Init => TypeOK
<1>. SUFFICES ASSUME Init PROVE TypeOK
  OBVIOUS
<1>1. stack \in Seq(Frame) /\ Depth = 0
  BY DEF Init, Depth
<1>2. crashed \in BOOLEAN
  BY DEF Init
<1>. QED BY <1>1, <1>2, DepthAssumption DEF Init, TypeOK

LEMMA StackType ==
  ASSUME TypeOK, Next
  PROVE  stack' \in Seq(Frame) /\ Depth' <= MaxDepth
<1>1. CASE \E d \in 0..Depth : Cut(d)
  BY <1>1, CutFrames, DepthAssumption DEF TypeOK, Depth
<1>2. CASE \E frame : Push(frame) /\ Depth < MaxDepth
  BY <1>2, PushFrames, DepthAssumption DEF TypeOK, Depth
<1>3. CASE \E frame : Swap(frame)
  BY <1>3, SwapFrames DEF TypeOK
<1>4. CASE UNCHANGED stack
  BY <1>4 DEF TypeOK, Depth
<1>5. Depth \in Nat
  BY DEF TypeOK, Depth
<1>6. ASSUME NEW f \in Interfaces, NEW k \in Contexts, HandlePacket(f, k) PROVE \E frame : Push(frame) /\ Depth < MaxDepth
  BY <1>6, HandlePacketPushes DEF HandlePacket, Call
<1>7. ASSUME NEW f \in Interfaces, NEW k \in Contexts, NEW i \in Instances, CreateNewInstance(f, k, i)
      PROVE  \E frame : Push(frame) /\ Depth < MaxDepth
  BY <1>7, CreatePushes DEF CreateNewInstance, Call
<1>8. AddNode => (\E frame : Swap(frame)) \/ \E d \in 0..Depth : Cut(d)
  BY <1>5, AddNodeMoves
<1>9. Added => (\E frame : Swap(frame)) \/ UNCHANGED stack
  BY AddedSwaps
<1>10. HandlerReturns => \E d \in 0..Depth : Cut(d)
  BY ReturnCuts, TopFrame DEF HandlerReturns, TypeOK
<1>11. CodeThrows => \E d \in 0..Depth : Cut(d)
  BY <1>5, ThrowCuts DEF CodeThrows
<1>. QED
  BY <1>1, <1>2, <1>3, <1>4, <1>6, <1>7, <1>8, <1>9, <1>10, <1>11
  DEF Next, CreatorGone, AddNodeToErased, HandleWithoutKey, Remove, SetPacketPusher, Release

LEMMA NextType == ASSUME TypeOK, [Next]_vars PROVE TypeOK'
<1>1. CASE UNCHANGED vars
  BY <1>1 DEF TypeOK, vars, tables, Depth
<1>. SUFFICES ASSUME Next PROVE TypeOK'
  BY <1>1
<1>2. stack' \in Seq(Frame) /\ Depth' <= MaxDepth
  BY StackType
<1>3. type' = type /\ crashed' \in BOOLEAN
  <2>1. Defined \/ Undefined \/ Crash => crashed' \in BOOLEAN
    BY DEF Defined, Undefined, Crash, TypeOK
  <2>2. Throw => crashed' \in BOOLEAN
    BY <2>1 DEF Throw
  <2>. QED
    BY <2>1, <2>2 DEF Next, HandlePacket, CreateNewInstance, CreatorGone, AddNode, AddNodeToErased,
       Added, HandlerReturns, CodeThrows, HandleWithoutKey, Remove, SetPacketPusher, Release
<1>4. owners' \subseteq {"impl", "group"} /\ given' \subseteq type.sources
  BY DEF TypeOK, Next, HandlePacket, CreateNewInstance, CreatorGone, AddNode, AddNodeToErased,
     Added, HandlerReturns, CodeThrows, HandleWithoutKey, Remove, SetPacketPusher, Release
<1>5. madeFor' \in [Instances -> Contexts \cup {None}]
  BY DEF TypeOK, Next, HandlePacket, CreateNewInstance, CreatorGone, AddNode, AddNodeToErased,
     Added, HandlerReturns, CodeThrows, HandleWithoutKey, Remove, SetPacketPusher, Release
<1>6. CASE AddNode
  <2>1. /\ Head(Top.left) \in Interfaces
        /\ Top.context \in Contexts
        /\ Top.instance \in Instances
    BY <1>6, MovedFrame, TopFrame DEF AddNode, TypeOK, Frame
  <2>2. nodes' \in [Interfaces -> [Contexts -> Instances \cup {None}]]
    BY <1>6, <2>1 DEF AddNode, Enter, TypeOK
  <2>3. reverse' \in [Interfaces -> [Instances -> Contexts \cup {None}]]
    BY <1>6, <2>1 DEF AddNode, Enter, TypeOK
  <2>4. pushers' \subseteq type.sources \X Instances
    BY <1>6, <2>1 DEF AddNode, GivePusher, TypeOK
  <2>. QED
    BY <1>2, <1>3, <1>4, <1>5, <1>6, <2>2, <2>3, <2>4 DEF AddNode, TypeOK
<1>7. ASSUME NEW k \in Contexts, Remove(k) PROVE TypeOK'
  <2>1. nodes' \in [Interfaces -> [Contexts -> Instances \cup {None}]]
    BY <1>7 DEF Remove, Forget, TypeOK
  <2>2. reverse' \in [Interfaces -> [Instances -> Contexts \cup {None}]]
    BY <1>7 DEF Remove, Forget, TypeOK
  <2>3. removed' \subseteq Interfaces \X Instances
    BY <1>7, SomeType DEF Remove, TypeOK
  <2>4. routers' \subseteq Members(type.interfaces)
    BY <1>7 DEF Remove, TypeOK
  <2>. QED
    BY <1>2, <1>3, <1>4, <1>5, <1>7, <2>1, <2>2, <2>3, <2>4 DEF Remove, TypeOK
<1>8. ASSUME NEW f \in Interfaces, SetPacketPusher(f) PROVE TypeOK'
  <2>1. pushers' \subseteq type.sources \X Instances
    BY <1>8 DEF SetPacketPusher, TypeOK
  <2>. QED
    BY <1>2, <1>3, <1>4, <1>5, <1>8, <2>1 DEF SetPacketPusher, tables, TypeOK
<1>9. CASE UNCHANGED <<tables, pushers, removed>>
  BY <1>2, <1>3, <1>4, <1>5, <1>9 DEF tables, TypeOK
<1>. QED
  BY <1>6, <1>7, <1>8, <1>9
  DEF Next, HandlePacket, CreateNewInstance, CreatorGone, AddNodeToErased,
      Added, HandlerReturns, CodeThrows, HandleWithoutKey, Release

(***************************************************************************)
(* Every variable keeps its type; above all, the activations of            *)
(* handlePacket() have instances, never a null pointer.                    *)
(***************************************************************************)
THEOREM TypeCorrect == Spec => []TypeOK
BY InitType, NextType, PTL DEF Spec

-----------------------------------------------------------------------------
(***************************************************************************)
(* Contexts.  Both tables and the activations agree on whose an instance   *)
(* is; each of the two properties needs the other.                         *)
(***************************************************************************)

FramesApart == \A d \in DOMAIN stack : madeFor[stack[d].instance] = stack[d].context

\* A step that puts no frame of another context on the stack.
LEMMA FramesStayApart ==
  ASSUME TypeOK, FramesApart, UNCHANGED madeFor,
         \/ UNCHANGED stack
         \/ \E d \in 0..Depth : Cut(d)
         \/ \E frame : /\ Push(frame) \/ Swap(frame)
                       /\ madeFor[frame.instance] = frame.context
  PROVE  FramesApart'
<1>1. stack \in Seq(Frame)
  BY DEF TypeOK
<1>2. CASE UNCHANGED stack
  BY <1>2 DEF FramesApart
<1>3. ASSUME NEW d \in 0..Depth, Cut(d) PROVE FramesApart'
  BY <1>1, <1>3, CutFrames DEF FramesApart, Depth
<1>4. ASSUME NEW frame, Push(frame), madeFor[frame.instance] = frame.context PROVE FramesApart'
  BY <1>1, <1>4, PushFrames DEF FramesApart, Depth
<1>5. ASSUME NEW frame, Swap(frame), madeFor[frame.instance] = frame.context PROVE FramesApart'
  BY <1>1, <1>5, SwapFrames DEF FramesApart, Depth
<1>. QED BY <1>2, <1>3, <1>4, <1>5

TablesApart == \A f \in Interfaces, k \in Contexts :
  nodes[f][k] # None => madeFor[nodes[f][k]] = k

LEMMA NextApart ==
  ASSUME TypeOK, TablesMirror, TablesApart, FramesApart, Next
  PROVE  TablesMirror' /\ TablesApart' /\ FramesApart'
<1>1. ASSUME NEW f \in Interfaces, NEW k \in Contexts, HandlePacket(f, k)
      PROVE  TablesMirror' /\ TablesApart' /\ FramesApart'
  <2>1. /\ Push(Handling(f, k, nodes[f][k]))
        /\ madeFor[nodes[f][k]] = k
    BY <1>1, HandlePacketPushes, NoneAssumption DEF TablesApart
  <2>2. FramesApart'
    BY <1>1, <2>1, FramesStayApart DEF HandlePacket, Handling
  <2>. QED BY <1>1, <2>2 DEF HandlePacket, tables, TablesMirror, TablesApart
<1>2. ASSUME NEW f \in Interfaces, NEW k \in Contexts, NEW i \in Instances, CreateNewInstance(f, k, i)
      PROVE  TablesMirror' /\ TablesApart' /\ FramesApart'
  <2>1. Push(Adding(f, k, i)) /\ UNCHANGED <<nodes, reverse>>
    BY <1>2, CreatePushes DEF CreateNewInstance, tables
  <2>2. madeFor[i] = None /\ madeFor' = [madeFor EXCEPT ![i] = k]
    BY <1>2 DEF CreateNewInstance
  <2>3. TablesApart' /\ TablesMirror'
    BY <2>1, <2>2, NoneAssumption DEF TypeOK, TablesApart, TablesMirror
  <2>4. \A d \in DOMAIN stack : stack[d].instance # i /\ stack[d].instance \in Instances
    <3>. SUFFICES ASSUME NEW d \in DOMAIN stack
                  PROVE  stack[d].instance # i /\ stack[d].instance \in Instances
      OBVIOUS
    <3>1. stack[d] \in Frame
      BY DEF TypeOK
    <3>2. stack[d].instance \in Instances /\ stack[d].context \in Contexts
      BY <3>1 DEF Frame
    <3>. QED BY <2>2, <3>2, NoneAssumption DEF FramesApart
  <2>5. FramesApart'
    <3>. SUFFICES ASSUME NEW d \in DOMAIN stack'
                  PROVE  madeFor'[stack'[d].instance] = stack'[d].context
      BY DEF FramesApart
    <3>1. CASE d = Depth + 1
      BY <2>1, <2>2, <3>1, PushFrames DEF TypeOK, Adding
    <3>2. CASE d # Depth + 1
      <4>1. d \in DOMAIN stack /\ stack'[d] = stack[d]
        BY SMTT(60), <2>1, <3>2, PushFrames DEF TypeOK, Depth
      <4>. QED BY <2>2, <2>4, <4>1 DEF FramesApart, TypeOK
    <3>. QED BY <3>1, <3>2
  <2>. QED BY <2>3, <2>5
<1>3. CASE AddNode
  <2>. DEFINE f == Head(Top.left)  i == Top.instance  k == Top.context
  <2>1. /\ f \in Interfaces /\ i \in Instances /\ k \in Contexts
        /\ madeFor[i] = k
    BY <1>3, MovedFrame, TopFrame DEF AddNode, TypeOK, Frame, FramesApart, Top
  <2>2. /\ nodes' = [nodes EXCEPT ![f][k] = i]
        /\ reverse' = [reverse EXCEPT ![f][i] = k]
        /\ UNCHANGED madeFor
    BY <1>3 DEF AddNode, Enter
  <2>3. FramesApart'
    <3>1. \A frame : frame = Moved(f) => madeFor[frame.instance] = frame.context
      BY <1>3, <2>1, MovedFrame DEF AddNode
    <3>2. 0..(Depth - 1) \subseteq 0..Depth
      BY DEF TypeOK, Depth
    <3>. QED BY <1>3, <2>2, <3>1, <3>2, AddNodeMoves, FramesStayApart
  <2>. HIDE DEF f, i, k
  <2>4. TablesApart'
    BY <2>1, <2>2 DEF TypeOK, TablesApart
  <2>5. TablesMirror'
    BY <2>1, <2>2, NoneAssumption DEF TypeOK, TablesApart, TablesMirror
  <2>. QED BY <2>3, <2>4, <2>5
<1>4. CASE Added
  <2>1. /\ Top.router \in Interfaces /\ Top.context \in Contexts
        /\ UNCHANGED <<nodes, reverse, madeFor>>
    BY <1>4, TopFrame DEF Added, TypeOK, Frame, tables
  <2>2. FramesApart'
    <3>. DEFINE i == nodes[Top.router][Top.context]
    <3>1. i # None => madeFor[i] = Top.context
      BY <2>1 DEF TablesApart
    <3>2. \A frame : frame = Handling(Top.router, Top.context, i) /\ i # None
            => madeFor[frame.instance] = frame.context
      BY <3>1 DEF Handling
    <3>3. i \in Instances => i # None
      BY NoneAssumption
    <3>. QED BY <1>4, <2>1, <3>2, <3>3, AddedSwaps, FramesStayApart
  <2>. QED BY <2>1, <2>2 DEF TablesMirror, TablesApart
<1>5. CASE HandlerReturns \/ CodeThrows
  <2>1. \E d \in 0..Depth : Cut(d)
    BY <1>5, ReturnCuts, ThrowCuts, TopFrame DEF HandlerReturns, CodeThrows, TypeOK
  <2>2. UNCHANGED <<nodes, reverse, madeFor>>
    BY <1>5 DEF HandlerReturns, CodeThrows, tables
  <2>. QED BY <2>1, <2>2, FramesStayApart DEF TablesMirror, TablesApart
<1>6. ASSUME NEW k \in Contexts, Remove(k) PROVE TablesMirror' /\ TablesApart' /\ FramesApart'
  <2>. DEFINE from == IF Finds(k) THEN routers ELSE {}
  <2>1. Forget(k, from) /\ UNCHANGED <<stack, madeFor>>
    BY <1>6 DEF Remove
  <2>2. FramesApart'
    BY <2>1, FramesStayApart
  <2>. HIDE DEF from
  <2>3. TablesApart'
    BY <2>1 DEF Forget, TypeOK, TablesApart
  <2>4. TablesMirror'
    BY <2>1 DEF Forget, TypeOK, TablesApart, TablesMirror
  <2>. QED BY <2>2, <2>3, <2>4
<1>7. CASE UNCHANGED <<nodes, reverse, madeFor, stack>>
  BY <1>7 DEF TablesMirror, TablesApart, FramesApart
<1>. QED
  BY <1>1, <1>2, <1>3, <1>4, <1>5, <1>6, <1>7
  DEF Next, CreatorGone, AddNodeToErased, HandleWithoutKey, SetPacketPusher, Release, tables

LEMMA InitApart == Init => TablesMirror /\ ContextsApart
BY DEF Init, TablesMirror, ContextsApart

LEMMA StepApart ==
  ASSUME TypeOK, TablesMirror, ContextsApart, [Next]_vars
  PROVE  TablesMirror' /\ ContextsApart'
<1>1. CASE UNCHANGED vars
  BY <1>1 DEF vars, tables, TablesMirror, ContextsApart
<1>2. TablesApart /\ FramesApart
  BY DEF ContextsApart, TablesApart, FramesApart
<1>3. TablesApart' /\ FramesApart' => ContextsApart'
  BY DEF ContextsApart, TablesApart, FramesApart
<1>. QED BY <1>1, <1>2, <1>3, NextApart

(***************************************************************************)
(* removeNode() finds in the reverse table what it found in the other, so  *)
(* that it erases the context it was asked to and nothing else.            *)
(***************************************************************************)
THEOREM TablesAlwaysMirror == Spec => []TablesMirror
BY InitType, NextType, InitApart, StepApart, PTL DEF Spec

(***************************************************************************)
(* However deep packets come back while instances are made, removed and    *)
(* made again, a packet is handled by an instance of its own context.      *)
(***************************************************************************)
THEOREM ContextsStayApart == Spec => []ContextsApart
BY InitType, NextType, InitApart, StepApart, PTL DEF Spec

-----------------------------------------------------------------------------
LEMMA NextPusher ==
  ASSUME TypeOK, SourcesKnowPusher, [Next]_vars
  PROVE  SourcesKnowPusher'
<1>1. CASE AddNode
  <2>. DEFINE f == Head(Top.left)  i == Top.instance  k == Top.context
  <2>1. f \in Interfaces /\ i \in Instances /\ k \in Contexts
    BY <1>1, MovedFrame, TopFrame DEF AddNode, TypeOK, Frame
  <2>2. nodes' = [nodes EXCEPT ![f][k] = i] /\ UNCHANGED <<type, given>>
    BY <1>1 DEF AddNode, Enter
  <2>3. f \notin type.single => GivePusher(f)
    BY <1>1 DEF AddNode, NewContext
  <2>4. f \in given \ type.single => pushers' = pushers \cup {<<f, i>>}
    BY <2>3 DEF GivePusher, TypeOK
  <2>5. pushers \subseteq pushers'
    BY <1>1 DEF AddNode, GivePusher
  <2>6. given \subseteq Interfaces
    BY SomeType DEF TypeOK
  <2>. HIDE DEF f, i, k
  <2>. QED BY <2>1, <2>2, <2>4, <2>5, <2>6 DEF SourcesKnowPusher, TypeOK
<1>2. ASSUME NEW k \in Contexts, Remove(k) PROVE SourcesKnowPusher'
  <2>1. given \subseteq Interfaces
    BY SomeType DEF TypeOK
  <2>. QED BY <1>2, <2>1 DEF Remove, Forget, SourcesKnowPusher, TypeOK
<1>3. ASSUME NEW f \in Interfaces, SetPacketPusher(f) PROVE SourcesKnowPusher'
  BY <1>3 DEF SetPacketPusher, tables, SourcesKnowPusher
<1>4. CASE UNCHANGED <<nodes, given, type, pushers>>
  BY <1>4 DEF SourcesKnowPusher
<1>. QED
  BY <1>1, <1>2, <1>3, <1>4
  DEF Next, vars, HandlePacket, CreateNewInstance, CreatorGone, AddNodeToErased,
      Added, HandlerReturns, CodeThrows, HandleWithoutKey, Release, tables

(***************************************************************************)
(* Whether the instance or the router's pusher comes first, and whatever   *)
(* packets come between, the instance of a source ends up with the pusher. *)
(***************************************************************************)
THEOREM SourcesHavePushers == Spec => []SourcesKnowPusher
<1>1. Init => SourcesKnowPusher
  BY DEF Init, SourcesKnowPusher
<1>. QED BY <1>1, InitType, NextType, NextPusher, PTL DEF Spec

-----------------------------------------------------------------------------
(***************************************************************************)
(* Removal.  What was removed stays out of the tables because an instance  *)
(* enters each router once: ToEnter is about the routers left to a frame.  *)
(***************************************************************************)
ToEnter(frame, table, out) ==
  /\ \A j, l \in DOMAIN frame.left : frame.left[j] = frame.left[l] => j = l
  /\ \A j \in DOMAIN frame.left :
       /\ <<frame.left[j], frame.instance>> \notin out
       /\ \A k \in Contexts : table[frame.left[j]][k] # frame.instance

Entering ==
  /\ \A d \in 1..Depth : ToEnter(stack[d], nodes, removed)
  /\ \A d, e \in 1..Depth :
       d # e /\ stack[d].left # <<>> /\ stack[e].left # <<>>
         => stack[d].instance # stack[e].instance

Gone ==
  /\ \A x \in removed : madeFor[x[2]] # None
  /\ RemovedIsGone
  /\ type.group \/ routers = Members(type.interfaces)

LEMMA StayEntering ==
  ASSUME TypeOK, Entering, UNCHANGED <<nodes, removed>>,
         \/ UNCHANGED stack
         \/ \E d \in 0..Depth : Cut(d)
         \/ \E frame : (Push(frame) \/ Swap(frame)) /\ frame.left = <<>>
  PROVE  Entering'
<1>1. stack \in Seq(Frame) /\ Depth \in Nat
  BY DEF TypeOK, Depth
<1>2. \A frame : frame.left = <<>> => ToEnter(frame, nodes, removed)
  BY DEF ToEnter
<1>3. CASE UNCHANGED stack
  BY <1>3 DEF Entering, Depth
<1>4. ASSUME NEW d \in 0..Depth, Cut(d) PROVE Entering'
  <2>1. Depth' = d /\ \A e \in 1..d : e \in 1..Depth /\ stack'[e] = stack[e]
    BY <1>1, <1>4, CutFrames
  <2>. QED BY <2>1 DEF Entering
<1>5. ASSUME NEW frame, Push(frame), frame.left = <<>> PROVE Entering'
  <2>1. /\ Depth' = Depth + 1
        /\ \A e \in 1..Depth' : IF e = Depth + 1 THEN stack'[e] = frame
                                ELSE e \in 1..Depth /\ stack'[e] = stack[e]
    BY <1>1, <1>5, PushFrames
  <2>. QED BY <1>2, <1>5, <2>1 DEF Entering
<1>6. ASSUME NEW frame, Swap(frame), frame.left = <<>> PROVE Entering'
  <2>1. /\ Depth' = Depth
        /\ \A e \in 1..Depth' : IF e = Depth THEN stack'[e] = frame
                                ELSE stack'[e] = stack[e]
    BY <1>1, <1>6, SwapFrames
  <2>. QED BY <1>2, <1>6, <2>1 DEF Entering
<1>. QED BY <1>3, <1>4, <1>5, <1>6

LEMMA CreateEntering ==
  ASSUME TypeOK, TablesApart, FramesApart, Entering, Gone,
         NEW f \in Interfaces, NEW k \in Contexts, NEW i \in Instances,
         CreateNewInstance(f, k, i)
  PROVE  Entering'
<1>1. Push(Adding(f, k, i)) /\ UNCHANGED <<nodes, removed>> /\ madeFor[i] = None
  BY CreatePushes DEF CreateNewInstance, tables
<1>2. ToEnter(Adding(f, k, i), nodes, removed)
  <2>1. \A j, l \in DOMAIN type.interfaces : type.interfaces[j] = type.interfaces[l] => j = l
    BY TypesAssumption DEF TypeOK
  <2>2. \A j \in DOMAIN type.interfaces : type.interfaces[j] \in Interfaces
    BY SomeType DEF TypeOK
  <2>3. \A g : <<g, i>> \notin removed
    BY <1>1 DEF Gone
  <2>4. \A g \in Interfaces, c \in Contexts : nodes[g][c] # i
    BY <1>1, NoneAssumption DEF TablesApart
  <2>. QED BY <2>1, <2>2, <2>3, <2>4 DEF ToEnter, Adding
<1>3. \A d \in 1..Depth : stack[d].instance # i
  <2>. SUFFICES ASSUME NEW d \in 1..Depth PROVE stack[d].instance # i
    OBVIOUS
  <2>1. d \in DOMAIN stack /\ stack[d] \in Frame
    BY DEF TypeOK, Depth
  <2>. QED BY <1>1, <2>1, NoneAssumption DEF FramesApart, Frame
<1>4. /\ Depth \in Nat
      /\ Depth' = Depth + 1
      /\ \A e \in 1..Depth' : IF e = Depth + 1 THEN stack'[e] = Adding(f, k, i)
                              ELSE e \in 1..Depth /\ stack'[e] = stack[e]
  BY <1>1, PushFrames DEF TypeOK, Depth
<1>5. Adding(f, k, i).instance = i
  BY DEF Adding
<1>. QED BY <1>1, <1>2, <1>3, <1>4, <1>5 DEF Entering

LEMMA AddNodeEntering ==
  ASSUME TypeOK, Entering, AddNode
  PROVE  /\ Entering'
         /\ <<Head(Top.left), Top.instance>> \notin removed
<1>. DEFINE f == Head(Top.left)  i == Top.instance
<1>1. /\ stack \in Seq(Frame) /\ Depth \in Nat \ {0} /\ Top = stack[Depth] /\ Depth \in 1..Depth
      /\ stack # <<>> /\ Top.left # <<>>
  BY TopParts DEF AddNode, TypeOK
<1>2. /\ f \in Interfaces /\ i \in Instances /\ Top.context \in Contexts
      /\ f = Top.left[1] /\ 1 \in DOMAIN Top.left
      /\ Top.left \in Seq(Interfaces)
  BY <1>1, MovedFrame, TopParts
<1>3. nodes' = [nodes EXCEPT ![f][Top.context] = i] /\ UNCHANGED removed
  BY DEF AddNode, Enter
<1>4. ToEnter(Top, nodes, removed)
  BY <1>1 DEF Entering
<1>5. <<f, i>> \notin removed
  BY <1>1, <1>2, <1>4 DEF ToEnter
<1>6. \A frame \in Frame : ToEnter(frame, nodes, removed)
         /\ (frame.left # <<>> => frame.instance # i)
       => ToEnter(frame, nodes', removed')
  <2>. SUFFICES ASSUME NEW frame \in Frame, ToEnter(frame, nodes, removed),
                       frame.left # <<>> => frame.instance # i
                PROVE  ToEnter(frame, nodes', removed')
    OBVIOUS
  <2>1. frame.left \in Seq(Interfaces)
    BY DEF Frame
  <2>. HIDE DEF f, i
  <2>2. ASSUME NEW j \in DOMAIN frame.left, NEW c \in Contexts
        PROVE  nodes'[frame.left[j]][c] # frame.instance
    <3>1. frame.left[j] \in Interfaces /\ frame.left # <<>>
      BY <2>1, <2>2
    <3>2. nodes[frame.left[j]][c] # frame.instance
      BY <2>2 DEF ToEnter
    <3>. QED BY <1>2, <1>3, <2>2, <3>1, <3>2 DEF TypeOK
  <2>. QED BY <1>3, <2>2 DEF ToEnter
<1>7. \A d \in 1..Depth : stack[d] \in Frame
  BY <1>1 DEF Depth
<1>8. \A d \in 1..Depth : d # Depth => ToEnter(stack[d], nodes', removed')
  <2>. SUFFICES ASSUME NEW d \in 1..Depth, d # Depth PROVE ToEnter(stack[d], nodes', removed')
    OBVIOUS
  <2>1. stack[d].left # <<>> => stack[d].instance # i
    BY <1>1 DEF Entering
  <2>2. ToEnter(stack[d], nodes, removed)
    BY DEF Entering
  <2>. QED BY <1>6, <1>7, <2>1, <2>2
<1>9. ASSUME Swap(Moved(f)) PROVE Entering'
  <2>. DEFINE t == Tail(Top.left)
  <2>1. Moved(f).left = t /\ Moved(f).instance = i
    BY <1>1, MovedFrame
  <2>2. ToEnter(Moved(f), nodes', removed')
    <3>1. /\ t \in Seq(Interfaces)
          /\ \A j \in DOMAIN t : j + 1 \in DOMAIN Top.left /\ t[j] = Top.left[j + 1] /\ j + 1 # 1
      BY <1>1, <1>2
    <3>2. \A j \in DOMAIN t : t[j] # f /\ t[j] \in Interfaces
      BY <1>1, <1>2, <1>4, <3>1 DEF ToEnter
    <3>3. \A j, l \in DOMAIN t : t[j] = t[l] => j = l
      <4>. SUFFICES ASSUME NEW j \in DOMAIN t, NEW l \in DOMAIN t, t[j] = t[l] PROVE j = l
        OBVIOUS
      <4>1. j + 1 = l + 1
        BY <1>1, <1>4, <3>1 DEF ToEnter
      <4>2. j \in Nat /\ l \in Nat
        BY <3>1
      <4>. QED BY <4>1, <4>2
    <3>4. \A j \in DOMAIN t : /\ <<t[j], i>> \notin removed
                              /\ \A c \in Contexts : nodes[t[j]][c] # i
      <4>. SUFFICES ASSUME NEW j \in DOMAIN t
                    PROVE  <<t[j], i>> \notin removed /\ \A c \in Contexts : nodes[t[j]][c] # i
        OBVIOUS
      <4>1. j + 1 \in DOMAIN Top.left /\ t[j] = Top.left[j + 1]
        BY <3>1
      <4>. HIDE DEF t
      <4>. QED BY <1>4, <4>1 DEF ToEnter
    <3>. HIDE DEF t, f, i
    <3>5. \A j \in DOMAIN t, c \in Contexts : nodes'[t[j]][c] = nodes[t[j]][c]
      BY <1>2, <1>3, <3>2 DEF TypeOK
    <3>. QED BY <1>3, <2>1, <3>3, <3>4, <3>5 DEF ToEnter
  <2>3. /\ Depth' = Depth
        /\ \A e \in 1..Depth' : IF e = Depth THEN stack'[e] = Moved(f) ELSE stack'[e] = stack[e]
    BY <1>1, <1>9, SwapFrames
  <2>4. \A e \in 1..Depth : stack'[e].left # <<>> => stack[e].left # <<>> /\ stack'[e].instance = stack[e].instance
    BY <1>1, <2>1, <2>3
  <2>. HIDE DEF f, i
  <2>. QED BY <1>8, <2>2, <2>3, <2>4 DEF Entering
<1>10. ASSUME NEW d \in 0..(Depth - 1), Cut(d) PROVE Entering'
  <2>1. Depth' = d /\ \A e \in 1..d : e \in 1..Depth /\ e # Depth /\ stack'[e] = stack[e]
    BY <1>1, <1>10, CutFrames
  <2>. QED BY <1>8, <2>1 DEF Entering
<1>. QED BY <1>5, <1>9, <1>10, AddNodeMoves

LEMMA RemoveEntering ==
  ASSUME TypeOK, Entering, NEW k \in Contexts, Remove(k)
  PROVE  Entering'
<1>1. UNCHANGED stack /\ Depth' = Depth
  BY DEF Remove, Depth
<1>2. \A f \in Interfaces, c \in Contexts : nodes'[f][c] \in {nodes[f][c], None}
  BY DEF Remove, Forget, TypeOK
<1>3. removed' \subseteq removed \cup {<<f, nodes[f][k]>> : f \in Interfaces}
  BY SomeType DEF Remove, TypeOK
<1>4. ASSUME NEW d \in 1..Depth PROVE ToEnter(stack[d], nodes', removed')
  <2>1. stack[d] \in Frame /\ ToEnter(stack[d], nodes, removed)
    BY DEF TypeOK, Depth, Entering
  <2>2. stack[d].left \in Seq(Interfaces) /\ stack[d].instance \in Instances
    BY <2>1 DEF Frame
  <2>3. \A j \in DOMAIN stack[d].left : stack[d].left[j] \in Interfaces
    BY <2>2
  <2>. QED BY SMTT(60), <1>2, <1>3, <2>1, <2>2, <2>3, NoneAssumption DEF ToEnter
<1>. QED BY <1>1, <1>4 DEF Entering

LEMMA NextEntering ==
  ASSUME TypeOK, TablesApart, FramesApart, Entering, Gone, Next
  PROVE  Entering'
<1>. 0..(Depth - 1) \subseteq 0..Depth
  BY DEF TypeOK, Depth
<1>1. ASSUME NEW f \in Interfaces, NEW k \in Contexts, HandlePacket(f, k) PROVE Entering'
  <2>1. Handling(f, k, nodes[f][k]).left = <<>>
    BY DEF Handling
  <2>. QED BY <1>1, <2>1, HandlePacketPushes, StayEntering DEF HandlePacket, tables
<1>2. CASE Added
  <2>1. \A f, k, i : Handling(f, k, i).left = <<>>
    BY DEF Handling
  <2>. QED BY <1>2, <2>1, AddedSwaps, StayEntering DEF Added, tables
<1>3. CASE HandlerReturns \/ CodeThrows
  <2>1. \E d \in 0..Depth : Cut(d)
    BY <1>3, ReturnCuts, ThrowCuts, TopFrame DEF HandlerReturns, CodeThrows, TypeOK
  <2>. QED BY <1>3, <2>1, StayEntering DEF HandlerReturns, CodeThrows, tables
<1>4. CASE UNCHANGED <<nodes, removed, stack>>
  BY <1>4, StayEntering
<1>. QED
  BY <1>1, <1>2, <1>3, <1>4, CreateEntering, AddNodeEntering, RemoveEntering
  DEF Next, CreatorGone, AddNodeToErased, HandleWithoutKey, SetPacketPusher, Release, tables

LEMMA NextGone ==
  ASSUME TypeOK, TablesApart, Entering, Gone, Next
  PROVE  Gone'
<1>1. ASSUME NEW f \in Interfaces, NEW k \in Contexts, NEW i \in Instances, CreateNewInstance(f, k, i)
      PROVE  Gone'
  <2>1. /\ madeFor' = [madeFor EXCEPT ![i] = k]
        /\ UNCHANGED <<type, routers, nodes, removed>>
    BY <1>1 DEF CreateNewInstance, tables
  <2>2. \A x \in removed : x[2] \in Instances
    BY DEF TypeOK
  <2>. QED BY <2>1, <2>2, NoneAssumption DEF Gone, RemovedIsGone, StillRouted, TypeOK
<1>2. CASE AddNode
  <2>. DEFINE f == Head(Top.left)  i == Top.instance  k == Top.context
  <2>1. <<f, i>> \notin removed
    BY <1>2, AddNodeEntering
  <2>2. /\ nodes' = [nodes EXCEPT ![f][k] = i]
        /\ UNCHANGED <<type, routers, madeFor, removed>>
    BY <1>2 DEF AddNode, Enter
  <2>3. f \in Interfaces /\ i \in Instances /\ k \in Contexts
    BY <1>2, MovedFrame, TopParts DEF AddNode
  <2>4. \A x \in removed : x = <<x[1], x[2]>> /\ x[1] \in Interfaces
    BY DEF TypeOK
  <2>. HIDE DEF f, i, k
  <2>5. ASSUME StillRouted = {} PROVE StillRouted' = {}
    <3>. SUFFICES ASSUME NEW x \in removed, NEW c \in Contexts PROVE nodes'[x[1]][c] # x[2]
      BY <2>2 DEF StillRouted
    <3>1. nodes[x[1]][c] # x[2]
      BY <2>5 DEF StillRouted
    <3>. QED BY <2>1, <2>2, <2>3, <2>4, <3>1 DEF TypeOK
  <2>. QED BY <2>2, <2>5 DEF Gone, RemovedIsGone
<1>3. ASSUME NEW k \in Contexts, Remove(k) PROVE Gone'
  <2>1. UNCHANGED <<type, madeFor>>
    BY <1>3 DEF Remove
  <2>2. \A x \in removed' \ removed :
          \E f \in Members(type.interfaces) :
            f \in Interfaces /\ x = <<f, nodes[f][k]>> /\ nodes[f][k] # None
    BY <1>3, SomeType DEF Remove, TypeOK
  <2>3. \A x \in removed' : madeFor'[x[2]] # None
    <3>. SUFFICES ASSUME NEW x \in removed' PROVE madeFor[x[2]] # None
      BY <2>1
    <3>1. CASE x \in removed
      BY <3>1 DEF Gone
    <3>2. CASE x \notin removed
      BY <2>2, <3>2, NoneAssumption DEF TablesApart
    <3>. QED BY <3>1, <3>2
  <2>4. CASE type.group
    BY <2>1, <2>3, <2>4 DEF Gone, RemovedIsGone
  <2>5. CASE ~ type.group
    <3>1. /\ StillRouted = {}
          /\ routers = Members(type.interfaces) /\ routers \subseteq Interfaces
      BY <2>5, SomeType DEF Gone, RemovedIsGone, TypeOK
    <3>2. Forget(k, routers) /\ UNCHANGED routers
      BY <1>3, <2>5 DEF Remove, Finds
    <3>3. /\ \A f \in Interfaces, c \in Contexts : nodes'[f][c] \in {nodes[f][c], None}
          /\ \A f \in routers : nodes'[f][k] = None
          /\ \A f \in Interfaces, c \in Contexts : c # k => nodes'[f][c] = nodes[f][c]
      BY <3>1, <3>2 DEF Forget, TypeOK
    <3>4. ASSUME NEW x \in removed', NEW c \in Contexts PROVE nodes'[x[1]][c] # x[2]
      <4>1. CASE x \in removed
        <5>1. nodes[x[1]][c] # x[2]
          BY <3>1, <4>1 DEF StillRouted
        <5>2. x[1] \in Interfaces /\ x[2] \in Instances
          BY <4>1 DEF TypeOK
        <5>. QED BY <3>3, <5>1, <5>2, NoneAssumption
      <4>2. CASE x \notin removed
        <5>1. PICK f \in Members(type.interfaces) :
                f \in Interfaces /\ x = <<f, nodes[f][k]>> /\ nodes[f][k] # None
          BY <2>2, <4>2
        <5>2. x[1] = f /\ x[2] = nodes[f][k] /\ f \in routers
          BY <3>1, <5>1
        <5>3. CASE c = k
          BY <3>3, <5>1, <5>2, <5>3
        <5>4. CASE c # k
          BY <3>3, <5>1, <5>2, <5>4 DEF TablesApart
        <5>. QED BY <5>3, <5>4
      <4>. QED BY <4>1, <4>2
    <3>. QED BY <2>1, <2>3, <3>1, <3>2, <3>4 DEF Gone, RemovedIsGone, StillRouted
  <2>. QED BY <2>4, <2>5
<1>4. CASE UNCHANGED <<type, routers, nodes, madeFor, removed>>
  BY <1>4 DEF Gone, RemovedIsGone, StillRouted
<1>. QED
  BY <1>1, <1>2, <1>3, <1>4
  DEF Next, HandlePacket, CreatorGone, AddNodeToErased, Added, HandlerReturns,
      CodeThrows, HandleWithoutKey, SetPacketPusher, Release, tables

GoneInv == TypeOK /\ TablesMirror /\ TablesApart /\ FramesApart /\ Entering /\ Gone

LEMMA InitGone == Init => GoneInv
<1>. SUFFICES ASSUME Init PROVE GoneInv
  OBVIOUS
<1>1. TypeOK /\ TablesMirror /\ TablesApart /\ FramesApart
  BY InitType, InitApart DEF ContextsApart, TablesApart, FramesApart
<1>2. Entering
  BY DEF Init, Entering, Depth
<1>3. Gone
  BY DEF Init, Gone, RemovedIsGone, StillRouted
<1>. QED BY <1>1, <1>2, <1>3 DEF GoneInv

LEMMA NextGoneInv == ASSUME GoneInv, [Next]_vars PROVE GoneInv'
<1>1. CASE UNCHANGED vars
  <2>1. TypeOK'
    BY <1>1, NextType DEF GoneInv
  <2>. QED BY <1>1, <2>1 DEF vars, tables, GoneInv, TablesMirror, TablesApart, FramesApart,
     Entering, Depth, Gone, RemovedIsGone, StillRouted
<1>2. CASE Next
  BY <1>2, NextType, NextApart, NextEntering, NextGone DEF GoneInv
<1>. QED BY <1>1, <1>2

(***************************************************************************)
(* Without a group, an instance that a packet to the remover was to remove *)
(* gets no packet any more, whatever was under way when it came.           *)
(***************************************************************************)
THEOREM RemovedStaysGone == Spec => []RemovedIsGone
<1>1. GoneInv => RemovedIsGone
  BY DEF GoneInv, Gone
<1>. QED BY <1>1, InitGone, NextGoneInv, PTL DEF Spec

-----------------------------------------------------------------------------
(***************************************************************************)
(* Groups.  Nothing runs while an instance of a quiet type takes its       *)
(* places: the routers left have no instance of its context, and those     *)
(* done have it.  All others agree with one another.                       *)
(***************************************************************************)
Quiet == type.eager = {} /\ type.single = {}

Same(k) == \A f, g \in Members(type.interfaces) : nodes[f][k] = nodes[g][k]

TakesPlaces == stack # <<>> /\ Top.at = "adding"

HalfPlaced == Top.context \notin Interfaces =>
  \A f \in Members(type.interfaces) :
    nodes[f][Top.context] = IF f \in Members(Top.left) THEN None ELSE Top.instance

OnlyTopPlaces ==
  /\ \A d \in 1..Depth : stack[d].calls <=> stack[d].at = "handling"
  /\ \A d \in 1..(Depth - 1) : stack[d].calls

Cohering ==
  /\ OnlyTopPlaces
  /\ TakesPlaces => HalfPlaced
  /\ \A k \in Contexts \ Interfaces : Same(k) \/ (TakesPlaces /\ Top.context = k)

LEMMA AllSame ==
  ASSUME TypeOK, Cohering, Outside
  PROVE  /\ ~ TakesPlaces
         /\ \A k \in Contexts \ Interfaces : Same(k)
         /\ \A d \in 1..Depth : stack[d].calls
<1>1. CASE stack = <<>>
  BY <1>1 DEF Cohering, TakesPlaces, Depth
<1>2. CASE stack # <<>>
  <2>1. Depth \in 1..Depth /\ Depth \in Nat /\ Top = stack[Depth] /\ Top.calls
    BY <1>2, TopParts DEF Outside
  <2>2. Top.at = "handling"
    BY <2>1 DEF Cohering, OnlyTopPlaces
  <2>3. \A d \in 1..Depth : stack[d].calls
    BY <2>1 DEF Cohering, OnlyTopPlaces
  <2>. QED BY <2>2, <2>3 DEF Cohering, TakesPlaces
<1>. QED BY <1>1, <1>2

\* The tables stay, and the stack ends in a handler.
LEMMA BackToHandler ==
  ASSUME TypeOK, Cohering, UNCHANGED <<type, nodes>>,
         \A k \in Contexts \ Interfaces : Same(k),
         \/ \E d \in 0..(Depth - 1) : Cut(d)
         \/ \E frame : /\ frame.at = "handling" /\ frame.calls
                       /\ \/ Swap(frame)
                          \/ Push(frame) /\ \A d \in 1..Depth : stack[d].calls
  PROVE  Cohering'
<1>1. stack \in Seq(Frame) /\ Depth \in Nat
  BY DEF TypeOK, Depth
<1>2. \A k \in Contexts \ Interfaces : Same(k)'
  BY DEF Same
<1>3. SUFFICES OnlyTopPlaces' /\ ~ TakesPlaces'
  BY <1>2 DEF Cohering
<1>4. ASSUME NEW d \in 0..(Depth - 1), Cut(d) PROVE OnlyTopPlaces' /\ ~ TakesPlaces'
  <2>1. /\ Depth' = d
        /\ \A e \in 1..d : e \in 1..(Depth - 1) /\ e \in 1..Depth /\ stack'[e] = stack[e]
    BY <1>1, <1>4, CutFrames
  <2>2. \A e \in 1..d : stack'[e].calls /\ stack'[e].at = "handling"
    BY <2>1 DEF Cohering, OnlyTopPlaces
  <2>3. OnlyTopPlaces'
    BY <1>1, <2>1, <2>2 DEF Cohering, OnlyTopPlaces
  <2>4. CASE d = 0
    <3>1. stack' \in Seq(Frame) /\ Len(stack') = 0
      BY <1>1, <1>4, <2>1, <2>4, CutFrames DEF Depth
    <3>. QED BY <2>3, <3>1 DEF TakesPlaces
  <2>5. CASE d # 0
    <3>1. d \in 1..d
      BY <1>1, <2>5
    <3>. QED BY <2>1, <2>2, <2>3, <3>1 DEF TakesPlaces, Top
  <2>. QED BY <2>4, <2>5
<1>5. ASSUME NEW frame, Swap(frame), frame.at = "handling", frame.calls
      PROVE  OnlyTopPlaces' /\ ~ TakesPlaces'
  <2>1. /\ Depth' = Depth /\ Depth \in 1..Depth
        /\ \A e \in 1..Depth : IF e = Depth THEN stack'[e] = frame ELSE stack'[e] = stack[e]
    BY <1>1, <1>5, SwapFrames
  <2>. QED BY <1>1, <1>5, <2>1 DEF Cohering, OnlyTopPlaces, TakesPlaces, Top
<1>6. ASSUME NEW frame, Push(frame), frame.at = "handling", frame.calls,
             \A d \in 1..Depth : stack[d].calls
      PROVE  OnlyTopPlaces' /\ ~ TakesPlaces'
  <2>1. /\ Depth' = Depth + 1
        /\ \A e \in 1..Depth' : IF e = Depth + 1 THEN stack'[e] = frame
                                ELSE e \in 1..Depth /\ stack'[e] = stack[e]
    BY <1>1, <1>6, PushFrames
  <2>2. OnlyTopPlaces'
    BY <1>1, <1>6, <2>1 DEF Cohering, OnlyTopPlaces
  <2>3. Top' = frame
    BY <1>1, <2>1 DEF Top
  <2>. QED BY <1>6, <2>2, <2>3 DEF TakesPlaces
<1>. QED BY <1>4, <1>5, <1>6

LEMMA CreateCohering ==
  ASSUME TypeOK, Cohering,
         NEW f \in Interfaces, NEW k \in Contexts, NEW i \in Instances,
         CreateNewInstance(f, k, i)
  PROVE  Cohering'
<1>1. /\ Push(Adding(f, k, i)) /\ UNCHANGED <<type, nodes>>
      /\ nodes[f][k] = None /\ f \in Members(type.interfaces)
  BY CreatePushes, SomeType DEF CreateNewInstance, tables, TypeOK
<1>2. /\ \A c \in Contexts \ Interfaces : Same(c)
      /\ \A d \in 1..Depth : stack[d].calls
  BY AllSame DEF CreateNewInstance
<1>3. /\ Depth \in Nat
      /\ Depth' = Depth + 1
      /\ \A e \in 1..Depth' : IF e = Depth + 1 THEN stack'[e] = Adding(f, k, i)
                              ELSE e \in 1..Depth /\ stack'[e] = stack[e]
  BY <1>1, PushFrames DEF TypeOK, Depth
<1>4. Top' = Adding(f, k, i)
  BY <1>3 DEF Top
<1>5. /\ Adding(f, k, i).at = "adding" /\ ~ Adding(f, k, i).calls
      /\ Adding(f, k, i).context = k /\ Adding(f, k, i).left = type.interfaces
  BY DEF Adding
<1>6. OnlyTopPlaces'
  BY <1>2, <1>3, <1>5 DEF Cohering, OnlyTopPlaces
<1>7. k \notin Interfaces => \A g \in Members(type.interfaces) : nodes[g][k] = None
  BY <1>1, <1>2 DEF Same
<1>8. HalfPlaced'
  BY <1>1, <1>4, <1>5, <1>7 DEF HalfPlaced
<1>9. \A c \in Contexts \ Interfaces : Same(c)'
  BY <1>1, <1>2 DEF Same
<1>. QED BY <1>6, <1>8, <1>9 DEF Cohering

LEMMA AddNodeCohering ==
  ASSUME TypeOK, Quiet, Entering, Cohering, AddNode
  PROVE  Cohering'
<1>. DEFINE f == Head(Top.left)  i == Top.instance  k == Top.context
<1>1. /\ stack \in Seq(Frame)
      /\ Depth \in Nat \ {0} /\ Depth \in 1..Depth /\ Top = stack[Depth]
      /\ stack # <<>> /\ Top.left # <<>> /\ Top.at = "adding"
      /\ Top.left \in Seq(Interfaces) /\ i \in Instances /\ k \in Contexts
  BY TopParts DEF AddNode, TypeOK
<1>2. /\ f \in Interfaces /\ f = Top.left[1] /\ 1 \in DOMAIN Top.left
      /\ Moved(f) \in Frame
      /\ Moved(f).left = Tail(Top.left) /\ Moved(f).at = "adding" /\ ~ Moved(f).calls
      /\ Moved(f).instance = i /\ Moved(f).context = k
  BY <1>1, MovedFrame DEF Quiet
<1>3. /\ nodes' = [nodes EXCEPT ![f][k] = i]
      /\ UNCHANGED type
      /\ stack' = [stack EXCEPT ![Depth] = Moved(f)]
  BY DEF AddNode, Enter, NewContext, Quiet
<1>4. /\ Depth' = Depth
      /\ \A e \in 1..Depth : IF e = Depth THEN stack'[e] = Moved(f) ELSE stack'[e] = stack[e]
  BY <1>1, <1>2, <1>3, SwapFrames DEF Swap
<1>5. Top' = Moved(f)
  BY <1>1, <1>4 DEF Top
<1>6. OnlyTopPlaces'
  BY <1>1, <1>2, <1>4 DEF Cohering, OnlyTopPlaces
<1>7. \A g : g \in Members(Top.left) <=> g = f \/ g \in Members(Tail(Top.left))
  <2>. DEFINE s == Top.left
  <2>1. s \in Seq(Interfaces) /\ s # <<>> /\ s[1] = f
    BY <1>1, <1>2
  <2>. HIDE DEF s
  <2>2. \A j \in DOMAIN s : j = 1 \/ (j - 1 \in DOMAIN Tail(s) /\ Tail(s)[j - 1] = s[j])
    BY <2>1
  <2>3. \A j \in DOMAIN Tail(s) : j + 1 \in DOMAIN s /\ Tail(s)[j] = s[j + 1]
    BY <2>1
  <2>4. 1 \in DOMAIN s
    BY <2>1
  <2>5. \A g : g \in Members(s) <=> g = f \/ g \in Members(Tail(s))
    BY <2>1, <2>2, <2>3, <2>4 DEF Members
  <2>. QED BY <2>5 DEF s
<1>8. f \notin Members(Tail(Top.left))
  <2>1. \A j, l \in DOMAIN Top.left : Top.left[j] = Top.left[l] => j = l
    BY <1>1 DEF Entering, ToEnter
  <2>. QED BY <1>1, <1>2, <2>1 DEF Members
<1>9. HalfPlaced
  BY <1>1 DEF Cohering, TakesPlaces
<1>10. Members(type.interfaces) \subseteq Interfaces
  BY SomeType DEF TypeOK
<1>. HIDE DEF f, i, k
<1>11. HalfPlaced'
  <2>. SUFFICES ASSUME k \notin Interfaces, NEW g \in Members(type.interfaces)
                PROVE  nodes'[g][k] = IF g \in Members(Tail(Top.left)) THEN None ELSE i
    BY <1>2, <1>3, <1>5 DEF HalfPlaced
  <2>1. nodes[g][k] = IF g \in Members(Top.left) THEN None ELSE i
    BY <1>9 DEF HalfPlaced, i, k
  <2>. QED BY <1>1, <1>2, <1>3, <1>7, <1>8, <1>10, <2>1 DEF TypeOK
<1>12. ASSUME NEW c \in Contexts \ Interfaces, c # k PROVE Same(c)'
  <2>1. Same(c)
    BY <1>12 DEF Cohering, k
  <2>. QED BY <1>1, <1>2, <1>3, <1>10, <1>12, <2>1 DEF Same, TypeOK
<1>13. TakesPlaces' /\ Top'.context = k
  <2>1. stack' # <<>>
    BY <1>1, <1>4 DEF Depth
  <2>. QED BY <1>2, <1>5, <2>1 DEF TakesPlaces
<1>. QED BY <1>6, <1>11, <1>12, <1>13 DEF Cohering

LEMMA AddedCohering ==
  ASSUME TypeOK, Cohering, Added
  PROVE  Cohering'
<1>1. UNCHANGED <<type, nodes>> /\ stack # <<>> /\ Top.at = "adding" /\ Top.left = <<>>
  BY DEF Added, tables
<1>2. \A c \in Contexts \ Interfaces : Same(c)
  <2>1. HalfPlaced
    BY <1>1 DEF Cohering, TakesPlaces
  <2>2. Members(Top.left) = {}
    BY <1>1 DEF Members
  <2>3. Top.context \notin Interfaces => Same(Top.context)
    BY <2>1, <2>2 DEF HalfPlaced, Same
  <2>. QED BY <2>3 DEF Cohering
<1>3. CASE UNCHANGED stack
  BY <1>1, <1>3 DEF Cohering, OnlyTopPlaces, TakesPlaces, HalfPlaced, Same, Top, Depth
<1>4. \A f, c, i : Handling(f, c, i).at = "handling" /\ Handling(f, c, i).calls
  BY DEF Handling
<1>. QED BY <1>1, <1>2, <1>3, <1>4, AddedSwaps, BackToHandler

LEMMA RemoveCohering ==
  ASSUME TypeOK, Gone, Cohering, NEW k \in Contexts, Remove(k)
  PROVE  Cohering'
<1>1. UNCHANGED <<type, stack>> /\ Depth' = Depth /\ Top' = Top
  BY DEF Remove, Depth, Top
<1>2. ~ TakesPlaces /\ \A c \in Contexts \ Interfaces : Same(c)
  BY AllSame DEF Remove
<1>3. ASSUME NEW c \in Contexts \ Interfaces PROVE Same(c)'
  <2>1. Same(c) /\ Members(type.interfaces) \subseteq Interfaces /\ routers \subseteq Interfaces
    BY <1>2, SomeType DEF TypeOK
  <2>2. CASE c = k /\ ~ type.group
    <3>1. Forget(k, Members(type.interfaces))
      BY <2>2 DEF Remove, Finds, Gone
    <3>. QED BY <1>1, <2>1, <2>2, <3>1 DEF Forget, Same, TypeOK
  <2>3. CASE c # k
    BY <1>1, <2>1, <2>3 DEF Remove, Forget, Same, TypeOK
  <2>4. CASE c = k /\ type.group
    <3>1. Forget(k, {})
      BY <2>1, <2>4 DEF Remove, Finds
    <3>. QED BY <1>1, <2>1, <3>1 DEF Forget, Same, TypeOK
  <2>. QED BY <2>2, <2>3, <2>4
<1>4. OnlyTopPlaces' /\ ~ TakesPlaces'
  BY <1>1, <1>2 DEF Cohering, OnlyTopPlaces, TakesPlaces
<1>. QED BY <1>3, <1>4 DEF Cohering

LEMMA NextCohering ==
  ASSUME GoneInv, Quiet, Cohering, [Next]_vars
  PROVE  Cohering'
<1>. USE DEF GoneInv
<1>1. ASSUME NEW f \in Interfaces, NEW k \in Contexts, HandlePacket(f, k) PROVE Cohering'
  <2>1. Outside /\ UNCHANGED <<type, nodes>>
    BY <1>1 DEF HandlePacket, tables
  <2>2. Handling(f, k, nodes[f][k]).at = "handling" /\ Handling(f, k, nodes[f][k]).calls
    BY DEF Handling
  <2>. QED BY <1>1, <2>1, <2>2, AllSame, HandlePacketPushes, BackToHandler
<1>2. CASE HandlerReturns \/ CodeThrows
  <2>1. \E d \in 0..(Depth - 1) : Cut(d)
    <3>1. CASE HandlerReturns
      <4>1. Cut(Depth - 1) /\ Depth \in Nat \ {0}
        BY <3>1, ReturnCuts, TopParts DEF HandlerReturns
      <4>. QED BY <4>1
    <3>. QED BY <1>2, <3>1, ThrowCuts DEF CodeThrows
  <2>2. Outside
    <3>1. CASE HandlerReturns
      <4>1. Depth \in 1..Depth /\ Top = stack[Depth] /\ Top.at = "handling"
        BY <3>1, TopParts DEF HandlerReturns
      <4>. QED BY <4>1 DEF Cohering, OnlyTopPlaces, Outside
    <3>. QED BY <1>2, <3>1 DEF CodeThrows, Outside
  <2>3. UNCHANGED <<type, nodes>>
    BY <1>2 DEF HandlerReturns, CodeThrows, tables
  <2>. QED BY <2>1, <2>2, <2>3, AllSame, BackToHandler
<1>3. CASE UNCHANGED <<type, nodes, stack>>
  BY <1>3 DEF Cohering, OnlyTopPlaces, TakesPlaces, HalfPlaced, Same, Top, Depth
<1>. QED
  BY <1>1, <1>2, <1>3, CreateCohering, AddNodeCohering, AddedCohering, RemoveCohering
  DEF Next, vars, CreatorGone, AddNodeToErased, HandleWithoutKey, SetPacketPusher, Release, tables

(***************************************************************************)
(* The routers of a group agree on the instance of a context whenever no   *)
(* instance is taking its places: no packet finds a part of the group.     *)
(***************************************************************************)
THEOREM GroupsStayTogether == Spec => []GroupsCohere
<1>. DEFINE Inv == GoneInv /\ (Quiet => Cohering)
<1>1. Init => Inv
  <2>. SUFFICES ASSUME Init PROVE Quiet => Cohering
    BY InitGone
  <2>1. Members(type.interfaces) \subseteq Interfaces
    BY InitType, SomeType DEF TypeOK
  <2>. QED
    BY <2>1 DEF Init, Cohering, OnlyTopPlaces, TakesPlaces, Same, Depth
<1>2. Inv /\ [Next]_vars => Inv'
  <2>. SUFFICES ASSUME Inv, [Next]_vars, Quiet' PROVE Cohering'
    BY NextGoneInv
  <2>1. type' = type
    BY DEF Next, vars, HandlePacket, CreateNewInstance, CreatorGone, AddNode, AddNodeToErased,
       Added, HandlerReturns, CodeThrows, HandleWithoutKey, Remove, SetPacketPusher, Release
  <2>. QED BY <2>1, NextCohering DEF Quiet
<1>3. Inv => GroupsCohere
  BY DEF Cohering, GroupsCohere, Quiet, TakesPlaces, Same
<1>. HIDE DEF Inv
<1>. QED BY <1>1, <1>2, <1>3, PTL DEF Spec

=============================================================================
