------------------------- MODULE GraphBuildingProofs -------------------------
(***************************************************************************)
(* What holds of GraphBuilding for every number of nodes, instances,       *)
(* channels, types and thread groups.  The nodes and the instances are     *)
(* well-formed one by one; what relates them, while startGraph() works its *)
(* way through the graph, is VisitedReady.                                 *)
(*                                                                         *)
(* Building a graph from two files is one of these behaviours, whatever    *)
(* the files hold, so that all of it is true of files too.  What the files *)
(* say is in the graph because every call of a file is either done or      *)
(* still to do, and each one leaves what those before it have done: that   *)
(* is FilesInv, in the last part.                                          *)
(***************************************************************************)
EXTENDS GraphBuilder, FiniteSetTheorems, SequenceProofs

-----------------------------------------------------------------------------
(* Instances. *)

GoodInstance(inst) ==
  /\ inst \in Instance
  /\ inst.context = inst.group
  /\ inst.impl # None /\ inst.impl.kind \notin SingleContext
       => inst.impl.context \in {None, inst.group}
  /\ inst.impl # None /\ inst.pusher # None /\ inst.impl.kind \in Sources
       => inst.impl.pusher = inst.pusher

GoodInstances ==
  /\ DOMAIN instances \subseteq Instances
  /\ instances = [i \in DOMAIN instances |-> instances[i]]
  /\ \A i \in DOMAIN instances : GoodInstance(instances[i])

LEMMA GoodInstanceOrNew ==
  ASSUME GoodInstances, NEW i
  PROVE  GoodInstance(InstanceOrNew(i))
BY NamesAssumption
   DEF GoodInstances, GoodInstance, InstanceOrNew, NewInstance, Instance

\* An implementation keeps its kind and context when it gets a pusher, and
\* a source has it.
LEMMA WithPusherType ==
  ASSUME NEW impl \in Implementation, NEW p \in Nodes \cup {None}
  PROVE  /\ WithPusher(impl, p) \in Implementation
         /\ WithPusher(impl, p).kind = impl.kind
         /\ WithPusher(impl, p).context = impl.context
         /\ p # None /\ impl.kind \in Sources => WithPusher(impl, p).pusher = p
         /\ WithPusher(impl, p) # None
<1>1. WithPusher(impl, p) \in Implementation
  BY DEF WithPusher, Implementation
<1>. QED BY <1>1, NamesAssumption DEF WithPusher, Implementation

\* Replacing or adding one good instance leaves all of them good.
LEMMA PutInstance ==
  ASSUME GoodInstances, NEW i \in Instances, NEW inst, GoodInstance(inst),
         SetInstance(i, inst)
  PROVE  GoodInstances'
<1>1. /\ DOMAIN instances' = DOMAIN instances \cup {i}
      /\ instances' = [x \in DOMAIN instances' |-> instances'[x]]
      /\ \A x \in DOMAIN instances' :
           instances'[x] = IF x = i THEN inst ELSE instances[x]
  BY DEF SetInstance, Put
<1>2. ASSUME NEW x \in DOMAIN instances'
      PROVE  GoodInstance(instances'[x])
  BY <1>1 DEF GoodInstances
<1>3. ASSUME NEW x \in DOMAIN instances'
      PROVE  GoodInstance(instances[x])' <=> GoodInstance(instances'[x])
  BY DEF GoodInstance
<1>. QED BY <1>1, <1>2, <1>3 DEF GoodInstances

LEMMA SetTypeInstances ==
  ASSUME GoodInstances, NEW i \in Instances, NEW t \in Types, SetType(i, t)
  PROVE  GoodInstances'
<1>. DEFINE inst == InstanceOrNew(i)
            bare == [kind |-> t, context |-> None, pusher |-> None]
            made == Made(t, inst.pusher)
<1>1. GoodInstance(inst)
  BY GoodInstanceOrNew
<1>2. bare \in Implementation /\ inst.pusher \in Nodes \cup {None}
  BY <1>1 DEF Implementation, Kinds, GoodInstance, Instance
<1>3. /\ made \in Implementation
      /\ made.context = None
      /\ inst.pusher # None /\ made.kind \in Sources => made.pusher = inst.pusher
  BY <1>2, WithPusherType DEF Made
<1>4. /\ \/ SetInstance(i, [inst EXCEPT !.type = t, !.impl = made])
         \/ SetInstance(i, [inst EXCEPT !.impl = None])
         \/ SetInstance(i, [inst EXCEPT !.impl = made])
  BY DEF SetType
<1>. HIDE DEF made, inst
<1>5. GoodInstance([inst EXCEPT !.type = t, !.impl = made])
  BY <1>1, <1>3 DEF GoodInstance, Instance
<1>6. GoodInstance([inst EXCEPT !.impl = None])
  BY <1>1 DEF GoodInstance, Instance
<1>7. GoodInstance([inst EXCEPT !.impl = made])
  BY <1>1, <1>3 DEF GoodInstance, Instance
<1>. QED BY <1>4, <1>5, <1>6, <1>7, PutInstance

LEMMA ImplementInstances ==
  ASSUME GoodInstances, NEW i \in Instances, NEW k \in Kinds, Implement(i, k)
  PROVE  GoodInstances'
<1>. DEFINE inst == InstanceOrNew(i)
            given == [kind |-> k, context |-> inst.context, pusher |-> None]
            impl == WithPusher(given, inst.pusher)
<1>1. GoodInstance(inst)
  BY GoodInstanceOrNew
<1>2. given \in Implementation /\ inst.pusher \in Nodes \cup {None}
  BY <1>1 DEF Implementation, GoodInstance, Instance
<1>3. /\ impl \in Implementation
      /\ impl.context = inst.context
      /\ inst.pusher # None /\ impl.kind \in Sources => impl.pusher = inst.pusher
  BY <1>2, WithPusherType
<1>4. SetInstance(i, [inst EXCEPT !.impl = impl])
  BY DEF Implement
<1>. HIDE DEF impl, inst
<1>5. GoodInstance([inst EXCEPT !.impl = impl])
  BY <1>1, <1>3 DEF GoodInstance, Instance
<1>. QED BY <1>4, <1>5, PutInstance

LEMMA SetThreadGroupInstances ==
  ASSUME GoodInstances, NEW i \in Instances, NEW g \in Groups,
         SetThreadGroupForInstance(i, g)
  PROVE  GoodInstances'
<1>. DEFINE inst == InstanceOrNew(i)
            impl == IF inst.impl = None THEN None
                    ELSE WithContext(inst.impl, g)
            new  == [[[inst EXCEPT !.group = g] EXCEPT !.context = g]
                       EXCEPT !.impl = impl]
<1>1. GoodInstance(inst)
  BY GoodInstanceOrNew
<1>2. inst \in Instance
  BY <1>1 DEF GoodInstance
<1>3. SetInstance(i, new)
  BY <1>2 DEF SetThreadGroupForInstance, Instance
<1>4. /\ impl \in Implementation \cup {None}
      /\ impl # None => /\ inst.impl # None
                        /\ impl.kind \notin SingleContext => impl.context = g
                        /\ impl.kind = inst.impl.kind
                        /\ impl.pusher = inst.impl.pusher
  BY <1>2 DEF Instance, Implementation, WithContext
<1>. HIDE DEF impl, inst
<1>5. /\ new \in Instance
      /\ new.group = g /\ new.context = g /\ new.impl = impl
      /\ new.pusher = inst.pusher
  BY <1>2, <1>4 DEF Instance
<1>. HIDE DEF new
<1>6. GoodInstance(new)
  BY <1>1, <1>4, <1>5 DEF GoodInstance
<1>. QED BY <1>3, <1>6, PutInstance

\* Every setup call on instances leaves them good.
LEMMA EditInstancesGood ==
  ASSUME GoodInstances, EditInstances
  PROVE  GoodInstances'
<1>1. CASE \E i \in Instances : SetInitParameters(i)
  BY <1>1, PutInstance, GoodInstanceOrNew DEF SetInitParameters
<1>2. CASE \E i \in Instances, g \in Groups : SetThreadGroupForInstance(i, g)
  BY <1>2, SetThreadGroupInstances
<1>3. CASE \E i \in Instances, t \in Types : SetType(i, t)
  BY <1>3, SetTypeInstances
<1>4. CASE \E i \in Instances, k \in Given : SetImplementation(i, k)
  BY <1>4, ImplementInstances DEF SetImplementation, Kinds
<1>5. CASE \E i, g \in Instances : SetImplementationToGroupInterface(i, g)
  <2>. PICK i \in Instances, g \in Instances :
         SetImplementationToGroupInterface(i, g)
    BY <1>5
  <2>1. CASE Implement(i, Interface)
    BY <2>1, ImplementInstances DEF Kinds
  <2>. DEFINE bare == [kind |-> Interface, context |-> None, pusher |-> None]
              new  == [InstanceOrNew(i) EXCEPT !.impl = bare]
  <2>2. CASE Interface \in SingleContext /\ SetInstance(i, new)
    <3>1. GoodInstance(InstanceOrNew(i))
      BY GoodInstanceOrNew
    <3>2. bare \in Implementation
      BY DEF Implementation, Kinds
    <3>3. GoodInstance(new)
      BY <2>2, <3>1, <3>2, NamesAssumption DEF GoodInstance, Instance
    <3>. QED BY <2>2, <3>3, PutInstance
  <2>. QED BY <2>1, <2>2 DEF SetImplementationToGroupInterface
<1>. QED BY <1>1, <1>2, <1>3, <1>4, <1>5 DEF EditInstances

\* startGraph() gives a pusher to one instance, and changes no other.
LEMMA StartNodeInstances ==
  ASSUME GoodInstances, NEW n \in Nodes, StartNode(n)
  PROVE  /\ GoodInstances'
         /\ DOMAIN instances' = DOMAIN instances
         /\ \A i \in DOMAIN instances :
              i # nodes[n].instance => instances'[i] = instances[i]
         /\ LET i == nodes[n].instance
            IN  /\ i \in DOMAIN instances
                /\ instances[i].impl # None
                /\ instances[i].pusher \in {None, n}
                /\ instances'[i].pusher = n
                /\ instances'[i].impl # None
                /\ instances'[i].impl.kind = instances[i].impl.kind
<1>. DEFINE i    == nodes[n].instance
            inst == instances[i]
            impl == WithPusher(inst.impl, n)
            new  == [[inst EXCEPT !.pusher = n] EXCEPT !.impl = impl]
<1>1. /\ i \in DOMAIN instances /\ i \in Instances
      /\ inst.impl # None
      /\ inst.pusher \in {None, n}
      /\ GoodInstance(inst)
  BY DEF StartNode, CanStart, Usable, Implemented, TakesPusher, GoodInstances
<1>2. inst \in Instance /\ inst.impl \in Implementation
  BY <1>1 DEF GoodInstance, Instance
<1>3. /\ impl \in Implementation
      /\ impl # None
      /\ impl.kind = inst.impl.kind
      /\ impl.context = inst.impl.context
      /\ impl.kind \in Sources => impl.pusher = n
  BY <1>2, WithPusherType, NamesAssumption
<1>4. instances' = [instances EXCEPT ![i] = new]
  BY <1>1, <1>2 DEF StartNode, Instance, GoodInstances
<1>. HIDE DEF impl
<1>5. /\ new \in Instance
      /\ new.group = inst.group /\ new.context = inst.context
      /\ new.impl = impl /\ new.pusher = n
  BY <1>2, <1>3 DEF Instance
<1>. HIDE DEF new, inst
<1>6. GoodInstance(new)
  BY <1>1, <1>3, <1>5, NamesAssumption DEF GoodInstance
<1>7. /\ DOMAIN instances' = DOMAIN instances
      /\ instances'[i] = new
      /\ \A x \in DOMAIN instances : x # i => instances'[x] = instances[x]
  BY <1>1, <1>4 DEF inst
<1>. HIDE DEF i
<1>8. SetInstance(i, new)
  <2>1. instances' = Put(instances, i, new)
    BY <1>1, <1>4 DEF Put
  <2>2. UNCHANGED nodes
    BY DEF StartNode
  <2>. QED BY <2>1, <2>2 DEF SetInstance
<1>9. GoodInstances'
  BY <1>1, <1>6, <1>8, PutInstance
<1>. QED BY <1>1, <1>3, <1>5, <1>7, <1>9 DEF i, inst

-----------------------------------------------------------------------------
(* Nodes. *)

\* A sequence of edges with at most one to each node.
Edges == {edges \in Seq(Edge) :
            \A j, k \in DOMAIN edges : edges[j].next = edges[k].next => j = k}

GoodNodes ==
  /\ DOMAIN nodes \subseteq Nodes
  /\ nodes \in [DOMAIN nodes -> NodeState]
  /\ \A n \in DOMAIN nodes, c \in Channels : nodes[n].forward[c] \in Edges

\* connect() took both ends from the graph, and asked the target first.
EdgesAllowed ==
  \A n \in DOMAIN nodes, c \in Channels : \A k \in DOMAIN nodes[n].forward[c] :
    LET to == nodes[n].forward[c][k].next
    IN  to \in DOMAIN nodes /\ nodes[to].allowsIncoming

\* Adding an edge replaces the one to its target or comes last.
LEMMA WithEdgeOnce ==
  ASSUME NEW edges \in Edges, NEW edge \in Edge
  PROVE  /\ WithEdge(edges, edge) \in Edges
         /\ \A k \in DOMAIN WithEdge(edges, edge) :
              \/ WithEdge(edges, edge)[k].next = edge.next
              \/ /\ k \in DOMAIN edges
                 /\ WithEdge(edges, edge)[k] = edges[k]
<1>1. /\ edges \in Seq(Edge)
      /\ \A j, k \in DOMAIN edges : edges[j].next = edges[k].next => j = k
  BY DEF Edges
<1>2. CASE \E k \in DOMAIN edges : edges[k].next = edge.next
  <2>. DEFINE new == [k \in DOMAIN edges |->
                        IF edges[k].next = edge.next THEN edge ELSE edges[k]]
  <2>1. WithEdge(edges, edge) = new
    BY <1>2 DEF WithEdge
  <2>2. DOMAIN new = 1..Len(edges) /\ Len(edges) \in Nat
    BY <1>1
  <2>3. \A k \in 1..Len(edges) : new[k] \in Edge
    BY <1>1
  <2>4. new \in Seq(Edge)
    BY <2>2, <2>3
  <2>5. \A k \in DOMAIN new : new[k].next = edges[k].next
    OBVIOUS
  <2>6. \A k \in DOMAIN new : new[k].next = edge.next \/ new[k] = edges[k]
    OBVIOUS
  <2>7. DOMAIN new = DOMAIN edges
    OBVIOUS
  <2>. HIDE DEF new
  <2>8. new \in Edges
    BY <1>1, <2>4, <2>5, <2>7 DEF Edges
  <2>. QED BY <2>1, <2>6, <2>7, <2>8
<1>3. CASE ~ \E k \in DOMAIN edges : edges[k].next = edge.next
  <2>. DEFINE new == Append(edges, edge)
  <2>1. WithEdge(edges, edge) = new
    BY <1>3 DEF WithEdge
  <2>2. /\ new \in Seq(Edge)
        /\ DOMAIN new = 1..Len(edges)+1
        /\ DOMAIN edges = 1..Len(edges)
        /\ Len(edges) \in Nat
        /\ \A k \in DOMAIN edges : new[k] = edges[k]
        /\ new[Len(edges)+1] = edge
    BY <1>1
  <2>. HIDE DEF new
  <2>3. \A k \in DOMAIN new : k \in DOMAIN edges \/ new[k] = edge
    BY <2>2
  <2>4. \A j, k \in DOMAIN new : new[j].next = new[k].next => j = k
    BY SMTT(60), <1>1, <1>3, <2>2
  <2>. QED BY <2>1, <2>2, <2>3, <2>4 DEF Edges
<1>. QED BY <1>2, <1>3

LEMMA ConnectNodes ==
  ASSUME GoodNodes, EdgesAllowed, NEW from \in Nodes, NEW to \in Nodes,
         NEW c \in Channels, NEW d \in Deliveries, Connect(from, c, to, d)
  PROVE  GoodNodes' /\ EdgesAllowed'
<1>. DEFINE edge == [next |-> to, delivery |-> d]
            old  == nodes[from].forward[c]
            edges == WithEdge(old, edge)
<1>1. /\ from \in DOMAIN nodes /\ to \in DOMAIN nodes
      /\ nodes[to].allowsIncoming
      /\ old \in Edges
      /\ edge \in Edge
  BY DEF Connect, GoodNodes, Edge
<1>2. /\ edges \in Edges
      /\ \A k \in DOMAIN edges :
           \/ edges[k].next = to
           \/ k \in DOMAIN old /\ edges[k] = old[k]
  BY <1>1, WithEdgeOnce
<1>3. edges \in Seq(Edge)
  BY SMTT(60), <1>2 DEF Edges
<1>4. /\ DOMAIN nodes' = DOMAIN nodes
      /\ \A n \in DOMAIN nodes :
           nodes'[n] = [nodes[n] EXCEPT
             !.forward[c] = IF n = from THEN WithEdge(@, edge) ELSE @,
             !.back = IF n = to /\ ~ \E k \in DOMAIN old : old[k].next = to
                      THEN @ \cup {from} ELSE @]
      /\ nodes' = [n \in DOMAIN nodes |-> nodes'[n]]
  BY DEF Connect
<1>. HIDE DEF edges, edge
<1>5. ASSUME NEW n \in DOMAIN nodes
      PROVE  /\ nodes'[n] \in NodeState
             /\ nodes'[n].allowsIncoming = nodes[n].allowsIncoming
             /\ \A x \in Channels : nodes'[n].forward[x] =
                  IF n = from /\ x = c THEN edges ELSE nodes[n].forward[x]
  <2>1. nodes[n] \in NodeState
    BY DEF GoodNodes
  <2>. DEFINE f == [nodes[n].forward EXCEPT
                      ![c] = IF n = from THEN WithEdge(nodes[n].forward[c], edge)
                             ELSE nodes[n].forward[c]]
              b == IF n = to /\ ~ \E k \in DOMAIN old : old[k].next = to
                   THEN nodes[n].back \cup {from} ELSE nodes[n].back
  <2>2. n = from => WithEdge(nodes[n].forward[c], edge) = edges
    BY DEF edges
  <2>3. /\ f \in [Channels -> Seq(Edge)]
        /\ b \in SUBSET Nodes
        /\ \A x \in Channels :
             f[x] = IF n = from /\ x = c THEN edges ELSE nodes[n].forward[x]
    BY <2>1, <2>2, <1>3 DEF NodeState
  <2>4. nodes'[n] = [[nodes[n] EXCEPT !.forward = f] EXCEPT !.back = b]
    BY <1>4, <2>1 DEF NodeState
  <2>. HIDE DEF f, b
  <2>. QED BY <2>1, <2>2, <2>3, <2>4 DEF NodeState
<1>6. GoodNodes'
  <2>1. nodes' \in [DOMAIN nodes' -> NodeState]
    BY <1>4, <1>5
  <2>2. ASSUME NEW n \in DOMAIN nodes, NEW x \in Channels
        PROVE  nodes'[n].forward[x] \in Edges
    BY <1>2, <1>5 DEF GoodNodes
  <2>. QED BY ZenonT(60), <1>4, <2>1, <2>2 DEF GoodNodes
<1>7. ASSUME NEW n \in DOMAIN nodes, NEW x \in Channels,
             NEW k \in DOMAIN nodes'[n].forward[x]
      PROVE  /\ nodes'[n].forward[x][k].next \in DOMAIN nodes'
             /\ nodes'[nodes'[n].forward[x][k].next].allowsIncoming
  <2>1. CASE n = from /\ x = c
    <3>1. nodes'[n].forward[x] = edges
      BY <1>5, <2>1
    <3>2. edges[k].next = to \/ (k \in DOMAIN old /\ edges[k] = old[k])
      BY <1>2, <3>1
    <3>3. edges[k].next \in DOMAIN nodes /\ nodes[edges[k].next].allowsIncoming
      BY SMTT(60), <1>1, <3>2 DEF EdgesAllowed
    <3>. QED BY <1>4, <1>5, <3>1, <3>3
  <2>2. CASE ~ (n = from /\ x = c)
    <3>1. nodes'[n].forward[x] = nodes[n].forward[x]
      BY <1>5, <2>2
    <3>. QED BY ZenonT(60), <1>4, <1>5, <3>1 DEF EdgesAllowed
  <2>. QED BY SMTT(60), <2>1, <2>2
<1>8. EdgesAllowed'
  BY <1>4, <1>7 DEF EdgesAllowed
<1>. QED BY <1>6, <1>8

LEMMA DisconnectNodes ==
  ASSUME GoodNodes, EdgesAllowed, NEW from \in Nodes, NEW to \in Nodes,
         NEW c \in Channels, Disconnect(from, c, to)
  PROVE  GoodNodes' /\ EdgesAllowed'
<1>1. /\ DOMAIN nodes' = DOMAIN nodes
      /\ \A n \in DOMAIN nodes :
           nodes'[n] = [nodes[n] EXCEPT
             !.forward[c] = IF n = from THEN <<>> ELSE @,
             !.back = IF n = to THEN @ \ {from} ELSE @]
      /\ nodes' = [n \in DOMAIN nodes |-> nodes'[n]]
  BY DEF Disconnect
<1>2. ASSUME NEW n \in DOMAIN nodes
      PROVE  /\ nodes'[n] \in NodeState
             /\ nodes'[n].allowsIncoming = nodes[n].allowsIncoming
             /\ \A x \in Channels : nodes'[n].forward[x] =
                  IF n = from /\ x = c THEN <<>> ELSE nodes[n].forward[x]
  <2>1. nodes[n] \in NodeState
    BY DEF GoodNodes
  <2>. DEFINE f == [nodes[n].forward EXCEPT
                      ![c] = IF n = from THEN <<>> ELSE nodes[n].forward[c]]
              b == IF n = to THEN nodes[n].back \ {from} ELSE nodes[n].back
  <2>2. f \in [Channels -> Seq(Edge)] /\ b \in SUBSET Nodes
    BY <2>1 DEF NodeState
  <2>3. \A x \in Channels :
          f[x] = IF n = from /\ x = c THEN <<>> ELSE nodes[n].forward[x]
    BY <2>1 DEF NodeState
  <2>4. nodes'[n] = [[nodes[n] EXCEPT !.forward = f] EXCEPT !.back = b]
    BY <1>1, <2>1 DEF NodeState
  <2>. HIDE DEF f, b
  <2>. QED BY <2>1, <2>2, <2>3, <2>4 DEF NodeState
<1>3. <<>> \in Edges /\ DOMAIN <<>> = {}
  BY DEF Edges
<1>4. GoodNodes'
  <2>1. nodes' \in [DOMAIN nodes' -> NodeState]
    BY <1>1, <1>2
  <2>2. ASSUME NEW n \in DOMAIN nodes, NEW x \in Channels
        PROVE  nodes'[n].forward[x] \in Edges
    BY SMTT(60), <1>2, <1>3 DEF GoodNodes
  <2>. QED BY <1>1, <2>1, <2>2 DEF GoodNodes
<1>5. ASSUME NEW n \in DOMAIN nodes, NEW x \in Channels,
             NEW k \in DOMAIN nodes'[n].forward[x]
      PROVE  /\ nodes'[n].forward[x][k].next \in DOMAIN nodes'
             /\ nodes'[nodes'[n].forward[x][k].next].allowsIncoming
  <2>1. nodes'[n].forward[x] = nodes[n].forward[x]
    BY <1>2, <1>3
  <2>. QED BY ZenonT(60), <1>1, <1>2, <2>1 DEF EdgesAllowed
<1>6. EdgesAllowed'
  BY <1>1, <1>5 DEF EdgesAllowed
<1>. QED BY <1>4, <1>6

LEMMA CreateNodeNodes ==
  ASSUME GoodNodes, EdgesAllowed, NEW n \in Nodes, NEW k \in NodeKinds,
         CreateNode(n, k[1], k[2])
  PROVE  GoodNodes' /\ EdgesAllowed'
<1>. DEFINE new == [allowsIncoming |-> k[1], allowsOutgoing |-> k[2],
                    instance |-> None,
                    forward |-> [c \in Channels |-> <<>>], back |-> {}]
<1>1. k[1] \in BOOLEAN /\ k[2] \in BOOLEAN
  BY NamesAssumption
<1>2. /\ new \in NodeState
      /\ \A c \in Channels : new.forward[c] = <<>>
  BY <1>1 DEF NodeState
<1>. HIDE DEF new
<1>3. nodes' = Put(nodes, n, new) /\ n \notin DOMAIN nodes
  BY DEF CreateNode, new
<1>4. /\ DOMAIN nodes' = DOMAIN nodes \cup {n}
      /\ nodes' = [x \in DOMAIN nodes' |-> nodes'[x]]
      /\ \A x \in DOMAIN nodes' : nodes'[x] = IF x = n THEN new ELSE nodes[x]
  BY <1>3 DEF Put
<1>5. <<>> \in Edges /\ DOMAIN <<>> = {}
  BY DEF Edges
<1>6. GoodNodes'
  <2>1. nodes' \in [DOMAIN nodes' -> NodeState]
    BY <1>2, <1>4 DEF GoodNodes
  <2>2. ASSUME NEW x \in DOMAIN nodes', NEW c \in Channels
        PROVE  nodes'[x].forward[c] \in Edges
    BY <1>2, <1>4, <1>5 DEF GoodNodes
  <2>. QED BY <1>4, <2>1, <2>2 DEF GoodNodes
<1>7. ASSUME NEW x \in DOMAIN nodes', NEW c \in Channels,
             NEW j \in DOMAIN nodes'[x].forward[c]
      PROVE  /\ nodes'[x].forward[c][j].next \in DOMAIN nodes'
             /\ nodes'[nodes'[x].forward[c][j].next].allowsIncoming
  <2>1. x \in DOMAIN nodes /\ nodes'[x] = nodes[x]
    BY SMTT(60), <1>2, <1>4, <1>5
  <2>. QED BY <1>3, <1>4, <2>1 DEF EdgesAllowed
<1>8. EdgesAllowed'
  BY <1>4, <1>7 DEF EdgesAllowed
<1>. QED BY <1>6, <1>8

LEMMA SetNodeInstanceNodes ==
  ASSUME GoodNodes, EdgesAllowed, NEW n \in Nodes,
         NEW i \in Instances \cup {None}, SetNodeInstance(n, i)
  PROVE  GoodNodes' /\ EdgesAllowed'
<1>1. /\ nodes' = [nodes EXCEPT ![n].instance = i]
      /\ n \in DOMAIN nodes
      /\ nodes \in [DOMAIN nodes -> NodeState]
  BY DEF SetNodeInstance, GoodNodes
<1>2. /\ nodes' \in [DOMAIN nodes -> NodeState]
      /\ DOMAIN nodes' = DOMAIN nodes
      /\ \A x \in DOMAIN nodes :
           /\ nodes'[x].forward = nodes[x].forward
           /\ nodes'[x].allowsIncoming = nodes[x].allowsIncoming
  BY ZenonT(60), <1>1 DEF NodeState
<1>3. GoodNodes'
  BY <1>2 DEF GoodNodes
<1>4. EdgesAllowed'
  BY <1>2 DEF EdgesAllowed
<1>. QED BY <1>3, <1>4

\* Every setup call on nodes leaves them good.
LEMMA EditNodesGood ==
  ASSUME GoodNodes, EdgesAllowed, EditNodes
  PROVE  GoodNodes' /\ EdgesAllowed'
BY CreateNodeNodes, SetNodeInstanceNodes, ConnectNodes, DisconnectNodes
   DEF EditNodes

-----------------------------------------------------------------------------
(* startGraph(). *)

\* A node that has been visited can be used, and its instance pushes for it.
Ready(n) == Usable(n) /\ instances[nodes[n].instance].pusher = n

VisitedReady ==
  /\ phase = "started" => left = {}
  /\ phase # "editing" => \A n \in DOMAIN nodes \ left : Ready(n)

GraphInv ==
  /\ GoodNodes
  /\ EdgesAllowed
  /\ GoodInstances
  /\ phase \in {"editing", "starting", "started"}
  /\ left \subseteq DOMAIN nodes
  /\ VisitedReady

LEMMA InitInv == Init => GraphInv
<1>. SUFFICES ASSUME Init PROVE GraphInv
  OBVIOUS
<1>1. /\ DOMAIN nodes = {} /\ nodes \in [DOMAIN nodes -> NodeState]
      /\ DOMAIN instances = {}
      /\ instances = [i \in DOMAIN instances |-> instances[i]]
  BY DEF Init
<1>. QED BY <1>1
     DEF Init, GraphInv, GoodNodes, EdgesAllowed, GoodInstances, VisitedReady

\* A setup call ends what startGraph() has established.
LEMMA EditInv ==
  ASSUME GraphInv, EditNodes \/ EditInstances
  PROVE  GraphInv'
<1>1. phase' = "editing" /\ left' = left
  BY ZenonT(60) DEF EditNodes, EditInstances, Editing, CreateNode, SetNodeInstance,
         Connect, Disconnect, SetInitParameters, SetThreadGroupForInstance,
         SetType, SetImplementation, SetImplementationToGroupInterface
<1>2. CASE EditNodes
  <2>1. UNCHANGED instances /\ DOMAIN nodes \subseteq DOMAIN nodes'
    BY ZenonT(60), <1>2 DEF EditNodes, CreateNode, SetNodeInstance, Connect, Disconnect, Put
  <2>2. GoodInstances'
    BY <2>1 DEF GraphInv, GoodInstances, GoodInstance
  <2>. QED BY <1>1, <1>2, <2>1, <2>2, EditNodesGood DEF GraphInv, VisitedReady
<1>3. CASE EditInstances
  <2>1. UNCHANGED nodes
    BY <1>3 DEF EditInstances, SetInitParameters, SetThreadGroupForInstance,
                SetType, SetImplementation, Implement, SetInstance,
                SetImplementationToGroupInterface
  <2>2. GoodNodes' /\ EdgesAllowed'
    BY <2>1 DEF GraphInv, GoodNodes, EdgesAllowed
  <2>. QED BY <1>1, <1>3, <2>1, <2>2, EditInstancesGood DEF GraphInv, VisitedReady
<1>. QED BY SMTT(60), <1>2, <1>3

LEMMA UnchangedGood ==
  ASSUME GraphInv, UNCHANGED <<nodes, instances>>
  PROVE  /\ GoodNodes' /\ EdgesAllowed' /\ GoodInstances'
         /\ \A n \in DOMAIN nodes : Ready(n) <=> Ready(n)'
<1>1. GoodNodes' /\ EdgesAllowed'
  BY DEF GraphInv, GoodNodes, EdgesAllowed
<1>2. GoodInstances'
  BY DEF GraphInv, GoodInstances, GoodInstance
<1>3. \A n \in DOMAIN nodes : Ready(n) <=> Ready(n)'
  BY DEF Ready, Usable, Implemented, KindOf
<1>. QED BY <1>1, <1>2, <1>3

\* The pusher of a node that has been visited keeps every other node off its
\* instance: no later step of startGraph() can take it away.
LEMMA StartNodeInv ==
  ASSUME GraphInv, NEW n \in Nodes, StartNode(n)
  PROVE  GraphInv'
<1>1. /\ UNCHANGED nodes /\ n \in left /\ phase = "starting" /\ Usable(n)
      /\ \/ /\ left' = left \ {n}
            /\ phase' = IF left = {n} THEN "started" ELSE "starting"
         \/ left' = {} /\ phase' = "editing"
  BY DEF StartNode, CanStart
<1>2. GoodNodes' /\ EdgesAllowed'
  BY <1>1 DEF GraphInv, GoodNodes, EdgesAllowed
<1>3. /\ GoodInstances'
      /\ DOMAIN instances' = DOMAIN instances
      /\ \A i \in DOMAIN instances :
           i # nodes[n].instance => instances'[i] = instances[i]
      /\ nodes[n].instance \in DOMAIN instances
      /\ instances[nodes[n].instance].impl # None
      /\ instances[nodes[n].instance].pusher \in {None, n}
      /\ instances'[nodes[n].instance].pusher = n
      /\ instances'[nodes[n].instance].impl # None
      /\ instances'[nodes[n].instance].impl.kind
           = instances[nodes[n].instance].impl.kind
  BY StartNodeInstances DEF GraphInv
<1>4. n \in DOMAIN nodes /\ Ready(n)'
  <2>1. n \in DOMAIN nodes
    BY <1>1 DEF GraphInv
  <2>2. Implemented(n)' /\ KindOf(n)' = KindOf(n)
    BY <1>1, <1>3 DEF Implemented, KindOf
  <2>. QED BY <1>1, <1>3, <2>1, <2>2 DEF Ready, Usable
<1>5. ASSUME NEW x \in DOMAIN nodes, x # n, Ready(x)
      PROVE  Ready(x)'
  <2>1. x \in Nodes /\ x # None
    BY NamesAssumption DEF GraphInv, GoodNodes
  <2>2. nodes[x].instance # nodes[n].instance
    BY <1>3, <1>5, <2>1 DEF Ready
  <2>3. nodes[x].instance \in DOMAIN instances
    BY <1>5 DEF Ready, Usable, Implemented
  <2>4. instances'[nodes[x].instance] = instances[nodes[x].instance]
    BY <1>3, <2>2, <2>3
  <2>5. /\ Implemented(x)' <=> Implemented(x)
        /\ KindOf(x)' = KindOf(x)
    BY <1>1, <1>3, <2>4 DEF Implemented, KindOf
  <2>. QED BY <1>1, <1>5, <2>4, <2>5 DEF Ready, Usable
<1>6. VisitedReady'
  <2>1. ASSUME phase' # "editing", NEW x \in DOMAIN nodes' \ left'
        PROVE  Ready(x)'
    <3>1. left' = left \ {n}
      BY <1>1, <2>1
    <3>2. x = n \/ x \in DOMAIN nodes \ left
      BY <1>1, <2>1, <3>1
    <3>. QED BY <1>1, <1>4, <1>5, <3>2 DEF GraphInv, VisitedReady
  <2>2. phase' = "started" => left' = {}
    BY <1>1
  <2>. QED BY <2>1, <2>2 DEF VisitedReady
<1>. QED BY <1>1, <1>2, <1>3, <1>6 DEF GraphInv

LEMMA NextInv == GraphInv /\ [Next]_vars => GraphInv'
<1>. SUFFICES ASSUME GraphInv, [Next]_vars PROVE GraphInv'
  OBVIOUS
<1>1. CASE EditNodes \/ EditInstances
  BY <1>1, EditInv
<1>2. CASE StartGraph
  <2>1. /\ UNCHANGED <<nodes, instances>>
        /\ left' = DOMAIN nodes
        /\ phase' = IF DOMAIN nodes = {} THEN "started" ELSE "starting"
    BY <1>2 DEF StartGraph
  <2>2. VisitedReady'
    BY <2>1 DEF VisitedReady
  <2>. QED BY <2>1, <2>2, UnchangedGood DEF GraphInv
<1>3. CASE \E n \in Nodes : StartNode(n)
  BY <1>3, StartNodeInv
<1>4. CASE \E n \in Nodes : StartFails(n)
  <2>1. UNCHANGED <<nodes, instances>> /\ left' = {} /\ phase' = "editing"
    BY <1>4 DEF StartFails
  <2>. QED BY <2>1, UnchangedGood DEF GraphInv, VisitedReady
<1>5. CASE UNCHANGED vars
  <2>1. UNCHANGED <<nodes, instances, phase, left>>
    BY <1>5 DEF vars
  <2>2. VisitedReady'
    BY <2>1, UnchangedGood DEF GraphInv, VisitedReady
  <2>. QED BY <2>1, <2>2, UnchangedGood DEF GraphInv
<1>. QED BY <1>1, <1>2, <1>3, <1>4, <1>5 DEF Next

LEMMA InvHolds == Spec => []GraphInv
BY InitInv, NextInv, PTL DEF Spec

-----------------------------------------------------------------------------
(* Every variable keeps its type through any sequence of setup calls.      *)
THEOREM TypeCorrect == Spec => []TypeOK
<1>1. GraphInv => TypeOK
  BY DEF GraphInv, TypeOK, GoodNodes, GoodInstances, GoodInstance
<1>. QED BY <1>1, InvHolds, PTL

(* connect() never makes a second edge between the same two nodes on the   *)
(* same channel.                                                           *)
THEOREM EdgesAreSingle == Spec => []NoDoubleEdge
<1>1. GraphInv => NoDoubleEdge
  BY DEF GraphInv, GoodNodes, Edges, NoDoubleEdge
<1>. QED BY <1>1, InvHolds, PTL

(* An implementation with a context has that of its thread group, however  *)
(* setType(), setImplementation() and setThreadGroupForInstance() follow   *)
(* one another.                                                            *)
THEOREM ContextsFollowGroups == Spec => []ContextIsThreadGroup
<1>1. GraphInv => ContextIsThreadGroup
  BY DEF GraphInv, GoodInstances, GoodInstance, ContextIsThreadGroup
<1>. QED BY <1>1, InvHolds, PTL

(* A source has the pusher of its instance, whichever came first.          *)
THEOREM SourcesHavePushers == Spec => []SourceKnowsPusher
<1>1. GraphInv => SourceKnowsPusher
  BY DEF GraphInv, GoodInstances, GoodInstance, SourceKnowsPusher
<1>. QED BY <1>1, InvHolds, PTL

(* When startGraph() has returned, every edge leads to an IPathable.       *)
THEOREM StartedGraphDelivers == Spec => []StartedDelivers
<1>1. ASSUME GraphInv, phase = "started", NEW n \in DOMAIN nodes,
             NEW c \in Channels, NEW e \in ToSet(nodes[n].forward[c])
      PROVE  Implemented(e.next) /\ KindOf(e.next) \in Pathables
  <2>1. PICK k \in DOMAIN nodes[n].forward[c] : e = nodes[n].forward[c][k]
    BY DEF ToSet
  <2>2. e.next \in DOMAIN nodes /\ nodes[e.next].allowsIncoming
    BY <1>1, <2>1 DEF GraphInv, EdgesAllowed
  <2>3. Ready(e.next)
    BY <1>1, <2>2 DEF GraphInv, VisitedReady
  <2>. QED BY <2>2, <2>3 DEF Ready, Usable
<1>2. GraphInv => StartedDelivers
  BY <1>1 DEF StartedDelivers
<1>. QED BY <1>2, InvHolds, PTL

(* When startGraph() has returned, a source pushes from its own node.      *)
THEOREM StartedSourcesPush == Spec => []StartedPushesFromOwnNode
<1>1. ASSUME GraphInv, phase = "started", NEW n \in DOMAIN nodes,
             KindOf(n) \in Sources
      PROVE  instances[nodes[n].instance].impl.pusher = n
  <2>1. Ready(n)
    BY <1>1 DEF GraphInv, VisitedReady
  <2>2. n # None
    BY <1>1, NamesAssumption DEF GraphInv, GoodNodes
  <2>3. /\ nodes[n].instance \in DOMAIN instances
        /\ instances[nodes[n].instance].impl # None
        /\ instances[nodes[n].instance].pusher = n
    BY <2>1 DEF Ready, Usable, Implemented
  <2>. QED BY <1>1, <2>2, <2>3 DEF GraphInv, GoodInstances, GoodInstance, KindOf
<1>2. GraphInv => StartedPushesFromOwnNode
  BY <1>1 DEF StartedPushesFromOwnNode
<1>. QED BY <1>2, InvHolds, PTL

(* When startGraph() has returned, no two nodes use the same instance,     *)
(* source or not: setPacketPusherForISources() is called for every node.   *)
OneNodePerInstance ==
  phase = "started" =>
    \A m, n \in DOMAIN nodes : nodes[m].instance = nodes[n].instance => m = n

THEOREM NoInstanceShared == Spec => []OneNodePerInstance
<1>1. GraphInv => OneNodePerInstance
  BY DEF GraphInv, VisitedReady, Ready, OneNodePerInstance
<1>. QED BY <1>1, InvHolds, PTL

-----------------------------------------------------------------------------
(* Graphs from files. *)

\* Each step of buildDataGraph() is a setup call.
LEMMA BuildStepIsEdit ==
  ASSUME BuildStep PROVE Next
<1>1. ASSUME NEW n \in Nodes, NEW k \in NodeKinds, DoCreateNode(n, k)
      PROVE  Next
  BY <1>1 DEF DoCreateNode, Next, EditNodes
<1>2. ASSUME NEW n \in Nodes, NEW i \in Instances, DoSetNodeInstance(n, i)
      PROVE  Next
  BY <1>2 DEF DoSetNodeInstance, Next, EditNodes
<1>3. ASSUME NEW n \in Nodes, NEW m \in Nodes, NEW c \in Channels, DoConnect(n, c, m)
      PROVE  Next
  BY <1>3, BuilderAssumption DEF DoConnect, Next, EditNodes
<1>. QED BY <1>1, <1>2, <1>3 DEF BuildStep

\* Each step of implementDataGraph() is a setup call, or the process ends.
LEMMA ImplementStepIsEdit ==
  ASSUME ImplementStep PROVE Next \/ UNCHANGED vars
<1>1. ASSUME NEW i \in Instances, DoSetInitParameters(i)
      PROVE  Next
  BY <1>1 DEF DoSetInitParameters, Next, EditInstances
<1>2. ASSUME NEW i \in Instances, NEW t \in Types, DoSetType(i, t)
      PROVE  Next
  BY <1>2 DEF DoSetType, Next, EditInstances
<1>3. ASSUME NEW i \in Instances, NEW g \in Instances, DoToGroupInterface(i, g)
      PROVE  Next
  BY <1>3 DEF DoToGroupInterface, Next, EditInstances
<1>4. ASSUME NEW i \in Instances, NEW g \in Instances, CrashOnGroup(i, g)
      PROVE  UNCHANGED vars
  BY <1>4 DEF CrashOnGroup
<1>. QED BY <1>1, <1>2, <1>3, <1>4 DEF ImplementStep

LEMMA StepIsEdit ==
  ASSUME [BuilderNext]_builderVars PROVE [Next]_vars
<1>1. CASE BuildStep BY <1>1, BuildStepIsEdit
<1>2. CASE ImplementStep BY <1>2, ImplementStepIsEdit
<1>3. CASE Refuse BY <1>3 DEF Refuse
<1>4. CASE Return BY <1>4 DEF Return
<1>5. CASE Implementing BY <1>5 DEF Implementing
<1>6. CASE Starting
  <2>1. Next BY <1>6 DEF Starting, Next
  <2>. QED BY <2>1
<1>7. CASE UNCHANGED builderVars BY <1>7 DEF builderVars
<1>. QED BY <1>1, <1>2, <1>3, <1>4, <1>5, <1>6, <1>7 DEF BuilderNext

(* buildDataGraph() and implementDataGraph() do nothing to a graph that    *)
(* the application could not do with the setup calls of DataGraph.         *)
THEOREM BuilderIsBuilding == BuilderSpec => Spec
<1>1. BuilderInit => Init BY DEF BuilderInit
<1>. QED BY <1>1, StepIsEdit, PTL DEF BuilderSpec, Spec

(* A graph from two files that startGraph() has accepted delivers every    *)
(* packet to an implementation that takes packets, each source pushing     *)
(* from its own node: even if the files were read half-way only.           *)
THEOREM FilesDeliver == BuilderSpec => [](StartedDelivers /\ StartedPushesFromOwnNode)
BY BuilderIsBuilding, StartedGraphDelivers, StartedSourcesPush, PTL

-----------------------------------------------------------------------------
(* The calls of an architecture file. *)

BuildCall ==
  {Create(n, k) : n \in Nodes, k \in NodeKinds}
  \cup {Place(n, i) : n \in Nodes, i \in Instances}
  \cup {Parametrise(i) : i \in Instances \cup {None}}
  \cup {Join(n, c, m) : n \in Nodes, c \in Channels, m \in Nodes}
  \cup {Reject}

LEMMA BuildCalled ==
  /\ \A n \in Nodes, k \in NodeKinds :
       /\ Create(n, k) \in BuildCall /\ Create(n, k).do = "createNode"
       /\ Create(n, k).node = n /\ Create(n, k).allows = k
  /\ \A n \in Nodes, i \in Instances :
       /\ Place(n, i) \in BuildCall /\ Place(n, i).do = "setNodeInstance"
       /\ Place(n, i).node = n /\ Place(n, i).instance = i
  /\ \A i \in Instances \cup {None} :
       Parametrise(i) \in BuildCall /\ Parametrise(i).do = "setInitParameters"
  /\ \A n, m \in Nodes, c \in Channels :
       /\ Join(n, c, m) \in BuildCall /\ Join(n, c, m).do = "connect"
       /\ Join(n, c, m).from = n /\ Join(n, c, m).channel = c /\ Join(n, c, m).to = m
  /\ Reject \in BuildCall /\ Reject.do = "throw"
<1>1. \A n \in Nodes, k \in NodeKinds :
       /\ Create(n, k) \in BuildCall /\ Create(n, k).do = "createNode"
       /\ Create(n, k).node = n /\ Create(n, k).allows = k
  BY DEF BuildCall, Create
<1>2. \A n \in Nodes, i \in Instances :
       /\ Place(n, i) \in BuildCall /\ Place(n, i).do = "setNodeInstance"
       /\ Place(n, i).node = n /\ Place(n, i).instance = i
  BY DEF BuildCall, Place
<1>3. \A i \in Instances \cup {None} :
       Parametrise(i) \in BuildCall /\ Parametrise(i).do = "setInitParameters"
  BY DEF BuildCall, Parametrise
<1>4. \A n, m \in Nodes, c \in Channels :
       /\ Join(n, c, m) \in BuildCall /\ Join(n, c, m).do = "connect"
       /\ Join(n, c, m).from = n /\ Join(n, c, m).channel = c /\ Join(n, c, m).to = m
  BY DEF BuildCall, Join
<1>5. Reject \in BuildCall /\ Reject.do = "throw"
  BY DEF BuildCall, Reject
<1>. QED BY <1>1, <1>2, <1>3, <1>4, <1>5

\* Neither makes, places nor connects a node.
Aside == {"throw", "setInitParameters"}

\* c is what is done of entry e of the text.
OfEntry(c, e) ==
  /\ c \in Seq(BuildCall)
  /\ Len(c) \in Nat
  /\ \/ /\ e.instance = None
        /\ Len(c) >= 1 /\ c[1] = Reject
        /\ \A q \in 2..Len(c) : c[q].do \in Aside
     \/ /\ e.instance \in Instances
        /\ Len(c) >= 2
        /\ c[1] = Create(e.name, e.allows)
        /\ c[2] = Place(e.name, e.instance)
        /\ \A q \in 3..Len(c) : c[q].do \in Aside

LEMMA NodeCallsOfEntry ==
  ASSUME NEW e \in NodeEntry
  PROVE  OfEntry(NodeCalls(e), e)
<1>. PICK c : c = NodeCalls(e)
  OBVIOUS
<1>1. /\ e.name \in Nodes /\ e.allows \in NodeKinds
      /\ e.instance \in Instances \/ e.instance = None
  BY DEF NodeEntry
<1>2. CASE e.instance = None
  <2>. PICK r : r = Reject
    OBVIOUS
  <2>1. c = <<r>> /\ r \in BuildCall
    BY <1>2, BuildCalled DEF NodeCalls
  <2>2. c \in Seq(BuildCall) /\ Len(c) = 1 /\ c[1] = r
    BY <2>1
  <2>. QED BY <1>2, <2>2 DEF OfEntry
<1>3. CASE e.instance \in Instances
  <2>. PICK a, b : a = Create(e.name, e.allows) /\ b = Place(e.name, e.instance)
    OBVIOUS
  <2>1. a \in BuildCall /\ b \in BuildCall
    BY <1>1, <1>3, BuildCalled
  <2>2. c = <<a, b>>
    BY <1>3, NamesAssumption DEF NodeCalls
  <2>3. c \in Seq(BuildCall) /\ Len(c) = 2 /\ c[1] = a /\ c[2] = b
    BY <2>1, <2>2
  <2>. QED BY <1>3, <2>3 DEF OfEntry
<1>. QED BY <1>1, <1>2, <1>3

LEMMA ParametersAside ==
  ASSUME NEW e \in NodeEntry, NEW all
  PROVE  /\ Parameters(e, all) \in Seq(BuildCall)
         /\ \A q \in 1..Len(Parameters(e, all)) : Parameters(e, all)[q].do \in Aside
<1>. PICK a, r : a = Parametrise(e.instance) /\ r = Reject
  OBVIOUS
<1>1. a \in BuildCall /\ a.do \in Aside /\ r \in BuildCall /\ r.do \in Aside
  BY BuildCalled DEF NodeEntry, Aside
<1>2. Parameters(e, all) \in {<<a>>, <<>>, <<r>>}
  BY DEF Parameters
<1>. PICK p : p = Parameters(e, all)
  OBVIOUS
<1>3. CASE p = <<a>> BY <1>1, <1>3
<1>4. CASE p = <<r>> BY <1>1, <1>4
<1>5. CASE p = <<>> BY <1>5
<1>. QED BY <1>2, <1>3, <1>4, <1>5

LEMMA LongerOfEntry ==
  ASSUME NEW e \in NodeEntry, NEW x, OfEntry(x, e), NEW y \in Seq(BuildCall),
         \A q \in 1..Len(y) : y[q].do \in Aside
  PROVE  OfEntry(Cat(x, y), e)
<1>. PICK c : c = Cat(x, y)
  OBVIOUS
<1>1. x \in Seq(BuildCall) /\ Len(x) \in Nat /\ Len(y) \in Nat
  BY DEF OfEntry
<1>2. c \in Seq(BuildCall) /\ Places(c, x, y)
  BY <1>1, CatType, CatPlaces
<1>3. Len(c) = Len(x) + Len(y)
  BY <1>2 DEF Places
<1>4. ASSUME NEW q \in 1..Len(c)
      PROVE  \/ q \in 1..Len(x) /\ c[q] = x[q]
             \/ q > Len(x) /\ c[q].do \in Aside
  <2>1. CASE q <= Len(x)
    BY <1>1, <1>2, <2>1 DEF Places
  <2>2. CASE ~ (q <= Len(x))
    <3>1. q - Len(x) \in 1..Len(y) /\ Len(x) + (q - Len(x)) = q
      BY <1>1, <1>3, <2>2
    <3>2. c[q] = y[q - Len(x)]
      BY <1>2, <3>1 DEF Places
    <3>. QED BY <1>1, <2>2, <3>1, <3>2
  <2>. QED BY <2>1, <2>2
<1>5. CASE e.instance = None /\ Len(x) >= 1 /\ x[1] = Reject
           /\ \A q \in 2..Len(x) : x[q].do \in Aside
  <2>1. Len(c) >= 1 /\ c[1] = Reject
    BY <1>1, <1>2, <1>3, <1>5 DEF Places
  <2>2. \A q \in 2..Len(c) : c[q].do \in Aside
    BY <1>1, <1>3, <1>4, <1>5
  <2>. QED BY <1>1, <1>2, <1>3, <1>5, <2>1, <2>2 DEF OfEntry
<1>6. CASE /\ e.instance \in Instances
           /\ Len(x) >= 2
           /\ x[1] = Create(e.name, e.allows)
           /\ x[2] = Place(e.name, e.instance)
           /\ \A q \in 3..Len(x) : x[q].do \in Aside
  <2>1. /\ Len(c) >= 2
        /\ c[1] = Create(e.name, e.allows)
        /\ c[2] = Place(e.name, e.instance)
    BY <1>1, <1>2, <1>3, <1>6 DEF Places
  <2>2. \A q \in 3..Len(c) : c[q].do \in Aside
    BY <1>1, <1>3, <1>4, <1>6
  <2>. QED BY <1>1, <1>2, <1>3, <1>6, <2>1, <2>2 DEF OfEntry
<1>. QED BY <1>5, <1>6 DEF OfEntry

\* The calls in all make and place the nodes of the entries.
Mentions(all, entries) ==
  /\ \A q \in 1..Len(all) : all[q].do = "setNodeInstance" =>
       /\ q - 1 \in 1..Len(all)
       /\ all[q - 1].do = "createNode" /\ all[q - 1].node = all[q].node
  /\ \A q \in 1..Len(all) : all[q].do = "createNode" =>
       \E k \in 1..Len(entries) : all[q].node = entries[k].name
  /\ \A k \in 1..Len(entries) : \E q \in 1..Len(all) :
       \/ all[q] = Reject
       \/ /\ q + 1 \in 1..Len(all)
          /\ all[q] = Create(entries[k].name, entries[k].allows)
          /\ all[q + 1] = Place(entries[k].name, entries[k].instance)
  /\ \A q \in 1..Len(all) : all[q].do # "connect"

LEMMA EntriesMentioned ==
  ASSUME NEW entries \in Seq(NodeEntry), NEW parts \in Seq(Seq(BuildCall)),
         Len(parts) = Len(entries),
         \A k \in 1..Len(entries) : OfEntry(parts[k], entries[k])
  PROVE  FlattenSeq(parts) \in Seq(BuildCall) /\ Mentions(FlattenSeq(parts), entries)
<1>. PICK all : all = FlattenSeq(parts)
  OBVIOUS
<1>. PICK n : n = Len(parts)
  OBVIOUS
<1>0. n \in Nat /\ n = Len(entries)
  OBVIOUS
<1>1. all \in Seq(BuildCall) /\ Len(all) \in Nat
  <2>1. all \in Seq(BuildCall) BY FlattenType
  <2>. QED BY <2>1
<1>2. PICK start \in [0..n -> Nat] : Chunks(all, parts, start)
  BY FlattenChunks
<1>3. \A k \in 1..n : /\ entries[k] \in NodeEntry /\ OfEntry(parts[k], entries[k])
                      /\ start[k - 1] \in Nat /\ start[k] \in Nat
  <2>1. \A k \in 1..n : k \in 0..n /\ k - 1 \in 0..n BY <1>0
  <2>. QED BY <1>0, <1>2, <2>1, ElementOfSeq
<1>4. ASSUME NEW k \in 1..n, NEW o \in 1..Len(parts[k])
      PROVE  start[k - 1] + o \in 1..Len(all) /\ all[start[k - 1] + o] = parts[k][o]
  <2>1. /\ start[k - 1] \in Nat /\ start[k] \in Nat /\ Len(parts[k]) \in Nat
        /\ start[k] = start[k - 1] + Len(parts[k]) /\ start[k] <= start[n]
        /\ start[n] = Len(all)
    <3>1. k \in 0..n /\ n \in 0..n /\ k <= n BY <1>0
    <3>2. start[k] <= start[n] BY <1>2, <3>1 DEF Chunks
    <3>. QED BY <1>2, <1>3, <3>2 DEF Chunks, OfEntry
  <2>2. \A a, b, c, d \in Nat : o \in 1..b /\ c = a + b /\ c <= d => a + o \in 1..d
    OBVIOUS
  <2>3. start[k - 1] + o \in 1..Len(all)
    BY <1>1, <2>1, <2>2
  <2>. QED BY <1>2, <2>3 DEF Chunks
<1>5. ASSUME NEW q \in 1..Len(all)
      PROVE  \E k \in 1..n : \E o \in 1..Len(parts[k]) :
               q = start[k - 1] + o /\ all[q] = parts[k][o]
  <2>1. PICK k \in 1..n : \E o \in 1..Len(parts[k]) : q = start[k - 1] + o
    BY <1>2 DEF Chunks
  <2>2. PICK o \in 1..Len(parts[k]) : q = start[k - 1] + o
    BY <2>1
  <2>. QED BY <1>4, <2>2
<1>6. ASSUME NEW q \in 1..Len(all), NEW k \in 1..n, NEW o \in 1..Len(parts[k]),
             q = start[k - 1] + o, all[q] = parts[k][o]
      PROVE  /\ all[q].do = "createNode" => o = 1 /\ all[q].node = entries[k].name
             /\ all[q].do = "setNodeInstance" =>
                  /\ q - 1 \in 1..Len(all)
                  /\ all[q - 1].do = "createNode" /\ all[q - 1].node = all[q].node
             /\ all[q].do # "connect"
  <2>1. /\ entries[k].name \in Nodes /\ entries[k].allows \in NodeKinds
        /\ OfEntry(parts[k], entries[k]) /\ Len(parts[k]) \in Nat
        /\ start[k - 1] \in Nat
    BY <1>3 DEF NodeEntry, OfEntry
  <2>2. parts[k][o].do \in Aside => all[q].do \notin {"createNode", "setNodeInstance", "connect"}
    BY <1>6 DEF Aside
  <2>3. CASE entries[k].instance = None
    <3>1. o = 1 \/ o \in 2..Len(parts[k]) BY <2>1
    <3>2. o = 1 => all[q].do = "throw"
      BY <1>6, <2>1, <2>3, BuildCalled, NamesAssumption DEF OfEntry
    <3>3. o # 1 => parts[k][o].do \in Aside
      BY <2>1, <2>3, <3>1, NamesAssumption DEF OfEntry
    <3>. QED BY <2>2, <3>2, <3>3
  <2>4. CASE entries[k].instance \in Instances
    <3>. PICK e : e = entries[k]
      OBVIOUS
    <3>1. /\ Len(parts[k]) >= 2
          /\ parts[k][1] = Create(e.name, e.allows)
          /\ parts[k][2] = Place(e.name, e.instance)
          /\ \A j \in 3..Len(parts[k]) : parts[k][j].do \in Aside
      BY <2>1, <2>4, NamesAssumption DEF OfEntry
    <3>2. /\ parts[k][1].do = "createNode" /\ parts[k][1].node = e.name
          /\ parts[k][2].do = "setNodeInstance" /\ parts[k][2].node = e.name
      BY SMTT(60), <2>1, <2>4, <3>1, BuildCalled
    <3>3. CASE o = 1 BY <1>6, <3>2, <3>3
    <3>4. CASE o = 2
      <4>1. q - 1 = start[k - 1] + 1 /\ 1 \in 1..Len(parts[k])
        BY SMTT(60), <1>6, <2>1, <3>1, <3>4
      <4>2. q - 1 \in 1..Len(all) /\ all[q - 1] = parts[k][1]
        BY SMTT(60), <1>4, <4>1
      <4>. QED BY <1>6, <3>2, <3>4, <4>2
    <3>5. CASE o \in 3..Len(parts[k]) BY <2>2, <3>1, <3>5
    <3>. QED BY <2>1, <3>3, <3>4, <3>5
  <2>. QED BY <2>1, <2>3, <2>4 DEF OfEntry
<1>7. ASSUME NEW k \in 1..n
      PROVE  \E q \in 1..Len(all) :
               \/ all[q] = Reject
               \/ /\ q + 1 \in 1..Len(all)
                  /\ all[q] = Create(entries[k].name, entries[k].allows)
                  /\ all[q + 1] = Place(entries[k].name, entries[k].instance)
  <2>. PICK c : c = parts[k]
    OBVIOUS
  <2>1. Len(c) \in Nat /\ Len(c) >= 1 /\ OfEntry(c, entries[k]) /\ start[k - 1] \in Nat
    BY SMTT(60), <1>3 DEF OfEntry
  <2>2. start[k - 1] + 1 \in 1..Len(all) /\ all[start[k - 1] + 1] = c[1]
    BY <1>4, <2>1
  <2>3. CASE c[1] = Reject BY <2>2, <2>3
  <2>4. CASE /\ Len(c) >= 2 /\ c[1] = Create(entries[k].name, entries[k].allows)
             /\ c[2] = Place(entries[k].name, entries[k].instance)
    <3>1. start[k - 1] + 2 \in 1..Len(all) /\ all[start[k - 1] + 2] = c[2]
      BY SMTT(60), <1>4, <2>1, <2>4
    <3>2. (start[k - 1] + 1) + 1 = start[k - 1] + 2 BY <2>1
    <3>. QED BY <2>2, <2>4, <3>1, <3>2
  <2>. QED BY <2>1, <2>3, <2>4 DEF OfEntry
<1>8. ASSUME NEW q \in 1..Len(all)
      PROVE  /\ all[q].do = "createNode" => \E k \in 1..n : all[q].node = entries[k].name
             /\ all[q].do = "setNodeInstance" =>
                  /\ q - 1 \in 1..Len(all)
                  /\ all[q - 1].do = "createNode" /\ all[q - 1].node = all[q].node
             /\ all[q].do # "connect"
  <2>1. PICK k \in 1..n : \E o \in 1..Len(parts[k]) :
               q = start[k - 1] + o /\ all[q] = parts[k][o]
    BY <1>5
  <2>2. PICK o \in 1..Len(parts[k]) : q = start[k - 1] + o /\ all[q] = parts[k][o]
    BY <2>1
  <2>. QED BY <1>6, <2>2
<1>9. Mentions(all, entries)
  BY SMTT(60), <1>0, <1>7, <1>8 DEF Mentions
<1>. QED BY <1>1, <1>9

\* One list of entries after the other.
LEMMA MentionsBoth ==
  ASSUME NEW a \in Seq(NodeEntry), NEW b \in Seq(NodeEntry),
         NEW x \in Seq(BuildCall), NEW y \in Seq(BuildCall),
         Mentions(x, a), Mentions(y, b)
  PROVE  Mentions(Cat(x, y), Cat(a, b))
<1>. PICK c, d : c = Cat(x, y) /\ d = Cat(a, b)
  OBVIOUS
<1>0. Len(x) \in Nat /\ Len(y) \in Nat /\ Len(a) \in Nat /\ Len(b) \in Nat
  OBVIOUS
<1>1. Places(c, x, y) /\ Places(d, a, b)
  BY CatPlaces
<1>2. /\ Len(c) = Len(x) + Len(y) /\ Len(d) = Len(a) + Len(b)
      /\ \A q \in 1..Len(x) : q \in 1..Len(c) /\ c[q] = x[q]
      /\ \A q \in 1..Len(y) : Len(x) + q \in 1..Len(c) /\ c[Len(x) + q] = y[q]
      /\ \A k \in 1..Len(a) : k \in 1..Len(d) /\ d[k] = a[k]
      /\ \A k \in 1..Len(b) : Len(a) + k \in 1..Len(d) /\ d[Len(a) + k] = b[k]
  <2>1. Len(c) = Len(x) + Len(y) /\ Len(d) = Len(a) + Len(b)
    BY <1>1 DEF Places
  <2>2. /\ \A q \in 1..Len(x) : q \in 1..Len(c)
        /\ \A q \in 1..Len(y) : Len(x) + q \in 1..Len(c)
        /\ \A k \in 1..Len(a) : k \in 1..Len(d)
        /\ \A k \in 1..Len(b) : Len(a) + k \in 1..Len(d)
    BY <1>0, <2>1
  <2>. QED BY <1>1, <2>1, <2>2 DEF Places
<1>3. ASSUME NEW q \in 1..Len(c)
      PROVE  q \in 1..Len(x) \/ \E o \in 1..Len(y) : q = Len(x) + o
  <2>1. q \in 1..Len(x) \/ (q - Len(x) \in 1..Len(y) /\ q = Len(x) + (q - Len(x)))
    BY <1>0, <1>2
  <2>. QED BY <2>1
<1>4. ASSUME NEW k \in 1..Len(d)
      PROVE  k \in 1..Len(a) \/ \E o \in 1..Len(b) : k = Len(a) + o
  <2>1. k \in 1..Len(a) \/ (k - Len(a) \in 1..Len(b) /\ k = Len(a) + (k - Len(a)))
    BY <1>0, <1>2
  <2>. QED BY <2>1
<1>5. ASSUME NEW q \in 1..Len(c), c[q].do = "setNodeInstance"
      PROVE  /\ q - 1 \in 1..Len(c)
             /\ c[q - 1].do = "createNode" /\ c[q - 1].node = c[q].node
  <2>1. CASE q \in 1..Len(x)
    <3>1. /\ q - 1 \in 1..Len(x)
          /\ x[q - 1].do = "createNode" /\ x[q - 1].node = x[q].node
      BY <1>2, <1>5, <2>1 DEF Mentions
    <3>. QED BY <1>2, <2>1, <3>1
  <2>2. CASE \E o \in 1..Len(y) : q = Len(x) + o
    <3>1. PICK o \in 1..Len(y) : q = Len(x) + o
      BY <2>2
    <3>2. /\ o - 1 \in 1..Len(y)
          /\ y[o - 1].do = "createNode" /\ y[o - 1].node = y[o].node
      BY <1>2, <1>5, <3>1 DEF Mentions
    <3>3. q - 1 = Len(x) + (o - 1)
      BY <1>0, <3>1
    <3>4. Len(x) + (o - 1) \in 1..Len(c) /\ c[Len(x) + (o - 1)] = y[o - 1]
      BY <1>2, <3>2
    <3>5. c[q] = y[o]
      BY <1>2, <3>1
    <3>. QED BY <3>2, <3>3, <3>4, <3>5
  <2>. QED BY <1>3, <2>1, <2>2
<1>6. ASSUME NEW q \in 1..Len(c)
      PROVE  /\ c[q].do = "createNode" => \E k \in 1..Len(d) : c[q].node = d[k].name
             /\ c[q].do # "connect"
  <2>1. CASE q \in 1..Len(x)
    <3>1. c[q] = x[q] BY <1>2, <2>1
    <3>2. /\ x[q].do = "createNode" => \E k \in 1..Len(a) : x[q].node = a[k].name
          /\ x[q].do # "connect"
      BY <2>1 DEF Mentions
    <3>. QED BY <1>2, <3>1, <3>2
  <2>2. CASE \E o \in 1..Len(y) : q = Len(x) + o
    <3>1. PICK o \in 1..Len(y) : q = Len(x) + o
      BY <2>2
    <3>2. c[q] = y[o] BY <1>2, <3>1
    <3>3. /\ y[o].do = "createNode" => \E k \in 1..Len(b) : y[o].node = b[k].name
          /\ y[o].do # "connect"
      BY DEF Mentions
    <3>. QED BY <1>2, <3>2, <3>3
  <2>. QED BY <1>3, <2>1, <2>2
<1>7. ASSUME NEW k \in 1..Len(d)
      PROVE  \E q \in 1..Len(c) :
               \/ c[q] = Reject
               \/ /\ q + 1 \in 1..Len(c)
                  /\ c[q] = Create(d[k].name, d[k].allows)
                  /\ c[q + 1] = Place(d[k].name, d[k].instance)
  <2>1. CASE k \in 1..Len(a)
    <3>1. PICK q \in 1..Len(x) :
            \/ x[q] = Reject
            \/ /\ q + 1 \in 1..Len(x)
               /\ x[q] = Create(a[k].name, a[k].allows)
               /\ x[q + 1] = Place(a[k].name, a[k].instance)
      BY <2>1 DEF Mentions
    <3>. QED BY <1>2, <2>1, <3>1
  <2>2. CASE \E o \in 1..Len(b) : k = Len(a) + o
    <3>1. PICK o \in 1..Len(b) : k = Len(a) + o
      BY <2>2
    <3>2. PICK q \in 1..Len(y) :
            \/ y[q] = Reject
            \/ /\ q + 1 \in 1..Len(y)
               /\ y[q] = Create(b[o].name, b[o].allows)
               /\ y[q + 1] = Place(b[o].name, b[o].instance)
      BY DEF Mentions
    <3>3. d[k] = b[o] BY <1>2, <3>1
    <3>4. Len(x) + q \in 1..Len(c) /\ c[Len(x) + q] = y[q]
      BY <1>2
    <3>5. q + 1 \in 1..Len(y) =>
            Len(x) + (q + 1) \in 1..Len(c) /\ c[Len(x) + (q + 1)] = y[q + 1]
      BY <1>2
    <3>6. Len(x) + (q + 1) = (Len(x) + q) + 1 BY <1>0
    <3>. QED BY <3>2, <3>3, <3>4, <3>5, <3>6
  <2>. QED BY <1>4, <2>1, <2>2
<1>8. Mentions(c, d)
  BY <1>5, <1>6, <1>7 DEF Mentions
<1>. QED BY <1>8

\* What the calls of an architecture file are.
BuildsText(all, text) ==
  /\ all \in Seq(BuildCall)
  /\ \A q \in 1..Len(all) : all[q].do = "setNodeInstance" =>
       /\ q - 1 \in 1..Len(all)
       /\ all[q - 1].do = "createNode" /\ all[q - 1].node = all[q].node
  /\ \A q \in 1..Len(all) : all[q].do = "createNode" =>
       \E e \in ToSet(text.subgraphs \o text.nodes) : all[q].node = e.name
  /\ \A e \in ToSet(text.subgraphs \o text.nodes) : \E q \in 1..Len(all) :
       \/ all[q] = Reject
       \/ /\ q + 1 \in 1..Len(all)
          /\ all[q] = Create(e.name, e.allows)
          /\ all[q + 1] = Place(e.name, e.instance)
  /\ \A q \in 1..Len(all) : all[q].do = "connect" =>
       \E e \in ToSet(text.edges) : all[q] = EdgeCall(e) /\ e.channel # None
  /\ \A e \in ToSet(text.edges) : \E q \in 1..Len(all) : all[q] = EdgeCall(e)

LEMMA EdgeCalls ==
  ASSUME NEW edges \in Seq(EdgeEntry)
  PROVE  [k \in DOMAIN edges |-> EdgeCall(edges[k])] \in Seq(BuildCall)
<1>1. ASSUME NEW k \in 1..Len(edges) PROVE EdgeCall(edges[k]) \in BuildCall
  <2>1. edges[k] \in EdgeEntry
    BY ElementOfSeq
  <2>2. /\ edges[k].from \in Nodes /\ edges[k].to \in Nodes
        /\ edges[k].channel \in Channels \/ edges[k].channel = None
    BY <2>1 DEF EdgeEntry
  <2>. QED BY <2>2, BuildCalled DEF EdgeCall
<1>2. DOMAIN edges = 1..Len(edges) /\ Len(edges) \in Nat
  OBVIOUS
<1>. QED BY <1>1, <1>2

LEMMA BuildCallsAre ==
  ASSUME NEW text \in Architectures
  PROVE  BuildsText(BuildCalls(text), text)
<1>1. /\ text.subgraphs \in Seq(NodeEntry) /\ text.nodes \in Seq(NodeEntry)
      /\ text.edges \in Seq(EdgeEntry)
  BY BuilderAssumption
<1>. PICK S, N, E : S = text.subgraphs /\ N = text.nodes /\ E = text.edges
  OBVIOUS
<1>2. S \in Seq(NodeEntry) /\ N \in Seq(NodeEntry) /\ E \in Seq(EdgeEntry)
  BY <1>1
<1>. DEFINE s == [k \in DOMAIN S |-> NodeCalls(S[k])]
            t == [k \in DOMAIN N |-> NodeCalls(N[k]) \o Parameters(N[k], N)]
            u == [k \in DOMAIN E |-> EdgeCall(E[k])]
<1>3. BuildCalls(text) = Cat(Cat(FlattenSeq(s), FlattenSeq(t)), u)
  BY DEF BuildCalls, Cat
<1>4. s \in Seq(Seq(BuildCall)) /\ Len(s) = Len(S) /\ \A k \in 1..Len(S) : OfEntry(s[k], S[k])
  <2>1. DOMAIN S = 1..Len(S) /\ Len(S) \in Nat /\ \A k \in 1..Len(S) : S[k] \in NodeEntry
    BY <1>2
  <2>2. \A k \in 1..Len(S) : OfEntry(NodeCalls(S[k]), S[k])
    BY <2>1, NodeCallsOfEntry
  <2>3. \A k \in 1..Len(S) : NodeCalls(S[k]) \in Seq(BuildCall)
    BY <2>2 DEF OfEntry
  <2>. QED BY <2>1, <2>2, <2>3
<1>5. t \in Seq(Seq(BuildCall)) /\ Len(t) = Len(N) /\ \A k \in 1..Len(N) : OfEntry(t[k], N[k])
  <2>1. DOMAIN N = 1..Len(N) /\ Len(N) \in Nat /\ \A k \in 1..Len(N) : N[k] \in NodeEntry
    BY <1>2
  <2>2. ASSUME NEW k \in 1..Len(N) PROVE OfEntry(t[k], N[k])
    <3>1. OfEntry(NodeCalls(N[k]), N[k])
      BY <2>1, NodeCallsOfEntry
    <3>2. /\ Parameters(N[k], N) \in Seq(BuildCall)
          /\ \A q \in 1..Len(Parameters(N[k], N)) : Parameters(N[k], N)[q].do \in Aside
      BY <2>1, ParametersAside
    <3>3. OfEntry(Cat(NodeCalls(N[k]), Parameters(N[k], N)), N[k])
      BY <2>1, <3>1, <3>2, LongerOfEntry
    <3>. QED BY <2>1, <3>3 DEF Cat
  <2>3. \A k \in 1..Len(N) : t[k] \in Seq(BuildCall)
    BY <2>2 DEF OfEntry
  <2>. HIDE DEF t
  <2>4. t = [k \in 1..Len(N) |-> t[k]]
    BY <2>1 DEF t
  <2>5. t \in Seq(Seq(BuildCall)) /\ Len(t) = Len(N)
    BY <2>1, <2>3, <2>4
  <2>. QED BY <2>2, <2>5
<1>6. u \in Seq(BuildCall)
  BY <1>2, EdgeCalls
<1>7. Len(u) = Len(E) /\ Len(E) \in Nat /\ \A k \in 1..Len(E) : u[k] = EdgeCall(E[k]) /\ E[k] \in ToSet(E)
  <2>1. DOMAIN E = 1..Len(E) /\ Len(E) \in Nat
    BY <1>2
  <2>. QED BY <2>1 DEF ToSet
<1>. HIDE DEF s, t, u
<1>. PICK x, y : x = FlattenSeq(s) /\ y = FlattenSeq(t)
  OBVIOUS
<1>8. x \in Seq(BuildCall) /\ y \in Seq(BuildCall) /\ Mentions(x, S) /\ Mentions(y, N)
  BY <1>2, <1>4, <1>5, EntriesMentioned
<1>. PICK w, W : w = Cat(x, y) /\ W = Cat(S, N)
  OBVIOUS
<1>9. w \in Seq(BuildCall) /\ Mentions(w, W) /\ W \in Seq(NodeEntry)
  BY <1>2, <1>8, MentionsBoth, CatType
<1>. PICK all : all = Cat(w, u)
  OBVIOUS
<1>10. all \in Seq(BuildCall) /\ Places(all, w, u) /\ Len(w) \in Nat
  BY <1>6, <1>9, CatType, CatPlaces
<1>11. /\ Len(all) = Len(w) + Len(u)
       /\ \A q \in 1..Len(w) : q \in 1..Len(all) /\ all[q] = w[q]
       /\ \A q \in 1..Len(u) : Len(w) + q \in 1..Len(all) /\ all[Len(w) + q] = u[q]
  <2>1. Len(all) = Len(w) + Len(u)
    BY <1>10 DEF Places
  <2>2. /\ \A q \in 1..Len(w) : q \in 1..Len(all)
        /\ \A q \in 1..Len(u) : Len(w) + q \in 1..Len(all)
    BY <1>7, <1>10, <2>1
  <2>. QED BY <1>10, <2>1, <2>2 DEF Places
<1>12. ASSUME NEW q \in 1..Len(all)
       PROVE  q \in 1..Len(w) \/ \E k \in 1..Len(u) : q = Len(w) + k
  <2>1. q \in 1..Len(w) \/ (q - Len(w) \in 1..Len(u) /\ q = Len(w) + (q - Len(w)))
    BY <1>7, <1>10, <1>11
  <2>. QED BY <2>1
<1>13. ASSUME NEW q \in 1..Len(all)
       PROVE  \/ q \in 1..Len(w) /\ all[q] = w[q]
              \/ \E e \in ToSet(E) :
                   /\ all[q] = EdgeCall(e)
                   /\ all[q].do = "connect" => e.channel # None
                   /\ all[q].do \notin {"createNode", "setNodeInstance"}
  <2>1. CASE q \in 1..Len(w) BY <1>11, <2>1
  <2>2. CASE \E k \in 1..Len(u) : q = Len(w) + k
    <3>1. PICK k \in 1..Len(u) : q = Len(w) + k
      BY <2>2
    <3>2. all[q] = EdgeCall(E[k]) /\ E[k] \in ToSet(E)
      BY <1>7, <1>11, <3>1
    <3>3. /\ EdgeCall(E[k]).do \notin {"createNode", "setNodeInstance"}
          /\ EdgeCall(E[k]).do = "connect" => E[k].channel # None
      BY DEF EdgeCall, Reject, Join
    <3>. QED BY <3>2, <3>3
  <2>. QED BY <1>12, <2>1, <2>2
<1>14. W = S \o N /\ ToSet(W) = {W[k] : k \in 1..Len(W)}
  <2>1. W = S \o N BY DEF Cat
  <2>2. DOMAIN W = 1..Len(W) BY <1>9
  <2>. QED BY <2>1, <2>2 DEF ToSet
<1>15. \A q \in 1..Len(all) : all[q].do = "setNodeInstance" =>
         /\ q - 1 \in 1..Len(all)
         /\ all[q - 1].do = "createNode" /\ all[q - 1].node = all[q].node
  <2>. SUFFICES ASSUME NEW q \in 1..Len(all), all[q].do = "setNodeInstance"
                PROVE  /\ q - 1 \in 1..Len(all)
                       /\ all[q - 1].do = "createNode" /\ all[q - 1].node = all[q].node
    OBVIOUS
  <2>1. q \in 1..Len(w) /\ all[q] = w[q] BY <1>13
  <2>2. /\ q - 1 \in 1..Len(w)
        /\ w[q - 1].do = "createNode" /\ w[q - 1].node = w[q].node
    BY <1>9, <2>1 DEF Mentions
  <2>. QED BY <1>11, <2>1, <2>2
<1>16. \A q \in 1..Len(all) : all[q].do = "createNode" =>
         \E e \in ToSet(W) : all[q].node = e.name
  <2>. SUFFICES ASSUME NEW q \in 1..Len(all), all[q].do = "createNode"
                PROVE  \E e \in ToSet(W) : all[q].node = e.name
    OBVIOUS
  <2>1. q \in 1..Len(w) /\ all[q] = w[q] BY <1>13
  <2>2. PICK k \in 1..Len(W) : w[q].node = W[k].name
    BY <1>9, <2>1 DEF Mentions
  <2>3. W[k] \in ToSet(W) BY <1>14
  <2>. QED BY <2>1, <2>2, <2>3
<1>17. \A e \in ToSet(W) : \E q \in 1..Len(all) :
         \/ all[q] = Reject
         \/ /\ q + 1 \in 1..Len(all)
            /\ all[q] = Create(e.name, e.allows)
            /\ all[q + 1] = Place(e.name, e.instance)
  <2>. SUFFICES ASSUME NEW k \in 1..Len(W)
                PROVE  \E q \in 1..Len(all) :
                         \/ all[q] = Reject
                         \/ /\ q + 1 \in 1..Len(all)
                            /\ all[q] = Create(W[k].name, W[k].allows)
                            /\ all[q + 1] = Place(W[k].name, W[k].instance)
    BY ZenonT(60), <1>14
  <2>1. PICK q \in 1..Len(w) :
          \/ w[q] = Reject
          \/ /\ q + 1 \in 1..Len(w)
             /\ w[q] = Create(W[k].name, W[k].allows)
             /\ w[q + 1] = Place(W[k].name, W[k].instance)
    BY <1>9 DEF Mentions
  <2>. QED BY SMTT(60), <1>11, <2>1
<1>18. \A q \in 1..Len(all) : all[q].do = "connect" =>
         \E e \in ToSet(E) : all[q] = EdgeCall(e) /\ e.channel # None
  BY <1>9, <1>13 DEF Mentions
<1>19. \A e \in ToSet(E) : \E q \in 1..Len(all) : all[q] = EdgeCall(e)
  <2>1. ToSet(E) = {E[k] : k \in 1..Len(E)}
    BY <1>2 DEF ToSet
  <2>. QED BY <1>7, <1>11, <2>1
<1>20. BuildsText(all, text)
  <2>1. ToSet(text.subgraphs \o text.nodes) = ToSet(W) /\ ToSet(text.edges) = ToSet(E)
    BY <1>14
  <2>2. all \in Seq(BuildCall)
    BY <1>10
  <2>3. /\ \A q \in 1..Len(all) : all[q].do = "createNode" =>
             \E e \in ToSet(text.subgraphs \o text.nodes) : all[q].node = e.name
        /\ \A e \in ToSet(text.subgraphs \o text.nodes) : \E q \in 1..Len(all) :
             \/ all[q] = Reject
             \/ /\ q + 1 \in 1..Len(all)
                /\ all[q] = Create(e.name, e.allows)
                /\ all[q + 1] = Place(e.name, e.instance)
    BY <1>16, <1>17, <2>1
  <2>4. /\ \A q \in 1..Len(all) : all[q].do = "connect" =>
             \E e \in ToSet(text.edges) : all[q] = EdgeCall(e) /\ e.channel # None
        /\ \A e \in ToSet(text.edges) : \E q \in 1..Len(all) : all[q] = EdgeCall(e)
    BY <1>18, <1>19, <2>1
  <2>. QED BY <1>15, <2>2, <2>3, <2>4 DEF BuildsText
<1>. QED BY <1>3, <1>20

-----------------------------------------------------------------------------
(* Reading a file. *)

ImplementCall ==
  {Parametrise(i) : i \in Instances}
  \cup {MakeOf(i, t) : i \in Instances, t \in Types}
  \cup {TakeFrom(i, g) : i \in Instances, g \in Instances}
  \cup {Reject}

Call == BuildCall \cup ImplementCall

\* What is left to do is the end of all.
Reads(all) ==
  /\ all \in Seq(Call) /\ calls \in Seq(Call)
  /\ Len(calls) <= Len(all)
  /\ \A j \in 1..Len(calls) : calls[j] = all[Len(all) - Len(calls) + j]

Done(all) == Len(all) - Len(calls)

LEMMA ReadsFirst ==
  ASSUME NEW all \in Seq(Call), calls = all
  PROVE  Reads(all) /\ Done(all) = 0
<1>1. Len(all) \in Nat
  OBVIOUS
<1>2. \A j \in 1..Len(all) : Len(all) - Len(all) + j = j
  BY <1>1
<1>. QED BY <1>1, <1>2 DEF Reads, Done

LEMMA ReadsHead ==
  ASSUME NEW all, Reads(all), calls # <<>>
  PROVE  /\ Done(all) \in Nat /\ Done(all) + 1 \in 1..Len(all)
         /\ Head(calls) = all[Done(all) + 1]
<1>1. Len(all) \in Nat /\ Len(calls) \in Nat /\ Len(calls) >= 1 /\ Len(calls) <= Len(all)
  BY DEF Reads
<1>2. Done(all) \in Nat /\ Done(all) + 1 \in 1..Len(all)
  BY <1>1 DEF Done
<1>3. Head(calls) = calls[1]
  BY DEF Reads
<1>4. 1 \in 1..Len(calls)
  BY <1>1
<1>. QED BY <1>2, <1>3, <1>4 DEF Reads, Done

LEMMA ReadsOn ==
  ASSUME NEW all, Reads(all), calls # <<>>, calls' = Tail(calls)
  PROVE  /\ calls' \in Seq(Call)
         /\ Len(calls') <= Len(all)
         /\ Len(all) - Len(calls') = Done(all) + 1
         /\ \A j \in 1..Len(calls') : calls'[j] = all[Len(all) - Len(calls') + j]
<1>1. /\ Len(all) \in Nat /\ Len(calls) \in Nat /\ Len(calls) >= 1 /\ Len(calls) <= Len(all)
      /\ calls \in Seq(Call)
  BY DEF Reads
<1>. PICK t : t = Tail(calls)
  OBVIOUS
<1>2. t \in Seq(Call) /\ Len(t) = Len(calls) - 1 /\ \A j \in 1..Len(t) : t[j] = calls[j + 1]
  BY <1>1
<1>3. ASSUME NEW j \in 1..Len(t) PROVE t[j] = all[Len(all) - Len(t) + j]
  <2>1. j + 1 \in 1..Len(calls) /\ Len(all) - Len(calls) + (j + 1) = Len(all) - Len(t) + j
    BY <1>1, <1>2
  <2>2. calls[j + 1] = all[Len(all) - Len(calls) + (j + 1)]
    BY <2>1 DEF Reads
  <2>. QED BY <1>2, <2>1, <2>2
<1>4. Len(t) <= Len(all) /\ Len(all) - Len(t) = Done(all) + 1
  BY <1>1, <1>2 DEF Done
<1>. QED BY <1>2, <1>3, <1>4

LEMMA ReadsAll ==
  ASSUME NEW all, Reads(all), calls = <<>>
  PROVE  Done(all) = Len(all) /\ Len(all) \in Nat
BY DEF Reads, Done

-----------------------------------------------------------------------------
(* The graph as far as the architecture file has been read. *)

\* What a call that makes or changes a node leaves of the others.
LEMMA CreateNodeEffect ==
  ASSUME NEW n \in Nodes, NEW k \in NodeKinds, CreateNode(n, k[1], k[2])
  PROVE  /\ n \notin DOMAIN nodes
         /\ DOMAIN nodes' = DOMAIN nodes \cup {n}
         /\ \A x \in DOMAIN nodes : nodes'[x] = nodes[x]
         /\ <<nodes'[n].allowsIncoming, nodes'[n].allowsOutgoing>> = k
         /\ nodes'[n].back = {}
         /\ \A c \in Channels : nodes'[n].forward[c] = <<>>
         /\ UNCHANGED instances
<1>1. nodes' = Put(nodes, n,
        [allowsIncoming |-> k[1], allowsOutgoing |-> k[2], instance |-> None,
         forward |-> [c \in Channels |-> <<>>], back |-> {}])
      /\ n \notin DOMAIN nodes /\ UNCHANGED instances
  BY DEF CreateNode
<1>2. <<k[1], k[2]>> = k
  BY NamesAssumption
<1>. QED BY <1>1, <1>2 DEF Put

LEMMA SetNodeInstanceEffect ==
  ASSUME GoodNodes, NEW n \in Nodes, NEW i \in Instances, SetNodeInstance(n, i)
  PROVE  /\ n \in DOMAIN nodes
         /\ DOMAIN nodes' = DOMAIN nodes
         /\ \A x \in DOMAIN nodes :
              /\ nodes'[x].instance = IF x = n THEN i ELSE nodes[x].instance
              /\ nodes'[x].allowsIncoming = nodes[x].allowsIncoming
              /\ nodes'[x].allowsOutgoing = nodes[x].allowsOutgoing
              /\ nodes'[x].back = nodes[x].back
              /\ nodes'[x].forward = nodes[x].forward
         /\ UNCHANGED instances
<1>1. /\ nodes' = [nodes EXCEPT ![n].instance = i]
      /\ n \in DOMAIN nodes
      /\ nodes \in [DOMAIN nodes -> NodeState]
      /\ UNCHANGED instances
  BY DEF SetNodeInstance, GoodNodes
<1>. QED BY <1>1 DEF NodeState

\* There is an edge to m.
Leads(edges, m) == \E k \in DOMAIN edges : edges[k].next = m

LEMMA WithEdgeLeads ==
  ASSUME NEW edges \in Edges, NEW edge \in Edge, NEW m
  PROVE  Leads(WithEdge(edges, edge), m) <=> Leads(edges, m) \/ m = edge.next
<1>1. CASE \E k \in DOMAIN edges : edges[k].next = edge.next
  <2>1. PICK new : new = [k \in DOMAIN edges |->
                        IF edges[k].next = edge.next THEN edge ELSE edges[k]]
    OBVIOUS
  <2>2. WithEdge(edges, edge) = new
    BY <1>1, <2>1 DEF WithEdge
  <2>3. DOMAIN new = DOMAIN edges /\ \A k \in DOMAIN edges : new[k].next = edges[k].next
    BY <2>1
  <2>. QED BY <1>1, <2>2, <2>3 DEF Leads
<1>2. CASE ~ \E k \in DOMAIN edges : edges[k].next = edge.next
  <2>1. PICK new : new = Append(edges, edge)
    OBVIOUS
  <2>2. WithEdge(edges, edge) = new
    BY <1>2, <2>1 DEF WithEdge
  <2>3. edges \in Seq(Edge) BY DEF Edges
  <2>4. /\ DOMAIN new = DOMAIN edges \cup {Len(edges) + 1}
        /\ \A k \in DOMAIN edges : new[k] = edges[k]
        /\ new[Len(edges) + 1] = edge
    BY <2>1, <2>3
  <2>. QED BY <2>2, <2>4 DEF Leads
<1>. QED BY <1>1, <1>2

LEMMA ConnectEffect ==
  ASSUME GoodNodes, NEW from \in Nodes, NEW to \in Nodes,
         NEW c \in Channels, NEW d \in Deliveries, Connect(from, c, to, d)
  PROVE  /\ from \in DOMAIN nodes /\ to \in DOMAIN nodes
         /\ DOMAIN nodes' = DOMAIN nodes
         /\ \A x \in DOMAIN nodes :
              /\ nodes'[x].instance = nodes[x].instance
              /\ nodes'[x].allowsIncoming = nodes[x].allowsIncoming
              /\ nodes'[x].allowsOutgoing = nodes[x].allowsOutgoing
              /\ \A m : m \in nodes'[x].back <=>
                   \/ m \in nodes[x].back
                   \/ x = to /\ m = from /\ ~ Leads(nodes[from].forward[c], to)
              /\ \A y \in Channels : \A m : Leads(nodes'[x].forward[y], m) <=>
                   \/ Leads(nodes[x].forward[y], m)
                   \/ x = from /\ y = c /\ m = to
         /\ UNCHANGED instances
<1>. DEFINE edge == [next |-> to, delivery |-> d]
            old  == nodes[from].forward[c]
<1>1. /\ from \in DOMAIN nodes /\ to \in DOMAIN nodes
      /\ old \in Edges
      /\ edge \in Edge /\ edge.next = to
      /\ UNCHANGED instances
  BY ZenonT(60) DEF Connect, GoodNodes, Edge
<1>2. /\ DOMAIN nodes' = DOMAIN nodes
      /\ \A n \in DOMAIN nodes :
           nodes'[n] = [nodes[n] EXCEPT
             !.forward[c] = IF n = from THEN WithEdge(@, edge) ELSE @,
             !.back = IF n = to /\ ~ Leads(old, to)
                      THEN @ \cup {from} ELSE @]
  BY DEF Connect, Leads
<1>. HIDE DEF edge
<1>3. ASSUME NEW x \in DOMAIN nodes
      PROVE  /\ nodes'[x].instance = nodes[x].instance
             /\ nodes'[x].allowsIncoming = nodes[x].allowsIncoming
             /\ nodes'[x].allowsOutgoing = nodes[x].allowsOutgoing
             /\ nodes'[x].back = IF x = to /\ ~ Leads(old, to)
                                 THEN nodes[x].back \cup {from} ELSE nodes[x].back
             /\ \A y \in Channels : nodes'[x].forward[y] =
                  IF x = from /\ y = c THEN WithEdge(old, edge) ELSE nodes[x].forward[y]
  <2>1. nodes[x] \in NodeState
    BY DEF GoodNodes
  <2>. DEFINE f == [nodes[x].forward EXCEPT
                      ![c] = IF x = from THEN WithEdge(nodes[x].forward[c], edge)
                             ELSE nodes[x].forward[c]]
              b == IF x = to /\ ~ Leads(old, to)
                   THEN nodes[x].back \cup {from} ELSE nodes[x].back
  <2>2. \A y \in Channels : f[y] =
          IF x = from /\ y = c THEN WithEdge(old, edge) ELSE nodes[x].forward[y]
    BY <2>1 DEF NodeState
  <2>. HIDE DEF f, b
  <2>3. nodes'[x] = [[nodes[x] EXCEPT !.forward = f] EXCEPT !.back = b]
    BY <1>2, <2>1 DEF NodeState, f, b
  <2>4. /\ nodes'[x].instance = nodes[x].instance
        /\ nodes'[x].allowsIncoming = nodes[x].allowsIncoming
        /\ nodes'[x].allowsOutgoing = nodes[x].allowsOutgoing
        /\ nodes'[x].back = b /\ nodes'[x].forward = f
    BY <2>1, <2>3 DEF NodeState
  <2>. QED BY <2>2, <2>4 DEF b
<1>4. ASSUME NEW x \in DOMAIN nodes, NEW y \in Channels, NEW m
      PROVE  Leads(nodes'[x].forward[y], m) <=>
               \/ Leads(nodes[x].forward[y], m)
               \/ x = from /\ y = c /\ m = to
  <2>1. CASE x = from /\ y = c
    <3>1. nodes'[x].forward[y] = WithEdge(old, edge)
      BY <1>3, <2>1
    <3>2. Leads(WithEdge(old, edge), m) <=> Leads(old, m) \/ m = to
      BY <1>1, WithEdgeLeads
    <3>. QED BY <2>1, <3>1, <3>2
  <2>2. CASE ~ (x = from /\ y = c)
    <3>1. nodes'[x].forward[y] = nodes[x].forward[y]
      BY <1>3, <2>2
    <3>. QED BY <2>2, <3>1
  <2>. QED BY <2>1, <2>2
<1>5. ASSUME NEW x \in DOMAIN nodes, NEW m
      PROVE  m \in nodes'[x].back <=>
               \/ m \in nodes[x].back
               \/ x = to /\ m = from /\ ~ Leads(old, to)
  BY ZenonT(60), <1>3
<1>. HIDE DEF old
<1>. QED BY ZenonT(60), <1>1, <1>2, <1>3, <1>4, <1>5 DEF old

\* One of the first d calls connects n and m.
Joined(all, d, n, c, m) == \E p \in 1..d : all[p] = Join(n, c, m)

\* What the first d calls have made: one node each, which has the instance
\* it was given and the edges that were asked for.
CreatedBy(all, d) ==
  /\ \A p \in 1..d : all[p].do = "createNode" =>
       LET n == all[p].node
       IN  /\ n \in DOMAIN nodes
           /\ all[p].allows = <<nodes[n].allowsIncoming, nodes[n].allowsOutgoing>>
  /\ \A n \in DOMAIN nodes : \E p \in 1..d : all[p].do = "createNode" /\ all[p].node = n
  /\ \A p, q \in 1..d :
       all[p].do = "createNode" /\ all[q].do = "createNode" /\ all[p].node = all[q].node
         => p = q

PlacedBy(all, d) ==
  \A p \in 1..d : all[p].do = "setNodeInstance" =>
    all[p].node \in DOMAIN nodes /\ nodes[all[p].node].instance = all[p].instance

ConnectedBy(all, d) ==
  /\ \A p \in 1..d : all[p].do = "connect" =>
       all[p].from \in DOMAIN nodes /\ all[p].to \in DOMAIN nodes
  /\ \A n \in DOMAIN nodes :
       /\ \A m : m \in nodes[n].back <=> \E c \in Channels : Joined(all, d, m, c, n)
       /\ \A c \in Channels : \A m :
            Leads(nodes[n].forward[c], m) <=> Joined(all, d, n, c, m)

BuiltSoFar(all, d) ==
  /\ \A p \in 1..d : all[p] # Reject
  /\ CreatedBy(all, d) /\ PlacedBy(all, d) /\ ConnectedBy(all, d)

LEMMA OneMore ==
  ASSUME NEW d \in Nat, NEW p \in 1..d + 1
  PROVE  p \in 1..d \/ p = d + 1
OBVIOUS

LEMMA JoinedOneMore ==
  ASSUME NEW d \in Nat, NEW all, NEW n, NEW c, NEW m
  PROVE  Joined(all, d + 1, n, c, m) <=> Joined(all, d, n, c, m) \/ all[d + 1] = Join(n, c, m)
<1>1. 1..d + 1 = 1..d \cup {d + 1}
  OBVIOUS
<1>. QED BY <1>1 DEF Joined

\* A call that is no connect() leaves the edges as they are.
LEMMA JoinedNoMore ==
  ASSUME NEW d \in Nat, NEW all, all[d + 1].do # "connect"
  PROVE  \A n, c, m : Joined(all, d + 1, n, c, m) <=> Joined(all, d, n, c, m)
<1>1. \A n, c, m : all[d + 1] # Join(n, c, m)
  BY DEF Join
<1>. QED BY <1>1, JoinedOneMore

LEMMA CreateBuilds ==
  ASSUME NEW all, NEW d \in Nat, BuiltSoFar(all, d),
         NEW n \in Nodes, NEW k \in NodeKinds, all[d + 1] = Create(n, k),
         CreateNode(n, k[1], k[2])
  PROVE  BuiltSoFar(all, d + 1)'
<1>1. /\ all[d + 1].do = "createNode" /\ all[d + 1].node = n /\ all[d + 1].allows = k
      /\ all[d + 1] # Reject
  BY BuildCalled
<1>2. /\ n \notin DOMAIN nodes
      /\ DOMAIN nodes' = DOMAIN nodes \cup {n}
      /\ \A x \in DOMAIN nodes : nodes'[x] = nodes[x]
      /\ <<nodes'[n].allowsIncoming, nodes'[n].allowsOutgoing>> = k
      /\ nodes'[n].back = {}
      /\ \A c \in Channels : nodes'[n].forward[c] = <<>>
  BY CreateNodeEffect
<1>3. \A p \in 1..d + 1 : all[p] # Reject
  BY <1>1, OneMore DEF BuiltSoFar
<1>4. CreatedBy(all, d + 1)'
  <2>1. ASSUME NEW p \in 1..d + 1, all[p].do = "createNode"
        PROVE  /\ all[p].node \in DOMAIN nodes'
               /\ all[p].allows = <<nodes'[all[p].node].allowsIncoming, nodes'[all[p].node].allowsOutgoing>>
    BY <1>1, <1>2, <2>1, OneMore DEF BuiltSoFar, CreatedBy
  <2>2. ASSUME NEW x \in DOMAIN nodes'
        PROVE  \E p \in 1..d + 1 : all[p].do = "createNode" /\ all[p].node = x
    <3>1. CASE x = n
      <4>1. d + 1 \in 1..d + 1 OBVIOUS
      <4>. QED BY <1>1, <3>1, <4>1
    <3>2. CASE x # n
      <4>1. PICK p \in 1..d : all[p].do = "createNode" /\ all[p].node = x
        BY <1>2, <3>2 DEF BuiltSoFar, CreatedBy
      <4>2. p \in 1..d + 1 OBVIOUS
      <4>. QED BY <4>1, <4>2
    <3>. QED BY <3>1, <3>2
  <2>3. ASSUME NEW p \in 1..d + 1, NEW q \in 1..d + 1,
               all[p].do = "createNode", all[q].do = "createNode", all[p].node = all[q].node
        PROVE  p = q
    <3>1. \A r \in 1..d : all[r].do = "createNode" => all[r].node # n
      BY <1>2 DEF BuiltSoFar, CreatedBy
    <3>2. CASE p \in 1..d /\ q \in 1..d
      BY <2>3, <3>2 DEF BuiltSoFar, CreatedBy
    <3>3. CASE p = d + 1 /\ q \in 1..d
      BY <1>1, <2>3, <3>1, <3>3
    <3>4. CASE q = d + 1 /\ p \in 1..d
      BY <1>1, <2>3, <3>1, <3>4
    <3>. QED BY <3>2, <3>3, <3>4, OneMore
  <2>. QED BY <2>1, <2>2, <2>3 DEF CreatedBy
<1>5. PlacedBy(all, d + 1)'
  <2>1. ASSUME NEW p \in 1..d + 1, all[p].do = "setNodeInstance"
        PROVE  all[p].node \in DOMAIN nodes' /\ nodes'[all[p].node].instance = all[p].instance
    <3>1. p \in 1..d
      BY <1>1, <2>1, OneMore
    <3>. QED BY <1>2, <2>1, <3>1 DEF BuiltSoFar, PlacedBy
  <2>. QED BY <2>1 DEF PlacedBy
<1>6. ConnectedBy(all, d + 1)'
  <2>1. ASSUME NEW p \in 1..d + 1, all[p].do = "connect"
        PROVE  all[p].from \in DOMAIN nodes' /\ all[p].to \in DOMAIN nodes'
    <3>1. p \in 1..d
      BY <1>1, <2>1, OneMore
    <3>. QED BY <1>2, <2>1, <3>1 DEF BuiltSoFar, ConnectedBy
  <2>2. \A x, c, m : Joined(all, d + 1, x, c, m) <=> Joined(all, d, x, c, m)
    BY <1>1, JoinedNoMore
  <2>3. \A x, c, m : Joined(all, d, x, c, m) => x \in DOMAIN nodes /\ m \in DOMAIN nodes
    <3>1. ASSUME NEW x, NEW c, NEW m, NEW p \in 1..d, all[p] = Join(x, c, m)
          PROVE  x \in DOMAIN nodes /\ m \in DOMAIN nodes
      <4>1. all[p].do = "connect" /\ all[p].from = x /\ all[p].to = m
        BY <3>1 DEF Join
      <4>. QED BY <4>1 DEF BuiltSoFar, ConnectedBy
    <3>. QED BY <3>1 DEF Joined
  <2>4. ASSUME NEW x \in DOMAIN nodes', NEW m
        PROVE  m \in nodes'[x].back <=> \E c \in Channels : Joined(all, d + 1, m, c, x)
    <3>1. CASE x = n BY <1>2, <2>2, <2>3, <3>1
    <3>2. CASE x # n BY <1>2, <2>2, <3>2 DEF BuiltSoFar, ConnectedBy
    <3>. QED BY <3>1, <3>2
  <2>5. ASSUME NEW x \in DOMAIN nodes', NEW c \in Channels, NEW m
        PROVE  Leads(nodes'[x].forward[c], m) <=> Joined(all, d + 1, x, c, m)
    <3>1. CASE x = n
      <4>1. ~ Leads(<<>>, m) BY DEF Leads
      <4>. QED BY <1>2, <2>2, <2>3, <3>1, <4>1
    <3>2. CASE x # n BY <1>2, <2>2, <3>2 DEF BuiltSoFar, ConnectedBy
    <3>. QED BY <3>1, <3>2
  <2>. QED BY <2>1, <2>4, <2>5 DEF ConnectedBy
<1>. QED BY <1>3, <1>4, <1>5, <1>6 DEF BuiltSoFar

\* A node is created once, and placed right after: so it is placed once.
LEMMA PlaceBuilds ==
  ASSUME GoodNodes, NEW text, NEW all, BuildsText(all, text),
         NEW d \in Nat, d + 1 \in 1..Len(all), BuiltSoFar(all, d),
         NEW n \in Nodes, NEW i \in Instances, all[d + 1] = Place(n, i),
         SetNodeInstance(n, i)
  PROVE  BuiltSoFar(all, d + 1)'
<1>1. /\ all[d + 1].do = "setNodeInstance" /\ all[d + 1].node = n /\ all[d + 1].instance = i
      /\ all[d + 1] # Reject
  BY BuildCalled
<1>2. /\ n \in DOMAIN nodes
      /\ DOMAIN nodes' = DOMAIN nodes
      /\ \A x \in DOMAIN nodes :
           /\ nodes'[x].instance = IF x = n THEN i ELSE nodes[x].instance
           /\ nodes'[x].allowsIncoming = nodes[x].allowsIncoming
           /\ nodes'[x].allowsOutgoing = nodes[x].allowsOutgoing
           /\ nodes'[x].back = nodes[x].back
           /\ nodes'[x].forward = nodes[x].forward
  BY SetNodeInstanceEffect
<1>3. \A p \in 1..d + 1 : all[p] # Reject
  BY <1>1, OneMore DEF BuiltSoFar
<1>4. CreatedBy(all, d + 1)'
  <2>0. \A p \in 1..d + 1 : all[p].do = "createNode" => p \in 1..d
    BY <1>1, OneMore
  <2>1. ASSUME NEW p \in 1..d + 1, all[p].do = "createNode"
        PROVE  /\ all[p].node \in DOMAIN nodes'
               /\ all[p].allows = <<nodes'[all[p].node].allowsIncoming, nodes'[all[p].node].allowsOutgoing>>
    BY <1>2, <2>0, <2>1 DEF BuiltSoFar, CreatedBy
  <2>2. ASSUME NEW x \in DOMAIN nodes'
        PROVE  \E p \in 1..d + 1 : all[p].do = "createNode" /\ all[p].node = x
    <3>1. PICK p \in 1..d : all[p].do = "createNode" /\ all[p].node = x
      BY <1>2 DEF BuiltSoFar, CreatedBy
    <3>2. p \in 1..d + 1 OBVIOUS
    <3>. QED BY <3>1, <3>2
  <2>3. \A p, q \in 1..d + 1 :
          all[p].do = "createNode" /\ all[q].do = "createNode" /\ all[p].node = all[q].node
            => p = q
    BY <2>0 DEF BuiltSoFar, CreatedBy
  <2>. QED BY <2>1, <2>2, <2>3 DEF CreatedBy
<1>5. PlacedBy(all, d + 1)'
  <2>1. ASSUME NEW p \in 1..d, all[p].do = "setNodeInstance"
        PROVE  all[p].node # n
    <3>1. p \in 1..Len(all) /\ (d + 1) - 1 = d /\ d + 1 # p - 1 /\ d # p - 1
      <4>1. Len(all) \in Nat BY DEF BuildsText
      <4>. QED BY <4>1
    <3>2. /\ p - 1 \in 1..Len(all)
          /\ all[p - 1].do = "createNode" /\ all[p - 1].node = all[p].node
      BY <2>1, <3>1 DEF BuildsText
    <3>3. /\ d \in 1..Len(all)
          /\ all[d].do = "createNode" /\ all[d].node = n
      BY <1>1, <3>1 DEF BuildsText
    <3>4. p - 1 \in 1..d /\ d \in 1..d
      BY <3>2, <3>3
    <3>. QED BY <3>1, <3>2, <3>3, <3>4 DEF BuiltSoFar, CreatedBy
  <2>2. ASSUME NEW p \in 1..d + 1, all[p].do = "setNodeInstance"
        PROVE  all[p].node \in DOMAIN nodes' /\ nodes'[all[p].node].instance = all[p].instance
    <3>1. CASE p \in 1..d
      BY <1>2, <2>1, <2>2, <3>1 DEF BuiltSoFar, PlacedBy
    <3>2. CASE p = d + 1
      BY <1>1, <1>2, <3>2
    <3>. QED BY <3>1, <3>2, OneMore
  <2>. QED BY <2>2 DEF PlacedBy
<1>6. ConnectedBy(all, d + 1)'
  <2>1. ASSUME NEW p \in 1..d + 1, all[p].do = "connect"
        PROVE  all[p].from \in DOMAIN nodes' /\ all[p].to \in DOMAIN nodes'
    <3>1. p \in 1..d
      BY <1>1, <2>1, OneMore
    <3>. QED BY <1>2, <2>1, <3>1 DEF BuiltSoFar, ConnectedBy
  <2>2. \A x, c, m : Joined(all, d + 1, x, c, m) <=> Joined(all, d, x, c, m)
    BY <1>1, JoinedNoMore
  <2>3. ASSUME NEW x \in DOMAIN nodes', NEW m
        PROVE  m \in nodes'[x].back <=> \E c \in Channels : Joined(all, d + 1, m, c, x)
    BY <1>2, <2>2 DEF BuiltSoFar, ConnectedBy
  <2>4. ASSUME NEW x \in DOMAIN nodes', NEW c \in Channels, NEW m
        PROVE  Leads(nodes'[x].forward[c], m) <=> Joined(all, d + 1, x, c, m)
    BY <1>2, <2>2 DEF BuiltSoFar, ConnectedBy
  <2>. QED BY <2>1, <2>3, <2>4 DEF ConnectedBy
<1>. QED BY <1>3, <1>4, <1>5, <1>6 DEF BuiltSoFar

LEMMA JoinBuilds ==
  ASSUME GoodNodes, NEW all, NEW d \in Nat, BuiltSoFar(all, d),
         NEW n \in Nodes, NEW m \in Nodes, NEW c \in Channels, all[d + 1] = Join(n, c, m),
         Connect(n, c, m, DefaultDelivery)
  PROVE  BuiltSoFar(all, d + 1)'
<1>1. /\ all[d + 1].do = "connect" /\ all[d + 1].from = n /\ all[d + 1].to = m
      /\ all[d + 1] # Reject
  BY BuildCalled
<1>2. /\ n \in DOMAIN nodes /\ m \in DOMAIN nodes
      /\ DOMAIN nodes' = DOMAIN nodes
      /\ \A x \in DOMAIN nodes :
           /\ nodes'[x].instance = nodes[x].instance
           /\ nodes'[x].allowsIncoming = nodes[x].allowsIncoming
           /\ nodes'[x].allowsOutgoing = nodes[x].allowsOutgoing
           /\ \A y : y \in nodes'[x].back <=>
                \/ y \in nodes[x].back
                \/ x = m /\ y = n /\ ~ Leads(nodes[n].forward[c], m)
           /\ \A e \in Channels : \A y : Leads(nodes'[x].forward[e], y) <=>
                \/ Leads(nodes[x].forward[e], y)
                \/ x = n /\ e = c /\ y = m
  <2>1. DefaultDelivery \in Deliveries BY BuilderAssumption
  <2>. QED BY <2>1, ConnectEffect
<1>3. \A p \in 1..d + 1 : all[p] # Reject
  BY <1>1, OneMore DEF BuiltSoFar
<1>4. CreatedBy(all, d + 1)'
  <2>0. \A p \in 1..d + 1 : all[p].do = "createNode" => p \in 1..d
    BY <1>1, OneMore
  <2>1. ASSUME NEW p \in 1..d + 1, all[p].do = "createNode"
        PROVE  /\ all[p].node \in DOMAIN nodes'
               /\ all[p].allows = <<nodes'[all[p].node].allowsIncoming, nodes'[all[p].node].allowsOutgoing>>
    BY <1>2, <2>0, <2>1 DEF BuiltSoFar, CreatedBy
  <2>2. ASSUME NEW x \in DOMAIN nodes'
        PROVE  \E p \in 1..d + 1 : all[p].do = "createNode" /\ all[p].node = x
    <3>1. PICK p \in 1..d : all[p].do = "createNode" /\ all[p].node = x
      BY <1>2 DEF BuiltSoFar, CreatedBy
    <3>2. p \in 1..d + 1 OBVIOUS
    <3>. QED BY <3>1, <3>2
  <2>3. \A p, q \in 1..d + 1 :
          all[p].do = "createNode" /\ all[q].do = "createNode" /\ all[p].node = all[q].node
            => p = q
    BY <2>0 DEF BuiltSoFar, CreatedBy
  <2>. QED BY <2>1, <2>2, <2>3 DEF CreatedBy
<1>5. PlacedBy(all, d + 1)'
  <2>1. ASSUME NEW p \in 1..d + 1, all[p].do = "setNodeInstance"
        PROVE  all[p].node \in DOMAIN nodes' /\ nodes'[all[p].node].instance = all[p].instance
    <3>1. p \in 1..d
      BY <1>1, <2>1, OneMore
    <3>. QED BY <1>2, <2>1, <3>1 DEF BuiltSoFar, PlacedBy
  <2>. QED BY <2>1 DEF PlacedBy
<1>6. ConnectedBy(all, d + 1)'
  <2>1. ASSUME NEW p \in 1..d + 1, all[p].do = "connect"
        PROVE  all[p].from \in DOMAIN nodes' /\ all[p].to \in DOMAIN nodes'
    <3>1. CASE p \in 1..d
      BY <1>2, <2>1, <3>1 DEF BuiltSoFar, ConnectedBy
    <3>2. CASE p = d + 1
      BY <1>1, <1>2, <3>2
    <3>. QED BY <3>1, <3>2, OneMore
  <2>2. ASSUME NEW x, NEW e, NEW y
        PROVE  Joined(all, d + 1, x, e, y) <=>
                 Joined(all, d, x, e, y) \/ (x = n /\ e = c /\ y = m)
    <3>1. all[d + 1] = Join(x, e, y) <=> (x = n /\ e = c /\ y = m)
      BY DEF Join
    <3>. QED BY <3>1, JoinedOneMore
  <2>3. ASSUME NEW x \in DOMAIN nodes', NEW y
        PROVE  y \in nodes'[x].back <=> \E e \in Channels : Joined(all, d + 1, y, e, x)
    <3>1. y \in nodes[x].back <=> \E e \in Channels : Joined(all, d, y, e, x)
      BY <1>2 DEF BuiltSoFar, ConnectedBy
    <3>2. Leads(nodes[n].forward[c], m) => Joined(all, d, n, c, m)
      BY <1>2 DEF BuiltSoFar, ConnectedBy
    <3>3. y \in nodes'[x].back <=>
            \/ y \in nodes[x].back
            \/ x = m /\ y = n /\ ~ Leads(nodes[n].forward[c], m)
      BY <1>2
    <3>4. (\E e \in Channels : Joined(all, d + 1, y, e, x)) <=>
            \/ \E e \in Channels : Joined(all, d, y, e, x)
            \/ y = n /\ x = m
      BY <2>2
    <3>5. Joined(all, d, n, c, m) /\ x = m /\ y = n => \E e \in Channels : Joined(all, d, y, e, x)
      OBVIOUS
    <3>. QED BY <3>1, <3>2, <3>3, <3>4, <3>5
  <2>4. ASSUME NEW x \in DOMAIN nodes', NEW e \in Channels, NEW y
        PROVE  Leads(nodes'[x].forward[e], y) <=> Joined(all, d + 1, x, e, y)
    <3>1. Leads(nodes[x].forward[e], y) <=> Joined(all, d, x, e, y)
      BY <1>2 DEF BuiltSoFar, ConnectedBy
    <3>. QED BY <1>2, <2>2, <3>1
  <2>. QED BY <2>1, <2>3, <2>4 DEF ConnectedBy
<1>. QED BY <1>3, <1>4, <1>5, <1>6 DEF BuiltSoFar

LEMMA ParametriseBuilds ==
  ASSUME NEW all, NEW d \in Nat, BuiltSoFar(all, d),
         all[d + 1].do = "setInitParameters", UNCHANGED nodes
  PROVE  BuiltSoFar(all, d + 1)'
<1>1. \A p \in 1..d + 1 : all[p] # Reject
  BY BuildCalled, OneMore DEF BuiltSoFar
<1>2. \A p \in 1..d + 1 :
        all[p].do \in {"createNode", "setNodeInstance", "connect"} => p \in 1..d
  BY OneMore
<1>3. CreatedBy(all, d + 1)'
  <2>1. \A p \in 1..d + 1 : all[p].do = "createNode" =>
          LET n == all[p].node
          IN  /\ n \in DOMAIN nodes
              /\ all[p].allows = <<nodes[n].allowsIncoming, nodes[n].allowsOutgoing>>
    BY <1>2 DEF BuiltSoFar, CreatedBy
  <2>2. ASSUME NEW x \in DOMAIN nodes
        PROVE  \E p \in 1..d + 1 : all[p].do = "createNode" /\ all[p].node = x
    <3>1. PICK p \in 1..d : all[p].do = "createNode" /\ all[p].node = x
      BY DEF BuiltSoFar, CreatedBy
    <3>2. p \in 1..d + 1 OBVIOUS
    <3>. QED BY <3>1, <3>2
  <2>3. \A p, q \in 1..d + 1 :
          all[p].do = "createNode" /\ all[q].do = "createNode" /\ all[p].node = all[q].node
            => p = q
    BY <1>2 DEF BuiltSoFar, CreatedBy
  <2>. QED BY <2>1, <2>2, <2>3 DEF CreatedBy
<1>4. PlacedBy(all, d + 1)'
  BY <1>2 DEF BuiltSoFar, PlacedBy
<1>5. ConnectedBy(all, d + 1)'
  <2>1. \A x, c, m : Joined(all, d + 1, x, c, m) <=> Joined(all, d, x, c, m)
    BY JoinedNoMore
  <2>. QED BY <1>2, <2>1 DEF BuiltSoFar, ConnectedBy
<1>. QED BY <1>1, <1>3, <1>4, <1>5 DEF BuiltSoFar

-----------------------------------------------------------------------------
(* The calls of an implementation file. *)

LEMMA ImplementCalled ==
  /\ \A i \in Instances :
       Parametrise(i) \in ImplementCall /\ Parametrise(i).do = "setInitParameters"
  /\ \A i \in Instances, t \in Types :
       /\ MakeOf(i, t) \in ImplementCall /\ MakeOf(i, t).do = "setType"
       /\ MakeOf(i, t).instance = i /\ MakeOf(i, t).type = t
  /\ \A i, g \in Instances :
       /\ TakeFrom(i, g) \in ImplementCall /\ TakeFrom(i, g).do = "toGroupInterface"
       /\ TakeFrom(i, g).instance = i /\ TakeFrom(i, g).group = g
  /\ Reject \in ImplementCall /\ Reject.do = "throw"
<1>1. \A i \in Instances :
       Parametrise(i) \in ImplementCall /\ Parametrise(i).do = "setInitParameters"
  BY DEF ImplementCall, Parametrise
<1>2. \A i \in Instances, t \in Types :
       /\ MakeOf(i, t) \in ImplementCall /\ MakeOf(i, t).do = "setType"
       /\ MakeOf(i, t).instance = i /\ MakeOf(i, t).type = t
  BY DEF ImplementCall, MakeOf
<1>3. \A i, g \in Instances :
       /\ TakeFrom(i, g) \in ImplementCall /\ TakeFrom(i, g).do = "toGroupInterface"
       /\ TakeFrom(i, g).instance = i /\ TakeFrom(i, g).group = g
  BY DEF ImplementCall, TakeFrom
<1>4. Reject \in ImplementCall /\ Reject.do = "throw"
  BY DEF ImplementCall, Reject
<1>. QED BY <1>1, <1>2, <1>3, <1>4

\* i is given an implementation, or the text is refused.
Settles(call, i) == call = Reject \/ Implements(call, i)

\* Each user of the group's interfaces asks i for one.
LEMMA UsersCalls ==
  ASSUME NEW i \in Instances, NEW e \in Member
  PROVE  /\ InterfaceCalls(i, e) \in Seq(ImplementCall)
         /\ \A q \in 1..Len(InterfaceCalls(i, e)) :
              \E u \in Instances : InterfaceCalls(i, e)[q] = TakeFrom(u, i)
<1>. DEFINE parts == [k \in DOMAIN NameOrder |->
               IF NameOrder[k] \in e.users THEN <<TakeFrom(NameOrder[k], i)>> ELSE <<>>]
<1>. PICK all : all = FlattenSeq(parts)
  OBVIOUS
<1>1. InterfaceCalls(i, e) = all
  <2>. DEFINE callsOf == [user \in e.users |-> <<TakeFrom(user, i)>>]
  <2>1. \A k \in DOMAIN NameOrder :
          parts[k] = IF NameOrder[k] \in DOMAIN callsOf THEN callsOf[NameOrder[k]] ELSE <<>>
    OBVIOUS
  <2>2. parts = [k \in DOMAIN NameOrder |->
          IF NameOrder[k] \in DOMAIN callsOf THEN callsOf[NameOrder[k]] ELSE <<>>]
    BY <2>1
  <2>. QED BY <2>2 DEF InterfaceCalls, ByName
<1>2. /\ DOMAIN NameOrder = 1..Len(NameOrder) /\ Len(NameOrder) \in Nat
      /\ \A k \in 1..Len(NameOrder) : NameOrder[k] \in Instances
  BY BuilderAssumption
<1>3. ASSUME NEW k \in 1..Len(NameOrder)
      PROVE  /\ parts[k] \in Seq(ImplementCall)
             /\ \A o \in 1..Len(parts[k]) : o = 1 /\ parts[k][o] = TakeFrom(NameOrder[k], i)
  <2>. PICK a : a = TakeFrom(NameOrder[k], i)
    OBVIOUS
  <2>1. a \in ImplementCall
    BY <1>2, ImplementCalled
  <2>2. parts[k] \in {<<a>>, <<>>}
    BY <1>2
  <2>. HIDE DEF parts
  <2>. PICK p : p = parts[k]
    OBVIOUS
  <2>3. CASE p = <<a>> BY <2>1, <2>3
  <2>4. CASE p = <<>> BY <2>4
  <2>. QED BY <2>2, <2>3, <2>4
<1>4. parts \in Seq(Seq(ImplementCall)) /\ Len(parts) = Len(NameOrder)
  <2>1. parts = [k \in 1..Len(NameOrder) |-> parts[k]]
    BY <1>2
  <2>. HIDE DEF parts
  <2>. QED BY <1>2, <1>3, <2>1
<1>. HIDE DEF parts
<1>5. PICK start \in [0..Len(parts) -> Nat] : Chunks(all, parts, start)
  BY <1>4, FlattenChunks
<1>6. ASSUME NEW q \in 1..Len(all)
      PROVE  \E u \in Instances : all[q] = TakeFrom(u, i)
  <2>1. PICK k \in 1..Len(parts) : \E o \in 1..Len(parts[k]) : q = start[k - 1] + o
    BY <1>5 DEF Chunks
  <2>2. PICK o \in 1..Len(parts[k]) : q = start[k - 1] + o
    BY <2>1
  <2>3. all[q] = parts[k][o]
    BY <1>5, <2>2 DEF Chunks
  <2>. QED BY <1>2, <1>3, <1>4, <2>3
<1>7. all \in Seq(ImplementCall)
  BY <1>4, FlattenType
<1>. QED BY <1>1, <1>6, <1>7

\* c is the turn of i, whose member is e; its own implementation comes at m.
TurnAt(c, i, e, m) ==
  /\ c \in Seq(ImplementCall) /\ m \in 1..Len(c)
  /\ Settles(c[m], i)
  /\ \A q \in 1..m - 1 : c[q].do \in Aside
  /\ \A u, g \in Instances : c[m] = TakeFrom(u, g) => u = i /\ g = e.from
  /\ \A q \in m + 1..Len(c) : \E u \in Instances : c[q] = TakeFrom(u, i)

LEMMA TurnIs ==
  ASSUME NEW i \in Instances, NEW e \in Member
  PROVE  \E m \in Nat : TurnAt(InstanceCalls(i, e), i, e, m)
<1>. PICK a, b, c : a = OwnParameters(i, e) /\ b = OwnImplementation(i, e) /\ c = InterfaceCalls(i, e)
  OBVIOUS
<1>1. a \in Seq(ImplementCall) /\ Len(a) \in Nat /\ \A q \in 1..Len(a) : a[q].do \in Aside
  <2>. PICK p, r : p = Parametrise(i) /\ r = Reject
    OBVIOUS
  <2>1. p \in ImplementCall /\ p.do \in Aside /\ r \in ImplementCall /\ r.do \in Aside
    BY ImplementCalled DEF Aside
  <2>2. a \in {<<p>>, <<>>, <<r>>}
    BY DEF OwnParameters
  <2>3. CASE a = <<p>> BY <2>1, <2>3
  <2>4. CASE a = <<r>> BY <2>1, <2>4
  <2>5. CASE a = <<>> BY <2>5
  <2>. QED BY <2>2, <2>3, <2>4, <2>5
<1>2. /\ b \in Seq(ImplementCall) /\ Len(b) = 1
      /\ Settles(b[1], i)
      /\ \A u, g \in Instances : b[1] = TakeFrom(u, g) => u = i /\ g = e.from
  <2>1. \/ e.from \in Types /\ b = <<MakeOf(i, e.from)>>
        \/ e.from \in Instances /\ b = <<TakeFrom(i, e.from)>>
        \/ b = <<Reject>>
    BY DEF OwnImplementation
  <2>. PICK x : x = b[1]
    OBVIOUS
  <2>2. CASE e.from \in Types /\ b = <<MakeOf(i, e.from)>>
    <3>1. x = MakeOf(i, e.from) /\ b = <<x>> BY <2>2
    <3>2. x \in ImplementCall /\ x.do = "setType" /\ x.instance = i
      BY <2>2, <3>1, ImplementCalled
    <3>3. b \in Seq(ImplementCall) /\ Len(b) = 1 BY <3>1, <3>2
    <3>4. \A u, g \in Instances : x # TakeFrom(u, g)
      BY <3>2, ImplementCalled
    <3>. QED BY <3>2, <3>3, <3>4 DEF Settles, Implements
  <2>3. CASE e.from \in Instances /\ b = <<TakeFrom(i, e.from)>>
    <3>1. x = TakeFrom(i, e.from) /\ b = <<x>> BY <2>3
    <3>2. x \in ImplementCall /\ x.do = "toGroupInterface" /\ x.instance = i /\ x.group = e.from
      BY <2>3, <3>1, ImplementCalled
    <3>3. b \in Seq(ImplementCall) /\ Len(b) = 1 BY <3>1, <3>2
    <3>4. \A u, g \in Instances : x = TakeFrom(u, g) => u = i /\ g = e.from
      BY <3>2, ImplementCalled
    <3>. QED BY <3>2, <3>3, <3>4 DEF Settles, Implements
  <2>4. CASE b = <<Reject>>
    <3>1. x = Reject /\ b = <<x>> BY <2>4
    <3>2. x \in ImplementCall /\ x.do = "throw"
      BY <3>1, ImplementCalled
    <3>3. b \in Seq(ImplementCall) /\ Len(b) = 1 BY <3>1, <3>2
    <3>4. \A u, g \in Instances : x # TakeFrom(u, g)
      BY <3>2, ImplementCalled
    <3>. QED BY <3>1, <3>3, <3>4 DEF Settles
  <2>. QED BY <2>1, <2>2, <2>3, <2>4
<1>3. /\ c \in Seq(ImplementCall) /\ Len(c) \in Nat
      /\ \A q \in 1..Len(c) : \E u \in Instances : c[q] = TakeFrom(u, i)
  BY UsersCalls
<1>. PICK ab : ab = Cat(a, b)
  OBVIOUS
<1>. PICK all : all = Cat(ab, c)
  OBVIOUS
<1>4. ab \in Seq(ImplementCall) /\ Places(ab, a, b) /\ Len(ab) = Len(a) + 1
  <2>1. ab \in Seq(ImplementCall) /\ Places(ab, a, b)
    BY <1>1, <1>2, CatType, CatPlaces
  <2>. QED BY <1>2, <2>1 DEF Places
<1>5. all \in Seq(ImplementCall) /\ Places(all, ab, c) /\ Len(all) = Len(ab) + Len(c)
  <2>1. all \in Seq(ImplementCall) /\ Places(all, ab, c)
    BY <1>3, <1>4, CatType, CatPlaces
  <2>. QED BY <2>1 DEF Places
<1>. PICK m : m = Len(a) + 1
  OBVIOUS
<1>6. m \in Nat /\ m \in 1..Len(ab) /\ m \in 1..Len(all)
  BY <1>1, <1>3, <1>4, <1>5
<1>7. all[m] = b[1]
  <2>1. ab[m] = b[1]
    BY <1>2, <1>4 DEF Places
  <2>. QED BY <1>5, <1>6, <2>1 DEF Places
<1>8. ASSUME NEW q \in 1..m - 1 PROVE all[q].do \in Aside
  <2>1. q \in 1..Len(a) /\ q \in 1..Len(ab)
    BY <1>1, <1>4
  <2>2. ab[q] = a[q] /\ all[q] = ab[q]
    BY <1>4, <1>5, <2>1 DEF Places
  <2>. QED BY <1>1, <2>1, <2>2
<1>9. ASSUME NEW q \in m + 1..Len(all) PROVE \E u \in Instances : all[q] = TakeFrom(u, i)
  <2>1. q - Len(ab) \in 1..Len(c) /\ Len(ab) + (q - Len(ab)) = q
    BY <1>1, <1>3, <1>4, <1>5
  <2>2. all[q] = c[q - Len(ab)]
    BY ZenonT(60), <1>5, <2>1 DEF Places
  <2>. QED BY <1>3, <2>1, <2>2
<1>10. InstanceCalls(i, e) = all
  BY DEF InstanceCalls, Cat
<1>11. TurnAt(all, i, e, m)
  BY <1>2, <1>5, <1>6, <1>7, <1>8, <1>9 DEF TurnAt
<1>. QED BY <1>6, <1>10, <1>11

\* The member of i names g, and comes before that of g, or there is none.
NamesLater(text, i, g) ==
  /\ i \in DOMAIN text /\ text[i].from = g
  /\ ~ \E k, l \in DOMAIN NameOrder :
         k < l /\ NameOrder[k] = g /\ NameOrder[l] = i /\ g \in DOMAIN text

\* What the calls of an implementation file are: an interface of a group is
\* asked for after the group's turn, or the order of the names is wrong.
ImplementsText(all, text) ==
  /\ all \in Seq(ImplementCall)
  /\ \A q \in 1..Len(all) : \A i, g \in Instances : all[q] = TakeFrom(i, g) =>
       (\E p \in 1..q - 1 : Settles(all[p], g)) \/ NamesLater(text, i, g)

LEMMA ImplementCallsAre ==
  ASSUME NEW text \in Implementations
  PROVE  ImplementsText(ImplementCalls(text), text)
<1>. DEFINE parts == [k \in DOMAIN NameOrder |->
               IF NameOrder[k] \in DOMAIN text
               THEN InstanceCalls(NameOrder[k], text[NameOrder[k]]) ELSE <<>>]
<1>. PICK all, n : all = FlattenSeq(parts) /\ n = Len(NameOrder)
  OBVIOUS
<1>1. ImplementCalls(text) = all
  <2>. DEFINE callsOf == [i \in DOMAIN text |-> InstanceCalls(i, text[i])]
  <2>1. \A k \in DOMAIN NameOrder :
          parts[k] = IF NameOrder[k] \in DOMAIN callsOf THEN callsOf[NameOrder[k]] ELSE <<>>
    OBVIOUS
  <2>2. parts = [k \in DOMAIN NameOrder |->
          IF NameOrder[k] \in DOMAIN callsOf THEN callsOf[NameOrder[k]] ELSE <<>>]
    BY <2>1
  <2>. QED BY <2>2 DEF ImplementCalls, ByName
<1>2. /\ DOMAIN NameOrder = 1..n /\ n \in Nat
      /\ \A k \in 1..n : NameOrder[k] \in Instances
      /\ \A k, l \in 1..n : NameOrder[k] = NameOrder[l] => k = l
      /\ \A i \in DOMAIN text : text[i] \in Member
  <2>1. \A k, l \in DOMAIN NameOrder : NameOrder[k] = NameOrder[l] => k = l
    BY BuilderAssumption DEF IsInjective
  <2>2. DOMAIN NameOrder = 1..n /\ n \in Nat /\ \A k \in 1..n : NameOrder[k] \in Instances
    BY BuilderAssumption
  <2>3. \A i \in DOMAIN text : text[i] \in Member
    BY BuilderAssumption
  <2>. QED BY <2>1, <2>2, <2>3
<1>3. ASSUME NEW k \in 1..n
      PROVE  \/ parts[k] = <<>> /\ NameOrder[k] \notin DOMAIN text
             \/ /\ NameOrder[k] \in DOMAIN text
                /\ \E m \in Nat : TurnAt(parts[k], NameOrder[k], text[NameOrder[k]], m)
  BY <1>2, TurnIs
<1>4. ASSUME NEW k \in 1..n
      PROVE  parts[k] \in Seq(ImplementCall) /\ Len(parts[k]) \in Nat
  <2>. HIDE DEF parts
  <2>1. CASE parts[k] = <<>>
    BY <2>1
  <2>2. CASE \E m \in Nat : TurnAt(parts[k], NameOrder[k], text[NameOrder[k]], m)
    <3>1. parts[k] \in Seq(ImplementCall) BY <2>2 DEF TurnAt
    <3>. QED BY <3>1
  <2>. QED BY <1>3, <2>1, <2>2
<1>5. parts \in Seq(Seq(ImplementCall)) /\ Len(parts) = n
  <2>1. parts = [k \in 1..n |-> parts[k]]
    BY <1>2
  <2>. HIDE DEF parts
  <2>. QED BY <1>2, <1>4, <2>1
<1>. HIDE DEF parts
<1>6. PICK start \in [0..n -> Nat] : Chunks(all, parts, start)
  BY <1>5, FlattenChunks
<1>0. \A k \in 1..n : start[k - 1] \in Nat /\ start[k] \in Nat
  <2>1. \A k \in 1..n : k - 1 \in 0..n /\ k \in 0..n BY <1>2
  <2>. QED BY <1>6, <2>1
<1>7. all \in Seq(ImplementCall) /\ Len(all) \in Nat
  <2>1. all \in Seq(ImplementCall) BY <1>5, FlattenType
  <2>. QED BY <2>1
<1>8. ASSUME NEW k \in 1..n, NameOrder[k] \in DOMAIN text
      PROVE  \E m \in 1..Len(parts[k]) :
               /\ TurnAt(parts[k], NameOrder[k], text[NameOrder[k]], m)
               /\ start[k - 1] + m >= 1 /\ start[k - 1] + m <= start[k]
               /\ Settles(all[start[k - 1] + m], NameOrder[k])
  <2>1. PICK m \in Nat : TurnAt(parts[k], NameOrder[k], text[NameOrder[k]], m)
    BY <1>3, <1>8
  <2>2. m \in 1..Len(parts[k]) /\ Settles(parts[k][m], NameOrder[k])
    BY <2>1 DEF TurnAt
  <2>3. /\ start[k] = start[k - 1] + Len(parts[k])
        /\ all[start[k - 1] + m] = parts[k][m]
    BY <1>5, <1>6, <2>2 DEF Chunks
  <2>4. start[k - 1] \in Nat /\ Len(parts[k]) \in Nat
    BY <1>0, <1>4
  <2>5. \A a, b, d \in Nat : d = a + b /\ m <= b /\ m >= 1 => a + m >= 1 /\ a + m <= d
    OBVIOUS
  <2>6. start[k] \in Nat /\ m <= Len(parts[k]) /\ m >= 1
    BY <1>2, <1>6, <2>2, <2>4
  <2>. QED BY <2>1, <2>2, <2>3, <2>4, <2>5, <2>6
<1>9. ASSUME NEW q \in 1..Len(all), NEW i \in Instances, NEW g \in Instances,
             all[q] = TakeFrom(i, g), ~ NamesLater(text, i, g)
      PROVE  \E p \in 1..q - 1 : Settles(all[p], g)
  <2>1. PICK k \in 1..n : \E o \in 1..Len(parts[k]) : q = start[k - 1] + o
    BY ZenonT(60), <1>5, <1>6 DEF Chunks
  <2>2. PICK o \in 1..Len(parts[k]) : q = start[k - 1] + o
    BY <2>1
  <2>3. all[q] = parts[k][o] /\ start[k - 1] \in Nat /\ o >= 1 /\ o \in Nat
    <3>1. all[q] = parts[k][o] BY <1>5, <1>6, <2>2 DEF Chunks
    <3>2. start[k - 1] \in Nat /\ Len(parts[k]) \in Nat BY <1>0, <1>4, <1>5
    <3>. QED BY <3>1, <3>2
  <2>. PICK j : j = NameOrder[k]
    OBVIOUS
  <2>4. j \in DOMAIN text
    <3>1. CASE parts[k] = <<>> BY <3>1
    <3>. QED BY <1>3, <3>1
  <2>5. PICK m \in 1..Len(parts[k]) :
          /\ TurnAt(parts[k], j, text[j], m)
          /\ start[k - 1] + m >= 1 /\ start[k - 1] + m <= start[k]
          /\ Settles(all[start[k - 1] + m], j)
    BY <1>8, <2>4
  <2>6. m \in Nat BY <2>5
  <2>7. CASE o < m
    <3>1. o \in 1..m - 1 BY <2>3, <2>6, <2>7
    <3>2. parts[k][o].do \in Aside BY <2>5, <3>1 DEF TurnAt
    <3>3. TakeFrom(i, g).do = "toGroupInterface" BY ImplementCalled
    <3>4. parts[k][o] = TakeFrom(i, g) BY <1>9, <2>3
    <3>. QED BY <3>2, <3>3, <3>4 DEF Aside
  <2>8. CASE o = m
    <3>1. i = j /\ g = text[j].from
      BY <1>9, <2>3, <2>5, <2>8 DEF TurnAt
    <3>2. PICK a, b \in 1..n :
            a < b /\ NameOrder[a] = g /\ NameOrder[b] = i /\ g \in DOMAIN text
      BY <1>2, <1>9, <2>4, <3>1 DEF NamesLater
    <3>3. b = k /\ a <= k - 1 /\ k - 1 \in 0..n /\ a \in 0..n
      BY SMTT(60), <1>2, <3>1, <3>2
    <3>4. PICK r \in 1..Len(parts[a]) :
            /\ start[a - 1] + r >= 1 /\ start[a - 1] + r <= start[a]
            /\ Settles(all[start[a - 1] + r], g)
      BY <1>8, <3>2
    <3>5. start[a] <= start[k - 1]
      BY <1>5, <1>6, <3>3 DEF Chunks
    <3>6. start[a] \in Nat /\ start[a - 1] + r \in Nat
      <4>1. r \in Nat BY <1>4, <3>4
      <4>2. start[a] \in Nat BY <1>0
      <4>3. start[a - 1] \in Nat BY <1>0
      <4>. QED BY SMTT(60), <4>1, <4>2, <4>3
    <3>7. \A x, y, z \in Nat : x <= y /\ y <= z => x <= z + o - 1
      BY <2>3
    <3>8. start[a - 1] + r <= q - 1
      BY SMTT(60), <2>2, <2>3, <3>4, <3>5, <3>6, <3>7
    <3>9. start[a - 1] + r \in 1..q - 1
      BY <3>4, <3>6, <3>8
    <3>. QED BY <3>4, <3>9
  <2>9. CASE o > m
    <3>1. PICK u \in Instances : parts[k][o] = TakeFrom(u, j)
      <4>1. o \in m + 1..Len(parts[k]) BY <2>6, <2>9
      <4>. QED BY <2>5, <4>1 DEF TurnAt
    <3>2. g = j
      <4>1. TakeFrom(i, g).group = TakeFrom(u, j).group BY <1>9, <2>3, <3>1
      <4>. QED BY <4>1 DEF TakeFrom
    <3>3. start[k - 1] + m \in 1..q - 1
      BY SMTT(60), <2>2, <2>3, <2>5, <2>6, <2>9
    <3>. QED BY <2>5, <3>2, <3>3
  <2>. QED BY <2>3, <2>6, <2>7, <2>8, <2>9
<1>10. ImplementsText(all, text)
  BY <1>7, <1>9 DEF ImplementsText
<1>. QED BY <1>1, <1>10

-----------------------------------------------------------------------------
(* The instances as far as the implementation file has been read. *)

\* The call at p is the last of the first d to implement i.
LastFor(all, d, p, i) ==
  /\ p \in 1..d /\ Implements(all[p], i)
  /\ \A l \in p + 1..d : ~ Implements(all[l], i)

\* What the first d calls have implemented.
ImplementedSoFar(all, d) ==
  /\ \A p \in 1..d : all[p] # Reject
  /\ \A p \in 1..d, i \in Instances : Implements(all[p], i) =>
       i \in DOMAIN instances /\ instances[i].impl # None
  /\ \A p \in 1..d, i \in Instances : LastFor(all, d, p, i) =>
       \/ /\ all[p].do = "setType" /\ instances[i].impl.kind = all[p].type
          /\ Fits(i, all[p].type)
       \/ all[p].do = "toGroupInterface" /\ instances[i].impl.kind = Interface

\* No call but i's touches the implementation of i; nodes stay.
Keeps(i) ==
  i \in DOMAIN instances /\ instances[i].impl # None =>
    /\ i \in DOMAIN instances' /\ instances'[i].impl # None
    /\ instances'[i].impl.kind = instances[i].impl.kind

LEMMA FitsStays ==
  ASSUME NEW i, NEW k, UNCHANGED nodes
  PROVE  Fits(i, k)' <=> Fits(i, k)
BY DEF Fits

\* A call that implements nothing leaves all as it is.
LEMMA OtherCallImplements ==
  ASSUME NEW all, NEW d \in Nat, ImplementedSoFar(all, d),
         all[d + 1] # Reject, \A i \in Instances : ~ Implements(all[d + 1], i),
         UNCHANGED nodes, \A i \in Instances : Keeps(i)
  PROVE  ImplementedSoFar(all, d + 1)'
<1>1. \A p \in 1..d + 1 : all[p] # Reject
  BY OneMore DEF ImplementedSoFar
<1>2. \A p \in 1..d + 1, i \in Instances : Implements(all[p], i) => p \in 1..d
  BY OneMore
<1>3. \A p \in 1..d + 1, i \in Instances : Implements(all[p], i) =>
        i \in DOMAIN instances' /\ instances'[i].impl # None
  BY <1>2 DEF ImplementedSoFar, Keeps
<1>4. ASSUME NEW p \in 1..d + 1, NEW i \in Instances, LastFor(all, d + 1, p, i)
      PROVE  \/ /\ all[p].do = "setType" /\ instances'[i].impl.kind = all[p].type
                /\ Fits(i, all[p].type)'
             \/ all[p].do = "toGroupInterface" /\ instances'[i].impl.kind = Interface
  <2>1. p \in 1..d /\ Implements(all[p], i)
    BY <1>2, <1>4 DEF LastFor
  <2>2. LastFor(all, d, p, i)
    <3>1. \A l \in p + 1..d : l \in p + 1..d + 1 BY <2>1
    <3>. QED BY <1>4, <2>1, <3>1 DEF LastFor
  <2>3. instances'[i].impl.kind = instances[i].impl.kind
    BY <2>1 DEF ImplementedSoFar, Keeps
  <2>4. \/ /\ all[p].do = "setType" /\ instances[i].impl.kind = all[p].type
           /\ Fits(i, all[p].type)
        \/ all[p].do = "toGroupInterface" /\ instances[i].impl.kind = Interface
    BY <2>1, <2>2 DEF ImplementedSoFar
  <2>. QED BY <2>3, <2>4, FitsStays
<1>. QED BY <1>1, <1>3, <1>4 DEF ImplementedSoFar

\* A call that implements j.
LEMMA CallImplements ==
  ASSUME NEW all, NEW d \in Nat, ImplementedSoFar(all, d), NEW j \in Instances,
         all[d + 1] # Reject, Implements(all[d + 1], j),
         UNCHANGED nodes, \A i \in Instances \ {j} : Keeps(i),
         j \in DOMAIN instances', instances'[j].impl # None,
         \/ /\ all[d + 1].do = "setType" /\ instances'[j].impl.kind = all[d + 1].type
            /\ Fits(j, all[d + 1].type)
         \/ all[d + 1].do = "toGroupInterface" /\ instances'[j].impl.kind = Interface
  PROVE  ImplementedSoFar(all, d + 1)'
<1>1. \A p \in 1..d + 1 : all[p] # Reject
  BY OneMore DEF ImplementedSoFar
<1>2. \A i \in Instances : Implements(all[d + 1], i) => i = j
  BY DEF Implements
<1>3. \A p \in 1..d + 1, i \in Instances : Implements(all[p], i) => p \in 1..d \/ i = j
  BY <1>2, OneMore
<1>4. \A p \in 1..d + 1, i \in Instances : Implements(all[p], i) =>
        i \in DOMAIN instances' /\ instances'[i].impl # None
  BY <1>3 DEF ImplementedSoFar, Keeps
<1>5. ASSUME NEW p \in 1..d + 1, NEW i \in Instances, LastFor(all, d + 1, p, i)
      PROVE  \/ /\ all[p].do = "setType" /\ instances'[i].impl.kind = all[p].type
                /\ Fits(i, all[p].type)'
             \/ all[p].do = "toGroupInterface" /\ instances'[i].impl.kind = Interface
  <2>1. CASE i = j
    <3>1. p = d + 1
      <4>1. p \in 1..d => d + 1 \in p + 1..d + 1 OBVIOUS
      <4>. QED BY <1>5, <2>1, <4>1, OneMore DEF LastFor
    <3>. QED BY <2>1, <3>1, FitsStays
  <2>2. CASE i # j
    <3>1. p \in 1..d /\ Implements(all[p], i)
      BY <1>3, <1>5, <2>2 DEF LastFor
    <3>2. LastFor(all, d, p, i)
      <4>1. \A l \in p + 1..d : l \in p + 1..d + 1 BY <3>1
      <4>. QED BY <1>5, <3>1, <4>1 DEF LastFor
    <3>3. instances'[i].impl.kind = instances[i].impl.kind
      BY <2>2, <3>1 DEF ImplementedSoFar, Keeps
    <3>4. \/ /\ all[p].do = "setType" /\ instances[i].impl.kind = all[p].type
             /\ Fits(i, all[p].type)
          \/ all[p].do = "toGroupInterface" /\ instances[i].impl.kind = Interface
      BY <3>1, <3>2 DEF ImplementedSoFar
    <3>. QED BY <3>3, <3>4, FitsStays
  <2>. QED BY <2>1, <2>2
<1>. QED BY <1>1, <1>4, <1>5 DEF ImplementedSoFar

-----------------------------------------------------------------------------
(* What the setup calls do to the instances. *)

LEMMA SetInitParametersEffect ==
  ASSUME NEW j \in Instances, SetInitParameters(j)
  PROVE  UNCHANGED nodes /\ \A i \in Instances : Keeps(i)
BY DEF SetInitParameters, SetInstance, InstanceOrNew, Put, Keeps

\* The type is set, if the call comes back.
LEMMA SetTypeEffect ==
  ASSUME GoodInstances, NEW j \in Instances, NEW t \in Types, SetType(j, t),
         instances'[j].type = t
  PROVE  /\ UNCHANGED nodes /\ \A i \in Instances \ {j} : Keeps(i)
         /\ j \in DOMAIN instances' /\ instances'[j].impl # None
         /\ instances'[j].impl.kind = t
<1>. PICK inst : inst = InstanceOrNew(j)
  OBVIOUS
<1>. PICK made : made = Made(t, inst.pusher)
  OBVIOUS
<1>1. inst \in Instance /\ inst.type # t
  BY GoodInstanceOrNew DEF SetType, GoodInstance
<1>2. made \in Implementation /\ made.kind = t /\ made # None
  <2>1. [kind |-> t, context |-> None, pusher |-> None] \in Implementation
    BY DEF Implementation, Kinds
  <2>2. inst.pusher \in Nodes \cup {None}
    BY <1>1 DEF Instance
  <2>. QED BY <2>1, <2>2, WithPusherType, NamesAssumption DEF Made
<1>3. PICK new : /\ new \in {[inst EXCEPT !.type = t, !.impl = made],
                           [inst EXCEPT !.impl = None], [inst EXCEPT !.impl = made]}
                 /\ SetInstance(j, new)
  BY DEF SetType
<1>4. instances' = Put(instances, j, new) /\ UNCHANGED nodes
  BY <1>3 DEF SetInstance
<1>5. j \in DOMAIN instances' /\ instances'[j] = new
  BY <1>4 DEF Put
<1>6. new = [inst EXCEPT !.type = t, !.impl = made]
  BY <1>1, <1>3, <1>5 DEF Instance
<1>7. new.impl = made
  BY <1>1, <1>6 DEF Instance
<1>8. \A i \in Instances \ {j} : Keeps(i)
  BY <1>4 DEF Keeps, Put
<1>. QED BY <1>2, <1>4, <1>5, <1>7, <1>8

LEMMA ToGroupInterfaceEffect ==
  ASSUME GoodInstances, NEW j \in Instances, NEW g \in Instances,
         SetImplementationToGroupInterface(j, g)
  PROVE  /\ UNCHANGED nodes /\ \A i \in Instances \ {j} : Keeps(i)
         /\ j \in DOMAIN instances' /\ instances'[j].impl # None
         /\ instances'[j].impl.kind = Interface
<1>. PICK inst : inst = InstanceOrNew(j)
  OBVIOUS
<1>1. inst \in Instance
  BY GoodInstanceOrNew DEF GoodInstance
<1>2. \E impl \in Implementation : impl.kind = Interface /\ SetInstance(j, [inst EXCEPT !.impl = impl])
  <2>1. CASE Implement(j, Interface)
    <3>. PICK given : given = [kind |-> Interface, context |-> inst.context, pusher |-> None]
      OBVIOUS
    <3>1. given \in Implementation /\ given.kind = Interface
      BY <1>1 DEF Implementation, Kinds, Instance
    <3>2. inst.pusher \in Nodes \cup {None}
      BY <1>1 DEF Instance
    <3>3. SetInstance(j, [inst EXCEPT !.impl = WithPusher(given, inst.pusher)])
      BY <2>1 DEF Implement
    <3>. QED BY <3>1, <3>2, <3>3, WithPusherType
  <2>2. CASE SetInstance(j, [InstanceOrNew(j) EXCEPT !.impl =
               [kind |-> Interface, context |-> None, pusher |-> None]])
    <3>1. [kind |-> Interface, context |-> None, pusher |-> None] \in Implementation
      BY DEF Implementation, Kinds
    <3>. QED BY <2>2, <3>1
  <2>. QED BY <2>1, <2>2 DEF SetImplementationToGroupInterface
<1>3. PICK impl \in Implementation :
        impl.kind = Interface /\ SetInstance(j, [inst EXCEPT !.impl = impl])
  BY <1>2
<1>4. instances' = Put(instances, j, [inst EXCEPT !.impl = impl]) /\ UNCHANGED nodes
  BY <1>3 DEF SetInstance
<1>5. j \in DOMAIN instances' /\ instances'[j].impl = impl
  BY <1>1, <1>4 DEF Put, Instance
<1>6. \A i \in Instances \ {j} : Keeps(i)
  BY <1>4 DEF Keeps, Put
<1>. QED BY <1>3, <1>4, <1>5, <1>6, NamesAssumption

LEMMA StartNodeKeeps ==
  ASSUME GoodInstances, NEW n \in Nodes, StartNode(n)
  PROVE  UNCHANGED nodes /\ \A i \in Instances : Keeps(i)
<1>1. UNCHANGED nodes BY DEF StartNode
<1>2. /\ DOMAIN instances' = DOMAIN instances
      /\ \A i \in DOMAIN instances : i # nodes[n].instance => instances'[i] = instances[i]
      /\ instances'[nodes[n].instance].impl # None
      /\ instances'[nodes[n].instance].impl.kind = instances[nodes[n].instance].impl.kind
  BY StartNodeInstances
<1>. QED BY <1>1, <1>2 DEF Keeps

-----------------------------------------------------------------------------
(* The whole architecture file has been read. *)

\* The call of an edge that was not refused.
LEMMA EdgeJoins ==
  ASSUME NEW text \in Architectures, NEW e \in ToSet(text.edges), EdgeCall(e) # Reject
  PROVE  e.channel \in Channels /\ EdgeCall(e) = Join(e.from, e.channel, e.to)
<1>1. e \in EdgeEntry
  <2>1. text.edges \in Seq(EdgeEntry) BY BuilderAssumption
  <2>. QED BY <2>1 DEF ToSet
<1>. QED BY <1>1 DEF EdgeCall, EdgeEntry

LEMMA JoinedAsWritten ==
  ASSUME NEW text \in Architectures, NEW all, BuildsText(all, text),
         \A p \in 1..Len(all) : all[p] # Reject, NEW n, NEW c \in Channels, NEW m
  PROVE  Joined(all, Len(all), n, c, m) <=>
           \E e \in ToSet(text.edges) : e.from = n /\ e.channel = c /\ e.to = m
<1>1. ASSUME Joined(all, Len(all), n, c, m)
      PROVE  \E e \in ToSet(text.edges) : e.from = n /\ e.channel = c /\ e.to = m
  <2>1. PICK p \in 1..Len(all) : all[p] = Join(n, c, m)
    BY <1>1 DEF Joined
  <2>2. all[p].do = "connect"
    BY <2>1 DEF Join
  <2>3. PICK e \in ToSet(text.edges) : all[p] = EdgeCall(e) /\ e.channel # None
    BY <2>2 DEF BuildsText
  <2>4. Join(n, c, m) = Join(e.from, e.channel, e.to)
    BY <2>1, <2>3, EdgeJoins
  <2>5. n = e.from /\ c = e.channel /\ m = e.to
    BY <2>4 DEF Join
  <2>. QED BY <2>5
<1>2. ASSUME NEW e \in ToSet(text.edges), e.from = n, e.channel = c, e.to = m
      PROVE  Joined(all, Len(all), n, c, m)
  <2>1. PICK p \in 1..Len(all) : all[p] = EdgeCall(e)
    BY DEF BuildsText
  <2>2. all[p] = Join(n, c, m)
    BY <1>2, <2>1, EdgeJoins
  <2>. QED BY <2>2 DEF Joined
<1>. QED BY <1>1, <1>2

\* As many edges as targets: no two lead to the same.
LEMMA EdgesCounted ==
  ASSUME NEW edges \in Edges
  PROVE  Len(edges) = Cardinality({x.next : x \in ToSet(edges)})
<1>1. /\ DOMAIN edges = 1..Len(edges) /\ Len(edges) \in Nat
      /\ \A j, k \in 1..Len(edges) : edges[j].next = edges[k].next => j = k
  BY DEF Edges
<1>. PICK f : f = [k \in 1..Len(edges) |-> edges[k].next]
  OBVIOUS
<1>. PICK T : T = {x.next : x \in ToSet(edges)}
  OBVIOUS
<1>2. \A m : m \in T <=> \E k \in 1..Len(edges) : edges[k].next = m
  BY <1>1 DEF ToSet
<1>3. f \in Bijection(1..Len(edges), T)
  <2>1. f \in [1..Len(edges) -> T]
    BY <1>2
  <2>2. f \in Injection(1..Len(edges), T)
    BY <1>1, <2>1 DEF Injection, IsInjective
  <2>3. f \in Surjection(1..Len(edges), T)
    BY <1>2, <2>1 DEF Surjection
  <2>. QED BY <2>2, <2>3 DEF Bijection
<1>4. Cardinality(T) = Len(edges)
  BY <1>1, <1>3, FS_CountingElements DEF ExistsBijection
<1>. QED BY <1>4

LEMMA BuiltIsWritten ==
  ASSUME GoodNodes, dot \in Architectures, NEW all, BuildsText(all, dot),
         BuiltSoFar(all, Len(all))
  PROVE  GraphAsWritten
<1>. PICK W, E : W = ToSet(dot.subgraphs \o dot.nodes) /\ E = ToSet(dot.edges)
  OBVIOUS
<1>1. \A p \in 1..Len(all) : all[p] # Reject
  BY DEF BuiltSoFar
<1>2. ASSUME NEW e \in W
      PROVE  /\ e.name \in DOMAIN nodes
             /\ nodes[e.name].instance = e.instance
             /\ e.allows = <<nodes[e.name].allowsIncoming, nodes[e.name].allowsOutgoing>>
  <2>1. PICK q \in 1..Len(all) :
          /\ q + 1 \in 1..Len(all)
          /\ all[q] = Create(e.name, e.allows)
          /\ all[q + 1] = Place(e.name, e.instance)
    BY <1>1 DEF BuildsText
  <2>2. /\ all[q].do = "createNode" /\ all[q].node = e.name /\ all[q].allows = e.allows
        /\ all[q + 1].do = "setNodeInstance" /\ all[q + 1].node = e.name
        /\ all[q + 1].instance = e.instance
    BY <2>1 DEF Create, Place
  <2>3. /\ e.name \in DOMAIN nodes
        /\ e.allows = <<nodes[e.name].allowsIncoming, nodes[e.name].allowsOutgoing>>
    BY <2>2 DEF BuiltSoFar, CreatedBy
  <2>4. nodes[e.name].instance = e.instance
    BY <2>1, <2>2 DEF BuiltSoFar, PlacedBy
  <2>. QED BY <2>3, <2>4
<1>3. ASSUME NEW n \in DOMAIN nodes
      PROVE  \E e \in W : n = e.name
  <2>1. PICK p \in 1..Len(all) : all[p].do = "createNode" /\ all[p].node = n
    BY DEF BuiltSoFar, CreatedBy
  <2>. QED BY <2>1 DEF BuildsText
<1>4. ASSUME NEW n \in DOMAIN nodes
      PROVE  nodes[n].back = {e.from : e \in {x \in E : x.to = n}}
  <2>1. ASSUME NEW m
        PROVE  m \in nodes[n].back <=> \E e \in E : e.from = m /\ e.to = n
    <3>1. m \in nodes[n].back <=> \E c \in Channels : Joined(all, Len(all), m, c, n)
      BY DEF BuiltSoFar, ConnectedBy
    <3>2. \A c \in Channels : Joined(all, Len(all), m, c, n) <=>
            \E e \in E : e.from = m /\ e.channel = c /\ e.to = n
      BY <1>1, JoinedAsWritten
    <3>3. \A e \in E : e.channel \in Channels
      <4>1. \A e \in E : EdgeCall(e) # Reject
        BY <1>1 DEF BuildsText
      <4>. QED BY <4>1, EdgeJoins
    <3>. QED BY <3>1, <3>2, <3>3
  <2>2. nodes[n].back \subseteq Nodes
    BY DEF GoodNodes, NodeState
  <2>. QED BY <2>1, <2>2
<1>5. ASSUME NEW n \in DOMAIN nodes, NEW c \in Channels
      PROVE  LET targets == {e.to : e \in {x \in E : x.from = n /\ x.channel = c}}
             IN  /\ {x.next : x \in ToSet(nodes[n].forward[c])} = targets
                 /\ Len(nodes[n].forward[c]) = Cardinality(targets)
  <2>. PICK f : f = nodes[n].forward[c]
    OBVIOUS
  <2>1. f \in Edges
    BY DEF GoodNodes
  <2>2. ASSUME NEW m
        PROVE  Leads(f, m) <=> \E e \in E : e.from = n /\ e.channel = c /\ e.to = m
    <3>1. Leads(f, m) <=> Joined(all, Len(all), n, c, m)
      BY DEF BuiltSoFar, ConnectedBy
    <3>. QED BY <1>1, <3>1, JoinedAsWritten
  <2>3. \A m : m \in {x.next : x \in ToSet(f)} <=> Leads(f, m)
    BY DEF Leads, ToSet
  <2>4. {x.next : x \in ToSet(f)} = {e.to : e \in {x \in E : x.from = n /\ x.channel = c}}
    BY <2>2, <2>3
  <2>. QED BY <2>1, <2>4, EdgesCounted
<1>6. DOMAIN nodes = {e.name : e \in W}
  BY <1>2, <1>3
<1>. QED BY <1>2, <1>4, <1>5, <1>6 DEF GraphAsWritten

-----------------------------------------------------------------------------
(* What holds while the files are read, and after. *)

BuildingInv ==
  stage = "building" =>
    Reads(BuildCalls(dot)) /\ BuiltSoFar(BuildCalls(dot), Done(BuildCalls(dot)))

WrittenInv == stage \notin {"building", "no graph"} => GraphAsWritten

ImplementingInv ==
  /\ stage \in {"implementing", "implemented"} => json \in Implementations
  /\ stage = "implementing" =>
       /\ Reads(ImplementCalls(json))
       /\ ImplementedSoFar(ImplementCalls(json), Done(ImplementCalls(json)))
  /\ stage = "implemented" =>
       ImplementedSoFar(ImplementCalls(json), Len(ImplementCalls(json)))

CrashInv == stage = "crashed" => ~ GroupsComeFirst

\* A pusher is a node of the instance; nothing is started while it is built.
PushersKnown ==
  \A i \in DOMAIN instances : instances[i].pusher # None =>
    /\ stage # "building"
    /\ instances[i].pusher \in DOMAIN nodes
    /\ nodes[instances[i].pusher].instance = i

FilesInv ==
  /\ dot \in Architectures
  /\ stage \in {"building", "no graph", "built", "implementing", "implemented",
                "half done", "crashed"}
  /\ BuildingInv /\ WrittenInv /\ ImplementingInv /\ CrashInv /\ PushersKnown

LEMMA CallKinds ==
  /\ \A call \in BuildCall : call.do \in
       {"createNode", "setNodeInstance", "setInitParameters", "connect", "throw"}
  /\ \A call \in ImplementCall : call.do \in
       {"setInitParameters", "setType", "toGroupInterface", "throw"}
<1>1. \A call \in BuildCall : call.do \in
       {"createNode", "setNodeInstance", "setInitParameters", "connect", "throw"}
  BY DEF BuildCall, Create, Place, Parametrise, Join, Reject
<1>2. \A call \in ImplementCall : call.do \in
       {"setInitParameters", "setType", "toGroupInterface", "throw"}
  BY DEF ImplementCall, MakeOf, TakeFrom, Parametrise, Reject
<1>. QED BY <1>1, <1>2

\* The call that is next, of either file.
LEMMA NextBuildCall ==
  ASSUME FilesInv, stage = "building", calls # <<>>, NEW all, all = BuildCalls(dot)
  PROVE  /\ BuildsText(all, dot) /\ Reads(all) /\ BuiltSoFar(all, Done(all))
         /\ Done(all) \in Nat /\ Done(all) + 1 \in 1..Len(all)
         /\ Head(calls) = all[Done(all) + 1] /\ Head(calls) \in BuildCall
<1>1. BuildsText(all, dot) /\ Reads(all) /\ BuiltSoFar(all, Done(all))
  BY BuildCallsAre DEF FilesInv, BuildingInv
<1>2. /\ Done(all) \in Nat /\ Done(all) + 1 \in 1..Len(all)
      /\ Head(calls) = all[Done(all) + 1]
  BY <1>1, ReadsHead
<1>3. all \in Seq(BuildCall)
  BY <1>1 DEF BuildsText
<1>. QED BY <1>1, <1>2, <1>3

LEMMA NextImplementCall ==
  ASSUME FilesInv, stage = "implementing", calls # <<>>, NEW all, all = ImplementCalls(json)
  PROVE  /\ ImplementsText(all, json) /\ Reads(all) /\ ImplementedSoFar(all, Done(all))
         /\ Done(all) \in Nat /\ Done(all) + 1 \in 1..Len(all)
         /\ Head(calls) = all[Done(all) + 1] /\ Head(calls) \in ImplementCall
<1>1. ImplementsText(all, json) /\ Reads(all) /\ ImplementedSoFar(all, Done(all))
  BY ImplementCallsAre DEF FilesInv, ImplementingInv
<1>2. /\ Done(all) \in Nat /\ Done(all) + 1 \in 1..Len(all)
      /\ Head(calls) = all[Done(all) + 1]
  BY <1>1, ReadsHead
<1>3. all \in Seq(ImplementCall)
  BY <1>1 DEF ImplementsText
<1>. QED BY <1>1, <1>2, <1>3

LEMMA WrittenStays ==
  ASSUME GraphAsWritten, UNCHANGED <<nodes, dot>>
  PROVE  GraphAsWritten'
BY DEF GraphAsWritten

LEMMA ImplementedStays ==
  ASSUME NEW all, NEW d \in Nat, ImplementedSoFar(all, d),
         UNCHANGED nodes, \A i \in Instances : Keeps(i)
  PROVE  ImplementedSoFar(all, d)'
<1>1. \A p \in 1..d, i \in Instances : Implements(all[p], i) =>
        /\ i \in DOMAIN instances' /\ instances'[i].impl # None
        /\ instances'[i].impl.kind = instances[i].impl.kind
  BY DEF ImplementedSoFar, Keeps
<1>2. ASSUME NEW p \in 1..d, NEW i \in Instances, LastFor(all, d, p, i)
      PROVE  \/ /\ all[p].do = "setType" /\ instances'[i].impl.kind = all[p].type
                /\ Fits(i, all[p].type)'
             \/ all[p].do = "toGroupInterface" /\ instances'[i].impl.kind = Interface
  <2>1. instances'[i].impl.kind = instances[i].impl.kind
    BY <1>1, <1>2 DEF LastFor
  <2>2. \/ /\ all[p].do = "setType" /\ instances[i].impl.kind = all[p].type
           /\ Fits(i, all[p].type)
        \/ all[p].do = "toGroupInterface" /\ instances[i].impl.kind = Interface
    BY <1>2 DEF ImplementedSoFar
  <2>. QED BY <2>1, <2>2, FitsStays
<1>3. \A p \in 1..d : all[p] # Reject
  BY DEF ImplementedSoFar
<1>. QED BY <1>1, <1>2, <1>3 DEF ImplementedSoFar

\* A setup call keeps the pusher of an instance; a new one has none.
KeepsPushers ==
  \A i \in DOMAIN instances' :
    \/ i \in DOMAIN instances /\ instances'[i].pusher = instances[i].pusher
    \/ instances'[i].pusher = None

LEMMA PushersStay ==
  ASSUME PushersKnown, KeepsPushers, UNCHANGED nodes,
         stage' = "building" => stage = "building"
  PROVE  PushersKnown'
BY DEF PushersKnown, KeepsPushers

\* Nothing has a pusher while the graph is built.
LEMMA PushersStayNone ==
  ASSUME PushersKnown, stage = "building", UNCHANGED instances
  PROVE  PushersKnown'
BY DEF PushersKnown

LEMMA SetupKeepsPushers ==
  /\ \A j \in Instances : SetInitParameters(j) => KeepsPushers
  /\ GoodInstances => \A j \in Instances, t \in Types : SetType(j, t) => KeepsPushers
  /\ GoodInstances => \A j, g \in Instances :
       SetImplementationToGroupInterface(j, g) => KeepsPushers
<1>1. ASSUME NEW j \in Instances, NEW inst, SetInstance(j, inst),
             inst.pusher = InstanceOrNew(j).pusher
      PROVE  KeepsPushers
  <2>1. instances' = Put(instances, j, inst) BY <1>1 DEF SetInstance
  <2>2. /\ DOMAIN instances' = DOMAIN instances \cup {j}
        /\ instances'[j] = inst
        /\ \A i \in DOMAIN instances : i # j => instances'[i] = instances[i]
    BY <2>1 DEF Put
  <2>3. j \notin DOMAIN instances => inst.pusher = None
    BY <1>1 DEF InstanceOrNew, NewInstance
  <2>4. j \in DOMAIN instances => inst.pusher = instances[j].pusher
    BY <1>1 DEF InstanceOrNew
  <2>. QED BY <2>2, <2>3, <2>4 DEF KeepsPushers
<1>2. ASSUME NEW j \in Instances, SetInitParameters(j) PROVE KeepsPushers
  BY <1>1, <1>2 DEF SetInitParameters
<1>3. ASSUME GoodInstances, NEW j \in Instances
      PROVE  \A t, impl :
               /\ [InstanceOrNew(j) EXCEPT !.type = t, !.impl = impl].pusher = InstanceOrNew(j).pusher
               /\ [InstanceOrNew(j) EXCEPT !.impl = impl].pusher = InstanceOrNew(j).pusher
  <2>1. InstanceOrNew(j) \in Instance
    BY <1>3, GoodInstanceOrNew DEF GoodInstance
  <2>. QED BY <2>1 DEF Instance
<1>4. ASSUME GoodInstances, NEW j \in Instances, NEW t \in Types, SetType(j, t)
      PROVE  KeepsPushers
  <2>. PICK inst : inst = InstanceOrNew(j)
    OBVIOUS
  <2>. PICK made : made = Made(t, inst.pusher)
    OBVIOUS
  <2>1. \/ SetInstance(j, [inst EXCEPT !.type = t, !.impl = made])
        \/ SetInstance(j, [inst EXCEPT !.impl = None])
        \/ SetInstance(j, [inst EXCEPT !.impl = made])
    BY <1>4 DEF SetType
  <2>2. /\ [inst EXCEPT !.type = t, !.impl = made].pusher = inst.pusher
        /\ [inst EXCEPT !.impl = None].pusher = inst.pusher
        /\ [inst EXCEPT !.impl = made].pusher = inst.pusher
    BY <1>3, <1>4
  <2>3. CASE SetInstance(j, [inst EXCEPT !.type = t, !.impl = made])
    BY <1>1, <2>2, <2>3
  <2>4. CASE SetInstance(j, [inst EXCEPT !.impl = None])
    BY <1>1, <2>2, <2>4
  <2>5. CASE SetInstance(j, [inst EXCEPT !.impl = made])
    BY <1>1, <2>2, <2>5
  <2>. QED BY <2>1, <2>3, <2>4, <2>5
<1>5. ASSUME GoodInstances, NEW j \in Instances, NEW g \in Instances,
             SetImplementationToGroupInterface(j, g)
      PROVE  KeepsPushers
  <2>1. \E impl : SetInstance(j, [InstanceOrNew(j) EXCEPT !.impl = impl])
    BY <1>5 DEF SetImplementationToGroupInterface, Implement
  <2>2. PICK impl : SetInstance(j, [InstanceOrNew(j) EXCEPT !.impl = impl])
    BY <2>1
  <2>3. [InstanceOrNew(j) EXCEPT !.impl = impl].pusher = InstanceOrNew(j).pusher
    BY <1>3, <1>5
  <2>. QED BY <1>1, <2>2, <2>3
<1>. QED BY <1>2, <1>4, <1>5

-----------------------------------------------------------------------------
(* Each step keeps it. *)

\* The next call was carried out.
LEMMA ProceedReads ==
  ASSUME NEW all, NEW d, d = Done(all), Reads(all), calls # <<>>, Proceed
  PROVE  Reads(all)' /\ Done(all)' = d + 1
<1>1. /\ calls' \in Seq(Call)
      /\ Len(calls') <= Len(all)
      /\ Len(all) - Len(calls') = d + 1
      /\ \A j \in 1..Len(calls') : calls'[j] = all[Len(all) - Len(calls') + j]
  BY ReadsOn DEF Proceed
<1>. QED BY <1>1 DEF Reads, Done

\* A call of the architecture file.
LEMMA ProceedBuilding ==
  ASSUME FilesInv, stage = "building", Reading, calls # <<>>, Proceed, PushersKnown',
         NEW all, all = BuildCalls(dot), NEW d, d = Done(all), BuiltSoFar(all, d + 1)'
  PROVE  FilesInv'
<1>1. UNCHANGED <<dot, json, stage>>
  BY DEF Reading, Proceed
<1>2. Reads(all)
  BY NextBuildCall
<1>3. Reads(all)' /\ Done(all)' = d + 1
  BY <1>2, ProceedReads
<1>4. BuildingInv'
  BY <1>1, <1>3 DEF BuildingInv
<1>. QED BY <1>1, <1>4 DEF FilesInv, WrittenInv, ImplementingInv, CrashInv

\* A call of the implementation file.
LEMMA ProceedImplementing ==
  ASSUME FilesInv, stage = "implementing", Reading, calls # <<>>, Proceed, PushersKnown',
         UNCHANGED nodes, NEW all, all = ImplementCalls(json), NEW d, d = Done(all),
         ImplementedSoFar(all, d + 1)'
  PROVE  FilesInv'
<1>1. UNCHANGED <<dot, json, stage>>
  BY DEF Reading, Proceed
<1>2. Reads(all) /\ json \in Implementations
  BY NextImplementCall DEF FilesInv, ImplementingInv
<1>3. Reads(all)' /\ Done(all)' = d + 1
  BY <1>2, ProceedReads
<1>4. ImplementingInv'
  BY <1>1, <1>2, <1>3 DEF ImplementingInv
<1>5. WrittenInv'
  BY <1>1, WrittenStays DEF FilesInv, WrittenInv
<1>. QED BY <1>1, <1>4, <1>5 DEF FilesInv, BuildingInv, CrashInv

\* An exception ends the reading.
LEMMA ThrowKeeps ==
  ASSUME FilesInv, Reading, Throw, UNCHANGED nodes, PushersKnown'
  PROVE  FilesInv'
<1>1. /\ UNCHANGED <<dot, json>>
      /\ \/ stage = "building" /\ stage' = "no graph"
         \/ stage = "implementing" /\ stage' = "half done"
  BY DEF Reading, Throw
<1>2. WrittenInv'
  BY <1>1, WrittenStays DEF FilesInv, WrittenInv
<1>. QED BY <1>1, <1>2 DEF FilesInv, BuildingInv, ImplementingInv, CrashInv

LEMMA BuildStepKeeps ==
  ASSUME GraphInv, FilesInv, BuildStep
  PROVE  FilesInv'
<1>. PICK all, done : all = BuildCalls(dot) /\ done = ImplementCalls(json)
  OBVIOUS
<1>. PICK d : d = Done(all)
  OBVIOUS
<1>1. stage = "building"
  <2>1. /\ stage \in {"building", "implementing"} /\ calls # <<>>
        /\ Head(calls).do \in {"createNode", "setNodeInstance", "connect"}
    BY DEF BuildStep, DoCreateNode, DoSetNodeInstance, DoConnect, Asked, Reading,
           Create, Place, Join
  <2>2. CASE stage = "implementing"
    <3>1. Head(calls) \in ImplementCall
      BY SMTT(60), <2>1, <2>2, NextImplementCall
    <3>. QED BY <2>1, <3>1, CallKinds
  <2>. QED BY <2>1, <2>2
<1>2. /\ Reading /\ Proceed /\ calls # <<>> /\ UNCHANGED instances
      /\ \/ \E n \in Nodes, k \in NodeKinds :
              Head(calls) = Create(n, k) /\ CreateNode(n, k[1], k[2])
         \/ \E n \in Nodes, i \in Instances :
              Head(calls) = Place(n, i) /\ SetNodeInstance(n, i)
         \/ \E n, m \in Nodes, c \in Channels :
              Head(calls) = Join(n, c, m) /\ Connect(n, c, m, DefaultDelivery)
  BY ZenonT(60) DEF BuildStep, DoCreateNode, DoSetNodeInstance, DoConnect, Asked,
         CreateNode, SetNodeInstance, Connect
<1>3. /\ BuildsText(all, dot) /\ BuiltSoFar(all, d) /\ d \in Nat /\ d + 1 \in 1..Len(all)
      /\ Head(calls) = all[d + 1]
  BY <1>1, <1>2, NextBuildCall
<1>4. PushersKnown'
  BY <1>1, <1>2, PushersStayNone DEF FilesInv
<1>5. GoodNodes
  BY DEF GraphInv
<1>6. BuiltSoFar(all, d + 1)'
  <2>1. ASSUME NEW n \in Nodes, NEW k \in NodeKinds,
               Head(calls) = Create(n, k), CreateNode(n, k[1], k[2])
        PROVE  BuiltSoFar(all, d + 1)'
    BY <1>3, <2>1, CreateBuilds
  <2>2. ASSUME NEW n \in Nodes, NEW i \in Instances,
               Head(calls) = Place(n, i), SetNodeInstance(n, i)
        PROVE  BuiltSoFar(all, d + 1)'
    <3>. PICK text : text = dot
      OBVIOUS
    <3>1. BuildsText(all, text) BY <1>3
    <3>. QED BY <1>3, <1>5, <2>2, <3>1, PlaceBuilds
  <2>3. ASSUME NEW n \in Nodes, NEW m \in Nodes, NEW c \in Channels,
               Head(calls) = Join(n, c, m), Connect(n, c, m, DefaultDelivery)
        PROVE  BuiltSoFar(all, d + 1)'
    BY <1>3, <1>5, <2>3, JoinBuilds
  <2>. QED BY <1>2, <2>1, <2>2, <2>3
<1>. QED BY <1>1, <1>2, <1>4, <1>6, ProceedBuilding

\* setInstanceInitParameters() may be called from either file.
LEMMA SetInitParametersKeeps ==
  ASSUME FilesInv, NEW i \in Instances, DoSetInitParameters(i)
  PROVE  FilesInv'
<1>1. /\ Reading /\ Proceed /\ calls # <<>>
      /\ Head(calls) = Parametrise(i) /\ SetInitParameters(i)
      /\ stage \in {"building", "implementing"} /\ UNCHANGED stage
  BY DEF DoSetInitParameters, Asked, Reading, Proceed
<1>2. UNCHANGED nodes /\ \A j \in Instances : Keeps(j)
  BY <1>1, SetInitParametersEffect
<1>3. PushersKnown'
  BY <1>1, <1>2, SetupKeepsPushers, PushersStay DEF FilesInv
<1>4. CASE stage = "building"
  <2>. PICK all : all = BuildCalls(dot)
    OBVIOUS
  <2>. PICK d : d = Done(all)
    OBVIOUS
  <2>1. BuiltSoFar(all, d) /\ d \in Nat /\ Head(calls) = all[d + 1]
    BY <1>1, <1>4, NextBuildCall
  <2>2. all[d + 1].do = "setInitParameters"
    BY <1>1, <2>1 DEF Parametrise
  <2>3. BuiltSoFar(all, d + 1)'
    BY <1>2, <2>1, <2>2, ParametriseBuilds
  <2>. QED BY <1>1, <1>3, <1>4, <2>3, ProceedBuilding
<1>5. CASE stage = "implementing"
  <2>. PICK all : all = ImplementCalls(json)
    OBVIOUS
  <2>. PICK d : d = Done(all)
    OBVIOUS
  <2>1. ImplementedSoFar(all, d) /\ d \in Nat /\ Head(calls) = all[d + 1]
    BY <1>1, <1>5, NextImplementCall
  <2>2. all[d + 1] # Reject /\ \A j \in Instances : ~ Implements(all[d + 1], j)
    BY <1>1, <2>1 DEF Parametrise, Reject, Implements
  <2>3. ImplementedSoFar(all, d + 1)'
    BY <1>2, <2>1, <2>2, OtherCallImplements
  <2>. QED BY <1>1, <1>2, <1>3, <1>5, <2>3, ProceedImplementing
<1>. QED BY <1>1, <1>4, <1>5

\* The calls that implement an instance are those of the other file.
LEMMA OnlyImplementing ==
  ASSUME FilesInv, Reading, calls # <<>>, Head(calls).do \in {"setType", "toGroupInterface"}
  PROVE  stage = "implementing"
<1>1. CASE stage = "building"
  <2>. PICK all : all = BuildCalls(dot)
    OBVIOUS
  <2>1. Head(calls) \in BuildCall
    BY <1>1, NextBuildCall
  <2>. QED BY <2>1, CallKinds
<1>. QED BY <1>1 DEF Reading

LEMMA SetTypeKeeps ==
  ASSUME GraphInv, FilesInv, NEW i \in Instances, NEW t \in Types, DoSetType(i, t)
  PROVE  FilesInv'
<1>1. /\ Reading /\ calls # <<>> /\ Head(calls) = MakeOf(i, t) /\ SetType(i, t)
      /\ \/ instances'[i].type = t /\ Fits(i, t) /\ Proceed
         \/ Throw
  BY DEF DoSetType, Asked
<1>2. Head(calls).do = "setType" /\ Head(calls).instance = i /\ Head(calls).type = t
  BY <1>1, ImplementCalled
<1>3. stage = "implementing"
  BY <1>1, <1>2, OnlyImplementing
<1>4. GoodInstances /\ UNCHANGED nodes
  BY <1>1 DEF GraphInv, SetType, SetInstance
<1>5. PushersKnown'
  <2>1. stage' # "building" BY <1>1, <1>3 DEF Proceed, Throw
  <2>. QED BY <1>1, <1>4, <2>1, SetupKeepsPushers, PushersStay DEF FilesInv
<1>6. CASE Throw
  BY <1>1, <1>4, <1>5, <1>6, ThrowKeeps
<1>7. CASE instances'[i].type = t /\ Fits(i, t) /\ Proceed
  <2>. PICK all : all = ImplementCalls(json)
    OBVIOUS
  <2>. PICK d : d = Done(all)
    OBVIOUS
  <2>1. ImplementedSoFar(all, d) /\ d \in Nat /\ Head(calls) = all[d + 1]
    BY <1>1, <1>3, NextImplementCall
  <2>2. all[d + 1] # Reject /\ Implements(all[d + 1], i)
    BY <1>2, <2>1 DEF Reject, Implements
  <2>3. /\ \A j \in Instances \ {i} : Keeps(j)
        /\ i \in DOMAIN instances' /\ instances'[i].impl # None
        /\ instances'[i].impl.kind = t
    BY <1>1, <1>4, <1>7, SetTypeEffect
  <2>4. ImplementedSoFar(all, d + 1)'
    BY <1>2, <1>4, <1>7, <2>1, <2>2, <2>3, CallImplements
  <2>. QED BY <1>1, <1>3, <1>4, <1>5, <1>7, <2>4, ProceedImplementing
<1>. QED BY <1>1, <1>6, <1>7

LEMMA ToGroupInterfaceKeeps ==
  ASSUME GraphInv, FilesInv, NEW i \in Instances, NEW g \in Instances,
         DoToGroupInterface(i, g)
  PROVE  FilesInv'
<1>1. /\ Reading /\ calls # <<>> /\ Head(calls) = TakeFrom(i, g)
      /\ SetImplementationToGroupInterface(i, g)
      /\ Proceed \/ Throw
  BY DEF DoToGroupInterface, Asked
<1>2. Head(calls).do = "toGroupInterface" /\ Head(calls).instance = i
  BY <1>1, ImplementCalled
<1>3. stage = "implementing"
  BY <1>1, <1>2, OnlyImplementing
<1>4. /\ GoodInstances /\ UNCHANGED nodes
      /\ \A j \in Instances \ {i} : Keeps(j)
      /\ i \in DOMAIN instances' /\ instances'[i].impl # None
      /\ instances'[i].impl.kind = Interface
  BY <1>1, ToGroupInterfaceEffect DEF GraphInv
<1>5. PushersKnown'
  <2>1. stage' # "building" BY <1>1, <1>3 DEF Proceed, Throw
  <2>. QED BY <1>1, <1>4, <2>1, SetupKeepsPushers, PushersStay DEF FilesInv
<1>6. CASE Throw
  BY <1>1, <1>4, <1>5, <1>6, ThrowKeeps
<1>7. CASE Proceed
  <2>. PICK all : all = ImplementCalls(json)
    OBVIOUS
  <2>. PICK d : d = Done(all)
    OBVIOUS
  <2>1. ImplementedSoFar(all, d) /\ d \in Nat /\ Head(calls) = all[d + 1]
    BY <1>1, <1>3, NextImplementCall
  <2>2. all[d + 1] # Reject /\ Implements(all[d + 1], i)
    BY <1>2, <2>1 DEF Reject, Implements
  <2>3. ImplementedSoFar(all, d + 1)'
    BY <1>2, <1>4, <2>1, <2>2, CallImplements
  <2>. QED BY <1>1, <1>3, <1>4, <1>5, <1>7, <2>3, ProceedImplementing
<1>. QED BY <1>1, <1>6, <1>7

\* What was asked of before had its turn: only a name can be out of order.
LEMMA CrashKeeps ==
  ASSUME FilesInv, NEW i \in Instances, NEW g \in Instances, CrashOnGroup(i, g)
  PROVE  FilesInv'
<1>. PICK all : all = ImplementCalls(json)
  OBVIOUS
<1>. PICK d : d = Done(all)
  OBVIOUS
<1>1. /\ Reading /\ calls # <<>> /\ Head(calls) = TakeFrom(i, g)
      /\ g \in DOMAIN instances /\ instances[g].impl = None
      /\ stage' = "crashed" /\ UNCHANGED <<nodes, instances, dot, json>>
  BY DEF CrashOnGroup, Asked, Reading, vars
<1>2. stage = "implementing"
  <2>1. Head(calls).do = "toGroupInterface" BY <1>1, ImplementCalled
  <2>. QED BY <1>1, <2>1, OnlyImplementing
<1>3. /\ ImplementsText(all, json) /\ ImplementedSoFar(all, d)
      /\ d \in Nat /\ d + 1 \in 1..Len(all) /\ Head(calls) = all[d + 1]
  BY <1>1, <1>2, NextImplementCall
<1>4. ASSUME NEW p \in 1..d PROVE ~ Settles(all[p], g)
  BY <1>1, <1>3 DEF ImplementedSoFar, Settles
<1>5. NamesLater(json, i, g)
  <2>1. (d + 1) - 1 = d BY <1>3
  <2>2. (\E p \in 1..(d + 1) - 1 : Settles(all[p], g)) \/ NamesLater(json, i, g)
    BY <1>1, <1>3 DEF ImplementsText
  <2>. QED BY <1>4, <2>1, <2>2
<1>6. ~ GroupsComeFirst
  BY <1>5 DEF NamesLater, GroupsComeFirst
<1>7. CrashInv'
  BY <1>1, <1>6 DEF CrashInv, GroupsComeFirst
<1>8. PushersKnown'
  BY <1>1 DEF FilesInv, PushersKnown
<1>9. WrittenInv'
  BY <1>1, <1>2, WrittenStays DEF FilesInv, WrittenInv
<1>. QED BY <1>1, <1>7, <1>8, <1>9 DEF FilesInv, BuildingInv, ImplementingInv

LEMMA ReturnKeeps ==
  ASSUME GraphInv, FilesInv, Return
  PROVE  FilesInv'
<1>1. /\ Reading /\ calls = <<>> /\ UNCHANGED <<nodes, instances, dot, json>>
      /\ stage' = IF stage = "building" THEN "built" ELSE "implemented"
  BY DEF Return, Reading, vars
<1>2. PushersKnown'
  BY <1>1 DEF FilesInv, PushersKnown
<1>3. CASE stage = "building"
  <2>. PICK all : all = BuildCalls(dot)
    OBVIOUS
  <2>1. Reads(all) /\ BuiltSoFar(all, Done(all)) /\ BuildsText(all, dot) /\ dot \in Architectures
    BY <1>3, BuildCallsAre DEF FilesInv, BuildingInv
  <2>2. Done(all) = Len(all)
    BY <1>1, <2>1, ReadsAll
  <2>3. GraphAsWritten
    BY <2>1, <2>2, BuiltIsWritten DEF GraphInv
  <2>4. GraphAsWritten'
    BY <1>1, <2>3, WrittenStays
  <2>. QED BY <1>1, <1>2, <1>3, <2>4
       DEF FilesInv, BuildingInv, WrittenInv, ImplementingInv, CrashInv
<1>4. CASE stage = "implementing"
  <2>. PICK all : all = ImplementCalls(json)
    OBVIOUS
  <2>1. Reads(all) /\ ImplementedSoFar(all, Done(all)) /\ json \in Implementations
    BY <1>4 DEF FilesInv, ImplementingInv
  <2>. PICK d : d = Done(all)
    OBVIOUS
  <2>2. d = Len(all) /\ d \in Nat
    BY <1>1, <2>1, ReadsAll
  <2>3. ImplementedSoFar(all, d)'
    BY <1>1, <2>1, <2>2, ImplementedStays DEF Keeps
  <2>4. ImplementingInv'
    BY <1>1, <1>4, <2>1, <2>2, <2>3 DEF ImplementingInv
  <2>5. WrittenInv'
    BY <1>1, <1>4, WrittenStays DEF FilesInv, WrittenInv
  <2>. QED BY <1>1, <1>2, <1>4, <2>4, <2>5 DEF FilesInv, BuildingInv, CrashInv
<1>. QED BY <1>1, <1>3, <1>4 DEF Reading

\* The first of the calls of a file is the next.
LEMMA ReadingBegins ==
  ASSUME NEW all \in Seq(Call), calls' = all
  PROVE  Reads(all)' /\ Done(all)' = 0
<1>1. Len(all) \in Nat
  OBVIOUS
<1>2. \A j \in 1..Len(all) : Len(all) - Len(all) + j = j
  BY <1>1
<1>. QED BY <1>1, <1>2 DEF Reads, Done

LEMMA ImplementingKeeps ==
  ASSUME FilesInv, Implementing
  PROVE  FilesInv'
<1>. PICK all : all = ImplementCalls(json')
  OBVIOUS
<1>1. /\ stage = "built" /\ stage' = "implementing" /\ json' \in Implementations
      /\ calls' = all /\ UNCHANGED <<nodes, instances, dot>>
  BY DEF Implementing, vars
<1>2. all \in Seq(Call)
  <2>1. all \in Seq(ImplementCall)
    BY <1>1, ImplementCallsAre DEF ImplementsText
  <2>. QED BY <2>1 DEF Call
<1>3. Reads(all)' /\ Done(all)' = 0
  BY <1>1, <1>2, ReadingBegins
<1>4. ImplementedSoFar(all, 0)'
  BY DEF ImplementedSoFar
<1>5. ImplementingInv'
  BY <1>1, <1>3, <1>4 DEF ImplementingInv
<1>6. WrittenInv'
  BY <1>1, WrittenStays DEF FilesInv, WrittenInv
<1>7. PushersKnown'
  BY <1>1 DEF FilesInv, PushersKnown
<1>. QED BY <1>1, <1>5, <1>6, <1>7 DEF FilesInv, BuildingInv, CrashInv

LEMMA StartingKeeps ==
  ASSUME GraphInv, FilesInv, Starting
  PROVE  FilesInv'
<1>1. /\ stage \in {"built", "implemented", "half done"}
      /\ UNCHANGED <<nodes, dot, json, calls, stage>>
      /\ UNCHANGED instances \/ \E n \in Nodes : StartNode(n)
  BY DEF Starting, StartGraph, StartNode, StartFails
<1>2. \A i \in Instances : Keeps(i)
  <2>1. CASE UNCHANGED instances
    BY <2>1 DEF Keeps
  <2>2. CASE \E n \in Nodes : StartNode(n)
    BY <2>2, StartNodeKeeps DEF GraphInv
  <2>. QED BY <1>1, <2>1, <2>2
<1>3. PushersKnown'
  <2>1. CASE UNCHANGED instances
    BY <1>1, <2>1 DEF FilesInv, PushersKnown
  <2>2. ASSUME NEW n \in Nodes, StartNode(n)
        PROVE  PushersKnown'
    <3>. PICK j : j = nodes[n].instance
      OBVIOUS
    <3>1. n \in DOMAIN nodes
      BY <2>2 DEF GraphInv, StartNode
    <3>2. /\ DOMAIN instances' = DOMAIN instances
          /\ \A i \in DOMAIN instances : i # j => instances'[i] = instances[i]
          /\ instances'[j].pusher = n
      BY <2>2, StartNodeInstances DEF GraphInv
    <3>. QED BY ZenonT(60), <1>1, <3>1, <3>2 DEF FilesInv, PushersKnown
  <2>. QED BY <1>1, <2>1, <2>2
<1>4. WrittenInv'
  BY <1>1, WrittenStays DEF FilesInv, WrittenInv
<1>5. ImplementingInv'
  <2>. PICK all : all = ImplementCalls(json)
    OBVIOUS
  <2>. PICK d : d = Len(all)
    OBVIOUS
  <2>1. CASE stage = "implemented"
    <3>1. json \in Implementations /\ ImplementedSoFar(all, d)
      BY <2>1 DEF FilesInv, ImplementingInv
    <3>2. d \in Nat
      BY <3>1, ImplementCallsAre DEF ImplementsText
    <3>3. ImplementedSoFar(all, d)'
      BY <1>1, <1>2, <3>1, <3>2, ImplementedStays
    <3>. QED BY <1>1, <2>1, <3>1, <3>3 DEF ImplementingInv
  <2>2. CASE stage # "implemented"
    BY <1>1, <2>2 DEF ImplementingInv
  <2>. QED BY <2>1, <2>2
<1>. QED BY <1>1, <1>3, <1>4, <1>5 DEF FilesInv, BuildingInv, CrashInv, GroupsComeFirst

LEMMA FilesInit == BuilderInit => FilesInv
<1>. SUFFICES ASSUME BuilderInit PROVE FilesInv
  OBVIOUS
<1>. PICK all : all = BuildCalls(dot)
  OBVIOUS
<1>1. /\ dot \in Architectures /\ calls = all /\ stage = "building"
      /\ DOMAIN nodes = {} /\ DOMAIN instances = {}
  BY DEF BuilderInit, Init
<1>2. all \in Seq(Call)
  <2>1. all \in Seq(BuildCall)
    BY <1>1, BuildCallsAre DEF BuildsText
  <2>. QED BY <2>1 DEF Call
<1>3. Reads(all) /\ Done(all) = 0
  BY <1>1, <1>2, ReadsFirst
<1>4. BuiltSoFar(all, 0)
  BY <1>1 DEF BuiltSoFar, CreatedBy, PlacedBy, ConnectedBy
<1>5. BuildingInv
  BY <1>3, <1>4 DEF BuildingInv
<1>. QED BY <1>1, <1>5
     DEF FilesInv, WrittenInv, ImplementingInv, CrashInv, PushersKnown

LEMMA StutterKeeps ==
  ASSUME FilesInv, UNCHANGED builderVars
  PROVE  FilesInv'
<1>1. UNCHANGED <<nodes, instances, dot, json, calls, stage>>
  BY DEF builderVars, vars
<1>. PICK all, done : all = BuildCalls(dot) /\ done = ImplementCalls(json)
  OBVIOUS
<1>. PICK d, e : d = Done(all) /\ e = Done(done)
  OBVIOUS
<1>2. Done(all)' = d /\ (Reads(all) => Reads(all)')
  BY <1>1 DEF Reads, Done
<1>3. Done(done)' = e /\ (Reads(done) => Reads(done)')
  BY <1>1 DEF Reads, Done
<1>4. BuiltSoFar(all, d) => BuiltSoFar(all, d)'
  BY <1>1 DEF BuiltSoFar, CreatedBy, PlacedBy, ConnectedBy
<1>5. \A x : ImplementedSoFar(done, x) => ImplementedSoFar(done, x)'
  BY <1>1, FitsStays DEF ImplementedSoFar
<1>6. BuildingInv'
  BY <1>1, <1>2, <1>4 DEF FilesInv, BuildingInv
<1>7. ImplementingInv'
  BY <1>1, <1>3, <1>5 DEF FilesInv, ImplementingInv
<1>8. WrittenInv'
  BY <1>1, WrittenStays DEF FilesInv, WrittenInv
<1>9. CrashInv' /\ PushersKnown'
  BY <1>1 DEF FilesInv, CrashInv, PushersKnown, GroupsComeFirst
<1>. QED BY <1>1, <1>6, <1>7, <1>8, <1>9 DEF FilesInv

LEMMA FilesNext ==
  ASSUME GraphInv, FilesInv, [BuilderNext]_builderVars
  PROVE  FilesInv'
<1>1. CASE BuildStep BY <1>1, BuildStepKeeps
<1>2. CASE ImplementStep
  BY <1>2, SetInitParametersKeeps, SetTypeKeeps, ToGroupInterfaceKeeps, CrashKeeps
  DEF ImplementStep
<1>3. CASE Refuse
  <2>1. Reading /\ Throw /\ UNCHANGED <<nodes, instances>>
    BY <1>3 DEF Refuse, vars
  <2>2. PushersKnown'
    BY <2>1 DEF FilesInv, PushersKnown, Throw
  <2>. QED BY <2>1, <2>2, ThrowKeeps
<1>4. CASE Return BY <1>4, ReturnKeeps
<1>5. CASE Implementing BY <1>5, ImplementingKeeps
<1>6. CASE Starting BY <1>6, StartingKeeps
<1>7. CASE UNCHANGED builderVars
  BY <1>7, StutterKeeps
<1>. QED BY <1>1, <1>2, <1>3, <1>4, <1>5, <1>6, <1>7 DEF BuilderNext

LEMMA FilesHold == BuilderSpec => [](GraphInv /\ FilesInv)
<1>1. BuilderSpec => []GraphInv
  BY BuilderIsBuilding, InvHolds, PTL
<1>. QED BY <1>1, FilesInit, FilesNext, PTL DEF BuilderSpec

(* The graph is the one the architecture file describes, edge by edge, as  *)
(* soon as buildDataGraph() has returned; and when implementDataGraph()    *)
(* returns, each instance has the implementation of the last member that   *)
(* mentions it.                                                            *)
THEOREM GraphIsAsWritten == BuilderSpec => []AsWritten
<1>1. ASSUME FilesInv, stage = "implemented" PROVE ImplementedAsWritten
  <2>. PICK done : done = ImplementCalls(json)
    OBVIOUS
  <2>1. json \in Implementations /\ ImplementedSoFar(done, Len(done))
    BY <1>1 DEF FilesInv, ImplementingInv
  <2>2. DOMAIN done = 1..Len(done)
    BY <2>1, ImplementCallsAre DEF ImplementsText
  <2>3. ASSUME NEW i \in Instances, NEW k \in DOMAIN done, Implements(done[k], i),
               \A l \in k + 1..Len(done) : ~ Implements(done[l], i)
        PROVE  /\ instances[i].impl # None
               /\ instances[i].impl.kind =
                    IF done[k].do = "setType" THEN done[k].type ELSE Interface
    <3>1. LastFor(done, Len(done), k, i)
      BY <2>2, <2>3 DEF LastFor
    <3>. QED BY <2>1, <2>2, <2>3, <3>1 DEF ImplementedSoFar
  <2>. QED BY <2>3 DEF ImplementedAsWritten
<1>2. FilesInv => AsWritten
  BY <1>1 DEF AsWritten, FilesInv, WrittenInv
<1>. QED BY <1>2, FilesHold, PTL

(* implementDataGraph() dereferences no null pointer, unless a member asks *)
(* for an interface of a group whose own member has no name before it.     *)
THEOREM CrashesOnLateGroups == BuilderSpec => []CrashNeedsLateGroup
<1>1. FilesInv => CrashNeedsLateGroup
  BY DEF FilesInv, CrashInv, CrashNeedsLateGroup
<1>. QED BY <1>1, FilesHold, PTL

\* A node that cannot be used, once every call of the file has returned.
LEMMA UnusableUnforeseen ==
  ASSUME FilesInv, stage = "implemented", NEW n \in DOMAIN nodes, ~ Usable(n)
  PROVE  Unforeseen
<1>. PICK done, i : done = ImplementCalls(json) /\ i = nodes[n].instance
  OBVIOUS
<1>1. ImplementsText(done, json) /\ ImplementedSoFar(done, Len(done))
  BY ImplementCallsAre DEF FilesInv, ImplementingInv
<1>2. /\ done \in Seq(ImplementCall) /\ DOMAIN done = 1..Len(done) /\ Len(done) \in Nat
  BY <1>1 DEF ImplementsText
<1>3. CASE \A k \in DOMAIN done : ~ Implements(done[k], i)
  BY <1>3 DEF Unforeseen
<1>4. CASE \E k \in DOMAIN done : Implements(done[k], i)
  <2>. PICK T : T = {k \in 1..Len(done) : Implements(done[k], i)}
    OBVIOUS
  <2>1. PICK p \in T : \A k \in T : k <= p
    BY <1>2, <1>4, LastOne
  <2>2. p \in 1..Len(done) /\ Implements(done[p], i)
    BY <2>1
  <2>3. LastFor(done, Len(done), p, i)
    <3>1. ASSUME NEW l \in p + 1..Len(done), Implements(done[l], i) PROVE FALSE
      <4>1. l \in 1..Len(done) /\ ~ (l <= p) BY <1>2, <2>2
      <4>. QED BY <2>1, <3>1, <4>1
    <3>. QED BY <2>2, <3>1 DEF LastFor
  <2>4. i \in Instances
    <3>1. done[p] \in ImplementCall BY <1>2, <2>2
    <3>2. done[p].do \in {"setType", "toGroupInterface"} /\ done[p].instance = i
      BY <2>2 DEF Implements
    <3>. QED BY <3>1, <3>2 DEF ImplementCall, MakeOf, TakeFrom, Parametrise, Reject
  <2>5. Implemented(n)
    BY <1>1, <2>2, <2>4 DEF ImplementedSoFar, Implemented
  <2>6. \/ Fits(i, KindOf(n))
        \/ KindOf(n) = Interface
    BY <1>1, <2>2, <2>3, <2>4 DEF ImplementedSoFar, KindOf
  <2>7. ~ Fits(i, KindOf(n))
    BY <2>5 DEF Usable, Fits
  <2>. QED BY <2>5, <2>6, <2>7 DEF Unforeseen
<1>. QED BY <1>3, <1>4

(* startGraph() refuses no graph of two accepted files but for what the    *)
(* reading of the files does not look at: an instance with two nodes or    *)
(* without an implementation, or an interface that does not suit its node. *)
THEOREM FilesStart == BuilderSpec => StartsAsWritten
<1>1. ASSUME GraphInv, FilesInv, BuilderNext, stage = "implemented",
             phase = "starting", phase' = "editing", Eager = {}
      PROVE  Unforeseen
  <2>1. Starting
    BY <1>1 DEF BuilderNext, BuildStep, ImplementStep, DoCreateNode, DoSetNodeInstance,
                DoConnect, DoSetInitParameters, DoSetType, DoToGroupInterface,
                CrashOnGroup, Asked, Refuse, Return, Reading, Implementing
  <2>2. PICK n \in Nodes : StartNode(n) \/ StartFails(n)
    BY <1>1, <2>1 DEF Starting, StartGraph
  <2>3. ~ StartNode(n)
    BY <1>1 DEF StartNode, PushMayThrow
  <2>4. n \in DOMAIN nodes /\ ~ CanStart(n)
    BY <1>1, <2>2, <2>3 DEF StartFails, GraphInv
  <2>5. CASE ~ Usable(n)
    BY <1>1, <2>4, <2>5, UnusableUnforeseen
  <2>6. CASE Usable(n)
    <3>. PICK i : i = nodes[n].instance
      OBVIOUS
    <3>1. i \in DOMAIN instances /\ instances[i].pusher \notin {None, n}
      BY <2>4, <2>6 DEF CanStart, TakesPusher, Usable, Implemented
    <3>2. /\ instances[i].pusher \in DOMAIN nodes
          /\ nodes[instances[i].pusher].instance = i
      BY <1>1, <3>1 DEF FilesInv, PushersKnown
    <3>. QED BY <2>4, <3>1, <3>2 DEF Unforeseen
  <2>. QED BY <2>5, <2>6
<1>2. GraphInv /\ FilesInv /\ [BuilderNext]_builderVars
        => [(stage = "implemented" /\ phase = "starting" /\ phase' = "editing" /\ Eager = {})
             => Unforeseen]_builderVars
  BY <1>1
<1>. QED BY <1>2, FilesHold, PTL DEF BuilderSpec, StartsAsWritten
=============================================================================
