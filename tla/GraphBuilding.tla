---------------------------- MODULE GraphBuilding ----------------------------
(***************************************************************************)
(* How the application builds a DataGraph and starts it (src/Graph.cpp,    *)
(* src/Instance.cpp, and the setup calls of src/DataGraph.cpp).            *)
(*                                                                         *)
(* A node refers to an instance by name; an instance has a type, an        *)
(* implementation made from the type or given by the application, and the  *)
(* name and the context of a thread group.  The calls may come in almost   *)
(* any order, and several of them fail half-way.  A call that throws       *)
(* before it has changed anything is no step here.  A thread group, and    *)
(* its thread, is made when it is first named; nothing depends on whether  *)
(* one was there already, so that mThreadGroups is left out.               *)
(***************************************************************************)
EXTENDS Naturals, Sequences, SequencesExt

CONSTANTS
  Nodes,       \* names of GraphNodes
  Channels,
  Instances,   \* names of Instances
  Types,       \* type names the ImplementationFactory knows
  Given,       \* kinds of implementation the application makes itself
  Interface,   \* the kind of implementation a group's interfaces are
  Groups,      \* names of thread groups
  Default,     \* kDefaultThreadGroupName
  Deliveries,  \* the PacketDeliveryTypes
  Pathables,   \* kinds of implementation with asPathable() # nullptr
  Sources,     \* ... with asSource() # nullptr
  Eager,       \* sources that push as soon as they are given a pusher
  GroupKinds,  \* ... with asGroup() # nullptr
  SingleContext, \* ... whose setSubgraphContext() throws the second time
  NodeKinds,   \* <<allowIncoming, allowOutgoing>> of the nodes
  None         \* no pusher, no implementation, the empty name

Kinds == Types \cup Given \cup {Interface}

\* An implementation, with what it was given; an instance owns its own.
Implementation ==
  [kind : Kinds, context : Groups \cup {None}, pusher : Nodes \cup {None}]

ASSUME NamesAssumption ==
  /\ Default \in Groups
  /\ Types \cap Given = {}
  /\ Pathables \subseteq Kinds
  /\ Sources \subseteq Kinds
  /\ Eager \subseteq Sources
  /\ GroupKinds \subseteq Kinds
  /\ SingleContext \subseteq Kinds \ Sources
  /\ NodeKinds \subseteq BOOLEAN \X BOOLEAN
  /\ None \notin Nodes \cup Instances \cup Kinds \cup Groups \cup Implementation

VARIABLES
  nodes,         \* mNameToNodeMap
  instances,     \* mInstances
  phase,         \* of startGraph()
  left           \* the nodes startGraph() has not visited

vars == <<nodes, instances, phase, left>>

Edge == [next : Nodes, delivery : Deliveries]

\* GraphNode; a channel without edges has no entry in forwardEdges, and the
\* order of backEdges, which has no node twice, matters to nobody.
NodeState ==
  [allowsIncoming : BOOLEAN, allowsOutgoing : BOOLEAN,
   instance : Instances \cup {None},
   forward : [Channels -> Seq(Edge)],
   back : SUBSET Nodes]

\* A context, and a pusher, are known by whose they are.
Instance ==
  [type : Types \cup {None},
   impl : Implementation \cup {None},
   group : Groups,
   context : Groups,
   pusher : Nodes \cup {None}]

\* f with k mapped to v, whether or not f has k.
Put(f, k, v) == [x \in DOMAIN f \cup {k} |-> IF x = k THEN v ELSE f[x]]

Init ==
  /\ nodes = [n \in {} |-> None]
  /\ instances = [i \in {} |-> None]
  /\ phase = "editing"
  /\ left = {}

\* Setup calls come from one thread, which is inside startGraph() or not.
Editing == phase # "starting" /\ phase' = "editing" /\ UNCHANGED left

-----------------------------------------------------------------------------
CreateNode(n, in, out) ==
  /\ Editing
  /\ n \notin DOMAIN nodes
  /\ nodes' = Put(nodes, n,
       [allowsIncoming |-> in, allowsOutgoing |-> out, instance |-> None,
        forward |-> [c \in Channels |-> <<>>], back |-> {}])
  /\ UNCHANGED instances

SetNodeInstance(n, i) ==
  /\ Editing
  /\ n \in DOMAIN nodes
  /\ nodes' = [nodes EXCEPT ![n].instance = i]
  /\ UNCHANGED instances

\* A fault: nobody looks for an edge to the same node.
WithEdgeAnyway(edges, edge) == Append(edges, edge)

\* The edge is added behind the others, unless it is there already.
WithEdge(edges, edge) ==
  IF \E k \in DOMAIN edges : edges[k].next = edge.next
  THEN [k \in DOMAIN edges |-> IF edges[k].next = edge.next THEN edge ELSE edges[k]]
  ELSE Append(edges, edge)

\* DataGraph::connect() and Graph::connect(); from and to may be one node.
Connect(from, c, to, d) ==
  /\ Editing
  /\ from \in DOMAIN nodes
  /\ to \in DOMAIN nodes
  /\ nodes[from].allowsOutgoing
  /\ nodes[to].allowsIncoming
  /\ nodes[from].instance # None
  /\ nodes[to].instance # None
  /\ LET edges == nodes[from].forward[c]
         edge  == [next |-> to, delivery |-> d]
         known == \E k \in DOMAIN edges : edges[k].next = to
     IN  nodes' = [n \in DOMAIN nodes |->
           [nodes[n] EXCEPT
              !.forward[c] = IF n = from THEN WithEdge(@, edge) ELSE @,
              !.back = IF n = to /\ ~ known THEN @ \cup {from} ELSE @]]
  /\ UNCHANGED instances

\* Graph::disconnect() drops every edge of the channel, whatever its target,
\* and the back edge of the one target it was given, whatever other channel
\* still connects the two.  (A target that does not exist is dereferenced.)
Disconnect(from, c, to) ==
  /\ Editing
  /\ from \in DOMAIN nodes
  /\ to \in DOMAIN nodes
  /\ nodes[from].forward[c] # <<>>
  /\ nodes' = [n \in DOMAIN nodes |->
       [nodes[n] EXCEPT
          !.forward[c] = IF n = from THEN <<>> ELSE @,
          !.back = IF n = to THEN @ \ {from} ELSE @]]
  /\ UNCHANGED instances

-----------------------------------------------------------------------------
\* A fault: a new instance waits for setThreadGroupForInstance().
NewInstanceNowhere ==
  [type |-> None, impl |-> None, group |-> None, context |-> None,
   pusher |-> None]

\* DataGraphImpl::getOrCreateInstance(): a new one is in the default group.
NewInstance ==
  [type |-> None, impl |-> None, group |-> Default, context |-> Default,
   pusher |-> None]

InstanceOrNew(i) == IF i \in DOMAIN instances THEN instances[i] ELSE NewInstance

SetInstance(i, inst) == instances' = Put(instances, i, inst) /\ UNCHANGED nodes

\* A source is given the pusher, if there is one.
WithPusher(impl, pusher) ==
  IF impl.kind \in Sources /\ pusher # None
  THEN [impl EXCEPT !.pusher = pusher] ELSE impl

\* A source that pushes at once is let down by pushPacket() when a target's
\* instance does not exist (getInstanceForGraphNode()).
PushMayThrow(kind, n) ==
  /\ kind \in Eager
  /\ n \in DOMAIN nodes
  /\ \E c \in Channels : \E e \in ToSet(nodes[n].forward[c]) :
       nodes[e.next].instance \notin DOMAIN instances

\* setInstanceInitParameters() and insertInstanceInitParameters(); the
\* parameters only reach the factory, which may throw for any reason.
SetInitParameters(i) ==
  /\ Editing
  /\ SetInstance(i, InstanceOrNew(i))

\* A fault: an implementation stays with its first context.
WithFirstContext(impl, g) ==
  IF impl.context # None THEN impl ELSE [impl EXCEPT !.context = g]

\* A new context, unless the implementation throws because it has one.
WithContext(impl, g) ==
  IF impl.kind \in SingleContext /\ impl.context # None
  THEN impl ELSE [impl EXCEPT !.context = g]

SetThreadGroupForInstance(i, g) ==
  /\ Editing
  /\ LET inst == InstanceOrNew(i)
     IN  SetInstance(i,
           [inst EXCEPT
              !.group = g,
              !.context = g,
              !.impl = IF @ = None THEN None ELSE WithContext(@, g)])

\* A fault: a source made after startGraph() is not given the pusher.
MadeWithoutPusher(type, pusher) ==
  [kind |-> type, context |-> None, pusher |-> None]

\* What Instance::setType() makes; it is given no context.
Made(type, pusher) ==
  WithPusher([kind |-> type, context |-> None, pusher |-> None], pusher)

\* Instance::setType() when the type is not the present one: the old
\* implementation is gone before the factory is asked, and the new type is
\* noted last.  What validateInstanceImplementation() finds afterwards
\* changes nothing.  The present type set again makes nothing, and ends the
\* process if its implementation is gone: validate...() asks it its kind.
SetType(i, type) ==
  /\ Editing
  /\ InstanceOrNew(i).type # type
  /\ LET inst == InstanceOrNew(i)
         made == Made(type, inst.pusher)
     IN  \/ SetInstance(i, [inst EXCEPT !.type = type, !.impl = made])
         \/ SetInstance(i, [inst EXCEPT !.impl = None])
         \/ /\ PushMayThrow(type, inst.pusher)
            /\ SetInstance(i, [inst EXCEPT !.impl = made])

\* Instance::setImplementation(); the type name stays.
Implement(i, kind) ==
  LET inst  == InstanceOrNew(i)
      given == [kind |-> kind, context |-> inst.context, pusher |-> None]
  IN  SetInstance(i, [inst EXCEPT !.impl = WithPusher(given, inst.pusher)])

SetImplementation(i, kind) == Editing /\ Implement(i, kind)

\* setInstanceImplementationToGroupInterface(); the group's instance has an
\* implementation, which is dereferenced.  Another interface of the group may
\* have taken the one context they share.
SetImplementationToGroupInterface(i, g) ==
  /\ Editing
  /\ g \in DOMAIN instances
  /\ instances[g].impl # None
  /\ instances[g].impl.kind \in GroupKinds
  /\ \/ Implement(i, Interface)
     \/ /\ Interface \in SingleContext
        /\ SetInstance(i, [InstanceOrNew(i) EXCEPT !.impl =
             [kind |-> Interface, context |-> None, pusher |-> None]])

-----------------------------------------------------------------------------
\* The node's instance, if the node can be started with it.
Implemented(n) ==
  /\ nodes[n].instance \in DOMAIN instances
  /\ instances[nodes[n].instance].impl # None

KindOf(n) == instances[nodes[n].instance].impl.kind

\* A fault: a node that takes packets need not be an IPathable.
UsableAsSource(n) ==
  /\ Implemented(n)
  /\ nodes[n].allowsOutgoing => KindOf(n) \in Sources \cup Pathables

Usable(n) ==
  /\ Implemented(n)
  /\ nodes[n].allowsIncoming => KindOf(n) \in Pathables
  /\ nodes[n].allowsOutgoing => KindOf(n) \in Sources \cup Pathables

\* A fault: the last node to be visited wins.
TakesAnyPusher(i, n) == i \in DOMAIN instances

\* Instance::setPacketPusherForISources() refuses a second pusher.
TakesPusher(i, n) == instances[i].pusher \in {None, n}

CanStart(n) == Usable(n) /\ TakesPusher(nodes[n].instance, n)

StartGraph ==
  /\ phase # "starting"
  /\ left' = DOMAIN nodes
  /\ phase' = IF DOMAIN nodes = {} THEN "started" ELSE "starting"
  /\ UNCHANGED <<nodes, instances>>

\* startGraph() visits a node, in no particular order; the first one that
\* cannot be started ends it, and those before it stay started.
StartNode(n) ==
  /\ phase = "starting"
  /\ n \in left
  /\ CanStart(n)
  /\ instances' = [instances EXCEPT
       ![nodes[n].instance].pusher = n,
       ![nodes[n].instance].impl = WithPusher(@, n)]
  /\ \/ /\ left' = left \ {n}
        /\ phase' = IF left = {n} THEN "started" ELSE "starting"
     \/ /\ PushMayThrow(KindOf(n), n)
        /\ left' = {}
        /\ phase' = "editing"
  /\ UNCHANGED nodes

StartFails(n) ==
  /\ phase = "starting"
  /\ n \in left
  /\ ~ CanStart(n)
  /\ left' = {}
  /\ phase' = "editing"
  /\ UNCHANGED <<nodes, instances>>

EditNodes ==
  \/ \E n \in Nodes, k \in NodeKinds : CreateNode(n, k[1], k[2])
  \/ \E n \in Nodes, i \in Instances \cup {None} : SetNodeInstance(n, i)
  \/ \E n, m \in Nodes, c \in Channels, d \in Deliveries : Connect(n, c, m, d)
  \/ \E n, m \in Nodes, c \in Channels : Disconnect(n, c, m)

EditInstances ==
  \/ \E i \in Instances : SetInitParameters(i)
  \/ \E i \in Instances, g \in Groups : SetThreadGroupForInstance(i, g)
  \/ \E i \in Instances, t \in Types : SetType(i, t)
  \/ \E i \in Instances, k \in Given : SetImplementation(i, k)
  \/ \E i, g \in Instances : SetImplementationToGroupInterface(i, g)

Next ==
  \/ EditNodes
  \/ EditInstances
  \/ StartGraph
  \/ \E n \in Nodes : StartNode(n) \/ StartFails(n)

Spec == Init /\ [][Next]_vars

-----------------------------------------------------------------------------
TypeOK ==
  /\ DOMAIN nodes \subseteq Nodes
  /\ nodes \in [DOMAIN nodes -> NodeState]
  /\ DOMAIN instances \subseteq Instances
  /\ instances \in [DOMAIN instances -> Instance]
  /\ phase \in {"editing", "starting", "started"}
  /\ left \subseteq DOMAIN nodes

(***************************************************************************)
(* A channel has at most one edge to a node, whatever calls of connect()   *)
(* repeat or change it: pushPacket() sends once per edge.                  *)
(***************************************************************************)
NoDoubleEdge ==
  \A n \in DOMAIN nodes : \A c \in Channels :
    LET edges == nodes[n].forward[c]
    IN  \A j, k \in DOMAIN edges : edges[j].next = edges[k].next => j = k

(***************************************************************************)
(* An implementation that has a context has the one of the thread group    *)
(* whose thread calls it, in whatever order it was made, placed and        *)
(* replaced: its uv handles live on the loop it runs on.  Not so one that  *)
(* throws at its second context: its instance has moved without it.        *)
(***************************************************************************)
ContextIsThreadGroup ==
  \A i \in DOMAIN instances :
    LET inst == instances[i]
    IN  /\ inst.context = inst.group
        /\ inst.impl # None /\ inst.impl.kind \notin SingleContext
             => inst.impl.context \in {None, inst.group}

(***************************************************************************)
(* A source pushes with the pusher of its instance, whether the            *)
(* implementation or startGraph() came first.                              *)
(***************************************************************************)
SourceKnowsPusher ==
  \A i \in DOMAIN instances :
    LET inst == instances[i]
    IN  (inst.impl # None /\ inst.pusher # None)
          => (inst.impl.kind \in Sources => inst.impl.pusher = inst.pusher)

(***************************************************************************)
(* Once startGraph() has returned, sendPacketToNode() finds an IPathable   *)
(* behind every edge.                                                      *)
(***************************************************************************)
StartedDelivers ==
  phase = "started" =>
    \A n \in DOMAIN nodes : \A c \in Channels :
      \A e \in ToSet(nodes[n].forward[c]) :
        Implemented(e.next) /\ KindOf(e.next) \in Pathables

(***************************************************************************)
(* Once startGraph() has returned, the packets of a source leave by the    *)
(* edges of its own node, and by no other's.                               *)
(***************************************************************************)
StartedPushesFromOwnNode ==
  phase = "started" =>
    \A n \in DOMAIN nodes :
      Implemented(n) /\ KindOf(n) \in Sources
        => instances[nodes[n].instance].impl.pusher = n

(***************************************************************************)
(* An instance may be used "in multiple paths" (DataGraph.h): startGraph() *)
(* does not fail unless there is a node that cannot be used.               *)
(***************************************************************************)
SharedInstancesStart ==
  [][phase = "starting" /\ phase' = "editing"
       => \E n \in DOMAIN nodes : ~ Usable(n)]_vars
=============================================================================
