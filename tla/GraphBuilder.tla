----------------------------- MODULE GraphBuilder -----------------------------
(***************************************************************************)
(* A graph from two files (src/GraphBuilder.cpp): buildDataGraph() turns   *)
(* the architecture file into calls that make nodes and edges, and         *)
(* implementDataGraph() the implementation file into calls that implement  *)
(* the instances; then the application starts the graph.                   *)
(*                                                                         *)
(* A file is read here into the sequence of its setup calls, in the order  *)
(* the code makes them, and the calls are the actions of GraphBuilding.    *)
(* The first one that throws ends the reading: buildDataGraph() then drops *)
(* the graph, implementDataGraph() leaves it as far as it has come.        *)
(***************************************************************************)
EXTENDS GraphBuilding, FiniteSets

CONSTANTS
  Architectures,    \* what the DOT text may hold
  Implementations,  \* what the JSON text may hold, by the name of an instance
  NameOrder,        \* Instances in the order of their names
  DefaultDelivery   \* of DataGraph::connect()

\* A node of the DOT text, or a subgraph; None is an attribute it lacks.
NodeEntry ==
  [name : Nodes, instance : Instances \cup {None}, allows : NodeKinds,
   params : {"unset", "object", "other"}]

EdgeEntry == [from : Nodes, channel : Channels \cup {None}, to : Nodes]

\* A member of the JSON text.
Member ==
  [params : {"unset", "object", "other"},
   from : Types \cup Instances \cup {None}, users : SUBSET Instances]

ASSUME BuilderAssumption ==
  /\ DefaultDelivery \in Deliveries
  /\ NameOrder \in Seq(Instances)
  /\ IsInjective(NameOrder)
  /\ ToSet(NameOrder) = Instances
  /\ \A text \in Architectures :
       text \in [subgraphs : Seq(NodeEntry), nodes : Seq(NodeEntry), edges : Seq(EdgeEntry)]
  /\ \A text \in Implementations :
       DOMAIN text \subseteq Instances /\ text \in [DOMAIN text -> Member]

VARIABLES
  dot,     \* the architecture file
  json,    \* the implementation file, once it is read
  calls,   \* what is left to do of the file being read
  stage    \* of the two functions

builderVars == <<vars, dot, json, calls, stage>>

-----------------------------------------------------------------------------
\* The setup calls of DataGraph, and one for any text that is refused.
Create(n, allows) == [do |-> "createNode", node |-> n, allows |-> allows]
Place(n, i)       == [do |-> "setNodeInstance", node |-> n, instance |-> i]
Parametrise(i)    == [do |-> "setInitParameters", instance |-> i]
Join(n, c, m)     == [do |-> "connect", from |-> n, channel |-> c, to |-> m]
MakeOf(i, t)      == [do |-> "setType", instance |-> i, type |-> t]
TakeFrom(i, g)    == [do |-> "toGroupInterface", instance |-> i, group |-> g]
Reject            == [do |-> "throw"]

NodeCalls(entry) ==
  IF entry.instance = None THEN <<Reject>>
  ELSE <<Create(entry.name, entry.allows), Place(entry.name, entry.instance)>>

\* cgraph knows an attribute of every node as soon as one node sets it: it
\* reads as an empty text elsewhere, which the JSON parser refuses.
Parameters(entry, all) ==
  CASE entry.params = "object" -> <<Parametrise(entry.instance)>>
    [] entry.params = "unset" /\ (\A e \in ToSet(all) : e.params = "unset") -> <<>>
    [] OTHER -> <<Reject>>

EdgeCall(edge) ==
  IF edge.channel = None THEN Reject ELSE Join(edge.from, edge.channel, edge.to)

\* buildDataGraph(): subgraphs, nodes, edges.
BuildCalls(text) ==
  FlattenSeq([k \in DOMAIN text.subgraphs |-> NodeCalls(text.subgraphs[k])])
  \o FlattenSeq([k \in DOMAIN text.nodes |->
       NodeCalls(text.nodes[k]) \o Parameters(text.nodes[k], text.nodes)])
  \o [k \in DOMAIN text.edges |-> EdgeCall(text.edges[k])]

\* The JSON parser keeps the members of an object in the order of their
\* names, whatever their order in the text.
ByName(callsOf) ==
  FlattenSeq([k \in DOMAIN NameOrder |->
    IF NameOrder[k] \in DOMAIN callsOf THEN callsOf[NameOrder[k]] ELSE <<>>])

InterfaceCalls(i, entry) == ByName([user \in entry.users |-> <<TakeFrom(user, i)>>])

OwnParameters(i, entry) ==
  CASE entry.params = "object" -> <<Parametrise(i)>>
    [] entry.params = "unset" -> <<>>
    [] OTHER -> <<Reject>>

OwnImplementation(i, entry) ==
  CASE entry.from \in Types -> <<MakeOf(i, entry.from)>>
    [] entry.from \in Instances -> <<TakeFrom(i, entry.from)>>
    [] OTHER -> <<Reject>>

\* A fault: the interfaces are handed out before the group is made.
InstanceCallsGroupLast(i, entry) ==
  OwnParameters(i, entry) \o InterfaceCalls(i, entry) \o OwnImplementation(i, entry)

\* One turn of implementDataGraph()'s loop.
InstanceCalls(i, entry) ==
  OwnParameters(i, entry) \o OwnImplementation(i, entry) \o InterfaceCalls(i, entry)

ImplementCalls(text) == ByName([i \in DOMAIN text |-> InstanceCalls(i, text[i])])

-----------------------------------------------------------------------------
BuilderInit ==
  /\ Init
  /\ dot \in Architectures
  /\ json = [i \in {} |-> None]
  /\ calls = BuildCalls(dot)
  /\ stage = "building"

Reading == stage \in {"building", "implementing"} /\ UNCHANGED <<dot, json>>

Proceed == calls' = Tail(calls) /\ UNCHANGED stage

\* The exception leaves the function.
Throw ==
  /\ calls' = <<>>
  /\ stage' = IF stage = "building" THEN "no graph" ELSE "half done"

Asked(call) == Reading /\ calls # <<>> /\ Head(calls) = call

DoCreateNode(n, allows) ==
  Asked(Create(n, allows)) /\ CreateNode(n, allows[1], allows[2]) /\ Proceed

DoSetNodeInstance(n, i) == Asked(Place(n, i)) /\ SetNodeInstance(n, i) /\ Proceed

DoSetInitParameters(i) == Asked(Parametrise(i)) /\ SetInitParameters(i) /\ Proceed

DoConnect(n, c, m) ==
  Asked(Join(n, c, m)) /\ Connect(n, c, m, DefaultDelivery) /\ Proceed

\* A fault: the implementation is not held against the nodes of the instance.
FitsUnseen(i, kind) == TRUE

\* validateInstanceImplementation(), which throws but takes nothing back.
Fits(i, kind) ==
  \A n \in DOMAIN nodes : nodes[n].instance = i =>
    /\ nodes[n].allowsIncoming => kind \in Pathables
    /\ nodes[n].allowsOutgoing => kind \in Sources \cup Pathables

\* The factory may throw.  (A type the instance has already makes nothing;
\* each instance gets one here.)
DoSetType(i, t) ==
  /\ Asked(MakeOf(i, t))
  /\ SetType(i, t)
  /\ IF instances'[i].type = t /\ Fits(i, t) THEN Proceed ELSE Throw

\* The interface throws if the group has passed it no context.
DoToGroupInterface(i, g) ==
  /\ Asked(TakeFrom(i, g))
  /\ SetImplementationToGroupInterface(i, g)
  /\ IF instances'[i].impl.context # None THEN Proceed ELSE Throw

\* The group's instance exists, for its init parameters, and has no
\* implementation yet: a null pointer is dereferenced.
CrashOnGroup(i, g) ==
  /\ Asked(TakeFrom(i, g))
  /\ g \in DOMAIN instances
  /\ instances[g].impl = None
  /\ calls' = <<>>
  /\ stage' = "crashed"
  /\ UNCHANGED vars

\* The call throws before it has changed anything.
Refused ==
  \/ Head(calls) = Reject
  \/ \E n \in DOMAIN nodes, k \in NodeKinds : Head(calls) = Create(n, k)
  \/ \E n, m \in DOMAIN nodes, c \in Channels :
       /\ Head(calls) = Join(n, c, m)
       /\ ~ nodes[n].allowsOutgoing \/ ~ nodes[m].allowsIncoming
  \/ \E i, g \in Instances :
       /\ Head(calls) = TakeFrom(i, g)
       \* no such group, or no group, or a group without that interface
       /\ g \in DOMAIN instances => instances[g].impl # None

Refuse == Reading /\ calls # <<>> /\ Refused /\ Throw /\ UNCHANGED vars

Return ==
  /\ Reading
  /\ calls = <<>>
  /\ stage' = IF stage = "building" THEN "built" ELSE "implemented"
  /\ UNCHANGED <<vars, calls>>

Implementing ==
  /\ stage = "built"
  /\ phase # "starting"
  /\ stage' = "implementing"
  /\ json' \in Implementations
  /\ calls' = ImplementCalls(json')
  /\ UNCHANGED <<vars, dot>>

\* The application starts what it has, if it still runs and has a graph.
Starting ==
  /\ stage \in {"built", "implemented", "half done"}
  /\ StartGraph \/ \E n \in Nodes : StartNode(n) \/ StartFails(n)
  /\ UNCHANGED <<dot, json, calls, stage>>

BuildStep ==
  \/ \E n \in Nodes, k \in NodeKinds : DoCreateNode(n, k)
  \/ \E n \in Nodes, i \in Instances : DoSetNodeInstance(n, i)
  \/ \E n, m \in Nodes, c \in Channels : DoConnect(n, c, m)

ImplementStep ==
  \/ \E i \in Instances : DoSetInitParameters(i)
  \/ \E i \in Instances, t \in Types : DoSetType(i, t)
  \/ \E i, g \in Instances : DoToGroupInterface(i, g) \/ CrashOnGroup(i, g)

BuilderNext ==
  BuildStep \/ ImplementStep \/ Refuse \/ Return \/ Implementing \/ Starting

BuilderSpec == BuilderInit /\ [][BuilderNext]_builderVars

-----------------------------------------------------------------------------
\* Who is given an implementation, by its own entry or by a group's.
Implements(call, i) ==
  call.do \in {"setType", "toGroupInterface"} /\ call.instance = i

GraphAsWritten ==
  LET written == dot.subgraphs \o dot.nodes
      edges   == ToSet(dot.edges)
  IN  /\ DOMAIN nodes = {e.name : e \in ToSet(written)}
      /\ \A e \in ToSet(written) :
           /\ nodes[e.name].instance = e.instance
           /\ e.allows = <<nodes[e.name].allowsIncoming, nodes[e.name].allowsOutgoing>>
      /\ \A n \in DOMAIN nodes :
           /\ nodes[n].back = {e.from : e \in {x \in edges : x.to = n}}
           /\ \A c \in Channels :
                LET targets == {e.to : e \in {x \in edges : x.from = n /\ x.channel = c}}
                IN  /\ {x.next : x \in ToSet(nodes[n].forward[c])} = targets
                    /\ Len(nodes[n].forward[c]) = Cardinality(targets)

ImplementedAsWritten ==
  LET done == ImplementCalls(json)
  IN  \A i \in Instances :
        \A k \in {l \in DOMAIN done : Implements(done[l], i)} :
          (\A l \in k + 1 .. Len(done) : ~ Implements(done[l], i)) =>
            /\ instances[i].impl # None
            /\ instances[i].impl.kind =
                 IF done[k].do = "setType" THEN done[k].type ELSE Interface

(***************************************************************************)
(* The graph has the nodes, the instances and the edges of the             *)
(* architecture file, each edge once and known at both ends; and once      *)
(* implementDataGraph() returns, each instance has the implementation that *)
(* the last member to mention it asks for, in the order of the names: not  *)
(* the one its own member asks for, if a later group claims it.            *)
(***************************************************************************)
AsWritten ==
  /\ stage \notin {"building", "no graph"} => GraphAsWritten
  /\ stage = "implemented" => ImplementedAsWritten

(***************************************************************************)
(* The process survives an implementation file in which each group that is *)
(* asked for an interface has a name before that of the one who asks;      *)
(* the order of the members in the text is not what counts.                *)
(***************************************************************************)
GroupsComeFirst ==
  \A i \in DOMAIN json : json[i].from \in Instances =>
    \E k, l \in DOMAIN NameOrder :
      k < l /\ NameOrder[k] = json[i].from /\ NameOrder[l] = i /\ json[i].from \in DOMAIN json

CrashNeedsLateGroup == stage = "crashed" => ~ GroupsComeFirst

(***************************************************************************)
(* startGraph() takes a graph from two files that were accepted, unless a  *)
(* node's instance is not implemented by the second one, two nodes share   *)
(* an instance, or a node has an interface that does not suit it: an       *)
(* interface is not validated, a type is.                                  *)
(***************************************************************************)
Unforeseen ==
  \/ \E n, m \in DOMAIN nodes : n # m /\ nodes[n].instance = nodes[m].instance
  \/ \E n \in DOMAIN nodes :
       /\ ~ Usable(n)
       /\ \/ \A k \in DOMAIN ImplementCalls(json) :
               ~ Implements(ImplementCalls(json)[k], nodes[n].instance)
          \/ Implemented(n) /\ KindOf(n) = Interface

StartsAsWritten ==
  [][(stage = "implemented" /\ phase = "starting" /\ phase' = "editing" /\ Eager = {})
       => Unforeseen]_builderVars
=============================================================================
