--------------------------- MODULE ContextualRouter ---------------------------
(***************************************************************************)
(* The contextual node (src/nodes/ContextualNode.cpp): an implementation   *)
(* of its type for every context, a value of the key parameter, made when  *)
(* the first packet of the context comes.  A type that is a group has one  *)
(* router per interface, and an instance of it takes a place in each.      *)
(*                                                                         *)
(* The routers run on one uv thread.  Whenever application code runs on    *)
(* it, in a handler or in a source that is given its pusher, the packets   *)
(* it pushes may be back at a router before it returns: the stack.         *)
(***************************************************************************)
EXTENDS Naturals, Sequences, FiniteSets

CONSTANTS
  Contexts,   \* values of the key parameter
  Types,      \* what the type in initParameters may be
  Instances,  \* the implementations the factory makes: a bound
  MaxDepth,   \* how deep packets come back to the routers: a bound
  None

\* The names on a sequence.
Members(s) == {s[j] : j \in DOMAIN s}

Interfaces == UNION {Members(t.interfaces) : t \in Types}

\* A type that is no group has one "interface", itself.  An eager source
\* pushes as it is given its pusher; the interfaces in single share a context
\* and throw at a second one (UvTcpConnectionGroup.cpp:801).
ASSUME TypesAssumption == \A t \in Types :
  /\ t.group \in BOOLEAN
  /\ t.interfaces \in Seq(Members(t.interfaces))
  /\ t.interfaces # <<>>
  /\ \A j, l \in DOMAIN t.interfaces : t.interfaces[j] = t.interfaces[l] => j = l
  /\ ~ t.group => Len(t.interfaces) = 1
  /\ t.eager \subseteq t.sources
  /\ t.sources \cup t.pathables \cup t.single \subseteq Members(t.interfaces)

ASSUME NoneAssumption == None \notin Contexts \cup Instances

ASSUME DepthAssumption == MaxDepth \in Nat

VARIABLES
  type,     \* mType
  owners,   \* who is there: "impl" (ContextualNode::Impl), "group" (its router)
  routers,  \* keys of CohesiveGroupRouter::mNodeRouters
  given,    \* the routers whose mPacketPusher is set
  nodes,    \* mNodes of each router
  reverse,  \* mReverseNodeLookup of each router
  madeFor,  \* the context an instance was made for, None if it is not made
  pushers,  \* <<router, instance>> with a pusher
  stack,    \* the activations of handlePacket(), the last one on top
  crashed,  \* the process is gone
  removed   \* history: <<router, instance>> reported by "Removed Key"

tables == <<routers, nodes, reverse>>
vars == <<type, owners, given, tables, madeFor, pushers, stack, crashed, removed>>

\* handlePacket() is adding its instance to the routers left, or is in the
\* handler of its instance; calls says that application code may push.
Frame ==
  [at : {"adding", "handling"}, router : Interfaces, context : Contexts,
   instance : Instances, left : Seq(Interfaces), calls : BOOLEAN]

Init ==
  /\ type \in Types
  /\ owners = {"impl", "group"}
  /\ routers = Members(type.interfaces)
  /\ given = {}
  /\ nodes = [f \in Interfaces |-> [k \in Contexts |-> None]]
  /\ reverse = [f \in Interfaces |-> [i \in Instances |-> None]]
  /\ madeFor = [i \in Instances |-> None]
  /\ pushers = {}
  /\ stack = <<>>
  /\ crashed = FALSE
  /\ removed = {}

Depth == Len(stack)
Top == stack[Depth]

\* Code outside of the routers is running, and what it pushes may come here.
Outside == stack # <<>> => Top.calls

Call(frame) == Depth < MaxDepth /\ stack' = Append(stack, frame)

\* After what is undefined the process may be gone.
Defined   == ~ crashed /\ UNCHANGED crashed
Undefined == ~ crashed /\ crashed' \in BOOLEAN
Crash     == ~ crashed /\ crashed' = TRUE

\* An exception goes up to code that may catch it; one that leaves the uv
\* callback ends the process.
Throw == \E d \in 0..(Depth - 1) :
  /\ d # 0 => stack[d].calls
  /\ stack' = SubSeq(stack, 1, d)
  /\ IF d = 0 THEN Undefined ELSE Defined

Handling(f, k, i) ==
  [at |-> "handling", router |-> f, context |-> k, instance |-> i,
   left |-> <<>>, calls |-> TRUE]

\* A fault: an instance takes a place only where its first packet came.
AddingOne(f, k, i) ==
  [at |-> "adding", router |-> f, context |-> k, instance |-> i,
   left |-> <<f>>, calls |-> FALSE]

Adding(f, k, i) ==
  [at |-> "adding", router |-> f, context |-> k, instance |-> i,
   left |-> type.interfaces, calls |-> FALSE]

-----------------------------------------------------------------------------
\* SingleNodeRouter::handlePacket() of a context that has an instance.
HandlePacket(f, k) ==
  /\ Defined
  /\ Outside
  /\ f \in type.pathables
  /\ nodes[f][k] # None
  /\ Call(Handling(f, k, nodes[f][k]))
  /\ UNCHANGED <<type, owners, given, tables, madeFor, pushers, removed>>

\* A fault: the template made by Impl::initialize() is the first instance, ever
\* again.
CreateFromTemplate(f, k, i) ==
  /\ Defined
  /\ Outside
  /\ f \in type.pathables
  /\ nodes[f][k] = None
  /\ "impl" \in owners
  /\ type.group => "group" \in owners
  /\ madeFor' = [madeFor EXCEPT ![i] = k]
  /\ Call(Adding(f, k, i))
  /\ UNCHANGED <<type, owners, given, tables, pushers, removed>>

\* handlePacket() of a new context: Impl::createNewInstance(), reached through
\* the group's router if there is one.
CreateNewInstance(f, k, i) ==
  /\ Defined
  /\ Outside
  /\ f \in type.pathables
  /\ nodes[f][k] = None
  /\ "impl" \in owners
  /\ type.group => "group" \in owners
  /\ madeFor[i] = None
  /\ madeFor' = [madeFor EXCEPT ![i] = k]
  /\ Call(Adding(f, k, i))
  /\ UNCHANGED <<type, owners, given, tables, pushers, removed>>

\* The group's router is there and the Impl is not: nobody creates anything,
\* and mNodes[contextLookup] is null.  (With its own creator gone a router
\* drops the packet and changes nothing.)
CreatorGone(f, k) ==
  /\ Outside
  /\ f \in type.pathables
  /\ nodes[f][k] = None
  /\ type.group /\ owners = {"group"}
  /\ Crash
  /\ UNCHANGED <<type, owners, given, tables, madeFor, pushers, stack, removed>>

\* The router f is the first context an instance is given, or it takes many.
NewContext(f, left) ==
  ~ \E g \in type.single \cap (Members(type.interfaces) \ Members(left)) : f \in type.single

\* A fault: the instance is not noted in the reverse table.
EnterHalf(f) ==
  /\ nodes' = [nodes EXCEPT ![f][Top.context] = Top.instance]
  /\ UNCHANGED reverse

\* The instance takes its place in the tables of router f.
Enter(f) ==
  /\ nodes' = [nodes EXCEPT ![f][Top.context] = Top.instance]
  /\ reverse' = [reverse EXCEPT ![f][Top.instance] = Top.context]

\* A source gets the router's pusher, which may be null.
GivePusher(f) ==
  pushers' = IF f \in type.sources /\ f \in given
             THEN pushers \cup {<<f, Top.instance>>} ELSE pushers

\* The router f is done; its source may be pushing.
Moved(f) == [Top EXCEPT !.left = Tail(@), !.calls = f \in type.eager]

\* SingleNodeRouter::addNode(); for a group, one turn of its router's loop.
AddNode ==
  /\ stack # <<>>
  /\ Top.at = "adding"
  /\ Top.left # <<>>
  /\ LET f == Head(Top.left)
     IN  /\ f \in routers
         /\ Enter(f)
         /\ \/ /\ ~ NewContext(f, Top.left)
               /\ Throw
               /\ UNCHANGED pushers
            \/ /\ NewContext(f, Top.left)
               /\ GivePusher(f)
               /\ stack' = [stack EXCEPT ![Depth] = Moved(f)]
               /\ IF f \in type.eager \ given THEN Crash ELSE Defined
  /\ UNCHANGED <<type, owners, given, routers, madeFor, removed>>

\* A router of the group has been erased: mNodeRouters[subnodeName] is null.
AddNodeToErased ==
  /\ stack # <<>>
  /\ Top.at = "adding"
  /\ Top.left # <<>>
  /\ Head(Top.left) \notin routers
  /\ Crash
  /\ UNCHANGED <<type, owners, given, tables, madeFor, pushers, stack, removed>>

\* A fault: what it finds is not null.
AddedSurely ==
  /\ stack # <<>>
  /\ Top.at = "adding"
  /\ Top.left = <<>>
  /\ Defined
  /\ stack' = [stack EXCEPT ![Depth] =
       Handling(Top.router, Top.context, nodes[Top.router][Top.context])]
  /\ UNCHANGED <<type, owners, given, tables, madeFor, pushers, removed>>

\* handlePacket() looks the new instance up, and dereferences it even if a
\* packet that came back has removed it.
Added ==
  /\ stack # <<>>
  /\ Top.at = "adding"
  /\ Top.left = <<>>
  /\ LET i == nodes[Top.router][Top.context]
     IN  IF i = None
         THEN Crash /\ UNCHANGED stack
         ELSE /\ Defined
              /\ stack' = [stack EXCEPT ![Depth] = Handling(Top.router, Top.context, i)]
  /\ UNCHANGED <<type, owners, given, tables, madeFor, pushers, removed>>

HandlerReturns ==
  /\ Defined
  /\ stack # <<>>
  /\ Top.at = "handling"
  /\ stack' = SubSeq(stack, 1, Depth - 1)
  /\ UNCHANGED <<type, owners, given, tables, madeFor, pushers, removed>>

\* A handler throws, a source does as it pushes, or the factory does when
\* they push a packet of a new context.
CodeThrows ==
  /\ stack # <<>>
  /\ Top.calls
  /\ Throw
  /\ UNCHANGED <<type, owners, given, tables, madeFor, pushers, removed>>

\* The parameters are an object without the key.
HandleWithoutKey ==
  /\ Undefined
  /\ Outside
  /\ UNCHANGED <<type, owners, given, tables, madeFor, pushers, stack, removed>>

-----------------------------------------------------------------------------
\* A fault: an instance at work keeps its entries.
ForgetIdle(k, from) ==
  LET idle == {f \in from : \A d \in DOMAIN stack : stack[d].instance # nodes[f][k]}
  IN  /\ nodes' = [f \in Interfaces |->
           IF f \in idle THEN [nodes[f] EXCEPT ![k] = None] ELSE nodes[f]]
      /\ reverse' = [f \in Interfaces |-> [i \in Instances |->
           IF f \in idle /\ i = nodes[f][k] THEN None ELSE reverse[f][i]]]

\* The entries of a context in the tables of the routers in from.
Forget(k, from) ==
  /\ nodes' = [f \in Interfaces |->
       IF f \in from THEN [nodes[f] EXCEPT ![k] = None] ELSE nodes[f]]
  /\ reverse' = [f \in Interfaces |-> [i \in Instances |->
       IF f \in from /\ i = nodes[f][k] THEN None ELSE reverse[f][i]]]

\* CohesiveGroupRouter::removeNode() looks for the context among the names of
\* its routers, and erases the router of that name.
Finds(k) == type.group => "group" \in owners /\ k \in routers

\* A packet to the remover, ContextRemover::handlePacket().
Remove(k) ==
  /\ Defined
  /\ Outside
  /\ Forget(k, IF Finds(k) THEN routers ELSE {})
  /\ routers' = IF type.group /\ Finds(k) THEN routers \ {k} ELSE routers
  /\ removed' = removed \cup
       {<<f, nodes[f][k]>> : f \in {g \in Members(type.interfaces) : nodes[g][k] # None}}
  /\ UNCHANGED <<type, owners, given, madeFor, pushers, stack>>

\* A fault: the sources there are have been given theirs already.
SetPacketPusherLate(f) ==
  /\ Defined
  /\ Outside
  /\ f \in type.sources
  /\ given' = given \cup {f}
  /\ UNCHANGED <<type, owners, tables, madeFor, pushers, stack, removed>>

\* startGraph(), on another thread: what an eager source pushes is queued.
SetPacketPusher(f) ==
  /\ Defined
  /\ Outside
  /\ f \in type.sources
  /\ given' = given \cup {f}
  /\ pushers' = pushers \cup
       {<<f, nodes[f][k]>> : k \in {l \in Contexts : nodes[f][l] # None}}
  /\ UNCHANGED <<type, owners, tables, madeFor, stack, removed>>

\* The instance that holds the contextual node, or the one that holds its
\* group's router, is given another implementation.
Release(owner) ==
  /\ Defined
  /\ stack = <<>>
  /\ owner \in owners
  /\ owner = "group" => "impl" \notin owners
  /\ owners' = owners \ {owner}
  /\ UNCHANGED <<type, given, tables, madeFor, pushers, stack, removed>>

Next ==
  \/ \E f \in Interfaces, k \in Contexts :
       \/ HandlePacket(f, k)
       \/ \E i \in Instances : CreateNewInstance(f, k, i)
       \/ CreatorGone(f, k)
  \/ AddNode \/ AddNodeToErased \/ Added
  \/ HandlerReturns \/ CodeThrows \/ HandleWithoutKey
  \/ \E k \in Contexts : Remove(k)
  \/ \E f \in Interfaces : SetPacketPusher(f)
  \/ \E owner \in owners : Release(owner)

Spec == Init /\ [][Next]_vars

-----------------------------------------------------------------------------
TypeOK ==
  /\ type \in Types
  /\ owners \subseteq {"impl", "group"}
  /\ routers \subseteq Members(type.interfaces)
  /\ given \subseteq type.sources
  /\ nodes \in [Interfaces -> [Contexts -> Instances \cup {None}]]
  /\ reverse \in [Interfaces -> [Instances -> Contexts \cup {None}]]
  /\ madeFor \in [Instances -> Contexts \cup {None}]
  /\ pushers \subseteq type.sources \X Instances
  /\ stack \in Seq(Frame)
  /\ Depth <= MaxDepth
  /\ crashed \in BOOLEAN
  /\ removed \subseteq Interfaces \X Instances

(***************************************************************************)
(* An instance in a router's table is in its reverse table, under its      *)
(* context: removeNode() erases what find() found there, unasked.          *)
(***************************************************************************)
TablesMirror == \A f \in Interfaces, k \in Contexts :
  nodes[f][k] # None => reverse[f][nodes[f][k]] = k

(***************************************************************************)
(* The instances of two contexts are two: whatever packets come back while *)
(* one is made, an instance handles packets of the context it was made for *)
(* and of no other.                                                        *)
(***************************************************************************)
ContextsApart ==
  /\ \A f \in Interfaces, k \in Contexts : nodes[f][k] # None => madeFor[nodes[f][k]] = k
  /\ \A d \in DOMAIN stack : madeFor[stack[d].instance] = stack[d].context

(***************************************************************************)
(* Once a router of sources has its pusher, so has every instance in its   *)
(* table, made before or after.  One that threw at its subgraph context    *)
(* was never asked whether it is a source.                                 *)
(***************************************************************************)
SourcesKnowPusher == \A f \in given \ type.single, k \in Contexts :
  nodes[f][k] # None => <<f, nodes[f][k]>> \in pushers

(***************************************************************************)
(* The routers of a group route a context to one and the same instance of  *)
(* the group, unless its sources push while it takes its places or its     *)
(* interfaces refuse them.  A context with the name of an interface is     *)
(* none the code can tell from that.                                       *)
(***************************************************************************)
GroupsCohere ==
  type.eager = {} /\ type.single = {} /\ (stack # <<>> => Top.at # "adding") =>
    \A f, g \in Members(type.interfaces), k \in Contexts \ Interfaces : nodes[f][k] = nodes[g][k]

\* Instances that a packet to the remover was to remove, and that are routed to.
StillRouted == {x \in removed : \E k \in Contexts : nodes[x[1]][k] = x[2]}

(***************************************************************************)
(* Without a group, a packet to the remover is the end of its instance:    *)
(* no later packet reaches it, and the context's next one gets another.    *)
(***************************************************************************)
RemovedIsGone == type.group \/ StillRouted = {}
=============================================================================
