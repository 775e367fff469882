---------------------------- MODULE MCGraphBuilder ----------------------------
(***************************************************************************)
(* Two or three nodes over three instances i1 < i2 < i3, for TLC: a DOT    *)
(* text with a subgraph, edges twice on one channel or to the node itself, *)
(* attributes that are missing; every JSON text with one kind of group,    *)
(* a plain type, and users of the group before and after it by name.       *)
(***************************************************************************)
EXTENDS GraphBuilder

CONSTANTS group, sink, source, port, n1, n2, n3, i1, i2, i3, c1, c2, direct, queued

Names == <<i1, i2, i3>>

AllKinds == BOOLEAN \X BOOLEAN

Node(n, i, in, out, p) ==
  [name |-> n, instance |-> i, allows |-> <<in, out>>, params |-> p]
Line(n, c, m) == [from |-> n, channel |-> c, to |-> m]

\* A cluster for the group, a source and a sink.
Cluster(edges, i, p) ==
  [subgraphs |-> <<Node(n3, i1, FALSE, FALSE, "unset")>>,
   nodes |-> <<Node(n1, i, TRUE, TRUE, p), Node(n2, i3, TRUE, FALSE, p)>>,
   edges |-> edges]

Texts ==
  {Cluster(<<Line(n1, c1, n2), Line(n1, c, m)>>, i, p) :
     c \in {c1, c2, None}, m \in {n1, n2}, i \in {i1, i2}, p \in {"unset", "object"}}
  \cup
  {[Cluster(<<Line(n1, c1, n2)>>, i2, "unset") EXCEPT !.nodes = Append(@, last)] :
     last \in {Node(n3, i2, TRUE, TRUE, "unset")}}
  \cup
  {[subgraphs |-> <<>>,
    nodes |-> <<Node(n1, i1, FALSE, TRUE, p), Node(n2, i, TRUE, FALSE, q)>>,
    edges |-> <<Line(n, c1, m)>>] :
     i \in {i2, None}, n \in {n1, n2}, m \in {n1, n2},
     p \in {"object", "other"}, q \in {"unset", "object"}}

\* Only a group has users worth writing; the instance in the middle of the
\* order exists early if it has parameters.
Members(i) ==
  [params : IF i = i2 THEN {"unset", "object"} ELSE {"unset"},
   from : {group}, users : {{}, {i2}, {i1, i3}}]
  \cup
  [params : {"unset"}, from : {sink, source, i1, i2}, users : {{}}]

Objects ==
  {f \in [{i1, i2, i3} -> Members(i1) \cup Members(i2) \cup {None}] :
     \A i \in {i1, i2, i3} : f[i] \in Members(i) \cup {None}}

Written(f) == [i \in {j \in DOMAIN f : f[j] # None} |-> f[i]]

Files ==
  {Written(f) : f \in Objects} \cup
  {[i \in {i1} |-> [params |-> p, from |-> None, users |-> {}]] : p \in {"object", "other"}}
=============================================================================
