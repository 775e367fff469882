--------------------------- MODULE MCPacketRouting ---------------------------
(***************************************************************************)
(* A small graph with every kind of edge, for TLC:                         *)
(*                                                                         *)
(*      a --direct--> b      on the thread of group g1                     *)
(*      a --queue --> d      d in g1: queued although on the same thread   *)
(*      a ----------> c      c in g2: "direct", but on another thread      *)
(*      b ----------> c                                                    *)
(*      c ----------> a      back across threads                           *)
(***************************************************************************)
EXTENDS PacketRoutingRefinement

CONSTANTS a, b, c, d, g1, g2, x, ch, k

Direct(n) == [next |-> n, delivery |-> "PushDirectlyToTarget"]
Queued(n) == [next |-> n, delivery |-> "AlwaysQueue"]

EdgesOf(n) ==
  CASE n = a -> <<Direct(b), Queued(d), Direct(c)>>
    [] n = b -> <<Direct(c)>>
    [] n = c -> <<Direct(a)>>
    [] n = d -> <<>>

FullNodes == {a, b, c, d}
FullEdges == [n \in FullNodes |-> [h \in {ch} |-> EdgesOf(n)]]

HomeOf(n) == IF n = c THEN g2 ELSE g1
FullGroups == [n \in FullNodes |-> HomeOf(n)]

\* The application's thread, and g1's own timers, push for a.
AnySource == {<<x, a>>, <<g1, a>>}

\* A node of g1 that also pushes from a background thread of its own.
SharedSource == {<<x, a>>}

\* A smaller graph for long chains of calls: a and b call one another, both
\* reach c across threads, and c calls d.
LoopEdgesOf(n) ==
  CASE n = a -> <<Direct(b), Direct(c)>>
    [] n = b -> <<Direct(a)>>
    [] n = c -> <<Direct(d)>>
    [] n = d -> <<Queued(a)>>

LoopEdges == [n \in FullNodes |-> [h \in {ch} |-> LoopEdgesOf(n)]]
LoopGroups == [n \in FullNodes |-> IF n \in {a, b} THEN g1 ELSE g2]
LoopSource == {<<g1, a>>, <<g2, c>>}

\* Handlers that end another node's requests: b's on the thread of a's group,
\* in the middle of a push for a; d's from packetReady(), in the middle of one
\* for c in the smaller graph.
BorrowedWithin == [n \in FullNodes |-> IF n = b THEN {a, c} ELSE {}]
BorrowedLater  == [n \in FullNodes |-> IF n = d THEN {a} ELSE {}]
LoopBorrowed   == [n \in FullNodes |-> IF n = d THEN {c} ELSE {}]

\* Parameters: none at all as Packet() makes them, an empty object, one key.
Empty == [h \in {} |-> 1]
One   == [h \in {k} |-> 1]
NullOrOne == {Null, One}
NullEmptyOrOne == {Null, Empty, One}
OnlyEmpty == {Empty}
=============================================================================
