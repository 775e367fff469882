--------------------------- MODULE MCGraphBuilding ---------------------------
(***************************************************************************)
(* Three nodes that share two instances, for TLC.  A node is made for a    *)
(* source or for a sink; "once" is a type of the factory that pushes as it *)
(* is started; "pass" is what the application brings, a group whose        *)
(* interfaces are like itself and take one context only.                   *)
(***************************************************************************)
EXTENDS GraphBuilding, TLC

CONSTANTS once, pass, g1, n1, n2, n3, i1, i2, c1, direct

SourceOrSink == {<<FALSE, TRUE>>, <<TRUE, FALSE>>}

\* The names are interchangeable.
Names == Permutations({n1, n2, n3}) \cup Permutations({i1, i2})
=============================================================================
