--------------------------- MODULE MCTcpConnections ---------------------------
(***************************************************************************)
(* Two connections and two write requests, for TLC: each connection may be *)
(* accepted or made.                                                       *)
(***************************************************************************)
EXTENDS TcpConnections

CONSTANTS c1, c2, r1, r2
=============================================================================
