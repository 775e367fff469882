---------------------------- MODULE MCUvLoopRunner ----------------------------
(***************************************************************************)
(* Two waiters and two handles besides the runner's own, for TLC.          *)
(***************************************************************************)
EXTENDS UvLoopRunner

CONSTANTS w1, w2
=============================================================================
