---------------------------- MODULE MCBufferPipeline ----------------------------
(***************************************************************************)
(* Two poppers, two sizes, a limit of two and memory for five, for TLC:    *)
(* enough for a pool that has grown while buffers of before are out.       *)
(***************************************************************************)
EXTENDS BufferPipeline

CONSTANTS p1, p2
=============================================================================
