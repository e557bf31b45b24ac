--------------------------- MODULE MCRingBuffer ---------------------------
(***************************************************************************)
(* RingBuffer for TLC: three slots and two messages, so that the ring fills *)
(* and wraps and a message can be told from its neighbour.                 *)
(***************************************************************************)
EXTENDS RingBuffer
===========================================================================
