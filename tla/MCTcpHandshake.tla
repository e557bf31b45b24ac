--------------------------- MODULE MCTcpHandshake ---------------------------
(***************************************************************************)
(* An instance of TcpHandshake for TLC: the constants are numbers and the  *)
(* model value Stranger.  Controllers start in their order, which takes    *)
(* the place of a symmetry.                                                *)
(***************************************************************************)
EXTENDS TcpHandshake
=============================================================================
