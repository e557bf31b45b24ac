-------------------------- MODULE MCLightSession --------------------------
(***************************************************************************)
(* Instances of LightSession for TLC: its constants are numbers, which the *)
(* configurations give.  Controllers are slots of a table that is walked   *)
(* from the first to the last, so that they are not symmetric.             *)
(***************************************************************************)
EXTENDS LightSession
===========================================================================
