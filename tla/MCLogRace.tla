----------------------------- MODULE MCLogRace -----------------------------
(***************************************************************************)
(* An instance of LogRace for TLC: the five threads of the server that log *)
(* (all but the writer of the file are alike).                             *)
(***************************************************************************)
EXTENDS LogRace, TLC

CONSTANTS getter, monitor, accepter, main

AllLoggers == {getter, monitor, accepter, main, stats}
Symmetric == Permutations(Loggers \ {stats})
===========================================================================
