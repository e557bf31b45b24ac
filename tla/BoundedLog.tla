---------------------------- MODULE BoundedLog ----------------------------
(***************************************************************************)
(* What the server's log promises, with no ring: it keeps the latest SIZE  *)
(* messages in the order in which they were logged, and the log file is a  *)
(* copy of them that is brought up to date from time to time.              *)
(***************************************************************************)
EXTENDS Naturals, Sequences

CONSTANTS
  SIZE,      \* messages kept
  Messages   \* what is logged

VARIABLES log, file

Init == log = <<>> /\ file = <<>>

Push(m) ==
  /\ log' = IF Len(log) < SIZE THEN Append(log, m) ELSE Append(Tail(log), m)
  /\ UNCHANGED file

\* An empty log leaves the file alone.
WriteToFile ==
  /\ log # <<>>
  /\ file' = log
  /\ UNCHANGED log

Next == WriteToFile \/ \E m \in Messages : Push(m)

Spec == Init /\ [][Next]_<<log, file>>
===========================================================================
