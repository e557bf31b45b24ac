------------------------- MODULE SensorDirectory -------------------------
(***************************************************************************)
(* What the server promises about temperature sensors, with no table, no   *)
(* slots and no threads: every sensor is either unknown to the server, or  *)
(* registered and then has one current reading.  A sensor registers while  *)
(* there is room, a report changes the reading of the reporting sensor     *)
(* only, and a sensor leaves on its own.                                   *)
(***************************************************************************)
EXTENDS Naturals, FiniteSets

CONSTANTS
  Sensors,   \* the addresses temperature sensors send from
  Temps,     \* the temperatures they report
  NoTemp,    \* the reading of a sensor that has not reported yet
  Absent,    \* the status of a sensor the server does not know
  Capacity   \* how many sensors the server can know at once

VARIABLE status

Known == {s \in Sensors : status[s] # Absent}

Init == status = [s \in Sensors |-> Absent]

Register(s) ==
  /\ s \notin Known
  /\ Cardinality(Known) < Capacity
  /\ status' = [status EXCEPT ![s] = NoTemp]

Report(s, t) ==
  /\ s \in Known
  /\ status' = [status EXCEPT ![s] = t]

Forget(s) ==
  /\ s \in Known
  /\ status' = [status EXCEPT ![s] = Absent]

Next == \E s \in Sensors : \/ Register(s)
                           \/ \E t \in Temps : Report(s, t)
                           \/ Forget(s)

Spec == Init /\ [][Next]_status
===========================================================================
