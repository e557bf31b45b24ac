--------------------------- MODULE MCSensorLoop ---------------------------
(***************************************************************************)
(* Instances of the sensor's loop for TLC: its constants are numbers, which *)
(* the configurations give.                                                *)
(***************************************************************************)
EXTENDS SensorLoop
===========================================================================
