--------------------------- MODULE MCUdpDevices ---------------------------
(***************************************************************************)
(* Instances of UdpDevices for TLC: a cool and a hot temperature, and a    *)
(* timeout of one second, so that an age is fresh, at the limit or over it.*)
(***************************************************************************)
EXTENDS UdpDevices, TLC

CONSTANTS s1, s2, s3, cool, hot

OneSensor == {s1}
TwoSensors == {s1, s2}
ThreeSensors == {s1, s2, s3}
ThreeSymmetric == Permutations(ThreeSensors)
CoolAndHot == {cool, hot}
OnlyHot == {hot}
NoTemps == {}

\* The server while nobody stops it and nobody asks for a list.
Serving == Init /\ [][Next /\ ~shutdown_flag' /\ pc'["main"] = "ui"]_vars
===========================================================================
