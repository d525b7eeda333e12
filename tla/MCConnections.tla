--------------------------- MODULE MCConnections ---------------------------
(* Instances of Connections for TLC.                                       *)
EXTENDS Connections

CONSTANTS a             \* a remote attempt

MCOneAttempt == {a}
MCSettings == {{"outage"}, {"badmap", "outage", "late"}}
MCLate == {{"late"}}
MCBadMap == {{"badmap"}}
=============================================================================
