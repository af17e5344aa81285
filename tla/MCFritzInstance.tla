-------------------------- MODULE MCFritzInstance ---------------------------
(* Boxes to check the instance with.                                         *)
EXTENDS FritzInstance

\* boxA has what the README measured on a FRITZ!Box 6850 5G, but no second WLAN;
\* boxB is an older one, with the older places for the update state and the
\* host list, and no byte counters.
CONSTANTS boxA, boxB

Newer == {"AvmHostListPath", "UserInterfaceInfo", "ByteCounters", "Wlan24"}
Older == {"StandardHostListPath", "AutoUpdateInfo", "Wlan24", "Wlan5"}

MCImplements == [b \in Endpoint |-> Feature \cap (IF b = boxA THEN Newer ELSE Older)]
=============================================================================
