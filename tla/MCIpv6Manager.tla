--------------------------- MODULE MCIpv6Manager ---------------------------
(* A small instance of Ipv6Manager for TLC: the main thread asks an        *)
(* address for the device; the OPC UA thread looks the device up first and *)
(* also serves a variable.                                                 *)
EXTENDS Ipv6Manager

CONSTANTS main, opcua, dev, var

MCThreads == {main, opcua}
MCOwners == {dev, var}
MCAllocatesFor == [t \in MCThreads |-> IF t = main THEN {dev} ELSE {dev, var}]
MCChecksFirst == {opcua}

(* The OPC UA thread alone, which asks again after a failed allocation.    *)
MCOpcuaAllocates == [t \in MCThreads |-> IF t = main THEN {} ELSE {var}]
=============================================================================
