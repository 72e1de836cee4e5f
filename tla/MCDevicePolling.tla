--------------------------- MODULE MCDevicePolling ---------------------------
(* Small instances of DevicePolling for TLC: the status of one device is   *)
(* read in the first of two blocks, that of the other in the second.       *)
EXTENDS DevicePolling

MCStatusBlock == <<1, 2>>

MCFewVariables == <<1, 0>>

(* Two variables, for what two addressless variables do to each other. *)
MCTwoVariables == <<2, 0>>
=============================================================================
