---------------------------- MODULE MCDeviceTable ----------------------------
(* DeviceTable for TLC: every file of up to four rows of two devices, with *)
(* rows cut short or without a name of their own.                          *)
EXTENDS DeviceTable

MaxRows == 4

MCRows == [name : Devices \cup {Plain, Null}, whole : BOOLEAN]
          \cup {[name |-> Short, whole |-> FALSE]}
MCTables == UNION {[1..n -> MCRows] : n \in 0..MaxRows}
=============================================================================
